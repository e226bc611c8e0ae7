-------------------------- MODULE FreeList_proofs --------------------------
(***************************************************************************)
(* The counts and the list of FreeList, for any number of threads and of   *)
(* blocks: a block has exactly the references that are counted, none is    *)
(* lost, and the list implements FreePool.                                 *)
(***************************************************************************)
EXTENDS FreeList, FiniteSetTheorems, TLAPS

Marked == {"push_load", "push_next", "push_refs"}
Pushes == Marked \cup {"push_cas", "push_undo"}
Holds == {"get_next", "get_cas", "get_sub2", "get_dec"}
Looks == Holds \cup {"get_refs", "get_inc"}

\* What a thread's locals say of the shared state.
Locals ==
  \A t \in Callers :
    /\ flpc[t] = "idle" => head[t] = null
    /\ flpc[t] \in Looks => head[t] \in Nodes
    /\ flpc[t] \in Pushes => node[t] \in Nodes
    /\ flpc[t] = "get_inc" => refs[t] \notin {0, SHOULD_BE_ON_FREELIST}
    /\ flpc[t] = "get_cas" => next[t] = freeListNext[head[t]]
    /\ flpc[t] \in {"push_refs", "push_cas"} => freeListNext[node[t]] = expected[t]

\* The list is one chain: no node is the next of two, and the head is no node's.
Chain ==
  \A n \in Listed :
    /\ freeListNext[n] # null => freeListNext[n] # freeListHead
    /\ \A m \in Listed :
         freeListNext[m] = freeListNext[n] /\ freeListNext[n] # null => m = n

\* A block that is nobody's is on the list, or with the one thread that puts it
\* there, or with the one that took it off.
Claims ==
  /\ \A n \in Listed : owner[n] = Pooled
  /\ \A t \in Callers : flpc[t] \in Pushes =>
       /\ owner[node[t]] = Pooled
       /\ node[t] \notin Listed
       /\ \A u \in Callers : flpc[u] \in Pushes /\ node[u] = node[t] => u = t
       /\ \A u \in Callers : flpc[u] = "get_sub2" => head[u] # node[t]
  /\ \A t \in Callers : flpc[t] = "get_sub2" =>
       /\ owner[head[t]] = Pooled
       /\ head[t] \notin Listed
       /\ \A u \in Callers : flpc[u] = "get_sub2" /\ head[u] = head[t] => u = t

\* Only an unheld block is marked to be pushed, and a block given up while
\* held is left to its last holder.
Unheld == \A t \in Callers : flpc[t] \in Marked => Holders(node[t]) = {}
Pending ==
  \A n \in Nodes :
    owner[n] = Pooled /\ ~ListHolds(n) /\ Holders(n) = {} =>
      \E t \in Callers : flpc[t] \in Marked /\ node[t] = n

FreeListInv ==
  FreeListType /\ Locals /\ Chain /\ Claims /\ Unheld /\ Pending /\ RefCount

-----------------------------------------------------------------------------
(* Lists *)

\* The head is on the list and so is the next of what is on it.
LEMMA ListClosed ==
  ASSUME NEW h \in Nodes \cup {null}, NEW nx \in [Nodes -> Nodes \cup {null}]
  PROVE  Chained(ListFrom(h, nx), h, nx)
BY DEF ListFrom, Chained

LEMMA ListPush ==
  ASSUME NEW h \in Nodes \cup {null}, NEW nx \in [Nodes -> Nodes \cup {null}],
         NEW n \in Nodes, nx[n] = h
  PROVE  ListFrom(n, nx) = ListFrom(h, nx) \cup {n}
<1> DEFINE L == ListFrom(h, nx)
<1>1. Chained(L \cup {n}, n, nx)
  BY ListClosed DEF Chained
<1>2. L \cup {n} \in SUBSET Nodes
  BY DEF ListFrom
<1>3. \A S \in SUBSET Nodes : Chained(S, n, nx) => n \in S /\ Chained(S, h, nx)
  BY FreeListAssumption DEF Chained
<1> QED
  BY <1>1, <1>2, <1>3 DEF ListFrom

\* What is taken off is the head alone, unless the list leads back to it.
LEMMA ListPop ==
  ASSUME NEW h \in Nodes, NEW nx \in [Nodes -> Nodes \cup {null}],
         \A m \in ListFrom(h, nx) : nx[m] # h
  PROVE  ListFrom(nx[h], nx) = ListFrom(h, nx) \ {h}
<1> DEFINE L == ListFrom(h, nx)
<1>1. Chained(L \ {h}, nx[h], nx)
  BY ListClosed, FreeListAssumption DEF Chained
<1>2. L \in SUBSET Nodes
  BY DEF ListFrom
<1>3. \A S \in SUBSET Nodes : Chained(S, nx[h], nx) => Chained(S \cup {h}, h, nx)
  BY DEF Chained
<1>4. \A S \in SUBSET Nodes : Chained(S, nx[h], nx) => L \subseteq S \cup {h}
  BY <1>3 DEF ListFrom
<1> QED
  BY <1>1, <1>2, <1>4 DEF ListFrom

\* What a node that is not on the list points to does not matter.
LEMMA ListSame ==
  ASSUME NEW h \in Nodes \cup {null}, NEW nx \in [Nodes -> Nodes \cup {null}], NEW ny,
         NEW n \in Nodes, n \notin ListFrom(h, nx), \A m \in Nodes \ {n} : ny[m] = nx[m]
  PROVE  ListFrom(h, ny) = ListFrom(h, nx)
<1> DEFINE L == ListFrom(h, nx)
<1>1. Chained(L, h, ny) /\ L \in SUBSET Nodes
  BY ListClosed DEF Chained, ListFrom
<1>2. \A S \in SUBSET Nodes : Chained(S, h, ny) => Chained(S \cap L, h, nx)
  BY <1>1, ListClosed DEF Chained
<1>3. \A S \in SUBSET Nodes : Chained(S, h, ny) => L \subseteq S
  BY <1>2 DEF ListFrom
<1> QED
  BY <1>1, <1>3 DEF ListFrom

-----------------------------------------------------------------------------
(* References *)

LEMMA SomeCallers ==
  ASSUME NEW H \in SUBSET Callers
  PROVE  /\ IsFiniteSet(H)
         /\ Cardinality(H) \in Nat
         /\ Cardinality(H) + 1 < SHOULD_BE_ON_FREELIST
         /\ Cardinality(H) = 0 <=> H = {}
         /\ SHOULD_BE_ON_FREELIST \in Nat
<1>1. IsFiniteSet(Callers)
  BY FreeListAssumption
<1>2. IsFiniteSet(H) /\ Cardinality(H) <= Cardinality(Callers)
  BY <1>1, FS_Subset
<1>3. /\ Cardinality(H) \in Nat /\ Cardinality(Callers) \in Nat
      /\ Cardinality(H) = 0 <=> H = {}
  BY <1>1, <1>2, FS_CardinalityType, FS_EmptySet
<1> QED
  BY <1>2, <1>3, FreeListAssumption

LEMMA HoldersCount ==
  ASSUME NEW n
  PROVE  /\ IsFiniteSet(Holders(n))
         /\ Cardinality(Holders(n)) \in Nat
         /\ Cardinality(Holders(n)) + 1 < SHOULD_BE_ON_FREELIST
         /\ Cardinality(Holders(n)) = 0 <=> Holders(n) = {}
         /\ SHOULD_BE_ON_FREELIST \in Nat
<1>1. Holders(n) \in SUBSET Callers
  BY DEF Holders
<1> QED
  BY <1>1, SomeCallers

\* What the list, or the mark, adds to the count of a node.
Weight(n) ==
  IF owner[n] # Pooled THEN 0 ELSE IF ListHolds(n) THEN 1 ELSE SHOULD_BE_ON_FREELIST

LEMMA Counted ==
  ASSUME FreeListInv, NEW n \in Nodes
  PROVE  freeListRefs[n] = Cardinality(Holders(n)) + Weight(n)
BY DEF FreeListInv, RefCount, Weight

\* A node that is about to be pushed is marked and has no reference.
LEMMA MarkedCount ==
  ASSUME FreeListInv, NEW t \in Callers, flpc[t] \in Marked
  PROVE  /\ freeListRefs[node[t]] = SHOULD_BE_ON_FREELIST
         /\ Holders(node[t]) = {}
         /\ ~ListHolds(node[t])
<1>1. node[t] \in Nodes /\ owner[node[t]] = Pooled /\ Holders(node[t]) = {}
  BY DEF FreeListInv, Locals, Claims, Unheld, Marked, Pushes
<1>2. ~ListHolds(node[t])
  BY DEF FreeListInv, Claims, ListHolds, Marked, Pushes
<1> QED
  BY <1>1, <1>2, Counted, HoldersCount DEF Weight

\* Nothing of any other thread changes.
Others(t) ==
  \A u \in Callers \ {t} :
    UNCHANGED <<flpc[u], head[u], refs[u], next[u], node[u], expected[u]>>

LEMMA HoldersSame ==
  ASSUME NEW t \in Callers, Others(t), NEW n, t \in Holders(n) <=> t \in Holders(n)'
  PROVE  Holders(n)' = Holders(n)
<1>1. \A u \in Callers \ {t} : u \in Holders(n)' <=> u \in Holders(n)
  BY DEF Others, Holders
<1> QED
  BY <1>1 DEF Holders

LEMMA HoldersGain ==
  ASSUME NEW t \in Callers, Others(t), NEW n, t \notin Holders(n), t \in Holders(n)'
  PROVE  Cardinality(Holders(n))' = Cardinality(Holders(n)) + 1
<1>1. \A u \in Callers \ {t} : u \in Holders(n)' <=> u \in Holders(n)
  BY DEF Others, Holders
<1>2. Holders(n)' = Holders(n) \cup {t}
  BY <1>1 DEF Holders
<1> QED
  BY <1>2, HoldersCount, FS_AddElement

LEMMA HoldersLose ==
  ASSUME NEW t \in Callers, Others(t), NEW n, t \in Holders(n), t \notin Holders(n)'
  PROVE  /\ Holders(n)' = Holders(n) \ {t}
         /\ Cardinality(Holders(n))' = Cardinality(Holders(n)) - 1
<1>1. \A u \in Callers \ {t} : u \in Holders(n)' <=> u \in Holders(n)
  BY DEF Others, Holders
<1>2. Holders(n)' = Holders(n) \ {t}
  BY <1>1 DEF Holders
<1> QED
  BY <1>2, HoldersCount, FS_RemoveElement

\* Counts that are what they should be are in range.
LEMMA CountsInRange ==
  ASSUME freeListRefs' \in [Nodes -> Int], RefCount'
  PROVE  freeListRefs' \in [Nodes -> Counts]
<1>1. ASSUME NEW n \in Nodes
      PROVE  freeListRefs'[n] \in Counts
  <2>1. freeListRefs'[n] = Cardinality(Holders(n))' +
          (IF owner'[n] # Pooled THEN 0 ELSE IF ListHolds(n)' THEN 1 ELSE SHOULD_BE_ON_FREELIST)
    BY DEF RefCount
  <2>2. /\ Cardinality(Holders(n))' \in Nat
        /\ Cardinality(Holders(n))' + 1 < SHOULD_BE_ON_FREELIST
        /\ SHOULD_BE_ON_FREELIST \in Nat
    <3>1. Holders(n)' \in SUBSET Callers
      BY DEF Holders
    <3> QED
      BY <3>1, SomeCallers
  <2> QED
    BY <2>1, <2>2 DEF Counts
<1> QED
  BY <1>1

LEMMA LocalsKeep ==
  ASSUME Locals, NEW t \in Callers, Others(t), UNCHANGED freeListNext, Locals!(t)'
  PROVE  Locals'
BY DEF Locals, Others, Looks, Holds, Pushes, Marked

-----------------------------------------------------------------------------
(* The steps *)

\* A step that moves no reference: t neither takes nor gives one, and what it
\* writes into a node, if anything, it writes into the one it is to push.
LEMMA QuietStep ==
  ASSUME FreeListInv, FreeListType', NEW t \in Callers, Others(t),
         UNCHANGED <<freeListHead, freeListRefs, owner>>, Listed' = Listed,
         \A n \in Nodes : freeListNext'[n] # freeListNext[n] =>
           /\ flpc[t] \in Marked /\ n = node[t]
           /\ n \notin Listed,
         flpc[t] # "get_sub2" /\ flpc'[t] # "get_sub2",
         flpc'[t] \in Pushes <=> flpc[t] \in Pushes,
         flpc'[t] \in Marked <=> flpc[t] \in Marked,
         flpc[t] \in Pushes => node'[t] = node[t],
         flpc'[t] \in Holds <=> flpc[t] \in Holds,
         flpc[t] \in Holds => head'[t] = head[t],
         Locals!(t)'
  PROVE  FreeListInv'
<1>1. \A n : Holders(n)' = Holders(n)
  BY HoldersSame DEF Holders, Holds
<1>2. \A n : ListHolds(n)' <=> ListHolds(n)
  BY DEF ListHolds, Others, Pushes, Marked
<1>3. Locals'
  <2> SUFFICES ASSUME NEW u \in Callers \ {t}
               PROVE  Locals!(u)'
    BY DEF Locals
  <2>1. flpc[u] \in Holds => freeListNext'[head[u]] = freeListNext[head[u]]
    <3> SUFFICES ASSUME flpc[u] \in Holds, flpc[t] \in Marked
                 PROVE  head[u] # node[t]
      BY DEF FreeListInv, Locals, Looks
    <3> QED
      BY DEF FreeListInv, Unheld, Holders, Holds
  <2>2. flpc[u] \in Pushes => freeListNext'[node[u]] = freeListNext[node[u]]
    BY DEF FreeListInv, Locals, Claims, Pushes
  <2> QED
    BY <2>1, <2>2 DEF FreeListInv, Locals, Others, Looks, Holds, Pushes, Marked
<1>4. Chain'
  <2>1. \A n \in Listed : freeListNext'[n] = freeListNext[n]
    BY DEF Listed, ListFrom
  <2> QED
    BY <2>1 DEF FreeListInv, Chain
<1>5. Claims'
  <2>1. \A u \in Callers : flpc'[u] \in Pushes => flpc[u] \in Pushes /\ node'[u] = node[u]
    BY DEF Others
  <2>2. \A u \in Callers : flpc'[u] = "get_sub2" => flpc[u] = "get_sub2" /\ head'[u] = head[u]
    BY DEF Others
  <2> QED
    BY <2>1, <2>2 DEF FreeListInv, Claims
<1>6. Unheld'
  BY <1>1 DEF FreeListInv, Unheld, Others, Pushes
<1>7. Pending'
  <2>1. \A u \in Callers : flpc[u] \in Marked => flpc'[u] \in Marked /\ node'[u] = node[u]
    BY DEF Others, Pushes
  <2> QED
    BY <1>1, <1>2, <2>1 DEF FreeListInv, Pending
<1>8. RefCount'
  BY <1>1, <1>2 DEF FreeListInv, RefCount
<1> QED
  BY <1>3, <1>4, <1>5, <1>6, <1>7, <1>8 DEF FreeListInv

\* The types of all but the counts, which CountsInRange gives, and of t's own.
LEMMA QuietTypes ==
  ASSUME FreeListInv, NEW t \in Callers,
         PushLoad(t) \/ PushNext(t) \/ TryGet(t) \/ GetLoad(t) \/ GetRefs(t) \/ GetNext(t)
  PROVE  FreeListType'
<1> USE DEF sharedVars, getVars, pushVars, At, Goto, Steps
<1>1. FreeListType
  BY DEF FreeListInv
<1>2. flpc[t] = "get_next" \/ flpc[t] = "get_refs" => head[t] \in Nodes
  BY DEF FreeListInv, Locals, Looks, Holds
<1>3. CASE PushLoad(t)
  BY <1>1, <1>3 DEF PushLoad, FreeListType
<1>4. CASE PushNext(t)
  BY <1>1, <1>4 DEF PushNext, FreeListType
<1>5. CASE TryGet(t)
  BY <1>1, <1>5 DEF TryGet, FreeListType
<1>6. CASE GetLoad(t)
  BY <1>1, <1>6 DEF GetLoad, FreeListType
<1>7. CASE GetRefs(t)
  BY <1>1, <1>2, <1>7 DEF GetRefs, FreeListType
<1>8. CASE GetNext(t)
  BY <1>1, <1>2, <1>8 DEF GetNext, FreeListType
<1> QED
  BY <1>3, <1>4, <1>5, <1>6, <1>7, <1>8

\* An empty count, whether marked or not, is one that try_get leaves alone.
LEMMA EmptyCounts ==
  /\ 0 % SHOULD_BE_ON_FREELIST = 0
  /\ SHOULD_BE_ON_FREELIST % SHOULD_BE_ON_FREELIST = 0
<1>1. SHOULD_BE_ON_FREELIST \in Nat \ {0}
  <2>1. {} \in SUBSET Callers
    OBVIOUS
  <2> QED
    BY <2>1, SomeCallers
<1> QED
  BY <1>1, Z3

LEMMA QuietSteps ==
  ASSUME FreeListInv, NEW t \in Callers,
         PushLoad(t) \/ PushNext(t) \/ TryGet(t) \/ GetLoad(t) \/ GetRefs(t) \/ GetNext(t)
  PROVE  FreeListInv'
<1> USE DEF sharedVars, getVars, pushVars, At, Goto, Steps
<1>1. FreeListType /\ FreeListType'
  BY QuietTypes DEF FreeListInv
<1>2. Others(t) /\ UNCHANGED <<freeListHead, freeListRefs, owner>>
  BY <1>1 DEF FreeListType, Others, PushLoad, PushNext, TryGet, GetLoad, GetRefs, GetNext
<1>3. Listed' = Listed /\ (freeListNext' = freeListNext \/ PushNext(t))
  <2>1. CASE PushNext(t)
    <3>1. PICK n \in Nodes : n = node[t] /\ n \notin Listed
      BY <2>1 DEF PushNext, FreeListInv, Locals, Claims, Pushes, Marked
    <3>2. freeListHead' = freeListHead /\ \A m \in Nodes \ {n} : freeListNext'[m] = freeListNext[m]
      BY <1>1, <2>1, <3>1 DEF PushNext, FreeListType
    <3>3. ListFrom(freeListHead, freeListNext') = ListFrom(freeListHead, freeListNext)
      BY <1>1, <3>1, <3>2, ListSame DEF Listed, FreeListType
    <3> QED
      BY <2>1, <3>2, <3>3 DEF Listed
  <2>2. CASE ~PushNext(t)
    BY <2>2 DEF PushLoad, TryGet, GetLoad, GetRefs, GetNext, Listed
  <2> QED
    BY <2>1, <2>2
<1> USE DEF Pushes, Marked, Holds, Looks
<1>4. CASE PushLoad(t)
  <2>1. Locals!(t)'
    BY <1>1, <1>4 DEF PushLoad, FreeListType, FreeListInv, Locals
  <2> QED
    BY <1>1, <1>2, <1>3, <1>4, <2>1, QuietStep DEF PushLoad, FreeListType
<1>5. CASE PushNext(t)
  <2>1. node[t] \in Nodes /\ node[t] \notin Listed
    BY <1>5 DEF PushNext, FreeListInv, Locals, Claims
  <2>2. Locals!(t)'
    BY <1>1, <1>5, <2>1 DEF PushNext, FreeListType
  <2>3. \A n \in Nodes : freeListNext'[n] # freeListNext[n] => n = node[t]
    BY <1>1, <1>5 DEF PushNext, FreeListType
  <2> QED
    BY <1>1, <1>2, <1>3, <1>5, <2>1, <2>2, <2>3, QuietStep DEF PushNext, FreeListType
<1>6. CASE TryGet(t)
  <2>1. Locals!(t)'
    BY <1>1, <1>6 DEF TryGet, FreeListType
  <2> QED
    BY <1>1, <1>2, <1>3, <1>6, <2>1, QuietStep DEF TryGet, FreeListType
<1>7. CASE GetLoad(t)
  <2>1. Locals!(t)'
    BY <1>1, <1>7 DEF GetLoad, FreeListType
  <2> QED
    BY <1>1, <1>2, <1>3, <1>7, <2>1, QuietStep DEF GetLoad, FreeListType
<1>8. CASE GetRefs(t)
  <2>1. head[t] \in Nodes
    BY <1>8 DEF GetRefs, FreeListInv, Locals
  <2>2. Locals!(t)'
    BY <1>1, <1>8, <2>1, EmptyCounts DEF GetRefs, FreeListType
  <2> QED
    BY <1>1, <1>2, <1>3, <1>8, <2>2, QuietStep DEF GetRefs, FreeListType
<1>9. CASE GetNext(t)
  <2>1. head[t] \in Nodes
    BY <1>9 DEF GetNext, FreeListInv, Locals
  <2>2. Locals!(t)'
    BY <1>1, <1>9, <2>1 DEF GetNext, FreeListType
  <2> QED
    BY <1>1, <1>2, <1>3, <1>9, <2>2, QuietStep DEF GetNext, FreeListType
<1> QED
  BY <1>4, <1>5, <1>6, <1>7, <1>8, <1>9

LEMMA AddStep ==
  ASSUME FreeListInv, NEW t \in Callers, NEW n \in Nodes, Add(t, n)
  PROVE  FreeListInv'
<1> USE DEF getVars, At, Goto, Pushes, Marked, Holds, Looks
<1>1. FreeListType
  BY DEF FreeListInv
<1>2. /\ flpc[t] = "idle" /\ owner[n] = t /\ t # Pooled
      /\ owner' = [owner EXCEPT ![n] = Pooled]
      /\ freeListRefs' = [freeListRefs EXCEPT ![n] = freeListRefs[n] + SHOULD_BE_ON_FREELIST]
      /\ UNCHANGED <<freeListHead, freeListNext, head, reload, refs, next, expected>>
      /\ \/ /\ freeListRefs[n] = 0
            /\ node' = [node EXCEPT ![t] = n] /\ flpc' = [flpc EXCEPT ![t] = "push_load"]
         \/ freeListRefs[n] # 0 /\ UNCHANGED <<flpc, node>>
  BY FreeListAssumption DEF Add, Push, AddRefs
<1>3. Others(t) /\ Listed' = Listed
  BY <1>1, <1>2 DEF FreeListType, Others, Listed
<1>4. \A m : Holders(m)' = Holders(m)
  BY <1>1, <1>2, <1>3, HoldersSame DEF Holders, FreeListType
<1>5. ~ListHolds(n) /\ \A u \in Callers : flpc[u] \in Pushes => node[u] # n
  BY <1>2 DEF FreeListInv, Claims, ListHolds
<1>6. freeListRefs[n] = Cardinality(Holders(n))
  BY <1>2, Counted, HoldersCount DEF Weight
<1>7. \A m : ListHolds(m)' <=> ListHolds(m)
  BY <1>1, <1>2, <1>3 DEF ListHolds, Others, FreeListType
<1>8. RefCount'
  <2> SUFFICES ASSUME NEW m \in Nodes
               PROVE  freeListRefs'[m] = Cardinality(Holders(m)) +
                        (IF owner'[m] # Pooled THEN 0
                         ELSE IF ListHolds(m) THEN 1 ELSE SHOULD_BE_ON_FREELIST)
    BY <1>4, <1>7 DEF RefCount
  <2>1. CASE m = n
    BY <1>1, <1>2, <1>5, <1>6, <2>1 DEF FreeListType
  <2>2. CASE m # n
    BY <1>1, <1>2, <2>2 DEF FreeListInv, RefCount, FreeListType
  <2> QED
    BY <2>1, <2>2
<1>9. FreeListType'
  <2>1. freeListRefs' \in [Nodes -> Int]
    BY <1>1, <1>2, FreeListAssumption DEF FreeListType, Counts
  <2> QED
    BY <1>1, <1>2, <1>8, <2>1, CountsInRange DEF FreeListType, Steps
<1>10. Locals'
  <2>1. Locals!(t)'
    BY <1>1, <1>2 DEF FreeListType, FreeListInv, Locals
  <2> QED
    BY <1>2, <1>3, <2>1, LocalsKeep DEF FreeListInv
<1>11. Chain'
  BY <1>2, <1>3 DEF FreeListInv, Chain
<1>12. Claims'
  BY <1>1, <1>2, <1>3, <1>5 DEF FreeListInv, Locals, Claims, Others, FreeListType
<1>13. Unheld'
  BY <1>1, <1>2, <1>3, <1>4, <1>6, HoldersCount DEF FreeListInv, Unheld, Others, FreeListType
<1>14. Pending'
  <2>1. ASSUME NEW m \in Nodes, m # n
        PROVE  Pending!(m)'
    BY <1>1, <1>2, <1>3, <1>4, <1>7, <2>1 DEF FreeListInv, Pending, Others, FreeListType
  <2>2. Pending!(n)'
    BY <1>1, <1>2, <1>4, <1>6, HoldersCount DEF FreeListType
  <2> QED
    BY <2>1, <2>2 DEF Pending
<1> QED
  BY <1>8, <1>9, <1>10, <1>11, <1>12, <1>13, <1>14 DEF FreeListInv

LEMMA PushRefsStep ==
  ASSUME FreeListInv, NEW t \in Callers, PushRefs(t)
  PROVE  FreeListInv'
<1> USE DEF getVars, pushVars, At, Goto, Pushes, Marked, Holds, Looks
<1>1. FreeListType
  BY DEF FreeListInv
<1>2. PICK n \in Nodes : n = node[t]
  BY DEF PushRefs, FreeListInv, Locals
<1>3. /\ flpc[t] = "push_refs" /\ flpc' = [flpc EXCEPT ![t] = "push_cas"]
      /\ freeListRefs' = [freeListRefs EXCEPT ![n] = 1]
      /\ UNCHANGED <<freeListHead, freeListNext, owner, head, reload, refs, next, node, expected>>
  BY <1>2 DEF PushRefs
<1>4. Others(t) /\ Listed' = Listed
  BY <1>1, <1>3 DEF FreeListType, Others, Listed
<1>5. \A m : Holders(m)' = Holders(m)
  BY <1>1, <1>3, <1>4, HoldersSame DEF Holders, FreeListType
<1>6. Holders(n) = {} /\ owner[n] = Pooled /\ n \notin Listed
  BY <1>2, <1>3 DEF FreeListInv, Unheld, Claims
<1>7. ListHolds(n)' /\ \A m \in Nodes \ {n} : ListHolds(m)' <=> ListHolds(m)
  BY <1>1, <1>2, <1>3, <1>4 DEF ListHolds, Others, FreeListType
<1>8. RefCount'
  <2> SUFFICES ASSUME NEW m \in Nodes
               PROVE  freeListRefs'[m] = Cardinality(Holders(m)) +
                        (IF owner[m] # Pooled THEN 0
                         ELSE IF ListHolds(m)' THEN 1 ELSE SHOULD_BE_ON_FREELIST)
    BY <1>3, <1>5 DEF RefCount
  <2>1. CASE m = n
    BY <1>1, <1>3, <1>6, <1>7, <2>1, HoldersCount DEF FreeListType
  <2>2. CASE m # n
    BY <1>1, <1>3, <1>7, <2>2 DEF FreeListInv, RefCount, FreeListType
  <2> QED
    BY <2>1, <2>2
<1>9. FreeListType'
  <2>1. freeListRefs' \in [Nodes -> Int]
    BY <1>1, <1>3, FreeListAssumption DEF FreeListType, Counts
  <2> QED
    BY <1>1, <1>3, <1>8, <2>1, CountsInRange DEF FreeListType, Steps
<1>10. Locals'
  <2>1. Locals!(t)'
    BY <1>1, <1>3 DEF FreeListType, FreeListInv, Locals
  <2> QED
    BY <1>3, <1>4, <2>1, LocalsKeep DEF FreeListInv
<1>11. Chain'
  BY <1>3, <1>4 DEF FreeListInv, Chain
<1>12. Claims'
  BY <1>1, <1>3, <1>4 DEF FreeListInv, Claims, Others, FreeListType
<1>13. Unheld'
  BY <1>1, <1>3, <1>4, <1>5 DEF FreeListInv, Unheld, Others, FreeListType
<1>14. Pending'
  <2>1. ASSUME NEW m \in Nodes, m # n
        PROVE  Pending!(m)'
    BY <1>1, <1>2, <1>3, <1>4, <1>5, <1>7, <2>1 DEF FreeListInv, Pending, Others, FreeListType
  <2> QED
    BY <1>7, <2>1 DEF Pending
<1> QED
  BY <1>8, <1>9, <1>10, <1>11, <1>12, <1>13, <1>14 DEF FreeListInv

\* The CAS puts the node on the list: its next is the head the CAS found.
LEMMA PushedStep ==
  ASSUME FreeListInv, NEW t \in Callers, PushCas(t), freeListHead = expected[t]
  PROVE  FreeListInv'
<1> USE DEF getVars, At, Goto, Pushes, Marked, Holds, Looks
<1>1. FreeListType
  BY DEF FreeListInv
<1>2. PICK n \in Nodes : n = node[t]
  BY DEF PushCas, FreeListInv, Locals
<1>3. /\ flpc[t] = "push_cas"
      /\ flpc' = [flpc EXCEPT ![t] = IF head[t] # null THEN "get_refs" ELSE "idle"]
      /\ freeListHead' = n
      /\ node' = [node EXCEPT ![t] = null] /\ expected' = [expected EXCEPT ![t] = null]
      /\ UNCHANGED <<freeListRefs, freeListNext, owner, head, reload, refs, next>>
  BY <1>2 DEF PushCas, Return
<1>4. /\ freeListNext[n] = freeListHead /\ n \notin Listed /\ owner[n] = Pooled
      /\ \A u \in Callers : flpc[u] \in Pushes /\ node[u] = n => u = t
      /\ \A u \in Callers : flpc[u] = "get_sub2" => head[u] # n
  BY <1>2, <1>3 DEF FreeListInv, Locals, Claims
<1>5. Others(t) /\ Listed' = Listed \cup {n}
  <2>1. ListFrom(n, freeListNext) = ListFrom(freeListHead, freeListNext) \cup {n}
    BY <1>1, <1>4, ListPush DEF FreeListType
  <2> QED
    BY <1>1, <1>3, <2>1 DEF FreeListType, Others, Listed
<1>6. \A m : Holders(m)' = Holders(m)
  BY <1>1, <1>3, <1>5, HoldersSame DEF Holders, FreeListType
<1>7. \A m : ListHolds(m)' <=> ListHolds(m)
  BY <1>1, <1>2, <1>3, <1>5 DEF ListHolds, Others, FreeListType
<1>8. RefCount'
  BY <1>3, <1>6, <1>7 DEF FreeListInv, RefCount
<1>9. FreeListType'
  BY <1>1, <1>3 DEF FreeListType, Steps
<1>10. Locals'
  <2>1. Locals!(t)'
    BY <1>1, <1>3 DEF FreeListType
  <2> QED
    BY <1>3, <1>5, <2>1, LocalsKeep DEF FreeListInv
<1>11. Chain'
  <2>1. Chained(Listed, freeListHead, freeListNext)
    BY <1>1, ListClosed DEF Listed, FreeListType
  <2>2. \A m \in Listed : freeListNext[m] # n
    BY <1>4, <2>1, FreeListAssumption DEF Chained
  <2>3. freeListNext[n] # n
    BY <1>4, <2>1, FreeListAssumption DEF Chained
  <2>4. \A m \in Listed : freeListNext[m] = freeListNext[n] => freeListNext[n] = null
    BY <1>4 DEF FreeListInv, Chain
  <2> QED
    BY <1>3, <1>5, <2>2, <2>3, <2>4 DEF FreeListInv, Chain
<1>12. Claims'
  <2>1. \A u \in Callers : flpc'[u] \in Pushes =>
          u # t /\ flpc[u] \in Pushes /\ node'[u] = node[u] /\ node[u] # n
    BY <1>1, <1>3, <1>4, <1>5 DEF Others, FreeListType
  <2>2. \A u \in Callers : flpc'[u] = "get_sub2" =>
          flpc[u] = "get_sub2" /\ head'[u] = head[u] /\ head[u] # n
    BY <1>1, <1>3, <1>4, <1>5 DEF Others, FreeListType
  <2>3. \A m \in Listed' : owner'[m] = Pooled
    BY <1>3, <1>4, <1>5 DEF FreeListInv, Claims
  <2> QED
    BY <1>3, <1>5, <2>1, <2>2, <2>3 DEF FreeListInv, Claims
<1>13. Unheld'
  BY <1>1, <1>3, <1>5, <1>6 DEF FreeListInv, Unheld, Others, FreeListType
<1>14. Pending'
  BY <1>1, <1>3, <1>5, <1>6, <1>7 DEF FreeListInv, Pending, Others, FreeListType
<1> QED
  BY <1>8, <1>9, <1>10, <1>11, <1>12, <1>13, <1>14 DEF FreeListInv

LEMMA PushFailsStep ==
  ASSUME FreeListInv, NEW t \in Callers, PushCas(t), freeListHead # expected[t]
  PROVE  FreeListInv'
<1> USE DEF getVars, At, Goto, Pushes, Marked, Holds, Looks
<1>1. FreeListType
  BY DEF FreeListInv
<1>2. /\ flpc[t] = "push_cas" /\ flpc' = [flpc EXCEPT ![t] = "push_undo"]
      /\ expected' = [expected EXCEPT ![t] = freeListHead]
      /\ UNCHANGED <<freeListHead, freeListRefs, freeListNext, owner, head, reload, refs, next, node>>
  BY DEF PushCas
<1>3. FreeListType' /\ Others(t) /\ Listed' = Listed
  BY <1>1, <1>2 DEF FreeListType, Steps, Others, Listed
<1>4. Locals!(t)'
  BY <1>1, <1>2 DEF FreeListType, FreeListInv, Locals
<1> QED
  BY <1>1, <1>2, <1>3, <1>4, QuietStep DEF FreeListType

LEMMA PushUndoStep ==
  ASSUME FreeListInv, NEW t \in Callers, PushUndo(t)
  PROVE  FreeListInv'
<1> USE DEF getVars, pushVars, At, Goto, Pushes, Marked, Holds, Looks
<1>1. FreeListType
  BY DEF FreeListInv
<1>2. PICK n \in Nodes : n = node[t]
  BY DEF PushUndo, FreeListInv, Locals
<1>3. /\ flpc[t] = "push_undo"
      /\ freeListRefs' = [freeListRefs EXCEPT ![n] = freeListRefs[n] + (SHOULD_BE_ON_FREELIST - 1)]
      /\ \/ /\ freeListRefs[n] = 1 /\ flpc' = [flpc EXCEPT ![t] = "push_next"]
            /\ UNCHANGED <<node, expected>>
         \/ /\ freeListRefs[n] # 1
            /\ flpc' = [flpc EXCEPT ![t] = IF head[t] # null THEN "get_refs" ELSE "idle"]
            /\ node' = [node EXCEPT ![t] = null] /\ expected' = [expected EXCEPT ![t] = null]
      /\ UNCHANGED <<freeListHead, freeListNext, owner, head, reload, refs, next>>
  BY <1>2 DEF PushUndo, Return, AddRefs
<1>4. /\ n \notin Listed /\ owner[n] = Pooled
      /\ \A u \in Callers : flpc[u] \in Pushes /\ node[u] = n => u = t
      /\ \A u \in Callers : flpc[u] = "get_sub2" => head[u] # n
  BY <1>2, <1>3 DEF FreeListInv, Claims
<1>5. Others(t) /\ Listed' = Listed
  BY <1>1, <1>3 DEF FreeListType, Others, Listed
<1>6. \A m : Holders(m)' = Holders(m)
  BY <1>1, <1>3, <1>5, HoldersSame DEF Holders, FreeListType
<1>7. ~ListHolds(n)' /\ \A m \in Nodes \ {n} : ListHolds(m)' <=> ListHolds(m)
  BY <1>1, <1>2, <1>3, <1>4, <1>5 DEF ListHolds, Others, FreeListType
<1>8. freeListRefs[n] = Cardinality(Holders(n)) + 1
  <2>1. ListHolds(n)
    BY <1>2, <1>3 DEF ListHolds
  <2> QED
    BY <1>4, <2>1, Counted DEF Weight
<1>9. RefCount'
  <2> SUFFICES ASSUME NEW m \in Nodes
               PROVE  freeListRefs'[m] = Cardinality(Holders(m)) +
                        (IF owner[m] # Pooled THEN 0
                         ELSE IF ListHolds(m)' THEN 1 ELSE SHOULD_BE_ON_FREELIST)
    BY <1>3, <1>6 DEF RefCount
  <2>1. CASE m = n
    BY <1>1, <1>3, <1>4, <1>7, <1>8, <2>1, HoldersCount DEF FreeListType
  <2>2. CASE m # n
    BY <1>1, <1>3, <1>7, <2>2 DEF FreeListInv, RefCount, FreeListType
  <2> QED
    BY <2>1, <2>2
<1>10. FreeListType'
  <2>1. freeListRefs' \in [Nodes -> Int]
    BY <1>1, <1>3, FreeListAssumption DEF FreeListType, Counts
  <2> QED
    BY <1>1, <1>3, <1>9, <2>1, CountsInRange DEF FreeListType, Steps
<1>11. Locals'
  <2>1. Locals!(t)'
    BY <1>1, <1>2, <1>3 DEF FreeListType
  <2> QED
    BY <1>3, <1>5, <2>1, LocalsKeep DEF FreeListInv
<1>12. Chain'
  BY <1>3, <1>5 DEF FreeListInv, Chain
<1>13. Claims'
  <2>1. \A u \in Callers : flpc'[u] \in Pushes => flpc[u] \in Pushes /\ node'[u] = node[u]
    BY <1>1, <1>3, <1>5 DEF Others, FreeListType
  <2>2. \A u \in Callers : flpc'[u] = "get_sub2" => flpc[u] = "get_sub2" /\ head'[u] = head[u]
    BY <1>1, <1>3, <1>5 DEF Others, FreeListType
  <2> QED
    BY <1>3, <1>5, <2>1, <2>2 DEF FreeListInv, Claims
<1>14. Unheld'
  BY <1>1, <1>2, <1>3, <1>5, <1>6, <1>8, HoldersCount DEF FreeListInv, Unheld, Others, FreeListType
<1>15. Pending'
  <2>1. ASSUME NEW m \in Nodes, m # n
        PROVE  Pending!(m)'
    BY <1>1, <1>2, <1>3, <1>5, <1>6, <1>7, <2>1 DEF FreeListInv, Pending, Others, FreeListType
  <2>2. Pending!(n)'
    BY <1>1, <1>2, <1>3, <1>6, <1>8, HoldersCount DEF FreeListType
  <2> QED
    BY <2>1, <2>2 DEF Pending
<1> QED
  BY <1>9, <1>10, <1>11, <1>12, <1>13, <1>14, <1>15 DEF FreeListInv

LEMMA GetIncStep ==
  ASSUME FreeListInv, NEW t \in Callers, GetInc(t)
  PROVE  FreeListInv'
<1> USE DEF pushVars, At, Goto, Pushes, Marked, Holds, Looks
<1>1. FreeListType
  BY DEF FreeListInv
<1>2. PICK n \in Nodes : n = head[t]
  BY DEF GetInc, FreeListInv, Locals
<1>3. /\ flpc[t] = "get_inc" /\ refs' = [refs EXCEPT ![t] = 0]
      /\ UNCHANGED <<freeListHead, freeListNext, owner, head, reload, next, node, expected>>
  BY DEF GetInc
<1>4. CASE freeListRefs' = freeListRefs /\ flpc' = [flpc EXCEPT ![t] = "get_load"]
  <2>1. FreeListType' /\ Others(t) /\ Listed' = Listed
    BY <1>1, <1>3, <1>4, FreeListAssumption DEF FreeListType, Steps, Others, Listed, Counts
  <2>2. Locals!(t)'
    BY <1>1, <1>3, <1>4 DEF FreeListType
  <2> QED
    BY <1>1, <1>3, <1>4, <2>1, <2>2, QuietStep DEF FreeListType
<1>5. CASE /\ freeListRefs[n] = refs[t] /\ flpc' = [flpc EXCEPT ![t] = "get_next"]
           /\ freeListRefs' = [freeListRefs EXCEPT ![n] = freeListRefs[n] + 1]
  <2>1. Others(t) /\ Listed' = Listed
    BY <1>1, <1>3, <1>5 DEF FreeListType, Others, Listed
  <2>2. /\ t \notin Holders(n) /\ t \in Holders(n)'
        /\ \A m : m # n => (t \in Holders(m) <=> t \in Holders(m)')
    BY <1>1, <1>2, <1>3, <1>5 DEF Holders, FreeListType
  <2>3. /\ Cardinality(Holders(n))' = Cardinality(Holders(n)) + 1
        /\ \A m : m # n => Holders(m)' = Holders(m)
    BY <2>1, <2>2, HoldersGain, HoldersSame
  <2>4. \A m : ListHolds(m)' <=> ListHolds(m)
    BY <1>1, <1>3, <1>5, <2>1 DEF ListHolds, Others, FreeListType
  <2>5. RefCount'
    <3> SUFFICES ASSUME NEW m \in Nodes
                 PROVE  freeListRefs'[m] = Cardinality(Holders(m))' +
                          (IF owner[m] # Pooled THEN 0
                           ELSE IF ListHolds(m) THEN 1 ELSE SHOULD_BE_ON_FREELIST)
      BY <1>3, <2>4 DEF RefCount
    <3>1. CASE m = n
      BY <1>1, <1>5, <2>3, <3>1, HoldersCount DEF FreeListInv, RefCount, FreeListType
    <3>2. CASE m # n
      BY <1>1, <1>5, <2>3, <3>2 DEF FreeListInv, RefCount, FreeListType
    <3> QED
      BY <3>1, <3>2
  <2>6. FreeListType'
    <3>1. freeListRefs' \in [Nodes -> Int]
      BY <1>1, <1>5, FreeListAssumption DEF FreeListType, Counts
    <3> QED
      BY <1>1, <1>3, <1>5, <2>5, <3>1, CountsInRange, FreeListAssumption DEF FreeListType, Steps, Counts
  <2>7. Locals'
    <3>1. Locals!(t)'
      BY <1>1, <1>2, <1>3, <1>5 DEF FreeListType
    <3> QED
      BY <1>3, <2>1, <3>1, LocalsKeep DEF FreeListInv
  <2>8. Chain'
    BY <1>3, <2>1 DEF FreeListInv, Chain
  <2>9. Claims'
    BY <1>1, <1>3, <1>5, <2>1 DEF FreeListInv, Claims, Others, FreeListType
  <2>10. Unheld'
    <3> SUFFICES ASSUME NEW u \in Callers, flpc'[u] \in Marked
                 PROVE  (Holders(node[u]) = {})'
      BY DEF Unheld
    <3>1. u # t /\ flpc[u] \in Marked /\ node'[u] = node[u]
      BY <1>1, <1>3, <1>5, <2>1 DEF Others, FreeListType
    <3>2. Holders(node[u]) = {} /\ freeListRefs[node[u]] = SHOULD_BE_ON_FREELIST
      BY <3>1, MarkedCount
    <3>3. node[u] # n
      BY <1>3, <1>5, <3>2 DEF FreeListInv, Locals
    <3>4. PICK m : m = node[u] /\ m # n
      BY <3>3
    <3>5. Holders(m)' = {}
      BY <2>3, <3>2, <3>4
    <3> QED
      BY <3>1, <3>4, <3>5 DEF Holders
  <2>11. Pending'
    <3>1. ASSUME NEW m \in Nodes, m # n
          PROVE  Pending!(m)'
      BY <1>1, <1>3, <1>5, <2>1, <2>3, <2>4, <3>1 DEF FreeListInv, Pending, Others, FreeListType
    <3>2. Pending!(n)'
      BY <2>2
    <3> QED
      BY <3>1, <3>2 DEF Pending
  <2> QED
    BY <2>5, <2>6, <2>7, <2>8, <2>9, <2>10, <2>11 DEF FreeListInv
<1> QED
  BY <1>2, <1>4, <1>5 DEF GetInc, AddRefs

\* The CAS takes the head off: the next it was read to have is still its next.
LEMMA TakenStep ==
  ASSUME FreeListInv, NEW t \in Callers, GetCas(t), freeListHead = head[t]
  PROVE  FreeListInv'
<1> USE DEF pushVars, At, Goto, Pushes, Marked, Holds, Looks
<1>1. FreeListType
  BY DEF FreeListInv
<1>2. PICK n \in Nodes : n = head[t]
  BY DEF GetCas, FreeListInv, Locals
<1>3. /\ flpc[t] = "get_cas" /\ flpc' = [flpc EXCEPT ![t] = "get_sub2"]
      /\ freeListHead = n /\ freeListHead' = freeListNext[n]
      /\ next' = [next EXCEPT ![t] = null]
      /\ UNCHANGED <<freeListRefs, freeListNext, owner, head, reload, refs, node, expected>>
  BY <1>2 DEF GetCas, FreeListInv, Locals
<1>4. n \in Listed
  BY <1>1, <1>3, ListClosed, FreeListAssumption DEF Listed, Chained, FreeListType
<1>5. Others(t) /\ Listed' = Listed \ {n}
  <2>1. \A m \in ListFrom(n, freeListNext) : freeListNext[m] # n
    BY <1>3, FreeListAssumption DEF FreeListInv, Chain, Listed
  <2>2. ListFrom(freeListNext[n], freeListNext) = ListFrom(n, freeListNext) \ {n}
    BY <1>1, <2>1, ListPop DEF FreeListType
  <2> QED
    BY <1>1, <1>3, <2>2 DEF FreeListType, Others, Listed
<1>6. \A m : Holders(m)' = Holders(m)
  BY <1>1, <1>3, <1>5, HoldersSame DEF Holders, FreeListType
<1>7. \A m : ListHolds(m)' <=> ListHolds(m)
  BY <1>1, <1>2, <1>3, <1>4, <1>5 DEF ListHolds, Others, FreeListType
<1>8. RefCount'
  BY <1>3, <1>6, <1>7 DEF FreeListInv, RefCount
<1>9. FreeListType'
  BY <1>1, <1>3 DEF FreeListType, Steps
<1>10. Locals'
  <2>1. Locals!(t)'
    BY <1>1, <1>2, <1>3 DEF FreeListType
  <2> QED
    BY <1>3, <1>5, <2>1, LocalsKeep DEF FreeListInv
<1>11. Chain'
  BY <1>3, <1>4, <1>5 DEF FreeListInv, Chain
<1>12. Claims'
  <2>1. \A u \in Callers : flpc'[u] \in Pushes =>
          flpc[u] \in Pushes /\ node'[u] = node[u] /\ node[u] # n
    BY <1>1, <1>3, <1>4, <1>5 DEF Others, FreeListType, FreeListInv, Claims
  <2>2. \A u \in Callers : flpc'[u] = "get_sub2" /\ u # t =>
          flpc[u] = "get_sub2" /\ head'[u] = head[u] /\ head[u] # n
    BY <1>1, <1>3, <1>4, <1>5 DEF Others, FreeListType, FreeListInv, Claims
  <2>3. head'[t] = n /\ owner[n] = Pooled
    BY <1>2, <1>3, <1>4 DEF FreeListInv, Claims
  <2> QED
    BY <1>3, <1>5, <2>1, <2>2, <2>3 DEF FreeListInv, Claims
<1>13. Unheld'
  BY <1>1, <1>3, <1>5, <1>6 DEF FreeListInv, Unheld, Others, FreeListType
<1>14. Pending'
  BY <1>1, <1>3, <1>5, <1>6, <1>7 DEF FreeListInv, Pending, Others, FreeListType
<1> QED
  BY <1>8, <1>9, <1>10, <1>11, <1>12, <1>13, <1>14 DEF FreeListInv

LEMMA GetFailsStep ==
  ASSUME FreeListInv, NEW t \in Callers, GetCas(t), freeListHead # head[t]
  PROVE  FreeListInv'
<1> USE DEF pushVars, At, Goto, Pushes, Marked, Holds, Looks
<1>1. FreeListType
  BY DEF FreeListInv
<1>2. /\ flpc[t] = "get_cas" /\ flpc' = [flpc EXCEPT ![t] = "get_dec"]
      /\ reload' = [reload EXCEPT ![t] = freeListHead]
      /\ next' = [next EXCEPT ![t] = null]
      /\ UNCHANGED <<freeListHead, freeListRefs, freeListNext, owner, head, refs, node, expected>>
  BY DEF GetCas
<1>3. FreeListType' /\ Others(t) /\ Listed' = Listed
  BY <1>1, <1>2 DEF FreeListType, Steps, Others, Listed
<1>4. Locals!(t)'
  BY <1>1, <1>2 DEF FreeListType, FreeListInv, Locals
<1> QED
  BY <1>1, <1>2, <1>3, <1>4, QuietStep DEF FreeListType

LEMMA GetSub2Step ==
  ASSUME FreeListInv, NEW t \in Callers, GetSub2(t)
  PROVE  FreeListInv'
<1> USE DEF pushVars, At, Goto, Pushes, Marked, Holds, Looks
<1>1. FreeListType
  BY DEF FreeListInv
<1>2. PICK n \in Nodes : n = head[t]
  BY DEF GetSub2, FreeListInv, Locals
<1>3. /\ flpc[t] = "get_sub2" /\ flpc' = [flpc EXCEPT ![t] = "idle"]
      /\ freeListRefs' = [freeListRefs EXCEPT ![n] = freeListRefs[n] + -2]
      /\ owner' = [owner EXCEPT ![n] = t] /\ t # Pooled
      /\ head' = [head EXCEPT ![t] = null]
      /\ UNCHANGED <<freeListHead, freeListNext, reload, refs, next, node, expected>>
  BY <1>2, FreeListAssumption DEF GetSub2, AddRefs
<1>4. /\ n \notin Listed /\ owner[n] = Pooled
      /\ \A u \in Callers : flpc[u] \in Pushes => node[u] # n
      /\ \A u \in Callers : flpc[u] = "get_sub2" /\ head[u] = n => u = t
  BY <1>2, <1>3 DEF FreeListInv, Claims
<1>5. Others(t) /\ Listed' = Listed
  BY <1>1, <1>3 DEF FreeListType, Others, Listed
<1>6. /\ t \in Holders(n) /\ t \notin Holders(n)'
      /\ \A m : m # n => (t \in Holders(m) <=> t \in Holders(m)')
  BY <1>1, <1>2, <1>3 DEF Holders, FreeListType
<1>7. /\ Cardinality(Holders(n))' = Cardinality(Holders(n)) - 1
      /\ \A m : m # n => Holders(m)' = Holders(m)
  BY <1>5, <1>6, HoldersLose, HoldersSame
<1>8. \A m : m # n => (ListHolds(m)' <=> ListHolds(m))
  BY <1>1, <1>2, <1>3, <1>5 DEF ListHolds, Others, FreeListType
<1>9. freeListRefs[n] = Cardinality(Holders(n)) + 1
  <2>1. ListHolds(n)
    BY <1>2, <1>3 DEF ListHolds
  <2> QED
    BY <1>4, <2>1, Counted DEF Weight
<1>10. RefCount'
  <2> SUFFICES ASSUME NEW m \in Nodes
               PROVE  freeListRefs'[m] = Cardinality(Holders(m))' +
                        (IF owner'[m] # Pooled THEN 0
                         ELSE IF ListHolds(m)' THEN 1 ELSE SHOULD_BE_ON_FREELIST)
    BY DEF RefCount
  <2>1. CASE m = n
    BY <1>1, <1>3, <1>7, <1>9, <2>1, HoldersCount DEF FreeListType
  <2>2. CASE m # n
    BY <1>1, <1>3, <1>7, <1>8, <2>2 DEF FreeListInv, RefCount, FreeListType
  <2> QED
    BY <2>1, <2>2
<1>11. FreeListType'
  <2>1. freeListRefs' \in [Nodes -> Int]
    BY <1>1, <1>3, FreeListAssumption DEF FreeListType, Counts
  <2> QED
    BY <1>1, <1>3, <1>10, <2>1, CountsInRange DEF FreeListType, Steps
<1>12. Locals'
  <2>1. Locals!(t)'
    BY <1>1, <1>3 DEF FreeListType
  <2> QED
    BY <1>3, <1>5, <2>1, LocalsKeep DEF FreeListInv
<1>13. Chain'
  BY <1>3, <1>5 DEF FreeListInv, Chain
<1>14. Claims'
  <2>1. \A u \in Callers : flpc'[u] \in Pushes =>
          flpc[u] \in Pushes /\ node'[u] = node[u] /\ node[u] # n
    BY <1>1, <1>3, <1>4, <1>5 DEF Others, FreeListType
  <2>2. \A u \in Callers : flpc'[u] = "get_sub2" =>
          flpc[u] = "get_sub2" /\ head'[u] = head[u] /\ head[u] # n
    BY <1>1, <1>3, <1>4, <1>5 DEF Others, FreeListType
  <2>3. \A m \in Nodes : m # n => owner'[m] = owner[m]
    BY <1>1, <1>3 DEF FreeListType
  <2>4. Listed \subseteq Nodes /\ \A u \in Callers :
          (flpc[u] \in Pushes => node[u] \in Nodes) /\ (flpc[u] = "get_sub2" => head[u] \in Nodes)
    BY DEF Listed, ListFrom, FreeListInv, Locals
  <2> QED
    BY <1>4, <1>5, <2>1, <2>2, <2>3, <2>4 DEF FreeListInv, Claims
<1>15. Unheld'
  <2> SUFFICES ASSUME NEW u \in Callers, flpc'[u] \in Marked
               PROVE  (Holders(node[u]) = {})'
    BY DEF Unheld
  <2>1. PICK m : m = node[u] /\ m # n /\ node'[u] = node[u] /\ flpc[u] \in Marked
    BY <1>1, <1>3, <1>4, <1>5 DEF Others, FreeListType
  <2>2. Holders(m)' = {}
    BY <1>7, <2>1 DEF FreeListInv, Unheld
  <2> QED
    BY <2>1, <2>2 DEF Holders
<1>16. Pending'
  <2>1. ASSUME NEW m \in Nodes, m # n
        PROVE  Pending!(m)'
    BY <1>1, <1>3, <1>5, <1>7, <1>8, <2>1 DEF FreeListInv, Pending, Others, FreeListType
  <2>2. owner'[n] # Pooled
    BY <1>1, <1>3 DEF FreeListType
  <2> QED
    BY <2>1, <2>2 DEF Pending
<1> QED
  BY <1>10, <1>11, <1>12, <1>13, <1>14, <1>15, <1>16 DEF FreeListInv

\* The last holder of a node that was given up meanwhile pushes it.
LEMMA GetDecStep ==
  ASSUME FreeListInv, NEW t \in Callers, GetDec(t)
  PROVE  FreeListInv'
<1> USE DEF At, Goto, Pushes, Marked, Holds, Looks
<1>1. FreeListType
  BY DEF FreeListInv
<1>2. PICK n \in Nodes : n = head[t]
  BY DEF GetDec, FreeListInv, Locals
<1>3. /\ flpc[t] = "get_dec"
      /\ freeListRefs' = [freeListRefs EXCEPT ![n] = freeListRefs[n] + -1]
      /\ head' = [head EXCEPT ![t] = reload[t]]
      /\ reload' = [reload EXCEPT ![t] = null]
      /\ \/ /\ freeListRefs[n] = SHOULD_BE_ON_FREELIST + 1
            /\ node' = [node EXCEPT ![t] = n] /\ flpc' = [flpc EXCEPT ![t] = "push_load"]
         \/ /\ freeListRefs[n] # SHOULD_BE_ON_FREELIST + 1
            /\ flpc' = [flpc EXCEPT ![t] = IF reload[t] = null THEN "idle" ELSE "get_refs"]
            /\ node' = node
      /\ UNCHANGED <<freeListHead, freeListNext, owner, refs, next, expected>>
  BY <1>2 DEF GetDec, AddRefs, Push
<1>4. Others(t) /\ Listed' = Listed
  BY <1>1, <1>3 DEF FreeListType, Others, Listed
<1>5. /\ t \in Holders(n) /\ t \notin Holders(n)'
      /\ \A m : m # n => (t \in Holders(m) <=> t \in Holders(m)')
  BY <1>1, <1>2, <1>3 DEF Holders, FreeListType
<1>6. /\ Holders(n)' = Holders(n) \ {t}
      /\ Cardinality(Holders(n))' = Cardinality(Holders(n)) - 1
      /\ \A m : m # n => Holders(m)' = Holders(m)
  BY <1>4, <1>5, HoldersLose, HoldersSame
<1>7. \A m : ListHolds(m)' <=> ListHolds(m)
  BY <1>1, <1>3, <1>4 DEF ListHolds, Others, FreeListType
<1>8. freeListRefs[n] = Cardinality(Holders(n)) + Weight(n)
  BY Counted
<1>9. freeListRefs[n] = SHOULD_BE_ON_FREELIST + 1 <=>
        owner[n] = Pooled /\ ~ListHolds(n) /\ Holders(n)' = {}
  <2>1. Cardinality(Holders(n))' = 0 <=> Holders(n)' = {}
    <3>1. Holders(n)' \in SUBSET Callers
      BY DEF Holders
    <3> QED
      BY <3>1, SomeCallers
  <2> QED
    BY <1>6, <1>8, <2>1, HoldersCount DEF Weight
<1>10. RefCount'
  <2> SUFFICES ASSUME NEW m \in Nodes
               PROVE  freeListRefs'[m] = Cardinality(Holders(m))' +
                        (IF owner[m] # Pooled THEN 0
                         ELSE IF ListHolds(m) THEN 1 ELSE SHOULD_BE_ON_FREELIST)
    BY <1>3, <1>7 DEF RefCount
  <2>1. CASE m = n
    <3>1. freeListRefs'[n] = freeListRefs[n] + -1 /\ SHOULD_BE_ON_FREELIST \in Int
      BY <1>1, <1>3, HoldersCount DEF FreeListType
    <3>2. freeListRefs[n] = Cardinality(Holders(n)) +
            (IF owner[n] # Pooled THEN 0
             ELSE IF ListHolds(n) THEN 1 ELSE SHOULD_BE_ON_FREELIST)
      BY DEF FreeListInv, RefCount
    <3>3. Cardinality(Holders(n)) \in Int /\ Cardinality(Holders(n))' = Cardinality(Holders(n)) - 1
      BY <1>6, HoldersCount
    <3> QED
      BY <2>1, <3>1, <3>2, <3>3
  <2>2. CASE m # n
    BY <1>1, <1>3, <1>6, <2>2 DEF FreeListInv, RefCount, FreeListType
  <2> QED
    BY <2>1, <2>2
<1>11. FreeListType'
  <2>1. freeListRefs' \in [Nodes -> Int]
    BY <1>1, <1>3, FreeListAssumption DEF FreeListType, Counts
  <2> QED
    BY <1>1, <1>3, <1>10, <2>1, CountsInRange DEF FreeListType, Steps
<1>12. Locals'
  <2>1. Locals!(t)'
    BY <1>1, <1>3 DEF FreeListType
  <2> QED
    BY <1>3, <1>4, <2>1, LocalsKeep DEF FreeListInv
<1>13. Chain'
  BY <1>3, <1>4 DEF FreeListInv, Chain
<1>14. \A u \in Callers \ {t} : flpc[u] \in Marked => node[u] # n
  BY <1>5 DEF FreeListInv, Unheld
<1>15. Claims'
  <2>1. \A u \in Callers : flpc'[u] = "get_sub2" => flpc[u] = "get_sub2" /\ head'[u] = head[u]
    BY <1>1, <1>3, <1>4 DEF Others, FreeListType
  <2>2. \A u \in Callers \ {t} : flpc'[u] = flpc[u] /\ node'[u] = node[u]
    BY <1>4 DEF Others
  <2>3. CASE freeListRefs[n] = SHOULD_BE_ON_FREELIST + 1
    <3>1. node'[t] = n /\ flpc'[t] \in Pushes
      BY <1>1, <1>3, <2>3 DEF FreeListType
    <3>2. owner[n] = Pooled /\ ~ListHolds(n)
      BY <1>9, <2>3
    <3>3. /\ n \notin Listed
          /\ \A u \in Callers : flpc[u] = "get_sub2" => head[u] # n
          /\ \A u \in Callers \ {t} : flpc[u] \in Pushes => node[u] # n
      BY <1>14, <3>2 DEF ListHolds
    <3> QED
      BY <1>3, <1>4, <2>1, <2>2, <3>1, <3>2, <3>3 DEF FreeListInv, Claims
  <2>4. CASE freeListRefs[n] # SHOULD_BE_ON_FREELIST + 1
    <3>1. flpc'[t] \notin Pushes
      BY <1>1, <1>3, <2>4 DEF FreeListType
    <3> QED
      BY <1>3, <1>4, <2>1, <2>2, <3>1 DEF FreeListInv, Claims
  <2> QED
    BY <2>3, <2>4
<1>16. Unheld'
  <2> SUFFICES ASSUME NEW u \in Callers, flpc'[u] \in Marked
               PROVE  (Holders(node[u]) = {})'
    BY DEF Unheld
  <2>1. CASE u # t
    <3>1. PICK m : m = node[u] /\ m # n /\ node'[u] = node[u] /\ flpc[u] \in Marked
      BY <1>4, <1>14, <2>1 DEF Others
    <3>2. Holders(m)' = {}
      BY <1>6, <3>1 DEF FreeListInv, Unheld
    <3> QED
      BY <3>1, <3>2 DEF Holders
  <2>2. CASE u = t
    <3>1. node'[t] = n /\ Holders(n)' = {}
      BY <1>1, <1>3, <1>9, <2>2 DEF FreeListType
    <3> QED
      BY <2>2, <3>1 DEF Holders
  <2> QED
    BY <2>1, <2>2
<1>17. Pending'
  <2>1. ASSUME NEW m \in Nodes, m # n
        PROVE  Pending!(m)'
    BY <1>1, <1>3, <1>4, <1>6, <1>7, <2>1 DEF FreeListInv, Pending, Others, FreeListType
  <2>2. Pending!(n)'
    BY <1>1, <1>3, <1>7, <1>9 DEF FreeListType
  <2> QED
    BY <2>1, <2>2 DEF Pending
<1> QED
  BY <1>10, <1>11, <1>12, <1>13, <1>15, <1>16, <1>17 DEF FreeListInv

-----------------------------------------------------------------------------
(* Theorems *)

LEMMA FreeListInvInit == FreeListInit => FreeListInv
<1> SUFFICES ASSUME FreeListInit
             PROVE  FreeListInv
  OBVIOUS
<1>1. \A n : Holders(n) = {}
  BY DEF FreeListInit, Holders
<1>2. Listed = {}
  <2>1. {} \in SUBSET Nodes /\ Chained({}, freeListHead, freeListNext)
    BY DEF FreeListInit, Chained
  <2> QED
    BY <2>1 DEF Listed, ListFrom
<1>3. 0 \in Counts
  BY FreeListAssumption, HoldersCount DEF Counts
<1>4. FreeListType
  BY <1>3 DEF FreeListInit, FreeListType, Steps
<1>5. Locals /\ Chain /\ Claims /\ Unheld
  BY <1>2 DEF FreeListInit, Locals, Chain, Claims, Unheld, Looks, Holds, Pushes, Marked
<1>6. \A n \in Nodes : owner[n] # Pooled
  BY FreeListAssumption DEF FreeListInit
<1>7. RefCount /\ Pending
  BY <1>1, <1>6, FS_EmptySet DEF FreeListInit, RefCount, Pending
<1> QED
  BY <1>4, <1>5, <1>7 DEF FreeListInv

LEMMA FreeListInvNext == FreeListInv /\ [FreeListNext]_freeListVars => FreeListInv'
<1> SUFFICES ASSUME FreeListInv, [FreeListNext]_freeListVars
             PROVE  FreeListInv'
  OBVIOUS
<1>1. ASSUME NEW t \in Callers, Pushing(t)
      PROVE  FreeListInv'
  BY <1>1, QuietSteps, PushRefsStep, PushedStep, PushFailsStep, PushUndoStep DEF Pushing
<1>2. ASSUME NEW t \in Callers, Getting(t)
      PROVE  FreeListInv'
  BY <1>2, QuietSteps, GetIncStep, TakenStep, GetFailsStep, GetSub2Step, GetDecStep DEF Getting
<1>3. CASE UNCHANGED freeListVars
  BY <1>3 DEF freeListVars, sharedVars, getVars, pushVars, FreeListInv, FreeListType, Locals, Chain,
     Claims, Unheld, Pending, RefCount, ListHolds, Holders, Listed
<1> QED
  BY <1>1, <1>2, <1>3, QuietSteps, AddStep DEF FreeListNext

LEMMA FreeListInvariance == FreeListSpec => []FreeListInv
BY FreeListInvInit, FreeListInvNext, PTL DEF FreeListSpec

\* The types of FreeList's state; the counts stay within 32 bits if there are
\* fewer threads than half of what they hold.
THEOREM FreeListTypes == FreeListSpec => []FreeListType
<1>1. FreeListInv => FreeListType
  BY DEF FreeListInv
<1> QED
  BY <1>1, FreeListInvariance, PTL

\* freeListRefs counts exactly the references there are, at each step of any
\* number of threads in add, add_knowing_refcount_is_zero and try_get.
THEOREM CountsReferences == FreeListSpec => []RefCount
<1>1. FreeListInv => RefCount
  BY DEF FreeListInv
<1> QED
  BY <1>1, FreeListInvariance, PTL

\* No block leaks: whoever has to push a block that was given up while looked
\* at has pushed it when no call is under way.
THEOREM NoBlockLost == FreeListSpec => []NothingLost
<1>1. ASSUME FreeListInv
      PROVE  NothingLost
  <2> SUFFICES ASSUME \A t \in Callers : flpc[t] = "idle"
               PROVE  Listed = {n \in Nodes : owner[n] = Pooled}
    BY DEF NothingLost, At
  <2>1. \A n \in Nodes : Holders(n) = {} /\ (ListHolds(n) => n \in Listed)
    BY DEF Holders, ListHolds
  <2>2. \A n \in Nodes : owner[n] = Pooled => n \in Listed
    BY <1>1, <2>1 DEF FreeListInv, Pending, Marked
  <2>3. \A n \in Listed : n \in Nodes /\ owner[n] = Pooled
    BY <1>1 DEF FreeListInv, Claims, Listed, ListFrom
  <2> QED
    BY <2>2, <2>3
<1> QED
  BY <1>1, FreeListInvariance, PTL

\* The list implements FreePool: no interleaving hands a block to two threads
\* or takes one from its owner.
THEOREM ImplementsPool == FreeListSpec => PoolSpec
<1>1. FreeListInit => Pool!PoolInit
  BY DEF FreeListInit, Pool!PoolInit
<1>2. ASSUME FreeListInv, [FreeListNext]_freeListVars
      PROVE  [Pool!PoolNext]_owner
  <2>1. ASSUME NEW t \in Callers, NEW n \in Nodes, Add(t, n)
        PROVE  Pool!PoolNext
    BY <2>1 DEF Add, Pool!PoolNext, Pool!Give
  <2>2. ASSUME NEW t \in Callers, GetSub2(t)
        PROVE  Pool!PoolNext
    BY <1>2, <2>2 DEF GetSub2, At, FreeListInv, Locals, Claims, Looks, Holds, Pool!PoolNext, Pool!Take
  <2>3. owner' = owner \/ \E t \in Callers : GetSub2(t) \/ \E n \in Nodes : Add(t, n)
    BY <1>2 DEF FreeListNext, freeListVars, sharedVars, Pushing, PushLoad, PushNext, PushRefs, PushCas,
       PushUndo, Getting, GetLoad, GetRefs, GetInc, GetNext, GetCas, GetDec, TryGet
  <2> QED
    BY <2>1, <2>2, <2>3
<1> QED
  BY <1>1, <1>2, FreeListInvariance, PTL DEF FreeListSpec, PoolSpec, Pool!PoolSpec
=============================================================================
