------------------------------ MODULE FreeList ------------------------------
(***************************************************************************)
(* FreeList of App/concurrentqueue.h: the lock-free stack the queue keeps  *)
(* the blocks in that its consumers have emptied.                          *)
(*                                                                         *)
(* A node counts its references: one of the list that holds it and one of  *)
(* each try_get that looks at it.  A node that is given back while looked  *)
(* at is only marked (SHOULD_BE_ON_FREELIST, a bit above the count) and is *)
(* pushed by whoever brings its count to zero.  Every access to an atomic  *)
(* is a step; accesses are taken to be sequentially consistent.            *)
(***************************************************************************)
EXTENDS Integers, FiniteSets

CONSTANTS
  Callers,                \* callers of add and try_get
  Nodes,                  \* blocks
  SHOULD_BE_ON_FREELIST,  \* 0x80000000 in the code
  Pooled,                 \* owner of a block that is nobody's
  null

ASSUME FreeListAssumption ==
  /\ IsFiniteSet(Callers)
  /\ SHOULD_BE_ON_FREELIST \in Nat
  /\ SHOULD_BE_ON_FREELIST > Cardinality(Callers) + 1
  /\ null \notin Nodes
  /\ Pooled \notin Callers

VARIABLES
  freeListHead,
  freeListRefs,
  freeListNext,
  owner,    \* owner[n]: the thread that has n, or Pooled (not in the code)
  flpc,     \* where each thread is in add or try_get
  head,     \* try_get's head, prevHead once its CAS has failed
  reload,   \* the head that CAS left behind
  refs,     \* try_get's refs
  next,     \* try_get's next
  node,     \* the argument of add_knowing_refcount_is_zero
  expected  \* its head

sharedVars == <<freeListHead, freeListRefs, freeListNext, owner>>
getVars == <<head, reload, refs, next>>
pushVars == <<node, expected>>
freeListVars == <<sharedVars, flpc, getVars, pushVars>>

Steps ==
  {"idle", "push_load", "push_next", "push_refs", "push_cas", "push_undo",
   "get_load", "get_refs", "get_inc", "get_next", "get_cas", "get_sub2", "get_dec"}

Counts == 0..2 * SHOULD_BE_ON_FREELIST - 1

FreeListType ==
  /\ freeListHead \in Nodes \cup {null}
  /\ freeListRefs \in [Nodes -> Counts]
  /\ freeListNext \in [Nodes -> Nodes \cup {null}]
  /\ owner \in [Nodes -> Callers \cup {Pooled}]
  /\ flpc \in [Callers -> Steps]
  /\ head \in [Callers -> Nodes \cup {null}]
  /\ reload \in [Callers -> Nodes \cup {null}]
  /\ refs \in [Callers -> Counts]
  /\ next \in [Callers -> Nodes \cup {null}]
  /\ node \in [Callers -> Nodes \cup {null}]
  /\ expected \in [Callers -> Nodes \cup {null}]

\* All blocks are in use at first: the queue starts with a pool of its own.
FreeListInit ==
  /\ freeListHead = null
  /\ freeListRefs = [n \in Nodes |-> 0]
  /\ freeListNext = [n \in Nodes |-> null]
  /\ owner \in [Nodes -> Callers]
  /\ flpc = [t \in Callers |-> "idle"]
  /\ head = [t \in Callers |-> null]
  /\ reload = [t \in Callers |-> null]
  /\ refs = [t \in Callers |-> 0]
  /\ next = [t \in Callers |-> null]
  /\ node = [t \in Callers |-> null]
  /\ expected = [t \in Callers |-> null]

At(t, label) == flpc[t] = label
Goto(t, label) == flpc' = [flpc EXCEPT ![t] = label]
AddRefs(n, d) == freeListRefs' = [freeListRefs EXCEPT ![n] = @ + d]

-----------------------------------------------------------------------------
(* add and add_knowing_refcount_is_zero *)

\* The count is zero and n is marked: t has to push it.
Push(t, n) ==
  /\ node' = [node EXCEPT ![t] = n]
  /\ Goto(t, "push_load")

\* add(n): mark n, and push it unless somebody still looks at it.
Add(t, n) ==
  /\ At(t, "idle")
  /\ owner[n] = t
  /\ owner' = [owner EXCEPT ![n] = Pooled]
  /\ AddRefs(n, SHOULD_BE_ON_FREELIST)
  /\ \/ /\ freeListRefs[n] = 0
        /\ Push(t, n)
     \/ /\ freeListRefs[n] # 0
        /\ UNCHANGED <<flpc, node>>
  /\ UNCHANGED <<freeListHead, freeListNext, getVars, expected>>

PushLoad(t) ==
  /\ At(t, "push_load")
  /\ expected' = [expected EXCEPT ![t] = freeListHead]
  /\ Goto(t, "push_next")
  /\ UNCHANGED <<sharedVars, getVars, node>>

PushNext(t) ==
  /\ At(t, "push_next")
  /\ freeListNext' = [freeListNext EXCEPT ![node[t]] = expected[t]]
  /\ Goto(t, "push_refs")
  /\ UNCHANGED <<freeListHead, freeListRefs, owner, getVars, pushVars>>

\* The store that takes the mark off and counts the list's reference.
PushRefs(t) ==
  /\ At(t, "push_refs")
  /\ freeListRefs' = [freeListRefs EXCEPT ![node[t]] = 1]
  /\ Goto(t, "push_cas")
  /\ UNCHANGED <<freeListHead, freeListNext, owner, getVars, pushVars>>

\* Back in try_get's loop if that is where t was, or in the caller.
Return(t) ==
  /\ Goto(t, IF head[t] # null THEN "get_refs" ELSE "idle")
  /\ node' = [node EXCEPT ![t] = null]
  /\ expected' = [expected EXCEPT ![t] = null]

PushCas(t) ==
  /\ At(t, "push_cas")
  /\ \/ /\ freeListHead = expected[t]
        /\ freeListHead' = node[t]
        /\ Return(t)
     \/ /\ freeListHead # expected[t]
        /\ expected' = [expected EXCEPT ![t] = freeListHead]
        /\ Goto(t, "push_undo")
        /\ UNCHANGED <<freeListHead, node>>
  /\ UNCHANGED <<freeListRefs, freeListNext, owner, getVars>>

\* [Wrong] the push is tried again whoever else looks at the node.
PushUndoRetries(t) ==
  /\ At(t, "push_undo")
  /\ AddRefs(node[t], SHOULD_BE_ON_FREELIST - 1)
  /\ Goto(t, "push_next")
  /\ UNCHANGED <<freeListHead, freeListNext, owner, getVars, pushVars>>

\* [Wrong] the push is never tried again.
PushUndoGivesUp(t) ==
  /\ At(t, "push_undo")
  /\ AddRefs(node[t], SHOULD_BE_ON_FREELIST - 1)
  /\ Return(t)
  /\ UNCHANGED <<freeListHead, freeListNext, owner, getVars>>

\* The CAS failed: mark the node again in place of the list's reference, and
\* try again only if nobody else holds one.
PushUndo(t) ==
  /\ At(t, "push_undo")
  /\ AddRefs(node[t], SHOULD_BE_ON_FREELIST - 1)
  /\ \/ /\ freeListRefs[node[t]] = 1
        /\ Goto(t, "push_next")
        /\ UNCHANGED pushVars
     \/ /\ freeListRefs[node[t]] # 1
        /\ Return(t)
  /\ UNCHANGED <<freeListHead, freeListNext, owner, getVars>>

-----------------------------------------------------------------------------
(* try_get *)

TryGet(t) ==
  /\ At(t, "idle")
  /\ Goto(t, "get_load")
  /\ UNCHANGED <<sharedVars, getVars, pushVars>>

\* An empty list ends the call with null.
GetLoad(t) ==
  /\ At(t, "get_load")
  /\ head' = [head EXCEPT ![t] = freeListHead]
  /\ Goto(t, IF freeListHead = null THEN "idle" ELSE "get_refs")
  /\ UNCHANGED <<sharedVars, reload, refs, next, pushVars>>

\* [Wrong] the count may be raised from zero.
GetRefsAny(t) ==
  /\ At(t, "get_refs")
  /\ refs' = [refs EXCEPT ![t] = freeListRefs[head[t]]]
  /\ Goto(t, "get_inc")
  /\ UNCHANGED <<sharedVars, head, reload, next, pushVars>>

\* A count of zero is not touched: the node is not on the list.
GetRefs(t) ==
  /\ At(t, "get_refs")
  /\ LET r == freeListRefs[head[t]] IN
       /\ refs' = [refs EXCEPT ![t] = r]
       /\ Goto(t, IF r % SHOULD_BE_ON_FREELIST = 0 THEN "get_load" ELSE "get_inc")
  /\ UNCHANGED <<sharedVars, head, reload, next, pushVars>>

GetInc(t) ==
  /\ At(t, "get_inc")
  /\ \/ /\ freeListRefs[head[t]] = refs[t]
        /\ AddRefs(head[t], 1)
        /\ Goto(t, "get_next")
     \/ /\ freeListRefs[head[t]] # refs[t]
        /\ Goto(t, "get_load")
        /\ UNCHANGED freeListRefs
  /\ refs' = [refs EXCEPT ![t] = 0]
  /\ UNCHANGED <<freeListHead, freeListNext, owner, head, reload, next, pushVars>>

GetNext(t) ==
  /\ At(t, "get_next")
  /\ next' = [next EXCEPT ![t] = freeListNext[head[t]]]
  /\ Goto(t, "get_cas")
  /\ UNCHANGED <<sharedVars, head, reload, refs, pushVars>>

GetCas(t) ==
  /\ At(t, "get_cas")
  /\ \/ /\ freeListHead = head[t]
        /\ freeListHead' = next[t]
        /\ Goto(t, "get_sub2")
        /\ UNCHANGED reload
     \/ /\ freeListHead # head[t]
        /\ reload' = [reload EXCEPT ![t] = freeListHead]
        /\ Goto(t, "get_dec")
        /\ UNCHANGED freeListHead
  /\ next' = [next EXCEPT ![t] = null]
  /\ UNCHANGED <<freeListRefs, freeListNext, owner, head, refs, pushVars>>

\* The node is t's: its own reference and the list's go.
GetSub2(t) ==
  /\ At(t, "get_sub2")
  /\ AddRefs(head[t], -2)
  /\ owner' = [owner EXCEPT ![head[t]] = t]
  /\ head' = [head EXCEPT ![t] = null]
  /\ Goto(t, "idle")
  /\ UNCHANGED <<freeListHead, freeListNext, reload, refs, next, pushVars>>

\* The head has changed: t gives its reference up, which leaves it to push
\* the node if it was the last one and the node is marked.
GetDec(t) ==
  /\ At(t, "get_dec")
  /\ AddRefs(head[t], -1)
  /\ head' = [head EXCEPT ![t] = reload[t]]
  /\ reload' = [reload EXCEPT ![t] = null]
  /\ \/ /\ freeListRefs[head[t]] = SHOULD_BE_ON_FREELIST + 1
        /\ Push(t, head[t])
     \/ /\ freeListRefs[head[t]] # SHOULD_BE_ON_FREELIST + 1
        /\ Goto(t, IF reload[t] = null THEN "idle" ELSE "get_refs")
        /\ UNCHANGED node
  /\ UNCHANGED <<freeListHead, freeListNext, owner, refs, next, expected>>

Pushing(t) == PushLoad(t) \/ PushNext(t) \/ PushRefs(t) \/ PushCas(t) \/ PushUndo(t)
Getting(t) ==
  GetLoad(t) \/ GetRefs(t) \/ GetInc(t) \/ GetNext(t) \/ GetCas(t) \/ GetSub2(t) \/ GetDec(t)

FreeListNext ==
  \E t \in Callers :
    Pushing(t) \/ Getting(t) \/ TryGet(t) \/ \E n \in Nodes : Add(t, n)

FreeListSpec == FreeListInit /\ [][FreeListNext]_freeListVars

-----------------------------------------------------------------------------
(* Properties *)

\* Those that have taken a reference of n and not given it up.
Holders(n) ==
  {t \in Callers : head[t] = n /\ flpc[t] \in {"get_next", "get_cas", "get_sub2", "get_dec"}}

\* S has the head h and the next of each of its nodes.
Chained(S, h, nextOf) ==
  /\ h \in S \cup {null}
  /\ \A n \in S : nextOf[n] \in S \cup {null}

\* The nodes on a list, from its head: no more than what follows from that.
ListFrom(h, nextOf) ==
  {n \in Nodes : \A S \in SUBSET Nodes : Chained(S, h, nextOf) => n \in S}
Listed == ListFrom(freeListHead, freeListNext)

\* n is on the list, about to be or just off it: the list has a reference.
ListHolds(n) ==
  \/ n \in Listed
  \/ \E t \in Callers : flpc[t] = "get_sub2" /\ head[t] = n
  \/ \E t \in Callers : flpc[t] \in {"push_cas", "push_undo"} /\ node[t] = n

\* The count of a node is that of its references, and it is marked as long as
\* it is nobody's and yet has to get to the list.  (Hence the assertion after
\* try_get's CAS: the mark is off.)
RefCount ==
  \A n \in Nodes :
    freeListRefs[n] = Cardinality(Holders(n)) +
      (IF owner[n] # Pooled THEN 0 ELSE IF ListHolds(n) THEN 1 ELSE SHOULD_BE_ON_FREELIST)

\* No block leaks: once no call is under way, every block somebody gave up can
\* be had, although a thread may have left the push of its block to another.
NothingLost ==
  (\A t \in Callers : At(t, "idle")) => Listed = {n \in Nodes : owner[n] = Pooled}

\* The CAS on the head may succeed only for the node that is the head with the
\* next it has: no block is handed to two threads or taken from its owner.
Pool == INSTANCE FreePool
PoolSpec == Pool!PoolSpec
=============================================================================
