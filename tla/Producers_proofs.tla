--------------------------- MODULE Producers_proofs ---------------------------
(***************************************************************************)
(* The producers of the queue (get_or_add_implicit_producer of             *)
(* App/concurrentqueue.h) for any number of threads and any hashes of      *)
(* their ids: a thread has one producer for good and shares it with        *)
(* nobody, the flag of the resize is held by one thread, the consumers     *)
(* find every producer, and every table has an empty slot at which probing *)
(* ends.                                                                   *)
(***************************************************************************)
EXTENDS Producers, FiniteSetTheorems, SequenceTheorems, TLAPS

Labels ==
  {"idle", "lookup", "count", "resize", "locked", "unlock", "unlock_null", "insert", "link",
   "place"}
Cell == [key : Enqueuers \cup {nullptr}, value : Nat \cup {nullptr}]
Table == UNION {[0..c - 1 -> Cell] : c \in Nat \ {0}}

-----------------------------------------------------------------------------
(* The inductive invariant *)

TableType ==
  /\ hashes \in Seq(Table) /\ Len(hashes) >= 1
  /\ hashCount \in Int /\ newCount \in [Enqueuers -> Int]
  /\ nextProd \in Seq(Nat \cup {nullptr})
  /\ producerListTail \in Nat \cup {nullptr}
  /\ ppos \in [Enqueuers -> Labels]
  /\ mainHash \in [Enqueuers -> Nat] /\ hash \in [Enqueuers -> Nat]
  /\ producer \in [Enqueuers -> Nat \cup {nullptr}]
  /\ got \in [Enqueuers -> Nat \cup {nullptr}]

\* A call under way has read the current table, now or once.
InTables ==
  \A t \in Enqueuers :
    /\ ppos[t] # "idle" => mainHash[t] \in 1..Len(hashes)
    /\ ppos[t] = "lookup" => hash[t] \in 1..Len(hashes)

\* Thread t has an entry with producer p, or is about to make one.
Entered(t, p) ==
  \E h \in 1..Len(hashes) : \E i \in DOMAIN hashes[h] :
    hashes[h][i].key = t /\ hashes[h][i].value = p
InHand(t, p) == ppos[t] \in {"link", "place"} /\ producer[t] = p
Owns(t, p) == Entered(t, p) \/ InHand(t, p)

OwnedExist == \A t \in Enqueuers : \A p : Owns(t, p) => p \in Producer

\* Linear probing finds an entry: no slot before it is empty.
Probeable ==
  \A t \in Enqueuers : \A h \in 1..Len(hashes) : \A i \in DOMAIN hashes[h] :
    hashes[h][i].key = t =>
      \E n \in 0..Capacity(h) - 1 :
        /\ i = HashSlot(h, t, n)
        /\ \A m \in 0..n - 1 : hashes[h][HashSlot(h, t, m)].key # nullptr

NotIn(t, h) == \A i \in DOMAIN hashes[h] : hashes[h][i].key # t

\* A thread that adds itself has no entry; one that looks itself up has none in
\* the tables it has looked at, nor in newer ones.
New == {"count", "resize", "locked", "unlock", "unlock_null", "insert", "link"}
Unknown ==
  \A t \in Enqueuers : \A h \in 1..Len(hashes) :
    /\ ppos[t] = "lookup" /\ h > hash[t] => NotIn(t, h)
    /\ ppos[t] \in New => NotIn(t, h)

OneEach ==
  \A t, u \in Enqueuers : \A p, q \in Producer :
    Owns(t, p) /\ Owns(u, q) => (t = u <=> p = q)

GotOwned == \A t \in Enqueuers : got[t] # nullptr => Entered(t, got[t])

ProducersInv ==
  /\ TableType
  /\ InTables
  /\ OwnedExist
  /\ Probeable
  /\ Unknown
  /\ OneEach
  /\ GotOwned

-----------------------------------------------------------------------------
(* Tables *)

\* A table is a function on an interval, whose length is its capacity.
LEMMA TableDomain ==
  ASSUME TableType, NEW h \in 1..Len(hashes)
  PROVE  /\ Capacity(h) \in Nat \ {0}
         /\ DOMAIN hashes[h] = 0..Capacity(h) - 1
         /\ \A i \in DOMAIN hashes[h] : hashes[h][i] \in Cell
<1>1. hashes[h] \in Table
  BY DEF TableType
<1>2. PICK c \in Nat \ {0} : hashes[h] \in [0..c - 1 -> Cell]
  BY <1>1 DEF Table
<1>3. Cardinality(0..c - 1) = c
  BY <1>2, FS_Interval
<1> QED BY <1>2, <1>3 DEF Capacity

\* Probing stays in the table.
LEMMA SlotInTable ==
  ASSUME TableType, NEW h \in 1..Len(hashes), NEW t \in Enqueuers, NEW n \in Nat
  PROVE  HashSlot(h, t, n) \in DOMAIN hashes[h]
<1>1. hashedId[t] + n \in Nat
  BY ProducersAssumption
<1>2. Capacity(h) \in Nat \ {0} /\ DOMAIN hashes[h] = 0..Capacity(h) - 1
  BY TableDomain
<1> QED BY <1>1, <1>2 DEF HashSlot

\* Where the probing for keys may end: at a slot of the table that holds one of
\* them, behind slots that do not.
LEMMA ProbedSlot ==
  ASSUME TableType, NEW h \in 1..Len(hashes), NEW t \in Enqueuers, NEW keys,
         NEW i \in Probed(h, t, keys)
  PROVE  /\ i \in DOMAIN hashes[h]
         /\ hashes[h][i].key \in keys
         /\ \E n \in 0..Capacity(h) - 1 :
              /\ i = HashSlot(h, t, n)
              /\ \A m \in 0..n - 1 : hashes[h][HashSlot(h, t, m)].key \notin keys
<1>1. PICK n \in 0..Capacity(h) - 1 :
        /\ i = HashSlot(h, t, n)
        /\ hashes[h][HashSlot(h, t, n)].key \in keys
        /\ \A m \in 0..n - 1 : hashes[h][HashSlot(h, t, m)].key \notin keys
  BY DEF Probed
<1>2. n \in Nat
  BY TableDomain
<1>3. i \in DOMAIN hashes[h]
  BY <1>1, <1>2, SlotInTable
<1> QED BY <1>1, <1>3

\* If probing ends at an empty slot, the table has no entry of the thread.
LEMMA NotFoundMeansNotIn ==
  ASSUME ProducersInv, NEW t \in Enqueuers, ppos[t] = "lookup",
         \E i \in Lookup(t) : hashes[hash[t]][i].key = invalid_thread_id
  PROVE  NotIn(t, hash[t])
<1> DEFINE h == hash[t]
<1>1. TableType /\ Probeable /\ h \in 1..Len(hashes)
  BY DEF ProducersInv, InTables
<1> SUFFICES ASSUME NEW j \in DOMAIN hashes[h], hashes[h][j].key = t PROVE FALSE
  BY DEF NotIn
<1>2. PICK i \in Lookup(t) : hashes[h][i].key = nullptr
  BY DEF invalid_thread_id
<1> HIDE DEF h
<1>3. PICK n \in 0..Capacity(h) - 1 :
        /\ i = HashSlot(h, t, n)
        /\ \A m \in 0..n - 1 : hashes[h][HashSlot(h, t, m)].key \notin {t, nullptr}
  BY <1>1, <1>2, ProbedSlot DEF Lookup, invalid_thread_id, h
<1>4. PICK k \in 0..Capacity(h) - 1 :
        /\ j = HashSlot(h, t, k)
        /\ \A m \in 0..k - 1 : hashes[h][HashSlot(h, t, m)].key # nullptr
  BY <1>1 DEF Probeable
<1>5. t # nullptr
  BY ProducersAssumption
<1>6. n # k
  BY <1>2, <1>3, <1>4, <1>5
<1>7. ~(n < k)
  BY <1>2, <1>3, <1>4, <1>1, TableDomain
<1>8. ~(k < n)
  BY <1>3, <1>4, <1>1, TableDomain
<1> QED BY <1>1, <1>3, <1>4, <1>6, <1>7, <1>8, TableDomain

\* A new table is empty, and the others stay as they are.
LEMMA NewTable ==
  ASSUME TableType, NEW c \in Nat \ {0}, hashes' = Append(hashes, NewHash(c))
  PROVE  /\ hashes' \in Seq(Table)
         /\ Len(hashes') = Len(hashes) + 1
         /\ \A h \in 1..Len(hashes) : hashes'[h] = hashes[h]
         /\ \A i \in DOMAIN hashes'[Len(hashes')] : hashes'[Len(hashes')][i].key = nullptr
<1>1. NewHash(c) \in [0..c - 1 -> Cell]
  BY DEF NewHash, Cell, invalid_thread_id
<1>2. NewHash(c) \in Table
  BY <1>1 DEF Table
<1>3. /\ hashes' \in Seq(Table)
      /\ Len(hashes') = Len(hashes) + 1
      /\ \A h \in 1..Len(hashes) : hashes'[h] = hashes[h]
      /\ hashes'[Len(hashes')] = NewHash(c)
  BY <1>2 DEF TableType
<1> QED BY <1>3 DEF NewHash, invalid_thread_id

\* What Place does to the tables: a slot gets an entry.
Enters(g, j, cell) ==
  /\ g \in 1..Len(hashes) /\ j \in DOMAIN hashes[g] /\ cell \in Cell
  /\ hashes' = [hashes EXCEPT ![g][j] = cell]

LEMMA NewEntry ==
  ASSUME TableType, NEW g, NEW j, NEW cell, Enters(g, j, cell)
  PROVE  /\ hashes' \in Seq(Table)
         /\ Len(hashes') = Len(hashes)
         /\ \A h \in 1..Len(hashes) :
              /\ DOMAIN hashes'[h] = DOMAIN hashes[h]
              /\ \A i \in DOMAIN hashes[h] :
                   hashes'[h][i] = IF h = g /\ i = j THEN cell ELSE hashes[h][i]
<1> USE DEF Enters
<1> DEFINE table == [hashes[g] EXCEPT ![j] = cell]
<1>1. hashes' = [hashes EXCEPT ![g] = table]
  OBVIOUS
<1>2. hashes[g] \in Table
  BY DEF TableType
<1>3. PICK c \in Nat \ {0} : hashes[g] \in [0..c - 1 -> Cell]
  BY <1>2 DEF Table
<1>4. table \in [0..c - 1 -> Cell]
  BY <1>3
<1>5. table \in Table
  BY <1>4 DEF Table
<1>6. DOMAIN table = DOMAIN hashes[g]
      /\ \A i \in DOMAIN hashes[g] : table[i] = IF i = j THEN cell ELSE hashes[g][i]
  BY <1>3
<1> HIDE DEF table
<1>7. hashes \in Seq(Table)
  BY DEF TableType
<1>8. hashes' \in Seq(Table) /\ Len(hashes') = Len(hashes)
  BY <1>1, <1>5, <1>7, ExceptSeq
<1>9. \A h \in 1..Len(hashes) : hashes'[h] = IF h = g THEN table ELSE hashes[h]
  BY <1>1, <1>7
<1> QED BY <1>6, <1>8, <1>9
-----------------------------------------------------------------------------
(* Steps *)

\* A step after which nobody has a producer it did not have.
LEMMA NoNewOwner ==
  ASSUME ProducersInv, TableType', InTables', Probeable', Unknown', GotOwned',
         Len(nextProd') = Len(nextProd),
         \A t \in Enqueuers : \A p : Owns(t, p)' => Owns(t, p)
  PROVE  ProducersInv'
<1>1. OwnedExist'
  BY DEF ProducersInv, OwnedExist, Producer
<1>2. OneEach'
  BY DEF ProducersInv, OneEach, Producer
<1> QED BY <1>1, <1>2 DEF ProducersInv

\* A step that leaves the tables alone.
LEMMA SameTables ==
  ASSUME ProducersInv, hashes' = hashes
  PROVE  /\ Probeable'
         /\ \A t \in Enqueuers : \A p : Entered(t, p)' <=> Entered(t, p)
         /\ \A t \in Enqueuers : \A h \in 1..Len(hashes) : NotIn(t, h)' <=> NotIn(t, h)
<1>1. Probeable'
  BY DEF ProducersInv, Probeable, Capacity, HashSlot
<1>2. \A t \in Enqueuers : \A p : Entered(t, p)' <=> Entered(t, p)
  BY DEF Entered
<1>3. \A t \in Enqueuers : \A h \in 1..Len(hashes) : NotIn(t, h)' <=> NotIn(t, h)
  BY DEF NotIn
<1> QED BY <1>1, <1>2, <1>3

\* Such a step of thread t, if it takes no producer in hand that t has not, and
\* goes on with the search or with the addition only for good reason.
LEMMA ThreadStep ==
  ASSUME ProducersInv, hashes' = hashes, TableType',
         Len(nextProd') = Len(nextProd),
         NEW t \in Enqueuers,
         \A u \in Enqueuers \ {t} :
           /\ ppos'[u] = ppos[u] /\ mainHash'[u] = mainHash[u] /\ hash'[u] = hash[u]
           /\ producer'[u] = producer[u] /\ got'[u] = got[u],
         ppos'[t] # "idle" => mainHash'[t] \in 1..Len(hashes),
         ppos'[t] = "lookup" =>
           /\ hash'[t] \in 1..Len(hashes)
           /\ \A h \in 1..Len(hashes) : h > hash'[t] => NotIn(t, h),
         ppos'[t] \in New => \A h \in 1..Len(hashes) : NotIn(t, h),
         \A p : InHand(t, p)' => Owns(t, p),
         got'[t] \in {nullptr, got[t]} \/ Entered(t, got'[t])
  PROVE  ProducersInv'
<1>1. InTables'
  BY DEF ProducersInv, InTables
<1>2. Probeable'
  BY SameTables
<1>3. Unknown'
  <2> SUFFICES ASSUME NEW u \in Enqueuers, NEW h \in 1..Len(hashes)
               PROVE  /\ ppos'[u] = "lookup" /\ h > hash'[u] => NotIn(u, h)'
                      /\ ppos'[u] \in New => NotIn(u, h)'
    BY DEF Unknown
  <2>1. NotIn(u, h)' <=> NotIn(u, h)
    BY SameTables
  <2> QED BY <2>1 DEF ProducersInv, Unknown
<1>4. GotOwned'
  <2> SUFFICES ASSUME NEW u \in Enqueuers, got'[u] # nullptr
               PROVE  Entered(u, got[u])'
    BY DEF GotOwned
  <2>1. Entered(u, got'[u])
    BY DEF ProducersInv, GotOwned
  <2> QED BY <2>1, SameTables DEF Entered
<1>5. ASSUME NEW u \in Enqueuers, NEW p, Owns(u, p)' PROVE Owns(u, p)
  <2>1. CASE Entered(u, p)'
    BY <2>1, SameTables DEF Owns
  <2>2. CASE InHand(u, p)'
    BY <2>2 DEF Owns, InHand
  <2> QED BY <1>5, <2>1, <2>2 DEF Owns
<1> QED BY <1>1, <1>2, <1>3, <1>4, <1>5, NoNewOwner

LEMMA GetOrAddInv ==
  ASSUME ProducersInv, NEW t \in Enqueuers, GetOrAdd(t)
  PROVE  ProducersInv'
<1> USE DEF tableVars, listVars, lookupVars, insertVars, To
<1>1. TableType'
  BY DEF GetOrAdd, ProducersInv, TableType, Labels, Current
<1>2. /\ hashes' = hashes /\ nextProd' = nextProd
      /\ ppos' = [ppos EXCEPT ![t] = "lookup"]
      /\ mainHash' = [mainHash EXCEPT ![t] = Len(hashes)]
      /\ hash' = [hash EXCEPT ![t] = Len(hashes)]
      /\ producer' = producer /\ got' = got
  BY DEF GetOrAdd, Current
<1>3. /\ ppos'[t] = "lookup" /\ mainHash'[t] = Len(hashes) /\ hash'[t] = Len(hashes)
      /\ \A u \in Enqueuers \ {t} :
           ppos'[u] = ppos[u] /\ mainHash'[u] = mainHash[u] /\ hash'[u] = hash[u]
  BY <1>2 DEF ProducersInv, TableType
<1>4. Len(hashes) \in 1..Len(hashes) /\ \A h \in 1..Len(hashes) : ~(h > Len(hashes))
  BY DEF ProducersInv, TableType
<1> QED BY <1>1, <1>2, <1>3, <1>4, ThreadStep DEF New, InHand

LEMMA NotFoundInv ==
  ASSUME ProducersInv, NEW t \in Enqueuers, NotFound(t)
  PROVE  ProducersInv'
<1> USE DEF tableVars, listVars, lookupVars, insertVars, To
<1>0. TableType /\ hash[t] \in 1..Len(hashes)
  BY DEF NotFound, ProducersInv, InTables
<1>1. TableType'
  <2>1. hash[t] - 1 \in Nat
    BY <1>0
  <2>2. hash' \in [Enqueuers -> Nat]
    BY <1>0, <2>1 DEF NotFound, TableType
  <2>3. ppos' \in [Enqueuers -> Labels]
    BY <1>0 DEF NotFound, TableType, Labels
  <2> QED BY <1>0, <2>2, <2>3 DEF NotFound, TableType
<1>2. /\ hashes' = hashes /\ nextProd' = nextProd
      /\ ppos' = [ppos EXCEPT ![t] = IF hash[t] = 1 THEN "count" ELSE "lookup"]
      /\ mainHash' = mainHash
      /\ hash' = [hash EXCEPT ![t] = hash[t] - 1]
      /\ producer' = producer /\ got' = got
      /\ ppos[t] = "lookup"
  BY DEF NotFound, ProducersInv, TableType
<1>3. /\ ppos'[t] = IF hash[t] = 1 THEN "count" ELSE "lookup"
      /\ hash'[t] = hash[t] - 1
      /\ \A u \in Enqueuers \ {t} : ppos'[u] = ppos[u] /\ hash'[u] = hash[u]
  BY <1>2 DEF ProducersInv, TableType
<1>4. mainHash[t] \in 1..Len(hashes) /\ hash[t] \in 1..Len(hashes)
  BY <1>2 DEF ProducersInv, InTables
<1>5. \A h \in 1..Len(hashes) : h > hash[t] - 1 => NotIn(t, h)
  <2>1. NotIn(t, hash[t])
    BY NotFoundMeansNotIn DEF NotFound
  <2> QED BY <1>2, <1>4, <2>1 DEF ProducersInv, Unknown
<1>6. ppos'[t] = "lookup" => hash'[t] \in 1..Len(hashes)
  BY <1>3, <1>4
<1>7. ppos'[t] = "count" => \A h \in 1..Len(hashes) : NotIn(t, h)
  BY <1>3, <1>4, <1>5
<1> QED BY <1>1, <1>2, <1>3, <1>4, <1>5, <1>6, <1>7, ThreadStep DEF New, InHand

\* What the calls that end have in common.
LEMMA ReturnsType ==
  ASSUME ProducersInv, NEW t \in Enqueuers, NEW p \in Nat \cup {nullptr}, Returns(t, p),
         hashes' \in Seq(Table), Len(hashes') >= 1, hashCount' \in Int,
         UNCHANGED listVars
  PROVE  /\ TableType'
         /\ ppos'[t] = "idle"
         /\ got'[t] = IF p = nullptr THEN got[t] ELSE p
         /\ \A u \in Enqueuers \ {t} :
              /\ ppos'[u] = ppos[u] /\ mainHash'[u] = mainHash[u] /\ hash'[u] = hash[u]
              /\ producer'[u] = producer[u] /\ got'[u] = got[u]
<1>1. TableType
  BY DEF ProducersInv
<1> QED BY <1>1 DEF Returns, To, TableType, Labels, listVars

\* A thread has what probing finds for it.
LEMMA FoundEntered ==
  ASSUME ProducersInv, NEW t \in Enqueuers, ppos[t] = "lookup",
         NEW i \in Lookup(t), hashes[hash[t]][i].key = t
  PROVE  /\ Entered(t, hashes[hash[t]][i].value)
         /\ hashes[hash[t]][i].value \in Nat
<1>1. hash[t] \in 1..Len(hashes) /\ TableType
  BY DEF ProducersInv, InTables
<1>2. i \in DOMAIN hashes[hash[t]]
  BY <1>1, ProbedSlot DEF Lookup
<1>3. Entered(t, hashes[hash[t]][i].value)
  BY <1>1, <1>2 DEF Entered
<1>4. hashes[hash[t]][i].value \in Producer
  BY <1>3 DEF ProducersInv, OwnedExist, Owns
<1> QED BY <1>1, <1>3, <1>4 DEF Producer, TableType

LEMMA FoundCurrentInv ==
  ASSUME ProducersInv, NEW t \in Enqueuers, FoundCurrent(t)
  PROVE  ProducersInv'
<1> USE DEF tableVars, listVars, lookupVars, insertVars, To
<1>1. PICK i \in Lookup(t) :
        /\ hashes[hash[t]][i].key = t
        /\ Returns(t, hashes[hash[t]][i].value)
  BY DEF FoundCurrent
<1> DEFINE p == hashes[hash[t]][i].value
<1>2. Entered(t, p) /\ p \in Nat
  BY <1>1, FoundEntered DEF FoundCurrent
<1>3. hashes' = hashes /\ nextProd' = nextProd /\ hashCount' = hashCount
      /\ UNCHANGED listVars /\ Returns(t, p)
  BY <1>1 DEF FoundCurrent
<1> HIDE DEF p
<1>4. hashes' \in Seq(Table) /\ Len(hashes') >= 1 /\ hashCount' \in Int
  BY <1>3 DEF ProducersInv, TableType
<1>5. /\ TableType'
      /\ ppos'[t] = "idle"
      /\ got'[t] = IF p = nullptr THEN got[t] ELSE p
      /\ \A u \in Enqueuers \ {t} :
           /\ ppos'[u] = ppos[u] /\ mainHash'[u] = mainHash[u] /\ hash'[u] = hash[u]
           /\ producer'[u] = producer[u] /\ got'[u] = got[u]
  BY <1>2, <1>3, <1>4, ReturnsType
<1> QED BY <1>2, <1>3, <1>5, ThreadStep DEF New, InHand

LEMMA FoundEarlierInv ==
  ASSUME ProducersInv, NEW t \in Enqueuers, FoundEarlier(t)
  PROVE  ProducersInv'
<1> USE DEF tableVars, listVars, lookupVars, insertVars, To
<1>1. PICK i \in Lookup(t) :
        /\ hashes[hash[t]][i].key = t
        /\ producer' = [producer EXCEPT ![t] = hashes[hash[t]][i].value]
  BY DEF FoundEarlier
<1> DEFINE p == hashes[hash[t]][i].value
<1>2. Entered(t, p) /\ p \in Nat
  BY <1>1, FoundEntered DEF FoundEarlier
<1>3. /\ hashes' = hashes /\ nextProd' = nextProd
      /\ ppos[t] = "lookup" /\ ppos' = [ppos EXCEPT ![t] = "place"]
      /\ mainHash' = mainHash /\ hash' = [hash EXCEPT ![t] = 0]
      /\ producer' = [producer EXCEPT ![t] = p] /\ got' = got
      /\ UNCHANGED <<hashCount, newCount, producerListTail>>
  BY <1>1 DEF FoundEarlier
<1> HIDE DEF p
<1>4. TableType'
  BY <1>2, <1>3 DEF ProducersInv, TableType, Labels
<1>5. /\ ppos'[t] = "place" /\ producer'[t] = p
      /\ \A u \in Enqueuers \ {t} :
           ppos'[u] = ppos[u] /\ hash'[u] = hash[u] /\ producer'[u] = producer[u]
  BY <1>3 DEF ProducersInv, TableType
<1>6. mainHash[t] \in 1..Len(hashes)
  BY <1>3 DEF ProducersInv, InTables
<1> QED BY <1>2, <1>3, <1>4, <1>5, <1>6, ThreadStep DEF New, InHand, Owns

\* A step from a label of New to another.
LEMMA AddingStep ==
  ASSUME ProducersInv, NEW t \in Enqueuers, NEW label \in New \cup {"idle"},
         ppos[t] \in New \ {"link"}, label # "link",
         ppos' = [ppos EXCEPT ![t] = label],
         hashes' = hashes, hashCount' \in Int, newCount' \in [Enqueuers -> Int],
         UNCHANGED <<nextProd, producerListTail, hash, producer, got>>,
         mainHash' \in {mainHash, [mainHash EXCEPT ![t] = Len(hashes)]}
  PROVE  ProducersInv'
<1>1. TableType /\ mainHash[t] \in 1..Len(hashes)
  BY DEF ProducersInv, InTables, New
<1>2. TableType'
  <2>1. mainHash' \in [Enqueuers -> Nat]
    <3>1. mainHash \in [Enqueuers -> Nat] /\ Len(hashes) \in Nat
      BY <1>1 DEF TableType
    <3> QED BY <3>1
  <2>2. label \in Labels
    BY DEF New, Labels
  <2>3. ppos' \in [Enqueuers -> Labels]
    BY <1>1, <2>2 DEF TableType
  <2> QED BY <1>1, <2>1, <2>3 DEF TableType
<1>3. /\ ppos'[t] = label /\ mainHash'[t] \in 1..Len(hashes)
      /\ \A u \in Enqueuers \ {t} : ppos'[u] = ppos[u] /\ mainHash'[u] = mainHash[u]
  BY <1>1 DEF TableType
<1>4. \A h \in 1..Len(hashes) : NotIn(t, h)
  BY DEF ProducersInv, Unknown
<1> QED BY <1>2, <1>3, <1>4, ThreadStep DEF New, InHand

LEMMA CountingInv ==
  ASSUME ProducersInv, NEW t \in Enqueuers,
         \/ Count(t) \/ TryResize(t) \/ NoResize(t) \/ ResizeFails(t) \/ Unlock(t) \/ Wait(t)
  PROVE  ProducersInv'
<1> USE DEF tableVars, listVars, lookupVars, insertVars, To
<1>0. hashCount \in Int /\ newCount \in [Enqueuers -> Int]
  BY DEF ProducersInv, TableType
<1>1. CASE Count(t)
  <2>1. hashCount' \in Int /\ newCount' \in [Enqueuers -> Int]
    BY <1>0, <1>1 DEF Count
  <2> QED BY <1>1, <2>1, AddingStep DEF Count, New
<1>2. CASE TryResize(t)
  BY <1>0, <1>2, AddingStep DEF TryResize, New
<1>3. CASE NoResize(t)
  BY <1>0, <1>3, AddingStep DEF NoResize, New, Current
<1>4. CASE ResizeFails(t)
  <2>1. hashCount' \in Int
    BY <1>0, <1>4 DEF ResizeFails
  <2> QED BY <1>0, <1>4, <2>1, AddingStep DEF ResizeFails, New
<1>5. CASE Unlock(t)
  BY <1>0, <1>5, AddingStep DEF Unlock, New
<1>6. CASE Wait(t)
  BY <1>0, <1>6, AddingStep DEF Wait, New, Current
<1> QED BY <1>1, <1>2, <1>3, <1>4, <1>5, <1>6

LEMMA GivingUpInv ==
  ASSUME ProducersInv, NEW t \in Enqueuers, UnlockNull(t) \/ CreateFails(t)
  PROVE  ProducersInv'
<1> USE DEF tableVars, listVars, lookupVars, insertVars, To
<1>1. /\ hashes' = hashes /\ hashCount' \in Int
      /\ nextProd' = nextProd /\ producerListTail' = producerListTail
      /\ UNCHANGED listVars /\ Returns(t, nullptr)
  BY DEF UnlockNull, CreateFails, ProducersInv, TableType
<1>2. hashes' \in Seq(Table) /\ Len(hashes') >= 1
  BY <1>1 DEF ProducersInv, TableType
<1>3. /\ TableType'
      /\ ppos'[t] = "idle"
      /\ got'[t] = got[t]
      /\ \A u \in Enqueuers \ {t} :
           /\ ppos'[u] = ppos[u] /\ mainHash'[u] = mainHash[u] /\ hash'[u] = hash[u]
           /\ producer'[u] = producer[u] /\ got'[u] = got[u]
  BY <1>1, <1>2, ReturnsType
<1> QED BY <1>1, <1>3, ThreadStep DEF New, InHand
LEMMA ResizeInv ==
  ASSUME ProducersInv, NEW t \in Enqueuers, Resize(t)
  PROVE  ProducersInv'
<1> USE DEF tableVars, listVars, lookupVars, insertVars, To
<1>0. TableType
  BY DEF ProducersInv
<1>1. PICK c \in Nat \ {0} : hashes' = Append(hashes, NewHash(c))
  BY DEF Resize
<1>2. /\ hashes' \in Seq(Table)
      /\ Len(hashes') = Len(hashes) + 1
      /\ \A h \in 1..Len(hashes) : hashes'[h] = hashes[h]
      /\ \A i \in DOMAIN hashes'[Len(hashes')] : hashes'[Len(hashes')][i].key = nullptr
  BY <1>0, <1>1, NewTable
<1>3. Len(hashes) \in Nat /\ \A u \in Enqueuers : u # nullptr
  BY <1>0, ProducersAssumption DEF TableType
<1>4. /\ ppos[t] = "locked" /\ ppos' = [ppos EXCEPT ![t] = "unlock"]
      /\ mainHash' = [mainHash EXCEPT ![t] = Len(hashes) + 1]
      /\ UNCHANGED <<hashCount, newCount, nextProd, producerListTail, hash, producer, got>>
  BY DEF Resize, Current
<1>5. TableType'
  BY <1>0, <1>2, <1>3, <1>4 DEF TableType, Labels
<1>6. /\ ppos'[t] = "unlock" /\ mainHash'[t] = Len(hashes) + 1
      /\ \A u \in Enqueuers \ {t} : ppos'[u] = ppos[u] /\ mainHash'[u] = mainHash[u]
  BY <1>0, <1>4 DEF TableType
<1>7. InTables'
  BY <1>2, <1>3, <1>4, <1>6 DEF ProducersInv, InTables
<1>8. ASSUME NEW u \in Enqueuers, NEW h \in 1..Len(hashes'), h \notin 1..Len(hashes)
      PROVE  NotIn(u, h)'
  <2>1. h = Len(hashes')
    BY <1>2, <1>3, <1>8
  <2> QED BY <1>2, <1>3, <2>1 DEF NotIn
<1>9. Probeable'
  <2> SUFFICES ASSUME NEW u \in Enqueuers, NEW h \in 1..Len(hashes'),
                      NEW i \in DOMAIN hashes'[h], hashes'[h][i].key = u
               PROVE  (\E n \in 0..Capacity(h) - 1 :
                        /\ i = HashSlot(h, u, n)
                        /\ \A m \in 0..n - 1 : hashes[h][HashSlot(h, u, m)].key # nullptr)'
    BY DEF Probeable
  <2>1. h \in 1..Len(hashes)
    BY <1>8 DEF NotIn
  <2>2. hashes'[h] = hashes[h]
    BY <1>2, <2>1
  <2>3. \E n \in 0..Capacity(h) - 1 :
          /\ i = HashSlot(h, u, n)
          /\ \A m \in 0..n - 1 : hashes[h][HashSlot(h, u, m)].key # nullptr
    BY <2>1, <2>2 DEF ProducersInv, Probeable
  <2> QED BY <2>2, <2>3 DEF Capacity, HashSlot
<1>10. ASSUME NEW u \in Enqueuers, NEW h \in 1..Len(hashes), NotIn(u, h)
       PROVE  NotIn(u, h)'
  BY <1>2, <1>10 DEF NotIn
<1>11. Unknown'
  <2> SUFFICES ASSUME NEW u \in Enqueuers, NEW h \in 1..Len(hashes')
               PROVE  /\ ppos'[u] = "lookup" /\ h > hash'[u] => NotIn(u, h)'
                      /\ ppos'[u] \in New => NotIn(u, h)'
    BY DEF Unknown
  <2>1. CASE h \notin 1..Len(hashes)
    BY <1>8, <2>1
  <2>2. CASE h \in 1..Len(hashes)
    BY <1>4, <1>6, <1>10, <2>2 DEF ProducersInv, Unknown, New
  <2> QED BY <2>1, <2>2
<1>12. ASSUME NEW u \in Enqueuers, NEW p PROVE Entered(u, p)' <=> Entered(u, p)
  <2>1. ASSUME NEW h \in 1..Len(hashes'), NEW i \in DOMAIN hashes'[h],
               hashes'[h][i].key = u
        PROVE  h \in 1..Len(hashes)
    BY <1>8, <2>1 DEF NotIn
  <2>2. 1..Len(hashes) \subseteq 1..Len(hashes')
    BY <1>2, <1>3
  <2> QED BY <1>2, <2>1, <2>2 DEF Entered
<1>13. GotOwned'
  <2> SUFFICES ASSUME NEW u \in Enqueuers, got'[u] # nullptr
               PROVE  Entered(u, got[u])'
    BY DEF GotOwned
  <2>1. PICK p : p = got[u]
    OBVIOUS
  <2>2. Entered(u, p)
    BY <1>4, <2>1 DEF ProducersInv, GotOwned
  <2>3. Entered(u, p)'
    BY <1>12, <2>2
  <2> QED BY <1>4, <2>1, <2>3 DEF Entered
<1>14. ASSUME NEW u \in Enqueuers, NEW p, Owns(u, p)' PROVE Owns(u, p)
  BY <1>4, <1>6, <1>12, <1>14 DEF Owns, InHand
<1> QED BY <1>4, <1>5, <1>7, <1>9, <1>11, <1>13, <1>14, NoNewOwner

LEMMA CreateInv ==
  ASSUME ProducersInv, NEW t \in Enqueuers, Create(t)
  PROVE  ProducersInv'
<1> USE DEF tableVars, listVars, lookupVars, insertVars, To
<1>0. TableType /\ Len(nextProd) \in Nat
  BY DEF ProducersInv, TableType
<1> DEFINE new == Len(nextProd) + 1
<1>1. /\ hashes' = hashes /\ ppos[t] = "insert" /\ ppos' = [ppos EXCEPT ![t] = "link"]
      /\ nextProd' = Append(nextProd, producerListTail)
      /\ producer' = [producer EXCEPT ![t] = new]
      /\ UNCHANGED <<hashCount, newCount, producerListTail, mainHash, hash, got>>
  BY DEF Create
<1>2. Len(nextProd') = new /\ new \in Nat
  BY <1>0, <1>1 DEF TableType
<1>3. TableType'
  BY <1>0, <1>1, <1>2 DEF TableType, Labels
<1>4. /\ ppos'[t] = "link" /\ producer'[t] = new
      /\ \A u \in Enqueuers \ {t} : ppos'[u] = ppos[u] /\ producer'[u] = producer[u]
  BY <1>0, <1>1 DEF TableType
<1>5. InTables'
  BY <1>1, <1>4 DEF ProducersInv, InTables
<1>6. Unknown'
  <2> SUFFICES ASSUME NEW u \in Enqueuers, NEW h \in 1..Len(hashes)
               PROVE  /\ ppos'[u] = "lookup" /\ h > hash'[u] => NotIn(u, h)'
                      /\ ppos'[u] \in New => NotIn(u, h)'
    BY <1>1 DEF Unknown
  <2>1. NotIn(u, h)' <=> NotIn(u, h)
    BY <1>1, SameTables
  <2> QED BY <1>1, <1>4, <2>1 DEF ProducersInv, Unknown, New
<1>7. GotOwned'
  BY <1>1, SameTables DEF ProducersInv, GotOwned, Entered
<1>8. \A p : ~Entered(t, p)
  BY <1>1 DEF ProducersInv, Unknown, New, Entered, NotIn
<1>9. ASSUME NEW u \in Enqueuers, NEW p, Owns(u, p)'
      PROVE  IF u = t THEN p = new ELSE Owns(u, p)
  BY <1>1, <1>4, <1>8, <1>9, SameTables DEF Owns, InHand
<1>10. Producer \subseteq Producer' /\ new \in Producer' /\ new \notin Producer
  BY <1>0, <1>2 DEF Producer
<1> HIDE DEF new
<1>11. OwnedExist'
  BY <1>9, <1>10 DEF ProducersInv, OwnedExist
<1>12. OneEach'
  BY <1>9, <1>10 DEF ProducersInv, OwnedExist, OneEach
<1> QED BY <1>1, <1>3, <1>5, <1>6, <1>7, <1>11, <1>12, SameTables DEF ProducersInv

LEMMA LinkInv ==
  ASSUME ProducersInv, NEW t \in Enqueuers, Link(t)
  PROVE  ProducersInv'
<1> USE DEF tableVars, listVars, lookupVars, insertVars, To
<1>0. TableType
  BY DEF ProducersInv
<1>1. /\ hashes' = hashes /\ ppos[t] = "link"
      /\ ppos' = ppos \/ ppos' = [ppos EXCEPT ![t] = "place"]
      /\ nextProd' = nextProd \/ nextProd' = [nextProd EXCEPT ![producer[t]] = producerListTail]
      /\ producerListTail' \in {producerListTail, producer[t]}
      /\ UNCHANGED <<hashCount, newCount, producer, mainHash, hash, got>>
  BY DEF Link
<1>2. producer[t] \in 1..Len(nextProd)
  BY <1>1 DEF ProducersInv, OwnedExist, Owns, InHand, Producer
<1>3. nextProd' \in Seq(Nat \cup {nullptr}) /\ Len(nextProd') = Len(nextProd)
  <2>1. CASE nextProd' = nextProd
    BY <1>0, <2>1 DEF TableType
  <2>2. CASE nextProd' = [nextProd EXCEPT ![producer[t]] = producerListTail]
    BY <1>0, <1>2, <2>2, ExceptSeq DEF TableType
  <2> QED BY <1>1, <2>1, <2>2
<1>4. TableType'
  BY <1>0, <1>1, <1>3 DEF TableType, Labels
<1>5. /\ ppos'[t] \in {"link", "place"}
      /\ \A u \in Enqueuers \ {t} : ppos'[u] = ppos[u]
  BY <1>0, <1>1 DEF TableType
<1>6. mainHash[t] \in 1..Len(hashes) /\ \A h \in 1..Len(hashes) : NotIn(t, h)
  BY <1>1 DEF ProducersInv, InTables, Unknown, New
<1>7. \A p : InHand(t, p)' => Owns(t, p)
  BY <1>1 DEF InHand, Owns
<1> QED BY <1>1, <1>3, <1>4, <1>5, <1>6, <1>7, ThreadStep DEF New
LEMMA PlaceInv ==
  ASSUME ProducersInv, NEW t \in Enqueuers, Place(t)
  PROVE  ProducersInv'
<1> USE DEF tableVars, listVars, lookupVars, insertVars, To
<1>g. PICK g : g = mainHash[t]
  OBVIOUS
<1>c. PICK cell : cell = [key |-> t, value |-> producer[t]]
  OBVIOUS
<1>1. PICK j \in Probed(g, t, {nullptr}) : hashes' = [hashes EXCEPT ![g][j] = cell]
  BY <1>g, <1>c DEF Place, invalid_thread_id
<1>2. /\ TableType /\ g \in 1..Len(hashes) /\ t # nullptr
      /\ ppos[t] = "place" /\ producer[t] \in Nat /\ InHand(t, producer[t])
  <2>1. TableType /\ t # nullptr /\ ppos[t] = "place" /\ InHand(t, producer[t])
    BY ProducersAssumption DEF Place, ProducersInv, InHand
  <2>2. g \in 1..Len(hashes)
    BY <1>g, <2>1 DEF ProducersInv, InTables
  <2>3. producer[t] \in Producer
    BY <2>1 DEF ProducersInv, OwnedExist, Owns
  <2> QED BY <2>1, <2>2, <2>3 DEF TableType, Producer
<1>3. cell \in Cell
  BY <1>2, <1>c DEF Cell
<1>4. /\ j \in DOMAIN hashes[g] /\ hashes[g][j].key = nullptr
      /\ \E n \in 0..Capacity(g) - 1 :
           /\ j = HashSlot(g, t, n)
           /\ \A m \in 0..n - 1 : hashes[g][HashSlot(g, t, m)].key # nullptr
  BY <1>2, ProbedSlot
<1>5. /\ hashes' \in Seq(Table)
      /\ Len(hashes') = Len(hashes)
      /\ \A h \in 1..Len(hashes) :
           /\ DOMAIN hashes'[h] = DOMAIN hashes[h]
           /\ \A i \in DOMAIN hashes[h] :
                hashes'[h][i] = IF h = g /\ i = j THEN cell ELSE hashes[h][i]
  <2>1. Enters(g, j, cell)
    BY <1>1, <1>2, <1>3, <1>4 DEF Enters
  <2> QED BY <1>2, <2>1, NewEntry
<1>6. /\ TableType'
      /\ ppos'[t] = "idle"
      /\ got'[t] = producer[t]
      /\ \A u \in Enqueuers \ {t} :
           /\ ppos'[u] = ppos[u] /\ mainHash'[u] = mainHash[u] /\ hash'[u] = hash[u]
           /\ producer'[u] = producer[u] /\ got'[u] = got[u]
  <2>1. Len(hashes') >= 1 /\ hashCount' \in Int
    BY <1>2, <1>5 DEF Place, TableType
  <2>2. producer[t] # nullptr
    BY <1>2, ProducersAssumption
  <2> QED BY <1>2, <1>5, <2>1, <2>2, ReturnsType DEF Place
<1>7. cell.key = t /\ cell.value = producer[t]
  BY <1>c
<1>8. InTables'
  BY <1>5, <1>6 DEF ProducersInv, InTables
<1>9. Probeable'
  <2> SUFFICES ASSUME NEW u \in Enqueuers, NEW h \in 1..Len(hashes),
                      NEW i \in DOMAIN hashes[h], hashes'[h][i].key = u
               PROVE  (\E n \in 0..Capacity(h) - 1 :
                        /\ i = HashSlot(h, u, n)
                        /\ \A m \in 0..n - 1 : hashes[h][HashSlot(h, u, m)].key # nullptr)'
    BY <1>5 DEF Probeable
  <2>1. \E n \in 0..Capacity(h) - 1 :
          /\ i = HashSlot(h, u, n)
          /\ \A m \in 0..n - 1 : hashes[h][HashSlot(h, u, m)].key # nullptr
    <3>1. CASE h = g /\ i = j
      BY <1>4, <1>5, <1>7, <3>1
    <3>2. CASE ~(h = g /\ i = j)
      BY <1>5, <3>2 DEF ProducersInv, Probeable
    <3> QED BY <3>1, <3>2
  <2>2. PICK n \in 0..Capacity(h) - 1 :
          /\ i = HashSlot(h, u, n)
          /\ \A m \in 0..n - 1 : hashes[h][HashSlot(h, u, m)].key # nullptr
    BY <2>1
  <2>3. Capacity(h)' = Capacity(h) /\ \A m : HashSlot(h, u, m)' = HashSlot(h, u, m)
    BY <1>5 DEF Capacity, HashSlot
  <2>4. ASSUME NEW m \in 0..n - 1 PROVE hashes'[h][HashSlot(h, u, m)].key # nullptr
    <3>1. m \in Nat
      BY <1>2, <2>2, TableDomain
    <3>2. HashSlot(h, u, m) \in DOMAIN hashes[h]
      BY <1>2, <3>1, SlotInTable
    <3> QED BY <1>2, <1>5, <1>7, <2>2, <3>2
  <2> QED BY <2>2, <2>3, <2>4
<1>10. ASSUME NEW u \in Enqueuers \ {t}, NEW h \in 1..Len(hashes), NotIn(u, h)
       PROVE  NotIn(u, h)'
  BY <1>5, <1>7, <1>10 DEF NotIn
<1>11. Unknown'
  <2> SUFFICES ASSUME NEW u \in Enqueuers, NEW h \in 1..Len(hashes)
               PROVE  /\ ppos'[u] = "lookup" /\ h > hash'[u] => NotIn(u, h)'
                      /\ ppos'[u] \in New => NotIn(u, h)'
    BY <1>5 DEF Unknown
  <2>1. CASE u = t
    BY <1>6, <2>1 DEF New
  <2>2. CASE u # t
    BY <1>6, <1>10, <2>2 DEF ProducersInv, Unknown
  <2> QED BY <2>1, <2>2
<1>12. ASSUME NEW u \in Enqueuers, NEW p, Entered(u, p) PROVE Entered(u, p)'
  <2>0. PICK h \in 1..Len(hashes) :
          \E i \in DOMAIN hashes[h] : hashes[h][i].key = u /\ hashes[h][i].value = p
    BY <1>12 DEF Entered
  <2>1. PICK i \in DOMAIN hashes[h] : hashes[h][i].key = u /\ hashes[h][i].value = p
    BY <2>0
  <2>2. ~(h = g /\ i = j)
    BY <1>4, <2>1, ProducersAssumption
  <2> QED BY <1>5, <2>1, <2>2 DEF Entered
<1>13. ASSUME NEW p, p = producer[t] PROVE Entered(t, p)'
  <2>1. hashes'[g][j] = cell
    BY <1>2, <1>4, <1>5
  <2> QED BY <1>2, <1>4, <1>5, <1>7, <1>13, <2>1 DEF Entered
<1>14. GotOwned'
  <2> SUFFICES ASSUME NEW u \in Enqueuers, NEW p, p = got'[u], p # nullptr
               PROVE  Entered(u, p)'
    BY DEF GotOwned, Entered
  <2>1. CASE u = t
    BY <1>6, <1>13, <2>1
  <2>2. CASE u # t
    BY <1>6, <1>12, <2>2 DEF ProducersInv, GotOwned
  <2> QED BY <2>1, <2>2
<1>15. ASSUME NEW u \in Enqueuers, NEW p, Owns(u, p)' PROVE Owns(u, p)
  <2>1. CASE InHand(u, p)'
    BY <1>6, <2>1 DEF Owns, InHand
  <2>2. CASE Entered(u, p)'
    <3>0. PICK h \in 1..Len(hashes) :
            \E i \in DOMAIN hashes[h] : hashes'[h][i].key = u /\ hashes'[h][i].value = p
      BY <1>5, <2>2 DEF Entered
    <3>1. PICK i \in DOMAIN hashes[h] : hashes'[h][i].key = u /\ hashes'[h][i].value = p
      BY <3>0
    <3>2. CASE h = g /\ i = j
      BY <1>2, <1>5, <1>7, <3>1, <3>2 DEF Owns
    <3>3. CASE ~(h = g /\ i = j)
      BY <1>5, <3>1, <3>3 DEF Owns, Entered
    <3> QED BY <3>2, <3>3
  <2> QED BY <1>15, <2>1, <2>2 DEF Owns
<1>16. Len(nextProd') = Len(nextProd)
  BY DEF Place
<1> QED BY <1>6, <1>8, <1>9, <1>11, <1>14, <1>15, <1>16, NoNewOwner

-----------------------------------------------------------------------------
(* The specification *)

LEMMA InitInv == ProducersInit => ProducersInv
<1> SUFFICES ASSUME ProducersInit PROVE ProducersInv
  OBVIOUS
<1> DEFINE n == INITIAL_IMPLICIT_PRODUCER_HASH_SIZE
<1>1. NewHash(n) \in [0..n - 1 -> Cell]
  BY ProducersAssumption DEF NewHash, Cell, invalid_thread_id
<1>2. NewHash(n) \in Table
  BY <1>1, ProducersAssumption DEF Table
<1>3. hashes = <<NewHash(n)>>
  BY DEF ProducersInit
<1>4. hashes \in Seq(Table) /\ Len(hashes) = 1
  BY <1>2, <1>3
<1>5. \A i \in DOMAIN hashes[1] : hashes[1][i].key = nullptr
  BY <1>3 DEF NewHash, invalid_thread_id
<1>6. \A t \in Enqueuers : t # nullptr /\ \A h \in 1..Len(hashes) : NotIn(t, h)
  BY <1>4, <1>5, ProducersAssumption DEF NotIn
<1>7. TableType
  BY <1>4 DEF ProducersInit, TableType, Labels
<1>8. \A t \in Enqueuers : ppos[t] = "idle" /\ got[t] = nullptr
  BY DEF ProducersInit
<1>9. \A t \in Enqueuers : \A p : ~Owns(t, p)
  BY <1>6, <1>8 DEF Owns, Entered, InHand, NotIn
<1> QED
  BY <1>6, <1>7, <1>8, <1>9
  DEF ProducersInv, InTables, OwnedExist, Probeable, Unknown, NotIn, OneEach, GotOwned, New

LEMMA NextInv == ProducersInv /\ [ProducersNext]_producersVars => ProducersInv'
<1> SUFFICES ASSUME ProducersInv, [ProducersNext]_producersVars PROVE ProducersInv'
  OBVIOUS
<1>1. CASE UNCHANGED producersVars
  BY <1>1
  DEF producersVars, tableVars, listVars, lookupVars, insertVars, ProducersInv, TableType,
      InTables, OwnedExist, Probeable, Unknown, OneEach, GotOwned, Owns, Entered, InHand,
      NotIn, Producer, Capacity, HashSlot
<1>2. ASSUME NEW t \in Enqueuers, GetOrAdd(t) \/ LookingUp(t) \/ Adding(t)
      PROVE  ProducersInv'
  <2>1. CASE GetOrAdd(t)
    BY <2>1, GetOrAddInv
  <2>2. CASE LookingUp(t)
    BY <2>2, NotFoundInv, FoundCurrentInv, FoundEarlierInv, PlaceInv DEF LookingUp
  <2>3. CASE Adding(t)
    BY <2>3, CountingInv, ResizeInv, GivingUpInv, CreateInv, LinkInv DEF Adding
  <2> QED BY <1>2, <2>1, <2>2, <2>3
<1> QED BY <1>1, <1>2 DEF ProducersNext

\* What a call returns is what the thread had before, if it had one.
LEMMA GotForGood ==
  ASSUME ProducersInv, ProducersInv', [ProducersNext]_producersVars, NEW t \in Enqueuers
  PROVE  got[t] \in {nullptr, got'[t]}
<1>1. \A p, q : Owns(t, p) /\ Owns(t, q) => p = q
  BY DEF ProducersInv, OwnedExist, OneEach
<1>2. SUFFICES ASSUME got[t] # nullptr, got'[t] # got[t] PROVE FALSE
  OBVIOUS
<1>3. Owns(t, got[t])
  BY <1>2 DEF ProducersInv, GotOwned, Owns
<1>4. PICK u \in Enqueuers : FoundCurrent(u) \/ Place(u)
  <2>1. PICK u \in Enqueuers : GetOrAdd(u) \/ LookingUp(u) \/ Adding(u)
    BY <1>2 DEF ProducersNext, producersVars
  <2>2. ~GetOrAdd(u)
    BY <1>2 DEF GetOrAdd
  <2>3. ~Adding(u)
    <3>1. Adding(u) => got' = got \/ Returns(u, nullptr)
      BY DEF Adding, Count, TryResize, Resize, NoResize, ResizeFails, Unlock, UnlockNull, Wait,
             Create, CreateFails, Link
    <3>2. Returns(u, nullptr) => got'[t] = got[t]
      BY DEF Returns, ProducersInv, TableType
    <3> QED BY <1>2, <3>1, <3>2
  <2>4. ~NotFound(u) /\ ~FoundEarlier(u)
    BY <1>2 DEF NotFound, FoundEarlier
  <2> QED BY <2>1, <2>2, <2>3, <2>4 DEF LookingUp
<1>5. CASE FoundCurrent(u)
  <2>1. PICK i \in Lookup(u) :
          hashes[hash[u]][i].key = u /\ Returns(u, hashes[hash[u]][i].value)
    BY <1>5 DEF FoundCurrent
  <2>2. Entered(u, hashes[hash[u]][i].value)
    BY <1>5, <2>1, FoundEntered DEF FoundCurrent
  <2> DEFINE q == hashes[hash[u]][i].value
  <2>3. Owns(u, q)
    BY <2>2 DEF Owns
  <2>4. got' = [got EXCEPT ![u] = IF q = nullptr THEN @ ELSE q]
    BY <2>1 DEF Returns
  <2> HIDE DEF q
  <2>5. u = t /\ got'[t] = q
    BY <1>2, <2>4 DEF ProducersInv, TableType
  <2> QED BY <1>1, <1>2, <1>3, <2>3, <2>5
<1>6. CASE Place(u)
  <2>1. Owns(u, producer[u]) /\ Returns(u, producer[u])
    BY <1>6 DEF Place, Owns, InHand
  <2>2. u = t /\ got'[t] = producer[t]
    BY <1>2, <2>1 DEF Returns, ProducersInv, TableType
  <2> QED BY <1>1, <1>2, <1>3, <2>1, <2>2
<1> QED BY <1>4, <1>5, <1>6

\* get_or_add_implicit_producer: whatever tables are made while threads look
\* themselves up and add themselves, a thread gets the same producer at each
\* call, and no other thread gets it.
THEOREM OwnProducer == ProducersSpec => OneProducerEach
<1>1. ASSUME ProducersInv, ProducersInv', [ProducersNext]_producersVars
      PROVE  [\A t, u \in Enqueuers :
                got'[t] # nullptr => /\ got[t] \in {nullptr, got'[t]}
                                     /\ got'[u] = got'[t] => u = t]_producersVars
  <2>1. ASSUME NEW t \in Enqueuers, NEW u \in Enqueuers, NEW p, p # nullptr,
               got'[t] = p, got'[u] = p
        PROVE  u = t
    <3>1. Owns(t, p)' /\ Owns(u, p)'
      BY <1>1, <2>1 DEF ProducersInv, GotOwned, Owns, Entered
    <3>2. p \in Producer'
      BY <1>1, <3>1 DEF ProducersInv, OwnedExist
    <3> QED BY <1>1, <3>1, <3>2 DEF ProducersInv, OneEach
  <2> QED BY <1>1, <2>1, GotForGood
<1> QED BY InitInv, NextInv, <1>1, PTL DEF ProducersSpec, OneProducerEach

-----------------------------------------------------------------------------
(* The flag of the resize *)

Holding == {"locked", "unlock", "unlock_null"}
HeldByOne ==
  /\ ppos \in [Enqueuers -> Labels]
  /\ resizing \in BOOLEAN
  /\ ResizeHeld
  /\ \A t, u \in Enqueuers : ppos[t] \in Holding /\ ppos[u] \in Holding => t = u

LEMMA HeldNext == HeldByOne /\ [ProducersNext]_producersVars => HeldByOne'
<1> SUFFICES ASSUME HeldByOne, [ProducersNext]_producersVars PROVE HeldByOne'
  OBVIOUS
<1> USE DEF HeldByOne, ResizeHeld, Holding
<1>1. CASE UNCHANGED producersVars
  BY <1>1 DEF producersVars, tableVars
<1>2. ASSUME NEW t \in Enqueuers, NEW label \in Labels, ppos' = [ppos EXCEPT ![t] = label],
             resizing' = resizing, ppos[t] \in Holding <=> label \in Holding
      PROVE  HeldByOne'
  BY <1>2
<1>3. ASSUME NEW t \in Enqueuers, GetOrAdd(t) \/ LookingUp(t) \/ Adding(t)
      PROVE  HeldByOne'
  <2> USE DEF tableVars, To, Labels
  <2>1. CASE GetOrAdd(t) \/ NotFound(t) \/ FoundCurrent(t) \/ FoundEarlier(t) \/ Place(t)
    BY <2>1, <1>2 DEF GetOrAdd, NotFound, FoundCurrent, FoundEarlier, Place, Returns
  <2>2. CASE \/ Count(t) \/ Resize(t) \/ NoResize(t) \/ ResizeFails(t) \/ Wait(t) \/ Create(t)
             \/ CreateFails(t) \/ Link(t)
    BY <2>2, <1>2
    DEF Count, Resize, NoResize, ResizeFails, Wait, Create, CreateFails, Link, Returns
  <2>3. CASE TryResize(t)
    BY <2>3 DEF TryResize
  <2>4. CASE Unlock(t) \/ UnlockNull(t)
    BY <2>4 DEF Unlock, UnlockNull, Returns
  <2> QED BY <1>3, <2>1, <2>2, <2>3, <2>4 DEF LookingUp, Adding
<1> QED BY <1>1, <1>3 DEF ProducersNext

\* implicitProducerHashResizeInProgress is set exactly while some thread is on
\* its way to clear it: no allocation that fails leaves it set, so that nobody
\* spins on a flag without a holder.
THEOREM FlagHasHolder == ProducersSpec => []ResizeHeld
<1>1. ProducersInit => HeldByOne
  BY DEF ProducersInit, HeldByOne, ResizeHeld, Holding, Labels
<1>2. HeldByOne => ResizeHeld
  BY DEF HeldByOne
<1> QED BY <1>1, <1>2, HeldNext, PTL DEF ProducersSpec

-----------------------------------------------------------------------------
(* The list of the producers and the room in the tables *)

StepOf(t) == GetOrAdd(t) \/ LookingUp(t) \/ Adding(t)

\* The locals of the other threads stay as they are.
Others(t) ==
  \A u \in Enqueuers \ {t} :
    UNCHANGED <<ppos[u], mainHash[u], hash[u], newCount[u], producer[u], prevTail[u]>>

-----------------------------------------------------------------------------
(* What a step does to the tables and to the locals *)

LEMMA OthersStay ==
  ASSUME ProducersInv, DOMAIN prevTail = Enqueuers, NEW t \in Enqueuers, StepOf(t)
  PROVE  Others(t)
<1> USE DEF tableVars, listVars, lookupVars, insertVars, To, Others
<1>0. TableType
  BY DEF ProducersInv
<1>1. \A f, e : \A u \in Enqueuers \ {t} : DOMAIN f = Enqueuers => [f EXCEPT ![t] = e][u] = f[u]
  OBVIOUS
<1>2. /\ DOMAIN ppos = Enqueuers /\ DOMAIN mainHash = Enqueuers /\ DOMAIN hash = Enqueuers
      /\ DOMAIN newCount = Enqueuers /\ DOMAIN producer = Enqueuers
  BY <1>0 DEF TableType
<1>3. CASE GetOrAdd(t)
  BY <1>2, <1>3 DEF GetOrAdd
<1>4. CASE NotFound(t)
  BY <1>2, <1>4 DEF NotFound
<1>5. CASE \E p : Returns(t, p)
  BY <1>2, <1>5 DEF Returns
<1>6. CASE FoundEarlier(t)
  BY <1>2, <1>6 DEF FoundEarlier
<1>7. CASE Count(t) \/ TryResize(t) \/ Resize(t) \/ NoResize(t) \/ ResizeFails(t)
  BY <1>2, <1>7 DEF Count, TryResize, Resize, NoResize, ResizeFails
<1>8. CASE Unlock(t) \/ Wait(t) \/ Create(t)
  BY <1>2, <1>8 DEF Unlock, Wait, Create
<1>9. CASE Link(t)
  BY <1>2, <1>9 DEF Link
<1>10. FoundCurrent(t) \/ Place(t) \/ UnlockNull(t) \/ CreateFails(t) => \E p : Returns(t, p)
  BY DEF FoundCurrent, Place, UnlockNull, CreateFails
<1> QED
  BY <1>3, <1>4, <1>5, <1>6, <1>7, <1>8, <1>9, <1>10 DEF StepOf, LookingUp, Adding

\* All steps but these two leave the tables alone.
LEMMA TablesStay ==
  ASSUME NEW t \in Enqueuers, StepOf(t), ~Place(t), ~Resize(t)
  PROVE  hashes' = hashes
BY DEF StepOf, LookingUp, Adding, tableVars, GetOrAdd, NotFound, FoundCurrent, FoundEarlier,
       Count, TryResize, NoResize, ResizeFails, Unlock, UnlockNull, Wait, Create, CreateFails,
       Link

\* The slot that Place fills.
LEMMA PlaceEnters ==
  ASSUME ProducersInv, NEW t \in Enqueuers, Place(t)
  PROVE  \E j, cell :
           /\ Enters(mainHash[t], j, cell)
           /\ cell.key = t /\ cell.value = producer[t]
           /\ hashes[mainHash[t]][j].key = nullptr
<1>0. PICK cell : cell = [key |-> t, value |-> producer[t]]
  OBVIOUS
<1>1. PICK j \in Probed(mainHash[t], t, {nullptr}) :
        hashes' = [hashes EXCEPT ![mainHash[t]][j] = cell]
  BY <1>0 DEF Place, invalid_thread_id
<1>2. TableType /\ mainHash[t] \in 1..Len(hashes)
  BY DEF Place, ProducersInv, InTables
<1>3. j \in DOMAIN hashes[mainHash[t]] /\ hashes[mainHash[t]][j].key = nullptr
  BY <1>2, ProbedSlot
<1>4. cell \in Cell /\ cell.key = t /\ cell.value = producer[t]
  BY <1>0, <1>2 DEF Cell, TableType
<1>5. Enters(mainHash[t], j, cell)
  BY <1>1, <1>2, <1>3, <1>4 DEF Enters
<1> QED
  BY <1>3, <1>4, <1>5

\* Tables are added and entries are added, nothing else.
LEMMA EntriesKept ==
  ASSUME ProducersInv, NEW t \in Enqueuers, StepOf(t)
  PROVE  /\ Len(hashes) \in Nat /\ Len(hashes') \in Nat /\ Len(hashes') >= Len(hashes)
         /\ \A h \in 1..Len(hashes) : Capacity(h)' = Capacity(h)
         /\ \A u \in Enqueuers : \A h \in 1..Len(hashes) :
              NotIn(u, h) /\ ~(Place(t) /\ u = t /\ h = mainHash[t]) => NotIn(u, h)'
         /\ \A u \in Enqueuers : \A h \in 1..Len(hashes') : h > Len(hashes) => NotIn(u, h)'
<1>0. TableType /\ Len(hashes) \in Nat
  BY DEF ProducersInv, TableType
<1>1. CASE Place(t)
  <2>1. PICK j, cell : Enters(mainHash[t], j, cell) /\ cell.key = t
    BY <1>1, PlaceEnters
  <2>2. /\ Len(hashes') = Len(hashes)
        /\ \A h \in 1..Len(hashes) :
             /\ DOMAIN hashes'[h] = DOMAIN hashes[h]
             /\ \A i \in DOMAIN hashes[h] :
                  hashes'[h][i] = IF h = mainHash[t] /\ i = j THEN cell ELSE hashes[h][i]
    BY <1>0, <2>1, NewEntry
  <2> QED
    BY <1>0, <1>1, <2>1, <2>2 DEF NotIn, Capacity
<1>2. CASE Resize(t)
  <2>1. PICK c \in Nat \ {0} : hashes' = Append(hashes, NewHash(c))
    BY <1>2 DEF Resize
  <2>2. /\ Len(hashes') = Len(hashes) + 1
        /\ \A h \in 1..Len(hashes) : hashes'[h] = hashes[h]
        /\ \A i \in DOMAIN hashes'[Len(hashes')] : hashes'[Len(hashes')][i].key = nullptr
    BY <1>0, <2>1, NewTable
  <2>3. ASSUME NEW u \in Enqueuers, NEW h \in 1..Len(hashes'), h > Len(hashes)
        PROVE  NotIn(u, h)'
    <3>1. h = Len(hashes') /\ u # nullptr
      BY <1>0, <2>2, <2>3, ProducersAssumption
    <3> QED
      BY <2>2, <3>1 DEF NotIn
  <2> QED
    BY <1>0, <2>2, <2>3 DEF NotIn, Capacity
<1>3. CASE ~Place(t) /\ ~Resize(t)
  <2>1. hashes' = hashes
    BY <1>3, TablesStay
  <2> QED
    BY <1>0, <2>1 DEF NotIn, Capacity
<1> QED
  BY <1>1, <1>2, <1>3

\* A thread has no producer it did not have, unless it makes one.
LEMMA OwnedBefore ==
  ASSUME ProducersInv, NEW t \in Enqueuers, StepOf(t), Others(t), ~Create(t),
         NEW u \in Enqueuers, NEW p, Owns(u, p)'
  PROVE  Owns(u, p)
<1>0. TableType /\ Len(hashes) \in Nat
  BY DEF ProducersInv, TableType
<1>1. CASE Entered(u, p)'
  <2>1. CASE Place(t)
    <3>1. PICK j, cell :
            /\ Enters(mainHash[t], j, cell)
            /\ cell.key = t /\ cell.value = producer[t]
      BY <2>1, PlaceEnters
    <3>2. /\ Len(hashes') = Len(hashes)
          /\ \A h \in 1..Len(hashes) :
               /\ DOMAIN hashes'[h] = DOMAIN hashes[h]
               /\ \A i \in DOMAIN hashes[h] :
                    hashes'[h][i] = IF h = mainHash[t] /\ i = j THEN cell ELSE hashes[h][i]
      BY <1>0, <3>1, NewEntry
    <3>3. PICK h \in 1..Len(hashes) :
            \E i \in DOMAIN hashes[h] : hashes'[h][i].key = u /\ hashes'[h][i].value = p
      BY <1>1, <3>2 DEF Entered
    <3>4. PICK i \in DOMAIN hashes[h] : hashes'[h][i].key = u /\ hashes'[h][i].value = p
      BY <3>3
    <3>5. CASE h = mainHash[t] /\ i = j
      <4>1. u = t /\ p = producer[t] /\ ppos[t] = "place"
        BY <2>1, <3>1, <3>2, <3>4, <3>5 DEF Place
      <4> QED
        BY <4>1 DEF Owns, InHand
    <3>6. CASE ~(h = mainHash[t] /\ i = j)
      BY <3>2, <3>4, <3>6 DEF Owns, Entered
    <3> QED
      BY <3>5, <3>6
  <2>2. CASE Resize(t)
    <3>1. PICK c \in Nat \ {0} : hashes' = Append(hashes, NewHash(c))
      BY <2>2 DEF Resize
    <3>2. /\ Len(hashes') = Len(hashes) + 1
          /\ \A h \in 1..Len(hashes) : hashes'[h] = hashes[h]
      BY <1>0, <3>1, NewTable
    <3>3. PICK h \in 1..Len(hashes') :
            \E i \in DOMAIN hashes'[h] : hashes'[h][i].key = u /\ hashes'[h][i].value = p
      BY <1>1 DEF Entered
    <3>4. ~NotIn(u, h)'
      BY <3>3 DEF NotIn
    <3>5. h \in 1..Len(hashes)
      BY <1>0, <3>2, <3>4, EntriesKept
    <3> QED
      BY <3>2, <3>3, <3>5 DEF Owns, Entered
  <2>3. CASE ~Place(t) /\ ~Resize(t)
    <3>1. hashes' = hashes
      BY <2>3, TablesStay
    <3> QED
      BY <1>1, <3>1 DEF Owns, Entered
  <2> QED
    BY <2>1, <2>2, <2>3
<1>2. CASE InHand(u, p)'
  <2>1. CASE u # t
    BY <1>2, <2>1 DEF Others, Owns, InHand
  <2>2. CASE FoundEarlier(t) /\ u = t
    <3>1. PICK i \in Lookup(t) :
            /\ hashes[hash[t]][i].key = t
            /\ producer' = [producer EXCEPT ![t] = hashes[hash[t]][i].value]
      BY <2>2 DEF FoundEarlier
    <3>2. Entered(t, hashes[hash[t]][i].value)
      BY <2>2, <3>1, FoundEntered DEF FoundEarlier
    <3>3. producer'[t] = hashes[hash[t]][i].value
      BY <1>0, <3>1 DEF TableType
    <3> QED
      BY <1>2, <2>2, <3>2, <3>3 DEF Owns, InHand
  <2>3. CASE Link(t) /\ u = t
    BY <1>2, <2>3 DEF Link, Owns, InHand
  <2>4. CASE ~FoundEarlier(t) /\ ~Link(t) /\ u = t
    <3>1. ppos'[t] \in {"link", "place"}
      BY <1>2, <2>4 DEF InHand
    <3>2. ~(\E q : Returns(t, q)) /\ ~GetOrAdd(t) /\ ~NotFound(t)
      BY <1>0, <3>1 DEF Returns, To, GetOrAdd, NotFound, TableType
    <3>3. /\ ~Count(t) /\ ~TryResize(t) /\ ~Resize(t) /\ ~NoResize(t) /\ ~ResizeFails(t)
          /\ ~Unlock(t) /\ ~Wait(t)
      BY <1>0, <3>1
      DEF To, Count, TryResize, Resize, NoResize, ResizeFails, Unlock, Wait, TableType
    <3>4. FoundCurrent(t) \/ Place(t) \/ UnlockNull(t) \/ CreateFails(t) => \E q : Returns(t, q)
      BY DEF FoundCurrent, Place, UnlockNull, CreateFails
    <3> QED
      BY <2>4, <3>2, <3>3, <3>4 DEF StepOf, LookingUp, Adding
  <2> QED
    BY <2>1, <2>2, <2>3, <2>4
<1> QED
  BY <1>1, <1>2 DEF Owns
-----------------------------------------------------------------------------
(* The list *)

LinkTypes ==
  /\ nextProd \in Seq(Producer \cup {nullptr})
  /\ producerListTail \in Producer \cup {nullptr}
  /\ prevTail \in [Enqueuers -> Producer \cup {nullptr}]

\* A producer that is not linked yet is on no path from the tail, and its next
\* is the tail its thread has seen; every other one that is anybody's is listed.
Linked ==
  /\ LinkTypes
  /\ \A t \in Enqueuers : ppos[t] = "link" =>
       producer[t] \notin ListedProducers /\ nextProd[producer[t]] = prevTail[t]
  /\ \A t \in Enqueuers : \A p : Owns(t, p) /\ ppos[t] # "link" => p \in ListedProducers

\* The tail is listed and so is the next of what is listed.
LEMMA ListClosed ==
  ASSUME LinkTypes
  PROVE  /\ LinkedTo(ListedProducers, producerListTail, nextProd)
         /\ ListedProducers \subseteq Producer
<1>1. \A p \in Producer : nextProd[p] \in Producer \cup {nullptr}
  BY DEF LinkTypes, Producer
<1> QED
  BY <1>1 DEF LinkTypes, LinkedTo, ListedProducers

\* What a producer that is not listed points to does not matter.
LEMMA ListSame ==
  ASSUME LinkTypes, Producer \subseteq Producer', producerListTail' = producerListTail,
         \A p \in ListedProducers : nextProd'[p] = nextProd[p]
  PROVE  ListedProducers' = ListedProducers
<1> DEFINE L == ListedProducers
<1>1. LinkedTo(L, producerListTail, nextProd) /\ L \subseteq Producer /\ L \in SUBSET Producer'
  BY ListClosed
<1>2. LinkedTo(L, producerListTail', nextProd')
  BY <1>1 DEF LinkedTo
<1>3. ASSUME NEW S \in SUBSET Producer', LinkedTo(S, producerListTail', nextProd')
      PROVE  L \subseteq S
  <2>1. LinkedTo(S \cap L, producerListTail, nextProd)
    BY <1>1, <1>3 DEF LinkedTo
  <2>2. S \cap L \in SUBSET Producer
    BY <1>1
  <2> QED
    BY <2>1, <2>2 DEF ListedProducers
<1>4. \A p : p \in ListedProducers' => p \in L
  BY <1>1, <1>2 DEF ListedProducers
<1>5. \A p \in L : p \in ListedProducers'
  BY <1>1, <1>3 DEF ListedProducers
<1> QED
  BY <1>4, <1>5

\* The CAS adds the producer to the list.
LEMMA ListPush ==
  ASSUME LinkTypes, UNCHANGED nextProd, NEW n \in Producer, producerListTail' = n,
         nextProd[n] = producerListTail
  PROVE  ListedProducers' = ListedProducers \cup {n}
<1> DEFINE L == ListedProducers
<1>1. LinkedTo(L, producerListTail, nextProd) /\ L \subseteq Producer
  BY ListClosed
<1>2. LinkedTo(L \cup {n}, producerListTail', nextProd') /\ L \cup {n} \in SUBSET Producer'
  BY <1>1 DEF LinkedTo, Producer
<1>3. ASSUME NEW S \in SUBSET Producer', LinkedTo(S, producerListTail', nextProd')
      PROVE  L \cup {n} \subseteq S
  <2>1. n \in S
    BY <1>3, ProducersAssumption DEF LinkedTo, Producer
  <2>2. LinkedTo(S, producerListTail, nextProd) /\ S \in SUBSET Producer
    BY <1>3, <2>1 DEF LinkedTo, Producer
  <2> QED
    BY <2>1, <2>2 DEF ListedProducers
<1>4. \A p : p \in ListedProducers' => p \in L \cup {n}
  BY <1>1, <1>2 DEF ListedProducers
<1>5. \A p \in L \cup {n} : p \in ListedProducers'
  BY <1>1, <1>2, <1>3 DEF ListedProducers
<1> QED
  BY <1>4, <1>5

LEMMA CreateLinked ==
  ASSUME ProducersInv, Linked, NEW t \in Enqueuers, Others(t), Create(t)
  PROVE  Linked'
<1> USE DEF tableVars, lookupVars, To
<1>0. TableType /\ LinkTypes /\ Len(nextProd) \in Nat
  BY DEF ProducersInv, TableType, Linked
<1> DEFINE new == Len(nextProd) + 1
<1>1. /\ nextProd' = Append(nextProd, producerListTail) /\ producerListTail' = producerListTail
      /\ producer'[t] = new /\ prevTail'[t] = producerListTail /\ ppos'[t] = "link"
      /\ hashes' = hashes /\ prevTail' = [prevTail EXCEPT ![t] = producerListTail]
  BY <1>0 DEF Create, TableType, LinkTypes
<1>2. /\ Len(nextProd') = new /\ nextProd'[new] = producerListTail
      /\ \A p \in Producer : nextProd'[p] = nextProd[p]
      /\ Producer \subseteq Producer' /\ new \in Producer' /\ new \notin Producer
  BY <1>0, <1>1 DEF TableType, Producer
<1>3. LinkTypes'
  <2>1. \A p \in Producer' : nextProd'[p] \in Producer' \cup {nullptr}
    BY <1>0, <1>1, <1>2 DEF LinkTypes, Producer
  <2>2. nextProd' \in Seq(Nat \cup {nullptr})
    BY <1>0, <1>1 DEF TableType
  <2>3. nextProd' \in Seq(Producer' \cup {nullptr})
    BY <2>1, <2>2 DEF Producer
  <2>4. producerListTail' \in Producer' \cup {nullptr}
    BY <1>0, <1>1, <1>2 DEF LinkTypes
  <2>5. prevTail' \in [Enqueuers -> Producer' \cup {nullptr}]
    BY <1>0, <1>1, <1>2 DEF LinkTypes
  <2> QED
    BY <2>3, <2>4, <2>5 DEF LinkTypes
<1>4. ListedProducers' = ListedProducers /\ ListedProducers \subseteq Producer
  BY <1>0, <1>1, <1>2, ListClosed, ListSame
<1> HIDE DEF new
<1>5. ASSUME NEW u \in Enqueuers, ppos'[u] = "link"
      PROVE  producer'[u] \notin ListedProducers /\ nextProd'[producer'[u]] = prevTail'[u]
  <2>1. CASE u = t
    BY <1>1, <1>2, <1>4, <2>1
  <2>2. CASE u # t
    <3>1. ppos[u] = "link" /\ producer'[u] = producer[u] /\ prevTail'[u] = prevTail[u]
      BY <1>5, <2>2 DEF Others
    <3>2. producer[u] \in Producer
      BY <3>1 DEF ProducersInv, OwnedExist, Owns, InHand
    <3> QED
      BY <1>2, <3>1, <3>2 DEF Linked
  <2> QED
    BY <2>1, <2>2
<1>6. ASSUME NEW u \in Enqueuers, NEW p, Owns(u, p)', ppos'[u] # "link"
      PROVE  p \in ListedProducers
  <2>1. u # t
    BY <1>1, <1>6
  <2>2. Owns(u, p) /\ ppos[u] # "link"
    BY <1>1, <1>6, <2>1 DEF Owns, Entered, InHand, Others
  <2> QED
    BY <2>2 DEF Linked
<1> QED
  BY <1>3, <1>4, <1>5, <1>6 DEF Linked

LEMMA LinkLinked ==
  ASSUME ProducersInv, Linked, NEW t \in Enqueuers, Others(t), Link(t)
  PROVE  Linked'
<1> USE DEF tableVars, lookupVars, To
<1>0. TableType /\ LinkTypes /\ ppos[t] = "link" /\ StepOf(t) /\ ~Create(t)
  BY DEF ProducersInv, Linked, Link, StepOf, Adding, Create
<1>1. hashes' = hashes /\ producer' = producer
  BY DEF Link
<1>2. /\ producer[t] \in Producer /\ producer[t] \notin ListedProducers
      /\ nextProd[producer[t]] = prevTail[t]
      /\ \A p : Owns(t, p) => p = producer[t]
      /\ \A u \in Enqueuers \ {t} : InHand(u, producer[u]) => producer[u] # producer[t]
  <2>1. Owns(t, producer[t])
    BY <1>0 DEF Owns, InHand
  <2>2. \A u \in Enqueuers : InHand(u, producer[u]) => Owns(u, producer[u])
    BY DEF Owns
  <2> QED
    BY <1>0, <2>1, <2>2 DEF Linked, ProducersInv, OwnedExist, OneEach
<1>3. ListedProducers \subseteq Producer
  BY <1>0, ListClosed
<1>4. CASE producerListTail = prevTail[t]
  <2>1. nextProd' = nextProd /\ prevTail' = prevTail /\ producerListTail' = producer[t]
        /\ ppos' = [ppos EXCEPT ![t] = "place"]
    BY <1>4 DEF Link
  <2>2. LinkTypes'
    BY <1>0, <1>2, <2>1 DEF LinkTypes, Producer
  <2>3. ListedProducers' = ListedProducers \cup {producer[t]}
    BY <1>0, <1>2, <1>4, <2>1, ListPush
  <2>4. ASSUME NEW u \in Enqueuers, ppos'[u] = "link"
        PROVE  /\ producer'[u] \notin ListedProducers'
               /\ nextProd'[producer'[u]] = prevTail'[u]
    <3>1. u # t /\ ppos[u] = "link"
      BY <1>0, <2>1, <2>4 DEF TableType
    <3>2. producer[u] # producer[t]
      BY <1>2, <3>1 DEF InHand
    <3> QED
      BY <1>1, <2>1, <2>3, <3>1, <3>2 DEF Linked
  <2>5. ASSUME NEW u \in Enqueuers, NEW p, Owns(u, p)', ppos'[u] # "link"
        PROVE  p \in ListedProducers'
    <3>1. Owns(u, p)
      BY <1>0, <2>5, OwnedBefore
    <3>2. CASE u = t
      BY <1>2, <2>3, <3>1, <3>2
    <3>3. CASE u # t
      BY <2>3, <2>5, <3>1, <3>3 DEF Linked, Others
    <3> QED
      BY <3>2, <3>3
  <2> QED
    BY <2>2, <2>4, <2>5 DEF Linked
<1>5. CASE producerListTail # prevTail[t]
  <2>1. /\ prevTail' = [prevTail EXCEPT ![t] = producerListTail]
        /\ nextProd' = [nextProd EXCEPT ![producer[t]] = producerListTail]
        /\ producerListTail' = producerListTail /\ ppos' = ppos
    BY <1>5 DEF Link
  <2>2. nextProd' \in Seq(Producer \cup {nullptr}) /\ Len(nextProd') = Len(nextProd)
    BY <1>0, <1>2, <2>1, ExceptSeq DEF LinkTypes, Producer
  <2>3. Producer' = Producer
    BY <2>2 DEF Producer
  <2>4. LinkTypes'
    BY <1>0, <2>1, <2>2, <2>3 DEF LinkTypes
  <2>5. \A p \in Producer :
          nextProd'[p] = IF p = producer[t] THEN producerListTail ELSE nextProd[p]
    BY <1>0, <2>1 DEF LinkTypes, Producer
  <2>6. ListedProducers' = ListedProducers
    BY <1>0, <1>2, <1>3, <2>1, <2>3, <2>5, ListSame
  <2>7. ASSUME NEW u \in Enqueuers, ppos'[u] = "link"
        PROVE  /\ producer'[u] \notin ListedProducers'
               /\ nextProd'[producer'[u]] = prevTail'[u]
    <3>1. CASE u = t
      BY <1>0, <1>1, <1>2, <2>1, <2>5, <2>6, <3>1 DEF LinkTypes
    <3>2. CASE u # t
      <4>1. ppos[u] = "link" /\ prevTail'[u] = prevTail[u]
        BY <2>7, <3>2 DEF Others
      <4>2. producer[u] \in Producer /\ producer[u] # producer[t]
        BY <1>2, <3>2, <4>1 DEF ProducersInv, OwnedExist, Owns, InHand
      <4> QED
        BY <1>1, <2>5, <2>6, <4>1, <4>2 DEF Linked
    <3> QED
      BY <3>1, <3>2
  <2>8. ASSUME NEW u \in Enqueuers, NEW p, Owns(u, p)', ppos'[u] # "link"
        PROVE  p \in ListedProducers'
    <3>1. Owns(u, p)
      BY <1>0, <2>8, OwnedBefore
    <3> QED
      BY <2>1, <2>6, <2>8, <3>1 DEF Linked
  <2> QED
    BY <2>4, <2>7, <2>8 DEF Linked
<1> QED
  BY <1>4, <1>5

\* The other steps leave the list alone.
LEMMA OthersLinked ==
  ASSUME ProducersInv, Linked, NEW t \in Enqueuers, StepOf(t), Others(t),
         ~Create(t), ~Link(t)
  PROVE  Linked'
<1> USE DEF tableVars, listVars, lookupVars, insertVars, To
<1>0. TableType /\ LinkTypes
  BY DEF ProducersInv, Linked
<1>1. nextProd' = nextProd /\ producerListTail' = producerListTail
  BY DEF StepOf, LookingUp, Adding, GetOrAdd, NotFound, FoundCurrent, FoundEarlier, Place, Count,
         TryResize, Resize, NoResize, ResizeFails, Unlock, UnlockNull, Wait, CreateFails
<1>2. prevTail' \in {prevTail, [prevTail EXCEPT ![t] = nullptr]}
  BY DEF StepOf, LookingUp, Adding, GetOrAdd, NotFound, FoundCurrent, FoundEarlier, Place, Count,
         TryResize, Resize, NoResize, ResizeFails, Unlock, UnlockNull, Wait, CreateFails, Returns
<1>3. LinkTypes'
  BY <1>0, <1>1, <1>2 DEF LinkTypes, Producer
<1>4. ListedProducers' = ListedProducers
  BY <1>1 DEF ListedProducers, Producer
<1>5. ppos[t] # "link" /\ ppos'[t] # "link"
  BY <1>0
  DEF StepOf, LookingUp, Adding, GetOrAdd, NotFound, FoundCurrent, FoundEarlier, Place, Count,
      TryResize, Resize, NoResize, ResizeFails, Unlock, UnlockNull, Wait, CreateFails, Returns,
      TableType
<1>6. ASSUME NEW u \in Enqueuers, ppos'[u] = "link"
      PROVE  producer'[u] \notin ListedProducers' /\ nextProd'[producer'[u]] = prevTail'[u]
  BY <1>1, <1>4, <1>5, <1>6 DEF Linked, Others
<1>7. ASSUME NEW u \in Enqueuers, NEW p, Owns(u, p)', ppos'[u] # "link"
      PROVE  p \in ListedProducers'
  <2>1. Owns(u, p)
    BY <1>7, OwnedBefore
  <2> QED
    BY <1>4, <1>5, <1>7, <2>1 DEF Linked, Others
<1> QED
  BY <1>3, <1>6, <1>7 DEF Linked

LEMMA LinkedNext ==
  ProducersInv /\ Linked /\ [ProducersNext]_producersVars => Linked'
<1> SUFFICES ASSUME ProducersInv, Linked, [ProducersNext]_producersVars PROVE Linked'
  OBVIOUS
<1>1. CASE UNCHANGED producersVars
  <2>1. UNCHANGED <<hashes, nextProd, producerListTail, ppos, producer, prevTail>>
    BY <1>1 DEF producersVars, tableVars, listVars, lookupVars, insertVars
  <2>2. ListedProducers' = ListedProducers
    BY <2>1 DEF ListedProducers, Producer
  <2>3. \A t, p : Owns(t, p)' <=> Owns(t, p)
    BY <2>1 DEF Owns, Entered, InHand
  <2> QED
    BY <2>1, <2>2, <2>3 DEF Linked, LinkTypes, Producer
<1>2. ASSUME NEW t \in Enqueuers, StepOf(t)
      PROVE  Linked'
  <2>1. Others(t)
    BY <1>2, OthersStay DEF Linked, LinkTypes
  <2> QED
    BY <1>2, <2>1, CreateLinked, LinkLinked, OthersLinked
<1> QED
  BY <1>1, <1>2 DEF ProducersNext, StepOf

LEMMA LinkedInit == ProducersInit => Linked
<1> SUFFICES ASSUME ProducersInit PROVE Linked
  OBVIOUS
<1>1. ppos = [t \in Enqueuers |-> "idle"] /\ nextProd = <<>> /\ producerListTail = nullptr
      /\ prevTail = [t \in Enqueuers |-> nullptr]
  BY DEF ProducersInit
<1>2. LinkTypes
  BY <1>1 DEF LinkTypes
<1>3. \A t \in Enqueuers : \A p : ~Owns(t, p)
  <2>1. ProducersInv
    BY InitInv
  <2>2. Producer = {}
    BY <1>1 DEF Producer
  <2> QED
    BY <2>1, <2>2 DEF ProducersInv, OwnedExist
<1> QED
  BY <1>1, <1>2, <1>3 DEF Linked

\* add_producer: whatever CASes on the tail fail, every sub-queue that a thread
\* was given is on the list that try_dequeue walks, so that nothing is enqueued
\* where no consumer looks.
THEOREM EveryProducerListed == ProducersSpec => []AllListed
<1>1. ProducersInv /\ Linked => AllListed
  <2> SUFFICES ASSUME ProducersInv, Linked, NEW t \in Enqueuers, got[t] # nullptr
               PROVE  got[t] \in ListedProducers
    BY DEF AllListed
  <2>1. Entered(t, got[t])
    BY DEF ProducersInv, GotOwned
  <2>2. ppos[t] # "link"
    BY <2>1 DEF ProducersInv, Unknown, New, Entered, NotIn
  <2> QED
    BY <2>1, <2>2 DEF Linked, Owns
<1> QED
  BY InitInv, NextInv, LinkedInit, LinkedNext, <1>1, PTL DEF ProducersSpec

-----------------------------------------------------------------------------
(* Room *)

\* The threads that have counted themselves, with no producer yet; all that are
\* in implicitProducerHashCount; and those that are in the tables up to h or may
\* still be put there because their count was at most n.
Counting == {"resize", "locked", "unlock", "insert"}
Counted ==
  {t \in Enqueuers :
     ppos[t] \in Counting \cup {"link", "place"} \/ \E h \in 1..Len(hashes) : ~NotIn(t, h)}
UpTo(h, n) ==
  {t \in Enqueuers :
     \/ ppos[t] \in Counting /\ newCount[t] <= n
     \/ ppos[t] \in {"link", "place"} /\ mainHash[t] <= h
     \/ \E g \in 1..h : ~NotIn(t, g)}
RoomIn(h) == Capacity(h) \div 2 + Capacity(h) \div 4

\* A table is larger than the one before, and at most as many threads as it has
\* room for go into it or into an earlier one.
Growing == \A g, h \in 1..Len(hashes) : g <= h => Capacity(g) <= Capacity(h)
CountSuffices == Cardinality(Counted) <= hashCount
RoomSuffices ==
  \A h \in 1..Len(hashes) : \A n \in Nat :
    n + 1 >= RoomIn(h) => Cardinality(UpTo(h, n)) <= n

\* A search starts at mainHash; what is about to be placed there is not there
\* yet, and no table has two entries of a thread.
LooksBack == \A t \in Enqueuers : ppos[t] = "lookup" => hash[t] <= mainHash[t]
NotPlaced == \A t \in Enqueuers : ppos[t] = "place" => NotIn(t, mainHash[t])
KeysUnique ==
  \A h \in 1..Len(hashes) : \A i, j \in DOMAIN hashes[h] :
    hashes[h][i].key = hashes[h][j].key /\ hashes[h][i].key # nullptr => i = j

RoomInv ==
  /\ Growing
  /\ CountSuffices
  /\ RoomSuffices
  /\ LooksBack
  /\ NotPlaced
  /\ KeysUnique

LEMMA SomeThreads ==
  ASSUME NEW S \in SUBSET Enqueuers
  PROVE  /\ IsFiniteSet(S) /\ Cardinality(S) \in Nat
         /\ \A T \in SUBSET S : Cardinality(T) <= Cardinality(S)
<1>1. IsFiniteSet(S)
  BY ProducersAssumption, FS_Subset
<1> QED
  BY <1>1, FS_Subset, FS_CardinalityType

\* What a step does to the locals that say where a thread may go.
LEMMA StepKinds ==
  ASSUME ProducersInv, NEW t \in Enqueuers, StepOf(t)
  PROVE  \/ ppos'[t] \in Labels \ (Counting \cup {"link", "place"})
         \/ /\ Count(t)
            /\ ppos'[t] = "resize" /\ newCount'[t] = hashCount + 1
         \/ /\ ppos[t] \in Counting /\ ppos'[t] \in Counting /\ newCount'[t] = newCount[t]
         \/ /\ Create(t)
            /\ ppos[t] = "insert" /\ ppos'[t] = "link" /\ mainHash'[t] = mainHash[t]
            /\ newCount[t] < RoomIn(mainHash[t])
         \/ /\ ppos[t] = "link" /\ ppos'[t] \in {"link", "place"} /\ mainHash'[t] = mainHash[t]
         \/ /\ FoundEarlier(t)
            /\ ppos[t] = "lookup" /\ ppos'[t] = "place" /\ mainHash'[t] = mainHash[t]
<1> USE DEF tableVars, listVars, lookupVars, insertVars, To, Counting, Labels
<1>0. TableType
  BY DEF ProducersInv
<1>1. CASE GetOrAdd(t)
  BY <1>0, <1>1 DEF GetOrAdd, TableType
<1>2. CASE NotFound(t)
  <2>1. ppos'[t] \in {"count", "lookup"}
    BY <1>0, <1>2 DEF NotFound, TableType
  <2> QED
    BY <2>1
<1>3. CASE FoundCurrent(t) \/ Place(t) \/ UnlockNull(t) \/ CreateFails(t)
  <2>1. \E p : Returns(t, p)
    BY <1>3 DEF FoundCurrent, Place, UnlockNull, CreateFails
  <2>2. ppos'[t] = "idle"
    BY <1>0, <2>1 DEF Returns, TableType
  <2> QED
    BY <2>2
<1>4. CASE FoundEarlier(t)
  BY <1>0, <1>4 DEF FoundEarlier, TableType
<1>5. CASE Count(t)
  BY <1>0, <1>5 DEF Count, TableType
<1>6. CASE TryResize(t) \/ Resize(t) \/ NoResize(t) \/ Unlock(t) \/ Wait(t)
  <2>1. ppos[t] \in Counting /\ ppos'[t] \in Counting /\ newCount' = newCount
    BY <1>0, <1>6 DEF TryResize, Resize, NoResize, Unlock, Wait, TableType
  <2> QED
    BY <2>1
<1>7. CASE ResizeFails(t)
  BY <1>0, <1>7 DEF ResizeFails, TableType
<1>8. CASE Create(t)
  BY <1>0, <1>8 DEF Create, HasRoom, RoomIn, TableType
<1>9. CASE Link(t)
  BY <1>0, <1>9 DEF Link, TableType
<1> QED
  BY <1>1, <1>2, <1>3, <1>4, <1>5, <1>6, <1>7, <1>8, <1>9 DEF StepOf, LookingUp, Adding

\* Who is in the tables up to h after a step, or may get there, was or might
\* before, unless it has just been counted.
LEMMA UpToKept ==
  ASSUME ProducersInv, RoomInv, NEW t \in Enqueuers, StepOf(t), Others(t),
         NEW h \in 1..Len(hashes), NEW n \in Nat, n + 1 >= RoomIn(h),
         ~(Count(t) /\ newCount'[t] <= n)
  PROVE  UpTo(h, n)' \subseteq UpTo(h, n)
<1>0. TableType /\ Len(hashes) \in Nat
  BY DEF ProducersInv, TableType
<1>1. ASSUME NEW u \in Enqueuers, NEW g \in 1..h, ~NotIn(u, g)'
      PROVE  u \in UpTo(h, n)
  <2>1. g \in 1..Len(hashes) /\ h \in Nat
    BY <1>0
  <2>2. ~NotIn(u, g) \/ (Place(t) /\ u = t /\ g = mainHash[t])
    BY <1>1, <2>1, EntriesKept
  <2>3. Place(t) => ppos[t] = "place"
    BY DEF Place
  <2> QED
    BY <1>1, <2>1, <2>2, <2>3 DEF UpTo
<1>2. ASSUME NEW u \in Enqueuers \ {t}, u \in UpTo(h, n)'
      PROVE  u \in UpTo(h, n)
  BY <1>1, <1>2 DEF UpTo, Others
<1>3. ASSUME t \in UpTo(h, n)', \A g \in 1..h : NotIn(t, g)'
      PROVE  t \in UpTo(h, n)
  <2>1. \/ ppos'[t] \in Counting /\ newCount'[t] <= n
        \/ ppos'[t] \in {"link", "place"} /\ mainHash'[t] <= h
    BY <1>3 DEF UpTo
  <2>2. CASE Create(t) /\ ppos'[t] = "link" /\ mainHash'[t] = mainHash[t]
             /\ ppos[t] = "insert" /\ newCount[t] < RoomIn(mainHash[t])
    <3>1. mainHash[t] \in 1..Len(hashes) /\ mainHash[t] <= h
      BY <2>1, <2>2 DEF ProducersInv, InTables, Counting
    <3>2. Capacity(mainHash[t]) \in Nat /\ Capacity(h) \in Nat
          /\ Capacity(mainHash[t]) <= Capacity(h)
      BY <1>0, <3>1, TableDomain DEF RoomInv, Growing
    <3>3. RoomIn(mainHash[t]) <= RoomIn(h) /\ RoomIn(mainHash[t]) \in Int /\ RoomIn(h) \in Int
      BY <3>2 DEF RoomIn
    <3>4. newCount[t] <= n
      BY <1>0, <2>2, <3>3 DEF TableType
    <3> QED
      BY <2>2, <3>4 DEF UpTo, Counting
  <2>3. CASE FoundEarlier(t) /\ ppos[t] = "lookup" /\ ppos'[t] = "place"
             /\ mainHash'[t] = mainHash[t]
    <3>1. PICK i \in Lookup(t) : hashes[hash[t]][i].key = t
      BY <2>3 DEF FoundEarlier
    <3>2. hash[t] \in 1..Len(hashes) /\ hash[t] <= mainHash[t] /\ mainHash[t] \in Nat
      BY <1>0, <2>3 DEF ProducersInv, InTables, RoomInv, LooksBack, TableType
    <3>3. i \in DOMAIN hashes[hash[t]]
      BY <1>0, <3>1, <3>2, ProbedSlot DEF Lookup
    <3>4. ~NotIn(t, hash[t])
      BY <3>1, <3>3 DEF NotIn
    <3>5. hash[t] \in 1..h
      BY <1>0, <2>1, <2>3, <3>2 DEF Counting
    <3> QED
      BY <3>4, <3>5 DEF UpTo
  <2>4. CASE ppos[t] \in Counting /\ ppos'[t] \in Counting /\ newCount'[t] = newCount[t]
    BY <2>1, <2>4 DEF UpTo, Counting
  <2>5. CASE ppos[t] = "link" /\ ppos'[t] \in {"link", "place"} /\ mainHash'[t] = mainHash[t]
    BY <2>1, <2>5 DEF UpTo, Counting
  <2>6. CASE ppos'[t] \in Labels \ (Counting \cup {"link", "place"})
    BY <2>1, <2>6
  <2>7. CASE Count(t) /\ ppos'[t] = "resize"
    BY <2>1, <2>7
  <2> QED
    BY <2>2, <2>3, <2>4, <2>5, <2>6, <2>7, StepKinds
<1> QED
  BY <1>1, <1>2, <1>3 DEF UpTo

\* A step that is no Resize makes no table; Resize makes one that is larger.
LEMMA SameLength ==
  ASSUME ProducersInv, NEW t \in Enqueuers, StepOf(t), ~Resize(t)
  PROVE  Len(hashes') = Len(hashes)
<1>1. CASE Place(t)
  BY <1>1, PlaceEnters, NewEntry DEF ProducersInv
<1>2. CASE ~Place(t)
  BY <1>2, TablesStay
<1> QED
  BY <1>1, <1>2

LEMMA LargerTable ==
  ASSUME ProducersInv, NEW t \in Enqueuers, Resize(t)
  PROVE  /\ Len(hashes) \in Nat \ {0} /\ Len(hashes') = Len(hashes) + 1
         /\ Capacity(Len(hashes)) \in Nat
         /\ Capacity(Len(hashes))' \in Nat
         /\ Capacity(Len(hashes)) < Capacity(Len(hashes))'
         /\ \A h \in 1..Len(hashes) : hashes'[h] = hashes[h]
<1>0. TableType /\ Len(hashes) \in Nat \ {0}
  BY DEF ProducersInv, TableType
<1>1. PICK c \in 1..4 * newCount[t] + 2 :
        NewCapacity(t, Len(hashes), c) /\ hashes' = Append(hashes, NewHash(c))
  BY DEF Resize, Current
<1>2. c \in Nat \ {0} /\ newCount[t] \in Int
  BY <1>0 DEF TableType
<1>3. /\ Len(hashes') = Len(hashes) + 1
      /\ \A h \in 1..Len(hashes) : hashes'[h] = hashes[h]
  BY <1>0, <1>1, <1>2, NewTable
<1>4. hashes'[Len(hashes) + 1] = NewHash(c)
  BY <1>0, <1>1 DEF TableType
<1>5. Cardinality(DOMAIN NewHash(c)) = c
  BY <1>2, FS_Interval DEF NewHash
<1>6. Capacity(Len(hashes))' = c
  BY <1>3, <1>4, <1>5 DEF Capacity
<1>7. Capacity(Len(hashes)) \in Nat
  BY <1>0, TableDomain
<1>8. newCount[t] >= Capacity(Len(hashes)) \div 2 /\ newCount[t] < c \div 2
  BY <1>1 DEF Resize, HalfFull, Current, NewCapacity
<1>9. Capacity(Len(hashes)) < c
  BY <1>2, <1>7, <1>8
<1> QED
  BY <1>0, <1>2, <1>3, <1>6, <1>7, <1>9

LEMMA GrowingNext ==
  ASSUME ProducersInv, RoomInv, NEW t \in Enqueuers, StepOf(t)
  PROVE  Growing'
<1>0. Len(hashes) \in Nat /\ \A h \in 1..Len(hashes) : Capacity(h)' = Capacity(h)
  BY EntriesKept
<1>1. CASE Resize(t)
  <2> SUFFICES ASSUME NEW g \in 1..Len(hashes'), NEW h \in 1..Len(hashes'), g <= h
               PROVE  Capacity(g)' <= Capacity(h)'
    BY DEF Growing
  <2>1. /\ Len(hashes) \in Nat \ {0} /\ Len(hashes') = Len(hashes) + 1
        /\ Capacity(Len(hashes)) \in Nat
        /\ Capacity(Len(hashes))' \in Nat
        /\ Capacity(Len(hashes)) < Capacity(Len(hashes))'
    BY <1>1, LargerTable
  <2>2. CASE h \in 1..Len(hashes)
    BY <1>0, <2>1, <2>2 DEF RoomInv, Growing
  <2>3. CASE h = Len(hashes') /\ g \in 1..Len(hashes)
    <3>1. Capacity(g) <= Capacity(Len(hashes)) /\ Capacity(g) \in Nat
      BY <2>1, <2>3, TableDomain DEF RoomInv, Growing, ProducersInv
    <3>2. Capacity(g)' = Capacity(g)
      BY <1>0, <2>3
    <3>3. Capacity(h)' = Capacity(Len(hashes))'
      BY <2>3 DEF Capacity
    <3> QED
      BY <2>1, <2>3, <3>1, <3>2, <3>3
  <2>4. CASE h = Len(hashes') /\ g = Len(hashes')
    <3>1. Capacity(h)' = Capacity(Len(hashes))' /\ g = h
      BY <2>4 DEF Capacity
    <3> QED
      BY <2>1, <3>1
  <2> QED
    BY <2>1, <2>2, <2>3, <2>4
<1>2. CASE ~Resize(t)
  BY <1>0, <1>2, SameLength DEF RoomInv, Growing
<1> QED
  BY <1>1, <1>2

\* Who is counted.
LEMMA CountedKept ==
  ASSUME ProducersInv, NEW t \in Enqueuers, StepOf(t), Others(t)
  PROVE  /\ Counted' \subseteq Counted \cup {t}
         /\ Count(t) \/ Counted' \subseteq Counted
         /\ ppos[t] \in Counting /\ ppos'[t] \notin Counting \cup {"link"} =>
              t \in Counted /\ t \notin Counted'
<1>0. TableType /\ Len(hashes) \in Nat
  BY DEF ProducersInv, TableType
<1>1. ASSUME NEW u \in Enqueuers, NEW h \in 1..Len(hashes'), ~NotIn(u, h)'
      PROVE  \/ \E g \in 1..Len(hashes) : ~NotIn(u, g)
             \/ u = t /\ ppos[t] = "place"
  <2>1. h \in 1..Len(hashes)
    BY <1>0, <1>1, EntriesKept
  <2>2. Place(t) => ppos[t] = "place"
    BY DEF Place
  <2> QED
    BY <1>1, <2>1, <2>2, EntriesKept
<1>2. ASSUME NEW u \in Enqueuers \ {t}, u \in Counted'
      PROVE  u \in Counted
  <2>1. CASE ppos'[u] \in Counting \cup {"link", "place"}
    BY <2>1 DEF Counted, Others
  <2>2. CASE \E h \in 1..Len(hashes') : ~NotIn(u, h)'
    BY <1>1, <2>2 DEF Counted
  <2> QED
    BY <1>2, <2>1, <2>2 DEF Counted
<1>3. ASSUME t \in Counted', ~Count(t)
      PROVE  t \in Counted
  <2>1. CASE \E h \in 1..Len(hashes') : ~NotIn(t, h)'
    BY <1>1, <2>1 DEF Counted
  <2>2. CASE FoundEarlier(t)
    <3>1. PICK i \in Lookup(t) : hashes[hash[t]][i].key = t
      BY <2>2 DEF FoundEarlier
    <3>2. hash[t] \in 1..Len(hashes)
      BY <2>2 DEF ProducersInv, InTables, FoundEarlier
    <3>3. i \in DOMAIN hashes[hash[t]]
      BY <1>0, <3>1, <3>2, ProbedSlot DEF Lookup
    <3> QED
      BY <3>1, <3>2, <3>3 DEF NotIn, Counted
  <2>3. CASE ppos'[t] \in Counting \cup {"link", "place"} /\ ~FoundEarlier(t)
    <3>1. ppos[t] \in Counting \cup {"link", "place"}
      BY <1>3, <2>3, StepKinds DEF Counting
    <3> QED
      BY <3>1 DEF Counted
  <2> QED
    BY <1>3, <2>1, <2>2, <2>3 DEF Counted
<1>4. ASSUME ppos[t] \in Counting, ppos'[t] \notin Counting \cup {"link"}
      PROVE  t \in Counted /\ t \notin Counted'
  <2>1. ~FoundEarlier(t) /\ ppos'[t] # "place"
    BY <1>4, StepKinds DEF Counting, FoundEarlier
  <2>2. \A h \in 1..Len(hashes) : NotIn(t, h)
    BY <1>4 DEF ProducersInv, Unknown, New, Counting
  <2>3. \A h \in 1..Len(hashes') : NotIn(t, h)'
    BY <1>1, <1>4, <2>2 DEF Counting
  <2> QED
    BY <1>4, <2>1, <2>3 DEF Counted, Counting
<1> QED
  BY <1>2, <1>3, <1>4 DEF Counted

LEMMA CountSufficesNext ==
  ASSUME ProducersInv, RoomInv, NEW t \in Enqueuers, StepOf(t), Others(t)
  PROVE  CountSuffices'
<1>0. hashCount \in Int /\ Counted \in SUBSET Enqueuers /\ Counted' \in SUBSET Enqueuers
  BY DEF ProducersInv, TableType, Counted
<1>1. Cardinality(Counted) <= hashCount /\ Cardinality(Counted) \in Nat /\ IsFiniteSet(Counted)
      /\ Cardinality(Counted') \in Nat
  BY <1>0, SomeThreads DEF RoomInv, CountSuffices
<1>2. CASE Count(t)
  <2>1. Cardinality(Counted \cup {t}) <= Cardinality(Counted) + 1
        /\ Counted \cup {t} \in SUBSET Enqueuers /\ Cardinality(Counted \cup {t}) \in Nat
    BY <1>0, <1>1, FS_AddElement, SomeThreads
  <2>2. Counted' \in SUBSET (Counted \cup {t})
    BY CountedKept
  <2>3. Cardinality(Counted') <= Cardinality(Counted \cup {t})
    BY <2>1, <2>2, SomeThreads
  <2>4. hashCount' = hashCount + 1
    BY <1>2 DEF Count
  <2> QED
    BY <1>0, <1>1, <2>1, <2>3, <2>4 DEF CountSuffices
<1>3. CASE ResizeFails(t) \/ CreateFails(t)
  <2>1. ~Count(t) /\ ppos[t] \in Counting /\ ppos'[t] \notin Counting \cup {"link"}
    BY <1>3
    DEF Count, ResizeFails, CreateFails, Returns, To, Counting, ProducersInv, TableType
  <2>2. Counted' \in SUBSET (Counted \ {t}) /\ t \in Counted
    BY <2>1, CountedKept
  <2>3. Cardinality(Counted \ {t}) = Cardinality(Counted) - 1
    BY <1>1, <2>2, FS_RemoveElement
  <2>4. Cardinality(Counted') <= Cardinality(Counted \ {t})
    <3>1. Counted \ {t} \in SUBSET Enqueuers
      BY <1>0
    <3> QED
      BY <2>2, <3>1, SomeThreads
  <2>5. hashCount' = hashCount - 1
    BY <1>3 DEF ResizeFails, CreateFails
  <2> QED
    BY <1>0, <1>1, <2>3, <2>4, <2>5 DEF CountSuffices
<1>4. CASE ~Count(t) /\ ~ResizeFails(t) /\ ~CreateFails(t)
  <2>1. hashCount' = hashCount
    BY <1>4
    DEF StepOf, LookingUp, Adding, tableVars, GetOrAdd, NotFound, FoundCurrent, FoundEarlier,
        Place, TryResize, Resize, NoResize, Unlock, UnlockNull, Wait, Create, Link
  <2>2. Counted' \in SUBSET Counted
    BY <1>4, CountedKept
  <2>3. Cardinality(Counted') <= Cardinality(Counted)
    BY <1>0, <2>2, SomeThreads
  <2> QED
    BY <1>0, <1>1, <2>1, <2>3 DEF CountSuffices
<1> QED
  BY <1>2, <1>3, <1>4

\* A new table is empty, and has more room than the last one, so that those who
\* may go into it or into an older one are those who might before.
LEMMA UpToNew ==
  ASSUME ProducersInv, NEW t \in Enqueuers, StepOf(t), Others(t), Resize(t), NEW n \in Nat,
         NEW h, h = Len(hashes')
  PROVE  UpTo(h, n)' \subseteq UpTo(Len(hashes), n)
<1>0. TableType /\ Len(hashes) \in Nat \ {0} /\ h = Len(hashes) + 1
  BY LargerTable DEF ProducersInv
<1>1. ppos[t] = "locked" /\ ppos'[t] = "unlock" /\ newCount' = newCount
  BY <1>0 DEF Resize, To, TableType, insertVars
<1> SUFFICES ASSUME NEW u \in Enqueuers, u \in UpTo(h, n)'
             PROVE  u \in UpTo(Len(hashes), n)
  BY DEF UpTo
<1>2. CASE ppos'[u] \in Counting /\ newCount'[u] <= n
  BY <1>1, <1>2 DEF UpTo, Counting, Others
<1>3. CASE ppos'[u] \in {"link", "place"}
  <2>1. u # t /\ ppos[u] \in {"link", "place"}
    BY <1>1, <1>3 DEF Others
  <2>2. mainHash[u] \in 1..Len(hashes)
    BY <2>1 DEF ProducersInv, InTables
  <2> QED
    BY <1>0, <2>1, <2>2 DEF UpTo
<1>4. CASE \E g \in 1..h : ~NotIn(u, g)'
  <2>1. PICK g \in 1..h : ~NotIn(u, g)'
    BY <1>4
  <2>2. g \in 1..Len(hashes)
    BY <1>0, <2>1, EntriesKept
  <2>3. ~Place(t)
    BY <1>1 DEF Place
  <2>4. ~NotIn(u, g)
    BY <2>1, <2>2, <2>3, EntriesKept
  <2> QED
    BY <2>2, <2>4 DEF UpTo
<1> QED
  BY <1>2, <1>3, <1>4 DEF UpTo

LEMMA RoomSufficesNext ==
  ASSUME ProducersInv, RoomInv, NEW t \in Enqueuers, StepOf(t), Others(t), CountSuffices'
  PROVE  RoomSuffices'
<1> SUFFICES ASSUME NEW h \in 1..Len(hashes'), NEW n \in Nat, n + 1 >= RoomIn(h)'
             PROVE  Cardinality(UpTo(h, n)') <= n
  BY DEF RoomSuffices
<1>0. TableType /\ Len(hashes) \in Nat
  BY DEF ProducersInv, TableType
<1>1. UpTo(h, n)' \in SUBSET Enqueuers /\ \A g : UpTo(g, n) \in SUBSET Enqueuers
  BY DEF UpTo
<1>2. Cardinality(UpTo(h, n)') \in Nat /\ \A g : Cardinality(UpTo(g, n)) \in Nat
  BY <1>1, SomeThreads
<1>3. CASE h \in 1..Len(hashes) /\ ~(Count(t) /\ newCount'[t] <= n)
  <2>1. n + 1 >= RoomIn(h)
    BY <1>3, EntriesKept DEF RoomIn
  <2>2. UpTo(h, n)' \in SUBSET UpTo(h, n)
    BY <1>3, <2>1, UpToKept
  <2>3. Cardinality(UpTo(h, n)') <= Cardinality(UpTo(h, n))
    BY <1>1, <2>2, SomeThreads
  <2>4. Cardinality(UpTo(h, n)) <= n
    BY <1>3, <2>1 DEF RoomInv, RoomSuffices
  <2> QED
    BY <1>2, <2>3, <2>4
<1>4. CASE Count(t) /\ newCount'[t] <= n
  <2>1. hashCount' <= n /\ hashCount' \in Int
    BY <1>0, <1>4 DEF Count, TableType
  <2>2. UpTo(h, n)' \in SUBSET (Counted')
    BY DEF UpTo, Counted
  <2>3. Counted' \in SUBSET Enqueuers
    BY DEF Counted
  <2>4. Cardinality(UpTo(h, n)') <= Cardinality(Counted') /\ Cardinality(Counted') \in Nat
    BY <2>2, <2>3, SomeThreads
  <2> QED
    BY <1>2, <2>1, <2>4 DEF CountSuffices
<1>5. CASE h \notin 1..Len(hashes) /\ ~(Count(t) /\ newCount'[t] <= n)
  <2>1. Resize(t)
    BY <1>5, SameLength
  <2>2. /\ Len(hashes) \in Nat \ {0} /\ h = Len(hashes')
        /\ Capacity(Len(hashes)) \in Nat
        /\ Capacity(h)' \in Nat /\ Capacity(Len(hashes)) < Capacity(h)'
    <3>1. /\ Len(hashes) \in Nat \ {0} /\ h = Len(hashes')
          /\ Capacity(Len(hashes)) \in Nat
          /\ Capacity(Len(hashes))' \in Nat /\ Capacity(Len(hashes)) < Capacity(Len(hashes))'
      BY <1>5, <2>1, LargerTable
    <3>2. Capacity(h)' = Capacity(Len(hashes))'
      BY <3>1 DEF Capacity
    <3> QED
      BY <3>1, <3>2
  <2>3. RoomIn(Len(hashes)) <= RoomIn(h)'
    BY <2>2 DEF RoomIn
  <2>4. RoomIn(Len(hashes)) \in Int /\ RoomIn(h)' \in Int
    BY <2>2 DEF RoomIn
  <2>5. Cardinality(UpTo(Len(hashes), n)) <= n
    <3>1. n + 1 >= RoomIn(Len(hashes)) /\ Len(hashes) \in 1..Len(hashes)
      BY <2>2, <2>3, <2>4
    <3> QED
      BY <3>1 DEF RoomInv, RoomSuffices
  <2>6. UpTo(h, n)' \in SUBSET UpTo(Len(hashes), n)
    BY <2>1, <2>2, UpToNew
  <2>7. Cardinality(UpTo(h, n)') <= Cardinality(UpTo(Len(hashes), n))
    BY <1>1, <2>6, SomeThreads
  <2> QED
    BY <1>2, <2>5, <2>7
<1> QED
  BY <1>3, <1>4, <1>5

LEMMA LooksBackNext ==
  ASSUME ProducersInv, RoomInv, NEW t \in Enqueuers, StepOf(t), Others(t)
  PROVE  LooksBack'
<1>0. TableType /\ Len(hashes) \in Nat
  BY DEF ProducersInv, TableType
<1> SUFFICES ASSUME ppos'[t] = "lookup"
             PROVE  hash'[t] <= mainHash'[t]
  BY DEF RoomInv, LooksBack, Others
<1>1. GetOrAdd(t) \/ NotFound(t)
  <2>1. FoundCurrent(t) \/ Place(t) \/ UnlockNull(t) \/ CreateFails(t) => \E p : Returns(t, p)
    BY DEF FoundCurrent, Place, UnlockNull, CreateFails
  <2>2. ~(\E p : Returns(t, p)) /\ ~FoundEarlier(t)
    BY <1>0 DEF Returns, To, FoundEarlier, TableType
  <2>3. /\ ~Count(t) /\ ~TryResize(t) /\ ~Resize(t) /\ ~NoResize(t) /\ ~ResizeFails(t)
        /\ ~Unlock(t) /\ ~Wait(t) /\ ~Create(t) /\ ~Link(t)
    BY <1>0
    DEF To, Count, TryResize, Resize, NoResize, ResizeFails, Unlock, Wait, Create, Link, TableType
  <2> QED
    BY <2>1, <2>2, <2>3 DEF StepOf, LookingUp, Adding
<1>2. CASE GetOrAdd(t)
  BY <1>0, <1>2 DEF GetOrAdd, Current, TableType
<1>3. CASE NotFound(t)
  <2>1. /\ ppos[t] = "lookup" /\ hash'[t] = hash[t] - 1 /\ mainHash'[t] = mainHash[t]
        /\ hash[t] \in Nat /\ mainHash[t] \in Nat
    BY <1>0, <1>3 DEF NotFound, TableType
  <2> QED
    BY <2>1 DEF RoomInv, LooksBack
<1> QED
  BY <1>1, <1>2, <1>3

LEMMA NotPlacedNext ==
  ASSUME ProducersInv, RoomInv, NEW t \in Enqueuers, StepOf(t), Others(t)
  PROVE  NotPlaced'
<1>0. TableType /\ Len(hashes) \in Nat
  BY DEF ProducersInv, TableType
<1> SUFFICES ASSUME NEW u \in Enqueuers, ppos'[u] = "place"
             PROVE  NotIn(u, mainHash[u])'
  BY DEF NotPlaced
<1>1. PICK h : h = mainHash'[u]
  OBVIOUS
<1>2. h \in 1..Len(hashes) /\ NotIn(u, h) /\ ~(Place(t) /\ u = t)
  <2>1. CASE u # t
    BY <1>1, <2>1 DEF Others, RoomInv, NotPlaced, ProducersInv, InTables
  <2>2. CASE u = t
    <3>1. ~Place(t)
      BY <1>0, <2>2 DEF Place, Returns, To, TableType
    <3>2. CASE FoundEarlier(t) /\ ppos[t] = "lookup" /\ mainHash'[t] = mainHash[t]
      <4>1. hash[t] <= mainHash[t] /\ hash[t] # mainHash[t]
        BY <3>2 DEF RoomInv, LooksBack, FoundEarlier
      <4>2. hash[t] \in Nat /\ mainHash[t] \in 1..Len(hashes)
        BY <1>0, <3>2 DEF ProducersInv, InTables, TableType
      <4>3. NotIn(t, mainHash[t])
        BY <3>2, <4>1, <4>2 DEF ProducersInv, Unknown
      <4> QED
        BY <1>1, <2>2, <3>1, <3>2, <4>2, <4>3
    <3>3. CASE ppos[t] = "link" /\ mainHash'[t] = mainHash[t]
      BY <1>1, <2>2, <3>1, <3>3 DEF ProducersInv, InTables, Unknown, New
    <3> QED
      BY <2>2, <3>2, <3>3, StepKinds DEF Counting
  <2> QED
    BY <2>1, <2>2
<1>3. NotIn(u, h)'
  BY <1>2, EntriesKept
<1> QED
  BY <1>1, <1>3 DEF NotIn

LEMMA KeysUniqueNext ==
  ASSUME ProducersInv, RoomInv, NEW t \in Enqueuers, StepOf(t)
  PROVE  KeysUnique'
<1>0. TableType /\ Len(hashes) \in Nat
  BY DEF ProducersInv, TableType
<1>1. CASE Place(t)
  <2>1. PICK j, cell : Enters(mainHash[t], j, cell) /\ cell.key = t
    BY <1>1, PlaceEnters
  <2>2. /\ Len(hashes') = Len(hashes)
        /\ \A h \in 1..Len(hashes) :
             /\ DOMAIN hashes'[h] = DOMAIN hashes[h]
             /\ \A i \in DOMAIN hashes[h] :
                  hashes'[h][i] = IF h = mainHash[t] /\ i = j THEN cell ELSE hashes[h][i]
    BY <1>0, <2>1, NewEntry
  <2>3. NotIn(t, mainHash[t])
    BY <1>1 DEF Place, RoomInv, NotPlaced
  <2> QED
    BY <2>1, <2>2, <2>3 DEF RoomInv, KeysUnique, NotIn
<1>2. CASE Resize(t)
  <2>1. PICK c \in Nat \ {0} : hashes' = Append(hashes, NewHash(c))
    BY <1>2 DEF Resize
  <2>2. /\ Len(hashes') = Len(hashes) + 1
        /\ \A h \in 1..Len(hashes) : hashes'[h] = hashes[h]
        /\ \A i \in DOMAIN hashes'[Len(hashes')] : hashes'[Len(hashes')][i].key = nullptr
    BY <1>0, <2>1, NewTable
  <2>3. \A h \in 1..Len(hashes') : h \in 1..Len(hashes) \/ h = Len(hashes')
    BY <1>0, <2>2
  <2> QED
    BY <2>2, <2>3 DEF RoomInv, KeysUnique
<1>3. CASE ~Place(t) /\ ~Resize(t)
  BY <1>3, TablesStay DEF RoomInv, KeysUnique
<1> QED
  BY <1>1, <1>2, <1>3

LEMMA RoomInit == ProducersInit => RoomInv
<1> SUFFICES ASSUME ProducersInit PROVE RoomInv
  OBVIOUS
<1> DEFINE n == INITIAL_IMPLICIT_PRODUCER_HASH_SIZE
<1>1. hashes = <<NewHash(n)>> /\ hashCount = 0 /\ \A t \in Enqueuers : ppos[t] = "idle"
  BY DEF ProducersInit
<1>2. Len(hashes) = 1 /\ \A i \in DOMAIN hashes[1] : hashes[1][i].key = nullptr
  BY <1>1 DEF NewHash, invalid_thread_id
<1>3. \A t \in Enqueuers : \A h \in 1..Len(hashes) : NotIn(t, h)
  BY <1>2, ProducersAssumption DEF NotIn
<1>4. Capacity(1) \in Nat
  BY <1>2, InitInv, TableDomain DEF ProducersInv
<1>5. Growing
  BY <1>2, <1>4 DEF Growing
<1>6. CountSuffices
  <2>1. Counted = {}
    BY <1>1, <1>3 DEF Counted, Counting
  <2> QED
    BY <1>1, <2>1, FS_EmptySet DEF CountSuffices
<1>7. RoomSuffices
  <2>1. \A h \in 1..Len(hashes) : \A m \in Nat : UpTo(h, m) = {}
    BY <1>1, <1>2, <1>3 DEF UpTo, Counting
  <2> QED
    BY <2>1, FS_EmptySet DEF RoomSuffices
<1>8. LooksBack /\ NotPlaced /\ KeysUnique
  BY <1>1, <1>2 DEF LooksBack, NotPlaced, KeysUnique
<1> QED
  BY <1>5, <1>6, <1>7, <1>8 DEF RoomInv

LEMMA RoomNext ==
  ProducersInv /\ Linked /\ RoomInv /\ [ProducersNext]_producersVars => RoomInv'
<1> SUFFICES ASSUME ProducersInv, Linked, RoomInv, [ProducersNext]_producersVars
             PROVE  RoomInv'
  OBVIOUS
<1>1. CASE UNCHANGED producersVars
  <2>1. UNCHANGED <<hashes, hashCount, ppos, mainHash, hash, newCount>>
    BY <1>1 DEF producersVars, tableVars, listVars, lookupVars, insertVars
  <2>2. Growing' /\ LooksBack' /\ NotPlaced' /\ KeysUnique'
    BY <2>1 DEF RoomInv, Growing, LooksBack, NotPlaced, KeysUnique, NotIn, Capacity
  <2>3. Counted' = Counted
    BY <2>1 DEF Counted, NotIn
  <2>4. \A h, n : UpTo(h, n)' = UpTo(h, n) /\ RoomIn(h)' = RoomIn(h)
    BY <2>1 DEF UpTo, NotIn, RoomIn, Capacity
  <2> QED
    BY <2>1, <2>2, <2>3, <2>4 DEF RoomInv, CountSuffices, RoomSuffices
<1>2. ASSUME NEW t \in Enqueuers, StepOf(t)
      PROVE  RoomInv'
  <2>1. Others(t)
    BY <1>2, OthersStay DEF Linked, LinkTypes
  <2> QED
    BY <1>2, <2>1, GrowingNext, CountSufficesNext, RoomSufficesNext, LooksBackNext,
       NotPlacedNext, KeysUniqueNext
    DEF RoomInv
<1> QED
  BY <1>1, <1>2 DEF ProducersNext, StepOf

\* get_or_add_implicit_producer, "Not an infinite loop because at least one slot
\* is free in the hash table": whatever larger tables are made meanwhile, or
\* fail to be made, no table is ever full, not even one that threads which read
\* it long ago still go into.
THEOREM ProbingEnds == ProducersSpec => []SlotFree
<1>1. ProducersInv /\ RoomInv => SlotFree
  <2> SUFFICES ASSUME ProducersInv, RoomInv, NEW h \in 1..Len(hashes),
                      \A i \in DOMAIN hashes[h] : hashes[h][i].key # nullptr
               PROVE  FALSE
    BY DEF SlotFree, invalid_thread_id
  <2> DEFINE n == IF RoomIn(h) = 0 THEN 0 ELSE RoomIn(h) - 1
             S == DOMAIN hashes[h]
             f == [i \in S |-> hashes[h][i].key]
  <2>1. /\ Capacity(h) \in Nat \ {0} /\ S = 0..Capacity(h) - 1
        /\ \A i \in S : hashes[h][i] \in Cell
    BY TableDomain DEF ProducersInv
  <2>2. RoomIn(h) \in Nat /\ RoomIn(h) <= Capacity(h)
    BY <2>1 DEF RoomIn
  <2>3. n \in Nat /\ n + 1 >= RoomIn(h) /\ n < Capacity(h)
    BY <2>1, <2>2
  <2>4. Cardinality(UpTo(h, n)) <= n /\ UpTo(h, n) \in SUBSET Enqueuers
    BY <2>3 DEF RoomInv, RoomSuffices, UpTo
  <2>5. IsFiniteSet(UpTo(h, n)) /\ Cardinality(UpTo(h, n)) \in Nat
    BY <2>4, SomeThreads
  <2>6. IsFiniteSet(S) /\ Cardinality(S) = Capacity(h)
    <3>1. PICK c \in Nat \ {0} : c = Capacity(h)
      BY <2>1
    <3>2. IsFiniteSet(0..c - 1) /\ Cardinality(0..c - 1) = c
      BY FS_Interval
    <3> QED
      BY <2>1, <3>1, <3>2
  <2>7. f \in [S -> UpTo(h, n)]
    <3>1. ASSUME NEW i \in S
          PROVE  hashes[h][i].key \in UpTo(h, n)
      <4>1. hashes[h][i].key \in Enqueuers
        BY <2>1 DEF Cell
      <4>2. ~NotIn(hashes[h][i].key, h) /\ h \in 1..h
        BY DEF NotIn
      <4> QED
        BY <4>1, <4>2 DEF UpTo
    <3> QED
      BY <3>1
  <2>8. \A i, j \in S : f[i] = f[j] => i = j
    BY DEF RoomInv, KeysUnique
  <2> HIDE DEF n, S, f
  <2>9. Cardinality(UpTo(h, n)) < Cardinality(S)
    BY <2>1, <2>3, <2>4, <2>5, <2>6
  <2> QED
    BY <2>5, <2>6, <2>7, <2>8, <2>9, FS_PigeonHole
<1> QED
  BY InitInv, NextInv, LinkedInit, LinkedNext, RoomInit, RoomNext, <1>1, PTL DEF ProducersSpec

-----------------------------------------------------------------------------
(* Types *)

\* What the invariants above leave open.
Ranges ==
  /\ mainHash \in [Enqueuers -> 0..Len(hashes)]
  /\ hash \in [Enqueuers -> 0..Len(hashes)]
  /\ newCount \in [Enqueuers -> Nat]
  /\ producer \in [Enqueuers -> Producer \cup {nullptr}]
  /\ \A h \in 1..Len(hashes) : \A i \in DOMAIN hashes[h] :
       hashes[h][i].key = nullptr => hashes[h][i].value = nullptr

LEMMA CountIsNat ==
  ASSUME ProducersInv, RoomInv
  PROVE  hashCount \in Nat
<1>1. Counted \in SUBSET Enqueuers
  BY DEF Counted
<1>2. Cardinality(Counted) \in Nat
  BY <1>1, SomeThreads
<1> QED
  BY <1>2 DEF RoomInv, CountSuffices, ProducersInv, TableType

LEMMA RangesStep ==
  ASSUME ProducersInv, RoomInv, Ranges, NEW t \in Enqueuers, StepOf(t)
  PROVE  Ranges'
<1> USE DEF tableVars, listVars, lookupVars, insertVars, To
<1>0. TableType /\ Len(hashes) \in Nat \ {0} /\ Len(nextProd) \in Nat
  BY DEF ProducersInv, TableType
<1>1. Len(hashes') \in Nat /\ Len(hashes') >= Len(hashes)
  BY EntriesKept
<1>2. Producer \subseteq Producer'
  <2>1. CASE Link(t)
    <3>1. producer[t] \in Producer
      BY <2>1 DEF Link, ProducersInv, OwnedExist, Owns, InHand
    <3>2. Len(nextProd') = Len(nextProd)
      BY <1>0, <2>1, <3>1, ExceptSeq DEF Link, TableType, Producer
    <3> QED
      BY <3>2 DEF Producer
  <2>2. CASE Create(t)
    BY <1>0, <2>2 DEF Create, Producer, TableType
  <2>3. CASE ~Link(t) /\ ~Create(t)
    <3>1. nextProd' = nextProd
      BY <2>3
      DEF StepOf, LookingUp, Adding, GetOrAdd, NotFound, FoundCurrent, FoundEarlier, Place,
          Count, TryResize, Resize, NoResize, ResizeFails, Unlock, UnlockNull, Wait, CreateFails
    <3> QED
      BY <3>1 DEF Producer
  <2> QED
    BY <2>1, <2>2, <2>3
<1>3. FoundCurrent(t) \/ Place(t) \/ UnlockNull(t) \/ CreateFails(t) => \E p : Returns(t, p)
  BY DEF FoundCurrent, Place, UnlockNull, CreateFails
<1>4. /\ 0 \in 0..Len(hashes') /\ Len(hashes) \in 0..Len(hashes')
      /\ \A m \in 0..Len(hashes) : m \in 0..Len(hashes')
  BY <1>0, <1>1
<1>5. mainHash' \in [Enqueuers -> 0..Len(hashes')]
  <2>1. CASE Resize(t)
    <3>1. mainHash' = [mainHash EXCEPT ![t] = Len(hashes) + 1]
          /\ Len(hashes) + 1 \in 0..Len(hashes')
      BY <1>0, <2>1, LargerTable DEF Resize, Current
    <3> QED
      BY <1>4, <3>1 DEF Ranges
  <2>2. CASE \E p : Returns(t, p)
    BY <1>4, <2>2 DEF Returns, Ranges
  <2>3. CASE GetOrAdd(t) \/ NoResize(t) \/ Wait(t)
    BY <1>4, <2>3 DEF GetOrAdd, NoResize, Wait, Current, Ranges
  <2>4. CASE UNCHANGED mainHash
    BY <1>4, <2>4 DEF Ranges
  <2> QED
    BY <1>3, <2>1, <2>2, <2>3, <2>4
    DEF StepOf, LookingUp, Adding, NotFound, FoundEarlier, Count, TryResize, ResizeFails, Unlock,
        Create, Link
<1>6. hash' \in [Enqueuers -> 0..Len(hashes')]
  <2>1. CASE NotFound(t)
    <3>1. hash[t] \in 1..Len(hashes)
      BY <2>1 DEF NotFound, ProducersInv, InTables
    <3>2. hash[t] - 1 \in 0..Len(hashes') /\ hash' = [hash EXCEPT ![t] = hash[t] - 1]
      BY <1>0, <1>1, <2>1, <3>1 DEF NotFound
    <3> QED
      BY <1>4, <3>2 DEF Ranges
  <2>2. CASE \E p : Returns(t, p)
    BY <1>4, <2>2 DEF Returns, Ranges
  <2>3. CASE GetOrAdd(t) \/ FoundEarlier(t)
    BY <1>4, <2>3 DEF GetOrAdd, FoundEarlier, Current, Ranges
  <2>4. CASE UNCHANGED hash
    BY <1>4, <2>4 DEF Ranges
  <2> QED
    BY <1>3, <2>1, <2>2, <2>3, <2>4
    DEF StepOf, LookingUp, Adding, Count, TryResize, Resize, NoResize, ResizeFails, Unlock, Wait,
        Create, Link
<1>7. newCount' \in [Enqueuers -> Nat]
  <2>1. CASE Count(t)
    BY <2>1, CountIsNat DEF Count, Ranges
  <2>2. CASE \E p : Returns(t, p)
    BY <2>2 DEF Returns, Ranges
  <2>3. CASE UNCHANGED newCount
    BY <2>3 DEF Ranges
  <2> QED
    BY <1>3, <2>1, <2>2, <2>3
    DEF StepOf, LookingUp, Adding, GetOrAdd, NotFound, FoundEarlier, TryResize, Resize, NoResize,
        ResizeFails, Unlock, Wait, Create, Link
<1>8. producer' \in [Enqueuers -> Producer' \cup {nullptr}]
  <2>1. \E p \in Producer' \cup {nullptr} : producer' \in {producer, [producer EXCEPT ![t] = p]}
    <3>1. CASE FoundEarlier(t)
      <4>1. PICK i \in Lookup(t) :
              /\ hashes[hash[t]][i].key = t
              /\ producer' = [producer EXCEPT ![t] = hashes[hash[t]][i].value]
        BY <3>1 DEF FoundEarlier
      <4>2. Entered(t, hashes[hash[t]][i].value)
        BY <3>1, <4>1, FoundEntered DEF FoundEarlier
      <4>3. hashes[hash[t]][i].value \in Producer
        BY <4>2 DEF ProducersInv, OwnedExist, Owns
      <4> QED
        BY <1>2, <4>1, <4>3
    <3>2. CASE Create(t)
      <4>1. Len(nextProd) + 1 \in Producer'
        BY <1>0, <3>2 DEF Create, Producer, TableType
      <4> QED
        BY <3>2, <4>1 DEF Create
    <3>3. CASE \E p : Returns(t, p)
      BY <3>3 DEF Returns
    <3>4. CASE UNCHANGED producer
      BY <3>4
    <3> QED
      BY <1>3, <3>1, <3>2, <3>3, <3>4
      DEF StepOf, LookingUp, Adding, GetOrAdd, NotFound, Count, TryResize, Resize, NoResize,
          ResizeFails, Unlock, Wait, Link
  <2> QED
    BY <1>2, <2>1 DEF Ranges
<1>9. ASSUME NEW h \in 1..Len(hashes'), NEW i \in DOMAIN hashes'[h],
             hashes'[h][i].key = nullptr
      PROVE  hashes'[h][i].value = nullptr
  <2>1. CASE Place(t)
    <3>1. PICK j, cell : Enters(mainHash[t], j, cell) /\ cell.key = t
      BY <2>1, PlaceEnters
    <3>2. /\ Len(hashes') = Len(hashes)
          /\ \A g \in 1..Len(hashes) :
               /\ DOMAIN hashes'[g] = DOMAIN hashes[g]
               /\ \A k \in DOMAIN hashes[g] :
                    hashes'[g][k] = IF g = mainHash[t] /\ k = j THEN cell ELSE hashes[g][k]
      BY <1>0, <3>1, NewEntry
    <3>3. i \in DOMAIN hashes[h] /\ h \in 1..Len(hashes)
      BY <1>9, <3>2
    <3>4. ~(h = mainHash[t] /\ i = j)
      BY <1>9, <3>1, <3>2, <3>3, ProducersAssumption
    <3> QED
      BY <1>9, <3>2, <3>3, <3>4 DEF Ranges
  <2>2. CASE Resize(t)
    <3>1. PICK c \in Nat \ {0} : hashes' = Append(hashes, NewHash(c))
      BY <2>2 DEF Resize
    <3>2. \/ h \in 1..Len(hashes) /\ hashes'[h] = hashes[h]
          \/ hashes'[h] = NewHash(c)
      BY <1>0, <3>1 DEF TableType
    <3> QED
      BY <1>9, <3>2 DEF Ranges, NewHash
  <2>3. CASE ~Place(t) /\ ~Resize(t)
    BY <1>9, <2>3, TablesStay DEF Ranges
  <2> QED
    BY <2>1, <2>2, <2>3
<1> QED
  BY <1>5, <1>6, <1>7, <1>8, <1>9 DEF Ranges

LEMMA RangesInit == ProducersInit => Ranges
<1> SUFFICES ASSUME ProducersInit PROVE Ranges
  OBVIOUS
<1>1. hashes = <<NewHash(INITIAL_IMPLICIT_PRODUCER_HASH_SIZE)>>
  BY DEF ProducersInit
<1>2. Len(hashes) = 1 /\ \A i \in DOMAIN hashes[1] : hashes[1][i].value = nullptr
  BY <1>1 DEF NewHash
<1> QED
  BY <1>2 DEF ProducersInit, Ranges

LEMMA RangesNext ==
  ProducersInv /\ RoomInv /\ Ranges /\ [ProducersNext]_producersVars => Ranges'
<1> SUFFICES ASSUME ProducersInv, RoomInv, Ranges, [ProducersNext]_producersVars
             PROVE  Ranges'
  OBVIOUS
<1>1. CASE UNCHANGED producersVars
  BY <1>1
  DEF producersVars, tableVars, listVars, lookupVars, insertVars, Ranges, Producer
<1>2. CASE ProducersNext
  BY <1>2, RangesStep DEF ProducersNext, StepOf
<1> QED
  BY <1>1, <1>2

\* get_or_add_implicit_producer: no count that is taken back goes below zero,
\* every table an index names exists, and every producer in a table, in a local
\* or returned has been made.
THEOREM ProducersTypes == ProducersSpec => []ProducersType
<1>1. ProducersInv /\ Linked /\ RoomInv /\ Ranges /\ HeldByOne => ProducersType
  <2> SUFFICES ASSUME ProducersInv, Linked, RoomInv, Ranges, HeldByOne
               PROVE  ProducersType
    OBVIOUS
  <2>1. TableType /\ LinkTypes
    BY DEF ProducersInv, Linked
  <2>2. ASSUME NEW h \in 1..Len(hashes), NEW i \in DOMAIN hashes[h]
        PROVE  hashes[h][i] \in
                 [key : Enqueuers \cup {nullptr}, value : Producer \cup {nullptr}]
    <3>1. hashes[h][i] \in Cell
      BY <2>1, TableDomain
    <3>2. CASE hashes[h][i].key = nullptr
      BY <3>1, <3>2 DEF Cell, Ranges
    <3>3. CASE hashes[h][i].key # nullptr
      <4>1. hashes[h][i].key \in Enqueuers
        BY <3>1, <3>3 DEF Cell
      <4>2. Entered(hashes[h][i].key, hashes[h][i].value)
        BY DEF Entered
      <4>3. hashes[h][i].value \in Producer
        BY <4>1, <4>2 DEF ProducersInv, OwnedExist, Owns
      <4> QED
        BY <3>1, <4>3 DEF Cell
    <3> QED
      BY <3>2, <3>3
  <2>3. hashCount \in Nat /\ resizing \in BOOLEAN
    BY CountIsNat DEF HeldByOne
  <2>4. producerListTail \in Producer \cup {nullptr}
        /\ \A p \in Producer : nextProd[p] \in Producer \cup {nullptr}
    BY <2>1 DEF LinkTypes, Producer
  <2>5. ppos \in [Enqueuers -> {"idle", "lookup", "count", "resize", "locked", "unlock",
                                "unlock_null", "insert", "link", "place"}]
    BY <2>1 DEF TableType, Labels
  <2>6. \A t \in Enqueuers : producer[t] \in Producer \cup {nullptr}
        /\ prevTail[t] \in Producer \cup {nullptr} /\ got[t] \in Producer \cup {nullptr}
    BY <2>1 DEF Ranges, LinkTypes, ProducersInv, GotOwned, OwnedExist, Owns
  <2> QED
    BY <2>2, <2>3, <2>4, <2>5, <2>6 DEF ProducersType, Ranges
<1>2. ProducersInit => HeldByOne
  BY DEF ProducersInit, HeldByOne, ResizeHeld, Holding, Labels
<1> QED
  BY InitInv, NextInv, LinkedInit, LinkedNext, RoomInit, RoomNext, RangesInit, RangesNext, <1>2,
     HeldNext, <1>1, PTL
  DEF ProducersSpec
=============================================================================
