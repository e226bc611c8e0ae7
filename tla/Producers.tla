------------------------------ MODULE Producers ------------------------------
(***************************************************************************)
(* get_or_add_implicit_producer of App/concurrentqueue.h: how a thread     *)
(* that enqueues finds the sub-queue that is its own.                      *)
(*                                                                         *)
(* A thread looks its id up in the current hash table and in all earlier   *)
(* ones; nothing is ever moved from one to the next.  If it is new, it     *)
(* counts itself, replaces the table by a larger one when that is half     *)
(* full and nobody else is at it, and goes into whichever table it knows   *)
(* of unless that is three-quarters full.  Every access to an atomic that  *)
(* other threads can tell apart is a step, sequentially consistent.        *)
(***************************************************************************)
EXTENDS Integers, FiniteSets, Sequences

CONSTANTS
  Enqueuers,  \* threads
  hashedId,   \* hashedId[t]: the hash of t's id
  INITIAL_IMPLICIT_PRODUCER_HASH_SIZE,  \* 32 in the code
  nullptr

ASSUME ProducersAssumption ==
  /\ IsFiniteSet(Enqueuers)
  /\ hashedId \in [Enqueuers -> Nat]
  /\ INITIAL_IMPLICIT_PRODUCER_HASH_SIZE \in Nat \ {0}
  /\ nullptr \notin Nat \cup Enqueuers

VARIABLES
  hashes,       \* the hash tables, oldest first; the last one is current
  hashCount,    \* implicitProducerHashCount
  resizing,     \* implicitProducerHashResizeInProgress
  producerListTail,
  nextProd,     \* nextProd[p]: the producer after p in the list
  ppos,         \* where each thread is
  mainHash, hash, newCount, producer, prevTail,  \* its locals
  got           \* what its last successful call returned (not in the code)

tableVars == <<hashes, hashCount, resizing>>
listVars == <<producerListTail, nextProd>>
lookupVars == <<mainHash, hash>>
insertVars == <<newCount, producer, prevTail>>
producersVars == <<tableVars, listVars, ppos, lookupVars, insertVars, got>>

Producer == 1..Len(nextProd)
invalid_thread_id == nullptr
NewHash(capacity) ==
  [i \in 0..capacity - 1 |-> [key |-> invalid_thread_id, value |-> nullptr]]

ProducersType ==
  /\ \A h \in 1..Len(hashes) : \A i \in DOMAIN hashes[h] :
       hashes[h][i] \in [key : Enqueuers \cup {nullptr}, value : Producer \cup {nullptr}]
  /\ hashCount \in Nat
  /\ resizing \in BOOLEAN
  /\ producerListTail \in Producer \cup {nullptr}
  /\ \A p \in Producer : nextProd[p] \in Producer \cup {nullptr}
  /\ ppos \in [Enqueuers -> {"idle", "lookup", "count", "resize", "locked", "unlock",
                             "unlock_null", "insert", "link", "place"}]
  /\ mainHash \in [Enqueuers -> 0..Len(hashes)]
  /\ hash \in [Enqueuers -> 0..Len(hashes)]
  /\ newCount \in [Enqueuers -> Nat]
  /\ {producer[t] : t \in Enqueuers} \cup {prevTail[t] : t \in Enqueuers}
       \cup {got[t] : t \in Enqueuers} \subseteq Producer \cup {nullptr}

\* populate_initial_implicit_producer_hash
ProducersInit ==
  /\ hashes = <<NewHash(INITIAL_IMPLICIT_PRODUCER_HASH_SIZE)>>
  /\ hashCount = 0
  /\ resizing = FALSE
  /\ producerListTail = nullptr
  /\ nextProd = <<>>
  /\ ppos = [t \in Enqueuers |-> "idle"]
  /\ mainHash = [t \in Enqueuers |-> 0]
  /\ hash = [t \in Enqueuers |-> 0]
  /\ newCount = [t \in Enqueuers |-> 0]
  /\ producer = [t \in Enqueuers |-> nullptr]
  /\ prevTail = [t \in Enqueuers |-> nullptr]
  /\ got = [t \in Enqueuers |-> nullptr]

Current == Len(hashes)
Capacity(h) == Cardinality(DOMAIN hashes[h])

\* The slots of table h in the order they are probed for t's id, and those of
\* them the probing of one of keys may end at: the first.  The loop is one step
\* here: a slot that is not empty stays as it is, so that the slots it went by
\* would still be gone by when it ends.
HashSlot(h, t, k) == (hashedId[t] + k) % Capacity(h)
Probed(h, t, keys) ==
  {HashSlot(h, t, k) : k \in {n \in 0..Capacity(h) - 1 :
     /\ hashes[h][HashSlot(h, t, n)].key \in keys
     /\ \A m \in 0..n - 1 : hashes[h][HashSlot(h, t, m)].key \notin keys}}

To(t, label) == ppos' = [ppos EXCEPT ![t] = label]

\* The call returns p: its locals are gone.
Returns(t, p) ==
  /\ To(t, "idle")
  /\ mainHash' = [mainHash EXCEPT ![t] = 0]
  /\ hash' = [hash EXCEPT ![t] = 0]
  /\ newCount' = [newCount EXCEPT ![t] = 0]
  /\ producer' = [producer EXCEPT ![t] = nullptr]
  /\ prevTail' = [prevTail EXCEPT ![t] = nullptr]
  /\ got' = [got EXCEPT ![t] = IF p = nullptr THEN @ ELSE p]

-----------------------------------------------------------------------------
(* Looking the id up *)

GetOrAdd(t) ==
  /\ ppos[t] = "idle"
  /\ mainHash' = [mainHash EXCEPT ![t] = Current]
  /\ hash' = [hash EXCEPT ![t] = Current]
  /\ To(t, "lookup")
  /\ UNCHANGED <<tableVars, listVars, insertVars, got>>

\* Where the probing for t's id ends in the table it has come to.
Lookup(t) == Probed(hash[t], t, {t, invalid_thread_id})

\* [Wrong] an id that is not in the current table is new.
NotFoundInCurrent(t) ==
  /\ ppos[t] = "lookup"
  /\ \E i \in Lookup(t) : hashes[hash[t]][i].key = invalid_thread_id
  /\ hash' = [hash EXCEPT ![t] = 0]
  /\ To(t, "count")
  /\ UNCHANGED <<tableVars, listVars, mainHash, insertVars, got>>

\* Not in this table: try the one before it.
NotFound(t) ==
  /\ ppos[t] = "lookup"
  /\ \E i \in Lookup(t) : hashes[hash[t]][i].key = invalid_thread_id
  /\ hash' = [hash EXCEPT ![t] = @ - 1]
  /\ IF hash[t] = 1 THEN To(t, "count") ELSE UNCHANGED ppos
  /\ UNCHANGED <<tableVars, listVars, mainHash, insertVars, got>>

FoundCurrent(t) ==
  /\ ppos[t] = "lookup" /\ hash[t] = mainHash[t]
  /\ \E i \in Lookup(t) :
       /\ hashes[hash[t]][i].key = t
       /\ Returns(t, hashes[hash[t]][i].value)
  /\ UNCHANGED <<tableVars, listVars>>

\* Found in an earlier table: it gets an entry in the current one as well.
FoundEarlier(t) ==
  /\ ppos[t] = "lookup" /\ hash[t] # mainHash[t]
  /\ \E i \in Lookup(t) :
       /\ hashes[hash[t]][i].key = t
       /\ producer' = [producer EXCEPT ![t] = hashes[hash[t]][i].value]
  /\ hash' = [hash EXCEPT ![t] = 0]
  /\ To(t, "place")
  /\ UNCHANGED <<tableVars, listVars, mainHash, newCount, prevTail, got>>

\* Take the first empty slot; the value is only read by the thread that sets it.
Place(t) ==
  /\ ppos[t] = "place"
  /\ \E i \in Probed(mainHash[t], t, {invalid_thread_id}) :
       hashes' = [hashes EXCEPT ![mainHash[t]][i] = [key |-> t, value |-> producer[t]]]
  /\ Returns(t, producer[t])
  /\ UNCHANGED <<hashCount, resizing, listVars>>

-----------------------------------------------------------------------------
(* Adding a thread *)

\* [Wrong] the count is read, not raised.
CountReadOnly(t) ==
  /\ ppos[t] = "count"
  /\ newCount' = [newCount EXCEPT ![t] = hashCount + 1]
  /\ To(t, "resize")
  /\ UNCHANGED <<hashes, hashCount, resizing, listVars, lookupVars, producer, prevTail, got>>

Count(t) ==
  /\ ppos[t] = "count"
  /\ hashCount' = hashCount + 1
  /\ newCount' = [newCount EXCEPT ![t] = hashCount + 1]
  /\ To(t, "resize")
  /\ UNCHANGED <<hashes, resizing, listVars, lookupVars, producer, prevTail, got>>

HalfFull(t, h) == newCount[t] >= Capacity(h) \div 2

TryResize(t) ==
  /\ ppos[t] = "resize"
  /\ IF HalfFull(t, mainHash[t]) /\ ~resizing
     THEN resizing' = TRUE /\ To(t, "locked")
     ELSE To(t, "insert") /\ UNCHANGED resizing
  /\ UNCHANGED <<hashes, hashCount, listVars, lookupVars, insertVars, got>>

\* The loop doubles the capacity until t does not half fill it.
NewCapacity(t, h, c) ==
  /\ \E n \in 1..newCount[t] + 1 : c = Capacity(h) * 2^n
  /\ newCount[t] < c \div 2
  /\ c = 2 * Capacity(h) \/ newCount[t] >= (c \div 2) \div 2

Resize(t) ==
  /\ ppos[t] = "locked"
  /\ HalfFull(t, Current)
  /\ \E c \in 1..4 * newCount[t] + 2 :
       NewCapacity(t, Current, c) /\ hashes' = Append(hashes, NewHash(c))
  /\ mainHash' = [mainHash EXCEPT ![t] = Current + 1]
  /\ To(t, "unlock")
  /\ UNCHANGED <<hashCount, resizing, listVars, hash, insertVars, got>>

\* Another thread has replaced the table since.
NoResize(t) ==
  /\ ppos[t] = "locked"
  /\ ~HalfFull(t, Current)
  /\ mainHash' = [mainHash EXCEPT ![t] = Current]
  /\ To(t, "unlock")
  /\ UNCHANGED <<tableVars, listVars, hash, insertVars, got>>

ResizeFails(t) ==
  /\ ppos[t] = "locked"
  /\ HalfFull(t, Current)
  /\ hashCount' = hashCount - 1
  /\ To(t, "unlock_null")
  /\ UNCHANGED <<hashes, resizing, listVars, lookupVars, insertVars, got>>

\* [Wrong] the flag stays set when the call fails.
UnlockNot(t) ==
  /\ ppos[t] = "unlock_null"
  /\ Returns(t, nullptr)
  /\ UNCHANGED <<tableVars, listVars>>

UnlockNull(t) ==
  /\ ppos[t] = "unlock_null"
  /\ resizing' = FALSE
  /\ Returns(t, nullptr)
  /\ UNCHANGED <<hashes, hashCount, listVars>>

Unlock(t) ==
  /\ ppos[t] = "unlock"
  /\ resizing' = FALSE
  /\ To(t, "insert")
  /\ UNCHANGED <<hashes, hashCount, listVars, lookupVars, insertVars, got>>

\* [Wrong] as long as there is room.
HasRoomLeft(t) == newCount[t] <= Capacity(mainHash[t])

HasRoom(t) ==
  newCount[t] < Capacity(mainHash[t]) \div 2 + Capacity(mainHash[t]) \div 4

\* Quite full, and somebody else is busy allocating: look again.
Wait(t) ==
  /\ ppos[t] = "insert" /\ ~HasRoom(t)
  /\ mainHash' = [mainHash EXCEPT ![t] = Current]
  /\ To(t, "resize")
  /\ UNCHANGED <<tableVars, listVars, hash, insertVars, got>>

\* recycle_or_create_producer, add_producer.  No producer is inactive: that
\* needs thread_local support, which is compiled out, or a token.
Create(t) ==
  /\ ppos[t] = "insert" /\ HasRoom(t)
  /\ nextProd' = Append(nextProd, producerListTail)
  /\ producer' = [producer EXCEPT ![t] = Len(nextProd) + 1]
  /\ prevTail' = [prevTail EXCEPT ![t] = producerListTail]
  /\ To(t, "link")
  /\ UNCHANGED <<tableVars, producerListTail, lookupVars, newCount, got>>

CreateFails(t) ==
  /\ ppos[t] = "insert" /\ HasRoom(t)
  /\ hashCount' = hashCount - 1
  /\ Returns(t, nullptr)
  /\ UNCHANGED <<hashes, resizing, listVars>>

\* [Wrong] the link is not set anew after a failed CAS.
LinkStale(t) ==
  /\ ppos[t] = "link"
  /\ \/ /\ producerListTail = prevTail[t]
        /\ producerListTail' = producer[t]
        /\ To(t, "place")
        /\ UNCHANGED <<nextProd, prevTail>>
     \/ /\ producerListTail # prevTail[t]
        /\ prevTail' = [prevTail EXCEPT ![t] = producerListTail]
        /\ UNCHANGED <<producerListTail, nextProd, ppos>>
  /\ UNCHANGED <<tableVars, mainHash, hash, newCount, producer, got>>

\* The CAS on the tail; a producer that is not linked is seen by its thread only.
Link(t) ==
  /\ ppos[t] = "link"
  /\ \/ /\ producerListTail = prevTail[t]
        /\ producerListTail' = producer[t]
        /\ To(t, "place")
        /\ UNCHANGED <<nextProd, prevTail>>
     \/ /\ producerListTail # prevTail[t]
        /\ prevTail' = [prevTail EXCEPT ![t] = producerListTail]
        /\ nextProd' = [nextProd EXCEPT ![producer[t]] = producerListTail]
        /\ UNCHANGED <<producerListTail, ppos>>
  /\ UNCHANGED <<tableVars, mainHash, hash, newCount, producer, got>>

LookingUp(t) == NotFound(t) \/ FoundCurrent(t) \/ FoundEarlier(t) \/ Place(t)
Adding(t) ==
  \/ Count(t) \/ TryResize(t) \/ Resize(t) \/ NoResize(t) \/ ResizeFails(t)
  \/ Unlock(t) \/ UnlockNull(t) \/ Wait(t) \/ Create(t) \/ CreateFails(t) \/ Link(t)

ProducersNext == \E t \in Enqueuers : GetOrAdd(t) \/ LookingUp(t) \/ Adding(t)

ProducersSpec == ProducersInit /\ [][ProducersNext]_producersVars

-----------------------------------------------------------------------------
(* Properties *)

\* A thread has one sub-queue for good, and it is no other thread's: whichever
\* table it went into, and whatever happened to the tables since.  (Its
\* elements would not stay in order otherwise.)
OneProducerEach ==
  [][\A t, u \in Enqueuers :
       got'[t] # nullptr => /\ got[t] \in {nullptr, got'[t]}
                            /\ got'[u] = got'[t] => u = t]_producersVars

\* The producers try_dequeue finds from the tail: no more than what is in every
\* set that has the tail and the next of each of its own.
LinkedTo(S, tail, nextOf) ==
  /\ tail \in S \cup {nullptr}
  /\ \A p \in S : nextOf[p] \in S \cup {nullptr}
ListedProducers ==
  {p \in Producer : \A S \in SUBSET Producer :
     LinkedTo(S, producerListTail, nextProd) => p \in S}

\* The consumers find every sub-queue that is enqueued to.
AllListed == \A t \in Enqueuers : got[t] # nullptr => got[t] \in ListedProducers

\* The comment on the probing loops: "Not an infinite loop because at least one
\* slot is free in the hash table".
SlotFree ==
  \A h \in 1..Len(hashes) :
    \E i \in DOMAIN hashes[h] : hashes[h][i].key = invalid_thread_id

\* Whoever finds the table too full and the flag set waits for a thread that
\* will clear it, with a larger table or without.
ResizeHeld ==
  resizing = (\E t \in Enqueuers : ppos[t] \in {"locked", "unlock", "unlock_null"})
=============================================================================
