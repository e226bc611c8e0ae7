-------------------------------- MODULE Queue --------------------------------
(***************************************************************************)
(* The queue between poll_handler and its workers, as server.cpp uses      *)
(* App/concurrentqueue.h: one thread that calls enqueue_bulk without a     *)
(* token, hence one ImplicitProducer, and workers that call try_dequeue.   *)
(*                                                                         *)
(* The producer's elements lie in blocks, found through a circular index   *)
(* of entries <<key, value>> by their distance from the entry at its tail. *)
(* Consumers claim an element optimistically: they raise one counter, look *)
(* whether there was an element for them, and raise another if there was   *)
(* not.  The consumer that empties a block takes it out of the index and   *)
(* gives it back; the producer may put it in at once at another place.     *)
(*                                                                         *)
(* Steps are the accesses other threads can see, sequentially consistent.  *)
(* Counters are index_t's, modulo Modulus.  An element is named by the     *)
(* index it is enqueued at.  The free list is FreePool's: FreeList is the  *)
(* code behind it.                                                         *)
(***************************************************************************)
EXTENDS Integers, FiniteSets, Sequences

CONSTANTS
  Consumers,     \* threads that call try_dequeue
  BLOCK_SIZE,    \* 32 in the code
  IMPLICIT_INITIAL_INDEX_SIZE, \* 32 in the code
  MaxEntries,    \* entries of a block index there is memory for
  InitialBlocks, \* initialBlockPoolSize
  Blocks,        \* there is memory for, the pool's included
  MaxBulk,       \* BUFFER_SHUFFLING
  Modulus,       \* 2^64 in the code
  null

ASSUME QueueAssumption ==
  /\ IsFiniteSet(Consumers)
  /\ Modulus \in Nat \ {0}
  /\ BLOCK_SIZE \in Nat \ {0, 1} /\ Modulus % BLOCK_SIZE = 0
  /\ IMPLICIT_INITIAL_INDEX_SIZE \in Nat \ {0}
  /\ MaxEntries \in Nat /\ IMPLICIT_INITIAL_INDEX_SIZE <= MaxEntries
  /\ 2 * (MaxEntries * BLOCK_SIZE) < Modulus
  /\ InitialBlocks \in 0..Cardinality(Blocks)
  /\ MaxBulk \in Nat \ {0} /\ MaxBulk + BLOCK_SIZE <= Modulus
  /\ null \notin Nat \cup Blocks

VARIABLES
  \* of the producer, shared
  tailIndex, headIndex, dequeueOptimisticCount, dequeueOvercommit,
  blockIndex,  \* the number of the current index
  index,       \* index[h]: capacity, tail and entries of block index h
  key, value,  \* of every BlockIndexEntry
  \* blocks, and where they come from
  elements,    \* elements[b]: its BLOCK_SIZE elements
  completed,   \* elementsCompletelyDequeued
  chain,       \* the member next
  fresh,       \* blocks not handed out yet, by the pool or malloc
  free,        \* blocks on the free list
  \* locals of enqueue_bulk
  ppc, tailBlock, startTail, newTail, current, startBlock, firstBlock, endBlock, entry, undo,
  \* and of try_dequeue
  cpc, reg

sharedVars == <<tailIndex, headIndex, dequeueOptimisticCount, dequeueOvercommit>>
indexVars == <<blockIndex, index, key, value>>
blockVars == <<elements, completed, chain>>
memoryVars == <<fresh, free>>
batchVars == <<startTail, newTail, startBlock>>
enqueueVars ==
  <<ppc, tailBlock, batchVars, current, firstBlock, endBlock, entry, undo>>
consumerVars == <<cpc, reg>>
queueVars == <<sharedVars, indexVars, blockVars, memoryVars, enqueueVars, consumerVars>>

Index == 0..Modulus - 1
Capacity(h) == index[h].capacity
Entries == 1..MaxEntries
INVALID_BLOCK_BASE == 1
Raw == null   \* an element not constructed, or destroyed

Wrap(i) == i % Modulus
Base(i) == (Wrap(i) \div BLOCK_SIZE) * BLOCK_SIZE
Slot(i) == i % BLOCK_SIZE
circular_less_than(a, b) == Wrap(a - b) > Modulus \div 2

NoReg == [overcommit |-> 0, count |-> 0, index |-> 0,
          blockIndex |-> 0, pos |-> 0, entry |-> 0, block |-> null, element |-> null]

QueueType ==
  /\ {tailIndex, headIndex, dequeueOptimisticCount, dequeueOvercommit,
      startTail, newTail, current} \subseteq Index
  /\ blockIndex \in Nat \ {0}
  /\ \A h \in 1..blockIndex :
       /\ Capacity(h) \in 1..MaxEntries
       /\ index[h].tail \in 0..Capacity(h) - 1
       /\ index[h].entries \in [0..Capacity(h) - 1 -> 1..Capacity(h)]
  /\ key \in [Entries -> Index]
  /\ value \in [Entries -> Blocks \cup {null}]
  /\ elements \in [Blocks -> [0..BLOCK_SIZE - 1 -> Index \cup {Raw}]]
  /\ completed \in [Blocks -> 0..BLOCK_SIZE]
  /\ chain \in [Blocks -> Blocks \cup {null}]
  /\ {fresh, free} \subseteq SUBSET Blocks
  /\ ppc \in {"idle", "find", "key", "tail", "block", "undo", "release", "fill", "publish"}
  /\ {tailBlock, startBlock, firstBlock, endBlock, undo} \subseteq Blocks \cup {null}
  /\ entry \in Entries \cup {null}
  /\ cpc \in [Consumers -> {"idle", "optimistic", "commit", "check", "overcommit", "index",
                            "index_tail", "entry", "element", "empty", "unlink", "release"}]

-----------------------------------------------------------------------------
(* Block index *)

\* The h-th index is of twice the size of the last one.
PrevCapacity(h) == IF h = 1 THEN 0 ELSE Capacity(h - 1)
NextCapacity(h) == IF h = 1 THEN IMPLICIT_INITIAL_INDEX_SIZE ELSE 2 * Capacity(h - 1)

\* Its entries: those of the last one from its oldest on, then as many again.
NewEntries(h) ==
  [i \in 0..NextCapacity(h) - 1 |->
     IF i < PrevCapacity(h)
     THEN LET prev == index[h - 1] IN prev.entries[(prev.tail + 1 + i) % prev.capacity]
     ELSE i + 1]

\* [Wrong] its tail is the first of the new entries.
NewBlockIndexOffByOne(h) ==
  [capacity |-> NextCapacity(h),
   tail |-> PrevCapacity(h) % NextCapacity(h),
   entries |-> NewEntries(h)]

\* new_block_index for the h-th time: its tail is the last of the old entries.
NewBlockIndex(h) ==
  [capacity |-> NextCapacity(h),
   tail |-> (PrevCapacity(h) - 1) % NextCapacity(h),
   entries |-> NewEntries(h)]

NextPos(h) == (index[h].tail + 1) % Capacity(h)
PrevPos(h) == (index[h].tail - 1) % Capacity(h)

\* The tail's distance to a block, in blocks, backward or forward.
Offset(i, tailBase) ==
  LET d == Wrap(Base(i) - tailBase)
  IN  (IF d < Modulus \div 2 THEN d ELSE d - Modulus) \div BLOCK_SIZE

\* get_block_index_entry_for_index, from an index and the tail read from it.
EntryAt(h, pos, i) ==
  index[h].entries[(pos + Offset(i, key[index[h].entries[pos]])) % Capacity(h)]

EntryFor(i) == EntryAt(blockIndex, index[blockIndex].tail, i)

\* ProducerBase's constructor.
ProducerBase ==
  /\ tailIndex = 0 /\ headIndex = 0
  /\ dequeueOptimisticCount = 0 /\ dequeueOvercommit = 0
  /\ tailBlock = null

\* ImplicitProducer's, and the entries of its first index.
ImplicitProducer ==
  /\ ProducerBase
  /\ blockIndex = 1
  /\ index = [h \in {1} |-> NewBlockIndex(h)]
  /\ key = [e \in Entries |-> INVALID_BLOCK_BASE]
  /\ value = [e \in Entries |-> null]

\* The queue with its pool, and its one producer, created by the first call.
QueueInit ==
  /\ ImplicitProducer
  /\ elements = [b \in Blocks |-> [i \in 0..BLOCK_SIZE - 1 |-> Raw]]
  /\ completed = [b \in Blocks |-> 0]
  /\ chain = [b \in Blocks |-> null]
  /\ fresh = Blocks /\ free = {}
  /\ ppc = "idle"
  /\ startTail = 0 /\ newTail = 0 /\ current = 0
  /\ startBlock = null /\ firstBlock = null /\ endBlock = null
  /\ entry = null /\ undo = null
  /\ cpc = [c \in Consumers |-> "idle"]
  /\ reg = [c \in Consumers |-> NoReg]

-----------------------------------------------------------------------------
(* enqueue_bulk *)

Step(label) == ppc' = label

\* The whole batch finds its blocks before any of it is written.
EnqueueBulk(count) ==
  /\ ppc = "idle"
  /\ startTail' = tailIndex
  /\ newTail' = Wrap(tailIndex + count)
  /\ current' = Base(tailIndex - 1)
  /\ startBlock' = tailBlock
  /\ endBlock' = tailBlock
  /\ Step("find")
  /\ UNCHANGED <<sharedVars, indexVars, blockVars, memoryVars, consumerVars,
                 tailBlock, firstBlock, entry, undo>>

NeedsBlock == current # Base(newTail - 1)

\* insert_block_index_entry: the entry after the tail, if it is free.
FindEntry ==
  /\ ppc = "find" /\ NeedsBlock
  /\ circular_less_than(headIndex, current + 2 * BLOCK_SIZE)
  /\ LET e == index[blockIndex].entries[NextPos(blockIndex)] IN
       /\ key[e] = INVALID_BLOCK_BASE \/ value[e] = null
       /\ entry' = e
  /\ current' = Wrap(current + BLOCK_SIZE)
  /\ Step("key")
  /\ UNCHANGED <<sharedVars, indexVars, blockVars, memoryVars, consumerVars,
                 tailBlock, batchVars, firstBlock, endBlock, undo>>

\* It is not, and there is memory for an index of twice the size.
GrowIndex ==
  /\ ppc = "find" /\ NeedsBlock
  /\ circular_less_than(headIndex, current + 2 * BLOCK_SIZE)
  /\ LET e == index[blockIndex].entries[NextPos(blockIndex)] IN
       key[e] # INVALID_BLOCK_BASE /\ value[e] # null
  /\ 2 * Capacity(blockIndex) <= MaxEntries
  /\ index' = [h \in 1..blockIndex + 1 |->
                 IF h <= blockIndex THEN index[h] ELSE NewBlockIndex(h)]
  /\ blockIndex' = blockIndex + 1
  /\ entry' = Capacity(blockIndex) + 1
  /\ current' = Wrap(current + BLOCK_SIZE)
  /\ Step("key")
  /\ UNCHANGED <<sharedVars, key, value, blockVars, memoryVars, consumerVars,
                 tailBlock, batchVars, firstBlock, endBlock, undo>>

StoreKey ==
  /\ ppc = "key"
  /\ key' = [key EXCEPT ![entry] = current]
  /\ Step("tail")
  /\ UNCHANGED <<sharedVars, blockIndex, index, value, blockVars, memoryVars, consumerVars,
                 tailBlock, batchVars, current, firstBlock, endBlock, entry, undo>>

StoreTail ==
  /\ ppc = "tail"
  /\ index' = [index EXCEPT ![blockIndex].tail = NextPos(blockIndex)]
  /\ Step("block")
  /\ UNCHANGED <<sharedVars, blockIndex, key, value, blockVars, memoryVars, consumerVars,
                 tailBlock, batchVars, current, firstBlock, endBlock, entry, undo>>

\* requisition_block: the pool, then the free list, which may miss a block
\* that is being pushed, then malloc.
Requisition(b) ==
  \/ /\ b \in fresh
     /\ fresh' = fresh \ {b}
     /\ UNCHANGED free
  \/ /\ b \in free
     /\ Cardinality(Blocks \ fresh) >= InitialBlocks
     /\ free' = free \ {b}
     /\ UNCHANGED fresh

\* Block::reset_empty, in the implicit context.
ResetEmpty(b) == completed' = [completed EXCEPT ![b] = 0]

\* [Wrong] the block's count of emptied elements is left as it is.
GetBlockNoReset(b) ==
  /\ ppc = "block"
  /\ Requisition(b)
  /\ value' = [value EXCEPT ![entry] = b]
  /\ chain' =
       IF startTail % BLOCK_SIZE # 0 \/ firstBlock # null
       THEN [chain EXCEPT ![b] = null, ![tailBlock] = b]
       ELSE [chain EXCEPT ![b] = null]
  /\ tailBlock' = b
  /\ endBlock' = b
  /\ firstBlock' = IF firstBlock = null THEN b ELSE firstBlock
  /\ entry' = null
  /\ Step("find")
  /\ UNCHANGED <<sharedVars, blockIndex, index, key, elements, completed, consumerVars,
                 batchVars, current, undo>>

\* Block b, emptied, goes into the entry and at the end of the chain.
GetBlock(b) ==
  /\ ppc = "block"
  /\ Requisition(b)
  /\ ResetEmpty(b)
  /\ value' = [value EXCEPT ![entry] = b]
  /\ chain' =
       IF startTail % BLOCK_SIZE # 0 \/ firstBlock # null
       THEN [chain EXCEPT ![b] = null, ![tailBlock] = b]
       ELSE [chain EXCEPT ![b] = null]
  /\ tailBlock' = b
  /\ endBlock' = b
  /\ firstBlock' = IF firstBlock = null THEN b ELSE firstBlock
  /\ entry' = null
  /\ Step("find")
  /\ UNCHANGED <<sharedVars, blockIndex, index, key, elements, consumerVars,
                 batchVars, current, undo>>

\* No memory for the block: its entry is taken back, and those before it.
NoBlock ==
  /\ ppc = "block"
  /\ fresh = {}
  /\ index' = [index EXCEPT ![blockIndex].tail = PrevPos(blockIndex)]
  /\ value' = [value EXCEPT ![entry] = null]
  /\ entry' = null
  /\ current' = Base(startTail - 1)
  /\ undo' = firstBlock
  /\ Step("undo")
  /\ UNCHANGED <<sharedVars, blockIndex, key, blockVars, memoryVars, consumerVars,
                 tailBlock, batchVars, firstBlock, endBlock>>

\* No memory for the index, or the queue is full.
NoEntry ==
  /\ ppc = "find" /\ NeedsBlock
  /\ LET e == index[blockIndex].entries[NextPos(blockIndex)] IN
       \/ ~circular_less_than(headIndex, current + 2 * BLOCK_SIZE)
       \/ /\ key[e] # INVALID_BLOCK_BASE /\ value[e] # null
          /\ 2 * Capacity(blockIndex) > MaxEntries
  /\ current' = Base(startTail - 1)
  /\ undo' = firstBlock
  /\ Step("undo")
  /\ UNCHANGED <<sharedVars, indexVars, blockVars, memoryVars, consumerVars,
                 tailBlock, batchVars, firstBlock, endBlock, entry>>

\* Take the batch's next block out of the index.
Undo ==
  /\ ppc = "undo" /\ undo # null
  /\ LET c == Wrap(current + BLOCK_SIZE) IN
       /\ value' = [value EXCEPT ![EntryFor(c)] = null]
       /\ current' = c
  /\ index' = [index EXCEPT ![blockIndex].tail = PrevPos(blockIndex)]
  /\ undo' = chain[undo]
  /\ UNCHANGED <<sharedVars, blockIndex, key, blockVars, memoryVars, consumerVars,
                 ppc, tailBlock, batchVars, firstBlock, endBlock, entry>>

\* The blocks of the chain from b on: the least set that has b, and the next
\* of each of its blocks.
ChainFrom(b) ==
  {x \in Blocks :
     \A S \in SUBSET Blocks :
       b \in S \cup {null} /\ (\A y \in S : chain[y] # null => chain[y] \in S) => x \in S}

\* enqueue_bulk returns: its locals are gone, and nobody reads the links of
\* its blocks again.
EndEnqueue ==
  /\ chain' = [b \in Blocks |-> null]
  /\ startTail' = 0 /\ newTail' = 0 /\ current' = 0
  /\ startBlock' = null /\ firstBlock' = null /\ endBlock' = null
  /\ Step("idle")

\* [Wrong] the blocks are forgotten.
GiveUpForgets ==
  /\ ppc = "undo" /\ undo = null
  /\ tailBlock' = startBlock
  /\ EndEnqueue
  /\ UNCHANGED <<sharedVars, indexVars, elements, completed, memoryVars, consumerVars, entry,
                 undo>>

\* All of them are off the index: give them back and return false.
GiveUp ==
  /\ ppc = "undo" /\ undo = null
  /\ free' = free \cup ChainFrom(firstBlock)
  /\ tailBlock' = startBlock
  /\ EndEnqueue
  /\ UNCHANGED <<sharedVars, indexVars, elements, completed, fresh, consumerVars, entry, undo>>

\* [Wrong] the consumers see the batch before it is written.
StartFillPublished ==
  /\ ppc = "find" /\ ~NeedsBlock
  /\ tailBlock' =
       IF startTail % BLOCK_SIZE = 0 /\ firstBlock # null THEN firstBlock ELSE startBlock
  /\ tailIndex' = newTail
  /\ current' = startTail
  /\ Step("fill")
  /\ UNCHANGED <<headIndex, dequeueOptimisticCount, dequeueOvercommit, indexVars, blockVars,
                 memoryVars, consumerVars, batchVars, firstBlock, endBlock, entry, undo>>

StartFill ==
  /\ ppc = "find" /\ ~NeedsBlock
  /\ tailBlock' =
       IF startTail % BLOCK_SIZE = 0 /\ firstBlock # null THEN firstBlock ELSE startBlock
  /\ current' = startTail
  /\ Step("fill")
  /\ UNCHANGED <<sharedVars, indexVars, blockVars, memoryVars, consumerVars,
                 batchVars, firstBlock, endBlock, entry, undo>>

\* Write the elements of one block.
Fill ==
  /\ ppc = "fill"
  /\ LET blockEnd == Base(current) + BLOCK_SIZE
         stop == IF circular_less_than(newTail, blockEnd) THEN newTail ELSE Wrap(blockEnd)
         n == Wrap(stop - current)
     IN /\ elements' =
             IF n = 0 THEN elements
             ELSE [elements EXCEPT ![tailBlock] = [p \in DOMAIN @ |->
                     LET d == p - Slot(current)
                     IN  IF d \in 0..n - 1 THEN current + d ELSE @[p]]]
        /\ current' = stop
  /\ \/ /\ tailBlock = endBlock
        /\ Step("publish")
        /\ UNCHANGED tailBlock
     \/ /\ tailBlock # endBlock
        /\ tailBlock' = chain[tailBlock]
        /\ UNCHANGED ppc
  /\ UNCHANGED <<sharedVars, indexVars, completed, chain, memoryVars, consumerVars,
                 batchVars, firstBlock, endBlock, entry, undo>>

\* The consumers may see the batch from here on.
Publish ==
  /\ ppc = "publish"
  /\ tailIndex' = newTail
  /\ EndEnqueue
  /\ UNCHANGED <<headIndex, dequeueOptimisticCount, dequeueOvercommit, indexVars,
                 elements, completed, memoryVars, consumerVars, tailBlock, entry, undo>>

-----------------------------------------------------------------------------
(* try_dequeue *)

Move(c, label, r) ==
  /\ cpc' = [cpc EXCEPT ![c] = label]
  /\ reg' = [reg EXCEPT ![c] = r]

\* size_approx is not 0.
NonEmpty == circular_less_than(headIndex, tailIndex)

\* try_dequeue finds an element and the overcommit count is read.  The code
\* reads tailIndex before that: an older tail, like a head that moves on
\* meanwhile, only makes the next test fail, as if the call was not made.
TryDequeue(c) ==
  /\ cpc[c] = "idle"
  /\ NonEmpty
  /\ Move(c, "optimistic", [NoReg EXCEPT !.overcommit = dequeueOvercommit])
  /\ UNCHANGED <<sharedVars, indexVars, blockVars, memoryVars, enqueueVars>>

Optimistic(c) ==
  /\ cpc[c] = "optimistic"
  /\ IF circular_less_than(dequeueOptimisticCount - reg[c].overcommit, tailIndex)
     THEN Move(c, "commit", reg[c])
     ELSE Move(c, "idle", NoReg)
  /\ UNCHANGED <<sharedVars, indexVars, blockVars, memoryVars, enqueueVars>>

Commit(c) ==
  /\ cpc[c] = "commit"
  /\ dequeueOptimisticCount' = Wrap(dequeueOptimisticCount + 1)
  /\ Move(c, "check", [reg[c] EXCEPT !.count = dequeueOptimisticCount])
  /\ UNCHANGED <<tailIndex, headIndex, dequeueOvercommit, indexVars, blockVars, memoryVars,
                 enqueueVars>>

\* There is an element for c: it gets the next index.
Check(c) ==
  /\ cpc[c] = "check"
  /\ circular_less_than(reg[c].count - reg[c].overcommit, tailIndex)
  /\ headIndex' = Wrap(headIndex + 1)
  /\ Move(c, "index", [NoReg EXCEPT !.index = headIndex])
  /\ UNCHANGED <<tailIndex, dequeueOptimisticCount, dequeueOvercommit, indexVars, blockVars,
                 memoryVars, enqueueVars>>

\* [Wrong] the claim that failed stays counted.
CheckFailsForgets(c) ==
  /\ cpc[c] = "check"
  /\ ~circular_less_than(reg[c].count - reg[c].overcommit, tailIndex)
  /\ Move(c, "idle", NoReg)
  /\ UNCHANGED <<sharedVars, indexVars, blockVars, memoryVars, enqueueVars>>

CheckFails(c) ==
  /\ cpc[c] = "check"
  /\ ~circular_less_than(reg[c].count - reg[c].overcommit, tailIndex)
  /\ Move(c, "overcommit", NoReg)
  /\ UNCHANGED <<sharedVars, indexVars, blockVars, memoryVars, enqueueVars>>

Overcommit(c) ==
  /\ cpc[c] = "overcommit"
  /\ dequeueOvercommit' = Wrap(dequeueOvercommit + 1)
  /\ Move(c, "idle", NoReg)
  /\ UNCHANGED <<tailIndex, headIndex, dequeueOptimisticCount, indexVars, blockVars, memoryVars,
                 enqueueVars>>

LoadIndex(c) ==
  /\ cpc[c] = "index"
  /\ Move(c, "index_tail", [reg[c] EXCEPT !.blockIndex = blockIndex])
  /\ UNCHANGED <<sharedVars, indexVars, blockVars, memoryVars, enqueueVars>>

LoadIndexTail(c) ==
  /\ cpc[c] = "index_tail"
  /\ Move(c, "entry", [reg[c] EXCEPT !.pos = index[reg[c].blockIndex].tail])
  /\ UNCHANGED <<sharedVars, indexVars, blockVars, memoryVars, enqueueVars>>

LoadEntry(c) ==
  /\ cpc[c] = "entry"
  /\ LET e == EntryAt(reg[c].blockIndex, reg[c].pos, reg[c].index) IN
       Move(c, "element", [NoReg EXCEPT !.index = reg[c].index, !.entry = e, !.block = value[e]])
  /\ UNCHANGED <<sharedVars, indexVars, blockVars, memoryVars, enqueueVars>>

\* Move the element out and destroy it.
TakeElement(c) ==
  /\ cpc[c] = "element"
  /\ elements' = [elements EXCEPT ![reg[c].block][Slot(reg[c].index)] = Raw]
  /\ Move(c, "empty",
          [reg[c] EXCEPT !.index = 0, !.element = elements[reg[c].block][Slot(reg[c].index)]])
  /\ UNCHANGED <<sharedVars, indexVars, completed, chain, memoryVars, enqueueVars>>

\* set_empty: the block's last element leaves c to give it back.
SetEmpty(c) ==
  /\ cpc[c] = "empty"
  /\ LET b == reg[c].block IN
       /\ completed' = [completed EXCEPT ![b] = @ + 1]
       /\ IF completed[b] = BLOCK_SIZE - 1
          THEN Move(c, "unlink", reg[c])
          ELSE Move(c, "idle", NoReg)
  /\ UNCHANGED <<sharedVars, indexVars, elements, chain, memoryVars, enqueueVars>>

Unlink(c) ==
  /\ cpc[c] = "unlink"
  /\ value' = [value EXCEPT ![reg[c].entry] = null]
  /\ Move(c, "release", [reg[c] EXCEPT !.entry = 0])
  /\ UNCHANGED <<sharedVars, blockIndex, index, key, blockVars, memoryVars, enqueueVars>>

Release(c) ==
  /\ cpc[c] = "release"
  /\ free' = free \cup {reg[c].block}
  /\ Move(c, "idle", NoReg)
  /\ UNCHANGED <<sharedVars, indexVars, blockVars, fresh, enqueueVars>>

Enqueuing ==
  \/ FindEntry \/ GrowIndex \/ NoEntry \/ StoreKey \/ StoreTail \/ NoBlock
  \/ Undo \/ GiveUp \/ StartFill \/ Fill \/ Publish
  \/ \E b \in Blocks : GetBlock(b)

Dequeuing(c) ==
  \/ TryDequeue(c) \/ Optimistic(c) \/ Commit(c) \/ Check(c) \/ CheckFails(c) \/ Overcommit(c)
  \/ LoadIndex(c) \/ LoadIndexTail(c) \/ LoadEntry(c) \/ TakeElement(c)
  \/ SetEmpty(c) \/ Unlink(c) \/ Release(c)

QueueNext ==
  \/ \E count \in 0..MaxBulk : EnqueueBulk(count)
  \/ Enqueuing
  \/ \E c \in Consumers : Dequeuing(c)

QueueSpec == QueueInit /\ [][QueueNext]_queueVars

\* Calls under way go on, and a worker calls try_dequeue until it gets a
\* ticket.  Nobody has to enqueue anything.
QueueFairSpec ==
  QueueSpec /\ WF_queueVars(Enqueuing) /\ \A c \in Consumers : WF_queueVars(Dequeuing(c))

-----------------------------------------------------------------------------
(* Properties *)

\* The slot that index i is found at now.
Found(i) == elements[value[EntryFor(i)]][Slot(i)]

Claimed(c) == cpc[c] \in {"index", "index_tail", "entry", "element"}
Taken(c) == cpc[c] \in {"empty", "unlink", "release"}

\* The queue is first in, first out, each ticket to one worker: the optimistic
\* claims, the search for the block and its recycling are invisible.
F == INSTANCE Fifo WITH
  Numbers <- Modulus,
  MaxBatch <- MaxBulk,
  Nothing <- null,
  came <- tailIndex,
  line <- [k \in 1..Wrap(tailIndex - headIndex) |-> Found(Wrap(headIndex + k - 1))],
  hand <- [c \in Consumers |->
             IF Claimed(c) THEN Found(reg[c].index)
             ELSE IF Taken(c) THEN reg[c].element ELSE null]
FirstInFirstOut == F!FifoSpec

\* The assertion of get_block_index_index_for_index, and it stays so while the
\* block is in use: the entry found through an index and a tail that may both
\* be stale is the one of the claimed element's block.
EntryIsRight ==
  \A c \in Consumers : cpc[c] = "element" =>
    /\ key[reg[c].entry] = Base(reg[c].index)
    /\ value[reg[c].entry] = reg[c].block

\* Every claim is answered for: the optimistic count is ahead of the index by
\* the overcommits and the claims not yet decided.
Undecided == {c \in Consumers : cpc[c] \in {"check", "overcommit"}}
ClaimsAddUp ==
  dequeueOptimisticCount =
    Wrap(headIndex + dequeueOvercommit + Cardinality(Undecided))

\* No block is lost or used twice, whether a batch succeeds or is undone for
\* want of memory: each is free, in the index, or on its way from there to
\* the free list.
InIndex == {value[e] : e \in {x \in Entries : value[x] # null}}
Leaving == {reg[c].block : c \in {x \in Consumers : cpc[x] = "release"}}
BlocksKept ==
  /\ free \cap (InIndex \cup Leaving) = {}
  /\ \A e, f \in Entries : value[e] = value[f] /\ e # f => value[e] = null
  /\ ppc = "idle" => free \cup InIndex \cup Leaving = Blocks \ fresh

\* What a comment says of a claim that fails: "Wasn't anything to dequeue after
\* all; make the effective dequeue count eventually consistent".  An element
\* in the queue is then claimed some day by workers that keep calling.
EventuallyClaimed ==
  \A i \in Index : (headIndex = i /\ tailIndex # i) ~> headIndex # i
=============================================================================
