--------------------------- MODULE QueueBlocks_proofs ---------------------------
(***************************************************************************)
(* The blocks of the queue and their index (App/concurrentqueue.h:2297-    *)
(* 2899), for any number of workers, any sizes of blocks, index and        *)
(* batches, and any width of index_t: blocks are found, recycled and       *)
(* undone rightly, and the queue is first in, first out.                   *)
(*                                                                         *)
(* Indices wrap; the proof numbers elements and blocks from 0 on.  H and T *)
(* are the numbers of headIndex and tailIndex, N the tail once the batch   *)
(* is published, Z the last block acquired, U the last one undone, P the   *)
(* elements written.  Block n is bb[n]; entry e was keyed last for block   *)
(* kn[e], from the L-th to the Y-th; block n is at place n + off[h] of     *)
(* index h.  Consumer c has claimed element cl[c].                         *)
(***************************************************************************)
EXTENDS Queue_proofs, SequenceTheorems

-----------------------------------------------------------------------------
(* The block index *)

-----------------------------------------------------------------------------
\* An entry that has had a block.
Keyed(e) == key[e] # INVALID_BLOCK_BASE

\* A header has these three fields.
HeaderShape(x) == x = [capacity |-> x.capacity, tail |-> x.tail, entries |-> x.entries]

\* An index holds each of the first entries once.
ShapeAt(h) ==
  /\ HeaderShape(index[h])
  /\ Capacity(h) \in 1..MaxEntries
  /\ index[h].tail \in 0..Capacity(h) - 1
  /\ index[h].entries \in [0..Capacity(h) - 1 -> 1..Capacity(h)]
  /\ \A e \in 1..Capacity(h) : \E p \in 0..Capacity(h) - 1 : index[h].entries[p] = e
  /\ \A p, q \in 0..Capacity(h) - 1 : index[h].entries[p] = index[h].entries[q] => p = q
  /\ \E q \in Nat : Capacity(blockIndex) = q * Capacity(h)

Shape ==
  /\ blockIndex \in Nat \ {0}
  /\ index = [h \in 1..blockIndex |-> index[h]]
  /\ key \in [Entries -> Int]
  /\ \A h \in 1..blockIndex : ShapeAt(h)

\* The entry for the n-th block in the current index.
Pos(n, off) == (n + off[blockIndex]) % Capacity(blockIndex)
At(n, off) == index[blockIndex].entries[Pos(n, off)]

\* The entries have been used for the L-th to the Y-th block last, in every
\* index at the places of their numbers.
Keys(L, Y, kn, off) ==
  /\ Y - L < Capacity(blockIndex)
  /\ \A e \in Entries : Keyed(e) =>
       /\ e <= Capacity(blockIndex) /\ kn[e] \in L..Y /\ key[e] = Wrap(BLOCK_SIZE * kn[e])
       /\ \A h \in 1..blockIndex : \A p \in 0..Capacity(h) - 1 :
            index[h].entries[p] = e => p = (kn[e] + off[h]) % Capacity(h)
  /\ \A n \in L..Y : \E e \in Entries : Keyed(e) /\ kn[e] = n
  /\ \A h \in 1..blockIndex : h < blockIndex => \A e \in 1..Capacity(h) : Keyed(e)

\* The number of the block at the tail: the batch's last, but for those undone.
AtTail(T, Z, U) == Z - (U - LastBlock(T)) + IF ppc = "block" THEN 1 ELSE 0

\* Where the tail of the current index and the entry that is being inserted are.
\* The batch from T on has blocks to the Z-th, undone to the U-th.
Cursor(T, Z, U, L, Y, off) ==
  /\ index[blockIndex].tail = Pos(AtTail(T, Z, U), off)
  /\ LastBlock(T) <= U /\ U <= Z
  /\ ppc # "undo" => U = LastBlock(T)
  /\ 0 <= L /\ L <= LastBlock(T) + 1 /\ Z <= Y
  /\ ppc \in {"tail", "block"} => Z < Y
  /\ ppc \in {"key", "tail", "block"} => entry = At(Z + 1, off)
  /\ ppc \notin {"key", "tail", "block"} => entry = null

\* Remainders of sums.
LEMMA ModSum ==
  ASSUME NEW n \in Nat \ {0}, NEW a \in Int, NEW b \in Int
  PROVE  /\ ((a % n) + b) % n = (a + b) % n /\ ((a % n) - b) % n = (a - b) % n
         /\ a % n \in 0..n - 1
<1>1. a % n \in 0..n - 1 /\ Congruent(a, a % n, n)
  BY Divide, CongruentMod
<1>2. a % n \in Int /\ n \in Int
  BY <1>1
<1>3. Congruent(a % n, a, n) /\ Congruent(b, b, n)
  BY <1>1, <1>2, CongruentBack, CongruentSelf
<1> DEFINE r == a % n
<1> HIDE DEF r
<1>4. Congruent(r + b, a + b, n) /\ Congruent(r - b, a - b, n)
  BY <1>2, <1>3, CongruentSum DEF r
<1>5. r \in Int /\ r + b \in Int /\ a + b \in Int /\ r - b \in Int /\ a - b \in Int
  BY <1>2 DEF r
<1>6. (r + b) % n = (a + b) % n /\ (r - b) % n = (a - b) % n
  BY <1>4, <1>5, CongruentMod
<1> QED BY <1>1, <1>6 DEF r

\* A remainder is its own.
LEMMA ModSmall ==
  ASSUME NEW n \in Nat \ {0}, NEW a \in 0..n - 1
  PROVE  a % n = a
BY SMT

\* Equal remainders of numbers that are near are of one number.
LEMMA ModNear ==
  ASSUME NEW n \in Nat \ {0}, NEW a \in Int, NEW b \in Int,
         a % n = b % n, a - b < n, b - a < n
  PROVE  a = b
<1>1. Congruent(a, b, n)
  BY CongruentMod
<1> QED BY <1>1, CongruentNear

\* Adding the same on both sides.
LEMMA ModShift ==
  ASSUME NEW n \in Nat \ {0}, NEW a \in Int, NEW b \in Int, NEW c \in Int
  PROVE  a % n = b % n <=> (a + c) % n = (b + c) % n
<1>1. ASSUME NEW x \in Int, NEW y \in Int, NEW z \in Int, x % n = y % n
      PROVE  (x + z) % n = (y + z) % n
  <2>1. ((x % n) + z) % n = (x + z) % n
    BY ModSum
  <2>2. ((y % n) + z) % n = (y + z) % n
    BY ModSum
  <2> QED BY <1>1, <2>1, <2>2
<1>2. ASSUME (a + c) % n = (b + c) % n PROVE a % n = b % n
  <2>1. a + c \in Int /\ b + c \in Int /\ -c \in Int
    OBVIOUS
  <2>2. ((a + c) + -c) % n = ((b + c) + -c) % n
    BY <1>1, <1>2, <2>1
  <2>3. (a + c) + -c = a /\ (b + c) + -c = b
    OBVIOUS
  <2> QED BY <2>2, <2>3
<1> QED BY <1>1, <1>2

\* The current index is the largest.
LEMMA CurrentIndex ==
  ASSUME Shape
  PROVE  /\ blockIndex \in 1..blockIndex
         /\ Capacity(blockIndex) \in Nat \ {0} /\ Capacity(blockIndex) \in 1..MaxEntries
         /\ 1..Capacity(blockIndex) \subseteq Entries
         /\ \A h \in 1..blockIndex : /\ Capacity(h) \in Nat \ {0}
                                     /\ Capacity(h) <= Capacity(blockIndex)
<1>1. blockIndex \in 1..blockIndex /\ MaxEntries \in Nat
  BY Sizes DEF Shape, ShapeAt
<1>2. Capacity(blockIndex) \in Nat \ {0} /\ Capacity(blockIndex) \in 1..MaxEntries
  BY <1>1 DEF Shape, ShapeAt
<1>3. 1..Capacity(blockIndex) \subseteq Entries
  BY <1>1, <1>2 DEF Entries
<1>4. ASSUME NEW h \in 1..blockIndex
      PROVE  Capacity(h) \in Nat \ {0} /\ Capacity(h) <= Capacity(blockIndex)
  <2>1. Capacity(h) \in Nat \ {0}
    <3>1. Capacity(h) \in 1..MaxEntries
      BY DEF Shape, ShapeAt
    <3> QED BY <1>1, <3>1
  <2>2. PICK q \in Nat : Capacity(blockIndex) = q * Capacity(h)
    BY DEF Shape, ShapeAt
  <2> DEFINE k == Capacity(h)
             c == Capacity(blockIndex)
  <2> HIDE DEF k, c
  <2>3. k \in Nat \ {0} /\ c \in Nat \ {0} /\ c = q * k
    BY <1>2, <2>1, <2>2 DEF k, c
  <2>4. q # 0
    BY <2>3
  <2>5. q * k >= k
    BY <2>3, <2>4
  <2> QED BY <2>1, <2>3, <2>5 DEF k, c
<1> QED BY <1>1, <1>2, <1>3, <1>4

\* The entry at a number's place.
LEMMA Placed ==
  ASSUME Shape, NEW L \in Int, NEW Y \in Int, NEW kn \in [Entries -> Int],
         NEW off \in [Nat -> Int], Keys(L, Y, kn, off)
  PROVE  /\ \A n \in Int : /\ Pos(n, off) \in 0..Capacity(blockIndex) - 1
                           /\ At(n, off) \in 1..Capacity(blockIndex) /\ At(n, off) \in Entries
         /\ \A n \in L..Y : Keyed(At(n, off)) /\ kn[At(n, off)] = n
         /\ \A e \in Entries : Keyed(e) => e = At(kn[e], off) /\ kn[e] \in L..Y
         /\ \A m, n \in Int : At(m, off) = At(n, off) <=> Pos(m, off) = Pos(n, off)
         /\ \A e, f \in Entries : Keyed(e) /\ Keyed(f) /\ kn[e] = kn[f] => e = f
<1>1. /\ blockIndex \in 1..blockIndex /\ Capacity(blockIndex) \in Nat \ {0}
      /\ 1..Capacity(blockIndex) \subseteq Entries
      /\ off[blockIndex] \in Int
  BY CurrentIndex DEF Shape, ShapeAt
<1>2. \A n \in Int : Pos(n, off) \in 0..Capacity(blockIndex) - 1
  BY <1>1, ModSum DEF Pos
<1>3. /\ index[blockIndex].entries \in [0..Capacity(blockIndex) - 1 -> 1..Capacity(blockIndex)]
      /\ \A p, q \in 0..Capacity(blockIndex) - 1 :
            index[blockIndex].entries[p] = index[blockIndex].entries[q] => p = q
      /\ \A e \in 1..Capacity(blockIndex) : \E p \in 0..Capacity(blockIndex) - 1 :
            index[blockIndex].entries[p] = e
  BY <1>1 DEF Shape, ShapeAt
<1>4. \A n \in Int : At(n, off) \in 1..Capacity(blockIndex) /\ At(n, off) \in Entries
  BY <1>1, <1>2, <1>3 DEF At
<1>5. ASSUME NEW e \in Entries, Keyed(e)
      PROVE  e = At(kn[e], off) /\ kn[e] \in L..Y
  <2>1. /\ e <= Capacity(blockIndex) /\ kn[e] \in L..Y
        /\ \A h \in 1..blockIndex : \A p \in 0..Capacity(h) - 1 :
            index[h].entries[p] = e => p = (kn[e] + off[h]) % Capacity(h)
    BY <1>5 DEF Keys
  <2>2. /\ e \in 1..Capacity(blockIndex) /\ kn[e] \in L..Y
        /\ \A p \in 0..Capacity(blockIndex) - 1 :
            index[blockIndex].entries[p] = e =>
              p = (kn[e] + off[blockIndex]) % Capacity(blockIndex)
    <3>1. e \in Nat /\ e >= 1
      BY Sizes DEF Entries
    <3>2. e \in 1..Capacity(blockIndex)
      <4> DEFINE k == Capacity(blockIndex)
      <4>1. k \in Nat /\ e <= k
        BY <1>1, <2>1
      <4> HIDE DEF k
      <4>2. e \in 1..k
        BY <3>1, <4>1
      <4> QED BY <4>2 DEF k
    <3> QED BY <1>1, <2>1, <3>2
  <2>3. PICK p \in 0..Capacity(blockIndex) - 1 : index[blockIndex].entries[p] = e
    BY <1>3, <2>2
  <2> QED BY <2>2, <2>3 DEF At, Pos
<1>6. \A n \in L..Y : Keyed(At(n, off)) /\ kn[At(n, off)] = n
  BY <1>5 DEF Keys
<1>7. \A m, n \in Int : At(m, off) = At(n, off) <=> Pos(m, off) = Pos(n, off)
  BY <1>2, <1>3 DEF At
<1>8. \A e, f \in Entries : Keyed(e) /\ Keyed(f) /\ kn[e] = kn[f] => e = f
  BY <1>5
<1> QED BY <1>2, <1>4, <1>5, <1>6, <1>7, <1>8

\* The base of an index is its block's, wrapped or not.
LEMMA BaseOf ==
  ASSUME NEW i \in Int
  PROVE  /\ NumberOf(i) \in Int /\ Wrap(i) \in 0..Modulus - 1
         /\ Base(i) = Wrap(BLOCK_SIZE * NumberOf(i))
         /\ Base(Wrap(i)) = Wrap(BLOCK_SIZE * NumberOf(i))
         /\ Slot(Wrap(i)) = Slot(i)
<1>1. /\ NumberOf(i) \in Int /\ Slot(i) \in 0..BLOCK_SIZE - 1
      /\ i = BLOCK_SIZE * NumberOf(i) + Slot(i)
  BY InBlock
<1>2. Base(i) = Wrap(BLOCK_SIZE * NumberOf(i)) /\ Slot(Wrap(i)) = Slot(i)
  BY <1>1, WrapBlock
<1>3. Wrap(i) \in 0..Modulus - 1 /\ Wrap(i) \in Int
  BY Wrapped
<1>4. Wrap(Wrap(i)) = Wrap(i)
  BY <1>3, WrapSmall
<1>5. Base(Wrap(i)) = Base(i)
  BY <1>4 DEF Base
<1> QED BY <1>1, <1>2, <1>3, <1>5

\* Blocks that are not further apart than an index is long.
LEMMA Distance ==
  ASSUME NEW n \in Int, NEW k \in Int, n - k < MaxEntries, k - n < MaxEntries,
         NEW i, Base(i) = Wrap(BLOCK_SIZE * n)
  PROVE  Offset(i, Wrap(BLOCK_SIZE * k)) = n - k
<1> DEFINE x == BLOCK_SIZE * (n - k)
           d == Wrap(Base(i) - Wrap(BLOCK_SIZE * k))
           M == BLOCK_SIZE * MaxEntries
           half == Modulus \div 2
<1>1. /\ BLOCK_SIZE \in Nat \ {0} /\ MaxEntries \in Nat /\ BLOCK_SIZE * n \in Int
      /\ BLOCK_SIZE * k \in Int /\ x \in Int /\ M \in Nat /\ x = BLOCK_SIZE * n - BLOCK_SIZE * k
      /\ n - k \in Int /\ k - n \in Int
  BY Sizes
<1>2. d = Wrap(x)
  BY <1>1, WrapSum
<1>3. x < M /\ -x < M
  <2>1. n - k < MaxEntries <=> BLOCK_SIZE * (n - k) < BLOCK_SIZE * MaxEntries
    BY <1>1, BlockOrder
  <2>2. k - n < MaxEntries <=> BLOCK_SIZE * (k - n) < BLOCK_SIZE * MaxEntries
    BY <1>1, BlockOrder
  <2>3. BLOCK_SIZE * (k - n) = -x
    BY <1>1
  <2> QED BY <2>1, <2>2, <2>3
<1>4. M <= half /\ half \in Nat /\ 2 * half <= Modulus /\ Modulus \in Nat
  BY <1>1, Sizes DEF HalfRange
<1>5. x \div BLOCK_SIZE = n - k
  <2>1. 0 \in 0..BLOCK_SIZE - 1 /\ x + 0 = x
    BY <1>1
  <2> QED BY <1>1, <2>1, Multiply
<1>6. Offset(i, Wrap(BLOCK_SIZE * k)) = (IF d < half THEN d ELSE d - Modulus) \div BLOCK_SIZE
  BY DEF Offset
<1> HIDE DEF x, d, M, half
<1>7. CASE x >= 0
  <2>1. x \in 0..Modulus - 1 /\ x < half
    BY <1>1, <1>3, <1>4, <1>7
  <2>2. d = x
    BY <1>2, <2>1, WrapSmall
  <2> QED BY <1>5, <1>6, <2>1, <2>2
<1>8. CASE x < 0
  <2>1. x + Modulus \in 0..Modulus - 1 /\ x + Modulus >= half /\ x + Modulus \in Int
    BY <1>1, <1>3, <1>4, <1>8
  <2>2. Congruent(x + Modulus, x, Modulus)
    BY <1>1, <1>4, 1 \in Int, x + Modulus = x + Modulus * 1 DEF Congruent
  <2>3. d = x + Modulus
    BY <1>1, <1>2, <2>1, <2>2, WrapSmall, SameWrap
  <2>4. ~(d < half) /\ d - Modulus = x
    BY <1>1, <1>4, <2>1, <2>3
  <2> QED BY <1>5, <1>6, <2>4
<1> QED BY <1>1, <1>7, <1>8

\* A block is found through any index that has its entry, and any place there
\* of an entry that has been used.
LEMMA LookUp ==
  ASSUME Shape, NEW L \in Int, NEW Y \in Int, NEW kn \in [Entries -> Int],
         NEW off \in [Nat -> Int], Keys(L, Y, kn, off),
         NEW h \in 1..blockIndex, NEW pos \in 0..Capacity(h) - 1,
         Keyed(index[h].entries[pos]),
         NEW e \in Entries, Keyed(e), e <= Capacity(h),
         NEW i, Base(i) = Wrap(BLOCK_SIZE * kn[e])
  PROVE  EntryAt(h, pos, i) = e
<1> DEFINE C == Capacity(h)
           f == index[h].entries[pos]
           n == kn[e]
           k == kn[f]
<1>1. /\ C \in Nat \ {0} /\ Capacity(blockIndex) \in 1..MaxEntries /\ MaxEntries \in Nat
      /\ C <= Capacity(blockIndex) /\ h \in Nat /\ 1..Capacity(blockIndex) \subseteq Entries
  <2>1. h \in Nat
    BY DEF Shape, ShapeAt
  <2> QED BY <2>1, CurrentIndex, Sizes
<1>2. /\ index[h].entries \in [0..C - 1 -> 1..C]
      /\ \A a \in 1..C : \E p \in 0..C - 1 : index[h].entries[p] = a
  BY DEF Shape, ShapeAt
<1>3. f \in 1..C /\ f \in Entries
  <2>1. f \in 1..C
    BY <1>2
  <2>2. 1..C \subseteq 1..Capacity(blockIndex)
    BY <1>1
  <2> QED BY <1>1, <2>1, <2>2
<1>4. e \in 1..C
  BY <1>1 DEF Entries
<1>5. /\ n \in L..Y /\ k \in L..Y /\ key[f] = Wrap(BLOCK_SIZE * k)
      /\ Y - L < Capacity(blockIndex)
      /\ pos = (k + off[h]) % C
      /\ \A p \in 0..C - 1 : index[h].entries[p] = e => p = (n + off[h]) % C
  BY <1>3 DEF Keys
<1>6. PICK q \in 0..C - 1 : index[h].entries[q] = e
  BY <1>2, <1>4
<1>7. q = (n + off[h]) % C
  BY <1>5, <1>6
<1>8. n \in Int /\ k \in Int /\ off[h] \in Int /\ n - k < MaxEntries /\ k - n < MaxEntries
  BY <1>1, <1>3, <1>5
<1>9. Offset(i, key[f]) = n - k
  BY <1>5, <1>8, Distance
<1>10. EntryAt(h, pos, i) = index[h].entries[(pos + (n - k)) % C]
  BY <1>9 DEF EntryAt
<1>11. (pos + (n - k)) % C = q
  <2> HIDE DEF C, n, k
  <2>1. (((k + off[h]) % C) + (n - k)) % C = ((k + off[h]) + (n - k)) % C
    <3>1. k + off[h] \in Int /\ n - k \in Int
      BY <1>8
    <3> QED BY <1>1, <3>1, ModSum
  <2>2. (k + off[h]) + (n - k) = n + off[h]
    BY <1>8
  <2> QED BY <1>5, <1>7, <2>1, <2>2
<1> QED BY <1>6, <1>10, <1>11

\* The steps of the tail.
LEMMA Steps ==
  ASSUME Shape, NEW T \in Int, NEW Z \in Int, NEW U \in Int, NEW L \in Int, NEW Y \in Int,
         NEW off \in [Nat -> Int], Cursor(T, Z, U, L, Y, off)
  PROVE  /\ AtTail(T, Z, U) \in Int /\ LastBlock(T) \in Int
         /\ NextPos(blockIndex) = Pos(AtTail(T, Z, U) + 1, off)
         /\ PrevPos(blockIndex) = Pos(AtTail(T, Z, U) - 1, off)
<1> DEFINE C == Capacity(blockIndex)
           n == AtTail(T, Z, U)
           x == off[blockIndex]
           a == n + x
<1>1. C \in Nat \ {0} /\ x \in Int
  BY CurrentIndex DEF Shape, ShapeAt
<1>2. LastBlock(T) \in Int /\ n \in Int
  <2>1. LastBlock(T) \in Int
    BY LastBlockIs
  <2> QED BY <2>1 DEF AtTail
<1>3. index[blockIndex].tail = a % C
  BY DEF Cursor, Pos
<1> HIDE DEF C, n, x
<1>4. a \in Int /\ 1 \in Int
  BY <1>1, <1>2
<1> HIDE DEF a
<1>5. ((a % C) + 1) % C = (a + 1) % C /\ ((a % C) - 1) % C = (a - 1) % C
  BY <1>1, <1>4, ModSum
<1>6. a + 1 = (n + 1) + x /\ a - 1 = (n - 1) + x
  BY <1>1, <1>2 DEF a
<1>7. (index[blockIndex].tail + 1) % C = ((n + 1) + x) % C
      /\ (index[blockIndex].tail - 1) % C = ((n - 1) + x) % C
  BY <1>3, <1>5, <1>6
<1> QED BY <1>2, <1>7 DEF NextPos, PrevPos, Pos, C, n, x

-----------------------------------------------------------------------------
(* Blocks in use *)

-----------------------------------------------------------------------------
\* Where a consumer has claimed an element and may still look at its block.
AtWork == {"index", "index_tail", "entry", "element", "empty", "unlink"}

\* The consumers that have claimed an element of the n-th block and may still
\* look at it, and those of them that it has not been emptied of.
AtWorkIn(n, cl) == {c \in Consumers : cpc[c] \in AtWork /\ NumberOf(cl[c]) = n}
Busy(n, cl) ==
  {c \in Consumers : cpc[c] \in AtWork /\ cpc[c] # "unlink" /\ NumberOf(cl[c]) = n}

\* The n-th block has been acquired, has elements or room, and is not undone.
Ahead(n, H, T, Z, U) ==
  /\ 0 <= n /\ n <= Z /\ H < BLOCK_SIZE * (n + 1)
  /\ ~(LastBlock(T) < n /\ n <= U)

InUse(n, H, T, Z, U, cl) == Ahead(n, H, T, Z, U) \/ AtWorkIn(n, cl) # {}

\* What of a block has been claimed, when i elements from its start on have.
Clamp(i) == IF i < 0 THEN 0 ELSE IF i > BLOCK_SIZE THEN BLOCK_SIZE ELSE i

\* What has been claimed of the n-th block, bb[n], is emptied or a busy
\* consumer's.
Counting(n, H, bb, cl) ==
  completed[bb[n]] + Cardinality(Busy(n, cl)) = Clamp(H - BLOCK_SIZE * n)

\* A block is in the index while it is in use, and only then.
Used(H, T, Z, U, L, kn, bb, cl) ==
  /\ \A n \in Int : InUse(n, H, T, Z, U, cl) =>
       /\ L <= n /\ bb[n] \in Blocks
       /\ \A e \in Entries : Keyed(e) /\ kn[e] = n => value[e] = bb[n]
       /\ Counting(n, H, bb, cl)
  /\ \A e \in Entries : value[e] # null =>
       Keyed(e) /\ InUse(kn[e], H, T, Z, U, cl) /\ value[e] = bb[kn[e]]

\* Consumers are at work on elements that were claimed.
Ages(H, cl) == \A c \in Consumers : cpc[c] \in AtWork => 0 <= cl[c] /\ cl[c] < H

\* The entry for the next block has none.
Ready(Z, kn) ==
  /\ ppc \in {"key", "tail", "block"} => entry \in Entries /\ value[entry] = null
  /\ ppc \in {"tail", "block"} => Keyed(entry) /\ kn[entry] = Z + 1

-----------------------------------------------------------------------------
\* A header but for its tail.
LEMMA HeaderTail ==
  ASSUME NEW r, HeaderShape(r), NEW x
  PROVE  LET s == [r EXCEPT !.tail = x] IN
         /\ HeaderShape(s) /\ s.tail = x /\ s.capacity = r.capacity /\ s.entries = r.entries
BY DEF HeaderShape

\* The indices but for the tail of the current one.
LEMMA IndexTail ==
  ASSUME Shape, NEW x, index' = [index EXCEPT ![blockIndex].tail = x]
  PROVE  /\ index' = [h \in 1..blockIndex |-> index'[h]]
         /\ \A h \in 1..blockIndex :
              /\ HeaderShape(index'[h])
              /\ index'[h].capacity = index[h].capacity /\ index'[h].entries = index[h].entries
              /\ index'[h].tail = IF h = blockIndex THEN x ELSE index[h].tail
<1>1. blockIndex \in 1..blockIndex /\ index = [h \in 1..blockIndex |-> index[h]]
  BY DEF Shape, ShapeAt
<1>2. index' = [h \in 1..blockIndex |->
                  IF h = blockIndex THEN [index[h] EXCEPT !.tail = x] ELSE index[h]]
  BY <1>1
<1>3. ASSUME NEW h \in 1..blockIndex
      PROVE /\ HeaderShape(index'[h])
            /\ index'[h].capacity = index[h].capacity /\ index'[h].entries = index[h].entries
            /\ index'[h].tail = IF h = blockIndex THEN x ELSE index[h].tail
  <2>1. HeaderShape(index[h])
    BY DEF Shape, ShapeAt
  <2> DEFINE s == [index[h] EXCEPT !.tail = x]
  <2>2. HeaderShape(s) /\ s.tail = x /\ s.capacity = index[h].capacity /\ s.entries = index[h].entries
    BY <2>1, HeaderTail
  <2>3. index'[h] = IF h = blockIndex THEN s ELSE index[h]
    BY <1>2
  <2> HIDE DEF s
  <2> QED BY <2>1, <2>2, <2>3
<1> QED BY <1>2, <1>3

\* The tail of the current index moves.
LEMMA TailMoves ==
  ASSUME Shape, NEW x \in 0..Capacity(blockIndex) - 1,
         index' = [index EXCEPT ![blockIndex].tail = x], UNCHANGED <<blockIndex, key>>,
         NEW L \in Int, NEW Y \in Int, NEW kn \in [Entries -> Int], NEW off \in [Nat -> Int],
         Keys(L, Y, kn, off)
  PROVE  /\ Shape' /\ Keys(L, Y, kn, off)'
         /\ index'[blockIndex].tail = x
         /\ \A n \in Int : Pos(n, off)' = Pos(n, off) /\ At(n, off)' = At(n, off)
         /\ \A h \in 1..blockIndex : Capacity(h)' = Capacity(h)
<1>1. /\ index' = [h \in 1..blockIndex |-> index'[h]]
      /\ \A h \in 1..blockIndex :
           /\ HeaderShape(index'[h])
           /\ index'[h].capacity = index[h].capacity /\ index'[h].entries = index[h].entries
           /\ index'[h].tail = IF h = blockIndex THEN x ELSE index[h].tail
  BY IndexTail
<1>2. blockIndex \in 1..blockIndex
  BY DEF Shape, ShapeAt
<1>3. \A h \in 1..blockIndex : Capacity(h)' = Capacity(h)
  BY <1>1 DEF Capacity
<1>4. Shape'
  <2>1. ASSUME NEW h \in 1..blockIndex PROVE ShapeAt(h)'
    <3>1. /\ Capacity(h)' = Capacity(h) /\ Capacity(blockIndex)' = Capacity(blockIndex)
          /\ index'[h].entries = index[h].entries /\ HeaderShape(index'[h])
      BY <1>1, <1>2, <1>3
    <3>2. ShapeAt(h)
      BY DEF Shape
    <3>3. index'[h].tail \in 0..Capacity(h) - 1
      <4>1. CASE h = blockIndex
        BY <1>1, <4>1
      <4>2. CASE h # blockIndex
        BY <1>1, <3>2, <4>2 DEF ShapeAt
      <4> QED BY <4>1, <4>2
    <3> QED BY <3>1, <3>2, <3>3 DEF ShapeAt
  <2>2. blockIndex' = blockIndex /\ key' \in [Entries -> Int] /\ blockIndex \in Nat \ {0}
    BY DEF Shape
  <2> QED BY <1>1, <2>1, <2>2 DEF Shape
<1>5. Keys(L, Y, kn, off)'
  BY <1>1, <1>2, <1>3 DEF Keys, Keyed
<1>6. \A n \in Int : Pos(n, off)' = Pos(n, off) /\ At(n, off)' = At(n, off)
  BY <1>1, <1>2, <1>3 DEF Pos, At
<1> QED BY <1>1, <1>2, <1>3, <1>4, <1>5, <1>6

\* Nothing of the index changes, or only what is in it.
LEMMA IndexStays ==
  ASSUME Shape, UNCHANGED <<blockIndex, index, key>>,
         NEW L \in Int, NEW Y \in Int, NEW kn \in [Entries -> Int], NEW off \in [Nat -> Int],
         Keys(L, Y, kn, off)
  PROVE  /\ Shape' /\ Keys(L, Y, kn, off)'
         /\ \A n \in Int : Pos(n, off)' = Pos(n, off) /\ At(n, off)' = At(n, off)
         /\ \A h \in 1..blockIndex : Capacity(h)' = Capacity(h)
<1>1. Shape'
  <2>1. ASSUME NEW h \in 1..blockIndex PROVE ShapeAt(h)'
    <3>1. ShapeAt(h)
      BY DEF Shape
    <3>2. index' = index /\ blockIndex' = blockIndex
      OBVIOUS
    <3> QED BY <3>1, <3>2 DEF ShapeAt, Capacity
  <2> QED BY <2>1 DEF Shape
<1>2. Keys(L, Y, kn, off)'
  BY DEF Keys, Keyed, Capacity
<1> QED BY <1>1, <1>2 DEF Pos, At, Capacity

\* The entry for the next block is in use: then all are.
LEMMA Full ==
  ASSUME Shape, NEW L \in Int, NEW Y \in Int, NEW kn \in [Entries -> Int],
         NEW off \in [Nat -> Int], Keys(L, Y, kn, off), NEW Z \in Int, Z <= Y,
         Keyed(At(Z + 1, off)), kn[At(Z + 1, off)] <= Z
  PROVE  /\ Y = Z /\ L = Z + 1 - Capacity(blockIndex)
         /\ \A e \in 1..Capacity(blockIndex) : Keyed(e)
<1> DEFINE C == Capacity(blockIndex)
           x == off[blockIndex]
           f == At(Z + 1, off)
           k == kn[f]
<1>1. C \in Nat \ {0} /\ x \in Int /\ Y - L < C
  BY CurrentIndex DEF Shape, Keys
<1>2. f \in Entries /\ f = At(k, off) /\ k \in L..Y /\ k \in Int /\ Z + 1 \in Int
  <2>1. Z + 1 \in Int
    OBVIOUS
  <2>2. f \in Entries
    BY <2>1, Placed
  <2>3. f = At(k, off) /\ k \in L..Y
    BY <2>2, Placed
  <2> QED BY <2>1, <2>2, <2>3
<1>3. (k + x) % C = ((Z + 1) + x) % C
  <2>1. At(k, off) = At(Z + 1, off)
    BY <1>2
  <2>2. Pos(k, off) = Pos(Z + 1, off)
    <3> HIDE DEF k
    <3> QED BY <1>2, <2>1, Placed
  <2> QED BY <2>2 DEF Pos
<1>4. k = Z + 1 - C
  <2> HIDE DEF C, x, k
  <2> DEFINE z == Z + 1
  <2>1. z \in Int /\ (k + x) % C = (z + x) % C
    BY <1>2, <1>3
  <2> HIDE DEF z
  <2>a. k % C = z % C
    <3>1. C \in Nat \ {0} /\ k \in Int /\ x \in Int
      BY <1>1, <1>2
    <3>2. k % C = z % C <=> (k + x) % C = (z + x) % C
      <4>1. \A a, b, c \in Int : a % C = b % C <=> (a + c) % C = (b + c) % C
        BY <3>1, ModShift
      <4> QED BY <2>1, <3>1, <4>1
    <3> QED BY <2>1, <3>2
  <2>2. k % C = (Z + 1) % C
    BY <2>a DEF z
  <2>3. (k + C) % C = k % C
    <3>1. k + C = k + C * 1 /\ k + C \in Int /\ 1 \in Int
      BY <1>1, <1>2
    <3>2. Congruent(k + C, k, C)
      BY <3>1 DEF Congruent
    <3> QED BY <1>1, <1>2, <3>1, <3>2, CongruentMod
  <2>4. k <= Z
    BY DEF k
  <2>5. k >= L /\ k <= Y
    BY <1>2
  <2>6. k + C \in Int /\ k + C - (Z + 1) < C /\ Z + 1 - (k + C) < C
    BY <1>1, <1>2, <2>4, <2>5
  <2>7. k + C = Z + 1
    <3>1. (k + C) % C = z % C
      BY <2>a, <2>3
    <3>2. k + C - z < C /\ z - (k + C) < C
      BY <1>1, <1>2, <2>6, SMT DEF z
    <3> DEFINE y == k + C
    <3>3. y \in Int /\ y % C = z % C /\ y - z < C /\ z - y < C
      <4>1. y \in Int
        BY <2>6
      <4>2. y % C = z % C
        BY <3>1
      <4>3. y - z < C /\ z - y < C
        BY <1>1, <1>2, <2>1, <3>2
      <4> QED BY <4>1, <4>2, <4>3
    <3> HIDE DEF y
    <3>4. y = z
      BY <1>1, <2>1, <3>3, ModNear
    <3> QED BY <3>4 DEF y, z
  <2> QED BY <1>1, <1>2, <2>7
<1>5. Y = Z /\ L = Z + 1 - C
  BY <1>1, <1>2, <1>4
<1>6. ASSUME NEW e \in 1..C PROVE Keyed(e)
  <2>1. PICK p \in 0..C - 1 : index[blockIndex].entries[p] = e
    BY CurrentIndex DEF Shape, ShapeAt
  <2> DEFINE a == p - x - L
             n == L + (a % C)
  <2>2. p \in Int /\ a \in Int /\ a % C \in 0..C - 1
    <3>1. a \in Int
      BY <1>1
    <3> HIDE DEF a, C
    <3> QED BY <1>1, <3>1, ModSum
  <2> HIDE DEF a
  <2>3. n \in L..Y /\ n \in Int
    BY <1>1, <1>5, <2>2
  <2>4. Pos(n, off) = p
    <3> HIDE DEF C, x
    <3>1. ((a % C) + (L + x)) % C = (a + (L + x)) % C
      <4>1. L + x \in Int
        BY <1>1
      <4> QED BY <1>1, <2>2, <4>1, ModSum
    <3>2. a + (L + x) = p /\ (a % C) + (L + x) = n + x
      <4>1. a % C \in Int
        BY <1>1, <2>2
      <4> QED BY <1>1, <2>2, <4>1 DEF a
    <3>3. p % C = p
      BY <1>1, ModSmall
    <3> QED BY <3>1, <3>2, <3>3 DEF Pos, C, x
  <2> HIDE DEF n
  <2>5. At(n, off) = e
    BY <2>1, <2>4 DEF At
  <2> QED BY <2>3, <2>5, Placed
<1> QED BY <1>5, <1>6

\* The sizes new_block_index takes.
LEMMA Capacities ==
  ASSUME blockIndex \in Nat \ {0}
  PROVE  /\ PrevCapacity(blockIndex + 1) = Capacity(blockIndex)
         /\ NextCapacity(blockIndex + 1) = 2 * Capacity(blockIndex)
<1>1. ASSUME NEW h \in Nat, h # 1
      PROVE  PrevCapacity(h) = Capacity(h - 1) /\ NextCapacity(h) = 2 * Capacity(h - 1)
  BY <1>1 DEF PrevCapacity, NextCapacity
<1>2. blockIndex + 1 \in Nat /\ blockIndex + 1 # 1 /\ blockIndex + 1 - 1 = blockIndex
  OBVIOUS
<1> QED BY <1>1, <1>2

\* What new_block_index makes of the current index.
LEMMA Doubled ==
  ASSUME Shape
  PROVE  LET C == Capacity(blockIndex)
             x == NewBlockIndex(blockIndex + 1)
             y == index[blockIndex]
         IN  /\ HeaderShape(x) /\ x.capacity = 2 * C /\ x.tail = C - 1
             /\ x.entries \in [0..2 * C - 1 -> 1..2 * C]
             /\ \A i \in 0..2 * C - 1 :
                  x.entries[i] = IF i < C THEN y.entries[(y.tail + 1 + i) % C] ELSE i + 1
<1> DEFINE C == Capacity(blockIndex)
           x == NewBlockIndex(blockIndex + 1)
           y == index[blockIndex]
           E == NewEntries(blockIndex + 1)
<1>1. /\ blockIndex \in Nat \ {0} /\ blockIndex \in 1..blockIndex /\ C \in Nat \ {0}
      /\ y.tail \in 0..C - 1 /\ y.entries \in [0..C - 1 -> 1..C] /\ C = y.capacity
  BY CurrentIndex DEF Shape, ShapeAt, Capacity
<1>2. PrevCapacity(blockIndex + 1) = C /\ NextCapacity(blockIndex + 1) = 2 * C
  BY <1>1, Capacities
<1>3. E = [i \in 0..2 * C - 1 |-> IF i < C THEN y.entries[(y.tail + 1 + i) % C] ELSE i + 1]
  <2>1. blockIndex + 1 - 1 = blockIndex
    BY <1>1
  <2> QED BY <1>1, <1>2, <2>1 DEF NewEntries
<1>4. x = [capacity |-> 2 * C, tail |-> (C - 1) % (2 * C), entries |-> E]
  BY <1>2 DEF NewBlockIndex
<1>5. (C - 1) % (2 * C) = C - 1
  <2> HIDE DEF C
  <2>1. 2 * C \in Nat \ {0} /\ C - 1 \in 0..2 * C - 1
    BY <1>1
  <2> QED BY <2>1, ModSmall
<1>6. ASSUME NEW i \in 0..2 * C - 1
      PROVE  (IF i < C THEN y.entries[(y.tail + 1 + i) % C] ELSE i + 1) \in 1..2 * C
  <2>1. CASE i < C
    <3>1. y.tail + 1 + i \in Int
      BY <1>1, <1>6
    <3>2. (y.tail + 1 + i) % C \in 0..C - 1
      <4> HIDE DEF C, y
      <4> QED BY <1>1, <3>1, ModSum
    <3>3. y.entries[(y.tail + 1 + i) % C] \in 1..C
      BY <1>1, <3>2
    <3>4. 1..C \subseteq 1..2 * C
      <4> HIDE DEF C
      <4> QED BY <1>1
    <3> QED BY <2>1, <3>3, <3>4
  <2>2. CASE ~(i < C)
    <3> HIDE DEF C
    <3>1. i + 1 \in 1..2 * C
      BY <1>1, <2>2
    <3> QED BY <2>2, <3>1
  <2> QED BY <2>1, <2>2
<1>7. x.capacity = 2 * C /\ x.tail = C - 1 /\ x.entries = E /\ HeaderShape(x)
  <2> HIDE DEF E, C
  <2> QED BY <1>4, <1>5 DEF HeaderShape
<1>8. E \in [0..2 * C - 1 -> 1..2 * C]
  <2> HIDE DEF C, y
  <2> QED BY <1>3, <1>6
<1> HIDE DEF E, C, y, x
<1>9. \A i \in 0..2 * C - 1 :
         x.entries[i] = IF i < C THEN y.entries[(y.tail + 1 + i) % C] ELSE i + 1
  BY <1>3, <1>7
<1> QED BY <1>7, <1>8, <1>9 DEF C, x, y

\* Members of the index after it has grown.
LEMMA GrownIndex ==
  ASSUME Shape, GrowIndex
  PROVE  LET C == Capacity(blockIndex)
             b == blockIndex + 1
         IN  /\ blockIndex' = b /\ b \in 1..b /\ blockIndex \in 1..blockIndex
             /\ index' = [h \in 1..b |-> index'[h]]
             /\ \A h \in 1..blockIndex :
                  h # b /\ h \in 1..b /\ index'[h] = index[h] /\ Capacity(h)' = Capacity(h)
             /\ Capacity(blockIndex)' = 2 * C /\ index'[b] = NewBlockIndex(b)
             /\ index'[b].capacity = 2 * C
             /\ \A h \in 1..b : h = b \/ h \in 1..blockIndex
             /\ C \in Nat \ {0} /\ 2 * C <= MaxEntries /\ C + 1 \in 1..2 * C
<1> DEFINE C == Capacity(blockIndex)
           b == blockIndex + 1
<1>1. /\ blockIndex \in Nat \ {0} /\ index = [h \in 1..blockIndex |-> index[h]]
      /\ blockIndex \in 1..blockIndex /\ C \in Nat \ {0}
  BY CurrentIndex DEF Shape
<1>2. /\ blockIndex' = b /\ 2 * C <= MaxEntries
      /\ index' = [h \in 1..b |-> IF h <= blockIndex THEN index[h] ELSE NewBlockIndex(h)]
  BY DEF GrowIndex
<1>3. b \in 1..b /\ \A h \in 1..blockIndex : h # b /\ h \in 1..b /\ h <= blockIndex
  BY <1>1
<1>4. \A h \in 1..b : h = b \/ h \in 1..blockIndex
  BY <1>1
<1>5. ~(b <= blockIndex)
  BY <1>1
<1>6. \A h \in 1..blockIndex : index'[h] = index[h]
  BY <1>2, <1>3
<1>7. index'[b] = NewBlockIndex(b)
  BY <1>2, <1>3, <1>5
<1>8. index'[b].capacity = 2 * C /\ Capacity(blockIndex)' = 2 * C
  <2>1. NewBlockIndex(b).capacity = 2 * C
    BY Doubled
  <2>2. index'[b].capacity = 2 * C
    BY <1>7, <2>1
  <2> QED BY <1>2, <2>2 DEF Capacity
<1>9. \A h \in 1..blockIndex : Capacity(h)' = Capacity(h)
  BY <1>6 DEF Capacity
<1>10. C + 1 \in 1..2 * C
  <2> HIDE DEF C
  <2> QED BY <1>1
<1>11. index' = [h \in 1..b |-> index'[h]]
  BY <1>2
<1> QED BY <1>1, <1>2, <1>3, <1>4, <1>6, <1>7, <1>8, <1>9, <1>10, <1>11

\* The grown index is well formed.
LEMMA GrownShape ==
  ASSUME Shape, GrowIndex
  PROVE  Shape'
<1> DEFINE C == Capacity(blockIndex)
           b == blockIndex + 1
           x == NewBlockIndex(b)
           y == index[blockIndex]
<1>1. /\ blockIndex' = b /\ b \in 1..b /\ blockIndex \in 1..blockIndex
      /\ index' = [h \in 1..b |-> index'[h]]
      /\ \A h \in 1..blockIndex :
           h # b /\ h \in 1..b /\ index'[h] = index[h] /\ Capacity(h)' = Capacity(h)
      /\ Capacity(blockIndex)' = 2 * C /\ index'[b] = x /\ index'[b].capacity = 2 * C
      /\ \A h \in 1..b : h = b \/ h \in 1..blockIndex
      /\ C \in Nat \ {0} /\ 2 * C <= MaxEntries /\ C + 1 \in 1..2 * C
  BY GrownIndex
<1>2. /\ HeaderShape(x) /\ x.capacity = 2 * C /\ x.tail = C - 1
      /\ x.entries \in [0..2 * C - 1 -> 1..2 * C]
      /\ \A i \in 0..2 * C - 1 :
           x.entries[i] = IF i < C THEN y.entries[(y.tail + 1 + i) % C] ELSE i + 1
  BY Doubled
<1>3. /\ y.tail \in 0..C - 1 /\ y.entries \in [0..C - 1 -> 1..C]
      /\ \A e \in 1..C : \E p \in 0..C - 1 : y.entries[p] = e
      /\ \A p, q \in 0..C - 1 : y.entries[p] = y.entries[q] => p = q
  BY <1>1 DEF Shape, ShapeAt
<1> DEFINE s == y.tail + 1
           r(i) == (s + i) % C
<1>4. s \in Int /\ MaxEntries \in Nat
  <2> HIDE DEF C, y
  <2>1. y.tail \in Int
    BY <1>1, <1>3
  <2> QED BY <2>1, Sizes
<1>5. ASSUME NEW i \in 0..2 * C - 1, i < C
      PROVE  i \in 0..C - 1 /\ r(i) \in 0..C - 1 /\ x.entries[i] = y.entries[r(i)]
  <2>1. x.entries[i] = y.entries[r(i)]
    BY <1>2, <1>5
  <2> HIDE DEF C, s, x, y
  <2>2. i \in 0..C - 1 /\ s + i \in Int
    BY <1>1, <1>4, <1>5
  <2>3. r(i) \in 0..C - 1
    BY <1>1, <2>2, ModSum
  <2> QED BY <2>1, <2>2, <2>3
<1>6. ASSUME NEW i \in 0..2 * C - 1, ~(i < C)
      PROVE  x.entries[i] = i + 1 /\ i + 1 > C
  <2>1. x.entries[i] = i + 1
    BY <1>2, <1>6
  <2> HIDE DEF C
  <2>2. i + 1 > C
    BY <1>1, <1>6
  <2> QED BY <2>1, <2>2
<1>7. ASSUME NEW e \in 1..2 * C
      PROVE  \E p \in 0..2 * C - 1 : x.entries[p] = e
  <2>1. CASE e <= C
    <3>1. PICK q \in 0..C - 1 : y.entries[q] = e
      <4>1. e \in 1..C
        <5> HIDE DEF C
        <5> QED BY <1>1, <2>1
      <4> QED BY <1>3, <4>1
    <3> DEFINE p == (q - s) % C
    <3>2. p \in 0..C - 1 /\ p \in 0..2 * C - 1 /\ p < C /\ r(p) = q
      <4> HIDE DEF C, s
      <4>1. q - s \in Int /\ q \in Int
        BY <1>1, <1>4
      <4>2. p \in 0..C - 1
        BY <1>1, <4>1, ModSum
      <4>3. p \in 0..2 * C - 1 /\ p < C
        <5> HIDE DEF p
        <5> QED BY <1>1, <4>2
      <4>4. (((q - s) % C) + s) % C = ((q - s) + s) % C
        BY <1>1, <1>4, <4>1, ModSum
      <4>5. (q - s) + s = q /\ q % C = q
        BY <1>1, <1>4, <4>1, ModSmall
      <4>6. ((q - s) % C) + s = s + ((q - s) % C)
        <5> HIDE DEF p
        <5>1. p \in Int
          BY <4>2
        <5>2. p + s = s + p
          BY <1>4, <5>1
        <5> QED BY <5>2 DEF p
      <4> QED BY <4>2, <4>3, <4>4, <4>5, <4>6
    <3> HIDE DEF p
    <3>3. x.entries[p] = y.entries[r(p)]
      BY <1>5, <3>2
    <3>4. x.entries[p] = e
      BY <3>1, <3>2, <3>3
    <3> QED BY <3>2, <3>4
  <2>2. CASE ~(e <= C)
    <3>1. e - 1 \in 0..2 * C - 1 /\ ~(e - 1 < C) /\ (e - 1) + 1 = e
      <4> HIDE DEF C
      <4> QED BY <1>1, <2>2
    <3>2. x.entries[e - 1] = (e - 1) + 1
      BY <1>6, <3>1
    <3> QED BY <3>1, <3>2
  <2> QED BY <2>1, <2>2
<1>8. ASSUME NEW p \in 0..2 * C - 1, NEW q \in 0..2 * C - 1, x.entries[p] = x.entries[q]
      PROVE  p = q
  <2>1. CASE p < C /\ q < C
    <3>1. y.entries[r(p)] = y.entries[r(q)] /\ r(p) \in 0..C - 1 /\ r(q) \in 0..C - 1
          /\ p \in 0..C - 1 /\ q \in 0..C - 1
      BY <1>5, <1>8, <2>1
    <3>2. r(p) = r(q)
      <4> HIDE DEF y, r, C
      <4> QED BY <1>3, <3>1
    <3> HIDE DEF C, s, x, y
    <3>3. (s + p) - (s + q) < C /\ (s + q) - (s + p) < C /\ s + p \in Int /\ s + q \in Int
      <4>1. p \in 0..C - 1 /\ q \in 0..C - 1
        BY <3>1
      <4> QED BY <1>1, <1>4, <4>1
    <3> DEFINE u == s + p
               v == s + q
    <3>4. u \in Int /\ v \in Int /\ u % C = v % C /\ u - v < C /\ v - u < C
      BY <3>2, <3>3
    <3> HIDE DEF u, v
    <3>5. u = v
      BY <1>1, <3>4, ModNear
    <3> QED BY <1>1, <1>4, <3>5 DEF u, v
  <2>2. CASE p < C /\ ~(q < C)
    <3>1. x.entries[p] \in 1..C /\ x.entries[q] > C
      <4>1. x.entries[p] = y.entries[r(p)] /\ r(p) \in 0..C - 1
        BY <1>5, <2>2
      <4>2. x.entries[q] = q + 1 /\ q + 1 > C
        BY <1>6, <2>2
      <4> HIDE DEF x, y, C, r
      <4> QED BY <1>3, <4>1, <4>2
    <3> HIDE DEF C, x
    <3> QED BY <1>1, <1>8, <3>1
  <2>3. CASE ~(p < C) /\ q < C
    <3>1. x.entries[q] \in 1..C /\ x.entries[p] > C
      <4>1. x.entries[q] = y.entries[r(q)] /\ r(q) \in 0..C - 1
        BY <1>5, <2>3
      <4>2. x.entries[p] = p + 1 /\ p + 1 > C
        BY <1>6, <2>3
      <4> HIDE DEF x, y, C, r
      <4> QED BY <1>3, <4>1, <4>2
    <3> HIDE DEF C, x
    <3> QED BY <1>1, <1>8, <3>1
  <2>4. CASE ~(p < C) /\ ~(q < C)
    <3>1. p + 1 = q + 1
      BY <1>6, <1>8, <2>4
    <3> HIDE DEF C
    <3>2. p \in Int /\ q \in Int
      BY <1>1
    <3> QED BY <3>1, <3>2
  <2> QED BY <2>1, <2>2, <2>3, <2>4
<1>9. ASSUME NEW h, h = b PROVE ShapeAt(h)'
  <2>1. index'[h] = x /\ Capacity(h)' = 2 * C
    BY <1>1, <1>9 DEF Capacity
  <2>2. 2 * C \in 1..MaxEntries /\ C - 1 \in 0..2 * C - 1 /\ 1 \in Nat /\ 2 * C = 1 * (2 * C)
    <3> HIDE DEF C
    <3> QED BY <1>1, <1>4
  <2> HIDE DEF x, C
  <2>3. \E q \in Nat : Capacity(blockIndex)' = q * Capacity(h)'
    BY <1>1, <2>1, <2>2
  <2> QED BY <1>2, <1>7, <1>8, <2>1, <2>2, <2>3 DEF ShapeAt
<1>10. ASSUME NEW h \in 1..blockIndex PROVE ShapeAt(h)'
  <2>1. ShapeAt(h)
    BY DEF Shape
  <2>2. Capacity(h)' = Capacity(h) /\ index'[h] = index[h]
    BY <1>1
  <2>3. PICK q \in Nat : C = q * Capacity(h)
    BY <2>1 DEF ShapeAt
  <2>4. Capacity(blockIndex)' = 2 * C
    <3> HIDE DEF C
    <3> QED BY <1>1
  <2>5. 2 * C = (2 * q) * Capacity(h) /\ 2 * q \in Nat
    <3> DEFINE k == Capacity(h)
    <3>1. k \in Nat
      BY <1>4, <2>1 DEF ShapeAt
    <3> HIDE DEF k, C
    <3>2. 2 * C = (2 * q) * k
      BY <1>1, <2>3, <3>1 DEF k
    <3> QED BY <3>2 DEF k
  <2>6. \E a \in Nat : Capacity(blockIndex)' = a * Capacity(h)'
    BY <2>2, <2>4, <2>5
  <2> QED BY <2>1, <2>2, <2>6 DEF ShapeAt
<1>11. \A h \in 1..blockIndex' : ShapeAt(h)'
  <2> HIDE DEF x, C
  <2> QED BY <1>1, <1>9, <1>10
<1>12. key' \in [Entries -> Int] /\ b \in Nat \ {0}
  BY DEF GrowIndex, Shape
<1> QED BY <1>1, <1>11, <1>12 DEF Shape

\* The entries of the old index, from its oldest on, are the first of the new one.
LEMMA Unrolled ==
  ASSUME NEW C \in Nat \ {0}, NEW Z \in Int, NEW z \in Int, NEW n \in Int, NEW i \in 0..C - 1,
         n <= Z, Z + 1 - C <= n, (((Z + z) % C) + 1 + i) % C = (n + z) % C
  PROVE  i = (n + (C - 1 - Z)) % (2 * C)
<1>1. i \in Int /\ 1 + i \in Int /\ Z + z \in Int /\ Z + 1 + i \in Int /\ n + C \in Int /\ n + z \in Int
      /\ (Z + z) % C \in Int /\ (Z + 1 + i) + z \in Int
  BY ModSum
<1>2. (((Z + z) % C) + (1 + i)) % C = ((Z + z) + (1 + i)) % C
  BY <1>1, ModSum
<1>3. ((Z + z) % C) + (1 + i) = ((Z + z) % C) + 1 + i
  BY <1>1
<1>4. (Z + z) + (1 + i) = (Z + 1 + i) + z
  BY <1>1
<1>5. ((Z + 1 + i) + z) % C = (n + z) % C
  BY <1>2, <1>3, <1>4
<1>6. (Z + 1 + i) % C = n % C
  <2>1. \A a, b, c \in Int : a % C = b % C <=> (a + c) % C = (b + c) % C
    BY ModShift
  <2> DEFINE a == Z + 1 + i
  <2>2. a \in Int /\ (a + z) % C = (n + z) % C
    BY <1>1, <1>5
  <2> HIDE DEF a
  <2>3. a % C = n % C
    BY <2>1, <2>2
  <2> QED BY <2>3 DEF a
<1>7. (n + C) % C = n % C
  <2>1. Congruent(n + C, n, C)
    BY n + C = n + C * 1, 1 \in Int DEF Congruent
  <2> QED BY <1>1, <2>1, CongruentMod
<1>8. (Z + 1 + i) - (n + C) < C /\ (n + C) - (Z + 1 + i) < C
  BY <1>1
<1>9. Z + 1 + i = n + C
  BY <1>1, <1>6, <1>7, <1>8, ModNear
<1>10. n + (C - 1 - Z) = i
  BY <1>1, <1>9
<1>11. 2 * C \in Nat \ {0} /\ i \in 0..2 * C - 1
  OBVIOUS
<1> QED BY <1>10, <1>11, ModSmall

\* The tail is at the n-th block.
TailAt(n, off) == index[blockIndex].tail = Pos(n, off)

\* Growing keeps every block at the place of its number.
LEMMA GrownKeys ==
  ASSUME Shape, GrowIndex, NEW L \in Int, NEW Y \in Int, NEW kn \in [Entries -> Int],
         NEW off \in [Nat -> Int], Keys(L, Y, kn, off),
         L = Y + 1 - Capacity(blockIndex),
         \A e \in 1..Capacity(blockIndex) : Keyed(e),
         index[blockIndex].tail = Pos(Y, off),
         NEW off2 \in [Nat -> Int],
         off2 = [off EXCEPT ![blockIndex + 1] = Capacity(blockIndex) - 1 - Y]
  PROVE  /\ Keys(L, Y, kn, off2)'
         /\ TailAt(Y, off2)'
         /\ entry' = At(Y + 1, off2)'
         /\ entry' \in Entries /\ ~Keyed(entry')
<1> DEFINE C == Capacity(blockIndex)
           b == blockIndex + 1
           x == NewBlockIndex(b)
           y == index[blockIndex]
           z == off[blockIndex]
           w == off2[b]
<1>1. /\ blockIndex' = b /\ b \in 1..b /\ blockIndex \in 1..blockIndex
      /\ index' = [h \in 1..b |-> index'[h]]
      /\ \A h \in 1..blockIndex :
           h # b /\ h \in 1..b /\ index'[h] = index[h] /\ Capacity(h)' = Capacity(h)
      /\ Capacity(blockIndex)' = 2 * C /\ index'[b] = x /\ index'[b].capacity = 2 * C
      /\ \A h \in 1..b : h = b \/ h \in 1..blockIndex
      /\ C \in Nat \ {0} /\ 2 * C <= MaxEntries /\ C + 1 \in 1..2 * C
  BY GrownIndex
<1>2. /\ x.tail = C - 1
      /\ \A i \in 0..2 * C - 1 :
           x.entries[i] = IF i < C THEN y.entries[(y.tail + 1 + i) % C] ELSE i + 1
  BY Doubled
<1>3. y.entries \in [0..C - 1 -> 1..C]
  BY <1>1 DEF Shape, ShapeAt
<1>4. /\ z \in Int /\ w = C - 1 - Y /\ w \in Int /\ b \in Nat
      /\ \A h \in 1..blockIndex : off2[h] = off[h]
  <2>1. blockIndex \in Nat /\ b \in Nat
    BY DEF Shape
  <2>2. z \in Int /\ w \in Int
    BY <2>1
  <2>3. w = C - 1 - Y
    BY <2>1
  <2>4. \A h \in 1..blockIndex : off2[h] = off[h]
    <3> HIDE DEF C
    <3> QED BY <1>1, <2>1
  <2> QED BY <2>1, <2>2, <2>3, <2>4
<1>5. y.tail = (Y + z) % C /\ y.tail \in 0..C - 1
  <2>1. y.tail = (Y + z) % C
    BY DEF Pos
  <2> HIDE DEF C, y, z
  <2>2. Y + z \in Int
    BY <1>4
  <2> QED BY <1>1, <2>1, <2>2, ModSum
<1>6. L = Y + 1 - C /\ C \in Nat \ {0} /\ 2 * C <= MaxEntries /\ MaxEntries \in Nat
  BY <1>1, Sizes
<1>7. w \in Int /\ w = C - 1 - Y /\ 2 * C \in Nat \ {0} /\ C - 1 \in 0..2 * C - 1
      /\ C \in 0..2 * C - 1 /\ ~(C < C) /\ C + 1 \in 1..MaxEntries
  <2>1. w \in Int /\ w = C - 1 - Y
    BY <1>4
  <2> HIDE DEF C, w
  <2> QED BY <1>6, <2>1
<1>8. \A n \in Int : Pos(n, off2)' = (n + w) % (2 * C)
  <2> HIDE DEF C
  <2> QED BY <1>1 DEF Pos
<1>9. \A e \in Entries : Keyed(e) =>
        /\ e <= C /\ kn[e] \in L..Y /\ key[e] = Wrap(BLOCK_SIZE * kn[e])
        /\ \A h \in 1..blockIndex : \A p \in 0..Capacity(h) - 1 :
             index[h].entries[p] = e => p = (kn[e] + off[h]) % Capacity(h)
  BY DEF Keys
\* Where the new index has the entries of the last one.
<1>10. ASSUME NEW e \in Entries, Keyed(e), NEW i \in 0..2 * C - 1, x.entries[i] = e
       PROVE  i = (kn[e] + w) % (2 * C)
  <2> DEFINE n == kn[e]
             t == y.tail
             r == (t + 1 + i) % C
  <2>1. e <= C /\ n \in L..Y
    BY <1>9, <1>10
  <2>2. i < C
    <3>1. CASE ~(i < C)
      <4>1. e = i + 1
        BY <1>2, <1>10, <3>1
      <4> HIDE DEF C
      <4> QED BY <1>1, <2>1, <3>1, <4>1
    <3> QED BY <3>1
  <2>3. y.entries[r] = e
    BY <1>2, <1>10, <2>2
  <2>4. C \in Nat \ {0} /\ t \in Int /\ t = (Y + z) % C
    <3> HIDE DEF C
    <3> QED BY <1>1, <1>5
  <2>5. i \in 0..C - 1 /\ i \in Int /\ t + 1 + i \in Int
    <3> HIDE DEF C, t
    <3> QED BY <2>2, <2>4
  <2>6. r \in 0..C - 1
    <3> HIDE DEF C, t
    <3> QED BY <2>4, <2>5, ModSum
  <2>7. r = (n + z) % C
    <3>1. \A p \in 0..Capacity(blockIndex) - 1 :
            y.entries[p] = e => p = (n + off[blockIndex]) % Capacity(blockIndex)
      BY <1>1, <1>9, <1>10
    <3>2. \A p \in 0..C - 1 : y.entries[p] = e => p = (n + z) % C
      BY <3>1
    <3> HIDE DEF r, C, y, z, n
    <3> QED BY <2>3, <2>6, <3>2
  <2>8. n \in Int /\ n <= Y /\ Y + 1 - C <= n
    <3> HIDE DEF C, n
    <3> QED BY <1>6, <2>1, <2>4
  <2>9. (((Y + z) % C) + 1 + i) % C = (n + z) % C
    BY <2>4, <2>7
  <2>10. i = (n + (C - 1 - Y)) % (2 * C)
    <3> HIDE DEF C, n, z
    <3> QED BY <1>4, <2>4, <2>5, <2>8, <2>9, Unrolled
  <2> QED BY <1>4, <2>10
<1>11. Keys(L, Y, kn, off2)'
  <2>1. \A e : Keyed(e)' <=> Keyed(e)
    BY DEF Keyed, GrowIndex
  <2>2. Y - L < 2 * C
    <3> HIDE DEF C
    <3> QED BY <1>6
  <2>3. ASSUME NEW e \in Entries, Keyed(e)
        PROVE  /\ e <= Capacity(blockIndex)' /\ kn[e] \in L..Y
               /\ key'[e] = Wrap(BLOCK_SIZE * kn[e])
               /\ \A h \in 1..b : \A p \in 0..Capacity(h)' - 1 :
                    index'[h].entries[p] = e => p = (kn[e] + off2[h]) % Capacity(h)'
    <3>1. e <= C /\ kn[e] \in L..Y /\ key'[e] = Wrap(BLOCK_SIZE * kn[e])
      BY <1>9, <2>3 DEF GrowIndex
    <3>2. e <= 2 * C
      <4>1. e \in Int
        BY Sizes DEF Entries
      <4> HIDE DEF C
      <4> QED BY <1>1, <3>1, <4>1
    <3>3. ASSUME NEW h \in 1..b, NEW p \in 0..Capacity(h)' - 1, index'[h].entries[p] = e
          PROVE  p = (kn[e] + off2[h]) % Capacity(h)'
      <4>1. CASE h = b
        <5>1. Capacity(h)' = 2 * C /\ index'[h] = x /\ off2[h] = w
          BY <1>1, <4>1 DEF Capacity
        <5> HIDE DEF C, x, w
        <5> QED BY <1>10, <2>3, <3>3, <5>1
      <4>2. CASE h \in 1..blockIndex
        <5>1. Capacity(h)' = Capacity(h) /\ index'[h] = index[h] /\ off2[h] = off[h]
          BY <1>1, <1>4, <4>2
        <5> QED BY <1>9, <2>3, <3>3, <4>2, <5>1
      <4> QED BY <1>1, <4>1, <4>2
    <3> HIDE DEF C
    <3> QED BY <1>1, <3>1, <3>2, <3>3
  <2>4. \A n \in L..Y : \E e \in Entries : Keyed(e) /\ kn[e] = n
    BY DEF Keys
  <2>5. ASSUME NEW h \in 1..b, h < b, NEW e \in 1..Capacity(h)' PROVE Keyed(e)
    <3>1. h \in 1..blockIndex /\ Capacity(h)' = Capacity(h)
      <4>1. h # b
        BY <1>4, <2>5
      <4> HIDE DEF b, C
      <4> QED BY <1>1, <2>5, <4>1
    <3>2. CASE h = blockIndex
      BY <3>1, <3>2
    <3>3. CASE h # blockIndex
      <4>1. h < blockIndex
        BY <3>1, <3>3 DEF Shape
      <4> QED BY <2>5, <3>1, <4>1 DEF Keys
    <3> QED BY <3>2, <3>3
  <2> HIDE DEF C
  <2> QED BY <1>1, <2>1, <2>2, <2>3, <2>4, <2>5 DEF Keys
<1>12. TailAt(Y, off2)'
  <2>1. (Y + w) % (2 * C) = C - 1
    <3> HIDE DEF C, w
    <3>1. Y + w = C - 1 /\ 2 * C \in Nat \ {0} /\ C - 1 \in 0..2 * C - 1
      BY <1>6, <1>7
    <3> QED BY <3>1, ModSmall
  <2>2. Pos(Y, off2)' = (Y + w) % (2 * C)
    BY <1>8
  <2> HIDE DEF C, w
  <2> QED BY <1>1, <1>2, <2>1, <2>2 DEF TailAt
<1>13. entry' = C + 1 /\ C + 1 \in Entries
  <2>1. entry' = C + 1
    BY DEF GrowIndex
  <2> HIDE DEF C
  <2> QED BY <1>7, <2>1 DEF Entries
<1>14. At(Y + 1, off2)' = C + 1
  <2>1. (Y + 1 + w) % (2 * C) = C
    <3> HIDE DEF C, w
    <3>1. Y + 1 + w = C /\ 2 * C \in Nat \ {0} /\ C \in 0..2 * C - 1
      BY <1>6, <1>7
    <3> QED BY <3>1, ModSmall
  <2>2. Pos(Y + 1, off2)' = C
    <3>1. Y + 1 \in Int
      OBVIOUS
    <3> HIDE DEF C, w
    <3> QED BY <1>8, <2>1, <3>1
  <2>3. x.entries[C] = C + 1
    <3>1. C \in 0..2 * C - 1 /\ ~(C < C)
      <4> HIDE DEF C
      <4> QED BY <1>1
    <3> HIDE DEF C, x, y
    <3> QED BY <1>2, <3>1
  <2> HIDE DEF C, x
  <2> QED BY <1>1, <2>2, <2>3 DEF At
<1>15. ~Keyed(C + 1)
  <2>1. Keyed(C + 1) => C + 1 <= C
    BY <1>9, <1>13
  <2> HIDE DEF C
  <2> QED BY <1>1, <2>1
<1> HIDE DEF C
<1> QED BY <1>11, <1>12, <1>13, <1>14, <1>15

\* Congruence is about distances.
LEMMA SameDistance ==
  ASSUME NEW n \in Nat \ {0}, NEW a \in Int, NEW b \in Int, NEW c \in Int, NEW d \in Int,
         a - b = c - d
  PROVE  Congruent(a, b, n) <=> Congruent(c, d, n)
<1>1. ASSUME NEW q \in Int PROVE a = b + n * q <=> c = d + n * q
  BY n * q \in Int
<1> QED BY <1>1 DEF Congruent

\* Numbers with the same entry have the same place in every index.
LEMMA SamePlace ==
  ASSUME Shape, NEW L \in Int, NEW Y \in Int, NEW kn \in [Entries -> Int],
         NEW off \in [Nat -> Int], Keys(L, Y, kn, off)
  PROVE  \A m, n \in Int :
           /\ At(m, off) = At(n, off) <=> Congruent(m, n, Capacity(blockIndex))
           /\ At(m, off) = At(n, off) =>
                \A h \in 1..blockIndex : (m + off[h]) % Capacity(h) = (n + off[h]) % Capacity(h)
           /\ At(m, off) = At(n, off) /\ m - n < Capacity(blockIndex)
                /\ n - m < Capacity(blockIndex) => m = n
<1> TAKE m, n \in Int
<1> DEFINE C == Capacity(blockIndex)
           x == off[blockIndex]
<1>1. C \in Nat \ {0} /\ x \in Int /\ blockIndex \in Nat
  BY CurrentIndex DEF Shape
<1>2. Congruent(m, n, C) <=> (m + x) % C = (n + x) % C
  <2> DEFINE u == m + x
             v == n + x
  <2>1. u \in Int /\ v \in Int /\ m - n = u - v
    <3> HIDE DEF C, x
    <3> QED BY <1>1
  <2> HIDE DEF C, u, v
  <2>2. Congruent(m, n, C) <=> Congruent(u, v, C)
    BY <1>1, <2>1, SameDistance
  <2>3. Congruent(u, v, C) <=> u % C = v % C
    BY <1>1, <2>1, CongruentMod
  <2> QED BY <2>2, <2>3 DEF u, v
<1>3. At(m, off) = At(n, off) <=> Pos(m, off) = Pos(n, off)
  BY Placed
<1>4. At(m, off) = At(n, off) <=> Congruent(m, n, C)
  BY <1>2, <1>3 DEF Pos
<1>5. ASSUME Congruent(m, n, C), NEW h \in 1..blockIndex
      PROVE  (m + off[h]) % Capacity(h) = (n + off[h]) % Capacity(h)
  <2> DEFINE D == Capacity(h)
             y == off[h]
  <2>1. D \in Nat \ {0} /\ y \in Int
    <3>1. h \in Nat
      BY <1>1
    <3> QED BY <3>1, CurrentIndex
  <2>2. PICK q \in Nat : C = q * D
    BY DEF Shape, ShapeAt
  <2> HIDE DEF C, D, y
  <2>3. Congruent(m, n, D)
    BY <1>5, <2>1, <2>2, CongruentFactor
  <2> DEFINE u == m + y
             v == n + y
  <2>4. u \in Int /\ v \in Int /\ m - n = u - v
    BY <2>1
  <2> HIDE DEF u, v
  <2>5. u % D = v % D
    BY <2>1, <2>3, <2>4, SameDistance, CongruentMod
  <2> QED BY <2>5 DEF u, v, D, y
<1>6. Congruent(m, n, C) /\ m - n < C /\ n - m < C => m = n
  <2> HIDE DEF C
  <2> QED BY <1>1, CongruentNear
<1> QED BY <1>4, <1>5, <1>6

\* The lowest number goes up when its entry gets another.
Replaced(L2, L, e, kn) == L2 # L => Keyed(e) /\ kn[e] = L

\* The entry for the next block gets its key.  It is the one of the oldest, if
\* the index has no other.
LEMMA Rekeyed ==
  ASSUME Shape, NEW L \in Int, NEW Y \in Int, NEW kn \in [Entries -> Int],
         NEW off \in [Nat -> Int], Keys(L, Y, kn, off), L <= Y + 1,
         UNCHANGED <<blockIndex, index>>,
         NEW e \in Entries, e = At(Y + 1, off),
         key' = [key EXCEPT ![e] = Wrap(BLOCK_SIZE * (Y + 1))],
         NEW kn2 \in [Entries -> Int], kn2 = [kn EXCEPT ![e] = Y + 1],
         NEW L2 \in Int, L2 = IF Y + 1 - L < Capacity(blockIndex) THEN L ELSE L + 1
  PROVE  /\ Shape' /\ Keys(L2, Y + 1, kn2, off)'
         /\ Replaced(L2, L, e, kn)
<1> DEFINE C == Capacity(blockIndex)
           Y2 == Y + 1
<1>1. C \in Nat \ {0} /\ Y - L < C /\ Y2 \in Int /\ blockIndex \in Nat
  BY CurrentIndex DEF Shape, Keys
<1>2. \A n \in L..Y : Keyed(At(n, off)) /\ kn[At(n, off)] = n
  <2> SUFFICES ASSUME NEW n \in L..Y PROVE Keyed(At(n, off)) /\ kn[At(n, off)] = n
    OBVIOUS
  <2>1. Keyed(At(n, off))
    BY Placed
  <2>2. kn[At(n, off)] = n
    BY Placed
  <2> QED BY <2>1, <2>2
<1>3. \A m, n \in Int :
        /\ At(m, off) = At(n, off) <=> Congruent(m, n, C)
        /\ At(m, off) = At(n, off) =>
             \A h \in 1..blockIndex : (m + off[h]) % Capacity(h) = (n + off[h]) % Capacity(h)
        /\ At(m, off) = At(n, off) /\ m - n < C /\ n - m < C => m = n
  BY SamePlace
<1>4. /\ L <= L2 /\ L2 <= L + 1 /\ L2 <= Y2 /\ Y2 - L2 < C
      /\ L2 # L => L2 = L + 1 /\ Y2 = L + C
  <2> HIDE DEF C
  <2>1. L2 = IF Y + 1 - L < C THEN L ELSE L + 1
    BY DEF C
  <2> QED BY <1>1, <2>1
<1>5. BLOCK_SIZE * Y2 \in Int /\ Wrap(BLOCK_SIZE * Y2) \in Int
      /\ Wrap(BLOCK_SIZE * Y2) # INVALID_BLOCK_BASE
  <2>1. BLOCK_SIZE * Y2 \in Int
    BY <1>1, BlockOrder
  <2>2. 0 \in 0..BLOCK_SIZE - 1
    BY Sizes
  <2> QED BY <1>1, <2>1, <2>2, Wrapped, WrapBlock
<1>6. /\ Keyed(e)' /\ key'[e] = Wrap(BLOCK_SIZE * Y2) /\ kn2[e] = Y2
      /\ \A f \in Entries : f # e => (Keyed(f)' <=> Keyed(f)) /\ key'[f] = key[f] /\ kn2[f] = kn[f]
  BY <1>5 DEF Shape, Keyed
<1>7. /\ index' = index /\ blockIndex' = blockIndex
      /\ \A h : Capacity(h)' = Capacity(h)
  BY DEF Capacity
<1>8. Shape'
  <2>1. ASSUME NEW h \in 1..blockIndex PROVE ShapeAt(h)'
    <3>1. ShapeAt(h)
      BY DEF Shape
    <3> QED BY <1>7, <3>1 DEF ShapeAt
  <2>2. key' \in [Entries -> Int]
    BY <1>5 DEF Shape
  <2> QED BY <1>7, <2>1, <2>2 DEF Shape
\* If the entry was another block's, that block has its place.
<1>9. ASSUME NEW n \in Int, At(n, off) = e
      PROVE  /\ L2 <= n /\ n <= Y2 => n = Y2
             /\ \A h \in 1..blockIndex :
                  (n + off[h]) % Capacity(h) = (Y2 + off[h]) % Capacity(h)
  <2>1. At(n, off) = At(Y2, off)
    BY <1>9
  <2>2. \A h \in 1..blockIndex : (n + off[h]) % Capacity(h) = (Y2 + off[h]) % Capacity(h)
    BY <1>1, <1>3, <2>1
  <2>3. n - Y2 < C /\ Y2 - n < C => n = Y2
    BY <1>1, <1>3, <2>1
  <2>4. L2 <= n /\ n <= Y2 => n - Y2 < C /\ Y2 - n < C
    <3> HIDE DEF C, Y2
    <3> QED BY <1>1, <1>4
  <2> QED BY <2>2, <2>3, <2>4
<1>10. ASSUME L2 # L PROVE Keyed(e) /\ kn[e] = L
  <2>1. Y2 = L + C
    BY <1>4, <1>10
  <2>2. Congruent(Y2, L, C)
    <3> HIDE DEF C, Y2
    <3>1. Y2 = L + C * 1
      BY <1>1, <2>1
    <3> QED BY <3>1, 1 \in Int DEF Congruent
  <2>3. At(L, off) = e
    BY <1>1, <1>3, <2>2
  <2>4. L \in L..Y
    <3> HIDE DEF C
    <3>1. C >= 1
      BY <1>1
    <3> QED BY <1>1, <2>1, <3>1
  <2> QED BY <1>2, <2>3, <2>4
<1>11. \A f \in Entries : Keyed(f) =>
         /\ f <= C /\ kn[f] \in L..Y /\ key[f] = Wrap(BLOCK_SIZE * kn[f])
         /\ f = At(kn[f], off)
         /\ \A h \in 1..blockIndex : \A p \in 0..Capacity(h) - 1 :
              index[h].entries[p] = f => p = (kn[f] + off[h]) % Capacity(h)
  <2>1. \A f \in Entries : Keyed(f) => f = At(kn[f], off)
    BY Placed
  <2> QED BY <2>1 DEF Keys
<1>12. ASSUME NEW f \in Entries, Keyed(f)'
       PROVE  /\ f <= C /\ kn2[f] \in L2..Y2 /\ key'[f] = Wrap(BLOCK_SIZE * kn2[f])
              /\ \A h \in 1..blockIndex : \A p \in 0..Capacity(h) - 1 :
                   index[h].entries[p] = f => p = (kn2[f] + off[h]) % Capacity(h)
  <2>1. CASE f = e
    <3>1. e \in 1..C
      BY <1>1, Placed
    <3>2. kn2[f] \in L2..Y2 /\ key'[f] = Wrap(BLOCK_SIZE * kn2[f]) /\ kn2[f] = Y2
      <4> HIDE DEF C, Y2
      <4> QED BY <1>1, <1>4, <1>6, <2>1
    <3>3. ASSUME NEW h \in 1..blockIndex, NEW p \in 0..Capacity(h) - 1, index[h].entries[p] = f
          PROVE  p = (Y2 + off[h]) % Capacity(h)
      <4>1. CASE h = blockIndex
        <5>1. Pos(Y2, off) \in 0..C - 1 /\ index[blockIndex].entries[Pos(Y2, off)] = e
          BY <1>1, Placed DEF At
        <5>2. \A q, r \in 0..C - 1 :
                index[blockIndex].entries[q] = index[blockIndex].entries[r] => q = r
          <6>1. ShapeAt(blockIndex)
            BY CurrentIndex DEF Shape
          <6> QED BY <6>1 DEF ShapeAt
        <5>3. p \in 0..C - 1 /\ index[blockIndex].entries[p] = e
          BY <2>1, <3>3, <4>1
        <5>4. p = Pos(Y2, off)
          <6> HIDE DEF C, Y2
          <6> QED BY <5>1, <5>2, <5>3
        <5> QED BY <4>1, <5>4 DEF Pos
      <4>2. CASE h # blockIndex
        <5>1. h < blockIndex
          BY <1>1, <4>2
        <5>2. ShapeAt(h)
          BY DEF Shape
        <5>3. e \in 1..Capacity(h)
          <6>1. index[h].entries \in [0..Capacity(h) - 1 -> 1..Capacity(h)]
            BY <5>2 DEF ShapeAt
          <6> QED BY <2>1, <3>3, <6>1
        <5>4. Keyed(e)
          BY <5>1, <5>3 DEF Keys
        <5>5. p = (kn[e] + off[h]) % Capacity(h) /\ e = At(kn[e], off) /\ kn[e] \in Int
          BY <1>11, <2>1, <3>3, <5>4
        <5>6. (kn[e] + off[h]) % Capacity(h) = (Y2 + off[h]) % Capacity(h)
          BY <1>9, <5>5
        <5> QED BY <5>5, <5>6
      <4> QED BY <4>1, <4>2
    <3> HIDE DEF C, Y2
    <3> QED BY <1>1, <2>1, <3>1, <3>2, <3>3
  <2>2. CASE f # e
    <3>1. Keyed(f) /\ kn2[f] = kn[f] /\ key'[f] = key[f]
      BY <1>6, <1>12, <2>2
    <3>2. kn[f] \in L..Y /\ f = At(kn[f], off)
      BY <1>11, <3>1
    <3>3. L2 # L => kn[f] # L
      <4>1. L2 # L => At(L, off) = e
        BY <1>10, <1>11
      <4> QED BY <2>2, <3>2, <4>1
    <3>4. kn[f] \in L2..Y2
      <4>1. kn[f] \in Int
        OBVIOUS
      <4> HIDE DEF C
      <4> QED BY <1>1, <1>4, <3>2, <3>3, <4>1
    <3> HIDE DEF C, Y2
    <3> QED BY <1>11, <3>1, <3>4 DEF C
  <2> QED BY <2>1, <2>2
<1>13. ASSUME NEW n \in L2..Y2 PROVE \E f \in Entries : Keyed(f)' /\ kn2[f] = n
  <2>1. CASE n = Y2
    BY <1>6, <2>1
  <2>2. CASE n # Y2
    <3>1. n \in L..Y /\ n \in Int /\ L2 <= n /\ n <= Y2
      <4> HIDE DEF C
      <4> QED BY <1>1, <1>4, <2>2
    <3>2. PICK f \in Entries : Keyed(f) /\ kn[f] = n
      BY <3>1 DEF Keys
    <3>3. f # e
      <4>1. At(n, off) = f
        BY <1>11, <3>2
      <4> QED BY <1>9, <2>2, <3>1, <4>1
    <3> QED BY <1>6, <3>2, <3>3
  <2> QED BY <2>1, <2>2
<1>14. ASSUME NEW h \in 1..blockIndex, h < blockIndex, NEW f \in 1..Capacity(h) PROVE Keyed(f)'
  <2>1. Keyed(f)
    BY <1>14 DEF Keys
  <2>2. f \in Entries
    <3>1. Capacity(h) \in Nat /\ Capacity(h) <= C /\ 1..C \subseteq Entries
      BY CurrentIndex
    <3> HIDE DEF C
    <3>2. f \in 1..C
      BY <1>1, <3>1
    <3> QED BY <3>1, <3>2
  <2> QED BY <1>6, <2>1, <2>2
<1>15. Keys(L2, Y2, kn2, off)'
  <2> HIDE DEF Y2
  <2> QED BY <1>4, <1>7, <1>12, <1>13, <1>14 DEF Keys
<1> QED BY <1>8, <1>10, <1>15 DEF Replaced

-----------------------------------------------------------------------------
(* Steps of the index *)

\* The index.
Indexed(T, Z, U, L, Y, kn, off) ==
  Shape /\ Keys(L, Y, kn, off) /\ Cursor(T, Z, U, L, Y, off)

\* Steps that leave the index as it is.
LEMMA CursorStays ==
  ASSUME NEW T \in Int, NEW Z \in Int, NEW U \in Int, NEW L \in Int, NEW Y \in Int,
         NEW kn \in [Entries -> Int], NEW off \in [Nat -> Int], Indexed(T, Z, U, L, Y, kn, off),
         UNCHANGED <<blockIndex, index, key>>,
         NEW T2 \in Int, NEW Z2 \in Int, NEW U2 \in Int,
         AtTail(T2, Z2, U2)' = AtTail(T, Z, U),
         LastBlock(T2) <= U2, U2 <= Z2, ppc' # "undo" => U2 = LastBlock(T2),
         L <= LastBlock(T2) + 1, Z2 <= Y, ppc' \in {"tail", "block"} => Z2 < Y,
         ppc' \in {"key", "tail", "block"} => entry' = At(Z2 + 1, off),
         ppc' \notin {"key", "tail", "block"} => entry' = null
  PROVE  Indexed(T2, Z2, U2, L, Y, kn, off)'
<1>1. Shape /\ Keys(L, Y, kn, off) /\ Cursor(T, Z, U, L, Y, off)
  BY DEF Indexed
<1>2. /\ Shape' /\ Keys(L, Y, kn, off)'
      /\ \A n \in Int : Pos(n, off)' = Pos(n, off) /\ At(n, off)' = At(n, off)
  BY <1>1, IndexStays
<1>3. AtTail(T, Z, U) \in Int /\ Z2 + 1 \in Int /\ LastBlock(T2) \in Int
  BY <1>1, Steps, LastBlockIs
<1>4. PICK n \in Int : n = AtTail(T, Z, U)
  BY <1>3
<1>5. index'[blockIndex'].tail = Pos(n, off) /\ AtTail(T2, Z2, U2)' = n
  BY <1>1, <1>4 DEF Cursor
<1>6. Pos(n, off)' = Pos(n, off) /\ At(Z2 + 1, off)' = At(Z2 + 1, off)
  BY <1>2, <1>3, <1>4
<1>7. index'[blockIndex'].tail = Pos(AtTail(T2, Z2, U2), off)'
  <2>1. Pos(AtTail(T2, Z2, U2), off)' = Pos(n, off)'
    BY <1>5 DEF Pos
  <2> QED BY <1>5, <1>6, <2>1
<1> QED BY <1>1, <1>2, <1>6, <1>7 DEF Indexed, Cursor

\* The producer is inserting an entry.
Inserting == {"key", "tail", "block"}

\* Nothing of the index changes.
LEMMA IndexedSame ==
  ASSUME NEW T \in Int, NEW Z \in Int, NEW U \in Int, NEW L \in Int, NEW Y \in Int,
         NEW kn \in [Entries -> Int], NEW off \in [Nat -> Int], Indexed(T, Z, U, L, Y, kn, off),
         UNCHANGED <<blockIndex, index, key, entry>>,
         ppc' = ppc \/ (ppc \notin Inserting /\ ppc' \notin Inserting),
         ppc' # "undo" => ppc # "undo"
  PROVE  Indexed(T, Z, U, L, Y, kn, off)'
<1>1. AtTail(T, Z, U)' = AtTail(T, Z, U)
  BY DEF AtTail, Inserting
<1> QED BY <1>1, CursorStays DEF Indexed, Cursor, Inserting

\* The next entry is free.
LEMMA IndexedFind ==
  ASSUME NEW T \in Int, NEW Z \in Int, NEW U \in Int, NEW L \in Int, NEW Y \in Int,
         NEW kn \in [Entries -> Int], NEW off \in [Nat -> Int], Indexed(T, Z, U, L, Y, kn, off),
         FindEntry
  PROVE  Indexed(T, Z, U, L, Y, kn, off)' /\ entry' \in Entries
<1>1. Shape /\ Keys(L, Y, kn, off) /\ Cursor(T, Z, U, L, Y, off)
  BY DEF Indexed
<1>2. /\ ppc = "find" /\ ppc' = "key" /\ UNCHANGED <<blockIndex, index, key>>
      /\ entry' = index[blockIndex].entries[NextPos(blockIndex)]
  BY DEF FindEntry, Step, indexVars
<1>3. AtTail(T, Z, U) = Z /\ AtTail(T, Z, U)' = Z
  <2>1. U = LastBlock(T) /\ LastBlock(T) \in Int
    BY <1>1, <1>2, LastBlockIs DEF Cursor
  <2> QED BY <1>2, <2>1 DEF AtTail
<1>4. NextPos(blockIndex) = Pos(Z + 1, off)
  BY <1>1, <1>3, Steps
<1>5. entry' = At(Z + 1, off)
  BY <1>2, <1>4 DEF At
<1>6. At(Z + 1, off) \in Entries
  BY <1>1, Placed, Z + 1 \in Int
<1> QED BY <1>1, <1>2, <1>3, <1>5, <1>6, CursorStays DEF Cursor

\* The next entry is in use: the index grows, and the next entry of it is free.
LEMMA IndexedGrow ==
  ASSUME NEW T \in Int, NEW Z \in Int, NEW U \in Int, NEW L \in Int, NEW Y \in Int,
         NEW kn \in [Entries -> Int], NEW off \in [Nat -> Int], Indexed(T, Z, U, L, Y, kn, off),
         GrowIndex, \A e \in Entries : value[e] # null => Keyed(e) /\ kn[e] <= Z
  PROVE  /\ \E off2 \in [Nat -> Int] : Indexed(T, Z, U, L, Y, kn, off2)'
         /\ entry' \in Entries /\ ~Keyed(entry')
<1>1. Shape /\ Keys(L, Y, kn, off) /\ Cursor(T, Z, U, L, Y, off)
  BY DEF Indexed
<1>2. /\ ppc = "find" /\ ppc' = "key"
      /\ value[index[blockIndex].entries[NextPos(blockIndex)]] # null
  BY DEF GrowIndex, Step
<1>3. AtTail(T, Z, U) = Z /\ AtTail(T, Z, U)' = Z /\ Z <= Y
  <2>1. U = LastBlock(T) /\ LastBlock(T) \in Int
    BY <1>1, <1>2, LastBlockIs DEF Cursor
  <2> QED BY <1>1, <1>2, <2>1 DEF AtTail, Cursor
<1>4. NextPos(blockIndex) = Pos(Z + 1, off)
  BY <1>1, <1>3, Steps
<1>5. At(Z + 1, off) \in Entries
  BY <1>1, Placed, Z + 1 \in Int
<1>6. Keyed(At(Z + 1, off)) /\ kn[At(Z + 1, off)] <= Z
  BY <1>2, <1>4, <1>5 DEF At
<1>7. /\ Y = Z /\ L = Z + 1 - Capacity(blockIndex)
      /\ \A e \in 1..Capacity(blockIndex) : Keyed(e)
  BY <1>1, <1>3, <1>6, Full
<1>8. index[blockIndex].tail = Pos(Z, off)
  BY <1>1, <1>3 DEF Cursor
<1>9. Shape'
  BY <1>1, GrownShape
<1>10. PICK off2 \in [Nat -> Int] :
         off2 = [off EXCEPT ![blockIndex + 1] = Capacity(blockIndex) - 1 - Y]
  <2> DEFINE x == Capacity(blockIndex) - 1 - Y
  <2>1. x \in Int
    BY <1>1, CurrentIndex
  <2> HIDE DEF x
  <2>2. [off EXCEPT ![blockIndex + 1] = x] \in [Nat -> Int]
    BY <2>1
  <2> QED BY <2>2 DEF x
<1>11. /\ Keys(L, Y, kn, off2)' /\ TailAt(Z, off2)'
       /\ entry' = At(Z + 1, off2)' /\ entry' \in Entries /\ ~Keyed(entry')
  <2>1. /\ L = Y + 1 - Capacity(blockIndex) /\ index[blockIndex].tail = Pos(Y, off)
        /\ \A e \in 1..Capacity(blockIndex) : Keyed(e)
    BY <1>7, <1>8
  <2>2. Keys(L, Y, kn, off2)'
    BY <1>1, <1>10, <2>1, GrownKeys
  <2>3. TailAt(Y, off2)'
    BY <1>1, <1>10, <2>1, GrownKeys
  <2>4. entry' = At(Y + 1, off2)'
    BY <1>1, <1>10, <2>1, GrownKeys
  <2>5. entry' \in Entries /\ ~Keyed(entry')
    BY <1>1, <1>10, <2>1, GrownKeys
  <2> QED BY <1>7, <2>2, <2>3, <2>4, <2>5
<1>12. index'[blockIndex'].tail = Pos(AtTail(T, Z, U), off2)'
  BY <1>3, <1>11 DEF Pos, TailAt
<1>13. Cursor(T, Z, U, L, Y, off2)'
  BY <1>1, <1>2, <1>11, <1>12 DEF Cursor
<1> QED BY <1>9, <1>11, <1>13 DEF Indexed

\* The tail moves to the next entry, or back.
LEMMA IndexedTail ==
  ASSUME NEW T \in Int, NEW Z \in Int, NEW U \in Int, NEW L \in Int, NEW Y \in Int,
         NEW kn \in [Entries -> Int], NEW off \in [Nat -> Int], Indexed(T, Z, U, L, Y, kn, off),
         NEW U2 \in Int, LastBlock(T) <= U2, U2 <= Z, ppc' # "undo" => U2 = LastBlock(T),
         NEW x, index' = [index EXCEPT ![blockIndex].tail = x], UNCHANGED <<blockIndex, key>>,
         \/ AtTail(T, Z, U2)' = AtTail(T, Z, U) + 1 /\ x = NextPos(blockIndex)
         \/ AtTail(T, Z, U2)' = AtTail(T, Z, U) - 1 /\ x = PrevPos(blockIndex),
         \/ ppc = "tail" /\ ppc' = "block" /\ UNCHANGED entry
         \/ ppc' = "undo" /\ entry' = null
  PROVE  Indexed(T, Z, U2, L, Y, kn, off)'
<1>1. Shape /\ Keys(L, Y, kn, off) /\ Cursor(T, Z, U, L, Y, off)
  BY DEF Indexed
<1>2. AtTail(T, Z, U) \in Int
  BY <1>1, Steps
<1>3. PICK n \in Int : n = AtTail(T, Z, U2)' /\ x = Pos(n, off)
  BY <1>1, <1>2, Steps
<1>4. x \in 0..Capacity(blockIndex) - 1 /\ Z + 1 \in Int
  BY <1>1, <1>3, Placed
<1>5. /\ Shape' /\ Keys(L, Y, kn, off)'
      /\ index'[blockIndex].tail = x
      /\ \A k \in Int : Pos(k, off)' = Pos(k, off) /\ At(k, off)' = At(k, off)
  BY <1>1, <1>4, TailMoves
<1>6. At(Z + 1, off)' = At(Z + 1, off) /\ Pos(n, off)' = Pos(n, off)
  BY <1>4, <1>5
<1>7. index'[blockIndex'].tail = Pos(AtTail(T, Z, U2), off)'
  <2>1. Pos(AtTail(T, Z, U2), off)' = Pos(n, off)'
    BY <1>3 DEF Pos
  <2> QED BY <1>3, <1>5, <1>6, <2>1
<1> QED BY <1>1, <1>5, <1>6, <1>7 DEF Indexed, Cursor

\* The index once x has the key of the next block.
NewKey(x, T, Z, U, L, kn, off) ==
  \E L2 \in Int, Y2 \in Int, kn2 \in [Entries -> Int] :
    /\ Indexed(T, Z, U, L2, Y2, kn2, off)'
    /\ kn2[x] = Z + 1
    /\ \A f \in Entries : f # x => kn2[f] = kn[f]
    /\ L2 # L => L2 = L + 1 /\ Keyed(x) /\ kn[x] = L

\* x is not the entry of a block that is still needed.
OldestStays(x, T, L, kn) == Keyed(x) /\ kn[x] = L => L <= LastBlock(T)

\* x has a key now, and no other entry gets one.
OnlyKeyed(x) ==
  Keyed(x)' /\ \A f \in Entries : f # x => (Keyed(f)' <=> Keyed(f))

\* StoreKey.
LEMMA IndexedKey ==
  ASSUME NEW T \in Int, NEW Z \in Int, NEW U \in Int, NEW L \in Int, NEW Y \in Int,
         NEW kn \in [Entries -> Int], NEW off \in [Nat -> Int], Indexed(T, Z, U, L, Y, kn, off),
         StoreKey, current = Wrap(BLOCK_SIZE * (Z + 1)),
         NEW x \in Entries, x = entry, OldestStays(x, T, L, kn)
  PROVE  NewKey(x, T, Z, U, L, kn, off) /\ OnlyKeyed(x)
<1>1. Shape /\ Keys(L, Y, kn, off) /\ Cursor(T, Z, U, L, Y, off)
  BY DEF Indexed
<1>2. /\ ppc = "key" /\ ppc' = "tail" /\ UNCHANGED <<blockIndex, index, entry, value>>
      /\ key' = [key EXCEPT ![entry] = current]
  BY DEF StoreKey, Step
<1>3. Z + 1 \in Int /\ entry = At(Z + 1, off) /\ entry \in Entries
  <2>1. Z + 1 \in Int /\ entry = At(Z + 1, off)
    BY <1>1, <1>2 DEF Cursor
  <2> QED BY <1>1, <2>1, Placed
<1>4. x = entry
  OBVIOUS
<1>5. /\ U = LastBlock(T) /\ LastBlock(T) \in Int /\ U <= Z /\ Z <= Y /\ 0 <= L
      /\ L <= LastBlock(T) + 1 /\ Y \in Int
  BY <1>1, <1>2, LastBlockIs DEF Cursor
<1>6. AtTail(T, Z, U) = Z /\ AtTail(T, Z, U)' = Z
  BY <1>2, <1>5 DEF AtTail
<1>7. Wrap(BLOCK_SIZE * (Z + 1)) # INVALID_BLOCK_BASE
  <2>1. 0 \in 0..BLOCK_SIZE - 1
    BY Sizes
  <2> QED BY <1>3, <2>1, WrapBlock
<1>8. Keyed(x)' /\ \A f \in Entries : f # x => (Keyed(f)' <=> Keyed(f))
  BY <1>1, <1>2, <1>4, <1>7 DEF Keyed, Shape
<1>9. CASE Z < Y
  <2>1. Z + 1 \in L..Y
    BY <1>3, <1>5, <1>9
  <2>2. Keyed(x)
    <3>1. PICK n \in L..Y : n = Z + 1
      BY <2>1
    <3>2. Keyed(At(n, off))
      BY <1>1, Placed
    <3> QED BY <1>3, <1>4, <3>1, <3>2
  <2>3. kn[x] = Z + 1
    <3>1. PICK n \in L..Y : n = Z + 1
      BY <2>1
    <3>2. kn[At(n, off)] = n
      BY <1>1, Placed
    <3> QED BY <1>3, <1>4, <3>1, <3>2
  <2>4. key[x] = current
    BY <1>1, <2>2, <2>3 DEF Keys
  <2>5. key' = key
    BY <1>1, <1>2, <1>4, <2>4 DEF Shape
  <2>6. Indexed(T, Z, U, L, Y, kn, off)'
    <3>1. /\ LastBlock(T) <= U /\ U <= Z /\ ppc' # "undo" => U = LastBlock(T)
          /\ L <= LastBlock(T) + 1 /\ Z <= Y /\ Z < Y
      BY <1>5, <1>9
    <3>2. AtTail(T, Z, U)' = AtTail(T, Z, U)
      BY <1>6
    <3>3. entry' = At(Z + 1, off)
      BY <1>2, <1>3
    <3> QED BY <1>2, <1>5, <2>5, <3>1, <3>2, <3>3, CursorStays
  <2>7. NewKey(x, T, Z, U, L, kn, off)
    BY <2>3, <2>6 DEF NewKey
  <2> QED BY <1>8, <2>7 DEF OnlyKeyed
<1>10. CASE Z = Y
  <2>1. PICK kn2 \in [Entries -> Int] : kn2 = [kn EXCEPT ![x] = Y + 1]
    BY Y + 1 \in Int
  <2>2. PICK L2 \in Int : L2 = IF Y + 1 - L < Capacity(blockIndex) THEN L ELSE L + 1
    BY L + 1 \in Int
  <2>3. key' = [key EXCEPT ![x] = Wrap(BLOCK_SIZE * (Y + 1))] /\ x = At(Y + 1, off)
        /\ L <= Y + 1
    BY <1>2, <1>3, <1>4, <1>5, <1>10
  <2>4. Shape'
    BY <1>1, <1>2, <2>1, <2>2, <2>3, Rekeyed
  <2>5. Keys(L2, Y + 1, kn2, off)'
    BY <1>1, <1>2, <2>1, <2>2, <2>3, Rekeyed
  <2>6. L2 # L => Keyed(x) /\ kn[x] = L
    <3>1. Replaced(L2, L, x, kn)
      BY <1>1, <1>2, <2>1, <2>2, <2>3, Rekeyed
    <3> QED BY <3>1 DEF Replaced
  <2>7. L2 # L => L2 = L + 1
    BY <2>2
  <2>8. L2 \in Int /\ 0 <= L2 /\ L2 <= LastBlock(T) + 1
    BY <1>4, <1>5, <2>6, <2>7 DEF OldestStays
  <2>9. Pos(Z, off)' = Pos(Z, off) /\ At(Z + 1, off)' = At(Z + 1, off)
    BY <1>2 DEF Pos, At, Capacity
  <2>10. index'[blockIndex'].tail = Pos(AtTail(T, Z, U), off)'
    <3>1. index[blockIndex].tail = Pos(Z, off)
      BY <1>1, <1>6 DEF Cursor
    <3>2. Pos(AtTail(T, Z, U), off)' = Pos(Z, off)'
      BY <1>6 DEF Pos
    <3> QED BY <1>2, <2>9, <3>1, <3>2
  <2>11. Cursor(T, Z, U, L2, Y + 1, off)'
    <3>1. /\ LastBlock(T) <= U /\ U <= Z /\ U = LastBlock(T) /\ Z <= Y + 1 /\ Z < Y + 1
      BY <1>5, <1>10
    <3> QED BY <1>2, <1>3, <2>8, <2>9, <2>10, <3>1 DEF Cursor
  <2>12. Indexed(T, Z, U, L2, Y + 1, kn2, off)'
    BY <2>4, <2>5, <2>11 DEF Indexed
  <2>13. kn2[x] = Z + 1 /\ \A f \in Entries : f # x => kn2[f] = kn[f]
    BY <1>10, <2>1
  <2>14. Y + 1 \in Int
    OBVIOUS
  <2>15. NewKey(x, T, Z, U, L, kn, off)
    BY <2>6, <2>7, <2>12, <2>13, <2>14 DEF NewKey
  <2> QED BY <1>8, <2>15 DEF OnlyKeyed
<1> QED BY <1>5, <1>9, <1>10

\* StoreTail.
LEMMA IndexedAdvance ==
  ASSUME NEW T \in Int, NEW Z \in Int, NEW U \in Int, NEW L \in Int, NEW Y \in Int,
         NEW kn \in [Entries -> Int], NEW off \in [Nat -> Int], Indexed(T, Z, U, L, Y, kn, off),
         StoreTail
  PROVE  Indexed(T, Z, U, L, Y, kn, off)'
<1>1. /\ ppc = "tail" /\ ppc' = "block" /\ UNCHANGED <<blockIndex, key, entry>>
      /\ index' = [index EXCEPT ![blockIndex].tail = NextPos(blockIndex)]
  BY DEF StoreTail, Step
<1>2. U = LastBlock(T) /\ LastBlock(T) \in Int /\ U <= Z
  BY <1>1, LastBlockIs DEF Indexed, Cursor
<1>3. AtTail(T, Z, U)' = AtTail(T, Z, U) + 1 /\ LastBlock(T) <= U
  BY <1>1, <1>2 DEF AtTail
<1> QED BY <1>1, <1>2, <1>3, IndexedTail

\* NoBlock takes the tail back.
LEMMA IndexedNoBlock ==
  ASSUME NEW T \in Int, NEW Z \in Int, NEW U \in Int, NEW L \in Int, NEW Y \in Int,
         NEW kn \in [Entries -> Int], NEW off \in [Nat -> Int], Indexed(T, Z, U, L, Y, kn, off),
         NoBlock
  PROVE  Indexed(T, Z, U, L, Y, kn, off)'
<1>1. /\ ppc = "block" /\ ppc' = "undo" /\ UNCHANGED <<blockIndex, key>> /\ entry' = null
      /\ index' = [index EXCEPT ![blockIndex].tail = PrevPos(blockIndex)]
  BY DEF NoBlock, Step
<1>2. U = LastBlock(T) /\ LastBlock(T) \in Int /\ U <= Z
  BY <1>1, LastBlockIs DEF Indexed, Cursor
<1>3. AtTail(T, Z, U)' = AtTail(T, Z, U) - 1 /\ LastBlock(T) <= U
  BY <1>1, <1>2 DEF AtTail
<1> QED BY <1>1, <1>2, <1>3, IndexedTail

\* Undo takes the tail back.
LEMMA IndexedUndo ==
  ASSUME NEW T \in Int, NEW Z \in Int, NEW U \in Int, NEW L \in Int, NEW Y \in Int,
         NEW kn \in [Entries -> Int], NEW off \in [Nat -> Int], Indexed(T, Z, U, L, Y, kn, off),
         Undo, U < Z
  PROVE  Indexed(T, Z, U + 1, L, Y, kn, off)'
<1>1. /\ ppc = "undo" /\ ppc' = "undo" /\ UNCHANGED <<blockIndex, key, entry>>
      /\ index' = [index EXCEPT ![blockIndex].tail = PrevPos(blockIndex)]
  BY DEF Undo
<1>2. LastBlock(T) <= U /\ LastBlock(T) \in Int /\ entry = null
  BY <1>1, LastBlockIs DEF Indexed, Cursor
<1>3. /\ AtTail(T, Z, U + 1)' = AtTail(T, Z, U) - 1 /\ LastBlock(T) <= U + 1
      /\ U + 1 <= Z /\ U + 1 \in Int
  BY <1>1, <1>2 DEF AtTail
<1> QED BY <1>1, <1>2, <1>3, IndexedTail

\* GetBlock: the tail is at the block it put in.
LEMMA IndexedBlock ==
  ASSUME NEW T \in Int, NEW Z \in Int, NEW U \in Int, NEW L \in Int, NEW Y \in Int,
         NEW kn \in [Entries -> Int], NEW off \in [Nat -> Int], Indexed(T, Z, U, L, Y, kn, off),
         NEW b \in Blocks, GetBlock(b)
  PROVE  Indexed(T, Z + 1, U, L, Y, kn, off)'
<1>1. ppc = "block" /\ ppc' = "find" /\ UNCHANGED <<blockIndex, index, key>> /\ entry' = null
  BY DEF GetBlock, Step
<1>2. /\ LastBlock(T) = U /\ LastBlock(T) \in Int /\ U <= Z /\ Z < Y /\ L <= LastBlock(T) + 1
  BY <1>1, LastBlockIs DEF Indexed, Cursor
<1>3. /\ AtTail(T, Z + 1, U)' = AtTail(T, Z, U) /\ Z + 1 \in Int /\ U <= Z + 1 /\ Z + 1 <= Y
      /\ LastBlock(T) <= U
  BY <1>1, <1>2 DEF AtTail
<1> QED BY <1>1, <1>2, <1>3, CursorStays

\* GiveUp: the tail is where it was before the batch.
LEMMA IndexedGiveUp ==
  ASSUME NEW T \in Int, NEW Z \in Int, NEW U \in Int, NEW L \in Int, NEW Y \in Int,
         NEW kn \in [Entries -> Int], NEW off \in [Nat -> Int], Indexed(T, Z, U, L, Y, kn, off),
         GiveUp, U = Z
  PROVE  Indexed(T, LastBlock(T), LastBlock(T), L, Y, kn, off)'
<1>1. ppc = "undo" /\ ppc' = "idle" /\ UNCHANGED <<blockIndex, index, key, entry>>
  BY DEF GiveUp, EndEnqueue, Step, indexVars
<1>2. /\ LastBlock(T) <= U /\ LastBlock(T) \in Int /\ U <= Z /\ Z <= Y /\ L <= LastBlock(T) + 1
      /\ entry = null
  BY <1>1, LastBlockIs DEF Indexed, Cursor
<1>3. /\ AtTail(T, LastBlock(T), LastBlock(T))' = AtTail(T, Z, U) /\ LastBlock(T) <= Y
      /\ LastBlock(T) <= LastBlock(T)
  BY <1>1, <1>2 DEF AtTail
<1> QED BY <1>1, <1>2, <1>3, CursorStays

\* Publish: the tail is at the batch's last block.
LEMMA IndexedPublish ==
  ASSUME NEW T \in Int, NEW Z \in Int, NEW U \in Int, NEW L \in Int, NEW Y \in Int,
         NEW kn \in [Entries -> Int], NEW off \in [Nat -> Int], Indexed(T, Z, U, L, Y, kn, off),
         Publish, NEW N \in Int, T <= N, LastBlock(N) = Z
  PROVE  Indexed(N, Z, Z, L, Y, kn, off)'
<1>1. ppc = "publish" /\ ppc' = "idle" /\ UNCHANGED <<blockIndex, index, key, entry>>
  BY DEF Publish, EndEnqueue, Step, indexVars
<1>2. /\ LastBlock(T) = U /\ LastBlock(T) \in Int /\ U <= Z /\ Z <= Y /\ L <= LastBlock(T) + 1
      /\ entry = null
  BY <1>1, LastBlockIs DEF Indexed, Cursor
<1>3. AtTail(N, Z, Z)' = AtTail(T, Z, U) /\ L <= LastBlock(N) + 1 /\ Z <= Z
  BY <1>1, <1>2 DEF AtTail
<1> QED BY <1>1, <1>2, <1>3, CursorStays

-----------------------------------------------------------------------------
(* Steps that change which blocks are in use *)

\* Consumers are at work on blocks before the tail.
LEMMA AtWorkRange ==
  ASSUME NEW H \in Int, NEW T \in Int, NEW N \in Int, NEW Z \in Int,
         NEW cl \in [Consumers -> Int], Tails(H, T, N, Z), Ages(H, cl),
         NEW c \in Consumers, cpc[c] \in AtWork
  PROVE  0 <= NumberOf(cl[c]) /\ NumberOf(cl[c]) <= LastBlock(T)
<1> DEFINE i == cl[c]
           n == NumberOf(i)
<1>1. i \in Int /\ 0 <= i /\ i < H /\ H <= T
  BY DEF Ages, Tails
<1> HIDE DEF i
<1>2. i + 1 \in Int /\ i + 1 <= T /\ (i + 1) - 1 = i
  BY <1>1
<1>3. LastBlock(i + 1) <= LastBlock(T)
  BY <1>2, LastBlockGrows
<1>4. LastBlock(i + 1) = n
  BY <1>2 DEF LastBlock
<1>5. i = BLOCK_SIZE * n + Slot(i) /\ Slot(i) \in 0..BLOCK_SIZE - 1 /\ BLOCK_SIZE * n \in Int
      /\ n \in Int
  BY <1>1, InBlock
<1>6. n < 0 => BLOCK_SIZE * n + BLOCK_SIZE <= BLOCK_SIZE * 0
  BY <1>5, BlockOrder, 0 \in Int
<1>7. BLOCK_SIZE * 0 = 0 /\ BLOCK_SIZE \in Nat
  BY Sizes
<1> HIDE DEF n
<1>8. 0 <= n
  BY <1>1, <1>5, <1>6, <1>7
<1> QED BY <1>3, <1>4, <1>8 DEF i, n

\* Blocks that may be in use.
InRange(n, T, Z, U) == 0 <= n /\ n <= Z /\ ~(LastBlock(T) < n /\ n <= U)

\* Blocks in use may be.
LEMMA InUseRange ==
  ASSUME NEW H \in Int, NEW T \in Int, NEW N \in Int, NEW Z \in Int, NEW U \in Int,
         NEW cl \in [Consumers -> Int], Tails(H, T, N, Z), Ages(H, cl),
         NEW n \in Int, InUse(n, H, T, Z, U, cl)
  PROVE  InRange(n, T, Z, U)
<1>1. CASE Ahead(n, H, T, Z, U)
  BY <1>1 DEF Ahead, InRange
<1>2. CASE AtWorkIn(n, cl) # {}
  <2>1. PICK c \in Consumers : cpc[c] \in AtWork /\ NumberOf(cl[c]) = n
    BY <1>2 DEF AtWorkIn
  <2>2. 0 <= n /\ n <= LastBlock(T)
    BY <2>1, AtWorkRange
  <2>3. LastBlock(T) \in Int /\ LastBlock(T) <= Z
    BY LastBlockIs DEF Tails
  <2> QED BY <2>2, <2>3 DEF InRange
<1> QED BY <1>1, <1>2 DEF InUse

\* Steps of enqueue_bulk that leave the entries and the blocks as they are.
LEMMA UsedStays ==
  ASSUME NEW H \in Int, NEW T \in Int, NEW Z \in Int, NEW U \in Int, NEW L \in Int,
         NEW kn \in [Entries -> Int], NEW bb, NEW cl, Used(H, T, Z, U, L, kn, bb, cl),
         UNCHANGED <<value, completed, cpc, key>>,
         NEW T2 \in Int, NEW Z2 \in Int, NEW U2 \in Int,
         \A n \in Int : Ahead(n, H, T2, Z2, U2) <=> Ahead(n, H, T, Z, U)
  PROVE  Used(H, T2, Z2, U2, L, kn, bb, cl)'
<1>1. \A n \in Int : InUse(n, H, T2, Z2, U2, cl)' <=> InUse(n, H, T, Z, U, cl)
  BY DEF InUse, AtWorkIn
<1>2. \A n \in Int : Counting(n, H, bb, cl)' <=> Counting(n, H, bb, cl)
  BY DEF Counting, Busy
<1>3. \A e : Keyed(e)' <=> Keyed(e)
  BY DEF Keyed
<1> QED BY <1>1, <1>2, <1>3 DEF Used

\* The entry for the next block gets its key: it has no block.
LEMMA UsedKey ==
  ASSUME NEW H \in Int, NEW T \in Int, NEW N \in Int, NEW Z \in Int, NEW U \in Int, NEW L \in Int,
         NEW kn \in [Entries -> Int], NEW bb, NEW cl \in [Consumers -> Int],
         Used(H, T, Z, U, L, kn, bb, cl), Tails(H, T, N, Z), Ages(H, cl),
         UNCHANGED <<value, completed, cpc>>, NEW x \in Entries, value[x] = null,
         Keyed(x)', NEW kn2 \in [Entries -> Int], kn2[x] = Z + 1,
         \A e \in Entries : e # x => (Keyed(e)' <=> Keyed(e)) /\ kn2[e] = kn[e],
         NEW L2 \in Int, L2 # L => L2 = L + 1 /\ Keyed(x) /\ kn[x] = L
  PROVE  Used(H, T, Z, U, L2, kn2, bb, cl)'
<1>1. \A n \in Int : /\ InUse(n, H, T, Z, U, cl)' <=> InUse(n, H, T, Z, U, cl)
                     /\ Counting(n, H, bb, cl)' <=> Counting(n, H, bb, cl)
  BY DEF InUse, AtWorkIn, Counting, Busy
<1>2. ASSUME NEW n \in Int, InUse(n, H, T, Z, U, cl)
      PROVE  /\ L2 <= n /\ bb[n] \in Blocks
             /\ \A e \in Entries : Keyed(e)' /\ kn2[e] = n => value'[e] = bb[n]
             /\ Counting(n, H, bb, cl)'
  <2>1. /\ L <= n /\ bb[n] \in Blocks /\ Counting(n, H, bb, cl)
        /\ \A e \in Entries : Keyed(e) /\ kn[e] = n => value[e] = bb[n]
    BY <1>2 DEF Used
  <2>2. n <= Z
    BY <1>2, InUseRange DEF InRange
  <2>3. n # L \/ L2 = L
    <3>1. CASE L2 # L /\ n = L
      <4>1. value[x] = bb[n]
        BY <2>1, <3>1
      <4> QED BY <2>1, <4>1, QueueAssumption
    <3> QED BY <3>1
  <2>4. L2 <= n
    BY <2>1, <2>3
  <2>5. \A e \in Entries : Keyed(e)' /\ kn2[e] = n => value'[e] = bb[n]
    BY <2>1, <2>2
  <2> QED BY <1>1, <2>1, <2>4, <2>5
<1>3. ASSUME NEW e \in Entries, value'[e] # null
      PROVE  Keyed(e)' /\ InUse(kn2[e], H, T, Z, U, cl)' /\ value'[e] = bb[kn2[e]]
  <2>1. e # x /\ value[e] # null
    BY <1>3
  <2>2. Keyed(e) /\ InUse(kn[e], H, T, Z, U, cl) /\ value[e] = bb[kn[e]]
    BY <2>1 DEF Used
  <2> QED BY <1>1, <2>1, <2>2
<1> QED BY <1>1, <1>2, <1>3 DEF Used

\* The next block goes into its entry.
NotUsed(b, H, T, Z, U, bb, cl) ==
  \A n \in Int : InUse(n, H, T, Z, U, cl) => bb[n] # b

\* What Used says of the nth block.
Serving(n, H, L, kn, bb, cl) ==
  /\ L <= n /\ bb[n] \in Blocks
  /\ \A e \in Entries : Keyed(e) /\ kn[e] = n => value[e] = bb[n]
  /\ Counting(n, H, bb, cl)

\* The next block goes into its entry.
LEMMA UsedBlock ==
  ASSUME NEW H \in Int, NEW T \in Int, NEW N \in Int, NEW Z \in Int, NEW U \in Int, NEW L \in Int,
         NEW kn \in [Entries -> Int], NEW bb \in [Int -> Blocks \cup {null}],
         NEW cl \in [Consumers -> Int],
         Used(H, T, Z, U, L, kn, bb, cl), Tails(H, T, N, Z), Ages(H, cl),
         U = LastBlock(T), L <= Z + 1, value \in [Entries -> Blocks \cup {null}],
         completed \in [Blocks -> Int],
         UNCHANGED <<key, cpc>>, NEW x \in Entries, Keyed(x), kn[x] = Z + 1, value[x] = null,
         \A e \in Entries : Keyed(e) /\ kn[e] = Z + 1 => e = x,
         NEW b \in Blocks, value' = [value EXCEPT ![x] = b],
         completed' = [completed EXCEPT ![b] = 0],
         NEW bb2, bb2 = [bb EXCEPT ![Z + 1] = b],
         NotUsed(b, H, T, Z, U, bb, cl)
  PROVE  Used(H, T, Z + 1, U, L, kn, bb2, cl)'
<1>1. \A n \in Int : InUse(n, H, T, Z, U, cl) => bb[n] # b
  BY DEF NotUsed
<1>2. /\ LastBlock(T) \in Int /\ LastBlock(T) <= Z /\ 0 <= H /\ H <= T
      /\ H <= BLOCK_SIZE * (Z + 1)
      /\ BLOCK_SIZE * (Z + 1) \in Int /\ Z + 1 \in Int
      /\ BLOCK_SIZE * (Z + 2) = BLOCK_SIZE * (Z + 1) + BLOCK_SIZE /\ BLOCK_SIZE \in Nat \ {0}
  <2>1. T <= BLOCK_SIZE * (Z + 1) /\ BLOCK_SIZE * (Z + 1) \in Int
    BY TailNear
  <2>2. Z + 1 \in Int /\ (Z + 1) + 1 = Z + 2
    OBVIOUS
  <2>3. BLOCK_SIZE * (Z + 2) = BLOCK_SIZE * (Z + 1) + BLOCK_SIZE
    BY <2>2, BlockOrder
  <2> QED BY <2>1, <2>2, <2>3, LastBlockIs, Sizes DEF Tails
<1>3. PICK z \in Int : z = Z + 1
  BY <1>2
<1>4. ~InUse(z, H, T, Z, U, cl)
  BY <1>3, InUseRange DEF InRange
<1>5. -1 < z /\ -1 < Z + 1 => 0 <= z
  BY <1>3
<1>6. 0 <= z
  <2>1. BLOCK_SIZE * z < 0 \/ 0 <= z
    <3>1. z < 0 => BLOCK_SIZE * z + BLOCK_SIZE <= BLOCK_SIZE * 0
      BY BlockOrder, 0 \in Int
    <3> QED BY <1>2, <1>3, <3>1
  <2> QED BY <1>2, <1>3, <2>1
<1>7. ASSUME NEW n \in Int
      PROVE  InUse(n, H, T, Z + 1, U, cl)' <=> InUse(n, H, T, Z, U, cl) \/ n = z
  <2>1. AtWorkIn(n, cl)' = AtWorkIn(n, cl)
    BY DEF AtWorkIn
  <2>2. Ahead(n, H, T, Z + 1, U) <=> Ahead(n, H, T, Z, U) \/ n = z
    <3>1. CASE n = z
      <4>1. BLOCK_SIZE * (n + 1) = BLOCK_SIZE * (Z + 2)
        BY <1>3, <3>1
      <4> QED BY <1>2, <1>3, <1>6, <3>1, <4>1 DEF Ahead
    <3>2. CASE n # z
      BY <1>2, <1>3, <3>2 DEF Ahead
    <3> QED BY <3>1, <3>2
  <2> QED BY <2>1, <2>2 DEF InUse
<1>8. /\ bb2[z] = b /\ \A n \in Int : n # z => bb2[n] = bb[n]
      /\ completed'[b] = 0 /\ \A d \in Blocks : d # b => completed'[d] = completed[d]
      /\ value'[x] = b /\ \A e \in Entries : e # x => value'[e] = value[e]
      /\ \A e : Keyed(e)' <=> Keyed(e)
  BY <1>3 DEF Keyed
<1>9. ASSUME NEW n \in Int, InUse(n, H, T, Z, U, cl)
      PROVE  /\ L <= n /\ bb2[n] \in Blocks
             /\ \A e \in Entries : Keyed(e)' /\ kn[e] = n => value'[e] = bb2[n]
             /\ Counting(n, H, bb2, cl)'
  <2>1. /\ L <= n /\ bb[n] \in Blocks /\ Counting(n, H, bb, cl)
        /\ \A e \in Entries : Keyed(e) /\ kn[e] = n => value[e] = bb[n]
    BY <1>9 DEF Used
  <2>2. n # z /\ bb[n] # b
    BY <1>1, <1>4, <1>9
  <2>3. \A e \in Entries : Keyed(e)' /\ kn[e] = n => value'[e] = bb2[n]
    BY <1>3, <1>8, <2>1, <2>2
  <2>4. Busy(n, cl)' = Busy(n, cl)
    BY DEF Busy
  <2>5. Counting(n, H, bb2, cl)'
    BY <1>8, <2>1, <2>2, <2>4 DEF Counting
  <2> QED BY <1>8, <2>1, <2>2, <2>3, <2>5
<1>10. /\ L <= z /\ bb2[z] \in Blocks
       /\ \A e \in Entries : Keyed(e)' /\ kn[e] = z => value'[e] = bb2[z]
       /\ Counting(z, H, bb2, cl)'
  <2>1. Busy(z, cl)' = {}
    <3>1. AtWorkIn(z, cl) = {}
      BY <1>4 DEF InUse
    <3> QED BY <3>1 DEF Busy, AtWorkIn
  <2>2. Cardinality({}) = 0
    BY FS_EmptySet
  <2>3. Clamp(H - BLOCK_SIZE * z) = 0
    BY <1>2, <1>3 DEF Clamp
  <2>4. Counting(z, H, bb2, cl)'
    BY <1>8, <2>1, <2>2, <2>3 DEF Counting
  <2> QED BY <1>3, <1>8, <2>4
<1>11. ASSUME NEW e \in Entries, value'[e] # null
       PROVE  Keyed(e)' /\ InUse(kn[e], H, T, Z + 1, U, cl)' /\ value'[e] = bb2[kn[e]]
  <2>1. CASE e = x
    BY <1>3, <1>7, <1>8, <2>1
  <2>2. CASE e # x
    <3>1. value[e] # null /\ value'[e] = value[e]
      BY <1>8, <1>11, <2>2
    <3>2. Keyed(e) /\ InUse(kn[e], H, T, Z, U, cl) /\ value[e] = bb[kn[e]]
      BY <3>1 DEF Used
    <3>3. kn[e] # z
      BY <1>4, <3>2
    <3> QED BY <1>7, <1>8, <3>1, <3>2, <3>3
  <2> QED BY <2>1, <2>2
<1>12. Serving(z, H, L, kn, bb2, cl)'
  BY <1>10 DEF Serving
<1>13. ASSUME NEW n \in Int, InUse(n, H, T, Z + 1, U, cl)'
       PROVE  Serving(n, H, L, kn, bb2, cl)'
  <2>1. CASE n = z
    BY <1>12, <2>1
  <2>2. CASE InUse(n, H, T, Z, U, cl)
    BY <1>9, <2>2 DEF Serving
  <2>3. InUse(n, H, T, Z, U, cl) \/ n = z
    BY <1>7, <1>13
  <2> QED BY <2>1, <2>2, <2>3
<1> QED BY <1>11, <1>13 DEF Used, Serving

\* The first of the batch's blocks left is taken out again.
LEMMA UsedUndo ==
  ASSUME NEW H \in Int, NEW T \in Int, NEW N \in Int, NEW Z \in Int, NEW U \in Int, NEW L \in Int,
         NEW kn \in [Entries -> Int], NEW bb, NEW cl \in [Consumers -> Int],
         Used(H, T, Z, U, L, kn, bb, cl), Tails(H, T, N, Z), Ages(H, cl),
         LastBlock(T) <= U, UNCHANGED <<key, completed, cpc>>,
         value \in [Entries -> Blocks \cup {null}],
         NEW x \in Entries, Keyed(x), kn[x] = U + 1, value' = [value EXCEPT ![x] = null],
         \A e \in Entries : Keyed(e) /\ kn[e] = U + 1 => e = x
  PROVE  Used(H, T, Z, U + 1, L, kn, bb, cl)'
<1>1. LastBlock(T) \in Int /\ U + 1 \in Int
  BY LastBlockIs
<1>2. ~InUse(U + 1, H, T, Z, U + 1, cl)
  <2>1. U + 1 <= U + 1 /\ LastBlock(T) < U + 1
    BY <1>1
  <2> QED BY <1>1, <2>1, InUseRange DEF InRange
<1>3. PICK z \in Int : z = U + 1
  BY <1>1
<1>4. \A n \in Int : Ahead(n, H, T, Z, U + 1) <=> Ahead(n, H, T, Z, U) /\ n # z
  BY <1>1, <1>3 DEF Ahead
<1>5. AtWorkIn(z, cl) = {}
  BY <1>2, <1>3 DEF InUse
<1>6. ASSUME NEW n \in Int
      PROVE  InUse(n, H, T, Z, U + 1, cl)' <=> InUse(n, H, T, Z, U, cl) /\ n # z
  <2>1. AtWorkIn(n, cl)' = AtWorkIn(n, cl)
    BY DEF AtWorkIn
  <2> QED BY <1>4, <1>5, <2>1 DEF InUse
<1>7. /\ value'[x] = null /\ \A e \in Entries : e # x => value'[e] = value[e]
      /\ \A e : Keyed(e)' <=> Keyed(e)
  BY DEF Keyed
<1>8. ASSUME NEW n \in Int, InUse(n, H, T, Z, U, cl), n # z
      PROVE  /\ L <= n /\ bb[n] \in Blocks
             /\ \A e \in Entries : Keyed(e)' /\ kn[e] = n => value'[e] = bb[n]
             /\ Counting(n, H, bb, cl)'
  <2>1. /\ L <= n /\ bb[n] \in Blocks /\ Counting(n, H, bb, cl)
        /\ \A e \in Entries : Keyed(e) /\ kn[e] = n => value[e] = bb[n]
    BY <1>8 DEF Used
  <2>2. Counting(n, H, bb, cl)'
    BY <2>1 DEF Counting, Busy
  <2> QED BY <1>3, <1>7, <1>8, <2>1, <2>2
<1>9. ASSUME NEW e \in Entries, value'[e] # null
      PROVE  Keyed(e)' /\ InUse(kn[e], H, T, Z, U + 1, cl)' /\ value'[e] = bb[kn[e]]
  <2>1. e # x /\ value[e] # null /\ value'[e] = value[e]
    BY <1>7, <1>9
  <2>2. Keyed(e) /\ InUse(kn[e], H, T, Z, U, cl) /\ value[e] = bb[kn[e]]
    BY <2>1 DEF Used
  <2>3. kn[e] # z
    BY <1>3, <2>1, <2>2
  <2> QED BY <1>6, <1>7, <2>1, <2>2, <2>3
<1> QED BY <1>6, <1>8, <1>9 DEF Used

-----------------------------------------------------------------------------
(* Consumers at work *)

-----------------------------------------------------------------------------
\* What c knows of the block of its element.
WorkOf(c, H, kn, cl) ==
  LET n == NumberOf(cl[c])
      r == reg[c]
  IN
  /\ Claimed(c) => r.index = Wrap(cl[c])
  /\ cpc[c] \in {"index_tail", "entry"} =>
       /\ r.blockIndex \in 1..blockIndex
       /\ \A e \in Entries : Keyed(e) /\ kn[e] = n => e <= Capacity(r.blockIndex)
  /\ cpc[c] = "entry" =>
       /\ r.pos \in 0..Capacity(r.blockIndex) - 1
       /\ Keyed(index[r.blockIndex].entries[r.pos])
  /\ cpc[c] \in {"element", "empty", "unlink"} =>
       r.entry \in Entries /\ Keyed(r.entry) /\ kn[r.entry] = n /\ r.block = value[r.entry]
  /\ cpc[c] = "unlink" =>
       /\ BLOCK_SIZE * (n + 1) <= H
       /\ completed[r.block] = BLOCK_SIZE
       /\ \A d \in Consumers : cpc[d] = "unlink" /\ NumberOf(cl[d]) = n => d = c

\* What the consumers know.
Work(H, kn, cl) == \A c \in Consumers : WorkOf(c, H, kn, cl)

\* A step of enqueue_bulk leaves alone what consumers are at work on.
LEMMA WorkStays ==
  ASSUME NEW H \in Int, NEW kn \in [Entries -> Int], NEW cl \in [Consumers -> Int],
         Shape, Work(H, kn, cl), UNCHANGED consumerVars, NEW kn2 \in [Entries -> Int],
         \A e \in Entries : Keyed(e) => Keyed(e)',
         \A e \in Entries, n \in Int : AtWorkIn(n, cl) # {} =>
           (Keyed(e)' /\ kn2[e] = n <=> Keyed(e) /\ kn[e] = n),
         \A e \in Entries : Keyed(e) /\ AtWorkIn(kn[e], cl) # {} =>
           value'[e] = value[e] /\ completed'[value[e]] = completed[value[e]],
         blockIndex' \in {blockIndex, blockIndex + 1},
         \A h \in 1..blockIndex : Capacity(h)' = Capacity(h) /\ index'[h].entries = index[h].entries
  PROVE  Work(H, kn2, cl)'
<1> SUFFICES ASSUME NEW c \in Consumers PROVE WorkOf(c, H, kn2, cl)'
  BY DEF Work
<1> DEFINE n == NumberOf(cl[c])
<1>1. WorkOf(c, H, kn, cl) /\ cpc' = cpc /\ reg' = reg /\ n \in Int
  BY InBlock DEF Work, consumerVars
<1>2. blockIndex \in Nat /\ 1..blockIndex \subseteq 1..blockIndex'
  BY DEF Shape
<1>3. Claimed(c)' => reg'[c].index = Wrap(cl[c])
  BY <1>1 DEF WorkOf, Claimed
<1>4. cpc[c] \in AtWork => AtWorkIn(n, cl) # {}
  BY DEF AtWorkIn
<1>5. ASSUME cpc'[c] \in {"index_tail", "entry"}
      PROVE  /\ reg'[c].blockIndex \in 1..blockIndex'
             /\ \A e \in Entries : Keyed(e)' /\ kn2[e] = n => e <= Capacity(reg[c].blockIndex)'
             /\ cpc'[c] = "entry" =>
                  /\ reg'[c].pos \in 0..Capacity(reg[c].blockIndex)' - 1
                  /\ Keyed(index[reg[c].blockIndex].entries[reg[c].pos])'
  <2>1. AtWorkIn(n, cl) # {}
    BY <1>1, <1>4, <1>5 DEF AtWork
  <2>2. PICK h \in 1..blockIndex : h = reg[c].blockIndex
    BY <1>1, <1>5 DEF WorkOf
  <2>3. /\ \A e \in Entries : Keyed(e) /\ kn[e] = n => e <= Capacity(h)
        /\ cpc[c] = "entry" => reg[c].pos \in 0..Capacity(h) - 1
                               /\ Keyed(index[h].entries[reg[c].pos])
    BY <1>1, <1>5, <2>2 DEF WorkOf
  <2>4. Capacity(h)' = Capacity(h) /\ index'[h].entries = index[h].entries
    OBVIOUS
  <2>5. Capacity(reg[c].blockIndex)' = Capacity(h)
    BY <1>1, <2>2, <2>4 DEF Capacity
  <2>6. cpc[c] = "entry" => Keyed(index[reg[c].blockIndex].entries[reg[c].pos])'
    <3> DEFINE f == index[h].entries[reg[c].pos]
    <3>1. cpc[c] = "entry" => Keyed(f) /\ f \in Entries
      <4>1. cpc[c] = "entry" => Keyed(f)
        BY <2>3
      <4>2. ShapeAt(h)
        BY DEF Shape
      <4>3. index[h].entries \in [0..Capacity(h) - 1 -> 1..Capacity(h)] /\ Capacity(h) \in Nat
            /\ Capacity(h) <= MaxEntries
        BY <4>2, Sizes DEF ShapeAt
      <4>4. cpc[c] = "entry" => f \in 1..Capacity(h)
        BY <2>3, <4>3
      <4> HIDE DEF f
      <4> QED BY <4>1, <4>3, <4>4, Sizes DEF Entries
    <3>2. cpc[c] = "entry" => key'[f] # INVALID_BLOCK_BASE
      <4>1. ASSUME NEW x \in Entries, Keyed(x) PROVE key'[x] # INVALID_BLOCK_BASE
        BY <4>1 DEF Keyed
      <4> HIDE DEF f
      <4> QED BY <3>1, <4>1
    <3>3. index'[reg'[c].blockIndex].entries[reg'[c].pos] = f
      BY <1>1, <2>2, <2>4
    <3> HIDE DEF f
    <3> QED BY <3>2, <3>3 DEF Keyed
  <2> QED BY <1>1, <1>2, <2>1, <2>2, <2>3, <2>5, <2>6
<1>6. ASSUME cpc'[c] \in {"element", "empty", "unlink"}
      PROVE  /\ reg'[c].entry \in Entries /\ Keyed(reg[c].entry)' /\ kn2[reg'[c].entry] = n
             /\ reg'[c].block = value'[reg'[c].entry]
             /\ completed'[reg'[c].block] = completed[reg[c].block]
  <2>1. AtWorkIn(n, cl) # {}
    BY <1>1, <1>4, <1>6 DEF AtWork
  <2>2. PICK e \in Entries : e = reg[c].entry
    BY <1>1, <1>6 DEF WorkOf
  <2>3. Keyed(e) /\ kn[e] = n /\ reg[c].block = value[e]
    BY <1>1, <1>6, <2>2 DEF WorkOf
  <2>4. Keyed(e)' /\ kn2[e] = n /\ value'[e] = value[e] /\ completed'[value[e]] = completed[value[e]]
    BY <1>1, <2>1, <2>3
  <2>5. Keyed(reg[c].entry)'
    BY <1>1, <2>2, <2>4 DEF Keyed
  <2> QED BY <1>1, <2>2, <2>3, <2>4, <2>5
<1>7. cpc'[c] = "unlink" =>
        /\ BLOCK_SIZE * (n + 1) <= H
        /\ completed'[reg'[c].block] = BLOCK_SIZE
        /\ \A d \in Consumers : cpc'[d] = "unlink" /\ NumberOf(cl[d]) = n => d = c
  BY <1>1, <1>6 DEF WorkOf
<1> QED BY <1>1, <1>3, <1>5, <1>6, <1>7 DEF WorkOf

\* What is known of the block of a consumer that has found it.
HasFound(c, n, H, T, Z, U, kn, bb, cl) ==
  /\ n = NumberOf(cl[c]) /\ n \in Int /\ c \in AtWorkIn(n, cl)
  /\ InUse(n, H, T, Z, U, cl)
  /\ bb[n] \in Blocks /\ reg[c].block = bb[n]
  /\ reg[c].entry \in Entries /\ Keyed(reg[c].entry)
  /\ kn[reg[c].entry] = n
  /\ value[reg[c].entry] = bb[n]
  /\ Counting(n, H, bb, cl)

\* A consumer that has found its block has the right one.
LEMMA BlockFound ==
  ASSUME NEW H \in Int, NEW T \in Int, NEW Z \in Int, NEW U \in Int, NEW L \in Int,
         NEW kn \in [Entries -> Int], NEW bb, NEW cl \in [Consumers -> Int],
         Used(H, T, Z, U, L, kn, bb, cl), Work(H, kn, cl), NEW c \in Consumers,
         cpc[c] \in {"element", "empty", "unlink"}
  PROVE  HasFound(c, NumberOf(cl[c]), H, T, Z, U, kn, bb, cl)
<1>1. NumberOf(cl[c]) \in Int
  BY InBlock
<1>2. c \in AtWorkIn(NumberOf(cl[c]), cl)
  BY DEF AtWorkIn, AtWork
<1>3. InUse(NumberOf(cl[c]), H, T, Z, U, cl)
  BY <1>2 DEF InUse
<1>4. /\ reg[c].entry \in Entries /\ Keyed(reg[c].entry)
      /\ kn[reg[c].entry] = NumberOf(cl[c]) /\ reg[c].block = value[reg[c].entry]
  BY DEF Work, WorkOf
<1>5. /\ bb[NumberOf(cl[c])] \in Blocks /\ Counting(NumberOf(cl[c]), H, bb, cl)
      /\ value[reg[c].entry] = bb[NumberOf(cl[c])]
  BY <1>1, <1>3, <1>4 DEF Used
<1> QED BY <1>1, <1>2, <1>3, <1>4, <1>5 DEF HasFound

\* Blocks in use and consumers at work.
Working(H, T, Z, U, L, kn, bb, cl) ==
  Used(H, T, Z, U, L, kn, bb, cl) /\ Ages(H, cl) /\ Work(H, kn, cl)

\* Only c moves.
Alone(c) == \A d \in Consumers : d # c => cpc'[d] = cpc[d] /\ reg'[d] = reg[d]

\* A step of c leaves alone what the others know.
LEMMA WorkOthers ==
  ASSUME NEW H \in Int, NEW kn \in [Entries -> Int], NEW cl \in [Consumers -> Int],
         Work(H, kn, cl), NEW c \in Consumers, Alone(c), UNCHANGED <<blockIndex, index, key>>,
         NEW H2 \in Int, H <= H2, NEW cl2 \in [Consumers -> Int],
         \A d \in Consumers : d # c => cl2[d] = cl[d],
         \A d \in Consumers : d # c /\ cpc[d] \in {"element", "empty", "unlink"} =>
           value'[reg[d].entry] = value[reg[d].entry],
         \A d \in Consumers : d # c /\ cpc[d] = "unlink" =>
           /\ completed'[reg[d].block] = completed[reg[d].block]
           /\ ~(cpc'[c] = "unlink" /\ NumberOf(cl2[c]) = NumberOf(cl[d])),
         WorkOf(c, H2, kn, cl2)'
  PROVE  Work(H2, kn, cl2)'
<1> SUFFICES ASSUME NEW d \in Consumers, d # c PROVE WorkOf(d, H2, kn, cl2)'
  BY DEF Work
<1> DEFINE n == NumberOf(cl[d])
<1>1. WorkOf(d, H, kn, cl) /\ cpc'[d] = cpc[d] /\ reg'[d] = reg[d] /\ cl2[d] = cl[d] /\ n \in Int
  BY InBlock DEF Work, Alone
<1>2. /\ \A e : Keyed(e)' <=> Keyed(e)
      /\ \A h : Capacity(h)' = Capacity(h)
  BY DEF Keyed, Capacity
<1>3. Claimed(d)' => reg'[d].index = Wrap(cl2[d])
  BY <1>1 DEF WorkOf, Claimed
<1>4. ASSUME cpc'[d] \in {"index_tail", "entry"}
      PROVE  /\ reg'[d].blockIndex \in 1..blockIndex'
             /\ \A e \in Entries : Keyed(e)' /\ kn[e] = n => e <= Capacity(reg[d].blockIndex)'
             /\ cpc'[d] = "entry" =>
                  /\ reg'[d].pos \in 0..Capacity(reg[d].blockIndex)' - 1
                  /\ Keyed(index[reg[d].blockIndex].entries[reg[d].pos])'
  <2>1. Capacity(reg[d].blockIndex)' = Capacity(reg[d].blockIndex)
    BY <1>1 DEF Capacity
  <2>2. Keyed(index[reg[d].blockIndex].entries[reg[d].pos])'
          <=> Keyed(index[reg[d].blockIndex].entries[reg[d].pos])
    BY <1>1 DEF Keyed
  <2> QED BY <1>1, <1>2, <1>4, <2>1, <2>2 DEF WorkOf
<1>5. ASSUME cpc'[d] \in {"element", "empty", "unlink"}
      PROVE  /\ reg'[d].entry \in Entries /\ Keyed(reg[d].entry)' /\ kn[reg'[d].entry] = n
             /\ reg'[d].block = value'[reg'[d].entry]
  <2>1. Keyed(reg[d].entry)' <=> Keyed(reg[d].entry)
    BY <1>1 DEF Keyed
  <2> QED BY <1>1, <1>5, <2>1 DEF WorkOf
<1>6. ASSUME cpc'[d] = "unlink"
      PROVE  /\ BLOCK_SIZE * (n + 1) <= H2
             /\ completed'[reg'[d].block] = BLOCK_SIZE
             /\ \A a \in Consumers : cpc'[a] = "unlink" /\ NumberOf(cl2[a]) = n => a = d
  <2>1. /\ BLOCK_SIZE * (n + 1) <= H /\ completed[reg[d].block] = BLOCK_SIZE
        /\ \A a \in Consumers : cpc[a] = "unlink" /\ NumberOf(cl[a]) = n => a = d
    BY <1>1, <1>6 DEF WorkOf
  <2>2. BLOCK_SIZE * (n + 1) \in Int
    BY <1>1, BlockOrder
  <2>3. BLOCK_SIZE * (n + 1) <= H2
    BY <2>1, <2>2
  <2>4. \A a \in Consumers : cpc'[a] = "unlink" /\ NumberOf(cl2[a]) = n => a = d
    BY <1>1, <1>6, <2>1 DEF Alone
  <2> QED BY <1>1, <1>6, <2>1, <2>3, <2>4
<1> QED BY <1>1, <1>3, <1>4, <1>5, <1>6 DEF WorkOf

\* A step by which c neither starts, ends nor empties.
LEMMA UsedMoves ==
  ASSUME NEW H \in Int, NEW T \in Int, NEW Z \in Int, NEW U \in Int, NEW L \in Int,
         NEW kn \in [Entries -> Int], NEW bb, NEW cl,
         Used(H, T, Z, U, L, kn, bb, cl), Ages(H, cl),
         UNCHANGED <<key, value, completed>>, NEW c \in Consumers, Alone(c),
         cpc'[c] \in AtWork <=> cpc[c] \in AtWork, cpc'[c] = "unlink" <=> cpc[c] = "unlink"
  PROVE  Used(H, T, Z, U, L, kn, bb, cl)' /\ Ages(H, cl)'
<1>1. \A d \in Consumers : /\ cpc'[d] \in AtWork <=> cpc[d] \in AtWork
                           /\ cpc'[d] = "unlink" <=> cpc[d] = "unlink"
  BY DEF Alone
<1>2. \A n \in Int : InUse(n, H, T, Z, U, cl)' <=> InUse(n, H, T, Z, U, cl)
  <2> SUFFICES ASSUME NEW n \in Int PROVE AtWorkIn(n, cl)' = AtWorkIn(n, cl)
    BY DEF InUse
  <2> QED BY <1>1 DEF AtWorkIn
<1>3. \A n \in Int : Counting(n, H, bb, cl)' <=> Counting(n, H, bb, cl)
  <2> SUFFICES ASSUME NEW n \in Int PROVE Busy(n, cl)' = Busy(n, cl)
    BY DEF Counting
  <2> QED BY <1>1 DEF Busy
<1>4. \A e : Keyed(e)' <=> Keyed(e)
  BY DEF Keyed
<1>5. Ages(H, cl)'
  BY <1>1 DEF Ages
<1> QED BY <1>2, <1>3, <1>4, <1>5 DEF Used

\* c moves on with its element.
LEMMA WorkingMoves ==
  ASSUME NEW H \in Int, NEW T \in Int, NEW Z \in Int, NEW U \in Int, NEW L \in Int,
         NEW kn \in [Entries -> Int], NEW bb, NEW cl \in [Consumers -> Int],
         Working(H, T, Z, U, L, kn, bb, cl),
         UNCHANGED <<blockIndex, index, key, value, completed>>, NEW c \in Consumers, Alone(c),
         cpc'[c] \in AtWork <=> cpc[c] \in AtWork, cpc'[c] # "unlink", cpc[c] # "unlink",
         WorkOf(c, H, kn, cl)'
  PROVE  Working(H, T, Z, U, L, kn, bb, cl)'
<1>1. Used(H, T, Z, U, L, kn, bb, cl) /\ Ages(H, cl) /\ Work(H, kn, cl)
  BY DEF Working
<1>2. Used(H, T, Z, U, L, kn, bb, cl)' /\ Ages(H, cl)'
  BY <1>1, UsedMoves
<1>3. Work(H, kn, cl)'
  BY <1>1, WorkOthers, H <= H
<1> QED BY <1>2, <1>3 DEF Working

\* Where a consumer has nothing to do with a block of the index.
Quiet == {"idle", "optimistic", "commit", "check", "overcommit", "release"}

\* c moves between quiet places.
LEMMA WorkingQuiet ==
  ASSUME NEW H \in Int, NEW T \in Int, NEW Z \in Int, NEW U \in Int, NEW L \in Int,
         NEW kn \in [Entries -> Int], NEW bb, NEW cl \in [Consumers -> Int],
         Working(H, T, Z, U, L, kn, bb, cl),
         UNCHANGED <<blockIndex, index, key, value, completed>>, NEW c \in Consumers, Alone(c),
         cpc[c] \in Quiet, cpc'[c] \in Quiet
  PROVE  Working(H, T, Z, U, L, kn, bb, cl)'
<1>1. cpc[c] \notin AtWork /\ cpc'[c] \notin AtWork /\ cpc[c] # "unlink" /\ cpc'[c] # "unlink"
  BY DEF Quiet, AtWork
<1>2. WorkOf(c, H, kn, cl)'
  BY DEF WorkOf, Claimed, Quiet
<1> QED BY <1>1, <1>2, WorkingMoves

\* The element with number H is claimed.
LEMMA WorkingCheck ==
  ASSUME NEW H \in Int, NEW T \in Int, NEW N \in Int, NEW Z \in Int, NEW U \in Int, NEW L \in Int,
         NEW kn \in [Entries -> Int], NEW bb, NEW cl \in [Consumers -> Int],
         Working(H, T, Z, U, L, kn, bb, cl), Tails(H, T, N, Z), H < T,
         completed \in [Blocks -> Int],
         UNCHANGED <<blockIndex, index, key, value, completed>>, NEW c \in Consumers, Alone(c),
         cpc[c] = "check", cpc'[c] = "index", reg'[c].index = headIndex,
         NEW cl2, cl2 = [cl EXCEPT ![c] = H]
  PROVE  Working(H + 1, T, Z, U, L, kn, bb, cl2)'
<1> DEFINE k == NumberOf(H)
<1>1. Used(H, T, Z, U, L, kn, bb, cl) /\ Ages(H, cl) /\ Work(H, kn, cl)
  BY DEF Working
<1>2. /\ cl2 \in [Consumers -> Int] /\ cl2[c] = H
      /\ \A d \in Consumers : d # c => cl2[d] = cl[d]
      /\ cpc[c] \notin AtWork /\ cpc'[c] \in AtWork /\ cpc'[c] # "unlink"
      /\ \A d \in Consumers : d # c => cpc'[d] = cpc[d]
  BY DEF AtWork, Alone
<1>3. /\ k \in Int /\ Slot(H) \in 0..BLOCK_SIZE - 1 /\ H = BLOCK_SIZE * k + Slot(H)
      /\ BLOCK_SIZE * k \in Int /\ BLOCK_SIZE * (k + 1) = BLOCK_SIZE * k + BLOCK_SIZE
      /\ BLOCK_SIZE \in Nat
  BY InBlock, BlockOrder, Sizes
<1>4. H + 1 <= T /\ LastBlock(H + 1) = k /\ k <= LastBlock(T) /\ LastBlock(T) \in Int
      /\ LastBlock(T) <= Z /\ 0 <= H /\ H < H + 1
  <2>1. H + 1 \in Int /\ (H + 1) - 1 = H /\ H + 1 <= T
    OBVIOUS
  <2>2. LastBlock(H + 1) = k
    BY <2>1 DEF LastBlock
  <2>3. k <= LastBlock(T)
    BY <2>1, <2>2, LastBlockGrows
  <2> QED BY <2>1, <2>2, <2>3, LastBlockIs DEF Tails
<1>5. 0 <= k
  <2>1. k < 0 => BLOCK_SIZE * k + BLOCK_SIZE <= BLOCK_SIZE * 0
    BY <1>3, BlockOrder, 0 \in Int
  <2> HIDE DEF k
  <2>2. BLOCK_SIZE * 0 = 0
    BY <1>3
  <2> QED BY <1>3, <1>4, <2>1, <2>2
<1>6. Ahead(k, H, T, Z, U)
  <2> HIDE DEF k
  <2> QED BY <1>3, <1>4, <1>5 DEF Ahead
<1>7. ASSUME NEW n \in Int
      PROVE  /\ AtWorkIn(n, cl2)' = IF n = k THEN AtWorkIn(n, cl) \cup {c} ELSE AtWorkIn(n, cl)
             /\ Busy(n, cl2)' = IF n = k THEN Busy(n, cl) \cup {c} ELSE Busy(n, cl)
  BY <1>2 DEF AtWorkIn, Busy
<1>8. ASSUME NEW n \in Int
      PROVE  InUse(n, H + 1, T, Z, U, cl2)' <=> InUse(n, H, T, Z, U, cl)
  <2>1. CASE n = k
    <3>1. AtWorkIn(n, cl2)' # {}
      BY <1>7, <2>1
    <3> QED BY <1>6, <2>1, <3>1 DEF InUse
  <2>2. CASE n # k
    <3>1. AtWorkIn(n, cl2)' = AtWorkIn(n, cl)
      BY <1>7, <2>2
    <3>2. H + 1 < BLOCK_SIZE * (n + 1) <=> H < BLOCK_SIZE * (n + 1)
      <4> HIDE DEF k
      <4>1. BLOCK_SIZE * n \in Int /\ BLOCK_SIZE * (n + 1) = BLOCK_SIZE * n + BLOCK_SIZE
        BY BlockOrder
      <4>2. BLOCK_SIZE * (n + 1) \in Int /\ BLOCK_SIZE * (n + 1) = BLOCK_SIZE * n + BLOCK_SIZE
            /\ BLOCK_SIZE * n \in Int
        BY <1>3, <4>1
      <4>3. n < k => BLOCK_SIZE * n + BLOCK_SIZE <= BLOCK_SIZE * k
        BY <1>3, BlockOrder
      <4>4. k < n => BLOCK_SIZE * k + BLOCK_SIZE <= BLOCK_SIZE * n
        BY <1>3, BlockOrder
      <4>5. CASE n < k
        BY <1>3, <4>2, <4>3, <4>5
      <4>6. CASE k < n
        BY <1>3, <4>2, <4>4, <4>6, Sizes
      <4> QED BY <1>3, <2>2, <4>5, <4>6
    <3> QED BY <3>1, <3>2 DEF InUse, Ahead
  <2> QED BY <2>1, <2>2
<1>9. ASSUME NEW n \in Int, InUse(n, H, T, Z, U, cl), Counting(n, H, bb, cl), bb[n] \in Blocks
      PROVE  Counting(n, H + 1, bb, cl2)'
  <2>1. IsFiniteSet(Busy(n, cl)) /\ c \notin Busy(n, cl) /\ Cardinality(Busy(n, cl)) \in Nat
    <3>1. Busy(n, cl) \subseteq Consumers
      BY DEF Busy
    <3>2. IsFiniteSet(Consumers)
      BY QueueAssumption
    <3>3. IsFiniteSet(Busy(n, cl))
      BY <3>1, <3>2, FS_Subset
    <3> QED BY <1>2, <3>3, FS_CardinalityType DEF Busy
  <2>2. CASE n = k
    <3>1. Cardinality(Busy(n, cl2)') = Cardinality(Busy(n, cl)) + 1
      <4>1. Busy(n, cl2)' = Busy(n, cl) \cup {c}
        BY <1>7, <2>2
      <4>2. Cardinality(Busy(n, cl) \cup {c}) = Cardinality(Busy(n, cl)) + 1
        BY <2>1, FS_AddElement
      <4> QED BY <4>1, <4>2
    <3> DEFINE x == H - BLOCK_SIZE * n
    <3>2. x \in 0..BLOCK_SIZE - 1 /\ (H + 1) - BLOCK_SIZE * n = x + 1
      BY <1>3, <2>2
    <3> HIDE DEF x
    <3>3. Clamp(x + 1) = Clamp(x) + 1 /\ Clamp(x) \in Int
      BY <1>3, <3>2 DEF Clamp
    <3>4. completed[bb[n]] + Cardinality(Busy(n, cl)) = Clamp(x)
      BY <1>9 DEF Counting, x
    <3>5. completed[bb[n]] + Cardinality(Busy(n, cl2)') = Clamp(x + 1)
      <4> DEFINE e == completed[bb[n]]
                 k1 == Cardinality(Busy(n, cl))
      <4>1. e \in Int /\ k1 \in Int /\ Cardinality(Busy(n, cl2)') = k1 + 1 /\ e + k1 = Clamp(x)
        BY <1>9, <2>1, <3>1, <3>4
      <4> HIDE DEF e, k1
      <4>2. e + (k1 + 1) = Clamp(x + 1)
        BY <3>3, <4>1
      <4> QED BY <4>1, <4>2 DEF e
    <3>6. Clamp((H + 1) - BLOCK_SIZE * n) = Clamp(x + 1)
      BY <3>2
    <3> QED BY <3>5, <3>6 DEF Counting
  <2>3. CASE n # k
    <3>1. Clamp((H + 1) - BLOCK_SIZE * n) = Clamp(H - BLOCK_SIZE * n)
      <4> HIDE DEF k
      <4>1. BLOCK_SIZE * n \in Int
        BY BlockOrder
      <4>2. n < k => BLOCK_SIZE * n + BLOCK_SIZE <= BLOCK_SIZE * k
        BY <1>3, BlockOrder
      <4>3. k < n => BLOCK_SIZE * k + BLOCK_SIZE <= BLOCK_SIZE * n
        BY <1>3, BlockOrder
      <4>4. CASE n < k
        BY <1>3, <4>1, <4>2, <4>4 DEF Clamp
      <4>5. CASE k < n
        BY <1>3, <4>1, <4>3, <4>5, Sizes DEF Clamp
      <4> QED BY <1>3, <2>3, <4>4, <4>5
    <3>2. Busy(n, cl2)' = Busy(n, cl)
      BY <1>7, <2>3
    <3> QED BY <1>9, <3>1, <3>2 DEF Counting
  <2> QED BY <2>2, <2>3
<1>10. Used(H + 1, T, Z, U, L, kn, bb, cl2)'
  <2>1. \A e : Keyed(e)' <=> Keyed(e)
    BY DEF Keyed
  <2> QED BY <1>1, <1>8, <1>9, <2>1 DEF Used
<1>11. Ages(H + 1, cl2)'
  BY <1>1, <1>2, <1>4 DEF Ages, Alone
<1>12. WorkOf(c, H + 1, kn, cl2)'
  BY <1>2 DEF WorkOf, Claimed, Tails
<1>13. Work(H + 1, kn, cl2)'
  <2>1. H + 1 \in Int /\ H <= H + 1
    OBVIOUS
  <2> QED BY <1>1, <1>2, <1>12, <2>1, WorkOthers
<1> QED BY <1>10, <1>11, <1>13 DEF Working

\* The block of a claimed element has an entry.
HasEntry(n, kn) == \E e \in Entries : Keyed(e) /\ kn[e] = n

\* A claimed element's block is among those in the index.
LEMMA EntryThere ==
  ASSUME NEW H \in Int, NEW T \in Int, NEW N \in Int, NEW Z \in Int, NEW U \in Int, NEW L \in Int,
         NEW Y \in Int, NEW kn \in [Entries -> Int], NEW bb, NEW cl \in [Consumers -> Int],
         NEW off \in [Nat -> Int], Indexed(T, Z, U, L, Y, kn, off),
         Working(H, T, Z, U, L, kn, bb, cl), Tails(H, T, N, Z),
         NEW c \in Consumers, cpc[c] \in AtWork
  PROVE  /\ NumberOf(cl[c]) \in Int /\ L <= NumberOf(cl[c]) /\ NumberOf(cl[c]) <= LastBlock(T)
         /\ LastBlock(T) \in Int /\ LastBlock(T) <= Z /\ Z <= Y
         /\ HasEntry(NumberOf(cl[c]), kn)
<1> DEFINE n == NumberOf(cl[c])
<1>1. Used(H, T, Z, U, L, kn, bb, cl) /\ Ages(H, cl)
  BY DEF Working
<1>2. n \in Int
  BY BaseOf
<1>3. InUse(n, H, T, Z, U, cl)
  BY DEF InUse, AtWorkIn
<1>4. L <= n
  BY <1>1, <1>2, <1>3 DEF Used
<1>5. n <= LastBlock(T)
  BY <1>1, AtWorkRange
<1>6. LastBlock(T) \in Int /\ LastBlock(T) <= Z /\ Z <= Y
  BY LastBlockIs DEF Tails, Indexed, Cursor
<1> HIDE DEF n
<1>7. n \in L..Y
  BY <1>2, <1>4, <1>5, <1>6
<1>8. HasEntry(n, kn)
  BY <1>7 DEF Indexed, Keys, HasEntry
<1> QED BY <1>2, <1>4, <1>5, <1>6, <1>8 DEF n

\* The index that is loaded has the entry of the element's block.
LEMMA WorkingLoadIndex ==
  ASSUME NEW H \in Int, NEW T \in Int, NEW Z \in Int, NEW U \in Int, NEW L \in Int,
         NEW Y \in Int, NEW kn \in [Entries -> Int], NEW bb, NEW cl \in [Consumers -> Int],
         NEW off \in [Nat -> Int], Indexed(T, Z, U, L, Y, kn, off),
         Working(H, T, Z, U, L, kn, bb, cl), Locals,
         NEW c \in Consumers, LoadIndex(c)
  PROVE  Working(H, T, Z, U, L, kn, bb, cl)'
<1> DEFINE r == [reg[c] EXCEPT !.blockIndex = blockIndex]
<1>1. RegShape(reg[c])
  BY DEF Locals
<1>2. RegShape(r) /\ r.blockIndex = blockIndex /\ r.index = reg[c].index
  BY <1>1, BlockIndexShape
<1>3. Move(c, "index_tail", r) /\ "index_tail" \in Labels /\ cpc[c] = "index"
      /\ UNCHANGED <<blockIndex, index, key, value, completed>>
  BY DEF LoadIndex, Labels, indexVars, blockVars
<1> HIDE DEF r
<1>4. cpc'[c] = "index_tail" /\ reg'[c] = r /\ Alone(c)
  BY <1>3, Moved DEF Alone
<1>5. WorkOf(c, H, kn, cl)'
  <2>1. WorkOf(c, H, kn, cl)
    BY DEF Working, Work
  <2>2. r.index = Wrap(cl[c])
    BY <1>2, <1>3, <2>1 DEF WorkOf, Claimed
  <2>3. blockIndex \in 1..blockIndex
    BY CurrentIndex DEF Indexed
  <2>4. \A e \in Entries : Keyed(e) => e <= Capacity(blockIndex)
    BY DEF Indexed, Keys
  <2>5. \A e \in Entries : (Keyed(e)' <=> Keyed(e))
    BY <1>3 DEF Keyed
  <2>6. index'[r.blockIndex].capacity = Capacity(blockIndex) /\ blockIndex' = blockIndex
    BY <1>2, <1>3 DEF Capacity
  <2>7. r.blockIndex \in 1..blockIndex'
        /\ \A e \in Entries : Keyed(e)' => e <= index'[r.blockIndex].capacity
    BY <1>2, <2>3, <2>4, <2>5, <2>6
  <2> QED BY <1>4, <2>2, <2>7 DEF WorkOf, Claimed, Capacity
<1> QED BY <1>3, <1>4, <1>5, WorkingMoves DEF AtWork

\* The tail that is loaded is at an entry that has been used.
LEMMA WorkingLoadTail ==
  ASSUME NEW H \in Int, NEW T \in Int, NEW N \in Int, NEW Z \in Int, NEW U \in Int, NEW L \in Int,
         NEW Y \in Int, NEW kn \in [Entries -> Int], NEW bb, NEW cl \in [Consumers -> Int],
         NEW off \in [Nat -> Int], Indexed(T, Z, U, L, Y, kn, off),
         Working(H, T, Z, U, L, kn, bb, cl), Tails(H, T, N, Z), Locals,
         NEW c \in Consumers, LoadIndexTail(c)
  PROVE  Working(H, T, Z, U, L, kn, bb, cl)'
<1> DEFINE h == reg[c].blockIndex
           r == [reg[c] EXCEPT !.pos = index[reg[c].blockIndex].tail]
<1>1. RegShape(reg[c])
  BY DEF Locals
<1>2. RegShape(r) /\ r.pos = index[h].tail /\ r.index = reg[c].index /\ r.blockIndex = h
  BY <1>1, PosShape
<1>3. Move(c, "entry", r) /\ "entry" \in Labels /\ cpc[c] = "index_tail"
      /\ UNCHANGED <<blockIndex, index, key, value, completed>>
  BY DEF LoadIndexTail, Labels, indexVars, blockVars
<1>4. WorkOf(c, H, kn, cl)
  BY DEF Working, Work
<1>5. h \in 1..blockIndex /\ reg[c].index = Wrap(cl[c])
      /\ \A e \in Entries : Keyed(e) /\ kn[e] = NumberOf(cl[c]) => e <= Capacity(h)
  BY <1>3, <1>4 DEF WorkOf, Claimed
<1> HIDE DEF r, h
<1>6. cpc'[c] = "entry" /\ reg'[c] = r /\ Alone(c)
  BY <1>3, Moved DEF Alone
<1>7. cpc[c] \in AtWork /\ cpc'[c] \in AtWork /\ cpc'[c] # "unlink" /\ cpc[c] # "unlink"
  BY <1>3, <1>6 DEF AtWork
<1>8. index[h].tail \in 0..Capacity(h) - 1
      /\ index[h].entries[index[h].tail] \in 1..Capacity(h)
  <2>1. ShapeAt(h)
    BY <1>5 DEF Indexed, Shape
  <2>2. /\ index[h].tail \in 0..Capacity(h) - 1
        /\ index[h].entries \in [0..Capacity(h) - 1 -> 1..Capacity(h)]
    BY <2>1 DEF ShapeAt
  <2> QED BY <2>2
<1>9. Keyed(index[h].entries[index[h].tail])
  <2>1. CASE h = blockIndex
    <3> DEFINE n == AtTail(T, Z, U)
    <3>1. /\ L <= NumberOf(cl[c]) /\ NumberOf(cl[c]) <= LastBlock(T) /\ NumberOf(cl[c]) \in Int
          /\ LastBlock(T) \in Int /\ LastBlock(T) <= Z /\ Z <= Y
      BY <1>7, EntryThere
    <3>2. LastBlock(T) <= U /\ U <= Z /\ (ppc \in {"tail", "block"} => Z < Y)
          /\ index[blockIndex].tail = Pos(n, off)
      BY DEF Indexed, Cursor
    <3>3. n \in L..Y
      BY <3>1, <3>2 DEF AtTail
    <3> HIDE DEF n
    <3>4. Keyed(At(n, off))
      BY <3>3, Placed DEF Indexed
    <3> QED BY <2>1, <3>2, <3>4 DEF At
  <2>2. CASE h # blockIndex
    <3>1. h < blockIndex
      BY <1>5, <2>2 DEF Indexed, Shape
    <3> QED BY <1>5, <1>8, <3>1 DEF Indexed, Keys
  <2> QED BY <2>1, <2>2
<1>10. WorkOf(c, H, kn, cl)'
  <2>1. \A e : (Keyed(e)' <=> Keyed(e))
    BY <1>3 DEF Keyed
  <2>2. index'[h].capacity = Capacity(h) /\ blockIndex' = blockIndex /\ index' = index
    BY <1>3 DEF Capacity
  <2>3. r.blockIndex \in 1..blockIndex' /\ r.index = Wrap(cl[c])
        /\ \A e \in Entries : Keyed(e)' /\ kn[e] = NumberOf(cl[c]) => e <= index'[h].capacity
    BY <1>2, <1>5, <2>1, <2>2
  <2>4. r.pos \in 0..index'[h].capacity - 1
    BY <1>2, <1>8, <2>2
  <2>5. key'[index'[h].entries[r.pos]] # INVALID_BLOCK_BASE
    BY <1>2, <1>3, <1>9, <2>2 DEF Keyed
  <2> QED BY <1>2, <1>6, <2>3, <2>4, <2>5 DEF WorkOf, Claimed, Capacity, Keyed
<1> QED BY <1>3, <1>6, <1>7, <1>10, WorkingMoves

\* A worker's registers once it has found its block.
FoundReg(s, i, e, b) == RegShape(s) /\ s.index = i /\ s.entry = e /\ s.block = b

\* LoadEntry sets them.
LEMMA FoundIs ==
  ASSUME NEW i, NEW e, NEW b
  PROVE  FoundReg([NoReg EXCEPT !.index = i, !.entry = e, !.block = b], i, e, b)
<1> DEFINE s == [NoReg EXCEPT !.index = i, !.entry = e, !.block = b]
<1>1. FoundReg(s, i, e, b)
  <2>1. RegShape(NoReg)
    BY Shapes
  <2>2. s = [[[NoReg EXCEPT !.index = i] EXCEPT !.entry = e] EXCEPT !.block = b]
    OBVIOUS
  <2> DEFINE s1 == [NoReg EXCEPT !.index = i]
             s2 == [s1 EXCEPT !.entry = e]
             s3 == [s2 EXCEPT !.block = b]
  <2>3. RegShape(s1) /\ s1.index = i
    BY <2>1, IndexShape
  <2> HIDE DEF s1
  <2>4. RegShape(s2) /\ s2.index = i /\ s2.entry = e
    BY <2>3, EntryShape
  <2> HIDE DEF s2
  <2>5. RegShape(s3) /\ s3.index = i /\ s3.entry = e /\ s3.block = b
    BY <2>4, BlockShape
  <2> QED BY <2>2, <2>5 DEF s1, s2, s3, FoundReg
<1> QED BY <1>1

\* The entry found is that of the element's block.
LEMMA WorkingLoadEntry ==
  ASSUME NEW H \in Int, NEW T \in Int, NEW N \in Int, NEW Z \in Int, NEW U \in Int, NEW L \in Int,
         NEW Y \in Int, NEW kn \in [Entries -> Int], NEW bb, NEW cl \in [Consumers -> Int],
         NEW off \in [Nat -> Int], Indexed(T, Z, U, L, Y, kn, off),
         Working(H, T, Z, U, L, kn, bb, cl), Tails(H, T, N, Z), Locals,
         NEW c \in Consumers, LoadEntry(c)
  PROVE  Working(H, T, Z, U, L, kn, bb, cl)'
<1> DEFINE h == reg[c].blockIndex
           pos == reg[c].pos
           i == reg[c].index
           x == EntryAt(h, pos, i)
           r == [NoReg EXCEPT !.index = i, !.entry = x, !.block = value[x]]
<1>1. Move(c, "element", r) /\ "element" \in Labels /\ cpc[c] = "entry"
      /\ UNCHANGED <<blockIndex, index, key, value, completed>>
  BY DEF LoadEntry, Labels, indexVars, blockVars
<1>2. WorkOf(c, H, kn, cl)
  BY DEF Working, Work
<1>3. /\ h \in 1..blockIndex /\ i = Wrap(cl[c])
      /\ \A e \in Entries : Keyed(e) /\ kn[e] = NumberOf(cl[c]) => e <= Capacity(h)
      /\ pos \in 0..Capacity(h) - 1 /\ Keyed(index[h].entries[pos])
  BY <1>1, <1>2 DEF WorkOf, Claimed
<1> HIDE DEF x, h, pos, i
<1>4. RegShape(r) /\ r.index = i /\ r.entry = x /\ r.block = value[x]
  <2>1. FoundReg(r, i, x, value[x])
    BY FoundIs
  <2> HIDE DEF r
  <2> QED BY <2>1 DEF FoundReg
<1> HIDE DEF r
<1>5. cpc'[c] = "element" /\ reg'[c] = r /\ Alone(c)
  BY <1>1, Moved DEF Alone
<1>6. cpc[c] \in AtWork /\ cpc'[c] \in AtWork /\ cpc'[c] # "unlink" /\ cpc[c] # "unlink"
  BY <1>1, <1>5 DEF AtWork
<1>7. HasEntry(NumberOf(cl[c]), kn)
  BY <1>6, EntryThere
<1>8. PICK e \in Entries : Keyed(e) /\ kn[e] = NumberOf(cl[c])
  BY <1>7 DEF HasEntry
<1>9. x = e
  <2>1. Base(i) = Wrap(BLOCK_SIZE * kn[e])
    BY <1>3, <1>8, BaseOf
  <2>2. e <= Capacity(h)
    BY <1>3, <1>8
  <2>3. EntryAt(h, pos, i) = e
    BY <1>3, <1>8, <2>1, <2>2, LookUp DEF Indexed
  <2> QED BY <2>3 DEF x
<1>10. WorkOf(c, H, kn, cl)'
  <2>1. Keyed(e)' /\ value'[e] = value[e]
    BY <1>1, <1>8 DEF Keyed
  <2>2. r.index = Wrap(cl[c]) /\ r.entry = e /\ r.block = value'[e]
    BY <1>4, <1>3, <1>9, <2>1
  <2> QED BY <1>5, <1>8, <2>1, <2>2 DEF WorkOf, Claimed
<1> QED BY <1>1, <1>5, <1>6, <1>10, WorkingMoves

\* The element is taken.
LEMMA WorkingTake ==
  ASSUME NEW H \in Int, NEW T \in Int, NEW Z \in Int, NEW U \in Int, NEW L \in Int,
         NEW kn \in [Entries -> Int], NEW bb, NEW cl \in [Consumers -> Int],
         Working(H, T, Z, U, L, kn, bb, cl), Locals,
         NEW c \in Consumers, TakeElement(c)
  PROVE  Working(H, T, Z, U, L, kn, bb, cl)'
<1> DEFINE v == elements[reg[c].block][Slot(reg[c].index)]
           r == [reg[c] EXCEPT !.index = 0, !.element = v]
<1>1. RegShape(reg[c])
  BY DEF Locals
<1>2. RegShape(r) /\ r.entry = reg[c].entry /\ r.block = reg[c].block
  BY <1>1, TakenShape
<1>3. Move(c, "empty", r) /\ "empty" \in Labels /\ cpc[c] = "element"
      /\ UNCHANGED <<blockIndex, index, key, value, completed>>
  BY DEF TakeElement, Labels, indexVars
<1> HIDE DEF r
<1>4. cpc'[c] = "empty" /\ reg'[c] = r /\ Alone(c)
  BY <1>3, Moved DEF Alone
<1>5. WorkOf(c, H, kn, cl)'
  <2>1. WorkOf(c, H, kn, cl)
    BY DEF Working, Work
  <2>2. /\ reg[c].entry \in Entries /\ Keyed(reg[c].entry) /\ kn[reg[c].entry] = NumberOf(cl[c])
        /\ reg[c].block = value[reg[c].entry]
    BY <1>3, <2>1 DEF WorkOf
  <2> QED BY <1>2, <1>3, <1>4, <2>2 DEF WorkOf, Claimed, Keyed
<1> QED BY <1>3, <1>4, <1>5, WorkingMoves DEF AtWork

\* Two blocks in use are not one.
Apart(H, T, Z, U, bb, cl) ==
  \A m, n \in Int :
    InUse(m, H, T, Z, U, cl) /\ InUse(n, H, T, Z, U, cl) /\ bb[m] = bb[n] => m = n

\* Busy consumers can be counted.
LEMMA BusyFinite ==
  ASSUME NEW n, NEW cl
  PROVE  IsFiniteSet(Busy(n, cl)) /\ Cardinality(Busy(n, cl)) \in Nat
<1>1. Busy(n, cl) \subseteq Consumers
  BY DEF Busy
<1>2. IsFiniteSet(Consumers)
  BY QueueAssumption
<1>3. IsFiniteSet(Busy(n, cl))
  BY <1>1, <1>2, FS_Subset
<1> QED BY <1>3, FS_CardinalityType

\* A busy consumer's block has not been emptied.
LEMMA NotEmptied ==
  ASSUME NEW n \in Int, NEW H \in Int, NEW bb, NEW cl, completed \in [Blocks -> Int],
         bb[n] \in Blocks, Counting(n, H, bb, cl), NEW c \in Busy(n, cl)
  PROVE  /\ completed[bb[n]] \in Int /\ completed[bb[n]] <= BLOCK_SIZE - 1
         /\ Cardinality(Busy(n, cl) \ {c}) = Cardinality(Busy(n, cl)) - 1
         /\ completed[bb[n]] = BLOCK_SIZE - 1 => BLOCK_SIZE * (n + 1) <= H
<1> DEFINE k == Cardinality(Busy(n, cl))
           x == H - BLOCK_SIZE * n
           e == completed[bb[n]]
<1>1. Cardinality(Busy(n, cl) \ {c}) = k - 1 /\ Cardinality(Busy(n, cl) \ {c}) \in Nat /\ k \in Nat
  <2>1. IsFiniteSet(Busy(n, cl)) /\ k \in Nat
    BY BusyFinite
  <2>2. Cardinality(Busy(n, cl) \ {c}) = k - 1
    BY <2>1, FS_RemoveElement
  <2>3. IsFiniteSet(Busy(n, cl) \ {c})
    BY <2>1, FS_RemoveElement
  <2>4. Cardinality(Busy(n, cl) \ {c}) \in Nat
    BY <2>3, FS_CardinalityType
  <2> QED BY <2>1, <2>2, <2>4
<1>2. k >= 1
  BY <1>1
<1>3. BLOCK_SIZE * n \in Int /\ BLOCK_SIZE * (n + 1) = BLOCK_SIZE * n + BLOCK_SIZE
  BY BlockOrder
<1>4. e \in Int /\ e + k = Clamp(x)
  BY DEF Counting
<1>5. x \in Int /\ BLOCK_SIZE \in Nat /\ k \in Int
  BY <1>1, <1>3, Sizes
<1>6. BLOCK_SIZE <= x => BLOCK_SIZE * (n + 1) <= H
  BY <1>3, Sizes
<1> HIDE DEF k, x, e
<1>7. Clamp(x) \in Int /\ Clamp(x) <= BLOCK_SIZE /\ (Clamp(x) = BLOCK_SIZE => BLOCK_SIZE <= x)
  BY <1>5, Sizes DEF Clamp
<1>8. e <= BLOCK_SIZE - 1
  BY <1>2, <1>4, <1>5, <1>7
<1>9. e = BLOCK_SIZE - 1 => Clamp(x) = BLOCK_SIZE
  BY <1>2, <1>4, <1>5, <1>7
<1> QED BY <1>1, <1>4, <1>6, <1>7, <1>8, <1>9 DEF k, e

\* c is the last at work on the n-th block, and it has no more elements.
Leaves(c, n, H, T, Z, U, cl) == AtWorkIn(n, cl) = {c} /\ ~Ahead(n, H, T, Z, U)

\* The block of a consumer that is to take it out of the index is nobody else's.
LEMMA LastAtWork ==
  ASSUME NEW H \in Int, NEW T \in Int, NEW Z \in Int, NEW U \in Int, NEW L \in Int,
         NEW kn \in [Entries -> Int], NEW bb, NEW cl \in [Consumers -> Int],
         Working(H, T, Z, U, L, kn, bb, cl), NEW c \in Consumers, cpc[c] = "unlink"
  PROVE  Leaves(c, NumberOf(cl[c]), H, T, Z, U, cl)
<1> DEFINE n == NumberOf(cl[c])
<1>1. Used(H, T, Z, U, L, kn, bb, cl) /\ Work(H, kn, cl)
  BY DEF Working
<1>2. n \in Int /\ c \in AtWorkIn(n, cl) /\ reg[c].block = bb[n] /\ Counting(n, H, bb, cl)
  <2>1. HasFound(c, n, H, T, Z, U, kn, bb, cl)
    BY <1>1, BlockFound
  <2> QED BY <2>1 DEF HasFound
<1>3. WorkOf(c, H, kn, cl)
  BY <1>1 DEF Work
<1>4. /\ BLOCK_SIZE * (n + 1) <= H /\ completed[bb[n]] = BLOCK_SIZE
      /\ \A d \in Consumers : cpc[d] = "unlink" /\ NumberOf(cl[d]) = n => d = c
  BY <1>2, <1>3 DEF WorkOf
<1>5. Busy(n, cl) = {}
  <2> HIDE DEF n
  <2>1. IsFiniteSet(Busy(n, cl)) /\ Cardinality(Busy(n, cl)) \in Nat
    BY BusyFinite
  <2>2. BLOCK_SIZE + Cardinality(Busy(n, cl)) = Clamp(H - BLOCK_SIZE * n)
    BY <1>2, <1>4 DEF Counting
  <2>3. BLOCK_SIZE * n \in Int /\ BLOCK_SIZE \in Nat
    BY <1>2, BlockOrder, Sizes
  <2>4. Clamp(H - BLOCK_SIZE * n) <= BLOCK_SIZE /\ Clamp(H - BLOCK_SIZE * n) \in Int
    BY <2>3 DEF Clamp
  <2>5. Cardinality(Busy(n, cl)) = 0
    BY <2>1, <2>2, <2>3, <2>4
  <2> QED BY <2>1, <2>5, FS_EmptySet
<1>6. \A d \in AtWorkIn(n, cl) : d \in Consumers /\ cpc[d] = "unlink" /\ NumberOf(cl[d]) = n
  BY <1>5 DEF AtWorkIn, Busy
<1>7. AtWorkIn(n, cl) = {c}
  BY <1>2, <1>4, <1>6
<1>8. ~Ahead(n, H, T, Z, U)
  <2>1. BLOCK_SIZE * n \in Int /\ BLOCK_SIZE * (n + 1) = BLOCK_SIZE * n + BLOCK_SIZE
    BY <1>2, BlockOrder
  <2> QED BY <1>2, <1>4, <2>1, Sizes DEF Ahead
<1> QED BY <1>7, <1>8 DEF Leaves

\* c counts its element: it has the block to itself if it was the last.
LEMMA WorkingEmpty ==
  ASSUME NEW H \in Int, NEW T \in Int, NEW N \in Int, NEW Z \in Int, NEW U \in Int, NEW L \in Int,
         NEW kn \in [Entries -> Int], NEW bb, NEW cl \in [Consumers -> Int],
         Working(H, T, Z, U, L, kn, bb, cl), Tails(H, T, N, Z), Locals,
         Apart(H, T, Z, U, bb, cl), completed \in [Blocks -> Int],
         NEW c \in Consumers, SetEmpty(c)
  PROVE  Working(H, T, Z, U, L, kn, bb, cl)'
<1> DEFINE n == NumberOf(cl[c])
           b == bb[n]
<1>1. Used(H, T, Z, U, L, kn, bb, cl) /\ Ages(H, cl) /\ Work(H, kn, cl)
  BY DEF Working
<1>2. cpc[c] = "empty" /\ UNCHANGED <<blockIndex, index, key, value>>
  BY DEF SetEmpty, indexVars
<1>3. /\ n \in Int /\ c \in AtWorkIn(n, cl) /\ InUse(n, H, T, Z, U, cl) /\ b \in Blocks
      /\ reg[c].block = b /\ Counting(n, H, bb, cl)
      /\ reg[c].entry \in Entries /\ Keyed(reg[c].entry) /\ kn[reg[c].entry] = n
      /\ value[reg[c].entry] = b
  <2>1. HasFound(c, n, H, T, Z, U, kn, bb, cl)
    BY <1>1, <1>2, BlockFound
  <2> QED BY <2>1 DEF HasFound
<1>4. c \in Busy(n, cl)
  BY <1>2, <1>3 DEF Busy, AtWorkIn
<1>5. /\ completed[b] \in Int /\ completed[b] <= BLOCK_SIZE - 1
      /\ Cardinality(Busy(n, cl) \ {c}) = Cardinality(Busy(n, cl)) - 1
      /\ completed[b] = BLOCK_SIZE - 1 => BLOCK_SIZE * (n + 1) <= H
  BY <1>3, <1>4, NotEmptied
<1>6. /\ completed' = [completed EXCEPT ![b] = @ + 1]
      /\ IF completed[b] = BLOCK_SIZE - 1 THEN Move(c, "unlink", reg[c]) ELSE Move(c, "idle", NoReg)
  BY <1>3 DEF SetEmpty
<1>7. completed'[b] = completed[b] + 1 /\ \A x \in Blocks : x # b => completed'[x] = completed[x]
  BY <1>3, <1>6
<1>8. /\ Alone(c)
      /\ IF completed[b] = BLOCK_SIZE - 1 THEN cpc'[c] = "unlink" /\ reg'[c] = reg[c]
         ELSE cpc'[c] = "idle"
  <2>1. CASE completed[b] = BLOCK_SIZE - 1
    <3>1. Move(c, "unlink", reg[c]) /\ "unlink" \in Labels
      BY <1>6, <2>1 DEF Labels
    <3> QED BY <2>1, <3>1, Moved DEF Alone
  <2>2. CASE completed[b] # BLOCK_SIZE - 1
    <3>1. Move(c, "idle", NoReg) /\ "idle" \in Labels
      BY <1>6, <2>2 DEF Labels
    <3> QED BY <2>2, <3>1, Moved DEF Alone
  <2> QED BY <2>1, <2>2
<1> HIDE DEF n, b
<1>9. ASSUME NEW m \in Int
      PROVE  /\ Busy(m, cl)' = IF m = n THEN Busy(m, cl) \ {c} ELSE Busy(m, cl)
             /\ AtWorkIn(m, cl)' = IF m = n /\ cpc'[c] = "idle" THEN AtWorkIn(m, cl) \ {c}
                                   ELSE AtWorkIn(m, cl)
  <2>1. cpc'[c] \in {"unlink", "idle"} /\ NumberOf(cl[c]) = n
        /\ \A d \in Consumers : d # c => cpc'[d] = cpc[d]
    BY <1>8 DEF n, Alone
  <2>2. cpc'[c] = "idle" => cpc'[c] \notin AtWork
    BY DEF AtWork
  <2>3. cpc'[c] = "unlink" => cpc'[c] \in AtWork
    BY DEF AtWork
  <2>4. cpc[c] \in AtWork /\ cpc[c] # "unlink"
    BY <1>2 DEF AtWork
  <2>5. Busy(m, cl)' = IF m = n THEN Busy(m, cl) \ {c} ELSE Busy(m, cl)
    BY <2>1, <2>2, <2>4 DEF Busy
  <2>6. AtWorkIn(m, cl)' = IF m = n /\ cpc'[c] = "idle" THEN AtWorkIn(m, cl) \ {c}
                           ELSE AtWorkIn(m, cl)
    BY <2>1, <2>2, <2>3, <2>4 DEF AtWorkIn
  <2> QED BY <2>5, <2>6
<1>10. Counting(n, H, bb, cl)'
  <2>1. completed[b] + Cardinality(Busy(n, cl)) = Clamp(H - BLOCK_SIZE * n)
    BY <1>3 DEF Counting, b
  <2>2. Busy(n, cl)' = Busy(n, cl) \ {c}
    BY <1>3, <1>9
  <2>3. Cardinality(Busy(n, cl)) \in Nat
    BY BusyFinite
  <2>4. completed'[b] + Cardinality(Busy(n, cl)') = Clamp(H - BLOCK_SIZE * n)
    BY <1>5, <1>7, <2>1, <2>2, <2>3
  <2> QED BY <2>4 DEF Counting, b
<1>11. InUse(n, H, T, Z, U, cl)'
  <2>1. CASE Ahead(n, H, T, Z, U)
    BY <2>1 DEF InUse, Ahead
  <2>2. CASE cpc'[c] = "unlink"
    BY <1>3, <1>9, <2>2 DEF InUse
  <2>3. CASE ~Ahead(n, H, T, Z, U) /\ cpc'[c] = "idle"
    <3>1. 0 <= n /\ n <= Z /\ ~(LastBlock(T) < n /\ n <= U)
      <4>1. InRange(n, T, Z, U)
        BY <1>1, <1>3, InUseRange
      <4> QED BY <4>1 DEF InRange
    <3>2. BLOCK_SIZE * n \in Int /\ BLOCK_SIZE * (n + 1) = BLOCK_SIZE * n + BLOCK_SIZE
          /\ BLOCK_SIZE \in Nat
      BY <1>3, BlockOrder, Sizes
    <3>3. H >= BLOCK_SIZE * n + BLOCK_SIZE
      BY <2>3, <3>1, <3>2 DEF Ahead
    <3>4. Clamp(H - BLOCK_SIZE * n) = BLOCK_SIZE
      BY <3>2, <3>3 DEF Clamp
    <3>5. completed'[b] + Cardinality(Busy(n, cl)') = BLOCK_SIZE
      BY <1>10, <3>4 DEF Counting, b
    <3>6. completed'[b] < BLOCK_SIZE
      BY <1>5, <1>7, <1>8, <2>3, <3>2
    <3>7. Busy(n, cl)' # {}
      <4>1. SUFFICES ASSUME Busy(n, cl)' = {} PROVE FALSE
        OBVIOUS
      <4>2. Cardinality({}) = 0
        BY FS_EmptySet
      <4>3. completed'[b] + 0 = BLOCK_SIZE
        BY <3>5, <4>1, <4>2
      <4>4. completed'[b] \in Int
        BY <1>5, <1>7
      <4> QED BY <3>2, <3>6, <4>3, <4>4
    <3>8. AtWorkIn(n, cl)' # {}
      BY <3>7 DEF Busy, AtWorkIn
    <3> QED BY <3>8 DEF InUse
  <2> QED BY <1>8, <2>1, <2>2, <2>3
<1>12. \A m \in Int : InUse(m, H, T, Z, U, cl)' <=> InUse(m, H, T, Z, U, cl)
  <2> TAKE m \in Int
  <2>1. CASE m = n
    BY <1>3, <1>11, <2>1
  <2>2. CASE m # n
    <3>1. AtWorkIn(m, cl)' = AtWorkIn(m, cl)
      BY <1>9, <2>2
    <3> QED BY <3>1 DEF InUse, Ahead
  <2> QED BY <2>1, <2>2
<1>13. Used(H, T, Z, U, L, kn, bb, cl)'
  <2>1. ASSUME NEW m \in Int, InUse(m, H, T, Z, U, cl)
        PROVE  Counting(m, H, bb, cl)'
    <3>1. CASE m = n
      BY <1>10, <3>1
    <3>2. CASE m # n
      <4>1. bb[m] # b /\ bb[m] \in Blocks /\ Counting(m, H, bb, cl)
        BY <1>1, <1>3, <2>1, <3>2 DEF Apart, Used, b
      <4>2. completed'[bb[m]] = completed[bb[m]] /\ Busy(m, cl)' = Busy(m, cl)
        BY <1>7, <1>9, <3>2, <4>1
      <4> QED BY <4>1, <4>2 DEF Counting
    <3> QED BY <3>1, <3>2
  <2>2. \A e : Keyed(e)' <=> Keyed(e)
    BY <1>2 DEF Keyed
  <2> QED BY <1>1, <1>2, <1>12, <2>1, <2>2 DEF Used
<1>14. Ages(H, cl)'
  <2>1. cpc[c] \in AtWork
    BY <1>2 DEF AtWork
  <2> QED BY <1>1, <1>8, <2>1 DEF Ages, Alone
<1>15. ASSUME NEW d \in Consumers, d # c, cpc[d] = "unlink"
       PROVE  /\ completed'[reg[d].block] = completed[reg[d].block]
              /\ ~(cpc'[c] = "unlink" /\ NumberOf(cl[c]) = NumberOf(cl[d]))
  <2> DEFINE m == NumberOf(cl[d])
  <2>1. m \in Int /\ InUse(m, H, T, Z, U, cl) /\ bb[m] \in Blocks /\ reg[d].block = bb[m]
    <3>1. HasFound(d, m, H, T, Z, U, kn, bb, cl)
      BY <1>1, <1>15, BlockFound
    <3> QED BY <3>1 DEF HasFound
  <2>2. AtWorkIn(m, cl) = {d}
    <3>1. Leaves(d, m, H, T, Z, U, cl)
      BY <1>15, LastAtWork
    <3> QED BY <3>1 DEF Leaves
  <2>3. m # n
    BY <1>3, <1>15, <2>2
  <2> HIDE DEF m
  <2>4. bb[m] # b
    BY <1>3, <2>1, <2>3 DEF Apart, b
  <2>5. completed'[reg[d].block] = completed[reg[d].block]
    BY <1>7, <2>1, <2>4
  <2> QED BY <2>3, <2>5 DEF m, n
<1>16. WorkOf(c, H, kn, cl)'
  <2>1. CASE cpc'[c] = "idle"
    BY <2>1 DEF WorkOf, Claimed
  <2>2. CASE cpc'[c] = "unlink"
    <3>1. completed[b] = BLOCK_SIZE - 1 /\ reg'[c] = reg[c]
      BY <1>8, <2>2
    <3>2. BLOCK_SIZE * (n + 1) <= H /\ completed'[b] = BLOCK_SIZE
      BY <1>5, <1>7, <3>1, Sizes
    <3>3. \A d \in Consumers : cpc'[d] = "unlink" /\ NumberOf(cl[d]) = n => d = c
      BY <1>8, <1>15, <2>2 DEF Alone, n
    <3> QED BY <1>2, <1>3, <2>2, <3>1, <3>2, <3>3 DEF WorkOf, Claimed, Keyed, n
  <2> QED BY <1>8, <2>1, <2>2
<1>17. Work(H, kn, cl)'
  <2>1. H <= H
    OBVIOUS
  <2> QED BY <1>1, <1>2, <1>8, <1>15, <1>16, <2>1, WorkOthers
<1> QED BY <1>13, <1>14, <1>17 DEF Working

\* c takes the block out of the index.
LEMMA WorkingUnlink ==
  ASSUME NEW H \in Int, NEW T \in Int, NEW Z \in Int, NEW U \in Int, NEW L \in Int,
         NEW Y \in Int, NEW kn \in [Entries -> Int], NEW bb, NEW cl \in [Consumers -> Int],
         NEW off \in [Nat -> Int], Indexed(T, Z, U, L, Y, kn, off),
         Working(H, T, Z, U, L, kn, bb, cl), Locals, value \in [Entries -> Blocks \cup {null}],
         NEW c \in Consumers, Unlink(c)
  PROVE  Working(H, T, Z, U, L, kn, bb, cl)'
<1> DEFINE n == NumberOf(cl[c])
           r == [reg[c] EXCEPT !.entry = 0]
<1>1. Used(H, T, Z, U, L, kn, bb, cl) /\ Ages(H, cl) /\ Work(H, kn, cl)
  BY DEF Working
<1>2. /\ cpc[c] = "unlink" /\ UNCHANGED <<blockIndex, index, key, completed>>
      /\ value' = [value EXCEPT ![reg[c].entry] = null]
      /\ Move(c, "release", r) /\ "release" \in Labels
  BY DEF Unlink, Labels, blockVars
<1> HIDE DEF r
<1>3. cpc'[c] = "release" /\ Alone(c)
  BY <1>2, Moved DEF Alone
<1>4. PICK x : x = reg[c].entry
  OBVIOUS
<1>5. n \in Int /\ x \in Entries /\ Keyed(x) /\ kn[x] = n
  <2>1. HasFound(c, n, H, T, Z, U, kn, bb, cl)
    BY <1>1, <1>2, BlockFound
  <2> QED BY <1>4, <2>1 DEF HasFound
<1>6. AtWorkIn(n, cl) = {c} /\ ~Ahead(n, H, T, Z, U)
  BY <1>2, LastAtWork DEF Leaves
<1>7. value'[x] = null /\ \A e \in Entries : e # x => value'[e] = value[e]
  BY <1>2, <1>4, <1>5
<1>8. \A e \in Entries : Keyed(e) /\ kn[e] = n => e = x
  BY <1>5, Placed DEF Indexed
<1>9. NumberOf(cl[c]) = n
  OBVIOUS
<1> HIDE DEF n
<1>10. /\ cpc'[c] \notin AtWork /\ cpc[c] \in AtWork /\ cpc'[c] # "unlink"
       /\ \A d \in Consumers : d # c => cpc'[d] = cpc[d]
  BY <1>2, <1>3 DEF AtWork, Alone
<1>11. ASSUME NEW m \in Int
       PROVE  /\ Busy(m, cl)' = Busy(m, cl)
              /\ AtWorkIn(m, cl)' = IF m = n THEN {} ELSE AtWorkIn(m, cl)
  <2>1. Busy(m, cl)' = Busy(m, cl)
    BY <1>2, <1>10 DEF Busy
  <2>2. AtWorkIn(m, cl)' = IF m = n THEN AtWorkIn(m, cl) \ {c} ELSE AtWorkIn(m, cl)
    BY <1>9, <1>10 DEF AtWorkIn
  <2> QED BY <1>6, <2>1, <2>2
<1>12. \A m \in Int : InUse(m, H, T, Z, U, cl)' <=> InUse(m, H, T, Z, U, cl) /\ m # n
  BY <1>6, <1>11 DEF InUse, Ahead
<1>13. Used(H, T, Z, U, L, kn, bb, cl)'
  <2>1. \A e : Keyed(e)' <=> Keyed(e)
    BY <1>2 DEF Keyed
  <2>2. ASSUME NEW m \in Int, InUse(m, H, T, Z, U, cl)'
        PROVE  /\ L <= m /\ bb[m] \in Blocks
               /\ \A e \in Entries : Keyed(e)' /\ kn[e] = m => value'[e] = bb[m]
               /\ Counting(m, H, bb, cl)'
    <3>1. InUse(m, H, T, Z, U, cl) /\ m # n
      BY <1>12, <2>2
    <3>2. /\ L <= m /\ bb[m] \in Blocks
          /\ \A e \in Entries : Keyed(e) /\ kn[e] = m => value[e] = bb[m]
          /\ Counting(m, H, bb, cl)
      BY <1>1, <3>1 DEF Used
    <3>3. Counting(m, H, bb, cl)'
      BY <1>2, <1>11, <3>2 DEF Counting
    <3> QED BY <1>5, <1>7, <2>1, <3>1, <3>2, <3>3
  <2>3. ASSUME NEW e \in Entries, value'[e] # null
        PROVE  Keyed(e)' /\ InUse(kn[e], H, T, Z, U, cl)' /\ value'[e] = bb[kn[e]]
    <3>1. e # x /\ value'[e] = value[e]
      BY <1>7, <2>3
    <3>2. Keyed(e) /\ InUse(kn[e], H, T, Z, U, cl) /\ value[e] = bb[kn[e]]
      BY <1>1, <2>3, <3>1 DEF Used
    <3>3. kn[e] # n /\ kn[e] \in Int
      BY <1>8, <3>1, <3>2
    <3> QED BY <1>12, <2>1, <3>1, <3>2, <3>3
  <2> QED BY <2>2, <2>3 DEF Used
<1>14. Ages(H, cl)'
  BY <1>1, <1>10 DEF Ages
<1>15. ASSUME NEW d \in Consumers, d # c, cpc[d] \in {"element", "empty", "unlink"}
       PROVE  value'[reg[d].entry] = value[reg[d].entry]
  <2>1. /\ d \in AtWorkIn(NumberOf(cl[d]), cl)
        /\ reg[d].entry \in Entries /\ kn[reg[d].entry] = NumberOf(cl[d])
    <3>1. HasFound(d, NumberOf(cl[d]), H, T, Z, U, kn, bb, cl)
      BY <1>1, <1>15, BlockFound
    <3> QED BY <3>1 DEF HasFound
  <2>2. NumberOf(cl[d]) # n
    BY <1>6, <1>15, <2>1
  <2> QED BY <1>5, <1>7, <2>1, <2>2
<1>16. WorkOf(c, H, kn, cl)'
  BY <1>3 DEF WorkOf, Claimed
<1>17. Work(H, kn, cl)'
  <2>1. H <= H
    OBVIOUS
  <2> QED BY <1>1, <1>2, <1>3, <1>15, <1>16, <2>1, WorkOthers
<1> QED BY <1>13, <1>14, <1>17 DEF Working

-----------------------------------------------------------------------------
(* Where each block is *)

\* Where a block can be, and which entry, consumer or number has it there.
Places == {"fresh", "free", "index", "out", "undone"}

Holders == Entries \cup Consumers \cup Int

\* A consumer is about to give b back.
Outside(c, b) == cpc[c] = "release" /\ reg[c].block = b
\* The n-th block is off the index, and not given back.
Undone(n, T, U) == LastBlock(T) < n /\ n <= U

\* A block is at one place, which holder tells more of.
PlaceOf(b, T, U, bb, place, holder) ==
  /\ b \in fresh <=> place[b] = "fresh"
  /\ b \in free <=> place[b] = "free"
  /\ \A e \in Entries : value[e] = b <=> place[b] = "index" /\ holder[b] = e
  /\ \A c \in Consumers : Outside(c, b) <=> place[b] = "out" /\ holder[b] = c
  /\ \A n \in Int : Undone(n, T, U) /\ bb[n] = b <=> place[b] = "undone" /\ holder[b] = n
  /\ place[b] = "index" => holder[b] \in Entries
  /\ place[b] = "out" => holder[b] \in Consumers
  /\ place[b] = "undone" => holder[b] \in Int

\* Every block is at one place.
Owned(T, U, bb, place, holder) ==
  /\ place \in [Blocks -> Places] /\ holder \in [Blocks -> Holders]
  /\ value \in [Entries -> Blocks \cup {null}]
  /\ fresh \subseteq Blocks /\ free \subseteq Blocks
  /\ \A b \in Blocks : PlaceOf(b, T, U, bb, place, holder)

\* Steps that move no block.
LEMMA OwnedStays ==
  ASSUME NEW T \in Int, NEW U \in Int, NEW bb, NEW place, NEW holder,
         Owned(T, U, bb, place, holder), UNCHANGED <<fresh, free, value>>,
         NEW T2 \in Int, NEW U2 \in Int,
         \A n \in Int : Undone(n, T2, U2) <=> Undone(n, T, U),
         \A c \in Consumers : cpc'[c] = "release" <=> cpc[c] = "release",
         \A c \in Consumers : cpc[c] = "release" => reg'[c] = reg[c]
  PROVE  Owned(T2, U2, bb, place, holder)'
<1>1. ASSUME NEW b \in Blocks
      PROVE  PlaceOf(b, T2, U2, bb, place, holder)'
  <2>1. PlaceOf(b, T, U, bb, place, holder)
    BY DEF Owned
  <2>2. \A c \in Consumers : Outside(c, b)' <=> Outside(c, b)
    BY DEF Outside
  <2>3. \A n \in Int : Undone(n, T2, U2)' <=> Undone(n, T, U)
    BY DEF Undone
  <2> QED BY <2>1, <2>2, <2>3 DEF PlaceOf
<1> QED BY <1>1 DEF Owned

\* One block moves.
LEMMA OwnedMove ==
  ASSUME NEW T \in Int, NEW U \in Int, NEW bb, NEW place, NEW holder,
         Owned(T, U, bb, place, holder),
         NEW b \in Blocks, NEW p \in Places, NEW h \in Holders,
         NEW place2, place2 = [place EXCEPT ![b] = p],
         NEW holder2, holder2 = [holder EXCEPT ![b] = h],
         value' \in [Entries -> Blocks \cup {null}], fresh' \subseteq Blocks, free' \subseteq Blocks,
         NEW T2 \in Int, NEW U2 \in Int, NEW bb2,
         \A a \in Blocks : a # b =>
           /\ a \in fresh' <=> a \in fresh
           /\ a \in free' <=> a \in free
           /\ \A e \in Entries : value'[e] = a <=> value[e] = a
           /\ \A c \in Consumers : Outside(c, a)' <=> Outside(c, a)
           /\ \A n \in Int : Undone(n, T2, U2) /\ bb2[n] = a <=> Undone(n, T, U) /\ bb[n] = a,
         PlaceOf(b, T2, U2, bb2, place2, holder2)'
  PROVE  Owned(T2, U2, bb2, place2, holder2)'
<1>1. place2 \in [Blocks -> Places] /\ holder2 \in [Blocks -> Holders]
  BY DEF Owned
<1>2. ASSUME NEW a \in Blocks
      PROVE  PlaceOf(a, T2, U2, bb2, place2, holder2)'
  <2>1. CASE a = b
    BY <2>1
  <2>2. CASE a # b
    <3>1. PlaceOf(a, T, U, bb, place, holder)
      BY DEF Owned
    <3>2. place2[a] = place[a] /\ holder2[a] = holder[a]
      BY <2>2 DEF Owned
    <3>3. \A n \in Int : Undone(n, T2, U2)' <=> Undone(n, T2, U2)
      BY DEF Undone
    <3> QED BY <2>2, <3>1, <3>2, <3>3 DEF PlaceOf
  <2> QED BY <2>1, <2>2
<1> QED BY <1>1, <1>2 DEF Owned

\* Nothing is undone.
NotHeld(b) == \A e \in Entries : value[e] # b

\* Nothing is undone.
NoneUndone(T, U) == \A n \in Int : ~Undone(n, T, U)

\* A block is acquired and goes into an entry.
LEMMA OwnedBlock ==
  ASSUME NEW T \in Int, NEW U \in Int, NEW bb, NEW place, NEW holder,
         Owned(T, U, bb, place, holder), NoneUndone(T, U),
         NEW x \in Entries, value[x] = null,
         NEW b \in Blocks, Requisition(b), UNCHANGED <<cpc, reg>>,
         value' = [value EXCEPT ![x] = b], NEW bb2
  PROVE  /\ Owned(T, U, bb2, [place EXCEPT ![b] = "index"], [holder EXCEPT ![b] = x])'
         /\ NotHeld(b)
<1> DEFINE place2 == [place EXCEPT ![b] = "index"]
           holder2 == [holder EXCEPT ![b] = x]
<1>1. null \notin Blocks
  BY QueueAssumption
<1>2. PlaceOf(b, T, U, bb, place, holder)
  BY DEF Owned
<1>3. place[b] \in {"fresh", "free"}
  BY <1>2 DEF Requisition, PlaceOf
<1>4. \A e \in Entries : value[e] # b
  BY <1>2, <1>3 DEF PlaceOf
<1>5. place2[b] = "index" /\ holder2[b] = x /\ "index" \in Places /\ x \in Holders
  BY DEF Owned, Places, Holders
<1>6. value'[x] = b /\ \A e \in Entries : e # x => value'[e] = value[e]
  BY DEF Owned
<1>7. b \notin fresh' /\ b \notin free'
  BY <1>2, <1>3 DEF Requisition, PlaceOf
<1>8. \A c \in Consumers : \A a : Outside(c, a)' <=> Outside(c, a)
  BY DEF Outside
<1>9. \A n \in Int : ~Undone(n, T, U) /\ ~Undone(n, T, U)'
  BY DEF NoneUndone, Undone
<1>10. PlaceOf(b, T, U, bb2, place2, holder2)'
  <2>1. \A e \in Entries : value'[e] = b <=> holder2[b] = e
    BY <1>4, <1>5, <1>6
  <2>2. \A c \in Consumers : ~Outside(c, b)'
    BY <1>2, <1>3, <1>8 DEF PlaceOf
  <2> HIDE DEF place2, holder2
  <2> QED BY <1>5, <1>7, <1>9, <2>1, <2>2 DEF PlaceOf
<1>11. ASSUME NEW a \in Blocks, a # b
       PROVE  /\ a \in fresh' <=> a \in fresh
              /\ a \in free' <=> a \in free
              /\ \A e \in Entries : value'[e] = a <=> value[e] = a
              /\ \A n \in Int : Undone(n, T, U) /\ bb2[n] = a <=> Undone(n, T, U) /\ bb[n] = a
  BY <1>1, <1>6, <1>9, <1>11 DEF Requisition
<1>12. value' \in [Entries -> Blocks \cup {null}] /\ fresh' \subseteq Blocks /\ free' \subseteq Blocks
  BY DEF Owned, Requisition
<1>13. Owned(T, U, bb2, place2, holder2)'
  <2> DEFINE p2 == place2
  <2> HIDE DEF PlaceOf
  <2> QED BY <1>5, <1>8, <1>10, <1>11, <1>12, OwnedMove
<1> QED BY <1>4, <1>13 DEF NotHeld

\* A block of the batch is taken out of the index.
LEMMA OwnedUndo ==
  ASSUME NEW T \in Int, NEW U \in Int, NEW bb, NEW place, NEW holder,
         Owned(T, U, bb, place, holder), LastBlock(T) <= U,
         NEW x \in Entries, value[x] = bb[U + 1], bb[U + 1] \in Blocks,
         UNCHANGED <<cpc, reg, fresh, free>>, value' = [value EXCEPT ![x] = null],
         NEW b, b = bb[U + 1]
  PROVE  Owned(T, U + 1, bb, [place EXCEPT ![b] = "undone"], [holder EXCEPT ![b] = U + 1])'
<1> DEFINE place2 == [place EXCEPT ![b] = "undone"]
           holder2 == [holder EXCEPT ![b] = U + 1]
<1>1. null \notin Blocks /\ LastBlock(T) \in Int
  BY QueueAssumption, LastBlockIs
<1>2. PlaceOf(b, T, U, bb, place, holder)
  BY DEF Owned
<1>3. place[b] = "index" /\ holder[b] = x
  BY <1>2 DEF PlaceOf
<1>4. place2[b] = "undone" /\ holder2[b] = U + 1 /\ "undone" \in Places /\ U + 1 \in Holders
      /\ U + 1 \in Int
  BY DEF Owned, Places, Holders
<1>5. value'[x] = null /\ \A e \in Entries : e # x => value'[e] = value[e]
  BY DEF Owned
<1>6. \A c \in Consumers : \A a : Outside(c, a)' <=> Outside(c, a)
  BY DEF Outside
<1>7. \A n \in Int : (Undone(n, T, U + 1) <=> Undone(n, T, U) \/ n = U + 1)
                    /\ (Undone(n, T, U + 1)' <=> Undone(n, T, U + 1))
  BY <1>1 DEF Undone
<1>8. ~Undone(U + 1, T, U)
  BY <1>1 DEF Undone
<1>9. PlaceOf(b, T, U + 1, bb, place2, holder2)'
  <2>1. \A e \in Entries : value'[e] # b
    BY <1>1, <1>2, <1>3, <1>5 DEF PlaceOf
  <2>2. \A c \in Consumers : ~Outside(c, b)'
    BY <1>2, <1>3, <1>6 DEF PlaceOf
  <2>3. \A n \in Int : Undone(n, T, U + 1)' /\ bb[n] = b <=> n = U + 1
    BY <1>2, <1>3, <1>7 DEF PlaceOf
  <2>4. b \notin fresh' /\ b \notin free'
    BY <1>2, <1>3 DEF PlaceOf
  <2> HIDE DEF place2, holder2
  <2> QED BY <1>4, <2>1, <2>2, <2>3, <2>4 DEF PlaceOf
<1>10. ASSUME NEW a \in Blocks, a # b
       PROVE  /\ a \in fresh' <=> a \in fresh
              /\ a \in free' <=> a \in free
              /\ \A e \in Entries : value'[e] = a <=> value[e] = a
              /\ \A n \in Int : Undone(n, T, U + 1) /\ bb[n] = a <=> Undone(n, T, U) /\ bb[n] = a
  BY <1>1, <1>5, <1>7, <1>10
<1>11. value' \in [Entries -> Blocks \cup {null}] /\ fresh' \subseteq Blocks /\ free' \subseteq Blocks
  BY DEF Owned
<1> QED BY <1>4, <1>6, <1>9, <1>10, <1>11, OwnedMove

\* The blocks taken out again are given back.
UndoneBlocks(C, T, U, bb) ==
  /\ C \subseteq Blocks
  /\ \A b \in Blocks : b \in C <=> \E n \in Int : Undone(n, T, U) /\ bb[n] = b

\* They are given back.
LEMMA OwnedGiveUp ==
  ASSUME NEW T \in Int, NEW U \in Int, NEW bb, NEW place, NEW holder,
         Owned(T, U, bb, place, holder), UNCHANGED <<cpc, reg, fresh, value>>,
         NEW C, free' = free \cup C, UndoneBlocks(C, T, U, bb),
         NEW T2 \in Int, NEW U2 \in Int, NoneUndone(T2, U2)
  PROVE  Owned(T2, U2, bb, [b \in Blocks |-> IF place[b] = "undone" THEN "free" ELSE place[b]],
               holder)'
<1> DEFINE place2 == [b \in Blocks |-> IF place[b] = "undone" THEN "free" ELSE place[b]]
<1>1. place2 \in [Blocks -> Places]
  BY DEF Owned, Places
<1>2. ASSUME NEW b \in Blocks
      PROVE  PlaceOf(b, T2, U2, bb, place2, holder)'
  <2>1. PlaceOf(b, T, U, bb, place, holder)
    BY DEF Owned
  <2>2. \A c \in Consumers : Outside(c, b)' <=> Outside(c, b)
    BY DEF Outside
  <2>3. \A n \in Int : ~Undone(n, T2, U2)'
    BY DEF NoneUndone, Undone
  <2>4. b \in C <=> place[b] = "undone"
    BY <2>1 DEF PlaceOf, UndoneBlocks
  <2>5. place2[b] = IF place[b] = "undone" THEN "free" ELSE place[b]
    OBVIOUS
  <2> HIDE DEF place2
  <2> QED BY <2>1, <2>2, <2>3, <2>4, <2>5 DEF PlaceOf
<1> QED BY <1>1, <1>2 DEF Owned, UndoneBlocks

\* A consumer takes a block out of the index.
LEMMA OwnedUnlink ==
  ASSUME NEW T \in Int, NEW U \in Int, NEW bb, NEW place, NEW holder,
         Owned(T, U, bb, place, holder), UNCHANGED <<fresh, free>>,
         NEW c \in Consumers, Alone(c), cpc[c] # "release", cpc'[c] = "release",
         NEW x \in Entries, NEW b \in Blocks, value[x] = b, reg'[c].block = b,
         value' = [value EXCEPT ![x] = null]
  PROVE  Owned(T, U, bb, [place EXCEPT ![b] = "out"], [holder EXCEPT ![b] = c])'
<1> DEFINE place2 == [place EXCEPT ![b] = "out"]
           holder2 == [holder EXCEPT ![b] = c]
<1>1. null \notin Blocks
  BY QueueAssumption
<1>2. PlaceOf(b, T, U, bb, place, holder)
  BY DEF Owned
<1>3. place[b] = "index" /\ holder[b] = x
  BY <1>2 DEF PlaceOf
<1>4. place2[b] = "out" /\ holder2[b] = c /\ "out" \in Places /\ c \in Holders
  BY DEF Owned, Places, Holders
<1>5. value'[x] = null /\ \A e \in Entries : e # x => value'[e] = value[e]
  BY DEF Owned
<1>6. \A d \in Consumers : \A a : Outside(d, a)' <=> IF d = c THEN a = b ELSE Outside(d, a)
  BY DEF Outside, Alone
<1>7. \A n \in Int : Undone(n, T, U)' <=> Undone(n, T, U)
  BY DEF Undone
<1>8. \A a : ~Outside(c, a)
  BY DEF Outside
<1>9. PlaceOf(b, T, U, bb, place2, holder2)'
  <2>1. \A e \in Entries : value'[e] # b
    BY <1>1, <1>2, <1>3, <1>5 DEF PlaceOf
  <2>2. \A d \in Consumers : Outside(d, b)' <=> d = c
    BY <1>2, <1>3, <1>6 DEF PlaceOf
  <2>3. \A n \in Int : ~(Undone(n, T, U)' /\ bb[n] = b)
    BY <1>2, <1>3, <1>7 DEF PlaceOf
  <2>4. b \notin fresh' /\ b \notin free'
    BY <1>2, <1>3 DEF PlaceOf
  <2> HIDE DEF place2, holder2
  <2> QED BY <1>4, <2>1, <2>2, <2>3, <2>4 DEF PlaceOf
<1>10. ASSUME NEW a \in Blocks, a # b
       PROVE  /\ a \in fresh' <=> a \in fresh
              /\ a \in free' <=> a \in free
              /\ \A e \in Entries : value'[e] = a <=> value[e] = a
              /\ \A d \in Consumers : Outside(d, a)' <=> Outside(d, a)
              /\ \A n \in Int : Undone(n, T, U) /\ bb[n] = a <=> Undone(n, T, U) /\ bb[n] = a
  BY <1>1, <1>5, <1>6, <1>8, <1>10
<1>11. value' \in [Entries -> Blocks \cup {null}] /\ fresh' \subseteq Blocks /\ free' \subseteq Blocks
  BY DEF Owned
<1> QED BY <1>4, <1>9, <1>10, <1>11, OwnedMove

\* It gives the block back.
LEMMA OwnedRelease ==
  ASSUME NEW T \in Int, NEW U \in Int, NEW bb, NEW place, NEW holder,
         Owned(T, U, bb, place, holder), UNCHANGED <<fresh, value>>,
         NEW c \in Consumers, Alone(c), cpc[c] = "release", cpc'[c] # "release",
         NEW b \in Blocks, reg[c].block = b, free' = free \cup {b}
  PROVE  Owned(T, U, bb, [place EXCEPT ![b] = "free"], holder)'
<1> DEFINE place2 == [place EXCEPT ![b] = "free"]
           holder2 == [holder EXCEPT ![b] = holder[b]]
<1>1. PlaceOf(b, T, U, bb, place, holder)
  BY DEF Owned
<1>2. place[b] = "out" /\ holder[b] = c
  BY <1>1 DEF PlaceOf, Outside
<1>3. place2[b] = "free" /\ holder2 = holder /\ "free" \in Places /\ holder[b] \in Holders
  BY DEF Owned, Places
<1>4. \A d \in Consumers : \A a : Outside(d, a)' <=> d # c /\ Outside(d, a)
  BY DEF Outside, Alone
<1>5. \A n \in Int : Undone(n, T, U)' <=> Undone(n, T, U)
  BY DEF Undone
<1>6. \A a : Outside(c, a) <=> a = b
  BY DEF Outside
<1>7. PlaceOf(b, T, U, bb, place2, holder)'
  <2>1. \A e \in Entries : value'[e] # b
    BY <1>1, <1>2 DEF PlaceOf
  <2>2. \A d \in Consumers : ~Outside(d, b)'
    BY <1>1, <1>2, <1>4 DEF PlaceOf
  <2>3. \A n \in Int : ~(Undone(n, T, U)' /\ bb[n] = b)
    BY <1>1, <1>2, <1>5 DEF PlaceOf
  <2>4. b \notin fresh' /\ b \in free'
    BY <1>1, <1>2 DEF PlaceOf
  <2> HIDE DEF place2
  <2> QED BY <1>3, <2>1, <2>2, <2>3, <2>4 DEF PlaceOf
<1>8. ASSUME NEW a \in Blocks, a # b
      PROVE  /\ a \in fresh' <=> a \in fresh
             /\ a \in free' <=> a \in free
             /\ \A e \in Entries : value'[e] = a <=> value[e] = a
             /\ \A d \in Consumers : Outside(d, a)' <=> Outside(d, a)
             /\ \A n \in Int : Undone(n, T, U) /\ bb[n] = a <=> Undone(n, T, U) /\ bb[n] = a
  BY <1>4, <1>6, <1>8
<1>9. value' \in [Entries -> Blocks \cup {null}] /\ fresh' \subseteq Blocks /\ free' \subseteq Blocks
  BY DEF Owned
<1>10. Owned(T, U, bb, place2, holder2)'
  <2>1. PlaceOf(b, T, U, bb, place2, holder2)'
    BY <1>3, <1>7
  <2> QED BY <1>3, <1>8, <1>9, <2>1, OwnedMove
<1> QED BY <1>3, <1>10

-----------------------------------------------------------------------------
(* Elements are found *)

\* The n-th block has an entry, with the block.
UsedEntry(n, kn, bb) ==
  \E e \in Entries : Keyed(e) /\ kn[e] = n /\ value[e] = bb[n] /\ bb[n] \in Blocks

\* A block in use has an entry.
LEMMA InUseEntry ==
  ASSUME NEW H \in Int, NEW T \in Int, NEW N \in Int, NEW Z \in Int, NEW U \in Int, NEW L \in Int,
         NEW Y \in Int, NEW kn \in [Entries -> Int], NEW bb, NEW cl \in [Consumers -> Int],
         NEW off \in [Nat -> Int], Indexed(T, Z, U, L, Y, kn, off),
         Working(H, T, Z, U, L, kn, bb, cl), Tails(H, T, N, Z),
         NEW n \in Int, InUse(n, H, T, Z, U, cl)
  PROVE  UsedEntry(n, kn, bb)
<1>1. Used(H, T, Z, U, L, kn, bb, cl) /\ Ages(H, cl)
  BY DEF Working
<1>2. InRange(n, T, Z, U)
  BY <1>1, InUseRange
<1>3. n \in L..Y
  BY <1>1, <1>2 DEF InRange, Used, Indexed, Cursor
<1>4. PICK e \in Entries : Keyed(e) /\ kn[e] = n
  BY <1>3 DEF Indexed, Keys
<1>5. value[e] = bb[n] /\ bb[n] \in Blocks
  BY <1>1, <1>4 DEF Used
<1> QED BY <1>4, <1>5 DEF UsedEntry

\* Blocks in use are not the same: each has its entry.
LEMMA ApartFrom ==
  ASSUME NEW H \in Int, NEW T \in Int, NEW N \in Int, NEW Z \in Int, NEW U \in Int, NEW L \in Int,
         NEW Y \in Int, NEW kn \in [Entries -> Int], NEW bb, NEW cl \in [Consumers -> Int],
         NEW off \in [Nat -> Int], Indexed(T, Z, U, L, Y, kn, off),
         Working(H, T, Z, U, L, kn, bb, cl), Tails(H, T, N, Z),
         NEW place, NEW holder, Owned(T, U, bb, place, holder)
  PROVE  Apart(H, T, Z, U, bb, cl)
<1>1. ASSUME NEW m \in Int, NEW n \in Int, InUse(m, H, T, Z, U, cl), InUse(n, H, T, Z, U, cl),
             bb[m] = bb[n]
      PROVE  m = n
  <2>1. UsedEntry(m, kn, bb) /\ UsedEntry(n, kn, bb)
    BY <1>1, InUseEntry
  <2>2. PICK e \in Entries : kn[e] = m /\ value[e] = bb[m] /\ bb[m] \in Blocks
    BY <2>1 DEF UsedEntry
  <2>3. PICK f \in Entries : kn[f] = n /\ value[f] = bb[n]
    BY <2>1 DEF UsedEntry
  <2>4. PICK b \in Blocks : b = bb[m]
    BY <2>2
  <2>5. PlaceOf(b, T, U, bb, place, holder)
    BY DEF Owned
  <2>6. e = f
    BY <1>1, <2>2, <2>3, <2>4, <2>5 DEF PlaceOf
  <2> QED BY <2>2, <2>3, <2>6
<1> QED BY <1>1 DEF Apart

\* A block that is not in the index is not in use.
LEMMA NotInUse ==
  ASSUME NEW H \in Int, NEW T \in Int, NEW N \in Int, NEW Z \in Int, NEW U \in Int, NEW L \in Int,
         NEW Y \in Int, NEW kn \in [Entries -> Int], NEW bb, NEW cl \in [Consumers -> Int],
         NEW off \in [Nat -> Int], Indexed(T, Z, U, L, Y, kn, off),
         Working(H, T, Z, U, L, kn, bb, cl), Tails(H, T, N, Z),
         NEW b, NotHeld(b)
  PROVE  NotUsed(b, H, T, Z, U, bb, cl)
<1> SUFFICES ASSUME NEW n \in Int, InUse(n, H, T, Z, U, cl) PROVE bb[n] # b
  BY DEF NotUsed
<1>1. PICK e \in Entries : value[e] = bb[n]
  BY InUseEntry DEF UsedEntry
<1> QED BY <1>1 DEF NotHeld

\* The tail's entry has been used, where a block is in use.
LEMMA TailUsed ==
  ASSUME NEW T \in Int, NEW Z \in Int, NEW U \in Int, NEW L \in Int,
         NEW Y \in Int, NEW kn \in [Entries -> Int],
         NEW off \in [Nat -> Int], Indexed(T, Z, U, L, Y, kn, off),
         L <= LastBlock(T) \/ U < Z
  PROVE  /\ index[blockIndex].tail \in 0..Capacity(blockIndex) - 1
         /\ Keyed(index[blockIndex].entries[index[blockIndex].tail])
<1> DEFINE n == AtTail(T, Z, U)
<1>1. /\ LastBlock(T) <= U /\ U <= Z /\ (ppc \in {"tail", "block"} => Z < Y) /\ L <= LastBlock(T) + 1
      /\ Z <= Y /\ index[blockIndex].tail = Pos(n, off)
  BY DEF Indexed, Cursor
<1>2. LastBlock(T) \in Int
  BY LastBlockIs
<1>3. n \in L..Y
  BY <1>1, <1>2 DEF AtTail
<1> HIDE DEF n
<1>4. Keyed(At(n, off))
  BY <1>3, Placed DEF Indexed
<1>5. n \in Int
  BY <1>3
<1>6. Pos(n, off) \in 0..Capacity(blockIndex) - 1
  BY <1>5, Placed DEF Indexed
<1> QED BY <1>1, <1>4, <1>6 DEF At

\* How the current index is searched.
TailSet(T, Z, U, L) == L <= LastBlock(T) \/ U < Z

\* Entry e is for index i.
MeantBy(i, e, kn) == Base(i) = Wrap(BLOCK_SIZE * kn[e])

\* The current index is searched from there.
LEMMA FoundAt ==
  ASSUME NEW T \in Int, NEW Z \in Int, NEW U \in Int, NEW L \in Int,
         NEW Y \in Int, NEW kn \in [Entries -> Int],
         NEW off \in [Nat -> Int], Indexed(T, Z, U, L, Y, kn, off),
         TailSet(T, Z, U, L),
         NEW e \in Entries, Keyed(e), NEW i, MeantBy(i, e, kn)
  PROVE  EntryFor(i) = e
<1>1. PICK h \in 1..blockIndex : h = blockIndex
  BY CurrentIndex DEF Indexed
<1>2. PICK pos \in 0..Capacity(h) - 1 : pos = index[h].tail /\ Keyed(index[h].entries[pos])
  BY <1>1, TailUsed DEF TailSet
<1>3. e <= Capacity(h)
  BY <1>1 DEF Indexed, Keys
<1>4. Shape /\ Keys(L, Y, kn, off)
  BY DEF Indexed
<1>5. Keyed(index[h].entries[pos])
  BY <1>2
<1>6. EntryAt(h, pos, i) = e
  BY <1>3, <1>4, <1>5, LookUp DEF MeantBy
<1> QED BY <1>1, <1>2, <1>6 DEF EntryFor

\* What a claim's index leads to.
InPlace(i, bb) == Found(Wrap(i)) = elements[bb[NumberOf(i)]][Slot(i)]
\* Index i is of an element before T, of a block in use.
NeededAt(i, H, T, Z, U, cl) == i < T /\ InUse(NumberOf(i), H, T, Z, U, cl)

\* Such an element is where it belongs.
LEMMA FoundNow ==
  ASSUME NEW H \in Int, NEW T \in Int, NEW N \in Int, NEW Z \in Int, NEW U \in Int, NEW L \in Int,
         NEW Y \in Int, NEW kn \in [Entries -> Int], NEW bb, NEW cl \in [Consumers -> Int],
         NEW off \in [Nat -> Int], Indexed(T, Z, U, L, Y, kn, off),
         Working(H, T, Z, U, L, kn, bb, cl), Tails(H, T, N, Z),
         NEW i \in Int, NeededAt(i, H, T, Z, U, cl)
  PROVE  InPlace(i, bb)
<1>1. i < T /\ InUse(NumberOf(i), H, T, Z, U, cl)
  BY DEF NeededAt
<1> DEFINE n == NumberOf(i)
<1>2. n \in Int /\ Base(Wrap(i)) = Wrap(BLOCK_SIZE * n) /\ Slot(Wrap(i)) = Slot(i)
  BY BaseOf
<1>3. n <= LastBlock(T) /\ LastBlock(T) \in Int
  <2>1. LastBlock(i + 1) = n
    BY DEF LastBlock
  <2>2. LastBlock(i + 1) <= LastBlock(T)
    BY <1>1, LastBlockGrows
  <2> QED BY <2>1, <2>2, LastBlockIs
<1> HIDE DEF n
<1>4. InUse(n, H, T, Z, U, cl)
  BY <1>1 DEF n
<1>5. UsedEntry(n, kn, bb)
  BY <1>2, <1>4, InUseEntry
<1>6. PICK e \in Entries : Keyed(e) /\ kn[e] = n /\ value[e] = bb[n]
  BY <1>5 DEF UsedEntry
<1>7. Keyed(e) /\ kn[e] = n
  BY <1>6
<1>8. L <= n
  BY <1>2, <1>4 DEF Working, Used
<1>9. L <= LastBlock(T)
  BY <1>2, <1>3, <1>8
<1>10. EntryFor(Wrap(i)) = e
  <2>1. PICK w : w = Wrap(i)
    OBVIOUS
  <2>2. MeantBy(w, e, kn)
    BY <1>2, <1>7, <2>1 DEF MeantBy
  <2>3. TailSet(T, Z, U, L)
    BY <1>9 DEF TailSet
  <2>4. EntryFor(w) = e
    BY <1>7, <2>2, <2>3, FoundAt
  <2> QED BY <2>1, <2>4
<1> QED BY <1>2, <1>6, <1>10 DEF InPlace, Found, n

-----------------------------------------------------------------------------
(* The batch *)

\* The blocks from the T-th element's to the Z-th are linked, and no others.
Chained(T, Z, bb) ==
  /\ \A n \in Int : NumberOf(T) <= n /\ n <= Z => bb[n] \in Blocks
  /\ \A m, n \in Int :
       NumberOf(T) <= m /\ m <= Z /\ NumberOf(T) <= n /\ n <= Z /\ bb[m] = bb[n] => m = n
  /\ \A n \in Int : NumberOf(T) <= n /\ n < Z => chain[bb[n]] = bb[n + 1]
  /\ \A b \in Blocks : chain[b] # null =>
       \E n \in Int : NumberOf(T) <= n /\ n < Z /\ b = bb[n]

\* The batch's blocks are on the chain from firstBlock.
Reached(T, Z, bb) ==
  \A n \in Int : LastBlock(T) < n /\ n <= Z => bb[n] \in ChainFrom(firstBlock)

\* The locals of enqueue_bulk; P elements are written.
Pointers(T, N, Z, U, P, bb) ==
  /\ T <= P /\ P <= N
  /\ ppc \notin {"fill", "publish"} => P = T
  /\ ppc = "publish" => P = N
  /\ ppc = "idle" => firstBlock = null /\ (Slot(T) # 0 => tailBlock = bb[LastBlock(T)])
  /\ ppc # "idle" =>
       /\ Slot(T) # 0 => startBlock = bb[LastBlock(T)]
       /\ firstBlock = IF LastBlock(T) < Z THEN bb[LastBlock(T) + 1] ELSE null
       /\ NumberOf(T) <= Z => endBlock = bb[Z]
       /\ Z = LastBlock(T) => endBlock = startBlock
       /\ Reached(T, Z, bb)
  /\ ppc \in {"find", "key", "tail", "block", "publish"} => tailBlock = endBlock
  /\ ppc = "undo" =>
       /\ current = Wrap(BLOCK_SIZE * U)
       /\ undo = IF U < Z THEN bb[U + 1] ELSE null
  /\ ppc = "fill" =>
       /\ current = Wrap(P)
       /\ tailBlock = IF NumberOf(P) <= Z THEN bb[NumberOf(P)] ELSE endBlock

\* The batch.
Batch(T, N, Z, U, P, bb) == Chained(T, Z, bb) /\ Pointers(T, N, Z, U, P, bb)

\* The block of the next element is that of the last one, or the next block.
LEMMA Edge ==
  ASSUME NEW i \in Int
  PROVE  /\ NumberOf(i) \in Int /\ LastBlock(i) \in Int
         /\ Slot(i) # 0 => NumberOf(i) = LastBlock(i)
         /\ Slot(i) = 0 => NumberOf(i) = LastBlock(i) + 1
         /\ BLOCK_SIZE * NumberOf(i) <= i /\ i < BLOCK_SIZE * NumberOf(i) + BLOCK_SIZE
<1> DEFINE n == NumberOf(i)
           s == Slot(i)
<1>1. n \in Int /\ s \in 0..BLOCK_SIZE - 1 /\ i = BLOCK_SIZE * n + s /\ BLOCK_SIZE * n \in Int
  BY InBlock
<1>2. BLOCK_SIZE \in Nat /\ BLOCK_SIZE >= 2
  BY Sizes
<1> HIDE DEF n, s
<1>3. CASE s # 0
  <2>1. s - 1 \in 0..BLOCK_SIZE - 1 /\ i - 1 = BLOCK_SIZE * n + (s - 1)
    BY <1>1, <1>2, <1>3
  <2>2. NumberOf(BLOCK_SIZE * n + (s - 1)) = n
    BY <1>1, <2>1, BlockOf
  <2>3. LastBlock(i) = n
    BY <2>1, <2>2 DEF LastBlock
  <2> QED BY <1>1, <1>2, <1>3, <2>3 DEF n, s
<1>4. CASE s = 0
  <2>1. PICK k \in Int : k + 1 = n
    <3>1. n - 1 \in Int /\ (n - 1) + 1 = n
      BY <1>1
    <3> QED BY <3>1
  <2>2. BLOCK_SIZE - 1 \in 0..BLOCK_SIZE - 1
    BY <1>1, <1>2
  <2>3. NumberOf(BLOCK_SIZE * k + (BLOCK_SIZE - 1)) = k
    BY <2>2, BlockOf
  <2>4. BLOCK_SIZE * n = BLOCK_SIZE * k + BLOCK_SIZE /\ BLOCK_SIZE * k \in Int
    BY <2>1, BlockOrder
  <2>5. i - 1 = BLOCK_SIZE * k + (BLOCK_SIZE - 1)
    BY <1>1, <1>2, <1>4, <2>4
  <2>6. LastBlock(i) = k
    BY <2>3, <2>5 DEF LastBlock
  <2> QED BY <1>1, <1>2, <1>4, <2>1, <2>6 DEF n, s
<1> QED BY <1>3, <1>4

\* Steps that leave the batch as it is.
LEMMA BatchSame ==
  ASSUME NEW T \in Int, NEW N \in Int, NEW Z \in Int, NEW U \in Int, NEW P \in Int, NEW bb,
         Batch(T, N, Z, U, P, bb),
         UNCHANGED <<chain, tailBlock, startBlock, firstBlock, endBlock>>,
         \/ UNCHANGED <<ppc, current, undo>>
         \/ {ppc, ppc'} \subseteq {"find", "key", "tail", "block"}
  PROVE  Batch(T, N, Z, U, P, bb)'
<1>1. Chained(T, Z, bb)'
  BY DEF Batch, Chained
<1>2. Reached(T, Z, bb)' <=> Reached(T, Z, bb)
  BY DEF Reached, ChainFrom
<1>3. Pointers(T, N, Z, U, P, bb)'
  BY <1>2 DEF Batch, Pointers
<1> QED BY <1>1, <1>3 DEF Batch

\* A batch starts with the block at the tail.
LEMMA BatchBulk ==
  ASSUME NEW T \in Int, NEW N \in Int, NEW Z \in Int, NEW U \in Int, NEW P \in Int, NEW bb,
         Batch(T, N, Z, U, P, bb), Z = LastBlock(T),
         NEW count \in 0..MaxBulk, EnqueueBulk(count)
  PROVE  Batch(T, T + count, Z, U, P, bb)'
<1>1. Chained(T, Z, bb)'
  BY DEF Batch, Chained, EnqueueBulk, blockVars
<1>2. Reached(T, Z, bb)'
  BY DEF Reached
<1>3. P = T /\ ppc = "idle" /\ ppc' = "find" /\ startBlock' = tailBlock /\ endBlock' = tailBlock
      /\ UNCHANGED <<tailBlock, firstBlock>> /\ T <= T + count /\ firstBlock = null
  BY DEF Batch, Pointers, EnqueueBulk, Step
<1>4. /\ Slot(T) # 0 => tailBlock = bb[LastBlock(T)] /\ NumberOf(T) = LastBlock(T)
      /\ Slot(T) = 0 => NumberOf(T) = LastBlock(T) + 1
      /\ LastBlock(T) \in Int
  BY <1>3, Edge DEF Batch, Pointers
<1>5. Pointers(T, T + count, Z, U, P, bb)'
  BY <1>2, <1>3, <1>4 DEF Pointers
<1> QED BY <1>1, <1>5 DEF Batch

\* A block that is acquired comes to the end of the chain.
NotLinked(b, T, Z, bb) == \A n \in Int : NumberOf(T) <= n /\ n <= Z => bb[n] # b

\* A block that is acquired comes to the end of the chain.
LEMMA BatchBlock ==
  ASSUME NEW T \in Int, NEW N \in Int, NEW Z \in Int, NEW U \in Int, NEW P \in Int,
         NEW bb \in [Int -> Blocks \cup {null}],
         Batch(T, N, Z, U, P, bb), startTail = Wrap(T), LastBlock(T) <= Z,
         chain \in [Blocks -> Blocks \cup {null}],
         NEW b \in Blocks, GetBlock(b),
         NotLinked(b, T, Z, bb),
         NEW bb2, bb2 = [bb EXCEPT ![Z + 1] = b]
  PROVE  Batch(T, N, Z + 1, U, P, bb2)'
<1> DEFINE W == NumberOf(T)
           X == LastBlock(T)
<1>1. null \notin Blocks
  BY QueueAssumption
<1>2. /\ W \in Int /\ X \in Int
      /\ Slot(T) # 0 => W = X
      /\ Slot(T) = 0 => W = X + 1
  BY Edge
<1>3. /\ ppc = "block" /\ ppc' = "find" /\ tailBlock' = b /\ endBlock' = b
      /\ firstBlock' = (IF firstBlock = null THEN b ELSE firstBlock)
      /\ startBlock' = startBlock
      /\ chain' = IF startTail % BLOCK_SIZE # 0 \/ firstBlock # null
                   THEN [chain EXCEPT ![b] = null, ![tailBlock] = b]
                   ELSE [chain EXCEPT ![b] = null]
  BY DEF GetBlock, Step, batchVars
<1>4. Chained(T, Z, bb) /\ Pointers(T, N, Z, U, P, bb)
  BY DEF Batch
<1>5. /\ P = T /\ T <= N /\ tailBlock = endBlock
      /\ Slot(T) # 0 => startBlock = bb[X]
      /\ firstBlock = IF X < Z THEN bb[X + 1] ELSE null
      /\ W <= Z => endBlock = bb[Z]
      /\ Reached(T, Z, bb)
  BY <1>3, <1>4 DEF Pointers
<1>6. startTail % BLOCK_SIZE = Slot(T)
  BY BaseOf DEF Slot
<1> HIDE DEF W, X
<1>7. /\ \A n \in Int : W <= n /\ n <= Z => bb[n] \in Blocks
      /\ \A m, n \in Int : W <= m /\ m <= Z /\ W <= n /\ n <= Z /\ bb[m] = bb[n] => m = n
      /\ \A n \in Int : W <= n /\ n < Z => chain[bb[n]] = bb[n + 1]
      /\ \A a \in Blocks : chain[a] # null => \E n \in Int : W <= n /\ n < Z /\ a = bb[n]
      /\ \A n \in Int : W <= n /\ n <= Z => bb[n] # b
  BY <1>4 DEF Chained, W, NotLinked
<1>8. X < Z => firstBlock # null /\ bb[X + 1] \in Blocks
  <2>1. X < Z => W <= X + 1 /\ X + 1 <= Z /\ X + 1 \in Int
    BY <1>2
  <2> QED BY <1>1, <1>5, <1>7, <2>1
<1>9. (startTail % BLOCK_SIZE # 0 \/ firstBlock # null) <=> W <= Z
  <2>1. X <= Z
    BY DEF X
  <2>2. CASE Slot(T) # 0
    BY <1>2, <1>6, <2>1, <2>2
  <2>3. CASE Slot(T) = 0
    BY <1>2, <1>5, <1>6, <1>8, <2>1, <2>3
  <2> QED BY <2>2, <2>3
<1>10. bb2[Z + 1] = b /\ (\A n \in Int : n # Z + 1 => bb2[n] = bb[n]) /\ Z + 1 \in Int
  OBVIOUS
<1>11. \A a \in Blocks : chain'[a] = IF W <= Z /\ a = bb[Z] THEN b ELSE IF a = b THEN null ELSE chain[a]
  <2>1. CASE W <= Z
    <3>1. chain' = [chain EXCEPT ![b] = null, ![tailBlock] = b] /\ tailBlock = bb[Z] /\ bb[Z] # b
          /\ bb[Z] \in Blocks
      BY <1>3, <1>5, <1>7, <1>9, <2>1
    <3> QED BY <2>1, <3>1
  <2>2. CASE ~(W <= Z)
    <3>1. chain' = [chain EXCEPT ![b] = null]
      BY <1>3, <1>9, <2>2
    <3> QED BY <2>2, <3>1
  <2> QED BY <2>1, <2>2
<1>12. chain[b] = null
  BY <1>7
<1>13. W <= Z => chain[bb[Z]] = null
  <2> HAVE W <= Z
  <2>1. bb[Z] \in Blocks /\ Z \in Int
    BY <1>7
  <2>2. \A n \in Int : W <= n /\ n < Z => bb[n] # bb[Z]
    BY <1>7
  <2> QED BY <1>7, <2>1, <2>2
<1>14. Chained(T, Z + 1, bb2)'
  <2>1. \A n \in Int : W <= n /\ n <= Z + 1 => bb2[n] \in Blocks
    BY <1>2, <1>7, <1>10
  <2>2. ASSUME NEW m \in Int, NEW n \in Int,
               W <= m, m <= Z + 1, W <= n, n <= Z + 1, bb2[m] = bb2[n]
        PROVE  m = n
    <3>1. CASE m = Z + 1 /\ n # Z + 1
      BY <1>7, <1>10, <2>2, <3>1
    <3>2. CASE m # Z + 1 /\ n = Z + 1
      BY <1>7, <1>10, <2>2, <3>2
    <3>3. CASE m # Z + 1 /\ n # Z + 1
      BY <1>7, <1>10, <2>2, <3>3
    <3> QED BY <3>1, <3>2, <3>3
  <2>3. ASSUME NEW n \in Int, W <= n, n < Z + 1
        PROVE  chain'[bb2[n]] = bb2[n + 1]
    <3>1. bb2[n] = bb[n] /\ bb[n] \in Blocks /\ bb[n] # b
      BY <1>7, <1>10, <2>3
    <3>2. CASE n = Z
      BY <1>2, <1>10, <1>11, <2>3, <3>1, <3>2
    <3>3. CASE n # Z
      <4>1. n < Z /\ n + 1 \in Int /\ n + 1 # Z + 1 /\ W <= Z
        BY <1>2, <2>3, <3>3
      <4>2. bb[n] # bb[Z] /\ chain[bb[n]] = bb[n + 1]
        BY <1>7, <2>3, <3>3, <4>1
      <4> QED BY <1>10, <1>11, <3>1, <4>1, <4>2
    <3> QED BY <3>2, <3>3
  <2>4. ASSUME NEW a \in Blocks, chain'[a] # null
        PROVE  \E n \in Int : W <= n /\ n < Z + 1 /\ a = bb2[n]
    <3>1. CASE W <= Z /\ a = bb[Z]
      BY <1>10, <3>1
    <3>2. CASE ~(W <= Z /\ a = bb[Z])
      <4>1. chain[a] # null
        BY <1>11, <2>4, <3>2
      <4>2. PICK n \in Int : W <= n /\ n < Z /\ a = bb[n]
        BY <1>7, <4>1
      <4>3. n < Z + 1 /\ n # Z + 1
        BY <4>2
      <4> QED BY <1>10, <4>2, <4>3
    <3> QED BY <3>1, <3>2
  <2> QED BY <2>1, <2>2, <2>3, <2>4 DEF Chained, W
<1>15. Reached(T, Z + 1, bb2)'
  <2>1. ASSUME NEW S \in SUBSET Blocks, firstBlock' \in S \cup {null},
               \A y \in S : chain'[y] # null => chain'[y] \in S
        PROVE  /\ \A n \in Int : X < n /\ n <= Z => bb[n] \in S
               /\ b \in S
    <3>1. \A y \in S : chain[y] # null => chain[y] \in S
      <4> TAKE y \in S
      <4>1. y \in Blocks
        OBVIOUS
      <4>2. chain[y] # null => chain'[y] = chain[y]
        BY <1>11, <1>12, <1>13, <4>1
      <4> QED BY <2>1, <4>2
    <3>2. X < Z => firstBlock \in S \cup {null}
      BY <1>3, <1>8, <2>1
    <3>3. ASSUME NEW n \in Int, X < n, n <= Z
          PROVE  bb[n] \in S
      <4>1. bb[n] \in ChainFrom(firstBlock)
        BY <1>5, <3>3 DEF Reached, X
      <4>2. X < Z
        BY <1>2, <3>3
      <4> QED BY <3>1, <3>2, <4>1, <4>2 DEF ChainFrom
    <3>4. b \in S
      <4>1. CASE X < Z
        <5>1. bb[Z] \in S
          BY <3>3, <4>1
        <5>2. W <= Z /\ bb[Z] \in Blocks
          BY <1>2, <1>7, <4>1
        <5>3. chain'[bb[Z]] = b
          BY <1>11, <5>2
        <5> QED BY <1>1, <2>1, <5>1, <5>3
      <4>2. CASE ~(X < Z)
        <5>1. firstBlock' = b
          BY <1>3, <1>5, <4>2
        <5> QED BY <1>1, <2>1, <5>1
      <4> QED BY <4>1, <4>2
    <3> QED BY <3>3, <3>4
  <2>2. ASSUME NEW n \in Int, X < n, n <= Z + 1
        PROVE  bb2[n] \in ChainFrom(firstBlock)'
    <3>1. CASE n = Z + 1
      <4>1. bb2[n] = b
        BY <1>10, <3>1
      <4> QED BY <2>1, <4>1 DEF ChainFrom
    <3>2. CASE n # Z + 1
      <4>1. bb2[n] = bb[n] /\ n <= Z /\ W <= n
        BY <1>2, <1>10, <2>2, <3>2
      <4>2. bb[n] \in Blocks
        BY <1>7, <4>1
      <4> QED BY <2>1, <2>2, <4>1, <4>2 DEF ChainFrom
    <3> QED BY <3>1, <3>2
  <2> QED BY <2>2 DEF Reached, X
<1>16. Pointers(T, N, Z + 1, U, P, bb2)'
  <2>1. firstBlock' = IF X < Z + 1 THEN bb2[X + 1] ELSE null
    <3>1. X <= Z
      BY DEF X
    <3>2. CASE X < Z
      <4>1. firstBlock' = bb[X + 1] /\ X + 1 # Z + 1 /\ X + 1 \in Int
        BY <1>2, <1>3, <1>5, <1>8, <3>2
      <4> QED BY <1>2, <1>10, <3>2, <4>1
    <3>3. CASE X = Z
      <4>1. firstBlock' = b
        BY <1>2, <1>3, <1>5, <3>3
      <4> QED BY <1>2, <1>10, <3>3, <4>1
    <3> QED BY <1>2, <3>1, <3>2, <3>3
  <2>2. Slot(T) # 0 => startBlock' = bb2[X]
    <3>1. X # Z + 1
      BY <1>2 DEF X
    <3> QED BY <1>2, <1>3, <1>5, <1>10, <3>1
  <2>3. Z + 1 # X
    BY <1>2 DEF X
  <2> QED BY <1>3, <1>5, <1>10, <1>15, <2>1, <2>2, <2>3 DEF Pointers, X, W
<1> QED BY <1>14, <1>16 DEF Batch

\* A batch that fails is undone from its first block on.
LEMMA BatchFails ==
  ASSUME NEW T \in Int, NEW N \in Int, NEW Z \in Int, NEW U \in Int, NEW P \in Int, NEW bb,
         Batch(T, N, Z, U, P, bb), U = LastBlock(T), startTail = Wrap(T),
         NoBlock \/ NoEntry
  PROVE  Batch(T, N, Z, U, P, bb)'
<1>1. /\ ppc \in {"find", "block"} /\ ppc' = "undo" /\ undo' = firstBlock
      /\ current' = Base(startTail - 1)
      /\ UNCHANGED <<chain, tailBlock, startBlock, firstBlock, endBlock>>
  BY DEF NoBlock, NoEntry, Step, batchVars, blockVars
<1>2. Chained(T, Z, bb)'
  BY <1>1 DEF Batch, Chained
<1>3. Reached(T, Z, bb)' <=> Reached(T, Z, bb)
  BY <1>1 DEF Reached, ChainFrom
<1>4. current' = Wrap(BLOCK_SIZE * U)
  BY <1>1, LastBlockIs
<1>5. Pointers(T, N, Z, U, P, bb)'
  BY <1>1, <1>3, <1>4 DEF Batch, Pointers
<1> QED BY <1>2, <1>5 DEF Batch

\* Undo follows the chain, and ends with it.
LEMMA BatchUndo ==
  ASSUME NEW T \in Int, NEW N \in Int, NEW Z \in Int, NEW U \in Int, NEW P \in Int, NEW bb,
         Batch(T, N, Z, U, P, bb), LastBlock(T) <= U, Undo, null \notin Blocks
  PROVE  /\ U < Z => Batch(T, N, Z, U + 1, P, bb)'
         /\ U <= Z => U < Z
<1>1. /\ ppc = "undo" /\ ppc' = "undo" /\ undo # null /\ undo' = chain[undo]
      /\ current' = Wrap(current + BLOCK_SIZE)
      /\ UNCHANGED <<chain, tailBlock, startBlock, firstBlock, endBlock>>
  BY DEF Undo, batchVars, blockVars
<1>2. /\ current = Wrap(BLOCK_SIZE * U)
      /\ undo = IF U < Z THEN bb[U + 1] ELSE null
  BY <1>1 DEF Batch, Pointers
<1>3. U < Z
  BY <1>1, <1>2
<1>4. Chained(T, Z, bb)'
  BY <1>1 DEF Batch, Chained
<1>5. Reached(T, Z, bb)' <=> Reached(T, Z, bb)
  BY <1>1 DEF Reached, ChainFrom
<1>6. current' = Wrap(BLOCK_SIZE * (U + 1))
  <2>1. BLOCK_SIZE * U \in Int /\ BLOCK_SIZE * (U + 1) = BLOCK_SIZE * U + BLOCK_SIZE
    BY BlockOrder
  <2>2. Wrap(Wrap(BLOCK_SIZE * U) + BLOCK_SIZE) = Wrap(BLOCK_SIZE * U + BLOCK_SIZE)
    BY <2>1, WrapSum, Sizes
  <2> QED BY <1>1, <1>2, <2>1, <2>2
<1>7. undo' = IF U + 1 < Z THEN bb[(U + 1) + 1] ELSE null
  <2>1. NumberOf(T) \in Int /\ NumberOf(T) <= U + 1 /\ U + 1 \in Int /\ U + 1 <= Z
    BY <1>3, Edge
  <2>2. undo' = chain[bb[U + 1]]
    BY <1>1, <1>2, <1>3
  <2>3. CASE U + 1 < Z
    BY <2>1, <2>2, <2>3 DEF Batch, Chained
  <2>4. CASE ~(U + 1 < Z)
    <3>1. U + 1 = Z
      BY <1>3, <2>4
    <3>2. bb[U + 1] \in Blocks
      BY <2>1 DEF Batch, Chained
    <3>3. \A n \in Int : NumberOf(T) <= n /\ n < Z => bb[n] # bb[U + 1]
      BY <2>1, <3>1 DEF Batch, Chained
    <3>4. chain[bb[U + 1]] = null
      BY <3>2, <3>3 DEF Batch, Chained
    <3> QED BY <2>2, <2>4, <3>4
  <2> QED BY <2>3, <2>4
<1>8. Pointers(T, N, Z, U + 1, P, bb)'
  BY <1>1, <1>5, <1>6, <1>7 DEF Batch, Pointers
<1> QED BY <1>3, <1>4, <1>8 DEF Batch

\* What the chain holds when all of it is taken out of the index.
LEMMA ChainIs ==
  ASSUME NEW T \in Int, NEW N \in Int, NEW Z \in Int, NEW U \in Int, NEW P \in Int, NEW bb,
         Batch(T, N, Z, U, P, bb), ppc # "idle", null \notin Blocks
  PROVE  /\ ChainFrom(firstBlock) \subseteq Blocks
         /\ \A b \in Blocks : b \in ChainFrom(firstBlock) <=>
              \E n \in Int : LastBlock(T) < n /\ n <= Z /\ bb[n] = b
<1> DEFINE S == {b \in Blocks : \E n \in Int : LastBlock(T) < n /\ n <= Z /\ bb[n] = b}
           X == LastBlock(T)
<1>1. /\ NumberOf(T) \in Int /\ X \in Int /\ NumberOf(T) <= X + 1 /\ X <= NumberOf(T)
  BY Edge
<1>2. /\ firstBlock = IF X < Z THEN bb[X + 1] ELSE null
      /\ Reached(T, Z, bb)
      /\ \A n \in Int : NumberOf(T) <= n /\ n <= Z => bb[n] \in Blocks
      /\ \A m, n \in Int :
           NumberOf(T) <= m /\ m <= Z /\ NumberOf(T) <= n /\ n <= Z /\ bb[m] = bb[n] => m = n
      /\ \A n \in Int : NumberOf(T) <= n /\ n < Z => chain[bb[n]] = bb[n + 1]
      /\ \A b \in Blocks : chain[b] # null =>
           \E n \in Int : NumberOf(T) <= n /\ n < Z /\ b = bb[n]
  BY DEF Batch, Pointers, Chained
<1>3. firstBlock \in S \cup {null}
  <2>1. CASE X < Z
    <3>1. X + 1 \in Int /\ NumberOf(T) <= X + 1 /\ X < X + 1 /\ X + 1 <= Z
      BY <1>1, <2>1
    <3>2. bb[X + 1] \in Blocks
      BY <1>2, <3>1
    <3> QED BY <1>2, <2>1, <3>1, <3>2
  <2>2. CASE ~(X < Z)
    BY <1>2, <2>2
  <2> QED BY <2>1, <2>2
<1>4. \A y \in S : chain[y] # null => chain[y] \in S
  <2> TAKE y \in S
  <2> HAVE chain[y] # null
  <2>1. PICK n \in Int : X < n /\ n <= Z /\ bb[n] = y
    OBVIOUS
  <2>2. PICK m \in Int : NumberOf(T) <= m /\ m < Z /\ y = bb[m]
    BY <1>2
  <2>3. m = n
    BY <1>1, <1>2, <2>1, <2>2
  <2>4. chain[y] = bb[n + 1] /\ n + 1 \in Int /\ X < n + 1 /\ n + 1 <= Z /\ NumberOf(T) <= n + 1
    BY <1>1, <1>2, <2>1, <2>2, <2>3
  <2>5. bb[n + 1] \in Blocks
    BY <1>2, <2>4
  <2> QED BY <2>4, <2>5
<1>5. ChainFrom(firstBlock) \subseteq S
  <2>1. S \in SUBSET Blocks
    OBVIOUS
  <2> HIDE DEF S
  <2> QED BY <1>3, <1>4, <2>1 DEF ChainFrom
<1>6. \A b \in Blocks : b \in S => b \in ChainFrom(firstBlock)
  BY <1>2 DEF Reached
<1> QED BY <1>5, <1>6

\* The batch is given up: the block at the tail is the last one again.
LEMMA BatchGiveUp ==
  ASSUME NEW T \in Int, NEW N \in Int, NEW Z \in Int, NEW U \in Int, NEW P \in Int, NEW bb,
         Batch(T, N, Z, U, P, bb), LastBlock(T) <= Z, GiveUp
  PROVE  Batch(T, T, LastBlock(T), LastBlock(T), P, bb)'
<1>1. /\ ppc = "undo" /\ ppc' = "idle" /\ tailBlock' = startBlock
      /\ chain' = [b \in Blocks |-> null] /\ firstBlock' = null
  BY DEF GiveUp, EndEnqueue, Step
<1>2. P = T /\ (Slot(T) # 0 => startBlock = bb[LastBlock(T)])
  BY <1>1 DEF Batch, Pointers
<1>3. LastBlock(T) \in Int /\ NumberOf(T) \in Int /\ LastBlock(T) <= NumberOf(T)
  BY Edge
<1>4. Chained(T, LastBlock(T), bb)'
  <2>1. \A n \in Int : NumberOf(T) <= n /\ n <= LastBlock(T) => NumberOf(T) <= n /\ n <= Z
    BY <1>3
  <2>2. \A n \in Int : ~(NumberOf(T) <= n /\ n < LastBlock(T))
    BY <1>3
  <2> QED BY <1>1, <2>1, <2>2 DEF Batch, Chained
<1>5. Pointers(T, T, LastBlock(T), LastBlock(T), P, bb)'
  BY <1>1, <1>2 DEF Pointers
<1> QED BY <1>4, <1>5 DEF Batch

\* Writing starts at the tail's block, or at the first one acquired.
LEMMA BatchStartFill ==
  ASSUME NEW T \in Int, NEW N \in Int, NEW Z \in Int, NEW U \in Int, NEW P \in Int, NEW bb,
         Batch(T, N, Z, U, P, bb), LastBlock(T) <= Z, startTail = Wrap(T), null \notin Blocks,
         StartFill
  PROVE  Batch(T, N, Z, U, P, bb)'
<1> DEFINE W == NumberOf(T)
           X == LastBlock(T)
<1>1. /\ ppc = "find" /\ ppc' = "fill" /\ current' = startTail
      /\ tailBlock' = (IF startTail % BLOCK_SIZE = 0 /\ firstBlock # null
                       THEN firstBlock ELSE startBlock)
      /\ UNCHANGED <<chain, startBlock, firstBlock, endBlock>>
  BY DEF StartFill, Step, batchVars, blockVars
<1>2. startTail % BLOCK_SIZE = Slot(T)
  BY BaseOf DEF Slot
<1>3. /\ W \in Int /\ X \in Int
      /\ Slot(T) # 0 => W = X
      /\ Slot(T) = 0 => W = X + 1
  BY Edge
<1>4. /\ P = T /\ T <= N
      /\ Slot(T) # 0 => startBlock = bb[X]
      /\ firstBlock = IF X < Z THEN bb[X + 1] ELSE null
      /\ Z = X => endBlock = startBlock
  BY <1>1 DEF Batch, Pointers
<1>5. \A n \in Int : W <= n /\ n <= Z => bb[n] \in Blocks
  BY DEF Batch, Chained
<1>6. X <= Z
  OBVIOUS
<1> HIDE DEF X
<1>7. tailBlock' = IF W <= Z THEN bb[W] ELSE endBlock
  <2> HIDE DEF W
  <2>1. CASE Slot(T) # 0
    BY <1>1, <1>2, <1>3, <1>4, <1>6, <2>1
  <2>2. CASE Slot(T) = 0 /\ X < Z
    <3>1. W <= Z /\ bb[W] \in Blocks
      BY <1>3, <1>5, <2>2
    <3> QED BY <1>1, <1>2, <1>3, <1>4, <2>2, <3>1
  <2>3. CASE Slot(T) = 0 /\ ~(X < Z)
    BY <1>1, <1>2, <1>3, <1>4, <1>6, <2>3
  <2> QED BY <2>1, <2>2, <2>3
<1>8. Chained(T, Z, bb)'
  BY <1>1 DEF Batch, Chained
<1>9. Reached(T, Z, bb)' <=> Reached(T, Z, bb)
  BY <1>1 DEF Reached, ChainFrom
<1>10. Pointers(T, N, Z, U, P, bb)'
  BY <1>1, <1>4, <1>7, <1>9 DEF Batch, Pointers
<1> QED BY <1>8, <1>10 DEF Batch

\* The batch is done.
LEMMA BatchPublish ==
  ASSUME NEW T \in Int, NEW N \in Int, NEW Z \in Int, NEW U \in Int, NEW P \in Int, NEW bb,
         Batch(T, N, Z, U, P, bb), Z = LastBlock(N), Publish
  PROVE  Batch(N, N, Z, Z, P, bb)'
<1>1. /\ ppc = "publish" /\ ppc' = "idle" /\ tailBlock' = tailBlock
      /\ chain' = [b \in Blocks |-> null] /\ firstBlock' = null
  BY DEF Publish, EndEnqueue, Step
<1>2. P = N /\ T <= N /\ tailBlock = endBlock /\ (NumberOf(T) <= Z => endBlock = bb[Z])
  BY <1>1 DEF Batch, Pointers
<1>3. /\ LastBlock(N) \in Int /\ NumberOf(N) \in Int /\ LastBlock(N) <= NumberOf(N)
      /\ Slot(N) # 0 => NumberOf(N) = Z
      /\ NumberOf(T) \in Int
  BY Edge
<1>4. NumberOf(T) <= NumberOf(N)
  <2>1. T + 1 \in Int /\ N + 1 \in Int /\ T + 1 <= N + 1 /\ (T + 1) - 1 = T /\ (N + 1) - 1 = N
    BY <1>2
  <2>2. LastBlock(T + 1) <= LastBlock(N + 1)
    BY <2>1, LastBlockGrows
  <2> QED BY <2>1, <2>2 DEF LastBlock
<1>5. Slot(N) # 0 => tailBlock = bb[Z]
  BY <1>2, <1>3, <1>4
<1>6. Chained(N, Z, bb)'
  <2>1. \A n \in Int : NumberOf(N) <= n /\ n <= Z => NumberOf(T) <= n /\ n <= Z
    BY <1>3, <1>4
  <2>2. \A n \in Int : ~(NumberOf(N) <= n /\ n < Z)
    BY <1>3
  <2> QED BY <1>1, <2>1, <2>2 DEF Batch, Chained
<1>7. Pointers(N, N, Z, Z, P, bb)'
  BY <1>1, <1>2, <1>5 DEF Pointers
<1> QED BY <1>6, <1>7 DEF Batch

\* How far the elements are written with those of one block more.
FilledTo(N, P) ==
  IF N < BLOCK_SIZE * (NumberOf(P) + 1) THEN N ELSE BLOCK_SIZE * (NumberOf(P) + 1)

\* What the loop's bounds come to.
FillsTo(N, P, blockEnd, stop) ==
  /\ FilledTo(N, P) \in Int /\ P <= FilledTo(N, P) /\ FilledTo(N, P) <= N
  /\ FilledTo(N, P) <= BLOCK_SIZE * (NumberOf(P) + 1)
  /\ stop = Wrap(FilledTo(N, P))
  /\ Wrap(stop - current) = FilledTo(N, P) - P

\* The locals of the loop that writes the elements of one block.
LEMMA FillRange ==
  ASSUME NEW H \in Int, NEW T \in Int, NEW N \in Int, NEW Z \in Int, NEW P \in Int,
         Tails(H, T, N, Z), T <= P, P <= N, ppc = "fill", current = Wrap(P),
         NEW blockEnd, blockEnd = Base(current) + BLOCK_SIZE,
         NEW stop,
         stop = IF circular_less_than(newTail, blockEnd) THEN newTail ELSE Wrap(blockEnd)
  PROVE  FillsTo(N, P, blockEnd, stop)
<1> DEFINE w == NumberOf(P)
           b == BLOCK_SIZE * (w + 1)
           q == FilledTo(N, P)
<1>1. /\ w \in Int /\ BLOCK_SIZE * w \in Int /\ b \in Int /\ b = BLOCK_SIZE * w + BLOCK_SIZE
      /\ BLOCK_SIZE * w <= P /\ P < b /\ BLOCK_SIZE \in Nat
  <2>1. w \in Int /\ BLOCK_SIZE * w <= P /\ P < BLOCK_SIZE * w + BLOCK_SIZE
    BY Edge
  <2>2. BLOCK_SIZE * w \in Int /\ b = BLOCK_SIZE * w + BLOCK_SIZE
    BY <2>1, BlockOrder
  <2>3. BLOCK_SIZE \in Nat
    BY Sizes
  <2> QED BY <2>1, <2>2, <2>3
<1>2. newTail = Wrap(N) /\ H <= T /\ Z = LastBlock(N) /\ BLOCK_SIZE * (Z + 1) - H < HalfRange
  BY DEF Tails
<1>3. N <= BLOCK_SIZE * (Z + 1) /\ BLOCK_SIZE * (Z + 1) \in Int
  <2>1. N <= BLOCK_SIZE * Z + BLOCK_SIZE
    BY <1>2, LastBlockIs
  <2>2. BLOCK_SIZE * Z \in Int /\ BLOCK_SIZE * (Z + 1) = BLOCK_SIZE * Z + BLOCK_SIZE
    BY BlockOrder
  <2> QED BY <1>1, <2>1, <2>2
<1>4. Base(current) = Wrap(BLOCK_SIZE * w)
  BY BaseOf
<1>5. q = IF N < b THEN N ELSE b
  BY DEF FilledTo
<1> HIDE DEF w, b, q
<1>6. Wrap(newTail - blockEnd) = Wrap(N - b)
  <2> DEFINE x == BLOCK_SIZE * w
  <2>1. x \in Int /\ b = x + BLOCK_SIZE /\ blockEnd = Wrap(x) + BLOCK_SIZE /\ Wrap(x) \in Int
        /\ BLOCK_SIZE \in Int
    BY <1>1, <1>4, Wrapped
  <2> HIDE DEF x
  <2>2. blockEnd \in Int
    BY <2>1
  <2>3. Wrap(Wrap(N) - blockEnd) = Wrap(N - blockEnd)
    BY <2>2, WrapSum
  <2>4. N - blockEnd = (N - BLOCK_SIZE) - Wrap(x) /\ N - BLOCK_SIZE \in Int
        /\ (N - BLOCK_SIZE) - x = N - b
    BY <2>1
  <2>5. Wrap((N - BLOCK_SIZE) - Wrap(x)) = Wrap((N - BLOCK_SIZE) - x)
    BY <2>1, <2>4, WrapSum
  <2> QED BY <1>2, <2>3, <2>4, <2>5
<1>7. circular_less_than(newTail, blockEnd) <=> N < b
  <2>1. b - N < HalfRange
    BY <1>1, Sizes
  <2>2. N - b <= Modulus \div 2
    BY <1>1, <1>2, <1>3, Sizes
  <2>3. circular_less_than(N, b) <=> N < b
    BY <1>1, <2>1, <2>2, Compare
  <2> QED BY <1>6, <2>3 DEF circular_less_than
<1>8. Wrap(blockEnd) = Wrap(b)
  <2>1. Wrap(Wrap(BLOCK_SIZE * w) + BLOCK_SIZE) = Wrap(BLOCK_SIZE * w + BLOCK_SIZE)
    BY <1>1, WrapSum
  <2> QED BY <1>1, <1>4, <2>1
<1>9. stop = Wrap(q)
  BY <1>2, <1>5, <1>7, <1>8
<1>10. q \in Int /\ P <= q /\ q <= N /\ q <= b /\ q - P \in 0..BLOCK_SIZE
  BY <1>1, <1>5
<1>11. Wrap(stop - current) = Wrap(q - P)
  <2>1. Wrap(Wrap(q) - Wrap(P)) = Wrap(q - P)
    BY <1>10, WrapSum
  <2> QED BY <1>9, <2>1
<1>12. q - P \in 0..Modulus - 1
  BY <1>10, Sizes
<1>13. Wrap(q - P) = q - P
  BY <1>12, WrapSmall
<1> QED BY <1>9, <1>10, <1>11, <1>13 DEF q, b, w, FillsTo

\* Writing goes on in the next block of the chain.
LEMMA BatchFill ==
  ASSUME NEW H \in Int, NEW T \in Int, NEW N \in Int, NEW Z \in Int, NEW U \in Int, NEW P \in Int,
         NEW bb, Batch(T, N, Z, U, P, bb), Tails(H, T, N, Z), Fill
  PROVE  Batch(T, N, Z, U, FilledTo(N, P), bb)'
<1> DEFINE blockEnd == Base(current) + BLOCK_SIZE
           stop == IF circular_less_than(newTail, blockEnd) THEN newTail ELSE Wrap(blockEnd)
           w == NumberOf(P)
           q == FilledTo(N, P)
<1>1. /\ ppc = "fill" /\ current' = stop
      /\ UNCHANGED <<chain, startBlock, firstBlock, endBlock>>
      /\ \/ tailBlock = endBlock /\ ppc' = "publish" /\ tailBlock' = tailBlock
         \/ tailBlock # endBlock /\ tailBlock' = chain[tailBlock] /\ ppc' = "fill"
  BY DEF Fill, Step, batchVars
<1>2. /\ T <= P /\ P <= N /\ current = Wrap(P)
      /\ tailBlock = IF w <= Z THEN bb[w] ELSE endBlock
      /\ NumberOf(T) <= Z => endBlock = bb[Z]
  BY <1>1 DEF Batch, Pointers
<1>3. /\ q \in Int /\ P <= q /\ q <= N /\ stop = Wrap(q)
  <2>1. stop = IF circular_less_than(newTail, blockEnd) THEN newTail ELSE Wrap(blockEnd)
    OBVIOUS
  <2>2. blockEnd = Base(current) + BLOCK_SIZE
    OBVIOUS
  <2> HIDE DEF blockEnd, stop
  <2>3. FillsTo(N, P, blockEnd, stop)
    BY <1>1, <1>2, <2>1, <2>2, FillRange
  <2> QED BY <2>3 DEF FillsTo
<1>4. Z = LastBlock(N)
  BY <1>1 DEF Tails
<1>5. w \in Int /\ P < BLOCK_SIZE * (w + 1) /\ BLOCK_SIZE * w <= P /\ BLOCK_SIZE * w \in Int
      /\ BLOCK_SIZE * (w + 1) = BLOCK_SIZE * w + BLOCK_SIZE
  <2>1. w \in Int /\ BLOCK_SIZE * w <= P /\ P < BLOCK_SIZE * w + BLOCK_SIZE
    BY Edge
  <2>2. BLOCK_SIZE * w \in Int /\ BLOCK_SIZE * (w + 1) = BLOCK_SIZE * w + BLOCK_SIZE
    BY <2>1, BlockOrder
  <2> QED BY <2>1, <2>2
<1>6. NumberOf(T) \in Int /\ NumberOf(T) <= w
  <2>1. T + 1 \in Int /\ P + 1 \in Int /\ T + 1 <= P + 1 /\ (T + 1) - 1 = T /\ (P + 1) - 1 = P
    BY <1>2
  <2>2. LastBlock(T + 1) <= LastBlock(P + 1)
    BY <2>1, LastBlockGrows
  <2> QED BY <2>1, <2>2, Edge DEF LastBlock
<1>7. BLOCK_SIZE * Z < N /\ N <= BLOCK_SIZE * (Z + 1) /\ BLOCK_SIZE * Z \in Int
      /\ BLOCK_SIZE * (Z + 1) \in Int
  <2>1. BLOCK_SIZE * Z < N /\ N <= BLOCK_SIZE * Z + BLOCK_SIZE
    BY <1>4, LastBlockIs
  <2>2. BLOCK_SIZE * Z \in Int /\ BLOCK_SIZE * (Z + 1) = BLOCK_SIZE * Z + BLOCK_SIZE
    BY BlockOrder
  <2> QED BY <2>1, <2>2, Sizes
<1>8. q = IF N < BLOCK_SIZE * (w + 1) THEN N ELSE BLOCK_SIZE * (w + 1)
  BY DEF FilledTo
<1>9. /\ \A n \in Int : NumberOf(T) <= n /\ n <= Z => bb[n] \in Blocks
      /\ \A m, n \in Int :
           NumberOf(T) <= m /\ m <= Z /\ NumberOf(T) <= n /\ n <= Z /\ bb[m] = bb[n] => m = n
      /\ \A n \in Int : NumberOf(T) <= n /\ n < Z => chain[bb[n]] = bb[n + 1]
  BY DEF Batch, Chained
<1> HIDE DEF w, q, stop
<1>10. Z <= w => q = N
  <2> HAVE Z <= w
  <2>1. Z < w => BLOCK_SIZE * Z + BLOCK_SIZE <= BLOCK_SIZE * w
    BY <1>5, BlockOrder
  <2>2. BLOCK_SIZE * (Z + 1) = BLOCK_SIZE * Z + BLOCK_SIZE
    BY BlockOrder
  <2>3. N <= BLOCK_SIZE * (w + 1)
    BY <1>5, <1>7, <2>1, <2>2, Sizes
  <2> QED BY <1>5, <1>8, <2>3, Sizes
<1>11. CASE tailBlock = endBlock
  <2>1. ppc' = "publish" /\ tailBlock' = tailBlock
    BY <1>1, <1>11
  <2>2. Z <= w
    <3>1. SUFFICES ASSUME w < Z PROVE FALSE
      BY <1>5
    <3>2. NumberOf(T) <= Z /\ w <= Z
      BY <1>5, <1>6, <3>1
    <3>3. bb[w] = bb[Z]
      BY <1>2, <1>11, <3>2
    <3>4. w = Z
      BY <1>5, <1>6, <1>9, <3>2, <3>3
    <3> QED BY <1>5, <3>1, <3>4
  <2>3. Chained(T, Z, bb)'
    BY <1>1 DEF Batch, Chained
  <2>4. Reached(T, Z, bb)' <=> Reached(T, Z, bb)
    BY <1>1 DEF Reached, ChainFrom
  <2>5. Pointers(T, N, Z, U, q, bb)'
    BY <1>1, <1>2, <1>3, <1>10, <1>11, <2>1, <2>2, <2>4 DEF Batch, Pointers
  <2> QED BY <2>3, <2>5 DEF Batch, q
<1>12. CASE tailBlock # endBlock
  <2>1. ppc' = "fill" /\ tailBlock' = chain[tailBlock]
    BY <1>1, <1>12
  <2>2. w < Z
    <3>1. w <= Z
      BY <1>2, <1>12
    <3>2. w # Z
      BY <1>2, <1>6, <1>12, <3>1
    <3> QED BY <1>5, <3>1, <3>2
  <2>3. q = BLOCK_SIZE * (w + 1)
    <3>1. BLOCK_SIZE * w + BLOCK_SIZE <= BLOCK_SIZE * Z
      BY <1>5, <2>2, BlockOrder
    <3> QED BY <1>5, <1>7, <1>8, <3>1, Sizes
  <2>4. NumberOf(q) = w + 1
    <3>1. w + 1 \in Int /\ 0 \in 0..BLOCK_SIZE - 1
      BY <1>5, Sizes
    <3>2. NumberOf(BLOCK_SIZE * (w + 1) + 0) = w + 1
      BY <3>1, BlockOf
    <3>3. BLOCK_SIZE * (w + 1) + 0 = BLOCK_SIZE * (w + 1)
      BY <1>5, Sizes
    <3> QED BY <2>3, <3>2, <3>3
  <2>5. tailBlock' = bb[w + 1] /\ w + 1 <= Z
    BY <1>2, <1>5, <1>6, <1>9, <2>1, <2>2
  <2>6. Chained(T, Z, bb)'
    BY <1>1 DEF Batch, Chained
  <2>7. Reached(T, Z, bb)' <=> Reached(T, Z, bb)
    BY <1>1 DEF Reached, ChainFrom
  <2>8. Pointers(T, N, Z, U, q, bb)'
    BY <1>1, <1>2, <1>3, <2>1, <2>4, <2>5, <2>7 DEF Batch, Pointers
  <2> QED BY <2>6, <2>8 DEF Batch, q
<1> QED BY <1>11, <1>12

-----------------------------------------------------------------------------
(* The elements *)

\* The element with number i is where it belongs.
Stored(i, bb) == elements[bb[NumberOf(i)]][Slot(i)] = Wrap(i)

\* What is written and not taken is at its place; no element is claimed twice.
Contents(H, P, bb, cl) ==
  /\ \A i \in Int : H <= i /\ i < P => Stored(i, bb)
  /\ \A c \in Consumers : Claimed(c) => Stored(cl[c], bb)
  /\ \A c \in Consumers : Taken(c) => reg[c].element = Wrap(cl[c])
  /\ \A c, d \in Consumers : Claimed(c) /\ Claimed(d) /\ cl[c] = cl[d] => c = d
  /\ \A c \in Consumers : cpc[c] = "release" => reg[c].block \in Blocks

\* The type of elements.
ElementsType == elements \in [Blocks -> [0..BLOCK_SIZE - 1 -> Index \cup {Raw}]]

\* The block of an element is not before or after its neighbours'.
LEMMA NumbersGrow ==
  ASSUME NEW i \in Int, NEW j \in Int, i <= j
  PROVE  NumberOf(i) <= NumberOf(j) /\ NumberOf(i) \in Int
<1>1. i + 1 \in Int /\ j + 1 \in Int /\ i + 1 <= j + 1 /\ (i + 1) - 1 = i /\ (j + 1) - 1 = j
  OBVIOUS
<1>2. LastBlock(i + 1) <= LastBlock(j + 1)
  BY <1>1, LastBlockGrows
<1> QED BY <1>1, <1>2, Edge DEF LastBlock

\* An element that is written and not claimed is in a block in use.
LEMMA WrittenInUse ==
  ASSUME NEW H \in Int, NEW T \in Int, NEW N \in Int, NEW Z \in Int, NEW U \in Int, NEW P \in Int,
         NEW L \in Int, NEW Y \in Int, NEW off, NEW bb, NEW cl,
         Tails(H, T, N, Z), Pointers(T, N, Z, U, P, bb), Cursor(T, Z, U, L, Y, off),
         NEW i \in Int, H <= i, i < P
  PROVE  Ahead(NumberOf(i), H, T, Z, U) /\ InUse(NumberOf(i), H, T, Z, U, cl)
<1> DEFINE n == NumberOf(i)
<1>1. /\ T <= P /\ P <= N /\ (ppc \notin {"fill", "publish"} => P = T)
      /\ 0 <= H /\ H <= T /\ (ppc \in {"fill", "publish"} => Z = LastBlock(N))
      /\ LastBlock(T) <= Z /\ LastBlock(T) \in Int
      /\ (ppc # "undo" => U = LastBlock(T))
  BY LastBlockIs DEF Tails, Pointers, Cursor
<1>2. n <= LastBlock(P) /\ LastBlock(P) \in Int
  <2>1. i <= P - 1 /\ P - 1 \in Int
    OBVIOUS
  <2>2. NumberOf(i) <= NumberOf(P - 1)
    BY <2>1, NumbersGrow
  <2> QED BY <2>2, LastBlockIs DEF LastBlock
<1>3. LastBlock(P) <= LastBlock(N) /\ LastBlock(N) \in Int
  BY <1>1, LastBlockGrows, LastBlockIs
<1>4. /\ n \in Int /\ BLOCK_SIZE * n <= i /\ i < BLOCK_SIZE * (n + 1) /\ BLOCK_SIZE * n \in Int
      /\ BLOCK_SIZE * (n + 1) \in Int /\ BLOCK_SIZE * (n + 1) = BLOCK_SIZE * n + BLOCK_SIZE
  <2>1. n \in Int /\ BLOCK_SIZE * n <= i /\ i < BLOCK_SIZE * n + BLOCK_SIZE
    BY Edge
  <2>2. BLOCK_SIZE * n \in Int /\ BLOCK_SIZE * (n + 1) = BLOCK_SIZE * n + BLOCK_SIZE
    BY <2>1, BlockOrder
  <2> QED BY <2>1, <2>2, Sizes
<1>5. 0 <= n
  <2>1. NumberOf(0) <= n
    BY <1>1, NumbersGrow, 0 \in Int
  <2>2. BLOCK_SIZE * 0 + 0 = 0 /\ 0 \in 0..BLOCK_SIZE - 1
    BY Sizes
  <2>3. NumberOf(0) = 0
    BY <2>2, BlockOf, 0 \in Int
  <2> QED BY <2>1, <2>3
<1> HIDE DEF n
<1>6. Ahead(n, H, T, Z, U)
  BY <1>1, <1>2, <1>3, <1>4, <1>5 DEF Ahead
<1> QED BY <1>6 DEF InUse, n

\* Steps that leave the elements alone.
LEMMA ContentsStay ==
  ASSUME NEW H \in Int, NEW P \in Int, NEW bb, NEW cl,
         Contents(H, P, bb, cl), UNCHANGED <<elements, consumerVars>>
  PROVE  Contents(H, P, bb, cl)'
BY DEF Contents, Stored, Claimed, Taken, consumerVars

\* A block is acquired.
LEMMA ContentsBlock ==
  ASSUME NEW H \in Int, NEW T \in Int, NEW Z \in Int, NEW P \in Int, NEW bb \in [Int -> Blocks \cup {null}],
         NEW cl \in [Consumers -> Int], Contents(H, P, bb, cl), Ages(H, cl), H <= T, P = T,
         LastBlock(T) <= Z, UNCHANGED <<elements, consumerVars>>,
         NEW b, NEW bb2, bb2 = [bb EXCEPT ![Z + 1] = b]
  PROVE  Contents(H, P, bb2, cl)'
<1>1. ASSUME NEW i \in Int, i < T, Stored(i, bb)
      PROVE  Stored(i, bb2)'
  <2>1. NumberOf(i) <= LastBlock(T) /\ NumberOf(i) \in Int
    <3>1. i <= T - 1 /\ T - 1 \in Int
      BY <1>1
    <3> QED BY <3>1, NumbersGrow DEF LastBlock
  <2>2. LastBlock(T) \in Int
    BY LastBlockIs
  <2>3. NumberOf(i) # Z + 1
    BY <2>1, <2>2
  <2>4. bb2[NumberOf(i)] = bb[NumberOf(i)]
    BY <2>1, <2>3
  <2> QED BY <1>1, <2>4 DEF Stored
<1>2. \A c \in Consumers : Claimed(c) => cl[c] < T /\ cl[c] \in Int
  BY DEF Claimed, Ages, AtWork
<1> QED BY <1>1, <1>2 DEF Contents, Claimed, Taken, consumerVars

\* c moves on, and takes no element.
LEMMA ContentsMove ==
  ASSUME NEW H \in Int, NEW P \in Int, NEW bb, NEW cl \in [Consumers -> Int],
         Contents(H, P, bb, cl), UNCHANGED elements, NEW c \in Consumers, Alone(c),
         NEW H2 \in Int, H <= H2, NEW cl2, \A d \in Consumers : d # c => cl2[d] = cl[d],
         Claimed(c)' => /\ Stored(cl2[c], bb)
                        /\ \A d \in Consumers : d # c /\ Claimed(d) => cl[d] # cl2[c],
         Taken(c)' => reg'[c].element = Wrap(cl2[c]),
         cpc'[c] = "release" => reg'[c].block \in Blocks
  PROVE  Contents(H2, P, bb, cl2)'
<1>1. \A i : Stored(i, bb)' <=> Stored(i, bb)
  BY DEF Stored
<1>2. \A d \in Consumers : d # c => /\ Claimed(d)' <=> Claimed(d)
                                    /\ Taken(d)' <=> Taken(d)
                                    /\ reg'[d] = reg[d]
  BY DEF Alone, Claimed, Taken
<1>3. \A i \in Int : H2 <= i /\ i < P => Stored(i, bb)'
  BY <1>1 DEF Contents
<1>4. \A d \in Consumers : Claimed(d)' => Stored(cl2[d], bb)'
  BY <1>1, <1>2 DEF Contents
<1>5. \A d \in Consumers : Taken(d)' => reg'[d].element = Wrap(cl2[d])
  BY <1>2 DEF Contents
<1>6. \A d, e \in Consumers : Claimed(d)' /\ Claimed(e)' /\ cl2[d] = cl2[e] => d = e
  <2> TAKE d, e \in Consumers
  <2>1. CASE d # c /\ e # c
    BY <1>2, <2>1 DEF Contents
  <2>2. CASE d = c /\ e # c
    BY <1>2, <2>2
  <2>3. CASE d # c /\ e = c
    BY <1>2, <2>3
  <2> QED BY <2>1, <2>2, <2>3
<1>7. \A d \in Consumers : cpc'[d] = "release" => reg'[d].block \in Blocks
  BY DEF Contents, Alone
<1> QED BY <1>3, <1>4, <1>5, <1>6, <1>7 DEF Contents

\* c takes its element: no other is at its place.
LEMMA ContentsTake ==
  ASSUME NEW H \in Int, NEW T \in Int, NEW N \in Int, NEW Z \in Int, NEW U \in Int, NEW P \in Int,
         NEW L \in Int, NEW Y \in Int, NEW kn \in [Entries -> Int], NEW off \in [Nat -> Int], NEW bb,
         NEW cl \in [Consumers -> Int],
         Tails(H, T, N, Z), Pointers(T, N, Z, U, P, bb), Cursor(T, Z, U, L, Y, off),
         Working(H, T, Z, U, L, kn, bb, cl), Apart(H, T, Z, U, bb, cl),
         Contents(H, P, bb, cl), ElementsType, Locals, NEW c \in Consumers, TakeElement(c)
  PROVE  Contents(H, P, bb, cl)' /\ ElementsType'
<1> DEFINE n == NumberOf(cl[c])
           s == Slot(cl[c])
           v == elements[reg[c].block][Slot(reg[c].index)]
           r == [reg[c] EXCEPT !.index = 0, !.element = v]
<1>1. Used(H, T, Z, U, L, kn, bb, cl) /\ Ages(H, cl) /\ Work(H, kn, cl)
  BY DEF Working
<1>2. /\ cpc[c] = "element" /\ elements' = [elements EXCEPT ![reg[c].block][Slot(reg[c].index)] = Raw]
      /\ Move(c, "empty", r) /\ "empty" \in Labels
  BY DEF TakeElement, Labels
<1>3. RegShape(r) /\ r.element = v
  <2>1. RegShape(reg[c])
    BY DEF Locals
  <2> QED BY <2>1, TakenShape
<1>4. Alone(c) /\ cpc'[c] = "empty" /\ reg'[c].element = v
  <2> HIDE DEF r, v
  <2>1. cpc'[c] = "empty" /\ reg'[c] = r /\ Alone(c)
    BY <1>2, Moved DEF Alone
  <2> QED BY <1>3, <2>1
<1>5. HasFound(c, n, H, T, Z, U, kn, bb, cl)
  BY <1>1, <1>2, BlockFound
<1>6. reg[c].block = bb[n] /\ bb[n] \in Blocks /\ n \in Int /\ InUse(n, H, T, Z, U, cl)
  BY <1>5 DEF HasFound
<1>7. Slot(reg[c].index) = s /\ s \in 0..BLOCK_SIZE - 1
  <2>1. WorkOf(c, H, kn, cl)
    BY <1>1 DEF Work
  <2>2. reg[c].index = Wrap(cl[c])
    BY <1>2, <2>1 DEF WorkOf, Claimed
  <2> QED BY <2>2, BaseOf, InBlock
<1>8. v = Wrap(cl[c])
  BY <1>2, <1>6, <1>7 DEF Contents, Stored, Claimed
<1>9. elements' = [elements EXCEPT ![bb[n]][s] = Raw]
  BY <1>2, <1>6, <1>7
<1>10. ElementsType'
  BY <1>6, <1>7, <1>9 DEF ElementsType
<1> HIDE DEF v, r
<1>11. cl[c] = BLOCK_SIZE * n + s /\ cl[c] \in Int
  BY InBlock
<1> HIDE DEF n, s
<1>12. ASSUME NEW i \in Int, i # cl[c], InUse(NumberOf(i), H, T, Z, U, cl), Stored(i, bb)
       PROVE  Stored(i, bb)'
  <2>1. NumberOf(i) \in Int /\ Slot(i) \in 0..BLOCK_SIZE - 1 /\ i = BLOCK_SIZE * NumberOf(i) + Slot(i)
    BY InBlock
  <2>2. bb[NumberOf(i)] \in Blocks
    BY <1>1, <1>12, <2>1 DEF Used
  <2>3. CASE NumberOf(i) = n
    <3>1. Slot(i) # s
      BY <1>11, <1>12, <2>1, <2>3
    <3>2. elements'[bb[n]][Slot(i)] = elements[bb[n]][Slot(i)]
      BY <1>6, <1>9, <2>1, <3>1 DEF ElementsType
    <3> QED BY <1>12, <2>3, <3>2 DEF Stored
  <2>4. CASE NumberOf(i) # n
    <3>1. bb[NumberOf(i)] # bb[n]
      BY <1>6, <1>12, <2>1, <2>4 DEF Apart
    <3>2. elements'[bb[NumberOf(i)]] = elements[bb[NumberOf(i)]]
      BY <1>6, <1>9, <2>2, <3>1 DEF ElementsType
    <3> QED BY <1>12, <3>2 DEF Stored
  <2> QED BY <2>3, <2>4
<1>13. \A d \in Consumers : d # c => /\ Claimed(d)' <=> Claimed(d)
                                     /\ Taken(d)' <=> Taken(d)
                                     /\ reg'[d] = reg[d]
  BY <1>4 DEF Alone, Claimed, Taken
<1>14. ~Claimed(c)' /\ Claimed(c)
  BY <1>2, <1>4 DEF Claimed
<1>15. \A i \in Int : H <= i /\ i < P => Stored(i, bb)'
  <2> TAKE i \in Int
  <2> HAVE H <= i /\ i < P
  <2>1. cl[c] < H
    BY <1>1, <1>2 DEF Ages, AtWork
  <2>2. i # cl[c]
    BY <1>11, <2>1
  <2>3. InUse(NumberOf(i), H, T, Z, U, cl)
    BY WrittenInUse
  <2>4. Stored(i, bb)
    BY DEF Contents
  <2> QED BY <1>12, <2>2, <2>3, <2>4
<1>16. \A d \in Consumers : Claimed(d)' => Stored(cl[d], bb)'
  <2> TAKE d \in Consumers
  <2> HAVE Claimed(d)'
  <2>1. d # c /\ Claimed(d)
    BY <1>13, <1>14
  <2>2. cl[d] \in Int /\ cl[d] # cl[c] /\ Stored(cl[d], bb)
    BY <1>14, <2>1 DEF Contents
  <2>3. InUse(NumberOf(cl[d]), H, T, Z, U, cl)
    BY <2>1 DEF InUse, AtWorkIn, AtWork, Claimed
  <2> QED BY <1>12, <2>2, <2>3
<1>17. \A d \in Consumers : Taken(d)' => reg'[d].element = Wrap(cl[d])
  BY <1>4, <1>8, <1>13 DEF Contents
<1>18. \A d, e \in Consumers : Claimed(d)' /\ Claimed(e)' /\ cl[d] = cl[e] => d = e
  BY <1>13, <1>14 DEF Contents
<1>19. \A d \in Consumers : cpc'[d] = "release" => reg'[d].block \in Blocks
  BY <1>4 DEF Contents, Alone
<1>20. Contents(H, P, bb, cl)'
  BY <1>15, <1>16, <1>17, <1>18, <1>19 DEF Contents
<1> QED BY <1>10, <1>20

\* Fill's assignment to elements.
WritesFrom(b, n) ==
  elements' = [elements EXCEPT ![b] = [p \in DOMAIN @ |->
                 LET d == p - Slot(current)
                 IN  IF d \in 0..n - 1 THEN current + d ELSE @[p]]]

\* The P-th to the q-th element are written to block b.
Writes(b, P, q) ==
  /\ \A a \in Blocks : a # b => elements'[a] = elements[a]
  /\ \A i \in Int : P <= i /\ i < q => elements'[b][Slot(i)] = Wrap(i)
  /\ \A i \in Int : i < P /\ NumberOf(i) = NumberOf(P) =>
       elements'[b][Slot(i)] = elements[b][Slot(i)]
  /\ \A i \in Int : P <= i /\ i < q => NumberOf(i) = NumberOf(P)

\* What the loop writes: an element's number at its place, the others stay.
LEMMA FillWrites ==
  ASSUME NEW P \in Int, NEW q \in Int, P < q, q <= BLOCK_SIZE * (NumberOf(P) + 1),
         current = Wrap(P), NEW n, n = q - P, NEW b \in Blocks, ElementsType,
         WritesFrom(b, n)
  PROVE  Writes(b, P, q) /\ ElementsType'
<1> DEFINE w == NumberOf(P)
           s == Slot(P)
           Places0 == 0..BLOCK_SIZE - 1
           new == [p \in Places0 |-> LET d == p - s
                                     IN  IF d \in 0..n - 1 THEN Wrap(P) + d ELSE elements[b][p]]
<1>1. /\ w \in Int /\ s \in Places0 /\ P = BLOCK_SIZE * w + s /\ BLOCK_SIZE * w \in Int
      /\ BLOCK_SIZE * (w + 1) = BLOCK_SIZE * w + BLOCK_SIZE /\ BLOCK_SIZE \in Nat
  <2>1. w \in Int /\ s \in Places0 /\ P = BLOCK_SIZE * w + s /\ BLOCK_SIZE * w \in Int
    BY InBlock
  <2>2. BLOCK_SIZE * (w + 1) = BLOCK_SIZE * w + BLOCK_SIZE
    BY <2>1, BlockOrder
  <2> QED BY <2>1, <2>2, Sizes
<1>2. Slot(current) = s
  BY BaseOf
<1>3. elements[b] \in [Places0 -> Index \cup {Raw}]
  BY DEF ElementsType
<1>4. elements' = [elements EXCEPT ![b] = new]
  <2>1. DOMAIN elements[b] = Places0
    BY <1>3
  <2> QED BY <1>2, <2>1 DEF WritesFrom
<1>5. elements'[b] = new /\ \A a \in Blocks : a # b => elements'[a] = elements[a]
  <2> HIDE DEF new
  <2> QED BY <1>4 DEF ElementsType
<1>6. \A p \in Places0 :
        new[p] = IF p - s \in 0..n - 1 THEN Wrap(P) + (p - s) ELSE elements[b][p]
  OBVIOUS
<1>7. DOMAIN new = Places0 /\ new = [p \in Places0 |-> new[p]]
  OBVIOUS
<1> HIDE DEF w, s, new
<1>8. n \in Int /\ n > 0 /\ s + n <= BLOCK_SIZE
  BY <1>1 DEF w
<1>9. \A d \in 0..n - 1 : /\ NumberOf(P + d) = w /\ Slot(P + d) = s + d
                          /\ Wrap(P + d) = Wrap(P) + d /\ s + d \in Places0
  <2> TAKE d \in 0..n - 1
  <2>1. s + d \in 0..BLOCK_SIZE - 1 /\ P + d = BLOCK_SIZE * w + (s + d)
    BY <1>1, <1>8
  <2>2. NumberOf(BLOCK_SIZE * w + (s + d)) = w /\ Slot(BLOCK_SIZE * w + (s + d)) = s + d
    BY <1>1, <2>1, BlockOf
  <2>3. Wrap(BLOCK_SIZE * w + (s + d)) = Wrap(BLOCK_SIZE * w) + (s + d)
    BY <1>1, <2>1, WrapBlock
  <2>4. Wrap(BLOCK_SIZE * w + s) = Wrap(BLOCK_SIZE * w) + s
    BY <1>1, WrapBlock
  <2>5. Wrap(BLOCK_SIZE * w) \in Int
    BY <1>1, Wrapped
  <2>6. Wrap(P + d) = Wrap(P) + d
    BY <1>1, <1>8, <2>1, <2>3, <2>4, <2>5
  <2> QED BY <2>1, <2>2, <2>6
<1>10. \A i \in Int : P <= i /\ i < q =>
         NumberOf(i) = w /\ Slot(i) \in Places0 /\ Slot(i) - s \in 0..n - 1
         /\ Wrap(P) + (Slot(i) - s) = Wrap(i)
  <2> TAKE i \in Int
  <2> HAVE P <= i /\ i < q
  <2>1. PICK d \in 0..n - 1 : P + d = i
    <3>1. i - P \in 0..n - 1 /\ P + (i - P) = i
      OBVIOUS
    <3> QED BY <3>1
  <2>2. Slot(i) - s = d
    BY <1>1, <1>9, <2>1
  <2> QED BY <1>9, <2>1, <2>2
<1>11. \A i \in Int : P <= i /\ i < q => new[Slot(i)] = Wrap(i)
  BY <1>6, <1>10
<1>12. \A i \in Int : i < P /\ NumberOf(i) = w => new[Slot(i)] = elements[b][Slot(i)]
  <2> TAKE i \in Int
  <2> HAVE i < P /\ NumberOf(i) = w
  <2>1. Slot(i) \in Places0 /\ i = BLOCK_SIZE * w + Slot(i)
    BY InBlock
  <2>2. Slot(i) - s < 0
    BY <1>1, <2>1
  <2> QED BY <1>6, <2>1, <2>2
<1>13. \A p \in Places0 : new[p] \in Index \cup {Raw}
  <2> TAKE p \in Places0
  <2>1. CASE p - s \in 0..n - 1
    <3>1. PICK d \in 0..n - 1 : d = p - s
      BY <2>1
    <3>2. new[p] = Wrap(P + d)
      BY <1>6, <1>9, <3>1
    <3>3. P + d \in Int
      BY <1>8
    <3> QED BY <3>2, <3>3, Wrapped DEF Index
  <2>2. CASE p - s \notin 0..n - 1
    BY <1>3, <1>6, <2>2
  <2> QED BY <2>1, <2>2
<1>14. new \in [Places0 -> Index \cup {Raw}]
  BY <1>7, <1>13
<1>15. ElementsType'
  <2>1. elements' \in [Blocks -> [Places0 -> Index \cup {Raw}]]
    BY <1>4, <1>14 DEF ElementsType
  <2> QED BY <2>1 DEF ElementsType
<1> QED BY <1>5, <1>10, <1>11, <1>12, <1>15 DEF w, Writes

\* Writing leaves what is in use alone.
LEMMA ContentsFill ==
  ASSUME NEW H \in Int, NEW T \in Int, NEW N \in Int, NEW Z \in Int, NEW U \in Int, NEW P \in Int,
         NEW L \in Int, NEW Y \in Int, NEW kn \in [Entries -> Int], NEW off \in [Nat -> Int], NEW bb,
         NEW cl \in [Consumers -> Int],
         Tails(H, T, N, Z), Batch(T, N, Z, U, P, bb), Cursor(T, Z, U, L, Y, off),
         Working(H, T, Z, U, L, kn, bb, cl), Apart(H, T, Z, U, bb, cl),
         Contents(H, P, bb, cl), ElementsType, Fill
  PROVE  Contents(H, FilledTo(N, P), bb, cl)' /\ ElementsType'
<1> DEFINE blockEnd == Base(current) + BLOCK_SIZE
           stop == IF circular_less_than(newTail, blockEnd) THEN newTail ELSE Wrap(blockEnd)
           n == Wrap(stop - current)
           q == FilledTo(N, P)
           w == NumberOf(P)
<1>1. /\ ppc = "fill" /\ UNCHANGED consumerVars
      /\ elements' = IF n = 0 THEN elements
                     ELSE [elements EXCEPT ![tailBlock] = [p \in DOMAIN @ |->
                            LET d == p - Slot(current)
                            IN  IF d \in 0..n - 1 THEN current + d ELSE @[p]]]
  BY DEF Fill
<1>2. /\ T <= P /\ P <= N /\ current = Wrap(P) /\ Pointers(T, N, Z, U, P, bb)
      /\ tailBlock = IF w <= Z THEN bb[w] ELSE endBlock
  BY <1>1 DEF Batch, Pointers
<1>3. FillsTo(N, P, blockEnd, stop)
  <2>1. stop = IF circular_less_than(newTail, blockEnd) THEN newTail ELSE Wrap(blockEnd)
    OBVIOUS
  <2>2. blockEnd = Base(current) + BLOCK_SIZE
    OBVIOUS
  <2> HIDE DEF blockEnd, stop
  <2> QED BY <1>1, <1>2, <2>1, <2>2, FillRange
<1>4. /\ q \in Int /\ P <= q /\ q <= N /\ n = q - P
      /\ q <= BLOCK_SIZE * (NumberOf(P) + 1)
  BY <1>3 DEF FillsTo
<1> HIDE DEF n, q
<1>5. CASE q = P
  <2>1. UNCHANGED elements
    BY <1>1, <1>4, <1>5
  <2>2. Contents(H, P, bb, cl)'
    BY <1>1, <2>1, ContentsStay
  <2> QED BY <1>5, <2>1, <2>2 DEF ElementsType, q
<1>6. CASE q # P
  <2>1. P < q /\ n # 0
    BY <1>4, <1>6
  <2>2. w <= Z /\ w \in Int
    <3>1. w <= LastBlock(N)
      <4>1. P <= N - 1 /\ N - 1 \in Int
        BY <1>4, <2>1
      <4> QED BY <4>1, NumbersGrow DEF LastBlock
    <3> QED BY <1>1, <3>1, Edge DEF Tails
  <2>3. tailBlock = bb[w] /\ bb[w] \in Blocks
    <3>1. NumberOf(T) <= w
      BY <1>2, NumbersGrow
    <3> QED BY <1>2, <2>2, <3>1 DEF Batch, Chained
  <2>4. PICK b \in Blocks : b = bb[w]
    BY <2>3
  <2>5. WritesFrom(b, n)
    BY <1>1, <2>1, <2>3, <2>4 DEF WritesFrom
  <2>6. /\ \A a \in Blocks : a # b => elements'[a] = elements[a]
        /\ \A i \in Int : P <= i /\ i < q => elements'[b][Slot(i)] = Wrap(i)
        /\ \A i \in Int : i < P /\ NumberOf(i) = w => elements'[b][Slot(i)] = elements[b][Slot(i)]
        /\ \A i \in Int : P <= i /\ i < q => NumberOf(i) = w
        /\ ElementsType'
    <3>1. Writes(b, P, q) /\ ElementsType'
      BY <1>2, <1>4, <2>1, <2>5, FillWrites
    <3> QED BY <3>1 DEF Writes
  <2>7. Used(H, T, Z, U, L, kn, bb, cl) /\ Ages(H, cl) /\ H <= T /\ H <= P
    BY <1>2 DEF Working, Tails
  <2>8. Ahead(w, H, T, Z, U)
    <3>1. U = LastBlock(T) /\ LastBlock(T) \in Int
      BY <1>1, LastBlockIs DEF Cursor
    <3>2. 0 <= w
      <4>1. NumberOf(0) <= w
        BY <2>7, NumbersGrow, 0 \in Int DEF Tails
      <4>2. BLOCK_SIZE * 0 + 0 = 0 /\ 0 \in 0..BLOCK_SIZE - 1
        BY Sizes
      <4>3. NumberOf(0) = 0
        BY <4>2, BlockOf, 0 \in Int
      <4> QED BY <2>2, <4>1, <4>3
    <3>3. P < BLOCK_SIZE * (w + 1) /\ BLOCK_SIZE * (w + 1) \in Int
      <4>1. P < BLOCK_SIZE * w + BLOCK_SIZE
        BY Edge
      <4>2. BLOCK_SIZE * w \in Int /\ BLOCK_SIZE * (w + 1) = BLOCK_SIZE * w + BLOCK_SIZE
        BY <2>2, BlockOrder
      <4> QED BY <4>1, <4>2, Sizes
    <3> HIDE DEF w
    <3> QED BY <2>2, <2>7, <3>1, <3>2, <3>3 DEF Ahead
  <2> HIDE DEF w
  <2>9. ASSUME NEW i \in Int, i < P, InUse(NumberOf(i), H, T, Z, U, cl), Stored(i, bb)
        PROVE  Stored(i, bb)'
    <3>1. NumberOf(i) \in Int /\ bb[NumberOf(i)] \in Blocks
      BY <2>7, <2>9, Edge DEF Used
    <3>2. CASE NumberOf(i) = w
      BY <2>4, <2>6, <2>9, <3>2 DEF Stored
    <3>3. CASE NumberOf(i) # w
      <4>1. bb[NumberOf(i)] # b
        BY <2>2, <2>4, <2>8, <2>9, <3>1, <3>3 DEF Apart, InUse
      <4> QED BY <2>6, <2>9, <3>1, <4>1 DEF Stored
    <3> QED BY <3>2, <3>3
  <2>10. ASSUME NEW i \in Int, H <= i, i < q
         PROVE  Stored(i, bb)'
    <3>1. CASE i < P
      <4>1. InUse(NumberOf(i), H, T, Z, U, cl)
        BY <1>2, <2>10, <3>1, WrittenInUse
      <4>2. Stored(i, bb)
        BY <2>10, <3>1 DEF Contents
      <4> QED BY <2>9, <3>1, <4>1, <4>2
    <3>2. CASE P <= i
      BY <2>4, <2>6, <2>10, <3>2 DEF Stored
    <3> QED BY <3>1, <3>2
  <2>11. ASSUME NEW d \in Consumers, Claimed(d)
         PROVE  Stored(cl[d], bb)'
    <3>1. cl[d] \in Int /\ cl[d] < P /\ Stored(cl[d], bb)
      BY <2>7, <2>11 DEF Contents, Ages, Claimed, AtWork
    <3>2. InUse(NumberOf(cl[d]), H, T, Z, U, cl)
      BY <2>11 DEF InUse, AtWorkIn, AtWork, Claimed
    <3> QED BY <2>9, <3>1, <3>2
  <2>12. Contents(H, q, bb, cl)'
    <3>1. \A d \in Consumers : (Claimed(d)' <=> Claimed(d)) /\ (Taken(d)' <=> Taken(d))
      BY <1>1 DEF Claimed, Taken, consumerVars
    <3>2. reg' = reg
      BY <1>1 DEF consumerVars
    <3>3. \A i \in Int : H <= i /\ i < q => Stored(i, bb)'
      BY <2>10
    <3>4. \A d \in Consumers : Claimed(d)' => Stored(cl[d], bb)'
      BY <2>11, <3>1
    <3>5. \A d \in Consumers : Taken(d)' => reg'[d].element = Wrap(cl[d])
      BY <3>1, <3>2 DEF Contents
    <3>6. \A d, e \in Consumers : Claimed(d)' /\ Claimed(e)' /\ cl[d] = cl[e] => d = e
      BY <3>1 DEF Contents
    <3>7. \A d \in Consumers : cpc'[d] = "release" => reg'[d].block \in Blocks
      BY <1>1 DEF Contents, consumerVars
    <3> QED BY <3>3, <3>4, <3>5, <3>6, <3>7 DEF Contents
  <2> QED BY <2>6, <2>12 DEF q
<1> QED BY <1>5, <1>6

-----------------------------------------------------------------------------
(* The invariant, and the steps of enqueue_bulk *)

\* The steps of enqueue_bulk, and the types of its locals.
PLabels == {"idle", "find", "key", "tail", "block", "undo", "release", "fill", "publish"}

\* The types of the blocks, the entries and the producer's pointers.
Memory ==
  /\ ElementsType
  /\ completed \in [Blocks -> 0..BLOCK_SIZE]
  /\ chain \in [Blocks -> Blocks \cup {null}]
  /\ key \in [Entries -> Index]
  /\ tailBlock \in Blocks \cup {null} /\ startBlock \in Blocks \cup {null}
  /\ firstBlock \in Blocks \cup {null} /\ endBlock \in Blocks \cup {null}
  /\ undo \in Blocks \cup {null}
  /\ startTail \in Index /\ newTail \in Index /\ current \in Index
  /\ ppc \in PLabels

\* A step of enqueue_bulk that leaves the entries' keys and blocks alone.
LEMMA WorkingSame ==
  ASSUME NEW H \in Int, NEW T \in Int, NEW Z \in Int, NEW U \in Int, NEW L \in Int,
         NEW kn \in [Entries -> Int], NEW bb, NEW cl \in [Consumers -> Int],
         Working(H, T, Z, U, L, kn, bb, cl), Shape,
         UNCHANGED <<value, completed, consumerVars, key>>,
         blockIndex' \in {blockIndex, blockIndex + 1},
         \A h \in 1..blockIndex : Capacity(h)' = Capacity(h) /\ index'[h].entries = index[h].entries,
         NEW T2 \in Int, NEW Z2 \in Int, NEW U2 \in Int,
         \A n \in Int : Ahead(n, H, T2, Z2, U2) <=> Ahead(n, H, T, Z, U)
  PROVE  Working(H, T2, Z2, U2, L, kn, bb, cl)'
<1>1. cpc' = cpc
  BY DEF consumerVars
<1>2. Used(H, T2, Z2, U2, L, kn, bb, cl)'
  BY <1>1, UsedStays DEF Working
<1>3. Ages(H, cl)'
  BY <1>1 DEF Working, Ages
<1>4. \A e : Keyed(e)' <=> Keyed(e)
  BY DEF Keyed
<1>5. Work(H, kn, cl)'
  <2>1. \A e \in Entries : Keyed(e) => Keyed(e)'
    BY <1>4
  <2>2. \A e \in Entries, n \in Int : AtWorkIn(n, cl) # {} =>
          (Keyed(e)' /\ kn[e] = n <=> Keyed(e) /\ kn[e] = n)
    BY <1>4
  <2>3. \A e \in Entries : Keyed(e) /\ AtWorkIn(kn[e], cl) # {} =>
          value'[e] = value[e] /\ completed'[value[e]] = completed[value[e]]
    OBVIOUS
  <2> QED BY <2>1, <2>2, <2>3, WorkStays DEF Working
<1> QED BY <1>2, <1>3, <1>5 DEF Working

\* The index as it is.
LEMMA SameIndex ==
  ASSUME UNCHANGED <<blockIndex, index>>
  PROVE  /\ blockIndex' \in {blockIndex, blockIndex + 1}
         /\ \A h \in 1..blockIndex : Capacity(h)' = Capacity(h) /\ index'[h].entries = index[h].entries
BY DEF Capacity

\* Its tail moves.
LEMMA SameButTail ==
  ASSUME Shape, NEW x, index' = [index EXCEPT ![blockIndex].tail = x], UNCHANGED blockIndex
  PROVE  /\ blockIndex' \in {blockIndex, blockIndex + 1}
         /\ \A h \in 1..blockIndex : Capacity(h)' = Capacity(h) /\ index'[h].entries = index[h].entries
BY IndexTail DEF Capacity

\* The entry has the key already.
LEMMA IndexedKeyAgain ==
  ASSUME NEW T \in Int, NEW Z \in Int, NEW U \in Int, NEW L \in Int, NEW Y \in Int,
         NEW kn \in [Entries -> Int], NEW off \in [Nat -> Int], Indexed(T, Z, U, L, Y, kn, off),
         StoreKey, current = Wrap(BLOCK_SIZE * (Z + 1)), entry \in Entries, Keyed(entry),
         kn[entry] = Z + 1
  PROVE  Indexed(T, Z, U, L, Y, kn, off)' /\ key' = key
<1>1. ppc = "key" /\ ppc' = "tail" /\ key' = [key EXCEPT ![entry] = current]
      /\ UNCHANGED <<blockIndex, index, value, entry>>
  BY DEF StoreKey, Step
<1>2. key[entry] = current /\ Z + 1 <= Y
  BY DEF Indexed, Keys
<1>3. key' = key
  BY <1>1, <1>2 DEF Indexed, Shape
<1>4. /\ LastBlock(T) <= U /\ U <= Z /\ U = LastBlock(T) /\ L <= LastBlock(T) + 1 /\ Z <= Y
      /\ entry = At(Z + 1, off) /\ LastBlock(T) \in Int
  BY <1>1, LastBlockIs DEF Indexed, Cursor
<1>5. AtTail(T, Z, U)' = AtTail(T, Z, U)
  BY <1>1 DEF AtTail
<1>6. Z < Y
  BY <1>2
<1>7. Indexed(T, Z, U, L, Y, kn, off)'
  BY <1>1, <1>3, <1>4, <1>5, <1>6, CursorStays
<1> QED BY <1>3, <1>7

\* No batch is being undone.
LEMMA NothingUndone ==
  ASSUME NEW T \in Int
  PROVE  NoneUndone(T, LastBlock(T))
BY LastBlockIs DEF NoneUndone, Undone

-----------------------------------------------------------------------------

\* The parts of the invariant together.
Inv(H, T, N, Z, U, L, Y, P, kn, off, bb, cl, place, holder) ==
  /\ Tails(H, T, N, Z) /\ Indexed(T, Z, U, L, Y, kn, off) /\ Ready(Z, kn)
  /\ Working(H, T, Z, U, L, kn, bb, cl) /\ Owned(T, U, bb, place, holder)
  /\ Batch(T, N, Z, U, P, bb) /\ Contents(H, P, bb, cl) /\ Memory

\* What the numbers of an index, wrapped or rounded to a block, are.
LEMMA Indices ==
  /\ \A i \in Int : Wrap(i) \in Index /\ Base(i) \in Index
  /\ Index \subseteq Int
<1>1. \A i \in Int : Wrap(i) \in Index /\ Wrap(i) \in Int
  BY Wrapped DEF Index
<1>2. \A i \in Int : Base(i) \in Index
  <2> TAKE i \in Int
  <2>1. NumberOf(i) \in Int
    BY BaseOf
  <2>2. BLOCK_SIZE * NumberOf(i) \in Int
    BY <2>1, BlockOrder
  <2> QED BY <1>1, <2>2, BaseOf
<1>3. Index \subseteq Int
  BY Sizes DEF Index
<1> QED BY <1>1, <1>2, <1>3

\* What a step that only looks for a place leaves as it is.
Kept(H, T, Z, U, L, P, kn, bb, cl, place, holder) ==
  Working(H, T, Z, U, L, kn, bb, cl) /\ Owned(T, U, bb, place, holder) /\ Contents(H, P, bb, cl)

\* So does one that leaves entries and blocks alone.
LEMMA KeptSame ==
  ASSUME NEW H \in Int, NEW T \in Int, NEW N \in Int, NEW Z \in Int, NEW U \in Int, NEW L \in Int,
         NEW Y \in Int, NEW P \in Int, NEW kn \in [Entries -> Int], NEW off \in [Nat -> Int],
         NEW bb \in [Int -> Blocks \cup {null}], NEW cl \in [Consumers -> Int],
         NEW place, NEW holder, Inv(H, T, N, Z, U, L, Y, P, kn, off, bb, cl, place, holder),
         UNCHANGED <<value, completed, consumerVars, key, fresh, free, elements>>,
         blockIndex' \in {blockIndex, blockIndex + 1},
         \A h \in 1..blockIndex : Capacity(h)' = Capacity(h) /\ index'[h].entries = index[h].entries
  PROVE  Kept(H, T, Z, U, L, P, kn, bb, cl, place, holder)'
<1>1. Shape /\ Working(H, T, Z, U, L, kn, bb, cl) /\ Owned(T, U, bb, place, holder)
      /\ Contents(H, P, bb, cl)
  BY DEF Inv, Indexed
<1>2. \A n \in Int : Ahead(n, H, T, Z, U) <=> Ahead(n, H, T, Z, U)
  OBVIOUS
<1>3. Working(H, T, Z, U, L, kn, bb, cl)'
  BY <1>1, <1>2, WorkingSame
<1>4. Owned(T, U, bb, place, holder)'
  BY <1>1, OwnedStays DEF consumerVars
<1>5. Contents(H, P, bb, cl)'
  BY <1>1, ContentsStay
<1> QED BY <1>3, <1>4, <1>5 DEF Kept

\* EnqueueBulk.
LEMMA InvBulk ==
  ASSUME NEW H \in Int, NEW T \in Int, NEW N \in Int, NEW Z \in Int, NEW U \in Int, NEW L \in Int,
         NEW Y \in Int, NEW P \in Int, NEW kn \in [Entries -> Int], NEW off \in [Nat -> Int],
         NEW bb \in [Int -> Blocks \cup {null}], NEW cl \in [Consumers -> Int],
         NEW place, NEW holder, Inv(H, T, N, Z, U, L, Y, P, kn, off, bb, cl, place, holder),
         NEW count \in 0..MaxBulk, EnqueueBulk(count)
  PROVE  Inv(H, T, T + count, Z, U, L, Y, P, kn, off, bb, cl, place, holder)'
<1>1. /\ ppc = "idle" /\ ppc' = "find"
      /\ UNCHANGED <<value, completed, consumerVars, key, fresh, free, elements, blockIndex, index,
                     entry, chain>>
  BY DEF EnqueueBulk, Step, indexVars, blockVars, memoryVars
<1>2. Z = LastBlock(T)
  BY <1>1 DEF Inv, Tails
<1>3. Tails(H, T, T + count, Z)'
  BY BulkTails DEF Inv
<1>4. Indexed(T, Z, U, L, Y, kn, off)'
  BY <1>1, IndexedSame DEF Inv, Inserting
<1>5. Ready(Z, kn)'
  BY <1>1 DEF Ready
<1>6. Kept(H, T, Z, U, L, P, kn, bb, cl, place, holder)'
  BY <1>1, KeptSame, SameIndex
<1>7. Batch(T, T + count, Z, U, P, bb)'
  BY <1>2, BatchBulk DEF Inv
<1>8. Memory'
  <2>1. Memory /\ T \in Int /\ count \in Int /\ tailIndex = Wrap(T)
    BY Sizes DEF Inv, Tails
  <2>2. startTail' = tailIndex /\ newTail' = Wrap(tailIndex + count)
        /\ current' = Base(tailIndex - 1) /\ startBlock' = tailBlock /\ endBlock' = tailBlock
        /\ UNCHANGED <<tailBlock, firstBlock, undo>>
    BY DEF EnqueueBulk
  <2>3. tailIndex \in Index /\ tailIndex \in Int
    BY <2>1, Indices
  <2>4. newTail' \in Index /\ current' \in Index /\ startTail' \in Index
    BY <2>1, <2>2, <2>3, Indices
  <2> QED BY <1>1, <2>1, <2>2, <2>4 DEF Memory, ElementsType, PLabels
<1> QED BY <1>3, <1>4, <1>5, <1>6, <1>7, <1>8 DEF Inv, Kept

\* An entry that a claim or the queue needs holds a block, others do not.
LEMMA BlockKeyed ==
  ASSUME NEW H \in Int, NEW T \in Int, NEW N \in Int, NEW Z \in Int, NEW U \in Int, NEW L \in Int,
         NEW Y \in Int, NEW P \in Int, NEW kn \in [Entries -> Int], NEW off \in [Nat -> Int],
         NEW bb \in [Int -> Blocks \cup {null}], NEW cl \in [Consumers -> Int],
         NEW place, NEW holder, Inv(H, T, N, Z, U, L, Y, P, kn, off, bb, cl, place, holder)
  PROVE  /\ \A e \in Entries : value[e] # null => Keyed(e) /\ kn[e] <= Z
         /\ \A e \in Entries : key[e] = INVALID_BLOCK_BASE => value[e] = null
<1>1. ASSUME NEW e \in Entries, value[e] # null PROVE Keyed(e) /\ kn[e] <= Z
  <2>1. Keyed(e) /\ InUse(kn[e], H, T, Z, U, cl)
    BY <1>1 DEF Inv, Working, Used
  <2>2. kn[e] \in Int /\ Tails(H, T, N, Z) /\ Ages(H, cl)
    BY DEF Inv, Working
  <2>3. InRange(kn[e], T, Z, U)
    BY <2>1, <2>2, InUseRange
  <2> QED BY <2>1, <2>3 DEF InRange
<1> QED BY <1>1 DEF Keyed

\* FindEntry.
LEMMA InvFind ==
  ASSUME NEW H \in Int, NEW T \in Int, NEW N \in Int, NEW Z \in Int, NEW U \in Int, NEW L \in Int,
         NEW Y \in Int, NEW P \in Int, NEW kn \in [Entries -> Int], NEW off \in [Nat -> Int],
         NEW bb \in [Int -> Blocks \cup {null}], NEW cl \in [Consumers -> Int],
         NEW place, NEW holder, Inv(H, T, N, Z, U, L, Y, P, kn, off, bb, cl, place, holder),
         FindEntry
  PROVE  Inv(H, T, N, Z, U, L, Y, P, kn, off, bb, cl, place, holder)'
<1>1. /\ ppc = "find" /\ ppc' = "key"
      /\ UNCHANGED <<value, completed, consumerVars, key, fresh, free, elements, blockIndex, index,
                     chain, tailBlock, startBlock, firstBlock, endBlock, startTail, newTail, undo>>
      /\ current' = Wrap(current + BLOCK_SIZE)
  BY DEF FindEntry, Step, indexVars, blockVars, memoryVars, batchVars
<1>2. Tails(H, T, N, Z)'
  BY FindTails DEF Inv
<1>3. Indexed(T, Z, U, L, Y, kn, off)' /\ entry' \in Entries
  BY IndexedFind DEF Inv
<1>4. value[entry'] = null
  <2>1. key[entry'] = INVALID_BLOCK_BASE \/ value[entry'] = null
    BY DEF FindEntry
  <2> QED BY <1>3, <2>1, BlockKeyed
<1>5. Ready(Z, kn)'
  BY <1>1, <1>3, <1>4 DEF Ready
<1>6. Kept(H, T, Z, U, L, P, kn, bb, cl, place, holder)'
  BY <1>1, KeptSame, SameIndex
<1>7. Batch(T, N, Z, U, P, bb)'
  BY <1>1, BatchSame DEF Inv
<1>8. Memory'
  <2>1. Memory /\ current \in Int /\ BLOCK_SIZE \in Int
    BY Indices, Sizes DEF Inv, Memory
  <2>2. current' \in Index
    BY <1>1, <2>1, Indices
  <2> QED BY <1>1, <2>1, <2>2 DEF Memory, ElementsType, PLabels
<1> QED BY <1>2, <1>3, <1>5, <1>6, <1>7, <1>8 DEF Inv, Kept

\* GrowIndex.
LEMMA InvGrow ==
  ASSUME NEW H \in Int, NEW T \in Int, NEW N \in Int, NEW Z \in Int, NEW U \in Int, NEW L \in Int,
         NEW Y \in Int, NEW P \in Int, NEW kn \in [Entries -> Int], NEW off \in [Nat -> Int],
         NEW bb \in [Int -> Blocks \cup {null}], NEW cl \in [Consumers -> Int],
         NEW place, NEW holder, Inv(H, T, N, Z, U, L, Y, P, kn, off, bb, cl, place, holder),
         GrowIndex
  PROVE  \E off2 \in [Nat -> Int] :
           Inv(H, T, N, Z, U, L, Y, P, kn, off2, bb, cl, place, holder)'
<1>1. /\ ppc = "find" /\ ppc' = "key" /\ blockIndex' = blockIndex + 1
      /\ UNCHANGED <<value, completed, consumerVars, key, fresh, free, elements,
                     chain, tailBlock, startBlock, firstBlock, endBlock, startTail, newTail, undo>>
      /\ current' = Wrap(current + BLOCK_SIZE)
  BY DEF GrowIndex, Step, blockVars, memoryVars, batchVars
<1>2. Tails(H, T, N, Z)'
  BY FindTails DEF Inv
<1>3. /\ \E off2 \in [Nat -> Int] : Indexed(T, Z, U, L, Y, kn, off2)'
      /\ entry' \in Entries /\ ~Keyed(entry')
  <2>1. \A e \in Entries : value[e] # null => Keyed(e) /\ kn[e] <= Z
    BY BlockKeyed
  <2>2. Indexed(T, Z, U, L, Y, kn, off)
    BY DEF Inv
  <2> QED BY <2>1, <2>2, IndexedGrow
<1>4. PICK off2 \in [Nat -> Int] : Indexed(T, Z, U, L, Y, kn, off2)'
  BY <1>3
<1>5. value[entry'] = null
  BY <1>3, BlockKeyed
<1>6. Ready(Z, kn)'
  BY <1>1, <1>3, <1>5 DEF Ready
<1>7. Kept(H, T, Z, U, L, P, kn, bb, cl, place, holder)'
  <2>1. \A h \in 1..blockIndex : index'[h] = index[h] /\ Capacity(h)' = Capacity(h)
    BY GrownIndex DEF Inv, Indexed
  <2> QED BY <1>1, <2>1, KeptSame
<1>8. Batch(T, N, Z, U, P, bb)'
  BY <1>1, BatchSame DEF Inv
<1>9. Memory'
  <2>1. Memory /\ current \in Int /\ BLOCK_SIZE \in Int
    BY Indices, Sizes DEF Inv, Memory
  <2>2. current' \in Index
    BY <1>1, <2>1, Indices
  <2> QED BY <1>1, <2>1, <2>2 DEF Memory, ElementsType, PLabels
<1>10. Inv(H, T, N, Z, U, L, Y, P, kn, off2, bb, cl, place, holder)'
  BY <1>2, <1>4, <1>6, <1>7, <1>8, <1>9 DEF Inv, Kept
<1> QED BY <1>10

\* The entry that is free for the batch's next block is not the last one that
\* may still be looked for.
LEMMA OldestFree ==
  ASSUME NEW H \in Int, NEW T \in Int, NEW N \in Int, NEW Z \in Int, NEW U \in Int, NEW L \in Int,
         NEW Y \in Int, NEW P \in Int, NEW kn \in [Entries -> Int], NEW off \in [Nat -> Int],
         NEW bb \in [Int -> Blocks \cup {null}], NEW cl \in [Consumers -> Int],
         NEW place, NEW holder, Inv(H, T, N, Z, U, L, Y, P, kn, off, bb, cl, place, holder),
         ppc = "key", NEW x \in Entries, value[x] = null, ~(Keyed(x) /\ kn[x] = Z + 1)
  PROVE  OldestStays(x, T, L, kn)
<1> SUFFICES ASSUME Keyed(x), kn[x] = L, ~(L <= LastBlock(T)) PROVE FALSE
  BY DEF OldestStays
<1>1. LastBlock(T) \in Int /\ U = LastBlock(T) /\ U <= Z /\ 0 <= L /\ L <= LastBlock(T) + 1
  BY LastBlockIs DEF Inv, Indexed, Cursor
<1>2. L = LastBlock(T) + 1 /\ L <= Z /\ L - 1 = LastBlock(T)
  BY <1>1
<1>3. H <= T /\ T <= BLOCK_SIZE * LastBlock(T) + BLOCK_SIZE
  BY LastBlockIs DEF Inv, Tails
<1>4. H < BLOCK_SIZE * (L + 1)
  <2>1. BLOCK_SIZE * (LastBlock(T) + 1) = BLOCK_SIZE * LastBlock(T) + BLOCK_SIZE
        /\ BLOCK_SIZE * LastBlock(T) \in Int
    BY <1>1, BlockOrder
  <2>2. BLOCK_SIZE * (L + 1) = BLOCK_SIZE * L + BLOCK_SIZE /\ BLOCK_SIZE * L \in Int
    BY BlockOrder
  <2>3. BLOCK_SIZE * L = BLOCK_SIZE * (LastBlock(T) + 1)
    BY <1>2
  <2> QED BY <1>3, <2>1, <2>2, <2>3, Sizes
<1>5. InUse(L, H, T, Z, U, cl)
  BY <1>1, <1>2, <1>4 DEF InUse, Ahead
<1>6. value[x] = bb[L] /\ bb[L] \in Blocks
  BY <1>5 DEF Inv, Working, Used
<1> QED BY <1>6, QueueAssumption

\* StoreKey.
LEMMA InvKey ==
  ASSUME NEW H \in Int, NEW T \in Int, NEW N \in Int, NEW Z \in Int, NEW U \in Int, NEW L \in Int,
         NEW Y \in Int, NEW P \in Int, NEW kn \in [Entries -> Int], NEW off \in [Nat -> Int],
         NEW bb \in [Int -> Blocks \cup {null}], NEW cl \in [Consumers -> Int],
         NEW place, NEW holder, Inv(H, T, N, Z, U, L, Y, P, kn, off, bb, cl, place, holder),
         StoreKey
  PROVE  \E L2 \in Int, Y2 \in Int, kn2 \in [Entries -> Int] :
           Inv(H, T, N, Z, U, L2, Y2, P, kn2, off, bb, cl, place, holder)'
<1>1. /\ ppc = "key" /\ ppc' = "tail" /\ key' = [key EXCEPT ![entry] = current]
      /\ UNCHANGED <<value, completed, consumerVars, fresh, free, elements, blockIndex, index, entry,
                     current, chain, tailBlock, startBlock, firstBlock, endBlock, startTail, newTail,
                     undo>>
  BY DEF StoreKey, Step, blockVars, memoryVars, batchVars
<1>2. current = Wrap(BLOCK_SIZE * (Z + 1))
  BY <1>1 DEF Inv, Tails
<1>3. PICK x \in Entries : x = entry /\ value[x] = null
  BY <1>1 DEF Inv, Ready
<1>4. Tails(H, T, N, Z)'
  BY SearchTails DEF Inv
<1>5. Batch(T, N, Z, U, P, bb)'
  BY <1>1, BatchSame DEF Inv
<1>6. Memory'
  <2>1. Memory /\ current \in Index
    BY DEF Inv, Memory
  <2>2. key' \in [Entries -> Index]
    BY <1>1, <2>1 DEF Memory
  <2> QED BY <1>1, <2>1, <2>2 DEF Memory, ElementsType, PLabels
<1>7. CASE Keyed(x) /\ kn[x] = Z + 1
  <2>1. Indexed(T, Z, U, L, Y, kn, off)' /\ key' = key
    BY <1>2, <1>3, <1>7, IndexedKeyAgain DEF Inv
  <2>2. Kept(H, T, Z, U, L, P, kn, bb, cl, place, holder)'
    BY <1>1, <2>1, KeptSame, SameIndex
  <2>3. Ready(Z, kn)'
    <3>1. x = entry' /\ value'[x] = null /\ key'[x] # INVALID_BLOCK_BASE
      BY <1>1, <1>3, <1>7, <2>1 DEF Keyed
    <3> QED BY <1>7, <3>1 DEF Ready, Keyed
  <2>4. Inv(H, T, N, Z, U, L, Y, P, kn, off, bb, cl, place, holder)'
    BY <1>4, <1>5, <1>6, <2>1, <2>2, <2>3 DEF Inv, Kept
  <2> QED BY <2>4
<1>8. CASE ~(Keyed(x) /\ kn[x] = Z + 1)
  <2>1. OldestStays(x, T, L, kn)
    BY <1>1, <1>3, <1>8, OldestFree
  <2>2. Indexed(T, Z, U, L, Y, kn, off) /\ Working(H, T, Z, U, L, kn, bb, cl) /\ Tails(H, T, N, Z)
    BY DEF Inv
  <2>3. NewKey(x, T, Z, U, L, kn, off) /\ OnlyKeyed(x)
    BY <1>2, <1>3, <2>1, <2>2, IndexedKey
  <2>4. PICK L2 \in Int, Y2 \in Int, kn2 \in [Entries -> Int] :
          /\ Indexed(T, Z, U, L2, Y2, kn2, off)'
          /\ kn2[x] = Z + 1
          /\ \A f \in Entries : f # x => kn2[f] = kn[f]
          /\ L2 # L => L2 = L + 1 /\ Keyed(x) /\ kn[x] = L
    BY <2>3 DEF NewKey
  <2>5. Keyed(x)'
    BY <2>3 DEF OnlyKeyed
  <2>6. \A f \in Entries : f # x => (Keyed(f)' <=> Keyed(f))
    BY <2>3 DEF OnlyKeyed
  <2>7. Used(H, T, Z, U, L2, kn2, bb, cl)'
    <3>1. Used(H, T, Z, U, L, kn, bb, cl) /\ Ages(H, cl) /\ UNCHANGED <<value, completed, cpc>>
      BY <1>1, <2>2 DEF Working, consumerVars
    <3>2. \A e \in Entries : e # x => (Keyed(e)' <=> Keyed(e)) /\ kn2[e] = kn[e]
      BY <2>4, <2>6
    <3>3. value[x] = null /\ kn2[x] = Z + 1 /\ (L2 # L => L2 = L + 1 /\ Keyed(x) /\ kn[x] = L)
      BY <1>3, <2>4
    <3> QED BY <2>2, <2>5, <3>1, <3>2, <3>3, UsedKey
  <2>8. Ages(H, cl)'
    BY <1>1, <2>2 DEF Working, Ages, consumerVars
  <2>9. Work(H, kn2, cl)'
    <3>1. \A e \in Entries : Keyed(e) => Keyed(e)'
      BY <2>5, <2>6
    <3>2. ASSUME NEW e \in Entries, NEW n \in Int, AtWorkIn(n, cl) # {}
          PROVE  Keyed(e)' /\ kn2[e] = n <=> Keyed(e) /\ kn[e] = n
      <4>1. CASE e # x
        BY <2>4, <2>6, <4>1
      <4>2. CASE e = x
        <5>1. InUse(n, H, T, Z, U, cl) /\ Ages(H, cl)
          BY <2>2, <3>2 DEF InUse, Working
        <5>2. n <= Z
          BY <2>2, <5>1, InUseRange DEF InRange
        <5>3. Keyed(x) /\ kn[x] = n => value[x] \in Blocks
          BY <2>2, <5>1 DEF Working, Used
        <5>4. kn2[e] # n
          BY <2>4, <4>2, <5>2
        <5> QED BY <1>3, <4>2, <5>3, <5>4, QueueAssumption
      <4> QED BY <4>1, <4>2
    <3>3. \A e \in Entries : Keyed(e) /\ AtWorkIn(kn[e], cl) # {} =>
            value'[e] = value[e] /\ completed'[value[e]] = completed[value[e]]
      BY <1>1
    <3>4. Shape /\ Work(H, kn, cl) /\ UNCHANGED consumerVars
      BY <1>1, <2>2 DEF Indexed, Working
    <3>5. /\ blockIndex' \in {blockIndex, blockIndex + 1}
          /\ \A h \in 1..blockIndex :
               Capacity(h)' = Capacity(h) /\ index'[h].entries = index[h].entries
      BY <1>1, SameIndex
    <3> QED BY <3>1, <3>2, <3>3, <3>4, <3>5, WorkStays
  <2>10. Owned(T, U, bb, place, holder)'
    <3>1. Owned(T, U, bb, place, holder)
      BY DEF Inv
    <3> QED BY <1>1, <3>1, OwnedStays DEF consumerVars
  <2>11. Contents(H, P, bb, cl)'
    BY <1>1, ContentsStay DEF Inv
  <2>12. Ready(Z, kn2)'
    <3>1. x = entry' /\ value'[x] = null /\ key'[x] # INVALID_BLOCK_BASE
      BY <1>1, <1>3, <2>5 DEF Keyed
    <3> QED BY <2>4, <3>1 DEF Ready, Keyed
  <2>13. Inv(H, T, N, Z, U, L2, Y2, P, kn2, off, bb, cl, place, holder)'
    BY <1>4, <1>5, <1>6, <2>4, <2>7, <2>8, <2>9, <2>10, <2>11, <2>12 DEF Inv, Working
  <2> QED BY <2>13
<1> QED BY <1>7, <1>8

\* StoreTail.
LEMMA InvTail ==
  ASSUME NEW H \in Int, NEW T \in Int, NEW N \in Int, NEW Z \in Int, NEW U \in Int, NEW L \in Int,
         NEW Y \in Int, NEW P \in Int, NEW kn \in [Entries -> Int], NEW off \in [Nat -> Int],
         NEW bb \in [Int -> Blocks \cup {null}], NEW cl \in [Consumers -> Int],
         NEW place, NEW holder, Inv(H, T, N, Z, U, L, Y, P, kn, off, bb, cl, place, holder),
         StoreTail
  PROVE  Inv(H, T, N, Z, U, L, Y, P, kn, off, bb, cl, place, holder)'
<1>1. /\ ppc = "tail" /\ ppc' = "block"
      /\ index' = [index EXCEPT ![blockIndex].tail = NextPos(blockIndex)]
      /\ UNCHANGED <<value, completed, consumerVars, key, fresh, free, elements, blockIndex, entry,
                     current, chain, tailBlock, startBlock, firstBlock, endBlock, startTail, newTail,
                     undo>>
  BY DEF StoreTail, Step, blockVars, memoryVars, batchVars
<1>2. Tails(H, T, N, Z)'
  BY SearchTails DEF Inv
<1>3. Indexed(T, Z, U, L, Y, kn, off)'
  BY IndexedAdvance DEF Inv
<1>4. Ready(Z, kn)'
  <2>1. PICK x \in Entries : x = entry /\ value[x] = null /\ Keyed(x) /\ kn[x] = Z + 1
    BY <1>1 DEF Inv, Ready
  <2>2. entry' = x /\ value'[x] = null /\ key'[x] # INVALID_BLOCK_BASE
    BY <1>1, <2>1 DEF Keyed
  <2> QED BY <2>1, <2>2 DEF Ready, Keyed
<1>5. Kept(H, T, Z, U, L, P, kn, bb, cl, place, holder)'
  <2>1. /\ blockIndex' \in {blockIndex, blockIndex + 1}
        /\ \A h \in 1..blockIndex :
             Capacity(h)' = Capacity(h) /\ index'[h].entries = index[h].entries
    BY <1>1, SameButTail DEF Inv, Indexed
  <2> QED BY <1>1, <2>1, KeptSame
<1>6. Batch(T, N, Z, U, P, bb)'
  BY <1>1, BatchSame DEF Inv
<1>7. Memory'
  <2>1. Memory
    BY DEF Inv
  <2> QED BY <1>1, <2>1 DEF Memory, ElementsType, PLabels
<1> QED BY <1>2, <1>3, <1>4, <1>5, <1>6, <1>7 DEF Inv, Kept

\* NoBlock.
LEMMA InvNoBlock ==
  ASSUME NEW H \in Int, NEW T \in Int, NEW N \in Int, NEW Z \in Int, NEW U \in Int, NEW L \in Int,
         NEW Y \in Int, NEW P \in Int, NEW kn \in [Entries -> Int], NEW off \in [Nat -> Int],
         NEW bb \in [Int -> Blocks \cup {null}], NEW cl \in [Consumers -> Int],
         NEW place, NEW holder, Inv(H, T, N, Z, U, L, Y, P, kn, off, bb, cl, place, holder),
         NoBlock
  PROVE  Inv(H, T, N, Z, U, L, Y, P, kn, off, bb, cl, place, holder)'
<1>1. /\ ppc = "block" /\ ppc' = "undo"
      /\ index' = [index EXCEPT ![blockIndex].tail = PrevPos(blockIndex)]
      /\ value' = [value EXCEPT ![entry] = null]
      /\ current' = Base(startTail - 1) /\ undo' = firstBlock
      /\ UNCHANGED <<completed, consumerVars, key, fresh, free, elements, blockIndex,
                     chain, tailBlock, startBlock, firstBlock, endBlock, startTail, newTail>>
  BY DEF NoBlock, Step, blockVars, memoryVars, batchVars
<1>2. value' = value
  BY <1>1 DEF Inv, Ready, Owned
<1>3. U = LastBlock(T) /\ startTail = Wrap(T)
  BY <1>1 DEF Inv, Indexed, Cursor, Tails
<1>4. Tails(H, T, N, Z)'
  BY SearchTails DEF Inv
<1>5. Indexed(T, Z, U, L, Y, kn, off)'
  BY IndexedNoBlock DEF Inv
<1>6. Ready(Z, kn)'
  BY <1>1 DEF Ready
<1>7. Kept(H, T, Z, U, L, P, kn, bb, cl, place, holder)'
  <2>1. /\ blockIndex' \in {blockIndex, blockIndex + 1}
        /\ \A h \in 1..blockIndex :
             Capacity(h)' = Capacity(h) /\ index'[h].entries = index[h].entries
    BY <1>1, SameButTail DEF Inv, Indexed
  <2> QED BY <1>1, <1>2, <2>1, KeptSame
<1>8. Batch(T, N, Z, U, P, bb)'
  BY <1>3, BatchFails DEF Inv
<1>9. Memory'
  <2>1. Memory /\ startTail \in Int
    BY Indices DEF Inv, Memory
  <2>2. current' \in Index
    BY <1>1, <2>1, Indices
  <2> QED BY <1>1, <2>1, <2>2 DEF Memory, ElementsType, PLabels
<1> QED BY <1>4, <1>5, <1>6, <1>7, <1>8, <1>9 DEF Inv, Kept

\* NoEntry.
LEMMA InvNoEntry ==
  ASSUME NEW H \in Int, NEW T \in Int, NEW N \in Int, NEW Z \in Int, NEW U \in Int, NEW L \in Int,
         NEW Y \in Int, NEW P \in Int, NEW kn \in [Entries -> Int], NEW off \in [Nat -> Int],
         NEW bb \in [Int -> Blocks \cup {null}], NEW cl \in [Consumers -> Int],
         NEW place, NEW holder, Inv(H, T, N, Z, U, L, Y, P, kn, off, bb, cl, place, holder),
         NoEntry
  PROVE  Inv(H, T, N, Z, U, L, Y, P, kn, off, bb, cl, place, holder)'
<1>1. /\ ppc = "find" /\ ppc' = "undo"
      /\ current' = Base(startTail - 1) /\ undo' = firstBlock
      /\ UNCHANGED <<value, completed, consumerVars, key, fresh, free, elements, blockIndex, index,
                     entry, chain, tailBlock, startBlock, firstBlock, endBlock, startTail, newTail>>
  BY DEF NoEntry, Step, blockVars, memoryVars, batchVars, indexVars
<1>2. U = LastBlock(T) /\ startTail = Wrap(T)
  BY <1>1 DEF Inv, Indexed, Cursor, Tails
<1>3. Tails(H, T, N, Z)'
  BY SearchTails DEF Inv
<1>4. Indexed(T, Z, U, L, Y, kn, off)'
  BY <1>1, IndexedSame DEF Inv, Inserting
<1>5. Ready(Z, kn)'
  BY <1>1 DEF Ready
<1>6. Kept(H, T, Z, U, L, P, kn, bb, cl, place, holder)'
  BY <1>1, KeptSame, SameIndex
<1>7. Batch(T, N, Z, U, P, bb)'
  BY <1>2, BatchFails DEF Inv
<1>8. Memory'
  <2>1. Memory /\ startTail \in Int
    BY Indices DEF Inv, Memory
  <2>2. current' \in Index
    BY <1>1, <2>1, Indices
  <2> QED BY <1>1, <2>1, <2>2 DEF Memory, ElementsType, PLabels
<1> QED BY <1>3, <1>4, <1>5, <1>6, <1>7, <1>8 DEF Inv, Kept

\* GetBlock.
LEMMA InvBlock ==
  ASSUME NEW H \in Int, NEW T \in Int, NEW N \in Int, NEW Z \in Int, NEW U \in Int, NEW L \in Int,
         NEW Y \in Int, NEW P \in Int, NEW kn \in [Entries -> Int], NEW off \in [Nat -> Int],
         NEW bb \in [Int -> Blocks \cup {null}], NEW cl \in [Consumers -> Int],
         NEW place, NEW holder, Inv(H, T, N, Z, U, L, Y, P, kn, off, bb, cl, place, holder),
         NEW b \in Blocks, GetBlock(b)
  PROVE  \E bb2 \in [Int -> Blocks \cup {null}] : \E place2, holder2 :
           Inv(H, T, N, Z + 1, U, L, Y, P, kn, off, bb2, cl, place2, holder2)'
<1>1. /\ ppc = "block" /\ ppc' = "find" /\ Requisition(b)
      /\ completed' = [completed EXCEPT ![b] = 0]
      /\ value' = [value EXCEPT ![entry] = b]
      /\ UNCHANGED <<consumerVars, key, elements, blockIndex, index, startTail, newTail, current,
                     startBlock, undo>>
  BY DEF GetBlock, Step, batchVars, ResetEmpty
<1>2. /\ Tails(H, T, N, Z) /\ Indexed(T, Z, U, L, Y, kn, off) /\ Shape /\ Keys(L, Y, kn, off)
      /\ Working(H, T, Z, U, L, kn, bb, cl) /\ Used(H, T, Z, U, L, kn, bb, cl)
      /\ Ages(H, cl) /\ Work(H, kn, cl) /\ Owned(T, U, bb, place, holder)
      /\ Batch(T, N, Z, U, P, bb) /\ Contents(H, P, bb, cl) /\ Memory
  BY DEF Inv, Indexed, Working
<1>3. PICK x \in Entries : x = entry /\ value[x] = null /\ Keyed(x) /\ kn[x] = Z + 1
  BY <1>1 DEF Inv, Ready
<1>4. /\ U = LastBlock(T) /\ startTail = Wrap(T) /\ LastBlock(T) <= Z /\ L <= Z + 1
      /\ LastBlock(T) \in Int /\ P = T /\ H <= T /\ 0 <= H
  <2>1. U = LastBlock(T) /\ startTail = Wrap(T) /\ L <= LastBlock(T) + 1 /\ U <= Z
        /\ H <= T /\ 0 <= H
    BY <1>1, <1>2 DEF Indexed, Cursor, Tails
  <2>2. P = T
    BY <1>1, <1>2 DEF Batch, Pointers
  <2> QED BY <2>1, <2>2, LastBlockIs
<1>5. PICK bb2 \in [Int -> Blocks \cup {null}] : bb2 = [bb EXCEPT ![Z + 1] = b]
  OBVIOUS
<1>6. Tails(H, T, N, Z + 1)'
  BY <1>2, BlockTails
<1>7. Indexed(T, Z + 1, U, L, Y, kn, off)'
  BY <1>2, IndexedBlock
<1>8. Ready(Z + 1, kn)'
  BY <1>1 DEF Ready
<1>9. NoneUndone(T, U) /\ UNCHANGED <<cpc, reg>> /\ value' = [value EXCEPT ![x] = b]
  BY <1>1, <1>3, <1>4, NothingUndone DEF consumerVars
<1>10. /\ Owned(T, U, bb2, [place EXCEPT ![b] = "index"], [holder EXCEPT ![b] = x])'
       /\ NotHeld(b)
  BY <1>1, <1>2, <1>3, <1>9, OwnedBlock
<1>11. NotUsed(b, H, T, Z, U, bb, cl)
  BY <1>2, <1>10, NotInUse
<1>12. \A e \in Entries : Keyed(e) /\ kn[e] = Z + 1 => e = x
  <2>1. ASSUME NEW e \in Entries, Keyed(e), kn[e] = Z + 1 PROVE e = x
    <3>1. Shape /\ Keys(L, Y, kn, off)
      BY <1>2
    <3>2. e = At(kn[e], off) /\ x = At(kn[x], off)
      BY <1>3, <2>1, <3>1, Placed
    <3> QED BY <1>3, <2>1, <3>2
  <2> QED BY <2>1
<1>13. Used(H, T, Z + 1, U, L, kn, bb2, cl)'
  <2>1. value \in [Entries -> Blocks \cup {null}] /\ completed \in [Blocks -> Int]
    BY <1>2, Sizes DEF Owned, Memory
  <2>2. UNCHANGED <<key, cpc>> /\ completed' = [completed EXCEPT ![b] = 0]
        /\ value' = [value EXCEPT ![x] = b]
    BY <1>1, <1>9
  <2>3. Used(H, T, Z, U, L, kn, bb, cl) /\ Tails(H, T, N, Z) /\ Ages(H, cl)
    BY <1>2
  <2>4. U = LastBlock(T) /\ L <= Z + 1
    BY <1>4
  <2> QED BY <1>3, <1>5, <1>11, <1>12, <2>1, <2>2, <2>3, <2>4, UsedBlock
<1>14. Ages(H, cl)'
  BY <1>2, <1>9 DEF Ages
<1>15. Work(H, kn, cl)'
  <2>1. \A e \in Entries : Keyed(e)' <=> Keyed(e)
    BY <1>1 DEF Keyed
  <2>2. \A e \in Entries, n \in Int : AtWorkIn(n, cl) # {} =>
          (Keyed(e)' /\ kn[e] = n <=> Keyed(e) /\ kn[e] = n)
    BY <2>1
  <2>3. ASSUME NEW e \in Entries, Keyed(e), AtWorkIn(kn[e], cl) # {}
        PROVE  value'[e] = value[e] /\ completed'[value[e]] = completed[value[e]]
    <3>1. InUse(kn[e], H, T, Z, U, cl)
      BY <2>3 DEF InUse
    <3>2. value[e] = bb[kn[e]] /\ bb[kn[e]] \in Blocks /\ bb[kn[e]] # b
      BY <1>2, <1>11, <2>3, <3>1 DEF Used, NotUsed
    <3>3. e # x
      BY <1>3, <3>2, QueueAssumption
    <3> QED BY <1>1, <1>2, <1>9, <3>2, <3>3 DEF Owned, Memory
  <2>4. /\ blockIndex' \in {blockIndex, blockIndex + 1}
        /\ \A h \in 1..blockIndex :
             Capacity(h)' = Capacity(h) /\ index'[h].entries = index[h].entries
    BY <1>1, SameIndex
  <2> QED BY <1>1, <1>2, <2>1, <2>2, <2>3, <2>4, WorkStays
<1>16. Batch(T, N, Z + 1, U, P, bb2)'
  <2>1. ASSUME NEW n \in Int, NumberOf(T) <= n, n <= Z PROVE bb[n] # b
    <3>1. BLOCK_SIZE * NumberOf(T) <= T /\ T < BLOCK_SIZE * NumberOf(T) + BLOCK_SIZE
          /\ NumberOf(T) \in Int /\ BLOCK_SIZE * NumberOf(T) \in Int
      BY Edge, BlockOrder
    <3>2. NumberOf(T) < n => BLOCK_SIZE * NumberOf(T) + BLOCK_SIZE <= BLOCK_SIZE * n
      BY <3>1, BlockOrder
    <3>3. BLOCK_SIZE * (n + 1) = BLOCK_SIZE * n + BLOCK_SIZE /\ BLOCK_SIZE * n \in Int
      BY BlockOrder
    <3>4. H < BLOCK_SIZE * (n + 1)
      BY <1>4, <2>1, <3>1, <3>2, <3>3, Sizes
    <3>5. 0 <= n
      <4>1. n < 0 => BLOCK_SIZE * n + BLOCK_SIZE <= BLOCK_SIZE * 0
        BY BlockOrder
      <4> QED BY <1>4, <3>3, <3>4, <4>1, Sizes
    <3>6. InUse(n, H, T, Z, U, cl)
      BY <1>4, <2>1, <3>4, <3>5 DEF InUse, Ahead
    <3> QED BY <1>11, <3>6 DEF NotUsed
  <2>2. NotLinked(b, T, Z, bb)
    BY <2>1 DEF NotLinked
  <2>3. chain \in [Blocks -> Blocks \cup {null}]
    BY <1>2 DEF Memory
  <2> QED BY <1>2, <1>4, <1>5, <2>2, <2>3, BatchBlock
<1>17. Contents(H, P, bb2, cl)'
  BY <1>1, <1>2, <1>4, <1>5, ContentsBlock
<1>18. Memory'
  <2>1. completed' \in [Blocks -> 0..BLOCK_SIZE]
    <3>1. 0 \in 0..BLOCK_SIZE
      BY Sizes
    <3> QED BY <1>1, <1>2, <3>1 DEF Memory
  <2>2. chain' \in [Blocks -> Blocks \cup {null}]
    BY <1>2 DEF Memory, GetBlock
  <2>3. tailBlock' = b /\ endBlock' = b /\ firstBlock' \in {b, firstBlock}
    BY DEF GetBlock
  <2> QED BY <1>1, <1>2, <2>1, <2>2, <2>3 DEF Memory, ElementsType, PLabels
<1> DEFINE place2 == [place EXCEPT ![b] = "index"]
           holder2 == [holder EXCEPT ![b] = x]
<1>19. Working(H, T, Z + 1, U, L, kn, bb2, cl)'
  BY <1>13, <1>14, <1>15 DEF Working
<1>20. Inv(H, T, N, Z + 1, U, L, Y, P, kn, off, bb2, cl, place2, holder2)'
  BY <1>6, <1>7, <1>8, <1>10, <1>16, <1>17, <1>18, <1>19 DEF Inv
<1> QED BY <1>20

\* The next block to be undone lies at the place the producer looks at.
LEMMA UndoFinds ==
  ASSUME NEW H \in Int, NEW T \in Int, NEW N \in Int, NEW Z \in Int, NEW U \in Int, NEW L \in Int,
         NEW Y \in Int, NEW P \in Int, NEW kn \in [Entries -> Int], NEW off \in [Nat -> Int],
         NEW bb \in [Int -> Blocks \cup {null}], NEW cl \in [Consumers -> Int],
         NEW place, NEW holder, Inv(H, T, N, Z, U, L, Y, P, kn, off, bb, cl, place, holder),
         ppc = "undo", U < Z
  PROVE  \E x \in Entries :
           /\ Keyed(x) /\ kn[x] = U + 1 /\ value[x] = bb[U + 1] /\ bb[U + 1] \in Blocks
           /\ EntryFor(Wrap(current + BLOCK_SIZE)) = x
<1>1. /\ Tails(H, T, N, Z) /\ Indexed(T, Z, U, L, Y, kn, off)
      /\ Working(H, T, Z, U, L, kn, bb, cl) /\ Batch(T, N, Z, U, P, bb)
  BY DEF Inv
<1>2. PICK u \in Int : u = U + 1
  OBVIOUS
<1>3. current = Wrap(BLOCK_SIZE * U) /\ LastBlock(T) <= U /\ LastBlock(T) \in Int
      /\ 0 <= H /\ H <= T /\ T <= BLOCK_SIZE * LastBlock(T) + BLOCK_SIZE
  BY <1>1, LastBlockIs DEF Batch, Pointers, Indexed, Cursor, Tails
<1>4. /\ BLOCK_SIZE * U \in Int /\ BLOCK_SIZE * u = BLOCK_SIZE * U + BLOCK_SIZE
      /\ BLOCK_SIZE * u \in Int /\ BLOCK_SIZE * (u + 1) = BLOCK_SIZE * u + BLOCK_SIZE
  <2>1. BLOCK_SIZE * U \in Int /\ BLOCK_SIZE * (U + 1) = BLOCK_SIZE * U + BLOCK_SIZE
    BY BlockOrder
  <2>2. BLOCK_SIZE * u \in Int /\ BLOCK_SIZE * (u + 1) = BLOCK_SIZE * u + BLOCK_SIZE
    BY BlockOrder
  <2> QED BY <1>2, <2>1, <2>2
<1>5. T <= BLOCK_SIZE * u
  <2>1. LastBlock(T) < u
    BY <1>2, <1>3
  <2>2. BLOCK_SIZE * LastBlock(T) + BLOCK_SIZE <= BLOCK_SIZE * u
    BY <1>3, <2>1, BlockOrder
  <2>3. BLOCK_SIZE * LastBlock(T) \in Int
    BY <1>3, BlockOrder
  <2> QED BY <1>3, <1>4, <2>2, <2>3, Sizes
<1>6. 0 <= u
  <2>1. u < 0 => BLOCK_SIZE * u + BLOCK_SIZE <= BLOCK_SIZE * 0
    BY BlockOrder, 0 \in Int
  <2> QED BY <1>3, <1>4, <1>5, <2>1, Sizes
<1>7. InUse(u, H, T, Z, U, cl)
  <2>1. H < BLOCK_SIZE * (u + 1)
    BY <1>3, <1>4, <1>5, Sizes
  <2> QED BY <1>2, <1>6, <2>1 DEF InUse, Ahead
<1>8. PICK x \in Entries : Keyed(x) /\ kn[x] = u /\ value[x] = bb[u] /\ bb[u] \in Blocks
  <2>1. UsedEntry(u, kn, bb)
    BY <1>1, <1>7, InUseEntry
  <2> QED BY <2>1 DEF UsedEntry
<1>9. Wrap(current + BLOCK_SIZE) = Wrap(BLOCK_SIZE * u)
  <2>1. Wrap(Wrap(BLOCK_SIZE * U) + BLOCK_SIZE) = Wrap(BLOCK_SIZE * U + BLOCK_SIZE)
    BY <1>4, WrapSum, Sizes
  <2> QED BY <1>3, <1>4, <2>1
<1>10. Base(Wrap(BLOCK_SIZE * u)) = Wrap(BLOCK_SIZE * kn[x])
  <2>1. NumberOf(BLOCK_SIZE * u + 0) = u /\ BLOCK_SIZE * u + 0 = BLOCK_SIZE * u
    <3>1. 0 \in 0..BLOCK_SIZE - 1
      BY Sizes
    <3>2. NumberOf(BLOCK_SIZE * u + 0) = u
      BY <3>1, BlockOf
    <3> QED BY <1>4, <3>2
  <2>2. Base(Wrap(BLOCK_SIZE * u)) = Wrap(BLOCK_SIZE * NumberOf(BLOCK_SIZE * u))
    BY <1>4, BaseOf
  <2> QED BY <1>8, <2>1, <2>2
<1>11. EntryFor(Wrap(BLOCK_SIZE * u)) = x
  <2>1. PICK i : i = Wrap(BLOCK_SIZE * u)
    OBVIOUS
  <2>2. MeantBy(i, x, kn)
    BY <1>10, <2>1 DEF MeantBy
  <2>3. Indexed(T, Z, U, L, Y, kn, off) /\ Keyed(x)
    BY <1>1, <1>8
  <2>4. EntryFor(i) = x
    <3>1. TailSet(T, Z, U, L)
      BY DEF TailSet
    <3> QED BY <2>2, <2>3, <3>1, FoundAt
  <2> QED BY <2>1, <2>4
<1> QED BY <1>2, <1>8, <1>9, <1>11

\* Undo.
LEMMA InvUndo ==
  ASSUME NEW H \in Int, NEW T \in Int, NEW N \in Int, NEW Z \in Int, NEW U \in Int, NEW L \in Int,
         NEW Y \in Int, NEW P \in Int, NEW kn \in [Entries -> Int], NEW off \in [Nat -> Int],
         NEW bb \in [Int -> Blocks \cup {null}], NEW cl \in [Consumers -> Int],
         NEW place, NEW holder, Inv(H, T, N, Z, U, L, Y, P, kn, off, bb, cl, place, holder),
         Undo
  PROVE  \E place2, holder2 : Inv(H, T, N, Z, U + 1, L, Y, P, kn, off, bb, cl, place2, holder2)'
<1>1. /\ ppc = "undo" /\ ppc' = "undo" /\ undo # null /\ undo' = chain[undo]
      /\ value' = [value EXCEPT ![EntryFor(Wrap(current + BLOCK_SIZE))] = null]
      /\ current' = Wrap(current + BLOCK_SIZE)
      /\ index' = [index EXCEPT ![blockIndex].tail = PrevPos(blockIndex)]
      /\ UNCHANGED <<completed, consumerVars, key, fresh, free, elements, blockIndex,
                     chain, tailBlock, startBlock, firstBlock, endBlock, startTail, newTail>>
  BY DEF Undo, Step, blockVars, memoryVars, batchVars
<1>2. /\ Tails(H, T, N, Z) /\ Indexed(T, Z, U, L, Y, kn, off) /\ Shape /\ Keys(L, Y, kn, off)
      /\ Working(H, T, Z, U, L, kn, bb, cl) /\ Used(H, T, Z, U, L, kn, bb, cl)
      /\ Ages(H, cl) /\ Work(H, kn, cl) /\ Owned(T, U, bb, place, holder)
      /\ Batch(T, N, Z, U, P, bb) /\ Contents(H, P, bb, cl) /\ Memory
  BY DEF Inv, Indexed, Working
<1>3. LastBlock(T) <= U /\ U <= Z /\ LastBlock(T) \in Int /\ null \notin Blocks
  BY <1>2, LastBlockIs, QueueAssumption DEF Indexed, Cursor
<1>4. U < Z /\ Batch(T, N, Z, U + 1, P, bb)'
  BY <1>2, <1>3, BatchUndo
<1>5. PICK x \in Entries :
        /\ Keyed(x) /\ kn[x] = U + 1 /\ value[x] = bb[U + 1] /\ bb[U + 1] \in Blocks
        /\ EntryFor(Wrap(current + BLOCK_SIZE)) = x
  BY <1>1, <1>4, UndoFinds
<1>6. value' = [value EXCEPT ![x] = null] /\ UNCHANGED <<cpc, reg>>
  BY <1>1, <1>5 DEF consumerVars
<1>7. \A e \in Entries : Keyed(e) /\ kn[e] = U + 1 => e = x
  <2>1. ASSUME NEW e \in Entries, Keyed(e), kn[e] = U + 1 PROVE e = x
    <3>1. e = At(kn[e], off) /\ x = At(kn[x], off)
      BY <1>2, <1>5, <2>1, Placed
    <3> QED BY <1>5, <2>1, <3>1
  <2> QED BY <2>1
<1>8. Tails(H, T, N, Z)'
  BY <1>2, SearchTails
<1>9. Indexed(T, Z, U + 1, L, Y, kn, off)'
  BY <1>2, <1>4, IndexedUndo
<1>10. Ready(Z, kn)'
  BY <1>1 DEF Ready
<1>11. Used(H, T, Z, U + 1, L, kn, bb, cl)'
  <2>1. value \in [Entries -> Blocks \cup {null}] /\ UNCHANGED <<key, completed, cpc>>
    BY <1>1, <1>2, <1>6 DEF Owned
  <2> QED BY <1>2, <1>3, <1>5, <1>6, <1>7, <2>1, UsedUndo
<1>12. Ages(H, cl)'
  BY <1>2, <1>6 DEF Ages
<1>13. Work(H, kn, cl)'
  <2>1. \A e \in Entries : Keyed(e)' <=> Keyed(e)
    BY <1>1 DEF Keyed
  <2>2. \A e \in Entries, n \in Int : AtWorkIn(n, cl) # {} =>
          (Keyed(e)' /\ kn[e] = n <=> Keyed(e) /\ kn[e] = n)
    BY <2>1
  <2>3. ASSUME NEW e \in Entries, Keyed(e), AtWorkIn(kn[e], cl) # {}
        PROVE  value'[e] = value[e] /\ completed'[value[e]] = completed[value[e]]
    <3>1. PICK c \in Consumers : cpc[c] \in AtWork /\ NumberOf(cl[c]) = kn[e]
      BY <2>3 DEF AtWorkIn
    <3>2. kn[e] <= LastBlock(T)
      BY <1>2, <3>1, AtWorkRange
    <3>3. e # x
      BY <1>3, <1>5, <3>2
    <3> QED BY <1>1, <1>2, <1>6, <3>3 DEF Owned
  <2>4. /\ blockIndex' \in {blockIndex, blockIndex + 1}
        /\ \A h \in 1..blockIndex :
             Capacity(h)' = Capacity(h) /\ index'[h].entries = index[h].entries
    BY <1>1, <1>2, SameButTail
  <2> QED BY <1>1, <1>2, <2>1, <2>2, <2>3, <2>4, WorkStays
<1> DEFINE b == bb[U + 1]
           place2 == [place EXCEPT ![b] = "undone"]
           holder2 == [holder EXCEPT ![b] = U + 1]
<1>14. Owned(T, U + 1, bb, place2, holder2)'
  BY <1>1, <1>2, <1>3, <1>5, <1>6, OwnedUndo
<1>15. Contents(H, P, bb, cl)'
  BY <1>1, <1>2, ContentsStay
<1>16. Memory'
  <2>1. current \in Int /\ BLOCK_SIZE \in Int
    BY <1>2, Indices, Sizes DEF Memory
  <2>2. current' \in Index
    BY <1>1, <2>1, Indices
  <2>3. undo' \in Blocks \cup {null}
    BY <1>1, <1>2 DEF Memory
  <2> QED BY <1>1, <1>2, <2>2, <2>3 DEF Memory, ElementsType, PLabels
<1>17. Working(H, T, Z, U + 1, L, kn, bb, cl)'
  BY <1>11, <1>12, <1>13 DEF Working
<1>18. Inv(H, T, N, Z, U + 1, L, Y, P, kn, off, bb, cl, place2, holder2)'
  BY <1>4, <1>8, <1>9, <1>10, <1>14, <1>15, <1>16, <1>17 DEF Inv
<1> QED BY <1>18

\* GiveUp.
LEMMA InvGiveUp ==
  ASSUME NEW H \in Int, NEW T \in Int, NEW N \in Int, NEW Z \in Int, NEW U \in Int, NEW L \in Int,
         NEW Y \in Int, NEW P \in Int, NEW kn \in [Entries -> Int], NEW off \in [Nat -> Int],
         NEW bb \in [Int -> Blocks \cup {null}], NEW cl \in [Consumers -> Int],
         NEW place, NEW holder, Inv(H, T, N, Z, U, L, Y, P, kn, off, bb, cl, place, holder),
         GiveUp
  PROVE  \E place2 : Inv(H, T, T, LastBlock(T), LastBlock(T), L, Y, P, kn, off, bb, cl, place2,
                         holder)'
<1>1. /\ ppc = "undo" /\ ppc' = "idle" /\ undo = null
      /\ free' = free \cup ChainFrom(firstBlock)
      /\ tailBlock' = startBlock /\ chain' = [b \in Blocks |-> null]
      /\ startTail' = 0 /\ newTail' = 0 /\ current' = 0
      /\ startBlock' = null /\ firstBlock' = null /\ endBlock' = null
      /\ UNCHANGED <<value, completed, consumerVars, key, fresh, elements, blockIndex, index, entry,
                     undo>>
  BY DEF GiveUp, EndEnqueue, Step, indexVars
<1>2. /\ Tails(H, T, N, Z) /\ Indexed(T, Z, U, L, Y, kn, off) /\ Shape
      /\ Working(H, T, Z, U, L, kn, bb, cl) /\ Owned(T, U, bb, place, holder)
      /\ Batch(T, N, Z, U, P, bb) /\ Contents(H, P, bb, cl) /\ Memory
  BY DEF Inv, Indexed
<1>3. LastBlock(T) <= U /\ U <= Z /\ LastBlock(T) \in Int /\ null \notin Blocks
  BY <1>2, LastBlockIs, QueueAssumption DEF Indexed, Cursor
<1>4. U = Z
  <2>1. CASE U < Z
    <3>1. undo = bb[U + 1]
      BY <1>1, <1>2, <2>1 DEF Batch, Pointers
    <3>2. NumberOf(T) <= U + 1 /\ U + 1 <= Z /\ U + 1 \in Int
      BY <1>3, <2>1, Edge
    <3>3. bb[U + 1] \in Blocks
      BY <1>2, <3>2 DEF Batch, Chained
    <3> QED BY <1>1, <1>3, <3>1, <3>3
  <2> QED BY <1>3, <2>1
<1> DEFINE X == LastBlock(T)
           place2 == [b \in Blocks |-> IF place[b] = "undone" THEN "free" ELSE place[b]]
<1>5. Tails(H, T, T, X)'
  BY <1>2, GiveUpTails
<1>6. Indexed(T, X, X, L, Y, kn, off)'
  BY <1>2, <1>4, IndexedGiveUp
<1>7. Ready(X, kn)'
  BY <1>1 DEF Ready
<1>8. Working(H, T, X, X, L, kn, bb, cl)'
  <2>1. \A n \in Int : Ahead(n, H, T, X, X) <=> Ahead(n, H, T, Z, U)
    BY <1>3, <1>4 DEF Ahead
  <2> HIDE DEF X
  <2> QED BY <1>1, <1>2, <1>3, <2>1, SameIndex, WorkingSame DEF X
<1>9. Owned(T, X, bb, place2, holder)'
  <2>1. /\ ChainFrom(firstBlock) \subseteq Blocks
        /\ \A b \in Blocks : b \in ChainFrom(firstBlock) <=>
             \E n \in Int : LastBlock(T) < n /\ n <= Z /\ bb[n] = b
    BY <1>1, <1>2, <1>3, ChainIs
  <2>2. PICK C \in SUBSET Blocks : C = ChainFrom(firstBlock)
    BY <2>1
  <2>3. UndoneBlocks(C, T, U, bb)
    BY <1>4, <2>1, <2>2 DEF Undone, UndoneBlocks
  <2>4. NoneUndone(T, X)
    BY NothingUndone
  <2>5. free' = free \cup C /\ UNCHANGED <<cpc, reg, fresh, value>>
    BY <1>1, <2>2 DEF consumerVars
  <2> HIDE DEF X
  <2> QED BY <1>2, <1>3, <2>3, <2>4, <2>5, OwnedGiveUp DEF X
<1>10. Batch(T, T, X, X, P, bb)'
  BY <1>2, <1>3, <1>4, BatchGiveUp
<1>11. Contents(H, P, bb, cl)'
  BY <1>1, <1>2, ContentsStay
<1>12. Memory'
  <2>1. 0 \in Index
    BY Sizes DEF Index
  <2>2. chain' \in [Blocks -> Blocks \cup {null}]
    BY <1>1
  <2> QED BY <1>1, <1>2, <2>1, <2>2 DEF Memory, ElementsType, PLabels
<1>13. Inv(H, T, T, X, X, L, Y, P, kn, off, bb, cl, place2, holder)'
  BY <1>5, <1>6, <1>7, <1>8, <1>9, <1>10, <1>11, <1>12 DEF Inv
<1> QED BY <1>13

\* StartFill.
LEMMA InvStartFill ==
  ASSUME NEW H \in Int, NEW T \in Int, NEW N \in Int, NEW Z \in Int, NEW U \in Int, NEW L \in Int,
         NEW Y \in Int, NEW P \in Int, NEW kn \in [Entries -> Int], NEW off \in [Nat -> Int],
         NEW bb \in [Int -> Blocks \cup {null}], NEW cl \in [Consumers -> Int],
         NEW place, NEW holder, Inv(H, T, N, Z, U, L, Y, P, kn, off, bb, cl, place, holder),
         StartFill
  PROVE  Inv(H, T, N, Z, U, L, Y, P, kn, off, bb, cl, place, holder)'
<1>1. /\ ppc = "find" /\ ppc' = "fill" /\ current' = startTail
      /\ tailBlock' \in {firstBlock, startBlock}
      /\ UNCHANGED <<value, completed, consumerVars, key, fresh, free, elements, blockIndex, index,
                     entry, chain, startBlock, firstBlock, endBlock, startTail, newTail, undo>>
  BY DEF StartFill, Step, blockVars, memoryVars, batchVars, indexVars
<1>2. startTail = Wrap(T) /\ LastBlock(T) <= Z /\ null \notin Blocks
  BY <1>1, QueueAssumption DEF Inv, Tails
<1>3. Tails(H, T, N, Z)'
  BY FillTails DEF Inv
<1>4. Indexed(T, Z, U, L, Y, kn, off)'
  BY <1>1, IndexedSame DEF Inv, Inserting
<1>5. Ready(Z, kn)'
  BY <1>1 DEF Ready
<1>6. Kept(H, T, Z, U, L, P, kn, bb, cl, place, holder)'
  BY <1>1, KeptSame, SameIndex
<1>7. Batch(T, N, Z, U, P, bb)'
  BY <1>2, BatchStartFill DEF Inv
<1>8. Memory'
  <2>1. Memory
    BY DEF Inv
  <2> QED BY <1>1, <2>1 DEF Memory, ElementsType, PLabels
<1> QED BY <1>3, <1>4, <1>5, <1>6, <1>7, <1>8 DEF Inv, Kept

\* Fill.
LEMMA InvFill ==
  ASSUME NEW H \in Int, NEW T \in Int, NEW N \in Int, NEW Z \in Int, NEW U \in Int, NEW L \in Int,
         NEW Y \in Int, NEW P \in Int, NEW kn \in [Entries -> Int], NEW off \in [Nat -> Int],
         NEW bb \in [Int -> Blocks \cup {null}], NEW cl \in [Consumers -> Int],
         NEW place, NEW holder, Inv(H, T, N, Z, U, L, Y, P, kn, off, bb, cl, place, holder),
         Fill
  PROVE  /\ Inv(H, T, N, Z, U, L, Y, FilledTo(N, P), kn, off, bb, cl, place, holder)'
         /\ FilledTo(N, P) \in Int
<1>1. /\ ppc = "fill" /\ ppc' \in {"fill", "publish"}
      /\ UNCHANGED <<value, completed, consumerVars, key, fresh, free, blockIndex, index,
                     entry, chain, startBlock, firstBlock, endBlock, startTail, newTail, undo>>
  BY DEF Fill, Step, memoryVars, batchVars, indexVars
<1>2. /\ Tails(H, T, N, Z) /\ Indexed(T, Z, U, L, Y, kn, off) /\ Shape /\ Cursor(T, Z, U, L, Y, off)
      /\ Working(H, T, Z, U, L, kn, bb, cl) /\ Owned(T, U, bb, place, holder)
      /\ Batch(T, N, Z, U, P, bb) /\ Contents(H, P, bb, cl) /\ Memory /\ ElementsType
  BY DEF Inv, Indexed, Memory
<1>3. FilledTo(N, P) \in Int
  <2>1. NumberOf(P) \in Int
    BY InBlock
  <2>2. NumberOf(P) + 1 \in Int
    BY <2>1
  <2>3. BLOCK_SIZE * (NumberOf(P) + 1) \in Int
    BY <2>2, BlockOrder
  <2> QED BY <2>3 DEF FilledTo
<1>4. Tails(H, T, N, Z)'
  BY <1>2, FillTails
<1>5. Indexed(T, Z, U, L, Y, kn, off)'
  BY <1>1, <1>2, IndexedSame DEF Inserting
<1>6. Ready(Z, kn)'
  BY <1>1 DEF Ready
<1>7. Working(H, T, Z, U, L, kn, bb, cl)'
  <2>1. \A n \in Int : Ahead(n, H, T, Z, U) <=> Ahead(n, H, T, Z, U)
    OBVIOUS
  <2> QED BY <1>1, <1>2, <2>1, SameIndex, WorkingSame
<1>8. Owned(T, U, bb, place, holder)'
  BY <1>1, <1>2, OwnedStays DEF consumerVars
<1>9. Batch(T, N, Z, U, FilledTo(N, P), bb)'
  BY <1>2, BatchFill
<1>10. Contents(H, FilledTo(N, P), bb, cl)' /\ ElementsType'
  <2>1. Apart(H, T, Z, U, bb, cl)
    BY <1>2, ApartFrom
  <2> QED BY <1>2, <2>1, ContentsFill
<1>11. Memory'
  <2>1. newTail \in Index /\ current \in Int
    BY <1>2, Indices DEF Memory
  <2>2. current' \in {newTail, Wrap(Base(current) + BLOCK_SIZE)}
    BY DEF Fill
  <2>3. Base(current) \in Int
    BY <2>1, Indices
  <2>4. current' \in Index
    BY <2>1, <2>2, <2>3, Indices, Sizes
  <2>5. tailBlock' \in Blocks \cup {null}
    <3>1. CASE ppc' = "publish"
      BY <1>2, <3>1 DEF Fill, Memory, Step
    <3>2. CASE ppc' = "fill"
      <4> DEFINE Q == FilledTo(N, P)
      <4>1. tailBlock' = IF NumberOf(Q) <= Z THEN bb[NumberOf(Q)] ELSE endBlock'
        BY <1>9, <3>2 DEF Batch, Pointers
      <4>2. NumberOf(Q) \in Int
        BY <1>3, InBlock
      <4> HIDE DEF Q
      <4> QED BY <1>1, <1>2, <4>1, <4>2 DEF Memory
    <3> QED BY <1>1, <3>1, <3>2
  <2> QED BY <1>1, <1>2, <1>10, <2>4, <2>5 DEF Memory, PLabels
<1> QED BY <1>3, <1>4, <1>5, <1>6, <1>7, <1>8, <1>9, <1>10, <1>11 DEF Inv

\* Publish.
LEMMA InvPublish ==
  ASSUME NEW H \in Int, NEW T \in Int, NEW N \in Int, NEW Z \in Int, NEW U \in Int, NEW L \in Int,
         NEW Y \in Int, NEW P \in Int, NEW kn \in [Entries -> Int], NEW off \in [Nat -> Int],
         NEW bb \in [Int -> Blocks \cup {null}], NEW cl \in [Consumers -> Int],
         NEW place, NEW holder, Inv(H, T, N, Z, U, L, Y, P, kn, off, bb, cl, place, holder),
         Publish
  PROVE  Inv(H, N, N, Z, Z, L, Y, P, kn, off, bb, cl, place, holder)' /\ P = N /\ T <= N
<1>1. /\ ppc = "publish" /\ ppc' = "idle" /\ chain' = [b \in Blocks |-> null]
      /\ startTail' = 0 /\ newTail' = 0 /\ current' = 0
      /\ startBlock' = null /\ firstBlock' = null /\ endBlock' = null
      /\ UNCHANGED <<value, completed, consumerVars, key, fresh, free, elements, blockIndex, index,
                     entry, tailBlock, undo>>
  BY DEF Publish, EndEnqueue, Step, indexVars, memoryVars
<1>2. /\ Tails(H, T, N, Z) /\ Indexed(T, Z, U, L, Y, kn, off) /\ Shape
      /\ Working(H, T, Z, U, L, kn, bb, cl) /\ Owned(T, U, bb, place, holder)
      /\ Batch(T, N, Z, U, P, bb) /\ Contents(H, P, bb, cl) /\ Memory
  BY DEF Inv, Indexed
<1>3. /\ LastBlock(T) <= Z /\ Z = LastBlock(N) /\ U = LastBlock(T) /\ LastBlock(T) \in Int
      /\ T <= N /\ P = N
  BY <1>1, <1>2, LastBlockIs DEF Indexed, Cursor, Tails, Batch, Pointers
<1>4. Tails(H, N, N, Z)'
  BY <1>2, PublishTails
<1>5. Indexed(N, Z, Z, L, Y, kn, off)'
  BY <1>2, <1>3, IndexedPublish
<1>6. Ready(Z, kn)'
  BY <1>1 DEF Ready
<1>7. Working(H, N, Z, Z, L, kn, bb, cl)'
  <2>1. \A n \in Int : Ahead(n, H, N, Z, Z) <=> Ahead(n, H, T, Z, U)
    BY <1>3 DEF Ahead
  <2> QED BY <1>1, <1>2, <2>1, SameIndex, WorkingSame
<1>8. Owned(N, Z, bb, place, holder)'
  <2>1. \A n \in Int : Undone(n, N, Z) <=> Undone(n, T, U)
    BY <1>3 DEF Undone
  <2> QED BY <1>1, <1>2, <2>1, OwnedStays DEF consumerVars
<1>9. Batch(N, N, Z, Z, P, bb)'
  BY <1>2, <1>3, BatchPublish
<1>10. Contents(H, P, bb, cl)'
  BY <1>1, <1>2, ContentsStay
<1>11. Memory'
  <2>1. 0 \in Index
    BY Sizes DEF Index
  <2>2. chain' \in [Blocks -> Blocks \cup {null}]
    BY <1>1
  <2> QED BY <1>1, <1>2, <2>1, <2>2 DEF Memory, ElementsType, PLabels
<1> QED BY <1>3, <1>4, <1>5, <1>6, <1>7, <1>8, <1>9, <1>10, <1>11 DEF Inv

-----------------------------------------------------------------------------
(* The steps of try_dequeue *)

\* Entries only lose blocks.
OnlyClears == \A e \in Entries : value'[e] \in {value[e], null}

\* What try_dequeue leaves alone.
LEMMA InvConsumer ==
  ASSUME NEW H \in Int, NEW T \in Int, NEW N \in Int, NEW Z \in Int, NEW U \in Int, NEW L \in Int,
         NEW Y \in Int, NEW P \in Int, NEW kn \in [Entries -> Int], NEW off \in [Nat -> Int],
         NEW bb \in [Int -> Blocks \cup {null}], NEW cl \in [Consumers -> Int],
         NEW place, NEW holder, Inv(H, T, N, Z, U, L, Y, P, kn, off, bb, cl, place, holder),
         NEW c \in Consumers, Dequeuing(c), NEW H2 \in Int, NEW cl2 \in [Consumers -> Int],
         NEW place2, NEW holder2,
         Tails(H2, T, N, Z)', Working(H2, T, Z, U, L, kn, bb, cl2)',
         Owned(T, U, bb, place2, holder2)', Contents(H2, P, bb, cl2)', ElementsType',
         completed' \in [Blocks -> 0..BLOCK_SIZE], OnlyClears
  PROVE  Inv(H2, T, N, Z, U, L, Y, P, kn, off, bb, cl2, place2, holder2)'
<1>1. UNCHANGED <<blockIndex, index, key, chain, entry, ppc, tailBlock, startBlock, firstBlock,
                  endBlock, startTail, newTail, current, undo>>
  BY ConsumerFrame DEF enqueueVars, batchVars
<1>2. Indexed(T, Z, U, L, Y, kn, off)'
  BY <1>1, IndexedSame DEF Inv
<1>3. Batch(T, N, Z, U, P, bb)'
  BY <1>1, BatchSame DEF Inv
<1>4. Ready(Z, kn)'
  <2>1. CASE ppc \in {"key", "tail", "block"}
    <3>1. PICK x \in Entries :
            /\ x = entry /\ value[x] = null
            /\ ppc \in {"tail", "block"} => Keyed(x) /\ kn[x] = Z + 1
      BY <2>1 DEF Inv, Ready
    <3>2. value'[x] = null /\ entry' = x
      BY <1>1, <3>1 DEF OnlyClears
    <3>3. ppc \in {"tail", "block"} => key'[x] # INVALID_BLOCK_BASE
      BY <1>1, <3>1 DEF Keyed
    <3> QED BY <1>1, <3>1, <3>2, <3>3 DEF Ready, Keyed
  <2>2. CASE ppc \notin {"key", "tail", "block"}
    BY <1>1, <2>2 DEF Ready
  <2> QED BY <2>1, <2>2
<1>5. Memory'
  BY <1>1 DEF Inv, Memory, PLabels
<1> QED BY <1>2, <1>3, <1>4, <1>5 DEF Inv

\* c moves and touches neither the blocks nor the index.
LEMMA InvMoves ==
  ASSUME NEW H \in Int, NEW T \in Int, NEW N \in Int, NEW Z \in Int, NEW U \in Int, NEW L \in Int,
         NEW Y \in Int, NEW P \in Int, NEW kn \in [Entries -> Int], NEW off \in [Nat -> Int],
         NEW bb \in [Int -> Blocks \cup {null}], NEW cl \in [Consumers -> Int],
         NEW place, NEW holder, Inv(H, T, N, Z, U, L, Y, P, kn, off, bb, cl, place, holder),
         NEW c \in Consumers, Dequeuing(c), Alone(c),
         UNCHANGED <<indexVars, blockVars, memoryVars>>,
         cpc[c] # "release", cpc'[c] # "release", ~Taken(c)', Claimed(c)' => Claimed(c),
         Tails(H, T, N, Z)', Working(H, T, Z, U, L, kn, bb, cl)'
  PROVE  Inv(H, T, N, Z, U, L, Y, P, kn, off, bb, cl, place, holder)'
<1>1. UNCHANGED <<value, completed, fresh, free, elements>>
  BY DEF indexVars, blockVars, memoryVars
<1>2. Owned(T, U, bb, place, holder) /\ Contents(H, P, bb, cl) /\ Memory
  BY DEF Inv
<1>3. Owned(T, U, bb, place, holder)'
  <2>1. \A d \in Consumers : cpc'[d] = "release" <=> cpc[d] = "release"
    BY DEF Alone
  <2>2. \A d \in Consumers : cpc[d] = "release" => reg'[d] = reg[d]
    BY DEF Alone
  <2> QED BY <1>1, <1>2, <2>1, <2>2, OwnedStays
<1>4. Contents(H, P, bb, cl)'
  <2>1. Claimed(c)' => /\ Stored(cl[c], bb)
                       /\ \A d \in Consumers : d # c /\ Claimed(d) => cl[d] # cl[c]
    BY <1>2 DEF Contents
  <2>2. H <= H /\ UNCHANGED elements
    BY <1>1
  <2> QED BY <1>2, <2>1, <2>2, ContentsMove
<1>5. ElementsType' /\ completed' \in [Blocks -> 0..BLOCK_SIZE] /\ OnlyClears
  BY <1>1, <1>2 DEF Memory, ElementsType, OnlyClears
<1> QED BY <1>3, <1>4, <1>5, InvConsumer

\* Steps before and after a claim.
LEMMA InvQuiet ==
  ASSUME NEW H \in Int, NEW T \in Int, NEW N \in Int, NEW Z \in Int, NEW U \in Int, NEW L \in Int,
         NEW Y \in Int, NEW P \in Int, NEW kn \in [Entries -> Int], NEW off \in [Nat -> Int],
         NEW bb \in [Int -> Blocks \cup {null}], NEW cl \in [Consumers -> Int],
         NEW place, NEW holder, Inv(H, T, N, Z, U, L, Y, P, kn, off, bb, cl, place, holder),
         Locals, NEW c \in Consumers, Tails(H, T, N, Z)',
         \/ TryDequeue(c) \/ Optimistic(c) \/ Commit(c) \/ CheckFails(c) \/ Overcommit(c)
  PROVE  Inv(H, T, N, Z, U, L, Y, P, kn, off, bb, cl, place, holder)'
<1>1. /\ cpc[c] \in Quiet /\ cpc[c] # "release"
      /\ UNCHANGED <<indexVars, blockVars, memoryVars>>
      /\ \E label \in Quiet \ {"release"} : \E r : Move(c, label, r)
  BY DEF TryDequeue, Optimistic, Commit, CheckFails, Overcommit, Quiet
<1>2. PICK label \in Quiet \ {"release"} : \E r : Move(c, label, r)
  BY <1>1
<1>3. PICK r : Move(c, label, r)
  BY <1>2
<1>4. Alone(c) /\ cpc'[c] = label
  BY <1>3, Moved DEF Alone, Quiet, Labels
<1>5. Working(H, T, Z, U, L, kn, bb, cl)'
  <2>1. UNCHANGED <<blockIndex, index, key, value, completed>>
    BY <1>1 DEF indexVars, blockVars
  <2> QED BY <1>1, <1>3, <1>4, <2>1, WorkingQuiet DEF Inv
<1>6. ~Taken(c)' /\ ~Claimed(c)' /\ cpc'[c] # "release"
  BY <1>3, <1>4 DEF Taken, Claimed, Quiet
<1>7. Dequeuing(c)
  BY DEF Dequeuing
<1> QED BY <1>1, <1>4, <1>5, <1>6, <1>7, InvMoves

\* The search for the block.
LEMMA InvLoad ==
  ASSUME NEW H \in Int, NEW T \in Int, NEW N \in Int, NEW Z \in Int, NEW U \in Int, NEW L \in Int,
         NEW Y \in Int, NEW P \in Int, NEW kn \in [Entries -> Int], NEW off \in [Nat -> Int],
         NEW bb \in [Int -> Blocks \cup {null}], NEW cl \in [Consumers -> Int],
         NEW place, NEW holder, Inv(H, T, N, Z, U, L, Y, P, kn, off, bb, cl, place, holder),
         Locals, NEW c \in Consumers, Tails(H, T, N, Z)',
         LoadIndex(c) \/ LoadIndexTail(c) \/ LoadEntry(c)
  PROVE  Inv(H, T, N, Z, U, L, Y, P, kn, off, bb, cl, place, holder)'
<1>1. /\ Claimed(c) /\ cpc[c] # "release"
      /\ UNCHANGED <<indexVars, blockVars, memoryVars>>
      /\ \E label \in {"index_tail", "entry", "element"} : \E r : Move(c, label, r)
  BY DEF LoadIndex, LoadIndexTail, LoadEntry, Claimed
<1>2. PICK label \in {"index_tail", "entry", "element"} : \E r : Move(c, label, r)
  BY <1>1
<1>3. PICK r : Move(c, label, r)
  BY <1>2
<1>4. Alone(c) /\ cpc'[c] = label
  BY <1>3, Moved DEF Alone, Labels
<1>5. Working(H, T, Z, U, L, kn, bb, cl)'
  <2>1. Tails(H, T, N, Z) /\ Indexed(T, Z, U, L, Y, kn, off) /\ Working(H, T, Z, U, L, kn, bb, cl)
    BY DEF Inv
  <2>2. CASE LoadIndex(c)
    BY <2>1, <2>2, WorkingLoadIndex
  <2>3. CASE LoadIndexTail(c)
    BY <2>1, <2>3, WorkingLoadTail
  <2>4. CASE LoadEntry(c)
    BY <2>1, <2>4, WorkingLoadEntry
  <2> QED BY <2>2, <2>3, <2>4
<1>6. ~Taken(c)' /\ cpc'[c] # "release"
  BY <1>3, <1>4 DEF Taken
<1>7. Dequeuing(c)
  BY DEF Dequeuing
<1> QED BY <1>1, <1>4, <1>5, <1>6, <1>7, InvMoves

\* Check.
LEMMA InvCheck ==
  ASSUME NEW H \in Int, NEW T \in Int, NEW N \in Int, NEW Z \in Int, NEW U \in Int, NEW L \in Int,
         NEW Y \in Int, NEW P \in Int, NEW kn \in [Entries -> Int], NEW off \in [Nat -> Int],
         NEW bb \in [Int -> Blocks \cup {null}], NEW cl \in [Consumers -> Int],
         NEW place, NEW holder, Inv(H, T, N, Z, U, L, Y, P, kn, off, bb, cl, place, holder),
         Locals, NEW c \in Consumers, Check(c), H < T, Tails(H + 1, T, N, Z)'
  PROVE  Inv(H + 1, T, N, Z, U, L, Y, P, kn, off, bb, [cl EXCEPT ![c] = H], place, holder)'
<1>1. /\ cpc[c] = "check" /\ UNCHANGED <<indexVars, blockVars, memoryVars>>
      /\ Move(c, "index", [NoReg EXCEPT !.index = headIndex])
  BY DEF Check
<1>2. PICK h : h = headIndex
  OBVIOUS
<1>3. cpc'[c] = "index" /\ reg'[c].index = headIndex /\ Alone(c)
  <2> DEFINE r == [NoReg EXCEPT !.index = h]
  <2>1. r.index = h
    BY Shapes
  <2>2. Move(c, "index", r) /\ "index" \in Labels
    BY <1>1, <1>2 DEF Labels
  <2> HIDE DEF r
  <2>3. cpc'[c] = "index" /\ reg'[c] = r /\ Alone(c)
    BY <2>2, Moved DEF Alone
  <2> QED BY <1>2, <2>1, <2>3
<1>4. UNCHANGED <<blockIndex, index, key, value, completed, fresh, free, elements>>
  BY <1>1 DEF indexVars, blockVars, memoryVars
<1>5. /\ Owned(T, U, bb, place, holder) /\ Contents(H, P, bb, cl) /\ Memory
      /\ Working(H, T, Z, U, L, kn, bb, cl) /\ Tails(H, T, N, Z) /\ Ages(H, cl) /\ T <= P
  BY DEF Inv, Working, Batch, Pointers
<1>6. PICK cl2 \in [Consumers -> Int] : cl2 = [cl EXCEPT ![c] = H]
  OBVIOUS
<1>7. Working(H + 1, T, Z, U, L, kn, bb, cl2)'
  <2>1. completed \in [Blocks -> Int]
    BY <1>5, Sizes DEF Memory
  <2> QED BY <1>1, <1>3, <1>4, <1>5, <1>6, <2>1, WorkingCheck
<1>8. Owned(T, U, bb, place, holder)'
  <2>1. \A d \in Consumers : cpc'[d] = "release" <=> cpc[d] = "release"
    BY <1>1, <1>3 DEF Alone
  <2>2. \A d \in Consumers : cpc[d] = "release" => reg'[d] = reg[d]
    BY <1>1, <1>3 DEF Alone
  <2> QED BY <1>4, <1>5, <2>1, <2>2, OwnedStays
<1>9. Contents(H + 1, P, bb, cl2)'
  <2>1. cl2[c] = H /\ \A d \in Consumers : d # c => cl2[d] = cl[d]
    BY <1>6
  <2>2. Stored(cl2[c], bb)
    BY <1>5, <2>1 DEF Contents
  <2>3. \A d \in Consumers : d # c /\ Claimed(d) => cl[d] # cl2[c]
    BY <1>5, <2>1 DEF Ages, Claimed, AtWork
  <2>4. ~Taken(c)' /\ cpc'[c] # "release" /\ H + 1 \in Int /\ H <= H + 1 /\ UNCHANGED elements
    BY <1>3, <1>4 DEF Taken
  <2> QED BY <1>3, <1>5, <2>1, <2>2, <2>3, <2>4, ContentsMove
<1>10. ElementsType' /\ completed' \in [Blocks -> 0..BLOCK_SIZE] /\ OnlyClears
  BY <1>4, <1>5 DEF Memory, ElementsType, OnlyClears
<1>11. Dequeuing(c) /\ H + 1 \in Int
  BY DEF Dequeuing
<1>12. Inv(H + 1, T, N, Z, U, L, Y, P, kn, off, bb, cl2, place, holder)'
  BY <1>7, <1>8, <1>9, <1>10, <1>11, InvConsumer
<1> QED BY <1>6, <1>12

\* TakeElement.
LEMMA InvTake ==
  ASSUME NEW H \in Int, NEW T \in Int, NEW N \in Int, NEW Z \in Int, NEW U \in Int, NEW L \in Int,
         NEW Y \in Int, NEW P \in Int, NEW kn \in [Entries -> Int], NEW off \in [Nat -> Int],
         NEW bb \in [Int -> Blocks \cup {null}], NEW cl \in [Consumers -> Int],
         NEW place, NEW holder, Inv(H, T, N, Z, U, L, Y, P, kn, off, bb, cl, place, holder),
         Locals, NEW c \in Consumers, TakeElement(c), Tails(H, T, N, Z)'
  PROVE  Inv(H, T, N, Z, U, L, Y, P, kn, off, bb, cl, place, holder)'
<1>1. /\ Tails(H, T, N, Z) /\ Indexed(T, Z, U, L, Y, kn, off) /\ Cursor(T, Z, U, L, Y, off)
      /\ Working(H, T, Z, U, L, kn, bb, cl) /\ Owned(T, U, bb, place, holder)
      /\ Pointers(T, N, Z, U, P, bb) /\ Contents(H, P, bb, cl) /\ ElementsType /\ Memory
  BY DEF Inv, Indexed, Batch, Memory
<1>2. Apart(H, T, Z, U, bb, cl)
  BY <1>1, ApartFrom
<1>3. Working(H, T, Z, U, L, kn, bb, cl)'
  BY <1>1, WorkingTake
<1>4. Contents(H, P, bb, cl)' /\ ElementsType'
  BY <1>1, <1>2, ContentsTake
<1>5. /\ cpc[c] = "element" /\ UNCHANGED <<value, completed, fresh, free>>
      /\ \E r : Move(c, "empty", r)
  BY DEF TakeElement, indexVars, memoryVars
<1>6. cpc'[c] = "empty" /\ Alone(c)
  <2>1. PICK r : Move(c, "empty", r)
    BY <1>5
  <2> QED BY <2>1, Moved DEF Alone, Labels
<1>7. Owned(T, U, bb, place, holder)'
  <2>1. \A d \in Consumers : cpc'[d] = "release" <=> cpc[d] = "release"
    BY <1>5, <1>6 DEF Alone
  <2>2. \A d \in Consumers : cpc[d] = "release" => reg'[d] = reg[d]
    BY <1>5, <1>6 DEF Alone
  <2> QED BY <1>1, <1>5, <2>1, <2>2, OwnedStays
<1>8. completed' \in [Blocks -> 0..BLOCK_SIZE] /\ OnlyClears
  BY <1>1, <1>5 DEF Memory, OnlyClears
<1>9. Dequeuing(c)
  BY DEF Dequeuing
<1> QED BY <1>3, <1>4, <1>7, <1>8, <1>9, InvConsumer

\* SetEmpty.
LEMMA InvEmpty ==
  ASSUME NEW H \in Int, NEW T \in Int, NEW N \in Int, NEW Z \in Int, NEW U \in Int, NEW L \in Int,
         NEW Y \in Int, NEW P \in Int, NEW kn \in [Entries -> Int], NEW off \in [Nat -> Int],
         NEW bb \in [Int -> Blocks \cup {null}], NEW cl \in [Consumers -> Int],
         NEW place, NEW holder, Inv(H, T, N, Z, U, L, Y, P, kn, off, bb, cl, place, holder),
         Locals, NEW c \in Consumers, SetEmpty(c), Tails(H, T, N, Z)'
  PROVE  Inv(H, T, N, Z, U, L, Y, P, kn, off, bb, cl, place, holder)'
<1>1. /\ Tails(H, T, N, Z) /\ Indexed(T, Z, U, L, Y, kn, off)
      /\ Working(H, T, Z, U, L, kn, bb, cl) /\ Owned(T, U, bb, place, holder)
      /\ Used(H, T, Z, U, L, kn, bb, cl) /\ Work(H, kn, cl)
      /\ Contents(H, P, bb, cl) /\ ElementsType /\ Memory
      /\ completed \in [Blocks -> 0..BLOCK_SIZE] /\ completed \in [Blocks -> Int]
  BY Sizes DEF Inv, Memory, Working
<1>2. Apart(H, T, Z, U, bb, cl)
  BY <1>1, ApartFrom
<1>3. Working(H, T, Z, U, L, kn, bb, cl)'
  BY <1>1, <1>2, WorkingEmpty
<1>4. /\ cpc[c] = "empty" /\ UNCHANGED <<value, elements, fresh, free>>
      /\ Move(c, "unlink", reg[c]) \/ Move(c, "idle", NoReg)
      /\ completed' = [completed EXCEPT ![reg[c].block] = @ + 1]
  BY DEF SetEmpty, indexVars, memoryVars
<1>5. /\ cpc'[c] \in {"unlink", "idle"} /\ Alone(c)
      /\ cpc'[c] = "unlink" => reg'[c] = reg[c]
  <2>1. CASE Move(c, "unlink", reg[c])
    BY <2>1, Moved DEF Alone, Labels
  <2>2. CASE Move(c, "idle", NoReg)
    <3>1. cpc'[c] = "idle" /\ Alone(c)
      BY <2>2, Moved DEF Alone, Labels
    <3> QED BY <3>1
  <2> QED BY <1>4, <2>1, <2>2
<1>6. Owned(T, U, bb, place, holder)'
  <2>1. \A d \in Consumers : cpc'[d] = "release" <=> cpc[d] = "release"
    BY <1>4, <1>5 DEF Alone
  <2>2. \A d \in Consumers : cpc[d] = "release" => reg'[d] = reg[d]
    BY <1>4, <1>5 DEF Alone
  <2> QED BY <1>1, <1>4, <2>1, <2>2, OwnedStays
<1>7. Contents(H, P, bb, cl)'
  <2>1. ~Claimed(c)' /\ cpc'[c] # "release"
    BY <1>5 DEF Claimed
  <2>2. Taken(c)' => reg'[c].element = Wrap(cl[c])
    <3>1. Taken(c) => reg[c].element = Wrap(cl[c])
      BY <1>1 DEF Contents
    <3> QED BY <1>4, <1>5, <3>1 DEF Taken
  <2> QED BY <1>1, <1>4, <1>5, <2>1, <2>2, ContentsMove
<1>8. completed' \in [Blocks -> 0..BLOCK_SIZE]
  <2>1. PICK n \in Int, b \in Blocks :
          /\ n = NumberOf(cl[c]) /\ reg[c].block = b /\ b = bb[n]
          /\ c \in AtWorkIn(n, cl) /\ Counting(n, H, bb, cl)
    <3>1. HasFound(c, NumberOf(cl[c]), H, T, Z, U, kn, bb, cl)
      BY <1>1, <1>4, BlockFound
    <3> QED BY <3>1 DEF HasFound
  <2>2. c \in Busy(n, cl)
    BY <1>4, <2>1 DEF Busy, AtWorkIn
  <2>3. completed[b] <= BLOCK_SIZE - 1
    <3>1. bb[n] \in Blocks /\ completed \in [Blocks -> Int]
      BY <1>1, <2>1
    <3>2. completed[bb[n]] <= BLOCK_SIZE - 1
      BY <2>1, <2>2, <3>1, NotEmptied
    <3> QED BY <2>1, <3>2
  <2>4. completed[b] \in 0..BLOCK_SIZE /\ completed[b] + 1 \in 0..BLOCK_SIZE
    BY <1>1, <2>3, Sizes
  <2> QED BY <1>1, <1>4, <2>1, <2>4
<1>9. ElementsType' /\ OnlyClears
  BY <1>1, <1>4 DEF ElementsType, OnlyClears
<1>10. Dequeuing(c)
  BY DEF Dequeuing
<1> QED BY <1>3, <1>6, <1>7, <1>8, <1>9, <1>10, InvConsumer

\* Unlink.
LEMMA InvUnlink ==
  ASSUME NEW H \in Int, NEW T \in Int, NEW N \in Int, NEW Z \in Int, NEW U \in Int, NEW L \in Int,
         NEW Y \in Int, NEW P \in Int, NEW kn \in [Entries -> Int], NEW off \in [Nat -> Int],
         NEW bb \in [Int -> Blocks \cup {null}], NEW cl \in [Consumers -> Int],
         NEW place, NEW holder, Inv(H, T, N, Z, U, L, Y, P, kn, off, bb, cl, place, holder),
         Locals, NEW c \in Consumers, Unlink(c), Tails(H, T, N, Z)'
  PROVE  \E place2, holder2 : Inv(H, T, N, Z, U, L, Y, P, kn, off, bb, cl, place2, holder2)'
<1>1. /\ Tails(H, T, N, Z) /\ Indexed(T, Z, U, L, Y, kn, off)
      /\ Working(H, T, Z, U, L, kn, bb, cl) /\ Owned(T, U, bb, place, holder)
      /\ Used(H, T, Z, U, L, kn, bb, cl) /\ Work(H, kn, cl)
      /\ Contents(H, P, bb, cl) /\ ElementsType /\ Memory
      /\ value \in [Entries -> Blocks \cup {null}]
  BY DEF Inv, Memory, Working, Owned
<1>2. Working(H, T, Z, U, L, kn, bb, cl)'
  BY <1>1, WorkingUnlink
<1>3. PICK x \in Entries, b \in Blocks : x = reg[c].entry /\ b = reg[c].block /\ value[x] = b
  <2>1. cpc[c] = "unlink"
    BY DEF Unlink
  <2>2. HasFound(c, NumberOf(cl[c]), H, T, Z, U, kn, bb, cl)
    BY <1>1, <2>1, BlockFound
  <2> QED BY <2>2 DEF HasFound
<1>4. /\ cpc[c] = "unlink" /\ UNCHANGED <<completed, elements, fresh, free>>
      /\ value' = [value EXCEPT ![x] = null]
      /\ Move(c, "release", [reg[c] EXCEPT !.entry = 0])
  BY <1>3 DEF Unlink, blockVars, memoryVars
<1>5. PICK r : r = reg[c]
  OBVIOUS
<1>6. cpc'[c] = "release" /\ Alone(c) /\ reg'[c].block = b /\ reg'[c].element = r.element
  <2> DEFINE s == [r EXCEPT !.entry = 0]
  <2>1. RegShape(r)
    BY <1>5 DEF Locals
  <2>2. s.block = r.block /\ s.element = r.element
    BY <2>1, EntryShape
  <2>3. Move(c, "release", s) /\ "release" \in Labels
    BY <1>4, <1>5 DEF Labels
  <2> HIDE DEF s
  <2>4. cpc'[c] = "release" /\ Alone(c) /\ reg'[c] = s
    BY <2>3, Moved DEF Alone
  <2> QED BY <1>3, <1>5, <2>2, <2>4
<1>7. Owned(T, U, bb, [place EXCEPT ![b] = "out"], [holder EXCEPT ![b] = c])'
  BY <1>1, <1>3, <1>4, <1>6, OwnedUnlink
<1>8. Contents(H, P, bb, cl)'
  <2>1. ~Claimed(c)' /\ reg'[c].block \in Blocks
    BY <1>6 DEF Claimed
  <2>2. reg'[c].element = Wrap(cl[c])
    <3>1. Taken(c) => reg[c].element = Wrap(cl[c])
      BY <1>1 DEF Contents
    <3> QED BY <1>4, <1>5, <1>6, <3>1 DEF Taken
  <2> QED BY <1>1, <1>4, <1>6, <2>1, <2>2, ContentsMove
<1>9. ElementsType' /\ completed' \in [Blocks -> 0..BLOCK_SIZE] /\ OnlyClears
  BY <1>1, <1>4 DEF Memory, ElementsType, OnlyClears
<1>10. Dequeuing(c)
  BY DEF Dequeuing
<1>11. PICK place2, holder2 :
         place2 = [place EXCEPT ![b] = "out"] /\ holder2 = [holder EXCEPT ![b] = c]
  OBVIOUS
<1>12. Owned(T, U, bb, place2, holder2)'
  BY <1>7, <1>11
<1>13. Inv(H, T, N, Z, U, L, Y, P, kn, off, bb, cl, place2, holder2)'
  BY <1>2, <1>8, <1>9, <1>10, <1>12, InvConsumer
<1> QED BY <1>13

\* Release.
LEMMA InvRelease ==
  ASSUME NEW H \in Int, NEW T \in Int, NEW N \in Int, NEW Z \in Int, NEW U \in Int, NEW L \in Int,
         NEW Y \in Int, NEW P \in Int, NEW kn \in [Entries -> Int], NEW off \in [Nat -> Int],
         NEW bb \in [Int -> Blocks \cup {null}], NEW cl \in [Consumers -> Int],
         NEW place, NEW holder, Inv(H, T, N, Z, U, L, Y, P, kn, off, bb, cl, place, holder),
         Locals, NEW c \in Consumers, Release(c), Tails(H, T, N, Z)'
  PROVE  \E place2 : Inv(H, T, N, Z, U, L, Y, P, kn, off, bb, cl, place2, holder)'
<1>1. /\ Working(H, T, Z, U, L, kn, bb, cl) /\ Owned(T, U, bb, place, holder)
      /\ Contents(H, P, bb, cl) /\ ElementsType /\ Memory
  BY DEF Inv, Memory
<1>2. /\ cpc[c] = "release" /\ Move(c, "idle", NoReg)
      /\ UNCHANGED <<blockIndex, index, key, value, completed, elements, fresh>>
  BY DEF Release, indexVars, blockVars
<1>3. cpc'[c] = "idle" /\ Alone(c)
  BY <1>2, Moved DEF Alone, Labels
<1>4. Working(H, T, Z, U, L, kn, bb, cl)'
  BY <1>1, <1>2, <1>3, WorkingQuiet DEF Quiet
<1>5. PICK b \in Blocks : b = reg[c].block
  BY <1>1, <1>2 DEF Contents
<1>6. free' = free \cup {b}
  BY <1>5 DEF Release
<1>7. PICK place2 : place2 = [place EXCEPT ![b] = "free"]
  OBVIOUS
<1>8. Owned(T, U, bb, place2, holder)'
  BY <1>1, <1>2, <1>3, <1>5, <1>6, <1>7, OwnedRelease
<1>9. Contents(H, P, bb, cl)'
  <2>1. ~Claimed(c)' /\ ~Taken(c)' /\ cpc'[c] # "release"
    BY <1>3 DEF Claimed, Taken
  <2> QED BY <1>1, <1>2, <1>3, <2>1, ContentsMove
<1>10. ElementsType' /\ completed' \in [Blocks -> 0..BLOCK_SIZE] /\ OnlyClears
  BY <1>1, <1>2 DEF Memory, ElementsType, OnlyClears
<1>11. Dequeuing(c)
  BY DEF Dequeuing
<1>12. Inv(H, T, N, Z, U, L, Y, P, kn, off, bb, cl, place2, holder)'
  BY <1>4, <1>8, <1>9, <1>10, <1>11, InvConsumer
<1> QED BY <1>12

-----------------------------------------------------------------------------
(* The invariant is inductive *)

\* The invariant, with the head, the tail and each worker's claim.
Some(H, T, cl) ==
  \E N \in Int, Z \in Int, U \in Int, L \in Int, Y \in Int, P \in Int, kn \in [Entries -> Int],
     off \in [Nat -> Int], bb \in [Int -> Blocks \cup {null}] : \E place, holder :
    Inv(H, T, N, Z, U, L, Y, P, kn, off, bb, cl, place, holder)

\* Steps of the producer.
LEMMA ProducerSome ==
  ASSUME NEW H \in Int, NEW T \in Int, NEW N \in Int, NEW Z \in Int, NEW U \in Int, NEW L \in Int,
         NEW Y \in Int, NEW P \in Int, NEW kn \in [Entries -> Int], NEW off \in [Nat -> Int],
         NEW bb \in [Int -> Blocks \cup {null}], NEW cl \in [Consumers -> Int],
         NEW place, NEW holder, Inv(H, T, N, Z, U, L, Y, P, kn, off, bb, cl, place, holder),
         Locals, (\E count \in 0..MaxBulk : EnqueueBulk(count)) \/ Enqueuing
  PROVE  IF Publish THEN T <= N /\ P = N /\ Some(H, N, cl)' ELSE Some(H, T, cl)'
<1>1. /\ Publish => ppc = "publish"
      /\ (\E count \in 0..MaxBulk : EnqueueBulk(count)) => ppc = "idle"
      /\ (FindEntry \/ GrowIndex \/ NoEntry \/ StartFill) => ppc = "find"
      /\ StoreKey => ppc = "key"
      /\ StoreTail => ppc = "tail"
      /\ (NoBlock \/ \E b \in Blocks : GetBlock(b)) => ppc = "block"
      /\ (Undo \/ GiveUp) => ppc = "undo"
      /\ Fill => ppc = "fill"
  BY DEF Publish, EnqueueBulk, FindEntry, GrowIndex, NoEntry, StartFill, StoreKey, StoreTail,
         NoBlock, GetBlock, Undo, GiveUp, Fill
<1>2. ASSUME NEW count \in 0..MaxBulk, EnqueueBulk(count) PROVE ~Publish /\ Some(H, T, cl)'
  <2>1. Inv(H, T, T + count, Z, U, L, Y, P, kn, off, bb, cl, place, holder)'
    BY <1>2, InvBulk
  <2>2. T + count \in Int
    BY Sizes
  <2>3. Some(H, T, cl)'
    BY <2>1, <2>2 DEF Some
  <2> QED BY <1>1, <1>2, <2>3
<1>3. CASE FindEntry
  <2>1. Inv(H, T, N, Z, U, L, Y, P, kn, off, bb, cl, place, holder)'
    BY <1>3, InvFind
  <2>2. Some(H, T, cl)'
    BY <2>1 DEF Some
  <2> QED BY <1>1, <1>3, <2>2
<1>4. CASE GrowIndex
  <2>1. PICK off2 \in [Nat -> Int] : Inv(H, T, N, Z, U, L, Y, P, kn, off2, bb, cl, place, holder)'
    BY <1>4, InvGrow
  <2>2. Some(H, T, cl)'
    BY <2>1 DEF Some
  <2> QED BY <1>1, <1>4, <2>2
<1>5. CASE NoEntry
  <2>1. Inv(H, T, N, Z, U, L, Y, P, kn, off, bb, cl, place, holder)'
    BY <1>5, InvNoEntry
  <2>2. Some(H, T, cl)'
    BY <2>1 DEF Some
  <2> QED BY <1>1, <1>5, <2>2
<1>6. CASE StoreKey
  <2>1. PICK L2 \in Int, Y2 \in Int, kn2 \in [Entries -> Int] :
          Inv(H, T, N, Z, U, L2, Y2, P, kn2, off, bb, cl, place, holder)'
    BY <1>6, InvKey
  <2>2. Some(H, T, cl)'
    BY <2>1 DEF Some
  <2> QED BY <1>1, <1>6, <2>2
<1>7. CASE StoreTail
  <2>1. Inv(H, T, N, Z, U, L, Y, P, kn, off, bb, cl, place, holder)'
    BY <1>7, InvTail
  <2>2. Some(H, T, cl)'
    BY <2>1 DEF Some
  <2> QED BY <1>1, <1>7, <2>2
<1>8. CASE NoBlock
  <2>1. Inv(H, T, N, Z, U, L, Y, P, kn, off, bb, cl, place, holder)'
    BY <1>8, InvNoBlock
  <2>2. Some(H, T, cl)'
    BY <2>1 DEF Some
  <2> QED BY <1>1, <1>8, <2>2
<1>9. CASE Undo
  <2>1. PICK place2, holder2 :
          Inv(H, T, N, Z, U + 1, L, Y, P, kn, off, bb, cl, place2, holder2)'
    BY <1>9, InvUndo
  <2>2. U + 1 \in Int
    OBVIOUS
  <2>3. Some(H, T, cl)'
    BY <2>1, <2>2 DEF Some
  <2> QED BY <1>1, <1>9, <2>3
<1>10. CASE GiveUp
  <2>1. PICK place2 :
          Inv(H, T, T, LastBlock(T), LastBlock(T), L, Y, P, kn, off, bb, cl, place2, holder)'
    BY <1>10, InvGiveUp
  <2>2. LastBlock(T) \in Int
    BY LastBlockIs
  <2>3. Some(H, T, cl)'
    BY <2>1, <2>2 DEF Some
  <2> QED BY <1>1, <1>10, <2>3
<1>11. CASE StartFill
  <2>1. Inv(H, T, N, Z, U, L, Y, P, kn, off, bb, cl, place, holder)'
    BY <1>11, InvStartFill
  <2>2. Some(H, T, cl)'
    BY <2>1 DEF Some
  <2> QED BY <1>1, <1>11, <2>2
<1>12. CASE Fill
  <2>1. /\ Inv(H, T, N, Z, U, L, Y, FilledTo(N, P), kn, off, bb, cl, place, holder)'
        /\ FilledTo(N, P) \in Int
    BY <1>12, InvFill
  <2>2. Some(H, T, cl)'
    BY <2>1 DEF Some
  <2> QED BY <1>1, <1>12, <2>2
<1>13. CASE Publish
  <2>1. Inv(H, N, N, Z, Z, L, Y, P, kn, off, bb, cl, place, holder)' /\ P = N /\ T <= N
    BY <1>13, InvPublish
  <2>2. Some(H, N, cl)'
    BY <2>1 DEF Some
  <2> QED BY <1>13, <2>1, <2>2
<1>14. ASSUME NEW b \in Blocks, GetBlock(b) PROVE ~Publish /\ Some(H, T, cl)'
  <2>1. PICK bb2 \in [Int -> Blocks \cup {null}] :
         \E place2, holder2 : Inv(H, T, N, Z + 1, U, L, Y, P, kn, off, bb2, cl, place2, holder2)'
    BY <1>14, InvBlock
  <2>2. PICK place2, holder2 : Inv(H, T, N, Z + 1, U, L, Y, P, kn, off, bb2, cl, place2, holder2)'
    BY <2>1
  <2>3. Z + 1 \in Int
    OBVIOUS
  <2>4. Some(H, T, cl)'
    BY <2>2, <2>3 DEF Some
  <2> QED BY <1>1, <1>14, <2>4
<1> QED
  BY <1>2, <1>3, <1>4, <1>5, <1>6, <1>7, <1>8, <1>9, <1>10, <1>11, <1>12, <1>13, <1>14
  DEF Enqueuing

\* Steps of a consumer.
LEMMA ConsumerSome ==
  ASSUME NEW H \in Int, NEW T \in Int, NEW N \in Int, NEW Z \in Int, NEW U \in Int, NEW L \in Int,
         NEW Y \in Int, NEW P \in Int, NEW kn \in [Entries -> Int], NEW off \in [Nat -> Int],
         NEW bb \in [Int -> Blocks \cup {null}], NEW cl \in [Consumers -> Int],
         NEW place, NEW holder, Inv(H, T, N, Z, U, L, Y, P, kn, off, bb, cl, place, holder),
         Locals, Counted(H, T), NEW c \in Consumers, Dequeuing(c), NotOvertaken'
  PROVE  IF Check(c) THEN H < T /\ Some(H + 1, T, [cl EXCEPT ![c] = H])' ELSE Some(H, T, cl)'
<1>1. IF Check(c) THEN H < T /\ Tails(H + 1, T, N, Z)' ELSE Tails(H, T, N, Z)'
  BY ConsumerCounts DEF Inv
<1>2. CASE Check(c)
  <2>1. Inv(H + 1, T, N, Z, U, L, Y, P, kn, off, bb, [cl EXCEPT ![c] = H], place, holder)'
    BY <1>1, <1>2, InvCheck
  <2>2. Some(H + 1, T, [cl EXCEPT ![c] = H])'
    BY <2>1 DEF Some
  <2> QED BY <1>1, <1>2, <2>2
<1>3. CASE ~Check(c) /\ (TryDequeue(c) \/ Optimistic(c) \/ Commit(c) \/ CheckFails(c) \/ Overcommit(c))
  <2>1. Inv(H, T, N, Z, U, L, Y, P, kn, off, bb, cl, place, holder)'
    BY <1>1, <1>3, InvQuiet
  <2>2. Some(H, T, cl)'
    BY <2>1 DEF Some
  <2> QED BY <1>3, <2>2
<1>4. CASE ~Check(c) /\ (LoadIndex(c) \/ LoadIndexTail(c) \/ LoadEntry(c))
  <2>1. Inv(H, T, N, Z, U, L, Y, P, kn, off, bb, cl, place, holder)'
    BY <1>1, <1>4, InvLoad
  <2>2. Some(H, T, cl)'
    BY <2>1 DEF Some
  <2> QED BY <1>4, <2>2
<1>5. CASE ~Check(c) /\ TakeElement(c)
  <2>1. Inv(H, T, N, Z, U, L, Y, P, kn, off, bb, cl, place, holder)'
    BY <1>1, <1>5, InvTake
  <2>2. Some(H, T, cl)'
    BY <2>1 DEF Some
  <2> QED BY <1>5, <2>2
<1>6. CASE ~Check(c) /\ SetEmpty(c)
  <2>1. Inv(H, T, N, Z, U, L, Y, P, kn, off, bb, cl, place, holder)'
    BY <1>1, <1>6, InvEmpty
  <2>2. Some(H, T, cl)'
    BY <2>1 DEF Some
  <2> QED BY <1>6, <2>2
<1>7. CASE ~Check(c) /\ Unlink(c)
  <2>1. PICK place2, holder2 : Inv(H, T, N, Z, U, L, Y, P, kn, off, bb, cl, place2, holder2)'
    BY <1>1, <1>7, InvUnlink
  <2>2. Some(H, T, cl)'
    BY <2>1 DEF Some
  <2> QED BY <1>7, <2>2
<1>8. CASE ~Check(c) /\ Release(c)
  <2>1. PICK place2 : Inv(H, T, N, Z, U, L, Y, P, kn, off, bb, cl, place2, holder)'
    BY <1>1, <1>8, InvRelease
  <2>2. Some(H, T, cl)'
    BY <2>1 DEF Some
  <2> QED BY <1>8, <2>2
<1> QED BY <1>2, <1>3, <1>4, <1>5, <1>6, <1>7, <1>8 DEF Dequeuing

\* No step.
LEMMA StutterSome ==
  ASSUME NEW H \in Int, NEW T \in Int, NEW N \in Int, NEW Z \in Int, NEW U \in Int, NEW L \in Int,
         NEW Y \in Int, NEW P \in Int, NEW kn \in [Entries -> Int], NEW off \in [Nat -> Int],
         NEW bb \in [Int -> Blocks \cup {null}], NEW cl \in [Consumers -> Int],
         NEW place, NEW holder, Inv(H, T, N, Z, U, L, Y, P, kn, off, bb, cl, place, holder),
         UNCHANGED queueVars
  PROVE  Some(H, T, cl)'
<1>1. /\ UNCHANGED tailVars
      /\ UNCHANGED <<value, completed, consumerVars, key, fresh, free, elements, blockIndex, index,
                     chain, tailBlock, startBlock, firstBlock, endBlock, startTail, newTail,
                     current, undo, ppc, entry>>
  BY DEF queueVars, sharedVars, indexVars, blockVars, memoryVars, enqueueVars, batchVars, tailVars
<1>2. Tails(H, T, N, Z)'
  BY <1>1, StutterTails DEF Inv
<1>3. Indexed(T, Z, U, L, Y, kn, off)'
  BY <1>1, IndexedSame DEF Inv
<1>4. Ready(Z, kn)'
  BY <1>1 DEF Inv, Ready, Keyed
<1>5. Kept(H, T, Z, U, L, P, kn, bb, cl, place, holder)'
  BY <1>1, KeptSame, SameIndex
<1>6. Batch(T, N, Z, U, P, bb)'
  BY <1>1, BatchSame DEF Inv
<1>7. Memory'
  BY <1>1 DEF Inv, Memory, ElementsType
<1>8. Inv(H, T, N, Z, U, L, Y, P, kn, off, bb, cl, place, holder)'
  BY <1>2, <1>3, <1>4, <1>5, <1>6, <1>7 DEF Inv, Kept
<1> QED BY <1>8 DEF Some

\* The numbers around index 0.
LEMMA InitialEdges == /\ LastBlock(0) = -1 /\ NumberOf(0) = 0 /\ Slot(0) = 0
                      /\ 0 \in Index /\ BLOCK_SIZE \in Nat
<1>1. /\ BLOCK_SIZE * NumberOf(0) <= 0 /\ 0 < BLOCK_SIZE * NumberOf(0) + BLOCK_SIZE
      /\ NumberOf(0) \in Int
  BY Edge
<1>2. /\ BLOCK_SIZE * LastBlock(0) < 0 /\ 0 <= BLOCK_SIZE * LastBlock(0) + BLOCK_SIZE
      /\ LastBlock(0) \in Int
  BY LastBlockIs
<1>3. BLOCK_SIZE \in Nat /\ BLOCK_SIZE >= 2 /\ Modulus \in Nat \ {0}
  BY Sizes
<1>4. ASSUME NEW n \in Int PROVE BLOCK_SIZE * (n + 1) = BLOCK_SIZE * n + BLOCK_SIZE
  BY <1>3
<1>5. NumberOf(0) = 0 /\ Slot(0) = 0
  <2>1. 0 \in 0..BLOCK_SIZE - 1 /\ BLOCK_SIZE * 0 + 0 = 0
    BY <1>3
  <2> QED BY <2>1, BlockOf
<1>6. LastBlock(0) = -1
  <2>1. BLOCK_SIZE - 1 \in 0..BLOCK_SIZE - 1 /\ BLOCK_SIZE * (-1) + (BLOCK_SIZE - 1) = -1
    BY <1>3
  <2>2. -1 \in Int
    OBVIOUS
  <2>3. NumberOf(-1) = -1
    BY <2>1, <2>2, BlockOf
  <2> QED BY <2>3 DEF LastBlock
<1> QED BY <1>3, <1>5, <1>6 DEF Index

\* The first index.
LEMMA InitialShape ==
  ASSUME QueueInit
  PROVE  /\ Shape /\ blockIndex = 1 /\ Capacity(1) = IMPLICIT_INITIAL_INDEX_SIZE
         /\ index[1].tail = (-1) % IMPLICIT_INITIAL_INDEX_SIZE
         /\ \A e \in Entries : ~Keyed(e) /\ value[e] = null
<1> DEFINE C == IMPLICIT_INITIAL_INDEX_SIZE
<1>1. C \in Nat \ {0} /\ C <= MaxEntries /\ MaxEntries \in Nat
  BY QueueAssumption
<1>2. /\ blockIndex = 1 /\ index = [h \in {1} |-> NewBlockIndex(h)]
      /\ key = [e \in Entries |-> INVALID_BLOCK_BASE] /\ value = [e \in Entries |-> null]
  BY DEF QueueInit, ImplicitProducer
<1>3. index[1] = [capacity |-> C, tail |-> (-1) % C, entries |-> [i \in 0..C - 1 |-> i + 1]]
  <2>1. PrevCapacity(1) = 0 /\ NextCapacity(1) = C
    BY DEF PrevCapacity, NextCapacity
  <2>2. NewEntries(1) = [i \in 0..C - 1 |-> i + 1]
    BY <1>1, <2>1 DEF NewEntries
  <2>3. index[1] = NewBlockIndex(1) /\ 0 - 1 = -1
    BY <1>2
  <2> QED BY <2>1, <2>2, <2>3 DEF NewBlockIndex
<1>4. /\ HeaderShape(index[1]) /\ Capacity(1) = C /\ index[1].tail = (-1) % C
      /\ index[1].entries = [i \in 0..C - 1 |-> i + 1]
  <2>1. /\ index[1].capacity = C /\ index[1].tail = (-1) % C
        /\ index[1].entries = [i \in 0..C - 1 |-> i + 1]
    BY <1>3
  <2> QED BY <1>3, <2>1 DEF HeaderShape, Capacity
<1>5. (-1) % C \in 0..C - 1
  <2> HIDE DEF C
  <2> QED BY <1>1
<1>6. ShapeAt(1)
  <2> HIDE DEF C
  <2>1. index[1].entries \in [0..C - 1 -> 1..C]
    BY <1>1, <1>4
  <2>2. \A e \in 1..C : \E p \in 0..C - 1 : index[1].entries[p] = e
    <3>1. ASSUME NEW e \in 1..C PROVE e - 1 \in 0..C - 1 /\ index[1].entries[e - 1] = e
      BY <1>1, <1>4
    <3> QED BY <3>1
  <2>3. \A p, q \in 0..C - 1 : index[1].entries[p] = index[1].entries[q] => p = q
    BY <1>1, <1>4
  <2>4. \E q \in Nat : Capacity(blockIndex) = q * Capacity(1)
    <3>1. Capacity(blockIndex) = 1 * Capacity(1)
      BY <1>1, <1>2, <1>4
    <3> QED BY <3>1
  <2>5. Capacity(1) \in 1..MaxEntries
    BY <1>1, <1>4
  <2> QED BY <1>4, <1>5, <2>1, <2>2, <2>3, <2>4, <2>5 DEF ShapeAt
<1>7. Shape
  <2>1. index = [h \in 1..blockIndex |-> index[h]]
    BY <1>2
  <2>2. key \in [Entries -> Int]
    BY <1>2 DEF INVALID_BLOCK_BASE
  <2> QED BY <1>2, <1>6, <2>1, <2>2 DEF Shape
<1>8. \A e \in Entries : ~Keyed(e) /\ value[e] = null
  BY <1>2 DEF Keyed
<1> QED BY <1>2, <1>4, <1>7, <1>8

\* It has no entry yet.
LEMMA InitialIndexed ==
  ASSUME QueueInit, NEW kn, NEW off \in [Nat -> Int], off[1] = 0
  PROVE  Indexed(0, -1, -1, 0, -1, kn, off)
<1>1. /\ Shape /\ blockIndex = 1 /\ Capacity(1) = IMPLICIT_INITIAL_INDEX_SIZE
      /\ index[1].tail = (-1) % IMPLICIT_INITIAL_INDEX_SIZE
      /\ \A e \in Entries : ~Keyed(e)
      /\ IMPLICIT_INITIAL_INDEX_SIZE \in Nat \ {0}
  BY InitialShape, QueueAssumption
<1>2. ppc = "idle" /\ entry = null
  BY DEF QueueInit
<1>3. Keys(0, -1, kn, off)
  BY <1>1 DEF Keys
<1>4. LastBlock(0) = -1
  BY InitialEdges
<1>5. AtTail(0, -1, -1) = -1
  BY <1>2, <1>4 DEF AtTail
<1>6. index[blockIndex].tail = Pos(AtTail(0, -1, -1), off)
  BY <1>1, <1>5 DEF Pos
<1> QED BY <1>1, <1>2, <1>3, <1>4, <1>6 DEF Indexed, Cursor

\* Nobody is at work.
LEMMA InitialWorking ==
  ASSUME QueueInit, NEW kn, NEW bb, NEW cl
  PROVE  Working(0, 0, -1, -1, 0, kn, bb, cl)
<1>1. \A c \in Consumers : cpc[c] = "idle"
  BY DEF QueueInit
<1>2. \A n \in Int : ~InUse(n, 0, 0, -1, -1, cl)
  BY <1>1 DEF InUse, Ahead, AtWorkIn, AtWork
<1>3. \A e \in Entries : value[e] = null
  BY InitialShape
<1>4. Used(0, 0, -1, -1, 0, kn, bb, cl)
  BY <1>2, <1>3 DEF Used
<1>5. Ages(0, cl) /\ Work(0, kn, cl)
  BY <1>1 DEF Ages, Work, WorkOf, AtWork, Claimed
<1> QED BY <1>4, <1>5 DEF Working

\* Every block is fresh.
LEMMA InitialOwned ==
  ASSUME QueueInit, NEW bb
  PROVE  Owned(0, -1, bb, [b \in Blocks |-> "fresh"], [b \in Blocks |-> 0])
<1>1. /\ \A c \in Consumers : cpc[c] = "idle"
      /\ fresh = Blocks /\ free = {}
  BY DEF QueueInit
<1>2. \A e \in Entries : value[e] = null
  BY InitialShape
<1>3. value \in [Entries -> Blocks \cup {null}]
  BY DEF QueueInit, ImplicitProducer
<1>4. \A n \in Int : ~Undone(n, 0, -1)
  BY InitialEdges DEF Undone
<1>5. null \notin Blocks
  BY QueueAssumption
<1>6. ASSUME NEW b \in Blocks
      PROVE  PlaceOf(b, 0, -1, bb, [x \in Blocks |-> "fresh"], [x \in Blocks |-> 0])
  BY <1>1, <1>2, <1>4, <1>5 DEF PlaceOf, Outside
<1> QED BY <1>1, <1>3, <1>6 DEF Owned, Places, Holders

\* There is no batch.
LEMMA InitialBatch ==
  ASSUME QueueInit, NEW bb
  PROVE  Batch(0, 0, -1, -1, 0, bb)
<1>1. ppc = "idle" /\ firstBlock = null /\ \A b \in Blocks : chain[b] = null
  BY DEF QueueInit
<1>2. Chained(0, -1, bb)
  BY <1>1, InitialEdges DEF Chained
<1>3. Pointers(0, 0, -1, -1, 0, bb)
  BY <1>1, InitialEdges DEF Pointers
<1> QED BY <1>2, <1>3 DEF Batch

\* And no element.
LEMMA InitialMemory ==
  ASSUME QueueInit, NEW bb, NEW cl
  PROVE  Memory /\ Contents(0, 0, bb, cl)
<1>1. \A c \in Consumers : cpc[c] = "idle"
  BY DEF QueueInit
<1>2. Contents(0, 0, bb, cl)
  BY <1>1 DEF Contents, Claimed, Taken
<1>3. ElementsType
  BY DEF QueueInit, ElementsType
<1>4. 1 \in Index /\ 0 \in Index /\ 0 \in 0..BLOCK_SIZE
  BY Sizes DEF Index
<1>5. Memory
  BY <1>3, <1>4 DEF QueueInit, ImplicitProducer, ProducerBase, Memory, PLabels, INVALID_BLOCK_BASE
<1> QED BY <1>2, <1>5

\* The invariant holds initially.
LEMMA InitialSome ==
  ASSUME QueueInit, NotOvertaken
  PROVE  /\ Locals /\ Counted(0, 0)
         /\ \E cl \in [Consumers -> Int] : Some(0, 0, cl)
<1>1. Locals /\ Counted(0, 0) /\ Tails(0, 0, 0, -1)
  BY InitialCounts
<1>2. /\ [e \in Entries |-> 0] \in [Entries -> Int] /\ [n \in Nat |-> 0] \in [Nat -> Int]
      /\ [n \in Int |-> null] \in [Int -> Blocks \cup {null}]
      /\ [c \in Consumers |-> 0] \in [Consumers -> Int]
  OBVIOUS
<1>3. PICK kn \in [Entries -> Int] : kn = [e \in Entries |-> 0]
  BY <1>2
<1>4. PICK off \in [Nat -> Int] : off[1] = 0
  BY <1>2
<1>5. PICK bb \in [Int -> Blocks \cup {null}] : bb = [n \in Int |-> null]
  BY <1>2
<1>6. PICK cl \in [Consumers -> Int] : cl = [c \in Consumers |-> 0]
  BY <1>2
<1>7. PICK place, holder : place = [b \in Blocks |-> "fresh"] /\ holder = [b \in Blocks |-> 0]
  OBVIOUS
<1>8. Indexed(0, -1, -1, 0, -1, kn, off)
  BY <1>4, InitialIndexed
<1>9. Working(0, 0, -1, -1, 0, kn, bb, cl) /\ Batch(0, 0, -1, -1, 0, bb)
      /\ Memory /\ Contents(0, 0, bb, cl)
  BY InitialWorking, InitialBatch, InitialMemory
<1>10. Owned(0, -1, bb, place, holder)
  BY <1>7, InitialOwned
<1>11. Ready(-1, kn)
  BY DEF QueueInit, Ready
<1>12. Inv(0, 0, 0, -1, -1, 0, -1, 0, kn, off, bb, cl, place, holder)
  BY <1>1, <1>8, <1>9, <1>10, <1>11 DEF Inv
<1>13. 0 \in Int /\ -1 \in Int
  OBVIOUS
<1>14. Some(0, 0, cl)
  BY <1>12, <1>13 DEF Some
<1> QED BY <1>1, <1>14

\* The inductive invariant.
BlocksInv ==
  /\ Locals
  /\ \E H \in Int, T \in Int, cl \in [Consumers -> Int] : Counted(H, T) /\ Some(H, T, cl)

\* What a step does to the head, the tail and the claims: only Publish moves
\* the tail, only Check the head.
QueueStep(H, T, cl) ==
  \/ /\ UNCHANGED queueVars \/ (~Publish /\ Enqueuing) \/ \E count \in 0..MaxBulk : EnqueueBulk(count)
     /\ Counted(H, T)' /\ Some(H, T, cl)'
  \/ /\ Publish
     /\ \E N \in Int : newTail = Wrap(N) /\ T <= N /\ N <= T + MaxBulk
          /\ Counted(H, N)' /\ Some(H, N, cl)'
  \/ \E c \in Consumers :
       /\ Check(c) /\ H < T
       /\ Counted(H + 1, T)' /\ Some(H + 1, T, [cl EXCEPT ![c] = H])'
  \/ \E c \in Consumers :
       /\ Dequeuing(c) /\ ~Check(c)
       /\ Counted(H, T)' /\ Some(H, T, cl)'

\* Steps keep the invariant.
LEMMA StepsKept ==
  ASSUME NEW H \in Int, NEW T \in Int, NEW cl \in [Consumers -> Int],
         Locals, Counted(H, T), Some(H, T, cl), [QueueNext]_queueVars, NotOvertaken'
  PROVE  Locals' /\ QueueStep(H, T, cl)
<1>1. PICK N \in Int, Z \in Int, U \in Int, L \in Int, Y \in Int, P \in Int, kn \in [Entries -> Int],
          off \in [Nat -> Int], bb \in [Int -> Blocks \cup {null}] :
       \E place, holder : Inv(H, T, N, Z, U, L, Y, P, kn, off, bb, cl, place, holder)
  BY DEF Some
<1>2. PICK place, holder : Inv(H, T, N, Z, U, L, Y, P, kn, off, bb, cl, place, holder)
  BY <1>1
<1>3. CASE (\E count \in 0..MaxBulk : EnqueueBulk(count)) \/ Enqueuing
  <2>1. UNCHANGED <<headIndex, dequeueOptimisticCount, dequeueOvercommit, consumerVars>>
    BY <1>3, ProducerFrame
  <2>2. Locals'
    BY <2>1 DEF Locals, consumerVars
  <2>3. IF Publish THEN T <= N /\ P = N /\ Some(H, N, cl)' ELSE Some(H, T, cl)'
    BY <1>2, <1>3, ProducerSome
  <2>4. CASE Publish
    <3>1. T <= N /\ Some(H, N, cl)'
      BY <2>3, <2>4
    <3>2. Counted(H, N)'
      BY <2>1, <3>1, CountedStays
    <3>3. newTail = Wrap(N) /\ N <= T + MaxBulk
      BY <1>2, <2>4 DEF Inv, Tails, Publish
    <3> QED BY <2>2, <2>4, <3>1, <3>2, <3>3 DEF QueueStep
  <2>5. CASE ~Publish
    <3>1. Counted(H, T)'
      BY <2>1, CountedStays
    <3> QED BY <1>3, <2>2, <2>3, <2>5, <3>1 DEF QueueStep
  <2> QED BY <2>4, <2>5
<1>4. ASSUME NEW c \in Consumers, Dequeuing(c) PROVE Locals' /\ QueueStep(H, T, cl)
  <2>1. /\ Locals'
        /\ IF Check(c) THEN Counted(H + 1, T)' ELSE Counted(H, T)'
    BY <1>2, <1>4, ConsumerCounts DEF Inv
  <2>2. IF Check(c) THEN H < T /\ Some(H + 1, T, [cl EXCEPT ![c] = H])' ELSE Some(H, T, cl)'
    BY <1>2, <1>4, ConsumerSome
  <2> QED BY <1>4, <2>1, <2>2 DEF QueueStep
<1>5. CASE UNCHANGED queueVars
  <2>1. Some(H, T, cl)'
    BY <1>2, <1>5, StutterSome
  <2>2. UNCHANGED <<dequeueOptimisticCount, dequeueOvercommit, consumerVars>>
    BY <1>5 DEF queueVars, sharedVars
  <2>3. Counted(H, T)' /\ Locals'
    BY <2>2, CountedStays DEF Locals, consumerVars
  <2> QED BY <1>5, <2>1, <2>3 DEF QueueStep
<1> QED BY <1>3, <1>4, <1>5 DEF QueueNext

\* It is inductive.
LEMMA BlocksNext ==
  BlocksInv /\ NotOvertaken' /\ [QueueNext]_queueVars => BlocksInv'
<1> SUFFICES ASSUME BlocksInv, NotOvertaken', [QueueNext]_queueVars PROVE BlocksInv'
  OBVIOUS
<1>1. PICK H \in Int, T \in Int, cl \in [Consumers -> Int] :
        Locals /\ Counted(H, T) /\ Some(H, T, cl)
  BY DEF BlocksInv
<1>2. Locals' /\ QueueStep(H, T, cl)
  BY <1>1, StepsKept
<1>3. \A c \in Consumers : [cl EXCEPT ![c] = H] \in [Consumers -> Int]
  OBVIOUS
<1>4. H + 1 \in Int
  OBVIOUS
<1>5. \E H2 \in Int, T2 \in Int, cl2 \in [Consumers -> Int] : Counted(H2, T2)' /\ Some(H2, T2, cl2)'
  BY <1>1, <1>2, <1>3, <1>4 DEF QueueStep
<1> QED BY <1>2, <1>5 DEF BlocksInv

\* It holds always.
LEMMA BlocksAlways == QueueSpec /\ []NotOvertaken => []BlocksInv
<1>1. QueueInit /\ NotOvertaken => BlocksInv
  <2> SUFFICES ASSUME QueueInit, NotOvertaken PROVE BlocksInv
    OBVIOUS
  <2>1. 0 \in Int
    OBVIOUS
  <2> QED BY <2>1, InitialSome DEF BlocksInv
<1> QED BY <1>1, BlocksNext, PTL DEF QueueSpec

-----------------------------------------------------------------------------
(* What follows from it *)

\* QueueType follows.
LEMMA TypeHolds ==
  ASSUME NEW H \in Int, NEW T \in Int, NEW N \in Int, NEW Z \in Int, NEW U \in Int, NEW L \in Int,
         NEW Y \in Int, NEW P \in Int, NEW kn \in [Entries -> Int], NEW off \in [Nat -> Int],
         NEW bb \in [Int -> Blocks \cup {null}], NEW cl \in [Consumers -> Int],
         NEW place, NEW holder, Inv(H, T, N, Z, U, L, Y, P, kn, off, bb, cl, place, holder),
         Locals, Counted(H, T)
  PROVE  QueueType
<1>1. /\ Tails(H, T, N, Z) /\ Indexed(T, Z, U, L, Y, kn, off) /\ Shape /\ Keys(L, Y, kn, off)
      /\ Cursor(T, Z, U, L, Y, off) /\ Owned(T, U, bb, place, holder) /\ Memory
  BY DEF Inv, Indexed
<1>2. tailIndex \in Index /\ headIndex \in Index
  BY <1>1, Indices DEF Tails
<1>3. dequeueOptimisticCount \in Index /\ dequeueOvercommit \in Index
  BY Indices DEF Counted, Claims
<1>4. startTail \in Index /\ newTail \in Index /\ current \in Index
  BY <1>1 DEF Memory
<1>5. \A h \in 1..blockIndex :
        /\ Capacity(h) \in 1..MaxEntries
        /\ index[h].tail \in 0..Capacity(h) - 1
        /\ index[h].entries \in [0..Capacity(h) - 1 -> 1..Capacity(h)]
  BY <1>1 DEF Shape, ShapeAt
<1>6. entry \in Entries \cup {null}
  <2>1. Z + 1 \in Int
    OBVIOUS
  <2>2. At(Z + 1, off) \in Entries
    BY <1>1, <2>1, Placed
  <2> QED BY <1>1, <2>2 DEF Cursor
<1>7. /\ blockIndex \in Nat \ {0}
      /\ key \in [Entries -> Index] /\ value \in [Entries -> Blocks \cup {null}]
      /\ elements \in [Blocks -> [0..BLOCK_SIZE - 1 -> Index \cup {Raw}]]
      /\ completed \in [Blocks -> 0..BLOCK_SIZE]
      /\ chain \in [Blocks -> Blocks \cup {null}]
      /\ fresh \subseteq Blocks /\ free \subseteq Blocks
      /\ ppc \in PLabels
      /\ tailBlock \in Blocks \cup {null} /\ startBlock \in Blocks \cup {null}
      /\ firstBlock \in Blocks \cup {null} /\ endBlock \in Blocks \cup {null}
      /\ undo \in Blocks \cup {null}
  BY <1>1 DEF Shape, Owned, Memory, ElementsType
<1>8. cpc \in [Consumers -> Labels]
  BY DEF Locals
<1> QED BY <1>2, <1>3, <1>4, <1>5, <1>6, <1>7, <1>8 DEF QueueType, PLabels, Labels

\* EntryIsRight follows: the entry found is keyed with the element's block.
LEMMA EntryHolds ==
  ASSUME NEW H \in Int, NEW T \in Int, NEW N \in Int, NEW Z \in Int, NEW U \in Int, NEW L \in Int,
         NEW Y \in Int, NEW P \in Int, NEW kn \in [Entries -> Int], NEW off \in [Nat -> Int],
         NEW bb \in [Int -> Blocks \cup {null}], NEW cl \in [Consumers -> Int],
         NEW place, NEW holder, Inv(H, T, N, Z, U, L, Y, P, kn, off, bb, cl, place, holder)
  PROVE  EntryIsRight
<1> SUFFICES ASSUME NEW c \in Consumers, cpc[c] = "element"
             PROVE  /\ key[reg[c].entry] = Base(reg[c].index)
                    /\ value[reg[c].entry] = reg[c].block
  BY DEF EntryIsRight
<1>1. /\ Used(H, T, Z, U, L, kn, bb, cl) /\ Work(H, kn, cl) /\ Keys(L, Y, kn, off)
  BY DEF Inv, Indexed, Working
<1>2. PICK e \in Entries : /\ e = reg[c].entry /\ Keyed(e) /\ kn[e] = NumberOf(cl[c])
                           /\ value[e] = reg[c].block
  <2>1. HasFound(c, NumberOf(cl[c]), H, T, Z, U, kn, bb, cl)
    BY <1>1, BlockFound
  <2> QED BY <2>1 DEF HasFound
<1>3. reg[c].index = Wrap(cl[c])
  BY <1>1 DEF Work, WorkOf, Claimed
<1>4. key[e] = Wrap(BLOCK_SIZE * kn[e])
  BY <1>1, <1>2 DEF Keys
<1>5. cl[c] \in Int
  OBVIOUS
<1>6. Base(Wrap(cl[c])) = Wrap(BLOCK_SIZE * NumberOf(cl[c]))
  BY <1>5, BaseOf
<1> QED BY <1>2, <1>3, <1>4, <1>6

\* BlocksKept follows: a block is at one place, and between batches none is undone.
LEMMA KeptHolds ==
  ASSUME NEW H \in Int, NEW T \in Int, NEW N \in Int, NEW Z \in Int, NEW U \in Int, NEW L \in Int,
         NEW Y \in Int, NEW P \in Int, NEW kn \in [Entries -> Int], NEW off \in [Nat -> Int],
         NEW bb \in [Int -> Blocks \cup {null}], NEW cl \in [Consumers -> Int],
         NEW place, NEW holder, Inv(H, T, N, Z, U, L, Y, P, kn, off, bb, cl, place, holder)
  PROVE  BlocksKept
<1>1. Owned(T, U, bb, place, holder) /\ Contents(H, P, bb, cl)
  BY DEF Inv
<1>2. null \notin Blocks
  BY QueueAssumption
<1>3. ASSUME NEW b PROVE b \in InIndex <=> b \in Blocks /\ place[b] = "index"
  <2>1. ASSUME NEW e \in Entries, value[e] # null, b = value[e]
        PROVE  b \in Blocks /\ place[b] = "index"
    <3>1. value[e] \in Blocks
      BY <1>1, <2>1 DEF Owned
    <3> QED BY <1>1, <2>1, <3>1 DEF Owned, PlaceOf
  <2>2. ASSUME b \in Blocks, place[b] = "index" PROVE b \in InIndex
    <3>1. holder[b] \in Entries /\ value[holder[b]] = b
      BY <1>1, <2>2 DEF Owned, PlaceOf
    <3> QED BY <1>2, <2>2, <3>1 DEF InIndex
  <2> QED BY <2>1, <2>2 DEF InIndex
<1>4. ASSUME NEW b PROVE b \in Leaving <=> b \in Blocks /\ place[b] = "out"
  <2>1. ASSUME NEW c \in Consumers, cpc[c] = "release", b = reg[c].block
        PROVE  b \in Blocks /\ place[b] = "out"
    <3>1. b \in Blocks
      BY <1>1, <2>1 DEF Contents
    <3>2. Outside(c, b)
      BY <2>1 DEF Outside
    <3> QED BY <1>1, <3>1, <3>2 DEF Owned, PlaceOf
  <2>2. ASSUME b \in Blocks, place[b] = "out" PROVE b \in Leaving
    <3>1. holder[b] \in Consumers /\ Outside(holder[b], b)
      BY <1>1, <2>2 DEF Owned, PlaceOf
    <3> QED BY <3>1 DEF Leaving, Outside
  <2> QED BY <2>1, <2>2 DEF Leaving
<1>5. /\ fresh \subseteq Blocks /\ free \subseteq Blocks
      /\ \A b \in Blocks : /\ place[b] \in Places
                           /\ b \in fresh <=> place[b] = "fresh"
                           /\ b \in free <=> place[b] = "free"
  BY <1>1 DEF Owned, PlaceOf
<1>6. free \cap (InIndex \cup Leaving) = {}
  <2>1. ASSUME NEW b \in free PROVE b \notin InIndex /\ b \notin Leaving
    <3>1. place[b] = "free"
      BY <1>5
    <3> QED BY <1>3, <1>4, <3>1
  <2> QED BY <2>1
<1>7. ASSUME NEW e \in Entries, NEW f \in Entries, value[e] = value[f], value[e] # null
      PROVE  e = f
  <2>1. PICK b \in Blocks : value[e] = b /\ value[f] = b
    BY <1>1, <1>7 DEF Owned
  <2> QED BY <1>1, <2>1 DEF Owned, PlaceOf
<1>8. ASSUME ppc = "idle", NEW b PROVE b \in free \cup InIndex \cup Leaving <=> b \in Blocks \ fresh
  <2>1. ASSUME b \in Blocks PROVE place[b] # "undone"
    <3>1. U = LastBlock(T)
      BY <1>8 DEF Inv, Indexed, Cursor
    <3>2. NoneUndone(T, U)
      BY <3>1, NothingUndone
    <3>3. PlaceOf(b, T, U, bb, place, holder)
      BY <1>1, <2>1 DEF Owned
    <3> QED BY <3>2, <3>3 DEF PlaceOf, NoneUndone
  <2>2. b \in Blocks =>
          /\ place[b] \in {"fresh", "free", "index", "out"}
          /\ b \in InIndex <=> place[b] = "index"
          /\ b \in Leaving <=> place[b] = "out"
          /\ b \in fresh <=> place[b] = "fresh"
          /\ b \in free <=> place[b] = "free"
    BY <1>3, <1>4, <1>5, <2>1 DEF Places
  <2>3. b \in free \cup InIndex \cup Leaving => b \in Blocks
    BY <1>3, <1>4, <1>5
  <2> QED BY <2>2, <2>3
<1>9. ppc = "idle" => free \cup InIndex \cup Leaving = Blocks \ fresh
  BY <1>8
<1> QED BY <1>6, <1>7, <1>9 DEF BlocksKept

\* So do the three of the invariant.
LEMMA BlocksProperties == BlocksInv => QueueType /\ EntryIsRight /\ BlocksKept
<1> SUFFICES ASSUME BlocksInv PROVE QueueType /\ EntryIsRight /\ BlocksKept
  OBVIOUS
<1>1. PICK H \in Int, T \in Int, cl \in [Consumers -> Int] :
        Locals /\ Counted(H, T) /\ Some(H, T, cl)
  BY DEF BlocksInv
<1>2. PICK N \in Int, Z \in Int, U \in Int, L \in Int, Y \in Int, P \in Int, kn \in [Entries -> Int],
          off \in [Nat -> Int], bb \in [Int -> Blocks \cup {null}] :
       \E place, holder : Inv(H, T, N, Z, U, L, Y, P, kn, off, bb, cl, place, holder)
  BY <1>1 DEF Some
<1>3. PICK place, holder : Inv(H, T, N, Z, U, L, Y, P, kn, off, bb, cl, place, holder)
  BY <1>2
<1>4. QueueType
  BY <1>1, <1>3, TypeHolds
<1>5. EntryIsRight
  BY <1>3, EntryHolds
<1>6. BlocksKept
  BY <1>3, KeptHolds
<1> QED BY <1>4, <1>5, <1>6

\* The queue's variables keep their types, indices and positions their bounds,
\* whatever the workers and the producer do.
THEOREM QueueTypeHolds == QueueSpec /\ []NotOvertaken => []QueueType
BY BlocksAlways, BlocksProperties, PTL

\* BlocksKept: acquiring, emptying, taking out, giving back and undoing a batch,
\* in whatever order workers and producer come, neither lose a block nor use one
\* twice.
THEOREM BlocksNeverLost == QueueSpec /\ []NotOvertaken => []BlocksKept
BY BlocksAlways, BlocksProperties, PTL

\* EntryIsRight: get_block_index_index_for_index finds the entry of the claimed
\* element's block, however old the index and the tail it was looked up with are.
THEOREM RightEntryFound == QueueSpec /\ []NotOvertaken => []EntryIsRight
BY BlocksAlways, BlocksProperties, PTL

-----------------------------------------------------------------------------
(* First in, first out *)

\* What the queue and its workers hold, as Fifo's line and hand.
QueueLine == [k \in 1..Wrap(tailIndex - headIndex) |-> Found(Wrap(headIndex + k - 1))]
\* What each worker has claimed and not returned with.
QueueHand ==
  [c \in Consumers |->
     IF Claimed(c) THEN Found(reg[c].index) ELSE IF Taken(c) THEN reg[c].element ELSE null]

\* The same, by the tickets' numbers before they wrap.
Numbered(H, T) == [k \in 1..T - H |-> Wrap(H + k - 1)]
\* Worker c has a ticket.
Holding(c) == Claimed(c) \/ Taken(c)
\* What the workers hold, by the numbers of their claims.
Held(cl) == [c \in Consumers |-> IF Holding(c) THEN Wrap(cl[c]) ELSE null]

\* Elements before T of blocks in use are found.
LEMMA FoundEach ==
  ASSUME NEW H \in Int, NEW T \in Int, NEW N \in Int, NEW Z \in Int, NEW U \in Int, NEW L \in Int,
         NEW Y \in Int, NEW P \in Int, NEW kn \in [Entries -> Int], NEW off \in [Nat -> Int],
         NEW bb \in [Int -> Blocks \cup {null}], NEW cl \in [Consumers -> Int],
         NEW place, NEW holder, Inv(H, T, N, Z, U, L, Y, P, kn, off, bb, cl, place, holder)
  PROVE  \A i \in Int : NeededAt(i, H, T, Z, U, cl) => InPlace(i, bb)
<1>1. /\ Indexed(T, Z, U, L, Y, kn, off) /\ Working(H, T, Z, U, L, kn, bb, cl)
      /\ Tails(H, T, N, Z)
  BY DEF Inv
<1> QED BY <1>1, FoundNow

\* The line is what is written and not claimed.
LEMMA LineIs ==
  ASSUME NEW H \in Int, NEW T \in Int, NEW N \in Int, NEW Z \in Int, NEW U \in Int, NEW L \in Int,
         NEW Y \in Int, NEW P \in Int, NEW kn \in [Entries -> Int], NEW off \in [Nat -> Int],
         NEW bb \in [Int -> Blocks \cup {null}], NEW cl \in [Consumers -> Int],
         NEW place, NEW holder, Inv(H, T, N, Z, U, L, Y, P, kn, off, bb, cl, place, holder)
  PROVE  QueueLine = Numbered(H, T)
<1>1. /\ Tails(H, T, N, Z) /\ Indexed(T, Z, U, L, Y, kn, off) /\ Cursor(T, Z, U, L, Y, off)
      /\ Working(H, T, Z, U, L, kn, bb, cl) /\ Pointers(T, N, Z, U, P, bb) /\ Contents(H, P, bb, cl)
  BY DEF Inv, Indexed, Batch
<1>2. /\ headIndex = Wrap(H) /\ tailIndex = Wrap(T) /\ 0 <= H /\ H <= T /\ T <= P
  BY <1>1 DEF Tails, Pointers
<1>3. Wrap(tailIndex - headIndex) = T - H
  <2>1. T - H < HalfRange
    BY <1>1, TailNear
  <2>2. T - H \in 0..Modulus - 1
    BY <1>2, <2>1, Sizes DEF HalfRange
  <2>3. Wrap(T - H) = T - H
    BY <2>2, WrapSmall
  <2> QED BY <1>2, <2>3, WrapSum
<1>4. ASSUME NEW k \in 1..T - H PROVE Found(Wrap(headIndex + k - 1)) = Wrap(H + k - 1)
  <2>1. PICK i \in Int : i = H + k - 1 /\ H <= i /\ i < T /\ i < P
    BY <1>2
  <2>2. Wrap(headIndex + k - 1) = Wrap(i)
    <3>1. k - 1 \in Int
      OBVIOUS
    <3>2. Wrap(Wrap(H) + (k - 1)) = Wrap(H + (k - 1))
      BY <3>1, WrapSum
    <3>3. Wrap(H) \in Int
      BY Wrapped
    <3>4. headIndex + k - 1 = Wrap(H) + (k - 1) /\ i = H + (k - 1)
      BY <1>2, <2>1, <3>3
    <3> QED BY <3>2, <3>4
  <2>3. NeededAt(i, H, T, Z, U, cl)
    BY <1>1, <2>1, WrittenInUse DEF NeededAt
  <2>4. InPlace(i, bb)
    BY <2>1, <2>3, FoundEach
  <2>5. Stored(i, bb)
    BY <1>1, <2>1 DEF Contents
  <2> QED BY <2>1, <2>2, <2>4, <2>5 DEF InPlace, Stored
<1> QED BY <1>3, <1>4 DEF QueueLine, Numbered

\* Each worker holds what it claimed.
LEMMA HandIs ==
  ASSUME NEW H \in Int, NEW T \in Int, NEW N \in Int, NEW Z \in Int, NEW U \in Int, NEW L \in Int,
         NEW Y \in Int, NEW P \in Int, NEW kn \in [Entries -> Int], NEW off \in [Nat -> Int],
         NEW bb \in [Int -> Blocks \cup {null}], NEW cl \in [Consumers -> Int],
         NEW place, NEW holder, Inv(H, T, N, Z, U, L, Y, P, kn, off, bb, cl, place, holder)
  PROVE  QueueHand = Held(cl)
<1>1. /\ Tails(H, T, N, Z) /\ Indexed(T, Z, U, L, Y, kn, off)
      /\ Working(H, T, Z, U, L, kn, bb, cl) /\ Contents(H, P, bb, cl)
      /\ Ages(H, cl) /\ Work(H, kn, cl) /\ H <= T
  BY DEF Inv, Tails, Working
<1>2. ASSUME NEW c \in Consumers, Claimed(c) PROVE Found(reg[c].index) = Wrap(cl[c])
  <2>1. PICK i \in Int : i = cl[c]
    OBVIOUS
  <2>2. cpc[c] \in AtWork
    BY <1>2 DEF Claimed, AtWork
  <2>3. i < T
    BY <1>1, <2>1, <2>2 DEF Ages
  <2>4. reg[c].index = Wrap(i)
    BY <1>1, <1>2, <2>1 DEF Work, WorkOf
  <2>5. NeededAt(i, H, T, Z, U, cl)
    <3>1. c \in AtWorkIn(NumberOf(i), cl)
      BY <2>1, <2>2 DEF AtWorkIn
    <3> QED BY <2>3, <3>1 DEF NeededAt, InUse
  <2>6. InPlace(i, bb)
    BY <2>3, <2>5, FoundEach
  <2>7. Stored(i, bb)
    BY <1>1, <1>2, <2>1 DEF Contents
  <2> QED BY <2>1, <2>4, <2>6, <2>7 DEF InPlace, Stored
<1>3. \A c \in Consumers : Taken(c) => reg[c].element = Wrap(cl[c])
  BY <1>1 DEF Contents
<1> QED BY <1>2, <1>3 DEF QueueHand, Held, Holding

\* The line and the hands, wherever the invariant holds.
SeenAs(H, T, cl) ==
  /\ 0 <= H /\ H <= T /\ tailIndex = Wrap(T) /\ headIndex = Wrap(H)
  /\ QueueLine = Numbered(H, T) /\ QueueHand = Held(cl)

\* It is so wherever the invariant holds.
LEMMA SomeSeen ==
  ASSUME NEW H \in Int, NEW T \in Int, NEW cl \in [Consumers -> Int], Some(H, T, cl)
  PROVE  SeenAs(H, T, cl)
<1>1. PICK N \in Int, Z \in Int, U \in Int, L \in Int, Y \in Int, P \in Int, kn \in [Entries -> Int],
          off \in [Nat -> Int], bb \in [Int -> Blocks \cup {null}] :
       \E place, holder : Inv(H, T, N, Z, U, L, Y, P, kn, off, bb, cl, place, holder)
  BY DEF Some
<1>2. PICK place, holder : Inv(H, T, N, Z, U, L, Y, P, kn, off, bb, cl, place, holder)
  BY <1>1
<1>3. QueueLine = Numbered(H, T)
  BY <1>2, LineIs
<1>4. QueueHand = Held(cl)
  BY <1>2, HandIs
<1>5. 0 <= H /\ H <= T /\ tailIndex = Wrap(T) /\ headIndex = Wrap(H)
  BY <1>2 DEF Inv, Tails
<1> QED BY <1>3, <1>4, <1>5 DEF SeenAs

\* The line with a batch more.
LEMMA AddBatch ==
  ASSUME NEW H \in Int, NEW T \in Int, NEW N \in Int, 0 <= H, H <= T, T <= N
  PROVE  Numbered(H, N) =
           Numbered(H, T) \o [k \in 1..N - T |-> (Wrap(T) + k - 1) % Modulus]
<1> DEFINE s == Numbered(H, T)
           t == [k \in 1..N - T |-> (Wrap(T) + k - 1) % Modulus]
<1>1. ASSUME NEW k \in 1..N - T PROVE (Wrap(T) + k - 1) % Modulus = Wrap(T + k - 1)
  <2>1. k - 1 \in Int /\ Wrap(T) \in Int
    BY Wrapped
  <2>2. Wrap(Wrap(T) + (k - 1)) = Wrap(T + (k - 1))
    BY <2>1, WrapSum
  <2>3. Wrap(T) + k - 1 = Wrap(T) + (k - 1) /\ T + k - 1 = T + (k - 1)
    BY <2>1
  <2>4. (Wrap(T) + k - 1) % Modulus = Wrap(Wrap(T) + k - 1)
    BY DEF Wrap
  <2> QED BY <2>2, <2>3, <2>4
<1>2. t = [k \in 1..N - T |-> Wrap(T + k - 1)]
  BY <1>1
<1>3. s = [k \in 1..T - H |-> Wrap(H + k - 1)] /\ T - H \in Nat /\ N - T \in Nat
  BY DEF Numbered
<1> HIDE DEF s, t
<1>4. \A i \in Int : Wrap(i) \in Int
  BY Wrapped
<1>5. s \in Seq(Int) /\ Len(s) = T - H
  BY <1>3, <1>4
<1>6. t \in Seq(Int) /\ Len(t) = N - T
  BY <1>2, <1>3, <1>4
<1>7. (s \o t) \in Seq(Int) /\ Len(s \o t) = N - H
  BY <1>5, <1>6
<1>8. Numbered(H, N) \in Seq(Int) /\ Len(Numbered(H, N)) = N - H
  BY <1>3, <1>4 DEF Numbered
<1>9. ASSUME NEW k \in 1..N - H PROVE Numbered(H, N)[k] = (s \o t)[k]
  <2>1. Numbered(H, N)[k] = Wrap(H + k - 1)
    BY DEF Numbered
  <2>2. CASE k <= T - H
    <3>1. k \in 1..T - H /\ (s \o t)[k] = s[k]
      BY <1>5, <1>6, <2>2
    <3> QED BY <1>3, <2>1, <3>1
  <2>3. CASE k > T - H
    <3>1. k - (T - H) \in 1..N - T /\ (s \o t)[k] = t[k - (T - H)]
      BY <1>5, <1>6, <2>3
    <3>2. T + (k - (T - H)) - 1 = H + k - 1
      OBVIOUS
    <3> QED BY <1>2, <2>1, <3>1, <3>2
  <2>4. k <= T - H \/ k > T - H
    BY <1>3
  <2> QED BY <2>2, <2>3, <2>4
<1>10. Numbered(H, N) = s \o t
  BY <1>7, <1>8, <1>9, SeqEqual
<1> QED BY <1>10 DEF s, t

\* The line without its oldest.
LEMMA RemoveFirst ==
  ASSUME NEW H \in Int, NEW T \in Int, H < T
  PROVE  /\ Numbered(H, T) # <<>> /\ Head(Numbered(H, T)) = Wrap(H)
         /\ Tail(Numbered(H, T)) = Numbered(H + 1, T)
<1> DEFINE s == Numbered(H, T)
<1>1. \A i \in Int : Wrap(i) \in Int
  BY Wrapped
<1>2. s \in Seq(Int) /\ Len(s) = T - H /\ s[1] = Wrap(H)
  <2>1. H + 1 - 1 = H /\ 1 \in 1..T - H
    OBVIOUS
  <2> QED BY <1>1, <2>1 DEF Numbered
<1>3. s # <<>> /\ Head(s) = Wrap(H)
  BY <1>2
<1>4. Tail(s) \in Seq(Int) /\ Len(Tail(s)) = T - (H + 1)
      /\ \A k \in 1..T - (H + 1) : Tail(s)[k] = s[k + 1]
  BY <1>2
<1>5. Numbered(H + 1, T) \in Seq(Int) /\ Len(Numbered(H + 1, T)) = T - (H + 1)
  BY <1>1 DEF Numbered
<1>6. ASSUME NEW k \in 1..T - (H + 1) PROVE Numbered(H + 1, T)[k] = s[k + 1]
  <2>1. k + 1 \in 1..T - H /\ H + (k + 1) - 1 = (H + 1) + k - 1
    OBVIOUS
  <2> QED BY <2>1 DEF Numbered
<1> HIDE DEF s
<1>7. Tail(s) = Numbered(H + 1, T)
  BY <1>4, <1>5, <1>6, SeqEqual
<1> QED BY <1>3, <1>7 DEF s

\* The same in the next state.
AllSeen ==
  \A H \in Int, T \in Int, cl \in [Consumers -> Int] : Some(H, T, cl) => SeenAs(H, T, cl)

\* Line and hand are so in this state, in the next one, and there for any numbers.
LEMMA SeenAlways == AllSeen
BY SomeSeen DEF AllSeen

\* After a step too.
LEMMA SeenAfter == AllSeen'
BY SeenAlways, PTL

\* So they are read there like here.
LEMMA SeenNext ==
  ASSUME NEW H \in Int, NEW T \in Int, NEW cl \in [Consumers -> Int], Some(H, T, cl)'
  PROVE  SeenAs(H, T, cl)'
BY SeenAfter DEF AllSeen

\* A batch comes in.
Come == \E n \in 0..MaxBulk : F!ComeIn(n)

\* Publish lets the batch come in.
LEMMA PublishComes ==
  ASSUME NEW H \in Int, NEW T \in Int, NEW N \in Int, NEW cl \in [Consumers -> Int],
         SeenAs(H, T, cl), SeenAs(H, N, cl)', T <= N, N <= T + MaxBulk, Publish
  PROVE  Come
<1>1. N - T \in 0..MaxBulk
  BY Sizes
<1>2. /\ 0 <= H /\ H <= T /\ tailIndex = Wrap(T) /\ QueueLine = Numbered(H, T)
      /\ QueueHand = Held(cl) /\ tailIndex' = Wrap(N) /\ QueueLine' = Numbered(H, N)
      /\ QueueHand' = Held(cl)'
  BY DEF SeenAs, Numbered
<1>3. QueueHand' = QueueHand
  <2>1. UNCHANGED <<cpc, reg>>
    BY DEF Publish, consumerVars
  <2>2. \A c \in Consumers : Holding(c)' <=> Holding(c)
    BY <2>1 DEF Holding, Claimed, Taken
  <2>3. Held(cl)' = Held(cl)
    BY <2>2 DEF Held
  <2> QED BY <1>2, <2>3
<1>4. tailIndex' = (tailIndex + (N - T)) % Modulus
  <2>1. N - T \in Int /\ T + (N - T) = N
    OBVIOUS
  <2>2. Wrap(Wrap(T) + (N - T)) = Wrap(T + (N - T))
    BY <2>1, WrapSum
  <2>3. Wrap(tailIndex + (N - T)) = (tailIndex + (N - T)) % Modulus
    BY DEF Wrap
  <2> QED BY <1>2, <2>1, <2>2, <2>3
<1>5. QueueLine' = QueueLine \o [k \in 1..N - T |-> (tailIndex + k - 1) % Modulus]
  <2>1. Numbered(H, N) = Numbered(H, T) \o [k \in 1..N - T |-> (Wrap(T) + k - 1) % Modulus]
    BY <1>2, AddBatch
  <2> QED BY <1>2, <2>1
<1>6. F!ComeIn(N - T)
  BY <1>3, <1>4, <1>5 DEF F!ComeIn, QueueLine, QueueHand
<1> QED BY <1>1, <1>6 DEF Come

\* Check claims the oldest.
LEMMA CheckClaims ==
  ASSUME NEW H \in Int, NEW T \in Int, NEW cl \in [Consumers -> Int], H < T, NEW c \in Consumers,
         SeenAs(H, T, cl), SeenAs(H + 1, T, [cl EXCEPT ![c] = H])', Check(c), Locals
  PROVE  F!Claim(c)
<1>1. PICK cl2 \in [Consumers -> Int] : cl2 = [cl EXCEPT ![c] = H]
  OBVIOUS
<1>2. /\ tailIndex = Wrap(T) /\ tailIndex' = Wrap(T) /\ QueueLine = Numbered(H, T)
      /\ QueueHand = Held(cl) /\ QueueLine' = Numbered(H + 1, T) /\ QueueHand' = Held(cl2)'
  BY <1>1 DEF SeenAs, Numbered
<1>3. /\ Numbered(H, T) # <<>> /\ Head(Numbered(H, T)) = Wrap(H)
      /\ Tail(Numbered(H, T)) = Numbered(H + 1, T)
  BY RemoveFirst
<1>4. cpc[c] = "check" /\ cpc'[c] = "index" /\ Alone(c)
  <2>1. PICK r : Move(c, "index", r)
    BY DEF Check
  <2> QED BY <2>1, Moved DEF Check, Alone, Labels
<1>5. ~Holding(c) /\ Holding(c)' /\ \A d \in Consumers : d # c => (Holding(d)' <=> Holding(d))
  BY <1>4 DEF Holding, Claimed, Taken, Alone
<1>6. QueueHand[c] = null
  BY <1>2, <1>5 DEF Held
<1>7. QueueHand' = [QueueHand EXCEPT ![c] = Wrap(H)]
  <2>1. QueueHand = [d \in Consumers |-> IF Holding(d) THEN Wrap(cl[d]) ELSE null]
    BY <1>2 DEF Held
  <2>2. QueueHand' = [d \in Consumers |-> IF Holding(d)' THEN Wrap(cl2[d]) ELSE null]
    BY <1>2 DEF Held
  <2>3. cl2[c] = H /\ \A d \in Consumers : d # c => cl2[d] = cl[d]
    BY <1>1
  <2> QED BY <1>5, <2>1, <2>2, <2>3
<1>8. /\ QueueLine # <<>> /\ QueueHand[c] = null
      /\ QueueHand' = [QueueHand EXCEPT ![c] = Head(QueueLine)]
      /\ QueueLine' = Tail(QueueLine)
      /\ UNCHANGED tailIndex
  BY <1>2, <1>3, <1>6, <1>7
<1> QED BY <1>8 DEF F!Claim, QueueLine, QueueHand

\* No other step of a worker changes the line, and it hands over what it returns with.
LEMMA OthersHand ==
  ASSUME NEW H \in Int, NEW T \in Int, NEW cl \in [Consumers -> Int], NEW c \in Consumers,
         SeenAs(H, T, cl), SeenAs(H, T, cl)', Dequeuing(c), ~Check(c), Locals
  PROVE  F!HandOver(c) \/ UNCHANGED <<tailIndex, QueueLine, QueueHand>>
<1>1. /\ tailIndex = Wrap(T) /\ tailIndex' = Wrap(T) /\ QueueLine = Numbered(H, T)
      /\ QueueHand = Held(cl) /\ QueueLine' = Numbered(H, T) /\ QueueHand' = Held(cl)'
  BY DEF SeenAs, Numbered
<1>2. /\ \A d \in Consumers : d # c => (Holding(d)' <=> Holding(d))
      /\ Holding(c)' => Holding(c)
  <2>1. \E label \in Labels :
          (\E r : Move(c, label, r)) /\ (label \in AtWork \cup {"release"} => Holding(c))
    BY DEF Dequeuing, TryDequeue, Optimistic, Commit, CheckFails, Overcommit, LoadIndex,
           LoadIndexTail, LoadEntry, TakeElement, SetEmpty, Unlink, Release,
           Labels, Holding, Claimed, Taken, AtWork
  <2>2. PICK label \in Labels :
          (\E r : Move(c, label, r)) /\ (label \in AtWork \cup {"release"} => Holding(c))
    BY <2>1
  <2>3. PICK r : Move(c, label, r)
    BY <2>2
  <2>4. cpc'[c] = label /\ Alone(c)
    BY <2>3, Moved DEF Alone
  <2> QED BY <2>2, <2>4 DEF Alone, Holding, Claimed, Taken, AtWork
<1>3. QueueHand = [d \in Consumers |-> IF Holding(d) THEN Wrap(cl[d]) ELSE null]
  BY <1>1 DEF Held
<1>4. QueueHand' = [d \in Consumers |-> IF Holding(d)' THEN Wrap(cl[d]) ELSE null]
  BY <1>1 DEF Held
<1>5. CASE Holding(c)' <=> Holding(c)
  <2>1. \A d \in Consumers : Holding(d)' <=> Holding(d)
    BY <1>2, <1>5
  <2>2. QueueHand' = QueueHand
    BY <1>3, <1>4, <2>1
  <2> QED BY <1>1, <2>2
<1>6. CASE Holding(c) /\ ~Holding(c)'
  <2>1. QueueHand[c] = Wrap(cl[c])
    BY <1>3, <1>6
  <2>2. Wrap(cl[c]) # null
    <3>1. Wrap(cl[c]) \in 0..Modulus - 1
      BY Wrapped
    <3> QED BY <3>1, QueueAssumption
  <2>3. QueueHand' = [QueueHand EXCEPT ![c] = null]
    BY <1>2, <1>3, <1>4, <1>6
  <2>4. QueueHand[c] # null /\ UNCHANGED <<tailIndex, QueueLine>>
    BY <1>1, <2>1, <2>2
  <2> QED BY <2>3, <2>4 DEF F!HandOver, QueueLine, QueueHand
<1> QED BY <1>2, <1>5, <1>6

\* Every step is one of Fifo's, or none.
LEMMA FifoStep ==
  BlocksInv /\ NotOvertaken' /\ [QueueNext]_queueVars =>
    [F!FifoNext]_<<tailIndex, QueueLine, QueueHand>>
<1> SUFFICES ASSUME BlocksInv, NotOvertaken', [QueueNext]_queueVars
             PROVE  F!FifoNext \/ UNCHANGED <<tailIndex, QueueLine, QueueHand>>
  OBVIOUS
<1>1. PICK H \in Int, T \in Int, cl \in [Consumers -> Int] :
        Locals /\ Counted(H, T) /\ Some(H, T, cl)
  BY DEF BlocksInv
<1>2. SeenAs(H, T, cl)
  BY <1>1, SomeSeen
<1>3. QueueStep(H, T, cl)
  BY <1>1, StepsKept
<1>4. CASE /\ UNCHANGED queueVars \/ Enqueuing \/ \E count \in 0..MaxBulk : EnqueueBulk(count)
           /\ Some(H, T, cl)'
  <2>1. SeenAs(H, T, cl)'
    BY <1>1, <1>4, SeenNext
  <2>2. UNCHANGED <<cpc, reg>>
    <3>1. CASE UNCHANGED queueVars
      BY <3>1 DEF queueVars, consumerVars
    <3>2. CASE Enqueuing \/ \E count \in 0..MaxBulk : EnqueueBulk(count)
      BY <3>2, ProducerFrame DEF consumerVars
    <3> QED BY <1>4, <3>1, <3>2
  <2>3. \A c \in Consumers : Holding(c)' <=> Holding(c)
    BY <2>2 DEF Holding, Claimed, Taken
  <2>4. Held(cl)' = Held(cl)
    BY <2>3 DEF Held
  <2> QED BY <1>2, <2>1, <2>4 DEF SeenAs, Numbered
<1>5. ASSUME Publish, NEW N \in Int, T <= N, N <= T + MaxBulk, Some(H, N, cl)' PROVE F!FifoNext
  <2>1. SeenAs(H, N, cl)'
    BY <1>1, <1>5, SeenNext
  <2>2. Come
    BY <1>2, <1>5, <2>1, PublishComes
  <2> QED BY <2>2 DEF Come, F!FifoNext
<1>6. ASSUME NEW c \in Consumers, Check(c), H < T, Some(H + 1, T, [cl EXCEPT ![c] = H])'
      PROVE  F!FifoNext
  <2>1. PICK cl2 \in [Consumers -> Int] : cl2 = [cl EXCEPT ![c] = H]
    OBVIOUS
  <2>2. H + 1 \in Int /\ Some(H + 1, T, cl2)'
    BY <1>6, <2>1
  <2>3. SeenAs(H + 1, T, cl2)'
    BY <2>2, SeenNext
  <2>4. F!Claim(c)
    BY <1>1, <1>2, <1>6, <2>1, <2>3, CheckClaims
  <2> QED BY <2>4 DEF F!FifoNext
<1>7. ASSUME NEW c \in Consumers, Dequeuing(c), ~Check(c), Some(H, T, cl)'
      PROVE  F!FifoNext \/ UNCHANGED <<tailIndex, QueueLine, QueueHand>>
  <2>1. SeenAs(H, T, cl)'
    BY <1>1, <1>7, SeenNext
  <2>2. F!HandOver(c) \/ UNCHANGED <<tailIndex, QueueLine, QueueHand>>
    BY <1>1, <1>2, <1>7, <2>1, OthersHand
  <2> QED BY <2>2 DEF F!FifoNext
<1> QED BY <1>3, <1>4, <1>5, <1>6, <1>7 DEF QueueStep

\* The queue is empty at first.
LEMMA FifoInitial == QueueInit /\ NotOvertaken => F!FifoInit
<1> SUFFICES ASSUME QueueInit, NotOvertaken PROVE F!FifoInit
  OBVIOUS
<1>1. PICK cl \in [Consumers -> Int] : Some(0, 0, cl)
  BY InitialSome
<1>2. SeenAs(0, 0, cl)
  <2>1. 0 \in Int
    OBVIOUS
  <2> QED BY <1>1, <2>1, SomeSeen
<1>3. QueueLine = <<>>
  BY <1>2 DEF SeenAs, Numbered
<1>4. QueueHand = [c \in Consumers |-> null]
  <2>1. \A c \in Consumers : ~Holding(c)
    BY DEF QueueInit, Holding, Claimed, Taken
  <2> QED BY <1>2, <2>1 DEF SeenAs, Held
<1>5. tailIndex = 0
  BY DEF QueueInit, ImplicitProducer, ProducerBase
<1> QED BY <1>3, <1>4, <1>5 DEF F!FifoInit, QueueLine, QueueHand

\* FirstInFirstOut: with its optimistic claims, its search through stale indices
\* and its recycling of blocks, the queue implements Fifo: tickets leave in the
\* order they came in, each to one worker.
THEOREM QueueIsFirstInFirstOut == QueueSpec /\ []NotOvertaken => FirstInFirstOut
<1>1. /\ QueueLine = [k \in 1..Wrap(tailIndex - headIndex) |-> Found(Wrap(headIndex + k - 1))]
      /\ QueueHand = [c \in Consumers |->
                        IF Claimed(c) THEN Found(reg[c].index)
                        ELSE IF Taken(c) THEN reg[c].element ELSE null]
  BY DEF QueueLine, QueueHand
<1>2. BlocksInv /\ NotOvertaken' /\ [QueueNext]_queueVars =>
    [F!FifoNext]_<<tailIndex, QueueLine, QueueHand>>
  BY FifoStep
<1> QED BY FifoInitial, <1>2, BlocksAlways, PTL DEF QueueSpec, FirstInFirstOut, F!FifoSpec, QueueLine, QueueHand
=============================================================================
