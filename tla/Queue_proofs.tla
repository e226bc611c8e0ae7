----------------------------- MODULE Queue_proofs -----------------------------
(***************************************************************************)
(* The counters of try_dequeue (App/concurrentqueue.h:2332-2396) for any   *)
(* number of workers and any width of index_t: no claim is forgotten, and  *)
(* no element is claimed that is not there.                                *)
(***************************************************************************)
EXTENDS Queue, FiniteSetTheorems, TLAPS

(* Arithmetic of index_t *)

\* a and b differ by a multiple of n.
Congruent(a, b, n) == \E q \in Int : a = b + n * q

LEMMA Divide ==
  ASSUME NEW n \in Nat \ {0}, NEW a \in Int
  PROVE  /\ a \div n \in Int /\ a % n \in 0..n - 1
         /\ a = n * (a \div n) + (a % n)
<1> DEFINE q == a \div n
           r == a % n
<1>1. q \in Int
  OBVIOUS
<1>2. r \in 0..n - 1
  BY n \in Nat /\ n # 0
<1>3. r = a - n * q
  BY Z3
<1>4. n * q \in Int
  BY <1>1
<1> HIDE DEF q, r
<1>5. a = n * q + r
  BY <1>2, <1>3, <1>4
<1> QED BY <1>1, <1>2, <1>5 DEF q, r

LEMMA Multiply ==
  ASSUME NEW n \in Nat \ {0}, NEW q \in Int, NEW r \in 0..n - 1
  PROVE  (n * q + r) % n = r /\ (n * q + r) \div n = q
<1>1. (n * q + r) % n = r
  OBVIOUS
<1>2. (n * q + r) \div n = q
  BY Z3
<1> QED BY <1>1, <1>2

LEMMA CongruentSelf ==
  ASSUME NEW n \in Int, NEW a \in Int
  PROVE  Congruent(a, a, n)
<1>1. a = a + n * 0 /\ 0 \in Int
  OBVIOUS
<1> QED BY <1>1 DEF Congruent

LEMMA CongruentBack ==
  ASSUME NEW n \in Int, NEW a \in Int, NEW b \in Int, Congruent(a, b, n)
  PROVE  Congruent(b, a, n)
<1>1. PICK q \in Int : a = b + n * q
  BY DEF Congruent
<1>2. b = a + n * (-q) /\ -q \in Int
  BY <1>1
<1> QED BY <1>2 DEF Congruent

LEMMA CongruentSum ==
  ASSUME NEW n \in Int, NEW a \in Int, NEW b \in Int, NEW c \in Int, NEW d \in Int,
         Congruent(a, b, n), Congruent(c, d, n)
  PROVE  Congruent(a + c, b + d, n) /\ Congruent(a - c, b - d, n)
<1>1. PICK q \in Int : a = b + n * q
  BY DEF Congruent
<1>2. PICK r \in Int : c = d + n * r
  BY DEF Congruent
<1>3. a + c = b + d + n * (q + r) /\ q + r \in Int
  BY <1>1, <1>2
<1>4. a - c = b - d + n * (q - r) /\ q - r \in Int
  BY <1>1, <1>2
<1> QED BY <1>3, <1>4 DEF Congruent

LEMMA CongruentTrans ==
  ASSUME NEW n \in Int, NEW a \in Int, NEW b \in Int, NEW c \in Int,
         Congruent(a, b, n), Congruent(b, c, n)
  PROVE  Congruent(a, c, n)
<1>1. PICK q \in Int : a = b + n * q
  BY DEF Congruent
<1>2. PICK r \in Int : b = c + n * r
  BY DEF Congruent
<1>3. a = c + n * (q + r) /\ q + r \in Int
  BY <1>1, <1>2
<1> QED BY <1>3 DEF Congruent

LEMMA CongruentNear ==
  ASSUME NEW n \in Nat, NEW a \in Int, NEW b \in Int,
         Congruent(a, b, n), a - b < n, b - a < n
  PROVE  a = b
<1>1. PICK q \in Int : a = b + n * q
  BY DEF Congruent
<1>2. CASE q >= 1
  <2>1. n * q >= n
    BY <1>2
  <2>2. n * q \in Int
    OBVIOUS
  <2> QED BY <1>1, <2>1, <2>2
<1>3. CASE q <= -1
  <2>1. n * q <= -n
    BY <1>3
  <2>2. n * q \in Int
    OBVIOUS
  <2> QED BY <1>1, <2>1, <2>2
<1>4. CASE q = 0
  BY <1>1, <1>4
<1> QED BY <1>2, <1>3, <1>4

LEMMA CongruentFactor ==
  ASSUME NEW n \in Int, NEW k \in Int, NEW a \in Int, NEW b \in Int, Congruent(a, b, k * n)
  PROVE  Congruent(a, b, n)
<1>1. PICK q \in Int : a = b + (k * n) * q
  BY DEF Congruent
<1>2. (k * n) * q = n * (k * q) /\ k * q \in Int
  OBVIOUS
<1> QED BY <1>1, <1>2 DEF Congruent

LEMMA CongruentMod ==
  ASSUME NEW n \in Nat \ {0}, NEW a \in Int, NEW b \in Int
  PROVE  /\ Congruent(a, a % n, n)
         /\ Congruent(a, b, n) <=> a % n = b % n
<1> DEFINE q == a \div n
           p == b \div n
           r == a % n
           s == b % n
<1>1. q \in Int /\ r \in 0..n - 1 /\ a = n * q + r
  BY Divide
<1>2. p \in Int /\ s \in 0..n - 1 /\ b = n * p + s
  BY Divide
<1> HIDE DEF q, p, r, s
<1>3. a = r + n * q /\ b = s + n * p
  BY <1>1, <1>2
<1>4. Congruent(a, r, n) /\ Congruent(b, s, n)
  BY <1>1, <1>2, <1>3 DEF Congruent
<1>5. ASSUME Congruent(a, b, n) PROVE r = s
  <2>1. Congruent(r, b, n)
    BY <1>1, <1>4, <1>5, CongruentBack, CongruentTrans
  <2>2. Congruent(r, s, n)
    BY <1>1, <1>2, <1>4, <2>1, CongruentTrans
  <2> QED BY <1>1, <1>2, <2>2, CongruentNear
<1>6. ASSUME r = s PROVE Congruent(a, b, n)
  <2>1. Congruent(r, b, n)
    BY <1>1, <1>2, <1>4, <1>6, CongruentBack
  <2> QED BY <1>1, <1>4, <2>1, CongruentTrans
<1> QED BY <1>4, <1>5, <1>6 DEF r, s

HalfRange == Modulus - Modulus \div 2

LEMMA Sizes ==
  /\ Modulus \in Nat \ {0} /\ BLOCK_SIZE \in Nat /\ BLOCK_SIZE >= 2
  /\ MaxEntries \in Nat \ {0} /\ MaxBulk \in Nat /\ MaxBulk + BLOCK_SIZE <= Modulus
  /\ Modulus \div 2 \in Nat /\ HalfRange \in Nat
  /\ Modulus \div 2 <= HalfRange /\ HalfRange <= Modulus \div 2 + 1
  /\ 2 * BLOCK_SIZE < Modulus /\ BLOCK_SIZE < HalfRange
  /\ MaxEntries * BLOCK_SIZE < HalfRange /\ MaxEntries * BLOCK_SIZE <= Modulus \div 2
<1>1. /\ Modulus \in Nat \ {0} /\ BLOCK_SIZE \in Nat /\ BLOCK_SIZE >= 2
      /\ MaxEntries \in Nat \ {0} /\ MaxBulk \in Nat /\ MaxBulk + BLOCK_SIZE <= Modulus
      /\ 2 * (MaxEntries * BLOCK_SIZE) < Modulus
  BY QueueAssumption
<1>2. /\ Modulus \div 2 \in Nat /\ HalfRange \in Nat
      /\ 2 * (Modulus \div 2) <= Modulus /\ Modulus <= 2 * (Modulus \div 2) + 1
  BY <1>1 DEF HalfRange
<1>3. MaxEntries * BLOCK_SIZE \in Nat /\ MaxEntries * BLOCK_SIZE >= BLOCK_SIZE
  BY <1>1
<1> QED BY <1>1, <1>2, <1>3 DEF HalfRange

LEMMA Wrapped ==
  ASSUME NEW a \in Int
  PROVE  /\ Wrap(a) \in 0..Modulus - 1 /\ Wrap(a) \in Int
         /\ Congruent(a, Wrap(a), Modulus) /\ Congruent(Wrap(a), a, Modulus)
<1>1. Modulus \in Nat \ {0}
  BY QueueAssumption
<1>2. a % Modulus \in 0..Modulus - 1
  BY <1>1, Divide
<1>3. Congruent(a, a % Modulus, Modulus)
  BY <1>1, CongruentMod
<1>4. Wrap(a) \in 0..Modulus - 1 /\ Wrap(a) \in Int /\ Congruent(a, Wrap(a), Modulus)
  BY <1>1, <1>2, <1>3 DEF Wrap
<1> QED BY <1>1, <1>4, CongruentBack

LEMMA SameWrap ==
  ASSUME NEW a \in Int, NEW b \in Int
  PROVE  Congruent(a, b, Modulus) <=> Wrap(a) = Wrap(b)
BY QueueAssumption, CongruentMod DEF Wrap

\* Adding or subtracting wrapped numbers.
LEMMA WrapSum ==
  ASSUME NEW a \in Int, NEW b \in Int
  PROVE  /\ Wrap(Wrap(a) + b) = Wrap(a + b) /\ Wrap(a + Wrap(b)) = Wrap(a + b)
         /\ Wrap(Wrap(a) - b) = Wrap(a - b) /\ Wrap(a - Wrap(b)) = Wrap(a - b)
         /\ Wrap(Wrap(a) - Wrap(b)) = Wrap(a - b)
<1>1. Modulus \in Int
  BY QueueAssumption
<1>2. /\ Wrap(a) \in Int /\ Congruent(Wrap(a), a, Modulus)
      /\ Wrap(b) \in Int /\ Congruent(Wrap(b), b, Modulus)
  BY Wrapped
<1>3. Congruent(a, a, Modulus) /\ Congruent(b, b, Modulus)
  BY <1>1, CongruentSelf
<1>4. Congruent(Wrap(a) + b, a + b, Modulus) /\ Congruent(Wrap(a) - b, a - b, Modulus)
  BY <1>1, <1>2, <1>3, CongruentSum
<1>5. Congruent(a + Wrap(b), a + b, Modulus) /\ Congruent(a - Wrap(b), a - b, Modulus)
  BY <1>1, <1>2, <1>3, CongruentSum
<1>6. Congruent(Wrap(a) - Wrap(b), a - b, Modulus)
  BY <1>1, <1>2, CongruentSum
<1>7. /\ Wrap(a) + b \in Int /\ a + b \in Int /\ Wrap(a) - b \in Int /\ a - b \in Int
      /\ a + Wrap(b) \in Int /\ a - Wrap(b) \in Int /\ Wrap(a) - Wrap(b) \in Int
  BY <1>2
<1> QED BY <1>4, <1>5, <1>6, <1>7, SameWrap

\* A number that has the size of an index is its own wrapping.
LEMMA WrapSmall ==
  ASSUME NEW a \in 0..Modulus - 1
  PROVE  Wrap(a) = a
<1>1. Modulus \in Nat \ {0}
  BY QueueAssumption
<1>2. a \in Int
  BY <1>1
<1>3. Wrap(a) \in 0..Modulus - 1 /\ Wrap(a) \in Int /\ Congruent(a, Wrap(a), Modulus)
  BY <1>2, Wrapped
<1>4. a - Wrap(a) < Modulus /\ Wrap(a) - a < Modulus
  BY <1>1, <1>3
<1> QED BY <1>1, <1>2, <1>3, <1>4, CongruentNear

\* circular_less_than compares two counters that are less than half the range
\* of index_t apart.
LEMMA Compare ==
  ASSUME NEW a \in Int, NEW b \in Int, b - a < HalfRange, a - b <= Modulus \div 2
  PROVE  circular_less_than(a, b) <=> a < b
<1> DEFINE d == a - b
<1>1. d \in Int /\ -HalfRange < d /\ d <= Modulus \div 2
  BY Sizes
<1>2. CASE d < 0
  <2>1. d + Modulus \in 0..Modulus - 1 /\ d + Modulus > Modulus \div 2
    BY <1>1, <1>2, Sizes DEF HalfRange
  <2>2. Wrap(d + Modulus) = d + Modulus
    BY <2>1, WrapSmall
  <2>3. d + Modulus = d + Modulus * 1 /\ d + Modulus \in Int /\ Modulus \in Int
    BY <1>1, Sizes
  <2>4. Wrap(d + Modulus) = Wrap(d)
    <3> HIDE DEF d
    <3>1. Congruent(d + Modulus, d, Modulus)
      BY <2>3, 1 \in Int DEF Congruent
    <3> QED BY <1>1, <2>3, <3>1, SameWrap
  <2> QED BY <1>2, <2>1, <2>2, <2>4 DEF circular_less_than
<1>3. CASE d >= 0
  <2>1. d \in 0..Modulus - 1
    BY <1>1, <1>3, Sizes
  <2>2. Wrap(d) = d
    BY <2>1, WrapSmall
  <2> QED BY <1>1, <1>3, <2>2, Sizes DEF circular_less_than
<1> HIDE DEF d
<1> QED BY <1>1, <1>2, <1>3

\* It sees the counters only modulo Modulus.
LEMMA CompareWrapped ==
  ASSUME NEW a \in Int, NEW b \in Int
  PROVE  /\ circular_less_than(Wrap(a), Wrap(b)) <=> circular_less_than(a, b)
         /\ circular_less_than(Wrap(a), b) <=> circular_less_than(a, b)
         /\ circular_less_than(a, Wrap(b)) <=> circular_less_than(a, b)
BY WrapSum DEF circular_less_than

LEMMA BlockDivides == \E k \in Int : Modulus = BLOCK_SIZE * k
<1> DEFINE k == Modulus \div BLOCK_SIZE
<1>1. Modulus \in Int /\ BLOCK_SIZE \in Nat \ {0} /\ Modulus % BLOCK_SIZE = 0
  BY QueueAssumption
<1>2. k \in Int /\ Modulus = BLOCK_SIZE * k + (Modulus % BLOCK_SIZE)
  BY <1>1, Divide
<1> HIDE DEF k
<1>3. BLOCK_SIZE * k \in Int
  BY <1>1, <1>2
<1>4. Modulus = BLOCK_SIZE * k
  BY <1>1, <1>2, <1>3
<1> QED BY <1>2, <1>4

NumberOf(i) == i \div BLOCK_SIZE

\* An element's block and its place there.
LEMMA InBlock ==
  ASSUME NEW i \in Int
  PROVE  /\ NumberOf(i) \in Int /\ Slot(i) \in 0..BLOCK_SIZE - 1
         /\ i = BLOCK_SIZE * NumberOf(i) + Slot(i)
         /\ BLOCK_SIZE * NumberOf(i) \in Int
<1>1. BLOCK_SIZE \in Nat \ {0}
  BY QueueAssumption
<1>2. /\ NumberOf(i) \in Int /\ Slot(i) \in 0..BLOCK_SIZE - 1
      /\ i = BLOCK_SIZE * NumberOf(i) + Slot(i)
  BY <1>1, Divide DEF NumberOf, Slot
<1> QED BY <1>1, <1>2

LEMMA BlockOf ==
  ASSUME NEW n \in Int, NEW s \in 0..BLOCK_SIZE - 1
  PROVE  NumberOf(BLOCK_SIZE * n + s) = n /\ Slot(BLOCK_SIZE * n + s) = s
<1>1. BLOCK_SIZE \in Nat \ {0}
  BY QueueAssumption
<1> QED BY <1>1, Multiply DEF NumberOf, Slot

\* The wrap-around is at the end of a block.
LEMMA WrapBlock ==
  ASSUME NEW n \in Int, NEW s \in 0..BLOCK_SIZE - 1
  PROVE  /\ Wrap(BLOCK_SIZE * n + s) = Wrap(BLOCK_SIZE * n) + s
         /\ Slot(Wrap(BLOCK_SIZE * n + s)) = s
         /\ Base(BLOCK_SIZE * n + s) = Wrap(BLOCK_SIZE * n)
         /\ Wrap(BLOCK_SIZE * n) # INVALID_BLOCK_BASE
<1> DEFINE a == BLOCK_SIZE * n
           w == Wrap(a)
<1>1. /\ BLOCK_SIZE \in Nat \ {0, 1} /\ Modulus \in Nat \ {0} /\ s \in Nat /\ s < BLOCK_SIZE
      /\ a \in Int
  BY QueueAssumption
<1>2. w \in 0..Modulus - 1 /\ Congruent(w, a, Modulus)
  BY <1>1, Wrapped
<1>3. PICK k \in Int : Modulus = BLOCK_SIZE * k
  BY BlockDivides
<1>4. PICK q \in Int : w = a + Modulus * q
  BY <1>2 DEF Congruent
<1> DEFINE j == n + k * q
<1>5. j \in Int /\ w = BLOCK_SIZE * j
  <2>1. Modulus * q = BLOCK_SIZE * (k * q) /\ k * q \in Int
    BY <1>1, <1>3
  <2>2. BLOCK_SIZE * (n + k * q) = BLOCK_SIZE * n + BLOCK_SIZE * (k * q)
    BY <1>1, <2>1
  <2> QED BY <1>4, <2>1, <2>2
<1> HIDE DEF a, w, j
<1>6. w + s < Modulus
  <2>1. BLOCK_SIZE * j < BLOCK_SIZE * k
    BY <1>1, <1>2, <1>3, <1>5
  <2>2. j < k
    BY <1>1, <1>3, <1>5, <2>1
  <2>3. BLOCK_SIZE * (j + 1) <= BLOCK_SIZE * k /\ BLOCK_SIZE * (j + 1) = BLOCK_SIZE * j + BLOCK_SIZE
    BY <1>1, <1>3, <1>5, <2>2
  <2> QED BY <1>1, <1>2, <1>3, <1>5, <2>3
<1>7. Wrap(a + s) = w + s
  <2>1. Wrap(w + s) = w + s
    BY <1>1, <1>2, <1>6, WrapSmall
  <2> QED BY <1>1, <2>1, WrapSum DEF w
<1>8. NumberOf(w + s) = j /\ Slot(w + s) = s
  BY <1>5, BlockOf
<1>9. Base(a + s) = w
  BY <1>1, <1>2, <1>5, <1>7, <1>8 DEF Base, NumberOf
<1>10. w # 1
  <2>1. Slot(w) = 0
    <3>1. 0 \in 0..BLOCK_SIZE - 1 /\ BLOCK_SIZE * j + 0 = w
      BY <1>1, <1>2, <1>5
    <3> QED BY <1>5, <3>1, BlockOf
  <2>2. Slot(1) = 1
    <3>1. 1 \in 0..BLOCK_SIZE - 1 /\ BLOCK_SIZE * 0 + 1 = 1
      BY <1>1
    <3> QED BY <3>1, BlockOf
  <2> QED BY <2>1, <2>2
<1> QED BY <1>7, <1>8, <1>9, <1>10 DEF a, w, INVALID_BLOCK_BASE

-----------------------------------------------------------------------------
(* Every claim is counted *)

Labels ==
  {"idle", "optimistic", "commit", "check", "overcommit", "index", "index_tail", "entry",
   "element", "empty", "unlink", "release"}

LEMMA UndecidedFinite ==
  /\ IsFiniteSet(Undecided) /\ Cardinality(Undecided) \in Nat
  /\ Cardinality(Undecided) <= Cardinality(Consumers) /\ Cardinality(Consumers) \in Nat
BY QueueAssumption, FS_Subset, FS_CardinalityType DEF Undecided

\* The premise of all that follows: no call is overtaken by half the range of
\* index_t of claims that fail, 2^63 in the code, between its read of
\* dequeueOvercommit and its last test.

\* What is needed beside the property: the counters are numbers.
ClaimsInv ==
  /\ {headIndex, dequeueOptimisticCount, dequeueOvercommit} \subseteq Int
  /\ cpc \in [Consumers -> Labels]
  /\ ClaimsAddUp

\* A consumer that goes from a step outside of a claim to another, or from one
\* step of it to the next, leaves the set of claims as it is.
LEMMA Elsewhere ==
  ASSUME cpc \in [Consumers -> Labels],
         NEW c \in Consumers, NEW label \in Labels,
         cpc[c] \in {"check", "overcommit"} <=> label \in {"check", "overcommit"},
         cpc' = [cpc EXCEPT ![c] = label]
  PROVE  Undecided' = Undecided
BY DEF Undecided

LEMMA Claiming ==
  ASSUME cpc \in [Consumers -> Labels],
         NEW c \in Consumers, cpc[c] = "commit",
         cpc' = [cpc EXCEPT ![c] = "check"]
  PROVE  Cardinality(Undecided') = Cardinality(Undecided) + 1
<1>1. Undecided' = Undecided \cup {c} /\ c \notin Undecided
  BY DEF Undecided
<1> QED BY <1>1, UndecidedFinite, FS_AddElement

LEMMA Deciding ==
  ASSUME cpc \in [Consumers -> Labels],
         NEW c \in Consumers, cpc[c] \in {"check", "overcommit"},
         NEW label \in {"index", "idle"},
         cpc' = [cpc EXCEPT ![c] = label]
  PROVE  Cardinality(Undecided') = Cardinality(Undecided) - 1
<1>1. Undecided' = Undecided \ {c} /\ c \in Undecided
  BY DEF Undecided
<1> QED BY <1>1, UndecidedFinite, FS_RemoveElement

-----------------------------------------------------------------------------
(* Steps *)

\* A step that raises no counter and decides no claim.
LEMMA CountersStay ==
  ASSUME ClaimsInv, cpc' \in [Consumers -> Labels], Undecided' = Undecided,
         UNCHANGED <<headIndex, dequeueOptimisticCount, dequeueOvercommit>>
  PROVE  ClaimsInv'
BY DEF ClaimsInv, ClaimsAddUp

\* The steps of enqueue_bulk.
LEMMA EnqueueKeepsClaims ==
  ASSUME ClaimsInv,
         UNCHANGED <<headIndex, dequeueOptimisticCount, dequeueOvercommit, consumerVars>>
  PROVE  ClaimsInv'
BY DEF ClaimsInv, ClaimsAddUp, Undecided, consumerVars

LEMMA CommitClaims ==
  ASSUME ClaimsInv, NEW c \in Consumers, Commit(c)
  PROVE  ClaimsInv'
<1> DEFINE n == headIndex + dequeueOvercommit + Cardinality(Undecided)
<1>1. n \in Int
  BY UndecidedFinite DEF ClaimsInv
<1>2. dequeueOptimisticCount' = Wrap(n + 1)
  BY <1>1, WrapSum, 1 \in Int DEF Commit, ClaimsInv, ClaimsAddUp
<1>3. /\ cpc' = [cpc EXCEPT ![c] = "check"]
      /\ Cardinality(Undecided') = Cardinality(Undecided) + 1
  BY Claiming DEF Commit, Move, ClaimsInv
<1>4. headIndex' + dequeueOvercommit' + Cardinality(Undecided') = n + 1
  BY <1>3, UndecidedFinite DEF Commit, ClaimsInv
<1>5. Wrap(n + 1) \in Int
  BY <1>1, QueueAssumption DEF Wrap
<1> HIDE DEF n
<1>6. ClaimsAddUp'
  BY <1>2, <1>4 DEF ClaimsAddUp
<1>7. {headIndex', dequeueOptimisticCount', dequeueOvercommit'} \subseteq Int
  BY <1>2, <1>5 DEF Commit, ClaimsInv
<1> QED BY <1>3, <1>6, <1>7 DEF ClaimsInv, Labels

LEMMA CheckKeepsClaims ==
  ASSUME ClaimsInv, NEW c \in Consumers, Check(c)
  PROVE  ClaimsInv'
<1> DEFINE rest == dequeueOvercommit + Cardinality(Undecided) - 1
<1>1. rest \in Int /\ headIndex \in Int /\ dequeueOvercommit \in Int
  BY UndecidedFinite DEF ClaimsInv
<1>2. cpc' = [cpc EXCEPT ![c] = "index"]
      /\ Cardinality(Undecided') = Cardinality(Undecided) - 1
  BY Deciding DEF Check, Move, ClaimsInv
<1>3. headIndex' = Wrap(headIndex + 1) /\ headIndex' \in Int
  BY <1>1, Wrapped, WrapSum, 1 \in Int DEF Check
<1>4. Wrap(headIndex' + rest) = Wrap((headIndex + 1) + rest)
  BY <1>1, <1>3, WrapSum, 1 \in Int
<1>5. headIndex' + rest = headIndex' + dequeueOvercommit' + Cardinality(Undecided')
  BY <1>1, <1>2, <1>3, UndecidedFinite DEF Check
<1>6. (headIndex + 1) + rest = headIndex + dequeueOvercommit + Cardinality(Undecided)
  BY <1>1, UndecidedFinite
<1>7. ClaimsAddUp'
  BY <1>4, <1>5, <1>6 DEF Check, ClaimsInv, ClaimsAddUp
<1>8. cpc' \in [Consumers -> Labels]
  BY <1>2 DEF ClaimsInv, Labels
<1> QED BY <1>3, <1>7, <1>8 DEF Check, ClaimsInv

LEMMA OvercommitKeepsClaims ==
  ASSUME ClaimsInv, NEW c \in Consumers, Overcommit(c)
  PROVE  ClaimsInv'
<1> DEFINE rest == headIndex + Cardinality(Undecided) - 1
<1>1. rest \in Int /\ headIndex \in Int /\ dequeueOvercommit \in Int
  BY UndecidedFinite DEF ClaimsInv
<1>2. cpc' = [cpc EXCEPT ![c] = "idle"]
      /\ Cardinality(Undecided') = Cardinality(Undecided) - 1
  BY Deciding DEF Overcommit, Move, ClaimsInv
<1>3. dequeueOvercommit' = Wrap(dequeueOvercommit + 1) /\ dequeueOvercommit' \in Int
  BY <1>1, Wrapped, WrapSum, 1 \in Int DEF Overcommit
<1>4. Wrap(dequeueOvercommit' + rest) = Wrap((dequeueOvercommit + 1) + rest)
  BY <1>1, <1>3, WrapSum, 1 \in Int
<1>5. dequeueOvercommit' + rest = headIndex' + dequeueOvercommit' + Cardinality(Undecided')
  BY <1>1, <1>2, <1>3, UndecidedFinite DEF Overcommit
<1>6. (dequeueOvercommit + 1) + rest
        = headIndex + dequeueOvercommit + Cardinality(Undecided)
  BY <1>1, UndecidedFinite
<1>7. ClaimsAddUp'
  BY <1>4, <1>5, <1>6 DEF Overcommit, ClaimsInv, ClaimsAddUp
<1>8. cpc' \in [Consumers -> Labels]
  BY <1>2 DEF ClaimsInv, Labels
<1> QED BY <1>3, <1>7, <1>8 DEF Overcommit, ClaimsInv

\* The other steps of try_dequeue.
LEMMA ElsewhereKeepsClaims ==
  ASSUME ClaimsInv, NEW c \in Consumers, NEW label, NEW r, Move(c, label, r),
         label \in Labels,
         cpc[c] \in {"check", "overcommit"} <=> label \in {"check", "overcommit"},
         UNCHANGED <<headIndex, dequeueOptimisticCount, dequeueOvercommit>>
  PROVE  ClaimsInv'
<1>1. cpc \in [Consumers -> Labels] /\ cpc' = [cpc EXCEPT ![c] = label]
  BY DEF ClaimsInv, Move
<1>2. Undecided' = Undecided
  BY <1>1, Elsewhere
<1>3. cpc' \in [Consumers -> Labels]
  BY <1>1
<1> QED BY <1>2, <1>3, CountersStay

LEMMA DequeueKeepsClaims ==
  ASSUME ClaimsInv, NEW c \in Consumers, Dequeuing(c)
  PROVE  ClaimsInv'
<1> USE DEF sharedVars, Labels
<1>1. CASE Commit(c)
  BY <1>1, CommitClaims
<1>2. CASE Check(c)
  BY <1>2, CheckKeepsClaims
<1>3. CASE Overcommit(c)
  BY <1>3, OvercommitKeepsClaims
<1>4. CASE TryDequeue(c)
  BY <1>4, ElsewhereKeepsClaims DEF TryDequeue
<1>5. CASE Optimistic(c)
  BY <1>5, ElsewhereKeepsClaims DEF Optimistic
<1>6. CASE CheckFails(c)
  BY <1>6, ElsewhereKeepsClaims DEF CheckFails
<1>7. CASE LoadIndex(c)
  BY <1>7, ElsewhereKeepsClaims DEF LoadIndex
<1>8. CASE LoadIndexTail(c)
  BY <1>8, ElsewhereKeepsClaims DEF LoadIndexTail
<1>9. CASE LoadEntry(c)
  BY <1>9, ElsewhereKeepsClaims DEF LoadEntry
<1>10. CASE TakeElement(c)
  BY <1>10, ElsewhereKeepsClaims DEF TakeElement
<1>11. CASE SetEmpty(c)
  BY <1>11, ElsewhereKeepsClaims DEF SetEmpty
<1>12. CASE Unlink(c)
  BY <1>12, ElsewhereKeepsClaims DEF Unlink
<1>13. CASE Release(c)
  BY <1>13, ElsewhereKeepsClaims DEF Release
<1> QED
  BY <1>1, <1>2, <1>3, <1>4, <1>5, <1>6, <1>7, <1>8, <1>9, <1>10, <1>11, <1>12, <1>13
  DEF Dequeuing

LEMMA ClaimsInit == QueueInit => ClaimsInv
<1> SUFFICES ASSUME QueueInit PROVE ClaimsInv
  OBVIOUS
<1> USE DEF QueueInit, ImplicitProducer, ProducerBase
<1>1. Undecided = {}
  BY DEF Undecided
<1>2. Cardinality(Undecided) = 0
  BY <1>1, FS_EmptySet
<1>3. 0 \in 0..Modulus - 1
  BY QueueAssumption
<1>4. Wrap(0) = 0
  BY <1>3, WrapSmall
<1> QED BY <1>2, <1>4 DEF ClaimsInv, ClaimsAddUp, Labels

LEMMA ClaimsNext == ClaimsInv /\ [QueueNext]_queueVars => ClaimsInv'
<1> SUFFICES ASSUME ClaimsInv, [QueueNext]_queueVars PROVE ClaimsInv'
  OBVIOUS
<1> USE DEF sharedVars
<1>1. CASE \E count \in 0..MaxBulk : EnqueueBulk(count)
  BY <1>1, EnqueueKeepsClaims DEF EnqueueBulk
<1>2. CASE Enqueuing
  <2>1. UNCHANGED <<headIndex, dequeueOptimisticCount, dequeueOvercommit, consumerVars>>
    BY <1>2
    DEF Enqueuing, FindEntry, GrowIndex, NoEntry, StoreKey, StoreTail, NoBlock, Undo,
        GiveUp, StartFill, Fill, Publish, GetBlock
  <2> QED BY <2>1, EnqueueKeepsClaims
<1>3. CASE \E c \in Consumers : Dequeuing(c)
  BY <1>3, DequeueKeepsClaims
<1>4. CASE UNCHANGED queueVars
  BY <1>4, EnqueueKeepsClaims DEF queueVars
<1> QED BY <1>1, <1>2, <1>3, <1>4 DEF QueueNext

\* ImplicitProducer::dequeue: for any number of workers, and across the
\* wrap-around of index_t, the optimistic count is ahead of the head index by
\* the claims that were undone or are not decided.
THEOREM EveryClaimCounted == QueueSpec => []ClaimsAddUp
<1>1. ClaimsInv => ClaimsAddUp
  BY DEF ClaimsInv
<1> QED BY ClaimsInit, ClaimsNext, <1>1, PTL DEF QueueSpec

-----------------------------------------------------------------------------
(* No element is claimed that is not there *)

NotOvertaken ==
  \A c \in Consumers : cpc[c] \in {"optimistic", "commit", "check"} =>
    Wrap(dequeueOvercommit - reg[c].overcommit) + Cardinality(Consumers) < Modulus \div 2

\* The number of the block that has the element before i.
LastBlock(i) == NumberOf(i - 1)

RegShape(r) ==
  r = [overcommit |-> r.overcommit, count |-> r.count, index |-> r.index,
       blockIndex |-> r.blockIndex, pos |-> r.pos, entry |-> r.entry, block |-> r.block,
       element |-> r.element]

\* The locals of a call, with their members.
Locals ==
  /\ cpc \in [Consumers -> Labels]
  /\ reg = [c \in Consumers |-> reg[c]]
  /\ \A c \in Consumers : RegShape(reg[c])

\* Claims committed and not decided that came before the n-th.
Earlier(n, tk) == {c \in Undecided : tk[c] < n}

\* The counters without their wrap-around: H elements claimed and T published,
\* O claims committed and V of them undone, tk[c] the number of the claim c has
\* committed, vv[c] the overcommits it saw.  Of the claims from the m-th on,
\* none has been granted: each has before it those granted, those undecided
\* and the overcommits it saw, and is granted for the tail to be beyond these.
Claims(H, T, O, V, m, tk, vv) ==
  /\ dequeueOptimisticCount = Wrap(O) /\ dequeueOvercommit = Wrap(V)
  /\ O = H + V + Cardinality(Undecided)
  /\ m <= O
  /\ \A c \in Consumers :
       /\ cpc[c] \in {"optimistic", "commit", "check"} =>
            /\ reg[c].overcommit = Wrap(vv[c]) /\ vv[c] <= V
            /\ V - vv[c] + Cardinality(Consumers) < Modulus \div 2
       /\ cpc[c] = "check" => reg[c].count = Wrap(tk[c])
       /\ c \in Undecided =>
            /\ tk[c] < O
            /\ \A d \in Undecided : tk[d] = tk[c] => d = c
  /\ H + Cardinality(Earlier(m, tk)) <= T
  /\ \A c \in Consumers : cpc[c] = "check" /\ tk[c] >= m =>
       H + Cardinality(Earlier(tk[c], tk)) + vv[c] <= tk[c]

\* Of a batch, N is where it will end and Z the last block it has found so far;
\* it never gets half the range of index_t ahead of the head.
Tails(H, T, N, Z) ==
  /\ headIndex = Wrap(H) /\ tailIndex = Wrap(T)
  /\ 0 <= H /\ H <= T /\ T <= N
  /\ LastBlock(T) <= Z /\ Z <= LastBlock(N)
  /\ BLOCK_SIZE * (Z + 1) - H < HalfRange
  /\ ppc = "idle" => N = T /\ Z = LastBlock(T)
  /\ ppc # "idle" => startTail = Wrap(T) /\ newTail = Wrap(N) /\ N <= T + MaxBulk
  /\ ppc = "find" => current = Wrap(BLOCK_SIZE * Z)
  /\ ppc \in {"key", "tail", "block"} =>
       /\ current = Wrap(BLOCK_SIZE * (Z + 1))
       /\ Z < LastBlock(N) /\ BLOCK_SIZE * (Z + 2) - H < HalfRange
  /\ ppc \in {"fill", "publish"} => Z = LastBlock(N)

-----------------------------------------------------------------------------
(* Blocks *)

LEMMA LastBlockIs ==
  ASSUME NEW i \in Int
  PROVE  /\ LastBlock(i) \in Int
         /\ BLOCK_SIZE * LastBlock(i) < i /\ i <= BLOCK_SIZE * LastBlock(i) + BLOCK_SIZE
         /\ Base(Wrap(i) - 1) = Wrap(BLOCK_SIZE * LastBlock(i))
<1>1. i - 1 \in Int /\ BLOCK_SIZE \in Nat
  BY QueueAssumption
<1>2. /\ LastBlock(i) \in Int /\ Slot(i - 1) \in 0..BLOCK_SIZE - 1
      /\ i - 1 = BLOCK_SIZE * LastBlock(i) + Slot(i - 1)
      /\ BLOCK_SIZE * LastBlock(i) \in Int
  BY <1>1, InBlock DEF LastBlock
<1>3. Base(i - 1) = Wrap(BLOCK_SIZE * LastBlock(i))
  BY <1>2, WrapBlock
<1>4. Base(Wrap(i) - 1) = Base(i - 1)
  BY WrapSum, 1 \in Int DEF Base
<1> QED BY <1>1, <1>2, <1>3, <1>4

LEMMA BlockOrder ==
  ASSUME NEW m \in Int, NEW n \in Int
  PROVE  /\ BLOCK_SIZE * m \in Int /\ BLOCK_SIZE * (m + 1) = BLOCK_SIZE * m + BLOCK_SIZE
         /\ m < n <=> BLOCK_SIZE * m < BLOCK_SIZE * n
         /\ m < n => BLOCK_SIZE * m + BLOCK_SIZE <= BLOCK_SIZE * n
<1>1. BLOCK_SIZE \in Nat /\ BLOCK_SIZE > 0
  BY QueueAssumption
<1>2. BLOCK_SIZE * m \in Int /\ BLOCK_SIZE * n \in Int
      /\ BLOCK_SIZE * (m + 1) = BLOCK_SIZE * m + BLOCK_SIZE
  BY <1>1
<1>3. ASSUME m < n PROVE BLOCK_SIZE * m + BLOCK_SIZE <= BLOCK_SIZE * n
  <2>1. n - m - 1 \in Nat
    BY <1>3
  <2>2. BLOCK_SIZE * (n - m - 1) \in Nat
    BY <1>1, <2>1
  <2>3. BLOCK_SIZE * n = BLOCK_SIZE * m + BLOCK_SIZE + BLOCK_SIZE * (n - m - 1)
    BY <1>1
  <2> QED BY <1>1, <1>2, <2>2, <2>3
<1>4. ASSUME n <= m PROVE BLOCK_SIZE * n <= BLOCK_SIZE * m
  <2>1. m - n \in Nat
    BY <1>4
  <2>2. BLOCK_SIZE * (m - n) \in Nat
    BY <1>1, <2>1
  <2>3. BLOCK_SIZE * m = BLOCK_SIZE * n + BLOCK_SIZE * (m - n)
    BY <1>1
  <2> QED BY <1>1, <1>2, <2>2, <2>3
<1> QED BY <1>1, <1>2, <1>3, <1>4

LEMMA LastBlockGrows ==
  ASSUME NEW i \in Int, NEW j \in Int, i <= j
  PROVE  LastBlock(i) <= LastBlock(j)
<1> DEFINE m == LastBlock(i)
           n == LastBlock(j)
<1>1. /\ m \in Int /\ n \in Int /\ BLOCK_SIZE * m < i
      /\ j <= BLOCK_SIZE * n + BLOCK_SIZE
  BY LastBlockIs
<1> HIDE DEF m, n
<1>2. BLOCK_SIZE * m \in Int /\ BLOCK_SIZE * n \in Int /\ BLOCK_SIZE \in Nat
  BY <1>1, BlockOrder, QueueAssumption
<1>3. n < m => BLOCK_SIZE * n + BLOCK_SIZE <= BLOCK_SIZE * m
  BY <1>1, BlockOrder
<1> QED BY <1>1, <1>2, <1>3 DEF m, n

\* What is in the queue is less than half the range of index_t.
LEMMA TailNear ==
  ASSUME NEW H \in Int, NEW T \in Int, NEW N \in Int, NEW Z \in Int, Tails(H, T, N, Z)
  PROVE  T - H < HalfRange /\ N <= BLOCK_SIZE * LastBlock(N) + BLOCK_SIZE
         /\ T <= BLOCK_SIZE * (Z + 1) /\ BLOCK_SIZE * (Z + 1) \in Int
<1>1. /\ LastBlock(T) \in Int /\ T <= BLOCK_SIZE * LastBlock(T) + BLOCK_SIZE
      /\ N <= BLOCK_SIZE * LastBlock(N) + BLOCK_SIZE
  BY LastBlockIs
<1>2. /\ BLOCK_SIZE * Z \in Int /\ BLOCK_SIZE * LastBlock(T) \in Int /\ BLOCK_SIZE \in Nat
      /\ BLOCK_SIZE * (Z + 1) = BLOCK_SIZE * Z + BLOCK_SIZE
      /\ LastBlock(T) < Z => BLOCK_SIZE * LastBlock(T) < BLOCK_SIZE * Z
  BY <1>1, BlockOrder, QueueAssumption
<1>3. LastBlock(T) <= Z /\ BLOCK_SIZE * (Z + 1) - H < HalfRange
  BY DEF Tails
<1>4. BLOCK_SIZE * LastBlock(T) <= BLOCK_SIZE * Z
  BY <1>1, <1>2, <1>3
<1>5. T <= BLOCK_SIZE * (Z + 1)
  BY <1>1, <1>2, <1>4
<1>6. HalfRange \in Nat
  BY Sizes
<1> QED BY <1>1, <1>2, <1>3, <1>5, <1>6

-----------------------------------------------------------------------------
(* Claims *)

LEMMA EarlierFinite ==
  ASSUME NEW n, NEW tk
  PROVE  /\ IsFiniteSet(Earlier(n, tk)) /\ Cardinality(Earlier(n, tk)) \in Nat
         /\ Cardinality(Earlier(n, tk)) <= Cardinality(Undecided)
BY UndecidedFinite, FS_Subset, FS_CardinalityType DEF Earlier

\* What Move does.
LEMMA Moved ==
  ASSUME Locals, NEW c \in Consumers, NEW label \in Labels, NEW r, Move(c, label, r)
  PROVE  /\ cpc'[c] = label /\ reg'[c] = r
         /\ \A d \in Consumers : d # c => cpc'[d] = cpc[d] /\ reg'[d] = reg[d]
         /\ RegShape(r) => Locals'
<1>1. cpc'[c] = label /\ reg'[c] = r
  BY DEF Move, Locals
<1>2. \A d \in Consumers : d # c => cpc'[d] = cpc[d] /\ reg'[d] = reg[d]
  BY DEF Move, Locals
<1>3. ASSUME RegShape(r) PROVE Locals'
  <2>1. cpc' \in [Consumers -> Labels]
    BY DEF Move, Locals
  <2>2. reg' = [d \in Consumers |-> reg'[d]]
    BY DEF Move, Locals
  <2>3. \A d \in Consumers : RegShape(reg'[d])
    BY <1>1, <1>2, <1>3 DEF Locals
  <2> QED BY <2>1, <2>2, <2>3 DEF Locals
<1> QED BY <1>1, <1>2, <1>3

LEMMA Shapes ==
  /\ RegShape(NoReg)
  /\ \A x : RegShape([NoReg EXCEPT !.overcommit = x]) /\ [NoReg EXCEPT !.overcommit = x].overcommit = x
  /\ \A x : RegShape([NoReg EXCEPT !.index = x]) /\ [NoReg EXCEPT !.index = x].index = x
<1>1. RegShape(NoReg)
  BY DEF RegShape, NoReg
<1>2. ASSUME NEW x
      PROVE RegShape([NoReg EXCEPT !.overcommit = x]) /\ [NoReg EXCEPT !.overcommit = x].overcommit = x
  BY DEF RegShape, NoReg
<1>3. ASSUME NEW x
      PROVE RegShape([NoReg EXCEPT !.index = x]) /\ [NoReg EXCEPT !.index = x].index = x
  BY DEF RegShape, NoReg
<1> QED BY <1>1, <1>2, <1>3

LEMMA CountShape ==
  ASSUME NEW r, RegShape(r), NEW x
  PROVE  LET s == [r EXCEPT !.count = x] IN
         RegShape(s) /\ s.count = x /\ s.overcommit = r.overcommit
BY DEF RegShape

LEMMA IndexShape ==
  ASSUME NEW r, RegShape(r), NEW x
  PROVE  LET s == [r EXCEPT !.index = x] IN
         /\ RegShape(s) /\ s.index = x /\ s.entry = r.entry /\ s.block = r.block
         /\ s.blockIndex = r.blockIndex /\ s.pos = r.pos /\ s.element = r.element
BY DEF RegShape

LEMMA EntryShape ==
  ASSUME NEW r, RegShape(r), NEW x
  PROVE  LET s == [r EXCEPT !.entry = x] IN
         /\ RegShape(s) /\ s.entry = x /\ s.index = r.index /\ s.block = r.block
         /\ s.element = r.element
BY DEF RegShape

LEMMA BlockShape ==
  ASSUME NEW r, RegShape(r), NEW x
  PROVE  LET s == [r EXCEPT !.block = x] IN
         /\ RegShape(s) /\ s.block = x /\ s.index = r.index /\ s.entry = r.entry
         /\ s.element = r.element
BY DEF RegShape

LEMMA ElementShape ==
  ASSUME NEW r, RegShape(r), NEW x
  PROVE  LET s == [r EXCEPT !.element = x] IN
         /\ RegShape(s) /\ s.element = x /\ s.index = r.index /\ s.entry = r.entry
         /\ s.block = r.block
BY DEF RegShape

LEMMA BlockIndexShape ==
  ASSUME NEW r, RegShape(r), NEW x
  PROVE  LET s == [r EXCEPT !.blockIndex = x] IN
         RegShape(s) /\ s.blockIndex = x /\ s.index = r.index /\ s.pos = r.pos
BY DEF RegShape

LEMMA PosShape ==
  ASSUME NEW r, RegShape(r), NEW x
  PROVE  LET s == [r EXCEPT !.pos = x] IN
         RegShape(s) /\ s.pos = x /\ s.index = r.index /\ s.blockIndex = r.blockIndex
BY DEF RegShape

LEMMA FoundShape ==
  ASSUME NEW i, NEW e, NEW b
  PROVE  LET s == [NoReg EXCEPT !.index = i, !.entry = e, !.block = b] IN
         RegShape(s) /\ s.index = i /\ s.entry = e /\ s.block = b
<1> DEFINE s1 == [NoReg EXCEPT !.index = i]
           s2 == [s1 EXCEPT !.entry = e]
           s3 == [s2 EXCEPT !.block = b]
<1>1. [NoReg EXCEPT !.index = i, !.entry = e, !.block = b] = s3
  OBVIOUS
<1>2. RegShape(s1) /\ s1.index = i
  BY Shapes
<1> HIDE DEF s1
<1>3. RegShape(s2) /\ s2.entry = e /\ s2.index = i
  BY <1>2, EntryShape
<1> HIDE DEF s2
<1>4. RegShape(s3) /\ s3.block = b /\ s3.entry = e /\ s3.index = i
  BY <1>3, BlockShape
<1> HIDE DEF s3
<1> QED BY <1>1, <1>4

LEMMA TakenShape ==
  ASSUME NEW r, RegShape(r), NEW x
  PROVE  LET s == [r EXCEPT !.index = 0, !.element = x] IN
         RegShape(s) /\ s.element = x /\ s.entry = r.entry /\ s.block = r.block
<1> DEFINE s1 == [r EXCEPT !.index = 0]
           s2 == [s1 EXCEPT !.element = x]
<1>1. [r EXCEPT !.index = 0, !.element = x] = s2
  OBVIOUS
<1>2. RegShape(s1) /\ s1.entry = r.entry /\ s1.block = r.block
  BY IndexShape
<1> HIDE DEF s1
<1>3. RegShape(s2) /\ s2.element = x /\ s2.entry = r.entry /\ s2.block = r.block
  BY <1>2, ElementShape
<1> HIDE DEF s2
<1> QED BY <1>1, <1>3

\* Steps that change no claim.
LEMMA ClaimsStay ==
  ASSUME NEW H \in Int, NEW T \in Int, NEW O \in Int, NEW V \in Int, NEW m \in Int,
         NEW tk \in [Consumers -> Int], NEW vv \in [Consumers -> Int], NEW T2 \in Int,
         Claims(H, T, O, V, m, tk, vv), T <= T2,
         UNCHANGED <<dequeueOptimisticCount, dequeueOvercommit>>,
         \A c \in Consumers :
            /\ cpc'[c] \in {"optimistic", "commit"} =>
                 cpc[c] \in {"optimistic", "commit"} /\ reg'[c] = reg[c]
            /\ cpc'[c] = "check" => cpc[c] = "check" /\ reg'[c] = reg[c],
         Undecided' = Undecided
  PROVE  Claims(H, T2, O, V, m, tk, vv)'
<1>1. Earlier(m, tk)' = Earlier(m, tk) /\ \A c \in Consumers : Earlier(tk[c], tk)' = Earlier(tk[c], tk)
  BY DEF Earlier
<1>2. Cardinality(Earlier(m, tk)) \in Nat /\ Cardinality(Undecided) \in Nat
      /\ \A c \in Consumers : Cardinality(Earlier(tk[c], tk)) \in Nat
  BY EarlierFinite, UndecidedFinite
<1>3. \A c \in Consumers : cpc'[c] \in {"optimistic", "commit", "check"} =>
         cpc[c] \in {"optimistic", "commit", "check"} /\ reg'[c] = reg[c]
  OBVIOUS
<1>4. \A c \in Consumers : cpc'[c] = "check" => cpc[c] = "check" /\ reg'[c] = reg[c]
  OBVIOUS
<1>5. /\ H + Cardinality(Earlier(m, tk)') <= T2
      /\ O = H + V + Cardinality(Undecided')
  BY <1>1, <1>2 DEF Claims
<1> QED BY <1>1, <1>3, <1>4, <1>5 DEF Claims

LEMMA CommitClaim ==
  ASSUME NEW H \in Int, NEW T \in Int, NEW O \in Int, NEW V \in Int, NEW m \in Int,
         NEW tk \in [Consumers -> Int], NEW vv \in [Consumers -> Int],
         Claims(H, T, O, V, m, tk, vv), Locals, NEW c \in Consumers, Commit(c)
  PROVE  Claims(H, T, O + 1, V, m, [tk EXCEPT ![c] = O], vv)'
<1> DEFINE tk2 == [tk EXCEPT ![c] = O]
<1>0. tk2 \in [Consumers -> Int] /\ tk2[c] = O /\ \A d \in Consumers : d # c => tk2[d] = tk[d]
  OBVIOUS
<1> HIDE DEF tk2
<1>1. /\ cpc[c] = "commit" /\ dequeueOptimisticCount' = Wrap(O + 1)
      /\ UNCHANGED dequeueOvercommit
      /\ Move(c, "check", [reg[c] EXCEPT !.count = dequeueOptimisticCount])
  BY WrapSum, 1 \in Int DEF Commit, Claims
<1>2. /\ cpc'[c] = "check" /\ reg'[c].count = Wrap(O) /\ reg'[c].overcommit = reg[c].overcommit
      /\ \A d \in Consumers : d # c => cpc'[d] = cpc[d] /\ reg'[d] = reg[d]
  <2>1. "check" \in Labels
    BY DEF Labels
  <2>2. reg'[c] = [reg[c] EXCEPT !.count = Wrap(O)]
    BY <1>1, <2>1, Moved DEF Claims
  <2>5. /\ \A d \in Consumers : d # c => cpc'[d] = cpc[d] /\ reg'[d] = reg[d]
        /\ cpc'[c] = "check"
    BY <1>1, <2>1, Moved DEF Claims
  <2>3. RegShape(reg[c])
    BY DEF Locals
  <2>4. reg'[c].count = Wrap(O) /\ reg'[c].overcommit = reg[c].overcommit
    BY <2>2, <2>3, CountShape
  <2> QED BY <2>4, <2>5
<1>3. Undecided' = Undecided \cup {c} /\ c \notin Undecided
  BY <1>1, <1>2 DEF Undecided
<1>4. Cardinality(Undecided') = Cardinality(Undecided) + 1 /\ Cardinality(Undecided) \in Nat
  BY <1>3, UndecidedFinite, FS_AddElement
<1>5. \A n \in Int : n <= O => Earlier(n, tk2)' = Earlier(n, tk)
  BY <1>0, <1>3 DEF Earlier, Undecided
<1>6. Earlier(O, tk) = Undecided
  BY DEF Earlier, Claims, Undecided
<1>7. m <= O /\ \A d \in Consumers : d \in Undecided' => tk2[d] <= O
  <2>1. m <= O /\ \A d \in Consumers : d \in Undecided => tk[d] < O
    BY DEF Claims
  <2> QED BY <1>0, <1>3, <2>1
<1>8. ASSUME NEW d \in Consumers, cpc'[d] = "check", tk2[d] >= m
      PROVE  H + Cardinality(Earlier(tk2[d], tk2)') + vv[d] <= tk2[d]
  <2>1. d \in Undecided'
    BY <1>8 DEF Undecided
  <2>2. Earlier(tk2[d], tk2)' = Earlier(tk2[d], tk)
    BY <1>0, <1>5, <1>7, <2>1
  <2>3. CASE d = c
    <3>1. vv[c] <= V /\ O = H + V + Cardinality(Undecided)
      BY <1>1 DEF Claims
    <3> QED BY <1>0, <1>4, <1>6, <2>2, <2>3, <3>1
  <2>4. CASE d # c
    BY <1>0, <1>2, <1>8, <2>2, <2>4 DEF Claims
  <2> QED BY <2>3, <2>4
<1>9. ASSUME NEW d \in Consumers
      PROVE  /\ cpc'[d] \in {"optimistic", "commit", "check"} =>
                  /\ reg'[d].overcommit = Wrap(vv[d]) /\ vv[d] <= V
                  /\ V - vv[d] + Cardinality(Consumers) < Modulus \div 2
             /\ cpc'[d] = "check" => reg'[d].count = Wrap(tk2[d])
             /\ d \in Undecided' =>
                  /\ tk2[d] < O + 1
                  /\ \A e \in Undecided' : tk2[e] = tk2[d] => e = d
  <2>1. CASE d = c
    <3>1. \A e \in Undecided : tk2[e] < O
      BY <1>0, <1>3 DEF Claims, Undecided
    <3> QED BY <1>0, <1>1, <1>2, <1>3, <2>1, <3>1 DEF Claims
  <2>2. CASE d # c
    <3>1. \A e \in Undecided : tk2[e] = tk[e] /\ e \in Consumers
      BY <1>0, <1>3 DEF Undecided
    <3>2. /\ cpc[d] \in {"optimistic", "commit", "check"} =>
                  /\ reg[d].overcommit = Wrap(vv[d]) /\ vv[d] <= V
                  /\ V - vv[d] + Cardinality(Consumers) < Modulus \div 2
          /\ cpc[d] = "check" => reg[d].count = Wrap(tk[d])
          /\ d \in Undecided =>
                  /\ tk[d] < O
                  /\ \A e \in Undecided : tk[e] = tk[d] => e = d
      BY DEF Claims
    <3>3. tk2[d] = tk[d] /\ tk2[c] = O /\ cpc'[d] = cpc[d] /\ reg'[d] = reg[d]
      BY <1>0, <1>2, <2>2
    <3>4. d \in Undecided' => d \in Undecided
      BY <1>3, <2>2
    <3>5. d \in Undecided' => tk2[d] < O + 1
                  /\ \A e \in Undecided' : tk2[e] = tk2[d] => e = d
      BY <1>3, <3>1, <3>2, <3>3, <3>4
    <3> QED BY <3>2, <3>3, <3>5
  <2> QED BY <2>1, <2>2
<1>10. /\ O + 1 = H + V + Cardinality(Undecided') /\ m <= O + 1
       /\ dequeueOvercommit' = Wrap(V)
  BY <1>1, <1>4, <1>7 DEF Claims
<1>11. H + Cardinality(Earlier(m, tk2)') <= T
  BY <1>5, <1>7 DEF Claims
<1>12. Claims(H, T, O + 1, V, m, tk2, vv)'
  BY <1>1, <1>8, <1>9, <1>10, <1>11 DEF Claims
<1> QED BY <1>12 DEF tk2

\* What a claim's test compares.
LEMMA Tested ==
  ASSUME NEW H \in Int, NEW T \in Int, NEW O \in Int, NEW V \in Int, NEW m \in Int,
         NEW tk \in [Consumers -> Int], NEW vv \in [Consumers -> Int],
         Claims(H, T, O, V, m, tk, vv), T - H < HalfRange, tailIndex = Wrap(T),
         NEW c \in Consumers, cpc[c] = "check", tk[c] >= m,
         circular_less_than(reg[c].count - reg[c].overcommit, tailIndex)
  PROVE  H + Cardinality(Earlier(tk[c], tk)) < T
<1> DEFINE d == tk[c] - vv[c]
           k == Cardinality(Earlier(tk[c], tk))
<1>1. /\ reg[c].count = Wrap(tk[c]) /\ reg[c].overcommit = Wrap(vv[c])
      /\ vv[c] <= V /\ V - vv[c] + Cardinality(Consumers) < Modulus \div 2
      /\ c \in Undecided /\ tk[c] < O /\ O = H + V + Cardinality(Undecided)
      /\ H + Cardinality(Earlier(tk[c], tk)) + vv[c] <= tk[c]
      /\ H + Cardinality(Earlier(m, tk)) <= T
  BY DEF Claims, Undecided
<1>2. /\ Cardinality(Undecided) \in Nat /\ Cardinality(Consumers) \in Nat /\ k \in Nat
      /\ Cardinality(Undecided) <= Cardinality(Consumers)
      /\ Cardinality(Earlier(m, tk)) \in Nat
  BY UndecidedFinite, EarlierFinite
<1>3. d \in Int /\ tk[c] \in Int /\ vv[c] \in Int
  OBVIOUS
<1>4. circular_less_than(d, T)
  <2>1. Wrap((Wrap(tk[c]) - Wrap(vv[c])) - Wrap(T)) = Wrap(d - T)
    <3>0. Wrap(tk[c]) \in Int /\ Wrap(vv[c]) \in Int
      BY <1>3, Wrapped
    <3>1. Wrap(tk[c]) - Wrap(vv[c]) \in Int
      BY <3>0
    <3>2. Wrap((Wrap(tk[c]) - Wrap(vv[c])) - Wrap(T)) = Wrap((Wrap(tk[c]) - Wrap(vv[c])) - T)
      BY <3>1, WrapSum
    <3>3. Wrap((Wrap(tk[c]) - Wrap(vv[c])) - T) = Wrap(Wrap(Wrap(tk[c]) - Wrap(vv[c])) - T)
      BY <3>1, WrapSum
    <3>4. Wrap(Wrap(tk[c]) - Wrap(vv[c])) = Wrap(d)
      BY <1>3, WrapSum
    <3>5. Wrap(Wrap(d) - T) = Wrap(d - T)
      BY <1>3, WrapSum
    <3> QED BY <3>2, <3>3, <3>4, <3>5
  <2> QED BY <1>1, <2>1 DEF circular_less_than
<1> HIDE DEF k
<1>5. H + k <= d /\ d < H + (V - vv[c]) + Cardinality(Consumers)
  BY <1>1, <1>2, <1>3 DEF k
<1>6. T - d < HalfRange /\ d - T <= Modulus \div 2
  BY <1>1, <1>2, <1>3, <1>5, Sizes
<1> HIDE DEF d
<1>7. d < T
  BY <1>3, <1>4, <1>6, Compare
<1> QED BY <1>2, <1>3, <1>5, <1>7 DEF k

\* A decided claim is no longer counted among the undecided.
LEMMA OneEarlierLess ==
  ASSUME NEW c \in Undecided, Undecided' = Undecided \ {c}, NEW n, NEW tk
  PROVE  /\ Earlier(n, tk)' = Earlier(n, tk) \ {c}
         /\ Cardinality(Earlier(n, tk)') \in Nat
         /\ tk[c] < n => Cardinality(Earlier(n, tk)') = Cardinality(Earlier(n, tk)) - 1
         /\ Cardinality(Earlier(n, tk)') <= Cardinality(Earlier(n, tk))
         /\ Cardinality(Undecided') = Cardinality(Undecided) - 1
<1>1. Earlier(n, tk)' = Earlier(n, tk) \ {c}
  BY DEF Earlier
<1>2. tk[c] < n => c \in Earlier(n, tk)
  BY DEF Earlier
<1>3. IsFiniteSet(Earlier(n, tk)) /\ Cardinality(Earlier(n, tk)) \in Nat
  BY EarlierFinite
<1>4. c \in Earlier(n, tk) => Cardinality(Earlier(n, tk) \ {c}) = Cardinality(Earlier(n, tk)) - 1
  BY <1>3, FS_RemoveElement
<1>5. c \notin Earlier(n, tk) => Earlier(n, tk) \ {c} = Earlier(n, tk)
  OBVIOUS
<1>6. Cardinality(Undecided') = Cardinality(Undecided) - 1
  BY UndecidedFinite, FS_RemoveElement
<1>7. IsFiniteSet(Earlier(n, tk) \ {c}) /\ Cardinality(Earlier(n, tk) \ {c}) \in Nat
  BY <1>3, FS_Subset, FS_CardinalityType
<1>8. CASE c \in Earlier(n, tk)
  <2> DEFINE k == Cardinality(Earlier(n, tk))
             j == Cardinality(Earlier(n, tk) \ {c})
  <2>1. k \in Nat /\ j \in Nat /\ j = k - 1
    BY <1>3, <1>4, <1>7, <1>8
  <2> HIDE DEF k, j
  <2>2. j <= k
    BY <2>1
  <2> QED BY <1>1, <1>6, <2>1, <2>2 DEF k, j
<1>9. CASE c \notin Earlier(n, tk)
  <2>1. Cardinality(Earlier(n, tk)) <= Cardinality(Earlier(n, tk))
    BY <1>3
  <2> QED BY <1>1, <1>2, <1>3, <1>5, <1>6, <1>9, <2>1
<1> QED BY <1>8, <1>9

\* A consumer that decides a claim raises the head or the overcommit count.
LEMMA DecideClaim ==
  ASSUME NEW H \in Int, NEW T \in Int, NEW O \in Int, NEW V \in Int, NEW m \in Int,
         NEW tk \in [Consumers -> Int], NEW vv \in [Consumers -> Int],
         Claims(H, T, O, V, m, tk, vv), NEW c \in Undecided,
         NEW H2 \in Int, NEW V2 \in Int, NEW m2 \in Int,
         H2 + V2 = H + V + 1, H <= H2, V <= V2, m <= m2, m2 <= O,
         H2 + Cardinality(Earlier(m2, tk)') <= T,
         H2 = H \/ m2 > tk[c],
         UNCHANGED dequeueOptimisticCount, dequeueOvercommit' = Wrap(V2),
         cpc'[c] \notin {"optimistic", "commit", "check", "overcommit"},
         \A d \in Consumers : d # c => cpc'[d] = cpc[d] /\ reg'[d] = reg[d],
         NotOvertaken'
  PROVE  Claims(H2, T, O, V2, m2, tk, vv)'
<1>1. Undecided' = Undecided \ {c} /\ c \in Consumers
  BY DEF Undecided
<1>2. /\ Cardinality(Undecided') = Cardinality(Undecided) - 1
      /\ Cardinality(Undecided) \in Nat /\ Cardinality(Consumers) \in Nat
  BY <1>1, OneEarlierLess, UndecidedFinite
<1>3. O = H2 + V2 + Cardinality(Undecided')
  BY <1>2 DEF Claims
<1>4. ASSUME NEW d \in Consumers, cpc'[d] = "check", tk[d] >= m2
      PROVE  H2 + Cardinality(Earlier(tk[d], tk)') + vv[d] <= tk[d]
  <2>1. d # c /\ cpc[d] = "check" /\ tk[d] >= m
    BY <1>1, <1>4
  <2>2. H + Cardinality(Earlier(tk[d], tk)) + vv[d] <= tk[d]
    BY <2>1 DEF Claims
  <2>3. /\ Cardinality(Earlier(tk[d], tk)) \in Nat /\ Cardinality(Earlier(tk[d], tk)') \in Nat
        /\ Cardinality(Earlier(tk[d], tk)') <= Cardinality(Earlier(tk[d], tk))
        /\ tk[c] < tk[d] =>
             Cardinality(Earlier(tk[d], tk)') = Cardinality(Earlier(tk[d], tk)) - 1
    BY <1>1, OneEarlierLess, EarlierFinite
  <2>4. H2 <= H + 1
    BY DEF Claims
  <2>5. CASE H2 = H
    BY <2>2, <2>3, <2>5
  <2>6. CASE m2 > tk[c]
    BY <1>1, <1>4, <2>2, <2>3, <2>4, <2>6
  <2> QED BY <2>5, <2>6
<1>5. ASSUME NEW d \in Consumers, cpc'[d] \in {"optimistic", "commit", "check"}
      PROVE  /\ reg'[d].overcommit = Wrap(vv[d]) /\ vv[d] <= V2
             /\ V2 - vv[d] + Cardinality(Consumers) < Modulus \div 2
  <2>1. d # c /\ cpc[d] = cpc'[d] /\ reg'[d] = reg[d]
    BY <1>1, <1>5
  <2>2. /\ reg[d].overcommit = Wrap(vv[d]) /\ vv[d] <= V
        /\ V - vv[d] + Cardinality(Consumers) < Modulus \div 2
    BY <1>5, <2>1 DEF Claims
  <2>3. Wrap(dequeueOvercommit' - reg'[d].overcommit) + Cardinality(Consumers) < Modulus \div 2
    BY <1>5 DEF NotOvertaken
  <2>4. Wrap(V2 - vv[d]) + Cardinality(Consumers) < Modulus \div 2
    <3>1. Wrap(Wrap(V2) - Wrap(vv[d])) = Wrap(V2 - vv[d])
      BY WrapSum, vv[d] \in Int
    <3> QED BY <2>1, <2>2, <2>3, <3>1
  <2>5. V2 - vv[d] \in 0..Modulus - 1
    BY <1>2, <2>2, Sizes
  <2>6. Wrap(V2 - vv[d]) = V2 - vv[d]
    BY <2>5, WrapSmall
  <2> QED BY <2>1, <2>2, <2>4, <2>6
<1>6. ASSUME NEW d \in Consumers
      PROVE  /\ cpc'[d] = "check" => reg'[d].count = Wrap(tk[d])
             /\ d \in Undecided' =>
                  /\ tk[d] < O
                  /\ \A e \in Undecided' : tk[e] = tk[d] => e = d
  <2>1. cpc'[d] = "check" => cpc[d] = "check" /\ reg'[d] = reg[d]
    BY <1>1
  <2> QED BY <1>1, <2>1 DEF Claims
<1> QED BY <1>3, <1>4, <1>5, <1>6 DEF Claims

LEMMA CheckClaim ==
  ASSUME NEW H \in Int, NEW T \in Int, NEW O \in Int, NEW V \in Int, NEW m \in Int,
         NEW tk \in [Consumers -> Int], NEW vv \in [Consumers -> Int],
         Claims(H, T, O, V, m, tk, vv), Locals, T - H < HalfRange, tailIndex = Wrap(T),
         NEW c \in Consumers, Check(c), NotOvertaken'
  PROVE  /\ H < T
         /\ \E m2 \in Int : Claims(H + 1, T, O, V, m2, tk, vv)'
<1>1. cpc[c] = "check" /\ c \in Undecided /\ dequeueOvercommit' = Wrap(V)
      /\ UNCHANGED dequeueOptimisticCount
  BY DEF Check, Undecided, Claims
<1>2. /\ cpc'[c] = "index"
      /\ \A d \in Consumers : d # c => cpc'[d] = cpc[d] /\ reg'[d] = reg[d]
  <2>1. "index" \in Labels
    BY DEF Labels
  <2> QED BY <2>1, Moved DEF Check
<1>3. Undecided' = Undecided \ {c}
  BY <1>1, <1>2 DEF Undecided
<1>4. tk[c] < O /\ (\A e \in Undecided : tk[e] = tk[c] => e = c) /\ m <= O
  BY <1>1 DEF Claims
<1>5. PICK m2 \in Int : /\ m <= m2 /\ m2 <= O /\ tk[c] < m2
                        /\ H + 1 + Cardinality(Earlier(m2, tk)') <= T
  <2>1. CASE tk[c] >= m
    <3>1. H + Cardinality(Earlier(tk[c], tk)) < T
      BY <1>1, <2>1, Tested DEF Check
    <3>2. Earlier(tk[c] + 1, tk)' = Earlier(tk[c], tk)
      <4>1. \A d \in Undecided : tk[d] \in Int /\ d \in Consumers
        BY DEF Undecided
      <4>2. tk[c] \in Int
        OBVIOUS
      <4>3. \A d \in Undecided : d # c => (tk[d] < tk[c] + 1 <=> tk[d] < tk[c])
        BY <1>4, <4>1, <4>2
      <4> QED BY <1>3, <4>2, <4>3 DEF Earlier
    <3>3. Cardinality(Earlier(tk[c], tk)) \in Nat /\ tk[c] + 1 \in Int
      BY EarlierFinite
    <3>4. H + 1 + Cardinality(Earlier(tk[c] + 1, tk)') <= T
      BY <3>1, <3>2, <3>3
    <3>5. m <= tk[c] + 1 /\ tk[c] + 1 <= O /\ tk[c] < tk[c] + 1
      BY <1>4, <2>1
    <3> QED BY <3>3, <3>4, <3>5
  <2>2. CASE tk[c] < m
    <3>1. Cardinality(Earlier(m, tk)') = Cardinality(Earlier(m, tk)) - 1
      BY <1>1, <1>3, <2>2, OneEarlierLess
    <3>2. Cardinality(Earlier(m, tk)) \in Nat /\ H + Cardinality(Earlier(m, tk)) <= T
      BY EarlierFinite DEF Claims
    <3>3. H + 1 + Cardinality(Earlier(m, tk)') <= T
      BY <3>1, <3>2
    <3> QED BY <1>4, <2>2, <3>3
  <2> QED BY <2>1, <2>2
<1>6. Claims(H + 1, T, O, V, m2, tk, vv)'
  <2>1. H + 1 \in Int /\ H + 1 + V = H + V + 1 /\ H <= H + 1 /\ V <= V
    OBVIOUS
  <2> QED BY <1>1, <1>2, <1>5, <2>1, DecideClaim
<1>7. Cardinality(Earlier(m2, tk)') \in Nat
  BY <1>1, <1>3, OneEarlierLess
<1> QED BY <1>5, <1>6, <1>7

LEMMA OvercommitClaim ==
  ASSUME NEW H \in Int, NEW T \in Int, NEW O \in Int, NEW V \in Int, NEW m \in Int,
         NEW tk \in [Consumers -> Int], NEW vv \in [Consumers -> Int],
         Claims(H, T, O, V, m, tk, vv), Locals,
         NEW c \in Consumers, Overcommit(c), NotOvertaken'
  PROVE  Claims(H, T, O, V + 1, m, tk, vv)'
<1>1. /\ c \in Undecided /\ UNCHANGED dequeueOptimisticCount
      /\ dequeueOvercommit' = Wrap(V + 1)
  BY WrapSum, 1 \in Int DEF Overcommit, Undecided, Claims
<1>2. /\ cpc'[c] = "idle"
      /\ \A d \in Consumers : d # c => cpc'[d] = cpc[d] /\ reg'[d] = reg[d]
  <2>1. "idle" \in Labels
    BY DEF Labels
  <2> QED BY <2>1, Moved DEF Overcommit
<1>3. Undecided' = Undecided \ {c}
  BY <1>1, <1>2 DEF Undecided
<1>4. H + Cardinality(Earlier(m, tk)') <= T /\ m <= O
  BY <1>1, <1>3, OneEarlierLess, EarlierFinite DEF Claims
<1>5. V + 1 \in Int /\ H + (V + 1) = H + V + 1 /\ H <= H /\ V <= V + 1 /\ m <= m
  OBVIOUS
<1> QED BY <1>1, <1>2, <1>4, <1>5, DecideClaim

LEMMA NewCall ==
  ASSUME NEW H \in Int, NEW T \in Int, NEW O \in Int, NEW V \in Int, NEW m \in Int,
         NEW tk \in [Consumers -> Int], NEW vv \in [Consumers -> Int],
         Claims(H, T, O, V, m, tk, vv), Locals,
         NEW c \in Consumers, TryDequeue(c), NotOvertaken'
  PROVE  Claims(H, T, O, V, m, tk, [vv EXCEPT ![c] = V])'
<1> DEFINE vv2 == [vv EXCEPT ![c] = V]
<1>0. vv2 \in [Consumers -> Int] /\ vv2[c] = V /\ \A d \in Consumers : d # c => vv2[d] = vv[d]
  OBVIOUS
<1> HIDE DEF vv2
<1>1. /\ cpc[c] = "idle" /\ UNCHANGED <<dequeueOptimisticCount, dequeueOvercommit>>
      /\ dequeueOvercommit = Wrap(V)
  BY DEF TryDequeue, Claims, sharedVars
<1>2. /\ cpc'[c] = "optimistic" /\ reg'[c].overcommit = dequeueOvercommit
      /\ \A d \in Consumers : d # c => cpc'[d] = cpc[d] /\ reg'[d] = reg[d]
  <2>1. "optimistic" \in Labels
    BY DEF Labels
  <2>2. reg'[c] = [NoReg EXCEPT !.overcommit = dequeueOvercommit]
    BY <2>1, Moved DEF TryDequeue
  <2>3. reg'[c].overcommit = dequeueOvercommit
    BY <2>2, Shapes
  <2>4. /\ cpc'[c] = "optimistic"
        /\ \A d \in Consumers : d # c => cpc'[d] = cpc[d] /\ reg'[d] = reg[d]
    BY <2>1, Moved DEF TryDequeue
  <2> QED BY <2>3, <2>4
<1>3. Undecided' = Undecided
  BY <1>1, <1>2 DEF Undecided
<1>4. V - V + Cardinality(Consumers) < Modulus \div 2
  <2>1. Wrap(Wrap(V) - Wrap(V)) = 0
    <3>1. Wrap(Wrap(V) - Wrap(V)) = Wrap(0) /\ 0 \in 0..Modulus - 1
      BY WrapSum, Sizes
    <3> QED BY <3>1, WrapSmall
  <2>2. Wrap(dequeueOvercommit' - reg'[c].overcommit) + Cardinality(Consumers) < Modulus \div 2
    BY <1>2 DEF NotOvertaken
  <2> QED BY <1>1, <1>2, <2>1, <2>2
<1>5. \A n : Earlier(n, tk)' = Earlier(n, tk)
  BY <1>3 DEF Earlier
<1>6. ASSUME NEW d \in Consumers
      PROVE  /\ cpc'[d] \in {"optimistic", "commit", "check"} =>
                  /\ reg'[d].overcommit = Wrap(vv2[d]) /\ vv2[d] <= V
                  /\ V - vv2[d] + Cardinality(Consumers) < Modulus \div 2
             /\ cpc'[d] = "check" =>
                  /\ reg'[d].count = Wrap(tk[d])
                  /\ tk[d] >= m => H + Cardinality(Earlier(tk[d], tk)') + vv2[d] <= tk[d]
  <2>1. CASE d = c
    BY <1>0, <1>1, <1>2, <1>4, <2>1
  <2>2. CASE d # c
    BY <1>0, <1>2, <1>5, <2>2 DEF Claims
  <2> QED BY <2>1, <2>2
<1>7. Claims(H, T, O, V, m, tk, vv2)'
  BY <1>1, <1>3, <1>5, <1>6 DEF Claims
<1> QED BY <1>7 DEF vv2

-----------------------------------------------------------------------------
(* The producer's counters *)

tailVars == <<headIndex, tailIndex, ppc, startTail, newTail, current>>

\* A further step of the loop that finds the blocks.
LEMMA NextBlock ==
  ASSUME NEW H \in Int, NEW T \in Int, NEW N \in Int, NEW Z \in Int, Tails(H, T, N, Z),
         ppc = "find", NeedsBlock
  PROVE  /\ Z < LastBlock(N)
         /\ circular_less_than(headIndex, current + 2 * BLOCK_SIZE) =>
              BLOCK_SIZE * (Z + 2) - H < HalfRange
         /\ Wrap(current + BLOCK_SIZE) = Wrap(BLOCK_SIZE * (Z + 1))
<1>1. /\ current = Wrap(BLOCK_SIZE * Z) /\ newTail = Wrap(N) /\ headIndex = Wrap(H)
      /\ Z <= LastBlock(N) /\ 0 <= H /\ H <= T /\ BLOCK_SIZE * (Z + 1) - H < HalfRange
  BY DEF Tails
<1>2. Base(newTail - 1) = Wrap(BLOCK_SIZE * LastBlock(N)) /\ LastBlock(N) \in Int
  BY <1>1, LastBlockIs
<1>3. Z < LastBlock(N)
  BY <1>1, <1>2 DEF NeedsBlock
<1>4. /\ BLOCK_SIZE * Z \in Int /\ BLOCK_SIZE \in Nat
      /\ BLOCK_SIZE * (Z + 1) = BLOCK_SIZE * Z + BLOCK_SIZE
      /\ BLOCK_SIZE * (Z + 2) = BLOCK_SIZE * Z + 2 * BLOCK_SIZE
  BY BlockOrder, QueueAssumption
<1>5. Wrap(current + BLOCK_SIZE) = Wrap(BLOCK_SIZE * (Z + 1))
  BY <1>1, <1>4, WrapSum
<1>6. ASSUME circular_less_than(headIndex, current + 2 * BLOCK_SIZE)
      PROVE  BLOCK_SIZE * (Z + 2) - H < HalfRange
  <2> DEFINE d == BLOCK_SIZE * (Z + 2) - H
  <2>1. Wrap(headIndex - (current + 2 * BLOCK_SIZE)) = Wrap(-d)
    <3>1. Wrap(BLOCK_SIZE * Z) + 2 * BLOCK_SIZE \in Int /\ Wrap(H) \in Int
      BY <1>4, Wrapped
    <3>2. Wrap(Wrap(H) - (Wrap(BLOCK_SIZE * Z) + 2 * BLOCK_SIZE))
            = Wrap(H - Wrap(Wrap(BLOCK_SIZE * Z) + 2 * BLOCK_SIZE))
      BY <3>1, WrapSum
    <3>3. Wrap(Wrap(BLOCK_SIZE * Z) + 2 * BLOCK_SIZE) = Wrap(BLOCK_SIZE * (Z + 2))
      <4>1. 2 * BLOCK_SIZE \in Int
        BY <1>4
      <4> QED BY <1>4, <4>1, WrapSum
    <3>4. Wrap(H - Wrap(BLOCK_SIZE * (Z + 2))) = Wrap(H - BLOCK_SIZE * (Z + 2))
      BY <1>4, WrapSum
    <3>5. H - BLOCK_SIZE * (Z + 2) = -d
      BY <1>4
    <3> QED BY <1>1, <3>2, <3>3, <3>4, <3>5
  <2>2. d \in Int /\ 0 < d /\ d < Modulus
    <3>1. T <= BLOCK_SIZE * (Z + 1)
      BY TailNear
    <3> QED BY <1>1, <1>4, <3>1, Sizes DEF HalfRange
  <2>3. Wrap(-d) = Modulus - d
    <3> HIDE DEF d
    <3>1. Modulus - d \in 0..Modulus - 1 /\ Modulus - d = -d + Modulus * 1 /\ -d \in Int
          /\ Modulus \in Int
      BY <2>2, Sizes
    <3>2. Congruent(Modulus - d, -d, Modulus)
      BY <3>1, 1 \in Int DEF Congruent
    <3>3. Modulus - d \in Int
      BY <3>1
    <3>4. Wrap(Modulus - d) = Wrap(-d)
      BY <3>1, <3>2, <3>3, SameWrap
    <3> QED BY <3>1, <3>4, WrapSmall
  <2>4. Modulus - d > Modulus \div 2
    BY <1>6, <2>1, <2>3 DEF circular_less_than
  <2> QED BY <2>2, <2>4, Sizes DEF HalfRange
<1> QED BY <1>3, <1>5, <1>6

\* The blocks are enough.
LEMMA NoMoreBlocks ==
  ASSUME NEW H \in Int, NEW T \in Int, NEW N \in Int, NEW Z \in Int, Tails(H, T, N, Z),
         ppc = "find", ~NeedsBlock
  PROVE  Z = LastBlock(N)
<1> DEFINE z == LastBlock(N)
<1>1. /\ current = Wrap(BLOCK_SIZE * Z) /\ newTail = Wrap(N)
      /\ LastBlock(T) <= Z /\ Z <= z /\ N <= T + MaxBulk
  BY DEF Tails
<1>2. /\ Base(newTail - 1) = Wrap(BLOCK_SIZE * z) /\ z \in Int /\ LastBlock(T) \in Int
      /\ BLOCK_SIZE * z < N /\ T <= BLOCK_SIZE * LastBlock(T) + BLOCK_SIZE
  BY <1>1, LastBlockIs
<1> HIDE DEF z
<1>3. /\ BLOCK_SIZE * z \in Int /\ BLOCK_SIZE * Z \in Int /\ BLOCK_SIZE * LastBlock(T) \in Int
      /\ LastBlock(T) < Z => BLOCK_SIZE * LastBlock(T) < BLOCK_SIZE * Z
      /\ Z < z => BLOCK_SIZE * Z < BLOCK_SIZE * z
  BY <1>2, BlockOrder
<1>4. Wrap(BLOCK_SIZE * z) = Wrap(BLOCK_SIZE * Z)
  BY <1>1, <1>2 DEF NeedsBlock
<1>5. Congruent(BLOCK_SIZE * z, BLOCK_SIZE * Z, Modulus)
  BY <1>3, <1>4, SameWrap
<1>6. BLOCK_SIZE * LastBlock(T) <= BLOCK_SIZE * Z /\ BLOCK_SIZE * Z <= BLOCK_SIZE * z
  BY <1>1, <1>2, <1>3
<1>7. /\ BLOCK_SIZE * z - BLOCK_SIZE * Z < Modulus /\ BLOCK_SIZE * Z - BLOCK_SIZE * z < Modulus
      /\ Modulus \in Nat
  BY <1>1, <1>2, <1>3, <1>6, Sizes
<1>8. BLOCK_SIZE * z = BLOCK_SIZE * Z
  BY <1>3, <1>5, <1>7, CongruentNear
<1> QED BY <1>1, <1>2, <1>3, <1>8 DEF z

LEMMA BulkTails ==
  ASSUME NEW H \in Int, NEW T \in Int, NEW N \in Int, NEW Z \in Int, Tails(H, T, N, Z),
         NEW count \in 0..MaxBulk, EnqueueBulk(count)
  PROVE  Tails(H, T, T + count, Z)'
<1>1. /\ ppc = "idle" /\ N = T /\ Z = LastBlock(T) /\ tailIndex = Wrap(T)
      /\ UNCHANGED <<headIndex, tailIndex>>
  BY DEF EnqueueBulk, Tails, sharedVars
<1>2. count \in Int /\ T + count \in Int /\ 0 <= count /\ count <= MaxBulk /\ MaxBulk \in Nat
  BY Sizes
<1>3. startTail' = Wrap(T) /\ newTail' = Wrap(T + count) /\ current' = Wrap(BLOCK_SIZE * Z)
  BY <1>1, <1>2, WrapSum, LastBlockIs DEF EnqueueBulk
<1>4. LastBlock(T) <= LastBlock(T + count)
  BY <1>2, LastBlockGrows
<1> QED BY <1>1, <1>2, <1>3, <1>4 DEF Tails, EnqueueBulk, Step

LEMMA FindTails ==
  ASSUME NEW H \in Int, NEW T \in Int, NEW N \in Int, NEW Z \in Int, Tails(H, T, N, Z),
         FindEntry \/ GrowIndex
  PROVE  Tails(H, T, N, Z)'
<1>1. /\ ppc = "find" /\ NeedsBlock /\ current' = Wrap(current + BLOCK_SIZE) /\ ppc' = "key"
      /\ circular_less_than(headIndex, current + 2 * BLOCK_SIZE)
      /\ UNCHANGED <<headIndex, tailIndex, startTail, newTail>>
  BY DEF FindEntry, GrowIndex, Step, sharedVars, batchVars
<1>2. /\ Z < LastBlock(N) /\ BLOCK_SIZE * (Z + 2) - H < HalfRange
      /\ current' = Wrap(BLOCK_SIZE * (Z + 1))
  BY <1>1, NextBlock
<1> QED BY <1>1, <1>2 DEF Tails

\* Steps within the search for an entry and a block, and within the undoing.
LEMMA SearchTails ==
  ASSUME NEW H \in Int, NEW T \in Int, NEW N \in Int, NEW Z \in Int, Tails(H, T, N, Z),
         StoreKey \/ StoreTail \/ NoBlock \/ NoEntry \/ Undo
  PROVE  Tails(H, T, N, Z)'
<1>1. /\ UNCHANGED <<headIndex, tailIndex, startTail, newTail>>
      /\ \/ ppc \in {"key", "tail"} /\ ppc' \in {"tail", "block"} /\ UNCHANGED current
         \/ ppc # "idle" /\ ppc' = "undo"
  BY DEF StoreKey, StoreTail, NoBlock, NoEntry, Undo, Step, sharedVars, batchVars
<1> QED BY <1>1 DEF Tails

LEMMA BlockTails ==
  ASSUME NEW H \in Int, NEW T \in Int, NEW N \in Int, NEW Z \in Int, Tails(H, T, N, Z),
         NEW b \in Blocks, GetBlock(b)
  PROVE  Tails(H, T, N, Z + 1)'
<1>1. /\ ppc = "block" /\ ppc' = "find"
      /\ UNCHANGED <<headIndex, tailIndex, startTail, newTail, current>>
  BY DEF GetBlock, Step, sharedVars, batchVars
<1>2. LastBlock(N) \in Int /\ LastBlock(T) \in Int /\ Z + 1 + 1 = Z + 2
  BY LastBlockIs
<1> QED BY <1>1, <1>2 DEF Tails

LEMMA GiveUpTails ==
  ASSUME NEW H \in Int, NEW T \in Int, NEW N \in Int, NEW Z \in Int, Tails(H, T, N, Z), GiveUp
  PROVE  Tails(H, T, T, LastBlock(T))'
<1> DEFINE z == LastBlock(T)
<1>1. ppc' = "idle" /\ UNCHANGED <<headIndex, tailIndex>>
  BY DEF GiveUp, EndEnqueue, Step, sharedVars
<1>2. /\ z <= Z /\ BLOCK_SIZE * (Z + 1) - H < HalfRange
      /\ headIndex = Wrap(H) /\ tailIndex = Wrap(T) /\ 0 <= H /\ H <= T
  BY DEF Tails
<1>3. z \in Int
  BY LastBlockIs
<1>4. BLOCK_SIZE * (z + 1) - H < HalfRange
  <2> HIDE DEF z
  <2>1. /\ BLOCK_SIZE * z \in Int /\ BLOCK_SIZE * (z + 1) = BLOCK_SIZE * z + BLOCK_SIZE
        /\ BLOCK_SIZE * Z \in Int /\ BLOCK_SIZE * (Z + 1) = BLOCK_SIZE * Z + BLOCK_SIZE
        /\ z < Z => BLOCK_SIZE * z < BLOCK_SIZE * Z
        /\ BLOCK_SIZE \in Nat /\ HalfRange \in Nat
    BY <1>3, BlockOrder, Sizes
  <2>2. BLOCK_SIZE * z <= BLOCK_SIZE * Z
    BY <1>2, <1>3, <2>1
  <2> QED BY <1>2, <2>1, <2>2
<1> QED BY <1>1, <1>2, <1>3, <1>4 DEF Tails

LEMMA FillTails ==
  ASSUME NEW H \in Int, NEW T \in Int, NEW N \in Int, NEW Z \in Int, Tails(H, T, N, Z),
         StartFill \/ Fill
  PROVE  Tails(H, T, N, Z)'
<1>1. /\ UNCHANGED <<headIndex, tailIndex, startTail, newTail>>
      /\ ppc' \in {"fill", "publish"}
      /\ ppc = "fill" \/ (ppc = "find" /\ ~NeedsBlock)
  BY DEF StartFill, Fill, Step, sharedVars, batchVars
<1>2. Z = LastBlock(N)
  BY <1>1, NoMoreBlocks DEF Tails
<1> QED BY <1>1, <1>2 DEF Tails

LEMMA PublishTails ==
  ASSUME NEW H \in Int, NEW T \in Int, NEW N \in Int, NEW Z \in Int, Tails(H, T, N, Z), Publish
  PROVE  Tails(H, N, N, Z)'
<1>1. /\ ppc = "publish" /\ ppc' = "idle" /\ UNCHANGED headIndex /\ tailIndex' = newTail
  BY DEF Publish, EndEnqueue, Step
<1> QED BY <1>1 DEF Tails

\* The steps of try_dequeue.
LEMMA ConsumerTails ==
  ASSUME NEW H \in Int, NEW T \in Int, NEW N \in Int, NEW Z \in Int, Tails(H, T, N, Z),
         UNCHANGED <<tailIndex, enqueueVars>>, NEW H2 \in {H, H + 1}, H2 <= T,
         headIndex' = Wrap(H2)
  PROVE  Tails(H2, T, N, Z)'
<1>1. UNCHANGED <<ppc, startTail, newTail, current>>
  BY DEF enqueueVars, batchVars
<1>2. BLOCK_SIZE * (Z + 1) \in Int /\ BLOCK_SIZE * (Z + 2) \in Int /\ HalfRange \in Nat
  BY Sizes
<1> QED BY <1>1, <1>2 DEF Tails

LEMMA StutterTails ==
  ASSUME NEW H \in Int, NEW T \in Int, NEW N \in Int, NEW Z \in Int, Tails(H, T, N, Z),
         UNCHANGED tailVars
  PROVE  Tails(H, T, N, Z)'
BY DEF Tails, tailVars

-----------------------------------------------------------------------------
(* The head never passes the tail *)

\* Of H claimed and T published elements, whatever has been claimed in vain.
Counted(H, T) ==
  \E O \in Int, V \in Int, m \in Int, tk \in [Consumers -> Int], vv \in [Consumers -> Int] :
    Claims(H, T, O, V, m, tk, vv)

LEMMA CountedStays ==
  ASSUME NEW H \in Int, NEW T \in Int, NEW T2 \in Int, T <= T2, Counted(H, T),
         UNCHANGED <<dequeueOptimisticCount, dequeueOvercommit, consumerVars>>
  PROVE  Counted(H, T2)'
<1>1. PICK O \in Int, V \in Int, m \in Int, tk \in [Consumers -> Int], vv \in [Consumers -> Int] :
        Claims(H, T, O, V, m, tk, vv)
  BY DEF Counted
<1>2. UNCHANGED <<cpc, reg>> /\ Undecided' = Undecided
  BY DEF consumerVars, Undecided
<1>3. Claims(H, T2, O, V, m, tk, vv)'
  BY <1>1, <1>2, ClaimsStay
<1> QED BY <1>3 DEF Counted

LEMMA CountedCheck ==
  ASSUME NEW H \in Int, NEW T \in Int, NEW N \in Int, NEW Z \in Int,
         Counted(H, T), Tails(H, T, N, Z), Locals, NEW c \in Consumers, Check(c), NotOvertaken'
  PROVE  H < T /\ Counted(H + 1, T)'
<1>1. PICK O \in Int, V \in Int, m \in Int, tk \in [Consumers -> Int], vv \in [Consumers -> Int] :
        Claims(H, T, O, V, m, tk, vv)
  BY DEF Counted
<1>2. T - H < HalfRange /\ tailIndex = Wrap(T)
  BY TailNear DEF Tails
<1>3. H < T /\ \E m2 \in Int : Claims(H + 1, T, O, V, m2, tk, vv)'
  BY <1>1, <1>2, CheckClaim
<1>4. PICK m2 \in Int : Claims(H + 1, T, O, V, m2, tk, vv)'
  BY <1>3
<1> QED BY <1>3, <1>4 DEF Counted

\* A step that moves one consumer and neither opens nor decides a claim.
LEMMA CountedMove ==
  ASSUME NEW H \in Int, NEW T \in Int, Counted(H, T), Locals,
         NEW c \in Consumers, NEW label \in Labels, NEW r, Move(c, label, r),
         UNCHANGED <<dequeueOptimisticCount, dequeueOvercommit>>,
         cpc[c] \in {"check", "overcommit"} <=> label \in {"check", "overcommit"},
         label \notin {"optimistic", "check"},
         label = "commit" => cpc[c] = "optimistic" /\ r = reg[c]
  PROVE  Counted(H, T)'
<1>1. PICK O \in Int, V \in Int, m \in Int, tk \in [Consumers -> Int], vv \in [Consumers -> Int] :
        Claims(H, T, O, V, m, tk, vv)
  BY DEF Counted
<1>2. /\ cpc'[c] = label /\ reg'[c] = r
      /\ \A d \in Consumers : d # c => cpc'[d] = cpc[d] /\ reg'[d] = reg[d]
  BY Moved
<1>3. Undecided' = Undecided
  BY <1>2 DEF Undecided
<1>4. ASSUME NEW d \in Consumers
      PROVE  /\ cpc'[d] \in {"optimistic", "commit"} =>
                  cpc[d] \in {"optimistic", "commit"} /\ reg'[d] = reg[d]
             /\ cpc'[d] = "check" => cpc[d] = "check" /\ reg'[d] = reg[d]
  <2>1. CASE d = c
    BY <1>2, <2>1
  <2>2. CASE d # c
    BY <1>2, <2>2
  <2> QED BY <2>1, <2>2
<1>5. Claims(H, T, O, V, m, tk, vv)'
  <2>1. T <= T
    OBVIOUS
  <2> QED BY <1>1, <1>3, <1>4, <2>1, ClaimsStay
<1> QED BY <1>5 DEF Counted

LEMMA CountedDequeuing ==
  ASSUME NEW H \in Int, NEW T \in Int, Counted(H, T), Locals,
         NEW c \in Consumers, Dequeuing(c), ~Check(c), NotOvertaken'
  PROVE  Counted(H, T)'
<1> USE DEF sharedVars, Labels
<1>0. PICK O \in Int, V \in Int, m \in Int, tk \in [Consumers -> Int], vv \in [Consumers -> Int] :
        Claims(H, T, O, V, m, tk, vv)
  BY DEF Counted
<1>1. CASE TryDequeue(c)
  <2>1. [vv EXCEPT ![c] = V] \in [Consumers -> Int]
    OBVIOUS
  <2>2. Claims(H, T, O, V, m, tk, [vv EXCEPT ![c] = V])'
    BY <1>0, <1>1, NewCall
  <2> QED BY <2>1, <2>2 DEF Counted
<1>2. CASE Commit(c)
  <2>1. [tk EXCEPT ![c] = O] \in [Consumers -> Int] /\ O + 1 \in Int
    OBVIOUS
  <2>2. Claims(H, T, O + 1, V, m, [tk EXCEPT ![c] = O], vv)'
    BY <1>0, <1>2, CommitClaim
  <2> QED BY <2>1, <2>2 DEF Counted
<1>3. CASE Overcommit(c)
  <2>1. V + 1 \in Int
    OBVIOUS
  <2>2. Claims(H, T, O, V + 1, m, tk, vv)'
    BY <1>0, <1>3, OvercommitClaim
  <2> QED BY <2>1, <2>2 DEF Counted
<1>5. CASE Optimistic(c)
  <2>1. cpc[c] = "optimistic" /\ UNCHANGED <<dequeueOptimisticCount, dequeueOvercommit>>
        /\ (Move(c, "commit", reg[c]) \/ Move(c, "idle", NoReg))
    BY <1>5 DEF Optimistic
  <2>2. CASE Move(c, "commit", reg[c])
    BY <2>1, <2>2, CountedMove
  <2>3. CASE Move(c, "idle", NoReg)
    BY <2>1, <2>3, CountedMove
  <2> QED BY <2>1, <2>2, <2>3
<1>6. CASE CheckFails(c)
  BY <1>6, CountedMove DEF CheckFails
<1>7. CASE LoadIndex(c)
  BY <1>7, CountedMove DEF LoadIndex
<1>8. CASE LoadIndexTail(c)
  BY <1>8, CountedMove DEF LoadIndexTail
<1>9. CASE LoadEntry(c)
  BY <1>9, CountedMove DEF LoadEntry
<1>10. CASE TakeElement(c)
  BY <1>10, CountedMove DEF TakeElement
<1>11. CASE SetEmpty(c)
  <2>1. cpc[c] = "empty" /\ UNCHANGED <<dequeueOptimisticCount, dequeueOvercommit>>
        /\ (Move(c, "unlink", reg[c]) \/ Move(c, "idle", NoReg))
    BY <1>11 DEF SetEmpty
  <2>2. CASE Move(c, "unlink", reg[c])
    BY <2>1, <2>2, CountedMove
  <2>3. CASE Move(c, "idle", NoReg)
    BY <2>1, <2>3, CountedMove
  <2> QED BY <2>1, <2>2, <2>3
<1>12. CASE Unlink(c)
  BY <1>12, CountedMove DEF Unlink
<1>13. CASE Release(c)
  BY <1>13, CountedMove DEF Release
<1> QED
  BY <1>1, <1>2, <1>3, <1>5, <1>6, <1>7, <1>8, <1>9, <1>10, <1>11, <1>12, <1>13
  DEF Dequeuing

\* The locals of a call keep their shape.
LEMMA LocalsKept ==
  ASSUME Locals, NEW c \in Consumers, Dequeuing(c)
  PROVE  Locals'
<1> USE DEF Labels
<1>1. PICK label, r : label \in Labels /\ Move(c, label, r) /\ RegShape(r)
  <2>1. RegShape(reg[c])
    BY DEF Locals
  <2>2. CASE TryDequeue(c)
    BY <2>2, Shapes DEF TryDequeue
  <2>3. CASE Optimistic(c)
    BY <2>1, <2>3, Shapes DEF Optimistic
  <2>4. CASE Commit(c)
    BY <2>1, <2>4, CountShape DEF Commit
  <2>5. CASE Check(c)
    BY <2>5, Shapes DEF Check
  <2>6. CASE CheckFails(c)
    BY <2>6, Shapes DEF CheckFails
  <2>7. CASE Overcommit(c)
    BY <2>7, Shapes DEF Overcommit
  <2>8. CASE LoadIndex(c)
    BY <2>1, <2>8 DEF LoadIndex, RegShape
  <2>9. CASE LoadIndexTail(c)
    BY <2>1, <2>9 DEF LoadIndexTail, RegShape
  <2>10. CASE LoadEntry(c)
    <3> DEFINE e == EntryAt(reg[c].blockIndex, reg[c].pos, reg[c].index)
               s == [NoReg EXCEPT !.index = reg[c].index, !.entry = e, !.block = value[e]]
    <3>1. Move(c, "element", s)
      BY <2>10 DEF LoadEntry
    <3>2. RegShape(s)
      BY FoundShape
    <3> HIDE DEF s
    <3> QED BY <3>1, <3>2
  <2>11. CASE TakeElement(c)
    <3> DEFINE x == elements[reg[c].block][Slot(reg[c].index)]
               s == [reg[c] EXCEPT !.index = 0, !.element = x]
    <3>1. Move(c, "empty", s)
      BY <2>11 DEF TakeElement
    <3>2. RegShape(s)
      BY <2>1, TakenShape
    <3> HIDE DEF s
    <3> QED BY <3>1, <3>2
  <2>12. CASE SetEmpty(c)
    BY <2>1, <2>12, Shapes DEF SetEmpty
  <2>13. CASE Unlink(c)
    BY <2>1, <2>13 DEF Unlink, RegShape
  <2>14. CASE Release(c)
    BY <2>14, Shapes DEF Release
  <2> QED
    BY <2>2, <2>3, <2>4, <2>5, <2>6, <2>7, <2>8, <2>9, <2>10, <2>11, <2>12, <2>13, <2>14
    DEF Dequeuing
<1> QED BY <1>1, Moved

CountsInv ==
  /\ Locals
  /\ \E H \in Int, T \in Int, N \in Int, Z \in Int : Counted(H, T) /\ Tails(H, T, N, Z)

LEMMA InitialCounts == QueueInit /\ NotOvertaken => Locals /\ Counted(0, 0) /\ Tails(0, 0, 0, -1)
<1> SUFFICES ASSUME QueueInit PROVE Locals /\ Counted(0, 0) /\ Tails(0, 0, 0, -1)
  OBVIOUS
<1> USE DEF QueueInit, ImplicitProducer, ProducerBase
<1>1. Locals
  <2>1. reg = [c \in Consumers |-> reg[c]] /\ \A c \in Consumers : RegShape(reg[c])
    BY Shapes
  <2> QED BY <2>1 DEF Locals, Labels
<1>2. Wrap(0) = 0
  <2>1. 0 \in 0..Modulus - 1
    BY Sizes
  <2> QED BY <2>1, WrapSmall
<1>3. Counted(0, 0)
  <2> DEFINE z == [c \in Consumers |-> 0]
  <2>1. z \in [Consumers -> Int]
    OBVIOUS
  <2>2. Undecided = {} /\ Earlier(0, z) = {}
    BY DEF Undecided, Earlier
  <2>3. Cardinality(Undecided) = 0 /\ Cardinality(Earlier(0, z)) = 0
    BY <2>2, FS_EmptySet
  <2>4. Claims(0, 0, 0, 0, 0, z, z)
    BY <1>2, <2>2, <2>3 DEF Claims
  <2> QED BY <2>1, <2>4 DEF Counted
<1>4. LastBlock(0) = -1 /\ BLOCK_SIZE * (-1 + 1) - 0 < HalfRange
  <2>1. /\ LastBlock(0) \in Int /\ BLOCK_SIZE * LastBlock(0) < 0
        /\ 0 <= BLOCK_SIZE * LastBlock(0) + BLOCK_SIZE
    BY LastBlockIs
  <2>2. /\ LastBlock(0) < 0 <=> BLOCK_SIZE * LastBlock(0) < BLOCK_SIZE * 0
        /\ LastBlock(0) < -1 => BLOCK_SIZE * LastBlock(0) + BLOCK_SIZE <= BLOCK_SIZE * (-1)
    BY <2>1, BlockOrder, 0 \in Int, -1 \in Int
  <2>3. BLOCK_SIZE * 0 = 0 /\ BLOCK_SIZE * (-1) < 0 /\ BLOCK_SIZE \in Nat /\ HalfRange > 0
        /\ BLOCK_SIZE * (-1 + 1) = 0
    BY Sizes
  <2> QED BY <2>1, <2>2, <2>3
<1>5. Tails(0, 0, 0, -1)
  BY <1>2, <1>4 DEF Tails
<1> QED BY <1>1, <1>3, <1>5

LEMMA ConsumerFrame ==
  ASSUME NEW c \in Consumers, Dequeuing(c)
  PROVE  /\ UNCHANGED <<tailIndex, blockIndex, index, key, chain, fresh, enqueueVars>>
         /\ ~Check(c) => UNCHANGED headIndex
BY DEF Dequeuing, TryDequeue, Optimistic, Commit, Check, CheckFails, Overcommit, LoadIndex,
       LoadIndexTail, LoadEntry, TakeElement, SetEmpty, Unlink, Release, sharedVars, indexVars,
       blockVars, memoryVars

LEMMA ConsumerCounts ==
  ASSUME NEW H \in Int, NEW T \in Int, NEW N \in Int, NEW Z \in Int,
         Counted(H, T), Tails(H, T, N, Z), Locals, NEW c \in Consumers, Dequeuing(c),
         NotOvertaken'
  PROVE  /\ Locals'
         /\ IF Check(c) THEN H < T /\ Counted(H + 1, T)' /\ Tails(H + 1, T, N, Z)'
            ELSE Counted(H, T)' /\ Tails(H, T, N, Z)'
<1>1. Locals'
  BY LocalsKept
<1>2. UNCHANGED <<tailIndex, enqueueVars>> /\ headIndex = Wrap(H) /\ H <= T
  BY ConsumerFrame DEF Tails
<1>3. CASE Check(c)
  <2>1. H < T /\ Counted(H + 1, T)'
    BY <1>3, CountedCheck
  <2>2. headIndex' = Wrap(H + 1)
    BY <1>2, <1>3, WrapSum, 1 \in Int DEF Check
  <2>3. H + 1 \in {H, H + 1} /\ H + 1 <= T
    BY <2>1
  <2>4. Tails(H + 1, T, N, Z)'
    BY <1>2, <2>2, <2>3, ConsumerTails
  <2> QED BY <1>1, <1>3, <2>1, <2>4
<1>4. CASE ~Check(c)
  <2>1. Counted(H, T)'
    BY <1>4, CountedDequeuing
  <2>2. headIndex' = Wrap(H) /\ H \in {H, H + 1}
    BY <1>2, <1>4, ConsumerFrame
  <2>3. Tails(H, T, N, Z)'
    BY <1>2, <2>2, ConsumerTails
  <2> QED BY <1>1, <1>4, <2>1, <2>3
<1> QED BY <1>3, <1>4

\* A step of enqueue_bulk.
LEMMA ProducerFrame ==
  ASSUME (\E count \in 0..MaxBulk : EnqueueBulk(count)) \/ Enqueuing
  PROVE  UNCHANGED <<headIndex, dequeueOptimisticCount, dequeueOvercommit, consumerVars>>
BY DEF Enqueuing, EnqueueBulk, FindEntry, GrowIndex, NoEntry, StoreKey, StoreTail, NoBlock,
       Undo, GiveUp, StartFill, Fill, Publish, GetBlock, sharedVars

LEMMA CountsNext == CountsInv /\ NotOvertaken' /\ [QueueNext]_queueVars => CountsInv'
<1> SUFFICES ASSUME CountsInv, NotOvertaken', [QueueNext]_queueVars PROVE CountsInv'
  OBVIOUS
<1>1. PICK H \in Int, T \in Int, N \in Int, Z \in Int : Counted(H, T) /\ Tails(H, T, N, Z)
  BY DEF CountsInv
<1>2. Locals
  BY DEF CountsInv
<1>3. T <= T /\ T <= N /\ LastBlock(T) \in Int /\ Z + 1 \in Int
  BY <1>1, LastBlockIs DEF Tails
<1>4. CASE UNCHANGED queueVars
  <2>1. UNCHANGED <<tailVars, dequeueOptimisticCount, dequeueOvercommit, consumerVars>>
    BY <1>4 DEF queueVars, tailVars, sharedVars, enqueueVars, batchVars
  <2>2. Counted(H, T)' /\ Tails(H, T, N, Z)'
    BY <1>1, <1>3, <2>1, CountedStays, StutterTails
  <2>3. Locals'
    BY <1>2, <2>1 DEF Locals, consumerVars
  <2> QED BY <2>2, <2>3 DEF CountsInv
<1>5. ASSUME (\E count \in 0..MaxBulk : EnqueueBulk(count)) \/ Enqueuing
      PROVE  CountsInv'
  <2>1. Locals' /\ Counted(H, T)' /\ Counted(H, N)'
    <3>1. UNCHANGED <<dequeueOptimisticCount, dequeueOvercommit, consumerVars>>
      BY <1>5, ProducerFrame
    <3> QED BY <1>1, <1>2, <1>3, <3>1, CountedStays DEF Locals, consumerVars
  <2>2. ASSUME NEW count \in 0..MaxBulk, EnqueueBulk(count) PROVE CountsInv'
    <3>1. Tails(H, T, T + count, Z)' /\ T + count \in Int
      BY <1>1, <2>2, BulkTails
    <3> QED BY <2>1, <3>1 DEF CountsInv
  <2>3. CASE FindEntry \/ GrowIndex
    BY <1>1, <2>1, <2>3, FindTails DEF CountsInv
  <2>4. CASE StoreKey \/ StoreTail \/ NoBlock \/ NoEntry \/ Undo
    BY <1>1, <2>1, <2>4, SearchTails DEF CountsInv
  <2>5. ASSUME NEW b \in Blocks, GetBlock(b) PROVE CountsInv'
    <3>1. Tails(H, T, N, Z + 1)'
      BY <1>1, <2>5, BlockTails
    <3> QED BY <1>3, <2>1, <3>1 DEF CountsInv
  <2>6. CASE GiveUp
    <3>1. Tails(H, T, T, LastBlock(T))'
      BY <1>1, <2>6, GiveUpTails
    <3> QED BY <1>3, <2>1, <3>1 DEF CountsInv
  <2>7. CASE StartFill \/ Fill
    BY <1>1, <2>1, <2>7, FillTails DEF CountsInv
  <2>8. CASE Publish
    BY <1>1, <2>1, <2>8, PublishTails DEF CountsInv
  <2> QED BY <1>5, <2>2, <2>3, <2>4, <2>5, <2>6, <2>7, <2>8 DEF Enqueuing
<1>6. ASSUME NEW c \in Consumers, Dequeuing(c) PROVE CountsInv'
  <2>1. CASE Check(c)
    <3>1. Locals' /\ Counted(H + 1, T)' /\ Tails(H + 1, T, N, Z)' /\ H + 1 \in Int
      BY <1>1, <1>2, <1>6, <2>1, ConsumerCounts
    <3> QED BY <3>1 DEF CountsInv
  <2>2. CASE ~Check(c)
    <3>1. Locals' /\ Counted(H, T)' /\ Tails(H, T, N, Z)'
      BY <1>1, <1>2, <1>6, <2>2, ConsumerCounts
    <3> QED BY <3>1 DEF CountsInv
  <2> QED BY <2>1, <2>2
<1> QED BY <1>4, <1>5, <1>6 DEF QueueNext

\* What the comments at concurrentqueue.h:1799-1803 and the assertion at 2234 say
\* of a claim that is granted: there is an element for it, and the head index
\* never passes the tail index, however claims that fail and are undone mix with
\* those that do not.
HeadBehindTail == headIndex = tailIndex \/ NonEmpty

\* For any number of workers, batches of any length and across the wrap-around of
\* index_t, try_dequeue claims no element that was not enqueued.
THEOREM NeverOverclaimed == QueueSpec /\ []NotOvertaken => []HeadBehindTail
<1>1. CountsInv => HeadBehindTail
  <2> SUFFICES ASSUME CountsInv PROVE HeadBehindTail
    OBVIOUS
  <2>1. PICK H \in Int, T \in Int, N \in Int, Z \in Int : Counted(H, T) /\ Tails(H, T, N, Z)
    BY DEF CountsInv
  <2>2. T - H < HalfRange /\ H <= T /\ headIndex = Wrap(H) /\ tailIndex = Wrap(T)
    BY <2>1, TailNear DEF Tails
  <2>3. CASE H = T
    BY <2>2, <2>3 DEF HeadBehindTail
  <2>4. CASE H < T
    <3>1. circular_less_than(H, T)
      BY <2>2, <2>4, Sizes, Compare
    <3>2. Wrap(T) \in Int
      BY Wrapped
    <3>3. circular_less_than(Wrap(H), Wrap(T))
      BY <3>1, CompareWrapped
    <3> QED BY <2>2, <3>3 DEF HeadBehindTail, NonEmpty
  <2> QED BY <2>2, <2>3, <2>4
<1>2. QueueInit /\ NotOvertaken => CountsInv
  <2>1. 0 \in Int /\ -1 \in Int
    OBVIOUS
  <2> QED BY <2>1, InitialCounts DEF CountsInv
<1> QED BY <1>1, <1>2, CountsNext, PTL DEF QueueSpec
=============================================================================
