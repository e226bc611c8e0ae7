------------------------------- MODULE MCQueue -------------------------------
(***************************************************************************)
(* TLC instance of Queue.  The optimistic and the overcommit count are     *)
(* only compared with each other, in the same index_t arithmetic: states   *)
(* that differ by the same amount in both, and in what the consumers have  *)
(* read of them, are one for TLC.                                          *)
(***************************************************************************)
EXTENDS Queue, TLC

Symmetry == Permutations(Consumers) \cup Permutations(Blocks)

FromOvercommit(n) == Wrap(n - dequeueOvercommit)
RegView(c) ==
  [reg[c] EXCEPT
     !.overcommit = IF cpc[c] \in {"optimistic", "commit", "check"} THEN FromOvercommit(@) ELSE 0,
     !.count = IF cpc[c] = "check" THEN FromOvercommit(@) ELSE 0]

View ==
  <<tailIndex, headIndex, FromOvercommit(dequeueOptimisticCount), indexVars, blockVars,
    memoryVars, enqueueVars, cpc, [c \in Consumers |-> RegView(c)]>>
=============================================================================
