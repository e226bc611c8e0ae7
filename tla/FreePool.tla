------------------------------ MODULE FreePool ------------------------------
(***************************************************************************)
(* What the queue's free list of blocks promises its users                 *)
(* (App/concurrentqueue.h, add_block_to_free_list and                      *)
(* try_get_block_from_free_list): a block is given up by the thread that   *)
(* has it and later taken by one thread.  Nothing is promised about which  *)
(* block is taken, nor that there being one is noticed.                    *)
(***************************************************************************)
CONSTANTS Callers, Nodes, Pooled

VARIABLE owner  \* owner[n]: the thread that has block n, or Pooled

PoolInit == owner \in [Nodes -> Callers \cup {Pooled}]

Give(t, n) == owner[n] = t /\ owner' = [owner EXCEPT ![n] = Pooled]
Take(t, n) == owner[n] = Pooled /\ owner' = [owner EXCEPT ![n] = t]

PoolNext == \E t \in Callers, n \in Nodes : Give(t, n) \/ Take(t, n)

PoolSpec == PoolInit /\ [][PoolNext]_owner
=============================================================================
