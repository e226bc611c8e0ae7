------------------------------ MODULE MCEnclave ------------------------------
(* Instances of Enclave for TLC. *)
EXTENDS Enclave, TLC

MCPerms == Permutations(Conns) \cup Permutations(Threads) \cup Permutations(Ids)

AllConfigs == Configurations
SecondLayer == {[proxy_type |-> 2, enable_encryption |-> 1, enable_items_decr |-> 0]}
=============================================================================
