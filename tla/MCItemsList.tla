----------------------------- MODULE MCItemsList -----------------------------
(* Instances of ItemsList for TLC. *)
EXTENDS ItemsList

MCBodies == UNION {[1..n -> ItemIds] : n \in 0..3}
=============================================================================
