------------------------------ MODULE ItemsList ------------------------------
(***************************************************************************)
(* iterative_encryption (Enclave/Enclave.cpp:100-129): the loop by which   *)
(* the second layer enciphers, under the key a query brought, the items of *)
(* its answer.  A body is the sequence of its item values; text around     *)
(* them is left out.                                                       *)
(*                                                                         *)
(* json_get_id_value reads the item at or after pos_end and moves pos_end  *)
(* past it; json_change_id_value then starts from that same pos_end, and   *)
(* from the body as it came in.                                            *)
(***************************************************************************)
EXTENDS Integers, Sequences

CONSTANTS
  ItemIds,    \* items of the recommender
  Bodies,     \* lists of items that answers have
  ENABLE_ITEMS_DECR,
  NoItem      \* json_get_id_value has found none

ASSUME ItemsListAssumption ==
  /\ Bodies \subseteq Seq(ItemIds)
  /\ ENABLE_ITEMS_DECR \in {0, 1}

VARIABLES
  buff,       \* the body the loop was given
  pos_end,    \* the number of items of buff up to the position of that name
  aenc,       \* the item json_get_id_value has read
  final_ret,  \* the body as last changed
  turn        \* "change", "read" or "done"

itemsVars == <<buff, pos_end, aenc, final_ret, turn>>

\* An item in clear, under the layer's own key (as the recommender has it if
\* items are pseudonyms), under the user's, or deciphered with the wrong key.
Forms == {"clear", "layer", "user", "garbled"}
ItemValues == [item : ItemIds, form : Forms]
Incoming == IF ENABLE_ITEMS_DECR = 1 THEN "layer" ELSE "clear"

\* sgx_aes_decrypt with sym_key, if the recommender's items are pseudonyms.
Deciphered(v) ==
  IF ENABLE_ITEMS_DECR = 1
  THEN [v EXCEPT !.form = IF @ = "layer" THEN "clear" ELSE "garbled"] ELSE v

\* sgx_aes_encrypt with u_key of what that gives.
Enciphered(v) ==
  [Deciphered(v) EXCEPT !.form = IF @ = "clear" THEN "user" ELSE "garbled"]

\* The first json_get_id_value.  If it finds nothing the loop is entered all
\* the same.
ItemsInit ==
  /\ \E b \in Bodies : buff = [i \in 1..Len(b) |-> [item |-> b[i], form |-> Incoming]]
  /\ final_ret = buff
  /\ IF buff = <<>> THEN pos_end = 0 /\ aenc = NoItem
                    ELSE pos_end = 1 /\ aenc = buff[1]
  /\ turn = "change"

\* [Wrong] the item that was read is the one that is changed.
ChangeItemRead ==
  /\ turn = "change"
  /\ final_ret' = IF aenc # NoItem
                  THEN [buff EXCEPT ![pos_end] = Enciphered(aenc)] ELSE buff
  /\ turn' = "read"
  /\ UNCHANGED <<buff, pos_end, aenc>>

\* json_change_id_value: the value goes into the item after pos_end, if there
\* is one, of a new copy of buff.
Change ==
  /\ turn = "change"
  /\ final_ret' = IF pos_end < Len(buff)
                  THEN [buff EXCEPT ![pos_end + 1] = Enciphered(aenc)] ELSE buff
  /\ turn' = "read"
  /\ UNCHANGED <<buff, pos_end, aenc>>

\* The next json_get_id_value reads from the changed copy.  The new value is
\* longer there than the item it replaces in buff, so that pos_end may end up
\* beyond further items of buff.
Read ==
  /\ turn = "read" /\ pos_end < Len(final_ret)
  /\ aenc' = final_ret[pos_end + 1]
  /\ pos_end' \in pos_end + 1..Len(buff)
  /\ turn' = "change"
  /\ UNCHANGED <<buff, final_ret>>

\* NULL: the copy is what iterative_encryption returns.
ReadNone ==
  /\ turn = "read" /\ pos_end >= Len(final_ret)
  /\ turn' = "done"
  /\ UNCHANGED <<buff, pos_end, aenc, final_ret>>

ItemsNext == Change \/ Read \/ ReadNone

ItemsSpec == ItemsInit /\ [][ItemsNext]_itemsVars

-----------------------------------------------------------------------------

\* What the loop does in the end: nothing.  The turn after which no item is
\* left to read is one that found no item to change.
ReturnsBuff == turn = "done" => final_ret = buff

\* README.md:19: the layers "pseudonymize users and items and hide links between
\* the two".  The first layer knows the user, so the items of the answer the
\* second one hands it should not be in clear.
NoItemInClear ==
  turn = "done" => \A i \in 1..Len(final_ret) : final_ret[i].form # "clear"

-----------------------------------------------------------------------------
(* The inductive invariant of ItemsList_proofs *)

ItemsType ==
  /\ buff \in Seq(ItemValues)
  /\ pos_end \in 0..Len(buff)
  /\ aenc \in ItemValues \cup {NoItem}
  /\ final_ret \in Seq(ItemValues)
  /\ turn \in {"change", "read", "done"}

\* A copy differs from buff only if there is an item left in it to read.
ItemsInv ==
  /\ ItemsType
  /\ Len(final_ret) = Len(buff)
  /\ pos_end < Len(buff) => aenc \in ItemValues
  /\ turn = "read" /\ pos_end = Len(buff) => final_ret = buff
  /\ ReturnsBuff
=============================================================================
