------------------------------- MODULE MCUnits -------------------------------
(***************************************************************************)
(* Instances for TLC of the parts that are models of their own: the timer  *)
(* of the shuffle buffer, the enclave, the free list and the producers of  *)
(* the queue, messages on their way, lists of items, the start of the      *)
(* process.  They share no state, so a behaviour is one of one of them,    *)
(* and the others rest: each part is checked as if it were alone.          *)
(***************************************************************************)
EXTENDS ShuffleTimer, MCEnclave, FreeList, Producers, Messages, MCItemsList, Startup

VARIABLE unit  \* the part this behaviour is one of

unitsVars ==
  <<unit, timerVars, enclaveVars, freeListVars, producersVars, messagesVars, itemsVars,
    startupVars>>

-----------------------------------------------------------------------------
(* Values of the constants *)

\* Two threads whose probing starts at the same slot, and one that starts at
\* the slot before.
MCHashedId == [t \in Enqueuers |-> IF t = 3 THEN 0 ELSE 1]

Message(h, c, b, blank) ==
  [head |-> h, clAt |-> c, claims |-> b, body |-> b, blankEnd |-> blank]

\* Without a body, with one, in chunks, too long for the buffer.
MCSent ==
  {Message(5, 3, 0, FALSE), Message(5, 3, 3, FALSE), Message(5, NoField, 0, FALSE),
   Message(5, NoField, 4, TRUE), Message(5, 3, 7, FALSE)}

\* Few permutations: TLC tries each of them on the states of every part.
MCSymmetry == Permutations(Conns)

-----------------------------------------------------------------------------
(* Parts at rest *)

FreeListRests ==
  /\ freeListHead = null
  /\ freeListRefs = [n \in Nodes |-> 0]
  /\ freeListNext = [n \in Nodes |-> null]
  /\ owner = [n \in Nodes |-> CHOOSE t \in Callers : TRUE]
  /\ flpc = [t \in Callers |-> "idle"]
  /\ head = [t \in Callers |-> null] /\ reload = head /\ next = head
  /\ node = head /\ expected = head
  /\ refs = [t \in Callers |-> 0]

MessagesRest ==
  /\ wire = Message(5, 3, 0, FALSE)
  /\ hop = 1 /\ total = 0 /\ passage = "discarded" /\ cut = FALSE

ItemsRest ==
  /\ buff = <<>> /\ pos_end = 0 /\ aenc = NoItem
  /\ final_ret = <<>> /\ turn = "done"

UnitsInit ==
  /\ TimerInit /\ EnclaveInit /\ ProducersInit /\ StartupInit
  /\ \/ unit \in {"timer", "enclave", "producers", "startup"}
        /\ FreeListRests /\ MessagesRest /\ ItemsRest
     \/ unit = "free list" /\ FreeListInit /\ MessagesRest /\ ItemsRest
     \/ unit = "messages" /\ FreeListRests /\ MessagesInit /\ ItemsRest
     \/ unit = "items" /\ FreeListRests /\ MessagesRest /\ ItemsInit

NoTimer == UNCHANGED timerVars
NoEnclave == UNCHANGED enclaveVars
NoFreeList == UNCHANGED freeListVars
NoProducers == UNCHANGED producersVars
NoMessages == UNCHANGED messagesVars
NoItems == UNCHANGED itemsVars
NoStartup == UNCHANGED startupVars

UnitsNext ==
  /\ UNCHANGED unit
  /\ \/ /\ unit = "timer" /\ TimerNext
        /\ NoEnclave /\ NoFreeList /\ NoProducers /\ NoMessages /\ NoItems /\ NoStartup
     \/ /\ unit = "enclave" /\ EnclaveNext
        /\ NoTimer /\ NoFreeList /\ NoProducers /\ NoMessages /\ NoItems /\ NoStartup
     \/ /\ unit = "free list" /\ FreeListNext
        /\ NoTimer /\ NoEnclave /\ NoProducers /\ NoMessages /\ NoItems /\ NoStartup
     \/ /\ unit = "producers" /\ ProducersNext
        /\ NoTimer /\ NoEnclave /\ NoFreeList /\ NoMessages /\ NoItems /\ NoStartup
     \/ /\ unit = "messages" /\ MessagesNext
        /\ NoTimer /\ NoEnclave /\ NoFreeList /\ NoProducers /\ NoItems /\ NoStartup
     \/ /\ unit = "items" /\ ItemsNext
        /\ NoTimer /\ NoEnclave /\ NoFreeList /\ NoProducers /\ NoMessages /\ NoStartup
     \/ /\ unit = "startup" /\ StartupNext
        /\ NoTimer /\ NoEnclave /\ NoFreeList /\ NoProducers /\ NoMessages /\ NoItems

UnitsSpec == UnitsInit /\ [][UnitsNext]_unitsVars
=============================================================================
