-------------------------------- MODULE Relay --------------------------------
(***************************************************************************)
(* What a proxy process promises, with no descriptors, threads, buffer or  *)
(* queue: the request of each client that asks goes to the target once, on *)
(* a connection of its own, and what the target answers there comes back   *)
(* to that client, once.  Server implements it as long as the target       *)
(* neither refuses nor drops connections.                                  *)
(***************************************************************************)
EXTENDS Sequences

CONSTANT Clients

VARIABLES
  asked,      \* clients that have sent their request
  forwarded,  \* forwarded[k]: whose requests went to the target on k's connection
  answered,   \* connections the target has answered
  returned    \* returned[k]: whose answers client k was sent

relayVars == <<asked, forwarded, answered, returned>>

RelayInit ==
  /\ asked = {}
  /\ forwarded = [k \in Clients |-> <<>>]
  /\ answered = {}
  /\ returned = [k \in Clients |-> <<>>]

RelayAsk(k) ==
  /\ k \notin asked
  /\ asked' = asked \cup {k}
  /\ UNCHANGED <<forwarded, answered, returned>>

RelayForward(k) ==
  /\ k \in asked
  /\ forwarded[k] = <<>>
  /\ forwarded' = [forwarded EXCEPT ![k] = <<k>>]
  /\ UNCHANGED <<asked, answered, returned>>

RelayAnswer(k) ==
  /\ forwarded[k] # <<>>
  /\ k \notin answered
  /\ answered' = answered \cup {k}
  /\ UNCHANGED <<asked, forwarded, returned>>

RelayReturn(k) ==
  /\ k \in answered
  /\ returned[k] = <<>>
  /\ returned' = [returned EXCEPT ![k] = <<k>>]
  /\ UNCHANGED <<asked, forwarded, answered>>

RelayNext ==
  \E k \in Clients : RelayAsk(k) \/ RelayForward(k) \/ RelayAnswer(k) \/ RelayReturn(k)

RelaySafety == RelayInit /\ [][RelayNext]_relayVars

\* The proxy forwards and returns what it can; the target answers.
RelayFairness ==
  \A k \in Clients :
    WF_relayVars(RelayForward(k)) /\ WF_relayVars(RelayAnswer(k)) /\ WF_relayVars(RelayReturn(k))

RelaySpec == RelaySafety /\ RelayFairness
=============================================================================
