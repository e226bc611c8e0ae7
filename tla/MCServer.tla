------------------------------ MODULE MCServer ------------------------------
(* Instances of Server for TLC. *)
EXTENDS ServerInv, TLC

\* What libstdc++'s shuffle makes of n elements with default_random_engine(0).
MCPerm ==
  [n \in 1..BUFFER_SHUFFLING |->
     CASE n = 1 -> <<1>> [] n = 2 -> <<2, 1>> [] n = 3 -> <<3, 1, 2>> [] n = 4 -> <<3, 4, 2, 1>>]

MCFds == 1..2 * Cardinality(Clients)

Symmetric == Permutations(Clients) \cup Permutations(Workers)

\* One worker that is given tickets in the order of their events (no shuffling)
\* never crosses two connections, though clients leave and the target drops
\* connections before their request has been sent: an answer ticket is then
\* made beside the request's (server.cpp:88-93), and the request ticket is done
\* with before the other one's worker closes.  This is of a target that refuses
\* no connect: a refused one pairs a client with itself (client_socket.cpp:109),
\* its worker closes one number twice, and any later connection may be crossed.
UncrossedUnlessRefused ==
  "target_refuses" \notin Faults => OwnAnswer /\ OwnRequest /\ FreshTickets
=============================================================================
