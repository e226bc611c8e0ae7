-------------------------------- MODULE Fifo --------------------------------
(***************************************************************************)
(* What poll_handler and its workers rely on of the queue between them     *)
(* (App/server.cpp:63-75,98): tickets leave in the order they came in,     *)
(* each to one worker.  A batch comes in at once; a worker first claims a  *)
(* ticket, then has it.  Tickets are numbered, modulo Numbers.             *)
(***************************************************************************)
EXTENDS Integers, Sequences

CONSTANTS Consumers, Numbers, MaxBatch, Nothing

VARIABLES
  came,  \* the number of the ticket that comes in next
  line,  \* what has come in and is not claimed, oldest first
  hand   \* hand[c]: what consumer c has claimed and not returned with

FifoInit == came = 0 /\ line = <<>> /\ hand = [c \in Consumers |-> Nothing]

ComeIn(n) ==
  /\ came' = (came + n) % Numbers
  /\ line' = line \o [k \in 1..n |-> (came + k - 1) % Numbers]
  /\ UNCHANGED hand

Claim(c) ==
  /\ line # <<>> /\ hand[c] = Nothing
  /\ hand' = [hand EXCEPT ![c] = Head(line)]
  /\ line' = Tail(line)
  /\ UNCHANGED came

\* try_dequeue returns.
HandOver(c) ==
  /\ hand[c] # Nothing
  /\ hand' = [hand EXCEPT ![c] = Nothing]
  /\ UNCHANGED <<came, line>>

FifoNext ==
  \/ \E n \in 0..MaxBatch : ComeIn(n)
  \/ \E c \in Consumers : Claim(c) \/ HandOver(c)

FifoSpec == FifoInit /\ [][FifoNext]_<<came, line, hand>>
=============================================================================
