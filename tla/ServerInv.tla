----------------------------- MODULE ServerInv -----------------------------
(***************************************************************************)
(* The inductive invariant behind Server's safety properties.  None of     *)
(* FreshTickets, OneTicket, OwnAnswer, OwnRequest is inductive alone: a    *)
(* worker's closes keep other tickets fresh only if no ticket shares its   *)
(* numbers, an answer ticket is alone only because the target speaks after *)
(* the request worker has finished, and so on around the circle.           *)
(***************************************************************************)
EXTENDS Server

\* What the types of a worker's and the poll thread's locals rest on.
WorkerTypes ==
  \A w \in Workers :
    /\ wpc[w] # "idle" => job[w] \in Tickets
    /\ wpc[w] = "blocked" => at[w] \in Ends
    /\ wpc[w] \in {"ecall", "enclave"} => msg[w] \in Messages

LoopTypes ==
  up => /\ ssock \in events => backlog # <<>>
        /\ lpc = "accept" => sckS \in Fds /\ ssock \in events

TypeInv == TypeOK /\ BufferBound /\ WorkerTypes /\ LoopTypes

\* One number per socket.
FdInjective ==
  \A f, g \in Fds : fdt[f] = fdt[g] /\ fdt[f] # Closed => f = g

Untouched(k) ==
  /\ ~Open(Client(k))
  /\ outbox[Client(k)] = <<>>
  /\ outbox[Upstream(k)] = <<>>

\* A client that has not been accepted has had no descriptor and no bytes;
\* only the one about to be accepted has an upstream socket.
Unaccepted ==
  /\ \A k \in Clients : client[k] = "away" =>
       Untouched(k) /\ ~Open(Upstream(k)) /\ \A i \in DOMAIN backlog : backlog[i] # k
  /\ \A i, j \in DOMAIN backlog : backlog[i] = backlog[j] => i = j
  /\ \A i \in DOMAIN backlog :
       /\ Untouched(backlog[i])
       /\ Open(Upstream(backlog[i])) => lpc = "accept" /\ i = 1

\* What the poll thread's locals refer to.
LoopState ==
  /\ lpc = "accept" => fdt[sckS] = Upstream(Head(backlog)) /\ sckS \notin epset
  /\ \A s \in events \ {ssock} : s \in epset /\ Readable(s)

\* A registered descriptor and what clientsfds says about it are one
\* connection, not yet answered.
Registered ==
  \A s \in epset : \E k \in Clients :
    /\ fdt[s] = Upstream(k)
    /\ EndOf(clientsfds[s]) = Client(k)
    /\ outbox[Client(k)] = <<>>

\* The target speaks when spoken to.
TargetSpeaks ==
  \A k \in Clients :
    /\ eof[Upstream(k)] \/ inbox[Upstream(k)] # NoMsg => outbox[Upstream(k)] # <<>>
    /\ inbox[Upstream(k)] \in {NoMsg, Response(k)}
    /\ inbox[Client(k)] \in {NoMsg, Request(k)}

\* Ticket t, not yet sent for, of connection k.
Due(t, k) ==
  /\ PairOf(t, k)
  /\ outbox[Client(k)] = <<>>
  /\ t.r = 0 => outbox[Upstream(k)] = <<>>
  /\ t.r = 1 => t.s \notin epset

DueTickets ==
  /\ \A i \in DOMAIN buffer : \E k \in Clients : Due(buffer[i], k)
  /\ \A i \in DOMAIN cq : \E k \in Clients : Due(cq[i], k)

Expected(t, k) == IF t.r = 0 THEN Request(k) ELSE Response(k)

\* A worker holds what its ticket told it to fetch, until it has sent it.
WorkerState ==
  \A w \in Workers :
    /\ wpc[w] = "blocked" => at[w] = EndOf(Source(job[w]))
    /\ wpc[w] \in {"recv", "blocked", "ecall", "enclave", "send"} =>
         \E k \in Clients :
           /\ Due(job[w], k)
           /\ wpc[w] \in {"ecall", "enclave"} => msg[w] = Expected(job[w], k)
           /\ wpc[w] = "send" =>
                msg[w] \in {NoMsg, Rewritten(Expected(job[w], k), job[w].r)}
    /\ wpc[w] = "close_s" =>
         job[w].s \notin epset /\ \E k \in Clients : PairOf(job[w], k)
    /\ wpc[w] = "close_c" =>
         \E k \in Clients : EndOf(job[w].c) = Client(k) /\ ~Open(Upstream(k))

IInv ==
  /\ TypeInv
  /\ up
  /\ FdInjective
  /\ Unaccepted
  /\ LoopState
  /\ Registered
  /\ TargetSpeaks
  /\ DueTickets
  /\ WorkerState
  /\ OneTicket
  /\ OwnAnswer
  /\ OwnRequest
=============================================================================
