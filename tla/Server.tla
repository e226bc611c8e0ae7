------------------------------- MODULE Server -------------------------------
(***************************************************************************)
(* One PProx proxy process (App/server.cpp over App/common_socket.cpp).    *)
(*                                                                         *)
(* One thread runs poll_handler: it accepts clients, opens one upstream    *)
(* socket per client, keeps the pair in clientsfds, stages a ticket        *)
(* <<csock, sock, direction>> in a shuffle buffer and hands full or        *)
(* timed-out batches to a concurrent queue.  NB_THREADS workers take the   *)
(* tickets and run message_handler, which uses and closes the descriptors  *)
(* by NUMBER.  The kernel gives a closed number out again, so the model    *)
(* keeps the descriptor table: a ticket held too long names another        *)
(* connection's socket.                                                    *)
(*                                                                         *)
(* Message contents are abstracted to who asked and which rewriting the    *)
(* enclave applied (Enclave.cpp has its own module); a read returns a      *)
(* whole message, as do_recv does for the messages it accepts.             *)
(***************************************************************************)
EXTENDS Integers, Sequences, FiniteSets

CONSTANTS
  Clients,           \* the client connections, one request each
  Workers,           \* the NB_THREADS worker threads
  Fds,               \* descriptor numbers left for connections
  ssock,             \* the listening socket, as epoll reports it
  BUFFER_SHUFFLING,  \* capacity of the shuffle buffer
  EPOLL_SIZE,        \* most events one epoll_wait returns
  TCSNum,            \* threads the enclave admits at once
  Perm,              \* Perm[n]: what shuffle with engine(0) does to n tickets
  Faults,            \* which of FaultKinds the environment may produce
  Closed, NoMsg      \* "no such descriptor", "no message"

FaultKinds == {"client_leaves", "target_refuses", "target_hangs_up"}

Rearrangements(n) == {p \in [1..n -> 1..n] : \A i, j \in 1..n : p[i] = p[j] => i = j}

Ends == {"client", "server"} \X Clients
Client(k) == <<"client", k>>
Upstream(k) == <<"server", k>>

Messages == [kind : {"request", "answer"}, of : Clients, via : {-1, 0, 1}]
Request(k) == [kind |-> "request", of |-> k, via |-> -1]
Response(k) == [kind |-> "answer", of |-> k, via |-> -1]

\* What do_recv returned: a message or nothing.
Received == Messages \cup {NoMsg}

\* class Socks: client descriptor, upstream descriptor, 0 = request 1 = answer.
\* -1 and 0 are the values clientsfds holds where no client is recorded.
Tickets == [c : Fds \cup {-1, 0}, s : Fds, r : {0, 1}]
Ticket(c, s, r) == [c |-> c, s |-> s, r |-> r]
NoTicket == [c |-> -1, s |-> -1, r |-> -1]

ASSUME ServerAssumption ==
  /\ Fds \subseteq Nat \ {0}
  /\ ssock \notin Fds
  /\ Closed \notin Ends
  /\ NoMsg \notin Messages
  /\ BUFFER_SHUFFLING \in Nat \ {0}
  /\ EPOLL_SIZE \in Nat \ {0}
  /\ TCSNum \in Nat
  /\ Perm \in [1..BUFFER_SHUFFLING -> UNION {[1..n -> 1..n] : n \in 1..BUFFER_SHUFFLING}]
  /\ \A n \in 1..BUFFER_SHUFFLING : Perm[n] \in Rearrangements(n)
  /\ Faults \subseteq FaultKinds

VARIABLES
  client,      \* client[k]: how far client k has got
  backlog,     \* connections waiting in ssock's accept queue
  inbox,       \* inbox[e]: message the proxy can read at end e
  eof,         \* eof[e]: the peer of end e has closed its side
  outbox,      \* outbox[e]: the messages the proxy has sent to end e
  fdt,         \* the kernel's descriptor table
  epset,       \* descriptors registered with epoll, ssock apart
  lpc,         \* where the poll thread is
  events,      \* events of the last epoll_wait not yet handled
  sckS,        \* poll_handler's local of that name
  buffer,      \* shuffle buffer, waiting = Len(buffer)
  clientsfds,  \* client descriptor recorded for an upstream one
  cq,          \* the concurrent queue
  wpc,         \* where each worker is
  job,         \* the ticket it works on
  at,          \* the socket its recv is blocked on
  msg,         \* the message it carries
  up           \* the process has not exited

envVars == <<client, backlog, inbox, eof, outbox>>
loopVars == <<epset, lpc, events, sckS, buffer, clientsfds>>
workerVars == <<wpc, job, at, msg>>
vars == <<envVars, fdt, loopVars, cq, workerVars, up>>

WorkerSteps ==
  {"idle", "recv", "blocked", "ecall", "enclave", "send", "close_s", "close_c"}

TypeOK ==
  /\ client \in [Clients -> {"away", "silent", "asked"}]
  /\ backlog \in Seq(Clients)
  /\ inbox \in [Ends -> Received]
  /\ eof \in [Ends -> BOOLEAN]
  /\ outbox \in [Ends -> Seq(Messages)]
  /\ fdt \in [Fds -> Ends \cup {Closed}]
  /\ epset \in SUBSET Fds
  /\ lpc \in {"poll", "dispatch", "accept"}
  /\ events \in SUBSET (Fds \cup {ssock})
  /\ sckS \in Fds \cup {-1}
  /\ buffer \in Seq(Tickets)
  /\ clientsfds \in [Fds -> Fds \cup {-1, 0}]
  /\ cq \in Seq(Tickets)
  /\ wpc \in [Workers -> WorkerSteps]
  /\ job \in [Workers -> Tickets \cup {NoTicket}]
  /\ at \in [Workers -> Ends \cup {Closed}]
  /\ msg \in [Workers -> Received]
  /\ up \in BOOLEAN

Init ==
  /\ client = [k \in Clients |-> "away"]
  /\ backlog = <<>>
  /\ inbox = [e \in Ends |-> NoMsg]
  /\ eof = [e \in Ends |-> FALSE]
  /\ outbox = [e \in Ends |-> <<>>]
  /\ fdt = [f \in Fds |-> Closed]
  /\ epset = {}
  /\ lpc = "poll"
  /\ events = {}
  /\ sckS = -1
  /\ buffer = <<>>
  /\ clientsfds = [f \in Fds |-> 0]
  /\ cq = <<>>
  /\ wpc = [w \in Workers |-> "idle"]
  /\ job = [w \in Workers |-> NoTicket]
  /\ at = [w \in Workers |-> Closed]
  /\ msg = [w \in Workers |-> NoMsg]
  /\ up = TRUE

-----------------------------------------------------------------------------
(* The kernel's descriptor table *)

\* socket() and accept() return the lowest number not in use.
LowestFree(f) ==
  /\ fdt[f] = Closed
  /\ \A g \in Fds : g < f => fdt[g] # Closed

\* What a number means to a system call now; Closed is EBADF.
EndOf(f) == IF f \in Fds THEN fdt[f] ELSE Closed

\* close(f): the number is free and its epoll registration is gone.
CloseFd(f) ==
  /\ fdt' = [g \in Fds |-> IF g = f THEN Closed ELSE fdt[g]]
  /\ epset' = epset \ {f}

-----------------------------------------------------------------------------
(* Clients and the target, external to the proxy *)

\* A client connects; the kernel queues the connection on ssock.
Arrive(k) ==
  /\ client[k] = "away"
  /\ client' = [client EXCEPT ![k] = "silent"]
  /\ backlog' = Append(backlog, k)
  /\ UNCHANGED <<inbox, eof, outbox, fdt, loopVars, cq, workerVars, up>>

\* It sends its request, before or after the proxy has accepted it.
Ask(k) ==
  /\ client[k] = "silent" /\ ~eof[Client(k)]
  /\ client' = [client EXCEPT ![k] = "asked"]
  /\ inbox' = [inbox EXCEPT ![Client(k)] = Request(k)]
  /\ UNCHANGED <<backlog, eof, outbox, fdt, loopVars, cq, workerVars, up>>

\* It gives up and closes its side, whether or not it has asked.
Leave(k) ==
  /\ "client_leaves" \in Faults
  /\ client[k] # "away" /\ ~eof[Client(k)]
  /\ eof' = [eof EXCEPT ![Client(k)] = TRUE]
  /\ UNCHANGED <<client, backlog, inbox, outbox, fdt, loopVars, cq, workerVars, up>>

\* The target answers the first thing it was sent on a connection, if that is
\* a request, and closes: update_headers asked it for "Connection: Close".
Reply(k) ==
  /\ ~eof[Upstream(k)]
  /\ outbox[Upstream(k)] # <<>>
  /\ Head(outbox[Upstream(k)]).kind = "request"
  /\ inbox' = [inbox EXCEPT ![Upstream(k)] = Response(Head(outbox[Upstream(k)]).of)]
  /\ eof' = [eof EXCEPT ![Upstream(k)] = TRUE]
  /\ UNCHANGED <<client, backlog, outbox, fdt, loopVars, cq, workerVars, up>>

\* The target drops an open connection unanswered (restart, idle timeout).
HangUp(k) ==
  /\ "target_hangs_up" \in Faults
  /\ ~eof[Upstream(k)]
  /\ \E f \in Fds : fdt[f] = Upstream(k)
  /\ eof' = [eof EXCEPT ![Upstream(k)] = TRUE]
  /\ UNCHANGED <<client, backlog, inbox, outbox, fdt, loopVars, cq, workerVars, up>>

-----------------------------------------------------------------------------
(* The poll thread: poll_handler's loop *)

Readable(f) == fdt[f] # Closed /\ (inbox[fdt[f]] # NoMsg \/ eof[fdt[f]])

Ready ==
  {f \in epset : Readable(f)} \cup (IF backlog = <<>> THEN {} ELSE {ssock})

\* [Wrong] sampling in place of a permutation.
ShuffledWithRepeats(b) == [i \in 1..Len(b) |-> b[1]]

\* buffer permuted the way default_random_engine(0) always permutes its length.
Shuffled(b) == [i \in 1..Len(b) |-> b[Perm[Len(b)][i]]]

\* [Wrong] waiting is not reset after the hand-off.
StageNoReset(x) ==
  LET b == Append(buffer, x)
  IN  /\ buffer' = b
      /\ cq' = IF Len(b) = BUFFER_SHUFFLING THEN cq \o Shuffled(b) ELSE cq

\* [Wrong] each ticket goes to the queue at once.
StageUnbuffered(x) == cq' = Append(cq, x) /\ UNCHANGED buffer

\* buffer[waiting++] = x, and the hand-off that ends the loop body when the
\* buffer is full.
Stage(x) ==
  LET b == Append(buffer, x)
  IN  IF Len(b) = BUFFER_SHUFFLING
      THEN cq' = cq \o Shuffled(b) /\ buffer' = <<>>
      ELSE buffer' = b /\ UNCHANGED cq

\* Where the loop goes when event e of the batch has been handled.
Handled(e) ==
  /\ events' = events \ {e}
  /\ lpc' = IF events \ {e} = {} THEN "poll" ELSE "dispatch"

\* epoll_wait returns what is ready, at most EPOLL_SIZE events, in any order.
Poll ==
  /\ lpc = "poll" /\ up
  /\ \E E \in SUBSET Ready :
       /\ E # {}
       /\ Cardinality(E) <= EPOLL_SIZE
       /\ E = Ready \/ Cardinality(E) = EPOLL_SIZE
       /\ events' = E
  /\ lpc' = "dispatch"
  /\ UNCHANGED <<envVars, fdt, epset, sckS, buffer, clientsfds, cq, workerVars, up>>

\* [Wrong] enqueue_bulk(buffer, BUFFER_SHUFFLING): unused entries go along.
TimeoutWholeArray ==
  /\ lpc = "poll" /\ up
  /\ Ready = {}
  /\ cq' = cq \o Shuffled(buffer) \o [i \in 1..BUFFER_SHUFFLING - Len(buffer) |-> NoTicket]
  /\ buffer' = <<>>
  /\ UNCHANGED <<envVars, fdt, epset, lpc, events, sckS, clientsfds, workerVars, up>>

\* [Wrong] only a full buffer is handed off.
TimeoutKeepsBuffer ==
  /\ lpc = "poll" /\ up
  /\ Ready = {}
  /\ UNCHANGED vars

\* One second passes with no event: whatever is buffered is handed off.
Timeout ==
  /\ lpc = "poll" /\ up
  /\ Ready = {}
  /\ cq' = IF buffer = <<>> THEN cq ELSE cq \o Shuffled(buffer)
  /\ buffer' = <<>>
  /\ UNCHANGED <<envVars, fdt, epset, lpc, events, sckS, clientsfds, workerVars, up>>

\* First half of the request branch: do_connect opens the upstream socket of
\* the client about to be accepted.  A refused connect closes the socket and
\* returns its number all the same.
Connect ==
  /\ lpc = "dispatch" /\ up
  /\ ssock \in events
  /\ \E s \in Fds :
       /\ LowestFree(s)
       /\ sckS' = s
       /\ \/ fdt' = [fdt EXCEPT ![s] = Upstream(Head(backlog))]
          \/ "target_refuses" \in Faults /\ UNCHANGED fdt
  /\ lpc' = "accept"
  /\ UNCHANGED <<envVars, epset, events, buffer, clientsfds, cq, workerVars, up>>

\* Second half: do_accept, the pairing, epoll registration and the ticket.
\* epoll_ctl_add exits the process when sckS is not an open descriptor.
Accept ==
  /\ lpc = "accept" /\ up
  /\ \E c \in Fds :
       /\ LowestFree(c)
       /\ fdt' = [fdt EXCEPT ![c] = Client(Head(backlog))]
       /\ backlog' = Tail(backlog)
       /\ clientsfds' = [clientsfds EXCEPT ![sckS] = c]
       /\ \/ /\ fdt'[sckS] # Closed
             /\ epset' = epset \cup {sckS}
             /\ Stage(Ticket(c, sckS, 0))
             /\ Handled(ssock)
             /\ UNCHANGED up
          \/ /\ fdt'[sckS] = Closed
             /\ up' = FALSE
             /\ UNCHANGED <<epset, buffer, cq, events, lpc>>
  /\ sckS' = -1
  /\ UNCHANGED <<client, inbox, eof, outbox, workerVars>>

\* [Wrong] no EPOLL_CTL_DEL.
AnswerEventStaysRegistered(s) ==
  /\ lpc = "dispatch" /\ up
  /\ s \in events \ {ssock}
  /\ Stage(Ticket(clientsfds[s], s, 1))
  /\ Handled(s)
  /\ UNCHANGED <<envVars, fdt, epset, clientsfds, sckS, workerVars, up>>

\* [Wrong] clientsfds is read after it has been cleared.
AnswerEventClearsFirst(s) ==
  /\ lpc = "dispatch" /\ up
  /\ s \in events \ {ssock}
  /\ clientsfds' = [clientsfds EXCEPT ![s] = -1]
  /\ epset' = epset \ {s}
  /\ Stage(Ticket(-1, s, 1))
  /\ Handled(s)
  /\ UNCHANGED <<envVars, fdt, sckS, workerVars, up>>

\* The other branch: an event on an upstream socket is taken for its answer.
\* (CloseFd may have freed the number since epoll_wait; DEL then fails, unseen.)
AnswerEvent(s) ==
  /\ lpc = "dispatch" /\ up
  /\ s \in events \ {ssock}
  /\ clientsfds' = [clientsfds EXCEPT ![s] = -1]
  /\ epset' = epset \ {s}
  /\ Stage(Ticket(clientsfds[s], s, 1))
  /\ Handled(s)
  /\ UNCHANGED <<envVars, fdt, sckS, workerVars, up>>

Loop == Poll \/ Timeout \/ Connect \/ Accept \/ \E s \in Fds : AnswerEvent(s)

-----------------------------------------------------------------------------
(* The workers: try_dequeue, then message_handler *)

\* [Wrong] the latest ticket is taken first.
DequeueLast(w) ==
  /\ wpc[w] = "idle" /\ up
  /\ cq # <<>>
  /\ job' = [job EXCEPT ![w] = cq[Len(cq)]]
  /\ cq' = SubSeq(cq, 1, Len(cq) - 1)
  /\ wpc' = [wpc EXCEPT ![w] = "recv"]
  /\ UNCHANGED <<envVars, fdt, loopVars, at, msg, up>>

Dequeue(w) ==
  /\ wpc[w] = "idle" /\ up
  /\ cq # <<>>
  /\ job' = [job EXCEPT ![w] = Head(cq)]
  /\ cq' = Tail(cq)
  /\ wpc' = [wpc EXCEPT ![w] = "recv"]
  /\ UNCHANGED <<envVars, fdt, loopVars, at, msg, up>>

Source(t) == IF t.r = 0 THEN t.c ELSE t.s

\* [Wrong] csock and sock mixed up in do_send.
DestinationSwapped(t) == IF t.r = 0 THEN t.c ELSE t.s

Destination(t) == IF t.r = 0 THEN t.s ELSE t.c

\* do_recv enters recv(): the number is resolved now, and the call keeps that
\* socket even if the number is closed meanwhile.  A bad number reads nothing,
\* and with nothing read the enclave is not called.
RecvCall(w) ==
  /\ wpc[w] = "recv" /\ up
  /\ LET e == EndOf(Source(job[w])) IN
       /\ at' = [at EXCEPT ![w] = e]
       /\ wpc' = [wpc EXCEPT ![w] = IF e = Closed THEN "send" ELSE "blocked"]
  /\ UNCHANGED <<envVars, fdt, loopVars, cq, job, msg, up>>

\* [Wrong] a recv that returns 0 is tried again.
RecvReturnIgnoresEof(w) ==
  /\ wpc[w] = "blocked" /\ up
  /\ inbox[at[w]] # NoMsg
  /\ wpc' = [wpc EXCEPT ![w] = "ecall"]
  /\ msg' = [msg EXCEPT ![w] = inbox[at[w]]]
  /\ inbox' = [inbox EXCEPT ![at[w]] = NoMsg]
  /\ at' = [at EXCEPT ![w] = Closed]
  /\ UNCHANGED <<client, backlog, eof, outbox, fdt, loopVars, cq, job, up>>

\* recv() returns the message, or nothing once the peer has closed.
RecvReturn(w) ==
  /\ wpc[w] = "blocked" /\ up
  /\ \/ /\ inbox[at[w]] # NoMsg
        /\ wpc' = [wpc EXCEPT ![w] = "ecall"]
     \/ /\ inbox[at[w]] = NoMsg /\ eof[at[w]]
        /\ wpc' = [wpc EXCEPT ![w] = "send"]
  /\ msg' = [msg EXCEPT ![w] = inbox[at[w]]]
  /\ inbox' = [inbox EXCEPT ![at[w]] = NoMsg]
  /\ at' = [at EXCEPT ![w] = Closed]
  /\ UNCHANGED <<client, backlog, eof, outbox, fdt, loopVars, cq, job, up>>

InEnclave == {v \in Workers : wpc[v] = "enclave"}

\* [Wrong] one TCS fewer than configured.
EnterEnclaveOneLess(w) ==
  /\ wpc[w] = "ecall" /\ up
  /\ \/ /\ Cardinality(InEnclave) + 1 < TCSNum
        /\ wpc' = [wpc EXCEPT ![w] = "enclave"]
        /\ UNCHANGED msg
     \/ /\ Cardinality(InEnclave) + 1 >= TCSNum
        /\ wpc' = [wpc EXCEPT ![w] = "send"]
        /\ msg' = [msg EXCEPT ![w] = NoMsg]
  /\ UNCHANGED <<envVars, fdt, loopVars, cq, job, at, up>>

\* [Wrong] what the enclave did not take is sent as it came.
EnterEnclaveSendsRaw(w) ==
  /\ wpc[w] = "ecall" /\ up
  /\ wpc' = [wpc EXCEPT ![w] = IF Cardinality(InEnclave) < TCSNum THEN "enclave" ELSE "send"]
  /\ UNCHANGED <<envVars, fdt, loopVars, cq, job, at, msg, up>>

\* ecall_proxy needs a free TCS; without one the call fails, its status is not
\* looked at and the message is gone.
EnterEnclave(w) ==
  /\ wpc[w] = "ecall" /\ up
  /\ \/ /\ Cardinality(InEnclave) < TCSNum
        /\ wpc' = [wpc EXCEPT ![w] = "enclave"]
        /\ UNCHANGED msg
     \/ /\ Cardinality(InEnclave) >= TCSNum
        /\ wpc' = [wpc EXCEPT ![w] = "send"]
        /\ msg' = [msg EXCEPT ![w] = NoMsg]
  /\ UNCHANGED <<envVars, fdt, loopVars, cq, job, at, up>>

\* The rewriting depends on the direction the ticket claims, nothing else.
LeaveEnclave(w) ==
  /\ wpc[w] = "enclave" /\ up
  /\ msg' = [msg EXCEPT ![w].via = job[w].r]
  /\ wpc' = [wpc EXCEPT ![w] = "send"]
  /\ UNCHANGED <<envVars, fdt, loopVars, cq, job, at, up>>

\* do_send to whatever the number means now; a request ticket is then done.
Send(w) ==
  /\ wpc[w] = "send" /\ up
  /\ LET e == EndOf(Destination(job[w])) IN
       outbox' = IF e = Closed \/ msg[w] = NoMsg THEN outbox
                 ELSE [outbox EXCEPT ![e] = Append(outbox[e], msg[w])]
  /\ msg' = [msg EXCEPT ![w] = NoMsg]
  /\ \/ /\ job[w].r = 0
        /\ wpc' = [wpc EXCEPT ![w] = "idle"]
        /\ job' = [job EXCEPT ![w] = NoTicket]
     \/ /\ job[w].r = 1
        /\ wpc' = [wpc EXCEPT ![w] = "close_s"]
        /\ UNCHANGED job
  /\ UNCHANGED <<client, backlog, inbox, eof, fdt, loopVars, cq, at, up>>

\* close(sock); the poll thread may reuse the number before ...
CloseSock(w) ==
  /\ wpc[w] = "close_s" /\ up
  /\ CloseFd(job[w].s)
  /\ wpc' = [wpc EXCEPT ![w] = "close_c"]
  /\ UNCHANGED <<envVars, lpc, events, sckS, buffer, clientsfds, cq, job, at, msg, up>>

\* [Wrong] close(sock) twice.
CloseCsockClosesSock(w) ==
  /\ wpc[w] = "close_c" /\ up
  /\ CloseFd(job[w].s)
  /\ wpc' = [wpc EXCEPT ![w] = "idle"]
  /\ job' = [job EXCEPT ![w] = NoTicket]
  /\ UNCHANGED <<envVars, lpc, events, sckS, buffer, clientsfds, cq, at, msg, up>>

\* ... close(csock).
CloseCsock(w) ==
  /\ wpc[w] = "close_c" /\ up
  /\ CloseFd(job[w].c)
  /\ wpc' = [wpc EXCEPT ![w] = "idle"]
  /\ job' = [job EXCEPT ![w] = NoTicket]
  /\ UNCHANGED <<envVars, lpc, events, sckS, buffer, clientsfds, cq, at, msg, up>>

Worker(w) ==
  \/ Dequeue(w) \/ RecvCall(w) \/ RecvReturn(w) \/ EnterEnclave(w)
  \/ LeaveEnclave(w) \/ Send(w) \/ CloseSock(w) \/ CloseCsock(w)

Environment == \E k \in Clients : Arrive(k) \/ Ask(k) \/ Leave(k) \/ Reply(k) \/ HangUp(k)

Next == Environment \/ Loop \/ \E w \in Workers : Worker(w)

Spec == Init /\ [][Next]_vars

\* The threads are scheduled; a connected client sends its request or leaves;
\* the target answers what it is sent.
Fairness ==
  /\ WF_vars(Loop)
  /\ \A w \in Workers : WF_vars(Worker(w))
  /\ \A k \in Clients : WF_vars(Ask(k)) /\ WF_vars(Reply(k))

FairSpec == Spec /\ Fairness

\* The same with clients that may stay connected and silent.
SilentFairSpec ==
  /\ Spec
  /\ WF_vars(Loop)
  /\ \A w \in Workers : WF_vars(Worker(w))
  /\ \A k \in Clients : WF_vars(Reply(k))

-----------------------------------------------------------------------------
(* Properties.  All of them but TypeOK, BufferBound and BatchHandOff suppose *)
(* that the target neither refuses nor drops a connection; the runs with     *)
(* those faults show why.                                                    *)

WellBehaved == Faults \cap {"target_refuses", "target_hangs_up"} = {}

Rewritten(m, r) == [m EXCEPT !.via = r]

\* Nothing is sent to a client but the answer to its own request, once and
\* rewritten in the answer direction (message_handler, ifreq = 1).
OwnAnswer ==
  \A k \in Clients : outbox[Client(k)] \in {<<>>, <<Rewritten(Response(k), 1)>>}

\* Nothing is sent on an upstream connection but the request of the client it
\* was opened for, once and rewritten in the request direction (ifreq = 0).
OwnRequest ==
  \A k \in Clients : outbox[Upstream(k)] \in {<<>>, <<Rewritten(Request(k), 0)>>}

\* Nothing but answers is sent to a client: server.cpp:88, "[C]<--[S] answer".
AnswersOnly ==
  \A k \in Clients : \A i \in DOMAIN outbox[Client(k)] : outbox[Client(k)][i].kind = "answer"

PairOf(t, k) == EndOf(t.c) = Client(k) /\ EndOf(t.s) = Upstream(k)
Paired(t) == \E k \in Clients : PairOf(t, k)

\* A ticket holds descriptor numbers.  While it is staged, queued or worked on
\* its two numbers name the two sockets of one connection; a worker between
\* its two closes still owns the second number.
FreshTickets ==
  /\ \A i \in DOMAIN buffer : Paired(buffer[i])
  /\ \A i \in DOMAIN cq : Paired(cq[i])
  /\ \A w \in Workers : wpc[w] \notin {"idle", "close_c"} => Paired(job[w])
  /\ \A w \in Workers : wpc[w] = "close_c" => \E k \in Clients : EndOf(job[w].c) = Client(k)

Distinct(q) == \A i, j \in DOMAIN q : q[i].c = q[j].c => i = j
Apart(q, b) == \A i \in DOMAIN q, j \in DOMAIN b : q[i].c # b[j].c
Absent(t, q) == \A i \in DOMAIN q : q[i].c # t.c

\* A connection has one ticket at a time: its answer's is made only after its
\* request's is finished with, so no two workers touch the same sockets and
\* no shuffle can put the answer first.
OneTicket ==
  /\ Distinct(buffer) /\ Distinct(cq) /\ Apart(cq, buffer)
  /\ \A w \in Workers : wpc[w] # "idle" =>
       /\ Absent(job[w], buffer) /\ Absent(job[w], cq)
       /\ \A v \in Workers \ {w} : wpc[v] # "idle" => job[w].c # job[v].c

\* poll_handler never writes past buffer[BUFFER_SHUFFLING - 1], and never
\* sleeps in epoll_wait on a full buffer.
BufferBound == Len(buffer) < BUFFER_SHUFFLING

Open(e) == \E f \in Fds : fdt[f] = e

\* The proxy hangs up on a client only after sending it its answer.  (It takes
\* enough TCSs for all workers, or an answer may be dropped at the enclave.)
ClosedAfterAnswer ==
  [][\A k \in Clients :
       Open(Client(k)) /\ ~Open(Client(k))' => outbox[Client(k)] # <<>>]_vars

\* A batch reaches the workers full, or after a second in which nothing came.
BatchHandOff ==
  [][Len(cq') > Len(cq) => Len(cq') - Len(cq) = BUFFER_SHUFFLING \/ Ready = {}]_vars

\* Every client that asks is answered and both its descriptors are released.
\* (README.md:183 speaks of a "delay before PProx sends a response anyways";
\* no such delay is in the code, so it rests on every client asking or leaving.)
AskedIsServed ==
  \A k \in Clients :
    client[k] = "asked" ~> outbox[Client(k)] # <<>> /\ ~Open(Client(k)) /\ ~Open(Upstream(k))

\* A worker that has taken a ticket gets done with it, even if the client has
\* connected, sent nothing and left.
WorkersReturn == \A w \in Workers : wpc[w] # "idle" ~> wpc[w] = "idle"

\* What the target and the clients see of the proxy is what Relay promises.
Senders(e) == [i \in DOMAIN outbox[e] |-> outbox[e][i].of]

R == INSTANCE Relay WITH
       asked <- {k \in Clients : client[k] = "asked"},
       forwarded <- [k \in Clients |-> Senders(Upstream(k))],
       answered <- {k \in Clients : eof[Upstream(k)]},
       returned <- [k \in Clients |-> Senders(Client(k))]

RelaySafety == R!RelaySafety
RelaySpec == R!RelaySpec
=============================================================================
