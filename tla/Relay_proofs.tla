----------------------------- MODULE Relay_proofs -----------------------------
(***************************************************************************)
(* Server implements Relay: what the target and the clients see of a proxy *)
(* is a relay's doing, whatever the number of clients, workers and         *)
(* descriptors.  And what IInv says further of batches and of closing.     *)
(***************************************************************************)
EXTENDS Server_proofs, FiniteSetTheorems

-----------------------------------------------------------------------------
(* Where messages come from *)

\* A request that is under way was asked for, and an answer was given: what
\* the proxy forwards and returns is not of its own making.
Provenance ==
  /\ \A k \in Clients : inbox[Client(k)] # NoMsg => client[k] = "asked"
  /\ \A k \in Clients : inbox[Upstream(k)] # NoMsg => eof[Upstream(k)]
  /\ \A w \in Workers : msg[w] # NoMsg =>
       IF msg[w].kind = "request" THEN client[msg[w].of] = "asked" ELSE eof[Upstream(msg[w].of)]

LEMMA ProvenanceInit == Init => Provenance
BY EndNames DEF Init, Provenance

\* The peers speak, and what they said stays said.
LEMMA ProvenanceEnvironment ==
  ASSUME TypeInv, Provenance, Environment
  PROVE  Provenance'
<1> USE DEF envVars, loopVars, workerVars
<1>1. PICK k \in Clients : Arrive(k) \/ Ask(k) \/ Leave(k) \/ Reply(k) \/ HangUp(k)
  BY DEF Environment
<1>2. /\ client \in [Clients -> {"away", "silent", "asked"}]
      /\ inbox \in [Ends -> Received]
      /\ eof \in [Ends -> BOOLEAN]
      /\ msg \in [Workers -> Received]
  BY DEF TypeInv, TypeOK
<1>3. \A w \in Workers : msg[w] # NoMsg => msg[w].of \in Clients
  BY <1>2 DEF Received, Messages
<1>4. msg' = msg
  BY <1>1 DEF Arrive, Ask, Leave, Reply, HangUp
<1>5. CASE Arrive(k)
  BY <1>2, <1>3, <1>4, <1>5, EndNames DEF Arrive, Provenance
<1>6. CASE Ask(k)
  BY <1>2, <1>3, <1>4, <1>6, EndNames DEF Ask, Provenance
<1>7. CASE Leave(k) \/ HangUp(k)
  BY <1>2, <1>3, <1>4, <1>7, EndNames DEF Leave, HangUp, Provenance
<1>8. CASE Reply(k)
  BY <1>2, <1>3, <1>4, <1>8, EndNames DEF Reply, Provenance
<1> QED
  BY <1>1, <1>5, <1>6, <1>7, <1>8

\* Workers take messages from a peer, rewrite or drop them.
LEMMA ProvenanceWorker ==
  ASSUME IInv, Provenance, NEW w \in Workers, Worker(w)
  PROVE  Provenance'
<1> USE DEF envVars, loopVars
<1>1. /\ inbox \in [Ends -> Received]
      /\ msg \in [Workers -> Received]
      /\ job \in [Workers -> Tickets \cup {NoTicket}]
  BY DEF IInv, TypeInv, TypeOK
<1>2. CASE RecvReturn(w)
  <2>1. /\ wpc[w] = "blocked"
        /\ msg' = [msg EXCEPT ![w] = inbox[at[w]]]
        /\ inbox' = [inbox EXCEPT ![at[w]] = NoMsg]
        /\ UNCHANGED <<client, eof>>
    BY <1>2 DEF RecvReturn
  <2>2. at[w] \in Ends
    BY <2>1 DEF IInv, TypeInv, WorkerTypes
  <2>3. PICK k \in Clients : at[w] = Client(k) \/ at[w] = Upstream(k)
    BY <2>2 DEF Ends, Client, Upstream
  <2>4. inbox[at[w]] # NoMsg =>
          IF inbox[at[w]].kind = "request" THEN client[inbox[at[w]].of] = "asked"
                                           ELSE eof[Upstream(inbox[at[w]].of)]
    BY <2>3 DEF IInv, TargetSpeaks, Provenance, Request, Response
  <2>5. \A e \in Ends : inbox'[e] # NoMsg => inbox'[e] = inbox[e]
    BY <1>1, <2>1
  <2> QED
    BY <1>1, <2>1, <2>4, <2>5, EndNames DEF Provenance
<1>3. CASE LeaveEnclave(w)
  <2>1. /\ msg' = [msg EXCEPT ![w].via = job[w].r]
        /\ wpc[w] = "enclave"
        /\ UNCHANGED <<client, eof, inbox>>
    BY <1>3 DEF LeaveEnclave
  <2>2. msg[w] \in Messages
    BY <2>1 DEF IInv, TypeInv, WorkerTypes
  <2>3. msg'[w].kind = msg[w].kind /\ msg'[w].of = msg[w].of /\ msg[w] # NoMsg
    BY <1>1, <2>1, <2>2, ServerAssumption DEF Messages
  <2>4. \A v \in Workers \ {w} : msg'[v] = msg[v]
    BY <1>1, <2>1
  <2> QED
    BY <2>1, <2>3, <2>4 DEF Provenance
<1>4. CASE EnterEnclave(w) \/ Send(w)
  <2>1. /\ msg' = msg \/ msg' = [msg EXCEPT ![w] = NoMsg]
        /\ UNCHANGED <<client, eof, inbox>>
    BY <1>4 DEF EnterEnclave, Send
  <2> QED
    BY <1>1, <2>1 DEF Provenance
<1>5. CASE Dequeue(w) \/ RecvCall(w) \/ CloseSock(w) \/ CloseCsock(w)
  <2>1. UNCHANGED <<client, eof, inbox, msg>>
    BY <1>5 DEF Dequeue, RecvCall, CloseSock, CloseCsock
  <2> QED
    BY <2>1 DEF Provenance
<1> QED
  BY <1>2, <1>3, <1>4, <1>5 DEF Worker

LEMMA ProvenanceStep ==
  ASSUME IInv, Provenance, [Next]_vars
  PROVE  Provenance'
<1>1. CASE Environment
  BY <1>1, ProvenanceEnvironment DEF IInv
<1>2. CASE Loop \/ UNCHANGED vars
  <2>1. UNCHANGED <<client, eof, inbox, msg>>
    BY <1>2 DEF Loop, Poll, Timeout, Connect, Accept, AnswerEvent, vars, envVars, workerVars
  <2> QED
    BY <2>1 DEF Provenance
<1>3. ASSUME NEW w \in Workers, Worker(w)
      PROVE  Provenance'
  BY <1>3, ProvenanceWorker
<1> QED
  BY <1>1, <1>2, <1>3 DEF Next

-----------------------------------------------------------------------------
(* The refinement *)

\* One message sent is one sender.
LEMMA OneSender ==
  ASSUME NEW m \in Messages
  PROVE  [i \in DOMAIN <<m>> |-> <<m>>[i].of] = <<m.of>>
OBVIOUS

\* What is sent, if anything, is a client's request to the target, or the
\* target's answer to its client, and the first on that socket.
LEMMA SendRelays ==
  ASSUME IInv, Provenance, NEW w \in Workers, Send(w)
  PROVE  \/ outbox' = outbox
         \/ \E k \in Clients :
              /\ client[k] = "asked" /\ outbox[Upstream(k)] = <<>>
              /\ outbox' = [outbox EXCEPT ![Upstream(k)] = <<Rewritten(Request(k), 0)>>]
         \/ \E k \in Clients :
              /\ eof[Upstream(k)] /\ outbox[Client(k)] = <<>>
              /\ outbox' = [outbox EXCEPT ![Client(k)] = <<Rewritten(Response(k), 1)>>]
<1>1. /\ wpc[w] = "send"
      /\ LET e == EndOf(Destination(job[w])) IN
           outbox' = IF e = Closed \/ msg[w] = NoMsg THEN outbox
                     ELSE [outbox EXCEPT ![e] = Append(outbox[e], msg[w])]
  BY DEF Send
<1>2. PICK k \in Clients :
        /\ Due(job[w], k)
        /\ msg[w] \in {NoMsg, Rewritten(Expected(job[w], k), job[w].r)}
  BY <1>1 DEF IInv, WorkerState
<1>3. job[w] \in Tickets /\ outbox \in [Ends -> Seq(Messages)]
  BY <1>1 DEF IInv, TypeInv, TypeOK, WorkerTypes
<1>4. job[w].r \in {0, 1}
  BY <1>3 DEF Tickets
<1>5. Rewritten(Request(k), 0) \in Messages /\ Rewritten(Response(k), 1) \in Messages
  BY DEF Rewritten, Request, Response, Messages
<1>6. CASE msg[w] = NoMsg
  BY <1>1, <1>6
<1>7. CASE msg[w] # NoMsg /\ job[w].r = 0
  <2>1. EndOf(Destination(job[w])) = Upstream(k) /\ outbox[Upstream(k)] = <<>>
    BY <1>2, <1>7 DEF Due, PairOf, Destination
  <2>2. msg[w] = Rewritten(Request(k), 0)
    BY <1>2, <1>7 DEF Expected
  <2>3. msg[w].kind = "request" /\ msg[w].of = k
    BY <2>2 DEF Rewritten, Request
  <2>4. client[k] = "asked"
    BY <1>7, <2>3 DEF Provenance
  <2>5. Append(outbox[Upstream(k)], msg[w]) = <<msg[w]>>
    BY <2>1
  <2> QED
    BY <1>1, <1>7, <2>1, <2>2, <2>4, <2>5, EndNames
<1>8. CASE msg[w] # NoMsg /\ job[w].r = 1
  <2>1. EndOf(Destination(job[w])) = Client(k) /\ outbox[Client(k)] = <<>>
    BY <1>2, <1>8 DEF Due, PairOf, Destination
  <2>2. msg[w] = Rewritten(Response(k), 1)
    BY <1>2, <1>8 DEF Expected
  <2>3. msg[w].kind = "answer" /\ msg[w].of = k
    BY <2>2 DEF Rewritten, Response
  <2>4. eof[Upstream(k)]
    BY <1>8, <2>3 DEF Provenance
  <2>5. Append(outbox[Client(k)], msg[w]) = <<msg[w]>>
    BY <2>1
  <2> QED
    BY <1>1, <1>8, <2>1, <2>2, <2>4, <2>5, EndNames
<1> QED
  BY <1>4, <1>6, <1>7, <1>8

Asked == {k \in Clients : client[k] = "asked"}
Forwarded == [k \in Clients |-> Senders(Upstream(k))]
Answered == {k \in Clients : eof[Upstream(k)]}
Returned == [k \in Clients |-> Senders(Client(k))]

\* Sending is forwarding or returning, or nothing the peers see.
LEMMA SendIsRelays ==
  ASSUME IInv, Provenance, NEW w \in Workers, Send(w)
  PROVE  R!RelayNext \/ UNCHANGED <<Asked, Forwarded, Answered, Returned>>
<1>1. UNCHANGED <<client, eof>> /\ outbox \in [Ends -> Seq(Messages)]
  BY DEF Send, IInv, TypeInv, TypeOK
<1>2. UNCHANGED <<Asked, Answered>>
  BY <1>1 DEF Asked, Answered
<1>3. CASE outbox' = outbox
  BY <1>2, <1>3 DEF Forwarded, Returned, Senders
<1>4. ASSUME NEW k \in Clients, client[k] = "asked", outbox[Upstream(k)] = <<>>,
             outbox' = [outbox EXCEPT ![Upstream(k)] = <<Rewritten(Request(k), 0)>>]
      PROVE  R!RelayForward(k)
  <2>1. /\ outbox'[Upstream(k)] = <<Rewritten(Request(k), 0)>>
        /\ \A e \in Ends : e # Upstream(k) => outbox'[e] = outbox[e]
    BY <1>1, <1>4, EndNames
  <2>2. Rewritten(Request(k), 0) \in Messages /\ Rewritten(Request(k), 0).of = k
    BY DEF Rewritten, Request, Messages
  <2>3. Senders(Upstream(k))' = <<k>>
    BY <2>1, <2>2, OneSender DEF Senders
  <2>4. Senders(Upstream(k)) = <<>>
    BY <1>4 DEF Senders
  <2>5. \A e \in Ends : e # Upstream(k) => Senders(e)' = Senders(e)
    BY <2>1 DEF Senders
  <2>6. Forwarded' = [Forwarded EXCEPT ![k] = <<k>>]
    BY <2>3, <2>5, EndNames DEF Forwarded
  <2>7. Returned' = Returned
    BY <2>5, EndNames DEF Returned
  <2>8. k \in Asked /\ Forwarded[k] = <<>>
    BY <1>4, <2>4 DEF Asked, Forwarded
  <2> QED
    BY <1>2, <2>6, <2>7, <2>8 DEF R!RelayForward, Asked, Forwarded, Answered, Returned
<1>5. ASSUME NEW k \in Clients, eof[Upstream(k)], outbox[Client(k)] = <<>>,
             outbox' = [outbox EXCEPT ![Client(k)] = <<Rewritten(Response(k), 1)>>]
      PROVE  R!RelayReturn(k)
  <2>1. /\ outbox'[Client(k)] = <<Rewritten(Response(k), 1)>>
        /\ \A e \in Ends : e # Client(k) => outbox'[e] = outbox[e]
    BY <1>1, <1>5, EndNames
  <2>2. Rewritten(Response(k), 1) \in Messages /\ Rewritten(Response(k), 1).of = k
    BY DEF Rewritten, Response, Messages
  <2>3. Senders(Client(k))' = <<k>>
    BY <2>1, <2>2, OneSender DEF Senders
  <2>4. Senders(Client(k)) = <<>>
    BY <1>5 DEF Senders
  <2>5. \A e \in Ends : e # Client(k) => Senders(e)' = Senders(e)
    BY <2>1 DEF Senders
  <2>6. Returned' = [Returned EXCEPT ![k] = <<k>>]
    BY <2>3, <2>5, EndNames DEF Returned
  <2>7. Forwarded' = Forwarded
    BY <2>5, EndNames DEF Forwarded
  <2>8. k \in Answered /\ Returned[k] = <<>>
    BY <1>5, <2>4 DEF Answered, Returned
  <2> QED
    BY <1>2, <2>6, <2>7, <2>8 DEF R!RelayReturn, Asked, Forwarded, Answered, Returned
<1> QED
  BY <1>3, <1>4, <1>5, SendRelays DEF R!RelayNext

\* The clients' asking and the target's answering are the relay's, too.
LEMMA EnvironmentRelays ==
  ASSUME IInv, WellBehaved, Environment
  PROVE  R!RelayNext \/ UNCHANGED <<Asked, Forwarded, Answered, Returned>>
<1> USE DEF envVars, loopVars, workerVars
<1>1. PICK k \in Clients : Arrive(k) \/ Ask(k) \/ Leave(k) \/ Reply(k) \/ HangUp(k)
  BY DEF Environment
<1>2. /\ client \in [Clients -> {"away", "silent", "asked"}]
      /\ eof \in [Ends -> BOOLEAN]
      /\ outbox \in [Ends -> Seq(Messages)]
  BY DEF IInv, TypeInv, TypeOK
<1>3. outbox' = outbox
  BY <1>1 DEF Arrive, Ask, Leave, Reply, HangUp
<1>4. UNCHANGED <<Forwarded, Returned>>
  BY <1>3 DEF Forwarded, Returned, Senders
<1>5. CASE Arrive(k)
  BY <1>2, <1>4, <1>5 DEF Arrive, Asked, Answered
<1>6. CASE Leave(k)
  BY <1>2, <1>4, <1>6, EndNames DEF Leave, Asked, Answered
<1>7. CASE HangUp(k)
  BY <1>7 DEF HangUp, WellBehaved
<1>8. CASE Ask(k)
  <2>1. /\ client[k] = "silent"
        /\ client' = [client EXCEPT ![k] = "asked"]
        /\ eof' = eof
    BY <1>8 DEF Ask
  <2>2. k \notin Asked /\ Asked' = Asked \cup {k} /\ Answered' = Answered
    BY <1>2, <2>1 DEF Asked, Answered
  <2>3. R!RelayAsk(k)
    BY <1>4, <2>2 DEF R!RelayAsk, Asked, Forwarded, Answered, Returned
  <2> QED
    BY <2>3 DEF R!RelayNext
<1>9. CASE Reply(k)
  <2>1. /\ ~eof[Upstream(k)]
        /\ outbox[Upstream(k)] # <<>>
        /\ eof' = [eof EXCEPT ![Upstream(k)] = TRUE]
        /\ client' = client
    BY <1>9 DEF Reply
  <2>2. k \notin Answered /\ Answered' = Answered \cup {k} /\ Asked' = Asked
    BY <1>2, <2>1, EndNames DEF Asked, Answered
  <2>3. Forwarded[k] # <<>>
    <3>1. outbox[Upstream(k)] = <<Rewritten(Request(k), 0)>>
      BY <2>1 DEF IInv, OwnRequest
    <3>2. Rewritten(Request(k), 0) \in Messages
      BY DEF Rewritten, Request, Messages
    <3>3. Senders(Upstream(k)) = <<Rewritten(Request(k), 0).of>>
      BY <3>1, <3>2, OneSender DEF Senders
    <3> QED
      BY <3>3 DEF Forwarded
  <2>4. R!RelayAnswer(k)
    BY <1>4, <2>2, <2>3 DEF R!RelayAnswer, Asked, Forwarded, Answered, Returned
  <2> QED
    BY <2>4 DEF R!RelayNext
<1> QED
  BY <1>1, <1>5, <1>6, <1>7, <1>8, <1>9

\* At first nobody has asked.
LEMMA RelayInits == Init => R!RelayInit
<1> SUFFICES ASSUME Init PROVE R!RelayInit
  OBVIOUS
<1>1. Asked = {} /\ Answered = {}
  BY EndNames DEF Init, Asked, Answered
<1>2. \A e \in Ends : Senders(e) = <<>>
  BY DEF Init, Senders
<1>3. Forwarded = [k \in Clients |-> <<>>] /\ Returned = [k \in Clients |-> <<>>]
  BY <1>2, EndNames DEF Forwarded, Returned
<1> QED
  BY <1>1, <1>3 DEF R!RelayInit, Asked, Forwarded, Answered, Returned

\* Every other step is one that neither the clients nor the target see.
LEMMA StepRelays ==
  ASSUME IInv, Provenance, WellBehaved, [Next]_vars
  PROVE  [R!RelayNext]_(R!relayVars)
<1>1. R!RelayNext \/ UNCHANGED <<Asked, Forwarded, Answered, Returned>>
  <2>1. CASE Environment
    BY <2>1, EnvironmentRelays
  <2>2. ASSUME NEW w \in Workers, Send(w)
        PROVE  R!RelayNext \/ UNCHANGED <<Asked, Forwarded, Answered, Returned>>
    BY <2>2, SendIsRelays
  <2>3. ASSUME \/ Loop \/ UNCHANGED vars
               \/ \E w \in Workers : Worker(w) /\ ~Send(w)
        PROVE  UNCHANGED <<Asked, Forwarded, Answered, Returned>>
    <3>1. UNCHANGED <<client, eof, outbox>>
      BY <2>3 DEF Loop, Poll, Timeout, Connect, Accept, AnswerEvent, vars, envVars, Worker, Dequeue,
         RecvCall, RecvReturn, EnterEnclave, LeaveEnclave, CloseSock, CloseCsock
    <3> QED
      BY <3>1 DEF Asked, Forwarded, Answered, Returned, Senders
  <2> QED
    BY <2>1, <2>2, <2>3 DEF Next
<1> QED
  BY <1>1 DEF R!relayVars, Asked, Forwarded, Answered, Returned

\* The proxy process is a relay: all that poll_handler, the queue and the
\* workers do is forward the request of each client that asks once, on a
\* connection of its own, and return the answer given there to that client,
\* once.
THEOREM Implements ==
  ASSUME WellBehaved
  PROVE  Spec => RelaySafety
<1>1. Init => R!RelayInit /\ Provenance
  BY RelayInits, ProvenanceInit
<1>2. IInv /\ Provenance /\ [Next]_vars => Provenance'
  BY ProvenanceStep
<1>3. IInv /\ Provenance /\ [Next]_vars => [R!RelayNext]_(R!relayVars)
  BY StepRelays
<1> QED
  BY <1>1, <1>2, <1>3, Invariance, PTL DEF Spec, RelaySafety, R!RelaySafety

-----------------------------------------------------------------------------
(* Batches *)

\* Staging hands off nothing or a full buffer.
LEMMA StageLength ==
  ASSUME TypeInv, NEW x \in Tickets, Stage(x)
  PROVE  cq' = cq \/ Len(cq') = Len(cq) + BUFFER_SHUFFLING
<1> DEFINE b == Append(buffer, x)
<1>1. b \in Seq(Tickets) /\ cq \in Seq(Tickets)
  BY DEF TypeInv, TypeOK
<1>2. ASSUME Len(b) = BUFFER_SHUFFLING
      PROVE  Len(cq \o Shuffled(b)) = Len(cq) + BUFFER_SHUFFLING
  <2> HIDE DEF b
  <2>1. Len(b) \in 1..BUFFER_SHUFFLING
    BY <1>2, ServerAssumption
  <2>2. Shuffled(b) \in Seq(Tickets) /\ Len(Shuffled(b)) = BUFFER_SHUFFLING
    BY <1>1, <1>2, <2>1, ShuffledProperties
  <2> QED
    BY <1>1, <2>2
<1> QED
  BY <1>2 DEF Stage

\* The tickets the poll thread makes are tickets.
LEMMA StagedIsTicket ==
  ASSUME TypeInv, NEW s \in Fds, AnswerEvent(s)
  PROVE  Ticket(clientsfds[s], s, 1) \in Tickets
BY DEF TypeInv, TypeOK, Ticket, Tickets

\* Batches are full or a second old, in any environment: nothing else of
\* poll_handler puts tickets into the queue.
THEOREM BatchesFullOrOld == Spec => BatchHandOff
<1>1. ASSUME TypeInv, [Next]_vars
      PROVE  Len(cq') > Len(cq) => Len(cq') - Len(cq) = BUFFER_SHUFFLING \/ Ready = {}
  <2>0. cq \in Seq(Tickets) /\ Len(cq) \in Nat
    BY <1>1 DEF TypeInv, TypeOK
  <2>1. CASE cq' = cq \/ Timeout
    BY <2>0, <2>1 DEF Timeout
  <2>2. CASE Accept
    <3>1. PICK c \in Fds : \/ Stage(Ticket(c, sckS, 0))
                           \/ cq' = cq
      BY <2>2 DEF Accept
    <3>2. Ticket(c, sckS, 0) \in Tickets
      <4>1. sckS \in Fds
        BY <1>1, <2>2 DEF Accept, TypeInv, LoopTypes
      <4> QED
        BY <4>1 DEF Ticket, Tickets
    <3>3. cq' = cq \/ Len(cq') = Len(cq) + BUFFER_SHUFFLING
      BY <1>1, <3>1, <3>2, StageLength
    <3> QED
      BY <2>0, <3>3, ServerAssumption
  <2>3. ASSUME NEW s \in Fds, AnswerEvent(s)
        PROVE  Len(cq') > Len(cq) => Len(cq') - Len(cq) = BUFFER_SHUFFLING \/ Ready = {}
    <3>1. Stage(Ticket(clientsfds[s], s, 1))
      BY <2>3 DEF AnswerEvent
    <3>2. cq' = cq \/ Len(cq') = Len(cq) + BUFFER_SHUFFLING
      BY <1>1, <2>3, <3>1, StageLength, StagedIsTicket
    <3> QED
      BY <2>0, <3>2, ServerAssumption
  <2>4. ASSUME NEW w \in Workers, Dequeue(w)
        PROVE  ~(Len(cq') > Len(cq))
    BY <2>0, <2>4 DEF Dequeue
  <2>5. Environment \/ Poll \/ Connect \/ (\E w \in Workers : Worker(w) /\ ~Dequeue(w))
          \/ UNCHANGED vars => cq' = cq
    BY DEF Environment, Arrive, Ask, Leave, Reply, HangUp, Poll, Connect, Worker, RecvCall,
       RecvReturn, EnterEnclave, LeaveEnclave, Send, CloseSock, CloseCsock, vars
  <2> QED
    BY <1>1, <2>1, <2>2, <2>3, <2>4, <2>5 DEF Next, Loop
<1> QED
  BY <1>1, TypeInit, TypeStep, PTL DEF Spec, BatchHandOff

-----------------------------------------------------------------------------
(* Closing *)

\* The tickets whose socket a worker has yet to read.
Held == {buffer[i] : i \in DOMAIN buffer} \cup {cq[i] : i \in DOMAIN cq}
          \cup {job[w] : w \in {v \in Workers : wpc[v] \in {"recv", "blocked"}}}

\* The clients' descriptors whose answer has been seen to.
Leaving == {job[w].c : w \in {v \in Workers : wpc[v] \in {"close_s", "close_c"}}}

\* An answer that a ticket was made for is there to be read.
Waiting(t) == t.r = 1 => inbox[EndOf(t.s)] # NoMsg

\* No answer is lost on its way from the target to its client: what epoll
\* reports has something to read, and the worker that has read it still has it
\* when it sends, and closes after that.
AnswersKept ==
  /\ \A s \in epset : eof[EndOf(s)] => inbox[EndOf(s)] # NoMsg
  /\ \A t \in Held : Waiting(t)
  /\ \A w \in Workers : wpc[w] = "send" /\ job[w].r = 1 => msg[w] # NoMsg
  /\ \A c \in Leaving : outbox[EndOf(c)] # <<>>

LEMMA KeptInit == Init => AnswersKept
BY EmptySeq DEF Init, AnswersKept, Held, Leaving

\* Each of these numbers is that of an open socket.
NumbersOpen ==
  /\ \A s \in epset : \E k \in Clients : EndOf(s) = Upstream(k)
  /\ \A t \in Held : \E k \in Clients : EndOf(t.s) = Upstream(k)
  /\ \A c \in Leaving : \E k \in Clients : EndOf(c) = Client(k)

LEMMA Opens == IInv => NumbersOpen
<1> SUFFICES ASSUME IInv
             PROVE  NumbersOpen
  OBVIOUS
<1>1. \A s \in epset : \E k \in Clients : EndOf(s) = Upstream(k)
  BY DEF IInv, TypeInv, TypeOK, Registered, EndOf
<1>2. \A t \in Held : \E k \in Clients : Due(t, k)
  BY DEF IInv, DueTickets, WorkerState, Held
<1>3. \A c \in Leaving : \E k \in Clients : EndOf(c) = Client(k)
  BY DEF IInv, WorkerState, PairOf, Leaving
<1> QED
  BY <1>1, <1>2, <1>3 DEF NumbersOpen, Due, PairOf

LEMMA OpensAfter == IInv' => NumbersOpen'
BY Opens, PTL

\* A number means what it meant as long as it means something.
LEMMA NumbersKeep ==
  ASSUME TypeInv, [Next]_vars
  PROVE  \A f : EndOf(f) # Closed /\ EndOf(f)' # Closed => EndOf(f)' = EndOf(f)
<1>1. CASE fdt' = fdt
  BY <1>1 DEF EndOf
<1>2. CASE Connect \/ Accept
  <2>1. fdt' = fdt \/ \E f \in Fds, e \in Ends : fdt[f] = Closed /\ fdt' = [fdt EXCEPT ![f] = e]
    <3>1. Head(backlog) \in Clients
      BY <1>2, HeadTypes DEF Connect, Accept, TypeInv, LoopTypes
    <3> QED
      BY <1>2, <3>1, EndNames DEF Connect, Accept, LowestFree
  <2> QED
    BY <2>1 DEF EndOf, TypeInv, TypeOK
<1>3. ASSUME NEW f, CloseFd(f)
      PROVE  \A g : EndOf(g) # Closed /\ EndOf(g)' # Closed => EndOf(g)' = EndOf(g)
  BY <1>3 DEF CloseFd, EndOf
<1>4. fdt' = fdt \/ Connect \/ Accept \/ \E f : CloseFd(f)
  BY DEF Next, Environment, Arrive, Ask, Leave, Reply, HangUp, Loop, Poll, Timeout, AnswerEvent,
     Worker, Dequeue, RecvCall, RecvReturn, EnterEnclave, LeaveEnclave, Send, CloseSock, CloseCsock,
     vars
<1> QED
  BY <1>1, <1>2, <1>3, <1>4

\* In a step in which nothing is read, what was kept is kept.
LEMMA KeptUnlessRead ==
  ASSUME IInv, IInv', AnswersKept, [Next]_vars,
         \A e \in Ends : inbox[e] # NoMsg => inbox'[e] # NoMsg,
         \A e \in Ends : outbox[e] # <<>> => outbox'[e] # <<>>,
         \A k \in Clients : eof'[Upstream(k)] => eof[Upstream(k)] \/ inbox'[Upstream(k)] # NoMsg
  PROVE  /\ \A s \in epset \cap epset' : (eof[EndOf(s)] => inbox[EndOf(s)] # NoMsg)'
         /\ \A t \in Held \cap Held' : Waiting(t)'
         /\ \A c \in Leaving \cap Leaving' : (outbox[EndOf(c)] # <<>>)'
<1>0. NumbersOpen /\ NumbersOpen'
  BY Opens, OpensAfter
<1>1. ASSUME NEW f, NEW k \in Clients, NEW l \in Clients,
             EndOf(f) \in {Client(k), Upstream(k)}, EndOf(f)' \in {Client(l), Upstream(l)}
      PROVE  EndOf(f)' = EndOf(f) /\ EndOf(f) \in Ends
  BY <1>1, NumbersKeep, EndNames DEF IInv
<1>2. \A s \in epset \cap epset' :
        \E k \in Clients : EndOf(s)' = EndOf(s) /\ EndOf(s) = Upstream(k) /\ EndOf(s) \in Ends
  BY <1>0, <1>1 DEF NumbersOpen
<1>3. \A t \in Held \cap Held' : EndOf(t.s)' = EndOf(t.s) /\ EndOf(t.s) \in Ends
  BY <1>0, <1>1 DEF NumbersOpen
<1>4. \A c \in Leaving \cap Leaving' : EndOf(c)' = EndOf(c) /\ EndOf(c) \in Ends
  BY <1>0, <1>1 DEF NumbersOpen
<1>5. \A s \in epset \cap epset' : (eof[EndOf(s)] => inbox[EndOf(s)] # NoMsg)'
  BY <1>2 DEF AnswersKept
<1>6. \A t \in Held \cap Held' : Waiting(t)'
  BY <1>3 DEF AnswersKept, Waiting
<1>7. \A c \in Leaving \cap Leaving' : (outbox[EndOf(c)] # <<>>)'
  BY <1>4 DEF AnswersKept
<1> QED
  BY <1>5, <1>6, <1>7

LEMMA KeptEnvironment ==
  ASSUME IInv, IInv', AnswersKept, WellBehaved, Environment
  PROVE  AnswersKept'
<1> USE DEF envVars, loopVars, workerVars
<1>1. PICK k \in Clients : Arrive(k) \/ Ask(k) \/ Leave(k) \/ Reply(k) \/ HangUp(k)
  BY DEF Environment
<1>2. /\ inbox \in [Ends -> Received] /\ eof \in [Ends -> BOOLEAN]
      /\ Request(k) # NoMsg
      /\ \A m \in Messages : Response(m.of) # NoMsg
      /\ outbox[Upstream(k)] # <<>> => Head(outbox[Upstream(k)]) \in Messages
  <2>1. Request(k) \in Messages /\ \A m \in Messages : Response(m.of) \in Messages
    BY DEF Request, Response, Messages
  <2>2. TypeOK
    BY DEF IInv, TypeInv
  <2> QED
    BY <2>1, <2>2, HeadTypes, ServerAssumption DEF TypeOK
<1>3. UNCHANGED <<outbox, fdt, epset, buffer, cq, wpc, job, msg>>
  BY <1>1 DEF Arrive, Ask, Leave, Reply, HangUp
<1>4. \A e \in Ends : inbox[e] # NoMsg => inbox'[e] # NoMsg
  BY <1>1, <1>2, EndNames DEF Arrive, Ask, Leave, Reply, HangUp
<1>5. \A l \in Clients : eof'[Upstream(l)] => eof[Upstream(l)] \/ inbox'[Upstream(l)] # NoMsg
  BY <1>1, <1>2, EndNames DEF Arrive, Ask, Leave, Reply, HangUp, WellBehaved
<1>6. epset' = epset /\ Held' = Held /\ Leaving' = Leaving
  BY <1>3 DEF Held, Leaving
<1>7. [Next]_vars
  BY DEF Next
<1>8. /\ \A s \in epset \cap epset' : (eof[EndOf(s)] => inbox[EndOf(s)] # NoMsg)'
      /\ \A t \in Held \cap Held' : Waiting(t)'
      /\ \A c \in Leaving \cap Leaving' : (outbox[EndOf(c)] # <<>>)'
  BY <1>3, <1>4, <1>5, <1>7, KeptUnlessRead
<1> QED
  BY <1>3, <1>6, <1>8 DEF AnswersKept

\* A ticket is held after it is staged if it was before, or if it is the new one.
LEMMA StagedHeld ==
  ASSUME TypeInv, UNCHANGED workerVars, NEW x \in Tickets, Stage(x)
  PROVE  Held' \subseteq Held \cup {x}
<1>1. /\ \A i \in DOMAIN buffer' :
           buffer'[i] = x \/ \E j \in DOMAIN buffer : buffer'[i] = buffer[j]
      /\ \A i \in DOMAIN cq' :
           \/ cq'[i] = x
           \/ \E j \in DOMAIN buffer : cq'[i] = buffer[j]
           \/ \E j \in DOMAIN cq : cq'[i] = cq[j]
  BY StageTickets DEF TypeInv, TypeOK
<1> QED
  BY <1>1 DEF Held, workerVars

\* The poll thread makes an answer's ticket when there is an answer.
LEMMA KeptLoop ==
  ASSUME IInv, IInv', AnswersKept, Loop
  PROVE  AnswersKept'
<1> USE DEF envVars, loopVars, workerVars
<1>1. TypeInv /\ TypeOK /\ buffer \in Seq(Tickets) /\ cq \in Seq(Tickets) /\ BufferBound /\ up
  BY DEF IInv, TypeInv, TypeOK
<1>2. UNCHANGED <<inbox, eof, outbox, workerVars>> /\ Leaving' = Leaving
  BY DEF Loop, Poll, Timeout, Connect, Accept, AnswerEvent, Leaving
<1>3. [Next]_vars
  BY DEF Next
<1>4. /\ \A s \in epset \cap epset' : (eof[EndOf(s)] => inbox[EndOf(s)] # NoMsg)'
      /\ \A t \in Held \cap Held' : Waiting(t)'
      /\ \A c \in Leaving \cap Leaving' : (outbox[EndOf(c)] # <<>>)'
  BY <1>2, <1>3, KeptUnlessRead
<1>5. \A w \in Workers : wpc'[w] = "send" /\ job'[w].r = 1 => msg'[w] # NoMsg
  BY <1>2 DEF AnswersKept
<1>6. CASE epset' \subseteq epset /\ Held' \subseteq Held
  BY <1>2, <1>4, <1>5, <1>6 DEF AnswersKept
<1>7. CASE Poll \/ Connect
  BY <1>6, <1>7 DEF Poll, Connect, Held
<1>8. CASE Timeout
  <2>1. /\ DOMAIN buffer' = {}
        /\ \A i \in DOMAIN cq' :
             (\E j \in DOMAIN cq : cq'[i] = cq[j]) \/ (\E j \in DOMAIN buffer : cq'[i] = buffer[j])
    BY <1>1, <1>8, TimeoutTickets
  <2>2. Held' \subseteq Held
    BY <1>2, <2>1 DEF Held
  <2> QED
    BY <1>6, <1>8, <2>2 DEF Timeout
<1>9. CASE Accept
  <2>1. PICK c \in Fds : Stage(Ticket(c, sckS, 0)) \/ ~up'
    BY <1>9 DEF Accept
  <2>2. Stage(Ticket(c, sckS, 0))
    BY <2>1 DEF IInv
  <2>3. sckS \in Fds /\ fdt[sckS] = Upstream(Head(backlog)) /\ Head(backlog) \in Clients
    BY <1>9, HeadTypes DEF Accept, IInv, TypeInv, LoopTypes, LoopState
  <2>4. ~eof[Upstream(Head(backlog))]
    <3>1. 1 \in DOMAIN backlog /\ Head(backlog) = backlog[1]
      BY <1>1, <1>9, EmptySeq DEF TypeOK, Accept, IInv, TypeInv, LoopTypes
    <3>2. outbox[Upstream(Head(backlog))] = <<>>
      BY <3>1 DEF IInv, Unaccepted, Untouched
    <3> QED
      BY <2>3, <3>2 DEF IInv, TargetSpeaks
  <2>5. PICK x \in Tickets : x = Ticket(c, sckS, 0)
    BY <2>3 DEF Ticket, Tickets
  <2>6. Waiting(x)'
    BY <2>5 DEF Ticket, Waiting
  <2>7. Held' \subseteq Held \cup {x}
    BY <1>1, <1>2, <2>2, <2>5, StagedHeld
  <2>8. epset' \subseteq epset \cup {sckS}
    BY <1>9 DEF Accept
  <2>9. fdt'[sckS] = fdt[sckS]
    <3>1. PICK d \in Fds : fdt[d] = Closed /\ fdt' = [fdt EXCEPT ![d] = Client(Head(backlog))]
      BY <1>9 DEF Accept, LowestFree
    <3>2. d # sckS
      BY <2>3, <3>1, EndNames
    <3> QED
      BY <1>1, <2>3, <3>1, <3>2 DEF TypeOK
  <2>10. \A s \in epset' : (eof[EndOf(s)] => inbox[EndOf(s)] # NoMsg)'
    <3>1. ASSUME NEW s, s = sckS
          PROVE  ~(eof[EndOf(s)])'
      BY <1>2, <2>3, <2>4, <2>9, <3>1 DEF EndOf
    <3> QED
      BY <1>4, <2>8, <3>1
  <2> QED
    BY <1>2, <1>4, <1>5, <2>6, <2>7, <2>10 DEF AnswersKept
<1>10. ASSUME NEW s \in Fds, AnswerEvent(s)
       PROVE  AnswersKept'
  <2>1. /\ epset' \subseteq epset /\ fdt' = fdt
        /\ Stage(Ticket(clientsfds[s], s, 1))
        /\ s \in events \ {ssock}
    BY <1>10 DEF AnswerEvent
  <2>2. s \in epset /\ Readable(s)
    BY <2>1 DEF IInv, LoopState
  <2>3. inbox[EndOf(s)] # NoMsg
    BY <2>2 DEF Readable, AnswersKept, EndOf
  <2>4. Ticket(clientsfds[s], s, 1) \in Tickets
    BY <1>1, <1>10, StagedIsTicket
  <2>5. PICK x \in Tickets : x = Ticket(clientsfds[s], s, 1)
    BY <2>4
  <2>6. x.s = s /\ Waiting(x)'
    BY <1>2, <2>1, <2>3, <2>5 DEF Waiting, Ticket, EndOf
  <2>7. Held' \subseteq Held \cup {x}
    BY <1>1, <1>2, <2>1, <2>5, StagedHeld
  <2> QED
    BY <1>2, <1>4, <1>5, <2>1, <2>6, <2>7 DEF AnswersKept
<1> QED
  BY <1>7, <1>8, <1>9, <1>10 DEF Loop

\* What the steps of a worker that touch no socket's data keep.
LEMMA KeptWorkerStep ==
  ASSUME IInv, IInv', AnswersKept, NEW w \in Workers, Worker(w),
         UNCHANGED <<inbox, eof>>,
         \A e \in Ends : outbox[e] # <<>> => outbox'[e] # <<>>,
         epset' \subseteq epset, Held' \subseteq Held,
         \A c \in Leaving' \ Leaving : (outbox[EndOf(c)] # <<>>)',
         \A v \in Workers \ {w} : UNCHANGED <<wpc[v], job[v], msg[v]>>,
         wpc'[w] = "send" /\ job'[w].r = 1 => msg'[w] # NoMsg
  PROVE  AnswersKept'
<1>1. [Next]_vars
  BY DEF Next
<1>2. /\ \A s \in epset \cap epset' : (eof[EndOf(s)] => inbox[EndOf(s)] # NoMsg)'
      /\ \A t \in Held \cap Held' : Waiting(t)'
      /\ \A c \in Leaving \cap Leaving' : (outbox[EndOf(c)] # <<>>)'
  BY <1>1, KeptUnlessRead
<1>3. \A v \in Workers : wpc'[v] = "send" /\ job'[v].r = 1 => msg'[v] # NoMsg
  BY DEF AnswersKept
<1> QED
  BY <1>2, <1>3 DEF AnswersKept

\* A worker takes what the queue held.
LEMMA KeptDequeue ==
  ASSUME IInv, IInv', AnswersKept, NEW w \in Workers, Dequeue(w)
  PROVE  AnswersKept'
<1> USE DEF envVars, loopVars
<1>1. /\ cq # <<>> /\ job' = [job EXCEPT ![w] = Head(cq)] /\ cq' = Tail(cq)
      /\ wpc' = [wpc EXCEPT ![w] = "recv"]
      /\ UNCHANGED <<inbox, eof, outbox, epset, buffer, msg>>
  BY DEF Dequeue
<1>2. /\ cq \in Seq(Tickets) /\ wpc \in [Workers -> WorkerSteps]
      /\ job \in [Workers -> Tickets \cup {NoTicket}]
  BY DEF IInv, TypeInv, TypeOK
<1>3. /\ \E j \in DOMAIN cq : Head(cq) = cq[j]
      /\ \A i \in DOMAIN cq' : \E j \in DOMAIN cq : cq'[i] = cq[j]
  <2>1. /\ Tail(cq) \in Seq(Tickets) /\ Len(Tail(cq)) = Len(cq) - 1
        /\ \A i \in 1..Len(Tail(cq)) : Tail(cq)[i] = cq[i + 1]
    BY <1>1, <1>2, HeadTailProperties
  <2>2. DOMAIN Tail(cq) = 1..Len(Tail(cq)) /\ DOMAIN cq = 1..Len(cq) /\ Len(cq) \in Nat
    BY <1>2, <2>1, LenProperties
  <2>3. 1 \in DOMAIN cq /\ Head(cq) = cq[1]
    BY <1>1, <1>2, <2>2, HeadTypes, EmptySeq
  <2>4. \A i \in 1..Len(Tail(cq)) : i + 1 \in DOMAIN cq
    BY <2>1, <2>2
  <2> QED
    BY <1>1, <2>1, <2>2, <2>3, <2>4
<1>4. wpc'[w] = "recv" /\ \A v \in Workers \ {w} : UNCHANGED <<wpc[v], job[v], msg[v]>>
  BY <1>1, <1>2
<1>5. Held' \subseteq Held
  <2>1. job'[w] = Head(cq)
    BY <1>1, <1>2
  <2> QED
    BY <1>1, <1>3, <1>4, <2>1 DEF Held
<1>6. Leaving' \subseteq Leaving
  BY <1>4 DEF Leaving
<1> QED
  BY <1>1, <1>4, <1>5, <1>6, KeptWorkerStep DEF Worker

\* What a worker's recv takes from a socket is what its own ticket was made
\* for; nobody else's answer goes.
LEMMA KeptRecvReturn ==
  ASSUME IInv, IInv', AnswersKept, NEW w \in Workers, RecvReturn(w)
  PROVE  AnswersKept'
<1> USE DEF envVars, loopVars
<1>1. /\ wpc[w] = "blocked"
      /\ \/ inbox[at[w]] # NoMsg /\ wpc' = [wpc EXCEPT ![w] = "ecall"]
         \/ inbox[at[w]] = NoMsg /\ wpc' = [wpc EXCEPT ![w] = "send"]
      /\ msg' = [msg EXCEPT ![w] = inbox[at[w]]]
      /\ inbox' = [inbox EXCEPT ![at[w]] = NoMsg]
      /\ UNCHANGED <<eof, outbox, fdt, epset, buffer, cq, job>>
  BY DEF RecvReturn
<1>2. /\ wpc \in [Workers -> WorkerSteps] /\ msg \in [Workers -> Received]
      /\ inbox \in [Ends -> Received] /\ job[w] \in Tickets
  BY <1>1 DEF IInv, TypeInv, TypeOK, WorkerTypes
<1>3. PICK k \in Clients : Due(job[w], k)
  BY <1>1 DEF IInv, WorkerState
<1>4. at[w] = IF job[w].r = 0 THEN Client(k) ELSE Upstream(k)
  BY <1>1, <1>3 DEF IInv, WorkerState, Due, PairOf, Source
<1>5. job[w].r = 1 => wpc'[w] = "ecall"
  <2>1. job[w] \in Held
    BY <1>1 DEF Held
  <2>2. job[w].r = 1 => inbox[Upstream(k)] # NoMsg
    BY <1>3, <2>1 DEF AnswersKept, Waiting, Due, PairOf
  <2> QED
    BY <1>1, <1>2, <1>4, <2>2
<1>6. \A v \in Workers \ {w} : UNCHANGED <<wpc[v], job[v], msg[v]>>
  BY <1>1, <1>2
<1>7. \A v \in Workers : wpc'[v] = "send" /\ job'[v].r = 1 => msg'[v] # NoMsg
  BY <1>1, <1>5, <1>6 DEF AnswersKept
<1>8. ASSUME NEW t \in Held'
      PROVE  t \in Held /\ EndOf(t.s) \in Ends \ {at[w]}
  <2>1. \/ \E i \in DOMAIN buffer : t = buffer[i]
        \/ \E i \in DOMAIN cq : t = cq[i]
        \/ \E v \in Workers \ {w} : t = job[v] /\ wpc[v] \in {"recv", "blocked"}
    BY <1>1, <1>2, <1>6, <1>8 DEF Held
  <2>2. t \in Held
    BY <2>1 DEF Held
  <2>3. EndOf(t.c) # Client(k)
    BY <1>1, <1>3, <2>1, OthersApart DEF Due, PairOf
  <2>4. PICK l \in Clients : PairOf(t, l)
    BY <2>1 DEF IInv, DueTickets, WorkerState, Due
  <2> QED
    BY <1>4, <2>2, <2>3, <2>4, EndNames DEF PairOf
<1>9. ASSUME NEW s \in epset
      PROVE  EndOf(s) \in Ends \ {at[w]}
  <2>1. s \in Fds
    BY DEF IInv, TypeInv, TypeOK
  <2>2. PICK l \in Clients : fdt[s] = Upstream(l)
    BY <1>9 DEF IInv, Registered
  <2>3. job[w].r # 0 => job[w].s \notin epset /\ job[w].s \in Fds /\ fdt[job[w].s] = Upstream(k)
    BY <1>2, <1>3 DEF Due, PairOf, EndOf, Tickets
  <2> QED
    BY <1>4, <1>9, <2>1, <2>2, <2>3, EndNames DEF IInv, FdInjective, EndOf
<1>10. \A e \in Ends \ {at[w]} : inbox'[e] = inbox[e]
  BY <1>1, <1>2
<1>11. \A f : EndOf(f)' = EndOf(f)
  BY <1>1 DEF EndOf
<1>12. \A t \in Held' : Waiting(t)'
  BY <1>8, <1>10, <1>11 DEF AnswersKept, Waiting
<1>13. \A s \in epset' : (eof[EndOf(s)] => inbox[EndOf(s)] # NoMsg)'
  BY <1>1, <1>9, <1>10, <1>11 DEF AnswersKept
<1>14. Leaving' = Leaving
  BY <1>1, <1>2, <1>6 DEF Leaving
<1> QED
  BY <1>1, <1>7, <1>11, <1>12, <1>13, <1>14 DEF AnswersKept

\* With a TCS for every worker no answer is dropped at the enclave.
LEMMA AlwaysRoom ==
  ASSUME IsFiniteSet(Workers), Cardinality(Workers) <= TCSNum,
         NEW w \in Workers, wpc[w] # "enclave"
  PROVE  Cardinality(InEnclave) < TCSNum
<1>1. InEnclave \subseteq Workers \ {w}
  BY DEF InEnclave
<1>2. IsFiniteSet(Workers \ {w}) /\ Cardinality(Workers \ {w}) = Cardinality(Workers) - 1
  BY FS_RemoveElement
<1>3. Cardinality(InEnclave) <= Cardinality(Workers \ {w})
  BY <1>1, <1>2, FS_Subset
<1>4. Cardinality(Workers) \in Nat /\ Cardinality(InEnclave) \in Nat
  BY <1>1, <1>2, FS_Subset, FS_CardinalityType
<1> QED
  BY <1>2, <1>3, <1>4, ServerAssumption

LEMMA KeptEnclave ==
  ASSUME IInv, IInv', AnswersKept, IsFiniteSet(Workers), Cardinality(Workers) <= TCSNum,
         NEW w \in Workers, RecvCall(w) \/ EnterEnclave(w) \/ LeaveEnclave(w)
  PROVE  AnswersKept'
<1> USE DEF envVars, loopVars
<1>1. /\ UNCHANGED <<inbox, eof, outbox, epset, buffer, cq, job>>
      /\ wpc \in [Workers -> WorkerSteps] /\ msg \in [Workers -> Received]
  BY DEF RecvCall, EnterEnclave, LeaveEnclave, IInv, TypeInv, TypeOK
<1>2. CASE RecvCall(w)
  <2>1. PICK k \in Clients : Due(job[w], k)
    BY <1>2 DEF RecvCall, IInv, WorkerState
  <2>2. job[w] \in Tickets
    BY <1>2 DEF RecvCall, IInv, TypeInv, WorkerTypes
  <2>3. EndOf(Source(job[w])) # Closed
    BY <2>1, EndNames DEF Due, PairOf, Source
  <2>4. wpc' = [wpc EXCEPT ![w] = "blocked"] /\ msg' = msg /\ wpc[w] = "recv"
    BY <1>2, <2>3 DEF RecvCall
  <2>5. Held' = Held /\ Leaving' = Leaving
    BY <1>1, <2>4 DEF Held, Leaving
  <2> QED
    BY <1>1, <1>2, <2>4, <2>5, KeptWorkerStep DEF Worker
<1>3. CASE EnterEnclave(w)
  <2>1. wpc' = [wpc EXCEPT ![w] = "enclave"] /\ msg' = msg /\ wpc[w] = "ecall"
    <3>1. wpc[w] = "ecall"
      BY <1>3 DEF EnterEnclave
    <3>2. Cardinality(InEnclave) < TCSNum /\ Cardinality(InEnclave) \in Int
      <4>1. IsFiniteSet(InEnclave)
        BY FS_Subset DEF InEnclave
      <4> QED
        BY <3>1, <4>1, AlwaysRoom, FS_CardinalityType
    <3>3. ~(Cardinality(InEnclave) >= TCSNum)
      BY <3>2, ServerAssumption
    <3> QED
      BY <1>3, <3>1, <3>3 DEF EnterEnclave
  <2>2. Held' = Held /\ Leaving' = Leaving
    BY <1>1, <2>1 DEF Held, Leaving
  <2> QED
    BY <1>1, <1>3, <2>1, <2>2, KeptWorkerStep DEF Worker
<1>4. CASE LeaveEnclave(w)
  <2>1. /\ wpc[w] = "enclave" /\ wpc' = [wpc EXCEPT ![w] = "send"]
        /\ msg' = [msg EXCEPT ![w] = [msg[w] EXCEPT !.via = job[w].r]]
    BY <1>4 DEF LeaveEnclave
  <2>2. msg[w] \in Messages /\ job[w] \in Tickets
    BY <2>1 DEF IInv, TypeInv, WorkerTypes
  <2>3. [msg[w] EXCEPT !.via = job[w].r] \in Messages
    BY <2>2 DEF Messages, Tickets
  <2>4. msg'[w] # NoMsg
    BY <1>1, <2>1, <2>3, ServerAssumption
  <2>5. Held' = Held /\ Leaving' = Leaving
    BY <1>1, <2>1 DEF Held, Leaving
  <2>6. \A v \in Workers \ {w} : UNCHANGED <<wpc[v], job[v], msg[v]>>
    BY <1>1, <2>1
  <2> QED
    BY <1>1, <1>4, <2>4, <2>5, <2>6, KeptWorkerStep DEF Worker
<1> QED
  BY <1>2, <1>3, <1>4

\* The answer is sent before the worker starts to close.
LEMMA KeptSend ==
  ASSUME IInv, IInv', AnswersKept, NEW w \in Workers, Send(w)
  PROVE  AnswersKept'
<1> USE DEF envVars, loopVars
<1>1. /\ wpc[w] = "send"
      /\ UNCHANGED <<inbox, eof, fdt, epset, buffer, cq>>
      /\ msg' = [msg EXCEPT ![w] = NoMsg]
      /\ \/ /\ job[w].r = 0 /\ wpc' = [wpc EXCEPT ![w] = "idle"]
            /\ job' = [job EXCEPT ![w] = NoTicket]
         \/ job[w].r = 1 /\ wpc' = [wpc EXCEPT ![w] = "close_s"] /\ job' = job
  BY DEF Send
<1>2. /\ wpc \in [Workers -> WorkerSteps] /\ msg \in [Workers -> Received]
      /\ job \in [Workers -> Tickets \cup {NoTicket}] /\ outbox \in [Ends -> Seq(Messages)]
      /\ job[w] \in Tickets
  BY <1>1 DEF IInv, TypeInv, TypeOK, WorkerTypes
<1>3. PICK k \in Clients : Due(job[w], k)
  BY <1>1 DEF IInv, WorkerState
<1>4. \A v \in Workers \ {w} : UNCHANGED <<wpc[v], job[v], msg[v]>>
  BY <1>1, <1>2
<1>5. \A e \in Ends : outbox[e] # <<>> => outbox'[e] # <<>>
  <2>1. \A e \in Ends : outbox'[e] = outbox[e] \/ (outbox'[e] = Append(outbox[e], msg[w]) /\ msg[w] \in Messages)
    BY <1>2 DEF Send, Received
  <2> QED
    BY <1>2, <2>1, AppendProperties
<1>6. job[w].r = 1 => outbox'[Client(k)] # <<>>
  <2> SUFFICES ASSUME job[w].r = 1
               PROVE  outbox'[Client(k)] # <<>>
    OBVIOUS
  <2>1. msg[w] # NoMsg /\ msg[w] \in Messages
    BY <1>1, <1>2 DEF AnswersKept, Received
  <2>2. EndOf(Destination(job[w])) = Client(k) /\ Client(k) # Closed /\ Client(k) \in Ends
    BY <1>3, EndNames DEF Due, PairOf, Destination
  <2>3. outbox'[Client(k)] = Append(outbox[Client(k)], msg[w])
    BY <1>2, <2>1, <2>2 DEF Send
  <2> QED
    BY <1>2, <2>1, <2>2, <2>3, AppendProperties
<1>7. Held' \subseteq Held
  BY <1>1, <1>2, <1>4 DEF Held
<1>8. \A c \in Leaving' \ Leaving : c = job[w].c /\ job[w].r = 1
  BY <1>1, <1>2, <1>4 DEF Leaving
<1>9. \A c \in Leaving' \ Leaving : (outbox[EndOf(c)] # <<>>)'
  BY <1>1, <1>3, <1>6, <1>8 DEF Due, PairOf, EndOf
<1>10. wpc'[w] # "send"
  BY <1>1, <1>2
<1> QED
  BY <1>1, <1>4, <1>5, <1>7, <1>9, <1>10, KeptWorkerStep DEF Worker

LEMMA KeptClose ==
  ASSUME IInv, IInv', AnswersKept, NEW w \in Workers, CloseSock(w) \/ CloseCsock(w)
  PROVE  AnswersKept'
<1> USE DEF envVars, loopVars
<1>1. /\ wpc[w] \in {"close_s", "close_c"}
      /\ UNCHANGED <<inbox, eof, outbox, buffer, cq, msg>>
      /\ epset' \subseteq epset
      /\ \/ wpc[w] = "close_s" /\ wpc' = [wpc EXCEPT ![w] = "close_c"] /\ job' = job
         \/ wpc' = [wpc EXCEPT ![w] = "idle"] /\ job' = [job EXCEPT ![w] = NoTicket]
  BY DEF CloseSock, CloseCsock, CloseFd
<1>2. /\ wpc \in [Workers -> WorkerSteps]
      /\ job \in [Workers -> Tickets \cup {NoTicket}]
  BY DEF IInv, TypeInv, TypeOK
<1>3. /\ \A v \in Workers \ {w} : UNCHANGED <<wpc[v], job[v], msg[v]>>
      /\ wpc'[w] \in {"close_c", "idle"}
      /\ wpc'[w] = "close_c" => job'[w] = job[w]
  BY <1>1, <1>2
<1>4. Held' \subseteq Held /\ Leaving' \subseteq Leaving
  BY <1>1, <1>3 DEF Held, Leaving
<1> QED
  BY <1>1, <1>3, <1>4, KeptWorkerStep DEF Worker

LEMMA KeptStep ==
  ASSUME WellBehaved, IsFiniteSet(Workers), Cardinality(Workers) <= TCSNum,
         IInv, IInv', AnswersKept, [Next]_vars
  PROVE  AnswersKept'
<1>1. ASSUME NEW w \in Workers, Worker(w)
      PROVE  AnswersKept'
  BY <1>1, KeptDequeue, KeptRecvReturn, KeptEnclave, KeptSend, KeptClose DEF Worker
<1>2. CASE UNCHANGED vars
  BY <1>2 DEF vars, envVars, loopVars, workerVars, AnswersKept, Held, Leaving, Waiting, EndOf
<1> QED
  BY <1>1, <1>2, KeptEnvironment, KeptLoop DEF Next

\* Only a worker's last close takes a client's socket away.
LEMMA ClosesAnswered ==
  ASSUME IInv, AnswersKept, [Next]_vars, NEW k \in Clients, Open(Client(k)), ~Open(Client(k))'
  PROVE  outbox[Client(k)] # <<>>
<1>1. PICK f \in Fds : fdt[f] = Client(k)
  BY DEF Open
<1>2. fdt'[f] # Client(k)
  BY DEF Open
<1>3. fdt \in [Fds -> Ends \cup {Closed}] /\ Client(k) # Closed
  BY EndNames DEF IInv, TypeInv, TypeOK
<1>4. fdt' # fdt /\ ~Connect /\ ~Accept
  <2>1. ASSUME NEW g \in Fds, fdt[g] = Closed, NEW e, fdt' = [fdt EXCEPT ![g] = e]
        PROVE  FALSE
    BY <1>1, <1>2, <1>3, <2>1
  <2> QED
    BY <1>1, <1>2, <2>1 DEF Connect, Accept, LowestFree
<1>5. PICK w \in Workers : CloseSock(w) \/ CloseCsock(w)
  BY <1>4 DEF Next, Environment, Arrive, Ask, Leave, Reply, HangUp, Loop, Poll, Timeout, AnswerEvent,
     Worker, Dequeue, RecvCall, RecvReturn, EnterEnclave, LeaveEnclave, Send, vars
<1>6. wpc[w] \in {"close_s", "close_c"} /\ job[w].c \in Leaving
  BY <1>5 DEF CloseSock, CloseCsock, Leaving
<1>7. CASE CloseSock(w)
  <2>1. PICK l \in Clients : PairOf(job[w], l)
    BY <1>7 DEF CloseSock, IInv, WorkerState
  <2>2. job[w].s = f
    BY <1>1, <1>2, <1>7 DEF CloseSock, CloseFd
  <2> QED
    BY <1>1, <2>1, <2>2, EndNames DEF PairOf, EndOf
<1>8. CASE CloseCsock(w)
  <2>1. job[w].c = f
    BY <1>1, <1>2, <1>8 DEF CloseCsock, CloseFd
  <2> QED
    BY <1>1, <1>6, <2>1 DEF AnswersKept, EndOf
<1> QED
  BY <1>5, <1>7, <1>8

\* With a TCS for every worker, the proxy hangs up on a client only when it
\* has sent it its answer: message_handler closes after do_send, and nothing
\* on the way from the target to that send loses an answer or reads another's.
THEOREM AnsweredBeforeClosed ==
  ASSUME WellBehaved, IsFiniteSet(Workers), Cardinality(Workers) <= TCSNum
  PROVE  Spec => ClosedAfterAnswer
<1>1. IInv /\ IInv' /\ AnswersKept /\ [Next]_vars => AnswersKept'
  BY KeptStep
<1>2. IInv /\ AnswersKept /\ [Next]_vars =>
        \A k \in Clients : Open(Client(k)) /\ ~Open(Client(k))' => outbox[Client(k)] # <<>>
  BY ClosesAnswered
<1> QED
  BY <1>1, <1>2, KeptInit, Invariance, PTL DEF Spec, ClosedAfterAnswer
=============================================================================
