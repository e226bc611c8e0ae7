--------------------------- MODULE Server_proofs ---------------------------
(***************************************************************************)
(* Proofs about Server, for every set of clients and workers, every        *)
(* descriptor table, buffer size, permutation and number of TCSs.          *)
(***************************************************************************)
EXTENDS ServerInv, SequenceTheorems, TLAPS

-----------------------------------------------------------------------------
(* Handing a batch to the queue *)

\* Shuffling keeps the tickets: each position holds some ticket of the batch,
\* and no ticket of the batch comes twice.
LEMMA ShuffledProperties ==
  ASSUME NEW S, NEW b \in Seq(S), Len(b) \in 1..BUFFER_SHUFFLING
  PROVE  /\ Shuffled(b) \in Seq(S)
         /\ Len(Shuffled(b)) = Len(b)
         /\ \A i \in 1..Len(b) :
              /\ Perm[Len(b)][i] \in 1..Len(b)
              /\ Shuffled(b)[i] = b[Perm[Len(b)][i]]
         /\ \A i, j \in 1..Len(b) : Perm[Len(b)][i] = Perm[Len(b)][j] => i = j
<1> DEFINE n == Len(b)
<1>1. n \in Nat /\ b \in [1..n -> S]
  BY LenProperties
<1>2. Perm[n] \in Rearrangements(n)
  BY ServerAssumption
<1>3. Perm[n] \in [1..n -> 1..n] /\ \A i, j \in 1..n : Perm[n][i] = Perm[n][j] => i = j
  BY <1>2 DEF Rearrangements
<1>4. Shuffled(b) \in [1..n -> S]
  BY <1>1, <1>3 DEF Shuffled
<1>5. Shuffled(b) \in Seq(S) /\ Len(Shuffled(b)) = n
  BY <1>1, <1>4, SeqDef, LenProperties
<1> QED
  BY <1>3, <1>5 DEF Shuffled

\* Appending a shuffled batch of distinct tickets to a queue of others.
LEMMA HandOff ==
  ASSUME NEW q \in Seq(Tickets), NEW b \in Seq(Tickets),
         Len(b) \in 1..BUFFER_SHUFFLING
  PROVE  /\ q \o Shuffled(b) \in Seq(Tickets)
         /\ \A i \in DOMAIN (q \o Shuffled(b)) :
              \/ \E j \in DOMAIN q : (q \o Shuffled(b))[i] = q[j]
              \/ \E j \in DOMAIN b : (q \o Shuffled(b))[i] = b[j]
         /\ Distinct(q) /\ Distinct(b) /\ Apart(q, b) => Distinct(q \o Shuffled(b))
<1> DEFINE n == Len(b)
           m == Len(q)
           p == Perm[n]
           r == q \o Shuffled(b)
<1>1. m \in Nat /\ n \in Nat /\ DOMAIN q = 1..m /\ DOMAIN b = 1..n
  BY LenProperties
<1>2. /\ r \in Seq(Tickets)
      /\ Len(r) = m + n
      /\ \A i \in 1..m + n : r[i] = IF i <= m THEN q[i] ELSE Shuffled(b)[i - m]
  <2>1. Shuffled(b) \in Seq(Tickets) /\ Len(Shuffled(b)) = n
    BY ShuffledProperties
  <2>2. \A t \in Seq(Tickets) :
          /\ q \o t \in Seq(Tickets)
          /\ Len(q \o t) = m + Len(t)
          /\ \A i \in 1..m + Len(t) : (q \o t)[i] = IF i <= m THEN q[i] ELSE t[i - m]
    BY ConcatProperties
  <2> QED
    BY <2>1, <2>2
<1>3. DOMAIN r = 1..m + n
  BY <1>2, LenProperties
<1>4. \A i \in 1..m : r[i] = q[i]
  BY <1>1, <1>2
<1>5. \A i \in 1..m + n : i > m => i - m \in 1..n /\ p[i - m] \in 1..n /\ r[i] = b[p[i - m]]
  BY <1>1, <1>2, ShuffledProperties
<1>6. \A i \in DOMAIN r : (\E j \in DOMAIN q : r[i] = q[j]) \/ (\E j \in DOMAIN b : r[i] = b[j])
  BY <1>1, <1>3, <1>4, <1>5
<1>7. ASSUME Distinct(q), Distinct(b), Apart(q, b), NEW i \in DOMAIN r, NEW j \in DOMAIN r,
             r[i].c = r[j].c
      PROVE  i = j
  <2>1. CASE i <= m /\ j <= m
    BY <2>1, <1>1, <1>3, <1>4, <1>7 DEF Distinct
  <2>2. CASE i <= m /\ j > m
    <3>1. i \in DOMAIN q /\ r[i] = q[i]
      BY <2>2, <1>1, <1>3, <1>4
    <3>2. p[j - m] \in DOMAIN b /\ r[j] = b[p[j - m]]
      BY <2>2, <1>1, <1>3, <1>5
    <3> QED
      BY <3>1, <3>2, <1>7 DEF Apart
  <2>3. CASE i > m /\ j <= m
    <3>1. j \in DOMAIN q /\ r[j] = q[j]
      BY <2>3, <1>1, <1>3, <1>4
    <3>2. p[i - m] \in DOMAIN b /\ r[i] = b[p[i - m]]
      BY <2>3, <1>1, <1>3, <1>5
    <3> QED
      BY <3>1, <3>2, <1>7 DEF Apart
  <2>4. CASE i > m /\ j > m
    <3>1. i - m \in 1..n /\ p[i - m] \in DOMAIN b /\ r[i] = b[p[i - m]]
      BY <2>4, <1>1, <1>3, <1>5
    <3>2. j - m \in 1..n /\ p[j - m] \in DOMAIN b /\ r[j] = b[p[j - m]]
      BY <2>4, <1>1, <1>3, <1>5
    <3>3. p[i - m] = p[j - m]
      BY <3>1, <3>2, <1>7 DEF Distinct
    <3>4. i - m = j - m
      BY <3>1, <3>2, <3>3, ShuffledProperties
    <3> QED
      BY <3>4, <1>1, <1>3
  <2> QED
    BY <2>1, <2>2, <2>3, <2>4, <1>1, <1>3
<1> QED
  BY <1>2, <1>6, <1>7 DEF Distinct

\* What staging a ticket may do to the buffer and the queue.
LEMMA StageTickets ==
  ASSUME buffer \in Seq(Tickets), cq \in Seq(Tickets), BufferBound,
         NEW x \in Tickets, Stage(x)
  PROVE  /\ buffer' \in Seq(Tickets)
         /\ cq' \in Seq(Tickets)
         /\ BufferBound'
         /\ \A i \in DOMAIN buffer' :
              buffer'[i] = x \/ \E j \in DOMAIN buffer : buffer'[i] = buffer[j]
         /\ \A i \in DOMAIN cq' :
              \/ cq'[i] = x
              \/ \E j \in DOMAIN buffer : cq'[i] = buffer[j]
              \/ \E j \in DOMAIN cq : cq'[i] = cq[j]
         /\ Distinct(buffer) /\ Distinct(cq) /\ Apart(cq, buffer)
              /\ Absent(x, buffer) /\ Absent(x, cq)
            => Distinct(buffer') /\ Distinct(cq') /\ Apart(cq', buffer')
<1> DEFINE b == Append(buffer, x)
           n == Len(buffer)
<1>1. n \in Nat /\ DOMAIN buffer = 1..n /\ DOMAIN cq = 1..Len(cq)
  BY LenProperties
<1>2. /\ b \in Seq(Tickets)
      /\ Len(b) = n + 1
      /\ \A i \in 1..n : b[i] = buffer[i]
      /\ b[n + 1] = x
  BY AppendProperties
<1>3. DOMAIN b = 1..n + 1
  BY <1>2, LenProperties
<1>4. \A i \in DOMAIN b : b[i] = x \/ \E j \in DOMAIN buffer : b[i] = buffer[j]
  BY <1>1, <1>2, <1>3
<1>5. Len(b) \in 1..BUFFER_SHUFFLING
  <2>1. n < BUFFER_SHUFFLING /\ BUFFER_SHUFFLING \in Nat
    BY ServerAssumption DEF BufferBound
  <2> HIDE DEF n, b
  <2> QED
    BY <2>1, <1>1, <1>2
<1>6. ASSUME Distinct(buffer), Apart(cq, buffer), Absent(x, buffer), Absent(x, cq)
      PROVE  Distinct(b) /\ Apart(cq, b)
  <2>1. Distinct(b)
    <3> SUFFICES ASSUME NEW i \in 1..n + 1, NEW j \in 1..n + 1, b[i].c = b[j].c
                 PROVE  i = j
      BY <1>3 DEF Distinct
    <3>1. CASE i <= n /\ j <= n
      BY <3>1, <1>1, <1>2, <1>6 DEF Distinct
    <3>2. CASE i <= n /\ j = n + 1
      BY <3>2, <1>1, <1>2, <1>6 DEF Absent
    <3>3. CASE i = n + 1 /\ j <= n
      BY <3>3, <1>1, <1>2, <1>6 DEF Absent
    <3> QED
      BY <3>1, <3>2, <3>3, <1>1
  <2>2. Apart(cq, b)
    BY <1>4, <1>6 DEF Apart, Absent
  <2> QED
    BY <2>1, <2>2
<1>7. CASE Len(b) = BUFFER_SHUFFLING
  <2>1. cq' = cq \o Shuffled(b) /\ buffer' = <<>>
    BY <1>7 DEF Stage
  <2>2. buffer' \in Seq(Tickets) /\ Len(buffer') = 0 /\ DOMAIN buffer' = {}
    BY <2>1, EmptySeq
  <2>3. BufferBound'
    BY <2>2, ServerAssumption DEF BufferBound
  <2>4. /\ cq' \in Seq(Tickets)
        /\ \A i \in DOMAIN cq' :
             (\E j \in DOMAIN cq : cq'[i] = cq[j]) \/ (\E j \in DOMAIN b : cq'[i] = b[j])
        /\ Distinct(cq) /\ Distinct(b) /\ Apart(cq, b) => Distinct(cq')
    BY <2>1, <1>2, <1>5, HandOff
  <2>5. Distinct(buffer') /\ Apart(cq', buffer')
    BY <2>2 DEF Distinct, Apart
  <2> QED
    BY <2>2, <2>3, <2>4, <2>5, <1>4, <1>6
<1>8. CASE Len(b) # BUFFER_SHUFFLING
  <2>1. buffer' = b /\ cq' = cq
    BY <1>8 DEF Stage
  <2>2. BufferBound'
    BY <2>1, <1>2, <1>5, <1>8, ServerAssumption DEF BufferBound
  <2> QED
    BY <2>1, <2>2, <1>2, <1>4, <1>6
<1> QED
  BY <1>7, <1>8

\* What a timeout does to them.
LEMMA TimeoutTickets ==
  ASSUME buffer \in Seq(Tickets), cq \in Seq(Tickets), BufferBound, Timeout
  PROVE  /\ buffer' = <<>>
         /\ buffer' \in Seq(Tickets)
         /\ DOMAIN buffer' = {}
         /\ cq' \in Seq(Tickets)
         /\ BufferBound'
         /\ \A i \in DOMAIN cq' :
              (\E j \in DOMAIN cq : cq'[i] = cq[j]) \/ (\E j \in DOMAIN buffer : cq'[i] = buffer[j])
         /\ Distinct(buffer) /\ Distinct(cq) /\ Apart(cq, buffer)
            => Distinct(buffer') /\ Distinct(cq') /\ Apart(cq', buffer')
<1>1. buffer' = <<>> /\ cq' = IF buffer = <<>> THEN cq ELSE cq \o Shuffled(buffer)
  BY DEF Timeout
<1>2. buffer' \in Seq(Tickets) /\ Len(buffer') = 0 /\ DOMAIN buffer' = {}
  BY <1>1, EmptySeq
<1>3. BufferBound'
  BY <1>2, ServerAssumption DEF BufferBound
<1>4. Distinct(buffer') /\ Apart(cq', buffer')
  BY <1>2 DEF Distinct, Apart
<1>5. CASE buffer = <<>>
  BY <1>1, <1>2, <1>3, <1>4, <1>5
<1>6. CASE buffer # <<>>
  <2>1. Len(buffer) \in 1..BUFFER_SHUFFLING
    <3>1. Len(buffer) \in Nat \ {0}
      BY <1>6, EmptySeq
    <3>2. Len(buffer) < BUFFER_SHUFFLING /\ BUFFER_SHUFFLING \in Nat
      BY ServerAssumption DEF BufferBound
    <3> QED
      BY <3>1, <3>2
  <2> QED
    BY <2>1, <1>1, <1>2, <1>3, <1>4, <1>6, HandOff
<1> QED
  BY <1>5, <1>6

-----------------------------------------------------------------------------
(* Types, whatever the environment does *)

LEMMA TypeInit == Init => TypeInv
<1>1. Init => TypeOK
  BY EmptySeq DEF Init, TypeOK, WorkerSteps, Received
<1>2. Init => BufferBound
  BY ServerAssumption, EmptySeq DEF Init, BufferBound
<1> QED
  BY <1>1, <1>2 DEF Init, TypeInv, WorkerTypes, LoopTypes

LEMMA HeadTypes ==
  /\ TypeOK /\ backlog # <<>> => Head(backlog) \in Clients /\ Tail(backlog) \in Seq(Clients)
  /\ TypeOK /\ cq # <<>> => Head(cq) \in Tickets /\ Tail(cq) \in Seq(Tickets)
  /\ \A k \in Clients : TypeOK /\ outbox[Upstream(k)] # <<>> =>
       Head(outbox[Upstream(k)]) \in Messages
<1>1. \A k \in Clients : TypeOK => outbox[Upstream(k)] \in Seq(Messages)
  BY DEF TypeOK, Ends, Upstream
<1> QED
  BY <1>1, HeadTailProperties DEF TypeOK

LEMMA EnvironmentTypes ==
  ASSUME TypeInv, NEW k \in Clients
  PROVE  Arrive(k) \/ Ask(k) \/ Leave(k) \/ Reply(k) \/ HangUp(k) => TypeInv'
<1> USE DEF TypeInv, envVars, loopVars, workerVars
<1>0. Client(k) \in Ends /\ Upstream(k) \in Ends
  BY DEF Ends, Client, Upstream
<1>1. ASSUME Arrive(k)
      PROVE  TypeInv'
  <2>1. Append(backlog, k) \in Seq(Clients) /\ Append(backlog, k) # <<>>
    <3>1. backlog \in Seq(Clients)
      BY DEF TypeOK
    <3> QED
      BY <3>1, AppendProperties
  <2> QED
    BY <1>1, <2>1 DEF Arrive, TypeOK, BufferBound, WorkerTypes, LoopTypes
<1>2. ASSUME Ask(k)
      PROVE  TypeInv'
  <2>1. Request(k) \in Received
    BY DEF Request, Received, Messages
  <2> QED
    BY <1>0, <1>2, <2>1 DEF Ask, TypeOK, BufferBound, WorkerTypes, LoopTypes
<1>3. ASSUME Leave(k)
      PROVE  TypeInv'
  BY <1>0, <1>3 DEF Leave, TypeOK, BufferBound, WorkerTypes, LoopTypes
<1>4. ASSUME Reply(k)
      PROVE  TypeInv'
  <2>1. Response(Head(outbox[Upstream(k)]).of) \in Received
    BY <1>4, HeadTypes DEF Reply, Response, Received, Messages
  <2> QED
    BY <1>0, <1>4, <2>1 DEF Reply, TypeOK, BufferBound, WorkerTypes, LoopTypes
<1>5. ASSUME HangUp(k)
      PROVE  TypeInv'
  BY <1>0, <1>5 DEF HangUp, TypeOK, BufferBound, WorkerTypes, LoopTypes
<1> QED
  BY <1>1, <1>2, <1>3, <1>4, <1>5

LEMMA LoopTypesStep ==
  ASSUME TypeInv, Loop
  PROVE  TypeInv'
<1> USE DEF TypeInv, envVars, loopVars, workerVars
<1>1. CASE Poll
  <2>1. events' \subseteq Ready /\ Ready \subseteq Fds \cup {ssock}
    BY <1>1 DEF Poll, Ready, TypeOK
  <2>2. ssock \in events' => backlog # <<>>
    BY <2>1, ServerAssumption DEF Ready, TypeOK
  <2> QED
    BY <1>1, <2>1, <2>2 DEF Poll, TypeOK, BufferBound, WorkerTypes, LoopTypes
<1>2. CASE Timeout
  <2>1. buffer' \in Seq(Tickets) /\ cq' \in Seq(Tickets) /\ BufferBound'
    BY <1>2, TimeoutTickets DEF TypeOK
  <2> QED
    BY <1>2, <2>1 DEF Timeout, TypeOK, WorkerTypes, LoopTypes
<1>3. CASE Connect
  <2>1. Upstream(Head(backlog)) \in Ends
    BY <1>3, HeadTypes DEF Connect, LoopTypes, Upstream, Ends
  <2> QED
    BY <1>3, <2>1 DEF Connect, TypeOK, BufferBound, WorkerTypes, LoopTypes
<1>4. CASE Accept
  <2>1. PICK c \in Fds :
          /\ fdt' = [fdt EXCEPT ![c] = Client(Head(backlog))]
          /\ backlog' = Tail(backlog)
          /\ clientsfds' = [clientsfds EXCEPT ![sckS] = c]
          /\ \/ /\ epset' = epset \cup {sckS}
                /\ Stage(Ticket(c, sckS, 0))
                /\ Handled(ssock)
                /\ UNCHANGED up
             \/ /\ up' = FALSE
                /\ UNCHANGED <<epset, buffer, cq, events, lpc>>
    BY <1>4 DEF Accept
  <2>2. sckS \in Fds /\ backlog # <<>> /\ Ticket(c, sckS, 0) \in Tickets
    BY <1>4 DEF Accept, LoopTypes, Tickets, Ticket
  <2>3. Client(Head(backlog)) \in Ends /\ Tail(backlog) \in Seq(Clients)
    BY <2>2, HeadTypes DEF Client, Ends
  <2>4. buffer' \in Seq(Tickets) /\ cq' \in Seq(Tickets) /\ BufferBound'
    BY <2>1, <2>2, StageTickets DEF TypeOK, BufferBound
  <2>5. fdt' \in [Fds -> Ends \cup {Closed}] /\ clientsfds' \in [Fds -> Fds \cup {-1, 0}]
    BY <2>1, <2>2, <2>3 DEF TypeOK
  <2>6. /\ epset' \in SUBSET Fds
        /\ lpc' \in {"poll", "dispatch", "accept"}
        /\ events' \in SUBSET (Fds \cup {ssock})
        /\ up' \in BOOLEAN
    BY <2>1, <2>2 DEF TypeOK, Handled
  <2>7. TypeOK'
    BY <1>4, <2>1, <2>3, <2>4, <2>5, <2>6 DEF Accept, TypeOK
  <2>8. LoopTypes'
    BY <2>1 DEF Handled, LoopTypes
  <2>9. WorkerTypes'
    BY <1>4 DEF Accept, WorkerTypes
  <2> QED
    BY <2>4, <2>7, <2>8, <2>9
<1>5. ASSUME NEW s \in Fds, AnswerEvent(s)
      PROVE  TypeInv'
  <2>1. Ticket(clientsfds[s], s, 1) \in Tickets
    BY DEF TypeOK, Tickets, Ticket
  <2>2. buffer' \in Seq(Tickets) /\ cq' \in Seq(Tickets) /\ BufferBound'
    BY <1>5, <2>1, StageTickets DEF AnswerEvent, TypeOK
  <2> QED
    BY <1>5, <2>2 DEF AnswerEvent, Handled, TypeOK, WorkerTypes, LoopTypes
<1> QED
  BY <1>1, <1>2, <1>3, <1>4, <1>5 DEF Loop

LEMMA WorkerTypesStep ==
  ASSUME TypeInv, NEW w \in Workers, Worker(w)
  PROVE  TypeInv'
<1> USE DEF TypeInv, envVars, loopVars, workerVars
<1>1. CASE Dequeue(w)
  <2>1. Head(cq) \in Tickets /\ Tail(cq) \in Seq(Tickets)
    BY <1>1, HeadTypes DEF Dequeue
  <2> QED
    BY <1>1, <2>1 DEF Dequeue, TypeOK, WorkerSteps, BufferBound, WorkerTypes, LoopTypes
<1>2. CASE RecvCall(w)
  <2>1. EndOf(Source(job[w])) \in Ends \cup {Closed}
    BY DEF EndOf, TypeOK
  <2> QED
    BY <1>2, <2>1 DEF RecvCall, TypeOK, WorkerSteps, BufferBound, WorkerTypes, LoopTypes
<1>3. CASE RecvReturn(w)
  <2>1. at[w] \in Ends /\ inbox[at[w]] \in Received
    BY <1>3 DEF RecvReturn, WorkerTypes, TypeOK
  <2>2. inbox' \in [Ends -> Received] /\ msg' \in [Workers -> Received]
    BY <1>3, <2>1 DEF RecvReturn, TypeOK, Received
  <2>3. wpc' \in [Workers -> WorkerSteps] /\ at' \in [Workers -> Ends \cup {Closed}]
    BY <1>3 DEF RecvReturn, TypeOK, WorkerSteps
  <2>4. TypeOK' /\ BufferBound' /\ LoopTypes'
    BY <1>3, <2>2, <2>3 DEF RecvReturn, TypeOK, BufferBound, LoopTypes
  <2>5. WorkerTypes'
    BY <1>3, <2>1 DEF RecvReturn, WorkerTypes, TypeOK, Received
  <2> QED
    BY <2>4, <2>5
<1>4. CASE EnterEnclave(w)
  BY <1>4 DEF EnterEnclave, TypeOK, WorkerSteps, Received, BufferBound, WorkerTypes, LoopTypes
<1>5. CASE LeaveEnclave(w)
  <2>1. [msg[w] EXCEPT !.via = job[w].r] \in Messages
    BY <1>5 DEF LeaveEnclave, WorkerTypes, Messages, Tickets
  <2> QED
    BY <1>5, <2>1 DEF LeaveEnclave, TypeOK, WorkerSteps, Received, BufferBound, WorkerTypes, LoopTypes
<1>6. CASE Send(w)
  <2>1. outbox' \in [Ends -> Seq(Messages)]
    <3> DEFINE e == EndOf(Destination(job[w]))
    <3>1. CASE e = Closed \/ msg[w] = NoMsg
      BY <1>6, <3>1 DEF Send, TypeOK
    <3>2. CASE e # Closed /\ msg[w] # NoMsg
      <4>1. e \in Ends /\ msg[w] \in Messages
        BY <3>2 DEF EndOf, TypeOK, Received
      <4>2. outbox[e] \in Seq(Messages)
        BY <4>1 DEF TypeOK
      <4>3. Append(outbox[e], msg[w]) \in Seq(Messages)
        BY <4>1, <4>2, AppendProperties
      <4>4. outbox' = [outbox EXCEPT ![e] = Append(outbox[e], msg[w])]
        BY <1>6, <3>2 DEF Send
      <4> QED
        BY <4>3, <4>4 DEF TypeOK
    <3> QED
      BY <3>1, <3>2
  <2> QED
    BY <1>6, <2>1 DEF Send, TypeOK, WorkerSteps, Received, BufferBound, WorkerTypes, LoopTypes
<1>7. CASE CloseSock(w)
  BY <1>7 DEF CloseSock, CloseFd, TypeOK, WorkerSteps, BufferBound, WorkerTypes, LoopTypes
<1>8. CASE CloseCsock(w)
  BY <1>8 DEF CloseCsock, CloseFd, TypeOK, WorkerSteps, BufferBound, WorkerTypes, LoopTypes
<1> QED
  BY <1>1, <1>2, <1>3, <1>4, <1>5, <1>6, <1>7, <1>8 DEF Worker

LEMMA TypeStep == TypeInv /\ [Next]_vars => TypeInv'
<1> SUFFICES ASSUME TypeInv, [Next]_vars
             PROVE  TypeInv'
  OBVIOUS
<1>1. CASE Environment
  BY <1>1, EnvironmentTypes DEF Environment
<1>2. CASE Loop
  BY <1>2, LoopTypesStep
<1>3. CASE \E w \in Workers : Worker(w)
  BY <1>3, WorkerTypesStep
<1>4. CASE UNCHANGED vars
  BY <1>4 DEF vars, envVars, loopVars, workerVars, TypeInv, TypeOK, BufferBound,
              WorkerTypes, LoopTypes
<1> QED
  BY <1>1, <1>2, <1>3, <1>4 DEF Next

\* Every variable has its type, and the poll thread never writes past the end
\* of its shuffle buffer, whatever clients and target do.
THEOREM TypeCorrect == Spec => [](TypeOK /\ BufferBound)
<1>1. TypeInv => TypeOK /\ BufferBound
  BY DEF TypeInv
<1> QED
  BY <1>1, TypeInit, TypeStep, PTL DEF Spec

-----------------------------------------------------------------------------
(* Connections are not mixed up, when the target is well behaved *)

LEMMA EndNames ==
  /\ \A k \in Clients : Client(k) \in Ends /\ Upstream(k) \in Ends
  /\ \A k, l \in Clients : Client(k) # Upstream(l)
  /\ \A k, l \in Clients : Client(k) = Client(l) => k = l
  /\ \A k, l \in Clients : Upstream(k) = Upstream(l) => k = l
  /\ \A k \in Clients : Client(k) # Closed /\ Upstream(k) # Closed
  /\ Closed \notin Ends
<1>1. Closed \notin Ends
  BY ServerAssumption
<1>2. \A k \in Clients : Client(k) \in Ends /\ Upstream(k) \in Ends
  BY DEF Ends, Client, Upstream
<1> QED
  BY <1>1, <1>2 DEF Client, Upstream

LEMMA IInit == Init => IInv
<1> SUFFICES ASSUME Init
             PROVE  IInv
  OBVIOUS
<1>1. DOMAIN buffer = {} /\ DOMAIN cq = {} /\ DOMAIN backlog = {}
  BY EmptySeq DEF Init
<1>2. \A e \in Ends : ~Open(e) /\ inbox[e] = NoMsg /\ ~eof[e] /\ outbox[e] = <<>>
  BY EndNames DEF Init, Open
<1>3. TypeInv /\ up
  BY TypeInit DEF Init
<1>4. FdInjective /\ LoopState /\ Registered
  BY DEF Init, FdInjective, LoopState, Registered
<1>5. Unaccepted /\ TargetSpeaks /\ OwnAnswer /\ OwnRequest
  BY <1>1, <1>2, EndNames DEF Unaccepted, Untouched, TargetSpeaks, OwnAnswer, OwnRequest
<1>6. DueTickets /\ WorkerState /\ OneTicket
  BY <1>1 DEF Init, DueTickets, WorkerState, OneTicket, Distinct, Apart
<1> QED
  BY <1>3, <1>4, <1>5, <1>6 DEF IInv

LEMMA ArriveStep ==
  ASSUME IInv, TypeInv', NEW k \in Clients, Arrive(k)
  PROVE  IInv'
<1> USE DEF envVars, loopVars, workerVars
<1>1. /\ UNCHANGED <<inbox, eof, outbox, fdt, loopVars, cq, workerVars, up>>
      /\ client[k] = "away"
      /\ client' = [client EXCEPT ![k] = "silent"]
      /\ backlog' = Append(backlog, k)
  BY DEF Arrive
<1>2. backlog \in Seq(Clients)
  BY DEF IInv, TypeInv, TypeOK
<1>3. /\ DOMAIN backlog = 1..Len(backlog)
      /\ DOMAIN backlog' = 1..Len(backlog) + 1
      /\ \A i \in 1..Len(backlog) : backlog'[i] = backlog[i]
      /\ backlog'[Len(backlog) + 1] = k
      /\ Len(backlog) \in Nat
  BY <1>1, <1>2, AppendProperties, LenProperties
<1>4. Untouched(k) /\ ~Open(Upstream(k)) /\ \A i \in DOMAIN backlog : backlog[i] # k
  BY <1>1 DEF IInv, Unaccepted
<1>5. \A e : Open(e)' <=> Open(e)
  BY <1>1 DEF Open
<1>6. \A l \in Clients : Untouched(l)' <=> Untouched(l)
  BY <1>1, <1>5 DEF Untouched
<1>7. \A l \in Clients : client'[l] = "away" => client[l] = "away" /\ l # k
  BY <1>1 DEF IInv, TypeInv, TypeOK
<1>8. Unaccepted'
  <2>1. \A l \in Clients : client'[l] = "away" =>
          Untouched(l)' /\ ~Open(Upstream(l))' /\ \A i \in DOMAIN backlog' : backlog'[i] # l
    BY <1>3, <1>5, <1>6, <1>7 DEF IInv, Unaccepted
  <2>2. \A i, j \in DOMAIN backlog' : backlog'[i] = backlog'[j] => i = j
    BY <1>3, <1>4 DEF IInv, Unaccepted
  <2>3. \A i \in DOMAIN backlog' : (Untouched(backlog[i]))'
    <3> SUFFICES ASSUME NEW i \in DOMAIN backlog'
                 PROVE  (Untouched(backlog[i]))'
      OBVIOUS
    <3>1. \E l \in Clients : backlog'[i] = l /\ Untouched(l)
      BY <1>2, <1>3, <1>4, ElementOfSeq DEF IInv, Unaccepted
    <3> QED
      BY <3>1, <1>1, <1>5 DEF Untouched
  <2>4. \A i \in DOMAIN backlog' : (Open(Upstream(backlog[i])))' => lpc' = "accept" /\ i = 1
    <3> SUFFICES ASSUME NEW i \in DOMAIN backlog', (Open(Upstream(backlog[i])))'
                 PROVE  lpc' = "accept" /\ i = 1
      OBVIOUS
    <3>1. Open(Upstream(backlog'[i]))
      BY <1>1 DEF Open, Upstream
    <3> QED
      BY <3>1, <1>1, <1>3, <1>4 DEF IInv, Unaccepted
  <2> QED
    BY <2>1, <2>2, <2>3, <2>4 DEF Unaccepted
<1>9. LoopState'
  <2>1. lpc = "accept" => Head(backlog') = Head(backlog)
    BY <1>1, <1>2, HeadTailAppend DEF IInv, TypeInv, LoopTypes
  <2> QED
    BY <1>1, <2>1 DEF IInv, LoopState, Readable
<1> QED
  BY <1>1, <1>8, <1>9 DEF IInv, FdInjective, Registered, TargetSpeaks, DueTickets, Due, PairOf,
     EndOf, WorkerState, OneTicket, Distinct, Apart, Absent, OwnAnswer, OwnRequest, Open

\* Ask, Leave and Reply only add something to read at one end.
LEMMA PeerSpeaks ==
  ASSUME IInv, TypeInv',
         UNCHANGED <<backlog, outbox, fdt, loopVars, cq, workerVars, up>>,
         \A k \in Clients : client'[k] = "away" => client[k] = "away",
         \A e \in Ends : inbox[e] # NoMsg => inbox'[e] # NoMsg,
         \A e \in Ends : eof[e] => eof'[e],
         TargetSpeaks'
  PROVE  IInv'
<1> USE DEF loopVars, workerVars
<1>1. Unaccepted'
  BY DEF IInv, Unaccepted, Untouched, Open
<1>2. LoopState'
  BY DEF IInv, TypeInv, TypeOK, LoopState, Readable
<1> QED
  BY <1>1, <1>2 DEF IInv, FdInjective, Registered, DueTickets, Due, PairOf,
     EndOf, WorkerState, OneTicket, Distinct, Apart, Absent, OwnAnswer, OwnRequest, Open

LEMMA EnvironmentStep ==
  ASSUME IInv, TypeInv', WellBehaved, Environment
  PROVE  IInv'
<1> USE DEF envVars
<1>1. PICK k \in Clients : Arrive(k) \/ Ask(k) \/ Leave(k) \/ Reply(k) \/ HangUp(k)
  BY DEF Environment
<1>2. /\ client \in [Clients -> {"away", "silent", "asked"}]
      /\ inbox \in [Ends -> Received]
      /\ eof \in [Ends -> BOOLEAN]
  BY DEF IInv, TypeInv, TypeOK
<1>3. CASE Arrive(k)
  BY <1>3, ArriveStep
<1>4. CASE Ask(k)
  <2>1. /\ client' = [client EXCEPT ![k] = "asked"]
        /\ inbox' = [inbox EXCEPT ![Client(k)] = Request(k)]
        /\ UNCHANGED <<backlog, eof, outbox, fdt, loopVars, cq, workerVars, up>>
    BY <1>4 DEF Ask
  <2>2. Request(k) # NoMsg
    BY ServerAssumption DEF Request, Messages
  <2>3. TargetSpeaks'
    BY <1>2, <2>1, EndNames DEF IInv, TargetSpeaks
  <2> QED
    BY <1>2, <2>1, <2>2, <2>3, EndNames, PeerSpeaks
<1>5. CASE Leave(k)
  <2>1. /\ eof' = [eof EXCEPT ![Client(k)] = TRUE]
        /\ UNCHANGED <<client, backlog, inbox, outbox, fdt, loopVars, cq, workerVars, up>>
    BY <1>5 DEF Leave
  <2>2. TargetSpeaks'
    BY <1>2, <2>1, EndNames DEF IInv, TargetSpeaks
  <2> QED
    BY <1>2, <2>1, <2>2, EndNames, PeerSpeaks
<1>6. CASE Reply(k)
  <2>1. Head(outbox[Upstream(k)]).of = k
    <3>1. outbox[Upstream(k)] = <<Rewritten(Request(k), 0)>>
      BY <1>6 DEF Reply, IInv, OwnRequest
    <3> QED
      BY <3>1 DEF Rewritten, Request
  <2>2. /\ inbox' = [inbox EXCEPT ![Upstream(k)] = Response(k)]
        /\ eof' = [eof EXCEPT ![Upstream(k)] = TRUE]
        /\ outbox[Upstream(k)] # <<>>
        /\ UNCHANGED <<client, backlog, outbox, fdt, loopVars, cq, workerVars, up>>
    BY <1>6, <2>1 DEF Reply
  <2>3. Response(k) # NoMsg
    BY ServerAssumption DEF Response, Messages
  <2>4. TargetSpeaks'
    BY <1>2, <2>2, EndNames DEF IInv, TargetSpeaks
  <2> QED
    BY <1>2, <2>2, <2>3, <2>4, EndNames, PeerSpeaks
<1>7. CASE HangUp(k)
  BY <1>7 DEF HangUp, WellBehaved
<1> QED
  BY <1>1, <1>3, <1>4, <1>5, <1>6, <1>7

-----------------------------------------------------------------------------
(* The poll thread *)

LEMMA PollStep ==
  ASSUME IInv, TypeInv', Poll
  PROVE  IInv'
<1> USE DEF envVars, loopVars, workerVars
<1>1. /\ events' \subseteq Ready
      /\ lpc = "poll" /\ lpc' = "dispatch"
      /\ UNCHANGED <<envVars, fdt, epset, sckS, buffer, clientsfds, cq, workerVars, up>>
  BY DEF Poll
<1>2. Unaccepted'
  BY <1>1 DEF IInv, Unaccepted, Untouched, Open
<1>3. LoopState'
  BY <1>1 DEF LoopState, Ready, Readable
<1> QED
  BY <1>1, <1>2, <1>3 DEF IInv, FdInjective, Registered, TargetSpeaks, DueTickets, Due, PairOf,
     EndOf, WorkerState, OneTicket, Distinct, Apart, Absent, OwnAnswer, OwnRequest, Open

\* Tickets that were on the queue or in the buffer are so still: it is all a
\* hand-off does to them.
LEMMA TimeoutStep ==
  ASSUME IInv, TypeInv', Timeout
  PROVE  IInv'
<1> USE DEF envVars, loopVars, workerVars
<1>1. UNCHANGED <<envVars, fdt, epset, lpc, events, sckS, clientsfds, workerVars, up>>
  BY DEF Timeout
<1>2. /\ DOMAIN buffer' = {}
      /\ \A i \in DOMAIN cq' :
           (\E j \in DOMAIN cq : cq'[i] = cq[j]) \/ (\E j \in DOMAIN buffer : cq'[i] = buffer[j])
      /\ Distinct(buffer) /\ Distinct(cq) /\ Apart(cq, buffer)
         => Distinct(buffer') /\ Distinct(cq') /\ Apart(cq', buffer')
  BY TimeoutTickets DEF IInv, TypeInv, TypeOK
<1>3. \A t \in Tickets, k \in Clients : Due(t, k)' <=> Due(t, k)
  BY <1>1 DEF Due, PairOf, EndOf
<1>4. DueTickets'
  <2>1. ASSUME NEW i \in DOMAIN cq'
        PROVE  \E k \in Clients : Due(cq'[i], k)
    BY <1>2 DEF IInv, DueTickets
  <2> QED
    BY <1>1, <1>2, <2>1 DEF DueTickets, Due, PairOf, EndOf
<1>5. OneTicket'
  <2>1. \A w \in Workers : wpc[w] # "idle" => Absent(job[w], buffer') /\ Absent(job[w], cq')
    BY <1>2 DEF IInv, OneTicket, Absent
  <2> QED
    BY <1>1, <1>2, <2>1 DEF IInv, OneTicket, Distinct, Apart, Absent
<1> QED
  BY <1>1, <1>4, <1>5 DEF IInv, FdInjective, Unaccepted, Untouched, LoopState, Readable,
     Registered, TargetSpeaks, Due, PairOf, EndOf, WorkerState, OwnAnswer, OwnRequest, Open

\* What a ticket names survives the opening of another descriptor.
LEMMA OpenKeeps ==
  ASSUME TypeOK, NEW f \in Fds, NEW e \in Ends, fdt[f] = Closed,
         fdt' = [fdt EXCEPT ![f] = e]
  PROVE  /\ \A g : EndOf(g) # Closed => EndOf(g)' = EndOf(g)
         /\ \A d \in Ends : Open(d)' <=> Open(d) \/ d = e
         /\ \A g \in Fds : fdt[g] # Closed => fdt'[g] = fdt[g]
         /\ fdt'[f] = e
         /\ FdInjective /\ ~Open(e) => FdInjective'
<1>1. fdt \in [Fds -> Ends \cup {Closed}] /\ Closed \notin Ends
  BY EndNames DEF TypeOK
<1>2. \A g \in Fds : fdt'[g] = IF g = f THEN e ELSE fdt[g]
  BY <1>1
<1>3. \A g : EndOf(g) # Closed => EndOf(g)' = EndOf(g)
  BY <1>2 DEF EndOf
<1>4. \A d \in Ends : Open(d)' <=> Open(d) \/ d = e
  BY <1>1, <1>2 DEF Open
<1>5. FdInjective /\ ~Open(e) => FdInjective'
  BY <1>1, <1>2 DEF FdInjective, Open
<1> QED
  BY <1>2, <1>3, <1>4, <1>5

LEMMA ConnectStep ==
  ASSUME IInv, TypeInv', WellBehaved, Connect
  PROVE  IInv'
<1> USE DEF envVars, loopVars, workerVars
<1> DEFINE k0 == Head(backlog)
<1>1. /\ lpc = "dispatch" /\ lpc' = "accept" /\ ssock \in events
      /\ UNCHANGED <<envVars, epset, events, buffer, clientsfds, cq, workerVars, up>>
  BY DEF Connect
<1>2. PICK s \in Fds : /\ LowestFree(s)
                       /\ sckS' = s
                       /\ fdt' = [fdt EXCEPT ![s] = Upstream(k0)]
  BY DEF Connect, WellBehaved
<1>3. TypeOK /\ up /\ backlog # <<>> /\ backlog \in Seq(Clients) /\ fdt[s] = Closed
  BY <1>1, <1>2 DEF IInv, TypeInv, LoopTypes, TypeOK, LowestFree
<1>4. /\ k0 \in Clients
      /\ 1 \in DOMAIN backlog /\ backlog[1] = k0
  BY <1>3, HeadTypes, LenProperties, EmptySeq
<1>5. ~Open(Upstream(k0)) /\ Untouched(k0)
  BY <1>1, <1>4 DEF IInv, Unaccepted
<1>6. Upstream(k0) \in Ends
  BY <1>4, EndNames
<1>7. /\ \A g : EndOf(g) # Closed => EndOf(g)' = EndOf(g)
      /\ \A d \in Ends : Open(d)' <=> Open(d) \/ d = Upstream(k0)
      /\ \A g \in Fds : fdt[g] # Closed => fdt'[g] = fdt[g]
      /\ fdt'[s] = Upstream(k0)
      /\ FdInjective'
  BY <1>2, <1>3, <1>5, <1>6, OpenKeeps DEF IInv
<1>8. \A t, k : k \in Clients /\ PairOf(t, k) => PairOf(t, k)'
  BY <1>7, EndNames DEF PairOf
<1>9. \A t, k : k \in Clients /\ Due(t, k) => Due(t, k)'
  BY <1>1, <1>8 DEF Due
<1>10. Unaccepted'
  <2>1. \A k \in Clients : Open(Client(k))' <=> Open(Client(k))
    BY <1>4, <1>7, EndNames
  <2>2. \A k \in Clients : Open(Upstream(k))' <=> Open(Upstream(k)) \/ k = k0
    BY <1>4, <1>7, EndNames
  <2>3. \A k \in Clients : Untouched(k)' <=> Untouched(k)
    BY <1>1, <2>1 DEF Untouched
  <2>4. \A k \in Clients : client'[k] = "away" =>
          Untouched(k)' /\ ~Open(Upstream(k))' /\ \A i \in DOMAIN backlog' : backlog'[i] # k
    BY <1>1, <1>4, <2>2, <2>3 DEF IInv, Unaccepted
  <2>5. \A i \in DOMAIN backlog : backlog[i] \in Clients
    BY <1>3, ElementOfSeq, LenProperties
  <2>6. \A i \in DOMAIN backlog : Untouched(backlog[i]) /\ ~Open(Upstream(backlog[i]))
    BY <1>1 DEF IInv, Unaccepted
  <2>7. \A i \in DOMAIN backlog, k \in Clients :
          backlog[i] = k => Untouched(k)' /\ (Open(Upstream(k))' => i = 1)
    BY <1>4, <2>2, <2>3, <2>6 DEF IInv, Unaccepted
  <2>8. \A i \in DOMAIN backlog' :
          (Untouched(backlog[i]))' /\ ((Open(Upstream(backlog[i])))' => lpc' = "accept" /\ i = 1)
    BY <1>1, <2>5, <2>7 DEF Untouched, Open
  <2> QED
    BY <1>1, <2>4, <2>8 DEF IInv, Unaccepted
<1>11. LoopState'
  <2>1. s \notin epset
    BY <1>3, EndNames DEF IInv, Registered
  <2>2. \A e \in events \ {ssock} : fdt[e] # Closed /\ e \in Fds
    BY <1>3 DEF IInv, LoopState, Readable, TypeOK
  <2> QED
    BY <1>1, <1>2, <1>7, <2>1, <2>2 DEF IInv, LoopState, Readable
<1>12. Registered'
  <2> SUFFICES ASSUME NEW r \in epset
               PROVE  \E k \in Clients : /\ fdt'[r] = Upstream(k)
                                         /\ EndOf(clientsfds[r])' = Client(k)
                                         /\ outbox[Client(k)] = <<>>
    BY <1>1 DEF Registered
  <2>1. PICK k \in Clients : /\ fdt[r] = Upstream(k)
                             /\ EndOf(clientsfds[r]) = Client(k)
                             /\ outbox[Client(k)] = <<>>
    BY DEF IInv, Registered
  <2>2. r \in Fds /\ Client(k) # Closed /\ Upstream(k) # Closed
    BY <1>3, EndNames DEF TypeOK
  <2>3. fdt'[r] = Upstream(k)
    BY <2>1, <2>2, <1>7
  <2>4. EndOf(clientsfds[r])' = Client(k)
    BY <2>1, <2>2, <1>1, <1>7
  <2> QED
    BY <2>1, <2>3, <2>4
<1>13. DueTickets'
  BY <1>1, <1>9 DEF IInv, DueTickets
<1>14. WorkerState'
  <2> SUFFICES ASSUME NEW w \in Workers
               PROVE  WorkerState!(w)'
    BY DEF WorkerState
  <2>1. wpc[w] = "blocked" => at[w] # Closed
    BY EndNames DEF IInv, TypeInv, WorkerTypes
  <2>2. wpc[w] = "close_c" =>
          \E k \in Clients : EndOf(job[w].c)' = Client(k) /\ ~Open(Upstream(k))'
    <3> SUFFICES ASSUME wpc[w] = "close_c"
                 PROVE  \E k \in Clients : EndOf(job[w].c)' = Client(k) /\ ~Open(Upstream(k))'
      OBVIOUS
    <3>1. PICK k \in Clients : EndOf(job[w].c) = Client(k) /\ ~Open(Upstream(k))
      BY DEF IInv, WorkerState
    <3>2. Open(Client(k))
      BY <3>1, EndNames DEF EndOf, Open
    <3>3. k # k0
      BY <3>2, <1>5 DEF Untouched
    <3>4. Upstream(k) \in Ends /\ Upstream(k) # Upstream(k0) /\ Client(k) # Closed
      BY <3>3, <1>4, EndNames
    <3>6. ~Open(Upstream(k))'
      BY <3>1, <3>4, <1>7
    <3>7. EndOf(job[w].c)' = Client(k)
      BY <3>1, <3>4, <1>1, <1>7
    <3> QED
      BY <3>6, <3>7
  <2> QED
    BY <1>1, <1>7, <1>8, <1>9, <2>1, <2>2 DEF IInv, WorkerState
<1> QED
  BY <1>1, <1>7, <1>10, <1>11, <1>12, <1>13, <1>14 DEF IInv, TargetSpeaks, OneTicket,
     Distinct, Apart, Absent, OwnAnswer, OwnRequest

\* Staging a ticket nobody else has leaves every connection with one ticket.
LEMMA StageStep ==
  ASSUME IInv, UNCHANGED workerVars, NEW x \in Tickets, Stage(x),
         Absent(x, buffer), Absent(x, cq),
         \A w \in Workers : wpc[w] # "idle" => job[w].c # x.c,
         \A t \in Tickets, k \in Clients : Due(t, k) => Due(t, k)',
         NEW l \in Clients, Due(x, l)'
  PROVE  DueTickets' /\ OneTicket'
<1>1. /\ buffer \in Seq(Tickets) /\ cq \in Seq(Tickets) /\ BufferBound
      /\ Distinct(buffer) /\ Distinct(cq) /\ Apart(cq, buffer)
  BY DEF IInv, TypeInv, TypeOK, OneTicket
<1>2. /\ buffer' \in Seq(Tickets)
      /\ cq' \in Seq(Tickets)
      /\ \A i \in DOMAIN buffer' :
           buffer'[i] = x \/ \E j \in DOMAIN buffer : buffer'[i] = buffer[j]
      /\ \A i \in DOMAIN cq' :
           \/ cq'[i] = x
           \/ \E j \in DOMAIN buffer : cq'[i] = buffer[j]
           \/ \E j \in DOMAIN cq : cq'[i] = cq[j]
      /\ Distinct(buffer') /\ Distinct(cq') /\ Apart(cq', buffer')
  BY <1>1, StageTickets
<1>3. \A t \in Tickets : (\E k \in Clients : Due(t, k)) => \E k \in Clients : Due(t, k)'
  OBVIOUS
<1>4. /\ \A i \in DOMAIN buffer : buffer[i] \in Tickets
      /\ \A i \in DOMAIN cq : cq[i] \in Tickets
  BY <1>1, LenProperties, ElementOfSeq
<1>8. ASSUME NEW t, (\E i \in DOMAIN buffer' : buffer'[i] = t) \/ \E i \in DOMAIN cq' : cq'[i] = t
      PROVE  \E k \in Clients : Due(t, k)'
  <2>1. \/ t = x
        \/ \E j \in DOMAIN buffer : t = buffer[j]
        \/ \E j \in DOMAIN cq : t = cq[j]
    BY <1>2, <1>8
  <2>2. t = x \/ (t \in Tickets /\ \E k \in Clients : Due(t, k))
    BY <2>1, <1>4 DEF IInv, DueTickets
  <2> QED
    BY <2>2, <1>3
<1>5. DueTickets'
  BY <1>8 DEF DueTickets, Due, PairOf, EndOf
<1>6. \A w \in Workers : wpc[w] # "idle" => Absent(job[w], buffer') /\ Absent(job[w], cq')
  BY <1>2 DEF IInv, OneTicket, Absent
<1>7. OneTicket'
  BY <1>2, <1>6 DEF IInv, OneTicket, Distinct, Apart, Absent, workerVars
<1> QED
  BY <1>5, <1>7

LEMMA AnswerEventStep ==
  ASSUME IInv, TypeInv', NEW s \in Fds, AnswerEvent(s)
  PROVE  IInv'
<1> USE DEF envVars, loopVars, workerVars
<1>0. PICK x : x = Ticket(clientsfds[s], s, 1)
  OBVIOUS
<1>1. /\ lpc = "dispatch"
      /\ s \in events \ {ssock}
      /\ clientsfds' = [clientsfds EXCEPT ![s] = -1]
      /\ epset' = epset \ {s}
      /\ Stage(x)
      /\ Handled(s)
      /\ UNCHANGED <<envVars, fdt, sckS, workerVars, up>>
  BY <1>0 DEF AnswerEvent
<1>2. s \in epset /\ Readable(s)
  BY <1>1 DEF IInv, LoopState
<1>3. PICK k0 \in Clients : /\ fdt[s] = Upstream(k0)
                            /\ EndOf(clientsfds[s]) = Client(k0)
                            /\ outbox[Client(k0)] = <<>>
  BY <1>2 DEF IInv, Registered
<1>4. outbox[Upstream(k0)] # <<>>
  BY <1>2, <1>3 DEF IInv, TargetSpeaks, Readable
<1>5. x \in Tickets /\ x.c = clientsfds[s] /\ x.s = s /\ x.r = 1
  BY <1>0 DEF IInv, TypeInv, TypeOK, Tickets, Ticket
<1>6. \A t \in Tickets, k \in Clients : Due(t, k) => t.c # x.c
  <2> SUFFICES ASSUME NEW t \in Tickets, NEW k \in Clients, Due(t, k), t.c = x.c
               PROVE  FALSE
    OBVIOUS
  <2>1. k = k0
    BY <1>3, <1>5, EndNames DEF Due, PairOf
  <2>2. t.r = 1
    BY <2>1, <1>4 DEF Due, Tickets
  <2>3. t.s = s
    BY <2>1, <1>3, EndNames DEF Due, PairOf, EndOf, IInv, FdInjective, Tickets
  <2> QED
    BY <2>2, <2>3, <1>2 DEF Due
<1>7. \A t \in Tickets, k \in Clients : Due(t, k) => Due(t, k)'
  BY <1>1 DEF Due, PairOf, EndOf
<1>8. Absent(x, buffer) /\ Absent(x, cq)
  <2>1. \A i \in DOMAIN buffer : buffer[i] \in Tickets
    BY LenProperties, ElementOfSeq DEF IInv, TypeInv, TypeOK
  <2>2. \A i \in DOMAIN cq : cq[i] \in Tickets
    BY LenProperties, ElementOfSeq DEF IInv, TypeInv, TypeOK
  <2> QED
    BY <2>1, <2>2, <1>6 DEF IInv, DueTickets, Absent
<1>9. \A w \in Workers : wpc[w] # "idle" => job[w].c # x.c
  <2> SUFFICES ASSUME NEW w \in Workers, wpc[w] # "idle", job[w].c = x.c
               PROVE  FALSE
    OBVIOUS
  <2>1. job[w] \in Tickets /\ wpc[w] \in WorkerSteps
    BY DEF IInv, TypeInv, TypeOK, WorkerTypes
  <2>2. CASE wpc[w] \in {"recv", "blocked", "ecall", "enclave", "send"}
    BY <2>1, <2>2, <1>6 DEF IInv, WorkerState
  <2>3. CASE wpc[w] = "close_s"
    <3>1. PICK k \in Clients : PairOf(job[w], k) /\ job[w].s \notin epset
      BY <2>3 DEF IInv, WorkerState
    <3>2. k = k0
      BY <3>1, <1>3, <1>5, EndNames DEF PairOf
    <3>3. job[w].s = s
      BY <3>1, <3>2, <2>1, <1>3, EndNames DEF PairOf, EndOf, IInv, FdInjective, Tickets
    <3> QED
      BY <3>1, <3>3, <1>2
  <2>4. CASE wpc[w] = "close_c"
    <3>1. PICK k \in Clients : EndOf(job[w].c) = Client(k) /\ ~Open(Upstream(k))
      BY <2>4 DEF IInv, WorkerState
    <3>2. k = k0
      BY <3>1, <1>3, <1>5, EndNames
    <3> QED
      BY <3>1, <3>2, <1>3 DEF Open
  <2> QED
    BY <2>1, <2>2, <2>3, <2>4 DEF WorkerSteps
<1>10. Due(x, k0)'
  BY <1>1, <1>3, <1>5 DEF Due, PairOf, EndOf
<1>11. DueTickets' /\ OneTicket'
  BY <1>1, <1>5, <1>7, <1>8, <1>9, <1>10, StageStep
<1>12. lpc' # "accept" /\ events' \subseteq events \ {s}
  BY <1>1 DEF Handled
<1>13. Unaccepted'
  BY <1>1, <1>12 DEF IInv, Unaccepted, Untouched, Open
<1>14. LoopState'
  BY <1>1, <1>12 DEF IInv, LoopState, Readable
<1>15. Registered'
  BY <1>1 DEF IInv, TypeInv, TypeOK, Registered, EndOf
<1>16. WorkerState'
  BY <1>1 DEF IInv, WorkerState, Due, PairOf, EndOf, Open
<1> QED
  BY <1>1, <1>11, <1>13, <1>14, <1>15, <1>16
     DEF IInv, FdInjective, TargetSpeaks, OwnAnswer, OwnRequest

LEMMA AcceptStep ==
  ASSUME IInv, TypeInv', Accept
  PROVE  IInv'
<1> USE DEF envVars, loopVars, workerVars
<1>0. PICK k0 : k0 = Head(backlog)
  OBVIOUS
<1>1. TypeOK /\ up /\ lpc = "accept" /\ sckS \in Fds /\ backlog # <<>> /\ backlog \in Seq(Clients)
  BY DEF Accept, IInv, TypeInv, LoopTypes, TypeOK
<1>2. /\ k0 \in Clients
      /\ 1 \in DOMAIN backlog /\ backlog[1] = k0
  BY <1>0, <1>1, HeadTypes, LenProperties, EmptySeq
<1>3. fdt[sckS] = Upstream(k0) /\ sckS \notin epset /\ Untouched(k0)
  BY <1>0, <1>1, <1>2 DEF IInv, LoopState, Unaccepted
<1>4. PICK c \in Fds :
        /\ fdt[c] = Closed
        /\ fdt' = [fdt EXCEPT ![c] = Client(k0)]
        /\ backlog' = Tail(backlog)
        /\ clientsfds' = [clientsfds EXCEPT ![sckS] = c]
        /\ \/ /\ fdt'[sckS] # Closed
              /\ epset' = epset \cup {sckS}
              /\ Stage(Ticket(c, sckS, 0))
              /\ Handled(ssock)
              /\ UNCHANGED up
           \/ fdt'[sckS] = Closed
  BY <1>0 DEF Accept, LowestFree
<1>5. Client(k0) \in Ends /\ ~Open(Client(k0))
  BY <1>2, <1>3, EndNames DEF Untouched
<1>6. /\ \A g : EndOf(g) # Closed => EndOf(g)' = EndOf(g)
      /\ \A d \in Ends : Open(d)' <=> Open(d) \/ d = Client(k0)
      /\ \A g \in Fds : fdt[g] # Closed => fdt'[g] = fdt[g]
      /\ fdt'[c] = Client(k0)
      /\ FdInjective'
  BY <1>1, <1>4, <1>5, OpenKeeps DEF IInv
<1>7. fdt'[sckS] = Upstream(k0) /\ Upstream(k0) # Closed
  BY <1>1, <1>2, <1>3, <1>6, EndNames
<1>8. PICK x : x = Ticket(c, sckS, 0)
  OBVIOUS
<1>9. /\ epset' = epset \cup {sckS}
      /\ Stage(x)
      /\ Handled(ssock)
      /\ up'
      /\ UNCHANGED <<client, inbox, eof, outbox, workerVars>>
  BY <1>1, <1>4, <1>7, <1>8 DEF Accept
<1>10. x \in Tickets /\ x.c = c /\ x.s = sckS /\ x.r = 0
  BY <1>1, <1>8 DEF Tickets, Ticket
<1>11. \A t, k : k \in Clients /\ PairOf(t, k) => PairOf(t, k)'
  BY <1>6, EndNames DEF PairOf
<1>12. \A t, k : k \in Clients /\ PairOf(t, k) => t.c # c /\ k # k0
  <2> SUFFICES ASSUME NEW t, NEW k \in Clients, PairOf(t, k)
               PROVE  t.c # c /\ k # k0
    OBVIOUS
  <2>1. EndOf(t.c) = Client(k) /\ Client(k) # Closed
    BY EndNames DEF PairOf
  <2>2. Open(Client(k))
    BY <2>1 DEF EndOf, Open
  <2> QED
    BY <2>1, <2>2, <1>4, <1>5 DEF EndOf
<1>13. \A t \in Tickets, k \in Clients : Due(t, k) => Due(t, k)'
  <2> SUFFICES ASSUME NEW t \in Tickets, NEW k \in Clients, Due(t, k)
               PROVE  Due(t, k)'
    OBVIOUS
  <2>1. PairOf(t, k)' /\ k # k0 /\ t.s \in Fds /\ fdt[t.s] = Upstream(k)
    BY <1>11, <1>12 DEF Due, PairOf, EndOf, Tickets
  <2>2. t.s # sckS
    BY <2>1, <1>2, <1>3, EndNames
  <2> QED
    BY <2>1, <2>2, <1>9 DEF Due
<1>14. Due(x, k0)'
  <2>1. x.c \in Fds /\ x.s \in Fds /\ fdt'[x.c] = Client(k0) /\ fdt'[x.s] = Upstream(k0)
    BY <1>1, <1>6, <1>7, <1>10
  <2>2. PairOf(x, k0)'
    BY <2>1 DEF PairOf, EndOf
  <2> QED
    BY <2>2, <1>3, <1>9, <1>10 DEF Due, Untouched
<1>15. Absent(x, buffer) /\ Absent(x, cq)
  <2>1. /\ \A i \in DOMAIN buffer : \E k \in Clients : PairOf(buffer[i], k)
        /\ \A i \in DOMAIN cq : \E k \in Clients : PairOf(cq[i], k)
    BY DEF IInv, DueTickets, Due
  <2> QED
    BY <2>1, <1>10, <1>12 DEF Absent
<1>16. \A w \in Workers : wpc[w] # "idle" => job[w].c # c
  <2> SUFFICES ASSUME NEW w \in Workers, wpc[w] # "idle"
               PROVE  job[w].c # c
    OBVIOUS
  <2>1. wpc[w] \in WorkerSteps
    BY <1>1 DEF TypeOK
  <2>2. \E k \in Clients : EndOf(job[w].c) = Client(k)
    BY <2>1 DEF WorkerSteps, IInv, WorkerState, Due, PairOf
  <2> QED
    BY <2>2, <1>4, EndNames DEF EndOf
<1>17. DueTickets' /\ OneTicket'
  BY <1>9, <1>10, <1>13, <1>14, <1>15, <1>16, <1>2, StageStep
<1>18. Unaccepted'
  <2>1. /\ backlog' \in Seq(Clients)
        /\ \A i \in DOMAIN backlog' :
             i + 1 \in DOMAIN backlog /\ i + 1 # 1 /\ backlog'[i] = backlog[i + 1]
    <3>1. Tail(backlog) \in Seq(Clients) /\ Len(Tail(backlog)) = Len(backlog) - 1
          /\ \A i \in 1..Len(Tail(backlog)) : Tail(backlog)[i] = backlog[i + 1]
      BY <1>1, HeadTailProperties
    <3>2. DOMAIN Tail(backlog) = 1..Len(Tail(backlog)) /\ DOMAIN backlog = 1..Len(backlog)
          /\ Len(backlog) \in Nat
      BY <1>1, <3>1, LenProperties
    <3> QED
      BY <1>4, <3>1, <3>2
  <2>2. \A k \in Clients : k # k0 => (Untouched(k)' <=> Untouched(k))
                                  /\ (Open(Upstream(k))' <=> Open(Upstream(k)))
    BY <1>2, <1>6, <1>9, EndNames DEF Untouched
  <2>3. \A k \in Clients : client'[k] = "away" =>
          Untouched(k)' /\ ~Open(Upstream(k))' /\ \A i \in DOMAIN backlog' : backlog'[i] # k
    BY <1>2, <1>9, <2>1, <2>2 DEF IInv, Unaccepted
  <2>4. \A i, j \in DOMAIN backlog' : backlog'[i] = backlog'[j] => i = j
    <3>1. DOMAIN backlog' \subseteq Int
      BY <2>1, LenProperties
    <3>2. \A i, j \in DOMAIN backlog' : backlog'[i] = backlog'[j] => i + 1 = j + 1
      BY <2>1 DEF IInv, Unaccepted
    <3> QED
      BY <3>1, <3>2
  <2>5. \A i \in DOMAIN backlog', k \in Clients :
          backlog'[i] = k => Untouched(k)' /\ ~Open(Upstream(k))'
    <3> SUFFICES ASSUME NEW i \in DOMAIN backlog', NEW k \in Clients, backlog'[i] = k
                 PROVE  Untouched(k)' /\ ~Open(Upstream(k))'
      OBVIOUS
    <3>1. i + 1 \in DOMAIN backlog /\ backlog[i + 1] = k /\ i + 1 # 1
      BY <2>1
    <3>2. k # k0
      BY <3>1, <1>2 DEF IInv, Unaccepted
    <3>3. Untouched(k) /\ ~Open(Upstream(k))
      BY <3>1 DEF IInv, Unaccepted
    <3> QED
      BY <3>2, <3>3, <2>2
  <2>6. \A i \in DOMAIN backlog' : backlog'[i] \in Clients
    BY <2>1, ElementOfSeq, LenProperties
  <2>7. \A i \in DOMAIN backlog' : (Untouched(backlog[i]))' /\ ~(Open(Upstream(backlog[i])))'
    BY <2>5, <2>6 DEF Untouched, Open
  <2> QED
    BY <2>3, <2>4, <2>7 DEF Unaccepted
<1>19. LoopState'
  <2>1. lpc' # "accept" /\ events' = events \ {ssock}
    BY <1>9 DEF Handled
  <2>2. \A s \in events \ {ssock} : s \in Fds /\ s \in epset /\ Readable(s)
    BY <1>1 DEF IInv, LoopState, TypeOK
  <2> QED
    BY <2>1, <2>2, <1>6, <1>9 DEF LoopState, Readable
<1>20. Registered'
  <2> SUFFICES ASSUME NEW r \in epset'
               PROVE  \E k \in Clients : /\ fdt'[r] = Upstream(k)
                                         /\ EndOf(clientsfds[r])' = Client(k)
                                         /\ outbox'[Client(k)] = <<>>
    BY DEF Registered
  <2>1. CASE r = sckS
    <3>1. clientsfds'[r] = c
      BY <2>1, <1>1, <1>4 DEF TypeOK
    <3>2. EndOf(clientsfds[r])' = Client(k0)
      BY <3>1, <1>6 DEF EndOf
    <3> QED
      BY <2>1, <3>2, <1>2, <1>3, <1>7, <1>9 DEF Untouched
  <2>2. CASE r # sckS
    <3>1. r \in epset /\ r \in Fds /\ clientsfds'[r] = clientsfds[r]
      BY <2>2, <1>1, <1>4, <1>9 DEF TypeOK
    <3>2. PICK k \in Clients : /\ fdt[r] = Upstream(k)
                               /\ EndOf(clientsfds[r]) = Client(k)
                               /\ outbox[Client(k)] = <<>>
      BY <3>1 DEF IInv, Registered
    <3>3. Client(k) # Closed /\ Upstream(k) # Closed
      BY EndNames
    <3>4. fdt'[r] = Upstream(k)
      BY <3>1, <3>2, <3>3, <1>6
    <3>5. EndOf(clientsfds[r])' = Client(k)
      BY <3>1, <3>2, <3>3, <1>6 DEF EndOf
    <3> QED
      BY <3>2, <3>4, <3>5, <1>9
  <2> QED
    BY <2>1, <2>2
<1>21. WorkerState'
  <2> SUFFICES ASSUME NEW w \in Workers
               PROVE  WorkerState!(w)'
    BY DEF WorkerState
  <2>1. wpc[w] = "blocked" => at[w] # Closed
    BY EndNames DEF IInv, TypeInv, WorkerTypes
  <2>2. wpc[w] # "idle" => job[w] \in Tickets
    BY DEF IInv, TypeInv, WorkerTypes
  <2>3. wpc[w] = "close_s" => job[w].s \notin epset'
    <3> SUFFICES ASSUME wpc[w] = "close_s"
                 PROVE  job[w].s # sckS /\ job[w].s \notin epset
      BY <1>9
    <3>1. PICK k \in Clients : PairOf(job[w], k) /\ job[w].s \notin epset
      BY DEF IInv, WorkerState
    <3>2. k # k0 /\ EndOf(job[w].s) = Upstream(k)
      BY <3>1, <1>12 DEF PairOf
    <3> QED
      BY <3>1, <3>2, <1>1, <1>2, <1>3, EndNames DEF EndOf
  <2>4. wpc[w] = "close_c" =>
          \E k \in Clients : EndOf(job[w].c)' = Client(k) /\ ~Open(Upstream(k))'
    <3> SUFFICES ASSUME wpc[w] = "close_c"
                 PROVE  \E k \in Clients : EndOf(job[w].c)' = Client(k) /\ ~Open(Upstream(k))'
      OBVIOUS
    <3>1. PICK k \in Clients : EndOf(job[w].c) = Client(k) /\ ~Open(Upstream(k))
      BY DEF IInv, WorkerState
    <3>2. Upstream(k) \in Ends /\ Upstream(k) # Client(k0) /\ Client(k) # Closed
      BY <1>2, EndNames
    <3>3. ~Open(Upstream(k))'
      BY <3>1, <3>2, <1>6
    <3>4. EndOf(job[w].c)' = Client(k)
      BY <3>1, <3>2, <1>6, <1>9
    <3> QED
      BY <3>3, <3>4
  <2> QED
    BY <1>6, <1>9, <1>11, <1>13, <2>1, <2>2, <2>3, <2>4 DEF IInv, WorkerState
<1> QED
  BY <1>6, <1>9, <1>17, <1>18, <1>19, <1>20, <1>21 DEF IInv, TargetSpeaks, OwnAnswer, OwnRequest
-----------------------------------------------------------------------------
(* The workers *)

\* A step in which worker w keeps its ticket and changes nothing shared.
LEMMA LocalStep ==
  ASSUME IInv, TypeInv', NEW w \in Workers, wpc[w] # "idle",
         UNCHANGED <<envVars, fdt, loopVars, cq, job, up>>,
         \A v \in Workers \ {w} : wpc'[v] = wpc[v] /\ at'[v] = at[v] /\ msg'[v] = msg[v],
         WorkerState!(w)'
  PROVE  IInv'
<1> USE DEF envVars, loopVars
<1>1. WorkerState'
  <2> SUFFICES ASSUME NEW v \in Workers \ {w}
               PROVE  WorkerState!(v)'
    BY DEF WorkerState
  <2>1. wpc'[v] = wpc[v] /\ at'[v] = at[v] /\ msg'[v] = msg[v] /\ v \in Workers
    OBVIOUS
  <2> QED
    BY <2>1 DEF IInv, WorkerState, Due, PairOf, EndOf, Open
<1>2. OneTicket'
  BY DEF IInv, OneTicket, Distinct, Apart, Absent
<1> QED
  BY <1>1, <1>2 DEF IInv, FdInjective, Unaccepted, Untouched, LoopState, Readable, Registered,
     TargetSpeaks, DueTickets, Due, PairOf, EndOf, OwnAnswer, OwnRequest, Open

LEMMA RecvCallStep ==
  ASSUME IInv, TypeInv', NEW w \in Workers, RecvCall(w)
  PROVE  IInv'
<1> USE DEF envVars, loopVars
<1>1. /\ wpc[w] = "recv"
      /\ at' = [at EXCEPT ![w] = EndOf(Source(job[w]))]
      /\ wpc' = [wpc EXCEPT ![w] = IF EndOf(Source(job[w])) = Closed THEN "send" ELSE "blocked"]
      /\ UNCHANGED <<envVars, fdt, loopVars, cq, job, msg, up>>
  BY DEF RecvCall
<1>2. wpc \in [Workers -> WorkerSteps] /\ at \in [Workers -> Ends \cup {Closed}]
  BY DEF IInv, TypeInv, TypeOK
<1>3. PICK k \in Clients : Due(job[w], k)
  BY <1>1 DEF IInv, WorkerState
<1>4. EndOf(Source(job[w])) # Closed
  BY <1>3, EndNames DEF Due, PairOf, Source
<1>5. wpc'[w] = "blocked" /\ at'[w] = EndOf(Source(job[w]))
  BY <1>1, <1>2, <1>4
<1>6. at'[w] = (EndOf(Source(job[w])))'
  BY <1>1, <1>5 DEF EndOf, Source
<1>7. WorkerState!(w)'
  BY <1>1, <1>3, <1>5, <1>6 DEF Due, PairOf, EndOf, Source
<1>8. \A v \in Workers \ {w} : wpc'[v] = wpc[v] /\ at'[v] = at[v] /\ msg'[v] = msg[v]
  BY <1>1, <1>2
<1> QED
  BY <1>1, <1>7, <1>8, LocalStep

LEMMA EnclaveStep ==
  ASSUME IInv, TypeInv', NEW w \in Workers, EnterEnclave(w) \/ LeaveEnclave(w)
  PROVE  IInv'
<1> USE DEF envVars, loopVars
<1>1. wpc \in [Workers -> WorkerSteps] /\ msg \in [Workers -> Received]
  BY DEF IInv, TypeInv, TypeOK
<1>2. /\ wpc[w] \in {"ecall", "enclave"}
      /\ UNCHANGED <<envVars, fdt, loopVars, cq, job, at, up>>
      /\ \A v \in Workers \ {w} : wpc'[v] = wpc[v] /\ at'[v] = at[v] /\ msg'[v] = msg[v]
  BY <1>1 DEF EnterEnclave, LeaveEnclave
<1>3. PICK k \in Clients : Due(job[w], k) /\ msg[w] = Expected(job[w], k)
  BY <1>2 DEF IInv, WorkerState
<1>4. CASE EnterEnclave(w)
  <2>1. \/ wpc'[w] = "enclave" /\ msg'[w] = msg[w]
        \/ wpc'[w] = "send" /\ msg'[w] = NoMsg
    BY <1>1, <1>4 DEF EnterEnclave
  <2>2. WorkerState!(w)'
    BY <1>2, <1>3, <2>1 DEF Due, PairOf, EndOf, Expected
  <2> QED
    BY <1>2, <2>2, LocalStep
<1>5. CASE LeaveEnclave(w)
  <2>1. wpc'[w] = "send" /\ msg'[w] = Rewritten(msg[w], job[w].r)
    BY <1>1, <1>5 DEF LeaveEnclave, Rewritten
  <2>2. WorkerState!(w)'
    BY <1>2, <1>3, <2>1 DEF Due, PairOf, EndOf, Expected
  <2> QED
    BY <1>2, <2>2, LocalStep
<1> QED
  BY <1>4, <1>5

LEMMA RecvReturnStep ==
  ASSUME IInv, TypeInv', NEW w \in Workers, RecvReturn(w)
  PROVE  IInv'
<1> USE DEF envVars, loopVars
<1>1. /\ wpc[w] = "blocked"
      /\ \/ inbox[at[w]] # NoMsg /\ wpc' = [wpc EXCEPT ![w] = "ecall"]
         \/ inbox[at[w]] = NoMsg /\ wpc' = [wpc EXCEPT ![w] = "send"]
      /\ msg' = [msg EXCEPT ![w] = inbox[at[w]]]
      /\ inbox' = [inbox EXCEPT ![at[w]] = NoMsg]
      /\ at' = [at EXCEPT ![w] = Closed]
      /\ UNCHANGED <<client, backlog, eof, outbox, fdt, loopVars, cq, job, up>>
  BY DEF RecvReturn
<1>2. /\ wpc \in [Workers -> WorkerSteps] /\ msg \in [Workers -> Received]
      /\ at \in [Workers -> Ends \cup {Closed}] /\ inbox \in [Ends -> Received]
      /\ job[w] \in Tickets
  BY <1>1 DEF IInv, TypeInv, TypeOK, WorkerTypes
<1>3. PICK k \in Clients : Due(job[w], k)
  BY <1>1 DEF IInv, WorkerState
<1>4. /\ at[w] = EndOf(Source(job[w]))
      /\ at[w] = IF job[w].r = 0 THEN Client(k) ELSE Upstream(k)
  BY <1>1, <1>3 DEF IInv, WorkerState, Due, PairOf, Source
<1>5. msg'[w] \in {NoMsg, Expected(job[w], k)}
  BY <1>1, <1>2, <1>4 DEF IInv, TargetSpeaks, Expected
<1>6. WorkerState!(w)'
  <2>1. \/ wpc'[w] = "ecall" /\ msg'[w] = Expected(job[w], k)
        \/ wpc'[w] = "send" /\ msg'[w] = NoMsg
    BY <1>1, <1>2, <1>5
  <2> QED
    BY <1>1, <1>3, <2>1 DEF Due, PairOf, EndOf, Expected
<1>7. WorkerState'
  <2> SUFFICES ASSUME NEW v \in Workers \ {w}
               PROVE  WorkerState!(v)'
    BY <1>6 DEF WorkerState
  <2>1. wpc'[v] = wpc[v] /\ at'[v] = at[v] /\ msg'[v] = msg[v] /\ v \in Workers
    BY <1>1, <1>2
  <2> QED
    BY <1>1, <2>1 DEF IInv, WorkerState, Due, PairOf, EndOf, Open
<1>8. LoopState'
  <2>1. \A s \in events \ {ssock} : fdt[s] # at[w] /\ fdt[s] \in Ends
    <3> SUFFICES ASSUME NEW s \in events \ {ssock}
                 PROVE  fdt[s] # at[w] /\ fdt[s] \in Ends
      OBVIOUS
    <3>1. s \in epset /\ s \in Fds
      BY DEF IInv, LoopState, TypeInv, TypeOK
    <3>2. PICK l \in Clients : fdt[s] = Upstream(l)
      BY <3>1 DEF IInv, Registered
    <3>3. job[w].r # 0 => job[w].s \notin epset /\ job[w].s \in Fds /\ fdt[job[w].s] = Upstream(k)
      BY <1>2, <1>3 DEF Due, PairOf, EndOf, Tickets
    <3> QED
      BY <3>1, <3>2, <3>3, <1>4, EndNames DEF IInv, FdInjective
  <2>2. \A s \in events \ {ssock} : inbox'[fdt[s]] = inbox[fdt[s]]
    BY <1>1, <1>2, <2>1
  <2> QED
    BY <1>1, <2>2 DEF IInv, LoopState, Readable
<1>9. \A e \in Ends : inbox'[e] \in {inbox[e], NoMsg}
  BY <1>1, <1>2
<1>10. TargetSpeaks'
  BY <1>1, <1>9, EndNames DEF IInv, TargetSpeaks
<1>11. OneTicket'
  BY <1>1, <1>2 DEF IInv, OneTicket, Distinct, Apart, Absent
<1> QED
  BY <1>1, <1>7, <1>8, <1>10, <1>11 DEF IInv, FdInjective, Unaccepted, Untouched, Registered,
     DueTickets, Due, PairOf, EndOf, OwnAnswer, OwnRequest, Open

\* Every other ticket is another connection's.
LEMMA OthersApart ==
  ASSUME IInv, NEW w \in Workers, wpc[w] # "idle",
         NEW k \in Clients, EndOf(job[w].c) = Client(k)
  PROVE  /\ \A i \in DOMAIN buffer : EndOf(buffer[i].c) # Client(k)
         /\ \A i \in DOMAIN cq : EndOf(cq[i].c) # Client(k)
         /\ \A v \in Workers \ {w} : wpc[v] # "idle" => EndOf(job[v].c) # Client(k)
<1>1. \A f : EndOf(f) = Client(k) => f = job[w].c
  BY EndNames DEF EndOf, IInv, FdInjective
<1> QED
  BY <1>1 DEF IInv, OneTicket, Absent

LEMMA SendStep ==
  ASSUME IInv, TypeInv', NEW w \in Workers, Send(w)
  PROVE  IInv'
<1> USE DEF envVars, loopVars
<1>1. /\ wpc[w] = "send"
      /\ msg' = [msg EXCEPT ![w] = NoMsg]
      /\ UNCHANGED <<client, backlog, inbox, eof, fdt, loopVars, cq, at, up>>
  BY DEF Send
<1>2. /\ wpc \in [Workers -> WorkerSteps] /\ msg \in [Workers -> Received]
      /\ job \in [Workers -> Tickets \cup {NoTicket}] /\ job[w] \in Tickets
      /\ outbox \in [Ends -> Seq(Messages)]
  BY <1>1 DEF IInv, TypeInv, TypeOK, WorkerTypes
<1>3. PICK k \in Clients :
        /\ Due(job[w], k)
        /\ msg[w] \in {NoMsg, Rewritten(Expected(job[w], k), job[w].r)}
  BY <1>1 DEF IInv, WorkerState
<1>4. PICK d \in Ends : d = IF job[w].r = 0 THEN Upstream(k) ELSE Client(k)
  BY EndNames
<1>5. /\ EndOf(Destination(job[w])) = d
      /\ outbox[d] = <<>>
      /\ d # Closed
      /\ job[w].r \in {0, 1}
  BY <1>2, <1>3, <1>4, EndNames DEF Due, PairOf, Destination, Tickets
<1>6. \A e \in Ends : e # d => outbox'[e] = outbox[e]
  BY <1>2, <1>5 DEF Send
<1>7. outbox'[d] \in {<<>>, <<Rewritten(Expected(job[w], k), job[w].r)>>}
  <2>1. outbox' = IF msg[w] = NoMsg THEN outbox ELSE [outbox EXCEPT ![d] = Append(<<>>, msg[w])]
    BY <1>5 DEF Send
  <2>2. Append(<<>>, msg[w]) = <<msg[w]>>
    OBVIOUS
  <2> QED
    BY <1>2, <1>3, <1>5, <2>1, <2>2
<1>8. /\ \A v \in Workers \ {w} : /\ wpc'[v] = wpc[v] /\ at'[v] = at[v]
                                  /\ msg'[v] = msg[v] /\ job'[v] = job[v]
      /\ \/ wpc'[w] = "idle"
         \/ wpc'[w] = "close_s" /\ job'[w] = job[w] /\ job[w].r = 1
  BY <1>1, <1>2 DEF Send
<1>9. /\ \A l \in Clients : l # k => /\ outbox'[Client(l)] = outbox[Client(l)]
                                    /\ outbox'[Upstream(l)] = outbox[Upstream(l)]
      /\ job[w].r = 0 => outbox'[Client(k)] = outbox[Client(k)]
      /\ job[w].r = 1 => outbox'[Upstream(k)] = outbox[Upstream(k)]
  BY <1>4, <1>6, EndNames
<1>10. EndOf(job[w].c) = Client(k) /\ Open(Client(k))
  BY <1>3, EndNames DEF Due, PairOf, EndOf, Open
<1>11. \A t : \A l \in Clients : l # k /\ Due(t, l) => Due(t, l)'
  BY <1>1, <1>9 DEF Due, PairOf, EndOf
<1>12. OwnAnswer' /\ OwnRequest'
  <2>1. CASE job[w].r = 0
    BY <2>1, <1>4, <1>7, <1>9 DEF IInv, OwnAnswer, OwnRequest, Expected
  <2>2. CASE job[w].r = 1
    BY <2>2, <1>4, <1>7, <1>9 DEF IInv, OwnAnswer, OwnRequest, Expected
  <2> QED
    BY <1>5, <2>1, <2>2
<1>13. DueTickets'
  <2>1. \A i \in DOMAIN buffer : \E l \in Clients : l # k /\ Due(buffer[i], l)
    BY <1>1, <1>10, OthersApart DEF IInv, DueTickets, Due, PairOf
  <2>2. \A i \in DOMAIN cq : \E l \in Clients : l # k /\ Due(cq[i], l)
    BY <1>1, <1>10, OthersApart DEF IInv, DueTickets, Due, PairOf
  <2>3. \A i \in DOMAIN buffer : (\E l \in Clients : Due(buffer[i], l))'
    BY <1>1, <1>9, <2>1 DEF Due, PairOf, EndOf
  <2>4. \A i \in DOMAIN cq : (\E l \in Clients : Due(cq[i], l))'
    BY <1>1, <1>9, <2>2 DEF Due, PairOf, EndOf
  <2> QED
    BY <1>1, <2>3, <2>4 DEF DueTickets
<1>14. WorkerState'
  <2>1. WorkerState!(w)'
    <3>1. CASE wpc'[w] = "idle"
      BY <3>1
    <3>2. CASE wpc'[w] = "close_s" /\ job'[w] = job[w] /\ job[w].r = 1
      BY <3>2, <1>1, <1>3 DEF Due, PairOf, EndOf
    <3> QED
      BY <1>8, <3>1, <3>2
  <2>2. ASSUME NEW v \in Workers \ {w}
        PROVE  WorkerState!(v)'
    <3>1. v \in Workers /\ wpc'[v] = wpc[v] /\ at'[v] = at[v] /\ msg'[v] = msg[v] /\ job'[v] = job[v]
      BY <1>8
    <3>2. wpc[v] # "idle" => EndOf(job[v].c) # Client(k)
      BY <1>1, <1>10, OthersApart
    <3>3. \A l \in Clients : wpc[v] # "idle" /\ Due(job[v], l) => l # k
      BY <3>2 DEF Due, PairOf
    <3> QED
      BY <1>1, <1>9, <3>1, <3>3 DEF IInv, WorkerState, Due, PairOf, EndOf, Open
  <2> QED
    BY <2>1, <2>2 DEF WorkerState
<1>15. Unaccepted'
  <2>1. \A l \in Clients : Untouched(l) => l # k
    BY <1>10 DEF Untouched
  <2>2. \A l \in Clients : Untouched(l) => Untouched(l)'
    BY <1>1, <1>9, <2>1 DEF Untouched, Open
  <2>3. \A i \in DOMAIN backlog : backlog[i] \in Clients
    BY ElementOfSeq, LenProperties DEF IInv, TypeInv, TypeOK
  <2>4. \A i \in DOMAIN backlog : (Untouched(backlog[i]))'
    BY <1>1, <1>9, <2>1, <2>3 DEF IInv, Unaccepted, Untouched, Open
  <2> QED
    BY <1>1, <2>2, <2>4 DEF IInv, Unaccepted, Open
<1>16. Registered'
  <2> SUFFICES ASSUME NEW s \in epset
               PROVE  \E l \in Clients : /\ fdt[s] = Upstream(l)
                                         /\ EndOf(clientsfds[s]) = Client(l)
                                         /\ outbox'[Client(l)] = <<>>
    BY <1>1 DEF Registered, EndOf
  <2>1. PICK l \in Clients : /\ fdt[s] = Upstream(l)
                             /\ EndOf(clientsfds[s]) = Client(l)
                             /\ outbox[Client(l)] = <<>>
    BY DEF IInv, Registered
  <2>2. l = k => job[w].r = 0
    <3> SUFFICES ASSUME l = k, job[w].r = 1
                 PROVE  FALSE
      BY <1>5
    <3>1. fdt[job[w].s] = Upstream(k) /\ job[w].s \in Fds /\ job[w].s \notin epset /\ s \in Fds
      BY <1>2, <1>3 DEF Due, PairOf, EndOf, Tickets, IInv, TypeInv, TypeOK
    <3> QED
      BY <3>1, <2>1, EndNames DEF IInv, FdInjective
  <2> QED
    BY <1>9, <2>1, <2>2
<1>17. TargetSpeaks'
  <2>1. outbox[Upstream(k)] # <<>> => outbox'[Upstream(k)] = outbox[Upstream(k)]
    BY <1>3, <1>5, <1>9 DEF Due
  <2> QED
    BY <1>1, <1>9, <2>1 DEF IInv, TargetSpeaks
<1>18. OneTicket'
  BY <1>1, <1>8 DEF IInv, OneTicket, Distinct, Apart, Absent
<1> QED
  BY <1>1, <1>12, <1>13, <1>14, <1>15, <1>16, <1>17, <1>18
     DEF IInv, FdInjective, LoopState, Readable

\* What other numbers name survives the closing of one.
LEMMA CloseKeeps ==
  ASSUME TypeOK, FdInjective, NEW f \in Fds, NEW e \in Ends, fdt[f] = e, CloseFd(f)
  PROVE  /\ \A g : EndOf(g) # e => EndOf(g)' = EndOf(g)
         /\ \A g \in Fds : g # f => fdt'[g] = fdt[g]
         /\ \A d \in Ends : Open(d)' <=> Open(d) /\ d # e
         /\ FdInjective'
<1>1. fdt' = [g \in Fds |-> IF g = f THEN Closed ELSE fdt[g]] /\ Closed \notin Ends
  BY EndNames DEF CloseFd
<1>2. \A g \in Fds : fdt'[g] = IF g = f THEN Closed ELSE fdt[g]
  BY <1>1
<1>3. \A g \in Fds : fdt[g] = e => g = f
  BY <1>1 DEF FdInjective
<1>4. \A d \in Ends : Open(d)' <=> Open(d) /\ d # e
  BY <1>1, <1>2, <1>3 DEF Open
<1>5. \A g : EndOf(g) # e => EndOf(g)' = EndOf(g)
  BY <1>2 DEF EndOf
<1>6. FdInjective'
  BY <1>2 DEF FdInjective
<1> QED
  BY <1>2, <1>4, <1>5, <1>6

\* One of the two closes of worker w, of end e of its connection k.
LEMMA CloseStep ==
  ASSUME IInv, TypeInv', NEW w \in Workers, wpc[w] \in {"close_s", "close_c"},
         NEW k \in Clients, EndOf(job[w].c) = Client(k),
         NEW f \in Fds, NEW e \in {Client(k), Upstream(k)},
         fdt[f] = e, f \notin epset, CloseFd(f),
         ~Open(Upstream(k))',
         UNCHANGED <<envVars, lpc, events, sckS, buffer, clientsfds, cq, at, msg, up>>,
         \A v \in Workers \ {w} : wpc'[v] = wpc[v] /\ job'[v] = job[v],
         WorkerState!(w)', OneTicket'
  PROVE  IInv'
<1> USE DEF envVars
<1>1. e \in Ends
  BY EndNames
<1>2. /\ \A g : EndOf(g) # e => EndOf(g)' = EndOf(g)
      /\ \A g \in Fds : g # f => fdt'[g] = fdt[g]
      /\ \A d \in Ends : Open(d)' <=> Open(d) /\ d # e
      /\ FdInjective'
  BY <1>1, CloseKeeps DEF IInv, TypeInv
<1>3. epset' = epset
  BY DEF CloseFd
<1>4. Open(Client(k))
  BY EndNames DEF EndOf, Open
<1>5. \A l \in Clients : l # k => Client(l) # e /\ Upstream(l) # e
  BY EndNames
<1>6. \A t : \A l \in Clients : l # k /\ PairOf(t, l) => EndOf(t.c)' = Client(l) /\ EndOf(t.s)' = Upstream(l)
  BY <1>2, <1>5 DEF PairOf
<1>7. DueTickets'
  <2>1. /\ \A i \in DOMAIN buffer : EndOf(buffer[i].c) # Client(k)
        /\ \A i \in DOMAIN cq : EndOf(cq[i].c) # Client(k)
    BY OthersApart
  <2>2. ASSUME NEW t, (\E i \in DOMAIN buffer : t = buffer[i]) \/ \E i \in DOMAIN cq : t = cq[i]
        PROVE  \E l \in Clients : Due(t, l)'
    <3>1. PICK l \in Clients : l # k /\ Due(t, l)
      BY <2>1, <2>2 DEF IInv, DueTickets, Due, PairOf
    <3>2. PairOf(t, l)'
      BY <3>1, <1>6 DEF Due, PairOf
    <3>3. Due(t, l)'
      BY <3>1, <3>2, <1>3 DEF Due
    <3> QED
      BY <3>3
  <2>3. \A i \in DOMAIN buffer : (\E l \in Clients : Due(buffer[i], l))'
    <3> SUFFICES ASSUME NEW i \in DOMAIN buffer
                 PROVE  (\E l \in Clients : Due(buffer[i], l))'
      OBVIOUS
    <3>1. PICK t : t = buffer[i]
      OBVIOUS
    <3>2. PICK l \in Clients : Due(t, l)'
      BY <2>2, <3>1
    <3> QED
      BY <3>1, <3>2 DEF Due, PairOf, EndOf
  <2>4. \A i \in DOMAIN cq : (\E l \in Clients : Due(cq[i], l))'
    <3> SUFFICES ASSUME NEW i \in DOMAIN cq
                 PROVE  (\E l \in Clients : Due(cq[i], l))'
      OBVIOUS
    <3>1. PICK t : t = cq[i]
      OBVIOUS
    <3>2. PICK l \in Clients : Due(t, l)'
      BY <2>2, <3>1
    <3> QED
      BY <3>1, <3>2 DEF Due, PairOf, EndOf
  <2> QED
    BY <2>3, <2>4 DEF DueTickets
<1>8. WorkerState'
  <2> SUFFICES ASSUME NEW v \in Workers \ {w}
               PROVE  WorkerState!(v)'
    BY DEF WorkerState
  <2>1. v \in Workers /\ wpc'[v] = wpc[v] /\ at'[v] = at[v] /\ msg'[v] = msg[v]
    OBVIOUS
  <2>2. PICK j : j = job[v] /\ j = job'[v]
    OBVIOUS
  <2>3. wpc[v] # "idle" => EndOf(j.c) # Client(k)
    BY <2>2, OthersApart
  <2>4. ASSUME NEW l \in Clients, EndOf(j.c) = Client(l), wpc[v] # "idle"
        PROVE  /\ l # k
               /\ Due(j, l) => Due(j, l)'
               /\ PairOf(j, l) => PairOf(j, l)' /\ EndOf(Source(j))' = EndOf(Source(j))
               /\ EndOf(j.c)' = Client(l)
               /\ ~Open(Upstream(l)) => ~Open(Upstream(l))'
    <3>1. l # k
      BY <2>3, <2>4
    <3>2. PairOf(j, l) => PairOf(j, l)' /\ EndOf(Source(j))' = EndOf(Source(j))
      BY <3>1, <1>2, <1>5, <1>6 DEF PairOf, Source
    <3>3. Due(j, l) => Due(j, l)'
      BY <3>2, <1>3 DEF Due
    <3>4. EndOf(j.c)' = Client(l)
      BY <2>4, <3>1, <1>2, <1>5
    <3>5. ~Open(Upstream(l)) => ~Open(Upstream(l))'
      BY <1>2, EndNames
    <3> QED
      BY <3>1, <3>2, <3>3, <3>4, <3>5
  <2>5. CASE wpc[v] \in {"recv", "blocked", "ecall", "enclave", "send"}
    <3>1. PICK l \in Clients :
            /\ Due(j, l)
            /\ wpc[v] = "blocked" => at[v] = EndOf(Source(j))
            /\ wpc[v] \in {"ecall", "enclave"} => msg[v] = Expected(j, l)
            /\ wpc[v] = "send" => msg[v] \in {NoMsg, Rewritten(Expected(j, l), j.r)}
      BY <2>2, <2>5 DEF IInv, WorkerState
    <3>2. Due(j, l)' /\ EndOf(Source(j))' = EndOf(Source(j))
      BY <2>4, <2>5, <3>1 DEF Due, PairOf
    <3>3. wpc[v] = "blocked" => at'[v] = (EndOf(Source(job[v])))'
      BY <2>1, <2>2, <3>1, <3>2 DEF EndOf, Source
    <3> QED
      BY <2>1, <2>2, <2>5, <3>1, <3>2, <3>3 DEF Due, PairOf, EndOf, Expected
  <2>6. CASE wpc[v] = "close_s"
    <3>1. PICK l \in Clients : PairOf(j, l) /\ j.s \notin epset
      BY <2>2, <2>6 DEF IInv, WorkerState
    <3>2. PairOf(j, l)'
      BY <2>4, <2>6, <3>1 DEF PairOf
    <3> QED
      BY <2>1, <2>2, <2>6, <3>1, <3>2, <1>3 DEF PairOf, EndOf
  <2>7. CASE wpc[v] = "close_c"
    <3>1. PICK l \in Clients : EndOf(j.c) = Client(l) /\ ~Open(Upstream(l))
      BY <2>2, <2>7 DEF IInv, WorkerState
    <3>2. EndOf(j.c)' = Client(l) /\ ~Open(Upstream(l))'
      BY <2>4, <2>7, <3>1
    <3> QED
      BY <2>1, <2>2, <2>7, <3>2 DEF EndOf, Open
  <2>8. wpc[v] \in WorkerSteps
    BY DEF IInv, TypeInv, TypeOK
  <2>9. CASE wpc[v] = "idle"
    BY <2>1, <2>9
  <2> QED
    BY <2>5, <2>6, <2>7, <2>8, <2>9 DEF WorkerSteps
<1>9. \A i \in DOMAIN backlog : backlog[i] \in Clients
  BY ElementOfSeq, LenProperties DEF IInv, TypeInv, TypeOK
<1>10. \A d \in Ends : Open(d)' => Open(d)
  BY <1>2
<1>11. Unaccepted'
  <2>1. \A l \in Clients : (Untouched(l) => Untouched(l)') /\ (Open(Upstream(l))' => Open(Upstream(l)))
    BY <1>10, EndNames DEF Untouched
  <2>2. \A i \in DOMAIN backlog : (Untouched(backlog[i]))'
    BY <1>9, <2>1 DEF IInv, Unaccepted, Untouched, Open
  <2>3. \A i \in DOMAIN backlog : (Open(Upstream(backlog[i])))' => Open(Upstream(backlog[i]))
    BY <1>9, <2>1 DEF Open
  <2> QED
    BY <2>1, <2>2, <2>3 DEF IInv, Unaccepted
<1>12. LoopState'
  <2>1. lpc = "accept" => fdt'[sckS] = fdt[sckS]
    <3> SUFFICES ASSUME lpc = "accept"
                 PROVE  sckS \in Fds /\ sckS # f
      BY <1>2
    <3>1. sckS \in Fds /\ fdt[sckS] = Upstream(Head(backlog)) /\ backlog # <<>> /\ backlog \in Seq(Clients)
      BY DEF IInv, TypeInv, TypeOK, LoopTypes, LoopState
    <3>2. Head(backlog) \in Clients /\ Head(backlog) = backlog[1] /\ 1 \in DOMAIN backlog
      BY <3>1, HeadTypes, LenProperties, EmptySeq
    <3>3. Head(backlog) # k
      BY <3>2, <1>4 DEF IInv, Unaccepted, Untouched
    <3> QED
      BY <3>1, <3>2, <3>3, <1>5
  <2>2. \A s \in events \ {ssock} : s \in epset /\ s \in Fds /\ s # f
    BY DEF IInv, LoopState, TypeInv, TypeOK
  <2> QED
    BY <2>1, <2>2, <1>2, <1>3 DEF IInv, LoopState, Readable
<1>13. Registered'
  <2> SUFFICES ASSUME NEW s \in epset
               PROVE  \E l \in Clients : /\ fdt'[s] = Upstream(l)
                                         /\ (EndOf(clientsfds[s]))' = Client(l)
                                         /\ outbox[Client(l)] = <<>>
    BY <1>3 DEF Registered
  <2>0. PICK q : q = clientsfds[s]
    OBVIOUS
  <2>1. PICK l \in Clients : /\ fdt[s] = Upstream(l)
                             /\ EndOf(q) = Client(l)
                             /\ outbox[Client(l)] = <<>>
    BY <2>0 DEF IInv, Registered
  <2>2. s \in Fds /\ s # f /\ fdt'[s] = Upstream(l)
    BY <1>2, <2>1 DEF IInv, TypeInv, TypeOK
  <2>3. Open(Upstream(l))'
    BY <2>2 DEF Open
  <2>4. l # k
    BY <2>3
  <2>5. EndOf(q)' = Client(l)
    BY <2>1, <2>4, <1>2, <1>5
  <2> QED
    BY <2>0, <2>1, <2>2, <2>5 DEF EndOf
<1> QED
  BY <1>2, <1>7, <1>8, <1>11, <1>12, <1>13 DEF IInv, TargetSpeaks, OwnAnswer, OwnRequest

LEMMA CloseSockStep ==
  ASSUME IInv, TypeInv', NEW w \in Workers, CloseSock(w)
  PROVE  IInv'
<1> USE DEF envVars
<1>1. /\ wpc[w] = "close_s"
      /\ CloseFd(job[w].s)
      /\ wpc' = [wpc EXCEPT ![w] = "close_c"]
      /\ UNCHANGED <<envVars, lpc, events, sckS, buffer, clientsfds, cq, job, at, msg, up>>
  BY DEF CloseSock
<1>2. wpc \in [Workers -> WorkerSteps] /\ job[w] \in Tickets
  BY <1>1 DEF IInv, TypeInv, TypeOK, WorkerTypes
<1>3. PICK k \in Clients : PairOf(job[w], k) /\ job[w].s \notin epset
  BY <1>1 DEF IInv, WorkerState
<1>4. PICK f \in Fds : f = job[w].s
  BY <1>2 DEF Tickets
<1>5. fdt[f] = Upstream(k) /\ EndOf(job[w].c) = Client(k)
  BY <1>3, <1>4 DEF PairOf, EndOf
<1>6. /\ \A g : EndOf(g) # Upstream(k) => EndOf(g)' = EndOf(g)
      /\ ~Open(Upstream(k))'
  BY <1>1, <1>4, <1>5, EndNames, CloseKeeps DEF IInv, TypeInv
<1>7. PICK c : c = job[w].c /\ c = job'[w].c
  BY <1>1
<1>8. EndOf(c)' = Client(k)
  BY <1>5, <1>6, <1>7, EndNames
<1>9. WorkerState!(w)'
  BY <1>1, <1>2, <1>6, <1>7, <1>8 DEF EndOf, Open
<1>10. OneTicket'
  BY <1>1, <1>2 DEF IInv, OneTicket, Distinct, Apart, Absent
<1>11. \A v \in Workers \ {w} : wpc'[v] = wpc[v] /\ job'[v] = job[v]
  BY <1>1, <1>2
<1> QED
  BY <1>1, <1>3, <1>4, <1>5, <1>6, <1>9, <1>10, <1>11, CloseStep

LEMMA CloseCsockStep ==
  ASSUME IInv, TypeInv', NEW w \in Workers, CloseCsock(w)
  PROVE  IInv'
<1> USE DEF envVars
<1>1. /\ wpc[w] = "close_c"
      /\ CloseFd(job[w].c)
      /\ wpc' = [wpc EXCEPT ![w] = "idle"]
      /\ job' = [job EXCEPT ![w] = NoTicket]
      /\ UNCHANGED <<envVars, lpc, events, sckS, buffer, clientsfds, cq, at, msg, up>>
  BY DEF CloseCsock
<1>2. /\ wpc \in [Workers -> WorkerSteps] /\ epset \subseteq Fds
      /\ job \in [Workers -> Tickets \cup {NoTicket}]
  BY DEF IInv, TypeInv, TypeOK
<1>3. PICK k \in Clients : EndOf(job[w].c) = Client(k) /\ ~Open(Upstream(k))
  BY <1>1 DEF IInv, WorkerState
<1>4. PICK f \in Fds : f = job[w].c /\ fdt[f] = Client(k)
  BY <1>3, EndNames DEF EndOf
<1>5. f \notin epset
  BY <1>4, EndNames DEF IInv, Registered
<1>6. ~Open(Upstream(k))'
  BY <1>1, <1>3, <1>4, EndNames, CloseKeeps DEF IInv, TypeInv
<1>7. wpc'[w] = "idle"
  BY <1>1, <1>2
<1>8. WorkerState!(w)'
  BY <1>7
<1>9. \A v \in Workers \ {w} : wpc'[v] = wpc[v] /\ job'[v] = job[v]
  BY <1>1, <1>2
<1>10. OneTicket'
  BY <1>1, <1>7, <1>9 DEF IInv, OneTicket, Distinct, Apart, Absent
<1> QED
  BY <1>1, <1>3, <1>4, <1>5, <1>6, <1>8, <1>9, <1>10, CloseStep

LEMMA DequeueStep ==
  ASSUME IInv, TypeInv', NEW w \in Workers, Dequeue(w)
  PROVE  IInv'
<1> USE DEF envVars, loopVars
<1>1. /\ wpc[w] = "idle" /\ cq # <<>>
      /\ job' = [job EXCEPT ![w] = Head(cq)]
      /\ cq' = Tail(cq)
      /\ wpc' = [wpc EXCEPT ![w] = "recv"]
      /\ UNCHANGED <<envVars, fdt, loopVars, at, msg, up>>
  BY DEF Dequeue
<1>2. /\ cq \in Seq(Tickets) /\ wpc \in [Workers -> WorkerSteps]
      /\ job \in [Workers -> Tickets \cup {NoTicket}]
  BY DEF IInv, TypeInv, TypeOK
<1>3. /\ 1 \in DOMAIN cq /\ Head(cq) = cq[1]
      /\ DOMAIN cq' \subseteq Int
      /\ \A i \in DOMAIN cq' : i + 1 \in DOMAIN cq /\ i + 1 # 1 /\ cq'[i] = cq[i + 1]
  <2>1. /\ Tail(cq) \in Seq(Tickets) /\ Len(Tail(cq)) = Len(cq) - 1
        /\ \A i \in 1..Len(Tail(cq)) : Tail(cq)[i] = cq[i + 1]
    BY <1>1, <1>2, HeadTailProperties
  <2>2. DOMAIN Tail(cq) = 1..Len(Tail(cq)) /\ DOMAIN cq = 1..Len(cq) /\ Len(cq) \in Nat
    BY <1>2, <2>1, LenProperties
  <2>3. 1 \in DOMAIN cq /\ Head(cq) = cq[1]
    BY <1>1, <1>2, <2>2, HeadTypes, EmptySeq
  <2> QED
    BY <1>1, <2>1, <2>2, <2>3
<1>4. /\ wpc'[w] = "recv" /\ job'[w] = cq[1]
      /\ \A v \in Workers \ {w} : wpc'[v] = wpc[v] /\ job'[v] = job[v]
  BY <1>1, <1>2, <1>3
<1>5. DueTickets'
  <2>1. \A i \in DOMAIN cq' : \E k \in Clients : Due(cq'[i], k)
    BY <1>3 DEF IInv, DueTickets
  <2> QED
    BY <1>1, <2>1 DEF IInv, DueTickets, Due, PairOf, EndOf
<1>6. WorkerState'
  <2>1. WorkerState!(w)'
    <3>1. PICK k \in Clients : Due(job'[w], k)
      BY <1>3, <1>4 DEF IInv, DueTickets
    <3> QED
      BY <1>1, <1>4, <3>1 DEF Due, PairOf, EndOf
  <2>2. ASSUME NEW v \in Workers \ {w}
        PROVE  WorkerState!(v)'
    <3>1. v \in Workers /\ wpc'[v] = wpc[v] /\ job'[v] = job[v]
      BY <1>4
    <3> QED
      BY <1>1, <3>1 DEF IInv, WorkerState, Due, PairOf, EndOf, Open
  <2> QED
    BY <2>1, <2>2 DEF WorkerState
<1>7. OneTicket'
  <2>1. Distinct(cq') /\ Apart(cq', buffer') /\ Distinct(buffer')
    <3>1. \A i, j \in DOMAIN cq' : cq'[i].c = cq'[j].c => i + 1 = j + 1
      BY <1>3 DEF IInv, OneTicket, Distinct
    <3>2. Distinct(cq')
      BY <1>3, <3>1 DEF Distinct
    <3>3. Apart(cq', buffer') /\ Distinct(buffer')
      BY <1>1, <1>3 DEF IInv, OneTicket, Distinct, Apart
    <3> QED
      BY <3>2, <3>3
  <2>2. Absent(job'[w], buffer') /\ Absent(job'[w], cq')
    BY <1>1, <1>3, <1>4 DEF IInv, OneTicket, Distinct, Apart, Absent
  <2>3. \A v \in Workers \ {w} : wpc[v] # "idle" =>
          Absent(job[v], buffer') /\ Absent(job[v], cq') /\ job[v].c # job'[w].c
    BY <1>1, <1>3, <1>4 DEF IInv, OneTicket, Absent
  <2>4. \A v \in Workers : wpc'[v] # "idle" =>
          /\ Absent(job'[v], buffer') /\ Absent(job'[v], cq')
          /\ \A u \in Workers \ {v} : wpc'[u] # "idle" => job'[v].c # job'[u].c
    BY <1>4, <2>2, <2>3 DEF IInv, OneTicket
  <2> QED
    BY <2>1, <2>4 DEF OneTicket, Distinct, Apart, Absent
<1> QED
  BY <1>1, <1>5, <1>6, <1>7 DEF IInv, FdInjective, Unaccepted, Untouched, LoopState, Readable,
     Registered, TargetSpeaks, OwnAnswer, OwnRequest, EndOf, Open

-----------------------------------------------------------------------------

LEMMA IStep ==
  ASSUME IInv, WellBehaved, [Next]_vars
  PROVE  IInv'
<1>1. TypeInv'
  BY TypeStep DEF IInv
<1>2. CASE Environment
  BY <1>1, <1>2, EnvironmentStep
<1>3. CASE Loop
  BY <1>1, <1>3, PollStep, TimeoutStep, ConnectStep, AcceptStep, AnswerEventStep DEF Loop
<1>4. ASSUME NEW w \in Workers, Worker(w)
      PROVE  IInv'
  BY <1>1, <1>4, DequeueStep, RecvCallStep, RecvReturnStep, EnclaveStep, SendStep, CloseSockStep,
     CloseCsockStep DEF Worker
<1>5. CASE UNCHANGED vars
  BY <1>5 DEF vars, envVars, loopVars, workerVars, IInv, TypeInv, TypeOK, BufferBound, WorkerTypes,
     LoopTypes, FdInjective, Unaccepted, Untouched, LoopState, Readable, Registered, TargetSpeaks,
     DueTickets, Due, PairOf, EndOf, WorkerState, OneTicket, Distinct, Apart, Absent, OwnAnswer,
     OwnRequest, Open
<1> QED
  BY <1>2, <1>3, <1>4, <1>5 DEF Next

\* IInv is an invariant of every run with a well-behaved target, whatever the
\* number of clients, workers and descriptors, the capacity of the buffer, the
\* permutation it is put through and the number of TCSs.
THEOREM Invariance ==
  ASSUME WellBehaved
  PROVE  Spec => []IInv
<1>1. IInv /\ [Next]_vars => IInv'
  BY IStep
<1> QED
  BY <1>1, IInit, PTL DEF Spec

\* Nothing a client or the target is sent is anybody else's: message_handler
\* and poll_handler never pair a descriptor with the wrong connection.
THEOREM OwnMessages ==
  ASSUME WellBehaved
  PROVE  Spec => [](OwnAnswer /\ OwnRequest)
<1>1. IInv => OwnAnswer /\ OwnRequest
  BY DEF IInv
<1> QED
  BY <1>1, Invariance, PTL

\* The descriptor numbers in a staged, queued or running ticket still name the
\* sockets it was made for, though message_handler closes them by number, in
\* two steps, while poll_handler is given the freed numbers again.
THEOREM TicketsStayFresh ==
  ASSUME WellBehaved
  PROVE  Spec => []FreshTickets
<1>1. ASSUME IInv
      PROVE  FreshTickets
  <2>1. /\ \A i \in DOMAIN buffer : Paired(buffer[i])
        /\ \A i \in DOMAIN cq : Paired(cq[i])
    BY <1>1 DEF IInv, DueTickets, Due, Paired
  <2>2. ASSUME NEW w \in Workers
        PROVE  /\ wpc[w] \notin {"idle", "close_c"} => Paired(job[w])
               /\ wpc[w] = "close_c" => \E k \in Clients : EndOf(job[w].c) = Client(k)
    <3>1. wpc[w] \in WorkerSteps
      BY <1>1 DEF IInv, TypeInv, TypeOK
    <3> QED
      BY <1>1, <3>1 DEF WorkerSteps, IInv, WorkerState, Due, Paired
  <2> QED
    BY <2>1, <2>2 DEF FreshTickets
<1> QED
  BY <1>1, Invariance, PTL

\* No connection ever has two tickets, so no two workers use one connection's
\* sockets at a time and the shuffle never overtakes a request by its answer.
THEOREM OneTicketEach ==
  ASSUME WellBehaved
  PROVE  Spec => []OneTicket
<1>1. IInv => OneTicket
  BY DEF IInv
<1> QED
  BY <1>1, Invariance, PTL

\* With a well-behaved target epoll_ctl_add never finds sckS closed, so
\* the process does not exit.
THEOREM NeverExits ==
  ASSUME WellBehaved
  PROVE  Spec => []up
<1>1. IInv => up
  BY DEF IInv
<1> QED
  BY <1>1, Invariance, PTL
=============================================================================
