----------------------------- MODULE Units_proofs -----------------------------
(***************************************************************************)
(* Proofs about the small parts that MCUnits checks each as if alone: the  *)
(* clock of the shuffle buffer, lists of items, messages on their way, the *)
(* start of the process.                                                   *)
(***************************************************************************)
EXTENDS ShuffleTimer, ItemsList, Messages, Startup, SequenceTheorems, TLAPS

-----------------------------------------------------------------------------
(* ShuffleTimer: the bound on a ticket's wait, for every buffer size and
   period. *)

\* One more ticket is worth one more period.
LEMMA OneMorePeriod ==
  ASSUME NEW n \in Nat \ {0}
  PROVE  (n - 1) * PERIOD + PERIOD = n * PERIOD
BY TimerAssumption

\* Each step keeps the types and the bound by periods.
LEMMA TimerStep ==
  ASSUME TimerType, AgeByPeriods, [TimerNext]_timerVars
  PROVE  TimerType' /\ AgeByPeriods'
<1>1. CASE Tick
  <2>1. TimerType'
    BY <1>1, TimerAssumption DEF Tick, TimerType
  <2>2. CASE waiting = 0
    <3>1. waiting' = 0 /\ age' = 0
      BY <1>1, <2>2 DEF Tick
    <3> QED
      BY <2>1, <3>1 DEF AgeByPeriods
  <2>3. CASE waiting # 0
    <3>1. PICK p \in Nat : p = (waiting - 1) * PERIOD
      BY <2>3, TimerAssumption DEF TimerType
    <3>2. age <= p + quiet
      BY <2>3, <3>1 DEF AgeByPeriods
    <3>3. age' <= p + quiet'
      BY <1>1, <2>3, <3>2 DEF Tick, TimerType
    <3>4. waiting' = waiting
      BY <1>1 DEF Tick
    <3> QED
      BY <2>1, <2>3, <3>1, <3>3, <3>4 DEF AgeByPeriods
  <2> QED
    BY <2>1, <2>2, <2>3
<1>2. CASE Event
  <2>1. TimerType'
    BY <1>2, TimerAssumption DEF Event, TimerType
  <2>2. CASE waiting + 1 = BUFFER_SHUFFLING
    <3>1. waiting' = 0 /\ age' = 0
      BY <1>2, <2>2, TimerAssumption DEF Event, TimerType
    <3> QED
      BY <2>1, <3>1 DEF AgeByPeriods
  <2>3. CASE waiting + 1 < BUFFER_SHUFFLING /\ waiting = 0
    <3>1. waiting' = 1 /\ quiet' = 0 /\ age' = 0
      BY <1>2, <2>3, TimerAssumption DEF Event, AgeByPeriods, TimerType
    <3>2. 0 <= (waiting' - 1) * PERIOD + quiet'
      BY <3>1, TimerAssumption
    <3> QED
      BY <2>1, <3>1, <3>2 DEF AgeByPeriods
  <2>4. CASE waiting + 1 < BUFFER_SHUFFLING /\ waiting # 0
    <3>1. waiting' = waiting + 1 /\ quiet' = 0 /\ age' = age
      BY <1>2, <2>4, TimerAssumption DEF Event, TimerType
    <3>2. PICK p \in Nat : p = (waiting - 1) * PERIOD
      BY <2>4, TimerAssumption DEF TimerType
    <3>3. age <= p + PERIOD
      BY <2>4, <3>2, TimerAssumption DEF AgeByPeriods, TimerType
    <3>4. p + PERIOD = (waiting' - 1) * PERIOD
      BY <2>4, <3>1, <3>2, OneMorePeriod DEF TimerType
    <3>5. age' <= (waiting' - 1) * PERIOD + quiet'
      BY <3>1, <3>2, <3>3, <3>4, TimerAssumption
    <3> QED
      BY <2>1, <3>1, <3>5, <2>4 DEF AgeByPeriods, TimerType
  <2> QED
    BY <1>2, <2>1, <2>2, <2>3, <2>4 DEF Event
<1>3. CASE Expire
  BY <1>3, TimerAssumption DEF Expire, TimerType, AgeByPeriods
<1>4. CASE UNCHANGED timerVars
  BY <1>4 DEF timerVars, TimerType, AgeByPeriods
<1> QED
  BY <1>1, <1>2, <1>3, <1>4 DEF TimerNext

\* The buffer of poll_handler is never left full, and each period of epoll_wait
\* that its oldest ticket has outlived has brought another ticket.
THEOREM PeriodsBringTickets == TimerSpec => [](TimerType /\ AgeByPeriods)
<1>1. TimerInit => TimerType /\ AgeByPeriods
  BY TimerAssumption DEF TimerInit, TimerType, AgeByPeriods
<1> QED
  BY <1>1, TimerStep, PTL DEF TimerSpec

\* No ticket stays in poll_handler's buffer longer than BUFFER_SHUFFLING - 1
\* periods of epoll_wait, however the events come.
THEOREM BoundedWait == TimerSpec => []HandedOffInTime
<1>1. TimerType /\ AgeByPeriods => HandedOffInTime
  <2> SUFFICES ASSUME TimerType, AgeByPeriods
               PROVE  HandedOffInTime
    OBVIOUS
  <2>1. CASE waiting = 0
    <3>1. (BUFFER_SHUFFLING - 1) * PERIOD \in Nat
      BY TimerAssumption
    <3> QED
      BY <2>1, <3>1 DEF AgeByPeriods, HandedOffInTime
  <2>2. CASE waiting # 0
    <3>1. age <= waiting * PERIOD
      <4>1. PICK p \in Nat : p = (waiting - 1) * PERIOD
        BY <2>2, TimerAssumption DEF TimerType
      <4>2. age <= p + PERIOD
        BY <2>2, <4>1, TimerAssumption DEF AgeByPeriods, TimerType
      <4>3. p + PERIOD = waiting * PERIOD
        BY <2>2, <4>1, OneMorePeriod DEF TimerType
      <4> QED
        BY <4>2, <4>3
    <3>2. PICK d \in Nat : BUFFER_SHUFFLING - 1 = waiting + d
      <4>1. BUFFER_SHUFFLING - 1 - waiting \in Nat
        BY TimerAssumption DEF TimerType
      <4>2. BUFFER_SHUFFLING - 1 = waiting + (BUFFER_SHUFFLING - 1 - waiting)
        BY TimerAssumption DEF TimerType
      <4> QED
        BY <4>1, <4>2
    <3>3. (waiting + d) * PERIOD = waiting * PERIOD + d * PERIOD
      BY TimerAssumption DEF TimerType
    <3>4. d * PERIOD \in Nat /\ waiting * PERIOD \in Nat
      BY TimerAssumption DEF TimerType
    <3> QED
      BY <3>1, <3>2, <3>3, <3>4 DEF HandedOffInTime, TimerType
  <2> QED
    BY <2>1, <2>2
<1> QED
  BY <1>1, PeriodsBringTickets, PTL

-----------------------------------------------------------------------------
(* ItemsList: iterative_encryption returns its argument, whatever the list
   and the configuration. *)

\* An item is still one once it is enciphered.
LEMMA EncipheredType ==
  ASSUME NEW v \in ItemValues
  PROVE  Enciphered(v) \in ItemValues
BY DEF Enciphered, Deciphered, ItemValues, Forms

\* The body the loop is given consists of items, and it is unchanged at first.
LEMMA ItemsInitInv == ItemsInit => ItemsInv
<1> SUFFICES ASSUME ItemsInit PROVE ItemsInv
  OBVIOUS
<1>1. PICK b \in Bodies : buff = [i \in 1..Len(b) |-> [item |-> b[i], form |-> Incoming]]
  BY DEF ItemsInit
<1>2. b \in Seq(ItemIds)
  BY ItemsListAssumption
<1>3. Incoming \in Forms
  BY DEF Incoming, Forms
<1>4. buff \in Seq(ItemValues)
  <2>1. \A i \in 1..Len(b) : [item |-> b[i], form |-> Incoming] \in ItemValues
    BY <1>2, <1>3 DEF ItemValues
  <2> QED BY <1>1, <1>2, <2>1
<1>5. buff = <<>> \/ Len(buff) >= 1
  BY <1>4
<1> QED BY <1>4, <1>5 DEF ItemsInit, ItemsInv, ItemsType, ReturnsBuff

\* Each step of the loop preserves the invariant.
LEMMA ItemsNextInv == ItemsInv /\ [ItemsNext]_itemsVars => ItemsInv'
<1> SUFFICES ASSUME ItemsInv, [ItemsNext]_itemsVars PROVE ItemsInv'
  OBVIOUS
<1> USE DEF ItemsInv, ItemsType, ReturnsBuff
<1>1. CASE Change
  <2>1. CASE pos_end < Len(buff)
    <3>1. Enciphered(aenc) \in ItemValues
      BY <2>1, EncipheredType
    <3>2. final_ret' = [buff EXCEPT ![pos_end + 1] = Enciphered(aenc)]
      BY <1>1, <2>1 DEF Change
    <3>3. final_ret' \in Seq(ItemValues) /\ Len(final_ret') = Len(buff)
      BY <2>1, <3>1, <3>2, ExceptSeq
    <3> QED BY <1>1, <2>1, <3>3 DEF Change
  <2>2. CASE ~(pos_end < Len(buff))
    BY <1>1, <2>2 DEF Change
  <2> QED BY <2>1, <2>2
<1>2. CASE Read
  BY <1>2 DEF Read
<1>3. CASE ReadNone
  BY <1>3 DEF ReadNone
<1>4. CASE UNCHANGED itemsVars
  BY <1>4 DEF itemsVars
<1> QED BY <1>1, <1>2, <1>3, <1>4 DEF ItemsNext

\* iterative_encryption (Enclave.cpp:100-129) returns the body it was given:
\* the answer reaches the first layer with its items as the recommender has
\* them.
THEOREM AnswerAsItCame == ItemsSpec => []ReturnsBuff
<1>1. ItemsInv => ReturnsBuff
  BY DEF ItemsInv
<1> QED BY ItemsInitInv, ItemsNextInv, <1>1, PTL DEF ItemsSpec

-----------------------------------------------------------------------------
(* Messages: for any number of hops, size of buffer and way of rewriting,
   and however a message is cut into pieces, no hop waits in vain, and what
   states its length is never cut. *)

\* do_recv's loop goes on at the start of a message.
LEMMA StartWantsMore ==
  ASSUME NEW m \in Framings, m.clAt # 0
  PROVE  WantsMore(m, 0)
BY MessagesAssumption DEF WantsMore, SeesLength, SeesEnd, EndsBlank, Size, Framings

\* It goes on only as long as there is something left of a framed message.
LEMMA MoreIsLeft ==
  ASSUME NEW m \in Framings, Framed(m), NEW n \in 0..Size(m), WantsMore(m, n)
  PROVE  n < Size(m)
<1>1. m.head \in Nat /\ m.body \in Nat /\ n \in Int /\ n <= m.head + m.body
  BY DEF Framings, Size
<1>2. CASE m.clAt = NoField
  BY <1>1, <1>2 DEF Framed, WantsMore, SeesLength, EndsBlank, Size
<1>3. CASE m.clAt # NoField
  <2>1. m.clAt \in Nat /\ m.clAt < m.head /\ m.claims = m.body
    BY <1>3 DEF Framed, Framings
  <2> QED BY <1>1, <1>3, <2>1 DEF WantsMore, SeesLength, SeesEnd, EndsBlank, Size
<1> QED BY <1>2, <1>3

\* When it ends, a message that states its length has been received whole.
LEMMA EndIsWhole ==
  ASSUME NEW m \in Framings, Framed(m), NEW n \in 0..Size(m), ~WantsMore(m, n),
         m.clAt # NoField
  PROVE  n = Size(m)
<1>1. m.head \in Nat /\ m.body \in Nat /\ n \in Int /\ n <= m.head + m.body
  BY DEF Framings, Size
<1>2. m.clAt \in Nat /\ m.clAt < m.head /\ m.claims = m.body
  BY DEF Framed, Framings
<1> QED BY <1>1, <1>2 DEF WantsMore, SeesLength, SeesEnd, EndsBlank, Size

\* What clients and the target send is framed, and no hop has begun with it.
LEMMA MessagesInitInv == MessagesInit => MessagesInv
<1> SUFFICES ASSUME MessagesInit PROVE MessagesInv
  OBVIOUS
<1>1. wire \in Framings /\ Framed(wire) /\ wire.clAt # 0
  BY MessagesAssumption DEF MessagesInit
<1>2. 0 \in 0..Size(wire)
  BY <1>1 DEF Size, Framings
<1>3. total = 0 /\ passage = "recv" /\ cut = FALSE /\ hop \in 1..Hops
  BY MessagesAssumption DEF MessagesInit
<1>4. WantsMore(wire, total)
  BY <1>1, <1>3, StartWantsMore
<1> QED
  BY <1>1, <1>2, <1>3, <1>4 DEF MessagesInv, MessagesType, CutInChunksOnly

\* A rewritten message is framed again, and stays cut if it was.
LEMMA ForwardInv == MessagesInv /\ Forward => MessagesInv'
<1> SUFFICES ASSUME MessagesInv, Forward PROVE MessagesInv'
  OBVIOUS
<1> USE DEF MessagesInv, MessagesType
<1>1. PICK h \in Lengths, b \in Lengths \cup {0} :
        /\ b # 0 <=> HasPayload
        /\ \E at \in FieldIn(h) :
             wire' = [head |-> h, clAt |-> at, claims |-> b, body |-> b,
                      blankEnd |-> wire.blankEnd /\ total = Size(wire)]
  BY DEF Forward
<1>2. PICK at \in FieldIn(h) :
        wire' = [head |-> h, clAt |-> at, claims |-> b, body |-> b,
                 blankEnd |-> wire.blankEnd /\ total = Size(wire)]
  BY <1>1
<1>3. h \in Nat \ {0} /\ b \in Nat
  BY MessagesAssumption
<1>4. IF wire.clAt = NoField THEN at = NoField
      ELSE at \in Nat /\ at # 0 /\ at < h /\ at # NoField
  BY <1>3, MessagesAssumption DEF FieldIn
<1>5. wire' \in Framings /\ wire'.clAt # 0
  <2>1. (wire.blankEnd /\ total = Size(wire)) \in BOOLEAN
    OBVIOUS
  <2>2. at \in Nat \cup {NoField} /\ at # 0
    BY <1>4, MessagesAssumption
  <2> QED BY <1>2, <1>3, <2>1, <2>2 DEF Framings
<1>6. Framed(wire')
  <2>1. CASE wire.clAt # NoField
    BY <1>2, <1>4, <2>1 DEF Framed
  <2>2. CASE wire.clAt = NoField
    <3>1. wire.head \in Nat /\ wire.body \in Nat /\ total \in Int /\ total <= Size(wire)
      BY DEF Framings, Size
    <3>2. ~WantsMore(wire, total)
      BY DEF Forward
    <3>3. total = wire.head \/ (total = Size(wire) /\ wire.blankEnd)
      BY <2>2, <3>2 DEF WantsMore, SeesLength, EndsBlank
    <3>4. CASE total = wire.head
      BY <1>1, <1>2, <1>4, <2>2, <3>1, <3>4 DEF Framed, HasPayload
    <3>5. CASE total = Size(wire) /\ wire.blankEnd
      BY <1>2, <1>4, <2>2, <3>5 DEF Framed
    <3> QED BY <3>3, <3>4, <3>5
  <2> QED BY <2>1, <2>2
<1>7. CutInChunksOnly'
  <2> SUFFICES ASSUME cut' PROVE wire'.clAt = NoField
    BY DEF CutInChunksOnly
  <2>1. CASE cut
    BY <1>2, <1>4, <2>1 DEF CutInChunksOnly
  <2>2. CASE total < Size(wire)
    <3>1. ~WantsMore(wire, total)
      BY DEF Forward
    <3>2. total # Size(wire)
      BY <2>2 DEF Framings, Size
    <3>3. wire.clAt = NoField
      BY <3>1, <3>2, EndIsWhole
    <3> QED BY <1>2, <1>4, <3>3
  <2> QED BY <2>1, <2>2 DEF Forward
<1>8. hop' \in 1..Hops /\ total' = 0 /\ cut' \in BOOLEAN /\ passage' \in {"recv", "arrived"}
  BY MessagesAssumption DEF Forward
<1>9. total' \in 0..Size(wire')
  BY <1>5, <1>8 DEF Framings, Size
<1>10. WantsMore(wire', total')
  BY <1>5, <1>8, StartWantsMore
<1> QED
  <2>1. wire' \in Framings /\ Framed(wire') /\ wire'.clAt # 0
    BY <1>5, <1>6
  <2>2. passage' # "enclave"
    BY <1>8
  <2> QED BY <1>7, <1>8, <1>9, <1>10, <2>1, <2>2

\* Each step of a hop preserves the invariant.
LEMMA MessagesNextInv == MessagesInv /\ [MessagesNext]_messagesVars => MessagesInv'
<1> SUFFICES ASSUME MessagesInv, [MessagesNext]_messagesVars PROVE MessagesInv'
  OBVIOUS
<1> USE DEF MessagesInv, MessagesType, CutInChunksOnly
<1>1. CASE Receive
  <2>1. PICK n \in total + 1..Size(wire) :
          /\ total' = n
          /\ passage' = IF n <= Shortest THEN "discarded"
                        ELSE IF WantsMore(wire, n) THEN "recv" ELSE "enclave"
    BY <1>1 DEF Receive
  <2>2. UNCHANGED <<wire, hop, cut>>
    BY <1>1 DEF Receive
  <2>3. n \in 0..Size(wire)
    BY DEF Framings, Size
  <2>4. passage' = "recv" => WantsMore(wire, n)
    BY <2>1
  <2>5. passage' = "enclave" => ~WantsMore(wire, n)
    BY <2>1
  <2>6. passage' \in {"recv", "enclave", "discarded", "arrived"}
    BY <2>1
  <2>7. wire' = wire
    BY <2>2
  <2>8. WantsMore(wire', total') <=> WantsMore(wire, n)
    BY <2>1, <2>7
  <2> QED BY <2>1, <2>2, <2>3, <2>4, <2>5, <2>6, <2>8
<1>2. CASE ReceiveNothing
  BY <1>2 DEF ReceiveNothing
<1>3. CASE Forward
  BY <1>3, ForwardInv
<1>4. CASE UNCHANGED messagesVars
  BY <1>4 DEF messagesVars
<1> QED BY <1>1, <1>2, <1>3, <1>4 DEF MessagesNext

\* No hop waits for bytes that are not sent (do_recv, common_socket.cpp:197,
\* and the Content-Length of update_headers, Enclave.cpp:202-207).
THEOREM NoHopStalls == MessagesSpec => []NeverStalled
<1>1. MessagesInv => NeverStalled
  BY MoreIsLeft DEF MessagesInv, MessagesType, NeverStalled
<1> QED BY MessagesInitInv, MessagesNextInv, <1>1, PTL DEF MessagesSpec

\* What a message that states its length loses on the way, it loses whole.
THEOREM WholeOrNothing == MessagesSpec => []CutInChunksOnly
<1>1. MessagesInv => CutInChunksOnly
  BY DEF MessagesInv
<1> QED BY MessagesInitInv, MessagesNextInv, <1>1, PTL DEF MessagesSpec

-----------------------------------------------------------------------------
(* Startup: what a start of the proxy leaves behind, for any number of exits
   and starts in any order of failures. *)

\* The calls that exit if they fail have left their mark by the time the process
\* can be reached: there is an enclave, and what an exit leaves behind on the port
\* is reusable.
StartupInv ==
  /\ mpc \in Places
  /\ eid = "none" => mpc \in {"down", "main"}
  /\ mpc \in {"reuse", "bind", "listen", "loop"} => reuse
  /\ reached => mpc \in {"listen", "loop"}
  /\ lingering \in {"none", "reusable"}
  /\ RestartBinds

\* Before the first start there is nothing to say.
LEMMA StartupInitInv == StartupInit => StartupInv
BY DEF StartupInit, StartupInv, Places, RestartBinds

\* An exit that is not for lingering connections leaves connections that can be bound over.
LEMMA ExitStep ==
  ASSUME StartupInv, NEW c, Exit(c), c # "bind_lingering"
  PROVE  StartupInv'
BY DEF StartupInv, Exit, Places, RestartBinds

\* bind does not fail for what an earlier process has left.
LEMMA BindStep == ASSUME StartupInv, DoBind PROVE StartupInv'
<1>1. mpc = "reuse" => Bindable
  BY DEF StartupInv, Bindable
<1>2. CASE Exit("bind_other")
  BY <1>2, ExitStep
<1>3. CASE Reaches("reuse", "bind") /\ UNCHANGED <<eid, reuse, lingering, reached, exitBy>>
  BY <1>3 DEF StartupInv, Reaches, Places, RestartBinds
<1> QED BY <1>1, <1>2, <1>3 DEF DoBind

\* Each step preserves the invariant.
LEMMA StartupStep == StartupInv /\ [StartupNext]_startupVars => StartupInv'
<1> SUFFICES ASSUME StartupInv, [StartupNext]_startupVars PROVE StartupInv'
  OBVIOUS
<1> USE DEF StartupInv, Reaches, Places, RestartBinds
<1>1. CASE Start
  BY <1>1 DEF Start
<1>2. CASE InitializeEnclave
  <2>1. CASE Exit("sgx_create_enclave")
    BY <2>1, ExitStep
  <2> QED BY <1>2, <2>1 DEF InitializeEnclave
<1>3. CASE Configure
  BY <1>3 DEF Configure
<1>4. CASE DoSocket
  <2>1. CASE Exit("socket")
    BY <2>1, ExitStep
  <2> QED BY <1>4, <2>1 DEF DoSocket
<1>5. CASE DoSetsockopt
  <2>1. CASE Exit("setsockopt")
    BY <2>1, ExitStep
  <2> QED BY <1>5, <2>1 DEF DoSetsockopt
<1>6. CASE DoBind
  BY <1>6, BindStep
<1>7. CASE DoListen
  <2>1. CASE Exit("listen")
    BY <2>1, ExitStep
  <2> QED BY <1>7, <2>1 DEF DoListen
<1>8. CASE PollHandler
  BY <1>8 DEF PollHandler
<1>9. CASE ClientConnects
  BY <1>9 DEF ClientConnects
<1>10. CASE LoopExits
  <2>1. Exit("loop")
    BY <1>10 DEF LoopExits
  <2> QED BY <2>1, ExitStep
<1>11. CASE EnclaveLost
  BY <1>11 DEF EnclaveLost
<1>12. CASE Lapse
  BY <1>12 DEF Lapse
<1>13. CASE UNCHANGED startupVars
  BY <1>13 DEF startupVars
<1> QED
  BY <1>1, <1>2, <1>3, <1>4, <1>5, <1>6, <1>7, <1>8, <1>9, <1>10, <1>11, <1>12, <1>13
     DEF StartupNext

\* initialize_enclave (App.cpp:55-57) exits if there is no enclave, so nobody's
\* connection reaches a proxy without one, though it may be lost, or not have
\* been configured.
THEOREM EnclaveBehind == StartupSpec => [](reached => eid # "none")
<1>1. StartupInv => (reached => eid # "none")
  BY DEF StartupInv
<1> QED BY StartupInitInv, StartupStep, <1>1, PTL DEF StartupSpec

\* do_setsockopt (common_socket.cpp:44) before do_bind is enough for a proxy to
\* be started again on the port its last process served.
THEOREM PortComesBack == StartupSpec => []RestartBinds
<1>1. StartupInv => RestartBinds
  BY DEF StartupInv
<1> QED BY StartupInitInv, StartupStep, <1>1, PTL DEF StartupSpec
=============================================================================
