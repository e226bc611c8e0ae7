---------------------------- MODULE ShuffleTimer ----------------------------
(***************************************************************************)
(* The clock of poll_handler's shuffle buffer (server.cpp:76-103), which   *)
(* Server leaves out: how long may a ticket wait to be handed off?  The    *)
(* loop knows no deadline of its own, only epoll_wait's, and every event   *)
(* starts that one anew.  The loop's own work is taken to last no time, so *)
(* that a do_connect that blocks adds to the bound.                        *)
(***************************************************************************)
EXTENDS Integers

CONSTANTS
  BUFFER_SHUFFLING,  \* capacity of the buffer
  PERIOD             \* epoll_wait's 1000 ms, in ticks of the clock

ASSUME TimerAssumption ==
  BUFFER_SHUFFLING \in Nat \ {0} /\ PERIOD \in Nat \ {0}

VARIABLES
  waiting,  \* tickets in the buffer
  quiet,    \* time since epoll_wait was entered
  age       \* time since the oldest ticket of the buffer was staged

timerVars == <<waiting, quiet, age>>

TimerType ==
  /\ waiting \in 0..BUFFER_SHUFFLING - 1
  /\ quiet \in 0..PERIOD
  /\ age \in Nat

TimerInit == waiting = 0 /\ quiet = 0 /\ age = 0

\* Time passes in epoll_wait, up to its time-out.
Tick ==
  /\ quiet < PERIOD
  /\ quiet' = quiet + 1
  /\ age' = IF waiting = 0 THEN 0 ELSE age + 1
  /\ UNCHANGED waiting

\* [Wrong] the hand-off test comes before waiting++.
EventTestsFirst ==
  /\ waiting' = IF waiting = BUFFER_SHUFFLING THEN 1 ELSE waiting + 1
  /\ age' = IF waiting = BUFFER_SHUFFLING THEN 0 ELSE age
  /\ quiet' = 0

\* [Wrong] a full buffer keeps the ticket of the event, as if epoll_wait had
\* been entered between hand-off and staging.
EventLeavesOldest ==
  /\ waiting' = IF waiting + 1 = BUFFER_SHUFFLING THEN 1 ELSE waiting + 1
  /\ quiet' = 0
  /\ UNCHANGED age

\* An event stages a ticket; a full buffer is handed off; epoll_wait starts
\* a new period in either case.
Event ==
  /\ \/ /\ waiting + 1 = BUFFER_SHUFFLING
        /\ waiting' = 0 /\ age' = 0
     \/ /\ waiting + 1 < BUFFER_SHUFFLING
        /\ waiting' = waiting + 1 /\ UNCHANGED age
  /\ quiet' = 0

\* epoll_wait returns 0: what there is is handed off.
Expire ==
  /\ quiet = PERIOD
  /\ waiting' = 0 /\ age' = 0
  /\ quiet' = 0

TimerNext == Tick \/ Event \/ Expire

TimerSpec == TimerInit /\ [][TimerNext]_timerVars

-----------------------------------------------------------------------------

\* A ticket is handed off at the latest BUFFER_SHUFFLING - 1 periods after it
\* was staged: the worst case is an event at the very end of each period.
HandedOffInTime == age <= (BUFFER_SHUFFLING - 1) * PERIOD

\* Why: each period the oldest ticket has outlived has brought a ticket.
\* Inductive, and stronger than HandedOffInTime.
AgeByPeriods ==
  IF waiting = 0 THEN age = 0 ELSE age <= (waiting - 1) * PERIOD + quiet
=============================================================================
