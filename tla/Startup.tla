------------------------------- MODULE Startup -------------------------------
(***************************************************************************)
(* main (App/App.cpp:64-88) up to server_loop's poll_handler, the exits of *)
(* the process, and its next start: a container that ends is started again *)
(* at once, on the port its connections are still in TIME_WAIT on (the     *)
(* proxy closes first).                                                    *)
(*                                                                         *)
(* No step waits for another's success but by exiting, and the result of   *)
(* ecall_init is not looked at.                                            *)
(***************************************************************************)

VARIABLES
  mpc,        \* how far the process has got, "down" if there is none
  eid,        \* its enclave: "none", "fresh", "initialised" or "lost"
  reuse,      \* ssock has SO_REUSEADDR; the sockets it accepts inherit it
  lingering,  \* the port's connections of earlier processes: "none", or
              \* "reusable" or "exclusive" by their SO_REUSEADDR
  reached,    \* the kernel has accepted a connection for the process
  exitBy      \* the call that made the last process exit

startupVars == <<mpc, eid, reuse, lingering, reached, exitBy>>

Places ==
  {"down", "main", "enclave", "init", "socket", "reuse", "bind", "listen", "loop"}

StartupInit ==
  /\ mpc = "down"
  /\ eid = "none"
  /\ reuse = FALSE
  /\ lingering = "none"
  /\ reached = FALSE
  /\ exitBy = "none"

\* Where the process has got to is what the call it has last returned from.
Reaches(from, to) == mpc = from /\ mpc' = to

\* exit: enclave and sockets go with the process, its connections linger.
Exit(call) ==
  /\ mpc' = "down"
  /\ eid' = "none" /\ reuse' = FALSE /\ reached' = FALSE
  /\ lingering' = IF reached THEN (IF reuse THEN "reusable" ELSE "exclusive") ELSE lingering
  /\ exitBy' = call

Start ==
  /\ Reaches("down", "main")
  /\ UNCHANGED <<eid, reuse, lingering, reached, exitBy>>

InitializeEnclave ==
  \/ /\ Reaches("main", "enclave")
     /\ eid' = "fresh"
     /\ UNCHANGED <<reuse, lingering, reached, exitBy>>
  \/ mpc = "main" /\ Exit("sgx_create_enclave")

\* ecall_init.  It may fail (no memory for the call, no enclave any more), and
\* main goes on all the same: the enclave stays as it is, with PROXY_TYPE 0.
Configure ==
  /\ Reaches("enclave", "init")
  /\ \/ eid = "fresh" /\ eid' = "initialised"
     \/ UNCHANGED eid
  /\ UNCHANGED <<reuse, lingering, reached, exitBy>>

DoSocket ==
  \/ Reaches("init", "socket") /\ UNCHANGED <<eid, reuse, lingering, reached, exitBy>>
  \/ mpc = "init" /\ Exit("socket")

\* [Wrong] the option is not set.
DoSetsockoptForgets ==
  Reaches("socket", "reuse") /\ UNCHANGED <<eid, reuse, lingering, reached, exitBy>>

DoSetsockopt ==
  \/ /\ Reaches("socket", "reuse")
     /\ reuse' = TRUE
     /\ UNCHANGED <<eid, lingering, reached, exitBy>>
  \/ mpc = "socket" /\ Exit("setsockopt")

\* The kernel lets a port be bound that has connections lingering on it only
\* if both sides have SO_REUSEADDR.
Bindable == lingering = "none" \/ (lingering = "reusable" /\ reuse)

\* Any other failure of bind (a port in use by another process, no permission)
\* has another name, as it is none of an earlier proxy's doing.
DoBind ==
  \/ Bindable /\ Reaches("reuse", "bind") /\ UNCHANGED <<eid, reuse, lingering, reached, exitBy>>
  \/ mpc = "reuse" /\ ~Bindable /\ Exit("bind_lingering")
  \/ mpc = "reuse" /\ Exit("bind_other")

DoListen ==
  \/ Reaches("bind", "listen") /\ UNCHANGED <<eid, reuse, lingering, reached, exitBy>>
  \/ mpc = "bind" /\ Exit("listen")

\* poll_handler: epoll_create1, the threads, the loop.
PollHandler ==
  Reaches("listen", "loop") /\ UNCHANGED <<eid, reuse, lingering, reached, exitBy>>

\* From listen on clients can connect, before there is anyone to accept them.
ClientConnects ==
  /\ mpc \in {"listen", "loop"}
  /\ reached' = TRUE
  /\ UNCHANGED <<mpc, eid, reuse, lingering, exitBy>>

\* getaddrinfo, accept or epoll_ctl fails: any of them ends the process, with
\* whatever the workers are doing.
LoopExits == mpc = "loop" /\ Exit("loop")

\* The machine changes its power state: enclaves are gone, processes stay.
EnclaveLost ==
  /\ eid \in {"fresh", "initialised"}
  /\ eid' = "lost"
  /\ UNCHANGED <<mpc, reuse, lingering, reached, exitBy>>

\* TIME_WAIT is over.
Lapse ==
  /\ lingering # "none"
  /\ lingering' = "none"
  /\ UNCHANGED <<mpc, eid, reuse, reached, exitBy>>

StartupNext ==
  \/ Start \/ InitializeEnclave \/ Configure
  \/ DoSocket \/ DoSetsockopt \/ DoBind \/ DoListen
  \/ PollHandler \/ ClientConnects \/ LoopExits \/ EnclaveLost \/ Lapse

StartupSpec == StartupInit /\ [][StartupNext]_startupVars

-----------------------------------------------------------------------------
(* Properties *)

\* A proxy that was serving can be started again at once: the connections it
\* left behind do not keep the next process from its port.
RestartBinds == exitBy # "bind_lingering"
=============================================================================
