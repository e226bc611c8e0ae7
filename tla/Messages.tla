------------------------------ MODULE Messages ------------------------------
(***************************************************************************)
(* How a message crosses a chain of proxies: do_recv (App/                 *)
(* common_socket.cpp:189-207) finds its end in a stream that arrives in    *)
(* pieces, the enclave changes the length of headers and body,             *)
(* update_headers (Enclave/Enclave.cpp:187-209) restates the length, and   *)
(* the next hop's do_recv goes by that.                                    *)
(*                                                                         *)
(* A message is its lengths.  That a hop waits for bytes its sender never  *)
(* sends, or stops before the last one, shows in them alone.               *)
(***************************************************************************)
EXTENDS Integers

CONSTANTS
  Hops,        \* proxies a message goes through
  MSG_LENGTH,  \* size of do_recv's buffer
  Shortest,    \* 16: the length of "Content-Length: "
  Sent,        \* messages that clients and the target send
  Lengths,     \* lengths of headers and of bodies that rewriting produces
  NoField      \* clAt of a message without Content-Length

\* head: bytes up to the end of the first CRLFCRLF; clAt: bytes up to where
\* "Content-Length: " is complete; claims: what it says; body: bytes of body;
\* blankEnd: the body ends with CRLFCRLF, as one in chunks does.
Framings ==
  [head : Nat \ {0}, clAt : Nat \cup {NoField}, claims : Nat, body : Nat,
   blankEnd : BOOLEAN]

\* HTTP's ways to tell a receiver where a message ends.
Framed(m) ==
  \/ m.clAt # NoField /\ m.clAt < m.head /\ m.claims = m.body
  \/ m.clAt = NoField /\ (m.body = 0 \/ m.blankEnd)

ASSUME MessagesAssumption ==
  /\ Hops \in Nat \ {0}
  /\ MSG_LENGTH \in Nat /\ Shortest \in Nat
  /\ NoField \notin Nat
  /\ Sent \subseteq Framings
  /\ \A m \in Sent : Framed(m) /\ m.clAt # 0
  /\ Lengths \subseteq Nat \ {0}

VARIABLES
  wire,     \* the message as sent to the current hop
  hop,      \* which hop that is
  total,    \* bytes of it do_recv has got
  passage,  \* "recv", "enclave", "discarded" or "arrived"
  cut       \* some hop has passed on less than it was sent (not in the code)

messagesVars == <<wire, hop, total, passage, cut>>

Size(m) == m.head + m.body

MessagesInit ==
  /\ wire \in Sent
  /\ hop = 1
  /\ total = 0
  /\ passage = "recv"
  /\ cut = FALSE

\* CL # npos, rn # npos and the last four bytes, of the first n of message m.
SeesLength(m, n) == m.clAt # NoField /\ m.clAt <= n
SeesEnd(m, n) == m.head <= n
EndsBlank(m, n) == n = m.head \/ (n = Size(m) /\ m.blankEnd)

\* [Wrong] the body is counted from the blank line on.
WantsMoreOffByFour(m, n) ==
  \/ ~SeesLength(m, n) /\ ~EndsBlank(m, n)
  \/ SeesLength(m, n) /\ ~SeesEnd(m, n)
  \/ SeesLength(m, n) /\ SeesEnd(m, n) /\ n + 1 < m.claims + m.head

\* The condition of do_recv's loop.
WantsMore(m, n) ==
  \/ ~SeesLength(m, n) /\ ~EndsBlank(m, n)
  \/ SeesLength(m, n) /\ ~SeesEnd(m, n)
  \/ SeesLength(m, n) /\ SeesEnd(m, n) /\ n < m.claims + m.head

\* recv returns some of what is left of the message and fits the buffer.
Receive ==
  /\ passage = "recv"
  /\ \E n \in total + 1..Size(wire) :
       /\ n <= MSG_LENGTH
       /\ total' = n
       /\ passage' = IF n <= Shortest THEN "discarded"
                     ELSE IF WantsMore(wire, n) THEN "recv" ELSE "enclave"
  /\ UNCHANGED <<wire, hop, cut>>

\* recv returns 0: the buffer is full, or the peer has closed its side.
ReceiveNothing ==
  /\ passage = "recv"
  /\ passage' = "discarded"
  /\ UNCHANGED <<wire, hop, total, cut>>

\* Where the rewriting leaves the name of the length field.
FieldIn(h) == IF wire.clAt = NoField THEN {NoField} ELSE 1..h - 1

\* extract_pld: what do_recv got goes on after the end of the headers.
HasPayload == total > wire.head

\* [Wrong] the length is stated before the body is rewritten.
ForwardLengthFirst ==
  /\ passage = "enclave"
  /\ \E h \in Lengths, b \in Lengths \cup {0} :
       /\ b # 0 <=> HasPayload
       /\ h + b <= MSG_LENGTH
       /\ \E at \in FieldIn(h) :
            wire' = [head |-> h, clAt |-> at, claims |-> total - wire.head, body |-> b,
                     blankEnd |-> wire.blankEnd /\ total = Size(wire)]
  /\ cut' = (cut \/ total < Size(wire))
  /\ IF hop = Hops THEN passage' = "arrived" /\ UNCHANGED hop
                   ELSE passage' = "recv" /\ hop' = hop + 1
  /\ total' = 0

\* ecall_proxy and do_send.  The bytes after the header's end that do_recv got
\* are the body: it is replaced by one of another length (or, if there is
\* none, by none), headers are added or changed, and update_headers, last,
\* states the length of what there is if the field is there.  What does not
\* fit the buffer of the result is left out.
Forward ==
  /\ passage = "enclave"
  /\ \E h \in Lengths, b \in Lengths \cup {0} :
       /\ b # 0 <=> HasPayload
       /\ h + b <= MSG_LENGTH
       /\ \E at \in FieldIn(h) :
            wire' = [head |-> h, clAt |-> at, claims |-> b, body |-> b,
                     blankEnd |-> wire.blankEnd /\ total = Size(wire)]
  /\ cut' = (cut \/ total < Size(wire))
  /\ IF hop = Hops THEN passage' = "arrived" /\ UNCHANGED hop
                   ELSE passage' = "recv" /\ hop' = hop + 1
  /\ total' = 0

MessagesNext == Receive \/ ReceiveNothing \/ Forward

MessagesSpec == MessagesInit /\ [][MessagesNext]_messagesVars

-----------------------------------------------------------------------------
(* Properties *)

\* No hop waits for bytes that its sender, which now waits for the answer, is
\* not going to send: lengths stay true through every rewriting.
NeverStalled == passage = "recv" => total < Size(wire)

\* A message that states its length, or has no body, is passed on whole by
\* every hop.  (One in chunks is cut if a piece ends where its headers do.)
CutInChunksOnly == cut => wire.clAt = NoField

-----------------------------------------------------------------------------
(* The inductive invariant of Messages_proofs *)

MessagesType ==
  /\ wire \in Framings
  /\ hop \in 1..Hops
  /\ total \in 0..Size(wire)
  /\ passage \in {"recv", "enclave", "discarded", "arrived"}
  /\ cut \in BOOLEAN

MessagesInv ==
  /\ MessagesType
  /\ Framed(wire)
  /\ wire.clAt # 0
  /\ passage = "recv" => WantsMore(wire, total)
  /\ passage = "enclave" => ~WantsMore(wire, total)
  /\ CutInChunksOnly
=============================================================================
