------------------------------- MODULE Enclave -------------------------------
(***************************************************************************)
(* What ecall_init and ecall_proxy (Enclave/Enclave.cpp) keep and do.      *)
(*                                                                         *)
(* The request of a connection leaves an IV, and the key it brings if it   *)
(* brings one, in the slot inRAM[csock]; its answer takes what it finds    *)
(* there.  Slots are adjacent in memory and 24 bytes long, and the code    *)
(* reaches past their end:                                                 *)
(*   - init_ivs ends the 8-byte IV with a 0 in the next slot's first byte; *)
(*   - AES-256 takes 32 bytes for the 16 of key, and 16 for the 8 of iv.   *)
(* A key is therefore kept as its first byte (head) and the rest of its    *)
(* first 8 bytes (body), each named by the connection whose key it is.     *)
(*                                                                         *)
(* Threads are the enclave's TCSs; calls of different connections overlap. *)
(* A number is not given out again before its answer is done with: Server, *)
(* FreshTickets.  Encryption is symbolic and JSON is left out.             *)
(***************************************************************************)
EXTENDS Integers

CONSTANTS
  Conns,    \* connections, one request and one answer each
  Threads,  \* TCSs
  Slots,    \* numbers client descriptors get
  Ids,      \* users or items requests name
  Configs,  \* what ecall_init may be given
  Zero,     \* zero bytes
  None      \* no connection, nothing sent

Configurations ==
  [proxy_type : {0, 1, 2}, enable_encryption : {0, 1}, enable_items_decr : {0, 1}]

ASSUME EnclaveAssumption ==
  /\ Slots \subseteq Nat
  /\ Configs \subseteq Configurations

VARIABLES
  config,     \* PROXY_TYPE, ENABLE_ENCRYPTION, ENABLE_ITEMS_DECR
  inRAM,      \* the slots
  stage,      \* stage[k]: how far connection k has got
  request,    \* request[k]: what it asks
  csock,      \* csock[k]: the number of its client descriptor
  call,       \* call[t]: the ecall thread t executes
  forwarded,  \* forwarded[k]: what became of k's identifier
  returned    \* returned[k]: the key k's items were enciphered with

enclaveVars == <<config, inRAM, stage, request, csock, call, forwarded, returned>>

Cells == Slots \cup {f + 1 : f \in Slots}
Key(h, b) == [head |-> h, body |-> b]
Keys == [head : Conns \cup {Zero}, body : Conns \cup {Zero}]
Ivs == Slots \cup {Zero}
Slot == [key : Keys, iv : Ivs]
NoCall == [conn |-> None, pc |-> "free"]

\* A request by its URI (QUERIES_URI, EVENTS_URI or another) and the id in the
\* field looked for there: None if it has no such field, or none is looked for.
Requests ==
  [uri : {"queries", "events"}, id : Ids \cup {None}] \cup [uri : {"other"}, id : {None}]

\* The 32 bytes at inRAM[f].key and the 16 at inRAM[f].iv.
AesKey(f) == [own |-> inRAM[f].key, iv |-> inRAM[f].iv, next |-> inRAM[f + 1].key]
AesIv(f) == [own |-> inRAM[f].iv, next |-> inRAM[f + 1].key]

\* An identifier as it is sent on: as it came (still under the client's RSA
\* encryption if it had one), deciphered, blanked, or under a layer's key.
Raw == [form |-> "raw"]
Blank == [form |-> "blank"]
\* What private_decrypt gives for an id under the layer's RSA key.
Clear(u) == [form |-> "clear", of |-> u]
Pseudonym(u, f) == [form |-> "pseudonym", of |-> u, iv |-> AesIv(f)]

SentIds == {Raw, Blank} \cup {Clear(u) : u \in Ids}
  \cup [form : {"pseudonym"}, of : Ids, iv : [own : Ivs, next : Keys]]
AesKeys == [own : Keys, iv : Ivs, next : Keys]

EnclaveType ==
  /\ config \in Configs \cup {None}
  /\ inRAM \in [Cells -> Slot]
  /\ stage \in [Conns -> {"new", "request", "asked", "answer", "answered", "closed"}]
  /\ request \in [Conns -> Requests \cup {None}]
  /\ csock \in [Conns -> Ivs]
  /\ call \in [Threads -> [conn : Conns \cup {None},
                            pc : {"free", "iv", "nul", "field", "items"}]]
  /\ forwarded \in [Conns -> SentIds \cup {None}]
  /\ returned \in [Conns -> AesKeys \cup {None}]

EnclaveInit ==
  /\ config = None
  /\ inRAM = [f \in Cells |-> [key |-> Key(Zero, Zero), iv |-> Zero]]
  /\ stage = [k \in Conns |-> "new"]
  /\ request = [k \in Conns |-> None]
  /\ csock = [k \in Conns |-> Zero]
  /\ call = [t \in Threads |-> NoCall]
  /\ forwarded = [k \in Conns |-> None]
  /\ returned = [k \in Conns |-> None]

\* main calls it once, before server_loop.  (If it fails, Startup's concern,
\* calls find PROXY_TYPE 0, as they do in the configurations that have it.)
EcallInit(c) ==
  /\ config = None
  /\ config' = c
  /\ UNCHANGED <<inRAM, stage, request, csock, call, forwarded, returned>>

Encrypting == config.proxy_type # 0 /\ config.enable_encryption = 1
Held(f) == \E k \in Conns : csock[k] = f /\ stage[k] \notin {"new", "closed"}

\* Is k's request one whose key is kept for its answer?
KeepsKey(k) ==
  config.proxy_type = 2 /\ request[k].uri = "queries" /\ request[k].id # None

\* [Wrong] the number passed is the upstream socket's, opened just before.
RequestCallBySock(t, k, f, q) ==
  /\ config # None /\ Encrypting
  /\ call[t].pc = "free" /\ stage[k] = "new" /\ ~Held(f)
  /\ csock' = [csock EXCEPT ![k] = f - 1]
  /\ request' = [request EXCEPT ![k] = q]
  /\ stage' = [stage EXCEPT ![k] = "request"]
  /\ call' = [call EXCEPT ![t] = [conn |-> k, pc |-> "iv"]]
  /\ UNCHANGED <<config, inRAM, forwarded, returned>>

\* ecall_proxy is entered with the request q of k, accepted as number f.
RequestCall(t, k, f, q) ==
  /\ config # None
  /\ call[t].pc = "free" /\ stage[k] = "new" /\ ~Held(f)
  /\ csock' = [csock EXCEPT ![k] = f]
  /\ request' = [request EXCEPT ![k] = q]
  /\ \/ /\ Encrypting
        /\ call' = [call EXCEPT ![t] = [conn |-> k, pc |-> "iv"]]
        /\ stage' = [stage EXCEPT ![k] = "request"]
        /\ UNCHANGED forwarded
     \/ /\ ~Encrypting
        /\ forwarded' = [forwarded EXCEPT ![k] = Raw]
        /\ stage' = [stage EXCEPT ![k] = "asked"]
        /\ UNCHANGED call
  /\ UNCHANGED <<config, inRAM, returned>>

\* [Wrong] init_ivs is only called for queries.
InitIvsForQueries(t) ==
  /\ call[t].pc = "iv"
  /\ LET k == call[t].conn IN
       inRAM' = IF request[k].uri = "queries"
                  THEN [inRAM EXCEPT ![csock[k]].iv = csock[k]] ELSE inRAM
  /\ call' = [call EXCEPT ![t].pc = "nul"]
  /\ UNCHANGED <<config, stage, request, csock, forwarded, returned>>

\* init_ivs: the IV is the hash of the number ...
InitIvs(t) ==
  /\ call[t].pc = "iv"
  /\ LET f == csock[call[t].conn] IN inRAM' = [inRAM EXCEPT ![f].iv = f]
  /\ call' = [call EXCEPT ![t].pc = "nul"]
  /\ UNCHANGED <<config, stage, request, csock, forwarded, returned>>

\* [Wrong] with iv in front of key in the slot, the 0 falls on the slot's own key.
EndIvsOwnKey(t) ==
  /\ call[t].pc = "nul"
  /\ LET f == csock[call[t].conn] IN inRAM' = [inRAM EXCEPT ![f].key = Key(Zero, @.body)]
  /\ call' = [call EXCEPT ![t].pc = "field"]
  /\ UNCHANGED <<config, stage, request, csock, forwarded, returned>>

\* ... and out[IV_LEN] = 0 falls into the next slot.
EndIvs(t) ==
  /\ call[t].pc = "nul"
  /\ LET f == csock[call[t].conn] IN inRAM' = [inRAM EXCEPT ![f + 1].key = Key(Zero, @.body)]
  /\ call' = [call EXCEPT ![t].pc = "field"]
  /\ UNCHANGED <<config, stage, request, csock, forwarded, returned>>

\* What encrypt_json_field makes of the id: the user in layer 1; in layer 2 the
\* item of an event, or a query's key, which is blanked.  A message in which
\* json_get_id_value does not find the field goes on as it came.
SentOn(k, pseudonym) ==
  IF request[k].id = None THEN Raw
  ELSE IF KeepsKey(k) THEN Blank
  ELSE IF config.proxy_type = 2 /\ config.enable_items_decr = 0 THEN Clear(request[k].id)
  ELSE pseudonym

Rewritten(k) == SentOn(k, Pseudonym(request[k].id, csock[k]))

\* [Wrong] a key is only copied into a slot that has none yet.
FieldKeepsFirst(t) ==
  /\ call[t].pc = "field"
  /\ LET k == call[t].conn
         f == csock[k]
     IN  /\ forwarded' = [forwarded EXCEPT ![k] = Rewritten(k)]
         /\ inRAM' = IF KeepsKey(k) /\ inRAM[f].key.body = Zero
                       THEN [inRAM EXCEPT ![f].key = Key(k, k)] ELSE inRAM
         /\ stage' = [stage EXCEPT ![k] = "asked"]
  /\ call' = [call EXCEPT ![t] = NoCall]
  /\ UNCHANGED <<config, request, csock, returned>>

\* encrypt_json_field.  Without a key in it, a query leaves the slot's key as it
\* is, an earlier owner's.
Field(t) ==
  /\ call[t].pc = "field"
  /\ LET k == call[t].conn
         f == csock[k]
     IN  /\ forwarded' = [forwarded EXCEPT ![k] = Rewritten(k)]
         /\ inRAM' = IF KeepsKey(k) THEN [inRAM EXCEPT ![f].key = Key(k, k)] ELSE inRAM
         /\ stage' = [stage EXCEPT ![k] = "asked"]
  /\ call' = [call EXCEPT ![t] = NoCall]
  /\ UNCHANGED <<config, request, csock, returned>>

\* ecall_proxy is entered with the answer to k.  Layer 2 works on any answer
\* that has a list of results, whatever was asked; an answer without one, like
\* every answer in layer 1, goes on as it came.
AnswerCall(t, k) ==
  /\ call[t].pc = "free" /\ stage[k] = "asked"
  /\ \/ /\ Encrypting /\ config.proxy_type = 2
        /\ call' = [call EXCEPT ![t] = [conn |-> k, pc |-> "items"]]
        /\ stage' = [stage EXCEPT ![k] = "answer"]
     \/ /\ stage' = [stage EXCEPT ![k] = "answered"]
        /\ UNCHANGED call
  /\ UNCHANGED <<config, inRAM, request, csock, forwarded, returned>>

\* encrypt_items_list enciphers items with the key in the slot (and, as
\* ItemsList shows, then sends the list on as it came).
Items(t) ==
  /\ call[t].pc = "items"
  /\ LET k == call[t].conn IN
       /\ returned' = [returned EXCEPT ![k] = AesKey(csock[k])]
       /\ stage' = [stage EXCEPT ![k] = "answered"]
  /\ call' = [call EXCEPT ![t] = NoCall]
  /\ UNCHANGED <<config, inRAM, request, csock, forwarded>>

\* message_handler closes csock: the number is free, the slot is as it was.
Close(k) ==
  /\ stage[k] = "answered"
  /\ stage' = [stage EXCEPT ![k] = "closed"]
  /\ UNCHANGED <<config, inRAM, request, csock, call, forwarded, returned>>

EnclaveNext ==
  \/ \E c \in Configs : EcallInit(c)
  \/ \E t \in Threads :
       \/ InitIvs(t) \/ EndIvs(t) \/ Field(t) \/ Items(t)
       \/ \E k \in Conns :
            AnswerCall(t, k) \/ \E f \in Slots, q \in Requests : RequestCall(t, k, f, q)
  \/ \E k \in Conns : Close(k)

EnclaveSpec == EnclaveInit /\ [][EnclaveNext]_enclaveVars

-----------------------------------------------------------------------------

\* The items of an answer to a query that brought a key (encrypt_json_field has
\* found the field) are enciphered with that key, not with an earlier owner's of
\* the number nor with one that another call has damaged.
OwnKey ==
  \A k \in Conns : returned[k] # None /\ KeepsKey(k) => returned[k].own = Key(k, k)

\* key is what a request on number f left in the slot, or nobody has left any.
LeftOn(f, key) ==
  \/ key = Key(Zero, Zero)
  \/ \E l \in Conns : stage[l] # "new" /\ csock[l] = f /\ key = Key(l, l)

\* Whatever was asked, items are enciphered with a key that a connection with
\* the same number brought, whole.  (Layer 2 enciphers the items of any answer,
\* Enclave.cpp:235-237: if the request brought no key, with what an earlier owner
\* of the number has left, or zeroes; but never with another number's.)
KeyOfNumber ==
  \A k \in Conns : returned[k] # None => LeftOn(csock[k], returned[k].own)

\* A user asking twice on the same number has the same pseudonym, whatever
\* other calls do to the slots meanwhile and whoever had the number before.
SamePseudonymOnSocket ==
  \A k, l \in Conns :
    /\ forwarded[k] # None /\ forwarded[l] # None
    /\ request[k] = request[l] /\ csock[k] = csock[l]
    => forwarded[k] = forwarded[l]

\* README.md:17: pseudonymisation "does not impact recommendations accuracy",
\* so what is known of a user must add up under one pseudonym.
SamePseudonym ==
  \A k, l \in Conns :
    /\ forwarded[k] # None /\ forwarded[l] # None /\ request[k] = request[l]
    => forwarded[k] = forwarded[l]

-----------------------------------------------------------------------------
(***************************************************************************)
(* The inductive invariant of Enclave_proofs.  It needs that no two client *)
(* descriptors have consecutive numbers, which poll_handler does not see   *)
(* to: enclave_neighbours shows what happens if two do.                    *)
(***************************************************************************)

Spaced == \A f \in Slots : f + 1 \notin Slots

Open(k) == stage[k] \notin {"new", "closed"}
Forwarding(k) == stage[k] \in {"asked", "answer", "answered", "closed"}

\* A number has one open connection.
SoleOwner ==
  \A k, l \in Conns :
    /\ stage[k] # "new" => csock[k] \in Slots
    /\ Open(k) /\ Open(l) /\ csock[k] = csock[l] => k = l

\* Every stage comes with what was learnt before it; nothing comes before
\* ecall_init.
Staged ==
  \A k \in Conns :
    /\ stage[k] # "new" => config # None /\ request[k] \in Requests
    /\ stage[k] = "request" => Encrypting
    /\ forwarded[k] # None => Forwarding(k)
    /\ returned[k] # None => stage[k] \in {"answered", "closed"}

\* A call executes the stage its connection is in, and no other call does.
Calling ==
  \A t \in Threads :
    /\ call[t].pc \in {"iv", "nul", "field"} =>
         call[t].conn \in Conns /\ stage[call[t].conn] = "request"
    /\ call[t].pc = "items" =>
         /\ call[t].conn \in Conns /\ stage[call[t].conn] = "answer"
         /\ Encrypting
    /\ \A u \in Threads :
         /\ call[t].pc # "free" /\ call[u].pc # "free"
         /\ call[t].conn = call[u].conn
         => t = u

\* A request's IV is in the slot when it is used.
IvReady ==
  \A t \in Threads :
    call[t].pc \in {"nul", "field"} =>
      inRAM[csock[call[t].conn]].iv = csock[call[t].conn]

\* What follows a slot stays zero.
ZeroBetween == \A f \in Slots : inRAM[f + 1].key = Key(Zero, Zero)

\* A query's key is in its slot until the answer is encrypted.
KeyKept ==
  \A k \in Conns :
    stage[k] \in {"asked", "answer"} /\ Encrypting /\ KeepsKey(k) =>
      inRAM[csock[k]].key = Key(k, k)

\* A slot's key is what a connection with that number has left.
LeftBehind == \A f \in Slots : LeftOn(f, inRAM[f].key)

\* What was forwarded depends on configuration, request and number alone.
ByNumber ==
  \A k \in Conns :
    Forwarding(k) =>
      forwarded[k] =
        IF ~Encrypting THEN Raw
        ELSE SentOn(k, [form |-> "pseudonym", of |-> request[k].id,
                        iv |-> [own |-> csock[k], next |-> Key(Zero, Zero)]])

\* Inductive by itself.
Structure == EnclaveType /\ SoleOwner /\ Staged /\ Calling /\ IvReady

\* Inductive if Spaced; implies SamePseudonymOnSocket.
EnclaveInv ==
  Structure /\ ZeroBetween /\ KeyKept /\ LeftBehind /\ ByNumber /\ OwnKey /\ KeyOfNumber
=============================================================================
