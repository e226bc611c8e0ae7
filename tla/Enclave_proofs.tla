--------------------------- MODULE Enclave_proofs ---------------------------
(***************************************************************************)
(* Proofs about Enclave: what a call finds in inRAM is what the request of *)
(* its connection left there, provided client descriptors are not adjacent.*)
(***************************************************************************)
EXTENDS Enclave, TLAPS

\* The initial state has the invariant.
LEMMA InitInv == EnclaveInit => EnclaveInv
BY EnclaveAssumption, SMTT(30)
   DEF EnclaveInit, EnclaveInv, Structure, EnclaveType, SoleOwner, Staged, Calling,
       IvReady, ZeroBetween, KeyKept, LeftBehind, LeftOn, ByNumber, OwnKey, KeyOfNumber,
       NoCall, Open, Forwarding, Cells, Slot, Keys, Key, Ivs

\* The end of a slot is a cell, as init_ivs and AES-256 take it to be.
LEMMA CellsAfter == ASSUME NEW f \in Slots PROVE f \in Cells /\ f + 1 \in Cells
BY DEF Cells

\* A call in progress is about an open connection with a number.
LEMMA CallOwner ==
  ASSUME Structure, NEW t \in Threads, call[t].pc # "free"
  PROVE  /\ call[t].conn \in Conns
         /\ call[t].pc = "items" => stage[call[t].conn] = "answer"
         /\ call[t].pc # "items" => stage[call[t].conn] = "request"
         /\ Open(call[t].conn)
         /\ csock[call[t].conn] \in Slots
BY DEF Structure, EnclaveType, Calling, SoleOwner, Open

\* What encrypt_json_field sends on has the type of a sent id.
LEMMA RewrittenType ==
  ASSUME Structure, NEW k \in Conns, stage[k] = "request"
  PROVE  Rewritten(k) \in SentIds
<1>1. csock[k] \in Slots
  BY DEF Structure, SoleOwner
<1>2. request[k].id # None => Pseudonym(request[k].id, csock[k]) \in SentIds
  <2>1. inRAM[csock[k]] \in Slot /\ inRAM[csock[k] + 1] \in Slot
    BY <1>1, CellsAfter DEF Structure, EnclaveType
  <2>2. AesIv(csock[k]) \in [own : Ivs, next : Keys]
    BY <2>1 DEF AesIv, Slot
  <2>3. request[k].id # None => request[k].id \in Ids
    BY DEF Structure, Staged, Requests
  <2> QED
    BY <2>2, <2>3 DEF Pseudonym, SentIds
<1>3. request[k].id # None => Clear(request[k].id) \in SentIds
  BY DEF Structure, Staged, Requests, SentIds
<1>4. Raw \in SentIds /\ Blank \in SentIds
  BY DEF SentIds
<1> QED
  BY <1>2, <1>3, <1>4 DEF Rewritten, SentOn

\* ecall_init happens before any connection.
LEMMA EcallInitStep ==
  ASSUME Structure, NEW c \in Configs, EcallInit(c)
  PROVE  Structure' /\ \A k \in Conns : stage[k] = "new"
<1>1. \A k \in Conns : stage[k] = "new"
  BY DEF EcallInit, Structure, Staged
<1>2. \A t \in Threads : call[t].pc = "free"
  BY <1>1 DEF Structure, EnclaveType, Calling
<1>3. EnclaveType'
  BY DEF Structure, EnclaveType, EcallInit
<1>4. SoleOwner' /\ Staged' /\ Calling' /\ IvReady'
  BY <1>1, <1>2 DEF EcallInit, Structure, EnclaveType, SoleOwner, Staged, Calling, IvReady,
                    Open, Forwarding
<1> QED
  BY <1>1, <1>3, <1>4 DEF Structure

\* A request's call brings a connection its number, which nobody else holds.
LEMMA RequestStep ==
  ASSUME Structure, NEW t \in Threads, NEW k \in Conns, NEW f \in Slots,
         NEW q \in Requests, RequestCall(t, k, f, q)
  PROVE  Structure'
<1>0. \A u \in Threads : call[u].pc # "free" => call[u].conn \in Conns /\ call[u].conn # k
  BY CallOwner DEF RequestCall, Open
<1>1. EnclaveType'
  <2>1. Raw \in SentIds
    BY DEF SentIds
  <2> QED
    BY <2>1 DEF Structure, EnclaveType, RequestCall, Ivs
<1>2. SoleOwner'
  BY DEF Structure, EnclaveType, SoleOwner, RequestCall, Held, Open
<1>3. Staged'
  BY DEF Structure, EnclaveType, Staged, RequestCall, Encrypting, Forwarding, Raw
<1>4. Calling'
  BY <1>0 DEF Structure, EnclaveType, Calling, RequestCall, Encrypting, KeepsKey
<1>5. IvReady'
  BY <1>0 DEF Structure, EnclaveType, IvReady, RequestCall
<1> QED
  BY <1>1, <1>2, <1>3, <1>4, <1>5 DEF Structure

\* What the steps of init_ivs leave in each cell.
LEMMA IvCells ==
  ASSUME Structure, NEW t \in Threads, InitIvs(t) \/ EndIvs(t)
  PROVE  /\ inRAM' \in [Cells -> Slot]
         /\ \A g \in Cells :
              /\ inRAM'[g].iv =
                   IF InitIvs(t) /\ g = csock[call[t].conn] THEN g ELSE inRAM[g].iv
              /\ inRAM'[g].key =
                   IF EndIvs(t) /\ g = csock[call[t].conn] + 1
                     THEN Key(Zero, inRAM[g].key.body) ELSE inRAM[g].key
<1> DEFINE f == csock[call[t].conn]
<1>1. f \in Slots
  BY CallOwner DEF InitIvs, EndIvs
<1>2. f \in Cells /\ f + 1 \in Cells
  BY <1>1, CellsAfter
<1>3. inRAM \in [Cells -> Slot]
  BY DEF Structure, EnclaveType
<1>4. CASE InitIvs(t)
  <2>1. ~EndIvs(t)
    BY <1>4 DEF InitIvs, EndIvs
  <2>2. inRAM' = [inRAM EXCEPT ![f].iv = f] /\ f \in Ivs
    BY <1>1, <1>4 DEF InitIvs, Ivs
  <2> HIDE DEF f
  <2>3. \A g \in Cells :
          inRAM'[g] = IF g = f THEN [inRAM[g] EXCEPT !.iv = f] ELSE inRAM[g]
    BY <1>2, <1>3, <2>2
  <2>4. inRAM' \in [Cells -> Slot]
    BY <1>2, <1>3, <2>2 DEF Slot
  <2>5. \A g \in Cells : /\ inRAM'[g].iv = IF g = f THEN g ELSE inRAM[g].iv
                         /\ inRAM'[g].key = inRAM[g].key
    BY <1>3, <2>3 DEF Slot
  <2> QED
    BY <1>4, <2>1, <2>4, <2>5 DEF f
<1>5. CASE EndIvs(t)
  <2>1. ~InitIvs(t)
    BY <1>5 DEF InitIvs, EndIvs
  <2>2. inRAM' = [inRAM EXCEPT ![f + 1].key = Key(Zero, @.body)]
    BY <1>5 DEF EndIvs
  <2> HIDE DEF f
  <2>3. \A g \in Cells :
          inRAM'[g] = IF g = f + 1 THEN [inRAM[g] EXCEPT !.key = Key(Zero, inRAM[g].key.body)]
                      ELSE inRAM[g]
    BY <1>2, <1>3, <2>2
  <2>4. \A g \in Cells : Key(Zero, inRAM[g].key.body) \in Keys
    BY <1>3 DEF Slot, Keys, Key
  <2>5. \A g \in Cells : inRAM'[g] \in Slot
    BY <1>3, <2>3, <2>4 DEF Slot
  <2>6. inRAM' \in [Cells -> Slot]
    BY <1>3, <2>2, <2>5
  <2>7. \A g \in Cells :
          /\ inRAM'[g].iv = inRAM[g].iv
          /\ inRAM'[g].key = IF g = f + 1 THEN Key(Zero, inRAM[g].key.body) ELSE inRAM[g].key
    BY <1>3, <2>3 DEF Slot
  <2> QED
    BY <1>5, <2>1, <2>6, <2>7 DEF f
<1> QED
  BY <1>4, <1>5

\* The two steps of init_ivs stay in the slot's iv and the next slot's key.
LEMMA InitIvsStep ==
  ASSUME Structure, NEW t \in Threads, InitIvs(t) \/ EndIvs(t)
  PROVE  Structure'
<1>0. /\ call[t].pc # "free" /\ call[t].conn \in Conns
      /\ stage[call[t].conn] = "request" /\ csock[call[t].conn] \in Slots
  BY CallOwner DEF InitIvs, EndIvs
<1>1. EnclaveType'
  <2>2. inRAM' \in [Cells -> Slot]
    BY IvCells
  <2>3. call' \in [Threads -> [conn : Conns \cup {None},
                             pc : {"free", "iv", "nul", "field", "items"}]]
    BY DEF InitIvs, EndIvs, Structure, EnclaveType
  <2> QED
    BY <2>2, <2>3 DEF InitIvs, EndIvs, Structure, EnclaveType
<1>2. SoleOwner' /\ Staged'
  BY DEF InitIvs, EndIvs, Structure, SoleOwner, Staged, Open, Forwarding, Encrypting
<1>3. Calling'
  BY <1>0 DEF InitIvs, EndIvs, Structure, EnclaveType, Calling, Encrypting, KeepsKey
<1>4. IvReady'
  <2> SUFFICES ASSUME NEW u \in Threads, call'[u].pc \in {"nul", "field"}
               PROVE  inRAM'[csock[call'[u].conn]].iv = csock[call'[u].conn]
    BY DEF IvReady, InitIvs, EndIvs
  <2>1. call'[u].conn = call[u].conn /\ call[u].pc # "free"
    BY <1>0 DEF InitIvs, EndIvs, Structure, EnclaveType
  <2>2. csock[call[u].conn] \in Slots
    BY <2>1, CallOwner
  <2>3. csock[call[u].conn] \in Cells
    BY <2>2, CellsAfter
  <2>4. CASE u = t /\ InitIvs(t)
    BY <2>1, <2>3, <2>4, IvCells
  <2>5. CASE ~(u = t /\ InitIvs(t))
    <3>1. inRAM[csock[call[u].conn]].iv = csock[call[u].conn]
      BY <2>5 DEF InitIvs, EndIvs, Structure, EnclaveType, IvReady
    <3> QED
      BY <2>1, <2>3, <3>1, IvCells DEF InitIvs, EndIvs
  <2> QED
    BY <2>4, <2>5
<1> QED
  BY <1>1, <1>2, <1>3, <1>4 DEF Structure

\* What encrypt_json_field leaves in each cell.
LEMMA FieldCells ==
  ASSUME Structure, NEW t \in Threads, Field(t)
  PROVE  /\ inRAM' \in [Cells -> Slot]
         /\ \A g \in Cells :
              /\ inRAM'[g].iv = inRAM[g].iv
              /\ inRAM'[g].key =
                   IF KeepsKey(call[t].conn) /\ g = csock[call[t].conn]
                     THEN Key(call[t].conn, call[t].conn) ELSE inRAM[g].key
<1> DEFINE k == call[t].conn
           f == csock[k]
<1>1. k \in Conns /\ f \in Slots
  BY CallOwner DEF Field
<1>2. f \in Cells
  BY <1>1, CellsAfter
<1>3. inRAM \in [Cells -> Slot]
  BY DEF Structure, EnclaveType
<1>4. inRAM' = IF KeepsKey(k) THEN [inRAM EXCEPT ![f].key = Key(k, k)] ELSE inRAM
  BY DEF Field
<1>5. Key(k, k) \in Keys
  BY <1>1 DEF Keys, Key
<1> HIDE DEF k, f
<1>6. CASE KeepsKey(k)
  <2>1. inRAM' = [inRAM EXCEPT ![f].key = Key(k, k)]
    BY <1>4, <1>6
  <2>2. \A g \in Cells :
          inRAM'[g] = IF g = f THEN [inRAM[g] EXCEPT !.key = Key(k, k)] ELSE inRAM[g]
    BY <1>2, <1>3, <2>1
  <2>3. inRAM' \in [Cells -> Slot]
    BY <1>2, <1>3, <1>5, <2>1 DEF Slot
  <2>4. \A g \in Cells : /\ inRAM'[g].iv = inRAM[g].iv
                         /\ inRAM'[g].key = IF g = f THEN Key(k, k) ELSE inRAM[g].key
    BY <1>3, <2>2 DEF Slot
  <2> QED
    BY <1>6, <2>3, <2>4 DEF k, f
<1>7. CASE ~KeepsKey(k)
  BY <1>3, <1>4, <1>7 DEF k, f
<1> QED
  BY <1>6, <1>7

\* After a request's call its connection has been asked about upstream.
LEMMA FieldStep ==
  ASSUME Structure, NEW t \in Threads, Field(t)
  PROVE  Structure'
<1> DEFINE k == call[t].conn
<1>0. /\ k \in Conns /\ stage[k] = "request" /\ call[t].pc = "field"
      /\ \A u \in Threads : u # t /\ call[u].pc # "free" => call[u].conn # k
  BY CallOwner DEF Field, Structure, Calling
<1>1. /\ stage' = [stage EXCEPT ![k] = "asked"] /\ call' = [call EXCEPT ![t] = NoCall]
      /\ forwarded' = [forwarded EXCEPT ![k] = Rewritten(k)]
      /\ UNCHANGED <<config, request, csock, returned>>
  BY DEF Field
<1>2. Rewritten(k) \in SentIds /\ inRAM' \in [Cells -> Slot]
  BY <1>0, RewrittenType, FieldCells
<1> HIDE DEF k
<1>3. EnclaveType'
  BY <1>0, <1>1, <1>2 DEF Structure, EnclaveType, NoCall
<1>4. SoleOwner'
  BY <1>0, <1>1 DEF Structure, EnclaveType, SoleOwner, Open
<1>5. Staged'
  BY <1>0, <1>1 DEF Structure, EnclaveType, Staged, Forwarding, Encrypting
<1>6. Calling'
  BY <1>0, <1>1 DEF Structure, EnclaveType, Calling, NoCall, Encrypting, KeepsKey
<1>7. IvReady'
  <2> SUFFICES ASSUME NEW u \in Threads, call'[u].pc \in {"nul", "field"}
               PROVE  inRAM'[csock[call'[u].conn]].iv = csock[call'[u].conn]
    BY <1>1 DEF IvReady
  <2>1. call'[u] = call[u]
    BY <1>0, <1>1 DEF Structure, EnclaveType, NoCall
  <2>2. csock[call[u].conn] \in Cells
    BY <2>1, CallOwner, CellsAfter
  <2> QED
    BY <2>1, <2>2, FieldCells DEF Structure, IvReady
<1> QED
  BY <1>3, <1>4, <1>5, <1>6, <1>7 DEF Structure

\* An answer's call, its end and the close of a connection leave inRAM alone.
LEMMA AnswerStep ==
  ASSUME Structure, NEW t \in Threads, NEW k \in Conns, AnswerCall(t, k)
  PROVE  Structure'
<1>0. \A u \in Threads : call[u].pc # "free" => call[u].conn \in Conns /\ call[u].conn # k
  BY CallOwner DEF AnswerCall
<1>1. EnclaveType'
  <2>1. stage' \in [Conns -> {"new", "request", "asked", "answer", "answered", "closed"}]
    BY DEF Structure, EnclaveType, AnswerCall
  <2>2. call' \in [Threads -> [conn : Conns \cup {None},
                             pc : {"free", "iv", "nul", "field", "items"}]]
    BY DEF Structure, EnclaveType, AnswerCall
  <2> QED
    BY <2>1, <2>2 DEF Structure, EnclaveType, AnswerCall
<1>2. SoleOwner' /\ Staged'
  <2>1. /\ stage[k] = "asked"
        /\ stage' = [stage EXCEPT ![k] = "answer"] \/ stage' = [stage EXCEPT ![k] = "answered"]
        /\ UNCHANGED <<config, request, csock, forwarded, returned>>
    BY DEF AnswerCall
  <2>2. SoleOwner'
    BY <2>1 DEF Structure, EnclaveType, SoleOwner, Open
  <2>3. Staged'
    BY <2>1 DEF Structure, EnclaveType, Staged, Forwarding, Encrypting
  <2> QED
    BY <2>2, <2>3
<1>3. Calling'
  BY <1>0 DEF Structure, EnclaveType, Calling, AnswerCall, Encrypting, KeepsKey
<1>4. IvReady'
  BY <1>0 DEF Structure, EnclaveType, IvReady, AnswerCall
<1> QED
  BY <1>1, <1>2, <1>3, <1>4 DEF Structure

\* See AnswerStep.
LEMMA ItemsStep ==
  ASSUME Structure, NEW t \in Threads, Items(t)
  PROVE  Structure'
<1> DEFINE k == call[t].conn
<1>0. /\ k \in Conns /\ stage[k] = "answer" /\ call[t].pc = "items" /\ csock[k] \in Slots
      /\ \A u \in Threads : u # t /\ call[u].pc # "free" => call[u].conn # k
  BY CallOwner DEF Items, Structure, Calling
<1>1. /\ stage' = [stage EXCEPT ![k] = "answered"] /\ call' = [call EXCEPT ![t] = NoCall]
      /\ returned' = [returned EXCEPT ![k] = AesKey(csock[k])]
      /\ UNCHANGED <<config, inRAM, request, csock, forwarded>>
  BY DEF Items
<1> HIDE DEF k
<1>2. AesKey(csock[k]) \in AesKeys
  <2>1. inRAM[csock[k]] \in Slot /\ inRAM[csock[k] + 1] \in Slot
    BY <1>0, CellsAfter DEF Structure, EnclaveType
  <2> QED
    BY <2>1 DEF AesKey, AesKeys, Slot
<1>3. EnclaveType'
  BY <1>0, <1>1, <1>2 DEF Structure, EnclaveType, NoCall
<1>4. SoleOwner' /\ Staged'
  BY <1>0, <1>1 DEF Structure, EnclaveType, SoleOwner, Staged, Open, Forwarding, Encrypting
<1>5. Calling'
  BY <1>0, <1>1 DEF Structure, EnclaveType, Calling, NoCall, Encrypting, KeepsKey
<1>6. IvReady'
  BY <1>0, <1>1 DEF Structure, EnclaveType, IvReady, NoCall
<1> QED
  BY <1>3, <1>4, <1>5, <1>6 DEF Structure

\* See AnswerStep.
LEMMA CloseStep ==
  ASSUME Structure, NEW k \in Conns, Close(k)
  PROVE  Structure'
<1>0. \A u \in Threads : call[u].pc # "free" => call[u].conn \in Conns /\ call[u].conn # k
  BY CallOwner DEF Close
<1>1. EnclaveType'
  BY DEF Structure, EnclaveType, Close
<1>2. SoleOwner' /\ Staged'
  BY DEF Structure, EnclaveType, SoleOwner, Staged, Close, Open, Forwarding, Encrypting
<1>3. Calling' /\ IvReady'
  BY <1>0 DEF Structure, EnclaveType, Calling, IvReady, Close, Encrypting, KeepsKey
<1> QED
  BY <1>1, <1>2, <1>3 DEF Structure

\* Structure is inductive.
LEMMA StructureStep == Structure /\ [EnclaveNext]_enclaveVars => Structure'
<1> SUFFICES ASSUME Structure, [EnclaveNext]_enclaveVars PROVE Structure'
  OBVIOUS
<1>1. CASE UNCHANGED enclaveVars
  BY <1>1 DEF enclaveVars, Structure, EnclaveType, SoleOwner, Staged, Calling, IvReady,
              Open, Forwarding, Encrypting, KeepsKey
<1>2. ASSUME NEW c \in Configs, EcallInit(c) PROVE Structure'
  BY <1>2, EcallInitStep
<1>3. ASSUME NEW t \in Threads, InitIvs(t) \/ EndIvs(t) PROVE Structure'
  BY <1>3, InitIvsStep
<1>4. ASSUME NEW t \in Threads, Field(t) PROVE Structure'
  BY <1>4, FieldStep
<1>5. ASSUME NEW t \in Threads, Items(t) PROVE Structure'
  BY <1>5, ItemsStep
<1>6. ASSUME NEW t \in Threads, NEW k \in Conns, AnswerCall(t, k) PROVE Structure'
  BY <1>6, AnswerStep
<1>7. ASSUME NEW t \in Threads, NEW k \in Conns, NEW f \in Slots, NEW q \in Requests,
             RequestCall(t, k, f, q)
      PROVE  Structure'
  BY <1>7, RequestStep
<1>8. ASSUME NEW k \in Conns, Close(k) PROVE Structure'
  BY <1>8, CloseStep
<1> QED
  BY <1>1, <1>2, <1>3, <1>4, <1>5, <1>6, <1>7, <1>8 DEF EnclaveNext

-----------------------------------------------------------------------------
(* What the slots hold, if client descriptors are not adjacent. *)

\* The step of a request that is not encrypted, or has not yet been.
LEMMA RequestData ==
  ASSUME EnclaveInv, NEW t \in Threads, NEW k \in Conns, NEW f \in Slots,
         NEW q \in Requests, RequestCall(t, k, f, q)
  PROVE  (ZeroBetween /\ KeyKept /\ ByNumber /\ OwnKey)'
<1>1. ZeroBetween' /\ OwnKey'
  BY DEF EnclaveInv, Structure, EnclaveType, Staged, ZeroBetween, OwnKey, KeepsKey, RequestCall
<1>2. KeyKept'
  BY DEF EnclaveInv, Structure, EnclaveType, KeyKept, RequestCall, Encrypting, KeepsKey
<1>3. ByNumber'
  BY DEF EnclaveInv, Structure, EnclaveType, ByNumber, RequestCall, Encrypting, KeepsKey,
         Forwarding, SentOn
<1> QED
  BY <1>1, <1>2, <1>3

\* init_ivs writes past its slot, but there is no connection's slot there.
LEMMA InitIvsData ==
  ASSUME Spaced, EnclaveInv, NEW t \in Threads, InitIvs(t) \/ EndIvs(t)
  PROVE  (ZeroBetween /\ KeyKept /\ ByNumber /\ OwnKey)'
<1> DEFINE f == csock[call[t].conn]
<1>0. Structure
  BY DEF EnclaveInv
<1>1. f \in Slots
  BY <1>0, CallOwner DEF InitIvs, EndIvs
<1>2. \A g \in Cells : inRAM'[g].key = IF EndIvs(t) /\ g = f + 1
                                       THEN Key(Zero, inRAM[g].key.body) ELSE inRAM[g].key
  BY <1>0, IvCells
<1>3. UNCHANGED <<config, stage, request, csock, forwarded, returned>>
  BY DEF InitIvs, EndIvs
<1> HIDE DEF f
<1>4. ZeroBetween'
  BY <1>2, CellsAfter DEF EnclaveInv, ZeroBetween, Key
<1>5. KeyKept'
  <2> SUFFICES ASSUME NEW k \in Conns, stage[k] \in {"asked", "answer"}, Encrypting, KeepsKey(k)
               PROVE  inRAM'[csock[k]].key = Key(k, k)
    BY <1>3 DEF KeyKept, Encrypting, KeepsKey
  <2>1. csock[k] \in Slots /\ csock[k] \in Cells
    BY <1>0, CellsAfter DEF Structure, SoleOwner
  <2>2. csock[k] # f + 1
    BY <1>1, <2>1 DEF Spaced
  <2> QED
    BY <1>2, <2>1, <2>2 DEF EnclaveInv, KeyKept
<1>6. ByNumber' /\ OwnKey'
  BY <1>3 DEF EnclaveInv, ByNumber, OwnKey, Forwarding, Encrypting, SentOn, KeepsKey
<1> QED
  BY <1>4, <1>5, <1>6

\* encrypt_json_field finds its IV and zeroes, and writes its own slot's key.
LEMMA FieldData ==
  ASSUME Spaced, EnclaveInv, NEW t \in Threads, Field(t)
  PROVE  (ZeroBetween /\ KeyKept /\ ByNumber /\ OwnKey)'
<1> DEFINE k == call[t].conn
           f == csock[k]
<1>0. Structure
  BY DEF EnclaveInv
<1>1. k \in Conns /\ stage[k] = "request" /\ Open(k) /\ f \in Slots
  BY <1>0, CallOwner DEF Field
<1>2. \A g \in Cells : inRAM'[g].key = IF KeepsKey(k) /\ g = f THEN Key(k, k) ELSE inRAM[g].key
  BY <1>0, FieldCells
<1>3. /\ stage' = [stage EXCEPT ![k] = "asked"]
      /\ forwarded' = [forwarded EXCEPT ![k] = Rewritten(k)]
      /\ UNCHANGED <<config, request, csock, returned>>
  BY DEF Field
<1>4. inRAM[f].iv = f
  BY <1>0 DEF Structure, IvReady, Field
<1>5. Encrypting
  BY <1>0, <1>1 DEF Structure, Staged
<1>6. stage \in [Conns -> {"new", "request", "asked", "answer", "answered", "closed"}]
      /\ forwarded \in [Conns -> SentIds \cup {None}]
  BY <1>0 DEF Structure, EnclaveType
<1>7. Rewritten(k) = SentOn(k, [form |-> "pseudonym", of |-> request[k].id,
                               iv |-> [own |-> f, next |-> Key(Zero, Zero)]])
  BY <1>1, <1>4 DEF Rewritten, Pseudonym, AesIv, EnclaveInv, ZeroBetween
<1> HIDE DEF k
<1>8. ZeroBetween'
  <2> SUFFICES ASSUME NEW g \in Slots PROVE inRAM'[g + 1].key = Key(Zero, Zero)
    BY DEF ZeroBetween
  <2>1. g + 1 # f
    BY <1>1 DEF Spaced
  <2> QED
    BY <1>2, <2>1, CellsAfter DEF EnclaveInv, ZeroBetween
<1>9. KeyKept'
  <2> SUFFICES ASSUME NEW l \in Conns, stage'[l] \in {"asked", "answer"}, KeepsKey(l)
               PROVE  inRAM'[csock[l]].key = Key(l, l)
    BY <1>3 DEF KeyKept, KeepsKey
  <2>1. f \in Cells
    BY <1>1, CellsAfter
  <2>2. CASE l = k
    BY <1>2, <2>1, <2>2
  <2>3. CASE l # k
    <3>1. stage[l] \in {"asked", "answer"}
      BY <1>3, <1>6, <2>3
    <3>2. csock[l] \in Slots /\ csock[l] \in Cells
      BY <1>0, <3>1, CellsAfter DEF Structure, SoleOwner
    <3>3. csock[l] # f
      BY <1>0, <1>1, <2>3, <3>1 DEF Structure, SoleOwner, Open
    <3> QED
      BY <1>2, <1>5, <3>1, <3>2, <3>3 DEF EnclaveInv, KeyKept
  <2> QED
    BY <2>2, <2>3
<1>10. ByNumber'
  <2> SUFFICES ASSUME NEW l \in Conns, Forwarding(l)'
               PROVE  forwarded'[l] =
                        SentOn(l, [form |-> "pseudonym", of |-> request[l].id,
                                   iv |-> [own |-> csock[l], next |-> Key(Zero, Zero)]])
    BY <1>3, <1>5 DEF ByNumber, Encrypting, SentOn, KeepsKey
  <2>1. CASE l = k
    BY <1>3, <1>6, <1>7, <2>1
  <2>2. CASE l # k
    <3>1. Forwarding(l) /\ forwarded'[l] = forwarded[l]
      BY <1>3, <1>6, <2>2 DEF Forwarding
    <3> QED
      BY <1>5, <3>1 DEF EnclaveInv, ByNumber
  <2> QED
    BY <2>1, <2>2
<1>11. OwnKey'
  BY <1>3 DEF EnclaveInv, OwnKey, KeepsKey
<1> QED
  BY <1>8, <1>9, <1>10, <1>11

\* encrypt_items_list finds the key its connection's request has left.
LEMMA ItemsData ==
  ASSUME EnclaveInv, NEW t \in Threads, Items(t)
  PROVE  (ZeroBetween /\ KeyKept /\ ByNumber /\ OwnKey)'
<1> DEFINE k == call[t].conn
<1>0. Structure
  BY DEF EnclaveInv
<1>1. k \in Conns /\ stage[k] = "answer" /\ Encrypting
  BY <1>0, CallOwner DEF Items, Structure, Calling
<1>2. /\ stage' = [stage EXCEPT ![k] = "answered"]
      /\ returned' = [returned EXCEPT ![k] = AesKey(csock[k])]
      /\ UNCHANGED <<config, inRAM, request, csock, forwarded>>
  BY DEF Items
<1>3. KeepsKey(k) => AesKey(csock[k]).own = Key(k, k)
  BY <1>1 DEF AesKey, EnclaveInv, KeyKept
<1>4. stage \in [Conns -> {"new", "request", "asked", "answer", "answered", "closed"}]
      /\ returned \in [Conns -> AesKeys \cup {None}]
  BY <1>0 DEF Structure, EnclaveType
<1> HIDE DEF k
<1>5. OwnKey'
  BY <1>1, <1>2, <1>3, <1>4 DEF EnclaveInv, OwnKey, KeepsKey
<1>6. ZeroBetween' /\ KeyKept'
  BY <1>1, <1>2, <1>4 DEF EnclaveInv, ZeroBetween, KeyKept, Encrypting, KeepsKey
<1>7. ByNumber'
  BY <1>1, <1>2, <1>4 DEF EnclaveInv, ByNumber, Forwarding, Encrypting, SentOn, KeepsKey
<1> QED
  BY <1>5, <1>6, <1>7

\* An answer's call and the close of a connection touch no slot.
LEMMA AnswerData ==
  ASSUME EnclaveInv, NEW k \in Conns, Close(k) \/ \E t \in Threads : AnswerCall(t, k)
  PROVE  (ZeroBetween /\ KeyKept /\ ByNumber /\ OwnKey)'
<1>1. ZeroBetween' /\ OwnKey'
  BY DEF EnclaveInv, ZeroBetween, OwnKey, KeepsKey, Close, AnswerCall
<1>2. KeyKept'
  BY DEF EnclaveInv, Structure, EnclaveType, KeyKept, Close, AnswerCall, Encrypting, KeepsKey
<1>3. ByNumber'
  BY DEF EnclaveInv, Structure, EnclaveType, ByNumber, Close, AnswerCall, Forwarding,
         Encrypting, SentOn, KeepsKey
<1> QED
  BY <1>1, <1>2, <1>3

\* LeftOn in the next state.
LeftAfter(f, key) ==
  \/ key = Key(Zero, Zero)
  \/ \E l \in Conns : stage'[l] # "new" /\ csock'[l] = f /\ key = Key(l, l)

\* What a slot holds or items were enciphered with stays what a connection with
\* that number has left.
LEMMA LeftStays ==
  ASSUME \A l \in Conns : stage[l] # "new" => stage'[l] # "new" /\ csock'[l] = csock[l]
  PROVE  \A f, key : LeftOn(f, key) => LeftAfter(f, key)
BY DEF LeftOn, LeftAfter

\* Only RequestCall gives out a number, to a connection that is new.
LEMMA OwnersStay ==
  ASSUME Structure, [EnclaveNext]_enclaveVars
  PROVE  \A l \in Conns : stage[l] # "new" => stage'[l] # "new" /\ csock'[l] = csock[l]
<1>1. CASE UNCHANGED enclaveVars
  BY <1>1 DEF enclaveVars
<1>2. ASSUME NEW c \in Configs, EcallInit(c) PROVE UNCHANGED <<stage, csock>>
  BY <1>2 DEF EcallInit
<1>3. ASSUME NEW t \in Threads, InitIvs(t) \/ EndIvs(t) PROVE UNCHANGED <<stage, csock>>
  BY <1>3 DEF InitIvs, EndIvs
<1>4. ASSUME NEW t \in Threads, Field(t) \/ Items(t) \/ \E k \in Conns : AnswerCall(t, k)
      PROVE  /\ csock' = csock
             /\ \E k, v : v # "new" /\ stage' = [stage EXCEPT ![k] = v]
  BY <1>4 DEF Field, Items, AnswerCall
<1>5. ASSUME NEW k \in Conns, Close(k)
      PROVE  csock' = csock /\ stage' = [stage EXCEPT ![k] = "closed"]
  BY <1>5 DEF Close
<1>6. ASSUME NEW t \in Threads, NEW k \in Conns, NEW f \in Slots, NEW q \in Requests,
             RequestCall(t, k, f, q)
      PROVE  /\ stage[k] = "new" /\ csock' = [csock EXCEPT ![k] = f]
             /\ \E v : v # "new" /\ stage' = [stage EXCEPT ![k] = v]
  BY <1>6 DEF RequestCall
<1>7. csock \in [Conns -> Ivs] /\ DOMAIN stage = Conns
  BY DEF Structure, EnclaveType
<1> QED
  BY <1>1, <1>2, <1>3, <1>4, <1>5, <1>6, <1>7 DEF EnclaveNext

\* No step puts into a slot a key that is not its connection's, and no answer
\* is enciphered with anything but its slot's.
LEMMA LeftStep ==
  ASSUME Spaced, EnclaveInv, [EnclaveNext]_enclaveVars
  PROVE  LeftBehind' /\ KeyOfNumber'
<1>0. Structure
  BY DEF EnclaveInv
<1>1. \A f, key : LeftOn(f, key) => LeftAfter(f, key)
  BY <1>0, OwnersStay, LeftStays
<1>2. \A g \in Slots : inRAM'[g].key = inRAM[g].key \/ LeftAfter(g, inRAM'[g].key)
  <2>1. ASSUME NEW t \in Threads, InitIvs(t) \/ EndIvs(t), NEW g \in Slots
        PROVE  inRAM'[g].key = inRAM[g].key
    <3>1. csock[call[t].conn] \in Slots
      BY <1>0, <2>1, CallOwner DEF InitIvs, EndIvs
    <3>2. g # csock[call[t].conn] + 1
      BY <3>1 DEF Spaced
    <3> QED
      BY <1>0, <2>1, <3>2, CellsAfter, IvCells
  <2>2. ASSUME NEW t \in Threads, Field(t), NEW g \in Slots
        PROVE  inRAM'[g].key = inRAM[g].key \/ LeftAfter(g, inRAM'[g].key)
    <3> DEFINE k == call[t].conn
    <3>1. k \in Conns
      BY <1>0, <2>2, CallOwner DEF Field
    <3>2. stage'[k] # "new" /\ csock'[k] = csock[k]
      BY <1>0, <2>2, <3>1 DEF Field, Structure, EnclaveType
    <3>3. \/ inRAM'[g].key = inRAM[g].key
          \/ g = csock[k] /\ inRAM'[g].key = Key(k, k)
      BY <1>0, <2>2, CellsAfter, FieldCells
    <3> HIDE DEF k
    <3> QED
      BY <3>1, <3>2, <3>3 DEF LeftAfter
  <2>3. CASE UNCHANGED inRAM
    BY <2>3
  <2> QED
    BY <2>1, <2>2, <2>3
       DEF EnclaveNext, EcallInit, Items, AnswerCall, RequestCall, Close, enclaveVars
<1>3. LeftBehind'
  BY <1>1, <1>2 DEF EnclaveInv, LeftBehind, LeftOn, LeftAfter
<1>4. \A k \in Conns : returned'[k] # None =>
        \/ returned'[k] = returned[k] /\ stage[k] # "new"
        \/ returned'[k] = AesKey(csock[k]) /\ csock[k] \in Slots /\ stage[k] # "new"
  <2>1. ASSUME NEW t \in Threads, Items(t), NEW k \in Conns, returned'[k] # None
        PROVE  \/ returned'[k] = returned[k] /\ stage[k] # "new"
               \/ returned'[k] = AesKey(csock[k]) /\ csock[k] \in Slots /\ stage[k] # "new"
    BY <1>0, <2>1, CallOwner DEF Items, Structure, EnclaveType, Staged
  <2>2. CASE UNCHANGED returned
    BY <1>0, <2>2 DEF Structure, Staged
  <2> QED
    BY <2>1, <2>2 DEF EnclaveNext, EcallInit, InitIvs, EndIvs, Field, AnswerCall, RequestCall,
                      Close, enclaveVars
<1>5. ASSUME NEW k \in Conns, returned'[k] # None
      PROVE  LeftAfter(csock'[k], returned'[k].own)
  <2>1. csock'[k] = csock[k]
    BY <1>0, <1>4, <1>5, OwnersStay
  <2>2. LeftOn(csock[k], returned'[k].own)
    <3>1. CASE returned'[k] = returned[k]
      BY <1>5, <3>1 DEF EnclaveInv, KeyOfNumber
    <3>2. CASE returned'[k] = AesKey(csock[k]) /\ csock[k] \in Slots
      <4>1. returned'[k].own = inRAM[csock[k]].key
        BY <3>2 DEF AesKey
      <4> QED
        BY <3>2, <4>1 DEF EnclaveInv, LeftBehind
    <3> QED
      BY <1>4, <1>5, <3>1, <3>2
  <2> QED
    BY <1>1, <2>1, <2>2
<1>6. KeyOfNumber'
  BY <1>5 DEF KeyOfNumber, LeftOn, LeftAfter
<1> QED
  BY <1>3, <1>6

\* EnclaveInv is inductive if client descriptors are spaced.
LEMMA InvStep ==
  ASSUME Spaced, EnclaveInv, [EnclaveNext]_enclaveVars
  PROVE  EnclaveInv'
<1> DEFINE Data == ZeroBetween /\ KeyKept /\ ByNumber /\ OwnKey
<1>1. Structure' /\ LeftBehind' /\ KeyOfNumber'
  BY StructureStep, LeftStep DEF EnclaveInv
<1>2. CASE UNCHANGED enclaveVars
  <2>1. ZeroBetween' /\ KeyKept' /\ OwnKey'
    BY <1>2 DEF enclaveVars, EnclaveInv, ZeroBetween, KeyKept, OwnKey, Encrypting, KeepsKey
  <2>2. ByNumber'
    BY <1>2 DEF enclaveVars, EnclaveInv, ByNumber, Forwarding, Encrypting, SentOn, KeepsKey
  <2> QED
    BY <1>1, <2>1, <2>2 DEF EnclaveInv
<1>3. ASSUME NEW c \in Configs, EcallInit(c) PROVE Data'
  <2>1. \A k \in Conns : stage[k] = "new"
    BY <1>3, EcallInitStep DEF EnclaveInv
  <2> QED
    BY <1>3, <2>1 DEF EcallInit, EnclaveInv, Structure, Staged, ZeroBetween, KeyKept, ByNumber, OwnKey,
                      Forwarding
<1>4. ASSUME NEW t \in Threads, InitIvs(t) \/ EndIvs(t) PROVE Data'
  BY <1>4, InitIvsData
<1>5. ASSUME NEW t \in Threads, Field(t) PROVE Data'
  BY <1>5, FieldData
<1>6. ASSUME NEW t \in Threads, Items(t) PROVE Data'
  BY <1>6, ItemsData
<1>7. ASSUME NEW t \in Threads, NEW k \in Conns, AnswerCall(t, k) PROVE Data'
  BY <1>7, AnswerData
<1>8. ASSUME NEW t \in Threads, NEW k \in Conns, NEW f \in Slots, NEW q \in Requests,
             RequestCall(t, k, f, q)
      PROVE  Data'
  BY <1>8, RequestData
<1>9. ASSUME NEW k \in Conns, Close(k) PROVE Data'
  BY <1>9, AnswerData
<1>10. CASE EnclaveNext
  <2>1. Data'
    BY <1>3, <1>4, <1>5, <1>6, <1>7, <1>8, <1>9, <1>10 DEF EnclaveNext
  <2> QED
    BY <1>1, <2>1 DEF EnclaveInv
<1> QED
  BY <1>2, <1>10

-----------------------------------------------------------------------------

\* Every call is about a connection of its own and finds that connection's IV,
\* whatever numbers clients get: the parts of ecall_proxy that adjacent
\* descriptors do not disturb.
THEOREM CallsApart == EnclaveSpec => [](EnclaveType /\ Structure)
<1>1. EnclaveInit => Structure
  BY InitInv DEF EnclaveInv
<1>2. Structure => EnclaveType
  BY DEF Structure
<1> QED
  BY <1>1, <1>2, StructureStep, PTL DEF EnclaveSpec

\* What a slot holds is its connection's (EnclaveInv), so the items of an answer
\* are enciphered under the key its query brought, if it brought one.  If not
\* (Enclave.cpp:184 leaves the slot as it is, and line 237 takes what is there),
\* they are enciphered under what another connection has left on that number.
THEOREM KeysAreOwn ==
  ASSUME Spaced PROVE EnclaveSpec => [](EnclaveInv /\ OwnKey /\ KeyOfNumber)
<1>1. EnclaveInv /\ [EnclaveNext]_enclaveVars => EnclaveInv'
  BY InvStep
<1>2. EnclaveInv => OwnKey /\ KeyOfNumber
  BY DEF EnclaveInv
<1> QED
  BY <1>1, <1>2, InitInv, PTL DEF EnclaveSpec

\* The pseudonym init_ivs and encrypt_json_field give a user is the same
\* whenever its connection has the same number.
THEOREM PseudonymByNumber == ASSUME Spaced PROVE EnclaveSpec => []SamePseudonymOnSocket
<1>1. EnclaveInv => SamePseudonymOnSocket
  <2> SUFFICES ASSUME EnclaveInv, NEW k \in Conns, NEW l \in Conns,
                      forwarded[k] # None, forwarded[l] # None,
                      request[k] = request[l], csock[k] = csock[l]
               PROVE  forwarded[k] = forwarded[l]
    BY DEF SamePseudonymOnSocket
  <2>1. Forwarding(k) /\ Forwarding(l)
    BY DEF EnclaveInv, Structure, Staged
  <2> QED
    BY <2>1 DEF EnclaveInv, ByNumber, SentOn, KeepsKey
<1> QED
  BY <1>1, KeysAreOwn, PTL
=============================================================================
