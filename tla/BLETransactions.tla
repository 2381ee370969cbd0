---------------------------- MODULE BLETransactions ----------------------------
(***************************************************************************)
(* A HAP-BLE transaction: a request is written in fragments to a           *)
(* characteristic, is processed at the first read, and its response is     *)
(* read in fragments.  Reads and writes of values, and what ends a session *)
(* or a procedure, are those of BLELink and CharacteristicAccess: here any *)
(* error drops the session.                                                *)
(*                                                                         *)
(* A PDU is a sequence of bytes.  A scenario is what the transactions of a *)
(* behaviour have in common: the places they may be at, the requests, the  *)
(* sizes of fragments, and whether the central also writes stray PDUs.     *)
(***************************************************************************)
EXTENDS BLERequests

CONSTANTS PDUScenarios, StrayPDUs

VARIABLES
    pduScenario,
    asking,         \* the central's request, and what is still to be written of it
    sent,           \* what the central has written in accepted fragments of a request
    transaction,
    stored,         \* in the key-value store
    handledRequest, \* the last request that was given to a handler, if any
    received,       \* bytes of the response the central has read
    answer,         \* the last complete response, if any
    wanted,         \* what the central has configured
    dropped         \* the session

pduVars == <<pduScenario, asking, sent, transaction, stored, handledRequest, received,
             answer, wanted, dropped>>

RequestPDU == 0
ResponsePDU == 1
NumResponseHeaderBytes == 3
NumBodyHeaderBytes == 2
NumContinuationHeaderBytes == 2

-----------------------------------------------------------------------------
(* PDUs.  What cannot be read gives the empty set. *)

Control(continuation, type) == 128 * continuation + 2 * type
DeserializeControlField(b) ==
    {[continuation |-> b \div 128, type |-> type] :
        type \in {t \in {RequestPDU, ResponsePDU} : b % 128 = 2 * t}}
DeserializeBody(b) ==
    IF b = <<>> THEN {[total |-> 0, bytes |-> <<>>]}
    ELSE IF Len(b) < 2 \/ Len(b) - 2 > ReadWord(b) THEN {}
    ELSE {[total |-> ReadWord(b), bytes |-> SubSeq(b, 3, Len(b))]}
NumFixedParams(type) == IF type = RequestPDU THEN 4 ELSE 2
DeserializePDU(b) ==
    {[type |-> b[1] \div 2, params |-> SubSeq(b, 2, NumFixedParams(b[1] \div 2) + 1), body |-> body] :
        body \in UNION {DeserializeBody(SubSeq(b, NumFixedParams(c.type) + 2, Len(b))) :
            c \in {x \in DeserializeControlField((b \o <<1>>)[1]) :
                    x.continuation = 0 /\ Len(b) > NumFixedParams(x.type)}}}
DeserializeContinuation(b, type, total, soFar) ==
    {[tid |-> b[2], bytes |-> SubSeq(b, 3, Len(b))] :
        c \in {x \in DeserializeControlField((b \o <<1>>)[1]) :
                /\ x.continuation = 1 /\ x.type = type
                /\ Len(b) >= 2 /\ Len(b) - 2 <= total - soFar}}
\* A body that is given is announced even if it is empty.
SerializeFirst(room, tid, status, body, n) ==
    {b \in {<<Control(0, ResponsePDU), tid, status>>
            \o IF body = <<>> THEN <<>>
               ELSE Word(Len(body[1])) \o SubSeq(body[1], 1, n)} : Len(b) <= room}
SerializeContinuation(room, tid, bytes) ==
    {b \in {<<Control(1, ResponsePDU), tid>> \o bytes} : Len(b) <= room}

-----------------------------------------------------------------------------
(* The transaction. *)

CreateTransaction(maxBytes) ==
    [state |-> "WaitingForInitialWrite", opcode |-> 0, tid |-> 0, iid |-> 0,
     totalBodyBytes |-> 0, bodyOffset |-> 0, body |-> <<>>, maxBodyBytes |-> maxBytes,
     status |-> PDUStatus.Success, response |-> <<>>]
\* Mutant: fragments of a body that is longer than the buffer are kept, too.
MutTryAppendBodyFragment(t, bytes) ==
    [t EXCEPT !.body = @ \o bytes, !.bodyOffset = @ + Len(bytes)]
TryAppendBodyFragment(t, bytes) ==
    [t EXCEPT !.body = IF t.totalBodyBytes > t.maxBodyBytes THEN @ ELSE @ \o bytes,
              !.bodyOffset = @ + Len(bytes)]
BeginRequest(t, pdu) ==
    [t EXCEPT !.state = "ReadingRequest", !.opcode = pdu.params[1], !.tid = pdu.params[2],
              !.iid = ReadWord(SubSeq(pdu.params, 3, 4)),
              !.totalBodyBytes = pdu.body.total, !.bodyOffset = 0]
HandleFragment(t, bytes) ==
    CASE t.state = "WaitingForInitialWrite" ->
            {TryAppendBodyFragment(BeginRequest(t, pdu), pdu.body.bytes) :
                pdu \in {p \in DeserializePDU(bytes) : p.type = RequestPDU}}
      [] t.state = "ReadingRequest" ->
            {TryAppendBodyFragment(t, pdu.bytes) :
                pdu \in {p \in DeserializeContinuation(bytes, RequestPDU,
                                    t.totalBodyBytes, t.bodyOffset) : p.tid = t.tid}}
      [] t.state \in {"HandlingRequest", "WaitingForInitialRead"} ->
            {t : pdu \in {p \in DeserializeContinuation(bytes, RequestPDU, 0, 0) :
                                p.tid = t.tid}}
      [] t.state = "WritingResponse" -> {}
IsRequestAvailable(t) == t.state = "ReadingRequest" /\ t.bodyOffset = t.totalBodyBytes
GetRequest(t) ==
    IF t.totalBodyBytes > t.maxBodyBytes THEN <<>>
    ELSE <<[opcode |-> t.opcode, iid |-> t.iid, body |-> t.body]>>
TransactionSetResponse(t, status, body) ==
    [t EXCEPT !.state = "WaitingForInitialRead", !.status = status, !.response = body,
              !.bodyOffset = 0]
ResponseBody(t) == IF t.response = <<>> THEN <<>> ELSE t.response[1]
Least(m, n) == IF m < n THEN m ELSE n
\* A fragment that is read, and the transaction after it.
NextFragment(t, room) ==
    LET body == ResponseBody(t)
        header == NumResponseHeaderBytes + IF body = <<>> THEN 0 ELSE NumBodyHeaderBytes
        first == Least(Len(body), room - header)
        rest == Least(Len(body) - t.bodyOffset, room - NumContinuationHeaderBytes)
    IN  CASE t.state = "WaitingForInitialRead" ->
                {[bytes |-> b, transaction |->
                    [t EXCEPT !.state = "WritingResponse", !.bodyOffset = first]] :
                    b \in IF room < header THEN {}
                          ELSE SerializeFirst(room, t.tid, t.status, t.response, first)}
          [] t.state = "WritingResponse" ->
                {[bytes |-> b, transaction |-> [t EXCEPT !.bodyOffset = @ + rest]] :
                    b \in IF room < NumContinuationHeaderBytes THEN {}
                          ELSE SerializeContinuation(room, t.tid,
                                SubSeq(body, t.bodyOffset + 1, t.bodyOffset + rest))}
          [] OTHER -> {}
IsFinalFragment(t) == t.bodyOffset = Len(ResponseBody(t))

-----------------------------------------------------------------------------
(* The central and its steps. *)

Here == pduScenario.places[asking.place]
ProcessTransactionRequest(t) ==
    LET request == GetRequest(t)
    IN  IF request = <<>> THEN Error(PDUStatus.InvalidRequest, stored)
        ELSE ProcessRequest(Here, request[1], stored)

\* What the central has configured once a request is answered with success.
Configured(place, meant) ==
    CASE meant.what = "interval" ->
            [wanted EXCEPT !.intervals[place.characteristic.iid] = meant.value]
      [] meant.what = "protocol" ->
            [wanted EXCEPT !.key = @ \/ meant.key,
                           !.advertisingID = IF meant.id = <<>> THEN @ ELSE meant.id]
      [] meant.what = "token" -> [wanted EXCEPT !.token = <<meant.value>>]
      [] OTHER -> wanted

NoAnswer == [status |-> -1]
Write(bytes) ==
    LET first == transaction.state = "WaitingForInitialWrite"
    IN  /\ IF HandleFragment(transaction, bytes) = {}
           THEN dropped' = TRUE /\ UNCHANGED <<transaction, sent>>
           ELSE /\ transaction' \in HandleFragment(transaction, bytes)
                /\ sent' = IF first
                           THEN [opcode |-> bytes[2], tid |-> bytes[3], iid |-> ReadWord(SubSeq(bytes, 4, 5)),
                                 total |-> IF Len(bytes) = 5 THEN 0 ELSE ReadWord(SubSeq(bytes, 6, 7)),
                                 body |-> SubSeq(bytes, 8, Len(bytes))]
                           ELSE [sent EXCEPT !.body = IF bytes[2] = sent.tid
                                        THEN @ \o SubSeq(bytes, 3, Len(bytes)) ELSE @]
                /\ UNCHANGED dropped
        /\ handledRequest' = IF first THEN <<>> ELSE handledRequest
        /\ answer' = NoAnswer
        /\ UNCHANGED <<pduScenario, stored, received, wanted>>

FirstPDU(request, n) ==
    <<Control(0, RequestPDU), request.opcode, request.tid>> \o Word(request.iid)
    \o IF request.body = <<>> THEN <<>> ELSE Word(Len(request.body)) \o SubSeq(request.body, 1, n)
WriteFirst ==
    /\ ~dropped /\ transaction.state = "WaitingForInitialWrite"
    /\ \E request \in pduScenario.requests :
            LET n == Least(Len(request.body), pduScenario.fragment)
            IN  /\ asking' = [request EXCEPT !.rest = SubSeq(request.body, n + 1, Len(request.body))]
                /\ Write(FirstPDU(request, n))
WriteNext ==
    /\ ~dropped /\ transaction.state = "ReadingRequest" /\ asking.rest # <<>>
    /\ LET n == Least(Len(asking.rest), pduScenario.fragment)
       IN  /\ asking' = [asking EXCEPT !.rest = SubSeq(@, n + 1, Len(@))]
           /\ Write(<<Control(1, RequestPDU), asking.tid>> \o SubSeq(asking.rest, 1, n))
WriteStray ==
    /\ ~dropped /\ pduScenario.strays
    /\ \E bytes \in StrayPDUs : Write(bytes)
    /\ UNCHANGED asking

FragmentRead(ready, read) ==
    LET start == IF ready.state = "WritingResponse" THEN NumContinuationHeaderBytes
                 ELSE NumResponseHeaderBytes + NumBodyHeaderBytes
        bytes == received \o SubSeq(read.bytes, start + 1, Len(read.bytes))
        final == IsFinalFragment(read.transaction)
    IN  /\ received' = IF final THEN <<>> ELSE bytes
        /\ transaction' = IF final THEN CreateTransaction(Here.scratchBytes) ELSE read.transaction
        /\ answer' = IF final THEN [status |-> ready.status, body |-> bytes] ELSE NoAnswer
        /\ wanted' = IF final /\ ready.status = PDUStatus.Success
                     THEN Configured(Here, asking.meant) ELSE wanted
        /\ UNCHANGED dropped
ReadNext ==
    LET available == IsRequestAvailable(transaction)
    IN  /\ ~dropped
        /\ handledRequest' = IF available THEN GetRequest(transaction) ELSE handledRequest
        /\ \E outcome \in IF available THEN {ProcessTransactionRequest(transaction)}
                          ELSE {[stored |-> stored]} :
            LET ready == IF available
                         THEN TransactionSetResponse(transaction, outcome.status, outcome.body)
                         ELSE transaction
                reads == NextFragment(ready, pduScenario.room)
            IN  /\ stored' = outcome.stored
                /\ \/ /\ reads = {} /\ dropped' = TRUE
                      /\ UNCHANGED <<transaction, received, answer, wanted>>
                   \/ \E read \in reads : FragmentRead(ready, read)
        /\ UNCHANGED <<pduScenario, asking, sent>>

PDUInit ==
    /\ pduScenario \in PDUScenarios
    /\ asking = CHOOSE request \in pduScenario.requests : TRUE
    /\ sent = <<>> /\ handledRequest = <<>> /\ received = <<>> /\ answer = NoAnswer
    /\ transaction = CreateTransaction(Here.scratchBytes)
    /\ stored = [broadcasts |-> <<>>, keyExpirationGSN |-> 0, key |-> <<>>,
                 advertisingID |-> <<>>, token |-> pduScenario.token]
    /\ wanted = [intervals |-> [c \in 1 .. 9 |-> 0], key |-> FALSE,
                 advertisingID |-> <<>>, token |-> pduScenario.token]
    /\ dropped = FALSE
PDUNext == WriteFirst \/ WriteNext \/ WriteStray \/ ReadNext
PDUSpec == PDUInit /\ [][PDUNext]_pduVars

-----------------------------------------------------------------------------
(* Properties. *)

\* A request that is handled is what the central wrote, whole and in its      *)
\* order, and a body that is longer than the buffer is never written past the *)
\* end of it (the offset of TryAppendBodyFragment runs on while fragments are *)
\* discarded).
RequestAsWritten ==
    /\ Len(transaction.body) <= transaction.maxBodyBytes
    /\ handledRequest # <<>> =>
        /\ handledRequest[1] = [opcode |-> sent.opcode, iid |-> sent.iid, body |-> sent.body]
        /\ Len(sent.body) = sent.total

\* The items of the answer, by type.
Told(type, default) ==
    LET values == ValuesAt(The(TLVsOf(answer.body)), type)
    IN  IF values = {} THEN default ELSE The(values)
DescribesCharacteristic(ch, service) ==
    LET numeric == ch.format \in Numeric
    IN  /\ Told(4, <<>>) = <<ch.type>>
        /\ Told(6, <<>>) = <<service.type>> /\ Told(7, <<>>) = Word(service.iid)
        /\ Told(11, <<-1>>) =
            IF ch.manufacturerDescription = <<>> THEN <<-1>> ELSE ch.manufacturerDescription[1]
        /\ \A i \in DOMAIN CharacteristicProperties :
                (ReadWord(Told(10, <<>>)) \div 2 ^ (i - 1)) % 2 = 1
                    <=> CharacteristicProperties[i] \in ch.properties
        /\ numeric =>
            /\ Told(13, Expand(ch.format, 0) \o Expand(ch.format, 15))
                = Expand(ch.format, ch.min) \o Expand(ch.format, ch.max)
            /\ ConvertHAPUnitToBTSIGUnit[ch.units] = ReadWord(SubSeq(Told(12, <<>>), 3, 4))
            /\ LET step == Told(14, Expand(ch.format, IF ch.format = "float" THEN 0 ELSE 1))
               IN  \/ step = Expand(ch.format, ch.step)
                   \/ ch.format # "float" /\ ch.step = 0 /\ step = Expand(ch.format, 1)
        /\ ch.format = "string" => Told(13, Word(0) \o Word(64)) = Word(0) \o Word(ch.maxLength)
        /\ ch.format = "uint8" =>
            /\ Told(17, <<>>) = ch.validValues
            /\ \A i \in DOMAIN ch.validValuesRanges :
                    SubSeq(Told(18, <<>>), 2 * i - 1, 2 * i)
                        = <<ch.validValuesRanges[i].start, ch.validValuesRanges[i].end>>
DescribesService(service) ==
    /\ \A i \in DOMAIN ServiceProperties :
            (ReadWord(Told(15, <<0, 0>>)) \div 2 ^ (i - 1)) % 2 = 1
                <=> ServiceProperties[i] \in service.properties
    /\ \A i \in DOMAIN service.linked :
            SubSeq(Told(16, <<>>), 2 * i - 1, 2 * i) = Word(service.linked[i])
\* A complete answer, put together from the fragments that were read and with
\* the defaults of the specification for what it leaves out, says what the
\* characteristic and its service are, and what the central has configured
\* before: the ranges and steps the signature leaves out, the sorted list of
\* broadcasts, the key, the identifier and the token in the store.
AnswersTrue == answer.status = PDUStatus.Success =>
    LET place == Here
        ch == place.characteristic
        interval == wanted.intervals[ch.iid]
    IN
        /\ asking.meant.what # "nothing"
        /\ asking.opcode = CharacteristicSignatureRead => DescribesCharacteristic(ch, place.service)
        /\ asking.opcode = ServiceSignatureRead =>
                DescribesService(IF asking.iid = place.service.iid THEN place.service ELSE NoService)
        /\ asking.opcode = CharacteristicConfiguration =>
                IF interval = 0 THEN Told(1, <<>>) = <<0, 0>> /\ Told(2, <<>>) = <<>>
                ELSE Told(1, <<>>) = <<1, 0>> /\ Told(2, <<>>) = <<interval>>
        /\ asking.opcode = ProtocolConfiguration /\ answer.body # <<>> =>
                /\ Told(3, <<>>) = IF wanted.advertisingID = <<>> THEN place.server.deviceID
                                    ELSE wanted.advertisingID
                /\ Told(4, <<>>) = IF wanted.key THEN place.server.sessionKey ELSE <<>>
        /\ asking.opcode = Token => <<Told(2, <<>>)>> = wanted.token
        /\ asking.opcode = Info => Told(3, <<>>) = place.server.deviceID
=============================================================================
