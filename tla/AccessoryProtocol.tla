-------------------------- MODULE AccessoryProtocol --------------------------
(***************************************************************************)
(* Requests for characteristics over IP and their responses.  A request is *)
(* read into contexts, one for each characteristic it names; the contexts  *)
(* are handled, which sets their status and value; and the response is     *)
(* formatted from them.  Its length is counted first, for the header of    *)
(* the response and to see whether there is room for it, and the writer is *)
(* then assumed to write that number of bytes.                             *)
(*                                                                         *)
(* A request is given as its fields: those of the query of a GET, or the   *)
(* members of the JSON document of a PUT, with the kind of their value.    *)
(***************************************************************************)
EXTENDS Attributes, JSONUtils

CONSTANTS
    Accessories,    \* the attribute database
    Requests,       \* requests: method, query or members, number of event contexts
    NumContexts,    \* contexts there are
    ReadNumbers,    \* numbers that a read handler returns
    ReadTexts,      \* data that a read handler returns
    Spare           \* bytes of room beyond the counted length of a response

VARIABLES
    asked,          \* the request
    phase,          \* "request", "contexts", "handled", "answered"
    contexts,       \* read or write contexts
    parameters,     \* attributes that a GET asks for
    protocolError,  \* of reading the request, or of writing the response
    timedWrite,     \* ttl and pid of a preparation, or the pid of a PUT
    response        \* pieces of the response's body

protocolVars ==
    <<asked, phase, contexts, parameters, protocolError, timedWrite, response>>

-----------------------------------------------------------------------------
(* Reading requests. *)

NoParameters == [meta |-> FALSE, perms |-> FALSE, type |-> FALSE, ev |-> FALSE]
ContextFor(aid, iid) ==
    [aid |-> aid, iid |-> iid, status |-> "0", type |-> "None", number |-> "0",
     data |-> <<>>, ev |-> "undefined", response |-> FALSE, remote |-> FALSE]
WithError(s, e) == [s EXCEPT !.error = e]
AddContext(s, c) ==
    IF Len(s.contexts) < NumContexts THEN [s EXCEPT !.contexts = Append(@, c)]
    ELSE WithError(s, "OutOfResources")

\* One aid.iid of a list,
ReadID(s, id) ==
    IF s.error # "None" THEN s
    ELSE IF id.overflow THEN WithError(s, "InvalidData")
    ELSE AddContext(s, ContextFor(id.aid, id.iid))
\* and one field of a query; a number sign ends it.
ReadField(s, f) ==
    IF s.error # "None" \/ s.ended THEN s
    ELSE CASE f.name = "#" -> [s EXCEPT !.ended = TRUE]
           [] f.name = "id" -> FoldLeft(ReadID, s, f.ids)
           [] f.name \in DOMAIN NoParameters /\ f.flag \in {"0", "1"} ->
                [s EXCEPT !.parameters[f.name] = (f.flag = "1")]
           [] OTHER -> WithError(s, "InvalidData")
GetCharacteristicReadRequests(query) ==
    FoldLeft(ReadField, [contexts |-> <<>>, parameters |-> NoParameters,
                         ended |-> FALSE, error |-> "None"], query)

\* Numbers without sign and fraction; "huge" ones have more than 53 bits,
\* "small" and "large" ones are beyond what a value may be.
Uints == {"uint", "huge"}
JSONNumbers == Uints \cup {"int", "float", "small", "large"}
\* The tokens of a value that is skipped.
Tokens(kind) ==
    CASE kind \in JSONNumbers -> <<"number">>
      [] kind = "object" -> <<"{", "string", ":", "[", "]", ",", "string", ":",
                              "{", "string", ":", "null", "}", "}">>
      [] kind = "deep" -> [i \in 1 .. MaxDepth + 1 |-> "["] \o <<"null">>
                          \o [i \in 1 .. MaxDepth + 1 |-> "]"]
      [] OTHER -> <<kind>>

Flag(s, field, m) ==
    IF m.kind \in {"true", "false"} \/ (m.kind = "uint" /\ m.number \in {"0", "1"})
    THEN [s EXCEPT ![field] = (m.kind = "true" \/ (m.kind = "uint" /\ m.number = "1"))]
    ELSE WithError(s, "InvalidData")
\* One member of the object of a characteristic.
ReadMember(s, m) ==
    IF s.error # "None" THEN s
    ELSE CASE m.name \in {"aid", "iid"} ->
                IF m.kind \in Uints THEN [s EXCEPT ![m.name] = m.number]
                ELSE WithError(s, "InvalidData")
           [] m.name = "value" /\ m.kind \in Uints \cup {"int", "float"} ->
                [s EXCEPT !.number = m.number,
                          !.type = [uint |-> "UInt", huge |-> "UInt", int |-> "Int",
                                    float |-> "Float"][m.kind]]
           [] m.name = "value" /\ m.kind \in {"true", "false"} ->
                [s EXCEPT !.type = "UInt",
                          !.number = IF m.kind = "true" THEN "1" ELSE "0"]
           [] m.name \in {"value", "authData"} /\ m.kind = "string" ->
                LET text == UnescapeStringData(m.data)
                IN  IF text.error # "None" THEN WithError(s, text.error)
                    ELSE IF m.name = "authData" THEN s
                    ELSE [s EXCEPT !.type = "String", !.data = text.text]
           [] m.name \in {"value", "authData"} -> WithError(s, "InvalidData")
           [] m.name = "ev" ->
                LET flag == Flag([ev |-> FALSE, error |-> "None"], "ev", m)
                IN  IF flag.error # "None" THEN WithError(s, flag.error)
                    ELSE [s EXCEPT !.ev = IF flag.ev THEN "enabled" ELSE "disabled"]
           [] m.name \in {"remote", "response"} -> Flag(s, m.name, m)
           [] OTHER -> [s EXCEPT !.error = SkipValue(Tokens(m.kind)).error]
\* Mutant: what the object before has set is kept.
MutReadObject(s, members) ==
    LET kept == IF s.contexts = <<>> THEN ContextFor("", "") ELSE Last(s.contexts)
        p == FoldLeft(ReadMember, kept @@ [error |-> "None"], members)
    IN  IF s.error # "None" THEN s
        ELSE IF p.error # "None" THEN WithError(s, p.error)
        ELSE AddContext(s, [f \in DOMAIN kept |-> p[f]])
\* An object names one characteristic.
ReadObject(s, members) ==
    LET p == FoldLeft(ReadMember,
                      ContextFor("", "") @@ [error |-> "None"], members)
    IN  IF s.error # "None" THEN s
        ELSE IF members = <<>> THEN WithError(s, "InvalidData")
        ELSE IF p.error # "None" THEN WithError(s, p.error)
        ELSE IF p.aid = "" \/ p.iid = "" THEN WithError(s, "InvalidData")
        ELSE AddContext(s, [f \in DOMAIN ContextFor("", "") |-> p[f]])

\* A number that may be given once,
Once(s, field, m) ==
    IF s[field] # "" \/ m.kind \notin Uints \/ (field = "ttl" /\ m.kind = "huge")
    THEN WithError(s, "InvalidData")
    ELSE [s EXCEPT ![field] = m.number]
SkipMember(s, m) ==
    IF SkipValue(Tokens(m.kind)).error # "None" THEN WithError(s, "InvalidData") ELSE s
\* a member of a write request,
WriteRequestMember(s, m) ==
    IF s.error # "None" THEN s
    ELSE CASE m.name = "characteristics" ->
                IF m.kind # "array" \/ m.objects = <<>> THEN WithError(s, "InvalidData")
                ELSE FoldLeft(ReadObject, s, m.objects)
           [] m.name = "pid" -> Once(s, "pid", m)
           [] OTHER -> SkipMember(s, m)
\* and of the preparation of one.
PreparationMember(s, m) ==
    IF s.error # "None" THEN s
    ELSE CASE m.name \in {"ttl", "pid"} -> Once(s, m.name, m)
           [] OTHER -> SkipMember(s, m)
NoTimedWrite == [ttl |-> "", pid |-> ""]
ReadDocument(Member(_, _), members) ==
    LET s == FoldLeft(Member, [contexts |-> <<>>, error |-> "None"] @@ NoTimedWrite,
                      members)
    IN  IF members = <<>> THEN WithError(s, "InvalidData") ELSE s
GetCharacteristicWriteRequests(members) == ReadDocument(WriteRequestMember, members)
GetCharacteristicWritePreparation(members) ==
    LET s == ReadDocument(PreparationMember, members)
    IN  IF s.ttl = "" \/ s.pid = "" THEN WithError(s, "InvalidData") ELSE s

-----------------------------------------------------------------------------
(* Counting the bytes of responses. *)

Characteristics(c) == GetCharacteristic(Accessories, c.aid, c.iid)
Success(list) == \A i \in DOMAIN list : list[i].status = "0"
IDBytes(c) == Len(c.aid) + Len(c.iid)
ValueBytes(ch, c) ==
    CASE ch.format = "bool" -> 1
      [] ch.format \in Numbers -> Len(c.number)
      [] OTHER -> 2 + GetNumEscapedStringDataBytes(c.data)
FormatBytes ==
    [bool |-> 16, uint8 |-> 17, uint16 |-> 18, uint32 |-> 18, uint64 |-> 18,
     int |-> 15, float |-> 17, string |-> 18, tlv8 |-> 16, data |-> 16]
UnitBytes ==
    [celsius |-> 17, arcdegrees |-> 20, percentage |-> 20, lux |-> 13, seconds |-> 17]
\* Mutant: the separators between permissions are forgotten.
MutPermissionBytes(n) == 11 + n * 4
PermissionBytes(n) == 11 + (IF n = 0 THEN 0 ELSE n * 4 + n - 1)
ConstraintBytes(ch) ==
    CASE ch.format \in Numbers /\ ch.limits # <<>> ->
            35 + Len(ch.limits[1]) + Len(ch.limits[2]) + Len(ch.limits[3])
      [] ch.format = "string" /\ ch.maxLength # "" -> 10 + Len(ch.maxLength)
      [] ch.format = "data" /\ ch.maxLength # "" -> 14 + Len(ch.maxLength)
      [] OTHER -> 0
If(condition, n) == IF condition THEN n ELSE 0
\* An attribute of a characteristic is told where there is one.
AttributeBytes(ch, c, p) ==
    If(p.type, 10 + Len(ch.type)) + If(p.meta, FormatBytes[ch.format])
    + If(p.perms, PermissionBytes(Len(EnabledProperties(ch))))
    + If(p.ev, 6 + (IF c.ev = "enabled" THEN 4 ELSE 5))
    + If(p.meta, If(HasUnit(ch), UnitBytes[ch.unit]) + ConstraintBytes(ch))
ReadBytes(c, i) ==
    LET found == Characteristics(c)
    IN  (IF i = 1 THEN 15 ELSE 16) + IDBytes(c)
        + (IF found = <<>> THEN 0 ELSE AttributeBytes(found[1], c, parameters))
        + (IF c.status # "0" THEN 10 + Len(c.status)
           ELSE (IF Success(contexts) THEN 9 ELSE 20)
                + (IF found[1].type = "ProgrammableSwitchEvent" THEN 4
                   ELSE ValueBytes(found[1], c)))
WriteBytes(c, i) ==
    (IF i = 1 THEN 25 ELSE 26) + IDBytes(c) + Len(c.status)
    + If(c.status = "0" /\ c.response, 9 + ValueBytes(Characteristics(c)[1], c))
EventBytes(c, i) ==
    (IF i = 1 THEN 24 ELSE 25) + IDBytes(c)
    + (IF c.status = "0" THEN ValueBytes(Characteristics(c)[1], c) ELSE 4)
BytesOf(c, i) ==
    CASE asked.method = "GET" -> ReadBytes(c, i)
      [] asked.method = "PUT" -> WriteBytes(c, i)
      [] asked.method = "EVENT" -> EventBytes(c, i)
NumBytes == FoldLeft(+, 22, [i \in DOMAIN contexts |-> BytesOf(contexts[i], i)])

-----------------------------------------------------------------------------
(* Writing responses, piece by piece. *)

Text(t) == <<[text |-> t, data |-> <<>>]>>
When(condition, pieces) == IF condition THEN pieces ELSE <<>>
ObjectHead(c, i) ==
    Text((IF i = 1 THEN "" ELSE ",") \o "{\"aid\":" \o c.aid \o ",\"iid\":" \o c.iid)
ValueText(ch, c) ==
    CASE ch.format = "bool" -> Text(IF c.number = "0" THEN "0" ELSE "1")
      [] ch.format \in Numbers -> Text(c.number)
      [] OTHER -> Text("\"") \o <<[text |-> "", data |-> c.data]>> \o Text("\"")
PermissionText(ch) ==
    LET list == EnabledProperties(ch)
    IN  Text(",\"perms\":[")
        \o FlattenSeq([i \in DOMAIN list |->
                Text((IF i = 1 THEN "" ELSE ",") \o "\"" \o list[i] \o "\"")])
        \o Text("]")
ConstraintText(ch) ==
    CASE ch.format \in Numbers /\ ch.limits # <<>> ->
            Text(",\"minValue\":" \o ch.limits[1]) \o Text(",\"maxValue\":" \o ch.limits[2])
            \o Text(",\"minStep\":" \o ch.limits[3])
      [] ch.format = "string" /\ ch.maxLength # "" ->
            Text(",\"maxLen\":" \o ch.maxLength)
      [] ch.format = "data" /\ ch.maxLength # "" ->
            Text(",\"maxDataLen\":" \o ch.maxLength)
      [] OTHER -> <<>>
\* The object is closed behind the value or the status.
ReadText(c, i) ==
    LET found == Characteristics(c)
        p == [a \in DOMAIN parameters |-> parameters[a] /\ found # <<>>]
        ch == found[1]
    IN  ObjectHead(c, i)
        \o When(p.type, Text(",\"type\":\"" \o ch.type \o "\""))
        \o When(p.meta, Text(",\"format\":\"" \o ch.format \o "\""))
        \o (IF c.status # "0" THEN Text(",\"status\":" \o c.status)
            ELSE When(~Success(contexts), Text(",\"status\":0"))
                 \o Text(",\"value\":")
                 \o (IF ch.type = "ProgrammableSwitchEvent" THEN Text("null")
                     ELSE ValueText(ch, c)))
        \o Text("}")
        \o When(p.perms, PermissionText(ch))
        \o When(p.ev, Text(",\"ev\":" \o (IF c.ev = "enabled" THEN "true" ELSE "false")))
        \o When(p.meta, When(HasUnit(ch), Text(",\"unit\":\"" \o ch.unit \o "\""))
                        \o ConstraintText(ch))
WriteText(c, i) ==
    ObjectHead(c, i) \o Text(",\"status\":" \o c.status)
    \o When(c.status = "0" /\ c.response,
            Text(",\"value\":") \o ValueText(Characteristics(c)[1], c))
    \o Text("}")
EventText(c, i) ==
    ObjectHead(c, i) \o Text(",\"value\":")
    \o (IF c.status = "0" THEN ValueText(Characteristics(c)[1], c) ELSE Text("null"))
    \o Text("}")
TextOf(c, i) ==
    CASE asked.method = "GET" -> ReadText(c, i)
      [] asked.method = "PUT" -> WriteText(c, i)
      [] asked.method = "EVENT" -> EventText(c, i)
Body ==
    Text("{\"characteristics\":[")
    \o FlattenSeq([i \in DOMAIN contexts |-> TextOf(contexts[i], i)]) \o Text("]}")

PieceBytes(p) == Len(p.text) + GetNumEscapedStringDataBytes(p.data)
\* A text is followed by a NUL byte while it is appended; string data is
\* appended as it is and then escaped in what room there is.
AppendPiece(s, p) ==
    LET room == s.limit - s.position
        escaped == EscapeStringData(p.data, room)
    IN  IF s.error # "None" THEN s
        ELSE IF Len(p.text) + Len(p.data) >= room \/ escaped.error # "None"
        THEN WithError(s, "OutOfResources")
        ELSE [s EXCEPT !.position = @ + Len(p.text) + escaped.i,
                       !.pieces = Append(@, p)]
AppendBody(limit) ==
    FoldLeft(AppendPiece, [limit |-> limit, position |-> 0, pieces |-> <<>>,
                           error |-> "None"], Body)

-----------------------------------------------------------------------------
(* From a request to its response. *)

ProtocolInit ==
    /\ asked \in Requests
    /\ phase = "request"
    /\ contexts = <<>> /\ response = <<>>
    /\ parameters = NoParameters
    /\ protocolError = "None"
    /\ timedWrite = NoTimedWrite

Read(result) ==
    /\ phase = "request"
    /\ protocolError' = result.error
    /\ contexts' = IF result.error = "None" THEN result.contexts ELSE <<>>
    /\ phase' = IF result.error # "None" \/ result.contexts = <<>> THEN "answered"
                ELSE "contexts"
    /\ UNCHANGED <<asked, response>>
GetCharacteristicsRequest ==
    /\ asked.method = "GET"
    /\ Read(GetCharacteristicReadRequests(asked.query))
    /\ parameters' = GetCharacteristicReadRequests(asked.query).parameters
    /\ UNCHANGED timedWrite
PutCharacteristicsRequest ==
    /\ asked.method = "PUT"
    /\ Read(GetCharacteristicWriteRequests(asked.members))
    /\ timedWrite' = [ttl |-> "", pid |-> GetCharacteristicWriteRequests(asked.members).pid]
    /\ UNCHANGED parameters
PutPrepareRequest ==
    LET result == GetCharacteristicWritePreparation(asked.members)
    IN  /\ asked.method = "PREPARE"
        /\ Read(result)
        /\ timedWrite' = [ttl |-> result.ttl, pid |-> result.pid]
        /\ UNCHANGED parameters
\* Events are raised on characteristics that there are.
RaiseEvents ==
    /\ asked.method = "EVENT"
    /\ Read([contexts |-> FlattenSeq([i \in DOMAIN asked.query |->
                    [j \in DOMAIN asked.query[i].ids |->
                        ContextFor(asked.query[i].ids[j].aid, asked.query[i].ids[j].iid)]]),
             error |-> "None"])
    /\ UNCHANGED <<parameters, timedWrite>>

\* A read: its handler may fail, and is not called for a switch event.
HandleRead(c, failed, number, data, subscribed) ==
    LET found == Characteristics(c)
        done(status) == [c EXCEPT !.status = status]
        told == [c EXCEPT !.ev = IF subscribed THEN "enabled" ELSE "disabled"]
    IN  IF found = <<>> THEN done("-70409")
        ELSE IF "pr" \notin found[1].properties THEN [told EXCEPT !.status = "-70405"]
        ELSE IF found[1].type = "ProgrammableSwitchEvent" /\ asked.method = "GET"
        THEN told
        ELSE IF failed THEN [told EXCEPT !.status = "-70402"]
        ELSE [told EXCEPT !.number = number, !.data = data]
\* A write: a value is read for its response if the characteristic allows it.
HandleWrite(c, failed, number, data) ==
    LET found == Characteristics(c)
    IN  IF found = <<>> THEN [c EXCEPT !.status = "-70409"]
        ELSE IF c.type = "None" /\ c.ev = "undefined" THEN [c EXCEPT !.status = "-70410"]
        ELSE IF failed THEN [c EXCEPT !.status = "-70402"]
        ELSE IF c.response /\ "wr" \notin found[1].properties
        THEN [c EXCEPT !.status = "-70405"]
        ELSE IF c.response THEN [c EXCEPT !.number = number, !.data = data]
        ELSE c
HandleRequests ==
    /\ phase = "contexts"
    /\ \E failed \in SUBSET DOMAIN contexts, number \in ReadNumbers, data \in ReadTexts,
          subscribed \in BOOLEAN :
            contexts' = [i \in DOMAIN contexts |->
                IF asked.method = "PUT"
                THEN HandleWrite(contexts[i], i \in failed, number, data)
                ELSE HandleRead(contexts[i], i \in failed, number, data, subscribed)]
    /\ phase' = "handled"
    /\ UNCHANGED <<asked, parameters, protocolError, timedWrite, response>>

\* Nothing is told of writes that all succeed.
Respond ==
    LET quiet == /\ asked.method = "PUT" /\ Success(contexts)
                 /\ \A i \in DOMAIN contexts : ~contexts[i].response
        written == AppendBody(NumBytes + Spare)
    IN  /\ phase = "handled"
        /\ phase' = "answered"
        /\ IF quiet THEN UNCHANGED <<response, protocolError>>
           ELSE response' = written.pieces /\ protocolError' = written.error
        /\ UNCHANGED <<asked, contexts, parameters, timedWrite>>

ProtocolNext ==
    \/ GetCharacteristicsRequest \/ PutCharacteristicsRequest \/ PutPrepareRequest
    \/ RaiseEvents \/ HandleRequests \/ Respond
ProtocolSpec == ProtocolInit /\ [][ProtocolNext]_protocolVars

-----------------------------------------------------------------------------
(* Properties. *)

\* A response takes as many bytes as its header says, and its writer never
\* stops for want of room when the length was found to fit (the assertions
\* after HAPIPAccessoryProtocolGet...ResponseBytes), with characters that
\* have to be escaped in the very buffer, and whatever attributes are told.
BytesCounted ==
    phase = "answered" /\ response # <<>> =>
        /\ protocolError = "None"
        /\ FoldLeft(LAMBDA n, p : n + PieceBytes(p), 0, response) = NumBytes

\* What a request names, in its order, is what is handled: a list of IDs up
\* to the number sign, or the objects of a document, of whose members the
\* last one of a name counts and whose strings are meant unescaped
\* (HAPIPAccessoryProtocolGetCharacteristicRead/WriteRequests).
Named(members, name) == SelectSeq(members, LAMBDA m : m.name = name)
AskedIDs ==
    LET queries == {i \in 0 .. Len(asked.query) :
                        \A j \in 1 .. i : asked.query[j].name # "#"}
        last == CHOOSE i \in queries : \A j \in queries : j <= i
    IN  FlattenSeq([i \in 1 .. last |-> asked.query[i].ids])
AskedObjects ==
    LET lists == Named(asked.members, "characteristics")
    IN  FlattenSeq([i \in DOMAIN lists |-> lists[i].objects])
ContextsAsAsked ==
    phase = "contexts" =>
        IF asked.method = "PUT"
        THEN /\ Len(contexts) = Len(AskedObjects)
             /\ \A i \in DOMAIN contexts :
                    LET object == AskedObjects[i]
                        values == Named(object, "value")
                    IN  /\ Named(object, "aid") # <<>> /\ Named(object, "iid") # <<>>
                        /\ contexts[i].aid = Last(Named(object, "aid")).number
                        /\ contexts[i].iid = Last(Named(object, "iid")).number
                        /\ (contexts[i].type = "None") = (values = <<>>)
                        /\ contexts[i].type = "String" =>
                                contexts[i].data = Last(values).meant
        ELSE /\ Len(contexts) = Len(AskedIDs)
             /\ \A i \in DOMAIN contexts : /\ contexts[i].aid = AskedIDs[i].aid
                                           /\ contexts[i].iid = AskedIDs[i].iid

\* An object ends where the next one or the list's end begins.  It does not:
\* the attributes that a GET asks for are written behind its end.
ObjectsEnd ==
    phase = "answered" =>
        \A i \in 1 .. Len(response) - 1 :
            response[i].text = "}" =>
                \/ response[i + 1].text = "]}"
                \/ \E c \in ToSet(contexts) : response[i + 1].text = ObjectHead(c, 2)[1].text
=============================================================================
