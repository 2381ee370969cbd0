------------------------- MODULE CharacteristicAccess -------------------------
(***************************************************************************)
(* Reads and writes of characteristics.  Over IP a request has a list of   *)
(* contexts that are handled one after the other: text values are read     *)
(* into one buffer, behind each other, and a value that is written may be  *)
(* read again for its response.  Over BLE a request has one value, that    *)
(* comes with authorization data in the buffer of the request.             *)
(***************************************************************************)
EXTENDS Characteristics, SequencesExt

CONSTANTS
    Scenarios,          \* sets of accessories with a request to them
    MaxEventNotifications,
    BufferSize,         \* bytes for text values of a request over IP
    MaxStringBytes,     \* bytes of a string that may be written over IP
    ReadErrors, WriteErrors,    \* errors of the accessory's handlers
    AlwaysFits          \* handlers leave room for the base64 of their data

VARIABLES
    scenario,           \* the accessory, the session and the request
    items,              \* contexts of the request
    handled,            \* number of contexts that are handled
    position,           \* of the data buffer
    cells,              \* the data buffer
    eventNotifications, \* characteristics with events, and their flags
    numEventNotificationFlags,
    calls,              \* calls of handlers for the last context
    failure             \* a precondition or an assertion that failed

accessVars == <<scenario, items, handled, position, cells, eventNotifications,
                numEventNotificationFlags, calls, failure>>

-----------------------------------------------------------------------------
Texts8 == {"data", "string", "tlv8"}
NoText == [chars |-> <<>>, decodes |-> FALSE, decoded |-> <<>>]
DefinitionAt(p) == scenario.accessory.services[p[1]].characteristics[p[2]]
Places(iid) ==
    LET services == scenario.accessory.services
    IN  {p \in UNION {{i} \X DOMAIN services[i].characteristics : i \in DOMAIN services} :
            DefinitionAt(p).iid = iid}
IsBefore(p, q) == p[1] < q[1] \/ (p[1] = q[1] /\ p[2] < q[2])
\* The first characteristic with an instance ID, if there is one.
FindCharacteristic(iid) ==
    {DefinitionAt(p) : p \in {q \in Places(iid) : \A r \in Places(iid) : ~IsBefore(r, q)}}
IndexOf(iid) == SelectInSeq(eventNotifications, LAMBDA e : e.iid = iid)
Room == BufferSize - position
Call(op, value, error) == [op |-> op, value |-> value, error |-> error]
\* A byte of the buffer is the at-th of a text, or a terminator, or anything.
Free == [of |-> 0, at |-> 0]
\* The bytes of a C string.
Terminated(chars) == SubSeq(chars, 1, SelectInSeq(chars \o <<"NUL">>, LAMBDA c : c = "NUL") - 1)
Base64Length(n) == ((n + 2) \div 3) * 4

ConvertErrorToStatusCode(e) ==
    [None |-> "Success", Unknown |-> "UnableToPerformOperation",
     InvalidState |-> "UnableToPerformOperation", InvalidData |-> "InvalidValueInWrite",
     OutOfResources |-> "OutOfResources", NotAuthorized |-> "InsufficientAuthorization",
     Busy |-> "ResourceIsBusy"][e]

\* What a handler may return: a value that fulfils the constraints,
HandlerNumbers(ch) ==
    {RoundValueToStep(ch, v) :
        v \in {x \in scenario.numbers :
                    (ch.format = "float" \/ x \in ValuesOf(ch.format))
                    /\ TRUE \in IsValueFulfillingConstraints(ch, x)}}
\* or a number of bytes, with the terminator of a string.
HandlerLengths(ch, room) ==
    {n \in 0 .. room : /\ ch.format # "tlv8" => n <= ch.maxLength
                       /\ ch.format = "string" => n < room
                       /\ ch.format # "string" /\ AlwaysFits => Base64Length(n) <= room}

-----------------------------------------------------------------------------
(* Reads over IP. *)

\* A handler may have changed all bytes it was given room for.
Store(n, owner) ==
    [k \in DOMAIN cells |->
        CASE k < position -> cells[k]
          [] k \in position .. position + n - 1 -> [of |-> owner, at |-> k - position]
          [] k = position + n /\ owner # 0 -> [of |-> -1, at |-> 0]
          [] OTHER -> Free]
Unread(status) ==
    [status |-> status, value |-> 0, start |-> 0, length |-> 0, failure |-> "None",
     position |-> position, cells |-> cells, calls |-> <<>>]
Behind(length) == position + length + 1
\* Data is encoded where it was read.
EncodedLength(ch, n) == IF ch.format = "string" THEN n ELSE Base64Length(n)
ReadText8(ch, n, owner) ==
    LET length == EncodedLength(ch, n)
        read == [Unread("Success") EXCEPT !.calls = <<Call("read", n, "None")>>]
    IN  IF length > Room THEN [read EXCEPT !.failure = "encoded_capacity"]
        ELSE IF length = Room
        THEN [read EXCEPT !.status = "OutOfResources", !.cells = Store(0, 0)]
        ELSE [read EXCEPT !.start = position, !.length = length,
                          !.position = Behind(length), !.cells = Store(length, owner)]
ReadNumber(ch) ==
    {[Unread("Success") EXCEPT !.value = v, !.calls = <<Call("read", v, "None")>>] :
        v \in HandlerNumbers(ch)}
\* The outcomes of a read of a characteristic.
HandleReadRequest(ch, owner) ==
    IF "read" \notin ch.handlers THEN {[Unread("Success") EXCEPT !.failure = "handleRead"]}
    ELSE IF ch.format = "string" /\ Room = 0 THEN {Unread("OutOfResources")}
    ELSE {[Unread(ConvertErrorToStatusCode(e)) EXCEPT
                !.calls = <<Call("read", 0, e)>>,
                !.cells = IF ch.format \in Texts8 THEN Store(0, 0) ELSE cells] :
            e \in ReadErrors}
         \cup IF ch.format \in Texts8
              THEN {ReadText8(ch, n, owner) : n \in HandlerLengths(ch, Room)}
              ELSE ReadNumber(ch)

ReadStatus(ch) ==
    IF ReadRequiresAdmin(ch) /\ ~scenario.admin THEN "InsufficientPrivileges"
    ELSE IF "pr" \notin ch.properties THEN "ReadFromWriteOnlyCharacteristic"
    ELSE IF ch.controlPoint /\ ch.type # "ProgrammableSwitchEvent"
                /\ scenario.method = "GetAccessories"
    THEN "UnableToPerformOperation"
    ELSE "Success"
\* A switch has no value unless its event is told.
SwitchRests(ch) ==
    ch.type = "ProgrammableSwitchEvent" /\ scenario.method # "EventNotification"

\* A context is done, with what has become of it.
Answered(c, result, status) ==
    [c EXCEPT !.status = status, !.value = result.value, !.start = result.start,
              !.length = result.length]
Done(result, status, list, flags, told) ==
    /\ items' = [items EXCEPT ![handled + 1] = Answered(@, result, status)]
    /\ position' = result.position
    /\ cells' = result.cells
    /\ failure' = result.failure
    /\ calls' = told \o result.calls
    /\ eventNotifications' = list
    /\ numEventNotificationFlags' = flags
    /\ handled' = handled + 1
    /\ UNCHANGED scenario
Answer(status) ==
    Done(Unread(status), status, eventNotifications, numEventNotificationFlags, <<>>)
IsNext(methods) ==
    failure = "None" /\ handled < Len(items) /\ scenario.method \in methods
ReadContext(ch) ==
    IF ReadStatus(ch) # "Success" THEN Answer(ReadStatus(ch))
    ELSE IF SwitchRests(ch) THEN Answer("Success")
    ELSE \E read \in HandleReadRequest(ch, handled + 1) :
            Done(read, read.status, eventNotifications, numEventNotificationFlags, <<>>)
HandleReads ==
    LET found == FindCharacteristic(items[handled + 1].iid)
    IN  /\ IsNext({"GetAccessories", "GetCharacteristics", "EventNotification"})
        /\ \/ found = {} /\ Answer("ResourceDoesNotExist")
           \/ \E ch \in found : ReadContext(ch)

-----------------------------------------------------------------------------
(* Writes over IP. *)

Same(status) == [status |-> status, list |-> eventNotifications,
                 flags |-> numEventNotificationFlags, calls |-> <<>>]
FlagsWithout(i) ==
    IF eventNotifications[i].flag THEN numEventNotificationFlags - 1
    ELSE numEventNotificationFlags
HandleSubscribe == <<Call("subscribe", 0, "None")>>
HandleUnsubscribe == <<Call("unsubscribe", 0, "None")>>
\* Events are enabled or disabled.
Subscribe(c, ch) ==
    LET i == IndexOf(c.iid)
        on == c.ev = "enabled"
    IN  IF c.ev = "undefined" THEN Same("Success")
        ELSE IF ReadRequiresAdmin(ch) /\ ~scenario.admin THEN Same("InsufficientPrivileges")
        ELSE IF "ev" \notin ch.properties THEN Same("NotificationNotSupported")
        ELSE IF on = (i # 0) THEN Same("Success")
        ELSE IF ~on
        THEN [Same("Success") EXCEPT !.list = RemoveAt(@, i), !.flags = FlagsWithout(i),
                                     !.calls = HandleUnsubscribe]
        ELSE IF Len(eventNotifications) = MaxEventNotifications THEN Same("OutOfResources")
        ELSE [Same("Success") EXCEPT !.list = Append(@, [iid |-> c.iid, flag |-> FALSE]),
                                     !.calls = HandleSubscribe]

\* Why a value is not even converted.
Rejection(c, ch) ==
    IF WriteRequiresAdmin(ch) /\ ~scenario.admin THEN "InsufficientPrivileges"
    ELSE IF ("wr" \in ch.properties \/ c.response) /\ ReadRequiresAdmin(ch) /\ ~scenario.admin
    THEN "InsufficientPrivileges"
    ELSE IF "pw" \notin ch.properties THEN "WriteToReadOnlyCharacteristic"
    ELSE IF c.authData = "malformed" THEN "InvalidValueInWrite"
    ELSE "Success"
\* The value that the type, the number and the text of a context stand for.
UnsignedValue(c, ch) == IF c.type = "UInt" THEN {c.number} \cap ValuesOf(ch.format) ELSE {}
IntValue(c) ==
    IF c.type = "Int" THEN {c.number}
    ELSE IF c.type = "UInt" THEN {c.number} \cap ValuesOf("int") ELSE {}
FloatValue(c) ==
    IF c.type = "Float" THEN {c.number}
    ELSE IF c.type \in {"UInt", "Int"} THEN {c.number * Unit} ELSE {}
StringValue(c) ==
    IF c.type = "String" /\ Len(c.text.chars) <= MaxStringBytes
    THEN {Terminated(c.text.chars)} ELSE {}
DecodedValue(c) == IF c.type = "String" /\ c.text.decodes THEN {c.text.decoded} ELSE {}
Converted(c, ch) ==
    CASE ch.format \in {"bool"} \cup UnsignedFormats -> UnsignedValue(c, ch)
      [] ch.format = "int" -> IntValue(c)
      [] ch.format = "float" -> FloatValue(c)
      [] ch.format = "string" -> StringValue(c)
      [] ch.format \in {"data", "tlv8"} -> DecodedValue(c)

\* The outcomes of passing a value to the write handler.
Passed(ch, v) ==
    IF "write" \notin ch.handlers
    THEN {[error |-> "None", calls |-> <<>>, failure |-> "handleWrite"]}
    ELSE UNION {IF ok THEN {[error |-> e, failure |-> "None",
                             calls |-> <<Call("write", RoundValueToStep(ch, v), e)>>] :
                                e \in WriteErrors \cup {"None"}}
                ELSE {[error |-> "InvalidData", calls |-> <<>>, failure |-> "None"]} :
                    ok \in IsValueFulfillingConstraints(ch, v)}
Write8(c, ch) ==
    IF Rejection(c, ch) # "Success"
    THEN {[status |-> Rejection(c, ch), calls |-> <<>>, failure |-> "None"]}
    ELSE IF ch.format = "tlv8" /\ c.type # "String"
    THEN {[status |-> "Success", calls |-> <<>>, failure |-> "None"]}
    ELSE IF Converted(c, ch) = {}
    THEN {[status |-> "InvalidValueInWrite", calls |-> <<>>, failure |-> "None"]}
    ELSE IF ch.format = "string" /\ Len(c.text.chars) >= Room
    THEN {[status |-> "OutOfResources", calls |-> <<>>, failure |-> "None"]}
    ELSE UNION {{[status |-> ConvertErrorToStatusCode(r.error), calls |-> r.calls,
                  failure |-> r.failure] : r \in Passed(ch, v)} : v \in Converted(c, ch)}

\* The value is read again if the characteristic has a write response; what
\* was read is kept if it was asked for.
Responses(c, ch, write) ==
    IF write.failure # "None"
    THEN {[Unread(write.status) EXCEPT !.failure = write.failure, !.calls = write.calls]}
    ELSE IF write.status # "Success" \/ (~c.response /\ "wr" \notin ch.properties)
    THEN {[Unread(write.status) EXCEPT !.calls = write.calls]}
    ELSE IF "wr" \notin ch.properties
    THEN {[Unread("ReadFromWriteOnlyCharacteristic") EXCEPT !.calls = write.calls]}
    ELSE {[(IF c.response \/ r.status # "Success" THEN r
            ELSE [r EXCEPT !.position = position, !.start = 0, !.length = 0, !.value = 0])
            EXCEPT !.calls = write.calls \o @] : r \in HandleReadRequest(ch, handled + 1)}
\* A context of a write: first its events, then its value, whose status counts.
HandleCharacteristicWrite(c, ch) ==
    LET s == Subscribe(c, ch)
    IN  IF c.type = "None" /\ c.ev = "undefined" THEN Answer("InvalidValueInWrite")
        ELSE IF c.type = "None"
        THEN Done(Unread(s.status), s.status, s.list, s.flags, s.calls)
        ELSE \E write \in Write8(c, ch) : \E result \in Responses(c, ch, write) :
                Done(result, result.status, s.list, s.flags, s.calls)
HandleWrites ==
    LET c == items[handled + 1]
        found == FindCharacteristic(c.iid)
    IN  /\ IsNext({"PutCharacteristics"})
        /\ \/ found = {} /\ Answer("ResourceDoesNotExist")
           \/ \E ch \in found :
                IF c.type # "None" /\ "tw" \in ch.properties /\ ~scenario.timed
                THEN Answer("InvalidValueInWrite")
                ELSE HandleCharacteristicWrite(c, ch)

-----------------------------------------------------------------------------
(* Reads and writes over BLE. *)

BLEMethods == {"Read", "Write", "ExecuteWrite"}
Secured(secure, plain, ch) ==
    LET wanted == IF scenario.secured THEN secure ELSE plain
    IN  IF wanted \in ch.properties THEN "Success"
        ELSE IF ~scenario.secured /\ secure \in ch.properties
        THEN "InsufficientAuthentication"
        ELSE "UnsupportedPDU"
BLEAnswer(status, told) ==
    [Unread(status) EXCEPT !.calls = told]
BLEReadStatus(ch) ==
    IF Secured("pr", "prs", ch) # "Success" THEN Secured("pr", "prs", ch)
    ELSE IF ReadRequiresAdmin(ch) /\ ~scenario.admin THEN "InsufficientAuthentication"
    ELSE "Success"
SerializedValues(ch) ==
    IF ch.format \in Texts8 THEN HandlerLengths(ch, 1) ELSE HandlerNumbers(ch)
\* The outcomes of a read, after what else has been called; a value that
\* does not fit the response is an error like those of the handler.
BLERead(ch, told) ==
    IF BLEReadStatus(ch) # "Success" THEN {BLEAnswer(BLEReadStatus(ch), told)}
    ELSE IF "read" \notin ch.handlers
    THEN {[BLEAnswer("Success", told) EXCEPT !.failure = "handleRead"]}
    ELSE {BLEAnswer("InvalidRequest", Append(told, Call("read", 0, e))) : e \in ReadErrors}
         \cup {BLEAnswer("Success", Append(told, Call("read", v, "None"))) :
                    v \in SerializedValues(ch)}

BLEWriteStatus(ch) ==
    IF Secured("pw", "pws", ch) # "Success" THEN Secured("pw", "pws", ch)
    ELSE IF WriteRequiresAdmin(ch) /\ ~scenario.admin THEN "InsufficientAuthentication"
    ELSE IF "tw" \in ch.properties /\ scenario.method = "Write" THEN "InvalidRequest"
    ELSE "Success"
HasTLV(c, tlv) == tlv \in DOMAIN c.tlvs
IsMalformed(c, ch) ==
    \/ ~HasTLV(c, "value")
    \/ HasTLV(c, "origin") /\ c.tlvs.origin \notin {0, 1}
    \/ HasTLV(c, "aad") /\ "aa" \in ch.properties /\ ~HasTLV(c, "origin")
    \/ HasTLV(c, "returnResponse") /\ c.tlvs.returnResponse # 1

\* The values of a body lie behind each other, each moved over its header
\* and with two bytes of zero behind it.
Size(c, tlv) == IF tlv \in {"value", "aad"} THEN c.tlvs[tlv] ELSE 1
Before(c, i) == FoldLeft(+, 0, [j \in 1 .. i - 1 |-> Size(c, c.order[j]) + 2])
IndexOfTLV(c, tlv) == SelectInSeq(c.order, LAMBDA t : t = tlv)
Place(c, tlv) == Before(c, IndexOfTLV(c, tlv))
Body8(c) ==
    [k \in 0 .. BufferSize - 1 |->
        IF \E i \in DOMAIN c.order : k - Before(c, i) \in 0 .. Size(c, c.order[i]) - 1
        THEN LET i == CHOOSE i \in DOMAIN c.order :
                            k - Before(c, i) \in 0 .. Size(c, c.order[i]) - 1
             IN  [of |-> i, at |-> k - Before(c, i)]
        ELSE IF k < Before(c, Len(c.order) + 1) THEN [of |-> -1, at |-> 0] ELSE Free]
Move(memory, to, from, n) ==
    [k \in DOMAIN memory |->
        IF k \in to .. to + n - 1 THEN memory[from + k - to] ELSE memory[k]]
\* The reader is behind the body now, and what is left of the buffer is its
\* own: the value is moved there, with most free space behind it, and the
\* authorization data before it or to the end.
ValueRoom(left, auth) == left - auth
Moved(c, ch) ==
    LET bytes == Before(c, Len(c.order) + 1)
        left == BufferSize - bytes
        auth == IF HasTLV(c, "aad") /\ "aa" \in ch.properties THEN c.tlvs.aad + 1 ELSE 0
        first == auth # 0 /\ Place(c, "aad") < Place(c, "value")
        authStart == IF first THEN bytes ELSE BufferSize - auth
        valueStart == IF first THEN bytes + auth ELSE bytes
        memory == IF auth = 0 THEN Body8(c)
                  ELSE Move(Body8(c), authStart, Place(c, "aad"), auth)
    IN  [Unread("Success") EXCEPT
            !.cells = Move(memory, valueStart, Place(c, "value"), c.tlvs.value + 1),
            !.start = valueStart, !.length = ValueRoom(left, auth),
            !.position = IF auth = 0 THEN BufferSize ELSE authStart,
            !.failure = IF auth + c.tlvs.value + 1 > left THEN "overflow" ELSE "None"]

\* Every bit pattern is a float.
BLEFloat(c) == {c.number}
BLENumber(c, ch) ==
    IF ch.format = "float" THEN BLEFloat(c) ELSE {c.number} \cap ValuesOf(ch.format)
BLEText(c, ch) ==
    IF ch.format = "string" /\ Contains(c.text.chars, "NUL") THEN {} ELSE {c.text.chars}
BLEConverted(c, ch) ==
    IF ch.format \in Texts8 THEN BLEText(c, ch) ELSE BLENumber(c, ch)
BLEErrorStatus(e) ==
    CASE e = "None" -> "Success"
      [] e = "NotAuthorized" -> "InsufficientAuthorization"
      [] OTHER -> "InvalidRequest"
\* A value is passed to its handler; then it is read if a response is wanted
\* or the characteristic always has one, which is sent if it is wanted.
BLEWritten(c, ch) ==
    LET moved == Moved(c, ch)
        with(r) == [r EXCEPT !.cells = moved.cells, !.start = moved.start,
                             !.length = moved.length, !.position = moved.position]
        ends(w) == \/ w.error # "None" \/ w.failure # "None"
                   \/ ~HasTLV(c, "returnResponse") /\ "wr" \notin ch.properties
        passed == UNION {Passed(ch, v) : v \in BLEConverted(c, ch)}
    IN  IF moved.failure # "None" THEN {moved}
        ELSE IF scenario.method = "ExecuteWrite" /\ ~(HasTLV(c, "ttl") /\ c.tlvs.ttl # 0)
        THEN {with(Unread("InvalidRequest"))}
        ELSE IF scenario.method = "ExecuteWrite" /\ scenario.elapsed > c.tlvs.ttl
        THEN {with(Unread("UnsupportedPDU"))}
        ELSE IF BLEConverted(c, ch) = {} THEN {with(Unread("InvalidRequest"))}
        ELSE {with([BLEAnswer(BLEErrorStatus(w.error), w.calls) EXCEPT !.failure = w.failure]) :
                    w \in {x \in passed : ends(x)}}
             \cup UNION {{with(r) : r \in BLERead(ch, w.calls)} :
                            w \in {x \in passed : ~ends(x)}}
BLEOutcomes(c, ch) ==
    IF scenario.method = "Read" THEN BLERead(ch, <<>>)
    ELSE IF BLEWriteStatus(ch) # "Success" THEN {Unread(BLEWriteStatus(ch))}
    ELSE IF IsMalformed(c, ch) THEN {Unread("InvalidRequest")}
    ELSE BLEWritten(c, ch)
HandleBLE ==
    LET c == items[handled + 1]
    IN  /\ IsNext(BLEMethods)
        /\ \E ch \in FindCharacteristic(c.iid) : \E r \in BLEOutcomes(c, ch) :
                Done(r, r.status, eventNotifications, numEventNotificationFlags, <<>>)

-----------------------------------------------------------------------------
\* The server has started with the accessory, and reads a request.
AccessInit ==
    /\ \E group \in Scenarios : scenario \in group
    /\ RegularAccessoryIsValid(scenario.accessory)
    /\ items = scenario.items
    /\ handled = 0 /\ position = 0
    /\ cells = [k \in 0 .. BufferSize - 1 |-> Free]
    /\ eventNotifications = scenario.events
    /\ numEventNotificationFlags = Cardinality({i \in DOMAIN eventNotifications :
                                                    eventNotifications[i].flag})
    /\ calls = <<>>
    /\ failure = "None"
AccessNext == HandleReads \/ HandleWrites \/ HandleBLE
AccessSpec == AccessInit /\ [][AccessNext]_accessVars

-----------------------------------------------------------------------------
(* What a scenario is made of. *)

Formats8 == {"bool", "int", "float"} \cup UnsignedFormats \cup Texts8
Ranges8 == [start : Int, end : Int]
Definitions8 ==
    {ch \in [iid : STRING, type : STRING, format : Formats8,
             properties : SUBSET DOMAIN Needs, admin : SUBSET {"both", "read", "write"},
             handlers : SUBSET {"read", "write"}, min : Int, max : Int, step : Int,
             validValues : SUBSET Seq(Int), ranges : SUBSET Seq(Ranges8),
             apple : BOOLEAN, maxLength : Nat, controlPoint : BOOLEAN] :
        /\ ch.format \notin {"int", "float"} => ch.step \in Nat
        /\ ch.format = "int" => {ch.min, ch.max} \subseteq ValuesOf("int")}
Services8 ==
    [iid : STRING, linked : Seq(STRING), hidden : BOOLEAN, characteristics : Seq(Definitions8)]
Accessories8 == [aid : Nat, category : STRING, services : Seq(Services8)]
JSONTexts == [chars : Seq(STRING), decodes : BOOLEAN, decoded : Seq(STRING)]
TLVNames == {"value", "aad", "origin", "returnResponse", "ttl"}
IsContext(c) ==
    c \in [iid : STRING, type : STRING, number : Int, text : JSONTexts, ev : STRING,
           response : BOOLEAN, authData : STRING, status : STRING, value : Int,
           start : Int, length : Int, tlvs : [TLVNames \cap DOMAIN c.tlvs -> Nat],
           order : Seq(TLVNames)]
Events8 == [iid : STRING, flag : BOOLEAN]
AtMostOnce(list) == \A i, j \in DOMAIN list : list[i].iid = list[j].iid => i = j
IsScenario(s) ==
    /\ s \in [accessory : Accessories8, method : STRING, admin : BOOLEAN, timed : BOOLEAN,
              secured : BOOLEAN, elapsed : Nat, numbers : SUBSET Int,
              items : Seq(Range(s.items)), events : Seq(Events8)]
    /\ \A c \in Range(s.items) : IsContext(c)
    /\ AtMostOnce(s.events)
Errors8 == {"Unknown", "InvalidState", "InvalidData", "OutOfResources", "NotAuthorized", "Busy"}
\* The errors are those that the server lets a handler return.
ASSUME AccessAssumption ==
    /\ \A group \in Scenarios : \A s \in group : IsScenario(s)
    /\ ReadErrors \subseteq Errors8 /\ WriteErrors \subseteq Errors8
    /\ BufferSize \in Nat /\ MaxStringBytes \in Nat /\ MaxEventNotifications \in Nat
    /\ AlwaysFits \in BOOLEAN
    /\ Unit \in Nat \ {0} /\ IntMax \in Nat

-----------------------------------------------------------------------------
(* What the accessory relies on. *)

Current == items[handled]
Definition == FindCharacteristic(Current.iid)
CallsOf(op) == {i \in DOMAIN calls : calls[i].op = op}
IsWrite == \/ scenario.method \in {"Write", "ExecuteWrite"}
           \/ scenario.method = "PutCharacteristics" /\ Current.type # "None"
\* The value that a controller means, as the accessory has to be told it: a
\* number for a float comes in units only if it has a point.
MeantFloat(c) ==
    IF c.type = "Float" \/ scenario.method # "PutCharacteristics" THEN c.number
    ELSE Unit * c.number
Meant(c, ch, v) ==
    CASE ch.format = "string" -> v = c.text.chars
      [] ch.format \in {"data", "tlv8"} ->
            v = IF scenario.method = "PutCharacteristics" THEN c.text.decoded ELSE c.text.chars
      [] ch.format = "float" -> 10 * v - 10 * MeantFloat(c) \in -ch.step .. ch.step
      [] OTHER -> v = c.number
Legal(ch, v) ==
    CASE ch.format = "bool" -> v \in {0, 1}
      [] ch.format \in {"string", "data"} -> Len(v) <= ch.maxLength
      [] ch.format = "tlv8" -> TRUE
      [] OTHER -> /\ ch.min <= v /\ v <= ch.max
                  /\ ch.step = 0 \/ \E k \in 0 .. v - ch.min : v = ch.min + k * ch.step
                  /\ ch.format # "float" => v \in ValuesOf(ch.format)
                  /\ ch.format = "uint8" => IsInValidValues(ch, v)
Allowed(ch) ==
    /\ {"pw", "pws"} \cap ch.properties # {}
    /\ WriteRequiresAdmin(ch) => scenario.admin
    /\ "tw" \in ch.properties => scenario.timed \/ scenario.method = "ExecuteWrite"
\* A write is reported as a success only if the accessory has been told,
\* once, the value that was meant; whatever it is told is a value that its
\* definition allows, from a controller that is permitted to write it; and it
\* is asked for its response only after that.  HandleCharacteristicWrite
\* converts and checks each format in code of its own.
WritesAsAsked ==
    handled > 0 /\ failure = "None" /\ IsWrite =>
        \A ch \in Definition :
            /\ \A i, j \in CallsOf("write") : i = j
            /\ Current.status = "Success" =>
                    \E i \in CallsOf("write") : calls[i].error = "None"
            /\ \A i \in CallsOf("write") :
                    /\ Allowed(ch)
                    /\ Legal(ch, calls[i].value)
                    /\ Meant(Current, ch, calls[i].value)
                    /\ \A j \in CallsOf("read") : i < j /\ calls[i].error = "None"

\* The server does not look whether an int is more than an int above its
\* minimum, and whether a range of floats ends in a step; over IP it passes a
\* string up to its first NUL, and nothing of a number for a TLV8 value.
IsPlain(c, ch) ==
    /\ ch.format = "int" => ch.max - ch.min <= IntMax
    /\ ch.format = "float" /\ ch.step # 0 =>
            IsFinite(ch.min) /\ IsFinite(ch.max) /\ (ch.max - ch.min) % ch.step = 0
    /\ scenario.method = "PutCharacteristics" =>
            /\ ch.format = "string" => ~Contains(c.text.chars, "NUL")
            /\ ch.format = "tlv8" => c.type \in {"String", "None"}
PlainWrite == \A ch \in Definition : IsPlain(Current, ch)

\* A handler that is missing as the validation of the accessory does not look for
\* it: the one of what can be read, or written, without security only.
IsUnchecked(handler, ch) ==
    \/ /\ handler = "handleRead" /\ "read" \notin ch.handlers /\ "prs" \in ch.properties
       /\ {"pr", "ev", "wr", "broadcast", "disconnected"} \cap ch.properties = {}
    \/ /\ handler = "handleWrite" /\ "write" \notin ch.handlers /\ "pws" \in ch.properties
       /\ {"pw", "wr"} \cap ch.properties = {}
\* Handlers are called without a check, so the validation must have asked for
\* whatever handler any way of reading and writing comes to: the value, the
\* response to a write, a timed write.  It says that it does: "Characteristic
\* marked as ble.readableWithoutSecurity but no handleRead callback set"
\* (HAPAccessoryValidation.c:505, 516), but it looks at readable and writable
\* again there.  The only handlers that may be missing when they are called
\* are those it forgets, and only over BLE and in a session without security.
OnlyUncheckedHandlersMissing ==
    failure \in {"handleRead", "handleWrite"} =>
        /\ scenario.method \in BLEMethods /\ ~scenario.secured
        /\ \E ch \in Definition : IsUnchecked(failure, ch)

\* What the validation says of an accessory: with it, no handler is missing.
PlainAccessHandled ==
    \A i \in DOMAIN scenario.accessory.services :
        LET characteristics == scenario.accessory.services[i].characteristics
        IN  \A k \in DOMAIN characteristics :
                /\ "prs" \in characteristics[k].properties => "read" \in characteristics[k].handlers
                /\ "pws" \in characteristics[k].properties => "write" \in characteristics[k].handlers
HandlersExist == failure \notin {"handleRead", "handleWrite"}

Holds(start, n, owner) ==
    /\ \A k \in 0 .. n - 1 : cells[start + k] = [of |-> owner, at |-> k]
    /\ cells[start + n] = [of |-> -1, at |-> 0]
IsKept(i) ==
    /\ items[i].status = "Success"
    /\ scenario.method = "PutCharacteristics" => items[i].response /\ items[i].type # "None"
    /\ \E ch \in FindCharacteristic(items[i].iid) :
            ch.format \in Texts8
            /\ (scenario.method # "PutCharacteristics" => ~SwitchRests(ch))
\* Every text that was read over IP is still in the buffer when the response
\* is written, and terminated.
ReadsKept ==
    scenario.method \notin BLEMethods /\ failure = "None" =>
        \A i \in 1 .. handled : IsKept(i) => Holds(items[i].start, items[i].length, i)
\* A write handler over BLE gets the value and the authorization data of the
\* request, in regions of the buffer that are apart.
AuthorizationKept ==
    handled > 0 /\ failure = "None" /\ scenario.method \in BLEMethods
            /\ CallsOf("write") # {} =>
        LET c == Current
            room == c.start .. c.start + c.length - 1
        IN  /\ Holds(c.start, c.tlvs.value, IndexOfTLV(c, "value"))
            /\ c.start .. c.start + c.tlvs.value \subseteq room
            /\ room \subseteq 0 .. BufferSize - 1
            /\ HasTLV(c, "aad") /\ (\E ch \in Definition : "aa" \in ch.properties) =>
                    /\ Holds(position, c.tlvs.aad, IndexOfTLV(c, "aad"))
                    /\ room \cap (position .. position + c.tlvs.aad) = {}
\* What is read or received stays where it is until it is used.
TextsKept == ReadsKept /\ AuthorizationKept

\* A characteristic has events at most once, and as many flags are counted as
\* are set: HAPIPAccessoryServer notifies until the count is zero.
FlagsCounted ==
    /\ \A i, j \in DOMAIN eventNotifications :
            eventNotifications[i].iid = eventNotifications[j].iid => i = j
    /\ numEventNotificationFlags =
            Cardinality({i \in DOMAIN eventNotifications : eventNotifications[i].flag})
=============================================================================
