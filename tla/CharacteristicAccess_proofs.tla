---------------------- MODULE CharacteristicAccess_proofs ----------------------
(***************************************************************************)
(* Proofs about reads and writes of characteristics.                       *)
(***************************************************************************)
EXTENDS CharacteristicAccess, FiniteSetTheorems, SequenceTheorems, TLAPS

-----------------------------------------------------------------------------
(* Definitions that are found. *)

IsAccessory == IsScenario(scenario) /\ RegularAccessoryIsValid(scenario.accessory)

\* What is found has been validated.
LEMMA FoundIsValid ==
    ASSUME IsAccessory, NEW iid, NEW ch \in FindCharacteristic(iid)
    PROVE  ch \in Definitions8 /\ PropertiesAreValid(ch) /\ ConstraintsAreValid(ch)
<1> DEFINE services == scenario.accessory.services
<1>0. PICK p \in Places(iid) : ch = DefinitionAt(p)
  BY DEF FindCharacteristic
<1>a. PICK n \in DOMAIN services : p \in {n} \X DOMAIN services[n].characteristics
  BY <1>0 DEF Places
<1>1. PICK i \in DOMAIN services : \E k \in DOMAIN services[i].characteristics :
            ch = services[i].characteristics[k]
  BY <1>0, <1>a DEF DefinitionAt
<1>2. PICK k \in DOMAIN services[i].characteristics : ch = services[i].characteristics[k]
  BY <1>1
<1>3. services \in Seq(Services8)
  BY DEF IsAccessory, IsScenario, Accessories8
<1>4. services[i] \in Services8
  BY <1>3
<1>5. services[i].characteristics \in Seq(Definitions8)
  BY <1>4 DEF Services8
<1>6. ch \in Definitions8
  BY <1>2, <1>5
<1>7. ServiceIsValid(services[i], services)
  BY DEF IsAccessory, RegularAccessoryIsValid, AccessoryIsValid
<1> QED
  BY <1>2, <1>6, <1>7 DEF ServiceIsValid

\* There is one first place at most.
LEMMA FoundIsOne ==
    ASSUME IsAccessory, NEW iid, NEW a \in FindCharacteristic(iid),
           NEW b \in FindCharacteristic(iid)
    PROVE  a = b
<1> DEFINE services == scenario.accessory.services
           IsFirst(p) == p \in Places(iid) /\ \A r \in Places(iid) : ~IsBefore(r, p)
<1>1. PICK p : IsFirst(p) /\ a = DefinitionAt(p)
  BY DEF FindCharacteristic
<1>2. PICK q : IsFirst(q) /\ b = DefinitionAt(q)
  BY DEF FindCharacteristic
<1>3. services \in Seq(Services8)
  BY DEF IsAccessory, IsScenario, Accessories8
<1>4. ASSUME NEW r \in Places(iid)
      PROVE  /\ r[1] \in Nat /\ r[2] \in Nat
             /\ r = <<r[1], r[2]>>
  <2>1. PICK i \in DOMAIN services : r \in {i} \X DOMAIN services[i].characteristics
    BY DEF Places
  <2>2. services[i] \in Services8
    BY <1>3
  <2>3. services[i].characteristics \in Seq(Definitions8)
    BY <2>2 DEF Services8
  <2> QED
    BY <1>3, <2>1, <2>3
<1>5. p[1] = q[1] /\ p[2] = q[2]
  BY <1>1, <1>2, <1>4 DEF IsBefore
<1>6. p = q
  BY <1>1, <1>2, <1>4, <1>5
<1> QED
  BY <1>1, <1>2, <1>6

-----------------------------------------------------------------------------
(* The contexts of a request: what was asked stays, what is answered changes. *)

AskedFields ==
    {"iid", "type", "number", "text", "ev", "response", "authData", "tlvs", "order"}
AnsweredFields == {"status", "value", "start", "length"}
IsSameRequest(c, d) ==
    /\ DOMAIN c = AskedFields \cup AnsweredFields
    /\ \A f \in AskedFields : c[f] = d[f]
ItemsInv ==
    /\ IsAccessory
    /\ items \in Seq(Range(items)) /\ Len(items) = Len(scenario.items)
    /\ handled \in 0 .. Len(items)
    /\ \A i \in 1 .. Len(items) : IsSameRequest(items[i], scenario.items[i])

LEMMA ContextFields ==
    ASSUME NEW c, IsContext(c)
    PROVE  IsSameRequest(c, c)
BY DEF IsContext, IsSameRequest, AskedFields, AnsweredFields

LEMMA InitItems ==
    ASSUME AccessInit, AccessAssumption
    PROVE  ItemsInv
<1>1. IsScenario(scenario)
  BY DEF AccessInit, AccessAssumption
<1>2. scenario.items \in Seq(Range(scenario.items))
  BY <1>1 DEF IsScenario
<1>3. \A i \in 1 .. Len(scenario.items) : IsContext(scenario.items[i])
  BY <1>1, <1>2 DEF IsScenario, Range
<1> QED
  BY <1>1, <1>2, <1>3, ContextFields DEF AccessInit, ItemsInv, IsAccessory

LEMMA AnsweredIsSame ==
    ASSUME NEW c, NEW d, NEW result, NEW status, IsSameRequest(c, d)
    PROVE  IsSameRequest(Answered(c, result, status), d)
BY DEF Answered, IsSameRequest, AskedFields, AnsweredFields

\* Every step is the end of a context.
IsStep(result, status, list, flags, told) ==
    /\ failure = "None" /\ handled < Len(items)
    /\ Done(result, status, list, flags, told)

LEMMA DoneItems ==
    ASSUME ItemsInv, NEW result, NEW status, NEW list, NEW flags, NEW told,
           IsStep(result, status, list, flags, told)
    PROVE  /\ ItemsInv'
           /\ Len(items') = Len(items) /\ handled + 1 \in 1 .. Len(items)
           /\ handled' = handled + 1 /\ scenario' = scenario
           /\ \A i \in 1 .. Len(items) : i # handled + 1 => items'[i] = items[i]
           /\ Current' = Answered(items[handled + 1], result, status)
<1> DEFINE c == items[handled + 1]
           e == Answered(c, result, status)
           S == Range(items) \cup {e}
<1>1. items \in Seq(S) /\ handled + 1 \in 1 .. Len(items)
  BY DEF ItemsInv, IsStep
<1>2. items' = [items EXCEPT ![handled + 1] = e] /\ handled' = handled + 1
         /\ scenario' = scenario
  BY <1>1 DEF IsStep, Done
<1> HIDE DEF S, e
<1>3. /\ items' \in Seq(S) /\ Len(items') = Len(items)
      /\ \A j \in 1 .. Len(items) : items'[j] = IF j = handled + 1 THEN e ELSE items[j]
  BY <1>1, <1>2, ExceptSeq DEF S
<1>4. items' \in Seq(Range(items'))
  BY <1>3, SeqOfRange
<1>5. IsSameRequest(e, scenario.items[handled + 1])
  BY <1>1, AnsweredIsSame DEF ItemsInv, e
<1>6. IsAccessory'
  BY <1>2 DEF ItemsInv, IsAccessory
<1> QED
  BY <1>1, <1>2, <1>3, <1>4, <1>5, <1>6 DEF ItemsInv, Current, e

-----------------------------------------------------------------------------
(* Outcomes. *)

HandlerFailures == {"handleRead", "handleWrite"}
ResultFields ==
    {"status", "value", "start", "length", "failure", "position", "cells", "calls"}
\* At most one call, of a read handler.
IsReading(told) ==
    told = <<>> \/ \E v, e : told = <<Call("read", v, e)>>
IsOutcome(r) == DOMAIN r = ResultFields /\ r.failure \notin HandlerFailures
IsFailed(r) == DOMAIN r = ResultFields /\ r.failure \in HandlerFailures

LEMMA UnreadIsOutcome ==
    ASSUME NEW status
    PROVE  IsOutcome(Unread(status)) /\ IsReading(Unread(status).calls)
BY DEF Unread, IsOutcome, IsReading, ResultFields, HandlerFailures

LEMMA ReadText8IsOutcome ==
    ASSUME NEW ch, NEW n, NEW owner
    PROVE  /\ IsOutcome(ReadText8(ch, n, owner))
           /\ IsReading(ReadText8(ch, n, owner).calls)
<1> DEFINE length == EncodedLength(ch, n)
           read == [Unread("Success") EXCEPT !.calls = <<Call("read", n, "None")>>]
<1>1. DOMAIN read = ResultFields /\ read.failure = "None"
         /\ read.calls = <<Call("read", n, "None")>>
  BY DEF Unread, ResultFields
<1> HIDE DEF read
<1> DEFINE text == ReadText8(ch, n, owner)
           emptied == Store(0, 0)
           stored == Store(length, owner)
<1>2. CASE length > Room
  <2>1. text = [read EXCEPT !.failure = "encoded_capacity"]
    BY <1>2, Zenon DEF ReadText8, read
  <2> HIDE DEF text
  <2>2. IsOutcome(text) /\ text.calls = read.calls
    BY <1>1, <2>1 DEF IsOutcome, ResultFields, HandlerFailures
  <2> QED
    BY <1>1, <2>2 DEF IsReading, text
<1>3. CASE ~(length > Room) /\ length = Room
  <2>1. text = [read EXCEPT !.status = "OutOfResources", !.cells = emptied]
    BY <1>3, Zenon DEF ReadText8, read
  <2> HIDE DEF text, emptied
  <2>2. IsOutcome(text) /\ text.calls = read.calls
    BY <1>1, <2>1 DEF IsOutcome, ResultFields, HandlerFailures
  <2> QED
    BY <1>1, <2>2 DEF IsReading, text
<1>4. CASE ~(length > Room) /\ length # Room
  <2>1. text = [read EXCEPT !.start = position, !.length = length,
                            !.position = Behind(length), !.cells = stored]
    BY <1>4, Zenon DEF ReadText8, read
  <2> HIDE DEF text, stored, length
  <2>2. IsOutcome(text) /\ text.calls = read.calls
    BY <1>1, <2>1 DEF IsOutcome, ResultFields, HandlerFailures
  <2> QED
    BY <1>1, <2>2 DEF IsReading, text
<1> QED
  BY <1>2, <1>3, <1>4, Zenon

LEMMA ReadNumberIsOutcome ==
    ASSUME NEW ch, NEW r \in ReadNumber(ch)
    PROVE  IsOutcome(r) /\ IsReading(r.calls)
<1> DEFINE u == Unread("Success")
<1>1. DOMAIN u = ResultFields /\ u.failure = "None"
  BY DEF Unread, ResultFields
<1>2. PICK v : r = [u EXCEPT !.value = v, !.calls = <<Call("read", v, "None")>>]
  BY DEF ReadNumber
<1> HIDE DEF u
<1> QED
  BY <1>1, <1>2 DEF IsOutcome, IsReading, ResultFields, HandlerFailures

LEMMA ReadIsOutcome ==
    ASSUME NEW ch, "read" \in ch.handlers, NEW owner, NEW r \in HandleReadRequest(ch, owner)
    PROVE  IsOutcome(r) /\ IsReading(r.calls)
<1>1. CASE r = Unread("OutOfResources")
  BY <1>1, UnreadIsOutcome
<1>2. CASE \E e \in ReadErrors :
            r = [Unread(ConvertErrorToStatusCode(e)) EXCEPT
                    !.calls = <<Call("read", 0, e)>>,
                    !.cells = IF ch.format \in Texts8 THEN Store(0, 0) ELSE cells]
  <2>1. PICK e \in ReadErrors :
            r = [Unread(ConvertErrorToStatusCode(e)) EXCEPT
                    !.calls = <<Call("read", 0, e)>>,
                    !.cells = IF ch.format \in Texts8 THEN Store(0, 0) ELSE cells]
    BY <1>2
  <2> DEFINE u == Unread(ConvertErrorToStatusCode(e))
             memory == IF ch.format \in Texts8 THEN Store(0, 0) ELSE cells
             told == <<Call("read", 0, e)>>
  <2>2. DOMAIN u = ResultFields /\ u.failure = "None"
    BY DEF Unread, ResultFields
  <2>3. IsReading(told)
    BY DEF IsReading
  <2>4. r = [u EXCEPT !.calls = told, !.cells = memory]
    BY <2>1
  <2> HIDE DEF u, memory, told
  <2> QED
    BY <2>2, <2>3, <2>4 DEF IsOutcome, ResultFields, HandlerFailures
<1>3. CASE \E n : r = ReadText8(ch, n, owner)
  BY <1>3, ReadText8IsOutcome
<1>4. CASE r \in ReadNumber(ch)
  BY <1>4, ReadNumberIsOutcome
<1> QED
  BY <1>1, <1>2, <1>3, <1>4 DEF HandleReadRequest

\* A value that was accepted, and what the handler made of it.
IsPassed(ch, v, e) ==
    TRUE \in IsValueFulfillingConstraints(ch, v) /\ e \in WriteErrors \cup {"None"}
WriteCall(ch, v, e) == Call("write", RoundValueToStep(ch, v), e)

\* A check passes or it does not.
LEMMA ChecksAreBoolean ==
    ASSUME NEW ch \in Definitions8, NEW v
    PROVE  IsValueFulfillingConstraints(ch, v) \subseteq BOOLEAN
<1>1. IsValueInRange(ch, v) \subseteq BOOLEAN
  <2>1. ((v - ch.min) % ch.step = 0) \in BOOLEAN
    OBVIOUS
  <2>2. OnStep(ch, v) \subseteq BOOLEAN
    BY <2>1 DEF OnStep
  <2> QED
    BY <2>2 DEF IsValueInRange
<1>2. UInt8Passes(ch, v) \subseteq BOOLEAN
  <2>1. \A b : (b /\ IsInValidValues(ch, v)) \in BOOLEAN
    OBVIOUS
  <2> QED
    BY <2>1 DEF UInt8Passes
<1>3. IsInRangeWithTolerance(ch, v) \in BOOLEAN
  <2>1. (ch.max = Infinity) \in BOOLEAN /\ (ch.min = -Infinity) \in BOOLEAN
    OBVIOUS
  <2>2. (/\ ch.min <= v /\ v <= ch.max
         /\ \/ ch.step = 0
            \/ ch.min # -Infinity /\ 10 * Distance(ch, v) <= ch.step) \in BOOLEAN
    OBVIOUS
  <2> QED
    BY <2>1, <2>2, Zenon DEF IsInRangeWithTolerance
<1>4. \A b : (Len(v) <= b) \in BOOLEAN
  OBVIOUS
<1>5. ch.format \in Formats8
  BY DEF Definitions8
<1>6. /\ DataPasses(ch, v) \subseteq BOOLEAN /\ BoolPasses(ch, v) \subseteq BOOLEAN
      /\ FloatPasses(ch, v) \subseteq BOOLEAN /\ StringPasses(ch, v) \subseteq BOOLEAN
      /\ TLV8Passes(ch, v) \subseteq BOOLEAN
  BY <1>3, <1>4, Zenon DEF DataPasses, BoolPasses, FloatPasses, StringPasses, TLV8Passes
<1> QED
  BY <1>1, <1>2, <1>5, <1>6 DEF IsValueFulfillingConstraints, Formats8, UnsignedFormats, Texts8,
     UInt16Passes, UInt32Passes, UInt64Passes, IntPasses

LEMMA PassedOutcome ==
    ASSUME NEW ch \in Definitions8, "write" \in ch.handlers, NEW v, NEW r \in Passed(ch, v)
    PROVE  /\ r.failure = "None"
           /\ \/ r.calls = <<>> /\ r.error = "InvalidData"
              \/ \E e : /\ IsPassed(ch, v, e) /\ r.error = e
                        /\ r.calls = <<WriteCall(ch, v, e)>>
<1>1. PICK ok \in IsValueFulfillingConstraints(ch, v) :
        r \in IF ok THEN {[error |-> e, failure |-> "None",
                          calls |-> <<WriteCall(ch, v, e)>>] : e \in WriteErrors \cup {"None"}}
             ELSE {[error |-> "InvalidData", calls |-> <<>>, failure |-> "None"]}
  BY DEF Passed, WriteCall
<1>2. CASE ok = TRUE
  <2>1. TRUE \in IsValueFulfillingConstraints(ch, v)
    BY <1>1, <1>2, Zenon
  <2>2. r \in {[error |-> e, failure |-> "None",
               calls |-> <<WriteCall(ch, v, e)>>] : e \in WriteErrors \cup {"None"}}
    BY <1>1, <1>2, Zenon
  <2>3. PICK e \in WriteErrors \cup {"None"} :
            r = [error |-> e, failure |-> "None", calls |-> <<WriteCall(ch, v, e)>>]
    BY <2>2
  <2>4. IsPassed(ch, v, e)
    BY <2>1, <2>3, Zenon DEF IsPassed
  <2> QED
    BY <2>3, <2>4
<1>3. CASE ok = FALSE
  <2>1. r = [error |-> "InvalidData", calls |-> <<>>, failure |-> "None"]
    BY <1>1, <1>3, Zenon
  <2> QED
    BY <2>1
<1>4. ok \in BOOLEAN
  BY <1>1, ChecksAreBoolean, Zenon
<1> QED
  BY <1>2, <1>3, <1>4, Zenon

\* A write over IP: the handler is not called, and this is no success but of
\* a number for a TLV8 characteristic, or it is called with a value that
\* was accepted.
LEMMA Write8Outcome ==
    ASSUME NEW c, NEW ch \in Definitions8, "pw" \in ch.properties => "write" \in ch.handlers,
           NEW r \in Write8(c, ch)
    PROVE  /\ r.failure = "None"
           /\ \/ /\ r.calls = <<>>
                 /\ r.status = "Success" => ch.format = "tlv8" /\ c.type # "String"
              \/ \E v, e : /\ Rejection(c, ch) = "Success"
                           /\ v \in Converted(c, ch) /\ IsPassed(ch, v, e)
                           /\ r.calls = <<WriteCall(ch, v, e)>>
                           /\ r.status = ConvertErrorToStatusCode(e)
<1>1. CASE Rejection(c, ch) # "Success"
  BY <1>1 DEF Write8
<1>2. CASE Rejection(c, ch) = "Success"
  <2>1. "write" \in ch.handlers
    BY <1>2 DEF Rejection
  <2>2. CASE \E v \in Converted(c, ch) : \E p \in Passed(ch, v) :
                r = [status |-> ConvertErrorToStatusCode(p.error), calls |-> p.calls,
                     failure |-> p.failure]
    <3>1. PICK v \in Converted(c, ch) : \E p \in Passed(ch, v) :
                r = [status |-> ConvertErrorToStatusCode(p.error), calls |-> p.calls,
                     failure |-> p.failure]
      BY <2>2
    <3>2. PICK p \in Passed(ch, v) :
                r = [status |-> ConvertErrorToStatusCode(p.error), calls |-> p.calls,
                     failure |-> p.failure]
      BY <3>1
    <3>3. p.error = "InvalidData" => ConvertErrorToStatusCode(p.error) = "InvalidValueInWrite"
      BY DEF ConvertErrorToStatusCode
    <3>4. r.failure = p.failure /\ r.calls = p.calls
             /\ r.status = ConvertErrorToStatusCode(p.error)
      BY <3>2
    <3>5. CASE p.calls = <<>> /\ p.error = "InvalidData"
      BY <2>1, <3>3, <3>4, <3>5, PassedOutcome
    <3>6. CASE \E e : /\ IsPassed(ch, v, e) /\ p.error = e
                      /\ p.calls = <<WriteCall(ch, v, e)>>
      BY <1>2, <2>1, <3>4, <3>6, PassedOutcome
    <3> QED
      BY <2>1, <3>5, <3>6, PassedOutcome
  <2>3. CASE r \in {[status |-> "Success", calls |-> <<>>, failure |-> "None"]}
             /\ ch.format = "tlv8" /\ c.type # "String"
    BY <2>3
  <2>4. CASE \E s \in {"InvalidValueInWrite", "OutOfResources"} :
                r = [status |-> s, calls |-> <<>>, failure |-> "None"]
    BY <2>4
  <2> QED
    BY <1>2, <2>2, <2>3, <2>4 DEF Write8
<1> QED
  BY <1>1, <1>2

\* What the validation asks of the handlers.
LEMMA NeededHandlers ==
    ASSUME NEW ch, PropertiesAreValid(ch)
    PROVE  /\ "pr" \in ch.properties \/ "wr" \in ch.properties => "read" \in ch.handlers
           /\ "pw" \in ch.properties \/ "wr" \in ch.properties => "write" \in ch.handlers
           /\ "read" \notin ch.handlers =>
                {"pr", "ev", "wr", "broadcast", "disconnected"} \cap ch.properties = {}
           /\ "write" \notin ch.handlers => {"pw", "wr"} \cap ch.properties = {}
<1>1. /\ "pr" \in ch.properties => "read" \in ch.handlers
      /\ "ev" \in ch.properties => "read" \in ch.handlers
      /\ "wr" \in ch.properties => "read" \in ch.handlers /\ "write" \in ch.handlers
      /\ "broadcast" \in ch.properties => "read" \in ch.handlers
      /\ "disconnected" \in ch.properties => "read" \in ch.handlers
      /\ "pw" \in ch.properties => "write" \in ch.handlers
  BY DEF PropertiesAreValid, Needs
<1> QED
  BY <1>1

\* A handler that is called without a session although nobody has looked for it.
IsMissing(handler, ch) == ~scenario.secured /\ IsUnchecked(handler, ch)

LEMMA MissingHandlers ==
    ASSUME NEW ch, PropertiesAreValid(ch)
    PROVE  /\ BLEReadStatus(ch) = "Success" /\ "read" \notin ch.handlers =>
                    IsMissing("handleRead", ch)
           /\ BLEWriteStatus(ch) = "Success" /\ "write" \notin ch.handlers =>
                    IsMissing("handleWrite", ch)
<1>1. ASSUME BLEReadStatus(ch) = "Success", "read" \notin ch.handlers
      PROVE  IsMissing("handleRead", ch)
  <2>1. ~scenario.secured /\ "prs" \in ch.properties
    BY <1>1, NeededHandlers DEF BLEReadStatus, Secured
  <2> QED
    BY <1>1, <2>1, NeededHandlers DEF IsMissing, IsUnchecked
<1>2. ASSUME BLEWriteStatus(ch) = "Success", "write" \notin ch.handlers
      PROVE  IsMissing("handleWrite", ch)
  <2>1. ~scenario.secured /\ "pws" \in ch.properties
    BY <1>2, NeededHandlers DEF BLEWriteStatus, Secured
  <2> QED
    BY <1>2, <2>1, NeededHandlers DEF IsMissing, IsUnchecked
<1> QED
  BY <1>1, <1>2

\* A handler that is called by a write has been called by then.
LEMMA ToldBefore ==
    ASSUME NEW w, NEW v, w = <<>> \/ w = <<v>>
    PROVE  w \o <<>> = w
OBVIOUS

LEMMA ResponsesOutcome ==
    ASSUME NEW c, NEW ch \in Definitions8, PropertiesAreValid(ch),
           NEW write \in Write8(c, ch), NEW r \in Responses(c, ch, write)
    PROVE  /\ IsOutcome(r)
           /\ r.status = "Success" => write.status = "Success"
           /\ \E reads : /\ IsReading(reads) /\ r.calls = write.calls \o reads
                         /\ reads # <<>> => write.status = "Success"
<1>1. /\ write.failure = "None"
      /\ \E v : write.calls = <<>> \/ write.calls = <<v>>
  BY NeededHandlers, Write8Outcome
<1>2. write.calls \o <<>> = write.calls
  BY <1>1, ToldBefore
<1>3. IsReading(<<>>)
  BY DEF IsReading
<1>4. ASSUME NEW status, r = [Unread(status) EXCEPT !.calls = write.calls]
      PROVE  IsOutcome(r) /\ r.calls = write.calls /\ r.status = status
  BY <1>4 DEF Unread, IsOutcome, ResultFields, HandlerFailures
<1>5. CASE write.status # "Success" \/ (~c.response /\ "wr" \notin ch.properties)
  BY <1>1, <1>2, <1>3, <1>4, <1>5 DEF Responses
<1>6. CASE write.status = "Success" /\ c.response /\ "wr" \notin ch.properties
  BY <1>1, <1>2, <1>3, <1>4, <1>6 DEF Responses
<1>7. CASE write.status = "Success" /\ "wr" \in ch.properties
  <2>1. PICK read \in HandleReadRequest(ch, handled + 1) :
            r = [(IF c.response \/ read.status # "Success" THEN read
                  ELSE [read EXCEPT !.position = position, !.start = 0, !.length = 0, !.value = 0])
                 EXCEPT !.calls = write.calls \o @]
    BY <1>1, <1>7 DEF Responses
  <2>2. IsOutcome(read) /\ IsReading(read.calls)
    BY <1>7, NeededHandlers, ReadIsOutcome
  <2> DEFINE kept == IF c.response \/ read.status # "Success" THEN read
                     ELSE [read EXCEPT !.position = position, !.start = 0, !.length = 0, !.value = 0]
  <2>3. IsOutcome(kept) /\ kept.calls = read.calls
    BY <2>2 DEF IsOutcome, ResultFields
  <2>4. r = [kept EXCEPT !.calls = write.calls \o @]
    BY <2>1
  <2> HIDE DEF kept
  <2>5. IsOutcome(r) /\ r.calls = write.calls \o read.calls
    BY <2>3, <2>4 DEF IsOutcome, ResultFields
  <2> QED
    BY <1>7, <2>2, <2>5
<1> QED
  BY <1>5, <1>6, <1>7

\* Over BLE a handler may be needed that the validation has not looked for.
LEMMA BLEReadOutcome ==
    ASSUME NEW ch, PropertiesAreValid(ch),
           NEW told, told = <<>> \/ \E v : told = <<v>>, NEW r \in BLERead(ch, told)
    PROVE  \/ IsFailed(r) /\ IsMissing(r.failure, ch)
           \/ IsOutcome(r) /\ \E reads : IsReading(reads) /\ r.calls = told \o reads
<1>1. told \o <<>> = told /\ \A v : Append(told, v) = told \o <<v>>
  OBVIOUS
<1>2. ASSUME NEW status, NEW more, r = BLEAnswer(status, more)
      PROVE  IsOutcome(r) /\ r.calls = more
  BY <1>2 DEF BLEAnswer, Unread, IsOutcome, ResultFields, HandlerFailures
<1>3. CASE BLEReadStatus(ch) # "Success"
  BY <1>1, <1>2, <1>3 DEF BLERead, IsReading
<1>4. CASE BLEReadStatus(ch) = "Success" /\ "read" \in ch.handlers
  <2>1. PICK v, e, status : r = BLEAnswer(status, Append(told, Call("read", v, e)))
    BY <1>4 DEF BLERead
  <2>2. r.calls = told \o <<Call("read", v, e)>> /\ IsOutcome(r)
    BY <1>1, <1>2, <2>1
  <2> QED
    BY <2>2 DEF IsReading
<1>5. CASE BLEReadStatus(ch) = "Success" /\ "read" \notin ch.handlers
  <2>1. IsMissing("handleRead", ch)
    BY <1>5, MissingHandlers
  <2>2. IsFailed(r) /\ r.failure = "handleRead"
    BY <1>5 DEF BLERead, BLEAnswer, Unread, IsFailed, ResultFields, HandlerFailures
  <2> QED
    BY <2>1, <2>2
<1> QED
  BY <1>3, <1>4, <1>5

LEMMA MovedOutcome ==
    ASSUME NEW c, NEW ch
    PROVE  IsOutcome(Moved(c, ch)) /\ Moved(c, ch).calls = <<>>
BY DEF Moved, Unread, IsOutcome, ResultFields, HandlerFailures

\* The handler is not called, and this is no success, or it is called with a
\* value that was accepted.
BLEWrites(c, ch, r) ==
    \/ r.calls = <<>> /\ (r.status = "Success" => r.failure # "None")
    \/ \E v, e, reads :
          /\ v \in BLEConverted(c, ch) /\ IsPassed(ch, v, e) /\ IsReading(reads)
          /\ r.calls = <<WriteCall(ch, v, e)>> \o reads
          /\ r.status = "Success" \/ reads # <<>> => e = "None"

LEMMA BLEWrittenOutcome ==
    ASSUME NEW c, NEW ch \in Definitions8, PropertiesAreValid(ch),
           BLEWriteStatus(ch) = "Success", NEW r \in BLEWritten(c, ch)
    PROVE  \/ IsFailed(r) /\ IsMissing(r.failure, ch)
           \/ IsOutcome(r) /\ BLEWrites(c, ch, r)
<1> DEFINE moved == Moved(c, ch)
           with(q) == [q EXCEPT !.cells = moved.cells, !.start = moved.start,
                                !.length = moved.length, !.position = moved.position]
           ends(w) == \/ w.error # "None" \/ w.failure # "None"
                      \/ ~HasTLV(c, "returnResponse") /\ "wr" \notin ch.properties
           passed == UNION {Passed(ch, v) : v \in BLEConverted(c, ch)}
           answer(w) == [BLEAnswer(BLEErrorStatus(w.error), w.calls) EXCEPT !.failure = w.failure]
<1>1. ASSUME NEW q, DOMAIN q = ResultFields
      PROVE  /\ DOMAIN with(q) = ResultFields
             /\ with(q).calls = q.calls /\ with(q).status = q.status
             /\ with(q).failure = q.failure
  BY <1>1 DEF ResultFields
<1>2. ASSUME NEW w
      PROVE  /\ DOMAIN answer(w) = ResultFields /\ answer(w).calls = w.calls
             /\ answer(w).status = BLEErrorStatus(w.error) /\ answer(w).failure = w.failure
  BY DEF BLEAnswer, Unread, ResultFields
<1>3. ASSUME NEW w \in passed, "write" \in ch.handlers
      PROVE  /\ w.failure = "None"
             /\ \/ w.calls = <<>> /\ w.error = "InvalidData"
                \/ \E v \in BLEConverted(c, ch) : \E e :
                        /\ IsPassed(ch, v, e) /\ w.error = e
                        /\ w.calls = <<WriteCall(ch, v, e)>>
  <2>1. PICK v \in BLEConverted(c, ch) : w \in Passed(ch, v)
    BY <1>3
  <2> QED
    BY <1>3, <2>1, PassedOutcome
<1>4. CASE r = moved /\ moved.failure # "None"
  BY <1>4, MovedOutcome DEF BLEWrites
<1>5. CASE \E status \in {"InvalidRequest", "UnsupportedPDU"} : r = with(Unread(status))
  <2>1. PICK status \in {"InvalidRequest", "UnsupportedPDU"} : r = with(Unread(status))
    BY <1>5
  <2>2. Unread(status).calls = <<>> /\ Unread(status).status = status
    BY DEF Unread
  <2>3. IsOutcome(Unread(status))
    BY UnreadIsOutcome
  <2> QED
    BY <1>1, <2>1, <2>2, <2>3 DEF BLEWrites, IsOutcome
<1>6. ASSUME NEW w \in passed, r = with(answer(w)), "write" \in ch.handlers
      PROVE  IsOutcome(r) /\ BLEWrites(c, ch, r)
  <2>1. /\ DOMAIN r = ResultFields /\ r.calls = w.calls /\ r.failure = w.failure
        /\ r.status = BLEErrorStatus(w.error)
    BY <1>1, <1>2, <1>6
  <2>2. IsOutcome(r)
    BY <1>3, <1>6, <2>1 DEF IsOutcome, HandlerFailures
  <2>3. r.status = "Success" => w.error = "None"
    BY <2>1 DEF BLEErrorStatus
  <2>4. CASE w.calls = <<>> /\ w.error = "InvalidData"
    BY <2>1, <2>2, <2>3, <2>4 DEF BLEWrites
  <2>5. CASE \E v \in BLEConverted(c, ch) : \E e :
                /\ IsPassed(ch, v, e) /\ w.error = e
                /\ w.calls = <<WriteCall(ch, v, e)>>
    <3>1. PICK v, e :
                /\ v \in BLEConverted(c, ch) /\ IsPassed(ch, v, e) /\ w.error = e
                /\ w.calls = <<WriteCall(ch, v, e)>>
      BY <2>5
    <3>2. r.calls = <<WriteCall(ch, v, e)>> \o <<>>
      BY <2>1, <3>1
    <3>3. IsReading(<<>>)
      BY DEF IsReading
    <3> QED
      BY <2>2, <2>3, <3>1, <3>2, <3>3 DEF BLEWrites
  <2> QED
    BY <1>3, <1>6, <2>4, <2>5
<1>7. ASSUME NEW w \in passed, ~ends(w), NEW q \in BLERead(ch, w.calls), r = with(q),
             "write" \in ch.handlers
      PROVE  \/ IsFailed(r) /\ IsMissing(r.failure, ch)
             \/ IsOutcome(r) /\ BLEWrites(c, ch, r)
  <2>1. PICK v, e :
                /\ v \in BLEConverted(c, ch) /\ IsPassed(ch, v, e) /\ w.error = e
                /\ w.calls = <<WriteCall(ch, v, e)>>
    BY <1>3, <1>7
  <2>2. w.calls = <<>> \/ \E x : w.calls = <<x>>
    BY <2>1
  <2>3. CASE IsFailed(q) /\ IsMissing(q.failure, ch)
    BY <1>1, <1>7, <2>3 DEF IsFailed
  <2>4. CASE IsOutcome(q) /\ \E reads : IsReading(reads) /\ q.calls = w.calls \o reads
    <3>1. PICK reads : IsReading(reads) /\ q.calls = w.calls \o reads
      BY <2>4
    <3>2. IsOutcome(r) /\ r.calls = q.calls
      BY <1>1, <1>7, <2>4 DEF IsOutcome
    <3>3. e = "None"
      BY <1>7, <2>1
    <3> QED
      BY <2>1, <3>1, <3>2, <3>3 DEF BLEWrites
  <2> QED
    BY <2>2, <2>3, <2>4, BLEReadOutcome
<1>8. \/ r = moved /\ moved.failure # "None"
      \/ \E status \in {"InvalidRequest", "UnsupportedPDU"} : r = with(Unread(status))
      \/ \E w \in passed : r = with(answer(w))
      \/ \E w \in passed : ~ends(w) /\ \E q \in BLERead(ch, w.calls) : r = with(q)
  <2>1. BLEWritten(c, ch) =
            IF moved.failure # "None" THEN {moved}
            ELSE IF scenario.method = "ExecuteWrite" /\ ~(HasTLV(c, "ttl") /\ c.tlvs.ttl # 0)
            THEN {with(Unread("InvalidRequest"))}
            ELSE IF scenario.method = "ExecuteWrite" /\ scenario.elapsed > c.tlvs.ttl
            THEN {with(Unread("UnsupportedPDU"))}
            ELSE IF BLEConverted(c, ch) = {} THEN {with(Unread("InvalidRequest"))}
            ELSE {with(answer(w)) : w \in {x \in passed : ends(x)}}
                 \cup UNION {{with(q) : q \in BLERead(ch, w.calls)} :
                                w \in {x \in passed : ~ends(x)}}
    BY Zenon DEF BLEWritten
  <2> HIDE DEF moved, with, ends, passed, answer
  <2>2. CASE r \in {with(answer(w)) : w \in {x \in passed : ends(x)}}
    BY <2>2
  <2>3. CASE r \in UNION {{with(q) : q \in BLERead(ch, w.calls)} :
                            w \in {x \in passed : ~ends(x)}}
    BY <2>3
  <2> QED
    BY <2>1, <2>2, <2>3
<1>9. CASE "write" \notin ch.handlers
  <2>1. IsMissing("handleWrite", ch)
    BY <1>9, MissingHandlers
  <2>2. ASSUME NEW w \in passed
        PROVE  w.failure = "handleWrite"
    BY <1>9 DEF Passed
  <2>3. ASSUME NEW w \in passed, r = with(answer(w))
        PROVE  IsFailed(r) /\ r.failure = "handleWrite"
    BY <1>1, <1>2, <2>2, <2>3 DEF IsFailed, HandlerFailures
  <2>4. \A w \in passed : ends(w)
    BY <2>2
  <2> HIDE DEF moved, with, ends, passed, answer
  <2> QED
    BY <1>4, <1>5, <1>8, <2>1, <2>3, <2>4
<1> HIDE DEF moved, with, ends, passed, answer
<1>10. CASE "write" \in ch.handlers
  BY <1>4, <1>5, <1>6, <1>7, <1>8, <1>10
<1> QED
  BY <1>9, <1>10

-----------------------------------------------------------------------------
(* Steps. *)

Asks8 == items[handled + 1]
Found == FindCharacteristic(Asks8.iid)
IsAskedToWrite(c) ==
    \/ scenario.method \in {"Write", "ExecuteWrite"}
    \/ scenario.method = "PutCharacteristics" /\ c.type # "None"
AskedValues(c, ch) ==
    IF scenario.method = "PutCharacteristics" THEN Converted(c, ch) ELSE BLEConverted(c, ch)
\* What a write makes of its context: the handler has not been called, and
\* this is no success, or it has been called with a value that was accepted,
\* and for a response the value is read after that.
Writes(c, ch, r) ==
    \/ r.calls = <<>> /\ (r.status = "Success" => r.failure # "None")
    \/ scenario.method = "PutCharacteristics" /\ ch.format = "tlv8" /\ c.type # "String"
    \/ \E v, e, reads :
          /\ Allowed(ch) /\ v \in AskedValues(c, ch) /\ IsPassed(ch, v, e)
          /\ IsReading(reads) /\ r.calls = <<WriteCall(ch, v, e)>> \o reads
          /\ r.status = "Success" \/ reads # <<>> => e = "None"
Ends(r, list, flags, told) ==
    /\ IsStep(r, r.status, list, flags, told)
    /\ told \in {<<>>, HandleSubscribe, HandleUnsubscribe}
    /\ \/ /\ IsFailed(r) /\ scenario.method \in BLEMethods
          /\ \E ch \in Found : IsMissing(r.failure, ch)
       \/ IsOutcome(r) /\ \A ch \in Found : IsAskedToWrite(Asks8) => Writes(Asks8, ch, r)

LEMMA AnswerEnds ==
    ASSUME NEW status, Answer(status), failure = "None", handled < Len(items),
           IsAskedToWrite(Asks8) => Found = {} \/ status # "Success"
    PROVE  Ends(Unread(status), eventNotifications, numEventNotificationFlags, <<>>)
<1>1. Unread(status).status = status /\ Unread(status).calls = <<>>
  BY DEF Unread
<1> QED
  BY <1>1, UnreadIsOutcome DEF Ends, Answer, IsStep, Writes

LEMMA ReadsEnd ==
    ASSUME ItemsInv, HandleReads
    PROVE  \E r, list, flags, told : Ends(r, list, flags, told)
<1>1. /\ failure = "None" /\ handled < Len(items)
      /\ scenario.method \in {"GetAccessories", "GetCharacteristics", "EventNotification"}
  BY DEF HandleReads, IsNext
<1>2. ~IsAskedToWrite(Asks8)
  BY <1>1 DEF IsAskedToWrite
<1>3. CASE \E status : Answer(status)
  BY <1>1, <1>2, <1>3, AnswerEnds
<1>4. ASSUME NEW ch \in Found, ReadStatus(ch) = "Success",
             NEW r \in HandleReadRequest(ch, handled + 1),
             Done(r, r.status, eventNotifications, numEventNotificationFlags, <<>>)
      PROVE  Ends(r, eventNotifications, numEventNotificationFlags, <<>>)
  <2>1. "read" \in ch.handlers
    BY <1>4, FoundIsValid, NeededHandlers DEF ReadStatus, Found, ItemsInv
  <2> QED
    BY <1>1, <1>2, <1>4, <2>1, ReadIsOutcome DEF Ends, IsStep
<1> QED
  BY <1>3, <1>4 DEF HandleReads, ReadContext, Found, Asks8

LEMMA ErrorsAreNoSuccess ==
    ASSUME AccessAssumption, NEW e \in WriteErrors \cup {"None"},
           ConvertErrorToStatusCode(e) = "Success"
    PROVE  e = "None"
<1>1. e \in Errors8 \cup {"None"}
  BY DEF AccessAssumption
<1> QED
  BY <1>1 DEF Errors8, ConvertErrorToStatusCode

LEMMA SubscribeTells ==
    ASSUME NEW c, NEW ch
    PROVE  Subscribe(c, ch).calls \in {<<>>, HandleSubscribe, HandleUnsubscribe}
<1>1. \A status : Same(status).calls = <<>>
  BY DEF Same
<1>2. \A status, list, told : [Same(status) EXCEPT !.list = list, !.calls = told].calls = told
  BY DEF Same
<1>3. \A status, list, flags, told :
        [Same(status) EXCEPT !.list = list, !.flags = flags, !.calls = told].calls = told
  BY DEF Same
<1> QED
  BY <1>1, <1>2, <1>3 DEF Subscribe

\* The value of a context over IP.
LEMMA ValueIsWritten ==
    ASSUME AccessAssumption, NEW c, NEW ch \in Definitions8, PropertiesAreValid(ch),
           scenario.method = "PutCharacteristics", "tw" \in ch.properties => scenario.timed,
           NEW write \in Write8(c, ch), NEW r \in Responses(c, ch, write)
    PROVE  IsOutcome(r) /\ Writes(c, ch, r)
<1>1. PICK reads : /\ IsReading(reads) /\ r.calls = write.calls \o reads
                   /\ reads # <<>> => write.status = "Success"
  BY ResponsesOutcome
<1>2. IsOutcome(r) /\ (r.status = "Success" => write.status = "Success")
  BY ResponsesOutcome
<1>3. CASE ch.format = "tlv8" /\ c.type # "String"
  BY <1>2, <1>3 DEF Writes
<1>4. CASE write.calls = <<>> /\ write.status # "Success"
  <2>1. r.calls = <<>>
    BY <1>1, <1>4
  <2> QED
    BY <1>2, <1>4, <2>1 DEF Writes
<1>5. CASE \E v, e : /\ Rejection(c, ch) = "Success"
                     /\ v \in Converted(c, ch) /\ IsPassed(ch, v, e)
                     /\ write.calls = <<WriteCall(ch, v, e)>>
                     /\ write.status = ConvertErrorToStatusCode(e)
  <2>1. PICK v, e : /\ Rejection(c, ch) = "Success"
                    /\ v \in Converted(c, ch) /\ IsPassed(ch, v, e)
                    /\ write.calls = <<WriteCall(ch, v, e)>>
                    /\ write.status = ConvertErrorToStatusCode(e)
    BY <1>5
  <2>2. write.status = "Success" => e = "None"
    BY <2>1, ErrorsAreNoSuccess DEF IsPassed
  <2>3. Allowed(ch)
    BY <2>1 DEF Allowed, Rejection
  <2> QED
    BY <1>1, <1>2, <2>1, <2>2, <2>3 DEF Writes, AskedValues
<1>6. "pw" \in ch.properties => "write" \in ch.handlers
  BY NeededHandlers
<1> QED
  BY <1>3, <1>4, <1>5, <1>6, Write8Outcome

LEMMA WritesEnd ==
    ASSUME AccessAssumption, ItemsInv, HandleWrites
    PROVE  \E r, list, flags, told : Ends(r, list, flags, told)
<1> DEFINE c == Asks8
<1>1. /\ failure = "None" /\ handled < Len(items)
      /\ scenario.method = "PutCharacteristics"
  BY DEF HandleWrites, IsNext
<1>2. CASE Found = {} /\ Answer("ResourceDoesNotExist")
  BY <1>1, <1>2, AnswerEnds
<1>3. CASE Answer("InvalidValueInWrite")
  BY <1>1, <1>3, AnswerEnds
<1>4. ASSUME NEW ch \in Found, c.type = "None",
             Done(Unread(Subscribe(c, ch).status), Subscribe(c, ch).status,
                  Subscribe(c, ch).list, Subscribe(c, ch).flags, Subscribe(c, ch).calls)
      PROVE  \E r, list, flags, told : Ends(r, list, flags, told)
  <2>1. Unread(Subscribe(c, ch).status).status = Subscribe(c, ch).status
    BY DEF Unread
  <2>2. ~IsAskedToWrite(c)
    BY <1>1, <1>4 DEF IsAskedToWrite
  <2>3. Ends(Unread(Subscribe(c, ch).status), Subscribe(c, ch).list, Subscribe(c, ch).flags,
             Subscribe(c, ch).calls)
    BY <1>1, <1>4, <2>1, <2>2, SubscribeTells, UnreadIsOutcome DEF Ends, IsStep
  <2> QED
    BY <2>3
<1>5. ASSUME NEW ch \in Found, "tw" \in ch.properties => scenario.timed,
             NEW write \in Write8(c, ch), NEW r \in Responses(c, ch, write),
             Done(r, r.status, Subscribe(c, ch).list, Subscribe(c, ch).flags,
                  Subscribe(c, ch).calls)
      PROVE  \E q, list, flags, told : Ends(q, list, flags, told)
  <2>1. ch \in Definitions8 /\ PropertiesAreValid(ch)
    BY <1>5, FoundIsValid DEF Found, ItemsInv
  <2>2. IsOutcome(r) /\ Writes(c, ch, r)
    BY <1>1, <1>5, <2>1, ValueIsWritten
  <2>3. \A d \in Found : d = ch
    BY <1>5, FoundIsOne DEF Found, ItemsInv
  <2>4. Ends(r, Subscribe(c, ch).list, Subscribe(c, ch).flags, Subscribe(c, ch).calls)
    BY <1>1, <1>5, <2>2, <2>3, SubscribeTells DEF Ends, IsStep
  <2> QED
    BY <2>4
<1>6. CASE \E ch \in Found :
                IF c.type # "None" /\ "tw" \in ch.properties /\ ~scenario.timed
                THEN Answer("InvalidValueInWrite")
                ELSE HandleCharacteristicWrite(c, ch)
  <2>1. PICK ch \in Found :
                IF c.type # "None" /\ "tw" \in ch.properties /\ ~scenario.timed
                THEN Answer("InvalidValueInWrite")
                ELSE HandleCharacteristicWrite(c, ch)
    BY <1>6
  <2>2. CASE c.type # "None" /\ "tw" \in ch.properties /\ ~scenario.timed
    BY <1>3, <2>1, <2>2
  <2>3. CASE ~(c.type # "None" /\ "tw" \in ch.properties /\ ~scenario.timed)
    <3>1. HandleCharacteristicWrite(c, ch)
      BY <2>1, <2>3
    <3>2. CASE c.type = "None"
      BY <1>3, <1>4, <3>1, <3>2 DEF HandleCharacteristicWrite
    <3>3. CASE c.type # "None"
      BY <1>5, <2>3, <3>1, <3>3 DEF HandleCharacteristicWrite
    <3> QED
      BY <3>2, <3>3
  <2> QED
    BY <2>2, <2>3
<1> QED
  BY <1>2, <1>6 DEF HandleWrites, Found, Asks8

LEMMA BLEEnds ==
    ASSUME ItemsInv, HandleBLE
    PROVE  \E r, list, flags, told : Ends(r, list, flags, told)
<1>1. failure = "None" /\ handled < Len(items) /\ scenario.method \in BLEMethods
  BY DEF HandleBLE, IsNext
<1>a. PICK ch \in Found : \E r \in BLEOutcomes(Asks8, ch) :
            Done(r, r.status, eventNotifications, numEventNotificationFlags, <<>>)
  BY DEF HandleBLE, Found, Asks8
<1>2. PICK r \in BLEOutcomes(Asks8, ch) :
            Done(r, r.status, eventNotifications, numEventNotificationFlags, <<>>)
  BY <1>a
<1>3. ch \in Definitions8 /\ PropertiesAreValid(ch)
  BY <1>2, FoundIsValid DEF Found, ItemsInv
<1>4. \A d \in Found : d = ch
  BY <1>2, FoundIsOne DEF Found, ItemsInv
<1>5. ASSUME \/ IsFailed(r) /\ IsMissing(r.failure, ch)
             \/ IsOutcome(r) /\ (IsAskedToWrite(Asks8) => Writes(Asks8, ch, r))
      PROVE  Ends(r, eventNotifications, numEventNotificationFlags, <<>>)
  BY <1>1, <1>2, <1>4, <1>5 DEF Ends, IsStep
<1>6. CASE scenario.method = "Read"
  <2>1. ~IsAskedToWrite(Asks8) /\ r \in BLERead(ch, <<>>)
    BY <1>2, <1>6 DEF IsAskedToWrite, BLEOutcomes
  <2>2. (<<>> = <<>>) \/ \E v : <<>> = <<v>>
    OBVIOUS
  <2>3. \/ IsFailed(r) /\ IsMissing(r.failure, ch)
        \/ IsOutcome(r)
    BY <1>3, <2>1, BLEReadOutcome
  <2> QED
    BY <1>5, <2>1, <2>3
<1>7. CASE scenario.method # "Read" /\ BLEWriteStatus(ch) # "Success"
              /\ r = Unread(BLEWriteStatus(ch))
  BY <1>5, <1>7, UnreadIsOutcome DEF Writes, Unread
<1>8. CASE scenario.method # "Read" /\ r = Unread("InvalidRequest")
  BY <1>5, <1>8, UnreadIsOutcome DEF Writes, Unread
<1>9. CASE scenario.method # "Read" /\ BLEWriteStatus(ch) = "Success"
              /\ r \in BLEWritten(Asks8, ch)
  <2>1. Allowed(ch)
    BY <1>1, <1>9 DEF BLEWriteStatus, Secured, Allowed, BLEMethods
  <2>2. scenario.method # "PutCharacteristics"
    BY <1>1 DEF BLEMethods
  <2>3. BLEWrites(Asks8, ch, r) => Writes(Asks8, ch, r)
    BY <2>1, <2>2 DEF BLEWrites, Writes, AskedValues
  <2> QED
    BY <1>3, <1>5, <1>9, <2>3, BLEWrittenOutcome
<1> QED
  BY <1>2, <1>6, <1>7, <1>8, <1>9 DEF BLEOutcomes

-----------------------------------------------------------------------------
(* The invariant. *)

\* What was told for the last context, if that was a write.
Told(ch) ==
    \/ calls \in {<<>>, HandleSubscribe, HandleUnsubscribe} /\ Current.status # "Success"
    \/ /\ scenario.method = "PutCharacteristics" /\ ch.format = "tlv8"
       /\ Current.type # "String"
    \/ \E v, e, reads, told :
          /\ Allowed(ch) /\ v \in AskedValues(Current, ch) /\ IsPassed(ch, v, e)
          /\ IsReading(reads) /\ told \in {<<>>, HandleSubscribe, HandleUnsubscribe}
          /\ calls = told \o (<<WriteCall(ch, v, e)>> \o reads)
          /\ Current.status = "Success" \/ reads # <<>> => e = "None"
AccessInv ==
    /\ ItemsInv
    /\ OnlyUncheckedHandlersMissing
    /\ handled > 0 /\ failure = "None" /\ IsWrite => \A ch \in Definition : Told(ch)

\* The definition of a context does not change.
LEMMA FoundStays ==
    ASSUME NEW iid, scenario' = scenario
    PROVE  FindCharacteristic(iid)' = FindCharacteristic(iid)
BY DEF FindCharacteristic, Places, DefinitionAt

LEMMA AnsweredFieldsAre ==
    ASSUME NEW c, DOMAIN c = AskedFields \cup AnsweredFields, NEW r, NEW status
    PROVE  LET a == Answered(c, r, status)
           IN  /\ a.status = status /\ a.iid = c.iid /\ a.type = c.type
               /\ a.number = c.number /\ a.text = c.text
BY DEF Answered, AskedFields, AnsweredFields

LEMMA AskedValuesStay ==
    ASSUME NEW c, NEW d, NEW ch, scenario' = scenario,
           d.type = c.type, d.number = c.number, d.text = c.text
    PROVE  AskedValues(d, ch)' = AskedValues(c, ch)
BY DEF AskedValues, Converted, BLEConverted, UnsignedValue, IntValue, FloatValue, StringValue,
       DecodedValue, BLEText, BLENumber, BLEFloat

\* The end of a context keeps the invariant.
LEMMA EndsInv ==
    ASSUME AccessInv, NEW r, NEW list, NEW flags, NEW told, Ends(r, list, flags, told)
    PROVE  AccessInv'
<1> DEFINE c == Asks8
<1>1. /\ ItemsInv' /\ handled' = handled + 1 /\ scenario' = scenario
      /\ handled + 1 \in 1 .. Len(items)
      /\ Current' = Answered(c, r, r.status)
  BY DoneItems DEF AccessInv, Ends, Asks8
<1>2. failure' = r.failure /\ calls' = told \o r.calls
  BY DEF Ends, IsStep, Done
<1>3. DOMAIN c = AskedFields \cup AnsweredFields
  BY <1>1 DEF AccessInv, ItemsInv, IsSameRequest, Asks8
<1>4. /\ Current'.status = r.status /\ Current'.iid = c.iid /\ Current'.type = c.type
      /\ Current'.number = c.number /\ Current'.text = c.text
  <2> DEFINE a == Answered(c, r, r.status)
  <2> HIDE DEF c
  <2>1. /\ a.status = r.status /\ a.iid = c.iid /\ a.type = c.type
        /\ a.number = c.number /\ a.text = c.text
    BY <1>3, AnsweredFieldsAre
  <2>2. Current' = a
    BY <1>1
  <2> HIDE DEF a
  <2> QED
    BY <2>1, <2>2
<1>5. Definition' = Found
  BY <1>1, <1>4 DEF Definition, Found, FindCharacteristic, Places, DefinitionAt
<1>6. OnlyUncheckedHandlersMissing'
  <2>1. ASSUME r.failure \in HandlerFailures
        PROVE  /\ scenario.method \in BLEMethods /\ ~scenario.secured
               /\ \E ch \in Found : IsUnchecked(r.failure, ch)
    BY <2>1 DEF Ends, IsOutcome, IsMissing
  <2> QED
    BY <1>1, <1>2, <1>5, <2>1 DEF IsUnchecked, OnlyUncheckedHandlersMissing, HandlerFailures
<1>7. ASSUME r.failure = "None", IsAskedToWrite(c), NEW ch \in Found
      PROVE  Told(ch)'
  <2>1. Writes(c, ch, r)
    BY <1>7 DEF Ends, IsFailed, HandlerFailures
  <2>2. Allowed(ch)' = Allowed(ch)
    BY <1>1 DEF Allowed
  <2>3. AskedValues(Current, ch)' = AskedValues(c, ch)
    BY <1>1, <1>4, AskedValuesStay
  <2>4. told \in {<<>>, HandleSubscribe, HandleUnsubscribe}
    BY DEF Ends
  <2>5. CASE r.calls = <<>> /\ r.status # "Success"
    BY <1>2, <1>4, <2>4, <2>5 DEF Told, HandleSubscribe, HandleUnsubscribe
  <2>6. CASE scenario.method = "PutCharacteristics" /\ ch.format = "tlv8" /\ c.type # "String"
    BY <1>1, <1>4, <2>6 DEF Told
  <2>7. CASE \E v, e, reads :
          /\ Allowed(ch) /\ v \in AskedValues(c, ch) /\ IsPassed(ch, v, e)
          /\ IsReading(reads) /\ r.calls = <<WriteCall(ch, v, e)>> \o reads
          /\ r.status = "Success" \/ reads # <<>> => e = "None"
    BY <1>2, <1>4, <2>2, <2>3, <2>4, <2>7 DEF Told
  <2> QED
    BY <1>7, <2>1, <2>5, <2>6, <2>7 DEF Writes
<1>8. IsWrite' => IsAskedToWrite(c)
  BY <1>1, <1>4 DEF IsWrite, IsAskedToWrite
<1> QED
  BY <1>1, <1>2, <1>5, <1>6, <1>7, <1>8 DEF AccessInv

\* Every context that is done keeps the invariant: HandleReads, HandleWrites
\* and HandleBLE end a context, each with what it told the accessory.
THEOREM AccessInvariance == AccessSpec => []AccessInv
<1>1. AccessInit => AccessInv
  <2> SUFFICES ASSUME AccessInit PROVE AccessInv
    OBVIOUS
  <2>1. ItemsInv
    BY AccessAssumption, InitItems
  <2>2. failure = "None" /\ handled = 0
    BY DEF AccessInit
  <2> QED
    BY <2>1, <2>2 DEF AccessInv, OnlyUncheckedHandlersMissing, HandlerFailures
<1>2. AccessInv /\ [AccessNext]_accessVars => AccessInv'
  <2> SUFFICES ASSUME AccessInv, [AccessNext]_accessVars PROVE AccessInv'
    OBVIOUS
  <2>1. ItemsInv
    BY DEF AccessInv
  <2>2. CASE AccessNext
    <3>1. \E r, list, flags, told : Ends(r, list, flags, told)
      BY <2>1, <2>2, AccessAssumption, ReadsEnd, WritesEnd, BLEEnds DEF AccessNext
    <3> QED
      BY <3>1, EndsInv
  <2>3. CASE UNCHANGED accessVars
    <3>1. Current' = Current /\ Definition' = Definition /\ scenario' = scenario
             /\ calls' = calls
      BY <2>3 DEF accessVars, Current, Definition, FindCharacteristic, Places, DefinitionAt
    <3>2. ASSUME NEW ch PROVE Told(ch)' = Told(ch)
      <4>1. Allowed(ch)' = Allowed(ch)
        BY <3>1 DEF Allowed
      <4>2. AskedValues(Current, ch)' = AskedValues(Current, ch)
        BY <3>1, AskedValuesStay
      <4> QED
        BY <3>1, <4>1, <4>2 DEF Told
    <3>3. ItemsInv'
      BY <2>1, <2>3 DEF accessVars, ItemsInv, IsAccessory
    <3>4. IsWrite' = IsWrite /\ OnlyUncheckedHandlersMissing' = OnlyUncheckedHandlersMissing
      BY <2>3, <3>1 DEF accessVars, IsWrite, OnlyUncheckedHandlersMissing, IsUnchecked
    <3> QED
      BY <2>3, <3>1, <3>2, <3>3, <3>4 DEF accessVars, AccessInv
  <2> QED
    BY <2>2, <2>3
<1> QED
  BY <1>1, <1>2, PTL DEF AccessSpec

\* Whatever is read or written has its handler, but for what is readable or
\* writable without security only and accessed that way: HAPAccessoryValidation
\* has asked for all others when the server was started, and the callers do not
\* ask again.
THEOREM OnlyUncheckedHandlersMiss == AccessSpec => []OnlyUncheckedHandlersMissing
<1>1. AccessInv => OnlyUncheckedHandlersMissing
  BY DEF AccessInv
<1> QED
  BY <1>1, AccessInvariance, PTL

LEMMA FoundIsOfAccessory ==
    ASSUME NEW iid, NEW ch \in FindCharacteristic(iid)
    PROVE  LET services == scenario.accessory.services
           IN  \E i \in DOMAIN services : \E k \in DOMAIN services[i].characteristics :
                    ch = services[i].characteristics[k]
<1> DEFINE services == scenario.accessory.services
<1>1. PICK p \in Places(iid) : ch = DefinitionAt(p)
  BY DEF FindCharacteristic
<1>2. PICK n \in DOMAIN services : p \in {n} \X DOMAIN services[n].characteristics
  BY <1>1 DEF Places
<1> QED
  BY <1>1, <1>2 DEF DefinitionAt

\* If the validation asked for the handlers that it says it asks for, none would
\* be missing.  An accessory whose Pairing service has them is such an accessory.
THEOREM HandlersAreThere == AccessSpec => [](PlainAccessHandled => HandlersExist)
<1>1. AccessInv => (PlainAccessHandled => HandlersExist)
  <2> SUFFICES ASSUME AccessInv, PlainAccessHandled, failure \in HandlerFailures
               PROVE  FALSE
    BY DEF HandlersExist, HandlerFailures
  <2>1. PICK ch \in Definition : IsUnchecked(failure, ch)
    BY DEF AccessInv, OnlyUncheckedHandlersMissing, HandlerFailures
  <2>2. LET services == scenario.accessory.services
        IN  \E i \in DOMAIN services : \E k \in DOMAIN services[i].characteristics :
                    ch = services[i].characteristics[k]
    BY <2>1, FoundIsOfAccessory DEF Definition
  <2>3. /\ "prs" \in ch.properties => "read" \in ch.handlers
        /\ "pws" \in ch.properties => "write" \in ch.handlers
    BY <2>2 DEF PlainAccessHandled
  <2> QED
    BY <2>1, <2>3 DEF IsUnchecked
<1> QED
  BY <1>1, AccessInvariance, PTL

-----------------------------------------------------------------------------
(* Values. *)

LEMMA DivMod ==
    ASSUME NEW a \in Int, NEW b \in Nat, b > 0
    PROVE  /\ a % b \in Int /\ a \div b \in Int
           /\ a = b * (a \div b) + (a % b)
           /\ 0 <= a % b /\ a % b < b
OBVIOUS

LEMMA WholeSteps ==
    ASSUME NEW a \in Nat, NEW b \in Nat, b > 0, a % b = 0
    PROVE  \E k \in 0 .. a : a = k * b
<1>1. a = b * (a \div b) /\ a \div b \in Int
  BY DivMod
<1>2. a \div b >= 0
  BY <1>1
<1>3. a \div b <= a
  BY <1>1, <1>2
<1> QED
  BY <1>1, <1>2, <1>3

\* The next step is not beyond the last.
LEMMA NextStep ==
    ASSUME NEW a \in Nat, NEW c \in Nat, NEW b \in Nat, b > 0,
           c % b = 0, a <= c, a % b # 0
    PROVE  a - (a % b) + b <= c
<1> DEFINE k == a \div b
           m == c \div b
           r == a % b
<1>1. a = b * k + r /\ k \in Int /\ 0 < r /\ r < b /\ r \in Int
  BY DivMod
<1>2. c = b * m /\ m \in Int
  BY DivMod
<1> HIDE DEF k, m, r
<1>3. k < m
  <2> SUFFICES ASSUME k >= m PROVE FALSE
    BY <1>1, <1>2
  <2>1. b * k >= b * m
    BY <1>1, <1>2
  <2> QED
    BY <2>1, <1>1, <1>2
<1>4. b * (k + 1) <= b * m
  BY <1>1, <1>2, <1>3
<1>5. b * (k + 1) = b * k + b
  BY <1>1
<1> QED
  BY <1>1, <1>2, <1>4, <1>5 DEF r

\* A string without a NUL is passed as it is.
LEMMA TerminatedIsWhole ==
    ASSUME NEW chars \in Seq(STRING), ~Contains(chars, "NUL")
    PROVE  Terminated(chars) = chars
<1> DEFINE s == chars \o <<"NUL">>
           n == Len(chars)
           I == {i \in 1 .. Len(s) : s[i] = "NUL"}
<1>1. n \in Nat /\ Len(s) = n + 1 /\ s[n + 1] = "NUL"
         /\ \A i \in 1 .. n : s[i] = chars[i]
  OBVIOUS
<1>2. \A i \in 1 .. n : chars[i] # "NUL"
  BY DEF Contains
<1>3. I = {n + 1}
  BY <1>1, <1>2
<1>4. Min(I) = n + 1
  BY <1>1, <1>3 DEF Min
<1>5. SelectInSeq(s, LAMBDA c : c = "NUL") = n + 1
  BY <1>3, <1>4 DEF SelectInSeq
<1>6. Terminated(chars) = SubSeq(chars, 1, n)
  BY <1>1, <1>5 DEF Terminated
<1> QED
  BY <1>1, <1>6

\* A value is accepted, and passed rounded, as it was asked for.
IsAsked(c, ch, v) ==
    /\ ch \in Definitions8 /\ ConstraintsAreValid(ch) /\ v \in AskedValues(c, ch)
    /\ TRUE \in IsValueFulfillingConstraints(ch, v) /\ IsPlain(c, ch)
    /\ c.number \in Int /\ c.text \in JSONTexts
    /\ scenario.method = "PutCharacteristics" /\ ch.format = "tlv8" => c.type = "String"
IsRight(c, ch, v) == Legal(ch, RoundValueToStep(ch, v)) /\ Meant(c, ch, RoundValueToStep(ch, v))

LEMMA AcceptedIsOnStep ==
    ASSUME NEW ch \in Definitions8, NEW v \in Int, TRUE \in IsValueInRange(ch, v),
           ch.step \in Nat, ch.format = "int" => ch.max - ch.min <= IntMax, IntMax \in Nat
    PROVE  /\ ch.min <= v /\ v <= ch.max
           /\ ch.step = 0 \/ \E k \in 0 .. v - ch.min : v = ch.min + k * ch.step
<1>1. ch.min \in Int /\ ch.max \in Int
  BY DEF Definitions8
<1>2. ch.min <= v /\ v <= ch.max /\ TRUE \in OnStep(ch, v)
  BY DEF IsValueInRange
<1>3. CASE ch.step # 0
  <2> DEFINE a == v - ch.min
  <2>1. OnStep(ch, v) = {a % ch.step = 0}
    BY <1>1, <1>2, <1>3 DEF OnStep
  <2>2. a \in Nat /\ ch.step > 0
    BY <1>1, <1>2, <1>3
  <2> HIDE DEF a
  <2>3. a % ch.step = 0
    <3>1. TRUE = (a % ch.step = 0)
      BY <1>2, <2>1, Zenon
    <3> QED
      BY <3>1, Zenon
  <2>4. \E k \in 0 .. a : a = k * ch.step
    BY <2>2, <2>3, WholeSteps
  <2>5. PICK k \in 0 .. v - ch.min : v - ch.min = k * ch.step
    BY <2>4 DEF a
  <2> QED
    BY <1>1, <1>2, <2>5
<1> QED
  BY <1>1, <1>2, <1>3

LEMMA IntegersAreRight ==
    ASSUME AccessAssumption, NEW c, NEW ch, NEW v, IsAsked(c, ch, v),
           ch.format \in {"bool", "int"} \cup UnsignedFormats
    PROVE  IsRight(c, ch, v)
<1>1. v = c.number /\ v \in Int /\ (ch.format # "int" => v \in ValuesOf(ch.format))
  BY DEF IsAsked, AskedValues, Converted, BLEConverted, UnsignedValue, IntValue, BLENumber,
         UnsignedFormats, Texts8
<1>2. RoundValueToStep(ch, v) = v
  BY DEF RoundValueToStep, UnsignedFormats
<1>3. Meant(c, ch, v)
  BY <1>1 DEF Meant, UnsignedFormats
<1>4. CASE ch.format = "bool"
  <2>0. v \in {0, 1}
    <3>1. ValuesOf("bool") = {0, 1}
      BY DEF ValuesOf, UnsignedFormats
    <3> QED
      BY <1>1, <1>4, <3>1
  <2>1. Legal(ch, v)
    BY <1>4, <2>0 DEF Legal
  <2> QED
    BY <1>2, <1>3, <2>1 DEF IsRight
<1>5. CASE ch.format # "bool"
  <2>1. TRUE \in IsValueInRange(ch, v) /\ (ch.format = "uint8" => IsInValidValues(ch, v))
    <3>1. CASE ch.format = "uint8"
      <4>1. PICK b \in IsValueInRange(ch, v) : TRUE = (b /\ IsInValidValues(ch, v))
        BY <3>1 DEF IsAsked, IsValueFulfillingConstraints, UInt8Passes
      <4>2. b /\ IsInValidValues(ch, v)
        BY <4>1, Zenon
      <4>3. IsValueInRange(ch, v) \subseteq BOOLEAN
        <5>1. \A x : (x = 0) \in BOOLEAN
          OBVIOUS
        <5>2. OnStep(ch, v) \subseteq BOOLEAN
          BY <5>1 DEF OnStep
        <5> QED
          BY <5>2 DEF IsValueInRange
      <4>4. b = TRUE
        BY <4>1, <4>2, <4>3, Zenon
      <4> QED
        BY <4>1, <4>2, <4>4, Zenon
    <3>2. CASE ch.format # "uint8"
      BY <1>5, <3>2 DEF IsAsked, IsValueFulfillingConstraints, UInt16Passes, UInt32Passes,
         UInt64Passes, IntPasses, UnsignedFormats
    <3> QED
      BY <3>1, <3>2
  <2>2. ch.step \in Nat
    BY <1>5 DEF IsAsked, Definitions8, ConstraintsAreValid, UnsignedFormats
  <2>3. ch \in Definitions8 /\ (ch.format = "int" => ch.max - ch.min <= IntMax)
           /\ IntMax \in Nat
    BY DEF IsAsked, IsPlain, AccessAssumption
  <2>4. /\ ch.min <= v /\ v <= ch.max
        /\ ch.step = 0 \/ \E k \in 0 .. v - ch.min : v = ch.min + k * ch.step
    BY <1>1, <2>1, <2>2, <2>3, AcceptedIsOnStep
  <2>5. v \in ValuesOf(ch.format)
    <3>1. CASE ch.format = "int"
      <4>1. {ch.min, ch.max} \subseteq ValuesOf("int")
        BY <2>3, <3>1 DEF Definitions8
      <4> QED
        BY <1>1, <2>3, <2>4, <3>1, <4>1 DEF ValuesOf, UnsignedFormats
    <3> QED
      BY <1>1, <3>1
  <2>6. Legal(ch, v)
    BY <1>5, <2>1, <2>4, <2>5 DEF Legal, UnsignedFormats
  <2> QED
    BY <1>2, <1>3, <2>6 DEF IsRight
<1> QED
  BY <1>4, <1>5

LEMMA TextsAreRight ==
    ASSUME NEW c, NEW ch, NEW v, IsAsked(c, ch, v), ch.format \in Texts8
    PROVE  IsRight(c, ch, v)
<1>1. RoundValueToStep(ch, v) = v
  BY DEF RoundValueToStep, Texts8
<1>2. c.text.chars \in Seq(STRING)
  BY DEF IsAsked, JSONTexts
<1>3. Legal(ch, v)
  <2>1. CASE ch.format = "tlv8"
    BY <2>1 DEF Legal
  <2>2. CASE ch.format \in {"string", "data"}
    <3>1. TRUE = (Len(v) <= ch.maxLength)
      BY <2>2 DEF IsAsked, IsValueFulfillingConstraints, DataPasses, StringPasses
    <3>2. Len(v) <= ch.maxLength
      BY <3>1, Zenon
    <3> QED
      BY <2>2, <3>2 DEF Legal
  <2> QED
    BY <2>1, <2>2 DEF Texts8
<1>4. Meant(c, ch, v)
  <2>1. CASE scenario.method # "PutCharacteristics"
    BY <2>1 DEF Meant, IsAsked, AskedValues, BLEConverted, BLEText, Texts8
  <2>2. CASE scenario.method = "PutCharacteristics" /\ ch.format = "string"
    BY <1>2, <2>2, TerminatedIsWhole DEF Meant, IsAsked, AskedValues, Converted, StringValue,
       IsPlain, UnsignedFormats
  <2>3. CASE scenario.method = "PutCharacteristics" /\ ch.format \in {"data", "tlv8"}
    BY <2>3 DEF Meant, IsAsked, AskedValues, Converted, DecodedValue, UnsignedFormats
  <2> QED
    BY <2>1, <2>2, <2>3 DEF Texts8
<1> QED
  BY <1>1, <1>3, <1>4 DEF IsRight

\* A value v of a range is at a distance of d from the step w.
IsNearest(low, high, step, v, r, d, w) ==
    /\ low \in Int /\ high \in Int /\ step \in Nat /\ step > 0
    /\ v \in Int /\ low <= v /\ v <= high /\ (high - low) % step = 0
    /\ r = (v - low) % step
    /\ d = (IF 2 * r <= step THEN r ELSE step - r) /\ 10 * d <= step
    /\ w = IF 2 * r < step THEN v - r ELSE v - r + step

LEMMA NearestStep ==
    ASSUME NEW low, NEW high, NEW step, NEW v, NEW r, NEW d, NEW w,
           IsNearest(low, high, step, v, r, d, w)
    PROVE  /\ w \in Int /\ low <= w /\ w <= high
           /\ \E k \in 0 .. w - low : w = low + k * step
           /\ 10 * w - 10 * v \in -step .. step
<1> DEFINE a == v - low
           q == a \div step
<1>0. /\ low \in Int /\ high \in Int /\ step \in Nat /\ step > 0
      /\ v \in Int /\ low <= v /\ v <= high /\ (high - low) % step = 0
      /\ r = (v - low) % step
      /\ d = (IF 2 * r <= step THEN r ELSE step - r) /\ 10 * d <= step
      /\ w = IF 2 * r < step THEN v - r ELSE v - r + step
  BY DEF IsNearest
<1>1. a \in Nat /\ high - low \in Nat /\ a <= high - low
  BY <1>0
<1>2. /\ r = a % step /\ q \in Int /\ r \in Int /\ 0 <= r /\ r < step
      /\ a = step * q + r
  BY <1>0, <1>1, DivMod
<1>3. v = low + a
  BY <1>0
<1>4. CASE 2 * r < step
  <2>1. w = low + step * q /\ d = r
    BY <1>0, <1>2, <1>3, <1>4
  <2>2. w = v - r
    BY <1>0, <1>4
  <2>3. q >= 0
    <3> HIDE DEF q, a
    <3>1. SUFFICES ASSUME q < 0 PROVE FALSE
      BY <1>0, <1>2
    <3>2. step * q <= step * (-1)
      BY <1>0, <1>2, <3>1
    <3> QED
      BY <1>0, <1>1, <1>2, <3>2
  <2>4. step * q \in Int
    BY <1>0, <1>2
  <2> HIDE DEF q, a
  <2>5. w \in Int /\ low <= w /\ w <= high
    <3>1. step * q >= 0
      BY <1>0, <1>2, <2>3
    <3> QED
      BY <1>0, <1>2, <2>1, <2>2, <2>4, <3>1
  <2>6. q <= step * q
    BY <1>0, <1>2, <2>3
  <2>7. w = low + q * step /\ q \in 0 .. w - low
    BY <1>0, <1>2, <2>1, <2>3, <2>4, <2>6
  <2>8. 10 * w - 10 * v \in -step .. step
    BY <1>0, <1>2, <2>1, <2>2
  <2> QED
    BY <2>5, <2>7, <2>8
<1>5. CASE 2 * r >= step
  <2>1. 2 * r # step
    BY <1>0, <1>2, <1>5
  <2>2. w = v - r + step /\ d = step - r
    BY <1>0, <1>2, <1>5, <2>1
  <2>3. w = low + step * q + step
    BY <1>0, <1>2, <1>3, <2>2
  <2>4. a - (a % step) + step <= high - low
    <3>1. a % step # 0
      BY <1>0, <1>2, <1>5
    <3> HIDE DEF a
    <3> QED
      BY <1>0, <1>1, <3>1, NextStep
  <2> HIDE DEF q, a
  <2>5. w \in Int /\ low <= w /\ w <= high
    BY <1>0, <1>2, <1>3, <1>1, <2>2, <2>4
  <2>6. w = low + (q + 1) * step
    BY <1>0, <1>2, <2>3
  <2>7. w - low \in Nat /\ w - low = (q + 1) * step /\ q + 1 \in Int
    BY <1>0, <1>2, <2>5, <2>6
  <2>8. q + 1 >= 0 /\ q + 1 <= w - low
    BY <1>0, <2>7
  <2>9. 10 * w - 10 * v \in -step .. step
    BY <1>0, <1>2, <2>2
  <2>10. \E k \in 0 .. w - low : w = low + k * step
    <3> DEFINE k == q + 1
    <3>1. k \in 0 .. w - low /\ w = low + k * step
      BY <1>0, <2>6, <2>7, <2>8
    <3> HIDE DEF k
    <3> QED
      BY <3>1
  <2> QED
    BY <2>5, <2>9, <2>10
<1> QED
  BY <1>0, <1>2, <1>4, <1>5

LEMMA FloatIsLegal ==
    ASSUME NEW ch, ch.format = "float", NEW w, ch.min <= w, w <= ch.max,
           \E k \in 0 .. w - ch.min : w = ch.min + k * ch.step
    PROVE  Legal(ch, w)
BY DEF Legal

\* A float is moved to the nearest step, which is within the range.
LEMMA FloatsAreRight ==
    ASSUME AccessAssumption, NEW c, NEW ch, NEW v, IsAsked(c, ch, v), ch.format = "float"
    PROVE  IsRight(c, ch, v)
<1> DEFINE asked == MeantFloat(c)
           w == RoundValueToStep(ch, v)
           r == Remainder(ch, v)
<1>1. ch.min \in Int /\ ch.max \in Int /\ ch.step \in Int /\ ch.step >= 0
         /\ ch.min <= ch.max /\ ch \in Definitions8
  BY DEF IsAsked, Definitions8, ConstraintsAreValid, UnsignedFormats
<1>2. Unit \in Int /\ c.number \in Int
  BY DEF AccessAssumption, IsAsked
<1>3. v = asked /\ v \in Int
  <2>1. v = asked
    BY <1>2 DEF IsAsked, AskedValues, Converted, BLEConverted, FloatValue, BLENumber, BLEFloat,
           UnsignedFormats, Texts8, MeantFloat
  <2> QED
    BY <1>2, <2>1 DEF MeantFloat
<1>4. IsInRangeWithTolerance(ch, v)
  <2>1. TRUE = IsInRangeWithTolerance(ch, v)
    BY DEF IsAsked, IsValueFulfillingConstraints, FloatPasses
  <2> QED
    BY <2>1, Zenon
<1>5. Meant(c, ch, w) <=> 10 * w - 10 * asked \in -ch.step .. ch.step
  BY DEF Meant
<1>6. CASE ch.step = 0
  <2>1. w = v
    BY <1>6 DEF RoundValueToStep
  <2>2. ch.min <= v /\ v <= ch.max
    BY <1>1, <1>3, <1>4 DEF IsInRangeWithTolerance, Infinity, NaN
  <2> QED
    BY <1>1, <1>3, <1>5, <1>6, <2>1, <2>2 DEF IsRight, Legal
<1>7. CASE ch.step # 0
  <2>1. IsFinite(ch.min) /\ IsFinite(ch.max) /\ (ch.max - ch.min) % ch.step = 0
    BY <1>7 DEF IsAsked, IsPlain
  <2>2. ch.min <= v /\ v <= ch.max /\ 10 * Distance(ch, v) <= ch.step /\ ~IsInfinite(v)
    <3>1. /\ Infinity \in Int /\ NaN \in Int /\ Infinity < NaN /\ Infinity > 0
          /\ -Infinity \in Int
      BY DEF Infinity, NaN
    <3>2. ch.max < Infinity /\ -Infinity < ch.min
      BY <1>1, <2>1, <3>1 DEF IsFinite
    <3>3. v # Infinity /\ v # -Infinity /\ v # NaN
      <4>1. Infinity # -Infinity /\ Infinity # NaN /\ -Infinity # NaN
        BY <3>1
      <4>2. ch.max # Infinity /\ ch.min # -Infinity
        BY <1>1, <3>1, <3>2
      <4> QED
        BY <1>4, <4>1, <4>2 DEF IsInRangeWithTolerance
    <3> QED
      BY <1>4, <1>7, <3>3 DEF IsInRangeWithTolerance, IsInfinite
  <2>3. r = (v - ch.min) % ch.step
    BY DEF Remainder
  <2>4. Distance(ch, v) = IF 2 * r <= ch.step THEN r ELSE ch.step - r
    BY Zenon DEF Distance
  <2>5. w = IF 2 * r < ch.step THEN v - r ELSE v - r + ch.step
    BY <1>7, <2>2, Zenon DEF RoundValueToStep
  <2>6. ch.step \in Nat /\ ch.step > 0
    BY <1>1, <1>7
  <2> HIDE DEF w, r, asked
  <2>7. /\ w \in Int /\ ch.min <= w /\ w <= ch.max
        /\ \E k \in 0 .. w - ch.min : w = ch.min + k * ch.step
        /\ 10 * w - 10 * v \in -ch.step .. ch.step
    <3>1. IsNearest(ch.min, ch.max, ch.step, v, r, Distance(ch, v), w)
      BY <1>1, <1>3, <2>1, <2>2, <2>3, <2>4, <2>5, <2>6 DEF IsNearest
    <3> QED
      BY <3>1, NearestStep
  <2>8. Legal(ch, w)
    BY <2>7, FloatIsLegal
  <2> QED
    BY <1>3, <1>5, <2>7, <2>8 DEF IsRight, w
<1> QED
  BY <1>6, <1>7

LEMMA ValuesAreRight ==
    ASSUME AccessAssumption, NEW c, NEW ch, NEW v, IsAsked(c, ch, v)
    PROVE  IsRight(c, ch, v)
<1>1. ch.format \in Formats8
  BY DEF IsAsked, Definitions8
<1> QED
  BY <1>1, IntegersAreRight, TextsAreRight, FloatsAreRight DEF Formats8

\* The calls of a write: its events, the value, and the read of a response.
AreTold(told, w, e, reads) ==
    /\ told \in {<<>>, HandleSubscribe, HandleUnsubscribe} /\ IsReading(reads)
    /\ calls = told \o (<<Call("write", w, e)>> \o reads)

LEMMA ConsecutiveCalls ==
    ASSUME NEW told, NEW w, NEW e, NEW reads, AreTold(told, w, e, reads)
    PROVE  \E p \in Nat :
              /\ DOMAIN calls \subseteq Nat /\ p \in DOMAIN calls
              /\ calls[p] = Call("write", w, e)
              /\ \A i \in DOMAIN calls : i < p => calls[i].op \notin {"read", "write"}
              /\ \A i \in DOMAIN calls : i > p => calls[i].op = "read" /\ reads # <<>>
<1> DEFINE x == Call("write", w, e)
           p == Len(told) + 1
<1>1. x.op = "write"
  BY DEF Call
<1>2. told = <<>> \/ \E y : told = <<y>> /\ y.op \notin {"read", "write"}
  BY DEF AreTold, HandleSubscribe, HandleUnsubscribe, Call
<1>3. reads = <<>> \/ \E y : reads = <<y>> /\ y.op = "read"
  BY DEF AreTold, IsReading, Call
<1>4. calls = told \o (<<x>> \o reads)
  BY DEF AreTold
<1> HIDE DEF x
<1>5. CASE told = <<>> /\ reads = <<>>
  BY <1>4, <1>5 DEF x
<1>6. ASSUME NEW y, told = <<y>>, y.op \notin {"read", "write"}, reads = <<>>
      PROVE  /\ DOMAIN calls \subseteq Nat /\ p \in DOMAIN calls /\ calls[p] = x
             /\ \A i \in DOMAIN calls : i < p => calls[i].op \notin {"read", "write"}
             /\ \A i \in DOMAIN calls : i > p => calls[i].op = "read" /\ reads # <<>>
  BY <1>4, <1>6
<1>7. ASSUME NEW z, reads = <<z>>, z.op = "read", told = <<>>
      PROVE  /\ DOMAIN calls \subseteq Nat /\ p \in DOMAIN calls /\ calls[p] = x
             /\ \A i \in DOMAIN calls : i < p => calls[i].op \notin {"read", "write"}
             /\ \A i \in DOMAIN calls : i > p => calls[i].op = "read" /\ reads # <<>>
  BY <1>4, <1>7
<1>8. ASSUME NEW y, told = <<y>>, y.op \notin {"read", "write"},
             NEW z, reads = <<z>>, z.op = "read"
      PROVE  /\ DOMAIN calls \subseteq Nat /\ p \in DOMAIN calls /\ calls[p] = x
             /\ \A i \in DOMAIN calls : i < p => calls[i].op \notin {"read", "write"}
             /\ \A i \in DOMAIN calls : i > p => calls[i].op = "read" /\ reads # <<>>
  BY <1>4, <1>8
<1>9. p \in Nat
  BY <1>2
<1> QED
  BY <1>2, <1>3, <1>5, <1>6, <1>7, <1>8, <1>9 DEF x

\* There is one write among the calls, and the read of a response is behind it.
LEMMA OneWriteIsTold ==
    ASSUME NEW told, NEW w, NEW e, NEW reads, AreTold(told, w, e, reads)
    PROVE  \E p \in Nat :
              /\ CallsOf("write") = {p} /\ calls[p] = Call("write", w, e)
              /\ \A j \in CallsOf("read") : p < j /\ reads # <<>>
<1>1. PICK p \in Nat :
              /\ DOMAIN calls \subseteq Nat /\ p \in DOMAIN calls
              /\ calls[p] = Call("write", w, e)
              /\ \A i \in DOMAIN calls : i < p => calls[i].op \notin {"read", "write"}
              /\ \A i \in DOMAIN calls : i > p => calls[i].op = "read" /\ reads # <<>>
  BY ConsecutiveCalls
<1>2. calls[p].op = "write"
  BY <1>1 DEF Call
<1>3. \A i \in DOMAIN calls : i < p \/ i = p \/ i > p
  BY <1>1
<1>4. \A i \in DOMAIN calls : calls[i].op = "write" => i = p
  BY <1>1, <1>3
<1>5. \A i \in DOMAIN calls : calls[i].op = "read" => i > p /\ reads # <<>>
  BY <1>1, <1>2, <1>3
<1>6. CallsOf("write") = {p}
  BY <1>1, <1>2, <1>4 DEF CallsOf
<1>7. \A j \in CallsOf("read") : p < j /\ reads # <<>>
  BY <1>1, <1>5 DEF CallsOf
<1> QED
  BY <1>1, <1>6, <1>7

LEMMA NoWriteIsTold ==
    ASSUME calls \in {<<>>, HandleSubscribe, HandleUnsubscribe}
    PROVE  CallsOf("write") = {}
BY DEF CallsOf, HandleSubscribe, HandleUnsubscribe, Call

LEMMA CurrentFields ==
    ASSUME ItemsInv, handled > 0
    PROVE  Current.number \in Int /\ Current.text \in JSONTexts
<1> DEFINE asked == scenario.items[handled]
<1>1. handled \in 1 .. Len(scenario.items) /\ IsSameRequest(Current, asked)
  BY DEF ItemsInv, Current
<1>2. IsContext(asked)
  BY <1>1 DEF ItemsInv, IsAccessory, IsScenario, Range
<1>3. asked.number \in Int /\ asked.text \in JSONTexts
  BY <1>2 DEF IsContext
<1> QED
  BY <1>1, <1>3 DEF IsSameRequest, AskedFields

LEMMA ToldAsAsked ==
    ASSUME AccessAssumption, AccessInv, handled > 0, failure = "None", IsWrite,
           NEW ch \in Definition, IsPlain(Current, ch)
    PROVE  /\ \A i, j \in CallsOf("write") : i = j
           /\ Current.status = "Success" =>
                    \E i \in CallsOf("write") : calls[i].error = "None"
           /\ \A i \in CallsOf("write") :
                    /\ Allowed(ch)
                    /\ Legal(ch, calls[i].value)
                    /\ Meant(Current, ch, calls[i].value)
                    /\ \A j \in CallsOf("read") : i < j /\ calls[i].error = "None"
<1>1. Told(ch)
  BY DEF AccessInv
<1>2. scenario.method = "PutCharacteristics" /\ ch.format = "tlv8" => Current.type = "String"
  BY DEF IsPlain, IsWrite
<1>3. CASE calls \in {<<>>, HandleSubscribe, HandleUnsubscribe} /\ Current.status # "Success"
  BY <1>3, NoWriteIsTold
<1>4. CASE \E v, e, reads, told :
          /\ Allowed(ch) /\ v \in AskedValues(Current, ch) /\ IsPassed(ch, v, e)
          /\ IsReading(reads) /\ told \in {<<>>, HandleSubscribe, HandleUnsubscribe}
          /\ calls = told \o (<<WriteCall(ch, v, e)>> \o reads)
          /\ Current.status = "Success" \/ reads # <<>> => e = "None"
  <2>1. PICK v, e, reads, told :
          /\ Allowed(ch) /\ v \in AskedValues(Current, ch) /\ IsPassed(ch, v, e)
          /\ IsReading(reads) /\ told \in {<<>>, HandleSubscribe, HandleUnsubscribe}
          /\ calls = told \o (<<WriteCall(ch, v, e)>> \o reads)
          /\ Current.status = "Success" \/ reads # <<>> => e = "None"
    BY <1>4
  <2>2. ch \in Definitions8 /\ ConstraintsAreValid(ch)
    BY FoundIsValid DEF AccessInv, ItemsInv, Definition
  <2>3. Current.number \in Int /\ Current.text \in JSONTexts
    BY CurrentFields DEF AccessInv
  <2>4. IsAsked(Current, ch, v)
    BY <1>2, <2>1, <2>2, <2>3 DEF IsAsked, IsPassed
  <2> DEFINE w == RoundValueToStep(ch, v)
  <2>5. Legal(ch, w) /\ Meant(Current, ch, w)
    BY <2>4, ValuesAreRight DEF IsRight
  <2>6. AreTold(told, w, e, reads)
    BY <2>1 DEF WriteCall, AreTold
  <2> HIDE DEF w
  <2>7. PICK p \in Nat :
              /\ CallsOf("write") = {p} /\ calls[p] = Call("write", w, e)
              /\ \A j \in CallsOf("read") : p < j /\ reads # <<>>
    BY <2>6, OneWriteIsTold
  <2>8. calls[p].value = w /\ calls[p].error = e
    BY <2>7 DEF Call
  <2> QED
    BY <2>1, <2>5, <2>7, <2>8
<1> QED
  BY <1>1, <1>2, <1>3, <1>4 DEF Told

\* A write is a success only if the accessory was told, once, what was meant,
\* and it is told nothing that its definition does not allow or that the
\* controller may not write; that holds for every write but the four kinds
\* that HAPIPAccessoryServer and HAPCharacteristic do not look at, see IsPlain.
THEOREM WritesAreAsAsked == AccessSpec => [](PlainWrite => WritesAsAsked)
<1>1. ASSUME AccessInv, PlainWrite
      PROVE  WritesAsAsked
  <2>1. SUFFICES ASSUME handled > 0, failure = "None", IsWrite, NEW ch \in Definition
                 PROVE  /\ \A i, j \in CallsOf("write") : i = j
                        /\ Current.status = "Success" =>
                                \E i \in CallsOf("write") : calls[i].error = "None"
                        /\ \A i \in CallsOf("write") :
                                /\ Allowed(ch)
                                /\ Legal(ch, calls[i].value)
                                /\ Meant(Current, ch, calls[i].value)
                                /\ \A j \in CallsOf("read") : i < j /\ calls[i].error = "None"
    BY DEF WritesAsAsked
  <2> QED
    BY <1>1, <2>1, AccessAssumption, ToldAsAsked DEF PlainWrite
<1> QED
  BY <1>1, AccessInvariance, PTL

-----------------------------------------------------------------------------
(* Events. *)

Flagged(list) == {i \in DOMAIN list : list[i].flag}
AreCounted(list, flags) ==
    list \in Seq(Events8) /\ AtMostOnce(list) /\ flags = Cardinality(Flagged(list))
EventsInv == AreCounted(eventNotifications, numEventNotificationFlags)

LEMMA FlaggedIsFinite ==
    ASSUME NEW list \in Seq(Events8)
    PROVE  IsFiniteSet(Flagged(list)) /\ Flagged(list) \subseteq 1 .. Len(list)
<1>1. IsFiniteSet(1 .. Len(list))
  BY FS_Interval
<1>2. Flagged(list) \subseteq 1 .. Len(list)
  BY DEF Flagged
<1> QED
  BY <1>1, <1>2, FS_Subset

LEMMA IndexIsOfEvent ==
    ASSUME EventsInv, NEW iid
    PROVE  LET i == IndexOf(iid)
           IN  \/ i = 0 /\ \A k \in DOMAIN eventNotifications : eventNotifications[k].iid # iid
               \/ i \in DOMAIN eventNotifications /\ eventNotifications[i].iid = iid
<1> DEFINE I == {k \in 1 .. Len(eventNotifications) : eventNotifications[k].iid = iid}
<1>1. IndexOf(iid) = IF I # {} THEN Min(I) ELSE 0
  BY DEF IndexOf, SelectInSeq
<1>2. eventNotifications \in Seq(Events8)
         /\ DOMAIN eventNotifications = 1 .. Len(eventNotifications)
  BY DEF EventsInv, AreCounted
<1>3. CASE I = {}
  BY <1>1, <1>2, <1>3
<1>4. CASE I # {}
  <2>1. PICK k \in I : TRUE
    BY <1>4
  <2>2. I = {k}
    BY <1>2, <2>1 DEF EventsInv, AreCounted, AtMostOnce
  <2>3. Min(I) = k
    BY <2>1, <2>2 DEF Min
  <2> QED
    BY <1>1, <1>2, <1>4, <2>1, <2>3
<1> QED
  BY <1>3, <1>4

LEMMA AppendedIsCounted ==
    ASSUME NEW list, NEW flags, AreCounted(list, flags), NEW iid \in STRING,
           \A k \in DOMAIN list : list[k].iid # iid
    PROVE  AreCounted(Append(list, [iid |-> iid, flag |-> FALSE]), flags)
<1> DEFINE e == [iid |-> iid, flag |-> FALSE]
           longer == Append(list, e)
<1>1. list \in Seq(Events8) /\ e \in Events8
  BY DEF AreCounted, Events8
<1>2. longer \in Seq(Events8) /\ Len(longer) = Len(list) + 1 /\ Len(list) \in Nat
         /\ DOMAIN longer = 1 .. Len(list) + 1 /\ DOMAIN list = 1 .. Len(list)
         /\ longer[Len(list) + 1] = e
         /\ \A k \in 1 .. Len(list) : longer[k] = list[k]
  BY <1>1
<1>3. e.iid = iid /\ e.flag = FALSE
  OBVIOUS
<1> HIDE DEF longer, e
<1>4. AtMostOnce(longer)
  BY <1>2, <1>3 DEF AreCounted, AtMostOnce
<1>5. Flagged(longer) = Flagged(list)
  BY <1>2, <1>3 DEF Flagged
<1> QED
  BY <1>2, <1>4, <1>5 DEF AreCounted, longer, e

LEMMA RemovedElements ==
    ASSUME NEW list \in Seq(Events8), NEW i \in 1 .. Len(list)
    PROVE  LET shorter == RemoveAt(list, i)
           IN  /\ shorter \in Seq(Events8) /\ Len(shorter) = Len(list) - 1
               /\ \A k \in 1 .. Len(list) - 1 :
                    shorter[k] = IF k < i THEN list[k] ELSE list[k + 1]
<1> DEFINE before == SubSeq(list, 1, i - 1)
           behind == SubSeq(list, i + 1, Len(list))
<1>1. /\ before \in Seq(Events8) /\ Len(before) = i - 1
      /\ \A k \in 1 .. i - 1 : before[k] = list[k]
  OBVIOUS
<1>2. /\ behind \in Seq(Events8) /\ Len(behind) = Len(list) - i
      /\ \A k \in 1 .. Len(list) - i : behind[k] = list[i + k]
  OBVIOUS
<1>3. RemoveAt(list, i) = before \o behind
  BY DEF RemoveAt
<1> DEFINE n == Len(list)
           joined == before \o behind
<1>4. n \in Nat /\ i \in 1 .. n
  OBVIOUS
<1> HIDE DEF before, behind, n
<1>5. joined \in Seq(Events8) /\ Len(joined) = n - 1
  <2>1. joined \in Seq(Events8)
    BY <1>1, <1>2, ConcatProperties
  <2>2. Len(joined) = Len(before) + Len(behind)
    BY <1>1, <1>2, ConcatProperties
  <2>3. Len(before) = i - 1 /\ Len(behind) = n - i
    BY <1>1, <1>2 DEF n
  <2> HIDE DEF joined
  <2> QED
    BY <1>4, <2>1, <2>2, <2>3
<1>6. ASSUME NEW k \in 1 .. n - 1
      PROVE  joined[k] = IF k < i THEN list[k] ELSE list[k + 1]
  <2>1. CASE k < i
    BY <1>1, <1>2, <1>4, <2>1 DEF n
  <2>2. CASE k >= i
    <3>1. joined[k] = behind[k - (i - 1)]
      BY <1>1, <1>2, <1>4, <2>2 DEF n
    <3>2. k - (i - 1) \in 1 .. n - i /\ i + (k - (i - 1)) = k + 1
      BY <1>4, <2>2
    <3>3. behind[k - (i - 1)] = list[i + (k - (i - 1))]
      BY <1>2, <3>2 DEF n
    <3> QED
      BY <1>4, <2>2, <3>1, <3>2, <3>3
  <2>3. k < i \/ k >= i
    BY <1>4
  <2> QED
    BY <2>1, <2>2, <2>3, Zenon
<1> HIDE DEF joined
<1>7. RemoveAt(list, i) = joined
  BY <1>3 DEF joined
<1> QED
  BY <1>5, <1>6, <1>7 DEF n

LEMMA RemovedIsCounted ==
    ASSUME NEW list, NEW flags, AreCounted(list, flags), NEW i \in DOMAIN list
    PROVE  AreCounted(RemoveAt(list, i), IF list[i].flag THEN flags - 1 ELSE flags)
<1> DEFINE shorter == RemoveAt(list, i)
           n == Len(list)
           S == Flagged(list) \ {i}
           T == Flagged(shorter)
           f == [k \in S |-> IF k < i THEN k ELSE k - 1]
<1>1. list \in Seq(Events8) /\ i \in 1 .. n /\ n \in Nat
  BY DEF AreCounted
<1>2. /\ shorter \in Seq(Events8) /\ Len(shorter) = n - 1
      /\ \A k \in 1 .. n - 1 : shorter[k] = IF k < i THEN list[k] ELSE list[k + 1]
  BY <1>1, RemovedElements
<1>3. DOMAIN shorter = 1 .. n - 1 /\ DOMAIN list = 1 .. n
  BY <1>1, <1>2
<1> HIDE DEF shorter, n
<1>4. AtMostOnce(shorter)
  <2>1. ASSUME NEW j \in 1 .. n - 1, NEW k \in 1 .. n - 1, shorter[j].iid = shorter[k].iid
        PROVE  j = k
    <3> DEFINE old(m) == IF m < i THEN m ELSE m + 1
    <3>1. old(j) \in 1 .. n /\ old(k) \in 1 .. n
      BY <1>1
    <3>2. list[old(j)].iid = list[old(k)].iid
      BY <1>2, <2>1
    <3>3. old(j) = old(k)
      BY <1>3, <3>1, <3>2 DEF AreCounted, AtMostOnce
    <3> QED
      BY <1>1, <3>3
  <2> QED
    BY <1>3, <2>1 DEF AtMostOnce
<1>5. IsFiniteSet(Flagged(list)) /\ Flagged(list) \subseteq 1 .. n
  BY <1>1, FlaggedIsFinite DEF n
<1>6. IsFiniteSet(S) /\ Cardinality(S) = IF list[i].flag THEN flags - 1 ELSE flags
  <2>1. i \in Flagged(list) <=> list[i].flag
    BY DEF Flagged
  <2> QED
    BY <1>5, <2>1, FS_RemoveElement DEF AreCounted
<1>7. f \in Bijection(S, T)
  <2>1. \A k \in S : k \in 1 .. n /\ k # i /\ list[k].flag
    BY <1>5 DEF Flagged
  <2>2. \A k \in S : f[k] \in 1 .. n - 1 /\ shorter[f[k]] = list[k]
    BY <1>1, <1>2, <2>1
  <2>3. \A k \in S : f[k] \in T
    BY <1>3, <2>1, <2>2 DEF Flagged
  <2>4. \A j, k \in S : f[j] = f[k] => j = k
    BY <1>1, <2>1
  <2>5. \A t \in T : \E k \in S : f[k] = t
    <3> SUFFICES ASSUME NEW t \in T PROVE \E k \in S : f[k] = t
      OBVIOUS
    <3>1. t \in 1 .. n - 1 /\ shorter[t].flag
      BY <1>3 DEF Flagged
    <3> DEFINE k == IF t < i THEN t ELSE t + 1
    <3>2. k \in 1 .. n /\ k # i /\ list[k].flag
      BY <1>1, <1>2, <3>1
    <3>3. k \in S
      BY <1>3, <3>2 DEF Flagged
    <3>4. f[k] = t
      BY <1>1, <3>1, <3>3
    <3> QED
      BY <3>3, <3>4
  <2> QED
    BY <2>3, <2>4, <2>5 DEF Bijection, Injection, Surjection, IsInjective
<1>8. Cardinality(T) = Cardinality(S)
  BY <1>6, <1>7, FS_Bijection DEF ExistsBijection
<1> QED
  BY <1>2, <1>4, <1>6, <1>8 DEF AreCounted, shorter

\* Subscribing keeps the count.
LEMMA SubscribeIsCounted ==
    ASSUME EventsInv, NEW c, c.iid \in STRING, NEW ch
    PROVE  AreCounted(Subscribe(c, ch).list, Subscribe(c, ch).flags)
<1> DEFINE s == Subscribe(c, ch)
           i == IndexOf(c.iid)
<1>1. CASE \E status : s = Same(status)
  BY <1>1 DEF Same, EventsInv
<1>2. CASE i # 0 /\ s = [Same("Success") EXCEPT !.list = RemoveAt(@, i), !.flags = FlagsWithout(i),
                                                !.calls = HandleUnsubscribe]
  <2>1. i \in DOMAIN eventNotifications
    BY <1>2, IndexIsOfEvent
  <2>2. s.list = RemoveAt(eventNotifications, i) /\ s.flags = FlagsWithout(i)
    BY <1>2 DEF Same
  <2>3. AreCounted(RemoveAt(eventNotifications, i), FlagsWithout(i))
    BY <2>1, RemovedIsCounted DEF FlagsWithout, EventsInv
  <2> QED
    BY <2>2, <2>3
<1>3. CASE i = 0 /\ s = [Same("Success") EXCEPT
                            !.list = Append(@, [iid |-> c.iid, flag |-> FALSE]),
                            !.calls = HandleSubscribe]
  <2>1. \A k \in DOMAIN eventNotifications : eventNotifications[k].iid # c.iid
    <3>1. 0 \notin DOMAIN eventNotifications
      BY DEF EventsInv, AreCounted
    <3> QED
      BY <1>3, <3>1, IndexIsOfEvent
  <2>2. s.list = Append(eventNotifications, [iid |-> c.iid, flag |-> FALSE])
           /\ s.flags = numEventNotificationFlags
    BY <1>3 DEF Same
  <2> QED
    BY <2>1, <2>2, AppendedIsCounted DEF EventsInv
<1> QED
  BY <1>1, <1>2, <1>3, Zenon DEF Subscribe

\* A characteristic has its events enabled once, and numEventNotificationFlags
\* is the number of flags that are set, whatever HAPIPAccessoryServer
\* subscribes and unsubscribes.
THEOREM FlagsAreCounted == AccessSpec => []FlagsCounted
<1>1. AccessInit => EventsInv
  <2> SUFFICES ASSUME AccessInit PROVE EventsInv
    OBVIOUS
  <2>1. IsScenario(scenario) /\ eventNotifications = scenario.events
    BY AccessAssumption DEF AccessInit, AccessAssumption
  <2> QED
    BY <2>1 DEF AccessInit, EventsInv, AreCounted, Flagged, IsScenario
<1>2. ASSUME AccessInv, EventsInv, [AccessNext]_accessVars
      PROVE  EventsInv'
  <2>1. CASE UNCHANGED <<eventNotifications, numEventNotificationFlags>>
    BY <1>2, <2>1 DEF EventsInv, AreCounted, Flagged, AtMostOnce
  <2>2. CASE \E ch : /\ eventNotifications' = Subscribe(Asks8, ch).list
                     /\ numEventNotificationFlags' = Subscribe(Asks8, ch).flags
                     /\ handled < Len(items)
    <3>1. PICK ch : /\ eventNotifications' = Subscribe(Asks8, ch).list
                    /\ numEventNotificationFlags' = Subscribe(Asks8, ch).flags
      BY <2>2
    <3>2. Asks8.iid \in STRING
      <4> DEFINE n == handled + 1
      <4>1. n \in 1 .. Len(scenario.items) /\ IsSameRequest(Asks8, scenario.items[n])
        BY <1>2, <2>2 DEF AccessInv, ItemsInv, Asks8
      <4>2. IsContext(scenario.items[n])
        BY <1>2, <4>1 DEF AccessInv, ItemsInv, IsAccessory, IsScenario, Range
      <4> QED
        BY <4>1, <4>2 DEF IsContext, IsSameRequest, AskedFields
    <3>3. AreCounted(Subscribe(Asks8, ch).list, Subscribe(Asks8, ch).flags)
      BY <1>2, <3>2, SubscribeIsCounted
    <3> QED
      BY <3>1, <3>3 DEF EventsInv, AreCounted
  <2>3. ASSUME HandleReads
        PROVE  UNCHANGED <<eventNotifications, numEventNotificationFlags>>
    BY <2>3 DEF HandleReads, ReadContext, Answer, Done
  <2>4. ASSUME HandleBLE
        PROVE  UNCHANGED <<eventNotifications, numEventNotificationFlags>>
    BY <2>4 DEF HandleBLE, Done
  <2>5. ASSUME HandleWrites
        PROVE  \/ UNCHANGED <<eventNotifications, numEventNotificationFlags>>
               \/ \E ch : /\ eventNotifications' = Subscribe(Asks8, ch).list
                          /\ numEventNotificationFlags' = Subscribe(Asks8, ch).flags
                          /\ handled < Len(items)
    <3>1. handled < Len(items)
      BY <2>5 DEF HandleWrites, IsNext
    <3>2. ASSUME NEW status, Answer(status)
          PROVE  UNCHANGED <<eventNotifications, numEventNotificationFlags>>
      BY <3>2 DEF Answer, Done
    <3>3. ASSUME NEW ch, HandleCharacteristicWrite(Asks8, ch)
          PROVE  \/ UNCHANGED <<eventNotifications, numEventNotificationFlags>>
                 \/ /\ eventNotifications' = Subscribe(Asks8, ch).list
                    /\ numEventNotificationFlags' = Subscribe(Asks8, ch).flags
      <4>1. CASE Asks8.type = "None" /\ Asks8.ev = "undefined"
        BY <3>2, <3>3, <4>1 DEF HandleCharacteristicWrite
      <4>2. CASE ~(Asks8.type = "None" /\ Asks8.ev = "undefined")
        BY <3>3, <4>2 DEF HandleCharacteristicWrite, Done
      <4> QED
        BY <4>1, <4>2
    <3> QED
      BY <2>5, <3>1, <3>2, <3>3 DEF HandleWrites, Asks8
  <2>6. CASE UNCHANGED accessVars
    BY <2>1, <2>6 DEF accessVars
  <2> QED
    BY <1>2, <2>1, <2>2, <2>3, <2>4, <2>5, <2>6 DEF AccessNext
<1>3. EventsInv => FlagsCounted
  BY DEF EventsInv, AreCounted, AtMostOnce, Flagged, FlagsCounted
<1> QED
  BY <1>1, <1>2, <1>3, AccessInvariance, PTL DEF AccessSpec
=============================================================================
