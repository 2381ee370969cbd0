-------------------------- MODULE AccessoryDatabase --------------------------
(***************************************************************************)
(* The response to GET /accessories.  The attribute database is too long   *)
(* for a buffer, so HAPIPAccessorySerializeReadResponse is called once for *)
(* each chunk, and remembers in a context where in the document it is: a   *)
(* state of an automaton that appends a token at a time, and the indices   *)
(* of the current accessory, service, characteristic and list element.     *)
(* A token is a string; the index of the NULL of an array is the length    *)
(* plus one.                                                               *)
(***************************************************************************)
EXTENDS Attributes

CONSTANTS
    Databases,      \* databases that may be read
    MinChunks,      \* least numbers of bytes of a chunk
    MaxChunks,      \* numbers of bytes that there is room for
    WordBytes       \* bytes of a token that is not a delimiter

\* What the definitions of an accessory say; there is always a primary one.
CharacteristicRecords ==
    [iid : STRING, type : STRING, format : Formats, properties : SUBSET STRING,
     description : STRING, unit : STRING, constrained : BOOLEAN,
     validValues : {"none", "empty", "one", "two"},
     ranges : {"none", "empty", "one", "two"}, apple : BOOLEAN,
     controlPoint : BOOLEAN, fails : BOOLEAN, subscribed : BOOLEAN,
     value : STRING]
ServiceRecords ==
    [iid : STRING, type : STRING, primary : BOOLEAN, hidden : BOOLEAN,
     linked : Seq(STRING), characteristics : Seq(CharacteristicRecords)]
AccessoryRecords == [aid : STRING, services : Seq(ServiceRecords)]
ASSUME DatabasesAssumption ==
    \A d \in Databases : d \in Seq(AccessoryRecords) /\ d # <<>>

Delimiters == {"{", "}", "[", "]", ",", ":"}
Bytes(tokens) ==
    FoldLeft(LAMBDA n, t : n + (IF t \in Delimiters THEN 1 ELSE WordBytes),
             0, tokens)

VARIABLES
    db,             \* the accessories: primary and bridged
    context,        \* where the serialization is
    chunk,          \* tokens of the call in progress
    minBytes,       \* its least length
    maxBytes,       \* the room there is for it
    body            \* tokens of the calls before

databaseVars == <<db, context, chunk, minBytes, maxBytes, body>>


Accessory(c) == db[c.accessory]
Service(c) == Accessory(c).services[c.service]
Characteristic(c) == Service(c).characteristics[c.characteristic]

-----------------------------------------------------------------------------
(* The automaton: Out(t, c) appends t and goes on at c. *)

Out(token, c) == [tokens |-> <<token>>, to |-> c]
Truth(flag) == IF flag THEN "true" ELSE "false"
Skip(c) == [tokens |-> <<>>, to |-> c]
At(c, element, part) == [c EXCEPT !.element = element, !.part = part]

Names ==
    [AccessoriesArray |-> "accessories", AccessoryID |-> "aid",
     ServicesArray |-> "services", ServiceID |-> "iid",
     ServiceType |-> "type", ServicePropertyPrimary |-> "primary",
     ServicePropertyHidden |-> "hidden", LinkedServicesArray |-> "linked",
     CharacteristicsArray |-> "characteristics",
     CharacteristicID |-> "iid", CharacteristicType |-> "type",
     CharacteristicFormat |-> "format", CharacteristicValue |-> "value",
     PermissionsArray |-> "perms", EventNotifications |-> "ev",
     Description |-> "description", Unit |-> "unit",
     MinimumValue |-> "minValue", MaximumValue |-> "maxValue",
     StepValue |-> "minStep", MaxLength |-> "maxLen",
     MaxDataLength |-> "maxDataLen", ValidValuesArray |-> "valid-values",
     ValidValuesRangesArray |-> "valid-values-range"]
Arrays ==
    {"AccessoriesArray", "ServicesArray", "LinkedServicesArray",
     "CharacteristicsArray", "PermissionsArray", "ValidValuesArray",
     "ValidValuesRangesArray"}

NameStep(c) ==
    IF c.part = "Name" THEN Out(Names[c.element], At(c, c.element, "NameSeparator"))
    ELSE Out(":", At(c, c.element,
                     IF c.element \in Arrays THEN "Begin" ELSE "Value"))

\* Elements that always follow one another.
Follows ==
    [AccessoryID |-> "ServicesArray", ServiceID |-> "ServiceType",
     ServiceType |-> "ServicePropertyPrimary",
     ServicePropertyPrimary |-> "ServicePropertyHidden",
     ServicePropertyHidden |-> "LinkedServicesArray",
     LinkedServicesArray |-> "CharacteristicsArray",
     CharacteristicID |-> "CharacteristicType",
     CharacteristicType |-> "CharacteristicFormat",
     CharacteristicValue |-> "PermissionsArray",
     MinimumValue |-> "MaximumValue", MaximumValue |-> "StepValue"]
FollowStep(c) == Out(",", At(c, Follows[c.element], "Name"))

ResponseStep(c) ==
    IF c.element = "ResponseObject"
    THEN IF c.part = "Begin" THEN Out("{", At(c, "AccessoriesArray", "Name"))
                             ELSE Out("}", At(c, "ResponseIsComplete", ""))
    ELSE IF c.part = "Begin"
    THEN Out("[", At([c EXCEPT !.accessory = 1], "AccessoryObject", "Begin"))
    ELSE Out("]", At(c, "ResponseObject", "End"))

AccessoryStep(c) ==
    LET next == [c EXCEPT !.accessory = @ + 1]
    IN  CASE c.part = "Begin" -> Out("{", At(c, "AccessoryID", "Name"))
          [] c.part = "Separator" -> Out(",", At(c, "AccessoryObject", "Begin"))
          [] OTHER -> Out("}", IF next.accessory <= Len(db)
                               THEN At(next, "AccessoryObject", "Separator")
                               ELSE At(next, "AccessoriesArray", "End"))

ServicesStep(c) ==
    LET first == [c EXCEPT !.service =
                    Seek(Accessory(c).services, 1, SupportsService)]
    IN  IF c.part = "End" THEN Out("]", At(c, "AccessoryObject", "End"))
        ELSE Out("[", IF first.service <= Len(Accessory(c).services)
                      THEN At(first, "ServiceObject", "Begin")
                      ELSE At(first, "ServicesArray", "End"))
NextService(c) ==
    [c EXCEPT !.service =
        Seek(Accessory(c).services, @ + 1, SupportsService)]
ServiceStep(c) ==
    LET next == NextService(c)
    IN  CASE c.part = "Begin" -> Out("{", At(c, "ServiceID", "Name"))
          [] c.part = "Separator" -> Out(",", At(c, "ServiceObject", "Begin"))
          [] OTHER -> Out("}", IF next.service <= Len(Accessory(c).services)
                               THEN At(next, "ServiceObject", "Separator")
                               ELSE At(next, "ServicesArray", "End"))
ServiceValueStep(c) ==
    Out(CASE c.element = "AccessoryID" -> Accessory(c).aid
          [] c.element = "ServiceID" -> Service(c).iid
          [] c.element = "ServiceType" -> Service(c).type
          [] c.element = "ServicePropertyPrimary" -> Truth(Service(c).primary)
          [] OTHER -> Truth(Service(c).hidden),
        At(c, c.element, "ValueSeparator"))

\* A list of numbers within an object: array, then its elements.
ListStep(c, list, array, element) ==
    LET next == [c EXCEPT !.index = @ + 1]
    IN  CASE c.element = array /\ c.part = "Begin" ->
                Out("[", IF list = <<>> THEN At(c, array, "End")
                         ELSE At([c EXCEPT !.index = 1], element, "Value"))
          [] c.element = array /\ c.part # "Begin" ->
                Out("]", At(c, array, "ValueSeparator"))
          [] c.element # array /\ c.part = "Separator" ->
                Out(",", At(c, element, "Value"))
          [] OTHER -> Out(list[c.index],
                          IF next.index <= Len(list)
                          THEN At(next, element, "Separator")
                          ELSE At(next, array, "End"))
LinkedStep(c) ==
    ListStep(c, Service(c).linked, "LinkedServicesArray", "LinkedServiceID")

CharacteristicsStep(c) ==
    LET first == [c EXCEPT !.characteristic =
                    Seek(Service(c).characteristics, 1, IsSupported)]
    IN  IF c.part = "End" THEN Out("]", At(c, "ServiceObject", "End"))
        ELSE Out("[", IF first.characteristic <= Len(Service(c).characteristics)
                      THEN At(first, "CharacteristicObject", "Begin")
                      ELSE At(first, "CharacteristicsArray", "End"))
CharacteristicStep(c) ==
    LET next == [c EXCEPT !.characteristic =
                    Seek(Service(c).characteristics, @ + 1, IsSupported)]
    IN  CASE c.part = "Begin" -> Out("{", At(c, "CharacteristicID", "Name"))
          [] c.part = "Separator" -> Out(",", At(c, "CharacteristicObject", "Begin"))
          [] OTHER -> Out("}", IF next.characteristic <= Len(Service(c).characteristics)
                               THEN At(next, "CharacteristicObject", "Separator")
                               ELSE At(next, "CharacteristicsArray", "End"))

\* What is told of a value: nothing of a switch event, of a control point,
\* or of one whose handler fails.
Value(ch) ==
    IF ch.type = "ProgrammableSwitchEvent" THEN "null"
    ELSE IF ch.controlPoint /\ ch.format = "tlv8" THEN "empty"
    ELSE IF ch.fails THEN (IF ch.format = "tlv8" THEN "empty" ELSE "null")
    ELSE ch.value
HeadStep(c) ==
    LET ch == Characteristic(c)
        value == [CharacteristicID |-> ch.iid, CharacteristicType |-> ch.type,
                  CharacteristicFormat |-> ch.format]
    IN  Out(value[c.element], At(c, c.element, "ValueSeparator"))
FormatSeparatorStep(c) ==
    Out(",", At(c, IF "pr" \in Characteristic(c).properties
                   THEN "CharacteristicValue" ELSE "PermissionsArray", "Name"))
ValueStep(c) == Out(Value(Characteristic(c)), At(c, c.element, "ValueSeparator"))
PermissionsStep(c) ==
    ListStep(c, EnabledProperties(Characteristic(c)), "PermissionsArray",
             "Permission")

\* The separator before the optional attributes is written by the attribute
\* before them, which has to know which of them is next.
MutEventSeparator(c) ==
    LET ch == Characteristic(c)
    IN  IF c.element = "PermissionsArray" /\ "pr" \in ch.properties
        THEN Out(",", At(c, "EventNotifications", "Name"))
        ELSE IF ch.description # "" THEN Out(",", At(c, "Description", "Name"))
        ELSE IF HasUnit(ch) THEN Out(",", At(c, "Unit", "Name"))
        ELSE Skip(At(c, "Unit", "ValueSeparator"))
OptionSeparatorStep(c) ==
    LET ch == Characteristic(c)
    IN  IF c.element = "PermissionsArray" /\ "pr" \in ch.properties
        THEN Out(",", At(c, "EventNotifications", "Name"))
        ELSE IF c.element # "Description" /\ ch.description # ""
        THEN Out(",", At(c, "Description", "Name"))
        ELSE IF HasUnit(ch) THEN Out(",", At(c, "Unit", "Name"))
        ELSE Skip(At(c, "Unit", "ValueSeparator"))
EventNotificationsStep(c) ==
    Out(Truth(Characteristic(c).subscribed), At(c, c.element, "ValueSeparator"))
DescriptionStep(c) ==
    Out(Characteristic(c).description, At(c, c.element, "ValueSeparator"))
UnitStep(c) == Out(Characteristic(c).unit, At(c, c.element, "ValueSeparator"))

\* Constraints are written where they are not the default ones.
ConstraintsStep(c) ==
    LET ch == Characteristic(c)
    IN  CASE ch.format \in Numbers /\ ch.constrained ->
                Out(",", At(c, "MinimumValue", "Name"))
          [] ch.format = "uint8" /\ ~ch.constrained ->
                Skip(At(c, "StepValue", "ValueSeparator"))
          [] ch.format = "string" /\ ch.constrained ->
                Out(",", At(c, "MaxLength", "Name"))
          [] ch.format = "data" /\ ch.constrained ->
                Out(",", At(c, "MaxDataLength", "Name"))
          [] OTHER -> Skip(At(c, "CharacteristicObject", "End"))
LimitStep(c) == Out("limit", At(c, c.element, "ValueSeparator"))
StepValueStep(c) ==
    Out("limit", IF Characteristic(c).format = "uint8"
                 THEN At(c, "StepValue", "ValueSeparator")
                 ELSE At(c, "CharacteristicObject", "End"))
LengthStep(c) == Out("limit", At(c, "CharacteristicObject", "End"))

\* Only a UInt8 of an Apple-defined type has valid values and ranges of them.
ValidValuesSeparatorStep(c) ==
    LET ch == Characteristic(c)
    IN  IF ch.apple /\ ch.validValues # "none"
        THEN Out(",", At(c, "ValidValuesArray", "Name"))
        ELSE IF ch.apple /\ ch.ranges # "none"
        THEN Out(",", At(c, "ValidValuesRangesArray", "Name"))
        ELSE Skip(At(c, "CharacteristicObject", "End"))
List(n) == CASE n = "one" -> <<"v">> [] n = "two" -> <<"v", "w">> [] OTHER -> <<>>
ValidValuesStep(c) ==
    ListStep(c, List(Characteristic(c).validValues), "ValidValuesArray",
             "ValidValue")
RangesSeparatorStep(c) ==
    IF Characteristic(c).ranges # "none"
    THEN Out(",", At(c, "ValidValuesRangesArray", "Name"))
    ELSE Skip(At(c, "CharacteristicObject", "End"))
RangesStep(c) ==
    LET list == List(Characteristic(c).ranges)
    IN  IF c.part = "End" THEN Out("]", At(c, "CharacteristicObject", "End"))
        ELSE Out("[", IF list = <<>> THEN At(c, "ValidValuesRangesArray", "End")
                      ELSE At([c EXCEPT !.index = 1], "ValidValuesRange", "Begin"))
RangeStep(c) ==
    LET list == List(Characteristic(c).ranges)
        next == [c EXCEPT !.index = @ + 1]
    IN  CASE c.part = "Begin" -> Out("[", At(c, "RangeStart", "Value"))
          [] c.part = "Comma" -> Out(",", At(c, "RangeEnd", "Value"))
          [] c.part = "Separator" -> Out(",", At(c, "ValidValuesRange", "Begin"))
          [] c.element = "RangeStart" ->
                Out(list[c.index], At(c, "ValidValuesRange", "Comma"))
          [] c.element = "RangeEnd" ->
                Out(list[c.index], At(c, "ValidValuesRange", "End"))
          [] OTHER -> Out("]", IF next.index <= Len(list)
                               THEN At(next, "ValidValuesRange", "Separator")
                               ELSE At(next, "ValidValuesRangesArray", "End"))

ElementStep(c) ==
    CASE c.element \in {"ResponseObject", "AccessoriesArray"} -> ResponseStep(c)
      [] c.element = "AccessoryObject" -> AccessoryStep(c)
      [] c.element = "ServicesArray" -> ServicesStep(c)
      [] c.element = "ServiceObject" -> ServiceStep(c)
      [] c.element \in {"LinkedServicesArray", "LinkedServiceID"} -> LinkedStep(c)
      [] c.element = "CharacteristicsArray" -> CharacteristicsStep(c)
      [] c.element = "CharacteristicObject" -> CharacteristicStep(c)
      [] c.element \in {"PermissionsArray", "Permission"} -> PermissionsStep(c)
      [] c.element \in {"ValidValuesArray", "ValidValue"} -> ValidValuesStep(c)
      [] c.element = "ValidValuesRangesArray" -> RangesStep(c)
      [] c.element \in {"ValidValuesRange", "RangeStart", "RangeEnd"} -> RangeStep(c)
ValuesStep(c) ==
    CASE c.element \in {"AccessoryID", "ServiceID", "ServiceType",
                        "ServicePropertyPrimary", "ServicePropertyHidden"} ->
            ServiceValueStep(c)
      [] c.element \in {"CharacteristicID", "CharacteristicType",
                        "CharacteristicFormat"} -> HeadStep(c)
      [] c.element = "CharacteristicValue" -> ValueStep(c)
      [] c.element = "EventNotifications" -> EventNotificationsStep(c)
      [] c.element = "Description" -> DescriptionStep(c)
      [] c.element = "Unit" -> UnitStep(c)
      [] c.element \in {"MinimumValue", "MaximumValue"} -> LimitStep(c)
      [] c.element = "StepValue" -> StepValueStep(c)
      [] c.element \in {"MaxLength", "MaxDataLength"} -> LengthStep(c)
SeparatorStep(c) ==
    CASE c.element \in DOMAIN Follows -> FollowStep(c)
      [] c.element = "CharacteristicFormat" -> FormatSeparatorStep(c)
      [] c.element = "Unit" -> ConstraintsStep(c)
      [] c.element = "StepValue" -> ValidValuesSeparatorStep(c)
      [] c.element = "ValidValuesArray" -> RangesSeparatorStep(c)
      [] OTHER -> OptionSeparatorStep(c)
Lists == {"LinkedServiceID", "Permission", "ValidValue", "RangeStart", "RangeEnd"}
Step(c) ==
    CASE c.part \in {"Name", "NameSeparator"} -> NameStep(c)
      [] c.part = "ValueSeparator" -> SeparatorStep(c)
      [] c.part = "Value" /\ c.element \notin Lists -> ValuesStep(c)
      [] OTHER -> ElementStep(c)

-----------------------------------------------------------------------------
(* Calls for chunks. *)

NewContext ==
    [element |-> "ResponseObject", part |-> "Begin", accessory |-> 0,
     service |-> 0, characteristic |-> 0, index |-> 0]
IsComplete(c) == c.element = "ResponseIsComplete"

DatabaseInit ==
    /\ db \in Databases
    /\ context = NewContext
    /\ chunk = <<>> /\ body = <<>>
    /\ minBytes \in MinChunks
    /\ maxBytes \in {n \in MaxChunks : n >= minBytes}

\* One turn of the loop.  What does not fit ends the call with an error, and
\* the program: the outbound buffer is too small for this database.
SerializeReadResponse ==
    LET step == Step(context)
        more == chunk \o step.tokens
        done == Bytes(more) >= minBytes \/ IsComplete(step.to)
    IN  /\ ~IsComplete(context)
        /\ Bytes(more) <= maxBytes
        /\ context' = step.to
        /\ IF done THEN /\ body' = body \o more /\ chunk' = <<>>
                        /\ minBytes' \in MinChunks
                        /\ maxBytes' \in {n \in MaxChunks : n >= minBytes'}
                   ELSE /\ chunk' = more
                        /\ UNCHANGED <<minBytes, maxBytes, body>>
        /\ UNCHANGED db

DatabaseNext == SerializeReadResponse
DatabaseSpec == DatabaseInit /\ [][DatabaseNext]_databaseVars

-----------------------------------------------------------------------------
(* The document that the pieces are pieces of.  What there is none of is   *)
(* an empty part, which the list of them leaves out.                       *)

\* What the parts from i on add to a list: each a comma and itself.
Commas(parts) ==
    LET end == Len(parts) + 1
        from[i \in 1 .. end] ==
            IF i = end THEN <<>>
            ELSE LET part == parts[i]
                 IN  (IF part = <<>> THEN <<>> ELSE <<",">> \o part) \o from[i + 1]
    IN  from
Join(parts) ==
    LET all == Commas(parts)[1] IN IF all = <<>> THEN <<>> ELSE Tail(all)
Object(fields) == <<"{">> \o Join(fields) \o <<"}">>
Array(items) == <<"[">> \o Join(items) \o <<"]">>
Field(name, value) == <<name, ":">> \o value
Strings(list) == [i \in DOMAIN list |-> <<list[i]>>]
Given(condition, part) == IF condition THEN part ELSE <<>>

RangeDocument(v) == Array(<< <<v>>, <<v>> >>)
RangeDocuments(list) == [i \in DOMAIN list |-> RangeDocument(list[i])]
CharacteristicFields(ch) ==
    LET readable == "pr" \in ch.properties
        limited == ch.format \in Numbers /\ ch.constrained
        valid == ch.format = "uint8" /\ ch.apple
    IN  <<Field("iid", <<ch.iid>>), Field("type", <<ch.type>>),
          Field("format", <<ch.format>>),
          Given(readable, Field("value", <<Value(ch)>>)),
          Field("perms", Array(Strings(EnabledProperties(ch)))),
          Given(readable, Field("ev", <<Truth(ch.subscribed)>>)),
          Given(ch.description # "", Field("description", <<ch.description>>)),
          Given(HasUnit(ch), Field("unit", <<ch.unit>>)),
          Given(limited, Field("minValue", <<"limit">>)),
          Given(limited, Field("maxValue", <<"limit">>)),
          Given(limited, Field("minStep", <<"limit">>)),
          Given(ch.format = "string" /\ ch.constrained,
                Field("maxLen", <<"limit">>)),
          Given(ch.format = "data" /\ ch.constrained,
                Field("maxDataLen", <<"limit">>)),
          Given(valid /\ ch.validValues # "none",
                Field("valid-values", Array(Strings(List(ch.validValues))))),
          Given(valid /\ ch.ranges # "none",
                Field("valid-values-range", Array(RangeDocuments(List(ch.ranges)))))>>
CharacteristicDocuments(list) ==
    [i \in DOMAIN list |->
        Given(IsSupported(list[i]), Object(CharacteristicFields(list[i])))]
ServiceFields(service) ==
    <<Field("iid", <<service.iid>>), Field("type", <<service.type>>),
      Field("primary", <<Truth(service.primary)>>),
      Field("hidden", <<Truth(service.hidden)>>),
      Field("linked", Array(Strings(service.linked))),
      Field("characteristics",
            Array(CharacteristicDocuments(service.characteristics)))>>
ServiceDocuments(list) ==
    [i \in DOMAIN list |->
        Given(SupportsService(list[i]), Object(ServiceFields(list[i])))]
AccessoryFields(accessory) ==
    <<Field("aid", <<accessory.aid>>),
      Field("services", Array(ServiceDocuments(accessory.services)))>>
AccessoryDocuments == [i \in DOMAIN db |-> Object(AccessoryFields(db[i]))]
Document == Object(<<Field("accessories", Array(AccessoryDocuments))>>)

\* However the document is divided into chunks, and whatever the database
\* has in it that IP does not support, what has been sent is the beginning
\* of the JSON document of the database, and in the end all of it
\* (HAPIPAccessorySerializeReadResponse and its context).
PiecesMakeDocument ==
    LET sent == body \o chunk
    IN  IF IsComplete(context) THEN body = Document /\ chunk = <<>>
        ELSE LET document == Document IN IsStrictPrefix(sent, document)
=============================================================================
