------------------------------ MODULE MCAccess ------------------------------
(***************************************************************************)
(* Instances of reads and writes for TLC: an accessory of one service, and *)
(* a request to it.                                                        *)
(***************************************************************************)
EXTENDS CharacteristicAccess

MCBits == [uint8 |-> 3, uint16 |-> 3, uint32 |-> 4, uint64 |-> 4, int |-> 4]

Byte ==
    [iid |-> "c", type |-> "Custom", format |-> "uint8", properties |-> {"pr", "pw"},
     admin |-> {}, handlers |-> {"read", "write"}, min |-> 0, max |-> 3, step |-> 1,
     validValues |-> {}, ranges |-> {}, apple |-> TRUE, maxLength |-> 3,
     controlPoint |-> FALSE]
AccessoryOf(characteristics) ==
    [aid |-> 1, category |-> "Lighting",
     services |-> <<[iid |-> "s", linked |-> <<>>, hidden |-> FALSE,
                     characteristics |-> characteristics]>>]
Item ==
    [iid |-> "c", type |-> "UInt", number |-> 2, text |-> NoText, ev |-> "undefined",
     response |-> FALSE, authData |-> "none", status |-> "None", value |-> 0,
     start |-> 0, length |-> 0, tlvs |-> [value |-> 1], order |-> <<"value">>]
Scenario(characteristics, method, list) ==
    [accessory |-> AccessoryOf(characteristics), method |-> method, admin |-> TRUE,
     timed |-> TRUE, secured |-> TRUE, elapsed |-> 0, numbers |-> {2}, items |-> list,
     events |-> <<>>]

\* Every combination of what is asked of handlers and controllers.
IsValid(ch) == RegularAccessoryIsValid(AccessoryOf(<<ch>>))
MCDefinitions ==
    {ch \in {[Byte EXCEPT !.properties = p, !.admin = a, !.handlers = h] :
                p \in SUBSET {"pr", "pw", "ev", "wr", "tw"},
                a \in SUBSET {"both", "read", "write"}, h \in SUBSET {"read", "write"}}
            \cup {[Byte EXCEPT !.properties = p, !.handlers = h] :
                p \in SUBSET {"pr", "prs", "broadcast", "disconnected", "ev"}
                        \cup SUBSET {"pw", "pws", "aa", "hd"},
                h \in SUBSET {"read", "write"}} : IsValid(ch)}
MCBodies ==
    {[Item EXCEPT !.tlvs = [value |-> 1, ttl |-> 2, returnResponse |-> 1],
                  !.order = <<"ttl", "value", "returnResponse">>],
     [Item EXCEPT !.tlvs = [value |-> 1, ttl |-> 2], !.order = <<"value", "ttl">>]}
PermissionScenarios(definitions) == {
    {[Scenario(<<ch>>, m, <<Item>>) EXCEPT !.admin = a] :
        ch \in definitions,
        m \in {"GetAccessories", "GetCharacteristics", "EventNotification"}, a \in BOOLEAN},
    {[Scenario(<<ch>>, "PutCharacteristics", <<[Item EXCEPT !.response = r]>>)
        EXCEPT !.admin = a, !.timed = t] :
        ch \in definitions, r \in BOOLEAN, a \in BOOLEAN, t \in BOOLEAN},
    {[Scenario(<<ch>>, m, <<c>>) EXCEPT !.admin = a, !.secured = s] :
        ch \in definitions, m \in BLEMethods, c \in MCBodies, a \in BOOLEAN, s \in BOOLEAN}}

-----------------------------------------------------------------------------
(* Values and constraints of every format. *)

OneOrNone(v) == IF v = <<>> THEN {} ELSE {v}
MCUnsigned ==
    {[Byte EXCEPT !.min = l, !.max = h, !.step = k] :
        l \in {0, 1}, h \in {5, 7}, k \in {0, 1, 2, 3}}
MCConstrained ==
    {[ch EXCEPT !.format = f] : ch \in MCUnsigned, f \in UnsignedFormats}
    \cup {[Byte EXCEPT !.max = 7, !.validValues = OneOrNone(v), !.ranges = OneOrNone(r), !.apple = a] :
            a \in BOOLEAN, v \in {<<>>, <<2>>, <<1, 4>>, <<4, 1>>},
            r \in {<<>>, <<[start |-> 3, end |-> 5]>>, <<[start |-> 5, end |-> 3]>>,
                   <<[start |-> 0, end |-> 1], [start |-> 4, end |-> 6]>>}}
    \cup {[Byte EXCEPT !.format = "bool"]}
\* Ranges of int that are not wider than an int,
MCInts ==
    {[Byte EXCEPT !.format = "int", !.min = l, !.max = h, !.step = k] :
        l \in {-3, 0}, h \in {-1, 3}, k \in -1 .. 3}
\* and of float that end in a step.
MCFloats ==
    {[Byte EXCEPT !.format = "float", !.min = l, !.max = h, !.step = k] :
        l \in {-20, 0}, h \in {20, -40}, k \in {0, 10, 20, -1, Infinity, NaN}}
    \cup {[Byte EXCEPT !.format = "float", !.min = l, !.max = h, !.step = 0] :
            l \in {-Infinity, 0, NaN}, h \in {20, Infinity, NaN}}
MCNumbers ==
    {[type |-> "UInt", number |-> n] : n \in 0 .. 16}
    \cup {[type |-> "Int", number |-> n] : n \in -9 .. 8}
    \cup {[type |-> t, number |-> 2] : t \in {"Float", "String"}}
Sent(x) == [Item EXCEPT !.type = x.type, !.number = x.number]
ValueScenarios(constrained, numbers) ==
    {[Scenario(<<ch>>, m, <<Sent(x)>>) EXCEPT !.numbers = {x.number}] :
        ch \in {d \in constrained : IsValid(d)}, x \in numbers,
        m \in {"GetCharacteristics", "PutCharacteristics", "Write"}}
FloatNumbers ==
    {[type |-> "Float", number |-> n] : n \in -23 .. 23 \cup {Infinity, -Infinity, NaN}}
    \cup {[type |-> "UInt", number |-> n] : n \in 0 .. 3}
    \cup {[type |-> "Int", number |-> n] : n \in -3 .. -1}

JSONTextOf(chars, decodes, decoded) == [chars |-> chars, decodes |-> decodes, decoded |-> decoded]
MCTexts ==
    {JSONTextOf(<<>>, TRUE, <<>>), JSONTextOf(<<"a">>, FALSE, <<>>), JSONTextOf(<<"a", "b">>, FALSE, <<>>),
     JSONTextOf(<<"a", "a", "b", "b">>, TRUE, <<"x", "y", "z">>),
     JSONTextOf(<<"a", "b", "b", "a">>, TRUE, <<"x">>),
     JSONTextOf([i \in 1 .. 8 |-> "a"], TRUE, <<"x", "y", "z", "x", "y">>)}
TextsOf(f) == [Byte EXCEPT !.format = f, !.maxLength = IF f = "string" THEN 3 ELSE 4]
TextScenarios ==
    {Scenario(<<TextsOf(f)>>, m,
              <<[Item EXCEPT !.type = t, !.text = x, !.authData = a,
                             !.tlvs = [value |-> Len(x.chars)]]>>) :
        f \in Texts8, t \in {"String"}, x \in MCTexts, a \in {"none", "good", "malformed"},
        m \in {"PutCharacteristics", "Write"}}

Numbered(chs) == [i \in DOMAIN chs |-> [chs[i] EXCEPT !.iid = ToString(i)]]
\* The Pairing service of the repository's accessories, most of which is for
\* sessions without security only (Applications/Lightbulb/DB.c).
PairingTLV8 ==
    [TextsOf("tlv8") EXCEPT !.properties = {"prs", "pws"}, !.controlPoint = TRUE]
PairingCharacteristics ==
    Numbered(<<PairingTLV8, PairingTLV8,
               [Byte EXCEPT !.properties = {"prs"}, !.handlers = {"read"}],
               [PairingTLV8 EXCEPT !.properties = {"pr", "pw"}]>>)
PairingScenarios ==
    {[Scenario(PairingCharacteristics, m,
               <<[Item EXCEPT !.iid = ToString(i), !.response = r, !.type = IF i = 3 THEN "UInt" ELSE "String",
                              !.text = x, !.tlvs = b @@ [value |-> Len(x.chars)],
                              !.order = <<"value">> \o SetToSeq(DOMAIN b)]>>)
        EXCEPT !.admin = a, !.secured = s] :
        i \in 1 .. 4, x \in MCTexts, r \in BOOLEAN, a \in BOOLEAN, s \in BOOLEAN,
        b \in {<<>>, [returnResponse |-> 1], [ttl |-> 2], [ttl |-> 2, returnResponse |-> 1]},
        m \in BLEMethods \cup {"GetCharacteristics", "PutCharacteristics"}}

-----------------------------------------------------------------------------
(* Texts of several contexts, bodies with authorization data, and events. *)

Three == Numbered(<<[TextsOf("string") EXCEPT !.properties = {"pr", "pw", "wr"}],
                    [TextsOf("data") EXCEPT !.properties = {"pr", "pw", "wr"}],
                    [TextsOf("tlv8") EXCEPT !.properties = {"pr", "pw"}],
                    Byte,
                    [Byte EXCEPT !.type = "ProgrammableSwitchEvent", !.controlPoint = TRUE],
                    [Byte EXCEPT !.controlPoint = TRUE]>>)
Asked(i, r) == [Item EXCEPT !.iid = ToString(i), !.type = "String", !.response = r,
                            !.text = JSONTextOf(<<"a", "b", "b", "a">>, TRUE, <<"x">>)]
BufferScenarios == {
    {Scenario(Three, m, <<Asked(i, TRUE), Asked(j, TRUE), Asked(k, TRUE)>>) :
        i \in 1 .. 7, j \in 1 .. 4, k \in 1 .. 3, m \in {"GetAccessories", "EventNotification"}},
    {Scenario([k \in DOMAIN Three |-> [Three[k] EXCEPT !.maxLength = 4]],
              "PutCharacteristics", <<Asked(i, r), Asked(j, TRUE)>>) :
        i \in 1 .. 7, j \in 1 .. 2, r \in BOOLEAN}}

Orders(S) == {o \in [1 .. Cardinality(S) -> S] : \A n, m \in DOMAIN o : o[n] = o[m] => n = m}
TLVValues == [value |-> {1, 2}, aad |-> {0, 2}, origin |-> {0, 2},
              returnResponse |-> {0, 1}, ttl |-> {0, 2}]
TLVSets == {S \cup more : S \in {{"value"}, {"value", "aad"}, {"value", "origin"},
                                 {"value", "aad", "origin"}, {"aad", "origin"}},
                          more \in {{}, {"returnResponse"}, {"ttl"}}}
Fillings(S) == {f \in [S -> 0 .. 2] : \A n \in S : f[n] \in TLVValues[n]}
MCAuthorized == [Byte EXCEPT !.properties = {"pr", "pw", "wr", "tw", "aa"}]
\* Bodies of at most half of the buffer.
LeavesHalf(c) == 2 * Before(c, Len(c.order) + 1) <= BufferSize
BodyScenarios(Fits(_)) ==
    {{[Scenario(<<[MCAuthorized EXCEPT !.properties = p]>>, m,
                <<[Item EXCEPT !.tlvs = f, !.order = o]>>) EXCEPT !.elapsed = e] :
        p \in {MCAuthorized.properties, {"pr", "pw"}},
        m \in {"Write", "ExecuteWrite"}, e \in {2, 3}, o \in Orders(S),
        f \in {g \in Fillings(S) :
                Fits([Item EXCEPT !.tlvs = g, !.order = SetToSeq(S)])}} : S \in TLVSets}

Observed == Numbered(<<[Byte EXCEPT !.properties = {"pr", "pw", "ev"}],
                       [Byte EXCEPT !.properties = {"pr", "ev"}, !.admin = {"read"}],
                       [Byte EXCEPT !.properties = {"pr", "pw", "ev"}], Byte>>)
EventLists ==
    {l \in UNION {[1 .. n -> {[iid |-> i, flag |-> b] : i \in {"1", "2", "3"}, b \in BOOLEAN}] :
                    n \in 0 .. 2} :
        \A k, m \in DOMAIN l : l[k].iid = l[m].iid => k = m}
EventScenarios ==
    {[Scenario(Observed, "PutCharacteristics", <<one, two>>)
        EXCEPT !.events = l, !.admin = a] :
        one \in {[Item EXCEPT !.iid = ToString(i), !.ev = e, !.type = t] :
                    i \in 1 .. 5, e \in {"enabled", "disabled"}, t \in {"None", "UInt"}},
        two \in {[Item EXCEPT !.iid = ToString(i), !.ev = e, !.type = "None"] :
                    i \in {1, 3}, e \in {"undefined", "enabled", "disabled"}},
        l \in EventLists, a \in BOOLEAN}

MCScenarios ==
    PermissionScenarios(MCDefinitions)
    \cup {PairingScenarios, ValueScenarios(MCConstrained, MCNumbers), ValueScenarios(MCInts, MCNumbers),
          ValueScenarios(MCFloats, FloatNumbers), TextScenarios, EventScenarios}
    \cup BufferScenarios \cup BodyScenarios(LeavesHalf)

-----------------------------------------------------------------------------
(* What is left out above, each with the property that it violates. *)

\* WritesAsAsked: a number for a TLV8 characteristic; a string with a NUL; an
\* int that is more than an int above its minimum; a float range that does
\* not end in a step, or ends in infinity.
MCNumberForTLV8 ==
    {{Scenario(<<TextsOf("tlv8")>>, "PutCharacteristics", <<Item>>)}}
MCStringWithNUL ==
    {{Scenario(<<TextsOf("string")>>, "PutCharacteristics",
        <<[Item EXCEPT !.type = "String", !.text = JSONTextOf(<<"a", "NUL", "b">>, FALSE, <<>>)]>>)}}
MCWideInts ==
    {ValueScenarios({[Byte EXCEPT !.format = "int", !.min = -8, !.max = 7, !.step = 2]},
                    MCNumbers)}
MCUnalignedFloats ==
    {ValueScenarios({[Byte EXCEPT !.format = "float", !.max = h, !.step = 10] :
                        h \in {19, Infinity}}, FloatNumbers)}
\* NoOverflow: a body of more than half of the buffer.
MCLongBodies == BodyScenarios(LAMBDA c : TRUE)
NoOverflow == failure # "overflow"
\* NoEncodingAborts: without AlwaysFits.
NoEncodingAborts == failure # "encoded_capacity"
=============================================================================
