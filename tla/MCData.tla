------------------------------- MODULE MCData -------------------------------
(***************************************************************************)
(* Instances of the data plane for TLC: small databases.                   *)
(***************************************************************************)
EXTENDS AccessoryDatabase, AccessoryProtocol, MCAccess, MCTLV

PlainCharacteristic ==
    [iid |-> "c", type |-> "On", format |-> "bool", properties |-> {"pr"},
     description |-> "", unit |-> "", constrained |-> FALSE,
     validValues |-> "none", ranges |-> "none", apple |-> TRUE,
     controlPoint |-> FALSE, fails |-> FALSE, subscribed |-> FALSE,
     value |-> "x"]
PlainService ==
    [iid |-> "s", type |-> "Lightbulb", primary |-> TRUE, hidden |-> FALSE,
     linked |-> <<>>, characteristics |-> <<PlainCharacteristic>>]
One(ch) == << [aid |-> "a",
               services |-> <<[PlainService EXCEPT !.characteristics = <<ch>>]>>] >>
Has(services) == [aid |-> "a", services |-> services]

\* One characteristic of every kind,
MCCharacteristics ==
    {[PlainCharacteristic EXCEPT !.format = f, !.properties = p,
                                 !.description = d, !.unit = u,
                                 !.constrained = k] :
        f \in Formats, p \in {{}, {"pr", "ev"}, {"pw", "tw", "hd"}},
        d \in {"", "d"}, u \in {"", "u"}, k \in BOOLEAN}
    \cup {[PlainCharacteristic EXCEPT !.format = "uint8", !.validValues = v,
                                      !.ranges = r, !.apple = a] :
            v \in {"none", "empty", "one", "two"},
            r \in {"none", "empty", "one", "two"}, a \in BOOLEAN}
    \cup {[PlainCharacteristic EXCEPT !.format = f, !.type = t, !.fails = b,
                                      !.controlPoint = cp, !.subscribed = cp] :
            f \in {"tlv8", "int"}, t \in {"On", "ProgrammableSwitchEvent"},
            b \in BOOLEAN, cp \in BOOLEAN}
\* then services and characteristics that IP does not support at either end,
Signature == [PlainCharacteristic EXCEPT !.type = "ServiceSignature"]
MCLists == {<<Signature>>, <<PlainCharacteristic, Signature>>,
            <<Signature, PlainCharacteristic, Signature, PlainCharacteristic>>, <<>>}
Pairing == [PlainService EXCEPT !.type = "Pairing"]
MCServices ==
    {[PlainService EXCEPT !.characteristics = l, !.linked = k] :
        l \in MCLists, k \in {<<>>, <<"s">>, <<"s", "t">>}}
MCServiceLists ==
    {<<s, Pairing>> : s \in MCServices} \cup {<<Pairing, s, s>> : s \in MCServices}
        \cup {<<Pairing>>, <<>>}
\* and bridged accessories.
MCDatabases ==
    {One(ch) : ch \in MCCharacteristics}
    \cup {<<Has(l)>> : l \in MCServiceLists}
    \cup {<<Has(<<>>), Has(<<Pairing>>), Has(<<PlainService>>)>>}

-----------------------------------------------------------------------------
(* Requests for characteristics. *)

Kind(iid, format, properties, unit, limits, maxLength) ==
    [iid |-> iid, type |-> IF iid = "9" THEN "ProgrammableSwitchEvent" ELSE "25",
     format |-> format, properties |-> properties, unit |-> unit,
     limits |-> limits, maxLength |-> maxLength]
FormatList == <<"bool", "uint8", "uint16", "uint32", "uint64", "int", "float",
                "string", "tlv8", "data">>
UnitList == <<"celsius", "arcdegrees", "percentage", "lux", "seconds">>
Plain == [i \in 1 .. 10 |->
            Kind(ToString(i), FormatList[i], {"pr"}, "", <<>>, "")]
Rich == [i \in 1 .. 10 |->
            Kind(ToString(10 + i), FormatList[i], {"pr", "pw", "ev", "wr"},
                 UnitList[(i % 5) + 1], <<"0", "100", "1">>, "128")]
Properties == <<"pr", "pw", "ev", "aa", "tw", "wr", "hd">>
Permitted == [i \in 0 .. 7 |->
            Kind(ToString(21 + i), "int", {Properties[j] : j \in 1 .. i}, "", <<>>, "")]
MCAccessories ==
    << [aid |-> "1", services |->
            <<[type |-> "Lightbulb", characteristics |-> Plain \o Rich],
              [type |-> "Pairing", characteristics |-> <<Plain[1]>>]>>],
       [aid |-> "10", services |->
            <<[type |-> "Lightbulb", characteristics |->
                [i \in 1 .. 8 |-> Permitted[i - 1]]]>>] >>
ID(aid, iid) == [aid |-> aid, iid |-> iid, overflow |-> FALSE]
FirstIDs == {ID("1", ToString(i)) : i \in 1 .. 20}
MCIDs == FirstIDs \cup {ID("10", ToString(i)) : i \in 21 .. 29} \cup {ID("2", "1")}
Query(ids) == [name |-> "id", ids |-> ids, flag |-> ""]
Asks(name, flag) == [name |-> name, ids |-> <<>>, flag |-> flag]
GET(query) == [method |-> "GET", query |-> query, members |-> <<>>]
MCGets ==
    {GET(<<Query(<<id>>), Asks("meta", m), Asks("perms", p), Asks("type", t), Asks("ev", e)>>) :
        id \in MCIDs, m \in {"0", "1"}, p \in {"0", "1"}, t \in {"0", "1"}, e \in {"0", "1"}}
    \cup {GET(<<Asks("meta", "1"), Query(<<id, ID("1", "18")>>), Asks("#", ""), Asks("x", "")>>) :
            id \in MCIDs}
    \cup {GET(q) : q \in {<<>>, <<Asks("x", "")>>, <<Asks("ev", "2")>>,
            <<Query(<<ID("1", "1"), ID("1", "2"), ID("1", "3")>>)>>,
            <<Query(<<[ID("1", "1") EXCEPT !.overflow = TRUE]>>)>>}}

Member(name, kind, number) ==
    [name |-> name, kind |-> kind, number |-> number, data |-> <<>>, meant |-> <<>>]
StringOf(meant, data) ==
    [Member("value", "string", "") EXCEPT !.data = data, !.meant = meant]
MCStrings ==
    {StringOf(<<c, d>>, EscapeOf(c) \o EscapeOf(d)) :
        c \in {"plain", "quote", "newline", "control"}, d \in {"plain", "quote", "control"}}
    \cup {StringOf(<<"wide">>, s) : s \in {<<"backslash", "u", "scalar4">>,
            <<"backslash", "u", "high4", "backslash", "u", "low4">>}}
    \cup {StringOf(<<>>, s) : s \in {<<>>, <<"backslash">>, <<"backslash", "u">>,
            <<"backslash", "u", "low4">>, <<"backslash", "u", "high4", "plain">>}}
MCValueMembers ==
    {Member("value", k, "7") : k \in JSONNumbers \cup {"true", "false", "null", "object"}}
    \cup MCStrings
IDMembers(iid) == <<Member("aid", "uint", "1"), Member("iid", "uint", iid)>>
Flags == {Member("response", k, n) : k \in {"true", "false", "uint"}, n \in {"1", "2"}}
    \cup {Member("remote", "true", ""), Member("authData", "string", ""),
          Member("authData", "uint", ""), Member("x", "object", ""),
          Member("x", "deep", ""), Member("x", "colon", "")}
MCObjects ==
    {IDMembers(iid) \o <<v>> : iid \in {"12", "18", "20", "99"}, v \in MCValueMembers}
    \cup {<<Member("value", "uint", "7")>> \o IDMembers(iid) \o <<f>> :
            iid \in {ToString(i) : i \in 1 .. 20}, f \in Flags}
    \cup {IDMembers("12") \o <<Member("ev", k, n)>> :
            k \in {"true", "false", "uint", "null"}, n \in {"0", "1", "2"}}
    \cup {<<>>, IDMembers("12"), <<Member("aid", "uint", "1")>>,
          <<Member("iid", "int", "-1")>>, IDMembers("11") \o IDMembers("12")}
Objects(list) == [name |-> "characteristics", kind |-> "array", objects |-> list]
Single(name, kind, number) ==
    [name |-> name, kind |-> kind, number |-> number, objects |-> <<>>]
PUT(members) == [method |-> "PUT", query |-> <<>>, members |-> members]
Write12 == IDMembers("12") \o <<Member("value", "uint", "7"), Member("response", "true", "")>>
MCPuts ==
    {PUT(<<Objects(<<o>>)>>) : o \in MCObjects}
    \cup {PUT(<<Objects(<<Write12, o>>)>>) : o \in MCObjects}
    \cup {PUT(<<Objects(<<o, Write12>>), Single("pid", "huge", "5")>>) : o \in MCObjects}
    \cup {PUT(l) : l \in {<<>>, <<Objects(<<>>)>>, <<Single("characteristics", "object", "")>>,
            <<Objects(<<Write12, Write12, Write12>>)>>, <<Single("x", "object", "")>>,
            <<Single("x", "deep", "")>>, <<Single("pid", "uint", "5"), Single("pid", "uint", "5")>>,
            <<Objects(<<Write12>>), Objects(<<Write12>>)>>}}
MCPreparations ==
    {[method |-> "PREPARE", query |-> <<>>, members |-> <<Single("ttl", k, "9"), m>>] :
        k \in {"uint", "huge", "string"},
        m \in {Single("pid", "uint", "5"), Single("ttl", "uint", "5"), Single("x", "true", "")}}
MCEvents ==
    {[method |-> "EVENT", members |-> <<>>, query |-> <<Query(<<id>> \o more)>>] :
        id \in FirstIDs, more \in {<<>>, <<ID("1", "18")>>}}
MCRequests == MCGets \cup MCPuts \cup MCPreparations \cup MCEvents
MCReadTexts == {<<>>, <<"plain", "control">>, <<"quote", "wide", "newline">>}

-----------------------------------------------------------------------------
(* One part of the data plane in a behaviour; the others rest. *)

VARIABLE part
DatabaseRests ==
    /\ db = <<Has(<<>>)>> /\ context = NewContext /\ chunk = <<>> /\ body = <<>>
    /\ minBytes = 1 /\ maxBytes = 10
ProtocolRests ==
    /\ asked = GET(<<>>) /\ phase = "request" /\ contexts = <<>> /\ response = <<>>
    /\ parameters = NoParameters /\ protocolError = "None" /\ timedWrite = NoTimedWrite
AccessRests ==
    scenario = Scenario(Three, "GetAccessories", [i \in 1 .. 3 |-> Asked(1, TRUE)])
TLVRests ==
    /\ reading = [format |-> ANumber, bytes |-> <<>>] /\ memory = <<>>
    /\ decoded = Pending /\ written = Pending /\ lists = <<>>
DataInit ==
    /\ part \in {"database", "protocol", "access", "tlv"}
    /\ part # "access" => AccessRests
    /\ AccessInit
    /\ IF part = "database" THEN DatabaseInit ELSE DatabaseRests
    /\ IF part = "protocol" THEN ProtocolInit ELSE ProtocolRests
    /\ IF part = "tlv" THEN TLVInit ELSE TLVRests
DataNext ==
    \/ part = "database" /\ DatabaseNext /\ UNCHANGED <<protocolVars, accessVars, tlvVars, part>>
    \/ part = "protocol" /\ ProtocolNext /\ UNCHANGED <<databaseVars, accessVars, tlvVars, part>>
    \/ part = "access" /\ AccessNext /\ UNCHANGED <<databaseVars, protocolVars, tlvVars, part>>
    \/ part = "tlv" /\ TLVNext /\ UNCHANGED <<databaseVars, protocolVars, accessVars, part>>
dataVars == <<databaseVars, protocolVars, accessVars, tlvVars, part>>
DataSpec == DataInit /\ [][DataNext]_dataVars
=============================================================================
