-------------------------------- MODULE MCBLE --------------------------------
(***************************************************************************)
(* BLE for TLC.  The link and its timers (BLELink) and the contents of a   *)
(* transaction (BLETransactions) share no state: a behaviour is one of the *)
(* two, chosen at the start, and the other rests.                          *)
(*                                                                         *)
(* The scenarios of requests: characteristics of every kind that are       *)
(* described, every request at every kind of place, three characteristics  *)
(* whose broadcasts are configured and a fourth that has none, the service *)
(* of the protocol, and requests that are longer than the buffer or that   *)
(* come with stray PDUs.                                                   *)
(***************************************************************************)
EXTENDS MCBLELink, BLETransactions


Described ==
    [iid |-> 3, type |-> 37, format |-> "uint8", properties |-> {"pr"},
     manufacturerDescription |-> <<>>, units |-> "none", min |-> 0, max |-> 15,
     step |-> 1, maxLength |-> 64, validValues |-> <<>>, validValuesRanges |-> <<>>]
ItsService == [iid |-> 2, type |-> 62, properties |-> {}, linked |-> <<>>]
Ends(start, end) == [start |-> start, end |-> end]
Describable ==
    {[Described EXCEPT !.format = f, !.min = r.start, !.max = r.end, !.step = s, !.maxLength = m] :
        f \in Numeric \cup {"string", "bool", "data"},
        r \in {Ends(0, 15), Ends(0, 7), Ends(3, 15), Ends(3, 7)}, s \in 0 .. 2, m \in {64, 300}}
    \cup {[Described EXCEPT !.units = u, !.properties = p, !.manufacturerDescription = d] :
            u \in DOMAIN ConvertHAPUnitToBTSIGUnit, d \in {<<>>, <<<<>>>>, <<<<7, 7>>>>},
            p \in {{}, {"pr", "ev", "broadcast", "disconnected"}, {"pw", "tw", "aa", "hd"},
                   {"prs", "pws"}}}
    \cup {[Described EXCEPT !.validValues = v, !.validValuesRanges = r] :
            v \in {<<>>, <<1, 4>>}, r \in {<<>>, <<Ends(1, 2), Ends(4, 6)>>}}

TheServer ==
    [gsn |-> 40000, cn |-> 256, deviceID |-> <<9, 9>>, sessionKey |-> <<5, 5, 5>>,
     hasTokenAuth |-> TRUE, tokenUUID |-> <<8>>, pairingFeatureFlags |-> <<1>>,
     model |-> <<7, 7>>, protocolVersion |-> <<2>>, statusFlags |-> <<0>>, category |-> 5,
     setupID |-> <<1>>, setupHash |-> <<4, 4>>]
PlaceAt(ch, service, secured) ==
    [characteristic |-> ch, service |-> service, secured |-> secured, transient |-> FALSE,
     server |-> TheServer, scratchBytes |-> 60]
Requesting(place, opcode, iid, body, meant) ==
    [place |-> place, opcode |-> opcode, tid |-> 77, iid |-> iid, body |-> body,
     rest |-> <<>>, meant |-> meant]
Means(what) == [what |-> what]
PDUScenario(places, requests) ==
    [places |-> places, requests |-> requests, fragment |-> 3, room |-> 20, strays |-> FALSE,
     token |-> <<>>]
OnePlace(place, requests) == PDUScenario([x \in {1} |-> place], requests)

Signatures ==
    {[OnePlace([PlaceAt(ch, ItsService, FALSE) EXCEPT !.scratchBytes = n],
         {Requesting(1, 1, 3, <<>>, Means("describe"))}) EXCEPT !.room = m] :
        ch \in Describable, n \in {30, 60}, m \in {5, 20}}
    \cup {OnePlace(PlaceAt([Described EXCEPT !.type = ServiceSignature],
                [ItsService EXCEPT !.properties = p, !.linked = l], secured),
             {Requesting(1, 6, iid, <<>>, Means("describe")) : iid \in {2, 0}}) :
            p \in SUBSET {"primary", "hidden", "configurable"}, l \in {<<>>, <<300, 4>>},
            secured \in BOOLEAN}
Everywhere ==
    {[OnePlace([PlaceAt([Described EXCEPT !.type = t], [ItsService EXCEPT !.type = s, !.properties = p],
                  x.secured) EXCEPT !.transient = x.transient],
         {Requesting(1, opcode, iid, <<>>, Means("describe")) :
             opcode \in {0, 1, 6, 7, 8, 9, 16, 17, 18}, iid \in {2, 3}})
      EXCEPT !.room = m] :
        t \in {37, 76, ServiceSignature}, s \in {62, HAPProtocolInformation},
        p \in {{}, {"configurable"}}, m \in {3, 4, 60},
        x \in {[secured |-> y, transient |-> FALSE] : y \in BOOLEAN}
              \cup {[secured |-> TRUE, transient |-> TRUE]}}

Interval(v) == [what |-> "interval", value |-> v]
IntervalBodies ==
    {<< <<>>, Means("describe")>>, << <<1, 2, 1, 0>>, Interval(1)>>,
     << <<2, 1, 3, 1, 2, 1, 0>>, Interval(3)>>, << <<1, 2, 0, 0>>, Interval(0)>>,
     << <<1, 2, 0, 0, 2, 1, 2>>, Means("nothing")>>, << <<2, 1, 2>>, Means("nothing")>>,
     << <<1, 2, 1, 0, 2, 1, 4>>, Means("nothing")>>, << <<1, 2, 3, 0>>, Means("nothing")>>,
     << <<1, 1, 1>>, Means("nothing")>>, << <<1, 2, 1, 0, 1, 2, 0, 0>>, Means("nothing")>>,
     << <<1, 2, 1>>, Means("nothing")>>,
     << <<1, 2, 1, 0, 9, 0, 1, 2, 1, 0>>, Means("nothing")>>}
Broadcasting ==
    {PDUScenario(
        [i \in 1 .. 4 |-> PlaceAt([Described EXCEPT !.iid = i,
            !.properties = IF i = 4 THEN {"pr"} ELSE {"pr", "broadcast"}], ItsService, TRUE)],
        {Requesting(i, 7, i, y[1], y[2]) : i \in 1 .. 4, y \in IntervalBodies})}
Protocol(key, id) == [what |-> "protocol", key |-> key, id |-> id]
InformationService ==
    [ItsService EXCEPT !.type = HAPProtocolInformation, !.properties = {"configurable"}]
ProtocolRequests ==
    {Requesting(1, 8, 2, y[1], y[2]) : y \in
        {<< <<>>, Means("describe")>>, << <<2, 0>>, Means("describe")>>,
         << <<1, 0, 2, 0>>, Protocol(TRUE, <<>>)>>, << <<3, 2, 6, 6>>, Protocol(FALSE, <<6, 6>>)>>,
         << <<1, 0, 3, 2, 7, 7, 2, 0>>, Protocol(TRUE, <<7, 7>>)>>,
         << <<3, 1, 6>>, Means("nothing")>>, << <<1, 1, 0>>, Means("nothing")>>}}
    \cup {Requesting(1, 17, 3, y[1], y[2]) : y \in
        {<< <<2, 2, 5, 6>>, [what |-> "token", value |-> <<5, 6>>]>>,
         << <<2, 5, 1, 2, 3, 4, 5>>, Means("nothing")>>, << <<1, 1, 1>>, Means("nothing")>>}}
    \cup {Requesting(1, opcode, 3, <<>>, Means("describe")) : opcode \in {16, 18}}
Configuring ==
    {[OnePlace([PlaceAt([Described EXCEPT !.type = ServiceSignature], InformationService, TRUE)
            EXCEPT !.server.hasTokenAuth = y, !.server.setupID = IF y THEN <<1>> ELSE <<>>],
         ProtocolRequests) EXCEPT !.token = IF y THEN t ELSE <<>>] :
        y \in BOOLEAN, t \in {<<>>, <<<<3>>>>}}
\* The body fits the buffer of six bytes, or is longer; the request is not a
\* configuration that is taken.
Long ==
    {[OnePlace([PlaceAt([Described EXCEPT !.properties = {"broadcast"}], ItsService, TRUE)
            EXCEPT !.scratchBytes = 6],
         {Requesting(1, 7, 3, y, Means("nothing")) :
            y \in {<<1, 1, 1, 9, 0>>, <<1, 1, 1, 9, 1, 9>>, <<1, 1, 1, 9, 2, 9, 9>>,
                   <<9, 7, 9, 9, 9, 9, 9, 9, 9>>}})
      EXCEPT !.strays = TRUE, !.room = m] : m \in {2, 20}}
MCPDUScenarios == Signatures \cup Everywhere \cup Broadcasting \cup Configuring \cup Long

MCStrayPDUs ==
    {<<>>, <<0>>, <<128>>, <<64, 1, 77, 3, 0>>, <<4, 1, 77, 3, 0>>, <<1, 1, 77, 3, 0>>,
     <<2, 77, 0>>, <<0, 1, 77, 3, 0, 2>>, <<0, 1, 77, 3, 0, 1, 0, 5, 5>>, <<0, 1, 77, 3, 0>>,
     <<0, 7, 76, 3, 0, 8, 0, 9, 6>>, <<130, 77>>, <<128, 77>>, <<128, 77, 1>>, <<128, 76, 1>>,
     <<128, 77, 1, 1, 1, 1, 1, 1, 1, 1, 1>>, <<192, 77>>}

-----------------------------------------------------------------------------

VARIABLE part
PDURests ==
    /\ pduScenario = <<>> /\ asking = <<>> /\ sent = <<>> /\ handledRequest = <<>>
    /\ received = <<>> /\ answer = NoAnswer /\ wanted = <<>> /\ dropped = TRUE
    /\ transaction = CreateTransaction(0) /\ stored = <<>>

mcVars == <<b, pduVars, part>>
BLEInit ==
    /\ part \in {"link", "pdu"}
    /\ Init
    /\ IF part = "pdu" THEN PDUInit ELSE PDURests
BLENext ==
    \/ part = "link" /\ Next /\ UNCHANGED <<pduVars, part>>
    \/ part = "pdu" /\ PDUNext /\ UNCHANGED <<b, part>>
BLESpec == BLEInit /\ [][BLENext]_mcVars /\ Fairness
=============================================================================
