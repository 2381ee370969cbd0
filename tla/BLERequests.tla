------------------------------ MODULE BLERequests ------------------------------
(***************************************************************************)
(* What a HAP-BLE request other than a read or write of a value does and   *)
(* is answered: signatures of characteristics and services, configuration  *)
(* of broadcasts and of the protocol, software tokens and information.     *)
(*                                                                         *)
(* A body is a sequence of bytes.  A number of a characteristic's format   *)
(* is its rank among sixteen: 0 is the lowest, 15 the highest, of steps 0  *)
(* and 1 are zero and one.  UUIDs are of one byte.  The key-value store    *)
(* does not fail.                                                          *)
(***************************************************************************)
EXTENDS Integers, Sequences, FiniteSets, SequencesExt, FiniteSetsExt

CONSTANTS
    MaxBroadcasts,      \* characteristics that fit the stored configuration
    MaxTokenBytes

PDUStatus == [Success |-> 0, UnsupportedPDU |-> 1, InvalidInstanceID |-> 4, InvalidRequest |-> 6]

Word(n) == <<n % 256, n \div 256>>
ReadWord(bytes) == bytes[1] + 256 * bytes[2]
Width == [uint8 |-> 1, uint16 |-> 2, uint32 |-> 4, uint64 |-> 8, int |-> 4, float |-> 4]
Expand(format, v) == [i \in 1 .. Width[format] |-> 16 * v + i]
TLV(type, value) == [type |-> type, value |-> value]
Serialized(items) ==
    FlattenSeq([i \in DOMAIN items |->
        <<items[i].type, Len(items[i].value)>> \o items[i].value])
\* Flags, from the lowest bit.
Flags16(names, set) ==
    Word(MapThenSumSet(LAMBDA i : 2 ^ (i - 1), {i \in DOMAIN names : names[i] \in set}))

RECURSIVE TLVsOf(_)
\* The items of a body, none if it ends within one.
TLVsOf(b) ==
    IF b = <<>> THEN {<<>>}
    ELSE IF Len(b) < 2 \/ Len(b) < 2 + b[2] THEN {}
    ELSE {<<TLV(b[1], SubSeq(b, 3, 2 + b[2]))>> \o rest :
            rest \in TLVsOf(SubSeq(b, 3 + b[2], Len(b)))}
\* Items next to each other would be fragments, and these are too short.
RequestTLVs(b, types) ==
    {items \in TLVsOf(b) :
        /\ \A i \in 2 .. Len(items) : items[i].type # items[i - 1].type
        /\ \A i, j \in DOMAIN items :
                i # j /\ items[i].type \in types => items[i].type # items[j].type}
ValuesAt(items, type) == {items[i].value : i \in {j \in DOMAIN items : items[j].type = type}}

-----------------------------------------------------------------------------
(* Signatures. *)

CharacteristicProperties ==
    <<"prs", "pws", "aa", "tw", "pr", "pw", "hd", "ev", "disconnected", "broadcast">>
ServiceProperties == <<"primary", "hidden", "configurable">>
Numeric == DOMAIN Width
ConvertHAPFormatToBTSIGFormat ==
    [data |-> 27, bool |-> 1, uint8 |-> 4, uint16 |-> 6, uint32 |-> 8, uint64 |-> 10,
     int |-> 16, float |-> 20, string |-> 25, tlv8 |-> 27]
ConvertHAPUnitToBTSIGUnit ==
    [celsius |-> 10031, arcdegrees |-> 10083, percentage |-> 10157, none |-> 9984,
     lux |-> 10033, seconds |-> 9987]

SerializeCharacteristicType(ch) == <<TLV(4, <<ch.type>>)>>
SerializeServiceInstanceID(service) == <<TLV(7, Word(service.iid))>>
SerializeServiceType(service) == <<TLV(6, <<service.type>>)>>
SerializePropertiesDescriptor(ch) ==
    <<TLV(10, Flags16(CharacteristicProperties, ch.properties))>>
SerializeUserDescription(ch) ==
    [i \in DOMAIN ch.manufacturerDescription |-> TLV(11, ch.manufacturerDescription[i])]
SerializePresentationFormat(ch) ==
    LET unit == IF ch.format \in Numeric THEN ch.units ELSE "none"
    IN  <<TLV(12, <<ConvertHAPFormatToBTSIGFormat[ch.format], 0>>
                    \o Word(ConvertHAPUnitToBTSIGUnit[unit]) \o <<1, 0, 0>>)>>
\* Mutant: the range is left out as soon as its upper end is the highest value.
MutSerializeValidRange(ch) ==
    CASE ch.format \in Numeric /\ ch.max # 15 ->
            <<TLV(13, Expand(ch.format, ch.min) \o Expand(ch.format, ch.max))>>
      [] ch.format = "string" /\ ch.maxLength # 64 ->
            <<TLV(13, Word(0) \o Word(ch.maxLength))>>
      [] OTHER -> <<>>
SerializeValidRange(ch) ==
    CASE ch.format \in Numeric /\ ~(ch.min = 0 /\ ch.max = 15) ->
            <<TLV(13, Expand(ch.format, ch.min) \o Expand(ch.format, ch.max))>>
      [] ch.format = "string" /\ ch.maxLength # 64 ->
            <<TLV(13, Word(0) \o Word(ch.maxLength))>>
      [] OTHER -> <<>>
SerializeStepValue(ch) ==
    IF ch.format \notin Numeric \/ ch.step = 0 \/ (ch.step = 1 /\ ch.format # "float")
    THEN <<>> ELSE <<TLV(14, Expand(ch.format, ch.step))>>
SerializeValidValues(ch) ==
    IF ch.format # "uint8" \/ ch.validValues = <<>> THEN <<>>
    ELSE <<TLV(17, ch.validValues)>>
SerializeValidValuesRange(ch) ==
    IF ch.format # "uint8" \/ ch.validValuesRanges = <<>> THEN <<>>
    ELSE <<TLV(18, FlattenSeq([i \in DOMAIN ch.validValuesRanges |->
                <<ch.validValuesRanges[i].start, ch.validValuesRanges[i].end>>]))>>
GetCharacteristicSignature(ch, service) ==
    SerializeCharacteristicType(ch) \o SerializeServiceInstanceID(service)
    \o SerializeServiceType(service) \o SerializePropertiesDescriptor(ch)
    \o SerializeUserDescription(ch) \o SerializePresentationFormat(ch)
    \o SerializeValidRange(ch) \o SerializeStepValue(ch)
    \o SerializeValidValues(ch) \o SerializeValidValuesRange(ch)

\* Of no service there are neither.
SerializeServiceProperties(service) ==
    IF service.properties = {} /\ service.linked = <<>> THEN <<>>
    ELSE <<TLV(15, Flags16(ServiceProperties, service.properties))>>
SerializeLinkedServices(service) ==
    <<TLV(16, FlattenSeq([i \in DOMAIN service.linked |-> Word(service.linked[i])]))>>
GetServiceSignature(service) ==
    SerializeServiceProperties(service) \o SerializeLinkedServices(service)
NoService == [properties |-> {}, linked |-> <<>>]

-----------------------------------------------------------------------------
(* Configuration of broadcasts, stored in the order of the characteristics. *)

IsValidBroadcastInterval(value) == value \in 1 .. 3
GetBroadcastConfiguration(list, cid) ==
    LET i == SelectInSeq(list, LAMBDA e : e.cid >= cid)
    IN  IF i # 0 /\ list[i].cid = cid THEN <<list[i].interval>> ELSE <<>>
EnableBroadcasts(list, cid, interval) ==
    LET i == SelectInSeq(list, LAMBDA e : e.cid >= cid)
        e == [cid |-> cid, interval |-> interval]
    IN  IF i # 0 /\ list[i].cid = cid THEN {ReplaceAt(list, i, e)}
        ELSE IF Len(list) >= MaxBroadcasts - 1 THEN {}
        ELSE {InsertAt(list, IF i = 0 THEN Len(list) + 1 ELSE i, e)}
DisableBroadcasts(list, cid) ==
    LET i == SelectInSeq(list, LAMBDA e : e.cid >= cid)
    IN  IF i # 0 /\ list[i].cid = cid THEN RemoveAt(list, i) ELSE list

\* What is stored after the request, nothing if it is refused.
HandleCharacteristicConfiguration(ch, items, stored) ==
    LET properties == ValuesAt(items, 1)
        intervals == ValuesAt(items, 2)
        interval == IF intervals = {} THEN 1 ELSE CHOOSE v \in {b[1] : b \in intervals} : TRUE
        supported == "broadcast" \in ch.properties
    IN  CASE properties = {} -> {stored : x \in {y \in {0} : intervals = {}}}
          [] properties = {<<1, 0>>} ->
                {[stored EXCEPT !.broadcasts = list] :
                    list \in IF supported /\ \A b \in intervals :
                                    Len(b) = 1 /\ IsValidBroadcastInterval(b[1])
                             THEN EnableBroadcasts(stored.broadcasts, ch.iid, interval)
                             ELSE {}}
          [] properties = {<<0, 0>>} /\ intervals = {} ->
                {IF ~supported THEN stored
                 ELSE [stored EXCEPT !.broadcasts = DisableBroadcasts(@, ch.iid)]}
          [] OTHER -> {}
GetCharacteristicConfiguration(ch, stored) ==
    LET interval == IF "broadcast" \in ch.properties
                    THEN GetBroadcastConfiguration(stored.broadcasts, ch.iid) ELSE <<>>
    IN  [i \in DOMAIN interval |-> TLV(2, <<interval[i]>>)]
        \o <<TLV(1, Word(Len(interval)))>>

-----------------------------------------------------------------------------
(* Configuration of the protocol.  A session always makes the same key. *)

BroadcastGenerateKey(server, id, stored) ==
    LET gsn == server.gsn + 32767 - 1
    IN  [stored EXCEPT !.keyExpirationGSN = IF gsn > 65535 THEN gsn - 65535 ELSE gsn,
                       !.key = server.sessionKey,
                       !.advertisingID = IF id = {} THEN @ ELSE <<CHOOSE v \in id : TRUE>>]
BroadcastSetAdvertisingID(id, stored) ==
    [stored EXCEPT !.advertisingID = <<CHOOSE v \in id : TRUE>>]
BroadcastAdvertisingID(server, stored) ==
    IF stored.advertisingID # <<>> THEN stored.advertisingID[1] ELSE server.deviceID
HandleProtocolConfiguration(server, items, stored) ==
    LET generate == ValuesAt(items, 1)
        id == ValuesAt(items, 3)
    IN  IF \/ \E b \in generate \cup ValuesAt(items, 2) : b # <<>>
           \/ \E b \in id : Len(b) # Len(server.deviceID)
        THEN {}
        ELSE {IF generate # {} THEN BroadcastGenerateKey(server, id, stored)
              ELSE IF id # {} THEN BroadcastSetAdvertisingID(id, stored) ELSE stored}
GetProtocolConfiguration(server, stored) ==
    <<TLV(1, Word(server.gsn)), TLV(2, <<((server.cn - 1) % 255) + 1>>),
      TLV(3, BroadcastAdvertisingID(server, stored))>>
    \o IF stored.keyExpirationGSN # 0 THEN <<TLV(4, stored.key)>> ELSE <<>>

-----------------------------------------------------------------------------
(* Software tokens and information. *)

GetTokenResponse(server, stored) ==
    IF ~server.hasTokenAuth \/ stored.token = <<>> THEN {}
    ELSE {<<TLV(2, stored.token[1]), TLV(1, server.tokenUUID)>>}
HandleTokenUpdate(server, items, stored) ==
    {[stored EXCEPT !.token = <<b>>] :
        b \in {v \in ValuesAt(items, 2) : server.hasTokenAuth /\ Len(v) <= MaxTokenBytes}}
GetInfoResponse(server) ==
    <<TLV(1, Word(server.gsn)), TLV(2, Word(server.cn)), TLV(3, server.deviceID),
      TLV(4, server.pairingFeatureFlags), TLV(5, server.model), TLV(6, server.protocolVersion),
      TLV(7, server.statusFlags), TLV(8, Word(server.category))>>
    \o [i \in DOMAIN server.setupID |-> TLV(9, server.setupHash)]

-----------------------------------------------------------------------------
(* Requests. *)

CharacteristicSignatureRead == 1
ServiceSignatureRead == 6
CharacteristicConfiguration == 7
ProtocolConfiguration == 8
Token == 16
TokenUpdate == 17
Info == 18
IsValidOpcode(opcode) == opcode \in 1 .. 8 \cup 16 .. 18
IsServiceOperation(opcode) == opcode \in {ServiceSignatureRead, ProtocolConfiguration}

\* UUIDs that requests tell apart.
ServiceSignature == 165
PairingTypes == {76, 78, 79}
HAPProtocolInformation == 162
SupportsServiceProcedures(ch) == ch.type = ServiceSignature
DropsSecuritySession(ch) == ch.type \in PairingTypes

Error(status, stored) == [status |-> status, body |-> <<>>, stored |-> stored]
Response(place, items, stored) ==
    IF Len(Serialized(items)) > place.scratchBytes THEN Error(PDUStatus.InvalidRequest, stored)
    ELSE [status |-> PDUStatus.Success, body |-> <<Serialized(items)>>, stored |-> stored]
WithoutBody(stored) == Error(PDUStatus.Success, stored)
The(options) == CHOOSE x \in options : TRUE

ProcessServiceSignatureRead(place, request, stored) ==
    IF ~SupportsServiceProcedures(place.characteristic) THEN Error(PDUStatus.UnsupportedPDU, stored)
    ELSE Response(place, GetServiceSignature(IF request.iid = place.service.iid
                                             THEN place.service ELSE NoService), stored)
ProcessCharacteristicSignatureRead(place, stored) ==
    IF place.secured /\ DropsSecuritySession(place.characteristic)
    THEN Error(PDUStatus.UnsupportedPDU, stored)
    ELSE Response(place, GetCharacteristicSignature(place.characteristic, place.service), stored)
ProcessCharacteristicConfiguration(place, request, stored) ==
    LET after == UNION {HandleCharacteristicConfiguration(place.characteristic, items, stored) :
                            items \in RequestTLVs(request.body, {1, 2})}
    IN  CASE place.transient \/ ~place.secured -> Error(PDUStatus.UnsupportedPDU, stored)
          [] after = {} -> Error(PDUStatus.InvalidRequest, stored)
          [] OTHER -> Response(place, GetCharacteristicConfiguration(place.characteristic,
                                        The(after)), The(after))
ProcessProtocolConfiguration(place, request, stored) ==
    LET read == RequestTLVs(request.body, {1, 2, 3})
        after == UNION {HandleProtocolConfiguration(place.server, items, stored) : items \in read}
    IN  CASE \/ place.transient \/ ~place.secured
             \/ ~SupportsServiceProcedures(place.characteristic)
             \/ "configurable" \notin place.service.properties -> Error(PDUStatus.UnsupportedPDU, stored)
          [] after = {} -> Error(PDUStatus.InvalidRequest, stored)
          [] OTHER -> IF ValuesAt(The(read), 2) = {} THEN WithoutBody(The(after))
                      ELSE Response(place, GetProtocolConfiguration(place.server, The(after)),
                                    The(after))
IsInformation(place) ==
    /\ place.service.type = HAPProtocolInformation
    /\ SupportsServiceProcedures(place.characteristic)
    /\ place.secured
ProcessToken(place, stored) ==
    LET items == GetTokenResponse(place.server, stored)
    IN  CASE ~IsInformation(place) -> Error(PDUStatus.UnsupportedPDU, stored)
          [] items = {} -> Error(PDUStatus.InvalidRequest, stored)
          [] OTHER -> Response(place, The(items), stored)
ProcessTokenUpdate(place, request, stored) ==
    LET after == UNION {HandleTokenUpdate(place.server, items, stored) :
                            items \in RequestTLVs(request.body, {2})}
    IN  CASE ~IsInformation(place) -> Error(PDUStatus.UnsupportedPDU, stored)
          [] after = {} -> Error(PDUStatus.InvalidRequest, stored)
          [] OTHER -> WithoutBody(The(after))
ProcessInfo(place, stored) ==
    IF ~IsInformation(place) THEN Error(PDUStatus.UnsupportedPDU, stored)
    ELSE Response(place, GetInfoResponse(place.server), stored)

\* A service signature is given even of a service that is not addressed.
ProcessRequest(place, request, stored) ==
    LET opcode == request.opcode
        iid == IF IsServiceOperation(opcode) THEN place.service.iid
               ELSE place.characteristic.iid
    IN  CASE ~IsValidOpcode(opcode) -> Error(PDUStatus.UnsupportedPDU, stored)
          [] opcode # ServiceSignatureRead /\ request.iid # iid ->
                Error(PDUStatus.InvalidInstanceID, stored)
          [] opcode = ServiceSignatureRead -> ProcessServiceSignatureRead(place, request, stored)
          [] opcode = CharacteristicSignatureRead ->
                ProcessCharacteristicSignatureRead(place, stored)
          [] opcode = CharacteristicConfiguration ->
                ProcessCharacteristicConfiguration(place, request, stored)
          [] opcode = ProtocolConfiguration -> ProcessProtocolConfiguration(place, request, stored)
          [] opcode = Token -> ProcessToken(place, stored)
          [] opcode = TokenUpdate -> ProcessTokenUpdate(place, request, stored)
          [] opcode = Info -> ProcessInfo(place, stored)
=============================================================================
