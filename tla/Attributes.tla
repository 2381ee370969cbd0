------------------------------ MODULE Attributes ------------------------------
(***************************************************************************)
(* The attribute database as IP shows it: accessories with their services  *)
(* and characteristics.  NULL-terminated arrays are sequences.  Texts that *)
(* stand for numbers (IDs, values, constraints) are given as they are      *)
(* written, "" where there is none.                                        *)
(***************************************************************************)
EXTENDS Naturals, Sequences, SequencesExt

Numbers == {"uint8", "uint16", "uint32", "uint64", "int", "float"}
Texts == {"string", "tlv8", "data"}
Formats == Numbers \cup {"bool"} \cup Texts

\* Permissions, in the order in which they are listed.
Enabled(property, ch) == IF property \in ch.properties THEN <<property>> ELSE <<>>
EnabledProperties(ch) ==
    Enabled("pr", ch) \o Enabled("pw", ch) \o Enabled("ev", ch) \o Enabled("aa", ch)
        \o Enabled("tw", ch) \o Enabled("wr", ch) \o Enabled("hd", ch)
\* The Service Signature belongs to BLE, the Pairing service as well.
IsSupported(ch) == ch.type # "ServiceSignature"
SupportsService(service) == service.type # "Pairing"
HasUnit(ch) == ch.format \in Numbers /\ ch.unit # ""

\* The first element at or after i that is supported, or the NULL.
Seek(list, i, Supported(_)) ==
    LET found == {j \in i .. Len(list) : Supported(list[j])}
    IN  IF found = {} THEN Len(list) + 1
        ELSE CHOOSE j \in found : \A k \in found : j <= k

\* The primary accessory, else the first bridged one with that ID.
GetAccessory(accessories, aid) ==
    Seek(accessories, 1, LAMBDA a : a.aid = aid)
\* The characteristics of an accessory that IP supports.
CharacteristicsOf(accessory) ==
    FlattenSeq([i \in DOMAIN SelectSeq(accessory.services, SupportsService) |->
        SelectSeq(SelectSeq(accessory.services, SupportsService)[i].characteristics,
                  IsSupported)])
\* What aid.iid names: no characteristic or one.
GetCharacteristic(accessories, aid, iid) ==
    LET a == GetAccessory(accessories, aid)
        list == IF a > Len(accessories) THEN <<>>
                ELSE CharacteristicsOf(accessories[a])
        i == Seek(list, 1, LAMBDA ch : ch.iid = iid)
    IN  IF i > Len(list) THEN <<>> ELSE <<list[i]>>
=============================================================================
