--------------------------------- MODULE TLV8 ---------------------------------
(***************************************************************************)
(* The TLV8 reader and writer.  A reader works in the buffer of the        *)
(* document: it merges the fragments of an item, and terminates its value, *)
(* over the headers, and notes over them that the item has been read and   *)
(* how its value is stored.  Values are handed out as pointers, and        *)
(* sequences are decoded when the client enumerates them, later and in any *)
(* order.                                                                  *)
(* Offsets count from 0.  FragmentBytes stands for UINT8_MAX, the length   *)
(* of a full fragment, and the bytes of a value are digits up to it.       *)
(***************************************************************************)
EXTENDS Integers, Sequences, SequencesExt

CONSTANTS FragmentBytes, LastType,
          Readings,     \* formats, each with the documents that are read by it
          Capacities    \* of the buffers that values are written to

(***************************************************************************)
(* Formats.  An aggregate has members: the members of a struct, the        *)
(* variants of a union, the item of a sequence.                            *)
(***************************************************************************)
IsAggregate(f) == f.kind \in {"sequence", "struct", "union"}
RECURSIVE UsesType(_, _)
UsesType(f, t) ==
    /\ IsAggregate(f)
    /\ \/ \E i \in DOMAIN f.members :
            IF f.members[i].flat THEN UsesType(f.members[i].format, t)
            ELSE f.members[i].type = t
       \/ f.kind = "sequence" /\ f.separator = t
\* A flat member is judged by its own type, which it does not use.
HaveConflictingTypes(f, other) ==
    /\ IsAggregate(f) /\ IsAggregate(other) /\ f.kind # "union"
    /\ \E i \in DOMAIN f.members : f.members[i].flat /\ UsesType(other, f.members[i].type)
Apart(member, other) ==
    IF member.flat
    THEN /\ IsAggregate(member.format) /\ ~member.optional
         /\ IF other.flat THEN ~HaveConflictingTypes(member.format, other.format)
            ELSE ~UsesType(member.format, other.type)
    ELSE IF other.flat THEN ~UsesType(other.format, member.type)
    ELSE member.type # other.type
RECURSIVE IsValidFormat(_)
IsValidFormat(f) ==
    IF ~IsAggregate(f) THEN f.kind = "none" \/ f.min <= f.max
    ELSE /\ \A i \in DOMAIN f.members : IsValidFormat(f.members[i].format)
         /\ \A i \in DOMAIN f.members : \A j \in 1 .. i - 1 :
                Apart(f.members[i], f.members[j])
         /\ f.kind = "sequence" =>
                LET item == f.members[1]
                IN  IF item.flat
                    THEN item.format.kind = "union" /\ ~UsesType(item.format, f.separator)
                    ELSE item.type # f.separator

-----------------------------------------------------------------------------
(* The buffer. *)

Byte8(m, o) == m[o + 1]
Copied(m, to, from, n) ==
    [i \in DOMAIN m |-> IF to < i /\ i <= to + n THEN m[i - to + from] ELSE m[i]]
Overwritten(m, o, bytes) ==
    [i \in DOMAIN m |-> IF o < i /\ i <= o + Len(bytes) THEN bytes[i - o] ELSE m[i]]
Zeros(n) == [i \in 1 .. n |-> 0]
BytesAt(m, o, n) == SubSeq(m, o + 1, o + n)
RECURSIVE StringBytes(_, _)
StringBytes(m, o) ==
    IF o = Len(m) \/ Byte8(m, o) = 0 THEN <<>> ELSE <<Byte8(m, o)>> \o StringBytes(m, o + 1)

-----------------------------------------------------------------------------
(* Reading the items one after the other, and all of some types. *)

\* Merges the fragment at s.next to those before it.
RECURSIVE MergeFragment(_, _)
MergeFragment(s, end) ==
    LET n == Byte8(s.memory, s.next + 1)
        next == s.next + 2 + n
        k == s.fragments + 1
        memory == Overwritten(Copied(s.memory, s.next - 2 * s.fragments, s.next + 2, n),
                              next - 2 * k, Zeros(2 * k))
        merged == [s EXCEPT !.memory = memory, !.next = next, !.fragments = k, !.n = @ + n]
    IN  IF \/ end - s.next < 2
           \/ s.n # s.fragments * FragmentBytes
           \/ s.fragments > 0 /\ n = 0
           \/ end - s.next - 2 < n
        THEN [s EXCEPT !.error = "InvalidData"]
        ELSE IF next < end /\ Byte8(memory, next) = s.type THEN MergeFragment(merged, end)
        ELSE merged
GetNext(m, o) ==
    MergeFragment([memory |-> m, at |-> o, next |-> o, type |-> Byte8(m, o), n |-> 0,
                   fragments |-> 0, error |-> "None"], Len(m))
\* What is found of each type; others are ignored.
RECURSIVE GetAllFrom(_, _, _, _)
GetAllFrom(m, o, types, found) ==
    IF o = Len(m) THEN [memory |-> m, error |-> "None", value |-> found]
    ELSE LET tlv == GetNext(m, o)
         IN  IF \/ tlv.error # "None"
                \/ tlv.type \in types /\ found[tlv.type] # <<>>
             THEN [memory |-> tlv.memory, error |-> "InvalidData", value |-> found]
             ELSE GetAllFrom(tlv.memory, tlv.next, types,
                    [t \in types |-> IF t = tlv.type THEN <<[at |-> tlv.at, n |-> tlv.n]>>
                                     ELSE found[t]])
GetAll(m, types) == GetAllFrom(m, 0, types, [t \in types |-> <<>>])

-----------------------------------------------------------------------------
(***************************************************************************)
(* Non-sequential access: three types that the format does not use mark    *)
(* the items that have been read.  "r" is their sequence, empty before.    *)
(***************************************************************************)
Malformed == -1
Broken == -2        \* an assertion fails
SingleFragment(r) == r[1]
NullTerminatedSingleFragment(r) == r[2]
NullTerminatedMultiFragment(r) == r[3]
IsTypeReserved(r, t) == t \in Range(r)

RECURSIVE FragmentsEnd(_, _, _)
FragmentsEnd(m, o, end) ==
    IF end - o < 2 \/ end - o - 2 < Byte8(m, o + 1) THEN Malformed
    ELSE LET next == o + 2 + Byte8(m, o + 1)
         IN  IF next = end \/ Byte8(m, next) # Byte8(m, o) THEN next
             ELSE IF Byte8(m, o + 1) # FragmentBytes THEN Malformed
             ELSE FragmentsEnd(m, next, end)
\* The number of fragments less two is a chain of digits, and its length.
RECURSIVE ChainAt(_, _, _)
ChainAt(m, o, end) ==
    IF o >= end THEN <<0, end - o>>
    ELSE IF Byte8(m, o) # FragmentBytes THEN <<Byte8(m, o), 1>>
    ELSE LET rest == ChainAt(m, o + 1, end) IN <<FragmentBytes + rest[1], rest[2] + 1>>
MergedEnd(m, o, end) ==
    LET chain == ChainAt(m, o + 1, end)
        fragments == chain[1] + 2
        last == o + 1 + chain[2]
        numZeros == 2 * (fragments - 2) - (chain[2] - 1)
        value == last + 1 + numZeros
        next == value + (fragments - 1) * FragmentBytes + Byte8(m, last) + 1
    IN  IF last < end /\ next <= end /\ BytesAt(m, last + 1, numZeros) = Zeros(numZeros)
            /\ Byte8(m, next - 1) = 0
        THEN next ELSE Broken
\* GetNextTLVInfo: where the item at o ends, which may have been read.
ItemEnd(m, o, end, r) ==
    LET next == CASE r = <<>> \/ ~IsTypeReserved(r, Byte8(m, o)) -> FragmentsEnd(m, o, end)
                  [] Byte8(m, o) = SingleFragment(r) -> o + 2 + Byte8(m, o + 1)
                  [] Byte8(m, o) = NullTerminatedSingleFragment(r) ->
                        o + 1 + Len(StringBytes(m, o + 1)) + 1
                  [] OTHER -> MergedEnd(m, o, end)
    IN  IF next > end THEN Broken ELSE next
\* A result has the buffer, an error and a value; what follows needs the value.
Result(m, e, v) == [memory |-> m, error |-> e, value |-> v]
Then(s, Next(_)) ==
    CHOOSE r \in {IF x.error # "None" THEN x ELSE Next(x) : x \in {s}} : TRUE
NextItem(m, o, end, r) ==
    LET next == ItemEnd(m, o, end, r)
    IN  Result(m, IF next = Malformed THEN "InvalidData"
                  ELSE IF next = Broken THEN "Abort" ELSE "None", next)
\* Where the first item of a type is, if there is one.
RECURSIVE FindTLVFrom(_, _, _, _, _)
FindTLVFrom(m, o, end, r, t) ==
    IF o = end THEN Result(m, "None", <<>>)
    ELSE Then(NextItem(m, o, end, r), LAMBDA item :
            IF Byte8(m, o) = t THEN Result(m, "None", <<o, item.value>>)
            ELSE FindTLVFrom(m, item.value, end, r, t))

Chain(n) == [i \in 1 .. n \div FragmentBytes |-> FragmentBytes] \o <<n % FragmentBytes>>
\* Mutant: fragments are moved up from the first to the last.
MutMerged(m, end, k, last) ==
    FoldLeft(LAMBDA x, i :
                Copied(x, end - 1 - last - i * FragmentBytes,
                       end - last - i * (FragmentBytes + 2),
                       IF i = 0 THEN last ELSE FragmentBytes), m, [i \in 1 .. k |-> k - i])
\* Fragments are moved up together, from the last, to end before a NUL.
Merged(m, end, k, last) ==
    FoldLeft(LAMBDA x, i :
                Copied(x, end - 1 - last - i * FragmentBytes,
                       end - last - i * (FragmentBytes + 2),
                       IF i = 0 THEN last ELSE FragmentBytes), m, [i \in 1 .. k |-> i - 1])
ReadFragments(m, o, end, r, k, last) ==
    LET n == (k - 1) * FragmentBytes + last
        header == <<NullTerminatedMultiFragment(r)>> \o Chain(k - 2) \o <<last>>
    IN  [memory |-> Overwritten(Merged(m, end, k, last), o,
            header \o Zeros(2 * k - 1 - Len(header))
                \o BytesAt(Merged(m, end, k, last), end - 1 - n, n) \o <<0>>),
         at |-> end - 1 - n, n |-> n, error |-> "None"]
\* Without NULs the value is moved down over the length.
ReadFragment(m, o, n, mayContainNULs, r) ==
    LET moved == Overwritten(Copied(m, o + 1, o + 2, n), o + 1 + n, <<0>>)
    IN  IF mayContainNULs
        THEN [memory |-> Overwritten(m, o, <<SingleFragment(r), n>>),
              at |-> o + 2, n |-> n, error |-> "None"]
        ELSE [memory |-> Overwritten(moved, o, <<NullTerminatedSingleFragment(r)>>),
              at |-> o + 1, n |-> n,
              error |-> IF Contains(BytesAt(m, o + 2, n), 0) THEN "InvalidData" ELSE "None"]
\* Reads the item from o to end.
ReadTLV(m, o, end, mayContainNULs, r) ==
    LET full == FragmentBytes + 2
        k == (end - o + full - 1) \div full
    IN  IF k = 1 THEN ReadFragment(m, o, Byte8(m, o + 1), mayContainNULs, r)
        ELSE ReadFragments(m, o, end, r, k, Byte8(m, o + (k - 1) * full + 1))
MayContainNULs(f) == f.kind # "string"

\* Reads every item from o to end whose type is chosen.
RECURSIVE ReadChosen(_, _, _, _, _, _)
ReadChosen(m, o, end, r, marks, chosen) ==
    IF o = end THEN Result(m, "None", <<>>)
    ELSE Then(NextItem(m, o, end, r), LAMBDA item :
            ReadChosen(IF Byte8(m, o) \in chosen
                       THEN ReadTLV(m, o, item.value, TRUE, marks).memory ELSE m,
                       item.value, end, r, marks, chosen))
\* The first types that the format does not use; fewer than three are an error.
UnusedTypes(f) ==
    LET unused == SelectSeq([i \in 1 .. LastType + 1 |-> i - 1], LAMBDA t : ~UsesType(f, t))
    IN  SubSeq(unused, 1, IF Len(unused) < 3 THEN Len(unused) ELSE 3)
\* Items of these types are read before they mean anything.
EnableNonSequentialAccess(m, o, end, r) ==
    IF Len(r) < 3 THEN Result(m, "InvalidData", <<>>)
    ELSE ReadChosen(m, o, end, <<>>, r, Range(r))
SkipUnexpectedValues(m, o, end, r, f) ==
    ReadChosen(m, o, end, r, r, {t \in 0 .. LastType : ~IsTypeReserved(r, t) /\ ~UsesType(f, t)})

-----------------------------------------------------------------------------
(* Decoding. *)

\* The value of scalars; "value" is where the n bytes at offset o are.
Number(m, o, n) ==
    FoldLeft(LAMBDA x, i : (FragmentBytes + 1) * x + Byte8(m, o + n - i), 0, [i \in 1 .. n |-> i])
InRange(f, n) == f.min <= n /\ n <= f.max
\* A string has a length in range and no NUL within it.
FitsString(m, o, n, f) == InRange(f, n) /\ Len(StringBytes(m, o)) = n
DecodeScalar(m, o, n, f) ==
    LET fits ==
            CASE f.kind = "none" -> TRUE
              [] f.kind = "enum" -> n = 1 /\ InRange(f, Number(m, o, n))
              [] f.kind = "uint" -> n <= f.width /\ InRange(f, Number(m, o, n))
              [] f.kind = "data" -> InRange(f, n)
              [] f.kind = "string" -> FitsString(m, o, n, f)
        value ==
            CASE f.kind = "none" -> [kind |-> "none"]
              [] f.kind \in {"enum", "uint"} -> [kind |-> "number", number |-> Number(m, o, n)]
              [] f.kind = "data" -> [kind |-> "data", at |-> o, n |-> n]
              [] f.kind = "string" -> [kind |-> "string", at |-> o]
    IN  Result(m, IF fits THEN "None" ELSE "InvalidData", value)

Unset == [kind |-> "unset"]
RECURSIVE DecodeAggregate(_, _, _, _, _)
\* The value of an item that has been read.
DecodeTLV(tlv, f) ==
    IF tlv.error # "None" THEN Result(tlv.memory, tlv.error, Unset)
    ELSE IF ~IsAggregate(f) THEN DecodeScalar(tlv.memory, tlv.at, tlv.n, f)
    ELSE Then(EnableNonSequentialAccess(tlv.memory, tlv.at, tlv.at + tlv.n, UnusedTypes(f)),
              LAMBDA s : DecodeAggregate(s.memory, tlv.at, tlv.at + tlv.n, UnusedTypes(f), f))
\* An item may be there once: it is Unset if it is not.
FindAndDecodeTLV(m, o, end, r, t, f) ==
    Then(FindTLVFrom(m, o, end, r, t), LAMBDA found :
        IF found.value = <<>> THEN Result(m, "None", Unset)
        ELSE Then(DecodeTLV(ReadTLV(m, found.value[1], found.value[2], MayContainNULs(f), r), f),
                  LAMBDA decoding :
                    Then(FindTLVFrom(decoding.memory, o, end, r, t), LAMBDA again :
                        IF again.value = <<>> THEN decoding
                        ELSE [again EXCEPT !.error = "InvalidData"])))
DecodeMember(m, o, end, r, member) ==
    IF member.flat THEN DecodeAggregate(m, o, end, r, member.format)
    ELSE Then(FindAndDecodeTLV(m, o, end, r, member.type, member.format), LAMBDA s :
            IF s.value = Unset /\ ~member.optional THEN [s EXCEPT !.error = "InvalidData"]
            ELSE s)
DecodeStruct(m, o, end, r, f) ==
    FoldLeft(LAMBDA s, member :
                Then(s, LAMBDA before :
                    Then(DecodeMember(before.memory, o, end, r, member), LAMBDA x :
                        Result(x.memory, "None",
                               [before.value EXCEPT !.members = Append(@, x.value)]))),
             Result(m, "None", [kind |-> "struct", members |-> <<>>]), f.members)
\* One variant, and no other, is there.
AddVariant(before, x, t) ==
    IF x.value = Unset THEN Result(x.memory, "None", before.value)
    ELSE Result(x.memory, IF before.value = Unset THEN "None" ELSE "InvalidData",
                [kind |-> "union", type |-> t, value |-> x.value])
DecodeUnion(m, o, end, r, f) ==
    Then(FoldLeft(LAMBDA s, variant :
                    Then(s, LAMBDA before :
                        Then(FindAndDecodeTLV(before.memory, o, end, r, variant.type,
                                              variant.format),
                             LAMBDA x : AddVariant(before, x, variant.type))),
                  Result(m, "None", Unset), f.members),
         LAMBDA all : IF all.value = Unset /\ f.members # <<>>
                      THEN [all EXCEPT !.error = "InvalidData"] ELSE all)
DecodeAggregate(m, o, end, r, f) ==
    Then(SkipUnexpectedValues(m, o, end, r, f), LAMBDA s :
        CASE f.kind = "struct" -> DecodeStruct(s.memory, o, end, r, f)
          [] f.kind = "union" -> DecodeUnion(s.memory, o, end, r, f)
          [] OTHER -> Result(s.memory, "None",
                [kind |-> "sequence", at |-> o, end |-> end, types |-> r, format |-> f]))
Decode(m, f) == DecodeTLV([memory |-> m, at |-> 0, n |-> Len(m), error |-> "None"], f)

\* The items of a sequence; the client gets them one by one, up to an error.
DecodeItem(m, o, end, v, item) ==
    IF item.flat THEN DecodeAggregate(m, o, end, v.types, item.format)
    ELSE DecodeTLV(ReadTLV(m, o, end, MayContainNULs(item.format), v.types), item.format)
IsItem(item, t) == IF item.flat THEN UsesType(item.format, t) ELSE t = item.type
\* An item is handed to the callback, unless it could not be decoded.
Added(s, x) ==
    Result(x.memory, x.error, IF x.error = "None" THEN Append(s.value, x.value) ELSE s.value)
\* The items before o are in s; the one from o to next is added.
Enumerated(s, o, next, v, item) ==
    IF next \in {Malformed, Broken}
    THEN [s EXCEPT !.error = IF next = Malformed THEN "InvalidData" ELSE "Abort"]
    ELSE IF IsItem(item, Byte8(s.memory, o))
    THEN Added(s, DecodeItem(s.memory, o, next, v, item))
    ELSE IF Byte8(s.memory, o) = v.format.separator
    THEN [s EXCEPT !.memory = ReadTLV(@, o, next, TRUE, v.types).memory]
    ELSE s
RECURSIVE EnumerateFrom(_, _, _, _)
EnumerateFrom(s, o, v, item) ==
    IF o = v.end THEN s
    ELSE LET next == ItemEnd(s.memory, o, v.end, v.types)
         IN  Then(Enumerated(s, o, next, v, item),
                  LAMBDA x : EnumerateFrom(x, next, v, item))
Enumerate(m, v) == EnumerateFrom(Result(m, "None", <<>>), v.at, v, v.format.members[1])

-----------------------------------------------------------------------------
(***************************************************************************)
(* Encoding.  A writer has the buffer, its start and its end in it, and    *)
(* the type of the last item.  A value is written behind what there is     *)
(* already, and then moved to make room for the headers.                   *)
(***************************************************************************)
Writer(m, o) == [memory |-> m, start |-> o, end |-> o, last |-> 0, error |-> "None"]
OutOfResources(w) == [w EXCEPT !.error = "OutOfResources"]
RECURSIVE AppendFragments(_, _, _, _)
\* Mutant: only the fragment is moved, and the rest is read where it was.
MutAppendFragments(w, t, o, left) ==
    LET n == IF left > FragmentBytes THEN FragmentBytes ELSE left
        moved == [w EXCEPT
                !.memory = Overwritten(Copied(@, w.end + 2, o, n), w.end, <<t, n>>),
                !.end = @ + 2 + n, !.last = t]
    IN  IF Len(w.memory) - w.end < left + 2 THEN OutOfResources(w)
        ELSE IF left = n THEN moved
        ELSE AppendFragments(moved, t, o + n, left - n)
AppendFragments(w, t, o, left) ==
    LET room == Len(w.memory) - w.end
        n == IF left > FragmentBytes THEN FragmentBytes ELSE left
        written == [w EXCEPT
                !.memory = Overwritten(Copied(@, w.end + 2, o, left), w.end, <<t, n>>),
                !.end = @ + 2 + n, !.last = t]
    IN  IF room < 2 \/ room - 2 < left THEN OutOfResources(w)
        ELSE IF left = n THEN written
        ELSE AppendFragments(written, t, w.end + 2 + n, left - n)
\* An item may not follow one of its type.
AppendTLV(w, t, o, n) ==
    IF w.end > w.start /\ t = w.last THEN [w EXCEPT !.error = "Abort"]
    ELSE AppendFragments(w, t, o, n)

Digits8(n, width) ==
    [i \in 1 .. width |-> (n \div (FragmentBytes + 1) ^ (i - 1)) % (FragmentBytes + 1)]
ScalarBytes(v, f) ==
    CASE f.kind = "none" -> <<>>
      [] f.kind = "enum" -> Digits8(v.number, 1)
      [] f.kind = "uint" -> Digits8(v.number, f.width)
      [] OTHER -> v.bytes
EncodeScalar(w, v, f) ==
    LET bytes == ScalarBytes(v, f)
    IN  IF Len(w.memory) - w.end < Len(bytes) THEN OutOfResources(w)
        ELSE [w EXCEPT !.memory = Overwritten(@, w.end, bytes), !.end = @ + Len(bytes)]
RECURSIVE EncodeAggregate(_, _, _)
EncodeTLV(w, t, v, f) ==
    LET sub == Writer(w.memory, w.end)
        inner == IF IsAggregate(f) THEN EncodeAggregate(sub, v, f) ELSE EncodeScalar(sub, v, f)
    IN  IF inner.error # "None" THEN [w EXCEPT !.error = inner.error]
        ELSE AppendTLV([w EXCEPT !.memory = inner.memory], t, w.end, inner.end - w.end)
EncodeMember(w, v, member) ==
    CASE w.error # "None" \/ v = Unset -> w
      [] member.flat -> EncodeAggregate(w, v, member.format)
      [] OTHER -> EncodeTLV(w, member.type, v, member.format)
\* A separator precedes every item but the first.
EncodeItem(w, i, item, f) ==
    LET separated == IF i = 1 \/ w.error # "None" THEN w
                     ELSE EncodeTLV(w, f.separator, Unset, [kind |-> "none"])
    IN  EncodeMember(separated, item, f.members[1])
EncodeAggregate(w, v, f) ==
    CASE f.kind = "struct" ->
            FoldLeft(LAMBDA x, i : EncodeMember(x, v.members[i], f.members[i]), w,
                     [i \in DOMAIN f.members |-> i])
      [] f.kind = "union" ->
            LET i == SelectInSeq(f.members, LAMBDA variant : variant.type = v.type)
            IN  EncodeMember(w, v.value, f.members[i])
      [] OTHER ->
            FoldLeft(LAMBDA x, i : EncodeItem(x, i, v.items[i], f), w,
                     [i \in DOMAIN v.items |-> i])

-----------------------------------------------------------------------------
(* The client. *)

VARIABLES reading,      \* the document and its format
          memory,       \* the buffer
          decoded,      \* what was returned for the document,
          lists,        \* for the sequences that were enumerated,
          written       \* and for the value that was encoded
tlvVars == <<reading, memory, decoded, lists, written>>
Pending == [error |-> "Pending", value |-> Unset]
TLVInit ==
    /\ \E r \in Readings : \E b \in r.documents : reading = [format |-> r.format, bytes |-> b]
    /\ memory = reading.bytes
    /\ decoded = Pending /\ written = Pending
    /\ lists = <<>>

DecodeVoid ==
    /\ reading.format.kind # "types" /\ decoded.error = "Pending"
    /\ \E result \in {Decode(memory, reading.format)} :
       /\ memory' = result.memory
       /\ decoded' = [error |-> result.error, value |-> result.value]
    /\ UNCHANGED <<reading, lists, written>>
ReadAll ==
    /\ reading.format.kind = "types" /\ decoded.error = "Pending"
    /\ \E result \in {GetAll(memory, reading.format.types)} :
       /\ memory' = result.memory
       /\ decoded' = [error |-> result.error, value |-> result.value]
    /\ UNCHANGED <<reading, lists, written>>
RECURSIVE SequencesOf(_)
SequencesOf(v) ==
    CASE v.kind = "sequence" -> {v}
      [] v.kind = "struct" -> UNION {SequencesOf(v.members[i]) : i \in DOMAIN v.members}
      [] v.kind = "union" -> SequencesOf(v.value)
      [] OTHER -> {}
\* A sequence may be enumerated once.
EnumerateSequence ==
    /\ reading.format.kind # "types" /\ decoded.error = "None"
    /\ \E v \in SequencesOf(decoded.value) \ {lists[i].of : i \in DOMAIN lists} :
        \E result \in {Enumerate(memory, v)} :
            /\ memory' = result.memory
            /\ lists' = Append(lists, [of |-> v, error |-> result.error, items |-> result.value])
    /\ UNCHANGED <<reading, decoded, written>>

-----------------------------------------------------------------------------
(* What a document means, taken from the document as it came. *)

Bad == [type |-> -1, bytes |-> <<>>, hollow |-> FALSE]
\* Its items.  One is hollow if it has a continuation without bytes.
RECURSIVE ItemsOf(_)
ItemsOf(b) ==
    IF b = <<>> THEN <<>>
    ELSE IF Len(b) < 2 \/ Len(b) - 2 < b[2] THEN <<Bad>>
    ELSE LET value == SubSeq(b, 3, 2 + b[2])
             rest == ItemsOf(SubSeq(b, 3 + b[2], Len(b)))
         IN  IF rest = <<>> \/ rest[1].type # b[1]
             THEN <<[type |-> b[1], bytes |-> value, hollow |-> FALSE]>> \o rest
             ELSE IF b[2] # FragmentBytes THEN <<Bad>>
             ELSE <<[rest[1] EXCEPT !.bytes = value \o @,
                                    !.hollow = @ \/ rest[1].bytes = <<>>]>> \o Tail(rest)
OfType(items, t) == SelectSeq(items, LAMBDA item : item.type = t)
\* A value, in a sequence of one, or none.
ReadsScalar(b, f) ==
    LET decoded8 == DecodeScalar(b \o <<0>>, 0, Len(b), f)
        v == decoded8.value
    IN  IF decoded8.error # "None" THEN <<>>
        ELSE IF f.kind \in {"data", "string"} THEN <<[kind |-> f.kind, bytes |-> b]>>
        ELSE <<v>>
RECURSIVE ReadsItems(_, _)
Reads(b, f) ==
    IF ~IsAggregate(f) THEN ReadsScalar(b, f)
    ELSE IF Contains(ItemsOf(b), Bad) THEN <<>>
    ELSE ReadsItems(ItemsOf(b), f)
ReadsMember(items, member) ==
    LET found == OfType(items, member.type)
    IN  IF member.flat THEN ReadsItems(items, member.format)
        ELSE IF Len(found) = 1 THEN Reads(found[1].bytes, member.format)
        ELSE IF found = <<>> /\ member.optional THEN <<Unset>> ELSE <<>>
ReadsStruct(items, f) ==
    LET parts == [i \in DOMAIN f.members |-> ReadsMember(items, f.members[i])]
    IN  IF Contains(parts, <<>>) THEN <<>>
        ELSE <<[kind |-> "struct", members |-> [i \in DOMAIN parts |-> parts[i][1]]]>>
ReadsUnion(items, f) ==
    LET found == SelectSeq(items, LAMBDA item : UsesType(f, item.type))
        variant == SelectSeq(f.members, LAMBDA member : member.type = found[1].type)[1]
        value == Reads(found[1].bytes, variant.format)
    IN  IF Len(found) # 1 \/ value = <<>> THEN <<>>
        ELSE <<[kind |-> "union", type |-> variant.type, value |-> value[1]]>>
\* The items of a sequence up to the first that is invalid.
ReadsSequence(items, f) ==
    LET item == f.members[1]
        own == SelectSeq(items, LAMBDA x : IF item.flat THEN UsesType(item.format, x.type)
                                           ELSE x.type = item.type)
        values == [i \in DOMAIN own |-> IF item.flat THEN ReadsItems(<<own[i]>>, item.format)
                                        ELSE Reads(own[i].bytes, item.format)]
        invalid == SelectInSeq(values, LAMBDA v : v = <<>>)
    IN  [kind |-> "sequence", valid |-> invalid = 0,
         items |-> [i \in 1 .. IF invalid = 0 THEN Len(values) ELSE invalid - 1 |->
                        values[i][1]]]
ReadsItems(items, f) ==
    CASE f.kind = "struct" -> ReadsStruct(items, f)
      [] f.kind = "union" -> ReadsUnion(items, f)
      [] OTHER -> <<ReadsSequence(items, f)>>
Meaning == Reads(reading.bytes, reading.format)

\* The client has a value of its own encoded: it has arrays for sequences.
EncodeVoid ==
    /\ reading.format.kind # "types" /\ written.error = "Pending"
    /\ \E meant \in {Meaning} \ {<<>>}, capacity \in Capacities :
        \E w \in {EncodeAggregate(Writer(Zeros(capacity), 0), meant[1], reading.format)} :
            /\ \A v \in SequencesOf(meant[1]) : v.valid
            /\ written' = [error |-> w.error, value |-> BytesAt(w.memory, 0, w.end),
                            capacity |-> capacity]
    /\ UNCHANGED <<reading, memory, decoded, lists>>
TLVNext == DecodeVoid \/ ReadAll \/ EnumerateSequence \/ EncodeVoid
TLVSpec == TLVInit /\ [][TLVNext]_tlvVars

-----------------------------------------------------------------------------
(* Properties. *)

RECURSIVE HoldsValue(_, _)
HoldsValue(v, meant) ==
    /\ v.kind = meant.kind
    /\ CASE v.kind = "data" -> BytesAt(memory, v.at, v.n) = meant.bytes
         [] v.kind = "string" -> StringBytes(memory, v.at) = meant.bytes
         [] v.kind = "struct" ->
                /\ Len(v.members) = Len(meant.members)
                /\ \A i \in DOMAIN v.members : HoldsValue(v.members[i], meant.members[i])
         [] v.kind = "union" -> v.type = meant.type /\ HoldsValue(v.value, meant.value)
         [] v.kind = "sequence" ->
                \A i \in DOMAIN lists : lists[i].of = v =>
                    /\ lists[i].error = IF meant.valid THEN "None" ELSE "InvalidData"
                    /\ Len(lists[i].items) = Len(meant.items)
                    /\ \A k \in DOMAIN meant.items :
                            HoldsValue(lists[i].items[k], meant.items[k])
         [] OTHER -> v = meant
HoldsAll(found, items) ==
    \A t \in DOMAIN found :
        /\ Len(found[t]) = Len(OfType(items, t))
        /\ \A i \in DOMAIN found[t] :
            LET tlv == found[t][i]
            IN  /\ BytesAt(memory, tlv.at, tlv.n) = OfType(items, t)[i].bytes
                /\ Byte8(memory, tlv.at + tlv.n) = 0
HoldsMeaning(meant) ==
    IF meant = <<>> THEN decoded.error = "InvalidData"
    ELSE decoded.error = "None" /\ HoldsValue(decoded.value, meant[1])
\* The values that the reader has handed out are those of the document as it
\* came, wherever it has moved them to, whatever it has written around them
\* for later items, duplicates and sequences; and it refuses a document
\* exactly if it means nothing.  HAPTLV+Internal.h promises that once a TLV
\* has been read its value is stable.
DecodedInPlace ==
    decoded.error # "Pending" =>
        IF reading.format.kind = "types"
        THEN \A items \in {ItemsOf(reading.bytes)} :
                 IF \/ Contains(items, Bad) \/ \E i \in DOMAIN items : items[i].hollow
                    \/ \E t \in reading.format.types : Len(OfType(items, t)) > 1
                 THEN decoded.error = "InvalidData"
                 ELSE decoded.error = "None" /\ HoldsAll(decoded.value, items)
        ELSE \A meant \in {Meaning} : HoldsMeaning(meant)

SizeOfTLV(n) == n + 2 * (IF n = 0 THEN 1 ELSE (n + FragmentBytes - 1) \div FragmentBytes)
RECURSIVE SizeOf(_, _)
SizeOfMember(v, member) ==
    CASE v = Unset -> 0
      [] member.flat -> SizeOf(v, member.format)
      [] OTHER -> SizeOfTLV(SizeOf(v, member.format))
SizeOf(v, f) ==
    CASE f.kind = "struct" ->
            FoldLeft(LAMBDA n, i : n + SizeOfMember(v.members[i], f.members[i]), 0,
                     [i \in DOMAIN f.members |-> i])
      [] f.kind = "union" ->
            SizeOfMember(v.value, SelectSeq(f.members, LAMBDA x : x.type = v.type)[1])
      [] f.kind = "sequence" ->
            FoldLeft(LAMBDA n, i : n + SizeOfMember(v.items[i], f.members[1])
                                   + (IF i = 1 THEN 0 ELSE SizeOfTLV(0)),
                     0, [i \in DOMAIN v.items |-> i])
      [] OTHER -> Len(ScalarBytes(v, f))
EncodesMeaning(meant) ==
    IF SizeOf(meant[1], reading.format) > written.capacity THEN written.error = "OutOfResources"
    ELSE written.error = "None" /\ Reads(written.value, reading.format) = meant
\* A value is encoded into any buffer that is large enough for it, though
\* every level of it is first written where its headers will be, and the
\* result means the value again; a buffer that is too small is an error.
EncodedDecodes == written.error # "Pending" => \A meant \in {Meaning} : EncodesMeaning(meant)

\* Values come out of a document, and go into one, as they are meant.
ValuesKept == DecodedInPlace /\ EncodedDecodes
=============================================================================
