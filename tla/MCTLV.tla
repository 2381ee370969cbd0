-------------------------------- MODULE MCTLV --------------------------------
(***************************************************************************)
(* Documents for the TLV8 reader: what a controller may send for some      *)
(* formats, cut off at the end, or with items in any order, twice, empty,  *)
(* of types that the format does not use, or of those it reserves.         *)
(***************************************************************************)
EXTENDS TLV8

Scalar(kind, width, min, max) == [kind |-> kind, width |-> width, min |-> min, max |-> max]
ADatum == Scalar("data", 0, 0, 12)
AString == Scalar("string", 0, 0, 12)
ANumber == Scalar("uint", 2, 1, 7)
AChoice == Scalar("enum", 1, 1, 2)
TheMember(t, f) == [type |-> t, format |-> f, optional |-> FALSE, flat |-> FALSE]
Optional(t, f) == [TheMember(t, f) EXCEPT !.optional = TRUE]
Flat(f) == [TheMember(0, f) EXCEPT !.flat = TRUE]
Struct(members) == [kind |-> "struct", members |-> members]
Union8(members) == [kind |-> "union", members |-> members]
ListOf(item, separator) ==
    [kind |-> "sequence", members |-> <<item>>, separator |-> separator]

\* An item: the value, cut into fragments.
RECURSIVE AsTLV(_, _)
AsTLV(t, b) ==
    IF Len(b) <= FragmentBytes THEN <<t, Len(b)>> \o b
    ELSE <<t, FragmentBytes>> \o SubSeq(b, 1, FragmentBytes)
            \o AsTLV(t, SubSeq(b, FragmentBytes + 1, Len(b)))
\* Up to n items, and the same without the last byte.
Documents8(items, n) ==
    LET whole == {FlattenSeq(l) : l \in UNION {[1 .. k -> items] : k \in 0 .. n}}
    IN  whole \cup {Front(b) : b \in whole \ {<<>>}}
ReadingsOf(f, items, n) == [format |-> f, documents |-> Documents8(items, n)]

Counting(n) == [i \in 1 .. n |-> 1 + (i % 2)]
SomeBytes == {<<>>, <<1>>, <<0>>, <<1, 2>>, <<2, 0, 1>>, Counting(5)}
\* Types 1 and 2, or 1 and 3, are used; 0 is reserved, and 5 is neither.
Plain8 == Struct(<<TheMember(2, AString), Optional(1, ADatum)>>)
PlainItems ==
    {AsTLV(t, b) : t \in {1, 2}, b \in SomeBytes \cup {Counting(8)}}
    \cup {AsTLV(t, b) : t \in {0, 5}, b \in {<<>>, <<1, 2, 1>>}} \cup {<<1, 2, 1, 1, 1, 0>>}
Scalars8 == Struct(<<TheMember(1, ANumber), TheMember(3, AChoice)>>)
ScalarItems ==
    {AsTLV(t, b) : t \in {1, 3}, b \in SomeBytes} \cup {AsTLV(2, <<1, 1>>)}
Choice == Union8(<<TheMember(1, AString), TheMember(2, ANumber)>>)
ChoiceItems == {AsTLV(t, b) : t \in {1, 2}, b \in SomeBytes} \cup {AsTLV(4, <<1>>)}
\* A struct and two lists in a struct, with the flat member last.
Inner == {AsTLV(1, <<1>>) \o AsTLV(2, Counting(3)), AsTLV(2, <<1, 0>>), AsTLV(1, <<1>>)}
Nested == Struct(<<TheMember(1, Choice), TheMember(2, Struct(<<TheMember(2, AString)>>)),
                   Flat(Union8(<<TheMember(4, ADatum)>>))>>)
NestedItems ==
    {AsTLV(t, b) : t \in {1, 2}, b \in Inner \cup {AsTLV(2, <<1, 2>>)}}
    \cup {AsTLV(4, b) : b \in {<<>>, Counting(4)}} \cup {AsTLV(3, <<1, 1>>)}
Strings8 == ListOf(TheMember(1, AString), 2)
ChoiceLists == ListOf(Flat(Choice), 3)
TwoLists == Struct(<<TheMember(2, Strings8), TheMember(1, ChoiceLists)>>)
SomeLists ==
    {<<>>, AsTLV(1, <<1>>) \o AsTLV(2, <<>>) \o AsTLV(1, Counting(3)),
     AsTLV(1, <<2>>) \o AsTLV(3, <<>>) \o AsTLV(2, <<2>>),
     AsTLV(1, <<1>>) \o AsTLV(2, <<1>>) \o AsTLV(1, <<2, 0>>), AsTLV(0, <<1>>)}
ListItems == {AsTLV(t, b) : t \in {1, 2}, b \in SomeLists}
AllItems == {AsTLV(t, b) : t \in {1, 2, 4}, b \in SomeBytes} \cup {<<1, 2, 1, 1, 1, 0>>}
MCReadings ==
    {ReadingsOf(Plain8, PlainItems, 2), ReadingsOf(Scalars8, ScalarItems, 2),
     ReadingsOf(Choice, ChoiceItems, 2), ReadingsOf(Nested, NestedItems, 2),
     ReadingsOf(TwoLists, ListItems, 2),
     ReadingsOf(ChoiceLists, ChoiceItems \cup {AsTLV(3, b) : b \in {<<>>, <<1, 1, 1>>}}, 3),
     ReadingsOf([kind |-> "types", types |-> {1, 2}], AllItems, 2)}
ASSUME \A x \in MCReadings : x.format.kind = "types" \/ IsValidFormat(x.format)
=============================================================================
