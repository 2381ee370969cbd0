----------------------- MODULE AccessoryDatabase_proofs -----------------------
(***************************************************************************)
(* The serializer of the accessory database (AccessoryDatabase) writes the *)
(* document of every database.                                             *)
(*                                                                         *)
(* Each context of the serializer is a place in the document: Rest is what *)
(* is left of it from there on.  The invariant DatabaseInv says that what  *)
(* has been sent, what is in the chunk and Rest of the context make the    *)
(* document.  A step keeps it when its tokens are the beginning of Rest    *)
(* and Rest of the next context is what follows them (Serializes): that is *)
(* shown for each kind of step, with the fields that are absent from a     *)
(* characteristic stepped over one by one.                                 *)
(***************************************************************************)
EXTENDS AccessoryDatabase, SequenceTheorems, WellFoundedInduction, TLAPS

LEMMA LeastNatural ==
    ASSUME NEW T \in SUBSET Nat, T # {}
    PROVE  \E n \in T : \A m \in T : n <= m
<1>1. PICK n \in T : \A m \in T : ~(<<m, n>> \in OpToRel(<, Nat))
  BY NatLessThanWellFounded, WFMin
<1>2. \A m \in T : ~(m < n)
  BY <1>1 DEF OpToRel
<1> QED
  BY <1>2

\* Induction, with a set for the property.
LEMMA SetInduction ==
    ASSUME NEW T, 0 \in T, \A n \in Nat : n \in T => n + 1 \in T
    PROVE  Nat \subseteq T
<1> SUFFICES ASSUME Nat \ T # {} PROVE FALSE
  OBVIOUS
<1>1. PICK n \in Nat \ T : \A m \in Nat \ T : n <= m
  BY LeastNatural
<1>2. n # 0 /\ n - 1 \in Nat
  BY <1>1
<1>3. n - 1 \in T
  BY <1>1, <1>2
<1> QED
  BY <1>1, <1>2, <1>3

\* Every token of a document.
Tokens ==
    STRING \cup {"{", "}", "[", "]", ",", ":", "accessories", "aid", "services",
        "iid", "type", "primary", "hidden", "linked", "characteristics", "format",
        "value", "perms", "ev", "description", "unit", "minValue", "maxValue",
        "minStep", "maxLen", "maxDataLen", "valid-values", "valid-values-range",
        "pr", "pw", "aa", "tw", "wr", "hd", "true", "false", "null", "empty",
        "limit", "v", "w"} \cup Formats
Text == Seq(Tokens)
Parts == Seq(Text)

\* A part with the comma before it.
Preceded(part) == IF part = <<>> THEN <<>> ELSE <<",">> \o part

LEMMA OneToken ==
    ASSUME NEW x \in Tokens
    PROVE  <<x>> \in Text /\ Len(<<x>>) = 1 /\ <<x>>[1] = x
BY DEF Text

LEMMA NoTokens == <<>> \in Text /\ Len(<<>>) = 0
BY DEF Text

LEMMA Delimiter == "," \in Tokens
BY DEF Tokens

LEMMA TextConcat ==
    ASSUME NEW a \in Text, NEW b \in Text
    PROVE  a \o b \in Text /\ Len(a \o b) = Len(a) + Len(b)
BY ConcatProperties DEF Text

LEMMA TextAssociative ==
    ASSUME NEW a \in Text, NEW b \in Text, NEW c \in Text
    PROVE  (a \o b) \o c = a \o (b \o c)
BY ConcatAssociative DEF Text

\* A concatenation that the provers need not look into.
Cat(p, q) == p \o q

LEMMA CatAssociative ==
    \A p, q, r \in Text : Cat(p, q) \in Text /\ Cat(Cat(p, q), r) = Cat(p, Cat(q, r))
<1> SUFFICES ASSUME NEW p \in Text, NEW q \in Text, NEW r \in Text
             PROVE  Cat(p, q) \in Text /\ Cat(Cat(p, q), r) = Cat(p, Cat(q, r))
  OBVIOUS
<1>1. Cat(p, q) \in Text
  BY TextConcat DEF Cat
<1>2. Cat(Cat(p, q), r) = Cat(p, Cat(q, r))
  BY TextAssociative DEF Cat
<1> QED
  BY <1>1, <1>2

LEMMA ThreeInside ==
    ASSUME NEW m \in Text, NEW p \in Text, NEW q \in Text, NEW r \in Text
    PROVE  Cat(Cat(m, Cat(p, q)), r) = Cat(m, Cat(p, Cat(q, r)))
<1>1. Cat(p, q) \in Text
  BY CatAssociative
<1>2. Cat(Cat(m, Cat(p, q)), r) = Cat(m, Cat(Cat(p, q), r))
  BY <1>1, CatAssociative
<1>3. Cat(Cat(p, q), r) = Cat(p, Cat(q, r))
  BY CatAssociative
<1> QED
  BY <1>2, <1>3

LEMMA FourTexts ==
    ASSUME NEW p \in Text, NEW q \in Text, NEW r \in Text, NEW s \in Text
    PROVE  Cat(Cat(Cat(p, q), r), s) = Cat(p, Cat(q, Cat(r, s)))
<1>1. Cat(p, q) \in Text /\ Cat(r, s) \in Text
  BY CatAssociative
<1>2. Cat(Cat(Cat(p, q), r), s) = Cat(Cat(p, q), Cat(r, s))
  BY <1>1, CatAssociative
<1>3. Cat(Cat(p, q), Cat(r, s)) = Cat(p, Cat(q, Cat(r, s)))
  BY <1>1, CatAssociative
<1> QED
  BY <1>2, <1>3

LEMMA NothingBefore == \A t \in Text : <<>> \o t = t /\ t \o <<>> = t
BY ConcatEmptySeq DEF Text

LEMMA PrecededTyped == ASSUME NEW t \in Text PROVE Preceded(t) \in Text
<1>1. <<",">> \o t \in Text
  BY OneToken, Delimiter, TextConcat
<1> QED
  BY <1>1 DEF Preceded

\* The recursion of Commas has a solution.
LEMMA CommasExist ==
    ASSUME NEW parts \in Parts
    PROVE  \E f : f = [i \in 1 .. Len(parts) + 1 |->
                        IF i = Len(parts) + 1 THEN <<>>
                        ELSE Preceded(parts[i]) \o f[i + 1]]
<1> DEFINE end == Len(parts) + 1
           Solves(f, m) == \A i \in 1 .. end : i >= m =>
                f[i] = IF i = end THEN <<>> ELSE Preceded(parts[i]) \o f[i + 1]
           T == {k \in Nat : \E f : /\ f = [i \in 1 .. end |-> f[i]]
                                    /\ Solves(f, end - k)}
<1>0. end \in Nat
  BY DEF Parts
<1>1. 0 \in T
  <2> DEFINE f == [i \in 1 .. end |-> <<>>]
  <2>1. f = [i \in 1 .. end |-> f[i]]
    OBVIOUS
  <2>2. ASSUME NEW i \in 1 .. end, i >= end - 0
        PROVE  f[i] = IF i = end THEN <<>> ELSE Preceded(parts[i]) \o f[i + 1]
    <3>1. i = end
      BY <1>0, <2>2
    <3>2. f[i] = <<>>
      OBVIOUS
    <3> QED
      BY <3>1, <3>2
  <2>3. Solves(f, end - 0)
    BY <2>2
  <2> HIDE DEF f, Solves
  <2> QED
    BY <2>1, <2>3
<1>2. ASSUME NEW k \in Nat, k \in T PROVE k + 1 \in T
  <2>1. PICK f : f = [i \in 1 .. end |-> f[i]] /\ Solves(f, end - k)
    BY <1>2
  <2> DEFINE m == end - (k + 1)
             g == [i \in 1 .. end |-> IF i = m THEN Preceded(parts[i]) \o f[i + 1]
                                      ELSE f[i]]
  <2>2. g = [i \in 1 .. end |-> g[i]]
    OBVIOUS
  <2>3. ASSUME NEW i \in 1 .. end, i >= m
        PROVE  g[i] = IF i = end THEN <<>> ELSE Preceded(parts[i]) \o g[i + 1]
    <3>1. CASE i = m
      <4>1. i # end /\ i + 1 \in 1 .. end /\ i + 1 # m
        BY <1>0, <3>1
      <4>2. g[i] = Preceded(parts[i]) \o f[i + 1] /\ g[i + 1] = f[i + 1]
        BY <3>1, <4>1
      <4> QED
        BY <4>1, <4>2
    <3>2. CASE i # m
      <4>1. i >= end - k
        BY <1>0, <2>3, <3>2
      <4>2. f[i] = IF i = end THEN <<>> ELSE Preceded(parts[i]) \o f[i + 1]
        BY <2>1, <4>1
      <4>3. i # end => i + 1 \in 1 .. end /\ i + 1 # m
        BY <1>0, <2>3
      <4>4. g[i] = f[i] /\ (i # end => g[i + 1] = f[i + 1])
        BY <3>2, <4>3
      <4> QED
        BY <4>2, <4>4
    <3> QED
      BY <3>1, <3>2
  <2>4. Solves(g, end - (k + 1))
    BY <2>3
  <2> HIDE DEF g, Solves, end, m
  <2>5. \E h : h = [i \in 1 .. end |-> h[i]] /\ Solves(h, end - (k + 1))
    BY <2>2, <2>4
  <2>6. k + 1 \in Nat
    OBVIOUS
  <2> QED
    BY <2>5, <2>6, Zenon
<1>3. Nat \subseteq T
  <2> HIDE DEF T
  <2> QED
    BY <1>1, <1>2, SetInduction
<1>4. PICK f : f = [i \in 1 .. end |-> f[i]] /\ Solves(f, end - end)
  <2>1. end \in T
    BY <1>0, <1>3
  <2> HIDE DEF Solves
  <2> QED
    BY <2>1
<1>5. \A i \in 1 .. end : f[i] = IF i = end THEN <<>> ELSE Preceded(parts[i]) \o f[i + 1]
  <2>1. \A i \in 1 .. end : i >= end - end
    BY <1>0
  <2> HIDE DEF end
  <2> QED
    BY <1>4, <2>1
<1>6. f = [i \in 1 .. end |-> IF i = end THEN <<>> ELSE Preceded(parts[i]) \o f[i + 1]]
  BY <1>4, <1>5, Zenon
<1> QED
  BY <1>6

LEMMA CommasAre ==
    ASSUME NEW parts \in Parts, NEW i \in 1 .. Len(parts) + 1
    PROVE  Commas(parts)[i] = IF i = Len(parts) + 1 THEN <<>>
                              ELSE Preceded(parts[i]) \o Commas(parts)[i + 1]
<1> DEFINE from == CHOOSE f : f = [j \in 1 .. Len(parts) + 1 |->
                        IF j = Len(parts) + 1 THEN <<>>
                        ELSE Preceded(parts[j]) \o f[j + 1]]
<1>1. Commas(parts) = from
  BY DEF Commas, Preceded
<1>2. from = [j \in 1 .. Len(parts) + 1 |->
                IF j = Len(parts) + 1 THEN <<>>
                ELSE Preceded(parts[j]) \o from[j + 1]]
  BY CommasExist
<1> HIDE DEF from
<1>3. from[i] = IF i = Len(parts) + 1 THEN <<>> ELSE Preceded(parts[i]) \o from[i + 1]
  BY <1>2, Zenon
<1> QED
  BY <1>1, <1>3

LEMMA CommasTyped ==
    ASSUME NEW parts \in Parts, NEW i \in 1 .. Len(parts) + 1
    PROVE  Commas(parts)[i] \in Text
<1> DEFINE end == Len(parts) + 1
           T == {k \in Nat : k < end => Commas(parts)[end - k] \in Text}
<1>0. end \in Nat /\ end = Len(parts) + 1
  BY DEF Parts
<1>1. 0 \in T
  <2>1. end \in 1 .. end
    BY <1>0
  <2>2. Commas(parts)[end] = <<>>
    BY <2>1, CommasAre
  <2> QED
    BY <1>0, <2>2, NoTokens
<1>2. ASSUME NEW k \in Nat, k \in T PROVE k + 1 \in T
  <2> SUFFICES ASSUME k + 1 < end PROVE Commas(parts)[end - (k + 1)] \in Text
    OBVIOUS
  <2> DEFINE j == end - (k + 1)
  <2>1. j \in 1 .. end /\ j # end /\ j + 1 = end - k /\ k < end /\ j \in 1 .. Len(parts)
    BY <1>0
  <2>2. Commas(parts)[j + 1] \in Text
    BY <1>2, <2>1
  <2>3. parts[j] \in Text
    BY <2>1 DEF Parts
  <2>4. Commas(parts)[j] = Preceded(parts[j]) \o Commas(parts)[j + 1]
    BY <1>0, <2>1, CommasAre
  <2> QED
    BY <2>2, <2>3, <2>4, PrecededTyped, TextConcat
<1>3. Nat \subseteq T
  <2> HIDE DEF T
  <2> QED
    BY <1>1, <1>2, SetInduction
<1>4. end - i \in T /\ end - (end - i) = i /\ end - i < end
  BY <1>0, <1>3
<1> QED
  BY <1>4

\* A part that there is comes behind a comma.
LEMMA NextPart ==
    ASSUME NEW parts \in Parts, NEW i \in DOMAIN parts, parts[i] # <<>>
    PROVE  Commas(parts)[i] = <<",">> \o (parts[i] \o Commas(parts)[i + 1])
<1>1. i \in 1 .. Len(parts) + 1 /\ i # Len(parts) + 1 /\ i + 1 \in 1 .. Len(parts) + 1
  BY DEF Parts
<1>2. Commas(parts)[i] = (<<",">> \o parts[i]) \o Commas(parts)[i + 1]
  BY <1>1, CommasAre DEF Preceded
<1>3. parts[i] \in Text
  BY DEF Parts
<1>4. Commas(parts)[i + 1] \in Text /\ <<",">> \in Text
  BY <1>1, CommasTyped, OneToken, Delimiter
<1> QED
  BY <1>2, <1>3, <1>4, TextAssociative

\* Parts that there are none of leave nothing.
LEMMA EmptyParts ==
    ASSUME NEW parts \in Parts, NEW i \in 1 .. Len(parts) + 1,
           NEW j \in i .. Len(parts) + 1, \A k \in i .. j - 1 : parts[k] = <<>>
    PROVE  Commas(parts)[i] = Commas(parts)[j]
<1> DEFINE T == {k \in Nat : i + k <= j => Commas(parts)[i] = Commas(parts)[i + k]}
<1>0. Len(parts) \in Nat
  BY DEF Parts
<1>1. 0 \in T
  OBVIOUS
<1>2. ASSUME NEW k \in Nat, k \in T PROVE k + 1 \in T
  <2> SUFFICES ASSUME i + (k + 1) <= j PROVE Commas(parts)[i] = Commas(parts)[i + (k + 1)]
    OBVIOUS
  <2>1. /\ i + k \in 1 .. Len(parts) + 1 /\ i + k # Len(parts) + 1
        /\ i + k \in i .. j - 1 /\ (i + k) + 1 = i + (k + 1) /\ (i + k) + 1 \in 1 .. Len(parts) + 1
    BY <1>0
  <2>2. Commas(parts)[i] = Commas(parts)[i + k]
    BY <1>2, <2>1
  <2>3. Commas(parts)[i + k] = Preceded(parts[i + k]) \o Commas(parts)[(i + k) + 1]
    BY <2>1, CommasAre
  <2>4. Preceded(parts[i + k]) = <<>>
    BY <2>1 DEF Preceded
  <2>5. Commas(parts)[(i + k) + 1] \in Text
    BY <2>1, CommasTyped
  <2>6. <<>> \o Commas(parts)[(i + k) + 1] = Commas(parts)[(i + k) + 1]
    BY <2>5, ConcatEmptySeq DEF Text
  <2> QED
    BY <2>1, <2>2, <2>3, <2>4, <2>6
<1>3. Nat \subseteq T
  <2> HIDE DEF T
  <2> QED
    BY <1>1, <1>2, SetInduction
<1>4. j - i \in Nat /\ i + (j - i) = j
  BY <1>0
<1>5. j - i \in T
  <2> HIDE DEF T
  <2> QED
    BY <1>3, <1>4
<1> QED
  BY <1>4, <1>5

\* From one part to the next that there is.
LEMMA NextPartFrom ==
    ASSUME NEW parts \in Parts, NEW i \in 1 .. Len(parts) + 1,
           NEW j \in i .. Len(parts), \A k \in i .. j - 1 : parts[k] = <<>>,
           parts[j] # <<>>
    PROVE  Commas(parts)[i] = <<",">> \o (parts[j] \o Commas(parts)[j + 1])
<1>1. j \in DOMAIN parts /\ j \in i .. Len(parts) + 1
  BY DEF Parts
<1>2. Commas(parts)[i] = Commas(parts)[j]
  BY <1>1, EmptyParts
<1> QED
  BY <1>1, <1>2, NextPart

LEMMA NoPartsFrom ==
    ASSUME NEW parts \in Parts, NEW i \in 1 .. Len(parts) + 1,
           \A k \in i .. Len(parts) : parts[k] = <<>>
    PROVE  Commas(parts)[i] = <<>>
<1>1. /\ Len(parts) + 1 \in i .. Len(parts) + 1
      /\ Len(parts) + 1 \in 1 .. Len(parts) + 1
      /\ Len(parts) + 1 - 1 = Len(parts)
  BY DEF Parts
<1>2. Commas(parts)[i] = Commas(parts)[Len(parts) + 1]
  BY <1>1, EmptyParts
<1> QED
  BY <1>1, <1>2, CommasAre

LEMMA TailTyped ==
    ASSUME NEW t \in Text, t # <<>>
    PROVE  /\ Tail(t) \in Text /\ Len(Tail(t)) = Len(t) - 1
           /\ \A i \in 1 .. Len(t) - 1 : Tail(t)[i] = t[i + 1]
BY HeadTailProperties DEF Text

LEMMA TailBehind ==
    ASSUME NEW x \in Tokens, NEW t \in Text
    PROVE  /\ <<x>> \o t # <<>> /\ <<x>> \o t \in Text
           /\ Tail(<<x>> \o t) = t /\ Len(<<x>> \o t) = 1 + Len(t)
<1>0. <<x>> \in Text /\ Len(<<x>>) = 1 /\ Len(t) \in Nat
  BY OneToken DEF Text
<1>1. <<x>> \o t \in Text /\ Len(<<x>> \o t) = 1 + Len(t)
  BY <1>0, TextConcat
<1>2. <<x>> \o t # <<>>
  BY <1>0, <1>1, NoTokens
<1>3. ASSUME NEW i \in 1 .. Len(t) PROVE (<<x>> \o t)[i + 1] = t[i]
  <2>1. i + 1 \in 1 .. 1 + Len(t) /\ ~(i + 1 <= 1) /\ (i + 1) - 1 = i
    BY <1>0
  <2>2. (<<x>> \o t)[i + 1] = IF i + 1 <= Len(<<x>>) THEN <<x>>[i + 1]
                             ELSE t[i + 1 - Len(<<x>>)]
    BY <1>0, <2>1, ConcatProperties DEF Text
  <2> QED
    BY <1>0, <2>1, <2>2
<1>4. /\ Tail(<<x>> \o t) \in Text /\ Len(Tail(<<x>> \o t)) = Len(t)
      /\ \A i \in 1 .. Len(t) : Tail(<<x>> \o t)[i] = (<<x>> \o t)[i + 1]
  <2> DEFINE s == <<x>> \o t
  <2>1. s \in Text /\ s # <<>> /\ Len(s) - 1 = Len(t)
    BY <1>0, <1>1, <1>2
  <2> HIDE DEF s
  <2>2. Tail(s) \in Text /\ Len(Tail(s)) = Len(t) /\ \A i \in 1 .. Len(t) : Tail(s)[i] = s[i + 1]
    BY <2>1, TailTyped
  <2> QED
    BY <2>2 DEF s
<1>5. Tail(<<x>> \o t) = t
  BY <1>3, <1>4, SeqEqual DEF Text
<1> QED
  BY <1>1, <1>2, <1>5

\* A list begins with the first part that there is.
LEMMA JoinFrom ==
    ASSUME NEW parts \in Parts, NEW j \in DOMAIN parts, parts[j] # <<>>,
           \A k \in 1 .. j - 1 : parts[k] = <<>>
    PROVE  Join(parts) = parts[j] \o Commas(parts)[j + 1]
<1>0. parts[j] \in Text
  BY DEF Parts
<1>1. j \in 1 .. Len(parts) /\ 1 \in 1 .. Len(parts) + 1 /\ j + 1 \in 1 .. Len(parts) + 1
  BY DEF Parts
<1>2. Commas(parts)[1] = <<",">> \o (parts[j] \o Commas(parts)[j + 1])
  BY <1>1, NextPartFrom
<1>3. parts[j] \o Commas(parts)[j + 1] \in Text
  BY <1>0, <1>1, CommasTyped, TextConcat
<1>4. Commas(parts)[1] # <<>> /\ Tail(Commas(parts)[1]) = parts[j] \o Commas(parts)[j + 1]
  BY <1>2, <1>3, TailBehind, Delimiter
<1> QED
  BY <1>4 DEF Join

LEMMA JoinNone ==
    ASSUME NEW parts \in Parts, \A k \in DOMAIN parts : parts[k] = <<>>
    PROVE  Join(parts) = <<>>
<1>1. 1 \in 1 .. Len(parts) + 1 /\ \A k \in 1 .. Len(parts) : parts[k] = <<>>
  BY DEF Parts
<1>2. Commas(parts)[1] = <<>>
  BY <1>1, NoPartsFrom
<1> QED
  BY <1>2 DEF Join

LEMMA JoinTyped ==
    ASSUME NEW parts \in Parts
    PROVE  Join(parts) \in Text
<1>1. 1 \in 1 .. Len(parts) + 1
  BY DEF Parts
<1>2. Commas(parts)[1] \in Text
  BY <1>1, CommasTyped
<1> QED
  BY <1>2, TailTyped, NoTokens DEF Join

-----------------------------------------------------------------------------
(* What of a document is left when the serialization is at a context.      *)

AccessoryAt(d, c) == d[c.accessory]
ServiceAt(d, c) == AccessoryAt(d, c).services[c.service]
CharacteristicAt(d, c) == ServiceAt(d, c).characteristics[c.characteristic]
AccessoryDocumentsOf(d) == [i \in DOMAIN d |-> Object(AccessoryFields(d[i]))]
ResponseFields(d) == <<Field("accessories", Array(AccessoryDocumentsOf(d)))>>
DocumentOf(d) == Object(ResponseFields(d))

\* The elements with a name, and the place of each in the object it is a field of.
Place ==
    [AccessoriesArray |-> 1, AccessoryID |-> 1, ServicesArray |-> 2,
     ServiceID |-> 1, ServiceType |-> 2, ServicePropertyPrimary |-> 3,
     ServicePropertyHidden |-> 4, LinkedServicesArray |-> 5,
     CharacteristicsArray |-> 6, CharacteristicID |-> 1,
     CharacteristicType |-> 2, CharacteristicFormat |-> 3,
     CharacteristicValue |-> 4, PermissionsArray |-> 5,
     EventNotifications |-> 6, Description |-> 7, Unit |-> 8,
     MinimumValue |-> 9, MaximumValue |-> 10, StepValue |-> 11,
     MaxLength |-> 12, MaxDataLength |-> 13, ValidValuesArray |-> 14,
     ValidValuesRangesArray |-> 15]
OfAccessory == {"AccessoryID", "ServicesArray"}
OfService ==
    {"ServiceID", "ServiceType", "ServicePropertyPrimary", "ServicePropertyHidden",
     "LinkedServicesArray", "CharacteristicsArray"}
OfCharacteristic ==
    {"CharacteristicID", "CharacteristicType", "CharacteristicFormat",
     "CharacteristicValue", "PermissionsArray", "EventNotifications",
     "Description", "Unit", "MinimumValue", "MaximumValue", "StepValue",
     "MaxLength", "MaxDataLength", "ValidValuesArray", "ValidValuesRangesArray"}
Named == {"AccessoriesArray"} \cup OfAccessory \cup OfService \cup OfCharacteristic

\* What follows the object of an accessory, of a service, of a characteristic.
AccessoriesTail(d, c) ==
    Commas(AccessoryDocumentsOf(d))[c.accessory + 1] \o (<<"]">> \o <<"}">>)
ServicesTail(d, c) ==
    Commas(ServiceDocuments(AccessoryAt(d, c).services))[c.service + 1]
        \o (<<"]">> \o (<<"}">> \o AccessoriesTail(d, c)))
CharacteristicsTail(d, c) ==
    Commas(CharacteristicDocuments(ServiceAt(d, c).characteristics))[c.characteristic + 1]
        \o (<<"]">> \o (<<"}">> \o ServicesTail(d, c)))

\* The fields of the object with element e, and what follows the object.
Fields(d, c, e) ==
    CASE e = "AccessoriesArray" -> ResponseFields(d)
      [] e \in OfAccessory -> AccessoryFields(AccessoryAt(d, c))
      [] e \in OfService -> ServiceFields(ServiceAt(d, c))
      [] e \in OfCharacteristic -> CharacteristicFields(CharacteristicAt(d, c))
Outside(d, c, e) ==
    CASE e = "AccessoriesArray" -> <<>>
      [] e \in OfAccessory -> AccessoriesTail(d, c)
      [] e \in OfService -> ServicesTail(d, c)
      [] e \in OfCharacteristic -> CharacteristicsTail(d, c)
ThisField(d, c, e) == Fields(d, c, e)[Place[e]]
Behind(d, c, e) == Commas(Fields(d, c, e))[Place[e] + 1] \o (<<"}">> \o Outside(d, c, e))

\* The lists of values.
ListOf(e) ==
    CASE e = "LinkedServiceID" -> "LinkedServicesArray"
      [] e = "Permission" -> "PermissionsArray"
      [] e = "ValidValue" -> "ValidValuesArray"
      [] OTHER -> "ValidValuesRangesArray"
Listed(d, c, array) ==
    CASE array = "LinkedServicesArray" -> ServiceAt(d, c).linked
      [] array = "PermissionsArray" -> EnabledProperties(CharacteristicAt(d, c))
      [] array = "ValidValuesArray" -> List(CharacteristicAt(d, c).validValues)
      [] OTHER -> List(CharacteristicAt(d, c).ranges)
Item(d, c, e) == Listed(d, c, ListOf(e))[c.index]
FromItem(d, c, e) ==
    <<Item(d, c, e)>> \o (Commas(Strings(Listed(d, c, ListOf(e))))[c.index + 1]
                          \o (<<"]">> \o Behind(d, c, ListOf(e))))
RangesTail(d, c) ==
    Commas(RangeDocuments(Listed(d, c, "ValidValuesRangesArray")))[c.index + 1]
        \o (<<"]">> \o Behind(d, c, "ValidValuesRangesArray"))
FromRangeEnd(d, c, e) == <<Item(d, c, e)>> \o (<<"]">> \o RangesTail(d, c))

ObjectElements == {"ResponseObject", "AccessoryObject", "ServiceObject", "CharacteristicObject"}
ObjectOf(d, c, e) ==
    CASE e = "ResponseObject" -> ResponseFields(d)
      [] e = "AccessoryObject" -> AccessoryFields(AccessoryAt(d, c))
      [] e = "ServiceObject" -> ServiceFields(ServiceAt(d, c))
      [] OTHER -> CharacteristicFields(CharacteristicAt(d, c))
ObjectTail(d, c, e) ==
    CASE e = "ResponseObject" -> <<>>
      [] e = "AccessoryObject" -> AccessoriesTail(d, c)
      [] e = "ServiceObject" -> ServicesTail(d, c)
      [] OTHER -> CharacteristicsTail(d, c)
FromObject(d, c, e) == Object(ObjectOf(d, c, e)) \o ObjectTail(d, c, e)

\* What is left at part p of an element e that has a name, of an object, of an
\* item of a list, and of a range, with the indices of c.
NamedRest(d, c, e, p) ==
    CASE p = "Name" -> ThisField(d, c, e) \o Behind(d, c, e)
      [] p = "NameSeparator" -> Tail(ThisField(d, c, e)) \o Behind(d, c, e)
      [] p \in {"Begin", "Value"} -> Tail(Tail(ThisField(d, c, e))) \o Behind(d, c, e)
      [] p = "End" -> <<"]">> \o Behind(d, c, e)
      [] OTHER -> Behind(d, c, e)
ObjectRest(d, c, e, p) ==
    CASE p = "Begin" -> FromObject(d, c, e)
      [] p = "Separator" -> <<",">> \o FromObject(d, c, e)
      [] OTHER -> <<"}">> \o ObjectTail(d, c, e)
ItemRest(d, c, e, p) ==
    IF p = "Value" THEN FromItem(d, c, e) ELSE <<",">> \o FromItem(d, c, e)
RangeRest(d, c, e, p) ==
    CASE e = "RangeStart" -> <<Item(d, c, e)>> \o (<<",">> \o FromRangeEnd(d, c, e))
      [] e = "RangeEnd" -> FromRangeEnd(d, c, e)
      [] p = "Begin" -> RangeDocument(Item(d, c, e)) \o RangesTail(d, c)
      [] p = "Separator" -> <<",">> \o (RangeDocument(Item(d, c, e)) \o RangesTail(d, c))
      [] p = "Comma" -> <<",">> \o FromRangeEnd(d, c, e)
      [] OTHER -> <<"]">> \o RangesTail(d, c)
Items == {"LinkedServiceID", "Permission", "ValidValue"}
Ranges == {"ValidValuesRange", "RangeStart", "RangeEnd"}
RestAt(d, c, e, p) ==
    CASE e \in Named -> NamedRest(d, c, e, p)
      [] e \in ObjectElements -> ObjectRest(d, c, e, p)
      [] e \in Items -> ItemRest(d, c, e, p)
      [] e \in Ranges -> RangeRest(d, c, e, p)
      [] OTHER -> <<>>
Rest(d, c) == RestAt(d, c, c.element, c.part)

\* Contexts that the serialization can be at.
WithinCharacteristic ==
    OfCharacteristic \cup {"CharacteristicObject", "Permission", "ValidValue"} \cup Ranges
WithinService ==
    OfService \cup {"ServiceObject", "LinkedServiceID"} \cup WithinCharacteristic
WithinAccessory == OfAccessory \cup {"AccessoryObject"} \cup WithinService
Elements == Named \cup ObjectElements \cup Items \cup Ranges \cup {"ResponseIsComplete"}
Contexts ==
    [element : Elements,
     part : {"", "Name", "NameSeparator", "Begin", "End", "Value", "ValueSeparator",
             "Separator", "Comma"},
     accessory : Nat, service : Nat, characteristic : Nat, index : Nat]
Optional == {"Unit", "StepValue"}
PartsOf(e) ==
    IF e \in {"LinkedServicesArray", "PermissionsArray", "ValidValuesArray"}
    THEN {"Name", "NameSeparator", "Begin", "End", "ValueSeparator"}
    ELSE IF e \in Arrays THEN {"Name", "NameSeparator", "Begin", "End"}
    ELSE IF e \in {"MaxLength", "MaxDataLength"} THEN {"Name", "NameSeparator", "Value"}
    ELSE IF e \in Named THEN {"Name", "NameSeparator", "Value", "ValueSeparator"}
    ELSE IF e = "ResponseObject" THEN {"Begin", "End"}
    ELSE IF e \in ObjectElements THEN {"Begin", "Separator", "End"}
    ELSE IF e \in Items THEN {"Value", "Separator"}
    ELSE IF e = "ValidValuesRange" THEN {"Begin", "Separator", "Comma", "End"}
    ELSE IF e \in Ranges THEN {"Value"}
    ELSE {""}
Held(d, c, e) ==
    /\ e \in WithinAccessory => c.accessory \in DOMAIN d
    /\ e \in WithinService =>
        /\ c.service \in DOMAIN AccessoryAt(d, c).services
        /\ SupportsService(ServiceAt(d, c))
    /\ e \in WithinCharacteristic =>
        /\ c.characteristic \in DOMAIN ServiceAt(d, c).characteristics
        /\ IsSupported(CharacteristicAt(d, c))
Indexed(d, c, e) ==
    e \in Items \cup Ranges => c.index \in DOMAIN Listed(d, c, ListOf(e))
\* Only the separators of the unit and the step value stand for fields that
\* are left out, the latter for the numbers that can have valid values.
Present(d, c, e, p) ==
    /\ e \in Named /\ ~(e \in Optional /\ p = "ValueSeparator") =>
        ThisField(d, c, e) # <<>>
    /\ e = "StepValue" /\ p = "ValueSeparator" => CharacteristicAt(d, c).format = "uint8"
    /\ e \in {"ValidValue"} \cup Ranges => ThisField(d, c, ListOf(e)) # <<>>
PlaceAt(d, c, e, p) ==
    /\ p \in PartsOf(e)
    /\ Held(d, c, e)
    /\ Indexed(d, c, e)
    /\ Present(d, c, e, p)
InPlace(d, c) == c \in Contexts /\ PlaceAt(d, c, c.element, c.part)

-----------------------------------------------------------------------------
(* Parts of documents.                                                     *)

LEMMA FieldTyped ==
    ASSUME NEW n \in Tokens, NEW v \in Text
    PROVE  /\ Field(n, v) \in Text /\ Field(n, v) # <<>>
           /\ Field(n, v) = <<n>> \o (<<":">> \o v)
           /\ Tail(Field(n, v)) = <<":">> \o v
           /\ Tail(Tail(Field(n, v))) = v
<1>1. ":" \in Tokens
  BY DEF Tokens
<1>2. <<n, ":">> = <<n>> \o <<":">>
  OBVIOUS
<1>3. Field(n, v) = <<n>> \o (<<":">> \o v)
  BY <1>1, <1>2, OneToken, TextAssociative DEF Field
<1>4. <<":">> \o v \in Text /\ Tail(<<":">> \o v) = v
  BY <1>1, TailBehind
<1> QED
  BY <1>3, <1>4, TailBehind

LEMMA Brackets == {"[", "]", "{", "}", ",", ":"} \subseteq Tokens
BY DEF Tokens

LEMMA ArrayTyped ==
    ASSUME NEW parts \in Parts
    PROVE  /\ Array(parts) \in Text
           /\ \A t \in Text : Array(parts) \o t = <<"[">> \o (Join(parts) \o (<<"]">> \o t))
<1>1. Join(parts) \in Text /\ <<"[">> \in Text /\ <<"]">> \in Text
  BY JoinTyped, Brackets, OneToken
<1>2. <<"[">> \o Join(parts) \in Text
  BY <1>1, TextConcat
<1>3. Array(parts) = (<<"[">> \o Join(parts)) \o <<"]">>
  BY DEF Array
<1>4. ASSUME NEW t \in Text
      PROVE  Array(parts) \o t = <<"[">> \o (Join(parts) \o (<<"]">> \o t))
  <2>1. ((<<"[">> \o Join(parts)) \o <<"]">>) \o t
            = <<"[">> \o (Join(parts) \o (<<"]">> \o t))
    <3>1. PICK a, b, z : a = <<"[">> /\ b = Join(parts) /\ z = <<"]">>
      OBVIOUS
    <3>2. a \in Text /\ b \in Text /\ z \in Text
      BY <1>1, <3>1
    <3>3. Cat(Cat(Cat(a, b), z), t) = Cat(a, Cat(b, Cat(z, t)))
      BY <3>2, FourTexts
    <3> QED
      BY <3>1, <3>3 DEF Cat
  <2> QED
    BY <1>3, <2>1
<1> QED
  BY <1>1, <1>2, <1>3, <1>4, TextConcat

LEMMA ObjectTyped ==
    ASSUME NEW parts \in Parts
    PROVE  /\ Object(parts) \in Text
           /\ Object(parts) # <<>>
           /\ \A t \in Text : Object(parts) \o t = <<"{">> \o (Join(parts) \o (<<"}">> \o t))
<1>1. Join(parts) \in Text /\ <<"{">> \in Text /\ <<"}">> \in Text /\ Len(<<"}">>) = 1
  BY JoinTyped, Brackets, OneToken
<1>2. <<"{">> \o Join(parts) \in Text
  BY <1>1, TextConcat
<1>3. Object(parts) = (<<"{">> \o Join(parts)) \o <<"}">>
  BY DEF Object
<1>4. ASSUME NEW t \in Text
      PROVE  Object(parts) \o t = <<"{">> \o (Join(parts) \o (<<"}">> \o t))
  <2>1. ((<<"{">> \o Join(parts)) \o <<"}">>) \o t
            = <<"{">> \o (Join(parts) \o (<<"}">> \o t))
    <3>1. PICK a, b, z : a = <<"{">> /\ b = Join(parts) /\ z = <<"}">>
      OBVIOUS
    <3>2. a \in Text /\ b \in Text /\ z \in Text
      BY <1>1, <3>1
    <3>3. Cat(Cat(Cat(a, b), z), t) = Cat(a, Cat(b, Cat(z, t)))
      BY <3>2, FourTexts
    <3> QED
      BY <3>1, <3>3 DEF Cat
  <2> QED
    BY <1>3, <2>1
<1>5. Object(parts) \in Text
  BY <1>1, <1>2, <1>3, TextConcat
<1>6. Object(parts) # <<>>
  <2>1. Join(parts) \o <<"}">> \in Text
    BY <1>1, TextConcat
  <2>2. Object(parts) = <<"{">> \o (Join(parts) \o <<"}">>)
    BY <1>1, <1>3, TextAssociative
  <2> QED
    BY <2>1, <2>2, Brackets, TailBehind
<1> QED
  BY <1>4, <1>5, <1>6

\* An array of which j is the first item that there is, and one without items.
LEMMA ArrayFrom ==
    ASSUME NEW parts \in Parts, NEW j \in DOMAIN parts, parts[j] # <<>>,
           \A k \in 1 .. j - 1 : parts[k] = <<>>, NEW t \in Text
    PROVE  Array(parts) \o t
            = <<"[">> \o (parts[j] \o (Commas(parts)[j + 1] \o (<<"]">> \o t)))
<1>0. parts[j] \in Text
  BY DEF Parts
<1>1. j + 1 \in 1 .. Len(parts) + 1
  BY DEF Parts
<1>2. Commas(parts)[j + 1] \in Text
  BY <1>1, CommasTyped
<1>3. <<"]">> \o t \in Text
  BY Brackets, OneToken, TextConcat
<1>4. Join(parts) = parts[j] \o Commas(parts)[j + 1]
  BY JoinFrom
<1>5. (parts[j] \o Commas(parts)[j + 1]) \o (<<"]">> \o t)
        = parts[j] \o (Commas(parts)[j + 1] \o (<<"]">> \o t))
  BY <1>0, <1>2, <1>3, TextAssociative
<1>6. Array(parts) \o t = <<"[">> \o (Join(parts) \o (<<"]">> \o t))
  BY ArrayTyped
<1> QED
  BY <1>4, <1>5, <1>6

LEMMA ArrayNone ==
    ASSUME NEW parts \in Parts, \A k \in DOMAIN parts : parts[k] = <<>>, NEW t \in Text
    PROVE  Array(parts) \o t = <<"[">> \o (<<"]">> \o t)
<1>1. <<"]">> \o t \in Text
  BY Brackets, OneToken, TextConcat
<1>2. Join(parts) = <<>>
  BY JoinNone
<1>3. <<>> \o (<<"]">> \o t) = <<"]">> \o t
  BY <1>1, ConcatEmptySeq DEF Text
<1> QED
  BY <1>2, <1>3, ArrayTyped

\* An object begins with its first field.
LEMMA ObjectFrom ==
    ASSUME NEW parts \in Parts, 1 \in DOMAIN parts, parts[1] # <<>>, NEW t \in Text
    PROVE  Object(parts) \o t
            = <<"{">> \o (parts[1] \o (Commas(parts)[2] \o (<<"}">> \o t)))
<1>0. parts[1] \in Text
  BY DEF Parts
<1>1. 1 + 1 \in 1 .. Len(parts) + 1 /\ 1 + 1 = 2 /\ \A k \in 1 .. 1 - 1 : parts[k] = <<>>
  BY DEF Parts
<1>2. Commas(parts)[2] \in Text
  BY <1>1, CommasTyped
<1>3. <<"}">> \o t \in Text
  BY Brackets, OneToken, TextConcat
<1>4. Join(parts) = parts[1] \o Commas(parts)[2]
  BY <1>1, JoinFrom
<1>5. (parts[1] \o Commas(parts)[2]) \o (<<"}">> \o t)
        = parts[1] \o (Commas(parts)[2] \o (<<"}">> \o t))
  BY <1>0, <1>2, <1>3, TextAssociative
<1> QED
  BY <1>4, <1>5, ObjectTyped

LEMMA StringsTyped ==
    ASSUME NEW list \in Seq(Tokens)
    PROVE  /\ Strings(list) \in Parts /\ Len(Strings(list)) = Len(list)
           /\ DOMAIN Strings(list) = DOMAIN list
           /\ \A i \in DOMAIN list : Strings(list)[i] = <<list[i]>> /\ list[i] \in Tokens
<1>1. \A i \in DOMAIN list : list[i] \in Tokens /\ <<list[i]>> \in Text
  BY OneToken
<1> QED
  BY <1>1 DEF Strings, Parts

LEMMA GivenTyped ==
    ASSUME NEW condition \in BOOLEAN, NEW t \in Text
    PROVE  Given(condition, t) \in Text
BY NoTokens DEF Given

LEMMA ListTyped ==
    ASSUME NEW n
    PROVE  List(n) \in Seq(Tokens)
<1>1. "v" \in Tokens /\ "w" \in Tokens
  BY DEF Tokens
<1> QED
  BY <1>1 DEF List

LEMMA EnabledTyped ==
    ASSUME NEW ch
    PROVE  EnabledProperties(ch) \in Seq(Tokens)
<1>1. ASSUME NEW p \in Tokens PROVE Enabled(p, ch) \in Text
  BY OneToken, NoTokens DEF Enabled
<1>2. {"pr", "pw", "ev", "aa", "tw", "wr", "hd"} \subseteq Tokens
  BY DEF Tokens
<1> QED
  BY <1>1, <1>2, TextConcat DEF EnabledProperties, Text

LEMMA ValueTyped ==
    ASSUME NEW ch \in CharacteristicRecords
    PROVE  Value(ch) \in Tokens
BY DEF CharacteristicRecords, Value, Tokens

LEMMA TruthTyped == \A flag : Truth(flag) \in Tokens
BY DEF Truth, Tokens

LEMMA RangeTyped ==
    ASSUME NEW v \in Tokens
    PROVE  /\ RangeDocument(v) \in Text /\ RangeDocument(v) # <<>>
           /\ \A t \in Text : RangeDocument(v) \o t
                = <<"[">> \o (<<v>> \o (<<",">> \o (<<v>> \o (<<"]">> \o t))))
<1> DEFINE parts == << <<v>>, <<v>> >>
<1>1. <<v>> \in Text /\ <<v>> # <<>>
  BY OneToken, NoTokens
<1>2. /\ parts \in Parts /\ Len(parts) = 2 /\ DOMAIN parts = 1 .. 2
      /\ parts[1] = <<v>> /\ parts[2] = <<v>>
  BY <1>1 DEF Parts
<1>3. RangeDocument(v) = Array(parts)
  BY DEF RangeDocument
<1> HIDE DEF parts
<1>4. Commas(parts)[3] = <<>>
  <2>1. 3 \in 1 .. Len(parts) + 1 /\ 3 = Len(parts) + 1
    BY <1>2
  <2> QED
    BY <1>2, <2>1, CommasAre
<1>5. Commas(parts)[2] = <<",">> \o <<v>>
  <2>1. 2 \in DOMAIN parts /\ parts[2] # <<>>
    BY <1>1, <1>2
  <2>2. Commas(parts)[2] = <<",">> \o (parts[2] \o Commas(parts)[2 + 1])
    BY <1>2, <2>1, NextPart
  <2>3. 2 + 1 = 3 /\ <<v>> \o <<>> = <<v>>
    BY <1>1, NothingBefore
  <2> QED
    BY <1>2, <1>4, <2>2, <2>3
<1>6. ASSUME NEW t \in Text
      PROVE  Array(parts) \o t
                = <<"[">> \o (<<v>> \o (<<",">> \o (<<v>> \o (<<"]">> \o t))))
  <2>0. 1 \in DOMAIN parts /\ parts[1] # <<>> /\ 1 + 1 = 2 /\ \A k \in 1 .. 1 - 1 : parts[k] = <<>>
    BY <1>1, <1>2
  <2>1. Array(parts) \o t
            = <<"[">> \o (parts[1] \o (Commas(parts)[1 + 1] \o (<<"]">> \o t)))
    BY <1>2, <2>0, ArrayFrom
  <2>2. <<",">> \in Text /\ <<"]">> \o t \in Text
    BY Brackets, OneToken, TextConcat
  <2>3. (<<",">> \o <<v>>) \o (<<"]">> \o t) = <<",">> \o (<<v>> \o (<<"]">> \o t))
    BY <1>1, <2>2, TextAssociative
  <2> QED
    BY <1>2, <1>5, <2>0, <2>1, <2>3
<1>7. Array(parts) \in Text
  BY <1>2, ArrayTyped
<1>8. Array(parts) # <<>>
  <2>1. <<"]">> \o <<>> \in Text
    BY Brackets, OneToken, NoTokens, TextConcat
  <2>2. <<v>> \o (<<"]">> \o <<>>) \in Text
    BY <1>1, <2>1, TextConcat
  <2>3. <<",">> \o (<<v>> \o (<<"]">> \o <<>>)) \in Text
    BY <2>2, Brackets, OneToken, TextConcat
  <2>4. <<v>> \o (<<",">> \o (<<v>> \o (<<"]">> \o <<>>))) \in Text
    BY <1>1, <2>3, TextConcat
  <2>5. <<"[">> \o (<<v>> \o (<<",">> \o (<<v>> \o (<<"]">> \o <<>>)))) # <<>>
    BY <2>4, Brackets, TailBehind
  <2>6. Array(parts) \o <<>> # <<>>
    BY <1>6, <2>5, NoTokens
  <2> QED
    BY <1>7, <2>6, NothingBefore
<1> QED
  BY <1>3, <1>6, <1>7, <1>8

LEMMA RangesTyped ==
    ASSUME NEW list \in Seq(Tokens)
    PROVE  /\ RangeDocuments(list) \in Parts /\ Len(RangeDocuments(list)) = Len(list)
           /\ DOMAIN RangeDocuments(list) = DOMAIN list
           /\ \A i \in DOMAIN list : /\ RangeDocuments(list)[i] = RangeDocument(list[i])
                                     /\ list[i] \in Tokens
<1>1. \A v \in Tokens : RangeDocument(v) \in Text
  BY RangeTyped
<1>2. \A i \in DOMAIN list : list[i] \in Tokens
  OBVIOUS
<1> QED
  BY <1>1, <1>2 DEF RangeDocuments, Parts

-----------------------------------------------------------------------------
(* The fields of the objects.                                              *)

LEMMA NameTokens ==
    {"accessories", "aid", "services", "iid", "type", "primary", "hidden", "linked",
     "characteristics", "format", "value", "perms", "ev", "description", "unit",
     "minValue", "maxValue", "minStep", "maxLen", "maxDataLen", "valid-values",
     "valid-values-range", "limit"} \subseteq Tokens
BY DEF Tokens

LEMMA WordIsToken == STRING \subseteq Tokens /\ Formats \subseteq Tokens
BY DEF Tokens

LEMMA FieldOf ==
    ASSUME NEW n \in Tokens, NEW x \in Tokens
    PROVE  Field(n, <<x>>) \in Text /\ Field(n, <<x>>) # <<>>
BY OneToken, FieldTyped

LEMMA ArrayField ==
    ASSUME NEW n \in Tokens, NEW parts \in Parts
    PROVE  Field(n, Array(parts)) \in Text /\ Field(n, Array(parts)) # <<>>
BY ArrayTyped, FieldTyped

LEMMA CharacteristicTokens ==
    ASSUME NEW ch \in CharacteristicRecords
    PROVE  /\ ch.iid \in Tokens /\ ch.type \in Tokens /\ ch.format \in Tokens
           /\ ch.description \in Tokens /\ ch.unit \in Tokens
           /\ Value(ch) \in Tokens /\ Truth(ch.subscribed) \in Tokens
           /\ EnabledProperties(ch) \in Seq(Tokens)
           /\ List(ch.validValues) \in Seq(Tokens) /\ List(ch.ranges) \in Seq(Tokens)
<1>1. /\ ch.iid \in STRING /\ ch.type \in STRING /\ ch.format \in Formats
      /\ ch.description \in STRING /\ ch.unit \in STRING
  BY DEF CharacteristicRecords
<1> QED
  BY <1>1, WordIsToken, ValueTyped, TruthTyped, EnabledTyped, ListTyped

LEMMA CharacteristicFieldsAre ==
    ASSUME NEW ch \in CharacteristicRecords
    PROVE  /\ CharacteristicFields(ch) \in Parts /\ Len(CharacteristicFields(ch)) = 15
           /\ DOMAIN CharacteristicFields(ch) = 1 .. 15
           /\ CharacteristicFields(ch)[1]
                = Field("iid", <<ch.iid>>)
           /\ CharacteristicFields(ch)[2]
                = Field("type", <<ch.type>>)
           /\ CharacteristicFields(ch)[3]
                = Field("format", <<ch.format>>)
           /\ CharacteristicFields(ch)[4]
                = Given("pr" \in ch.properties, Field("value", <<Value(ch)>>))
           /\ CharacteristicFields(ch)[5]
                = Field("perms", Array(Strings(EnabledProperties(ch))))
           /\ CharacteristicFields(ch)[6]
                = Given("pr" \in ch.properties, Field("ev", <<Truth(ch.subscribed)>>))
           /\ CharacteristicFields(ch)[7]
                = Given(ch.description # "", Field("description", <<ch.description>>))
           /\ CharacteristicFields(ch)[8]
                = Given(HasUnit(ch), Field("unit", <<ch.unit>>))
           /\ CharacteristicFields(ch)[9]
                = Given(ch.format \in Numbers /\ ch.constrained, Field("minValue", <<"limit">>))
           /\ CharacteristicFields(ch)[10]
                = Given(ch.format \in Numbers /\ ch.constrained, Field("maxValue", <<"limit">>))
           /\ CharacteristicFields(ch)[11]
                = Given(ch.format \in Numbers /\ ch.constrained, Field("minStep", <<"limit">>))
           /\ CharacteristicFields(ch)[12]
                = Given(ch.format = "string" /\ ch.constrained, Field("maxLen", <<"limit">>))
           /\ CharacteristicFields(ch)[13]
                = Given(ch.format = "data" /\ ch.constrained, Field("maxDataLen", <<"limit">>))
           /\ CharacteristicFields(ch)[14]
                = Given((ch.format = "uint8" /\ ch.apple) /\ ch.validValues # "none",
                      Field("valid-values", Array(Strings(List(ch.validValues)))))
           /\ CharacteristicFields(ch)[15]
                = Given((ch.format = "uint8" /\ ch.apple) /\ ch.ranges # "none",
                      Field("valid-values-range", Array(RangeDocuments(List(ch.ranges)))))
<1> DEFINE F1 == Field("iid", <<ch.iid>>)
           F2 == Field("type", <<ch.type>>)
           F3 == Field("format", <<ch.format>>)
           F4 == Given("pr" \in ch.properties, Field("value", <<Value(ch)>>))
           F5 == Field("perms", Array(Strings(EnabledProperties(ch))))
           F6 == Given("pr" \in ch.properties, Field("ev", <<Truth(ch.subscribed)>>))
           F7 == Given(ch.description # "", Field("description", <<ch.description>>))
           F8 == Given(HasUnit(ch), Field("unit", <<ch.unit>>))
           F9 == Given(ch.format \in Numbers /\ ch.constrained, Field("minValue", <<"limit">>))
           F10 == Given(ch.format \in Numbers /\ ch.constrained, Field("maxValue", <<"limit">>))
           F11 == Given(ch.format \in Numbers /\ ch.constrained, Field("minStep", <<"limit">>))
           F12 == Given(ch.format = "string" /\ ch.constrained, Field("maxLen", <<"limit">>))
           F13 == Given(ch.format = "data" /\ ch.constrained, Field("maxDataLen", <<"limit">>))
           F14 == Given((ch.format = "uint8" /\ ch.apple) /\ ch.validValues # "none",
                      Field("valid-values", Array(Strings(List(ch.validValues)))))
           F15 == Given((ch.format = "uint8" /\ ch.apple) /\ ch.ranges # "none",
                      Field("valid-values-range", Array(RangeDocuments(List(ch.ranges)))))
           f == <<F1,
                  F2,
                  F3,
                  F4,
                  F5,
                  F6,
                  F7,
                  F8,
                  F9,
                  F10,
                  F11,
                  F12,
                  F13,
                  F14,
                  F15>>
<1>1. CharacteristicFields(ch) = f
  BY DEF CharacteristicFields
<1>2. /\ F1 \in Text /\ F2 \in Text /\ F3 \in Text
  BY CharacteristicTokens, NameTokens, FieldOf
<1>3. F4 \in Text /\ F6 \in Text
  BY CharacteristicTokens, NameTokens, FieldOf, NoTokens DEF Given
<1>4. F5 \in Text
  <2>1. Strings(EnabledProperties(ch)) \in Parts
    BY CharacteristicTokens, StringsTyped
  <2> QED
    BY <2>1, NameTokens, ArrayField
<1>5. F7 \in Text /\ F8 \in Text
  BY CharacteristicTokens, NameTokens, FieldOf, NoTokens DEF Given
<1>6. F9 \in Text /\ F10 \in Text /\ F11 \in Text
  BY NameTokens, FieldOf, NoTokens DEF Given
<1>7. F12 \in Text /\ F13 \in Text
  BY NameTokens, FieldOf, NoTokens DEF Given
<1>8. F14 \in Text
  <2>1. Strings(List(ch.validValues)) \in Parts
    BY CharacteristicTokens, StringsTyped
  <2> QED
    BY <2>1, NameTokens, ArrayField, NoTokens DEF Given
<1>9. F15 \in Text
  <2>1. RangeDocuments(List(ch.ranges)) \in Parts
    BY CharacteristicTokens, RangesTyped
  <2> QED
    BY <2>1, NameTokens, ArrayField, NoTokens DEF Given
<1> HIDE DEF F1, F2, F3, F4, F5, F6, F7, F8, F9, F10, F11, F12, F13, F14, F15
<1>10. f \in Parts /\ Len(f) = 15 /\ DOMAIN f = 1 .. 15
  BY <1>2, <1>3, <1>4, <1>5, <1>6, <1>7, <1>8, <1>9 DEF Parts
<1>11. /\ f[1] = F1
       /\ f[2] = F2
       /\ f[3] = F3
       /\ f[4] = F4
       /\ f[5] = F5
       /\ f[6] = F6
       /\ f[7] = F7
       /\ f[8] = F8
       /\ f[9] = F9
       /\ f[10] = F10
       /\ f[11] = F11
       /\ f[12] = F12
       /\ f[13] = F13
       /\ f[14] = F14
       /\ f[15] = F15
  OBVIOUS
<1> HIDE DEF f
<1> QED
  BY <1>1, <1>10, <1>11 DEF F1, F2, F3, F4, F5, F6, F7, F8, F9, F10, F11, F12, F13, F14, F15

LEMMA CharacteristicDocumentsAre ==
    ASSUME NEW list \in Seq(CharacteristicRecords)
    PROVE  /\ CharacteristicDocuments(list) \in Parts
           /\ Len(CharacteristicDocuments(list)) = Len(list)
           /\ DOMAIN CharacteristicDocuments(list) = DOMAIN list
           /\ \A i \in DOMAIN list : CharacteristicDocuments(list)[i] =
                IF IsSupported(list[i]) THEN Object(CharacteristicFields(list[i])) ELSE <<>>
<1>1. \A ch \in CharacteristicRecords : Object(CharacteristicFields(ch)) \in Text
  BY CharacteristicFieldsAre, ObjectTyped
<1>2. \A i \in DOMAIN list : list[i] \in CharacteristicRecords
  OBVIOUS
<1> QED
  BY <1>1, <1>2, NoTokens DEF CharacteristicDocuments, Given, Parts

LEMMA ServiceFieldsAre ==
    ASSUME NEW service \in ServiceRecords
    PROVE  /\ ServiceFields(service) \in Parts /\ Len(ServiceFields(service)) = 6
           /\ DOMAIN ServiceFields(service) = 1 .. 6
           /\ ServiceFields(service)[1] = Field("iid", <<service.iid>>)
           /\ ServiceFields(service)[2] = Field("type", <<service.type>>)
           /\ ServiceFields(service)[3] = Field("primary", <<Truth(service.primary)>>)
           /\ ServiceFields(service)[4] = Field("hidden", <<Truth(service.hidden)>>)
           /\ ServiceFields(service)[5] = Field("linked", Array(Strings(service.linked)))
           /\ ServiceFields(service)[6]
                = Field("characteristics",
                        Array(CharacteristicDocuments(service.characteristics)))
           /\ service.iid \in Tokens /\ service.type \in Tokens
           /\ service.linked \in Seq(Tokens)
           /\ service.characteristics \in Seq(CharacteristicRecords)
<1>1. /\ service.iid \in STRING /\ service.type \in STRING /\ service.linked \in Seq(STRING)
      /\ service.characteristics \in Seq(CharacteristicRecords)
  BY DEF ServiceRecords
<1>2. service.iid \in Tokens /\ service.type \in Tokens /\ service.linked \in Seq(Tokens)
  <2>1. service.linked \in Seq(Tokens)
    BY <1>1, WordIsToken, SeqMonotonic
  <2> QED
    BY <1>1, <2>1, WordIsToken
<1> DEFINE F1 == Field("iid", <<service.iid>>)
           F2 == Field("type", <<service.type>>)
           F3 == Field("primary", <<Truth(service.primary)>>)
           F4 == Field("hidden", <<Truth(service.hidden)>>)
           F5 == Field("linked", Array(Strings(service.linked)))
           F6 == Field("characteristics",
                       Array(CharacteristicDocuments(service.characteristics)))
           f == <<F1, F2, F3, F4, F5, F6>>
<1>3. ServiceFields(service) = f
  BY DEF ServiceFields
<1>4. F1 \in Text /\ F2 \in Text /\ F3 \in Text /\ F4 \in Text
  BY <1>2, NameTokens, TruthTyped, FieldOf
<1>5. F5 \in Text
  <2>1. Strings(service.linked) \in Parts
    BY <1>2, StringsTyped
  <2> QED
    BY <2>1, NameTokens, ArrayField
<1>6. F6 \in Text
  <2>1. CharacteristicDocuments(service.characteristics) \in Parts
    BY <1>1, CharacteristicDocumentsAre
  <2> QED
    BY <2>1, NameTokens, ArrayField
<1> HIDE DEF F1, F2, F3, F4, F5, F6
<1>7. f \in Parts /\ Len(f) = 6 /\ DOMAIN f = 1 .. 6
  BY <1>4, <1>5, <1>6 DEF Parts
<1>8. /\ f[1] = F1 /\ f[2] = F2 /\ f[3] = F3 /\ f[4] = F4 /\ f[5] = F5 /\ f[6] = F6
  OBVIOUS
<1> HIDE DEF f
<1> QED
  BY <1>1, <1>2, <1>3, <1>7, <1>8 DEF F1, F2, F3, F4, F5, F6

LEMMA ServiceDocumentsAre ==
    ASSUME NEW list \in Seq(ServiceRecords)
    PROVE  /\ ServiceDocuments(list) \in Parts
           /\ Len(ServiceDocuments(list)) = Len(list)
           /\ DOMAIN ServiceDocuments(list) = DOMAIN list
           /\ \A i \in DOMAIN list : ServiceDocuments(list)[i] =
                IF SupportsService(list[i]) THEN Object(ServiceFields(list[i])) ELSE <<>>
<1>1. \A service \in ServiceRecords : Object(ServiceFields(service)) \in Text
  BY ServiceFieldsAre, ObjectTyped
<1>2. \A i \in DOMAIN list : list[i] \in ServiceRecords
  OBVIOUS
<1> QED
  BY <1>1, <1>2, NoTokens DEF ServiceDocuments, Given, Parts

LEMMA AccessoryFieldsAre ==
    ASSUME NEW accessory \in AccessoryRecords
    PROVE  /\ AccessoryFields(accessory) \in Parts /\ Len(AccessoryFields(accessory)) = 2
           /\ DOMAIN AccessoryFields(accessory) = 1 .. 2
           /\ AccessoryFields(accessory)[1] = Field("aid", <<accessory.aid>>)
           /\ AccessoryFields(accessory)[2]
                = Field("services", Array(ServiceDocuments(accessory.services)))
           /\ accessory.aid \in Tokens /\ accessory.services \in Seq(ServiceRecords)
<1>1. accessory.aid \in STRING /\ accessory.services \in Seq(ServiceRecords)
  BY DEF AccessoryRecords
<1>2. accessory.aid \in Tokens
  BY <1>1, WordIsToken
<1> DEFINE F1 == Field("aid", <<accessory.aid>>)
           F2 == Field("services", Array(ServiceDocuments(accessory.services)))
<1>3. F1 \in Text
  BY <1>2, NameTokens, FieldOf
<1>4. F2 \in Text
  <2>1. ServiceDocuments(accessory.services) \in Parts
    BY <1>1, ServiceDocumentsAre
  <2> QED
    BY <2>1, NameTokens, ArrayField
<1>5. AccessoryFields(accessory) = <<F1, F2>>
  BY DEF AccessoryFields
<1> HIDE DEF F1, F2
<1>6. /\ <<F1, F2>> \in Parts /\ Len(<<F1, F2>>) = 2 /\ DOMAIN <<F1, F2>> = 1 .. 2
      /\ <<F1, F2>>[1] = F1 /\ <<F1, F2>>[2] = F2
  BY <1>3, <1>4 DEF Parts
<1> QED
  BY <1>1, <1>2, <1>5, <1>6 DEF F1, F2

Databased(d) == d \in Seq(AccessoryRecords) /\ d # <<>>

LEMMA ResponseFieldsAre ==
    ASSUME NEW d, Databased(d)
    PROVE  /\ AccessoryDocumentsOf(d) \in Parts
           /\ Len(AccessoryDocumentsOf(d)) = Len(d)
           /\ DOMAIN AccessoryDocumentsOf(d) = DOMAIN d
           /\ \A i \in DOMAIN d : AccessoryDocumentsOf(d)[i] = Object(AccessoryFields(d[i]))
           /\ ResponseFields(d) \in Parts /\ Len(ResponseFields(d)) = 1
           /\ DOMAIN ResponseFields(d) = 1 .. 1
           /\ ResponseFields(d)[1] = Field("accessories", Array(AccessoryDocumentsOf(d)))
<1>1. \A accessory \in AccessoryRecords : Object(AccessoryFields(accessory)) \in Text
  BY AccessoryFieldsAre, ObjectTyped
<1>2. d \in Seq(AccessoryRecords) /\ \A i \in DOMAIN d : d[i] \in AccessoryRecords
  BY DEF Databased
<1>3. /\ AccessoryDocumentsOf(d) \in Parts
      /\ Len(AccessoryDocumentsOf(d)) = Len(d)
      /\ DOMAIN AccessoryDocumentsOf(d) = DOMAIN d
      /\ \A i \in DOMAIN d : AccessoryDocumentsOf(d)[i] = Object(AccessoryFields(d[i]))
  BY <1>1, <1>2 DEF AccessoryDocumentsOf, Parts
<1>4. Field("accessories", Array(AccessoryDocumentsOf(d))) \in Text
  BY <1>3, NameTokens, ArrayField
<1> QED
  BY <1>3, <1>4 DEF ResponseFields, Parts

-----------------------------------------------------------------------------
(* Where the serialization is.                                             *)

LEMMA RecordsAre ==
    ASSUME NEW d, Databased(d), NEW c, NEW e, Held(d, c, e)
    PROVE  /\ e \in WithinAccessory => AccessoryAt(d, c) \in AccessoryRecords
           /\ e \in WithinService => /\ ServiceAt(d, c) \in ServiceRecords
                                     /\ SupportsService(ServiceAt(d, c))
           /\ e \in WithinCharacteristic => /\ CharacteristicAt(d, c) \in CharacteristicRecords
                                            /\ IsSupported(CharacteristicAt(d, c))
           /\ e \in WithinCharacteristic => e \in WithinService
           /\ e \in WithinService => e \in WithinAccessory
<1>0. /\ e \in WithinCharacteristic => e \in WithinService
      /\ e \in WithinService => e \in WithinAccessory
  BY DEF WithinService, WithinAccessory
<1>1. ASSUME e \in WithinAccessory PROVE AccessoryAt(d, c) \in AccessoryRecords
  <2>1. c.accessory \in DOMAIN d
    BY <1>1 DEF Held
  <2> QED
    BY <2>1 DEF AccessoryAt, Databased
<1>2. ASSUME e \in WithinService
      PROVE  ServiceAt(d, c) \in ServiceRecords /\ SupportsService(ServiceAt(d, c))
  <2>1. c.service \in DOMAIN AccessoryAt(d, c).services /\ SupportsService(ServiceAt(d, c))
    BY <1>2 DEF Held
  <2>2. AccessoryAt(d, c).services \in Seq(ServiceRecords)
    BY <1>0, <1>1, <1>2 DEF AccessoryRecords
  <2> QED
    BY <2>1, <2>2 DEF ServiceAt
<1>3. ASSUME e \in WithinCharacteristic
      PROVE  /\ CharacteristicAt(d, c) \in CharacteristicRecords
             /\ IsSupported(CharacteristicAt(d, c))
  <2>1. /\ c.characteristic \in DOMAIN ServiceAt(d, c).characteristics
        /\ IsSupported(CharacteristicAt(d, c))
    BY <1>3 DEF Held
  <2>2. ServiceAt(d, c).characteristics \in Seq(CharacteristicRecords)
    BY <1>0, <1>2, <1>3 DEF ServiceRecords
  <2> QED
    BY <2>1, <2>2 DEF CharacteristicAt
<1> QED
  BY <1>0, <1>1, <1>2, <1>3

LEMMA AccessoriesTailTyped ==
    ASSUME NEW d, Databased(d), NEW c, NEW e \in WithinAccessory, Held(d, c, e)
    PROVE  AccessoriesTail(d, c) \in Text /\ c.accessory \in 1 .. Len(d)
<1>1. c.accessory \in 1 .. Len(d) /\ c.accessory + 1 \in 1 .. Len(d) + 1
  BY DEF Held, Databased
<1>2. Commas(AccessoryDocumentsOf(d))[c.accessory + 1] \in Text
  BY <1>1, ResponseFieldsAre, CommasTyped
<1>3. <<"]">> \o <<"}">> \in Text
  BY Brackets, OneToken, TextConcat
<1> QED
  BY <1>1, <1>2, <1>3, TextConcat DEF AccessoriesTail

LEMMA ServicesTailTyped ==
    ASSUME NEW d, Databased(d), NEW c, NEW e \in WithinService, Held(d, c, e)
    PROVE  /\ ServicesTail(d, c) \in Text
           /\ c.service \in 1 .. Len(AccessoryAt(d, c).services)
           /\ AccessoryAt(d, c).services \in Seq(ServiceRecords)
<1>1. AccessoryAt(d, c).services \in Seq(ServiceRecords) /\ e \in WithinAccessory
  BY RecordsAre DEF AccessoryRecords
<1>2. /\ c.service \in 1 .. Len(AccessoryAt(d, c).services)
      /\ c.service + 1 \in 1 .. Len(AccessoryAt(d, c).services) + 1
  BY <1>1 DEF Held
<1>3. Commas(ServiceDocuments(AccessoryAt(d, c).services))[c.service + 1] \in Text
  BY <1>1, <1>2, ServiceDocumentsAre, CommasTyped
<1>4. AccessoriesTail(d, c) \in Text
  BY <1>1, AccessoriesTailTyped
<1>5. <<"]">> \o (<<"}">> \o AccessoriesTail(d, c)) \in Text
  BY <1>4, Brackets, OneToken, TextConcat
<1> QED
  BY <1>1, <1>2, <1>3, <1>5, TextConcat DEF ServicesTail

LEMMA CharacteristicsTailTyped ==
    ASSUME NEW d, Databased(d), NEW c, NEW e \in WithinCharacteristic, Held(d, c, e)
    PROVE  /\ CharacteristicsTail(d, c) \in Text
           /\ c.characteristic \in 1 .. Len(ServiceAt(d, c).characteristics)
           /\ ServiceAt(d, c).characteristics \in Seq(CharacteristicRecords)
<1>1. ServiceAt(d, c).characteristics \in Seq(CharacteristicRecords) /\ e \in WithinService
  BY RecordsAre DEF ServiceRecords
<1>2. /\ c.characteristic \in 1 .. Len(ServiceAt(d, c).characteristics)
      /\ c.characteristic + 1 \in 1 .. Len(ServiceAt(d, c).characteristics) + 1
  BY <1>1 DEF Held
<1>3. Commas(CharacteristicDocuments(ServiceAt(d, c).characteristics))[c.characteristic + 1]
        \in Text
  BY <1>1, <1>2, CharacteristicDocumentsAre, CommasTyped
<1>4. ServicesTail(d, c) \in Text
  BY <1>1, ServicesTailTyped
<1>5. <<"]">> \o (<<"}">> \o ServicesTail(d, c)) \in Text
  BY <1>4, Brackets, OneToken, TextConcat
<1> QED
  BY <1>1, <1>2, <1>3, <1>5, TextConcat DEF CharacteristicsTail

\* The values of the fields.
Simple(d, c, e) ==
    CASE e = "AccessoryID" -> AccessoryAt(d, c).aid
      [] e = "ServiceID" -> ServiceAt(d, c).iid
      [] e = "ServiceType" -> ServiceAt(d, c).type
      [] e = "ServicePropertyPrimary" -> Truth(ServiceAt(d, c).primary)
      [] e = "ServicePropertyHidden" -> Truth(ServiceAt(d, c).hidden)
      [] e = "CharacteristicID" -> CharacteristicAt(d, c).iid
      [] e = "CharacteristicType" -> CharacteristicAt(d, c).type
      [] e = "CharacteristicFormat" -> CharacteristicAt(d, c).format
      [] e = "CharacteristicValue" -> Value(CharacteristicAt(d, c))
      [] e = "EventNotifications" -> Truth(CharacteristicAt(d, c).subscribed)
      [] e = "Description" -> CharacteristicAt(d, c).description
      [] e = "Unit" -> CharacteristicAt(d, c).unit
      [] OTHER -> "limit"
PartsIn(d, c, e) ==
    CASE e = "AccessoriesArray" -> AccessoryDocumentsOf(d)
      [] e = "ServicesArray" -> ServiceDocuments(AccessoryAt(d, c).services)
      [] e = "CharacteristicsArray" -> CharacteristicDocuments(ServiceAt(d, c).characteristics)
      [] e = "ValidValuesRangesArray" -> RangeDocuments(Listed(d, c, e))
      [] OTHER -> Strings(Listed(d, c, e))
Content(d, c, e) == IF e \in Arrays THEN Array(PartsIn(d, c, e)) ELSE <<Simple(d, c, e)>>

\* The place of an element is the one of its field.
IsPlaced(d, c, e, n, name) ==
    /\ Place[e] = n /\ Names[e] = name /\ name \in Tokens
    /\ n \in 1 .. Len(Fields(d, c, e))
    /\ Fields(d, c, e)[n] # <<>> => Fields(d, c, e)[n] = Field(name, Content(d, c, e))
    /\ Content(d, c, e) \in Text
    /\ e \notin Arrays => Simple(d, c, e) \in Tokens
    /\ e \in Arrays => PartsIn(d, c, e) \in Parts

LEMMA LimitToken == "limit" \in Tokens
BY DEF Tokens

LEMMA AccessoryPlaces ==
    ASSUME NEW d, Databased(d), NEW c, NEW e \in OfAccessory, Held(d, c, e)
    PROVE  \E n \in Nat, name \in Tokens : IsPlaced(d, c, e, n, name)
<1>1. AccessoryAt(d, c) \in AccessoryRecords
  <2>1. e \in WithinAccessory
    BY DEF WithinAccessory
  <2> QED
    BY <2>1, RecordsAre
<1>2. Fields(d, c, e) = AccessoryFields(AccessoryAt(d, c))
  BY DEF Fields, OfAccessory, OfService, OfCharacteristic
<1>0. 1 .. Len(Fields(d, c, e)) = 1 .. 2
  <2>1. Len(AccessoryFields(AccessoryAt(d, c))) = 2
    BY <1>1, AccessoryFieldsAre
  <2> QED
    BY <1>2, <2>1
<1>3. CASE e = "AccessoryID"
  <2>1. Place[e] = 1 /\ Names[e] = "aid" /\ "aid" \in Tokens
    BY <1>3, NameTokens DEF Place, Names
  <2>2. e \notin Arrays /\ Simple(d, c, e) \in Tokens
    BY <1>1, <1>3, AccessoryFieldsAre DEF Arrays, Simple
  <2>3. Content(d, c, e) = <<Simple(d, c, e)>> /\ Content(d, c, e) \in Text
    BY <2>2, OneToken DEF Content
  <2>4. Content(d, c, e) = <<AccessoryAt(d, c).aid>>
    BY <1>3, <2>3 DEF Simple, PartsIn, Listed
  <2>5. Fields(d, c, e)[1] = Field("aid", <<AccessoryAt(d, c).aid>>)
    BY <1>1, <1>2, AccessoryFieldsAre
  <2>6. Fields(d, c, e)[1] # <<>> =>
            Fields(d, c, e)[1] = Field("aid", Content(d, c, e))
    BY <2>4, <2>5 DEF Given
  <2>7. 1 \in 1 .. Len(Fields(d, c, e))
    BY <1>0
  <2>8. IsPlaced(d, c, e, 1, "aid")
    BY <2>1, <2>2, <2>3, <2>6, <2>7 DEF IsPlaced
  <2> QED
    BY <2>1, <2>8
<1>4. CASE e = "ServicesArray"
  <2>1. Place[e] = 2 /\ Names[e] = "services" /\ "services" \in Tokens
    BY <1>4, NameTokens DEF Place, Names
  <2>2. e \in Arrays /\ PartsIn(d, c, e) \in Parts
    BY <1>1, <1>4, ServiceDocumentsAre, AccessoryFieldsAre DEF Arrays, PartsIn, Listed
  <2>3. Content(d, c, e) = Array(PartsIn(d, c, e)) /\ Content(d, c, e) \in Text
    BY <2>2, ArrayTyped DEF Content
  <2>4. Content(d, c, e) = Array(ServiceDocuments(AccessoryAt(d, c).services))
    BY <1>4, <2>3 DEF Simple, PartsIn, Listed
  <2>5. Fields(d, c, e)[2] = Field("services", Array(ServiceDocuments(AccessoryAt(d, c).services)))
    BY <1>1, <1>2, AccessoryFieldsAre
  <2>6. Fields(d, c, e)[2] # <<>> =>
            Fields(d, c, e)[2] = Field("services", Content(d, c, e))
    BY <2>4, <2>5 DEF Given
  <2>7. 2 \in 1 .. Len(Fields(d, c, e))
    BY <1>0
  <2>8. IsPlaced(d, c, e, 2, "services")
    BY <2>1, <2>2, <2>3, <2>6, <2>7 DEF IsPlaced
  <2> QED
    BY <2>1, <2>8
<1> QED
  BY <1>3, <1>4 DEF OfAccessory

LEMMA ServicePlaces ==
    ASSUME NEW d, Databased(d), NEW c, NEW e \in OfService, Held(d, c, e)
    PROVE  \E n \in Nat, name \in Tokens : IsPlaced(d, c, e, n, name)
<1>1. ServiceAt(d, c) \in ServiceRecords
  <2>1. e \in WithinService
    BY DEF WithinService
  <2> QED
    BY <2>1, RecordsAre
<1>2. Fields(d, c, e) = ServiceFields(ServiceAt(d, c))
  BY DEF Fields, OfAccessory, OfService, OfCharacteristic
<1>0. 1 .. Len(Fields(d, c, e)) = 1 .. 6
  <2>1. Len(ServiceFields(ServiceAt(d, c))) = 6
    BY <1>1, ServiceFieldsAre
  <2> QED
    BY <1>2, <2>1
<1>3. CASE e = "ServiceID"
  <2>1. Place[e] = 1 /\ Names[e] = "iid" /\ "iid" \in Tokens
    BY <1>3, NameTokens DEF Place, Names
  <2>2. e \notin Arrays /\ Simple(d, c, e) \in Tokens
    BY <1>1, <1>3, ServiceFieldsAre, TruthTyped DEF Arrays, Simple
  <2>3. Content(d, c, e) = <<Simple(d, c, e)>> /\ Content(d, c, e) \in Text
    BY <2>2, OneToken DEF Content
  <2>4. Content(d, c, e) = <<ServiceAt(d, c).iid>>
    BY <1>3, <2>3 DEF Simple, PartsIn, Listed
  <2>5. Fields(d, c, e)[1] = Field("iid", <<ServiceAt(d, c).iid>>)
    BY <1>1, <1>2, ServiceFieldsAre
  <2>6. Fields(d, c, e)[1] # <<>> =>
            Fields(d, c, e)[1] = Field("iid", Content(d, c, e))
    BY <2>4, <2>5 DEF Given
  <2>7. 1 \in 1 .. Len(Fields(d, c, e))
    BY <1>0
  <2>8. IsPlaced(d, c, e, 1, "iid")
    BY <2>1, <2>2, <2>3, <2>6, <2>7 DEF IsPlaced
  <2> QED
    BY <2>1, <2>8
<1>4. CASE e = "ServiceType"
  <2>1. Place[e] = 2 /\ Names[e] = "type" /\ "type" \in Tokens
    BY <1>4, NameTokens DEF Place, Names
  <2>2. e \notin Arrays /\ Simple(d, c, e) \in Tokens
    BY <1>1, <1>4, ServiceFieldsAre, TruthTyped DEF Arrays, Simple
  <2>3. Content(d, c, e) = <<Simple(d, c, e)>> /\ Content(d, c, e) \in Text
    BY <2>2, OneToken DEF Content
  <2>4. Content(d, c, e) = <<ServiceAt(d, c).type>>
    BY <1>4, <2>3 DEF Simple, PartsIn, Listed
  <2>5. Fields(d, c, e)[2] = Field("type", <<ServiceAt(d, c).type>>)
    BY <1>1, <1>2, ServiceFieldsAre
  <2>6. Fields(d, c, e)[2] # <<>> =>
            Fields(d, c, e)[2] = Field("type", Content(d, c, e))
    BY <2>4, <2>5 DEF Given
  <2>7. 2 \in 1 .. Len(Fields(d, c, e))
    BY <1>0
  <2>8. IsPlaced(d, c, e, 2, "type")
    BY <2>1, <2>2, <2>3, <2>6, <2>7 DEF IsPlaced
  <2> QED
    BY <2>1, <2>8
<1>5. CASE e = "ServicePropertyPrimary"
  <2>1. Place[e] = 3 /\ Names[e] = "primary" /\ "primary" \in Tokens
    BY <1>5, NameTokens DEF Place, Names
  <2>2. e \notin Arrays /\ Simple(d, c, e) \in Tokens
    BY <1>1, <1>5, ServiceFieldsAre, TruthTyped DEF Arrays, Simple
  <2>3. Content(d, c, e) = <<Simple(d, c, e)>> /\ Content(d, c, e) \in Text
    BY <2>2, OneToken DEF Content
  <2>4. Content(d, c, e) = <<Truth(ServiceAt(d, c).primary)>>
    BY <1>5, <2>3 DEF Simple, PartsIn, Listed
  <2>5. Fields(d, c, e)[3] = Field("primary", <<Truth(ServiceAt(d, c).primary)>>)
    BY <1>1, <1>2, ServiceFieldsAre
  <2>6. Fields(d, c, e)[3] # <<>> =>
            Fields(d, c, e)[3] = Field("primary", Content(d, c, e))
    BY <2>4, <2>5 DEF Given
  <2>7. 3 \in 1 .. Len(Fields(d, c, e))
    BY <1>0
  <2>8. IsPlaced(d, c, e, 3, "primary")
    BY <2>1, <2>2, <2>3, <2>6, <2>7 DEF IsPlaced
  <2> QED
    BY <2>1, <2>8
<1>6. CASE e = "ServicePropertyHidden"
  <2>1. Place[e] = 4 /\ Names[e] = "hidden" /\ "hidden" \in Tokens
    BY <1>6, NameTokens DEF Place, Names
  <2>2. e \notin Arrays /\ Simple(d, c, e) \in Tokens
    BY <1>1, <1>6, ServiceFieldsAre, TruthTyped DEF Arrays, Simple
  <2>3. Content(d, c, e) = <<Simple(d, c, e)>> /\ Content(d, c, e) \in Text
    BY <2>2, OneToken DEF Content
  <2>4. Content(d, c, e) = <<Truth(ServiceAt(d, c).hidden)>>
    BY <1>6, <2>3 DEF Simple, PartsIn, Listed
  <2>5. Fields(d, c, e)[4] = Field("hidden", <<Truth(ServiceAt(d, c).hidden)>>)
    BY <1>1, <1>2, ServiceFieldsAre
  <2>6. Fields(d, c, e)[4] # <<>> =>
            Fields(d, c, e)[4] = Field("hidden", Content(d, c, e))
    BY <2>4, <2>5 DEF Given
  <2>7. 4 \in 1 .. Len(Fields(d, c, e))
    BY <1>0
  <2>8. IsPlaced(d, c, e, 4, "hidden")
    BY <2>1, <2>2, <2>3, <2>6, <2>7 DEF IsPlaced
  <2> QED
    BY <2>1, <2>8
<1>7. CASE e = "LinkedServicesArray"
  <2>1. Place[e] = 5 /\ Names[e] = "linked" /\ "linked" \in Tokens
    BY <1>7, NameTokens DEF Place, Names
  <2>2. e \in Arrays /\ PartsIn(d, c, e) \in Parts
    BY <1>1, <1>7, StringsTyped, ServiceFieldsAre DEF Arrays, PartsIn, Listed
  <2>3. Content(d, c, e) = Array(PartsIn(d, c, e)) /\ Content(d, c, e) \in Text
    BY <2>2, ArrayTyped DEF Content
  <2>4. Content(d, c, e) = Array(Strings(ServiceAt(d, c).linked))
    BY <1>7, <2>3 DEF Simple, PartsIn, Listed
  <2>5. Fields(d, c, e)[5] = Field("linked", Array(Strings(ServiceAt(d, c).linked)))
    BY <1>1, <1>2, ServiceFieldsAre
  <2>6. Fields(d, c, e)[5] # <<>> =>
            Fields(d, c, e)[5] = Field("linked", Content(d, c, e))
    BY <2>4, <2>5 DEF Given
  <2>7. 5 \in 1 .. Len(Fields(d, c, e))
    BY <1>0
  <2>8. IsPlaced(d, c, e, 5, "linked")
    BY <2>1, <2>2, <2>3, <2>6, <2>7 DEF IsPlaced
  <2> QED
    BY <2>1, <2>8
<1>8. CASE e = "CharacteristicsArray"
  <2>1. Place[e] = 6 /\ Names[e] = "characteristics" /\ "characteristics" \in Tokens
    BY <1>8, NameTokens DEF Place, Names
  <2>2. e \in Arrays /\ PartsIn(d, c, e) \in Parts
    BY <1>1, <1>8, CharacteristicDocumentsAre, ServiceFieldsAre DEF Arrays, PartsIn, Listed
  <2>3. Content(d, c, e) = Array(PartsIn(d, c, e)) /\ Content(d, c, e) \in Text
    BY <2>2, ArrayTyped DEF Content
  <2>4. Content(d, c, e) = Array(CharacteristicDocuments(ServiceAt(d, c).characteristics))
    BY <1>8, <2>3 DEF Simple, PartsIn, Listed
  <2>5. Fields(d, c, e)[6] = Field("characteristics", Array(CharacteristicDocuments(ServiceAt(d, c).characteristics)))
    BY <1>1, <1>2, ServiceFieldsAre
  <2>6. Fields(d, c, e)[6] # <<>> =>
            Fields(d, c, e)[6] = Field("characteristics", Content(d, c, e))
    BY <2>4, <2>5 DEF Given
  <2>7. 6 \in 1 .. Len(Fields(d, c, e))
    BY <1>0
  <2>8. IsPlaced(d, c, e, 6, "characteristics")
    BY <2>1, <2>2, <2>3, <2>6, <2>7 DEF IsPlaced
  <2> QED
    BY <2>1, <2>8
<1> QED
  BY <1>3, <1>4, <1>5, <1>6, <1>7, <1>8 DEF OfService

LEMMA CharacteristicPlaces ==
    ASSUME NEW d, Databased(d), NEW c, NEW e \in OfCharacteristic, Held(d, c, e)
    PROVE  \E n \in Nat, name \in Tokens : IsPlaced(d, c, e, n, name)
<1>1. CharacteristicAt(d, c) \in CharacteristicRecords
  <2>1. e \in WithinCharacteristic
    BY DEF WithinCharacteristic
  <2> QED
    BY <2>1, RecordsAre
<1>2. Fields(d, c, e) = CharacteristicFields(CharacteristicAt(d, c))
  BY DEF Fields, OfAccessory, OfService, OfCharacteristic
<1>0. 1 .. Len(Fields(d, c, e)) = 1 .. 15
  <2>1. Len(CharacteristicFields(CharacteristicAt(d, c))) = 15
    BY <1>1, CharacteristicFieldsAre
  <2> QED
    BY <1>2, <2>1
<1>3. CASE e = "CharacteristicID"
  <2>1. Place[e] = 1 /\ Names[e] = "iid" /\ "iid" \in Tokens
    BY <1>3, NameTokens DEF Place, Names
  <2>2. e \notin Arrays /\ Simple(d, c, e) \in Tokens
    BY <1>1, <1>3, CharacteristicTokens, LimitToken DEF Arrays, Simple
  <2>3. Content(d, c, e) = <<Simple(d, c, e)>> /\ Content(d, c, e) \in Text
    BY <2>2, OneToken DEF Content
  <2>4. Content(d, c, e) = <<CharacteristicAt(d, c).iid>>
    BY <1>3, <2>3 DEF Simple, PartsIn, Listed
  <2>5. Fields(d, c, e)[1] = Field("iid", <<CharacteristicAt(d, c).iid>>)
    BY <1>1, <1>2, CharacteristicFieldsAre
  <2>6. Fields(d, c, e)[1] # <<>> =>
            Fields(d, c, e)[1] = Field("iid", Content(d, c, e))
    BY <2>4, <2>5 DEF Given
  <2>7. 1 \in 1 .. Len(Fields(d, c, e))
    BY <1>0
  <2>8. IsPlaced(d, c, e, 1, "iid")
    BY <2>1, <2>2, <2>3, <2>6, <2>7 DEF IsPlaced
  <2> QED
    BY <2>1, <2>8
<1>4. CASE e = "CharacteristicType"
  <2>1. Place[e] = 2 /\ Names[e] = "type" /\ "type" \in Tokens
    BY <1>4, NameTokens DEF Place, Names
  <2>2. e \notin Arrays /\ Simple(d, c, e) \in Tokens
    BY <1>1, <1>4, CharacteristicTokens, LimitToken DEF Arrays, Simple
  <2>3. Content(d, c, e) = <<Simple(d, c, e)>> /\ Content(d, c, e) \in Text
    BY <2>2, OneToken DEF Content
  <2>4. Content(d, c, e) = <<CharacteristicAt(d, c).type>>
    BY <1>4, <2>3 DEF Simple, PartsIn, Listed
  <2>5. Fields(d, c, e)[2] = Field("type", <<CharacteristicAt(d, c).type>>)
    BY <1>1, <1>2, CharacteristicFieldsAre
  <2>6. Fields(d, c, e)[2] # <<>> =>
            Fields(d, c, e)[2] = Field("type", Content(d, c, e))
    BY <2>4, <2>5 DEF Given
  <2>7. 2 \in 1 .. Len(Fields(d, c, e))
    BY <1>0
  <2>8. IsPlaced(d, c, e, 2, "type")
    BY <2>1, <2>2, <2>3, <2>6, <2>7 DEF IsPlaced
  <2> QED
    BY <2>1, <2>8
<1>5. CASE e = "CharacteristicFormat"
  <2>1. Place[e] = 3 /\ Names[e] = "format" /\ "format" \in Tokens
    BY <1>5, NameTokens DEF Place, Names
  <2>2. e \notin Arrays /\ Simple(d, c, e) \in Tokens
    BY <1>1, <1>5, CharacteristicTokens, LimitToken DEF Arrays, Simple
  <2>3. Content(d, c, e) = <<Simple(d, c, e)>> /\ Content(d, c, e) \in Text
    BY <2>2, OneToken DEF Content
  <2>4. Content(d, c, e) = <<CharacteristicAt(d, c).format>>
    BY <1>5, <2>3 DEF Simple, PartsIn, Listed
  <2>5. Fields(d, c, e)[3] = Field("format", <<CharacteristicAt(d, c).format>>)
    BY <1>1, <1>2, CharacteristicFieldsAre
  <2>6. Fields(d, c, e)[3] # <<>> =>
            Fields(d, c, e)[3] = Field("format", Content(d, c, e))
    BY <2>4, <2>5 DEF Given
  <2>7. 3 \in 1 .. Len(Fields(d, c, e))
    BY <1>0
  <2>8. IsPlaced(d, c, e, 3, "format")
    BY <2>1, <2>2, <2>3, <2>6, <2>7 DEF IsPlaced
  <2> QED
    BY <2>1, <2>8
<1>6. CASE e = "CharacteristicValue"
  <2>1. Place[e] = 4 /\ Names[e] = "value" /\ "value" \in Tokens
    BY <1>6, NameTokens DEF Place, Names
  <2>2. e \notin Arrays /\ Simple(d, c, e) \in Tokens
    BY <1>1, <1>6, CharacteristicTokens, LimitToken DEF Arrays, Simple
  <2>3. Content(d, c, e) = <<Simple(d, c, e)>> /\ Content(d, c, e) \in Text
    BY <2>2, OneToken DEF Content
  <2>4. Content(d, c, e) = <<Value(CharacteristicAt(d, c))>>
    BY <1>6, <2>3 DEF Simple, PartsIn, Listed
  <2>5. Fields(d, c, e)[4] = Given("pr" \in CharacteristicAt(d, c).properties, Field("value", <<Value(CharacteristicAt(d, c))>>))
    BY <1>1, <1>2, CharacteristicFieldsAre
  <2>6. Fields(d, c, e)[4] # <<>> =>
            Fields(d, c, e)[4] = Field("value", Content(d, c, e))
    BY <2>4, <2>5 DEF Given
  <2>7. 4 \in 1 .. Len(Fields(d, c, e))
    BY <1>0
  <2>8. IsPlaced(d, c, e, 4, "value")
    BY <2>1, <2>2, <2>3, <2>6, <2>7 DEF IsPlaced
  <2> QED
    BY <2>1, <2>8
<1>7. CASE e = "PermissionsArray"
  <2>1. Place[e] = 5 /\ Names[e] = "perms" /\ "perms" \in Tokens
    BY <1>7, NameTokens DEF Place, Names
  <2>2. e \in Arrays /\ PartsIn(d, c, e) \in Parts
    BY <1>1, <1>7, StringsTyped, CharacteristicTokens DEF Arrays, PartsIn, Listed
  <2>3. Content(d, c, e) = Array(PartsIn(d, c, e)) /\ Content(d, c, e) \in Text
    BY <2>2, ArrayTyped DEF Content
  <2>4. Content(d, c, e) = Array(Strings(EnabledProperties(CharacteristicAt(d, c))))
    BY <1>7, <2>3 DEF Simple, PartsIn, Listed
  <2>5. Fields(d, c, e)[5] = Field("perms", Array(Strings(EnabledProperties(CharacteristicAt(d, c)))))
    BY <1>1, <1>2, CharacteristicFieldsAre
  <2>6. Fields(d, c, e)[5] # <<>> =>
            Fields(d, c, e)[5] = Field("perms", Content(d, c, e))
    BY <2>4, <2>5 DEF Given
  <2>7. 5 \in 1 .. Len(Fields(d, c, e))
    BY <1>0
  <2>8. IsPlaced(d, c, e, 5, "perms")
    BY <2>1, <2>2, <2>3, <2>6, <2>7 DEF IsPlaced
  <2> QED
    BY <2>1, <2>8
<1>8. CASE e = "EventNotifications"
  <2>1. Place[e] = 6 /\ Names[e] = "ev" /\ "ev" \in Tokens
    BY <1>8, NameTokens DEF Place, Names
  <2>2. e \notin Arrays /\ Simple(d, c, e) \in Tokens
    BY <1>1, <1>8, CharacteristicTokens, LimitToken DEF Arrays, Simple
  <2>3. Content(d, c, e) = <<Simple(d, c, e)>> /\ Content(d, c, e) \in Text
    BY <2>2, OneToken DEF Content
  <2>4. Content(d, c, e) = <<Truth(CharacteristicAt(d, c).subscribed)>>
    BY <1>8, <2>3 DEF Simple, PartsIn, Listed
  <2>5. Fields(d, c, e)[6] = Given("pr" \in CharacteristicAt(d, c).properties, Field("ev", <<Truth(CharacteristicAt(d, c).subscribed)>>))
    BY <1>1, <1>2, CharacteristicFieldsAre
  <2>6. Fields(d, c, e)[6] # <<>> =>
            Fields(d, c, e)[6] = Field("ev", Content(d, c, e))
    BY <2>4, <2>5 DEF Given
  <2>7. 6 \in 1 .. Len(Fields(d, c, e))
    BY <1>0
  <2>8. IsPlaced(d, c, e, 6, "ev")
    BY <2>1, <2>2, <2>3, <2>6, <2>7 DEF IsPlaced
  <2> QED
    BY <2>1, <2>8
<1>9. CASE e = "Description"
  <2>1. Place[e] = 7 /\ Names[e] = "description" /\ "description" \in Tokens
    BY <1>9, NameTokens DEF Place, Names
  <2>2. e \notin Arrays /\ Simple(d, c, e) \in Tokens
    BY <1>1, <1>9, CharacteristicTokens, LimitToken DEF Arrays, Simple
  <2>3. Content(d, c, e) = <<Simple(d, c, e)>> /\ Content(d, c, e) \in Text
    BY <2>2, OneToken DEF Content
  <2>4. Content(d, c, e) = <<CharacteristicAt(d, c).description>>
    BY <1>9, <2>3 DEF Simple, PartsIn, Listed
  <2>5. Fields(d, c, e)[7] = Given(CharacteristicAt(d, c).description # "", Field("description", <<CharacteristicAt(d, c).description>>))
    BY <1>1, <1>2, CharacteristicFieldsAre
  <2>6. Fields(d, c, e)[7] # <<>> =>
            Fields(d, c, e)[7] = Field("description", Content(d, c, e))
    BY <2>4, <2>5 DEF Given
  <2>7. 7 \in 1 .. Len(Fields(d, c, e))
    BY <1>0
  <2>8. IsPlaced(d, c, e, 7, "description")
    BY <2>1, <2>2, <2>3, <2>6, <2>7 DEF IsPlaced
  <2> QED
    BY <2>1, <2>8
<1>10. CASE e = "Unit"
  <2>1. Place[e] = 8 /\ Names[e] = "unit" /\ "unit" \in Tokens
    BY <1>10, NameTokens DEF Place, Names
  <2>2. e \notin Arrays /\ Simple(d, c, e) \in Tokens
    BY <1>1, <1>10, CharacteristicTokens, LimitToken DEF Arrays, Simple
  <2>3. Content(d, c, e) = <<Simple(d, c, e)>> /\ Content(d, c, e) \in Text
    BY <2>2, OneToken DEF Content
  <2>4. Content(d, c, e) = <<CharacteristicAt(d, c).unit>>
    BY <1>10, <2>3 DEF Simple, PartsIn, Listed
  <2>5. Fields(d, c, e)[8] = Given(HasUnit(CharacteristicAt(d, c)), Field("unit", <<CharacteristicAt(d, c).unit>>))
    BY <1>1, <1>2, CharacteristicFieldsAre
  <2>6. Fields(d, c, e)[8] # <<>> =>
            Fields(d, c, e)[8] = Field("unit", Content(d, c, e))
    BY <2>4, <2>5 DEF Given
  <2>7. 8 \in 1 .. Len(Fields(d, c, e))
    BY <1>0
  <2>8. IsPlaced(d, c, e, 8, "unit")
    BY <2>1, <2>2, <2>3, <2>6, <2>7 DEF IsPlaced
  <2> QED
    BY <2>1, <2>8
<1>11. CASE e = "MinimumValue"
  <2>1. Place[e] = 9 /\ Names[e] = "minValue" /\ "minValue" \in Tokens
    BY <1>11, NameTokens DEF Place, Names
  <2>2. e \notin Arrays /\ Simple(d, c, e) \in Tokens
    BY <1>1, <1>11, CharacteristicTokens, LimitToken DEF Arrays, Simple
  <2>3. Content(d, c, e) = <<Simple(d, c, e)>> /\ Content(d, c, e) \in Text
    BY <2>2, OneToken DEF Content
  <2>4. Content(d, c, e) = <<"limit">>
    BY <1>11, <2>3 DEF Simple, PartsIn, Listed
  <2>5. Fields(d, c, e)[9] = Given(CharacteristicAt(d, c).format \in Numbers /\ CharacteristicAt(d, c).constrained, Field("minValue", <<"limit">>))
    BY <1>1, <1>2, CharacteristicFieldsAre
  <2>6. Fields(d, c, e)[9] # <<>> =>
            Fields(d, c, e)[9] = Field("minValue", Content(d, c, e))
    BY <2>4, <2>5 DEF Given
  <2>7. 9 \in 1 .. Len(Fields(d, c, e))
    BY <1>0
  <2>8. IsPlaced(d, c, e, 9, "minValue")
    BY <2>1, <2>2, <2>3, <2>6, <2>7 DEF IsPlaced
  <2> QED
    BY <2>1, <2>8
<1>12. CASE e = "MaximumValue"
  <2>1. Place[e] = 10 /\ Names[e] = "maxValue" /\ "maxValue" \in Tokens
    BY <1>12, NameTokens DEF Place, Names
  <2>2. e \notin Arrays /\ Simple(d, c, e) \in Tokens
    BY <1>1, <1>12, CharacteristicTokens, LimitToken DEF Arrays, Simple
  <2>3. Content(d, c, e) = <<Simple(d, c, e)>> /\ Content(d, c, e) \in Text
    BY <2>2, OneToken DEF Content
  <2>4. Content(d, c, e) = <<"limit">>
    BY <1>12, <2>3 DEF Simple, PartsIn, Listed
  <2>5. Fields(d, c, e)[10] = Given(CharacteristicAt(d, c).format \in Numbers /\ CharacteristicAt(d, c).constrained, Field("maxValue", <<"limit">>))
    BY <1>1, <1>2, CharacteristicFieldsAre
  <2>6. Fields(d, c, e)[10] # <<>> =>
            Fields(d, c, e)[10] = Field("maxValue", Content(d, c, e))
    BY <2>4, <2>5 DEF Given
  <2>7. 10 \in 1 .. Len(Fields(d, c, e))
    BY <1>0
  <2>8. IsPlaced(d, c, e, 10, "maxValue")
    BY <2>1, <2>2, <2>3, <2>6, <2>7 DEF IsPlaced
  <2> QED
    BY <2>1, <2>8
<1>13. CASE e = "StepValue"
  <2>1. Place[e] = 11 /\ Names[e] = "minStep" /\ "minStep" \in Tokens
    BY <1>13, NameTokens DEF Place, Names
  <2>2. e \notin Arrays /\ Simple(d, c, e) \in Tokens
    BY <1>1, <1>13, CharacteristicTokens, LimitToken DEF Arrays, Simple
  <2>3. Content(d, c, e) = <<Simple(d, c, e)>> /\ Content(d, c, e) \in Text
    BY <2>2, OneToken DEF Content
  <2>4. Content(d, c, e) = <<"limit">>
    BY <1>13, <2>3 DEF Simple, PartsIn, Listed
  <2>5. Fields(d, c, e)[11] = Given(CharacteristicAt(d, c).format \in Numbers /\ CharacteristicAt(d, c).constrained, Field("minStep", <<"limit">>))
    BY <1>1, <1>2, CharacteristicFieldsAre
  <2>6. Fields(d, c, e)[11] # <<>> =>
            Fields(d, c, e)[11] = Field("minStep", Content(d, c, e))
    BY <2>4, <2>5 DEF Given
  <2>7. 11 \in 1 .. Len(Fields(d, c, e))
    BY <1>0
  <2>8. IsPlaced(d, c, e, 11, "minStep")
    BY <2>1, <2>2, <2>3, <2>6, <2>7 DEF IsPlaced
  <2> QED
    BY <2>1, <2>8
<1>14. CASE e = "MaxLength"
  <2>1. Place[e] = 12 /\ Names[e] = "maxLen" /\ "maxLen" \in Tokens
    BY <1>14, NameTokens DEF Place, Names
  <2>2. e \notin Arrays /\ Simple(d, c, e) \in Tokens
    BY <1>1, <1>14, CharacteristicTokens, LimitToken DEF Arrays, Simple
  <2>3. Content(d, c, e) = <<Simple(d, c, e)>> /\ Content(d, c, e) \in Text
    BY <2>2, OneToken DEF Content
  <2>4. Content(d, c, e) = <<"limit">>
    BY <1>14, <2>3 DEF Simple, PartsIn, Listed
  <2>5. Fields(d, c, e)[12] = Given(CharacteristicAt(d, c).format = "string" /\ CharacteristicAt(d, c).constrained, Field("maxLen", <<"limit">>))
    BY <1>1, <1>2, CharacteristicFieldsAre
  <2>6. Fields(d, c, e)[12] # <<>> =>
            Fields(d, c, e)[12] = Field("maxLen", Content(d, c, e))
    BY <2>4, <2>5 DEF Given
  <2>7. 12 \in 1 .. Len(Fields(d, c, e))
    BY <1>0
  <2>8. IsPlaced(d, c, e, 12, "maxLen")
    BY <2>1, <2>2, <2>3, <2>6, <2>7 DEF IsPlaced
  <2> QED
    BY <2>1, <2>8
<1>15. CASE e = "MaxDataLength"
  <2>1. Place[e] = 13 /\ Names[e] = "maxDataLen" /\ "maxDataLen" \in Tokens
    BY <1>15, NameTokens DEF Place, Names
  <2>2. e \notin Arrays /\ Simple(d, c, e) \in Tokens
    BY <1>1, <1>15, CharacteristicTokens, LimitToken DEF Arrays, Simple
  <2>3. Content(d, c, e) = <<Simple(d, c, e)>> /\ Content(d, c, e) \in Text
    BY <2>2, OneToken DEF Content
  <2>4. Content(d, c, e) = <<"limit">>
    BY <1>15, <2>3 DEF Simple, PartsIn, Listed
  <2>5. Fields(d, c, e)[13] = Given(CharacteristicAt(d, c).format = "data" /\ CharacteristicAt(d, c).constrained, Field("maxDataLen", <<"limit">>))
    BY <1>1, <1>2, CharacteristicFieldsAre
  <2>6. Fields(d, c, e)[13] # <<>> =>
            Fields(d, c, e)[13] = Field("maxDataLen", Content(d, c, e))
    BY <2>4, <2>5 DEF Given
  <2>7. 13 \in 1 .. Len(Fields(d, c, e))
    BY <1>0
  <2>8. IsPlaced(d, c, e, 13, "maxDataLen")
    BY <2>1, <2>2, <2>3, <2>6, <2>7 DEF IsPlaced
  <2> QED
    BY <2>1, <2>8
<1>16. CASE e = "ValidValuesArray"
  <2>1. Place[e] = 14 /\ Names[e] = "valid-values" /\ "valid-values" \in Tokens
    BY <1>16, NameTokens DEF Place, Names
  <2>2. e \in Arrays /\ PartsIn(d, c, e) \in Parts
    BY <1>1, <1>16, StringsTyped, CharacteristicTokens DEF Arrays, PartsIn, Listed
  <2>3. Content(d, c, e) = Array(PartsIn(d, c, e)) /\ Content(d, c, e) \in Text
    BY <2>2, ArrayTyped DEF Content
  <2>4. Content(d, c, e) = Array(Strings(List(CharacteristicAt(d, c).validValues)))
    BY <1>16, <2>3 DEF Simple, PartsIn, Listed
  <2>5. Fields(d, c, e)[14] = Given((CharacteristicAt(d, c).format = "uint8" /\ CharacteristicAt(d, c).apple) /\ CharacteristicAt(d, c).validValues # "none",
                      Field("valid-values", Array(Strings(List(CharacteristicAt(d, c).validValues)))))
    BY <1>1, <1>2, CharacteristicFieldsAre
  <2>6. Fields(d, c, e)[14] # <<>> =>
            Fields(d, c, e)[14] = Field("valid-values", Content(d, c, e))
    BY <2>4, <2>5 DEF Given
  <2>7. 14 \in 1 .. Len(Fields(d, c, e))
    BY <1>0
  <2>8. IsPlaced(d, c, e, 14, "valid-values")
    BY <2>1, <2>2, <2>3, <2>6, <2>7 DEF IsPlaced
  <2> QED
    BY <2>1, <2>8
<1>17. CASE e = "ValidValuesRangesArray"
  <2>1. Place[e] = 15 /\ Names[e] = "valid-values-range" /\ "valid-values-range" \in Tokens
    BY <1>17, NameTokens DEF Place, Names
  <2>2. e \in Arrays /\ PartsIn(d, c, e) \in Parts
    BY <1>1, <1>17, RangesTyped, CharacteristicTokens DEF Arrays, PartsIn, Listed
  <2>3. Content(d, c, e) = Array(PartsIn(d, c, e)) /\ Content(d, c, e) \in Text
    BY <2>2, ArrayTyped DEF Content
  <2>4. Content(d, c, e) = Array(RangeDocuments(List(CharacteristicAt(d, c).ranges)))
    BY <1>17, <2>3 DEF Simple, PartsIn, Listed
  <2>5. Fields(d, c, e)[15] = Given((CharacteristicAt(d, c).format = "uint8" /\ CharacteristicAt(d, c).apple) /\ CharacteristicAt(d, c).ranges # "none",
                      Field("valid-values-range", Array(RangeDocuments(List(CharacteristicAt(d, c).ranges)))))
    BY <1>1, <1>2, CharacteristicFieldsAre
  <2>6. Fields(d, c, e)[15] # <<>> =>
            Fields(d, c, e)[15] = Field("valid-values-range", Content(d, c, e))
    BY <2>4, <2>5 DEF Given
  <2>7. 15 \in 1 .. Len(Fields(d, c, e))
    BY <1>0
  <2>8. IsPlaced(d, c, e, 15, "valid-values-range")
    BY <2>1, <2>2, <2>3, <2>6, <2>7 DEF IsPlaced
  <2> QED
    BY <2>1, <2>8
<1> QED
  BY <1>3, <1>4, <1>5, <1>6, <1>7, <1>8, <1>9, <1>10, <1>11, <1>12, <1>13, <1>14, <1>15, <1>16, <1>17 DEF OfCharacteristic

-----------------------------------------------------------------------------
(* Elements that have a name.                                              *)

LEMMA NamedWithin ==
    /\ OfAccessory \subseteq WithinAccessory
    /\ OfService \subseteq WithinService
    /\ OfCharacteristic \subseteq WithinCharacteristic
    /\ Named = {"AccessoriesArray"} \cup OfAccessory \cup OfService \cup OfCharacteristic
BY DEF WithinAccessory, WithinService, WithinCharacteristic, Named

LEMMA FieldsTyped ==
    ASSUME NEW d, Databased(d), NEW c, NEW e \in Named, Held(d, c, e)
    PROVE  /\ Fields(d, c, e) \in Parts /\ Outside(d, c, e) \in Text
           /\ \E n \in Nat, name \in Tokens : IsPlaced(d, c, e, n, name)
<1>1. CASE e = "AccessoriesArray"
  <2>1. Fields(d, c, e) = ResponseFields(d) /\ Outside(d, c, e) = <<>>
    BY <1>1 DEF Fields, Outside, OfAccessory, OfService, OfCharacteristic
  <2>2. e \in Arrays /\ PartsIn(d, c, e) = AccessoryDocumentsOf(d)
    BY <1>1 DEF Arrays, PartsIn
  <2>a. AccessoryDocumentsOf(d) \in Parts
    BY ResponseFieldsAre
  <2>b. Array(AccessoryDocumentsOf(d)) \in Text
    BY <2>a, ArrayTyped
  <2>c. Content(d, c, e) = Array(AccessoryDocumentsOf(d))
    BY <2>2 DEF Content
  <2>3. Content(d, c, e) = Array(AccessoryDocumentsOf(d)) /\ Content(d, c, e) \in Text
    BY <2>b, <2>c
  <2>4. Place[e] = 1 /\ Names[e] = "accessories" /\ "accessories" \in Tokens
    BY <1>1, NameTokens DEF Place, Names
  <2>5. 1 \in 1 .. Len(Fields(d, c, e))
    BY <2>1, ResponseFieldsAre
  <2>6. Fields(d, c, e)[1] = Field("accessories", Content(d, c, e))
    BY <2>1, <2>3, ResponseFieldsAre
  <2>7. IsPlaced(d, c, e, 1, "accessories")
    BY <2>2, <2>3, <2>4, <2>5, <2>6, ResponseFieldsAre DEF IsPlaced
  <2> QED
    BY <2>1, <2>4, <2>7, ResponseFieldsAre, NoTokens
<1>2. CASE e \in OfAccessory
  <2>1. Fields(d, c, e) = AccessoryFields(AccessoryAt(d, c)) /\ Outside(d, c, e) = AccessoriesTail(d, c)
    BY <1>2 DEF Fields, Outside, OfAccessory, OfService, OfCharacteristic
  <2>2. AccessoryAt(d, c) \in AccessoryRecords /\ AccessoriesTail(d, c) \in Text
    BY <1>2, NamedWithin, RecordsAre, AccessoriesTailTyped
  <2> QED
    BY <1>2, <2>1, <2>2, AccessoryFieldsAre, AccessoryPlaces
<1>3. CASE e \in OfService
  <2>1. Fields(d, c, e) = ServiceFields(ServiceAt(d, c)) /\ Outside(d, c, e) = ServicesTail(d, c)
    BY <1>3 DEF Fields, Outside, OfAccessory, OfService, OfCharacteristic
  <2>2. ServiceAt(d, c) \in ServiceRecords /\ ServicesTail(d, c) \in Text
    BY <1>3, NamedWithin, RecordsAre, ServicesTailTyped
  <2> QED
    BY <1>3, <2>1, <2>2, ServiceFieldsAre, ServicePlaces
<1>4. CASE e \in OfCharacteristic
  <2>1. /\ Fields(d, c, e) = CharacteristicFields(CharacteristicAt(d, c))
        /\ Outside(d, c, e) = CharacteristicsTail(d, c)
    BY <1>4 DEF Fields, Outside, OfAccessory, OfService, OfCharacteristic
  <2>2. CharacteristicAt(d, c) \in CharacteristicRecords /\ CharacteristicsTail(d, c) \in Text
    BY <1>4, NamedWithin, RecordsAre, CharacteristicsTailTyped
  <2> QED
    BY <1>4, <2>1, <2>2, CharacteristicFieldsAre, CharacteristicPlaces
<1> QED
  BY <1>1, <1>2, <1>3, <1>4, NamedWithin

LEMMA NamedTyped ==
    ASSUME NEW d, Databased(d), NEW c, NEW e \in Named, Held(d, c, e)
    PROVE  /\ Fields(d, c, e) \in Parts /\ Outside(d, c, e) \in Text
           /\ Place[e] \in 1 .. Len(Fields(d, c, e))
           /\ ThisField(d, c, e) \in Text
           /\ Behind(d, c, e) \in Text
           /\ Content(d, c, e) \in Text /\ Names[e] \in Tokens
           /\ ThisField(d, c, e) # <<>> =>
                ThisField(d, c, e) = Field(Names[e], Content(d, c, e))
<1>1. PICK n \in Nat, name \in Tokens : IsPlaced(d, c, e, n, name)
  BY FieldsTyped
<1>2. Fields(d, c, e) \in Parts /\ Outside(d, c, e) \in Text
  BY FieldsTyped
<1>3. /\ Place[e] = n /\ n \in 1 .. Len(Fields(d, c, e))
      /\ Names[e] = name /\ Content(d, c, e) \in Text
      /\ ThisField(d, c, e) = Fields(d, c, e)[n]
      /\ Fields(d, c, e)[n] # <<>> => Fields(d, c, e)[n] = Field(name, Content(d, c, e))
  BY <1>1 DEF IsPlaced, ThisField
<1>4. Fields(d, c, e)[n] \in Text
  BY <1>2, <1>3 DEF Parts
<1>5. Commas(Fields(d, c, e))[n + 1] \in Text
  <2>1. n + 1 \in 1 .. Len(Fields(d, c, e)) + 1
    BY <1>2, <1>3 DEF Parts
  <2> QED
    BY <1>2, <2>1, CommasTyped
<1>6. Behind(d, c, e) \in Text
  <2>1. <<"}">> \o Outside(d, c, e) \in Text
    BY <1>2, Brackets, OneToken, TextConcat
  <2> QED
    BY <1>3, <1>5, <2>1, TextConcat DEF Behind
<1> QED
  BY <1>2, <1>3, <1>4, <1>6

\* The name, the colon and the value.
LEMMA NamedForms ==
    ASSUME NEW d, Databased(d), NEW c, NEW e \in Named, Held(d, c, e),
           ThisField(d, c, e) # <<>>
    PROVE  /\ NamedRest(d, c, e, "Name") = <<Names[e]>> \o NamedRest(d, c, e, "NameSeparator")
           /\ NamedRest(d, c, e, "NameSeparator") = <<":">> \o NamedRest(d, c, e, "Value")
           /\ NamedRest(d, c, e, "Begin") = NamedRest(d, c, e, "Value")
           /\ NamedRest(d, c, e, "Value") = Content(d, c, e) \o Behind(d, c, e)
<1> DEFINE v == Content(d, c, e)
           f == ThisField(d, c, e)
           b == Behind(d, c, e)
           n == Names[e]
<1>1. f = Field(n, v) /\ v \in Text /\ n \in Tokens /\ b \in Text
  BY NamedTyped
<1>2. /\ NamedRest(d, c, e, "Name") = f \o b
      /\ NamedRest(d, c, e, "NameSeparator") = Tail(f) \o b
      /\ NamedRest(d, c, e, "Begin") = Tail(Tail(f)) \o b
      /\ NamedRest(d, c, e, "Value") = Tail(Tail(f)) \o b
  BY DEF NamedRest
<1> HIDE DEF v, f, b, n
<1>3. /\ f = <<n>> \o (<<":">> \o v)
      /\ Tail(f) = <<":">> \o v
      /\ Tail(Tail(f)) = v
  BY <1>1, FieldTyped
<1>4. <<":">> \in Text /\ <<n>> \in Text
  BY <1>1, Brackets, OneToken
<1>5. <<":">> \o v \in Text
  BY <1>1, <1>4, TextConcat
<1>6. (<<":">> \o v) \o b = <<":">> \o (v \o b)
  BY <1>1, <1>4, TextAssociative
<1>7. (<<n>> \o (<<":">> \o v)) \o b = <<n>> \o ((<<":">> \o v) \o b)
  BY <1>1, <1>4, <1>5, TextAssociative
<1> QED
  BY <1>2, <1>3, <1>6, <1>7 DEF v, b, n

\* Elements of the same object.
Siblings(e, f) ==
    \/ e \in OfAccessory /\ f \in OfAccessory
    \/ e \in OfService /\ f \in OfService
    \/ e \in OfCharacteristic /\ f \in OfCharacteristic

LEMMA SiblingsShare ==
    ASSUME NEW d, NEW c, NEW e, NEW f, Siblings(e, f)
    PROVE  /\ e \in Named /\ f \in Named
           /\ Fields(d, c, e) = Fields(d, c, f)
           /\ Outside(d, c, e) = Outside(d, c, f)
           /\ Held(d, c, e) => Held(d, c, f)
<1>1. e \in Named /\ f \in Named
  BY NamedWithin DEF Siblings
<1>2. CASE e \in OfAccessory /\ f \in OfAccessory
  BY <1>1, <1>2 DEF Fields, Outside, Held, OfAccessory, WithinAccessory, WithinService,
                    WithinCharacteristic, OfService, OfCharacteristic, Ranges
<1>3. CASE e \in OfService /\ f \in OfService
  BY <1>1, <1>3 DEF Fields, Outside, Held, OfAccessory, WithinAccessory, WithinService,
                    WithinCharacteristic, OfService, OfCharacteristic, Ranges
<1>4. CASE e \in OfCharacteristic /\ f \in OfCharacteristic
  <2>1. Fields(d, c, e) = Fields(d, c, f) /\ Outside(d, c, e) = Outside(d, c, f)
    BY <1>4 DEF Fields, Outside, OfAccessory, OfService, OfCharacteristic
  <2>2. Held(d, c, e) => Held(d, c, f)
    BY <1>4 DEF Held, WithinAccessory, WithinService, WithinCharacteristic
  <2> QED
    BY <1>1, <2>1, <2>2
<1> QED
  BY <1>2, <1>3, <1>4 DEF Siblings

\* From the value of an element to the next one that there is.
LEMMA ToNextField ==
    ASSUME NEW d, Databased(d), NEW c, NEW e, NEW f, Siblings(e, f), Held(d, c, e),
           Place[e] < Place[f], ThisField(d, c, f) # <<>>,
           \A k \in Place[e] + 1 .. Place[f] - 1 : Fields(d, c, e)[k] = <<>>
    PROVE  Behind(d, c, e) = <<",">> \o NamedRest(d, c, f, "Name")
<1> DEFINE F == Fields(d, c, e)
           z == <<"}">> \o Outside(d, c, e)
<1>1. /\ e \in Named /\ f \in Named /\ Held(d, c, f)
      /\ Fields(d, c, f) = F /\ Outside(d, c, f) = Outside(d, c, e)
  BY SiblingsShare
<1>2. F \in Parts /\ Place[e] \in 1 .. Len(F) /\ Place[f] \in 1 .. Len(F)
  BY <1>1, NamedTyped
<1>3. ThisField(d, c, f) = F[Place[f]] /\ F[Place[f]] \in Text /\ z \in Text
  <2>1. Outside(d, c, e) \in Text
    BY <1>1, NamedTyped
  <2> QED
    BY <1>1, <2>1, NamedTyped, Brackets, OneToken, TextConcat DEF ThisField
<1>4. /\ Behind(d, c, e) = Commas(F)[Place[e] + 1] \o z
      /\ NamedRest(d, c, f, "Name") = F[Place[f]] \o (Commas(F)[Place[f] + 1] \o z)
  BY <1>1 DEF NamedRest, Behind, ThisField
<1> HIDE DEF F, z
<1> DEFINE i == Place[e] + 1
           j == Place[f]
<1>5. /\ i \in 1 .. Len(F) + 1 /\ j \in i .. Len(F) /\ j + 1 \in 1 .. Len(F) + 1
      /\ \A k \in i .. j - 1 : F[k] = <<>>
  BY <1>2 DEF F, Parts
<1>6. Commas(F)[i] = <<",">> \o (F[j] \o Commas(F)[j + 1])
  BY <1>2, <1>3, <1>5, NextPartFrom
<1>7. Commas(F)[j + 1] \in Text /\ <<",">> \in Text
  BY <1>2, <1>5, CommasTyped, Brackets, OneToken
<1> DEFINE x == F[j]
           y == Commas(F)[j + 1]
<1>8. (<<",">> \o (x \o y)) \o z = <<",">> \o (x \o (y \o z))
  <2>1. x \in Text /\ y \in Text /\ z \in Text
    BY <1>3, <1>7
  <2> HIDE DEF x, y
  <2>2. PICK m : m = <<",">>
    OBVIOUS
  <2>3. Cat(Cat(m, Cat(x, y)), z) = Cat(m, Cat(x, Cat(y, z)))
    <3>1. m \in Text
      BY <1>7, <2>2
    <3> QED
      BY <2>1, <3>1, ThreeInside
  <2>4. (m \o (x \o y)) \o z = m \o (x \o (y \o z))
    BY <2>3 DEF Cat
  <2> QED
    BY <2>2, <2>4, Zenon
<1> QED
  BY <1>4, <1>6, <1>8

\* What follows the value of an element is what follows a later one, when all
\* fields until then are left out.
LEMMA ToLaterField ==
    ASSUME NEW d, Databased(d), NEW c, NEW e, NEW f, Siblings(e, f), Held(d, c, e),
           Place[e] <= Place[f],
           \A k \in Place[e] + 1 .. Place[f] : Fields(d, c, e)[k] = <<>>
    PROVE  Behind(d, c, e) = Behind(d, c, f)
<1> DEFINE F == Fields(d, c, e)
<1>1. /\ e \in Named /\ f \in Named /\ Held(d, c, f)
      /\ Fields(d, c, f) = F /\ Outside(d, c, f) = Outside(d, c, e)
  BY SiblingsShare
<1>2. F \in Parts /\ Place[e] \in 1 .. Len(F) /\ Place[f] \in 1 .. Len(F)
  BY <1>1, NamedTyped
<1> DEFINE i == Place[e] + 1
           j == Place[f] + 1
<1>3. /\ i \in 1 .. Len(F) + 1 /\ j \in i .. Len(F) + 1
      /\ j - 1 = Place[f]
  BY <1>2 DEF Parts
<1>4. Commas(F)[i] = Commas(F)[j]
  <2>1. \A k \in i .. j - 1 : F[k] = <<>>
    BY <1>3
  <2> HIDE DEF i, j, F
  <2> QED
    BY <1>2, <1>3, <2>1, EmptyParts
<1> QED
  BY <1>1, <1>4 DEF Behind

\* The end of the object.
LEMMA ToObjectEnd ==
    ASSUME NEW d, Databased(d), NEW c, NEW e \in Named, Held(d, c, e),
           \A k \in Place[e] + 1 .. Len(Fields(d, c, e)) : Fields(d, c, e)[k] = <<>>
    PROVE  Behind(d, c, e) = <<"}">> \o Outside(d, c, e)
<1> DEFINE F == Fields(d, c, e)
           i == Place[e] + 1
<1>2. F \in Parts /\ Place[e] \in 1 .. Len(F) /\ Outside(d, c, e) \in Text
  BY NamedTyped
<1>3. i \in 1 .. Len(F) + 1 /\ \A k \in i .. Len(F) : F[k] = <<>>
  BY <1>2 DEF Parts
<1>4. Commas(F)[i] = <<>>
  <2> HIDE DEF F, i
  <2> QED
    BY <1>2, <1>3, NoPartsFrom
<1>5. <<"}">> \o Outside(d, c, e) \in Text
  BY <1>2, Brackets, OneToken, TextConcat
<1> QED
  BY <1>4, <1>5, NothingBefore DEF Behind

-----------------------------------------------------------------------------
(* Steps.                                                                  *)

\* What is left depends on the indices of a context only.
LEMMA SameIndices ==
    ASSUME NEW d, NEW c, NEW q, q.accessory = c.accessory, q.service = c.service,
           q.characteristic = c.characteristic, q.index = c.index,
           NEW e, NEW p
    PROVE  /\ RestAt(d, q, e, p) = RestAt(d, c, e, p)
           /\ PlaceAt(d, q, e, p) <=> PlaceAt(d, c, e, p)
<1>1. /\ AccessoryAt(d, q) = AccessoryAt(d, c)
      /\ ServiceAt(d, q) = ServiceAt(d, c)
      /\ CharacteristicAt(d, q) = CharacteristicAt(d, c)
  BY DEF AccessoryAt, ServiceAt, CharacteristicAt
<1>2. /\ AccessoriesTail(d, q) = AccessoriesTail(d, c)
      /\ ServicesTail(d, q) = ServicesTail(d, c)
      /\ CharacteristicsTail(d, q) = CharacteristicsTail(d, c)
  BY <1>1 DEF AccessoriesTail, ServicesTail, CharacteristicsTail
<1>3. ASSUME NEW f
      PROVE  /\ Fields(d, q, f) = Fields(d, c, f)
             /\ Outside(d, q, f) = Outside(d, c, f)
             /\ ThisField(d, q, f) = ThisField(d, c, f)
             /\ Behind(d, q, f) = Behind(d, c, f)
             /\ Listed(d, q, f) = Listed(d, c, f)
  <2>1. Fields(d, q, f) = Fields(d, c, f) /\ Outside(d, q, f) = Outside(d, c, f)
    BY <1>1, <1>2 DEF Fields, Outside
  <2>2. Listed(d, q, f) = Listed(d, c, f)
    BY <1>1 DEF Listed
  <2> QED
    BY <2>1, <2>2 DEF ThisField, Behind
<1>4. /\ Item(d, q, e) = Item(d, c, e)
      /\ FromItem(d, q, e) = FromItem(d, c, e)
      /\ RangesTail(d, q) = RangesTail(d, c)
      /\ FromRangeEnd(d, q, e) = FromRangeEnd(d, c, e)
  <2>1. /\ Listed(d, q, ListOf(e)) = Listed(d, c, ListOf(e))
        /\ Behind(d, q, ListOf(e)) = Behind(d, c, ListOf(e))
    BY <1>3
  <2>2. /\ Listed(d, q, "ValidValuesRangesArray") = Listed(d, c, "ValidValuesRangesArray")
        /\ Behind(d, q, "ValidValuesRangesArray") = Behind(d, c, "ValidValuesRangesArray")
    BY <1>3
  <2>3. Item(d, q, e) = Item(d, c, e)
    BY <2>1 DEF Item
  <2>4. FromItem(d, q, e) = FromItem(d, c, e)
    BY <2>1, <2>3 DEF FromItem
  <2>5. RangesTail(d, q) = RangesTail(d, c)
    BY <2>2 DEF RangesTail
  <2> QED
    BY <2>3, <2>4, <2>5 DEF FromRangeEnd
<1>5. /\ ObjectOf(d, q, e) = ObjectOf(d, c, e)
      /\ ObjectTail(d, q, e) = ObjectTail(d, c, e)
      /\ FromObject(d, q, e) = FromObject(d, c, e)
  BY <1>1, <1>2 DEF ObjectOf, ObjectTail, FromObject
<1>6. /\ NamedRest(d, q, e, p) = NamedRest(d, c, e, p)
      /\ ObjectRest(d, q, e, p) = ObjectRest(d, c, e, p)
      /\ ItemRest(d, q, e, p) = ItemRest(d, c, e, p)
      /\ RangeRest(d, q, e, p) = RangeRest(d, c, e, p)
  BY <1>3, <1>4, <1>5 DEF NamedRest, ObjectRest, ItemRest, RangeRest
<1>7. Held(d, q, e) <=> Held(d, c, e)
  BY <1>1 DEF Held
<1>8. Indexed(d, q, e) <=> Indexed(d, c, e)
  BY <1>3 DEF Indexed
<1>9. Present(d, q, e, p) <=> Present(d, c, e, p)
  BY <1>1, <1>3 DEF Present
<1> QED
  BY <1>6, <1>7, <1>8, <1>9 DEF RestAt, PlaceAt

\* A step from c that appends tokens and goes on at s.to.
Serializes(d, c, s) ==
    /\ s.tokens \in Text
    /\ InPlace(d, s.to)
    /\ Rest(d, c) = s.tokens \o Rest(d, s.to)

ContextParts ==
    {"", "Name", "NameSeparator", "Begin", "End", "Value", "ValueSeparator",
     "Separator", "Comma"}

LEMMA AtIs ==
    ASSUME NEW c \in Contexts, NEW e \in Elements, NEW p \in ContextParts
    PROVE  /\ At(c, e, p) \in Contexts
           /\ At(c, e, p).element = e /\ At(c, e, p).part = p
           /\ At(c, e, p).accessory = c.accessory /\ At(c, e, p).service = c.service
           /\ At(c, e, p).characteristic = c.characteristic
           /\ At(c, e, p).index = c.index
BY DEF At, Contexts, ContextParts

LEMMA PartsAre ==
    ASSUME NEW e, NEW p \in PartsOf(e)
    PROVE  p \in ContextParts
BY DEF PartsOf, ContextParts

LEMMA OutStep ==
    ASSUME NEW d, NEW c, NEW q \in Contexts, NEW e \in Elements, NEW p \in PartsOf(e),
           NEW x \in Tokens, PlaceAt(d, q, e, p),
           Rest(d, c) = <<x>> \o RestAt(d, q, e, p)
    PROVE  Serializes(d, c, Out(x, At(q, e, p)))
<1>1. At(q, e, p) \in Contexts /\ At(q, e, p).element = e /\ At(q, e, p).part = p
  BY PartsAre, AtIs
<1>2. /\ At(q, e, p).accessory = q.accessory /\ At(q, e, p).service = q.service
      /\ At(q, e, p).characteristic = q.characteristic /\ At(q, e, p).index = q.index
  BY PartsAre, AtIs
<1> DEFINE t == At(q, e, p)
<1>3. t \in Contexts /\ t.element = e /\ t.part = p
  BY <1>1
<1>4. /\ t.accessory = q.accessory /\ t.service = q.service
      /\ t.characteristic = q.characteristic /\ t.index = q.index
  BY <1>2
<1>5. Out(x, t).tokens = <<x>> /\ Out(x, t).to = t
  BY DEF Out
<1> HIDE DEF t
<1>6. InPlace(d, t) /\ Rest(d, t) = RestAt(d, q, e, p)
  <2>1. RestAt(d, t, e, p) = RestAt(d, q, e, p) /\ (PlaceAt(d, t, e, p) <=> PlaceAt(d, q, e, p))
    BY <1>4, SameIndices
  <2> QED
    BY <1>3, <2>1 DEF InPlace, Rest
<1>7. <<x>> \in Text
  BY OneToken
<1>8. Serializes(d, c, Out(x, t))
  BY <1>5, <1>6, <1>7 DEF Serializes
<1> QED
  BY <1>8 DEF t

LEMMA SkipStep ==
    ASSUME NEW d, NEW c, NEW q \in Contexts, NEW e \in Elements, NEW p \in PartsOf(e),
           PlaceAt(d, q, e, p), RestAt(d, q, e, p) \in Text,
           Rest(d, c) = RestAt(d, q, e, p)
    PROVE  Serializes(d, c, Skip(At(q, e, p)))
<1>1. At(q, e, p) \in Contexts /\ At(q, e, p).element = e /\ At(q, e, p).part = p
  BY PartsAre, AtIs
<1>2. /\ At(q, e, p).accessory = q.accessory /\ At(q, e, p).service = q.service
      /\ At(q, e, p).characteristic = q.characteristic /\ At(q, e, p).index = q.index
  BY PartsAre, AtIs
<1> DEFINE t == At(q, e, p)
<1>3. t \in Contexts /\ t.element = e /\ t.part = p
  BY <1>1
<1>4. /\ t.accessory = q.accessory /\ t.service = q.service
      /\ t.characteristic = q.characteristic /\ t.index = q.index
  BY <1>2
<1>5. Skip(t).tokens = <<>> /\ Skip(t).to = t
  BY DEF Skip
<1> HIDE DEF t
<1>6. InPlace(d, t) /\ Rest(d, t) = RestAt(d, q, e, p)
  <2>1. RestAt(d, t, e, p) = RestAt(d, q, e, p) /\ (PlaceAt(d, t, e, p) <=> PlaceAt(d, q, e, p))
    BY <1>4, SameIndices
  <2> QED
    BY <1>3, <2>1 DEF InPlace, Rest
<1>7. Rest(d, t) = <<>> \o Rest(d, t) /\ <<>> \in Text
  BY <1>6, NothingBefore, NoTokens
<1>8. Serializes(d, c, Skip(t))
  BY <1>5, <1>6, <1>7 DEF Serializes
<1> QED
  BY <1>8 DEF t

LEMMA Current ==
    ASSUME NEW c
    PROVE  /\ Accessory(c) = AccessoryAt(db, c) /\ Service(c) = ServiceAt(db, c)
           /\ Characteristic(c) = CharacteristicAt(db, c)
BY DEF Accessory, Service, Characteristic, AccessoryAt, ServiceAt, CharacteristicAt

LEMMA Apart ==
    ASSUME NEW e
    PROVE  /\ e \in Named => e \notin ObjectElements \cup Items \cup Ranges
           /\ e \in ObjectElements => e \notin Items \cup Ranges
           /\ e \in Items => e \notin Ranges
           /\ e \in {"AccessoriesArray", "ResponseObject", "ResponseIsComplete"} =>
                e \notin WithinAccessory
BY DEF Named, ObjectElements, Items, Ranges, OfAccessory, OfService, OfCharacteristic,
       WithinAccessory, WithinService, WithinCharacteristic

LEMMA RestIs ==
    ASSUME NEW d, NEW c, NEW e, NEW p
    PROVE  /\ e \in Named => RestAt(d, c, e, p) = NamedRest(d, c, e, p)
           /\ e \in ObjectElements => RestAt(d, c, e, p) = ObjectRest(d, c, e, p)
           /\ e \in Items => RestAt(d, c, e, p) = ItemRest(d, c, e, p)
           /\ e \in Ranges => RestAt(d, c, e, p) = RangeRest(d, c, e, p)
BY Apart DEF RestAt

\* An element with a name is where the serialization can be, when its object is
\* and there is the field.
LEMMA NamedPlace ==
    ASSUME NEW d, NEW c, NEW e \in Named, Held(d, c, e), ThisField(d, c, e) # <<>>,
           NEW p \in PartsOf(e),
           e = "StepValue" /\ p = "ValueSeparator" => CharacteristicAt(d, c).format = "uint8"
    PROVE  PlaceAt(d, c, e, p)
<1>1. e \notin Items \cup Ranges
  BY Apart
<1>2. Indexed(d, c, e)
  BY <1>1 DEF Indexed
<1>3. Present(d, c, e, p)
  BY <1>1 DEF Present, Items
<1> QED
  BY <1>2, <1>3 DEF PlaceAt

LEMMA NamedParts ==
    ASSUME NEW e \in Named
    PROVE  /\ "Name" \in PartsOf(e) /\ "NameSeparator" \in PartsOf(e)
           /\ e \in Arrays => "Begin" \in PartsOf(e) /\ "End" \in PartsOf(e)
           /\ e \notin Arrays => "Value" \in PartsOf(e)
           /\ e \in Elements
BY DEF PartsOf, Arrays, Elements

LEMMA PartsOfNamed ==
    ASSUME NEW e \in Elements, NEW p \in {"Name", "NameSeparator", "ValueSeparator"}, p \in PartsOf(e)
    PROVE  e \in Named
BY DEF PartsOf, Arrays, Elements, Items, Ranges, ObjectElements, Named, OfAccessory, OfService, OfCharacteristic

-----------------------------------------------------------------------------
LEMMA NameFollows ==
    ASSUME Databased(db), NEW c, InPlace(db, c), c.part \in {"Name", "NameSeparator"}
    PROVE  Serializes(db, c, NameStep(c))
<1> DEFINE e == c.element
<1>1. c \in Contexts /\ e \in Elements /\ c.part \in PartsOf(e) /\ Held(db, c, e)
  BY DEF InPlace, PlaceAt, Contexts
<1>2. e \in Named
  BY <1>1, PartsOfNamed
<1>3. ThisField(db, c, e) # <<>>
  BY <1>2 DEF InPlace, PlaceAt, Present
<1>4. Names[e] \in Tokens /\ ":" \in Tokens
  BY <1>1, <1>2, NamedTyped, Brackets
<1>5. Rest(db, c) = NamedRest(db, c, e, c.part)
  BY <1>2, RestIs DEF Rest
<1>6. /\ NamedRest(db, c, e, "Name") = <<Names[e]>> \o NamedRest(db, c, e, "NameSeparator")
      /\ NamedRest(db, c, e, "NameSeparator") = <<":">> \o NamedRest(db, c, e, "Value")
      /\ NamedRest(db, c, e, "Begin") = NamedRest(db, c, e, "Value")
  BY <1>1, <1>2, <1>3, NamedForms
<1> HIDE DEF e
<1>7. CASE c.part = "Name"
  <2>1. PlaceAt(db, c, e, "NameSeparator") /\ "NameSeparator" \in PartsOf(e)
    BY <1>1, <1>2, <1>3, NamedPlace, NamedParts
  <2>2. Rest(db, c) = <<Names[e]>> \o RestAt(db, c, e, "NameSeparator")
    BY <1>2, <1>5, <1>6, <1>7, RestIs
  <2>3. Serializes(db, c, Out(Names[e], At(c, e, "NameSeparator")))
    BY <1>1, <1>4, <2>1, <2>2, OutStep
  <2> QED
    BY <1>7, <2>3 DEF NameStep, e
<1>8. CASE c.part = "NameSeparator" /\ e \in Arrays
  <2>1. PlaceAt(db, c, e, "Begin") /\ "Begin" \in PartsOf(e)
    BY <1>1, <1>2, <1>3, <1>8, NamedPlace, NamedParts
  <2>2. Rest(db, c) = <<":">> \o RestAt(db, c, e, "Begin")
    BY <1>2, <1>5, <1>6, <1>8, RestIs
  <2>3. Serializes(db, c, Out(":", At(c, e, "Begin")))
    BY <1>1, <1>4, <2>1, <2>2, OutStep
  <2> QED
    BY <1>8, <2>3 DEF NameStep, e
<1>9. CASE c.part = "NameSeparator" /\ e \notin Arrays
  <2>1. PlaceAt(db, c, e, "Value") /\ "Value" \in PartsOf(e)
    BY <1>1, <1>2, <1>3, <1>9, NamedPlace, NamedParts
  <2>2. Rest(db, c) = <<":">> \o RestAt(db, c, e, "Value")
    BY <1>2, <1>5, <1>6, <1>9, RestIs
  <2>3. Serializes(db, c, Out(":", At(c, e, "Value")))
    BY <1>1, <1>4, <2>1, <2>2, OutStep
  <2> QED
    BY <1>9, <2>3 DEF NameStep, e
<1> QED
  BY <1>7, <1>8, <1>9

-----------------------------------------------------------------------------
(* After a value.                                                          *)

LEMMA NextStep ==
    ASSUME Databased(db), NEW c, InPlace(db, c), c.part = "ValueSeparator",
           NEW f, Siblings(c.element, f), Place[c.element] < Place[f],
           ThisField(db, c, f) # <<>>,
           \A k \in Place[c.element] + 1 .. Place[f] - 1 : Fields(db, c, f)[k] = <<>>
    PROVE  Serializes(db, c, Out(",", At(c, f, "Name")))
<1> DEFINE e == c.element
<1>1. c \in Contexts /\ e \in Elements /\ c.part \in PartsOf(e) /\ Held(db, c, e)
  BY DEF InPlace, PlaceAt, Contexts
<1>2. e \in Named /\ f \in Named /\ Held(db, c, f) /\ Fields(db, c, e) = Fields(db, c, f)
  BY <1>1, SiblingsShare
<1>3. Rest(db, c) = Behind(db, c, e)
  BY <1>2, RestIs DEF Rest, NamedRest
<1>4. Behind(db, c, e) = <<",">> \o NamedRest(db, c, f, "Name")
  <2>1. /\ Siblings(e, f) /\ Place[e] < Place[f]
        /\ \A k \in Place[e] + 1 .. Place[f] - 1 : Fields(db, c, e)[k] = <<>>
    BY <1>2
  <2> HIDE DEF e
  <2> QED
    BY <1>1, <2>1, ToNextField
<1>5. PlaceAt(db, c, f, "Name") /\ "Name" \in PartsOf(f) /\ f \in Elements
  BY <1>2, NamedPlace, NamedParts
<1>6. Rest(db, c) = <<",">> \o RestAt(db, c, f, "Name")
  BY <1>2, <1>3, <1>4, RestIs
<1> QED
  BY <1>1, <1>5, <1>6, Brackets, OutStep

\* To the separator after the unit or the step value, where there is none.
LEMMA LaterStep ==
    ASSUME Databased(db), NEW c, InPlace(db, c), c.part = "ValueSeparator",
           NEW f \in Optional, c.element \in OfCharacteristic, Place[c.element] <= Place[f],
           \A k \in Place[c.element] + 1 .. Place[f] : Fields(db, c, f)[k] = <<>>,
           f = "StepValue" => CharacteristicAt(db, c).format = "uint8"
    PROVE  Serializes(db, c, Skip(At(c, f, "ValueSeparator")))
<1> DEFINE e == c.element
           p == "ValueSeparator"
<1>1. c \in Contexts /\ e \in Elements /\ c.part \in PartsOf(e) /\ Held(db, c, e)
  BY DEF InPlace, PlaceAt, Contexts
<1>0. Siblings(e, f)
  BY DEF Siblings, Optional, OfCharacteristic
<1>2. e \in Named /\ f \in Named /\ Held(db, c, f) /\ Fields(db, c, e) = Fields(db, c, f)
  BY <1>0, <1>1, SiblingsShare
<1>3. Rest(db, c) = Behind(db, c, e)
  BY <1>2, RestIs DEF Rest, NamedRest
<1>4. Behind(db, c, e) = Behind(db, c, f)
  <2>1. /\ Siblings(e, f) /\ Place[e] <= Place[f]
        /\ \A k \in Place[e] + 1 .. Place[f] : Fields(db, c, e)[k] = <<>>
    BY <1>0, <1>2
  <2> HIDE DEF e
  <2> QED
    BY <1>1, <2>1, ToLaterField
<1>5. PlaceAt(db, c, f, p) /\ p \in PartsOf(f) /\ f \in Elements
  <2>1. f \notin Items \cup Ranges
    BY <1>2, Apart
  <2>2. Indexed(db, c, f)
    BY <2>1 DEF Indexed
  <2>3. Present(db, c, f, p)
    BY <2>1 DEF Present, Items
  <2>4. p \in PartsOf(f)
    BY DEF PartsOf, Optional, Arrays, Named, OfCharacteristic
  <2> QED
    BY <1>2, <2>2, <2>3, <2>4 DEF PlaceAt, Elements
<1>6. RestAt(db, c, f, p) = Behind(db, c, f)
  BY <1>2, RestIs DEF NamedRest
<1>7. Behind(db, c, f) \in Text
  BY <1>2, NamedTyped
<1> HIDE DEF p
<1>8. Serializes(db, c, Skip(At(c, f, p)))
  BY <1>1, <1>3, <1>4, <1>5, <1>6, <1>7, SkipStep
<1> QED
  BY <1>8 DEF p

LEMMA EndsStep ==
    ASSUME Databased(db), NEW c, c \in Contexts, NEW e \in OfCharacteristic, Held(db, c, e),
           \A k \in Place[e] + 1 .. 15 : Fields(db, c, e)[k] = <<>>
    PROVE  /\ Behind(db, c, e) = RestAt(db, c, "CharacteristicObject", "End")
           /\ PlaceAt(db, c, "CharacteristicObject", "End")
           /\ "End" \in PartsOf("CharacteristicObject")
           /\ Behind(db, c, e) \in Text
<1> DEFINE o == "CharacteristicObject"
           p == "End"
<1>1. e \in Named /\ e \in WithinCharacteristic /\ o \in WithinCharacteristic
  BY NamedWithin DEF WithinCharacteristic
<1>2. CharacteristicAt(db, c) \in CharacteristicRecords
  BY <1>1, RecordsAre
<1>3. Fields(db, c, e) = CharacteristicFields(CharacteristicAt(db, c))
      /\ Outside(db, c, e) = CharacteristicsTail(db, c)
  BY DEF Fields, Outside, OfAccessory, OfService, OfCharacteristic
<1>4. Len(Fields(db, c, e)) = 15
  BY <1>2, <1>3, CharacteristicFieldsAre
<1>5. Behind(db, c, e) = <<"}">> \o Outside(db, c, e)
  BY <1>1, <1>4, ToObjectEnd
<1>6. RestAt(db, c, o, p) = <<"}">> \o CharacteristicsTail(db, c)
  <2>1. RestAt(db, c, o, p) = ObjectRest(db, c, o, p)
    BY RestIs DEF ObjectElements
  <2>2. ObjectTail(db, c, o) = CharacteristicsTail(db, c)
    BY DEF ObjectTail
  <2> QED
    BY <2>1, <2>2 DEF ObjectRest
<1>7. p \in PartsOf(o) /\ o \notin Items \cup Ranges \cup Named
  BY DEF PartsOf, Arrays, Named, ObjectElements, Items, Ranges, OfAccessory, OfService, OfCharacteristic
<1>8. Held(db, c, o)
  <2>1. o \in WithinService /\ o \in WithinAccessory /\ e \in WithinService /\ e \in WithinAccessory
    BY <1>1 DEF WithinService, WithinAccessory
  <2> QED
    BY <1>1, <2>1 DEF Held
<1>9. PlaceAt(db, c, o, p)
  <2>1. Indexed(db, c, o)
    BY <1>7 DEF Indexed
  <2>2. Present(db, c, o, p)
    BY <1>7 DEF Present, Items
  <2> QED
    BY <1>7, <1>8, <2>1, <2>2 DEF PlaceAt
<1>10. Behind(db, c, e) \in Text
  BY <1>1, NamedTyped
<1> QED
  BY <1>3, <1>5, <1>6, <1>7, <1>9, <1>10

-----------------------------------------------------------------------------
(* The fields that there are.                                              *)

LEMMA CharacteristicHas ==
    ASSUME NEW ch \in CharacteristicRecords
    PROVE  /\ CharacteristicFields(ch)[1] # <<>>
           /\ CharacteristicFields(ch)[2] # <<>>
           /\ CharacteristicFields(ch)[3] # <<>>
           /\ CharacteristicFields(ch)[4] # <<>> <=> "pr" \in ch.properties
           /\ CharacteristicFields(ch)[5] # <<>>
           /\ CharacteristicFields(ch)[6] # <<>> <=> "pr" \in ch.properties
           /\ CharacteristicFields(ch)[7] # <<>> <=> ch.description # ""
           /\ CharacteristicFields(ch)[8] # <<>> <=> HasUnit(ch)
           /\ CharacteristicFields(ch)[9] # <<>> <=> ch.format \in Numbers /\ ch.constrained
           /\ CharacteristicFields(ch)[10] # <<>> <=> ch.format \in Numbers /\ ch.constrained
           /\ CharacteristicFields(ch)[11] # <<>> <=> ch.format \in Numbers /\ ch.constrained
           /\ CharacteristicFields(ch)[12] # <<>> <=> ch.format = "string" /\ ch.constrained
           /\ CharacteristicFields(ch)[13] # <<>> <=> ch.format = "data" /\ ch.constrained
           /\ CharacteristicFields(ch)[14] # <<>> <=> ch.format = "uint8" /\ ch.apple /\ ch.validValues # "none"
           /\ CharacteristicFields(ch)[15] # <<>> <=> ch.format = "uint8" /\ ch.apple /\ ch.ranges # "none"
<1>1. CharacteristicFields(ch)[1] # <<>>
  <2>1. Field("iid", <<ch.iid>>) # <<>>
    BY CharacteristicTokens, NameTokens, FieldOf
  <2> QED
    BY <2>1, CharacteristicFieldsAre DEF Given
<1>2. CharacteristicFields(ch)[2] # <<>>
  <2>1. Field("type", <<ch.type>>) # <<>>
    BY CharacteristicTokens, NameTokens, FieldOf
  <2> QED
    BY <2>1, CharacteristicFieldsAre DEF Given
<1>3. CharacteristicFields(ch)[3] # <<>>
  <2>1. Field("format", <<ch.format>>) # <<>>
    BY CharacteristicTokens, NameTokens, FieldOf
  <2> QED
    BY <2>1, CharacteristicFieldsAre DEF Given
<1>4. CharacteristicFields(ch)[4] # <<>> <=> "pr" \in ch.properties
  <2>1. Field("value", <<Value(ch)>>) # <<>>
    BY CharacteristicTokens, NameTokens, FieldOf
  <2> QED
    BY <2>1, CharacteristicFieldsAre DEF Given
<1>5. CharacteristicFields(ch)[5] # <<>>
  <2>1. Field("perms", Array(Strings(EnabledProperties(ch)))) # <<>>
    BY CharacteristicTokens, NameTokens, StringsTyped, ArrayField
  <2> QED
    BY <2>1, CharacteristicFieldsAre DEF Given
<1>6. CharacteristicFields(ch)[6] # <<>> <=> "pr" \in ch.properties
  <2>1. Field("ev", <<Truth(ch.subscribed)>>) # <<>>
    BY CharacteristicTokens, NameTokens, FieldOf
  <2> QED
    BY <2>1, CharacteristicFieldsAre DEF Given
<1>7. CharacteristicFields(ch)[7] # <<>> <=> ch.description # ""
  <2>1. Field("description", <<ch.description>>) # <<>>
    BY CharacteristicTokens, NameTokens, FieldOf
  <2> QED
    BY <2>1, CharacteristicFieldsAre DEF Given
<1>8. CharacteristicFields(ch)[8] # <<>> <=> HasUnit(ch)
  <2>1. Field("unit", <<ch.unit>>) # <<>>
    BY CharacteristicTokens, NameTokens, FieldOf
  <2> QED
    BY <2>1, CharacteristicFieldsAre DEF Given
<1>9. CharacteristicFields(ch)[9] # <<>> <=> ch.format \in Numbers /\ ch.constrained
  <2>1. Field("minValue", <<"limit">>) # <<>>
    BY CharacteristicTokens, NameTokens, FieldOf
  <2> QED
    BY <2>1, CharacteristicFieldsAre DEF Given
<1>10. CharacteristicFields(ch)[10] # <<>> <=> ch.format \in Numbers /\ ch.constrained
  <2>1. Field("maxValue", <<"limit">>) # <<>>
    BY CharacteristicTokens, NameTokens, FieldOf
  <2> QED
    BY <2>1, CharacteristicFieldsAre DEF Given
<1>11. CharacteristicFields(ch)[11] # <<>> <=> ch.format \in Numbers /\ ch.constrained
  <2>1. Field("minStep", <<"limit">>) # <<>>
    BY CharacteristicTokens, NameTokens, FieldOf
  <2> QED
    BY <2>1, CharacteristicFieldsAre DEF Given
<1>12. CharacteristicFields(ch)[12] # <<>> <=> ch.format = "string" /\ ch.constrained
  <2>1. Field("maxLen", <<"limit">>) # <<>>
    BY CharacteristicTokens, NameTokens, FieldOf
  <2> QED
    BY <2>1, CharacteristicFieldsAre DEF Given
<1>13. CharacteristicFields(ch)[13] # <<>> <=> ch.format = "data" /\ ch.constrained
  <2>1. Field("maxDataLen", <<"limit">>) # <<>>
    BY CharacteristicTokens, NameTokens, FieldOf
  <2> QED
    BY <2>1, CharacteristicFieldsAre DEF Given
<1>14. CharacteristicFields(ch)[14] # <<>> <=> ch.format = "uint8" /\ ch.apple /\ ch.validValues # "none"
  <2>1. Field("valid-values", Array(Strings(List(ch.validValues)))) # <<>>
    BY CharacteristicTokens, NameTokens, StringsTyped, ArrayField
  <2> QED
    BY <2>1, CharacteristicFieldsAre DEF Given
<1>15. CharacteristicFields(ch)[15] # <<>> <=> ch.format = "uint8" /\ ch.apple /\ ch.ranges # "none"
  <2>1. Field("valid-values-range", Array(RangeDocuments(List(ch.ranges)))) # <<>>
    BY CharacteristicTokens, NameTokens, RangesTyped, ArrayField
  <2> QED
    BY <2>1, CharacteristicFieldsAre DEF Given
<1> QED
  BY <1>1, <1>2, <1>3, <1>4, <1>5, <1>6, <1>7, <1>8, <1>9, <1>10, <1>11, <1>12, <1>13, <1>14, <1>15

\* The current characteristic.
LEMMA CharacteristicIs ==
    ASSUME Databased(db), NEW c, NEW e \in OfCharacteristic, Held(db, c, e),
           NEW ch, ch = CharacteristicAt(db, c)
    PROVE  /\ ch \in CharacteristicRecords /\ ch.format \in Formats
           /\ Characteristic(c) = ch
           /\ Fields(db, c, e) = CharacteristicFields(ch)
           /\ ThisField(db, c, e) = CharacteristicFields(ch)[Place[e]]
           /\ \A f \in OfCharacteristic :
                /\ Siblings(e, f) /\ Fields(db, c, f) = CharacteristicFields(ch)
                /\ ThisField(db, c, f) = CharacteristicFields(ch)[Place[f]]
<1>1. e \in WithinCharacteristic
  BY NamedWithin
<1>2. ch \in CharacteristicRecords
  BY <1>1, RecordsAre
<1>3. \A f \in OfCharacteristic : Fields(db, c, f) = CharacteristicFields(ch)
  BY DEF Fields, OfAccessory, OfService, OfCharacteristic
<1>4. ch.format \in Formats
  BY <1>2 DEF CharacteristicRecords
<1> QED
  BY <1>2, <1>3, <1>4, Current DEF ThisField, Siblings

LEMMA CharacteristicPlace ==
    /\ Place["CharacteristicID"] = 1 /\ "CharacteristicID" \in OfCharacteristic
    /\ Place["CharacteristicType"] = 2 /\ "CharacteristicType" \in OfCharacteristic
    /\ Place["CharacteristicFormat"] = 3 /\ "CharacteristicFormat" \in OfCharacteristic
    /\ Place["CharacteristicValue"] = 4 /\ "CharacteristicValue" \in OfCharacteristic
    /\ Place["PermissionsArray"] = 5 /\ "PermissionsArray" \in OfCharacteristic
    /\ Place["EventNotifications"] = 6 /\ "EventNotifications" \in OfCharacteristic
    /\ Place["Description"] = 7 /\ "Description" \in OfCharacteristic
    /\ Place["Unit"] = 8 /\ "Unit" \in OfCharacteristic
    /\ Place["MinimumValue"] = 9 /\ "MinimumValue" \in OfCharacteristic
    /\ Place["MaximumValue"] = 10 /\ "MaximumValue" \in OfCharacteristic
    /\ Place["StepValue"] = 11 /\ "StepValue" \in OfCharacteristic
    /\ Place["MaxLength"] = 12 /\ "MaxLength" \in OfCharacteristic
    /\ Place["MaxDataLength"] = 13 /\ "MaxDataLength" \in OfCharacteristic
    /\ Place["ValidValuesArray"] = 14 /\ "ValidValuesArray" \in OfCharacteristic
    /\ Place["ValidValuesRangesArray"] = 15 /\ "ValidValuesRangesArray" \in OfCharacteristic
BY DEF Place, OfCharacteristic

LEMMA OfServiceFields ==
    ASSUME Databased(db), NEW c, NEW e \in OfAccessory \cup OfService, Held(db, c, e)
    PROVE  ThisField(db, c, e) # <<>>
<1>1. CASE e \in OfAccessory
  <2>1. AccessoryAt(db, c) \in AccessoryRecords
    BY <1>1, NamedWithin, RecordsAre
  <2>2. Fields(db, c, e) = AccessoryFields(AccessoryAt(db, c))
    BY <1>1 DEF Fields, OfAccessory, OfService, OfCharacteristic
  <2> DEFINE a == AccessoryAt(db, c)
  <2>3. Field("aid", <<a.aid>>) # <<>>
    BY <2>1, AccessoryFieldsAre, NameTokens, FieldOf
  <2>4. Field("services", Array(ServiceDocuments(a.services))) # <<>>
    BY <2>1, AccessoryFieldsAre, NameTokens, ServiceDocumentsAre, ArrayField
  <2>5. AccessoryFields(a)[1] # <<>> /\ AccessoryFields(a)[2] # <<>>
    BY <2>1, <2>3, <2>4, AccessoryFieldsAre
  <2> QED
    BY <1>1, <2>2, <2>5 DEF ThisField, Place, OfAccessory
<1>2. CASE e \in OfService
  <2>1. ServiceAt(db, c) \in ServiceRecords
    BY <1>2, NamedWithin, RecordsAre
  <2>2. Fields(db, c, e) = ServiceFields(ServiceAt(db, c))
    BY <1>2 DEF Fields, OfAccessory, OfService, OfCharacteristic
  <2> DEFINE s == ServiceAt(db, c)
  <2>3. /\ Field("iid", <<s.iid>>) # <<>> /\ Field("type", <<s.type>>) # <<>>
        /\ Field("primary", <<Truth(s.primary)>>) # <<>>
        /\ Field("hidden", <<Truth(s.hidden)>>) # <<>>
    BY <2>1, ServiceFieldsAre, NameTokens, FieldOf, TruthTyped
  <2>4. Field("linked", Array(Strings(s.linked))) # <<>>
    BY <2>1, ServiceFieldsAre, NameTokens, StringsTyped, ArrayField
  <2>5. Field("characteristics", Array(CharacteristicDocuments(s.characteristics))) # <<>>
    BY <2>1, ServiceFieldsAre, NameTokens, CharacteristicDocumentsAre, ArrayField
  <2>6. /\ ServiceFields(s)[1] # <<>> /\ ServiceFields(s)[2] # <<>>
        /\ ServiceFields(s)[3] # <<>> /\ ServiceFields(s)[4] # <<>>
        /\ ServiceFields(s)[5] # <<>> /\ ServiceFields(s)[6] # <<>>
    BY <2>1, <2>3, <2>4, <2>5, ServiceFieldsAre
  <2> HIDE DEF s
  <2>7. ThisField(db, c, e) = ServiceFields(s)[Place[e]]
    BY <2>2 DEF s, ThisField
  <2>8. Place[e] \in {1, 2, 3, 4, 5, 6}
    BY <1>2 DEF Place, OfService
  <2> QED
    BY <2>6, <2>7, <2>8
<1> QED
  BY <1>1, <1>2

LEMMA FollowFollows ==
    ASSUME Databased(db), NEW c, InPlace(db, c), c.part = "ValueSeparator",
           c.element \in DOMAIN Follows
    PROVE  Serializes(db, c, FollowStep(c))
<1> DEFINE e == c.element
           f == Follows[e]
<1>1. c \in Contexts /\ e \in Elements /\ c.part \in PartsOf(e) /\ Held(db, c, e)
  BY DEF InPlace, PlaceAt, Contexts
<1>2. Siblings(e, f) /\ Place[f] = Place[e] + 1 /\ Place[e] \in Nat
  BY DEF Siblings, Follows, Place, OfAccessory, OfService, OfCharacteristic
<1>3. e \in Named /\ f \in Named /\ Held(db, c, f)
  BY <1>1, <1>2, SiblingsShare
<1>4. e \notin Optional => ThisField(db, c, e) # <<>>
  BY <1>3 DEF InPlace, PlaceAt, Present
<1>5. ThisField(db, c, f) # <<>>
  <2>1. CASE f \in OfAccessory \cup OfService
    BY <1>3, <2>1, OfServiceFields
  <2>2. CASE f \in OfCharacteristic
    <3> DEFINE ch == CharacteristicAt(db, c)
    <3>1. e \in OfCharacteristic
      BY <1>2, <2>2 DEF Siblings, OfAccessory, OfService, OfCharacteristic
    <3>2. ch \in CharacteristicRecords
      BY <1>1, <3>1, CharacteristicIs
    <3>3. /\ ThisField(db, c, e) = CharacteristicFields(ch)[Place[e]]
          /\ ThisField(db, c, f) = CharacteristicFields(ch)[Place[f]]
      BY <1>1, <2>2, <3>1, CharacteristicIs
    <3> HIDE DEF ch
    <3>4. e \notin Optional
      BY DEF Follows, Optional
    <3>5. Place[f] \in {2, 3, 5} \/ (Place[e] = 9 /\ Place[f] = 10) \/ (Place[e] = 10 /\ Place[f] = 11)
      BY <3>1 DEF Follows, Place, OfCharacteristic
    <3>6. /\ CharacteristicFields(ch)[2] # <<>> /\ CharacteristicFields(ch)[3] # <<>>
          /\ CharacteristicFields(ch)[5] # <<>>
      BY <3>2, CharacteristicHas
    <3>7. /\ CharacteristicFields(ch)[9] # <<>> => CharacteristicFields(ch)[10] # <<>>
          /\ CharacteristicFields(ch)[10] # <<>> => CharacteristicFields(ch)[11] # <<>>
      BY <3>2, CharacteristicHas
    <3> QED
      BY <1>4, <3>3, <3>4, <3>5, <3>6, <3>7
  <2> QED
    BY <1>2, <2>1, <2>2 DEF Siblings
<1>6. Place[e] < Place[f] /\ \A k \in Place[e] + 1 .. Place[f] - 1 : Fields(db, c, f)[k] = <<>>
  BY <1>2
<1>7. FollowStep(c) = Out(",", At(c, f, "Name"))
  BY DEF FollowStep
<1> HIDE DEF f
<1>8. Serializes(db, c, Out(",", At(c, f, "Name")))
  BY <1>2, <1>5, <1>6, NextStep
<1> QED
  BY <1>7, <1>8

-----------------------------------------------------------------------------
(* Separators within a characteristic.                                     *)

\* The fields from i to j that a characteristic has none of.
NoFields(ch, i, j) == \A k \in i .. j : CharacteristicFields(ch)[k] = <<>>

LEMMA CharacteristicNext ==
    ASSUME Databased(db), NEW c, InPlace(db, c), c.part = "ValueSeparator",
           c.element \in OfCharacteristic, NEW f \in OfCharacteristic,
           NEW ch, ch = CharacteristicAt(db, c),
           Place[c.element] < Place[f], CharacteristicFields(ch)[Place[f]] # <<>>,
           NoFields(ch, Place[c.element] + 1, Place[f] - 1)
    PROVE  Serializes(db, c, Out(",", At(c, f, "Name")))
<1> DEFINE e == c.element
<1>1. c \in Contexts /\ e \in Elements /\ c.part \in PartsOf(e) /\ Held(db, c, e)
  BY DEF InPlace, PlaceAt, Contexts
<1>2. /\ Siblings(e, f) /\ Fields(db, c, f) = CharacteristicFields(ch)
      /\ ThisField(db, c, f) = CharacteristicFields(ch)[Place[f]]
  BY <1>1, CharacteristicIs
<1> QED
  BY <1>2, NextStep DEF NoFields

LEMMA CharacteristicLater ==
    ASSUME Databased(db), NEW c, InPlace(db, c), c.part = "ValueSeparator",
           c.element \in OfCharacteristic, NEW f \in Optional,
           NEW ch, ch = CharacteristicAt(db, c), Place[c.element] <= Place[f],
           NoFields(ch, Place[c.element] + 1, Place[f]),
           f = "StepValue" => ch.format = "uint8"
    PROVE  Serializes(db, c, Skip(At(c, f, "ValueSeparator")))
<1> DEFINE e == c.element
<1>1. c \in Contexts /\ e \in Elements /\ c.part \in PartsOf(e) /\ Held(db, c, e)
  BY DEF InPlace, PlaceAt, Contexts
<1>2. f \in OfCharacteristic
  BY DEF Optional, OfCharacteristic
<1>3. Fields(db, c, f) = CharacteristicFields(ch)
  BY <1>1, <1>2, CharacteristicIs
<1> QED
  BY <1>3, LaterStep DEF NoFields

LEMMA CharacteristicEnd ==
    ASSUME Databased(db), NEW c, InPlace(db, c), c.part = "ValueSeparator",
           c.element \in OfCharacteristic,
           NEW ch, ch = CharacteristicAt(db, c), NEW i \in Nat, Place[c.element] = i,
           NoFields(ch, i + 1, 15)
    PROVE  Serializes(db, c, Skip(At(c, "CharacteristicObject", "End")))
<1> DEFINE e == c.element
           o == "CharacteristicObject"
           p == "End"
<1>1. c \in Contexts /\ e \in Elements /\ c.part \in PartsOf(e) /\ Held(db, c, e)
  BY DEF InPlace, PlaceAt, Contexts
<1>2. Fields(db, c, e) = CharacteristicFields(ch)
  BY <1>1, CharacteristicIs
<1>3. /\ Behind(db, c, e) = RestAt(db, c, o, p) /\ PlaceAt(db, c, o, p)
      /\ p \in PartsOf(o) /\ Behind(db, c, e) \in Text
  BY <1>1, <1>2, EndsStep DEF NoFields
<1>4. Rest(db, c) = Behind(db, c, e)
  <2>1. e \in Named
    BY NamedWithin
  <2> QED
    BY <2>1, RestIs DEF Rest, NamedRest
<1>5. o \in Elements
  BY DEF Elements, ObjectElements
<1> HIDE DEF o, p, e
<1>6. RestAt(db, c, o, p) \in Text /\ Rest(db, c) = RestAt(db, c, o, p)
  BY <1>3, <1>4
<1>7. Serializes(db, c, Skip(At(c, o, p)))
  BY <1>1, <1>3, <1>5, <1>6, SkipStep
<1> QED
  BY <1>7 DEF o, p

LEMMA FormatFollows ==
    ASSUME Databased(db), NEW c, InPlace(db, c), c.part = "ValueSeparator",
           c.element = "CharacteristicFormat"
    PROVE  Serializes(db, c, FormatSeparatorStep(c))
<1>1. PICK ch : ch = CharacteristicAt(db, c)
  OBVIOUS
<1>2. c.element \in OfCharacteristic /\ Place[c.element] = 3
  BY CharacteristicPlace
<1>3. Held(db, c, c.element)
  BY DEF InPlace, PlaceAt
<1>4. ch \in CharacteristicRecords /\ Characteristic(c) = ch
  BY <1>1, <1>2, <1>3, CharacteristicIs
<1> DEFINE F == CharacteristicFields(ch)
<1>5. (F[4] # <<>> <=> "pr" \in ch.properties) /\ F[5] # <<>>
  BY <1>4, CharacteristicHas DEF F
<1> HIDE DEF F
<1>6. CASE "pr" \in ch.properties
  <2>1. F[4] # <<>> /\ NoFields(ch, 3 + 1, 4 - 1)
    BY <1>5, <1>6 DEF NoFields, F
  <2>2. Serializes(db, c, Out(",", At(c, "CharacteristicValue", "Name")))
    <3>1. PICK f : f = "CharacteristicValue"
      OBVIOUS
    <3>2. f \in OfCharacteristic /\ Place[f] = 4
      BY <3>1, CharacteristicPlace
    <3>3. /\ Place[c.element] < Place[f] /\ CharacteristicFields(ch)[Place[f]] # <<>>
          /\ NoFields(ch, Place[c.element] + 1, Place[f] - 1)
      BY <1>1, <1>2, <2>1, <3>2 DEF F
    <3>4. Serializes(db, c, Out(",", At(c, f, "Name")))
      BY <1>1, <1>2, <3>2, <3>3, CharacteristicNext
    <3> QED
      BY <3>1, <3>4
  <2> QED
    BY <1>4, <1>6, <2>2 DEF FormatSeparatorStep
<1>7. CASE "pr" \notin ch.properties
  <2>1. F[5] # <<>> /\ NoFields(ch, 3 + 1, 5 - 1)
    BY <1>5, <1>7 DEF NoFields, F
  <2>2. Serializes(db, c, Out(",", At(c, "PermissionsArray", "Name")))
    <3>1. PICK f : f = "PermissionsArray"
      OBVIOUS
    <3>2. f \in OfCharacteristic /\ Place[f] = 5
      BY <3>1, CharacteristicPlace
    <3>3. /\ Place[c.element] < Place[f] /\ CharacteristicFields(ch)[Place[f]] # <<>>
          /\ NoFields(ch, Place[c.element] + 1, Place[f] - 1)
      BY <1>1, <1>2, <2>1, <3>2 DEF F
    <3>4. Serializes(db, c, Out(",", At(c, f, "Name")))
      BY <1>1, <1>2, <3>2, <3>3, CharacteristicNext
    <3> QED
      BY <3>1, <3>4
  <2> QED
    BY <1>4, <1>7, <2>2 DEF FormatSeparatorStep
<1> QED
  BY <1>6, <1>7

LEMMA OptionFollows ==
    ASSUME Databased(db), NEW c, InPlace(db, c), c.part = "ValueSeparator",
           c.element \in {"PermissionsArray", "EventNotifications", "Description"}
    PROVE  Serializes(db, c, OptionSeparatorStep(c))
<1>1. PICK ch : ch = CharacteristicAt(db, c)
  OBVIOUS
<1>2. c.element \in OfCharacteristic
  BY CharacteristicPlace
<1>3. Held(db, c, c.element)
  BY DEF InPlace, PlaceAt
<1>4. ch \in CharacteristicRecords /\ Characteristic(c) = ch
  BY <1>1, <1>2, <1>3, CharacteristicIs
<1> DEFINE F == CharacteristicFields(ch)
           i == Place[c.element]
<1>p. F[6] # <<>> <=> "pr" \in ch.properties
  BY <1>4, CharacteristicHas DEF F
<1>d. F[7] # <<>> <=> ch.description # ""
  BY <1>4, CharacteristicHas DEF F
<1>u. F[8] # <<>> <=> HasUnit(ch)
  BY <1>4, CharacteristicHas DEF F
<1>5. i \in {5, 6, 7}
  BY CharacteristicPlace
<1>6. /\ i = 5 <=> c.element = "PermissionsArray"
      /\ i = 7 <=> c.element = "Description"
  BY CharacteristicPlace
<1> HIDE DEF F, i
<1>a. Place[c.element] = i /\ i \in Nat
  BY <1>5 DEF i
<1>7. CASE i = 5 /\ "pr" \in ch.properties
  <2>1. F[6] # <<>> /\ i < 6 /\ NoFields(ch, i + 1, 6 - 1)
    <3>1. F[6] # <<>>
      BY <1>p, <1>7
    <3>2. \A k \in i + 1 .. 6 - 1 : F[k] = <<>>
      BY <1>7
    <3> QED
      BY <1>7, <3>1, <3>2 DEF NoFields, F
  <2>2. Serializes(db, c, Out(",", At(c, "EventNotifications", "Name")))
    <3>1. PICK f : f = "EventNotifications"
      OBVIOUS
    <3>2. f \in OfCharacteristic /\ Place[f] = 6
      BY <3>1, CharacteristicPlace
    <3>3. /\ Place[c.element] < Place[f] /\ CharacteristicFields(ch)[Place[f]] # <<>>
          /\ NoFields(ch, Place[c.element] + 1, Place[f] - 1)
      BY <1>1, <1>2, <1>a, <2>1, <3>2 DEF F
    <3>4. Serializes(db, c, Out(",", At(c, f, "Name")))
      BY <1>1, <1>2, <3>2, <3>3, CharacteristicNext
    <3> QED
      BY <3>1, <3>4
  <2> QED
    BY <1>4, <1>6, <1>7, <2>2 DEF OptionSeparatorStep
<1>8. CASE ~(i = 5 /\ "pr" \in ch.properties) /\ i # 7 /\ ch.description # ""
  <2>1. F[7] # <<>> /\ i < 7 /\ NoFields(ch, i + 1, 7 - 1)
    <3>1. F[7] # <<>> /\ i \in {5, 6}
      BY <1>5, <1>d, <1>8
    <3>2. i = 5 => F[6] = <<>>
      BY <1>p, <1>8
    <3>3. \A k \in i + 1 .. 7 - 1 : k = 6 /\ i = 5
      BY <3>1
    <3>4. \A k \in i + 1 .. 7 - 1 : F[k] = <<>>
      BY <3>2, <3>3
    <3> QED
      BY <3>1, <3>4 DEF NoFields, F
  <2>2. Serializes(db, c, Out(",", At(c, "Description", "Name")))
    <3>1. PICK f : f = "Description"
      OBVIOUS
    <3>2. f \in OfCharacteristic /\ Place[f] = 7
      BY <3>1, CharacteristicPlace
    <3>3. /\ Place[c.element] < Place[f] /\ CharacteristicFields(ch)[Place[f]] # <<>>
          /\ NoFields(ch, Place[c.element] + 1, Place[f] - 1)
      BY <1>1, <1>2, <1>a, <2>1, <3>2 DEF F
    <3>4. Serializes(db, c, Out(",", At(c, f, "Name")))
      BY <1>1, <1>2, <3>2, <3>3, CharacteristicNext
    <3> QED
      BY <3>1, <3>4
  <2> QED
    BY <1>4, <1>6, <1>8, <2>2 DEF OptionSeparatorStep
<1>9. CASE ~(i = 5 /\ "pr" \in ch.properties) /\ ~(i # 7 /\ ch.description # "")
  <2>1. NoFields(ch, i + 1, 8 - 1)
    <3>1. /\ i = 5 => F[6] = <<>>
          /\ i # 7 => F[7] = <<>>
      BY <1>p, <1>d, <1>9
    <3>2. \A k \in i + 1 .. 8 - 1 : (k = 6 /\ i = 5) \/ (k = 7 /\ i # 7)
      BY <1>5
    <3>3. \A k \in i + 1 .. 8 - 1 : F[k] = <<>>
      BY <3>1, <3>2
    <3> QED
      BY <3>3 DEF NoFields, F
  <2>2. CASE HasUnit(ch)
    <3>0. F[8] # <<>>
      BY <1>u, <2>2
    <3>1. F[8] # <<>> /\ i < 8
      BY <1>5, <3>0
    <3>2. Serializes(db, c, Out(",", At(c, "Unit", "Name")))
      <4>1. PICK f : f = "Unit"
        OBVIOUS
      <4>2. f \in OfCharacteristic /\ Place[f] = 8
        BY <4>1, CharacteristicPlace
      <4>3. /\ Place[c.element] < Place[f] /\ CharacteristicFields(ch)[Place[f]] # <<>>
            /\ NoFields(ch, Place[c.element] + 1, Place[f] - 1)
        BY <1>1, <1>2, <1>a, <2>1, <3>1, <4>2 DEF F
      <4>4. Serializes(db, c, Out(",", At(c, f, "Name")))
        BY <1>1, <1>2, <4>2, <4>3, CharacteristicNext
      <4> QED
        BY <4>1, <4>4
    <3> QED
      BY <1>4, <1>6, <1>9, <2>2, <3>2 DEF OptionSeparatorStep
  <2>3. CASE ~HasUnit(ch)
    <3>0. F[8] = <<>>
      BY <1>u, <2>3
    <3>b. \A k \in i + 1 .. 8 : k = 8 \/ k \in i + 1 .. 8 - 1
      BY <1>5
    <3>c. CharacteristicFields(ch)[8] = <<>>
      BY <3>0 DEF F
    <3>d. NoFields(ch, i + 1, 8)
      BY <2>1, <3>b, <3>c DEF NoFields
    <3>1. i <= 8 /\ NoFields(ch, i + 1, 8)
      BY <1>5, <3>d
    <3>2. Serializes(db, c, Skip(At(c, "Unit", "ValueSeparator")))
      <4>1. PICK f : f = "Unit"
        OBVIOUS
      <4>2. f \in OfCharacteristic /\ f \in Optional /\ Place[f] = 8
        BY <4>1, CharacteristicPlace DEF Optional
      <4>3. Place[c.element] <= Place[f] /\ NoFields(ch, Place[c.element] + 1, Place[f])
        BY <1>1, <1>2, <1>a, <3>1, <4>2 DEF F
      <4>a. f # "StepValue"
        BY <4>1
      <4>4. Serializes(db, c, Skip(At(c, f, "ValueSeparator")))
        BY <1>1, <1>2, <4>2, <4>3, <4>a, CharacteristicLater
      <4> QED
        BY <4>1, <4>4
    <3> QED
      BY <1>4, <1>6, <1>9, <2>3, <3>2 DEF OptionSeparatorStep
  <2> QED
    BY <2>2, <2>3
<1> QED
  BY <1>7, <1>8, <1>9

LEMMA ConstraintsFollow ==
    ASSUME Databased(db), NEW c, InPlace(db, c), c.part = "ValueSeparator",
           c.element = "Unit"
    PROVE  Serializes(db, c, ConstraintsStep(c))
<1>1. PICK ch : ch = CharacteristicAt(db, c)
  OBVIOUS
<1>2. c.element \in OfCharacteristic /\ Place[c.element] = 8
  BY CharacteristicPlace
<1>3. Held(db, c, c.element)
  BY DEF InPlace, PlaceAt
<1>4. ch \in CharacteristicRecords /\ Characteristic(c) = ch
  BY <1>1, <1>2, <1>3, CharacteristicIs
<1> DEFINE F == CharacteristicFields(ch)
<1>5. /\ F[9] # <<>> <=> ch.format \in Numbers /\ ch.constrained
      /\ F[10] # <<>> <=> ch.format \in Numbers /\ ch.constrained
      /\ F[11] # <<>> <=> ch.format \in Numbers /\ ch.constrained
      /\ F[12] # <<>> <=> ch.format = "string" /\ ch.constrained
      /\ F[13] # <<>> <=> ch.format = "data" /\ ch.constrained
      /\ F[14] # <<>> => ch.format = "uint8"
      /\ F[15] # <<>> => ch.format = "uint8"
  BY <1>4, CharacteristicHas DEF F
<1>6. "uint8" \in Numbers /\ "string" \notin Numbers /\ "data" \notin Numbers
  BY DEF Numbers
<1> HIDE DEF F
<1>7. CASE ch.format \in Numbers /\ ch.constrained
  <2>1. F[9] # <<>> /\ NoFields(ch, 8 + 1, 9 - 1)
    BY <1>5, <1>7 DEF NoFields, F
  <2>2. Serializes(db, c, Out(",", At(c, "MinimumValue", "Name")))
    <3>1. PICK f : f = "MinimumValue"
      OBVIOUS
    <3>2. f \in OfCharacteristic /\ Place[f] = 9
      BY <3>1, CharacteristicPlace
    <3>3. /\ Place[c.element] < Place[f] /\ CharacteristicFields(ch)[Place[f]] # <<>>
          /\ NoFields(ch, Place[c.element] + 1, Place[f] - 1)
      BY <1>1, <1>2, <2>1, <3>2 DEF F
    <3>4. Serializes(db, c, Out(",", At(c, f, "Name")))
      BY <1>1, <1>2, <3>2, <3>3, CharacteristicNext
    <3> QED
      BY <3>1, <3>4
  <2> QED
    BY <1>4, <1>6, <1>7, <2>2 DEF ConstraintsStep
<1>8. CASE ch.format = "uint8" /\ ~ch.constrained
  <2>1. NoFields(ch, 8 + 1, 11)
    BY <1>5, <1>8 DEF NoFields, F
  <2>2. Serializes(db, c, Skip(At(c, "StepValue", "ValueSeparator")))
    <3>1. PICK f : f = "StepValue"
      OBVIOUS
    <3>2. f \in OfCharacteristic /\ f \in Optional /\ Place[f] = 11
      BY <3>1, CharacteristicPlace DEF Optional
    <3>3. Place[c.element] <= Place[f] /\ NoFields(ch, Place[c.element] + 1, Place[f])
      BY <1>1, <1>2, <1>8, <2>1, <3>2 DEF F
    <3>a. ch.format = "uint8"
      BY <1>8
    <3>4. Serializes(db, c, Skip(At(c, f, "ValueSeparator")))
      BY <1>1, <1>2, <3>2, <3>3, <3>a, CharacteristicLater
    <3> QED
      BY <3>1, <3>4
  <2> QED
    BY <1>4, <1>8, <2>2 DEF ConstraintsStep
<1>9. CASE ch.format = "string" /\ ch.constrained
  <2>1. F[12] # <<>> /\ NoFields(ch, 8 + 1, 12 - 1)
    BY <1>5, <1>6, <1>9 DEF NoFields, F
  <2>2. Serializes(db, c, Out(",", At(c, "MaxLength", "Name")))
    <3>1. PICK f : f = "MaxLength"
      OBVIOUS
    <3>2. f \in OfCharacteristic /\ Place[f] = 12
      BY <3>1, CharacteristicPlace
    <3>3. /\ Place[c.element] < Place[f] /\ CharacteristicFields(ch)[Place[f]] # <<>>
          /\ NoFields(ch, Place[c.element] + 1, Place[f] - 1)
      BY <1>1, <1>2, <2>1, <3>2 DEF F
    <3>4. Serializes(db, c, Out(",", At(c, f, "Name")))
      BY <1>1, <1>2, <3>2, <3>3, CharacteristicNext
    <3> QED
      BY <3>1, <3>4
  <2> QED
    BY <1>4, <1>6, <1>9, <2>2 DEF ConstraintsStep
<1>10. CASE ch.format = "data" /\ ch.constrained
  <2>1. F[13] # <<>> /\ NoFields(ch, 8 + 1, 13 - 1)
    BY <1>5, <1>6, <1>10 DEF NoFields, F
  <2>2. Serializes(db, c, Out(",", At(c, "MaxDataLength", "Name")))
    <3>1. PICK f : f = "MaxDataLength"
      OBVIOUS
    <3>2. f \in OfCharacteristic /\ Place[f] = 13
      BY <3>1, CharacteristicPlace
    <3>3. /\ Place[c.element] < Place[f] /\ CharacteristicFields(ch)[Place[f]] # <<>>
          /\ NoFields(ch, Place[c.element] + 1, Place[f] - 1)
      BY <1>1, <1>2, <2>1, <3>2 DEF F
    <3>4. Serializes(db, c, Out(",", At(c, f, "Name")))
      BY <1>1, <1>2, <3>2, <3>3, CharacteristicNext
    <3> QED
      BY <3>1, <3>4
  <2> QED
    BY <1>4, <1>6, <1>10, <2>2 DEF ConstraintsStep
<1>11. CASE /\ ~(ch.format \in Numbers /\ ch.constrained)
            /\ ~(ch.format = "uint8" /\ ~ch.constrained)
            /\ ~(ch.format = "string" /\ ch.constrained)
            /\ ~(ch.format = "data" /\ ch.constrained)
  <2>0. ch.format # "uint8"
    BY <1>6, <1>11
  <2>1. NoFields(ch, 8 + 1, 15)
    BY <1>5, <1>11, <2>0 DEF NoFields, F
  <2>2. Serializes(db, c, Skip(At(c, "CharacteristicObject", "End")))
    BY <1>1, <1>2, <2>1, CharacteristicEnd DEF F
  <2> QED
    BY <1>4, <1>11, <2>2 DEF ConstraintsStep
<1> QED
  BY <1>7, <1>8, <1>9, <1>10, <1>11

LEMMA ValidValuesFollow ==
    ASSUME Databased(db), NEW c, InPlace(db, c), c.part = "ValueSeparator",
           c.element = "StepValue"
    PROVE  Serializes(db, c, ValidValuesSeparatorStep(c))
<1>1. PICK ch : ch = CharacteristicAt(db, c)
  OBVIOUS
<1>2. c.element \in OfCharacteristic /\ Place[c.element] = 11
  BY CharacteristicPlace
<1>3. Held(db, c, c.element) /\ CharacteristicAt(db, c).format = "uint8"
  BY DEF InPlace, PlaceAt, Present
<1>4. ch \in CharacteristicRecords /\ Characteristic(c) = ch /\ ch.format = "uint8"
  BY <1>1, <1>2, <1>3, CharacteristicIs
<1> DEFINE F == CharacteristicFields(ch)
<1>5. /\ F[12] # <<>> <=> ch.format = "string" /\ ch.constrained
      /\ F[13] # <<>> <=> ch.format = "data" /\ ch.constrained
      /\ F[14] # <<>> <=> ch.format = "uint8" /\ ch.apple /\ ch.validValues # "none"
      /\ F[15] # <<>> <=> ch.format = "uint8" /\ ch.apple /\ ch.ranges # "none"
  BY <1>4, CharacteristicHas DEF F
<1>6. F[12] = <<>> /\ F[13] = <<>>
  BY <1>4, <1>5
<1> HIDE DEF F
<1>7. CASE ch.apple /\ ch.validValues # "none"
  <2>1. F[14] # <<>> /\ NoFields(ch, 11 + 1, 14 - 1)
    BY <1>4, <1>5, <1>6, <1>7 DEF NoFields, F
  <2>2. Serializes(db, c, Out(",", At(c, "ValidValuesArray", "Name")))
    <3>1. PICK f : f = "ValidValuesArray"
      OBVIOUS
    <3>2. f \in OfCharacteristic /\ Place[f] = 14
      BY <3>1, CharacteristicPlace
    <3>3. /\ Place[c.element] < Place[f] /\ CharacteristicFields(ch)[Place[f]] # <<>>
          /\ NoFields(ch, Place[c.element] + 1, Place[f] - 1)
      BY <1>1, <1>2, <2>1, <3>2 DEF F
    <3>4. Serializes(db, c, Out(",", At(c, f, "Name")))
      BY <1>1, <1>2, <3>2, <3>3, CharacteristicNext
    <3> QED
      BY <3>1, <3>4
  <2> QED
    BY <1>4, <1>7, <2>2 DEF ValidValuesSeparatorStep
<1>8. CASE ~(ch.apple /\ ch.validValues # "none") /\ (ch.apple /\ ch.ranges # "none")
  <2>1. F[15] # <<>> /\ NoFields(ch, 11 + 1, 15 - 1)
    BY <1>4, <1>5, <1>6, <1>8 DEF NoFields, F
  <2>2. Serializes(db, c, Out(",", At(c, "ValidValuesRangesArray", "Name")))
    <3>1. PICK f : f = "ValidValuesRangesArray"
      OBVIOUS
    <3>2. f \in OfCharacteristic /\ Place[f] = 15
      BY <3>1, CharacteristicPlace
    <3>3. /\ Place[c.element] < Place[f] /\ CharacteristicFields(ch)[Place[f]] # <<>>
          /\ NoFields(ch, Place[c.element] + 1, Place[f] - 1)
      BY <1>1, <1>2, <2>1, <3>2 DEF F
    <3>4. Serializes(db, c, Out(",", At(c, f, "Name")))
      BY <1>1, <1>2, <3>2, <3>3, CharacteristicNext
    <3> QED
      BY <3>1, <3>4
  <2> QED
    BY <1>4, <1>8, <2>2 DEF ValidValuesSeparatorStep
<1>9. CASE ~(ch.apple /\ ch.validValues # "none") /\ ~(ch.apple /\ ch.ranges # "none")
  <2>1. NoFields(ch, 11 + 1, 15)
    BY <1>5, <1>6, <1>9 DEF NoFields, F
  <2>2. Serializes(db, c, Skip(At(c, "CharacteristicObject", "End")))
    BY <1>1, <1>2, <2>1, CharacteristicEnd DEF F
  <2> QED
    BY <1>4, <1>9, <2>2 DEF ValidValuesSeparatorStep
<1> QED
  BY <1>7, <1>8, <1>9

LEMMA RangesFollow ==
    ASSUME Databased(db), NEW c, InPlace(db, c), c.part = "ValueSeparator",
           c.element = "ValidValuesArray"
    PROVE  Serializes(db, c, RangesSeparatorStep(c))
<1>1. PICK ch : ch = CharacteristicAt(db, c)
  OBVIOUS
<1>2. c.element \in OfCharacteristic /\ Place[c.element] = 14
  BY CharacteristicPlace
<1>3. Held(db, c, c.element)
  BY DEF InPlace, PlaceAt
<1>4. ch \in CharacteristicRecords /\ Characteristic(c) = ch
  BY <1>1, <1>2, <1>3, CharacteristicIs
<1>a. ThisField(db, c, c.element) # <<>>
  <2>1. c.element \in Named /\ c.element \notin Optional
    BY <1>2, NamedWithin DEF Optional
  <2> QED
    BY <2>1 DEF InPlace, PlaceAt, Present
<1> DEFINE F == CharacteristicFields(ch)
<1>b. F[14] # <<>>
  BY <1>1, <1>2, <1>3, <1>a, CharacteristicIs
<1>5. /\ F[14] # <<>> <=> ch.format = "uint8" /\ ch.apple /\ ch.validValues # "none"
      /\ F[15] # <<>> <=> ch.format = "uint8" /\ ch.apple /\ ch.ranges # "none"
  BY <1>4, CharacteristicHas DEF F
<1> HIDE DEF F
<1>7. CASE ch.ranges # "none"
  <2>1. F[15] # <<>> /\ NoFields(ch, 14 + 1, 15 - 1)
    BY <1>5, <1>7, <1>b DEF NoFields, F
  <2>2. Serializes(db, c, Out(",", At(c, "ValidValuesRangesArray", "Name")))
    <3>1. PICK f : f = "ValidValuesRangesArray"
      OBVIOUS
    <3>2. f \in OfCharacteristic /\ Place[f] = 15
      BY <3>1, CharacteristicPlace
    <3>3. /\ Place[c.element] < Place[f] /\ CharacteristicFields(ch)[Place[f]] # <<>>
          /\ NoFields(ch, Place[c.element] + 1, Place[f] - 1)
      BY <1>1, <1>2, <2>1, <3>2 DEF F
    <3>4. Serializes(db, c, Out(",", At(c, f, "Name")))
      BY <1>1, <1>2, <3>2, <3>3, CharacteristicNext
    <3> QED
      BY <3>1, <3>4
  <2> QED
    BY <1>4, <1>7, <2>2 DEF RangesSeparatorStep
<1>9. CASE ch.ranges = "none"
  <2>1. NoFields(ch, 14 + 1, 15)
    BY <1>5, <1>9 DEF NoFields, F
  <2>2. Serializes(db, c, Skip(At(c, "CharacteristicObject", "End")))
    BY <1>1, <1>2, <2>1, CharacteristicEnd DEF F
  <2> QED
    BY <1>4, <1>9, <2>2 DEF RangesSeparatorStep
<1> QED
  BY <1>7, <1>9

LEMMA SeparatorFollows ==
    ASSUME Databased(db), NEW c, InPlace(db, c), c.part = "ValueSeparator"
    PROVE  Serializes(db, c, SeparatorStep(c))
<1> DEFINE e == c.element
<1>0. e \in Elements /\ "ValueSeparator" \in PartsOf(e)
  BY DEF InPlace, PlaceAt, Contexts
<1>1. e \in (DOMAIN Follows) \cup {"CharacteristicFormat", "Unit", "StepValue",
             "ValidValuesArray", "PermissionsArray", "EventNotifications", "Description"}
  BY <1>0 DEF PartsOf, Arrays, Elements, Named, OfAccessory, OfService, OfCharacteristic,
          ObjectElements, Items, Ranges, Follows
<1>2. \A f \in {"CharacteristicFormat", "Unit", "StepValue", "ValidValuesArray",
                "PermissionsArray", "EventNotifications", "Description"} : f \notin DOMAIN Follows
  BY DEF Follows
<1>3. CASE e \in DOMAIN Follows
  <2>1. SeparatorStep(c) = FollowStep(c)
    BY <1>2, <1>3 DEF SeparatorStep
  <2> QED
    BY <1>3, <2>1, FollowFollows
<1>4. CASE e = "CharacteristicFormat"
  BY <1>2, <1>4, FormatFollows DEF SeparatorStep
<1>5. CASE e = "Unit"
  BY <1>2, <1>5, ConstraintsFollow DEF SeparatorStep
<1>6. CASE e = "StepValue"
  BY <1>2, <1>6, ValidValuesFollow DEF SeparatorStep
<1>7. CASE e = "ValidValuesArray"
  BY <1>2, <1>7, RangesFollow DEF SeparatorStep
<1>8. CASE e \in {"PermissionsArray", "EventNotifications", "Description"}
  BY <1>2, <1>8, OptionFollows DEF SeparatorStep
<1> QED
  BY <1>1, <1>3, <1>4, <1>5, <1>6, <1>7, <1>8

-----------------------------------------------------------------------------
(* Values.                                                                 *)

LEMMA SimpleForm ==
    ASSUME Databased(db), NEW c, InPlace(db, c), c.part = "Value", c.element \in Named \ Arrays
    PROVE  /\ Simple(db, c, c.element) \in Tokens
           /\ Rest(db, c) = <<Simple(db, c, c.element)>> \o Behind(db, c, c.element)
           /\ ThisField(db, c, c.element) # <<>>
<1> DEFINE e == c.element
<1>1. Held(db, c, e) /\ e \in Named /\ e \notin Arrays
  BY DEF InPlace, PlaceAt
<1>2. ThisField(db, c, e) # <<>>
  BY <1>1 DEF InPlace, PlaceAt, Present
<1>3. Rest(db, c) = NamedRest(db, c, e, "Value")
  BY <1>1, RestIs DEF Rest
<1> HIDE DEF e
<1>4. NamedRest(db, c, e, "Value") = Content(db, c, e) \o Behind(db, c, e)
  BY <1>1, <1>2, NamedForms
<1>5. PICK n \in Nat, name \in Tokens : IsPlaced(db, c, e, n, name)
  BY <1>1, FieldsTyped
<1>6. Simple(db, c, e) \in Tokens
  BY <1>1, <1>5 DEF IsPlaced
<1>7. Content(db, c, e) = <<Simple(db, c, e)>>
  BY <1>1 DEF Content
<1>8. Rest(db, c) = <<Simple(db, c, e)>> \o Behind(db, c, e)
  BY <1>3, <1>4, <1>7
<1> QED
  BY <1>2, <1>6, <1>8 DEF e

LEMMA ValueOut ==
    ASSUME Databased(db), NEW c, InPlace(db, c), c.part = "Value", c.element \in Named \ Arrays,
           c.element \notin {"MaxLength", "MaxDataLength"},
           c.element = "StepValue" => CharacteristicAt(db, c).format = "uint8",
           NEW x, x = Simple(db, c, c.element)
    PROVE  Serializes(db, c, Out(x, At(c, c.element, "ValueSeparator")))
<1>1. PICK e : e = c.element
  OBVIOUS
<1>2. PICK p : p = "ValueSeparator"
  OBVIOUS
<1>3. c \in Contexts /\ e \in Elements /\ Held(db, c, e) /\ e \in Named
  BY <1>1 DEF InPlace, PlaceAt, Contexts
<1>4. p \in PartsOf(e)
  BY <1>1, <1>2 DEF PartsOf, Arrays
<1>5. /\ x \in Tokens /\ Rest(db, c) = <<x>> \o Behind(db, c, e) /\ ThisField(db, c, e) # <<>>
  BY <1>1, SimpleForm
<1>6. RestAt(db, c, e, p) = Behind(db, c, e)
  BY <1>2, <1>3, RestIs DEF NamedRest
<1>7. PlaceAt(db, c, e, p)
  BY <1>1, <1>3, <1>4, <1>5, NamedPlace
<1>8. Rest(db, c) = <<x>> \o RestAt(db, c, e, p)
  BY <1>5, <1>6
<1>9. Serializes(db, c, Out(x, At(c, e, p)))
  BY <1>3, <1>4, <1>5, <1>7, <1>8, OutStep
<1> QED
  BY <1>1, <1>2, <1>9

LEMMA ValueEnd ==
    ASSUME Databased(db), NEW c, InPlace(db, c), c.part = "Value",
           c.element \in {"StepValue", "MaxLength", "MaxDataLength"},
           NoFields(CharacteristicAt(db, c), Place[c.element] + 1, 15)
    PROVE  Serializes(db, c, Out("limit", At(c, "CharacteristicObject", "End")))
<1>1. PICK e : e = c.element
  OBVIOUS
<1>2. PICK o, p : o = "CharacteristicObject" /\ p = "End"
  OBVIOUS
<1>3. c \in Contexts /\ e \in Elements /\ Held(db, c, e)
  BY <1>1 DEF InPlace, PlaceAt, Contexts
<1>4. e \in OfCharacteristic /\ c.element \in Named \ Arrays
  BY <1>1 DEF OfCharacteristic, Named, Arrays
<1>5. Simple(db, c, e) = "limit"
  BY <1>1 DEF Simple
<1>6. "limit" \in Tokens /\ Rest(db, c) = <<"limit">> \o Behind(db, c, e)
  BY <1>1, <1>4, <1>5, SimpleForm
<1>7. Fields(db, c, e) = CharacteristicFields(CharacteristicAt(db, c))
  BY <1>3, <1>4, CharacteristicIs
<1>8. /\ Behind(db, c, e) = RestAt(db, c, o, p) /\ PlaceAt(db, c, o, p)
      /\ p \in PartsOf(o) /\ Behind(db, c, e) \in Text
  BY <1>1, <1>2, <1>3, <1>4, <1>7, EndsStep DEF NoFields
<1>9. o \in Elements
  BY <1>2 DEF Elements, ObjectElements
<1>10. PICK x : x = "limit"
  OBVIOUS
<1>11. x \in Tokens /\ Rest(db, c) = <<x>> \o RestAt(db, c, o, p)
  BY <1>6, <1>8, <1>10
<1>12. Serializes(db, c, Out(x, At(c, o, p)))
  BY <1>3, <1>8, <1>9, <1>11, OutStep
<1> QED
  BY <1>2, <1>10, <1>12

LEMMA LimitsFollow ==
    ASSUME Databased(db), NEW c, InPlace(db, c), c.part = "Value",
           c.element \in {"StepValue", "MaxLength", "MaxDataLength"}
    PROVE  Serializes(db, c, ValuesStep(c))
<1>1. PICK ch : ch = CharacteristicAt(db, c)
  OBVIOUS
<1>2. c.element \in OfCharacteristic /\ c.element \in Named \ Arrays
  BY DEF OfCharacteristic, Named, Arrays
<1>3. Held(db, c, c.element) /\ ThisField(db, c, c.element) # <<>>
  BY <1>2, SimpleForm DEF InPlace, PlaceAt
<1>4. /\ ch \in CharacteristicRecords /\ Characteristic(c) = ch
      /\ CharacteristicFields(ch)[Place[c.element]] # <<>>
  BY <1>1, <1>2, <1>3, CharacteristicIs
<1> DEFINE F == CharacteristicFields(ch)
<1>5. /\ F[11] # <<>> => ch.format \in Numbers /\ ch.constrained
      /\ F[12] # <<>> <=> ch.format = "string" /\ ch.constrained
      /\ F[13] # <<>> <=> ch.format = "data" /\ ch.constrained
      /\ F[14] # <<>> => ch.format = "uint8"
      /\ F[15] # <<>> => ch.format = "uint8"
  BY <1>4, CharacteristicHas
<1>6. "uint8" \in Numbers /\ "string" \notin Numbers /\ "data" \notin Numbers
  BY DEF Numbers
<1> HIDE DEF F
<1>7. CASE c.element = "StepValue" /\ ch.format = "uint8"
  <2>1. ValuesStep(c) = StepValueStep(c)
    BY <1>7 DEF ValuesStep
  <2>2. Simple(db, c, c.element) = "limit"
    BY <1>7 DEF Simple
  <2>3. Serializes(db, c, Out("limit", At(c, c.element, "ValueSeparator")))
    BY <1>1, <1>2, <1>7, <2>2, ValueOut
  <2> QED
    BY <1>4, <1>7, <2>1, <2>3 DEF StepValueStep
<1>8. CASE c.element = "StepValue" /\ ch.format # "uint8"
  <2>1. ValuesStep(c) = StepValueStep(c)
    BY <1>8 DEF ValuesStep
  <2>2. F[11] # <<>> /\ Place[c.element] = 11
    BY <1>4, <1>8, CharacteristicPlace DEF F
  <2>3. NoFields(ch, 11 + 1, 15)
    BY <1>5, <1>6, <1>8, <2>2 DEF NoFields, F
  <2>4. Serializes(db, c, Out("limit", At(c, "CharacteristicObject", "End")))
    BY <1>1, <2>2, <2>3, ValueEnd
  <2> QED
    BY <1>4, <1>8, <2>1, <2>4 DEF StepValueStep
<1>9. CASE c.element = "MaxLength"
  <2>1. ValuesStep(c) = LengthStep(c)
    BY <1>9 DEF ValuesStep
  <2>2. F[12] # <<>> /\ Place[c.element] = 12
    BY <1>4, <1>9, CharacteristicPlace DEF F
  <2>3. NoFields(ch, 12 + 1, 15)
    BY <1>5, <1>6, <1>9, <2>2 DEF NoFields, F
  <2>4. Serializes(db, c, Out("limit", At(c, "CharacteristicObject", "End")))
    BY <1>1, <2>2, <2>3, ValueEnd
  <2> QED
    BY <2>1, <2>4 DEF LengthStep
<1>10. CASE c.element = "MaxDataLength"
  <2>1. ValuesStep(c) = LengthStep(c)
    BY <1>10 DEF ValuesStep
  <2>2. F[13] # <<>> /\ Place[c.element] = 13
    BY <1>4, <1>10, CharacteristicPlace DEF F
  <2>3. NoFields(ch, 13 + 1, 15)
    BY <1>5, <1>6, <1>10, <2>2 DEF NoFields, F
  <2>4. Serializes(db, c, Out("limit", At(c, "CharacteristicObject", "End")))
    BY <1>1, <2>2, <2>3, ValueEnd
  <2> QED
    BY <2>1, <2>4 DEF LengthStep
<1> QED
  BY <1>7, <1>8, <1>9, <1>10

LEMMA ValuesAre ==
    ASSUME NEW c, c.element \in Named \ Arrays,
           c.element \notin {"StepValue", "MaxLength", "MaxDataLength"}
    PROVE  ValuesStep(c) = Out(Simple(db, c, c.element), At(c, c.element, "ValueSeparator"))
<1> DEFINE e == c.element
<1>0. /\ Accessory(c) = AccessoryAt(db, c) /\ Service(c) = ServiceAt(db, c)
      /\ Characteristic(c) = CharacteristicAt(db, c)
  BY Current
<1>1. CASE e \in {"AccessoryID", "ServiceID", "ServiceType", "ServicePropertyPrimary",
                  "ServicePropertyHidden"}
  <2>1. ValuesStep(c) = ServiceValueStep(c)
    BY <1>1 DEF ValuesStep
  <2> QED
    BY <1>0, <1>1, <2>1 DEF ServiceValueStep, Simple
<1>2. CASE e \in {"CharacteristicID", "CharacteristicType", "CharacteristicFormat"}
  <2>1. ValuesStep(c) = HeadStep(c)
    BY <1>2 DEF ValuesStep
  <2> QED
    BY <1>0, <1>2, <2>1 DEF HeadStep, Simple
<1>3. CASE e = "CharacteristicValue"
  <2>1. ValuesStep(c) = ValueStep(c)
    BY <1>3 DEF ValuesStep
  <2> QED
    BY <1>0, <1>3, <2>1 DEF ValueStep, Simple
<1>4. CASE e = "EventNotifications"
  <2>1. ValuesStep(c) = EventNotificationsStep(c)
    BY <1>4 DEF ValuesStep
  <2> QED
    BY <1>0, <1>4, <2>1 DEF EventNotificationsStep, Simple
<1>5. CASE e = "Description"
  <2>1. ValuesStep(c) = DescriptionStep(c)
    BY <1>5 DEF ValuesStep
  <2> QED
    BY <1>0, <1>5, <2>1 DEF DescriptionStep, Simple
<1>6. CASE e = "Unit"
  <2>1. ValuesStep(c) = UnitStep(c)
    BY <1>6 DEF ValuesStep
  <2> QED
    BY <1>0, <1>6, <2>1 DEF UnitStep, Simple
<1>7. CASE e \in {"MinimumValue", "MaximumValue"}
  <2>1. ValuesStep(c) = LimitStep(c)
    BY <1>7 DEF ValuesStep
  <2> QED
    BY <1>7, <2>1 DEF LimitStep, Simple
<1> QED
  BY <1>1, <1>2, <1>3, <1>4, <1>5, <1>6, <1>7 DEF Named, OfAccessory, OfService, OfCharacteristic, Arrays

LEMMA ValueFollows ==
    ASSUME Databased(db), NEW c, InPlace(db, c), c.part = "Value", c.element \notin Lists
    PROVE  Serializes(db, c, ValuesStep(c))
<1>1. c.element \in Elements /\ "Value" \in PartsOf(c.element)
  BY DEF InPlace, PlaceAt, Contexts
<1>2. c.element \in Named \ Arrays
  BY <1>1 DEF PartsOf, Arrays, Elements, Named, OfAccessory, OfService, OfCharacteristic,
              ObjectElements, Items, Ranges, Lists
<1>3. CASE c.element \in {"StepValue", "MaxLength", "MaxDataLength"}
  BY <1>3, LimitsFollow
<1>4. CASE c.element \notin {"StepValue", "MaxLength", "MaxDataLength"}
  BY <1>2, <1>4, ValueOut, ValuesAre
<1> QED
  BY <1>3, <1>4

-----------------------------------------------------------------------------
(* Objects.                                                                *)

FirstField ==
    [ResponseObject |-> "AccessoriesArray", AccessoryObject |-> "AccessoryID",
     ServiceObject |-> "ServiceID", CharacteristicObject |-> "CharacteristicID"]

LEMMA FirstFieldIs ==
    ASSUME NEW d, NEW c, NEW o \in ObjectElements, Held(d, c, o)
    PROVE  /\ FirstField[o] \in Named /\ Place[FirstField[o]] = 1
           /\ Held(d, c, FirstField[o])
           /\ Fields(d, c, FirstField[o]) = ObjectOf(d, c, o)
           /\ Outside(d, c, FirstField[o]) = ObjectTail(d, c, o)
<1>1. CASE o = "ResponseObject"
  <2>1. FirstField[o] = "AccessoriesArray"
    BY <1>1 DEF FirstField
  <2>2. Held(d, c, "AccessoriesArray")
    BY Apart DEF Held, WithinService, WithinAccessory
  <2> QED
    BY <1>1, <2>1, <2>2 DEF Named, Place, Fields, Outside, ObjectOf, ObjectTail,
          OfAccessory, OfService, OfCharacteristic
<1>2. CASE o = "AccessoryObject"
  <2>1. FirstField[o] = "AccessoryID"
    BY <1>2 DEF FirstField
  <2>2. c.accessory \in DOMAIN d
    BY <1>2 DEF Held, WithinAccessory
  <2>3. "AccessoryID" \notin WithinService /\ "AccessoryID" \notin WithinCharacteristic
    BY DEF WithinService, WithinCharacteristic, OfService, OfCharacteristic, Ranges
  <2>4. Held(d, c, "AccessoryID")
    BY <2>2, <2>3 DEF Held
  <2> QED
    BY <1>2, <2>1, <2>4 DEF Named, Place, Fields, Outside, ObjectOf, ObjectTail,
          OfAccessory, OfService, OfCharacteristic
<1>3. CASE o = "ServiceObject"
  <2>1. FirstField[o] = "ServiceID"
    BY <1>3 DEF FirstField
  <2>2. o \in WithinService /\ o \in WithinAccessory
    BY <1>3 DEF WithinAccessory, WithinService
  <2>3. "ServiceID" \notin WithinCharacteristic
    BY DEF WithinCharacteristic, OfCharacteristic, Ranges
  <2>4. Held(d, c, "ServiceID")
    BY <2>2, <2>3 DEF Held
  <2> QED
    BY <1>3, <2>1, <2>4 DEF Named, Place, Fields, Outside, ObjectOf, ObjectTail,
          OfAccessory, OfService, OfCharacteristic
<1>4. CASE o = "CharacteristicObject"
  <2>1. FirstField[o] = "CharacteristicID"
    BY <1>4 DEF FirstField
  <2>2. o \in WithinService /\ o \in WithinAccessory /\ o \in WithinCharacteristic
    BY <1>4 DEF WithinAccessory, WithinService, WithinCharacteristic
  <2>4. Held(d, c, "CharacteristicID")
    BY <2>2 DEF Held
  <2> QED
    BY <1>4, <2>1, <2>4 DEF Named, Place, Fields, Outside, ObjectOf, ObjectTail,
          OfAccessory, OfService, OfCharacteristic
<1> QED
  BY <1>1, <1>2, <1>3, <1>4 DEF ObjectElements

LEMMA FirstFieldThere ==
    ASSUME Databased(db), NEW c, NEW o \in ObjectElements, Held(db, c, o)
    PROVE  ThisField(db, c, FirstField[o]) # <<>>
<1>1. PICK f : f = FirstField[o]
  OBVIOUS
<1>2. f \in Named /\ Place[f] = 1 /\ Held(db, c, f)
  BY <1>1, FirstFieldIs
<1>3. CASE o = "ResponseObject"
  <2>1. f = "AccessoriesArray"
    BY <1>1, <1>3 DEF FirstField
  <2>2. Field("accessories", Array(AccessoryDocumentsOf(db))) # <<>>
    BY ResponseFieldsAre, NameTokens, ArrayField
  <2>3. Fields(db, c, f) = ResponseFields(db)
    BY <2>1 DEF Fields, OfAccessory, OfService, OfCharacteristic
  <2> QED
    BY <1>1, <1>2, <2>2, <2>3, ResponseFieldsAre DEF ThisField
<1>4. CASE o \in {"AccessoryObject", "ServiceObject"}
  <2>1. f \in OfAccessory \cup OfService
    BY <1>1, <1>4 DEF FirstField, OfAccessory, OfService
  <2> QED
    BY <1>1, <1>2, <2>1, OfServiceFields
<1>5. CASE o = "CharacteristicObject"
  <2>1. f \in OfCharacteristic
    BY <1>1, <1>5 DEF FirstField, OfCharacteristic
  <2>2. PICK ch : ch = CharacteristicAt(db, c)
    OBVIOUS
  <2>3. ch \in CharacteristicRecords /\ ThisField(db, c, f) = CharacteristicFields(ch)[Place[f]]
    BY <1>2, <2>1, <2>2, CharacteristicIs
  <2>4. CharacteristicFields(ch)[1] # <<>>
    BY <2>3, CharacteristicHas
  <2> QED
    BY <1>1, <1>2, <2>3, <2>4
<1> QED
  BY <1>3, <1>4, <1>5 DEF ObjectElements

LEMMA ObjectBegins ==
    ASSUME Databased(db), NEW c, NEW o \in ObjectElements, Held(db, c, o)
    PROVE  FromObject(db, c, o) = <<"{">> \o NamedRest(db, c, FirstField[o], "Name")
<1>1. PICK f : f = FirstField[o]
  OBVIOUS
<1>2. /\ f \in Named /\ Place[f] = 1 /\ Held(db, c, f)
      /\ Fields(db, c, f) = ObjectOf(db, c, o) /\ Outside(db, c, f) = ObjectTail(db, c, o)
  BY <1>1, FirstFieldIs
<1>3. ThisField(db, c, f) # <<>>
  BY <1>1, FirstFieldThere
<1> DEFINE F == Fields(db, c, f)
           t == Outside(db, c, f)
<1>4. F \in Parts /\ t \in Text /\ 1 \in 1 .. Len(F)
  BY <1>2, NamedTyped
<1>5. F[1] # <<>>
  BY <1>2, <1>3 DEF ThisField
<1>6. FromObject(db, c, o) = Object(F) \o t
  BY <1>2 DEF FromObject
<1>7. NamedRest(db, c, f, "Name") = F[1] \o (Commas(F)[1 + 1] \o (<<"}">> \o t))
  BY <1>2 DEF NamedRest, ThisField, Behind
<1> HIDE DEF F, t
<1>8. 1 \in DOMAIN F
  BY <1>4 DEF Parts
<1>9. Object(F) \o t = <<"{">> \o (F[1] \o (Commas(F)[2] \o (<<"}">> \o t)))
  BY <1>4, <1>5, <1>8, ObjectFrom
<1>10. 1 + 1 = 2
  OBVIOUS
<1> QED
  BY <1>1, <1>6, <1>7, <1>9, <1>10

LEMMA ObjectPlace ==
    ASSUME NEW d, NEW c, NEW o \in ObjectElements, Held(d, c, o), NEW p \in PartsOf(o)
    PROVE  PlaceAt(d, c, o, p)
<1>1. o \notin Named /\ o \notin Items \cup Ranges /\ o # "StepValue"
  BY Apart DEF ObjectElements
<1>2. Indexed(d, c, o)
  BY <1>1 DEF Indexed
<1>3. Present(d, c, o, p)
  BY <1>1 DEF Present, Items
<1> QED
  BY <1>2, <1>3 DEF PlaceAt

LEMMA ObjectFollows ==
    ASSUME Databased(db), NEW c, InPlace(db, c), c.element \in ObjectElements
    PROVE  /\ c.part = "Begin" =>
                Serializes(db, c, Out("{", At(c, FirstField[c.element], "Name")))
           /\ c.part = "Separator" =>
                Serializes(db, c, Out(",", At(c, c.element, "Begin")))
<1>1. PICK o : o = c.element
  OBVIOUS
<1>2. PICK f : f = FirstField[o]
  OBVIOUS
<1>3. c \in Contexts /\ o \in Elements /\ Held(db, c, o) /\ o \in ObjectElements
  BY <1>1 DEF InPlace, PlaceAt, Contexts
<1>4. /\ f \in Named /\ Held(db, c, f) /\ ThisField(db, c, f) # <<>>
  BY <1>2, <1>3, FirstFieldIs, FirstFieldThere
<1>5. FromObject(db, c, o) = <<"{">> \o NamedRest(db, c, f, "Name")
  BY <1>2, <1>3, ObjectBegins
<1>6. Rest(db, c) = ObjectRest(db, c, o, c.part)
  BY <1>1, RestIs DEF Rest
<1>7. ASSUME c.part = "Begin" PROVE Serializes(db, c, Out("{", At(c, f, "Name")))
  <2>1. PICK p : p = "Name"
    OBVIOUS
  <2>2. p \in PartsOf(f) /\ f \in Elements
    BY <1>4, <2>1, NamedParts
  <2>3. PlaceAt(db, c, f, p)
    BY <1>4, <2>1, <2>2, NamedPlace
  <2>4. Rest(db, c) = <<"{">> \o RestAt(db, c, f, p)
    <3>1. Rest(db, c) = FromObject(db, c, o)
      BY <1>6, <1>7 DEF ObjectRest
    <3>2. RestAt(db, c, f, p) = NamedRest(db, c, f, "Name")
      BY <1>4, <2>1, RestIs
    <3> QED
      BY <1>5, <3>1, <3>2
  <2>5. PICK x : x = "{"
    OBVIOUS
  <2>6. x \in Tokens /\ Rest(db, c) = <<x>> \o RestAt(db, c, f, p)
    BY <2>4, <2>5, Brackets
  <2>7. Serializes(db, c, Out(x, At(c, f, p)))
    BY <1>3, <2>2, <2>3, <2>6, OutStep
  <2> QED
    BY <2>1, <2>5, <2>7
<1>8. ASSUME c.part = "Separator" PROVE Serializes(db, c, Out(",", At(c, o, "Begin")))
  <2>1. PICK p : p = "Begin"
    OBVIOUS
  <2>2. p \in PartsOf(o)
    BY <1>3, <2>1 DEF PartsOf, ObjectElements, Arrays, Named, OfAccessory, OfService, OfCharacteristic
  <2>3. PlaceAt(db, c, o, p)
    BY <1>3, <2>2, ObjectPlace
  <2>4. RestAt(db, c, o, p) = FromObject(db, c, o)
    <3>1. RestAt(db, c, o, p) = ObjectRest(db, c, o, p)
      BY <1>3, RestIs
    <3> QED
      BY <2>1, <3>1 DEF ObjectRest
  <2>5. PICK x : x = ","
    OBVIOUS
  <2>a. Rest(db, c) = <<",">> \o FromObject(db, c, o)
    BY <1>6, <1>8 DEF ObjectRest
  <2>6. x \in Tokens /\ Rest(db, c) = <<x>> \o RestAt(db, c, o, p)
    BY <2>a, <2>4, <2>5, Brackets
  <2>7. Serializes(db, c, Out(x, At(c, o, p)))
    BY <1>3, <2>2, <2>3, <2>6, OutStep
  <2> QED
    BY <2>1, <2>5, <2>7
<1> QED
  BY <1>1, <1>2, <1>7, <1>8

-----------------------------------------------------------------------------
(* What does not depend on the later indices.                              *)

LEMMA Shared ==
    ASSUME NEW d, NEW c, NEW q, q.accessory = c.accessory
    PROVE  /\ AccessoryAt(d, q) = AccessoryAt(d, c)
           /\ AccessoriesTail(d, q) = AccessoriesTail(d, c)
           /\ \A e \in OfAccessory : Behind(d, q, e) = Behind(d, c, e)
           /\ q.service = c.service =>
                /\ ServiceAt(d, q) = ServiceAt(d, c)
                /\ ServicesTail(d, q) = ServicesTail(d, c)
                /\ \A e \in OfService : Behind(d, q, e) = Behind(d, c, e)
                /\ q.characteristic = c.characteristic =>
                    /\ CharacteristicAt(d, q) = CharacteristicAt(d, c)
                    /\ CharacteristicsTail(d, q) = CharacteristicsTail(d, c)
                    /\ \A e \in OfCharacteristic : Behind(d, q, e) = Behind(d, c, e)
<1>1. AccessoryAt(d, q) = AccessoryAt(d, c) /\ AccessoriesTail(d, q) = AccessoriesTail(d, c)
  BY DEF AccessoryAt, AccessoriesTail
<1>2. ASSUME NEW e \in OfAccessory PROVE Behind(d, q, e) = Behind(d, c, e)
  <2>1. Fields(d, q, e) = Fields(d, c, e) /\ Outside(d, q, e) = Outside(d, c, e)
    BY <1>1 DEF Fields, Outside, OfAccessory, OfService, OfCharacteristic
  <2> QED
    BY <2>1 DEF Behind
<1>3. ASSUME q.service = c.service
      PROVE  ServiceAt(d, q) = ServiceAt(d, c) /\ ServicesTail(d, q) = ServicesTail(d, c)
  BY <1>1, <1>3 DEF ServiceAt, ServicesTail
<1>4. ASSUME q.service = c.service, NEW e \in OfService PROVE Behind(d, q, e) = Behind(d, c, e)
  <2>1. Fields(d, q, e) = Fields(d, c, e) /\ Outside(d, q, e) = Outside(d, c, e)
    BY <1>3, <1>4 DEF Fields, Outside, OfAccessory, OfService, OfCharacteristic
  <2> QED
    BY <2>1 DEF Behind
<1>5. ASSUME q.service = c.service, q.characteristic = c.characteristic
      PROVE  /\ CharacteristicAt(d, q) = CharacteristicAt(d, c)
             /\ CharacteristicsTail(d, q) = CharacteristicsTail(d, c)
  BY <1>3, <1>5 DEF CharacteristicAt, CharacteristicsTail
<1>6. ASSUME q.service = c.service, q.characteristic = c.characteristic, NEW e \in OfCharacteristic
      PROVE  Behind(d, q, e) = Behind(d, c, e)
  <2>1. Fields(d, q, e) = Fields(d, c, e) /\ Outside(d, q, e) = Outside(d, c, e)
    BY <1>5, <1>6 DEF Fields, Outside, OfAccessory, OfService, OfCharacteristic
  <2> QED
    BY <2>1 DEF Behind
<1> QED
  BY <1>1, <1>2, <1>3, <1>4, <1>5, <1>6

-----------------------------------------------------------------------------
(* Arrays of documents.                                                    *)

LEMMA SeekService ==
    ASSUME NEW list \in Seq(ServiceRecords), NEW i \in 1 .. Len(list) + 1,
           NEW j, j = Seek(list, i, SupportsService)
    PROVE  /\ j \in i .. Len(list) + 1
           /\ j <= Len(list) => SupportsService(list[j])
           /\ \A k \in i .. j - 1 : ~SupportsService(list[k])
<1> DEFINE found == {k \in i .. Len(list) : SupportsService(list[k])}
<1>0. i \in Nat /\ Len(list) \in Nat
  OBVIOUS
<1>1. CASE found = {}
  <2>1. j = Len(list) + 1
    BY <1>1 DEF Seek
  <2> QED
    BY <1>0, <1>1, <2>1
<1>2. CASE found # {}
  <2>1. j = CHOOSE k \in found : \A m \in found : k <= m
    BY <1>2 DEF Seek
  <2>2. found \in SUBSET Nat
    BY <1>0
  <2>3. \E k \in found : \A m \in found : k <= m
    <3> HIDE DEF found
    <3> QED
      BY <1>2, <2>2, LeastNatural
  <2>4. j \in found /\ \A m \in found : j <= m
    <3> HIDE DEF found
    <3> QED
      BY <2>1, <2>3
  <2>5. j \in i .. Len(list) /\ SupportsService(list[j])
    BY <2>4
  <2>6. ASSUME NEW k \in i .. j - 1 PROVE ~SupportsService(list[k])
    <3>1. k \in i .. Len(list) /\ ~(j <= k)
      BY <1>0, <2>5
    <3>2. k \notin found
      BY <2>4, <3>1
    <3> QED
      BY <3>1, <3>2
  <2>7. j \in i .. Len(list) + 1
    BY <1>0, <2>5
  <2> HIDE DEF found
  <2> QED
    BY <2>5, <2>6, <2>7
<1> QED
  BY <1>1, <1>2

LEMMA SeekCharacteristic ==
    ASSUME NEW list \in Seq(CharacteristicRecords), NEW i \in 1 .. Len(list) + 1,
           NEW j, j = Seek(list, i, IsSupported)
    PROVE  /\ j \in i .. Len(list) + 1
           /\ j <= Len(list) => IsSupported(list[j])
           /\ \A k \in i .. j - 1 : ~IsSupported(list[k])
<1> DEFINE found == {k \in i .. Len(list) : IsSupported(list[k])}
<1>0. i \in Nat /\ Len(list) \in Nat
  OBVIOUS
<1>1. CASE found = {}
  <2>1. j = Len(list) + 1
    BY <1>1 DEF Seek
  <2> QED
    BY <1>0, <1>1, <2>1
<1>2. CASE found # {}
  <2>1. j = CHOOSE k \in found : \A m \in found : k <= m
    BY <1>2 DEF Seek
  <2>2. found \in SUBSET Nat
    BY <1>0
  <2>3. \E k \in found : \A m \in found : k <= m
    <3> HIDE DEF found
    <3> QED
      BY <1>2, <2>2, LeastNatural
  <2>4. j \in found /\ \A m \in found : j <= m
    <3> HIDE DEF found
    <3> QED
      BY <2>1, <2>3
  <2>5. j \in i .. Len(list) /\ IsSupported(list[j])
    BY <2>4
  <2>6. ASSUME NEW k \in i .. j - 1 PROVE ~IsSupported(list[k])
    <3>1. k \in i .. Len(list) /\ ~(j <= k)
      BY <1>0, <2>5
    <3>2. k \notin found
      BY <2>4, <3>1
    <3> QED
      BY <3>1, <3>2
  <2>7. j \in i .. Len(list) + 1
    BY <1>0, <2>5
  <2> HIDE DEF found
  <2> QED
    BY <2>5, <2>6, <2>7
<1> QED
  BY <1>1, <1>2

\* From the item j of an array on, when there is one, and what follows the array.
FromPart(parts, j, t) == parts[j] \o (Commas(parts)[j + 1] \o (<<"]">> \o t))

LEMMA ArrayBegins ==
    ASSUME NEW parts \in Parts, NEW t \in Text, NEW j \in 1 .. Len(parts) + 1,
           \A k \in 1 .. j - 1 : parts[k] = <<>>, j <= Len(parts) => parts[j] # <<>>
    PROVE  Array(parts) \o t = <<"[">> \o (IF j <= Len(parts) THEN FromPart(parts, j, t)
                                           ELSE <<"]">> \o t)
<1>0. Len(parts) \in Nat /\ DOMAIN parts = 1 .. Len(parts)
  BY DEF Parts
<1>1. CASE j <= Len(parts)
  <2>1. j \in DOMAIN parts /\ parts[j] # <<>>
    BY <1>0, <1>1
  <2>2. Array(parts) \o t = <<"[">> \o FromPart(parts, j, t)
    BY <2>1, ArrayFrom DEF FromPart
  <2> QED
    BY <1>1, <2>2
<1>2. CASE ~(j <= Len(parts))
  <2>1. \A k \in DOMAIN parts : parts[k] = <<>>
    BY <1>0, <1>2
  <2>2. Array(parts) \o t = <<"[">> \o (<<"]">> \o t)
    BY <2>1, ArrayNone
  <2> QED
    BY <1>2, <2>2
<1> QED
  BY <1>1, <1>2

LEMMA ArrayGoesOn ==
    ASSUME NEW parts \in Parts, NEW t \in Text, NEW i \in 1 .. Len(parts) + 1,
           NEW j \in i .. Len(parts) + 1,
           \A k \in i .. j - 1 : parts[k] = <<>>, j <= Len(parts) => parts[j] # <<>>
    PROVE  Commas(parts)[i] \o (<<"]">> \o t)
            = IF j <= Len(parts) THEN <<",">> \o FromPart(parts, j, t) ELSE <<"]">> \o t
<1>0. Len(parts) \in Nat /\ DOMAIN parts = 1 .. Len(parts) /\ i \in Nat /\ j \in Nat
  BY DEF Parts
<1>1. <<"]">> \o t \in Text
  BY Brackets, OneToken, TextConcat
<1>2. CASE j <= Len(parts)
  <2>1. j \in i .. Len(parts) /\ parts[j] # <<>> /\ j + 1 \in 1 .. Len(parts) + 1
    BY <1>0, <1>2
  <2>2. Commas(parts)[i] = <<",">> \o (parts[j] \o Commas(parts)[j + 1])
    BY <2>1, NextPartFrom
  <2> DEFINE a == parts[j]
             b == Commas(parts)[j + 1]
             z == <<"]">> \o t
             m == <<",">>
  <2>a. parts[j] \in Text
    BY <1>0, <2>1 DEF Parts
  <2>b. Commas(parts)[j + 1] \in Text
    BY <2>1, CommasTyped
  <2>c. <<",">> \in Text
    BY Brackets, OneToken
  <2>3. a \in Text /\ b \in Text /\ z \in Text /\ m \in Text
    BY <1>1, <2>a, <2>b, <2>c
  <2> HIDE DEF a, b, z, m
  <2>4. Cat(Cat(m, Cat(a, b)), z) = Cat(m, Cat(a, Cat(b, z)))
    BY <2>3, ThreeInside
  <2>7. (m \o (a \o b)) \o z = m \o (a \o (b \o z))
    BY <2>4 DEF Cat
  <2> QED
    BY <1>2, <2>2, <2>7 DEF a, b, z, m, FromPart
<1>3. CASE ~(j <= Len(parts))
  <2>1. \A k \in i .. Len(parts) : parts[k] = <<>>
    BY <1>0, <1>3
  <2>2. Commas(parts)[i] = <<>>
    BY <2>1, NoPartsFrom
  <2>3. <<>> \o (<<"]">> \o t) = <<"]">> \o t
    BY <1>1, NothingBefore
  <2> QED
    BY <1>3, <2>2, <2>3
<1> QED
  BY <1>2, <1>3

\* The objects whose last field is an array.
Owner ==
    [AccessoriesArray |-> "ResponseObject", ServicesArray |-> "AccessoryObject",
     CharacteristicsArray |-> "ServiceObject",
     ValidValuesRangesArray |-> "CharacteristicObject"]

LEMMA LastField ==
    ASSUME Databased(db), NEW c, NEW e \in DOMAIN Owner, Held(db, c, e)
    PROVE  /\ e \in Named /\ Owner[e] \in ObjectElements /\ Held(db, c, Owner[e])
           /\ Behind(db, c, e) = <<"}">> \o ObjectTail(db, c, Owner[e])
           /\ ObjectTail(db, c, Owner[e]) \in Text /\ Behind(db, c, e) \in Text
<1>0. e \in Named /\ Owner[e] \in ObjectElements
  BY DEF Owner, Named, ObjectElements, OfAccessory, OfService, OfCharacteristic
<1>1. Held(db, c, Owner[e]) /\ Outside(db, c, e) = ObjectTail(db, c, Owner[e])
      /\ Len(Fields(db, c, e)) = Place[e]
  <2>1. CASE e = "AccessoriesArray"
    <3>1. Owner[e] = "ResponseObject" /\ Place[e] = 1
      BY <2>1 DEF Owner, Place
    <3>2. Held(db, c, "ResponseObject")
      BY Apart DEF Held, WithinService, WithinAccessory
    <3>3. Fields(db, c, e) = ResponseFields(db) /\ Outside(db, c, e) = <<>>
      BY <2>1 DEF Fields, Outside, OfAccessory, OfService, OfCharacteristic
    <3> QED
      BY <3>1, <3>2, <3>3, ResponseFieldsAre DEF ObjectTail
  <2>2. CASE e = "ServicesArray"
    <3>1. Owner[e] = "AccessoryObject" /\ Place[e] = 2
      BY <2>2 DEF Owner, Place
    <3>2. e \in WithinAccessory /\ c.accessory \in DOMAIN db
      BY <2>2 DEF Held, WithinAccessory, OfAccessory
    <3>3. "AccessoryObject" \notin WithinService /\ "AccessoryObject" \notin WithinCharacteristic
      BY DEF WithinService, WithinCharacteristic, OfService, OfCharacteristic, Ranges
    <3>4. Held(db, c, "AccessoryObject")
      BY <3>2, <3>3 DEF Held
    <3>5. Fields(db, c, e) = AccessoryFields(AccessoryAt(db, c))
          /\ Outside(db, c, e) = AccessoriesTail(db, c)
      BY <2>2 DEF Fields, Outside, OfAccessory, OfService, OfCharacteristic
    <3>6. AccessoryAt(db, c) \in AccessoryRecords
      BY <3>2, RecordsAre
    <3> QED
      BY <3>1, <3>4, <3>5, <3>6, AccessoryFieldsAre DEF ObjectTail
  <2>3. CASE e = "CharacteristicsArray"
    <3>1. Owner[e] = "ServiceObject" /\ Place[e] = 6
      BY <2>3 DEF Owner, Place
    <3>2. e \in WithinService /\ e \in WithinAccessory
      BY <2>3 DEF WithinService, WithinAccessory, OfService
    <3>3. "ServiceObject" \notin WithinCharacteristic
      BY DEF WithinCharacteristic, OfCharacteristic, Ranges
    <3>4. Held(db, c, "ServiceObject")
      BY <3>2, <3>3 DEF Held
    <3>5. Fields(db, c, e) = ServiceFields(ServiceAt(db, c))
          /\ Outside(db, c, e) = ServicesTail(db, c)
      BY <2>3 DEF Fields, Outside, OfAccessory, OfService, OfCharacteristic
    <3>6. ServiceAt(db, c) \in ServiceRecords
      BY <3>2, RecordsAre
    <3> QED
      BY <3>1, <3>4, <3>5, <3>6, ServiceFieldsAre DEF ObjectTail
  <2>4. CASE e = "ValidValuesRangesArray"
    <3>1. Owner[e] = "CharacteristicObject" /\ Place[e] = 15
      BY <2>4 DEF Owner, Place
    <3>2. e \in WithinService /\ e \in WithinAccessory /\ e \in WithinCharacteristic
      BY <2>4 DEF WithinService, WithinAccessory, WithinCharacteristic, OfCharacteristic
    <3>4. Held(db, c, "CharacteristicObject")
      BY <3>2 DEF Held
    <3>5. Fields(db, c, e) = CharacteristicFields(CharacteristicAt(db, c))
          /\ Outside(db, c, e) = CharacteristicsTail(db, c)
      BY <2>4 DEF Fields, Outside, OfAccessory, OfService, OfCharacteristic
    <3>6. CharacteristicAt(db, c) \in CharacteristicRecords
      BY <3>2, RecordsAre
    <3> QED
      BY <3>1, <3>4, <3>5, <3>6, CharacteristicFieldsAre DEF ObjectTail
  <2> QED
    BY <2>1, <2>2, <2>3, <2>4 DEF Owner
<1>2. Outside(db, c, e) \in Text /\ Behind(db, c, e) \in Text /\ Place[e] \in 1 .. Len(Fields(db, c, e))
  BY <1>0, NamedTyped
<1>3. \A k \in Place[e] + 1 .. Len(Fields(db, c, e)) : Fields(db, c, e)[k] = <<>>
  BY <1>1, <1>2
<1>4. Behind(db, c, e) = <<"}">> \o Outside(db, c, e)
  BY <1>0, <1>3, ToObjectEnd
<1> QED
  BY <1>0, <1>1, <1>2, <1>4

\* The end of such an array.
LEMMA ArrayEnds ==
    ASSUME Databased(db), NEW c, InPlace(db, c), c.element \in DOMAIN Owner, c.part = "End"
    PROVE  Serializes(db, c, Out("]", At(c, Owner[c.element], "End")))
<1>1. PICK e, o, p, x : e = c.element /\ o = Owner[e] /\ p = "End" /\ x = "]"
  OBVIOUS
<1>2. c \in Contexts /\ Held(db, c, e)
  BY <1>1 DEF InPlace, PlaceAt
<1>3. /\ e \in Named /\ o \in ObjectElements /\ Held(db, c, o)
      /\ Behind(db, c, e) = <<"}">> \o ObjectTail(db, c, o)
  BY <1>1, <1>2, LastField
<1>4. Rest(db, c) = NamedRest(db, c, e, "End")
  BY <1>1, <1>3, RestIs DEF Rest
<1>5. Rest(db, c) = <<"]">> \o Behind(db, c, e)
  BY <1>4 DEF NamedRest
<1>6. RestAt(db, c, o, p) = ObjectRest(db, c, o, p)
  BY <1>3, RestIs
<1>7. RestAt(db, c, o, p) = <<"}">> \o ObjectTail(db, c, o)
  BY <1>1, <1>6 DEF ObjectRest
<1>8. p \in PartsOf(o) /\ o \in Elements
  BY <1>1, <1>3 DEF PartsOf, ObjectElements, Arrays, Named, OfAccessory, OfService,
                    OfCharacteristic, Elements
<1>9. PlaceAt(db, c, o, p)
  BY <1>3, <1>8, ObjectPlace
<1>10. x \in Tokens /\ Rest(db, c) = <<x>> \o RestAt(db, c, o, p)
  BY <1>1, <1>3, <1>5, <1>7, Brackets
<1>11. Serializes(db, c, Out(x, At(c, o, p)))
  BY <1>2, <1>8, <1>9, <1>10, OutStep
<1> QED
  BY <1>1, <1>11

-----------------------------------------------------------------------------
(* The documents of the accessories, services and characteristics.         *)

DocumentArrays == {"AccessoriesArray", "ServicesArray", "CharacteristicsArray"}
Documents == {"AccessoryObject", "ServiceObject", "CharacteristicObject"}

LEMMA ArrayEndPlace ==
    ASSUME Databased(db), NEW q, NEW e \in DocumentArrays, Held(db, q, e)
    PROVE  /\ PlaceAt(db, q, e, "End") /\ "End" \in PartsOf(e) /\ e \in Elements
           /\ RestAt(db, q, e, "End") = <<"]">> \o Behind(db, q, e)
<1>1. e \in Named /\ e \in Arrays /\ e # "StepValue"
  BY DEF DocumentArrays, Named, Arrays, OfAccessory, OfService
<1>2. ThisField(db, q, e) # <<>>
  <2>1. CASE e = "AccessoriesArray"
    <3>1. Held(db, q, "ResponseObject")
      BY Apart DEF Held, WithinService, WithinAccessory
    <3>2. "ResponseObject" \in ObjectElements /\ FirstField["ResponseObject"] = e
      BY <2>1 DEF ObjectElements, FirstField
    <3> QED
      BY <3>1, <3>2, FirstFieldThere
  <2>2. CASE e # "AccessoriesArray"
    <3>1. e \in OfAccessory \cup OfService
      BY <2>2 DEF DocumentArrays, OfAccessory, OfService
    <3> QED
      BY <3>1, OfServiceFields
  <2> QED
    BY <2>1, <2>2
<1>3. PICK p : p = "End"
  OBVIOUS
<1>4. p \in PartsOf(e) /\ e \in Elements
  BY <1>1, <1>3, NamedParts
<1>5. PlaceAt(db, q, e, p)
  BY <1>1, <1>2, <1>4, NamedPlace
<1>6. RestAt(db, q, e, p) = NamedRest(db, q, e, p)
  BY <1>1, RestIs
<1>7. NamedRest(db, q, e, p) = <<"]">> \o Behind(db, q, e)
  BY <1>3 DEF NamedRest
<1> QED
  BY <1>3, <1>4, <1>5, <1>6, <1>7

LEMMA DocumentPlace ==
    ASSUME NEW q, NEW o \in Documents, Held(db, q, o), NEW p \in {"Begin", "Separator"}
    PROVE  /\ PlaceAt(db, q, o, p) /\ p \in PartsOf(o) /\ o \in Elements
           /\ RestAt(db, q, o, p) = IF p = "Begin" THEN FromObject(db, q, o)
                                    ELSE <<",">> \o FromObject(db, q, o)
<1>1. o \in ObjectElements /\ o \in Elements
  BY DEF Documents, ObjectElements, Elements
<1>2. p \in PartsOf(o)
  BY DEF Documents, PartsOf, ObjectElements, Arrays, Named, OfAccessory, OfService, OfCharacteristic
<1>3. PlaceAt(db, q, o, p)
  BY <1>1, <1>2, ObjectPlace
<1>4. RestAt(db, q, o, p) = ObjectRest(db, q, o, p)
  BY <1>1, RestIs
<1>5. ObjectRest(db, q, o, p) = IF p = "Begin" THEN FromObject(db, q, o)
                                ELSE <<",">> \o FromObject(db, q, o)
  BY DEF ObjectRest
<1> QED
  BY <1>1, <1>2, <1>3, <1>4, <1>5

\* A token, and then an object or the end of its array.
LEMMA DocumentStep ==
    ASSUME Databased(db), NEW c, NEW x \in Tokens, NEW q \in Contexts, NEW o \in Documents,
           NEW p \in {"Begin", "Separator"}, NEW e \in DocumentArrays, NEW there \in BOOLEAN,
           there => Held(db, q, o), ~there => Held(db, q, e), NEW t \in Text,
           Rest(db, c) = <<x>> \o t,
           there => t = IF p = "Begin" THEN FromObject(db, q, o) ELSE <<",">> \o FromObject(db, q, o),
           ~there => t = <<"]">> \o Behind(db, q, e)
    PROVE  Serializes(db, c, Out(x, IF there THEN At(q, o, p) ELSE At(q, e, "End")))
<1>1. CASE there
  <2>1. /\ PlaceAt(db, q, o, p) /\ p \in PartsOf(o) /\ o \in Elements
        /\ RestAt(db, q, o, p) = t
    BY <1>1, DocumentPlace
  <2>2. Serializes(db, c, Out(x, At(q, o, p)))
    BY <2>1, OutStep
  <2> QED
    BY <1>1, <2>2
<1>2. CASE ~there
  <2>1. PICK r : r = "End"
    OBVIOUS
  <2>2. /\ PlaceAt(db, q, e, r) /\ r \in PartsOf(e) /\ e \in Elements
        /\ RestAt(db, q, e, r) = t
    BY <1>2, <2>1, ArrayEndPlace
  <2>3. Serializes(db, c, Out(x, At(q, e, r)))
    BY <2>2, OutStep
  <2> QED
    BY <1>2, <2>1, <2>3
<1> QED
  BY <1>1, <1>2

-----------------------------------------------------------------------------
LEMMA AccessoryItem ==
    ASSUME Databased(db), NEW q, q.accessory \in 1 .. Len(db)
    PROVE  /\ Held(db, q, "AccessoryObject") /\ Held(db, q, "ServicesArray")
           /\ FromObject(db, q, "AccessoryObject")
                = FromPart(AccessoryDocumentsOf(db), q.accessory, <<"}">>)
<1>1. "AccessoryObject" \notin WithinService /\ "AccessoryObject" \notin WithinCharacteristic
      /\ "ServicesArray" \notin WithinService /\ "ServicesArray" \notin WithinCharacteristic
  BY DEF WithinService, WithinCharacteristic, OfService, OfCharacteristic, Ranges
<1>2. q.accessory \in DOMAIN db
  BY DEF Databased
<1>3. AccessoryDocumentsOf(db)[q.accessory] = Object(AccessoryFields(AccessoryAt(db, q)))
  BY <1>2, ResponseFieldsAre DEF AccessoryAt
<1>4. FromObject(db, q, "AccessoryObject")
        = Object(AccessoryFields(AccessoryAt(db, q))) \o AccessoriesTail(db, q)
  BY DEF FromObject, ObjectOf, ObjectTail
<1>5. Held(db, q, "AccessoryObject") /\ Held(db, q, "ServicesArray")
  BY <1>1, <1>2 DEF Held
<1> QED
  BY <1>3, <1>4, <1>5 DEF FromPart, AccessoriesTail

LEMMA ServiceItem ==
    ASSUME Databased(db), NEW q, q.accessory \in DOMAIN db,
           q.service \in 1 .. Len(AccessoryAt(db, q).services), SupportsService(ServiceAt(db, q))
    PROVE  /\ Held(db, q, "ServiceObject") /\ Held(db, q, "CharacteristicsArray")
           /\ FromObject(db, q, "ServiceObject")
                = FromPart(ServiceDocuments(AccessoryAt(db, q).services), q.service,
                           <<"}">> \o AccessoriesTail(db, q))
<1>1. "ServiceObject" \notin WithinCharacteristic /\ "CharacteristicsArray" \notin WithinCharacteristic
  BY DEF WithinCharacteristic, OfCharacteristic, Ranges
<1>2. AccessoryAt(db, q).services \in Seq(ServiceRecords)
  <2>1. AccessoryAt(db, q) \in AccessoryRecords
    BY DEF AccessoryAt, Databased
  <2> QED
    BY <2>1 DEF AccessoryRecords
<1>3. q.service \in DOMAIN AccessoryAt(db, q).services
  BY <1>2
<1>4. ServiceDocuments(AccessoryAt(db, q).services)[q.service]
        = Object(ServiceFields(ServiceAt(db, q)))
  BY <1>2, <1>3, ServiceDocumentsAre DEF ServiceAt
<1>5. FromObject(db, q, "ServiceObject")
        = Object(ServiceFields(ServiceAt(db, q))) \o ServicesTail(db, q)
  BY DEF FromObject, ObjectOf, ObjectTail
<1>6. Held(db, q, "ServiceObject") /\ Held(db, q, "CharacteristicsArray")
  BY <1>1, <1>3 DEF Held
<1> QED
  BY <1>4, <1>5, <1>6 DEF FromPart, ServicesTail

LEMMA CharacteristicItem ==
    ASSUME Databased(db), NEW q, Held(db, q, "ServiceObject"),
           q.characteristic \in 1 .. Len(ServiceAt(db, q).characteristics),
           IsSupported(CharacteristicAt(db, q))
    PROVE  /\ Held(db, q, "CharacteristicObject")
           /\ FromObject(db, q, "CharacteristicObject")
                = FromPart(CharacteristicDocuments(ServiceAt(db, q).characteristics),
                           q.characteristic, <<"}">> \o ServicesTail(db, q))
<1>1. "ServiceObject" \in WithinService /\ "ServiceObject" \in WithinAccessory
  BY DEF WithinService, WithinAccessory
<1>2. ServiceAt(db, q).characteristics \in Seq(CharacteristicRecords)
  BY <1>1, RecordsAre DEF ServiceRecords
<1>3. q.characteristic \in DOMAIN ServiceAt(db, q).characteristics
  BY <1>2
<1>4. CharacteristicDocuments(ServiceAt(db, q).characteristics)[q.characteristic]
        = Object(CharacteristicFields(CharacteristicAt(db, q)))
  BY <1>2, <1>3, CharacteristicDocumentsAre DEF CharacteristicAt
<1>5. FromObject(db, q, "CharacteristicObject")
        = Object(CharacteristicFields(CharacteristicAt(db, q))) \o CharacteristicsTail(db, q)
  BY DEF FromObject, ObjectOf, ObjectTail
<1>6. Held(db, q, "CharacteristicObject")
  BY <1>1, <1>3 DEF Held
<1> QED
  BY <1>4, <1>5, <1>6 DEF FromPart, CharacteristicsTail

-----------------------------------------------------------------------------
LEMMA WithAccessory ==
    ASSUME NEW c \in Contexts, NEW j \in Nat
    PROVE  /\ [c EXCEPT !.accessory = j] \in Contexts
           /\ [c EXCEPT !.accessory = j].accessory = j
BY DEF Contexts

LEMMA WithService ==
    ASSUME NEW c \in Contexts, NEW j \in Nat
    PROVE  /\ [c EXCEPT !.service = j] \in Contexts
           /\ [c EXCEPT !.service = j].service = j
           /\ [c EXCEPT !.service = j].accessory = c.accessory
BY DEF Contexts

LEMMA WithCharacteristic ==
    ASSUME NEW c \in Contexts, NEW j \in Nat
    PROVE  /\ [c EXCEPT !.characteristic = j] \in Contexts
           /\ [c EXCEPT !.characteristic = j].characteristic = j
           /\ [c EXCEPT !.characteristic = j].accessory = c.accessory
           /\ [c EXCEPT !.characteristic = j].service = c.service
BY DEF Contexts

LEMMA WithIndex ==
    ASSUME NEW c \in Contexts, NEW j \in Nat
    PROVE  /\ [c EXCEPT !.index = j] \in Contexts
           /\ [c EXCEPT !.index = j].index = j
           /\ [c EXCEPT !.index = j].accessory = c.accessory
           /\ [c EXCEPT !.index = j].service = c.service
           /\ [c EXCEPT !.index = j].characteristic = c.characteristic
BY DEF Contexts

LEMMA FromPartTyped ==
    ASSUME NEW parts \in Parts, NEW j \in DOMAIN parts, NEW t \in Text
    PROVE  FromPart(parts, j, t) \in Text
<1>1. parts[j] \in Text
  BY DEF Parts
<1>2. j + 1 \in 1 .. Len(parts) + 1
  BY DEF Parts
<1>3. Commas(parts)[j + 1] \in Text
  BY <1>2, CommasTyped
<1>4. <<"]">> \o t \in Text
  BY Brackets, OneToken, TextConcat
<1> QED
  BY <1>1, <1>3, <1>4, TextConcat DEF FromPart

LEMMA BeginForm ==
    ASSUME Databased(db), NEW c, InPlace(db, c), c.part = "Begin", c.element \in Named, c.element \in Arrays
    PROVE  /\ Rest(db, c) = Array(PartsIn(db, c, c.element)) \o Behind(db, c, c.element)
           /\ Held(db, c, c.element) /\ c \in Contexts
           /\ ThisField(db, c, c.element) # <<>>
<1>1. PICK e : e = c.element
  OBVIOUS
<1>2. Held(db, c, e) /\ c \in Contexts
  BY <1>1 DEF InPlace, PlaceAt
<1>3. ThisField(db, c, e) # <<>>
  BY <1>1 DEF InPlace, PlaceAt, Present
<1>4. Rest(db, c) = NamedRest(db, c, e, "Begin")
  BY <1>1, RestIs DEF Rest
<1>5. /\ NamedRest(db, c, e, "Begin") = NamedRest(db, c, e, "Value")
      /\ NamedRest(db, c, e, "Value") = Content(db, c, e) \o Behind(db, c, e)
  BY <1>1, <1>2, <1>3, NamedForms
<1>6. Content(db, c, e) = Array(PartsIn(db, c, e))
  BY <1>1 DEF Content
<1> QED
  BY <1>1, <1>2, <1>3, <1>4, <1>5, <1>6

LEMMA ServicesBegin ==
    ASSUME Databased(db), NEW c, InPlace(db, c), c.element = "ServicesArray", c.part = "Begin"
    PROVE  Serializes(db, c, ServicesStep(c))
<1>0. PICK e : e = "ServicesArray"
  OBVIOUS
<1>a. e \in Named /\ e \in Arrays /\ e \in DOMAIN Owner /\ e \in DocumentArrays
  BY <1>0 DEF Named, Arrays, OfAccessory, OfService, Owner, DocumentArrays
<1>1. c \in Contexts /\ Held(db, c, e) /\ Rest(db, c) = Array(PartsIn(db, c, e)) \o Behind(db, c, e)
  BY <1>0, <1>a, BeginForm
<1>2. PICK list : list = AccessoryAt(db, c).services
  OBVIOUS
<1>3. list \in Seq(ServiceRecords) /\ c.accessory \in DOMAIN db
  <2>1. e \in WithinAccessory
    BY <1>0 DEF WithinAccessory, OfAccessory
  <2>2. AccessoryAt(db, c) \in AccessoryRecords /\ c.accessory \in DOMAIN db
    BY <1>1, <2>1, RecordsAre DEF Held
  <2> QED
    BY <1>2, <2>2 DEF AccessoryRecords
<1>4. PICK j : j = Seek(list, 1, SupportsService)
  OBVIOUS
<1>5. /\ j \in 1 .. Len(list) + 1 /\ (j <= Len(list) => SupportsService(list[j]))
      /\ \A k \in 1 .. j - 1 : ~SupportsService(list[k])
  <2>1. 1 \in 1 .. Len(list) + 1
    BY <1>3
  <2> QED
    BY <1>3, <1>4, <2>1, SeekService
<1>6. PICK docs : docs = ServiceDocuments(list)
  OBVIOUS
<1>7. /\ docs \in Parts /\ Len(docs) = Len(list) /\ DOMAIN docs = DOMAIN list
      /\ \A k \in DOMAIN list : docs[k] = IF SupportsService(list[k]) THEN Object(ServiceFields(list[k])) ELSE <<>>
  BY <1>3, <1>6, ServiceDocumentsAre
<1>8. PICK b : b = Behind(db, c, e)
  OBVIOUS
<1>9. b \in Text /\ b = <<"}">> \o AccessoriesTail(db, c)
  <2>1. ObjectTail(db, c, Owner[e]) = AccessoriesTail(db, c)
    BY <1>0 DEF ObjectTail, Owner
  <2> QED
    BY <1>1, <1>8, <1>a, <2>1, LastField
<1>10. Rest(db, c) = Array(docs) \o b
  <2>1. PartsIn(db, c, e) = docs
    BY <1>0, <1>2, <1>6 DEF PartsIn
  <2> QED
    BY <1>1, <1>8, <2>1
<1>11. /\ \A k \in 1 .. j - 1 : docs[k] = <<>>
       /\ j <= Len(docs) => docs[j] # <<>>
  <2>1. \A k \in 1 .. j - 1 : k \in DOMAIN list
    BY <1>3, <1>5
  <2>2. ASSUME j <= Len(docs) PROVE docs[j] # <<>>
    <3>1. j \in DOMAIN list /\ SupportsService(list[j])
      BY <1>3, <1>5, <1>7, <2>2
    <3>2. list[j] \in ServiceRecords
      BY <1>3, <3>1
    <3>3. Object(ServiceFields(list[j])) # <<>>
      BY <3>2, ServiceFieldsAre, ObjectTyped
    <3> QED
      BY <1>7, <3>1, <3>3
  <2> QED
    BY <1>5, <1>7, <2>1, <2>2
<1>12. PICK t : t = IF j <= Len(docs) THEN FromPart(docs, j, b) ELSE <<"]">> \o b
  OBVIOUS
<1>13. Rest(db, c) = <<"[">> \o t
  <2>1. j \in 1 .. Len(docs) + 1
    BY <1>5, <1>7
  <2> QED
    BY <1>7, <1>9, <1>10, <1>11, <1>12, <2>1, ArrayBegins
<1>14. t \in Text
  <2>1. <<"]">> \o b \in Text
    BY <1>9, Brackets, OneToken, TextConcat
  <2>2. j <= Len(docs) => j \in DOMAIN docs
    BY <1>3, <1>5, <1>7
  <2> QED
    BY <1>7, <1>9, <1>12, <2>1, <2>2, FromPartTyped
<1>15. PICK q : q = [c EXCEPT !.service = j]
  OBVIOUS
<1>16. /\ q \in Contexts /\ q.service = j /\ q.accessory = c.accessory
  <2>1. j \in Nat
    BY <1>3, <1>5
  <2> QED
    BY <1>1, <1>15, <2>1, WithService
<1>17. /\ AccessoryAt(db, q) = AccessoryAt(db, c)
       /\ AccessoriesTail(db, q) = AccessoriesTail(db, c)
       /\ Behind(db, q, e) = b
  <2>1. e \in OfAccessory
    BY <1>0 DEF OfAccessory
  <2> QED
    BY <1>8, <1>16, <2>1, Shared
<1>18. PICK there \in BOOLEAN : there <=> j <= Len(list)
  OBVIOUS
<1>19. ASSUME there
       PROVE  Held(db, q, "ServiceObject") /\ FromObject(db, q, "ServiceObject") = FromPart(docs, j, b)
  <2>1. j \in 1 .. Len(list) /\ SupportsService(list[j])
    BY <1>3, <1>5, <1>18, <1>19
  <2>2. ServiceAt(db, q) = list[j]
    BY <1>2, <1>16, <1>17 DEF ServiceAt
  <2>3. /\ q.accessory \in DOMAIN db /\ SupportsService(ServiceAt(db, q))
        /\ q.service \in 1 .. Len(AccessoryAt(db, q).services)
    BY <1>2, <1>3, <1>16, <1>17, <2>1, <2>2
  <2> QED
    BY <1>2, <1>6, <1>9, <1>16, <1>17, <2>3, ServiceItem
<1>20. Held(db, q, e)
  <2>1. e \notin WithinService /\ e \notin WithinCharacteristic
    BY <1>0 DEF WithinService, WithinCharacteristic, OfService, OfCharacteristic, Ranges
  <2> QED
    BY <1>3, <1>16, <2>1 DEF Held
<1>21. \A p \in {"Begin", "Separator"} : "ServiceObject" \in Documents
  BY DEF Documents
<1>22. PICK o, p, x : o = "ServiceObject" /\ p = "Begin" /\ x = "["
  OBVIOUS
<1>23. /\ x \in Tokens /\ Rest(db, c) = <<x>> \o t /\ o \in Documents /\ p \in {"Begin", "Separator"}
       /\ there => Held(db, q, o) /\ t = FromObject(db, q, o)
       /\ ~there => t = <<"]">> \o Behind(db, q, e)
  <2>1. there => t = FromPart(docs, j, b)
    BY <1>7, <1>12, <1>18
  <2>2. ~there => t = <<"]">> \o b
    BY <1>7, <1>12, <1>18
  <2>3. x \in Tokens /\ Rest(db, c) = <<x>> \o t /\ o \in Documents /\ p \in {"Begin", "Separator"}
    BY <1>13, <1>21, <1>22, Brackets
  <2>4. there => Held(db, q, o) /\ t = FromObject(db, q, o)
    BY <1>19, <1>22, <2>1
  <2> QED
    BY <1>17, <2>2, <2>3, <2>4
<1>24. Serializes(db, c, Out(x, IF there THEN At(q, o, p) ELSE At(q, e, "End")))
  <2>1. there => t = IF p = "Begin" THEN FromObject(db, q, o) ELSE <<",">> \o FromObject(db, q, o)
    BY <1>22, <1>23
  <2> QED
    BY <1>14, <1>16, <1>20, <1>23, <1>a, <2>1, DocumentStep
<1>25. ServicesStep(c) = Out("[", IF j <= Len(list) THEN At(q, "ServiceObject", "Begin") ELSE At(q, "ServicesArray", "End"))
  <2>1. Accessory(c).services = list
    BY <1>2, Current
  <2> QED
    BY <1>4, <1>15, <1>16, <2>1 DEF ServicesStep
<1> QED
  BY <1>0, <1>18, <1>22, <1>24, <1>25

LEMMA ServiceObjectEnds ==
    ASSUME Databased(db), NEW c, InPlace(db, c), c.element = "ServiceObject", c.part = "End"
    PROVE  Serializes(db, c, ServiceStep(c))
<1>0. PICK e : e = "ServicesArray"
  OBVIOUS
<1>a. e \in Named /\ e \in DOMAIN Owner /\ e \in DocumentArrays
  BY <1>0 DEF Named, OfAccessory, OfService, Owner, DocumentArrays
<1>b. c \in Contexts /\ Held(db, c, "ServiceObject") /\ "ServiceObject" \in ObjectElements
  BY DEF InPlace, PlaceAt, ObjectElements
<1>c. "ServiceObject" \in WithinService
  BY DEF WithinService
<1>1. c \in Contexts /\ Held(db, c, e)
  <2>1. e \in WithinAccessory /\ "ServiceObject" \in WithinAccessory
    BY <1>0 DEF WithinAccessory, OfAccessory, WithinService
  <2>2. e \notin WithinService /\ e \notin WithinCharacteristic
    BY <1>0 DEF WithinService, WithinCharacteristic, OfService, OfCharacteristic, Ranges
  <2> QED
    BY <1>b, <2>1, <2>2 DEF Held
<1>2. PICK list : list = AccessoryAt(db, c).services
  OBVIOUS
<1>3. list \in Seq(ServiceRecords) /\ c.accessory \in DOMAIN db /\ c.service \in 1 .. Len(list)
  <2>1. "ServiceObject" \in WithinAccessory
    BY DEF WithinAccessory, WithinService
  <2>2. c.accessory \in DOMAIN db
    BY <1>b, <2>1 DEF Held
  <2> QED
    BY <1>2, <1>b, <1>c, <2>2, ServicesTailTyped
<1>d. PICK i : i = c.service + 1
  OBVIOUS
<1>e. i \in 1 .. Len(list) + 1
  BY <1>3, <1>d
<1>4. PICK j : j = Seek(list, i, SupportsService)
  OBVIOUS
<1>f. /\ j \in i .. Len(list) + 1 /\ (j <= Len(list) => SupportsService(list[j]))
      /\ \A k \in i .. j - 1 : ~SupportsService(list[k])
  BY <1>3, <1>4, <1>e, SeekService
<1>5. j \in 1 .. Len(list) + 1 /\ (j <= Len(list) => SupportsService(list[j]))
  BY <1>3, <1>e, <1>f
<1>6. PICK docs : docs = ServiceDocuments(list)
  OBVIOUS
<1>7. /\ docs \in Parts /\ Len(docs) = Len(list) /\ DOMAIN docs = DOMAIN list
      /\ \A k \in DOMAIN list : docs[k] = IF SupportsService(list[k]) THEN Object(ServiceFields(list[k])) ELSE <<>>
  BY <1>3, <1>6, ServiceDocumentsAre
<1>8. PICK b : b = Behind(db, c, e)
  OBVIOUS
<1>9. b \in Text /\ b = <<"}">> \o AccessoriesTail(db, c)
  <2>1. ObjectTail(db, c, Owner[e]) = AccessoriesTail(db, c)
    BY <1>0 DEF ObjectTail, Owner
  <2> QED
    BY <1>1, <1>8, <1>a, <2>1, LastField
<1>10. Rest(db, c) = <<"}">> \o (Commas(docs)[i] \o (<<"]">> \o b))
  <2>1. Rest(db, c) = ObjectRest(db, c, "ServiceObject", "End")
    BY <1>b, RestIs DEF Rest
  <2>2. ObjectTail(db, c, "ServiceObject") = ServicesTail(db, c)
    BY DEF ObjectTail
  <2>3. Rest(db, c) = <<"}">> \o ServicesTail(db, c)
    BY <2>1, <2>2 DEF ObjectRest
  <2> QED
    BY <1>2, <1>6, <1>9, <1>d, <2>3 DEF ServicesTail
<1>11. /\ \A k \in i .. j - 1 : docs[k] = <<>>
       /\ j <= Len(docs) => docs[j] # <<>>
  <2>1. \A k \in i .. j - 1 : k \in DOMAIN list
    BY <1>3, <1>e, <1>f
  <2>2. ASSUME j <= Len(docs) PROVE docs[j] # <<>>
    <3>1. j \in DOMAIN list /\ SupportsService(list[j])
      BY <1>3, <1>5, <1>7, <2>2
    <3>2. list[j] \in ServiceRecords
      BY <1>3, <3>1
    <3>3. Object(ServiceFields(list[j])) # <<>>
      BY <3>2, ServiceFieldsAre, ObjectTyped
    <3> QED
      BY <1>7, <3>1, <3>3
  <2> QED
    BY <1>f, <1>7, <2>1, <2>2
<1>12. PICK t : t = IF j <= Len(docs) THEN <<",">> \o FromPart(docs, j, b) ELSE <<"]">> \o b
  OBVIOUS
<1>13. Rest(db, c) = <<"}">> \o t
  <2>1. i \in 1 .. Len(docs) + 1 /\ j \in i .. Len(docs) + 1
    BY <1>e, <1>f, <1>7
  <2>2. Commas(docs)[i] \o (<<"]">> \o b) = t
    BY <1>7, <1>9, <1>11, <1>12, <2>1, ArrayGoesOn
  <2> QED
    BY <1>10, <2>2
<1>14. t \in Text
  <2>1. <<"]">> \o b \in Text
    BY <1>9, Brackets, OneToken, TextConcat
  <2>2. j <= Len(docs) => j \in DOMAIN docs
    BY <1>3, <1>5, <1>7
  <2>3. j <= Len(docs) => <<",">> \o FromPart(docs, j, b) \in Text
    BY <1>7, <1>9, <2>2, FromPartTyped, Brackets, OneToken, TextConcat
  <2> QED
    BY <1>12, <2>1, <2>3
<1>15. PICK q : q = [c EXCEPT !.service = j]
  OBVIOUS
<1>16. /\ q \in Contexts /\ q.service = j /\ q.accessory = c.accessory
  <2>1. j \in Nat
    BY <1>3, <1>5
  <2> QED
    BY <1>1, <1>15, <2>1, WithService
<1>17. /\ AccessoryAt(db, q) = AccessoryAt(db, c)
       /\ AccessoriesTail(db, q) = AccessoriesTail(db, c)
       /\ Behind(db, q, e) = b
  <2>1. e \in OfAccessory
    BY <1>0 DEF OfAccessory
  <2> QED
    BY <1>8, <1>16, <2>1, Shared
<1>18. PICK there \in BOOLEAN : there <=> j <= Len(list)
  OBVIOUS
<1>19. ASSUME there
       PROVE  Held(db, q, "ServiceObject") /\ FromObject(db, q, "ServiceObject") = FromPart(docs, j, b)
  <2>1. j \in 1 .. Len(list) /\ SupportsService(list[j])
    BY <1>3, <1>5, <1>18, <1>19
  <2>2. ServiceAt(db, q) = list[j]
    BY <1>2, <1>16, <1>17 DEF ServiceAt
  <2>3. /\ q.accessory \in DOMAIN db /\ SupportsService(ServiceAt(db, q))
        /\ q.service \in 1 .. Len(AccessoryAt(db, q).services)
    BY <1>2, <1>3, <1>16, <1>17, <2>1, <2>2
  <2> QED
    BY <1>2, <1>6, <1>9, <1>16, <1>17, <2>3, ServiceItem
<1>20. Held(db, q, e)
  <2>1. e \notin WithinService /\ e \notin WithinCharacteristic
    BY <1>0 DEF WithinService, WithinCharacteristic, OfService, OfCharacteristic, Ranges
  <2> QED
    BY <1>3, <1>16, <2>1 DEF Held
<1>21. \A p \in {"Begin", "Separator"} : "ServiceObject" \in Documents
  BY DEF Documents
<1>22. PICK o, p, x : o = "ServiceObject" /\ p = "Separator" /\ x = "}"
  OBVIOUS
<1>23. /\ x \in Tokens /\ Rest(db, c) = <<x>> \o t /\ o \in Documents /\ p \in {"Begin", "Separator"}
       /\ there => Held(db, q, o) /\ t = <<",">> \o FromObject(db, q, o)
       /\ ~there => t = <<"]">> \o Behind(db, q, e)
  <2>1. there => t = <<",">> \o FromPart(docs, j, b)
    BY <1>7, <1>12, <1>18
  <2>2. ~there => t = <<"]">> \o b
    BY <1>7, <1>12, <1>18
  <2>3. x \in Tokens /\ Rest(db, c) = <<x>> \o t /\ o \in Documents /\ p \in {"Begin", "Separator"}
    BY <1>13, <1>21, <1>22, Brackets
  <2>4. there => Held(db, q, o) /\ t = <<",">> \o FromObject(db, q, o)
    BY <1>19, <1>22, <2>1
  <2> QED
    BY <1>17, <2>2, <2>3, <2>4
<1>24. Serializes(db, c, Out(x, IF there THEN At(q, o, p) ELSE At(q, e, "End")))
  <2>1. there => t = IF p = "Begin" THEN FromObject(db, q, o) ELSE <<",">> \o FromObject(db, q, o)
    BY <1>22, <1>23
  <2> QED
    BY <1>14, <1>16, <1>20, <1>23, <1>a, <2>1, DocumentStep
<1>25. ServiceStep(c) = Out("}", IF j <= Len(list) THEN At(q, "ServiceObject", "Separator") ELSE At(q, "ServicesArray", "End"))
  <2>1. Accessory(c).services = list
    BY <1>2, Current
  <2>2. NextService(c) = q
    BY <1>4, <1>15, <1>d, <2>1 DEF NextService
  <2> QED
    BY <1>16, <2>1, <2>2 DEF ServiceStep
<1> QED
  BY <1>0, <1>18, <1>22, <1>24, <1>25

LEMMA CharacteristicsBegin ==
    ASSUME Databased(db), NEW c, InPlace(db, c), c.element = "CharacteristicsArray", c.part = "Begin"
    PROVE  Serializes(db, c, CharacteristicsStep(c))
<1>0. PICK e : e = "CharacteristicsArray"
  OBVIOUS
<1>a. e \in Named /\ e \in Arrays /\ e \in DOMAIN Owner /\ e \in DocumentArrays
  BY <1>0 DEF Named, Arrays, OfAccessory, OfService, Owner, DocumentArrays
<1>1. c \in Contexts /\ Held(db, c, e) /\ Rest(db, c) = Array(PartsIn(db, c, e)) \o Behind(db, c, e)
  BY <1>0, <1>a, BeginForm
<1>2. PICK list : list = ServiceAt(db, c).characteristics
  OBVIOUS
<1>3. list \in Seq(CharacteristicRecords) /\ Held(db, c, "ServiceObject")
  <2>1. e \in WithinService /\ e \in WithinAccessory
    BY <1>0 DEF WithinAccessory, WithinService, OfService
  <2>2. "ServiceObject" \notin WithinCharacteristic
    BY DEF WithinCharacteristic, OfCharacteristic, Ranges
  <2>3. Held(db, c, "ServiceObject")
    BY <1>1, <2>1, <2>2 DEF Held
  <2>4. ServiceAt(db, c) \in ServiceRecords
    BY <1>1, <2>1, RecordsAre
  <2> QED
    BY <1>2, <2>3, <2>4 DEF ServiceRecords
<1>4. PICK j : j = Seek(list, 1, IsSupported)
  OBVIOUS
<1>5. /\ j \in 1 .. Len(list) + 1 /\ (j <= Len(list) => IsSupported(list[j]))
      /\ \A k \in 1 .. j - 1 : ~IsSupported(list[k])
  <2>1. 1 \in 1 .. Len(list) + 1
    BY <1>3
  <2> QED
    BY <1>3, <1>4, <2>1, SeekCharacteristic
<1>6. PICK docs : docs = CharacteristicDocuments(list)
  OBVIOUS
<1>7. /\ docs \in Parts /\ Len(docs) = Len(list) /\ DOMAIN docs = DOMAIN list
      /\ \A k \in DOMAIN list : docs[k] = IF IsSupported(list[k]) THEN Object(CharacteristicFields(list[k])) ELSE <<>>
  BY <1>3, <1>6, CharacteristicDocumentsAre
<1>8. PICK b : b = Behind(db, c, e)
  OBVIOUS
<1>9. b \in Text /\ b = <<"}">> \o ServicesTail(db, c)
  <2>1. ObjectTail(db, c, Owner[e]) = ServicesTail(db, c)
    BY <1>0 DEF ObjectTail, Owner
  <2> QED
    BY <1>1, <1>8, <1>a, <2>1, LastField
<1>10. Rest(db, c) = Array(docs) \o b
  <2>1. PartsIn(db, c, e) = docs
    BY <1>0, <1>2, <1>6 DEF PartsIn
  <2> QED
    BY <1>1, <1>8, <2>1
<1>11. /\ \A k \in 1 .. j - 1 : docs[k] = <<>>
       /\ j <= Len(docs) => docs[j] # <<>>
  <2>1. \A k \in 1 .. j - 1 : k \in DOMAIN list
    BY <1>3, <1>5
  <2>2. ASSUME j <= Len(docs) PROVE docs[j] # <<>>
    <3>1. j \in DOMAIN list /\ IsSupported(list[j])
      BY <1>3, <1>5, <1>7, <2>2
    <3>2. list[j] \in CharacteristicRecords
      BY <1>3, <3>1
    <3>3. Object(CharacteristicFields(list[j])) # <<>>
      BY <3>2, CharacteristicFieldsAre, ObjectTyped
    <3> QED
      BY <1>7, <3>1, <3>3
  <2> QED
    BY <1>5, <1>7, <2>1, <2>2
<1>12. PICK t : t = IF j <= Len(docs) THEN FromPart(docs, j, b) ELSE <<"]">> \o b
  OBVIOUS
<1>13. Rest(db, c) = <<"[">> \o t
  <2>1. j \in 1 .. Len(docs) + 1
    BY <1>5, <1>7
  <2> QED
    BY <1>7, <1>9, <1>10, <1>11, <1>12, <2>1, ArrayBegins
<1>14. t \in Text
  <2>1. <<"]">> \o b \in Text
    BY <1>9, Brackets, OneToken, TextConcat
  <2>2. j <= Len(docs) => j \in DOMAIN docs
    BY <1>3, <1>5, <1>7
  <2> QED
    BY <1>7, <1>9, <1>12, <2>1, <2>2, FromPartTyped
<1>15. PICK q : q = [c EXCEPT !.characteristic = j]
  OBVIOUS
<1>16. /\ q \in Contexts /\ q.characteristic = j /\ q.accessory = c.accessory /\ q.service = c.service
  <2>1. j \in Nat
    BY <1>3, <1>5
  <2> QED
    BY <1>1, <1>15, <2>1, WithCharacteristic
<1>17. /\ ServiceAt(db, q) = ServiceAt(db, c)
       /\ ServicesTail(db, q) = ServicesTail(db, c)
       /\ Behind(db, q, e) = b
  <2>1. e \in OfService
    BY <1>0 DEF OfService
  <2> QED
    BY <1>8, <1>16, <2>1, Shared
<1>18. PICK there \in BOOLEAN : there <=> j <= Len(list)
  OBVIOUS
<1>19. ASSUME there
       PROVE  Held(db, q, "CharacteristicObject") /\ FromObject(db, q, "CharacteristicObject") = FromPart(docs, j, b)
  <2>1. j \in 1 .. Len(list) /\ IsSupported(list[j])
    BY <1>3, <1>5, <1>18, <1>19
  <2>2. CharacteristicAt(db, q) = list[j]
    BY <1>2, <1>16, <1>17 DEF CharacteristicAt
  <2>a. "ServiceObject" \notin WithinCharacteristic
    BY DEF WithinCharacteristic, OfCharacteristic, Ranges
  <2>b. AccessoryAt(db, q) = AccessoryAt(db, c)
    BY <1>16 DEF AccessoryAt
  <2>c. Held(db, q, "ServiceObject")
    BY <1>3, <1>16, <1>17, <2>a, <2>b DEF Held
  <2>3. /\ Held(db, q, "ServiceObject") /\ IsSupported(CharacteristicAt(db, q))
        /\ q.characteristic \in 1 .. Len(ServiceAt(db, q).characteristics)
    BY <1>2, <1>16, <1>17, <2>1, <2>2, <2>c
  <2> QED
    BY <1>2, <1>6, <1>9, <1>16, <1>17, <2>3, CharacteristicItem
<1>20. Held(db, q, e)
  <2>1. e \notin WithinCharacteristic
    BY <1>0 DEF WithinCharacteristic, OfCharacteristic, Ranges
  <2>2. e \in WithinService /\ e \in WithinAccessory
    BY <1>0 DEF WithinAccessory, WithinService, OfService
  <2>3. ServiceAt(db, q) = ServiceAt(db, c) /\ AccessoryAt(db, q) = AccessoryAt(db, c)
    BY <1>16, <1>17 DEF AccessoryAt
  <2> QED
    BY <1>1, <1>16, <2>1, <2>2, <2>3 DEF Held
<1>21. \A p \in {"Begin", "Separator"} : "CharacteristicObject" \in Documents
  BY DEF Documents
<1>22. PICK o, p, x : o = "CharacteristicObject" /\ p = "Begin" /\ x = "["
  OBVIOUS
<1>23. /\ x \in Tokens /\ Rest(db, c) = <<x>> \o t /\ o \in Documents /\ p \in {"Begin", "Separator"}
       /\ there => Held(db, q, o) /\ t = FromObject(db, q, o)
       /\ ~there => t = <<"]">> \o Behind(db, q, e)
  <2>1. there => t = FromPart(docs, j, b)
    BY <1>7, <1>12, <1>18
  <2>2. ~there => t = <<"]">> \o b
    BY <1>7, <1>12, <1>18
  <2>3. x \in Tokens /\ Rest(db, c) = <<x>> \o t /\ o \in Documents /\ p \in {"Begin", "Separator"}
    BY <1>13, <1>21, <1>22, Brackets
  <2>4. there => Held(db, q, o) /\ t = FromObject(db, q, o)
    BY <1>19, <1>22, <2>1
  <2> QED
    BY <1>17, <2>2, <2>3, <2>4
<1>24. Serializes(db, c, Out(x, IF there THEN At(q, o, p) ELSE At(q, e, "End")))
  <2>1. there => t = IF p = "Begin" THEN FromObject(db, q, o) ELSE <<",">> \o FromObject(db, q, o)
    BY <1>22, <1>23
  <2> QED
    BY <1>14, <1>16, <1>20, <1>23, <1>a, <2>1, DocumentStep
<1>25. CharacteristicsStep(c) = Out("[", IF j <= Len(list) THEN At(q, "CharacteristicObject", "Begin") ELSE At(q, "CharacteristicsArray", "End"))
  <2>1. Service(c).characteristics = list
    BY <1>2, Current
  <2> QED
    BY <1>4, <1>15, <1>16, <2>1 DEF CharacteristicsStep
<1> QED
  BY <1>0, <1>18, <1>22, <1>24, <1>25

LEMMA CharacteristicObjectEnds ==
    ASSUME Databased(db), NEW c, InPlace(db, c), c.element = "CharacteristicObject", c.part = "End"
    PROVE  Serializes(db, c, CharacteristicStep(c))
<1>0. PICK e : e = "CharacteristicsArray"
  OBVIOUS
<1>a. e \in Named /\ e \in DOMAIN Owner /\ e \in DocumentArrays
  BY <1>0 DEF Named, OfAccessory, OfService, Owner, DocumentArrays
<1>b. c \in Contexts /\ Held(db, c, "CharacteristicObject") /\ "CharacteristicObject" \in ObjectElements
  BY DEF InPlace, PlaceAt, ObjectElements
<1>c. "CharacteristicObject" \in WithinCharacteristic
  BY DEF WithinCharacteristic
<1>1. c \in Contexts /\ Held(db, c, e)
  <2>1. "CharacteristicObject" \in WithinAccessory /\ "CharacteristicObject" \in WithinService
    BY DEF WithinAccessory, WithinService, WithinCharacteristic
  <2>2. e \notin WithinCharacteristic
    BY <1>0 DEF WithinCharacteristic, OfCharacteristic, Ranges
  <2> QED
    BY <1>b, <2>1, <2>2 DEF Held
<1>2. PICK list : list = ServiceAt(db, c).characteristics
  OBVIOUS
<1>3. list \in Seq(CharacteristicRecords) /\ Held(db, c, "ServiceObject") /\ c.characteristic \in 1 .. Len(list)
  <2>1. "CharacteristicObject" \in WithinAccessory /\ "CharacteristicObject" \in WithinService
    BY DEF WithinAccessory, WithinService, WithinCharacteristic
  <2>2. "ServiceObject" \notin WithinCharacteristic
    BY DEF WithinCharacteristic, OfCharacteristic, Ranges
  <2>3. Held(db, c, "ServiceObject")
    BY <1>b, <2>1, <2>2 DEF Held
  <2> QED
    BY <1>2, <1>b, <1>c, <2>3, CharacteristicsTailTyped
<1>d. PICK i : i = c.characteristic + 1
  OBVIOUS
<1>e. i \in 1 .. Len(list) + 1
  BY <1>3, <1>d
<1>4. PICK j : j = Seek(list, i, IsSupported)
  OBVIOUS
<1>f. /\ j \in i .. Len(list) + 1 /\ (j <= Len(list) => IsSupported(list[j]))
      /\ \A k \in i .. j - 1 : ~IsSupported(list[k])
  BY <1>3, <1>4, <1>e, SeekCharacteristic
<1>5. j \in 1 .. Len(list) + 1 /\ (j <= Len(list) => IsSupported(list[j]))
  BY <1>3, <1>e, <1>f
<1>6. PICK docs : docs = CharacteristicDocuments(list)
  OBVIOUS
<1>7. /\ docs \in Parts /\ Len(docs) = Len(list) /\ DOMAIN docs = DOMAIN list
      /\ \A k \in DOMAIN list : docs[k] = IF IsSupported(list[k]) THEN Object(CharacteristicFields(list[k])) ELSE <<>>
  BY <1>3, <1>6, CharacteristicDocumentsAre
<1>8. PICK b : b = Behind(db, c, e)
  OBVIOUS
<1>9. b \in Text /\ b = <<"}">> \o ServicesTail(db, c)
  <2>1. ObjectTail(db, c, Owner[e]) = ServicesTail(db, c)
    BY <1>0 DEF ObjectTail, Owner
  <2> QED
    BY <1>1, <1>8, <1>a, <2>1, LastField
<1>10. Rest(db, c) = <<"}">> \o (Commas(docs)[i] \o (<<"]">> \o b))
  <2>1. Rest(db, c) = ObjectRest(db, c, "CharacteristicObject", "End")
    BY <1>b, RestIs DEF Rest
  <2>2. ObjectTail(db, c, "CharacteristicObject") = CharacteristicsTail(db, c)
    BY DEF ObjectTail
  <2>3. Rest(db, c) = <<"}">> \o CharacteristicsTail(db, c)
    BY <2>1, <2>2 DEF ObjectRest
  <2> QED
    BY <1>2, <1>6, <1>9, <1>d, <2>3 DEF CharacteristicsTail
<1>11. /\ \A k \in i .. j - 1 : docs[k] = <<>>
       /\ j <= Len(docs) => docs[j] # <<>>
  <2>1. \A k \in i .. j - 1 : k \in DOMAIN list
    BY <1>3, <1>e, <1>f
  <2>2. ASSUME j <= Len(docs) PROVE docs[j] # <<>>
    <3>1. j \in DOMAIN list /\ IsSupported(list[j])
      BY <1>3, <1>5, <1>7, <2>2
    <3>2. list[j] \in CharacteristicRecords
      BY <1>3, <3>1
    <3>3. Object(CharacteristicFields(list[j])) # <<>>
      BY <3>2, CharacteristicFieldsAre, ObjectTyped
    <3> QED
      BY <1>7, <3>1, <3>3
  <2> QED
    BY <1>f, <1>7, <2>1, <2>2
<1>12. PICK t : t = IF j <= Len(docs) THEN <<",">> \o FromPart(docs, j, b) ELSE <<"]">> \o b
  OBVIOUS
<1>13. Rest(db, c) = <<"}">> \o t
  <2>1. i \in 1 .. Len(docs) + 1 /\ j \in i .. Len(docs) + 1
    BY <1>e, <1>f, <1>7
  <2>2. Commas(docs)[i] \o (<<"]">> \o b) = t
    BY <1>7, <1>9, <1>11, <1>12, <2>1, ArrayGoesOn
  <2> QED
    BY <1>10, <2>2
<1>14. t \in Text
  <2>1. <<"]">> \o b \in Text
    BY <1>9, Brackets, OneToken, TextConcat
  <2>2. j <= Len(docs) => j \in DOMAIN docs
    BY <1>3, <1>5, <1>7
  <2>3. j <= Len(docs) => <<",">> \o FromPart(docs, j, b) \in Text
    BY <1>7, <1>9, <2>2, FromPartTyped, Brackets, OneToken, TextConcat
  <2> QED
    BY <1>12, <2>1, <2>3
<1>15. PICK q : q = [c EXCEPT !.characteristic = j]
  OBVIOUS
<1>16. /\ q \in Contexts /\ q.characteristic = j /\ q.accessory = c.accessory /\ q.service = c.service
  <2>1. j \in Nat
    BY <1>3, <1>5
  <2> QED
    BY <1>1, <1>15, <2>1, WithCharacteristic
<1>17. /\ ServiceAt(db, q) = ServiceAt(db, c)
       /\ ServicesTail(db, q) = ServicesTail(db, c)
       /\ Behind(db, q, e) = b
  <2>1. e \in OfService
    BY <1>0 DEF OfService
  <2> QED
    BY <1>8, <1>16, <2>1, Shared
<1>18. PICK there \in BOOLEAN : there <=> j <= Len(list)
  OBVIOUS
<1>19. ASSUME there
       PROVE  Held(db, q, "CharacteristicObject") /\ FromObject(db, q, "CharacteristicObject") = FromPart(docs, j, b)
  <2>1. j \in 1 .. Len(list) /\ IsSupported(list[j])
    BY <1>3, <1>5, <1>18, <1>19
  <2>2. CharacteristicAt(db, q) = list[j]
    BY <1>2, <1>16, <1>17 DEF CharacteristicAt
  <2>a. "ServiceObject" \notin WithinCharacteristic
    BY DEF WithinCharacteristic, OfCharacteristic, Ranges
  <2>b. AccessoryAt(db, q) = AccessoryAt(db, c)
    BY <1>16 DEF AccessoryAt
  <2>c. Held(db, q, "ServiceObject")
    BY <1>3, <1>16, <1>17, <2>a, <2>b DEF Held
  <2>3. /\ Held(db, q, "ServiceObject") /\ IsSupported(CharacteristicAt(db, q))
        /\ q.characteristic \in 1 .. Len(ServiceAt(db, q).characteristics)
    BY <1>2, <1>16, <1>17, <2>1, <2>2, <2>c
  <2> QED
    BY <1>2, <1>6, <1>9, <1>16, <1>17, <2>3, CharacteristicItem
<1>20. Held(db, q, e)
  <2>1. e \notin WithinCharacteristic
    BY <1>0 DEF WithinCharacteristic, OfCharacteristic, Ranges
  <2>2. e \in WithinService /\ e \in WithinAccessory
    BY <1>0 DEF WithinAccessory, WithinService, OfService
  <2>3. ServiceAt(db, q) = ServiceAt(db, c) /\ AccessoryAt(db, q) = AccessoryAt(db, c)
    BY <1>16, <1>17 DEF AccessoryAt
  <2> QED
    BY <1>1, <1>16, <2>1, <2>2, <2>3 DEF Held
<1>21. \A p \in {"Begin", "Separator"} : "CharacteristicObject" \in Documents
  BY DEF Documents
<1>22. PICK o, p, x : o = "CharacteristicObject" /\ p = "Separator" /\ x = "}"
  OBVIOUS
<1>23. /\ x \in Tokens /\ Rest(db, c) = <<x>> \o t /\ o \in Documents /\ p \in {"Begin", "Separator"}
       /\ there => Held(db, q, o) /\ t = <<",">> \o FromObject(db, q, o)
       /\ ~there => t = <<"]">> \o Behind(db, q, e)
  <2>1. there => t = <<",">> \o FromPart(docs, j, b)
    BY <1>7, <1>12, <1>18
  <2>2. ~there => t = <<"]">> \o b
    BY <1>7, <1>12, <1>18
  <2>3. x \in Tokens /\ Rest(db, c) = <<x>> \o t /\ o \in Documents /\ p \in {"Begin", "Separator"}
    BY <1>13, <1>21, <1>22, Brackets
  <2>4. there => Held(db, q, o) /\ t = <<",">> \o FromObject(db, q, o)
    BY <1>19, <1>22, <2>1
  <2> QED
    BY <1>17, <2>2, <2>3, <2>4
<1>24. Serializes(db, c, Out(x, IF there THEN At(q, o, p) ELSE At(q, e, "End")))
  <2>1. there => t = IF p = "Begin" THEN FromObject(db, q, o) ELSE <<",">> \o FromObject(db, q, o)
    BY <1>22, <1>23
  <2> QED
    BY <1>14, <1>16, <1>20, <1>23, <1>a, <2>1, DocumentStep
<1>25. CharacteristicStep(c) = Out("}", IF j <= Len(list) THEN At(q, "CharacteristicObject", "Separator") ELSE At(q, "CharacteristicsArray", "End"))
  <2>1. Service(c).characteristics = list
    BY <1>2, Current
  <2>2. [c EXCEPT !.characteristic = Seek(Service(c).characteristics, @ + 1, IsSupported)] = q
    BY <1>4, <1>15, <1>d, <2>1 DEF Seek
  <2> QED
    BY <1>16, <2>1, <2>2 DEF CharacteristicStep
<1> QED
  BY <1>0, <1>18, <1>22, <1>24, <1>25

-----------------------------------------------------------------------------
(* The accessories.                                                        *)

LEMMA AccessoriesArrayIs ==
    ASSUME Databased(db), NEW c
    PROVE  /\ Held(db, c, "AccessoriesArray")
           /\ Behind(db, c, "AccessoriesArray") = <<"}">> /\ <<"}">> \in Text
<1>0. PICK e : e = "AccessoriesArray"
  OBVIOUS
<1>1. Held(db, c, e)
  BY <1>0, Apart DEF Held, WithinService, WithinAccessory
<1>2. e \in DOMAIN Owner /\ Owner[e] = "ResponseObject"
  BY <1>0 DEF Owner
<1>3. Behind(db, c, e) = <<"}">> \o ObjectTail(db, c, Owner[e])
  BY <1>1, <1>2, LastField
<1>4. ObjectTail(db, c, Owner[e]) = <<>>
  BY <1>2 DEF ObjectTail
<1>5. <<"}">> \in Text
  BY Brackets, OneToken
<1>6. <<"}">> \o <<>> = <<"}">>
  BY <1>5, NothingBefore
<1> QED
  BY <1>0, <1>1, <1>3, <1>4, <1>5, <1>6

LEMMA ResponseEnds ==
    ASSUME NEW c, InPlace(db, c), c.element = "ResponseObject", c.part = "End"
    PROVE  Serializes(db, c, ResponseStep(c))
<1>1. PICK e, p, x : e = "ResponseIsComplete" /\ p = "" /\ x = "}"
  OBVIOUS
<1>2. e \notin Named \cup ObjectElements \cup Items \cup Ranges /\ e \in Elements
  BY <1>1 DEF Elements, Named, ObjectElements, Items, Ranges, OfAccessory, OfService, OfCharacteristic
<1>3. p \in PartsOf(e)
  BY <1>1, <1>2 DEF PartsOf, Arrays
<1>4. PlaceAt(db, c, e, p)
  <2>1. Held(db, c, e)
    BY <1>1, Apart DEF Held, WithinService, WithinAccessory
  <2>2. Indexed(db, c, e)
    BY <1>2 DEF Indexed
  <2>3. Present(db, c, e, p)
    BY <1>1, <1>2 DEF Present, Items
  <2> QED
    BY <1>3, <2>1, <2>2, <2>3 DEF PlaceAt
<1>5. RestAt(db, c, e, p) = <<>>
  BY <1>2 DEF RestAt
<1>6. Rest(db, c) = <<"}">> \o <<>>
  <2>1. "ResponseObject" \in ObjectElements
    BY DEF ObjectElements
  <2>2. Rest(db, c) = ObjectRest(db, c, "ResponseObject", "End")
    BY <2>1, RestIs DEF Rest
  <2>3. ObjectTail(db, c, "ResponseObject") = <<>>
    BY DEF ObjectTail
  <2> QED
    BY <2>2, <2>3 DEF ObjectRest
<1>7. c \in Contexts /\ x \in Tokens /\ Rest(db, c) = <<x>> \o RestAt(db, c, e, p)
  BY <1>1, <1>5, <1>6, Brackets DEF InPlace
<1>8. Serializes(db, c, Out(x, At(c, e, p)))
  BY <1>2, <1>3, <1>4, <1>7, OutStep
<1>9. ResponseStep(c) = Out("}", At(c, "ResponseIsComplete", ""))
  BY DEF ResponseStep
<1> QED
  BY <1>1, <1>8, <1>9

LEMMA AccessoriesBegin ==
    ASSUME Databased(db), NEW c, InPlace(db, c), c.element = "AccessoriesArray", c.part = "Begin"
    PROVE  Serializes(db, c, ResponseStep(c))
<1>0. PICK e : e = "AccessoriesArray"
  OBVIOUS
<1>a. e \in Named /\ e \in Arrays
  BY <1>0 DEF Named, Arrays
<1>1. c \in Contexts /\ Rest(db, c) = Array(PartsIn(db, c, e)) \o Behind(db, c, e)
  BY <1>0, <1>a, BeginForm
<1>2. PICK docs : docs = AccessoryDocumentsOf(db)
  OBVIOUS
<1>3. /\ docs \in Parts /\ Len(docs) = Len(db) /\ 1 \in 1 .. Len(db)
      /\ docs[1] = Object(AccessoryFields(db[1]))
  <2>1. Len(db) \in Nat /\ Len(db) # 0 /\ DOMAIN db = 1 .. Len(db)
    BY DEF Databased
  <2>2. 1 \in 1 .. Len(db)
    BY <2>1
  <2> QED
    BY <1>2, <2>1, <2>2, ResponseFieldsAre
<1>4. docs[1] # <<>>
  <2>1. db[1] \in AccessoryRecords
    BY <1>3 DEF Databased
  <2> QED
    BY <1>3, <2>1, AccessoryFieldsAre, ObjectTyped
<1>5. Rest(db, c) = Array(docs) \o <<"}">> /\ <<"}">> \in Text
  <2>1. PartsIn(db, c, e) = docs
    BY <1>0, <1>2 DEF PartsIn
  <2> QED
    BY <1>0, <1>1, <2>1, AccessoriesArrayIs
<1>6. Rest(db, c) = <<"[">> \o FromPart(docs, 1, <<"}">>)
  <2>1. PICK j : j = 1
    OBVIOUS
  <2>2. /\ j \in 1 .. Len(docs) + 1 /\ j <= Len(docs) /\ docs[j] # <<>>
        /\ \A k \in 1 .. j - 1 : docs[k] = <<>>
    BY <1>3, <1>4, <2>1
  <2>3. Array(docs) \o <<"}">> = <<"[">> \o FromPart(docs, j, <<"}">>)
    BY <1>3, <1>5, <2>2, ArrayBegins
  <2> QED
    BY <1>5, <2>1, <2>3
<1>7. PICK q : q = [c EXCEPT !.accessory = 1]
  OBVIOUS
<1>8. q \in Contexts /\ q.accessory = 1
  BY <1>1, <1>7, WithAccessory
<1>9. PICK o, p, x : o = "AccessoryObject" /\ p = "Begin" /\ x = "["
  OBVIOUS
<1>10. Held(db, q, o) /\ FromObject(db, q, o) = FromPart(docs, 1, <<"}">>)
  BY <1>2, <1>3, <1>8, <1>9, AccessoryItem
<1>11. /\ PlaceAt(db, q, o, p) /\ p \in PartsOf(o) /\ o \in Elements
       /\ RestAt(db, q, o, p) = FromObject(db, q, o)
  BY <1>9, <1>10, DocumentPlace DEF Documents
<1>12. x \in Tokens /\ Rest(db, c) = <<x>> \o RestAt(db, q, o, p)
  BY <1>6, <1>9, <1>10, <1>11, Brackets
<1>13. Serializes(db, c, Out(x, At(q, o, p)))
  BY <1>8, <1>11, <1>12, OutStep
<1>14. ResponseStep(c) = Out("[", At(q, "AccessoryObject", "Begin"))
  BY <1>7 DEF ResponseStep
<1> QED
  BY <1>9, <1>13, <1>14

LEMMA AccessoryObjectEnds ==
    ASSUME Databased(db), NEW c, InPlace(db, c), c.element = "AccessoryObject", c.part = "End"
    PROVE  Serializes(db, c, AccessoryStep(c))
<1>0. PICK e : e = "AccessoriesArray"
  OBVIOUS
<1>1. /\ c \in Contexts /\ Held(db, c, "AccessoryObject") /\ "AccessoryObject" \in ObjectElements
      /\ "AccessoryObject" \in WithinAccessory
  BY DEF InPlace, PlaceAt, ObjectElements, WithinAccessory
<1>2. c.accessory \in 1 .. Len(db) /\ Len(db) \in Nat
  BY <1>1, AccessoriesTailTyped DEF Databased
<1>3. PICK j : j = c.accessory + 1
  OBVIOUS
<1>4. j \in 1 .. Len(db) + 1 /\ j \in Nat
  BY <1>2, <1>3
<1>5. PICK docs : docs = AccessoryDocumentsOf(db)
  OBVIOUS
<1>6. /\ docs \in Parts /\ Len(docs) = Len(db) /\ DOMAIN docs = DOMAIN db
      /\ \A k \in DOMAIN db : docs[k] = Object(AccessoryFields(db[k]))
  BY <1>5, ResponseFieldsAre
<1>7. PICK b : b = <<"}">>
  OBVIOUS
<1>8. b \in Text /\ \A q : Behind(db, q, e) = b /\ Held(db, q, e)
  BY <1>0, <1>7, AccessoriesArrayIs
<1>9. Rest(db, c) = <<"}">> \o (Commas(docs)[j] \o (<<"]">> \o b))
  <2>1. Rest(db, c) = ObjectRest(db, c, "AccessoryObject", "End")
    BY <1>1, RestIs DEF Rest
  <2>2. ObjectTail(db, c, "AccessoryObject") = AccessoriesTail(db, c)
    BY DEF ObjectTail
  <2>3. Rest(db, c) = <<"}">> \o AccessoriesTail(db, c)
    BY <2>1, <2>2 DEF ObjectRest
  <2> QED
    BY <1>3, <1>5, <1>7, <2>3 DEF AccessoriesTail
<1>10. j <= Len(docs) => docs[j] # <<>>
  <2>1. ASSUME j <= Len(docs) PROVE docs[j] # <<>>
    <3>1. j \in DOMAIN db
      BY <1>4, <1>6, <2>1 DEF Databased
    <3>2. db[j] \in AccessoryRecords
      BY <3>1 DEF Databased
    <3> QED
      BY <1>6, <3>1, <3>2, AccessoryFieldsAre, ObjectTyped
  <2> QED
    BY <2>1
<1>11. PICK t : t = IF j <= Len(docs) THEN <<",">> \o FromPart(docs, j, b) ELSE <<"]">> \o b
  OBVIOUS
<1>12. Rest(db, c) = <<"}">> \o t
  <2>0. PICK i : i = j
    OBVIOUS
  <2>1. i \in 1 .. Len(docs) + 1 /\ j \in i .. Len(docs) + 1 /\ \A k \in i .. j - 1 : docs[k] = <<>>
    BY <1>4, <1>6, <2>0
  <2>2. Commas(docs)[i] \o (<<"]">> \o b) = t
    BY <1>6, <1>8, <1>10, <1>11, <2>1, ArrayGoesOn
  <2> QED
    BY <1>9, <2>0, <2>2
<1>13. t \in Text
  <2>1. <<"]">> \o b \in Text
    BY <1>8, Brackets, OneToken, TextConcat
  <2>2. j <= Len(docs) => j \in DOMAIN docs
    BY <1>4, <1>6 DEF Databased
  <2>3. j <= Len(docs) => <<",">> \o FromPart(docs, j, b) \in Text
    BY <1>6, <1>8, <2>2, FromPartTyped, Brackets, OneToken, TextConcat
  <2> QED
    BY <1>11, <2>1, <2>3
<1>14. PICK q : q = [c EXCEPT !.accessory = j]
  OBVIOUS
<1>15. q \in Contexts /\ q.accessory = j
  BY <1>1, <1>4, <1>14, WithAccessory
<1>16. PICK there \in BOOLEAN : there <=> j <= Len(db)
  OBVIOUS
<1>17. PICK o, p, x : o = "AccessoryObject" /\ p = "Separator" /\ x = "}"
  OBVIOUS
<1>18. ASSUME there PROVE Held(db, q, o) /\ t = <<",">> \o FromObject(db, q, o)
  <2>1. q.accessory \in 1 .. Len(db) /\ j <= Len(docs)
    BY <1>4, <1>6, <1>15, <1>16, <1>18
  <2>2. Held(db, q, o) /\ FromObject(db, q, o) = FromPart(docs, j, b)
    BY <1>5, <1>7, <1>15, <1>17, <2>1, AccessoryItem
  <2> QED
    BY <1>11, <2>1, <2>2
<1>19. ASSUME ~there PROVE t = <<"]">> \o Behind(db, q, e)
  BY <1>6, <1>8, <1>11, <1>16, <1>19
<1>20. /\ x \in Tokens /\ o \in Documents /\ p \in {"Begin", "Separator"} /\ e \in DocumentArrays
       /\ Rest(db, c) = <<x>> \o t
  BY <1>0, <1>12, <1>17, Brackets DEF Documents, DocumentArrays
<1>21. Serializes(db, c, Out(x, IF there THEN At(q, o, p) ELSE At(q, e, "End")))
  <2>1. there => t = IF p = "Begin" THEN FromObject(db, q, o) ELSE <<",">> \o FromObject(db, q, o)
    BY <1>17, <1>18
  <2> QED
    BY <1>8, <1>13, <1>15, <1>18, <1>19, <1>20, <2>1, DocumentStep
<1>22. AccessoryStep(c) = Out("}", IF j <= Len(db) THEN At(q, "AccessoryObject", "Separator")
                                   ELSE At(q, "AccessoriesArray", "End"))
  <2>1. [c EXCEPT !.accessory = @ + 1] = q
    BY <1>3, <1>14
  <2> QED
    BY <1>15, <2>1 DEF AccessoryStep
<1> QED
  BY <1>0, <1>16, <1>17, <1>21, <1>22

-----------------------------------------------------------------------------
(* Lists of values.                                                        *)

ItemOf ==
    [LinkedServicesArray |-> "LinkedServiceID", PermissionsArray |-> "Permission",
     ValidValuesArray |-> "ValidValue"]

LEMMA SomeToken == \A x : <<x>> # <<>>
OBVIOUS

LEMMA ListIs ==
    ASSUME Databased(db), NEW c, NEW a \in DOMAIN ItemOf, Held(db, c, a)
    PROVE  /\ a \in Named /\ a \in Arrays /\ a \in Elements /\ a # "StepValue"
           /\ Listed(db, c, a) \in Seq(Tokens)
           /\ PartsIn(db, c, a) = Strings(Listed(db, c, a))
           /\ Behind(db, c, a) \in Text
           /\ ItemOf[a] \in Items /\ ListOf(ItemOf[a]) = a /\ ItemOf[a] \in Elements
           /\ ItemOf[a] # a
<1>1. a \in Named /\ a \in Arrays /\ a \in Elements /\ a # "StepValue"
  BY DEF ItemOf, Named, Arrays, Elements, OfService, OfCharacteristic
<1>2. PartsIn(db, c, a) = Strings(Listed(db, c, a))
  BY DEF ItemOf, PartsIn
<1>3. Behind(db, c, a) \in Text
  BY <1>1, NamedTyped
<1>4. /\ ItemOf[a] \in Items /\ ListOf(ItemOf[a]) = a /\ ItemOf[a] \in Elements
      /\ ItemOf[a] # a
  BY DEF ItemOf, Items, ListOf, Elements
<1>5. Listed(db, c, a) \in Seq(Tokens)
  <2>1. CASE a = "LinkedServicesArray"
    <3>1. ServiceAt(db, c) \in ServiceRecords
      BY <2>1, NamedWithin, RecordsAre DEF OfService
    <3> QED
      BY <2>1, <3>1, ServiceFieldsAre DEF Listed
  <2>2. CASE a = "PermissionsArray"
    BY <2>2, EnabledTyped DEF Listed
  <2>3. CASE a = "ValidValuesArray"
    BY <2>3, ListTyped DEF Listed
  <2> QED
    BY <2>1, <2>2, <2>3 DEF ItemOf
<1> QED
  BY <1>1, <1>2, <1>3, <1>4, <1>5

\* An item and its array are within the same objects.
LEMMA ItemHeld ==
    ASSUME NEW c, NEW a \in DOMAIN ItemOf
    PROVE  Held(db, c, ItemOf[a]) <=> Held(db, c, a)
<1>1. CASE a = "LinkedServicesArray"
  <2>1. /\ ItemOf[a] \in WithinService /\ ItemOf[a] \in WithinAccessory
        /\ ItemOf[a] \notin WithinCharacteristic
        /\ a \in WithinService /\ a \in WithinAccessory /\ a \notin WithinCharacteristic
    BY <1>1 DEF ItemOf, WithinAccessory, WithinService, WithinCharacteristic, OfService,
                OfCharacteristic, Ranges
  <2> QED
    BY <2>1 DEF Held
<1>2. CASE a # "LinkedServicesArray"
  <2>1. /\ ItemOf[a] \in WithinService /\ ItemOf[a] \in WithinAccessory
        /\ ItemOf[a] \in WithinCharacteristic
        /\ a \in WithinService /\ a \in WithinAccessory /\ a \in WithinCharacteristic
    BY <1>2 DEF ItemOf, WithinAccessory, WithinService, WithinCharacteristic, OfCharacteristic
  <2> QED
    BY <2>1 DEF Held
<1> QED
  BY <1>1, <1>2

LEMMA ItemPlace ==
    ASSUME Databased(db), NEW q, NEW a \in DOMAIN ItemOf, Held(db, q, a),
           ThisField(db, q, a) # <<>>, q.index \in DOMAIN Listed(db, q, a),
           NEW p \in {"Value", "Separator"}, NEW i, i = ItemOf[a]
    PROVE  /\ PlaceAt(db, q, i, p) /\ p \in PartsOf(i) /\ i \in Elements
           /\ RestAt(db, q, i, p) = IF p = "Value" THEN FromItem(db, q, i)
                                    ELSE <<",">> \o FromItem(db, q, i)
<1>1. i \in Items /\ ListOf(i) = a /\ i \in Elements
  BY ListIs
<1>2. i \notin Named /\ i \notin Ranges
  BY <1>1, Apart
<1>3. p \in PartsOf(i)
  BY <1>1, <1>2 DEF PartsOf, Items, Arrays, ObjectElements
<1>4. Held(db, q, i)
  BY ItemHeld
<1>5. Indexed(db, q, i)
  BY <1>1 DEF Indexed
<1>6. Present(db, q, i, p)
  BY <1>1, <1>2 DEF Present, Items
<1>7. RestAt(db, q, i, p) = ItemRest(db, q, i, p)
  BY <1>1, RestIs
<1> QED
  BY <1>1, <1>3, <1>4, <1>5, <1>6, <1>7 DEF PlaceAt, ItemRest

LEMMA ItemForm ==
    ASSUME Databased(db), NEW q, NEW a \in DOMAIN ItemOf, Held(db, q, a),
           NEW list, list = Listed(db, q, a), q.index \in DOMAIN list, NEW i, i = ItemOf[a]
    PROVE  /\ list[q.index] \in Tokens
           /\ FromItem(db, q, i) = <<list[q.index]>> \o (Commas(Strings(list))[q.index + 1]
                                    \o (<<"]">> \o Behind(db, q, a)))
           /\ FromItem(db, q, i) = FromPart(Strings(list), q.index, Behind(db, q, a))
           /\ FromItem(db, q, i) \in Text
<1>1. ListOf(i) = a /\ list \in Seq(Tokens) /\ Behind(db, q, a) \in Text
  BY ListIs
<1>2. Strings(list)[q.index] = <<list[q.index]>> /\ list[q.index] \in Tokens
  BY <1>1, StringsTyped
<1>3. Item(db, q, i) = list[q.index]
  BY <1>1 DEF Item
<1>4. FromItem(db, q, i) = <<list[q.index]>> \o (Commas(Strings(list))[q.index + 1]
                                    \o (<<"]">> \o Behind(db, q, a)))
  BY <1>1, <1>3 DEF FromItem
<1>5. FromItem(db, q, i) = FromPart(Strings(list), q.index, Behind(db, q, a))
  BY <1>2, <1>4 DEF FromPart
<1>6. FromPart(Strings(list), q.index, Behind(db, q, a)) \in Text
  <2>1. Strings(list) \in Parts /\ q.index \in DOMAIN Strings(list)
    BY <1>1, StringsTyped
  <2>2. PICK parts, j, t : parts = Strings(list) /\ j = q.index /\ t = Behind(db, q, a)
    OBVIOUS
  <2>3. FromPart(parts, j, t) \in Text
    BY <1>1, <2>1, <2>2, FromPartTyped
  <2> QED
    BY <2>2, <2>3
<1> QED
  BY <1>2, <1>4, <1>5, <1>6

LEMMA ListEndPlace ==
    ASSUME Databased(db), NEW q, NEW a \in DOMAIN ItemOf, Held(db, q, a),
           ThisField(db, q, a) # <<>>, NEW p, p = "End"
    PROVE  /\ PlaceAt(db, q, a, p) /\ p \in PartsOf(a)
           /\ RestAt(db, q, a, p) = <<"]">> \o Behind(db, q, a)
<1>1. a \in Named /\ a \in Arrays /\ a # "StepValue"
  BY ListIs
<1>2. p \in PartsOf(a)
  BY <1>1, NamedParts
<1>3. PlaceAt(db, q, a, p)
  BY <1>1, <1>2, NamedPlace
<1>4. RestAt(db, q, a, p) = NamedRest(db, q, a, p)
  BY <1>1, RestIs
<1> QED
  BY <1>2, <1>3, <1>4 DEF NamedRest

\* A token, and then an item or the end of its array.
LEMMA ItemStep ==
    ASSUME Databased(db), NEW c, NEW x \in Tokens, NEW q \in Contexts, NEW a \in DOMAIN ItemOf,
           NEW i, i = ItemOf[a], NEW p \in {"Value", "Separator"}, NEW there \in BOOLEAN,
           Held(db, q, a), ThisField(db, q, a) # <<>>,
           there => q.index \in DOMAIN Listed(db, q, a),
           NEW t, Rest(db, c) = <<x>> \o t,
           there => t = IF p = "Value" THEN FromItem(db, q, i) ELSE <<",">> \o FromItem(db, q, i),
           ~there => t = <<"]">> \o Behind(db, q, a)
    PROVE  Serializes(db, c, Out(x, IF there THEN At(q, i, p) ELSE At(q, a, "End")))
<1>1. CASE there
  <2>1. /\ PlaceAt(db, q, i, p) /\ p \in PartsOf(i) /\ i \in Elements
        /\ RestAt(db, q, i, p) = t
    BY <1>1, ItemPlace
  <2>2. Serializes(db, c, Out(x, At(q, i, p)))
    BY <2>1, OutStep
  <2> QED
    BY <1>1, <2>2
<1>2. CASE ~there
  <2>1. PICK r : r = "End"
    OBVIOUS
  <2>2. /\ PlaceAt(db, q, a, r) /\ r \in PartsOf(a) /\ a \in Elements
        /\ RestAt(db, q, a, r) = t
    BY <1>2, <2>1, ListEndPlace, ListIs
  <2>3. Serializes(db, c, Out(x, At(q, a, r)))
    BY <2>2, OutStep
  <2> QED
    BY <1>2, <2>1, <2>3
<1> QED
  BY <1>1, <1>2

\* What a list is does not depend on the index in it.
LEMMA AnyIndex ==
    ASSUME NEW d, NEW c, NEW q, q.accessory = c.accessory, q.service = c.service,
           q.characteristic = c.characteristic, NEW a
    PROVE  /\ Listed(d, q, a) = Listed(d, c, a)
           /\ Behind(d, q, a) = Behind(d, c, a)
           /\ ThisField(d, q, a) = ThisField(d, c, a)
           /\ Held(d, q, a) <=> Held(d, c, a)
<1>1. /\ AccessoryAt(d, q) = AccessoryAt(d, c)
      /\ ServiceAt(d, q) = ServiceAt(d, c)
      /\ CharacteristicAt(d, q) = CharacteristicAt(d, c)
  BY DEF AccessoryAt, ServiceAt, CharacteristicAt
<1>2. /\ AccessoriesTail(d, q) = AccessoriesTail(d, c)
      /\ ServicesTail(d, q) = ServicesTail(d, c)
      /\ CharacteristicsTail(d, q) = CharacteristicsTail(d, c)
  BY <1>1 DEF AccessoriesTail, ServicesTail, CharacteristicsTail
<1>3. Fields(d, q, a) = Fields(d, c, a) /\ Outside(d, q, a) = Outside(d, c, a)
  BY <1>1, <1>2 DEF Fields, Outside
<1>4. Held(d, q, a) <=> Held(d, c, a)
  BY <1>1 DEF Held
<1>5. Listed(d, q, a) = Listed(d, c, a)
  BY <1>1 DEF Listed
<1> QED
  BY <1>3, <1>4, <1>5 DEF ThisField, Behind

-----------------------------------------------------------------------------
LEMMA ListBegins ==
    ASSUME Databased(db), NEW c, InPlace(db, c), NEW a \in DOMAIN ItemOf, c.element = a,
           c.part = "Begin", NEW i, i = ItemOf[a], NEW list, list = Listed(db, c, a)
    PROVE  Serializes(db, c, ListStep(c, list, a, i))
<1>0. Held(db, c, a)
  BY DEF InPlace, PlaceAt
<1>1. /\ a \in Named /\ a \in Arrays /\ list \in Seq(Tokens) /\ PartsIn(db, c, a) = Strings(list)
      /\ Behind(db, c, a) \in Text /\ i # a
  BY <1>0, ListIs
<1>2. PICK b : b = Behind(db, c, a)
  OBVIOUS
<1>3. c \in Contexts /\ ThisField(db, c, a) # <<>> /\ Rest(db, c) = Array(Strings(list)) \o b
  BY <1>1, <1>2, BeginForm
<1>4. PICK there \in BOOLEAN : there <=> list # <<>>
  OBVIOUS
<1>5. PICK parts : parts = Strings(list)
  OBVIOUS
<1>6. /\ parts \in Parts /\ Len(parts) = Len(list)
      /\ \A k \in DOMAIN list : parts[k] = <<list[k]>>
  BY <1>1, <1>5, StringsTyped
<1>7. PICK j : j = 1
  OBVIOUS
<1>8. there => j <= Len(parts) /\ j \in DOMAIN list
  BY <1>1, <1>4, <1>6, <1>7
<1>9. ~there => ~(j <= Len(parts))
  BY <1>1, <1>4, <1>6, <1>7
<1>10. /\ j \in 1 .. Len(parts) + 1 /\ \A k \in 1 .. j - 1 : parts[k] = <<>>
       /\ j <= Len(parts) => parts[j] # <<>>
  <2>1. j \in 1 .. Len(parts) + 1 /\ \A k \in 1 .. j - 1 : parts[k] = <<>>
    BY <1>1, <1>6, <1>7
  <2>2. j <= Len(parts) => parts[j] = <<list[j]>>
    BY <1>1, <1>6, <1>7
  <2> QED
    BY <2>1, <2>2, SomeToken
<1>11. PICK t : t = IF j <= Len(parts) THEN FromPart(parts, j, b) ELSE <<"]">> \o b
  OBVIOUS
<1>12. Rest(db, c) = <<"[">> \o t
  BY <1>1, <1>2, <1>3, <1>5, <1>6, <1>10, <1>11, ArrayBegins
<1>13. PICK q : q = IF there THEN [c EXCEPT !.index = 1] ELSE c
  OBVIOUS
<1>14. /\ q \in Contexts /\ q.accessory = c.accessory /\ q.service = c.service
       /\ q.characteristic = c.characteristic /\ (there => q.index = j)
  BY <1>3, <1>7, <1>13, WithIndex
<1>15. /\ Listed(db, q, a) = list /\ Behind(db, q, a) = b
       /\ ThisField(db, q, a) # <<>> /\ Held(db, q, a)
  BY <1>0, <1>2, <1>3, <1>14, AnyIndex
<1>16. ASSUME there PROVE t = FromItem(db, q, i)
  <2>1. FromItem(db, q, i) = FromPart(Strings(list), q.index, Behind(db, q, a))
    BY <1>8, <1>14, <1>15, <1>16, ItemForm
  <2> QED
    BY <1>5, <1>8, <1>11, <1>14, <1>15, <1>16, <2>1
<1>17. PICK p, x : p = "Value" /\ x = "["
  OBVIOUS
<1>18. Serializes(db, c, Out(x, IF there THEN At(q, i, p) ELSE At(q, a, "End")))
  <2>1. x \in Tokens /\ Rest(db, c) = <<x>> \o t /\ p \in {"Value", "Separator"}
    BY <1>12, <1>17, Brackets
  <2>2. there => t = IF p = "Value" THEN FromItem(db, q, i) ELSE <<",">> \o FromItem(db, q, i)
    BY <1>16, <1>17
  <2>3. ~there => t = <<"]">> \o Behind(db, q, a)
    BY <1>9, <1>11, <1>15
  <2>4. there => q.index \in DOMAIN Listed(db, q, a)
    BY <1>8, <1>14, <1>15
  <2> QED
    BY <1>14, <1>15, <2>1, <2>2, <2>3, <2>4, ItemStep
<1>19. ListStep(c, list, a, i)
        = Out("[", IF list = <<>> THEN At(c, a, "End") ELSE At([c EXCEPT !.index = 1], i, "Value"))
  BY DEF ListStep
<1> QED
  BY <1>4, <1>13, <1>17, <1>18, <1>19

LEMMA ListEnds ==
    ASSUME Databased(db), NEW c, InPlace(db, c), NEW a \in DOMAIN ItemOf, c.element = a,
           c.part = "End", NEW i, NEW list
    PROVE  Serializes(db, c, ListStep(c, list, a, i))
<1>0. Held(db, c, a) /\ c \in Contexts
  BY DEF InPlace, PlaceAt
<1>1. a \in Named /\ a \in Arrays /\ a \in Elements /\ a # "StepValue"
  BY <1>0, ListIs
<1>2. ThisField(db, c, a) # <<>>
  BY <1>1 DEF InPlace, PlaceAt, Present, Optional
<1>3. PICK p, x : p = "ValueSeparator" /\ x = "]"
  OBVIOUS
<1>4. p \in PartsOf(a)
  BY <1>3 DEF ItemOf, PartsOf
<1>5. PlaceAt(db, c, a, p)
  BY <1>0, <1>1, <1>2, <1>4, NamedPlace
<1>6. RestAt(db, c, a, p) = NamedRest(db, c, a, p) /\ Rest(db, c) = NamedRest(db, c, a, "End")
  BY <1>1, RestIs DEF Rest
<1>7. x \in Tokens /\ Rest(db, c) = <<x>> \o RestAt(db, c, a, p)
  BY <1>3, <1>6, Brackets DEF NamedRest
<1>8. Serializes(db, c, Out(x, At(c, a, p)))
  BY <1>0, <1>1, <1>4, <1>5, <1>7, OutStep
<1>9. ListStep(c, list, a, i) = Out("]", At(c, a, "ValueSeparator"))
  BY DEF ListStep
<1> QED
  BY <1>3, <1>8, <1>9

\* At an item there is its array.
LEMMA ItemThere ==
    ASSUME Databased(db), NEW c, InPlace(db, c), NEW a \in DOMAIN ItemOf, c.element = ItemOf[a],
           NEW list, list = Listed(db, c, a)
    PROVE  /\ c \in Contexts /\ Held(db, c, a) /\ ThisField(db, c, a) # <<>>
           /\ c.index \in DOMAIN list /\ c.part \in {"Value", "Separator"}
           /\ list \in Seq(Tokens)
<1>1. c \in Contexts /\ Held(db, c, a)
  BY ItemHeld DEF InPlace, PlaceAt
<1>2. /\ ItemOf[a] \in Items /\ ListOf(ItemOf[a]) = a /\ a \in Named /\ a \in Arrays
      /\ list \in Seq(Tokens)
  BY <1>1, ListIs
<1>3. c.index \in DOMAIN list
  BY <1>2 DEF InPlace, PlaceAt, Indexed
<1>4. c.part \in {"Value", "Separator"}
  BY <1>2 DEF InPlace, PlaceAt, PartsOf, Items, Arrays, Named, ObjectElements,
              OfAccessory, OfService, OfCharacteristic
<1>5. ThisField(db, c, a) # <<>>
  <2>1. CASE a = "LinkedServicesArray"
    <3>1. a \in OfAccessory \cup OfService
      BY <2>1 DEF OfService
    <3> QED
      BY <1>1, <3>1, OfServiceFields
  <2>2. CASE a = "PermissionsArray"
    <3>1. PICK ch : ch = CharacteristicAt(db, c)
      OBVIOUS
    <3>2. a \in OfCharacteristic /\ Place[a] = 5
      BY <2>2, CharacteristicPlace
    <3>3. ch \in CharacteristicRecords /\ ThisField(db, c, a) = CharacteristicFields(ch)[Place[a]]
      BY <1>1, <3>1, <3>2, CharacteristicIs
    <3> QED
      BY <3>2, <3>3, CharacteristicHas
  <2>3. CASE a = "ValidValuesArray"
    BY <1>2, <2>3 DEF ItemOf, InPlace, PlaceAt, Present
  <2> QED
    BY <2>1, <2>2, <2>3 DEF ItemOf
<1> QED
  BY <1>1, <1>2, <1>3, <1>4, <1>5

LEMMA ItemSeparates ==
    ASSUME Databased(db), NEW c, InPlace(db, c), NEW a \in DOMAIN ItemOf, NEW i, i = ItemOf[a],
           c.element = i, c.part = "Separator", NEW list, list = Listed(db, c, a)
    PROVE  Serializes(db, c, ListStep(c, list, a, i))
<1>1. /\ c \in Contexts /\ Held(db, c, a) /\ ThisField(db, c, a) # <<>>
      /\ c.index \in DOMAIN list
  BY ItemThere
<1>2. PICK p, x : p = "Value" /\ x = ","
  OBVIOUS
<1>3. /\ PlaceAt(db, c, i, p) /\ p \in PartsOf(i) /\ i \in Elements
      /\ RestAt(db, c, i, p) = FromItem(db, c, i)
  BY <1>1, <1>2, ItemPlace
<1>4. PICK s : s = "Separator"
  OBVIOUS
<1>5. RestAt(db, c, i, s) = <<",">> \o FromItem(db, c, i)
  BY <1>1, <1>4, ItemPlace
<1>6. x \in Tokens /\ Rest(db, c) = <<x>> \o RestAt(db, c, i, p)
  BY <1>2, <1>3, <1>4, <1>5, Brackets DEF Rest
<1>7. Serializes(db, c, Out(x, At(c, i, p)))
  BY <1>1, <1>3, <1>6, OutStep
<1>8. i # a
  BY <1>1, ListIs
<1>9. ListStep(c, list, a, i) = Out(",", At(c, i, "Value"))
  BY <1>8 DEF ListStep
<1> QED
  BY <1>2, <1>7, <1>9

LEMMA ItemFollows ==
    ASSUME Databased(db), NEW c, InPlace(db, c), NEW a \in DOMAIN ItemOf, NEW i, i = ItemOf[a],
           c.element = i, c.part = "Value", NEW list, list = Listed(db, c, a)
    PROVE  Serializes(db, c, ListStep(c, list, a, i))
<1>1. /\ c \in Contexts /\ Held(db, c, a) /\ ThisField(db, c, a) # <<>>
      /\ c.index \in DOMAIN list /\ list \in Seq(Tokens)
  BY ItemThere
<1>2. PICK b : b = Behind(db, c, a)
  OBVIOUS
<1>3. b \in Text /\ i # a
  BY <1>1, <1>2, ListIs
<1>4. PICK x, j : x = list[c.index] /\ j = c.index + 1
  OBVIOUS
<1>5. PICK v : v = "Value"
  OBVIOUS
<1>6. RestAt(db, c, i, v) = FromItem(db, c, i)
  BY <1>1, <1>5, ItemPlace
<1>7. PICK parts : parts = Strings(list)
  OBVIOUS
<1>8. x \in Tokens /\ FromItem(db, c, i) = <<x>> \o (Commas(parts)[j] \o (<<"]">> \o b))
  BY <1>1, <1>2, <1>4, <1>7, ItemForm
<1>9. /\ parts \in Parts /\ Len(parts) = Len(list)
      /\ \A k \in DOMAIN list : parts[k] = <<list[k]>>
  BY <1>1, <1>7, StringsTyped
<1>10. j \in 1 .. Len(parts) + 1 /\ j \in Nat
  BY <1>1, <1>4, <1>9
<1>11. PICK there \in BOOLEAN : there <=> j <= Len(list)
  OBVIOUS
<1>12. there => j \in DOMAIN list
  BY <1>1, <1>9, <1>10, <1>11
<1>13. j <= Len(parts) => parts[j] # <<>>
  <2>1. j <= Len(parts) => parts[j] = <<list[j]>>
    BY <1>9, <1>11, <1>12
  <2> QED
    BY <2>1, SomeToken
<1>14. PICK t : t = IF j <= Len(parts) THEN <<",">> \o FromPart(parts, j, b) ELSE <<"]">> \o b
  OBVIOUS
<1>15. Commas(parts)[j] \o (<<"]">> \o b) = t
  <2>0. PICK h : h = j
    OBVIOUS
  <2>1. h \in 1 .. Len(parts) + 1 /\ j \in h .. Len(parts) + 1 /\ \A k \in h .. j - 1 : parts[k] = <<>>
    BY <1>9, <1>10, <2>0
  <2>2. Commas(parts)[h] \o (<<"]">> \o b) = t
    BY <1>3, <1>9, <1>13, <1>14, <2>1, ArrayGoesOn
  <2> QED
    BY <2>0, <2>2
<1>16. Rest(db, c) = <<x>> \o t
  BY <1>5, <1>6, <1>8, <1>15 DEF Rest
<1>17. PICK q : q = [c EXCEPT !.index = j]
  OBVIOUS
<1>18. /\ q \in Contexts /\ q.accessory = c.accessory /\ q.service = c.service
       /\ q.characteristic = c.characteristic /\ q.index = j
  BY <1>1, <1>10, <1>17, WithIndex
<1>19. /\ Listed(db, q, a) = list /\ Behind(db, q, a) = b
       /\ ThisField(db, q, a) # <<>> /\ Held(db, q, a)
  BY <1>1, <1>2, <1>18, AnyIndex
<1>20. ASSUME there PROVE t = <<",">> \o FromItem(db, q, i)
  <2>1. FromItem(db, q, i) = FromPart(Strings(list), q.index, Behind(db, q, a))
    BY <1>12, <1>18, <1>19, <1>20, ItemForm
  <2> QED
    BY <1>7, <1>9, <1>11, <1>14, <1>18, <1>19, <1>20, <2>1
<1>21. PICK p : p = "Separator"
  OBVIOUS
<1>22. Serializes(db, c, Out(x, IF there THEN At(q, i, p) ELSE At(q, a, "End")))
  <2>1. there => t = IF p = "Value" THEN FromItem(db, q, i) ELSE <<",">> \o FromItem(db, q, i)
    BY <1>20, <1>21
  <2>2. ~there => t = <<"]">> \o Behind(db, q, a)
    BY <1>9, <1>11, <1>14, <1>19
  <2>3. there => q.index \in DOMAIN Listed(db, q, a)
    BY <1>12, <1>18, <1>19
  <2>4. p \in {"Value", "Separator"}
    BY <1>21
  <2> QED
    BY <1>8, <1>16, <1>18, <1>19, <2>1, <2>2, <2>3, <2>4, ItemStep
<1>23. ListStep(c, list, a, i)
        = Out(x, IF j <= Len(list) THEN At(q, i, "Separator") ELSE At(q, a, "End"))
  <2>1. [c EXCEPT !.index = @ + 1] = q
    BY <1>4, <1>17
  <2> QED
    BY <1>3, <1>4, <1>18, <2>1 DEF ListStep
<1> QED
  BY <1>11, <1>21, <1>22, <1>23

LEMMA ListFollows ==
    ASSUME Databased(db), NEW c, InPlace(db, c), NEW a \in DOMAIN ItemOf, NEW i, i = ItemOf[a],
           c.element \in {a, i}, c.part \notin {"Name", "NameSeparator", "ValueSeparator"},
           NEW list, list = Listed(db, c, a)
    PROVE  Serializes(db, c, ListStep(c, list, a, i))
<1>1. CASE c.element = a
  <2>1. c.part \in PartsOf(a)
    BY <1>1 DEF InPlace, PlaceAt
  <2>2. c.part \in {"Begin", "End"}
    BY <2>1 DEF ItemOf, PartsOf
  <2> QED
    BY <1>1, <2>2, ListBegins, ListEnds
<1>2. CASE c.element = i
  <2>1. c.part \in {"Value", "Separator"}
    BY <1>2, ItemThere
  <2> QED
    BY <1>2, <2>1, ItemFollows, ItemSeparates
<1> QED
  BY <1>1, <1>2

-----------------------------------------------------------------------------
(* Ranges of valid values.                                                 *)

LEMMA RangesAre ==
    ASSUME Databased(db), NEW c, NEW a, a = "ValidValuesRangesArray", Held(db, c, a),
           NEW list, list = Listed(db, c, a)
    PROVE  /\ a \in Named /\ a \in Arrays /\ a \in Elements /\ a # "StepValue"
           /\ list \in Seq(Tokens) /\ list = List(Characteristic(c).ranges)
           /\ PartsIn(db, c, a) = RangeDocuments(list)
           /\ Behind(db, c, a) \in Text
           /\ c.index \in DOMAIN list => RangesTail(db, c) \in Text
<1>1. a \in Named /\ a \in Arrays /\ a \in Elements /\ a # "StepValue"
  BY DEF Named, Arrays, Elements, OfCharacteristic
<1>2. list = List(Characteristic(c).ranges) /\ PartsIn(db, c, a) = RangeDocuments(list)
  BY Current DEF Listed, PartsIn
<1>3. list \in Seq(Tokens)
  BY <1>2, ListTyped
<1>4. Behind(db, c, a) \in Text
  BY <1>1, NamedTyped
<1>5. ASSUME c.index \in DOMAIN list PROVE RangesTail(db, c) \in Text
  <2>1. RangeDocuments(list) \in Parts /\ c.index + 1 \in 1 .. Len(RangeDocuments(list)) + 1
    BY <1>3, <1>5, RangesTyped
  <2>2. Commas(RangeDocuments(list))[c.index + 1] \in Text
    BY <2>1, CommasTyped
  <2>3. <<"]">> \o Behind(db, c, a) \in Text
    BY <1>4, Brackets, OneToken, TextConcat
  <2> QED
    BY <2>2, <2>3, TextConcat DEF RangesTail
<1> QED
  BY <1>1, <1>2, <1>3, <1>4, <1>5

LEMMA RangeHeld ==
    ASSUME NEW c, NEW r \in Ranges
    PROVE  Held(db, c, r) <=> Held(db, c, "ValidValuesRangesArray")
<1>1. PICK a : a = "ValidValuesRangesArray"
  OBVIOUS
<1>2. /\ r \in WithinCharacteristic /\ r \in WithinService /\ r \in WithinAccessory
      /\ a \in WithinCharacteristic /\ a \in WithinService /\ a \in WithinAccessory
  BY <1>1 DEF WithinCharacteristic, WithinService, WithinAccessory, OfCharacteristic
<1>3. Held(db, c, r) <=> Held(db, c, a)
  BY <1>2 DEF Held
<1> QED
  BY <1>1, <1>3

LEMMA RangeIs ==
    ASSUME NEW r \in Ranges
    PROVE  /\ r \in Elements /\ r \notin Named /\ r \notin ObjectElements /\ r \notin Items
           /\ ListOf(r) = "ValidValuesRangesArray"
           /\ PartsOf("ValidValuesRange") = {"Begin", "Separator", "Comma", "End"}
           /\ PartsOf("RangeStart") = {"Value"} /\ PartsOf("RangeEnd") = {"Value"}
<1>1. r \in Elements /\ r \notin Named /\ r \notin ObjectElements /\ r \notin Items
  BY Apart DEF Elements
<1>2. ListOf(r) = "ValidValuesRangesArray"
  BY DEF ListOf, Ranges
<1>3. /\ PartsOf("ValidValuesRange") = {"Begin", "Separator", "Comma", "End"}
      /\ PartsOf("RangeStart") = {"Value"} /\ PartsOf("RangeEnd") = {"Value"}
  BY DEF PartsOf, Arrays, Named, ObjectElements, Items, Ranges, OfAccessory, OfService, OfCharacteristic
<1> QED
  BY <1>1, <1>2, <1>3

LEMMA RangePlace ==
    ASSUME NEW q, NEW r \in Ranges, NEW p \in PartsOf(r),
           NEW a, a = "ValidValuesRangesArray", Held(db, q, a), ThisField(db, q, a) # <<>>,
           q.index \in DOMAIN Listed(db, q, a)
    PROVE  PlaceAt(db, q, r, p) /\ r \in Elements /\ RestAt(db, q, r, p) = RangeRest(db, q, r, p)
<1>1. ListOf(r) = a /\ r \in Elements /\ r \notin Named
  BY RangeIs
<1>2. Held(db, q, r)
  BY RangeHeld
<1>3. Indexed(db, q, r)
  BY <1>1 DEF Indexed
<1>4. Present(db, q, r, p)
  BY <1>1 DEF Present, Named, OfCharacteristic
<1> QED
  BY <1>1, <1>2, <1>3, <1>4, RestIs DEF PlaceAt

LEMMA RangeThere ==
    ASSUME Databased(db), NEW c, InPlace(db, c), c.element \in Ranges,
           NEW a, a = "ValidValuesRangesArray", NEW list, list = Listed(db, c, a)
    PROVE  /\ c \in Contexts /\ Held(db, c, a) /\ ThisField(db, c, a) # <<>>
           /\ c.index \in DOMAIN list /\ c.part \in PartsOf(c.element)
           /\ list \in Seq(Tokens) /\ list[c.index] \in Tokens
           /\ RangesTail(db, c) \in Text
           /\ Rest(db, c) = RangeRest(db, c, c.element, c.part)
           /\ \A r \in Ranges : Item(db, c, r) = list[c.index]
<1>1. PICK r : r = c.element
  OBVIOUS
<1>2. c \in Contexts /\ Held(db, c, a) /\ c.part \in PartsOf(r)
  BY <1>1, RangeHeld DEF InPlace, PlaceAt
<1>3. ListOf(r) = a /\ \A s \in Ranges : ListOf(s) = a
  BY <1>1, RangeIs
<1>4. c.index \in DOMAIN list
  BY <1>1, <1>3 DEF InPlace, PlaceAt, Indexed
<1>5. ThisField(db, c, a) # <<>>
  BY <1>1, <1>3 DEF InPlace, PlaceAt, Present
<1>6. list \in Seq(Tokens) /\ RangesTail(db, c) \in Text
  BY <1>2, <1>4, RangesAre
<1>7. list[c.index] \in Tokens
  BY <1>4, <1>6
<1>8. Rest(db, c) = RangeRest(db, c, c.element, c.part)
  BY RestIs DEF Rest
<1>9. \A s \in Ranges : Item(db, c, s) = list[c.index]
  BY <1>3 DEF Item
<1> QED
  BY <1>1, <1>2, <1>4, <1>5, <1>6, <1>7, <1>8, <1>9

\* What is left at each part of a range.
LEMMA RangeForms ==
    ASSUME NEW q, NEW v \in Tokens, \A r \in Ranges : Item(db, q, r) = v,
           RangesTail(db, q) \in Text
    PROVE  /\ RangeRest(db, q, "ValidValuesRange", "Begin")
                = RangeDocument(v) \o RangesTail(db, q)
           /\ RangeRest(db, q, "ValidValuesRange", "Begin")
                = <<"[">> \o RangeRest(db, q, "RangeStart", "Value")
           /\ RangeRest(db, q, "RangeStart", "Value")
                = <<v>> \o RangeRest(db, q, "ValidValuesRange", "Comma")
           /\ RangeRest(db, q, "ValidValuesRange", "Comma")
                = <<",">> \o RangeRest(db, q, "RangeEnd", "Value")
           /\ RangeRest(db, q, "RangeEnd", "Value")
                = <<v>> \o RangeRest(db, q, "ValidValuesRange", "End")
           /\ RangeRest(db, q, "ValidValuesRange", "End") = <<"]">> \o RangesTail(db, q)
           /\ RangeRest(db, q, "ValidValuesRange", "Separator")
                = <<",">> \o RangeRest(db, q, "ValidValuesRange", "Begin")
<1>0. /\ Item(db, q, "ValidValuesRange") = v /\ Item(db, q, "RangeStart") = v
      /\ Item(db, q, "RangeEnd") = v
  BY DEF Ranges
<1>1. RangeDocument(v) \o RangesTail(db, q)
        = <<"[">> \o (<<v>> \o (<<",">> \o (<<v>> \o (<<"]">> \o RangesTail(db, q)))))
  BY RangeTyped
<1>2. FromRangeEnd(db, q, "RangeEnd") = <<v>> \o (<<"]">> \o RangesTail(db, q))
  BY <1>0 DEF FromRangeEnd
<1>3. /\ FromRangeEnd(db, q, "RangeStart") = <<v>> \o (<<"]">> \o RangesTail(db, q))
      /\ FromRangeEnd(db, q, "ValidValuesRange") = <<v>> \o (<<"]">> \o RangesTail(db, q))
  BY <1>0 DEF FromRangeEnd
<1>4. RangeRest(db, q, "RangeStart", "Value") = <<v>> \o (<<",">> \o FromRangeEnd(db, q, "RangeStart"))
  BY <1>0 DEF RangeRest
<1>5. RangeRest(db, q, "RangeEnd", "Value") = FromRangeEnd(db, q, "RangeEnd")
  BY DEF RangeRest
<1>6. RangeRest(db, q, "ValidValuesRange", "Begin") = RangeDocument(v) \o RangesTail(db, q)
  BY <1>0 DEF RangeRest
<1>7. RangeRest(db, q, "ValidValuesRange", "Separator")
        = <<",">> \o (RangeDocument(v) \o RangesTail(db, q))
  BY <1>0 DEF RangeRest
<1>8. RangeRest(db, q, "ValidValuesRange", "Comma") = <<",">> \o FromRangeEnd(db, q, "ValidValuesRange")
  BY DEF RangeRest
<1>9. RangeRest(db, q, "ValidValuesRange", "End") = <<"]">> \o RangesTail(db, q)
  BY DEF RangeRest
<1> QED
  BY <1>1, <1>2, <1>3, <1>4, <1>5, <1>6, <1>7, <1>8, <1>9

LEMMA RangeStepOn ==
    ASSUME Databased(db), NEW c, InPlace(db, c), c.element \in Ranges,
           NEW r \in Ranges, NEW p \in PartsOf(r), NEW x \in Tokens,
           Rest(db, c) = <<x>> \o RangeRest(db, c, r, p)
    PROVE  Serializes(db, c, Out(x, At(c, r, p)))
<1>1. PICK a : a = "ValidValuesRangesArray"
  OBVIOUS
<1>2. /\ c \in Contexts /\ Held(db, c, a) /\ ThisField(db, c, a) # <<>>
      /\ c.index \in DOMAIN Listed(db, c, a)
  BY <1>1, RangeThere
<1>3. PlaceAt(db, c, r, p) /\ r \in Elements /\ RestAt(db, c, r, p) = RangeRest(db, c, r, p)
  BY <1>1, <1>2, RangePlace
<1>4. Rest(db, c) = <<x>> \o RestAt(db, c, r, p)
  BY <1>3
<1> QED
  BY <1>2, <1>3, <1>4, OutStep

\* A token, and then a range or the end of the array.
LEMMA RangeOrEnd ==
    ASSUME Databased(db), NEW c, NEW x \in Tokens, NEW q \in Contexts,
           NEW a, a = "ValidValuesRangesArray", NEW r, r = "ValidValuesRange",
           NEW p \in {"Begin", "Separator"}, NEW there \in BOOLEAN,
           Held(db, q, a), ThisField(db, q, a) # <<>>,
           there => q.index \in DOMAIN Listed(db, q, a),
           NEW t, Rest(db, c) = <<x>> \o t,
           there => t = RangeRest(db, q, r, p),
           ~there => t = <<"]">> \o Behind(db, q, a)
    PROVE  Serializes(db, c, Out(x, IF there THEN At(q, r, p) ELSE At(q, a, "End")))
<1>1. CASE there
  <2>1. r \in Ranges /\ p \in PartsOf(r)
    BY RangeIs DEF Ranges
  <2>2. PlaceAt(db, q, r, p) /\ r \in Elements /\ RestAt(db, q, r, p) = t
    BY <1>1, <2>1, RangePlace
  <2>3. Serializes(db, c, Out(x, At(q, r, p)))
    BY <2>1, <2>2, OutStep
  <2> QED
    BY <1>1, <2>3
<1>2. CASE ~there
  <2>1. PICK s : s = "End"
    OBVIOUS
  <2>2. a \in Named /\ a \in Arrays /\ a \in Elements /\ a # "StepValue"
    BY RangesAre
  <2>3. s \in PartsOf(a)
    BY <2>1, <2>2, NamedParts
  <2>4. PlaceAt(db, q, a, s)
    BY <2>2, <2>3, NamedPlace
  <2>5. RestAt(db, q, a, s) = NamedRest(db, q, a, s)
    BY <2>2, RestIs
  <2>6. RestAt(db, q, a, s) = t
    BY <1>2, <2>1, <2>5 DEF NamedRest
  <2>7. Serializes(db, c, Out(x, At(q, a, s)))
    BY <2>2, <2>3, <2>4, <2>6, OutStep
  <2> QED
    BY <1>2, <2>1, <2>7
<1> QED
  BY <1>1, <1>2

\* From a range on.
LEMMA RangeFrom ==
    ASSUME Databased(db), NEW q, NEW a, a = "ValidValuesRangesArray", Held(db, q, a),
           NEW list, list = Listed(db, q, a), q.index \in DOMAIN list
    PROVE  /\ RangeRest(db, q, "ValidValuesRange", "Begin")
                = FromPart(RangeDocuments(list), q.index, Behind(db, q, a))
           /\ RangeRest(db, q, "ValidValuesRange", "Separator")
                = <<",">> \o FromPart(RangeDocuments(list), q.index, Behind(db, q, a))
<1>1. list \in Seq(Tokens) /\ RangesTail(db, q) \in Text
  BY RangesAre
<1>2. PICK v : v = list[q.index]
  OBVIOUS
<1>3. v \in Tokens /\ RangeDocuments(list)[q.index] = RangeDocument(v)
  BY <1>1, <1>2, RangesTyped
<1>4. \A r \in Ranges : Item(db, q, r) = v
  BY <1>2, RangeIs DEF Item
<1>5. /\ RangeRest(db, q, "ValidValuesRange", "Begin") = RangeDocument(v) \o RangesTail(db, q)
      /\ RangeRest(db, q, "ValidValuesRange", "Separator")
           = <<",">> \o RangeRest(db, q, "ValidValuesRange", "Begin")
  BY <1>1, <1>3, <1>4, RangeForms
<1> QED
  BY <1>3, <1>5 DEF FromPart, RangesTail

-----------------------------------------------------------------------------
LEMMA RangesBegin ==
    ASSUME Databased(db), NEW c, InPlace(db, c), c.element = "ValidValuesRangesArray",
           c.part = "Begin"
    PROVE  Serializes(db, c, RangesStep(c))
<1>a. PICK a : a = "ValidValuesRangesArray"
  OBVIOUS
<1>b. PICK list : list = Listed(db, c, a)
  OBVIOUS
<1>0. Held(db, c, a)
  BY <1>a DEF InPlace, PlaceAt
<1>1. /\ a \in Named /\ a \in Arrays /\ list \in Seq(Tokens)
      /\ PartsIn(db, c, a) = RangeDocuments(list)
      /\ Behind(db, c, a) \in Text /\ list = List(Characteristic(c).ranges)
  BY <1>0, <1>a, <1>b, RangesAre
<1>2. PICK b : b = Behind(db, c, a)
  OBVIOUS
<1>3. c \in Contexts /\ ThisField(db, c, a) # <<>> /\ Rest(db, c) = Array(RangeDocuments(list)) \o b
  BY <1>1, <1>2, <1>a, BeginForm
<1>4. PICK there \in BOOLEAN : there <=> list # <<>>
  OBVIOUS
<1>5. PICK parts : parts = RangeDocuments(list)
  OBVIOUS
<1>6. /\ parts \in Parts /\ Len(parts) = Len(list)
      /\ \A k \in DOMAIN list : parts[k] = RangeDocument(list[k]) /\ list[k] \in Tokens
  BY <1>1, <1>5, RangesTyped
<1>7. PICK j : j = 1
  OBVIOUS
<1>8. there => j <= Len(parts) /\ j \in DOMAIN list
  BY <1>1, <1>4, <1>6, <1>7
<1>9. ~there => ~(j <= Len(parts))
  BY <1>1, <1>4, <1>6, <1>7
<1>10. /\ j \in 1 .. Len(parts) + 1 /\ \A k \in 1 .. j - 1 : parts[k] = <<>>
       /\ j <= Len(parts) => parts[j] # <<>>
  <2>1. j \in 1 .. Len(parts) + 1 /\ \A k \in 1 .. j - 1 : parts[k] = <<>>
    BY <1>1, <1>6, <1>7
  <2>2. j <= Len(parts) => parts[j] = RangeDocument(list[j]) /\ list[j] \in Tokens
    BY <1>1, <1>6, <1>7
  <2> QED
    BY <2>1, <2>2, RangeTyped
<1>11. PICK t : t = IF j <= Len(parts) THEN FromPart(parts, j, b) ELSE <<"]">> \o b
  OBVIOUS
<1>12. Rest(db, c) = <<"[">> \o t
  BY <1>1, <1>2, <1>3, <1>5, <1>6, <1>10, <1>11, ArrayBegins
<1>13. PICK q : q = IF there THEN [c EXCEPT !.index = 1] ELSE c
  OBVIOUS
<1>14. /\ q \in Contexts /\ q.accessory = c.accessory /\ q.service = c.service
       /\ q.characteristic = c.characteristic /\ (there => q.index = j)
  BY <1>3, <1>7, <1>13, WithIndex
<1>15. /\ Listed(db, q, a) = list /\ Behind(db, q, a) = b
       /\ ThisField(db, q, a) # <<>> /\ Held(db, q, a)
  BY <1>0, <1>2, <1>3, <1>14, <1>b, AnyIndex
<1>17. PICK r, p, x : r = "ValidValuesRange" /\ p = "Begin" /\ x = "["
  OBVIOUS
<1>16. ASSUME there PROVE t = RangeRest(db, q, r, p)
  <2>1. RangeRest(db, q, r, p) = FromPart(RangeDocuments(list), q.index, Behind(db, q, a))
    BY <1>8, <1>14, <1>15, <1>16, <1>17, <1>a, RangeFrom
  <2> QED
    BY <1>5, <1>8, <1>11, <1>14, <1>15, <1>16, <2>1
<1>18. Serializes(db, c, Out(x, IF there THEN At(q, r, p) ELSE At(q, a, "End")))
  <2>1. x \in Tokens /\ Rest(db, c) = <<x>> \o t /\ p \in {"Begin", "Separator"}
    BY <1>12, <1>17, Brackets
  <2>3. ~there => t = <<"]">> \o Behind(db, q, a)
    BY <1>9, <1>11, <1>15
  <2>4. there => q.index \in DOMAIN Listed(db, q, a)
    BY <1>8, <1>14, <1>15
  <2> QED
    BY <1>14, <1>15, <1>16, <1>17, <1>a, <2>1, <2>3, <2>4, RangeOrEnd
<1>19. RangesStep(c)
        = Out("[", IF list = <<>> THEN At(c, "ValidValuesRangesArray", "End")
                   ELSE At([c EXCEPT !.index = 1], "ValidValuesRange", "Begin"))
  BY <1>1 DEF RangesStep
<1> QED
  BY <1>4, <1>13, <1>17, <1>18, <1>19, <1>a

LEMMA RangeEnds ==
    ASSUME Databased(db), NEW c, InPlace(db, c), c.element = "ValidValuesRange", c.part = "End"
    PROVE  Serializes(db, c, RangeStep(c))
<1>a. PICK a : a = "ValidValuesRangesArray"
  OBVIOUS
<1>b. PICK list : list = Listed(db, c, a)
  OBVIOUS
<1>c. c.element \in Ranges
  BY DEF Ranges
<1>1. /\ c \in Contexts /\ Held(db, c, a) /\ ThisField(db, c, a) # <<>>
      /\ c.index \in DOMAIN list /\ list \in Seq(Tokens)
  BY <1>a, <1>b, <1>c, RangeThere
<1>d. /\ list[c.index] \in Tokens /\ RangesTail(db, c) \in Text
      /\ \A r \in Ranges : Item(db, c, r) = list[c.index]
  BY <1>a, <1>b, <1>c, RangeThere
<1>e. Rest(db, c) = RangeRest(db, c, "ValidValuesRange", "End")
  BY <1>a, <1>b, <1>c, RangeThere
<1>2. PICK b : b = Behind(db, c, a)
  OBVIOUS
<1>3. b \in Text /\ list = List(Characteristic(c).ranges)
  BY <1>1, <1>2, <1>a, <1>b, RangesAre
<1>4. PICK j : j = c.index + 1
  OBVIOUS
<1>7. PICK parts : parts = RangeDocuments(list)
  OBVIOUS
<1>8. Rest(db, c) = <<"]">> \o (Commas(parts)[j] \o (<<"]">> \o b))
  <2>1. RangeRest(db, c, "ValidValuesRange", "End") = <<"]">> \o RangesTail(db, c)
    BY <1>d, RangeForms
  <2> QED
    BY <1>2, <1>4, <1>7, <1>a, <1>b, <1>e, <2>1 DEF RangesTail
<1>9. /\ parts \in Parts /\ Len(parts) = Len(list)
      /\ \A k \in DOMAIN list : parts[k] = RangeDocument(list[k]) /\ list[k] \in Tokens
  BY <1>1, <1>7, RangesTyped
<1>10. j \in 1 .. Len(parts) + 1 /\ j \in Nat
  BY <1>1, <1>4, <1>9
<1>11. PICK there \in BOOLEAN : there <=> j <= Len(list)
  OBVIOUS
<1>12. there => j \in DOMAIN list
  BY <1>1, <1>9, <1>10, <1>11
<1>13. j <= Len(parts) => parts[j] # <<>>
  <2>1. j <= Len(parts) => parts[j] = RangeDocument(list[j]) /\ list[j] \in Tokens
    BY <1>9, <1>11, <1>12
  <2> QED
    BY <2>1, RangeTyped
<1>14. PICK t : t = IF j <= Len(parts) THEN <<",">> \o FromPart(parts, j, b) ELSE <<"]">> \o b
  OBVIOUS
<1>15. Commas(parts)[j] \o (<<"]">> \o b) = t
  <2>0. PICK h : h = j
    OBVIOUS
  <2>1. h \in 1 .. Len(parts) + 1 /\ j \in h .. Len(parts) + 1 /\ \A k \in h .. j - 1 : parts[k] = <<>>
    BY <1>9, <1>10, <2>0
  <2>2. Commas(parts)[h] \o (<<"]">> \o b) = t
    BY <1>3, <1>9, <1>13, <1>14, <2>1, ArrayGoesOn
  <2> QED
    BY <2>0, <2>2
<1>16. Rest(db, c) = <<"]">> \o t
  BY <1>8, <1>15
<1>17. PICK q : q = [c EXCEPT !.index = j]
  OBVIOUS
<1>18. /\ q \in Contexts /\ q.accessory = c.accessory /\ q.service = c.service
       /\ q.characteristic = c.characteristic /\ q.index = j
  BY <1>1, <1>10, <1>17, WithIndex
<1>19. /\ Listed(db, q, a) = list /\ Behind(db, q, a) = b
       /\ ThisField(db, q, a) # <<>> /\ Held(db, q, a)
  BY <1>1, <1>2, <1>18, <1>b, AnyIndex
<1>21. PICK r, p, x : r = "ValidValuesRange" /\ p = "Separator" /\ x = "]"
  OBVIOUS
<1>20. ASSUME there PROVE t = RangeRest(db, q, r, p)
  <2>1. RangeRest(db, q, r, p) = <<",">> \o FromPart(RangeDocuments(list), q.index, Behind(db, q, a))
    BY <1>12, <1>18, <1>19, <1>20, <1>21, <1>a, RangeFrom
  <2> QED
    BY <1>7, <1>9, <1>11, <1>14, <1>18, <1>19, <1>20, <2>1
<1>22. Serializes(db, c, Out(x, IF there THEN At(q, r, p) ELSE At(q, a, "End")))
  <2>1. x \in Tokens /\ p \in {"Begin", "Separator"} /\ Rest(db, c) = <<x>> \o t
    BY <1>16, <1>21, Brackets
  <2>2. ~there => t = <<"]">> \o Behind(db, q, a)
    BY <1>9, <1>11, <1>14, <1>19
  <2>3. there => q.index \in DOMAIN Listed(db, q, a)
    BY <1>12, <1>18, <1>19
  <2> QED
    BY <1>18, <1>19, <1>20, <1>21, <1>a, <2>1, <2>2, <2>3, RangeOrEnd
<1>23. RangeStep(c)
        = Out("]", IF j <= Len(list) THEN At(q, "ValidValuesRange", "Separator")
                   ELSE At(q, "ValidValuesRangesArray", "End"))
  <2>1. [c EXCEPT !.index = @ + 1] = q
    BY <1>4, <1>17
  <2> QED
    BY <1>3, <1>18, <2>1 DEF RangeStep
<1> QED
  BY <1>11, <1>21, <1>22, <1>23, <1>a

LEMMA RangeFollows ==
    ASSUME Databased(db), NEW c, InPlace(db, c), c.element \in Ranges
    PROVE  Serializes(db, c, RangeStep(c))
<1>a. PICK a : a = "ValidValuesRangesArray"
  OBVIOUS
<1>b. PICK v : v = Listed(db, c, a)[c.index]
  OBVIOUS
<1>1. /\ Held(db, c, a) /\ v \in Tokens /\ RangesTail(db, c) \in Text
      /\ c.part \in PartsOf(c.element)
  BY <1>a, <1>b, RangeThere
<1>2. Rest(db, c) = RangeRest(db, c, c.element, c.part) /\ \A r \in Ranges : Item(db, c, r) = v
  BY <1>a, <1>b, RangeThere
<1>3. List(Characteristic(c).ranges)[c.index] = v
  BY <1>1, <1>a, <1>b, RangesAre
<1>4. PICK r0, r1, r2 : r0 = "ValidValuesRange" /\ r1 = "RangeStart" /\ r2 = "RangeEnd"
  OBVIOUS
<1>5. r0 \in Ranges /\ r1 \in Ranges /\ r2 \in Ranges /\ c.element \in {r0, r1, r2}
  BY <1>4 DEF Ranges
<1>6. /\ PartsOf(r0) = {"Begin", "Separator", "Comma", "End"}
      /\ PartsOf(r1) = {"Value"} /\ PartsOf(r2) = {"Value"}
  BY <1>4, <1>5, RangeIs
<1>7. PICK p0, p1, p2, p3, p4 : /\ p0 = "Begin" /\ p1 = "Separator" /\ p2 = "Comma"
                                /\ p3 = "End" /\ p4 = "Value"
  OBVIOUS
<1>8. PICK x0, x1 : x0 = "[" /\ x1 = ","
  OBVIOUS
<1>9. x0 \in Tokens /\ x1 \in Tokens
  BY <1>8, Brackets
<1>10. /\ RangeRest(db, c, r0, p0) = <<x0>> \o RangeRest(db, c, r1, p4)
       /\ RangeRest(db, c, r1, p4) = <<v>> \o RangeRest(db, c, r0, p2)
       /\ RangeRest(db, c, r0, p2) = <<x1>> \o RangeRest(db, c, r2, p4)
       /\ RangeRest(db, c, r2, p4) = <<v>> \o RangeRest(db, c, r0, p3)
       /\ RangeRest(db, c, r0, p1) = <<x1>> \o RangeRest(db, c, r0, p0)
  BY <1>1, <1>2, <1>4, <1>7, <1>8, RangeForms
<1>11. CASE c.element = r0 /\ c.part = p0
  <2>1. Rest(db, c) = <<x0>> \o RangeRest(db, c, r1, p4) /\ p4 \in PartsOf(r1)
    BY <1>2, <1>6, <1>7, <1>10, <1>11
  <2>2. Serializes(db, c, Out(x0, At(c, r1, p4)))
    BY <1>5, <1>9, <2>1, RangeStepOn
  <2>3. RangeStep(c) = Out("[", At(c, "RangeStart", "Value"))
    BY <1>4, <1>7, <1>11 DEF RangeStep
  <2> QED
    BY <1>4, <1>7, <1>8, <2>2, <2>3
<1>12. CASE c.element = r0 /\ c.part = p1
  <2>1. Rest(db, c) = <<x1>> \o RangeRest(db, c, r0, p0) /\ p0 \in PartsOf(r0)
    BY <1>2, <1>6, <1>7, <1>10, <1>12
  <2>2. Serializes(db, c, Out(x1, At(c, r0, p0)))
    BY <1>5, <1>9, <2>1, RangeStepOn
  <2>3. RangeStep(c) = Out(",", At(c, "ValidValuesRange", "Begin"))
    BY <1>4, <1>7, <1>12 DEF RangeStep
  <2> QED
    BY <1>4, <1>7, <1>8, <2>2, <2>3
<1>13. CASE c.element = r0 /\ c.part = p2
  <2>1. Rest(db, c) = <<x1>> \o RangeRest(db, c, r2, p4) /\ p4 \in PartsOf(r2)
    BY <1>2, <1>6, <1>7, <1>10, <1>13
  <2>2. Serializes(db, c, Out(x1, At(c, r2, p4)))
    BY <1>5, <1>9, <2>1, RangeStepOn
  <2>3. RangeStep(c) = Out(",", At(c, "RangeEnd", "Value"))
    BY <1>4, <1>7, <1>13 DEF RangeStep
  <2> QED
    BY <1>4, <1>7, <1>8, <2>2, <2>3
<1>14. CASE c.element = r0 /\ c.part = p3
  BY <1>4, <1>7, <1>14, RangeEnds
<1>15. CASE c.element = r1
  <2>1. Rest(db, c) = <<v>> \o RangeRest(db, c, r0, p2) /\ p2 \in PartsOf(r0) /\ c.part = p4
    BY <1>1, <1>2, <1>6, <1>7, <1>10, <1>15
  <2>2. Serializes(db, c, Out(v, At(c, r0, p2)))
    BY <1>1, <1>5, <2>1, RangeStepOn
  <2>3. RangeStep(c) = Out(v, At(c, "ValidValuesRange", "Comma"))
    BY <1>3, <1>4, <1>7, <1>15, <2>1 DEF RangeStep
  <2> QED
    BY <1>4, <1>7, <2>2, <2>3
<1>16. CASE c.element = r2
  <2>1. Rest(db, c) = <<v>> \o RangeRest(db, c, r0, p3) /\ p3 \in PartsOf(r0) /\ c.part = p4
    BY <1>1, <1>2, <1>6, <1>7, <1>10, <1>16
  <2>2. Serializes(db, c, Out(v, At(c, r0, p3)))
    BY <1>1, <1>5, <2>1, RangeStepOn
  <2>3. RangeStep(c) = Out(v, At(c, "ValidValuesRange", "End"))
    BY <1>3, <1>4, <1>7, <1>16, <2>1 DEF RangeStep
  <2> QED
    BY <1>4, <1>7, <2>2, <2>3
<1> QED
  BY <1>1, <1>5, <1>6, <1>7, <1>11, <1>12, <1>13, <1>14, <1>15, <1>16

-----------------------------------------------------------------------------
(* Every step.                                                             *)

LEMMA ObjectSteps ==
    ASSUME Databased(db), NEW c, InPlace(db, c), c.element \in ObjectElements
    PROVE  Serializes(db, c, ElementStep(c))
<1>1. c.part \in PartsOf(c.element)
  BY DEF InPlace, PlaceAt
<1>2. CASE c.element = "ResponseObject"
  <2>1. c.part \in {"Begin", "End"} /\ ElementStep(c) = ResponseStep(c)
    BY <1>1, <1>2 DEF PartsOf, Arrays, Named, OfAccessory, OfService, OfCharacteristic, ElementStep
  <2>2. CASE c.part = "Begin"
    <3>1. Serializes(db, c, Out("{", At(c, FirstField[c.element], "Name")))
      BY <2>2, ObjectFollows
    <3>2. FirstField[c.element] = "AccessoriesArray"
      BY <1>2 DEF FirstField
    <3>3. ResponseStep(c) = Out("{", At(c, "AccessoriesArray", "Name"))
      BY <1>2, <2>2 DEF ResponseStep
    <3> QED
      BY <2>1, <3>1, <3>2, <3>3
  <2>3. CASE c.part = "End"
    BY <1>2, <2>1, <2>3, ResponseEnds
  <2> QED
    BY <2>1, <2>2, <2>3
<1>3. CASE c.element # "ResponseObject"
  <2>1. c.part \in {"Begin", "Separator", "End"}
    BY <1>1, <1>3 DEF PartsOf, Arrays, Named, OfAccessory, OfService, OfCharacteristic, ObjectElements
  <2>2. ElementStep(c) = CASE c.element = "AccessoryObject" -> AccessoryStep(c)
                           [] c.element = "ServiceObject" -> ServiceStep(c)
                           [] c.element = "CharacteristicObject" -> CharacteristicStep(c)
    BY <1>3 DEF ElementStep, ObjectElements
  <2>3. CASE c.part = "Begin"
    <3>1. Serializes(db, c, Out("{", At(c, FirstField[c.element], "Name")))
      BY <2>3, ObjectFollows
    <3>2. ElementStep(c) = Out("{", At(c, FirstField[c.element], "Name"))
      <4>1. CASE c.element = "AccessoryObject"
        <5>1. FirstField[c.element] = "AccessoryID"
          BY <4>1 DEF FirstField
        <5> QED
          BY <2>2, <2>3, <4>1, <5>1 DEF AccessoryStep
      <4>2. CASE c.element = "ServiceObject"
        <5>1. FirstField[c.element] = "ServiceID"
          BY <4>2 DEF FirstField
        <5> QED
          BY <2>2, <2>3, <4>2, <5>1 DEF ServiceStep
      <4>3. CASE c.element = "CharacteristicObject"
        <5>1. FirstField[c.element] = "CharacteristicID"
          BY <4>3 DEF FirstField
        <5> QED
          BY <2>2, <2>3, <4>3, <5>1 DEF CharacteristicStep
      <4> QED
        BY <1>3, <4>1, <4>2, <4>3 DEF ObjectElements
    <3> QED
      BY <3>1, <3>2
  <2>4. CASE c.part = "Separator"
    <3>1. Serializes(db, c, Out(",", At(c, c.element, "Begin")))
      BY <2>4, ObjectFollows
    <3> QED
      BY <1>3, <2>2, <2>4, <3>1
      DEF AccessoryStep, ServiceStep, CharacteristicStep, ObjectElements
  <2>5. CASE c.part = "End"
    BY <1>3, <2>2, <2>5, AccessoryObjectEnds, ServiceObjectEnds, CharacteristicObjectEnds
    DEF ObjectElements
  <2> QED
    BY <2>1, <2>3, <2>4, <2>5
<1> QED
  BY <1>2, <1>3

LEMMA ArraySteps ==
    ASSUME Databased(db), NEW c, InPlace(db, c), c.element \in DOMAIN Owner,
           c.part \notin {"Name", "NameSeparator"}
    PROVE  Serializes(db, c, ElementStep(c))
<1>1. c.part \in {"Begin", "End"}
  BY DEF InPlace, PlaceAt, PartsOf, Owner, Arrays
<1>2. CASE c.part = "Begin"
  <2>1. CASE c.element = "AccessoriesArray"
    BY <1>2, <2>1, AccessoriesBegin DEF ElementStep
  <2>2. CASE c.element = "ServicesArray"
    BY <1>2, <2>2, ServicesBegin DEF ElementStep
  <2>3. CASE c.element = "CharacteristicsArray"
    BY <1>2, <2>3, CharacteristicsBegin DEF ElementStep
  <2>4. CASE c.element = "ValidValuesRangesArray"
    BY <1>2, <2>4, RangesBegin DEF ElementStep
  <2> QED
    BY <2>1, <2>2, <2>3, <2>4 DEF Owner
<1>3. CASE c.part = "End"
  <2>1. Serializes(db, c, Out("]", At(c, Owner[c.element], "End")))
    BY <1>3, ArrayEnds
  <2>2. ElementStep(c) = Out("]", At(c, Owner[c.element], "End"))
    <3>1. CASE c.element = "AccessoriesArray"
      BY <1>3, <3>1 DEF ElementStep, ResponseStep, Owner
    <3>2. CASE c.element = "ServicesArray"
      BY <1>3, <3>2 DEF ElementStep, ServicesStep, Owner
    <3>3. CASE c.element = "CharacteristicsArray"
      BY <1>3, <3>3 DEF ElementStep, CharacteristicsStep, Owner
    <3>4. CASE c.element = "ValidValuesRangesArray"
      BY <1>3, <3>4 DEF ElementStep, RangesStep, Owner
    <3> QED
      BY <3>1, <3>2, <3>3, <3>4 DEF Owner
  <2> QED
    BY <2>1, <2>2
<1> QED
  BY <1>1, <1>2, <1>3

LEMMA ListSteps ==
    ASSUME Databased(db), NEW c, InPlace(db, c), NEW a \in DOMAIN ItemOf,
           c.element \in {a, ItemOf[a]}, c.part \notin {"Name", "NameSeparator", "ValueSeparator"}
    PROVE  Serializes(db, c, ElementStep(c))
<1>1. PICK i, list : i = ItemOf[a] /\ list = Listed(db, c, a)
  OBVIOUS
<1>2. Serializes(db, c, ListStep(c, list, a, i))
  BY <1>1, ListFollows
<1>3. Service(c) = ServiceAt(db, c) /\ Characteristic(c) = CharacteristicAt(db, c)
  BY Current
<1>4. ElementStep(c) = ListStep(c, list, a, i)
  <2>1. CASE a = "LinkedServicesArray"
    <3>1. i = "LinkedServiceID" /\ list = Service(c).linked
      BY <1>1, <1>3, <2>1 DEF ItemOf, Listed
    <3>2. ElementStep(c) = LinkedStep(c)
      BY <1>1, <2>1, <3>1 DEF ElementStep
    <3> QED
      BY <2>1, <3>1, <3>2 DEF LinkedStep
  <2>2. CASE a = "PermissionsArray"
    <3>1. i = "Permission" /\ list = EnabledProperties(Characteristic(c))
      BY <1>1, <1>3, <2>2 DEF ItemOf, Listed
    <3>2. ElementStep(c) = PermissionsStep(c)
      BY <1>1, <2>2, <3>1 DEF ElementStep
    <3> QED
      BY <2>2, <3>1, <3>2 DEF PermissionsStep
  <2>3. CASE a = "ValidValuesArray"
    <3>1. i = "ValidValue" /\ list = List(Characteristic(c).validValues)
      BY <1>1, <1>3, <2>3 DEF ItemOf, Listed
    <3>2. ElementStep(c) = ValidValuesStep(c)
      BY <1>1, <2>3, <3>1 DEF ElementStep
    <3> QED
      BY <2>3, <3>1, <3>2 DEF ValidValuesStep
  <2> QED
    BY <2>1, <2>2, <2>3 DEF ItemOf
<1> QED
  BY <1>2, <1>4

LEMMA EveryItem ==
    ASSUME NEW i \in Items
    PROVE  \E a \in DOMAIN ItemOf : i = ItemOf[a]
<1>1. CASE i = "LinkedServiceID"
  <2>1. PICK a : a = "LinkedServicesArray"
    OBVIOUS
  <2>2. a \in DOMAIN ItemOf /\ i = ItemOf[a]
    BY <1>1, <2>1 DEF ItemOf
  <2> QED
    BY <2>2
<1>2. CASE i = "Permission"
  <2>1. PICK a : a = "PermissionsArray"
    OBVIOUS
  <2>2. a \in DOMAIN ItemOf /\ i = ItemOf[a]
    BY <1>2, <2>1 DEF ItemOf
  <2> QED
    BY <2>2
<1>3. CASE i = "ValidValue"
  <2>1. PICK a : a = "ValidValuesArray"
    OBVIOUS
  <2>2. a \in DOMAIN ItemOf /\ i = ItemOf[a]
    BY <1>3, <2>1 DEF ItemOf
  <2> QED
    BY <2>2
<1> QED
  BY <1>1, <1>2, <1>3 DEF Items

LEMMA StepFollows ==
    ASSUME Databased(db), NEW c, InPlace(db, c), ~IsComplete(c)
    PROVE  Serializes(db, c, Step(c))
<1>0. c.element \in Elements /\ c.part \in PartsOf(c.element)
  BY DEF InPlace, PlaceAt, Contexts
<1>1. CASE c.part \in {"Name", "NameSeparator"}
  <2>1. Step(c) = NameStep(c)
    BY <1>1 DEF Step
  <2> QED
    BY <1>1, <2>1, NameFollows
<1>2. CASE c.part = "ValueSeparator"
  <2>1. Step(c) = SeparatorStep(c)
    BY <1>2 DEF Step
  <2> QED
    BY <1>2, <2>1, SeparatorFollows
<1>3. CASE c.part = "Value" /\ c.element \notin Lists
  <2>1. Step(c) = ValuesStep(c)
    BY <1>3 DEF Step
  <2> QED
    BY <1>3, <2>1, ValueFollows
<1>4. CASE /\ c.part \notin {"Name", "NameSeparator", "ValueSeparator"}
           /\ ~(c.part = "Value" /\ c.element \notin Lists)
  <2>1. Step(c) = ElementStep(c)
    BY <1>4 DEF Step
  <2>2. CASE c.element \in ObjectElements
    BY <2>1, <2>2, ObjectSteps
  <2>3. CASE c.element \in DOMAIN Owner
    BY <1>4, <2>1, <2>3, ArraySteps
  <2>4. CASE c.element \in DOMAIN ItemOf
    BY <1>4, <2>1, <2>4, ListSteps
  <2>5. CASE c.element \in Items
    <3>1. PICK a \in DOMAIN ItemOf : c.element = ItemOf[a]
      BY <2>5, EveryItem
    <3> QED
      BY <1>4, <2>1, <3>1, ListSteps
  <2>6. CASE c.element \in Ranges
    <3>1. ElementStep(c) = RangeStep(c)
      BY <2>6 DEF ElementStep, Ranges
    <3> QED
      BY <2>1, <2>6, <3>1, RangeFollows
  <2>7. CASE c.element \in Named \ Arrays
    <3>1. c.part = "Value"
      BY <1>0, <1>4, <2>7 DEF PartsOf, Arrays, Named, OfAccessory, OfService, OfCharacteristic
    <3>2. c.element \notin Lists
      BY <2>7 DEF Lists, Named, OfAccessory, OfService, OfCharacteristic
    <3> QED
      BY <1>4, <3>1, <3>2
  <2>8. Arrays \subseteq (DOMAIN Owner) \cup DOMAIN ItemOf
    BY DEF Arrays, Owner, ItemOf
  <2> QED
    BY <1>0, <2>2, <2>3, <2>4, <2>5, <2>6, <2>7, <2>8 DEF Elements, IsComplete
<1> QED
  BY <1>1, <1>2, <1>3, <1>4

-----------------------------------------------------------------------------
(* What is left is some tokens, until the end.                             *)

LEMMA AtLeastOne ==
    ASSUME NEW a \in Text, NEW b \in Text, a # <<>> \/ b # <<>>
    PROVE  a \o b \in Text /\ a \o b # <<>>
<1>1. a \o b \in Text /\ Len(a \o b) = Len(a) + Len(b)
  BY TextConcat
<1>2. Len(a) \in Nat /\ Len(b) \in Nat /\ (a # <<>> => Len(a) # 0) /\ (b # <<>> => Len(b) # 0)
  BY DEF Text
<1>3. Len(a \o b) # 0
  BY <1>1, <1>2
<1> QED
  BY <1>1, <1>3, NoTokens

LEMMA TokenAnd ==
    ASSUME NEW x \in Tokens, NEW b \in Text
    PROVE  <<x>> \o b \in Text /\ <<x>> \o b # <<>>
BY OneToken, SomeToken, AtLeastOne

LEMMA BehindSome ==
    ASSUME Databased(db), NEW c, NEW e \in Named, Held(db, c, e)
    PROVE  Behind(db, c, e) # <<>>
<1> DEFINE F == Fields(db, c, e)
           z == <<"}">> \o Outside(db, c, e)
           y == Commas(F)[Place[e] + 1]
<1>1. F \in Parts /\ Place[e] \in 1 .. Len(F) /\ Outside(db, c, e) \in Text
  BY NamedTyped
<1>2. z \in Text /\ z # <<>>
  BY <1>1, Brackets, TokenAnd
<1>3. y \in Text
  <2>1. Place[e] + 1 \in 1 .. Len(F) + 1
    BY <1>1 DEF Parts
  <2> QED
    BY <1>1, <2>1, CommasTyped
<1>4. Behind(db, c, e) = y \o z
  BY DEF Behind
<1> HIDE DEF y, z
<1> QED
  BY <1>2, <1>3, <1>4, AtLeastOne

LEMMA NamedSome ==
    ASSUME Databased(db), NEW c, InPlace(db, c), c.element \in Named
    PROVE  Rest(db, c) \in Text /\ Rest(db, c) # <<>>
<1>1. PICK e : e = c.element
  OBVIOUS
<1>2. PICK p : p = c.part
  OBVIOUS
<1>3. Held(db, c, e) /\ e \in Named
  BY <1>1 DEF InPlace, PlaceAt
<1>4. Behind(db, c, e) \in Text /\ Behind(db, c, e) # <<>> /\ Content(db, c, e) \in Text
      /\ Names[e] \in Tokens
  BY <1>3, NamedTyped, BehindSome
<1>5. Rest(db, c) = NamedRest(db, c, e, p)
  BY <1>1, <1>2, RestIs DEF Rest
<1>6. CASE p \in {"Name", "NameSeparator", "Begin", "Value"}
  <2>1. ThisField(db, c, e) # <<>>
    BY <1>1, <1>2, <1>3, <1>6 DEF InPlace, PlaceAt, Present
  <2>2. Content(db, c, e) \o Behind(db, c, e) \in Text /\ Content(db, c, e) \o Behind(db, c, e) # <<>>
    BY <1>4, AtLeastOne
  <2>3. NamedRest(db, c, e, "Value") \in Text /\ NamedRest(db, c, e, "Value") # <<>>
        /\ NamedRest(db, c, e, "Begin") = NamedRest(db, c, e, "Value")
    BY <1>3, <2>1, <2>2, NamedForms
  <2>4. NamedRest(db, c, e, "NameSeparator") = <<":">> \o NamedRest(db, c, e, "Value")
        /\ NamedRest(db, c, e, "Name") = <<Names[e]>> \o NamedRest(db, c, e, "NameSeparator")
    BY <1>3, <2>1, NamedForms
  <2>5. NamedRest(db, c, e, "NameSeparator") \in Text /\ NamedRest(db, c, e, "NameSeparator") # <<>>
    BY <2>3, <2>4, Brackets, TokenAnd
  <2>6. NamedRest(db, c, e, "Name") \in Text /\ NamedRest(db, c, e, "Name") # <<>>
    BY <1>4, <2>4, <2>5, TokenAnd
  <2> QED
    BY <1>5, <1>6, <2>3, <2>5, <2>6
<1>7. CASE p = "End"
  <2>1. NamedRest(db, c, e, p) = <<"]">> \o Behind(db, c, e)
    BY <1>7 DEF NamedRest
  <2> QED
    BY <1>4, <1>5, <2>1, Brackets, TokenAnd
<1>8. CASE p \notin {"Name", "NameSeparator", "Begin", "Value", "End"}
  <2>1. NamedRest(db, c, e, p) = Behind(db, c, e)
    BY <1>8 DEF NamedRest
  <2> QED
    BY <1>4, <1>5, <2>1
<1> QED
  BY <1>6, <1>7, <1>8

LEMMA ObjectSome ==
    ASSUME Databased(db), NEW c, InPlace(db, c), c.element \in ObjectElements
    PROVE  Rest(db, c) \in Text /\ Rest(db, c) # <<>>
<1>1. PICK o : o = c.element
  OBVIOUS
<1>2. PICK p : p = c.part
  OBVIOUS
<1>3. Held(db, c, o) /\ o \in ObjectElements
  BY <1>1 DEF InPlace, PlaceAt
<1>4. PICK f : f = FirstField[o]
  OBVIOUS
<1>5. /\ f \in Named /\ Held(db, c, f)
      /\ Fields(db, c, f) = ObjectOf(db, c, o) /\ Outside(db, c, f) = ObjectTail(db, c, o)
  BY <1>3, <1>4, FirstFieldIs
<1>6. ObjectOf(db, c, o) \in Parts /\ ObjectTail(db, c, o) \in Text
  BY <1>5, NamedTyped
<1>7. FromObject(db, c, o) \in Text /\ FromObject(db, c, o) # <<>>
  BY <1>6, ObjectTyped, AtLeastOne DEF FromObject
<1>8. Rest(db, c) = ObjectRest(db, c, o, p)
  BY <1>1, <1>2, RestIs DEF Rest
<1>9. /\ <<",">> \o FromObject(db, c, o) \in Text /\ <<",">> \o FromObject(db, c, o) # <<>>
      /\ <<"}">> \o ObjectTail(db, c, o) \in Text /\ <<"}">> \o ObjectTail(db, c, o) # <<>>
  BY <1>6, <1>7, Brackets, TokenAnd
<1> QED
  BY <1>7, <1>8, <1>9 DEF ObjectRest

LEMMA ItemSome ==
    ASSUME Databased(db), NEW c, InPlace(db, c), NEW a \in DOMAIN ItemOf, c.element = ItemOf[a]
    PROVE  Rest(db, c) \in Text /\ Rest(db, c) # <<>>
<1>1. PICK i, list, p : i = c.element /\ list = Listed(db, c, a) /\ p = c.part
  OBVIOUS
<1>2. /\ Held(db, c, a) /\ ThisField(db, c, a) # <<>> /\ c.index \in DOMAIN list
      /\ p \in {"Value", "Separator"}
  BY <1>1, ItemThere
<1>3. FromItem(db, c, i) \in Text
  BY <1>1, <1>2, ItemForm
<1>4. FromItem(db, c, i) # <<>>
  <2>1. list \in Seq(Tokens) /\ Behind(db, c, a) \in Text
    BY <1>1, <1>2, ListIs
  <2>2. /\ list[c.index] \in Tokens
        /\ FromItem(db, c, i) = <<list[c.index]>> \o (Commas(Strings(list))[c.index + 1]
                                    \o (<<"]">> \o Behind(db, c, a)))
    BY <1>1, <1>2, ItemForm
  <2>3. Strings(list) \in Parts /\ c.index + 1 \in 1 .. Len(Strings(list)) + 1
    BY <1>2, <2>1, StringsTyped
  <2>4. Commas(Strings(list))[c.index + 1] \in Text
    BY <2>3, CommasTyped
  <2>5. <<"]">> \o Behind(db, c, a) \in Text
    BY <2>1, Brackets, TokenAnd
  <2>6. Commas(Strings(list))[c.index + 1] \o (<<"]">> \o Behind(db, c, a)) \in Text
    BY <2>4, <2>5, TextConcat
  <2> QED
    BY <2>2, <2>6, TokenAnd
<1>5. RestAt(db, c, i, p) = IF p = "Value" THEN FromItem(db, c, i) ELSE <<",">> \o FromItem(db, c, i)
  BY <1>1, <1>2, ItemPlace
<1>6. <<",">> \o FromItem(db, c, i) \in Text /\ <<",">> \o FromItem(db, c, i) # <<>>
  BY <1>3, Brackets, TokenAnd
<1> QED
  BY <1>1, <1>3, <1>4, <1>5, <1>6 DEF Rest

LEMMA RangeSome ==
    ASSUME Databased(db), NEW c, InPlace(db, c), c.element \in Ranges
    PROVE  Rest(db, c) \in Text /\ Rest(db, c) # <<>>
<1>a. PICK a : a = "ValidValuesRangesArray"
  OBVIOUS
<1>b. PICK v : v = Listed(db, c, a)[c.index]
  OBVIOUS
<1>1. /\ v \in Tokens /\ RangesTail(db, c) \in Text /\ c.part \in PartsOf(c.element)
  BY <1>a, <1>b, RangeThere
<1>2. Rest(db, c) = RangeRest(db, c, c.element, c.part) /\ \A r \in Ranges : Item(db, c, r) = v
  BY <1>a, <1>b, RangeThere
<1> DEFINE R(r, p) == RangeRest(db, c, r, p)
<1>3. /\ R("ValidValuesRange", "Begin") = <<"[">> \o R("RangeStart", "Value")
      /\ R("RangeStart", "Value") = <<v>> \o R("ValidValuesRange", "Comma")
      /\ R("ValidValuesRange", "Comma") = <<",">> \o R("RangeEnd", "Value")
      /\ R("RangeEnd", "Value") = <<v>> \o R("ValidValuesRange", "End")
      /\ R("ValidValuesRange", "End") = <<"]">> \o RangesTail(db, c)
      /\ R("ValidValuesRange", "Separator") = <<",">> \o R("ValidValuesRange", "Begin")
  BY <1>1, <1>2, RangeForms
<1> HIDE DEF R
<1>4. R("ValidValuesRange", "End") \in Text /\ R("ValidValuesRange", "End") # <<>>
  BY <1>1, <1>3, Brackets, TokenAnd
<1>5. R("RangeEnd", "Value") \in Text /\ R("RangeEnd", "Value") # <<>>
  BY <1>1, <1>3, <1>4, TokenAnd
<1>6. R("ValidValuesRange", "Comma") \in Text /\ R("ValidValuesRange", "Comma") # <<>>
  BY <1>3, <1>5, Brackets, TokenAnd
<1>7. R("RangeStart", "Value") \in Text /\ R("RangeStart", "Value") # <<>>
  BY <1>1, <1>3, <1>6, TokenAnd
<1>8. R("ValidValuesRange", "Begin") \in Text /\ R("ValidValuesRange", "Begin") # <<>>
  BY <1>3, <1>7, Brackets, TokenAnd
<1>9. R("ValidValuesRange", "Separator") \in Text /\ R("ValidValuesRange", "Separator") # <<>>
  BY <1>3, <1>8, Brackets, TokenAnd
<1>10. CASE c.element = "ValidValuesRange"
  <2>1. c.part \in {"Begin", "Separator", "Comma", "End"}
    BY <1>1, <1>10, RangeIs
  <2> QED
    BY <1>2, <1>4, <1>6, <1>8, <1>9, <1>10, <2>1 DEF R
<1>11. CASE c.element = "RangeStart"
  <2>1. c.part = "Value"
    BY <1>1, <1>11, RangeIs
  <2> QED
    BY <1>2, <1>7, <1>11, <2>1 DEF R
<1>12. CASE c.element = "RangeEnd"
  <2>1. c.part = "Value"
    BY <1>1, <1>12, RangeIs
  <2> QED
    BY <1>2, <1>5, <1>12, <2>1 DEF R
<1> QED
  BY <1>10, <1>11, <1>12 DEF Ranges

LEMMA SomethingLeft ==
    ASSUME Databased(db), NEW c, InPlace(db, c)
    PROVE  /\ Rest(db, c) \in Text
           /\ IsComplete(c) <=> Rest(db, c) = <<>>
<1>0. c.element \in Elements
  BY DEF InPlace, Contexts
<1>1. CASE IsComplete(c)
  <2>1. c.element \notin Named \cup ObjectElements \cup Items \cup Ranges
    BY <1>1 DEF IsComplete, Named, ObjectElements, Items, Ranges, OfAccessory, OfService,
                OfCharacteristic
  <2>2. Rest(db, c) = <<>>
    BY <2>1 DEF Rest, RestAt
  <2> QED
    BY <1>1, <2>2, NoTokens
<1>2. CASE ~IsComplete(c)
  <2>1. CASE c.element \in Named
    BY <1>2, <2>1, NamedSome
  <2>2. CASE c.element \in ObjectElements
    BY <1>2, <2>2, ObjectSome
  <2>3. CASE c.element \in Items
    <3>1. PICK a \in DOMAIN ItemOf : c.element = ItemOf[a]
      BY <2>3, EveryItem
    <3> QED
      BY <1>2, <3>1, ItemSome
  <2>4. CASE c.element \in Ranges
    BY <1>2, <2>4, RangeSome
  <2> QED
    BY <1>0, <1>2, <2>1, <2>2, <2>3, <2>4 DEF Elements, IsComplete
<1> QED
  BY <1>1, <1>2

-----------------------------------------------------------------------------
(* The whole response.                                                     *)

\* What has been sent and what is left is the document.
DatabaseInv ==
    /\ db \in Databases
    /\ InPlace(db, context)
    /\ body \in Text /\ chunk \in Text
    /\ (body \o chunk) \o Rest(db, context) = DocumentOf(db)
    /\ IsComplete(context) => chunk = <<>>

LEMMA DatabasesAre == \A d \in Databases : Databased(d)
BY DatabasesAssumption DEF Databased

LEMMA DatabaseStart == DatabaseInit => DatabaseInv
<1> SUFFICES ASSUME DatabaseInit PROVE DatabaseInv
  OBVIOUS
<1>1. db \in Databases /\ Databased(db) /\ context = NewContext /\ chunk = <<>> /\ body = <<>>
  BY DatabasesAre DEF DatabaseInit
<1>2. PICK c, o, p : c = NewContext /\ o = "ResponseObject" /\ p = "Begin"
  OBVIOUS
<1>3. c.element = o /\ c.part = p /\ ~IsComplete(c)
  BY <1>2 DEF NewContext, IsComplete
<1>4. o \in ObjectElements /\ p \in PartsOf(o)
  BY <1>2 DEF ObjectElements, PartsOf, Arrays, Named, OfAccessory, OfService, OfCharacteristic
<1>5. c \in Contexts
  BY <1>2 DEF NewContext, Contexts, Elements, ObjectElements
<1>6. Held(db, c, o)
  BY <1>2, Apart DEF Held, WithinService, WithinAccessory
<1>7. InPlace(db, c)
  BY <1>3, <1>4, <1>5, <1>6, ObjectPlace DEF InPlace
<1>8. Rest(db, c) = DocumentOf(db)
  <2>1. RestAt(db, c, o, p) = ObjectRest(db, c, o, p)
    BY <1>4, RestIs
  <2>2. ObjectRest(db, c, o, p) = FromObject(db, c, o)
    BY <1>2 DEF ObjectRest
  <2>3. ObjectOf(db, c, o) = ResponseFields(db) /\ ObjectTail(db, c, o) = <<>>
    BY <1>2 DEF ObjectOf, ObjectTail
  <2>4. FromObject(db, c, o) = DocumentOf(db) \o <<>>
    BY <2>3 DEF FromObject, DocumentOf
  <2>5. DocumentOf(db) \in Text
    BY <1>1, ResponseFieldsAre, ObjectTyped DEF DocumentOf
  <2>6. DocumentOf(db) \o <<>> = DocumentOf(db)
    BY <2>5, NothingBefore
  <2> QED
    BY <1>3, <2>1, <2>2, <2>4, <2>6 DEF Rest
<1>9. Rest(db, c) \in Text
  BY <1>1, <1>7, SomethingLeft
<1>10. (<<>> \o <<>>) \o Rest(db, c) = Rest(db, c)
  <2>1. <<>> \o <<>> = <<>>
    BY NoTokens, NothingBefore
  <2> QED
    BY <1>9, <2>1, NothingBefore
<1> QED
  BY <1>1, <1>2, <1>7, <1>8, <1>10, NoTokens DEF DatabaseInv

LEMMA DatabaseStep ==
    DatabaseInv /\ [DatabaseNext]_databaseVars => DatabaseInv'
<1> SUFFICES ASSUME DatabaseInv, [DatabaseNext]_databaseVars PROVE DatabaseInv'
  OBVIOUS
<1>1. CASE UNCHANGED databaseVars
  <2>1. db' = db /\ context' = context /\ body' = body /\ chunk' = chunk
    BY <1>1 DEF databaseVars
  <2>2. InPlace(db', context') <=> InPlace(db, context)
    BY <2>1
  <2>3. Rest(db', context') = Rest(db, context) /\ DocumentOf(db') = DocumentOf(db)
    BY <2>1
  <2> QED
    BY <2>1, <2>2, <2>3 DEF DatabaseInv
<1>2. CASE SerializeReadResponse
  <2> DEFINE step == Step(context)
             more == chunk \o step.tokens
  <2>1. /\ ~IsComplete(context) /\ db' = db /\ context' = step.to
        /\ \/ body' = body \o more /\ chunk' = <<>>
           \/ body' = body /\ chunk' = more /\ ~IsComplete(step.to)
    BY <1>2 DEF SerializeReadResponse
  <2>2. db \in Databases /\ Databased(db) /\ InPlace(db, context)
    BY DatabasesAre DEF DatabaseInv
  <2>3. Serializes(db, context, step)
    BY <2>1, <2>2, StepFollows
  <2> HIDE DEF step
  <2>4. /\ step.tokens \in Text /\ InPlace(db, step.to)
        /\ Rest(db, context) = step.tokens \o Rest(db, step.to)
    BY <2>3 DEF Serializes
  <2>5. Rest(db, step.to) \in Text
    BY <2>2, <2>4, SomethingLeft
  <2>6. PICK u, v, x, r : u = body /\ v = chunk /\ x = step.tokens /\ r = Rest(db, step.to)
    OBVIOUS
  <2>7. u \in Text /\ v \in Text /\ x \in Text /\ r \in Text
    BY <2>4, <2>5, <2>6 DEF DatabaseInv
  <2>8. /\ v \o x \in Text /\ u \o (v \o x) \in Text
        /\ (u \o v) \o (x \o r) = (u \o (v \o x)) \o r
    <3>1. v \o x \in Text /\ x \o r \in Text /\ u \o v \in Text
      BY <2>7, TextConcat
    <3>2. u \o (v \o x) \in Text
      BY <2>7, <3>1, TextConcat
    <3>3. ((u \o v) \o x) \o r = (u \o v) \o (x \o r)
      <4>1. Cat(u, v) \in Text
        BY <2>7, CatAssociative
      <4>2. Cat(Cat(Cat(u, v), x), r) = Cat(Cat(u, v), Cat(x, r))
        BY <2>7, <4>1, CatAssociative
      <4> QED
        BY <4>2 DEF Cat
    <3>4. (u \o v) \o x = u \o (v \o x)
      BY <2>7, TextAssociative
    <3> QED
      BY <3>1, <3>2, <3>3, <3>4
  <2>9. (u \o (v \o x)) \o r = DocumentOf(db)
    BY <2>4, <2>6, <2>8 DEF DatabaseInv
  <2>10. body' \o chunk' = u \o (v \o x) /\ body' \in Text /\ chunk' \in Text
    <3>1. CASE body' = body \o more /\ chunk' = <<>>
      <4>1. (u \o (v \o x)) \o <<>> = u \o (v \o x)
        BY <2>8, NothingBefore
      <4>2. body' = u \o (v \o x) /\ chunk' = <<>>
        BY <2>6, <3>1
      <4>3. body' \o chunk' = (u \o (v \o x)) \o <<>>
        BY <4>2
      <4> QED
        BY <2>8, <4>1, <4>2, <4>3, NoTokens
    <3>2. CASE body' = body /\ chunk' = more
      BY <2>6, <2>7, <2>8, <3>2
    <3> QED
      BY <2>1, <3>1, <3>2
  <2>11. IsComplete(step.to) => chunk' = <<>>
    BY <2>1
  <2>12. InPlace(db', context') /\ Rest(db', context') = r /\ DocumentOf(db') = DocumentOf(db)
    BY <2>1, <2>4, <2>6
  <2>13. (body' \o chunk') \o Rest(db', context') = DocumentOf(db')
    BY <2>9, <2>10, <2>12
  <2>14. IsComplete(context') => chunk' = <<>>
    BY <2>1, <2>11
  <2> QED
    BY <2>1, <2>2, <2>10, <2>12, <2>13, <2>14 DEF DatabaseInv
<1> QED
  BY <1>1, <1>2 DEF DatabaseNext

\* A part of a text before the rest of it is a prefix of it.
LEMMA PrefixOf ==
    ASSUME NEW s \in Text, NEW r \in Text
    PROVE  /\ IsPrefix(s, s \o r)
           /\ r # <<>> => IsStrictPrefix(s, s \o r)
<1>1. /\ s \o r \in Text /\ Len(s \o r) = Len(s) + Len(r)
      /\ \A i \in 1 .. Len(s) + Len(r) : (s \o r)[i] = IF i <= Len(s) THEN s[i] ELSE r[i - Len(s)]
  BY ConcatProperties DEF Text
<1>2. Len(s) \in Nat /\ Len(r) \in Nat
  BY DEF Text
<1>3. SubSeq(s, 1, Len(s)) = s
  BY SubSeqFull DEF Text
<1>4. SubSeq(s \o r, 1, Len(s)) = s
  <2> DEFINE w == s \o r
             n == Len(s)
  <2>1. \A i \in 1 .. n : w[i] = s[i] /\ w[i] \in Tokens
    BY <1>1, <1>2 DEF Text
  <2>2. 1 \in Int /\ n \in Int
    BY <1>2
  <2> HIDE DEF w
  <2>3. /\ SubSeq(w, 1, n) \in Seq(Tokens)
        /\ Len(SubSeq(w, 1, n)) = IF 1 <= n THEN n - 1 + 1 ELSE 0
        /\ \A i \in 1 .. n - 1 + 1 : SubSeq(w, 1, n)[i] = w[1 + i - 1]
    BY <2>1, <2>2, SubSeqProperties
  <2>4. Len(SubSeq(w, 1, n)) = n
    BY <1>2, <2>3
  <2>5. \A i \in 1 .. n : SubSeq(w, 1, n)[i] = s[i]
    BY <1>2, <2>1, <2>3
  <2>6. SubSeq(w, 1, n) = s
    BY <2>3, <2>4, <2>5, SeqEqual DEF Text
  <2> QED
    BY <2>6 DEF w
<1>5. IsPrefix(s, s \o r)
  BY <1>1, <1>2, <1>3, <1>4 DEF IsPrefix
<1>6. r # <<>> => s # s \o r
  <2>1. r # <<>> => Len(r) # 0
    BY DEF Text
  <2> QED
    BY <1>1, <1>2, <2>1
<1> QED
  BY <1>5, <1>6 DEF IsStrictPrefix

LEMMA DocumentIs == Document = DocumentOf(db)
BY DEF Document, DocumentOf, ResponseFields, AccessoryDocuments, AccessoryDocumentsOf

\* Whatever accessories there are, the chunks of the response are, in order and
\* without anything between them, the JSON document of their database
\* (HAPIPAccessorySerializeReadResponse).
THEOREM ChunksMakeDocument == DatabaseSpec => []PiecesMakeDocument
<1>1. DatabaseInv => PiecesMakeDocument
  <2> SUFFICES ASSUME DatabaseInv PROVE PiecesMakeDocument
    OBVIOUS
  <2>1. Databased(db) /\ InPlace(db, context)
    BY DatabasesAre DEF DatabaseInv
  <2>2. PICK s, r : s = body \o chunk /\ r = Rest(db, context)
    OBVIOUS
  <2>3. s \in Text /\ r \in Text /\ s \o r = Document /\ (IsComplete(context) <=> r = <<>>)
    BY <2>1, <2>2, SomethingLeft, TextConcat, DocumentIs DEF DatabaseInv
  <2>4. CASE IsComplete(context)
    <3>1. chunk = <<>> /\ body \in Text
      BY <2>4 DEF DatabaseInv
    <3>2. s = body /\ s \o r = s
      BY <2>2, <2>3, <2>4, <3>1, NothingBefore
    <3> QED
      BY <2>3, <2>4, <3>1, <3>2 DEF PiecesMakeDocument
  <2>5. CASE ~IsComplete(context)
    <3>1. IsStrictPrefix(s, s \o r)
      BY <2>3, <2>5, PrefixOf
    <3>2. IsStrictPrefix(s, Document)
      BY <2>3, <3>1
    <3> QED
      BY <2>2, <2>5, <3>2 DEF PiecesMakeDocument
  <2> QED
    BY <2>4, <2>5
<1> QED
  BY <1>1, DatabaseStart, DatabaseStep, PTL DEF DatabaseSpec
===============================================================================
