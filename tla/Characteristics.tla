--------------------------- MODULE Characteristics ---------------------------
(***************************************************************************)
(* The characteristics of an accessory: their definitions and what of a    *)
(* definition is validated when the server starts, the constraints on      *)
(* their values, and the conversion of floating point values to a step.    *)
(*                                                                         *)
(* Integers are as wide as Bits says.  Floating point values are numbers   *)
(* of units of which Unit make one.                                        *)
(***************************************************************************)
EXTENDS Integers, Sequences, FiniteSets

CONSTANTS
    Bits,       \* width of each integer format
    Unit

\* Infinity is beyond all other numbers, and NaN beyond that.
Infinity == 1000000
NaN == 2000000
IsFinite(x) == x \in -Infinity + 1 .. Infinity - 1
IsInfinite(x) == x \in {-Infinity, Infinity}

UnsignedFormats == {"uint8", "uint16", "uint32", "uint64"}
IntMax == 2 ^ (Bits.int - 1) - 1
ValuesOf(format) ==
    CASE format = "bool" -> {0, 1}
      [] format \in UnsignedFormats -> 0 .. 2 ^ Bits[format] - 1
      [] format = "int" -> -IntMax - 1 .. IntMax

-----------------------------------------------------------------------------
(* Definitions. *)

ReadRequiresAdmin(ch) == ch.admin \cap {"both", "read"} # {}
WriteRequiresAdmin(ch) == ch.admin \cap {"both", "write"} # {}

\* What a property asks of the handlers and of the other properties.
\* Mutant: a write response may be asked of a characteristic that is not read.
MutNeeds ==
    [pr |-> {"read"}, pw |-> {"write"}, ev |-> {"read"}, wr |-> {"write"}, tw |-> {},
     aa |-> {}, hd |-> {}, broadcast |-> {"read"}, disconnected |-> {"read"},
     prs |-> {}, pws |-> {}]
Needs ==
    [pr |-> {"read"}, pw |-> {"write"}, ev |-> {"read"}, wr |-> {"read", "write"},
     tw |-> {}, aa |-> {}, hd |-> {}, broadcast |-> {"read"}, disconnected |-> {"read"},
     prs |-> {}, pws |-> {}]
Implies ==
    [tw |-> {"pw"}, aa |-> {"pw"}, wr |-> {"pw"},
     disconnected |-> {"pr", "ev", "broadcast"}]
PropertiesAreValid(ch) ==
    /\ \A p \in ch.properties : Needs[p] \subseteq ch.handlers
    /\ \A p \in ch.properties \cap DOMAIN Implies : Implies[p] \subseteq ch.properties
    /\ "read" \in ch.admin => "pr" \in ch.properties
    /\ "write" \in ch.admin => "pw" \in ch.properties
    /\ ReadRequiresAdmin(ch) /\ "pw" \in ch.properties => WriteRequiresAdmin(ch)

\* Valid values and ranges: none, or one list.
Ascending(list) == \A k \in 2 .. Len(list) : list[k - 1] < list[k]
RangesAreValid(list) ==
    \A k \in DOMAIN list : /\ list[k].start <= list[k].end
                           /\ k > 1 => list[k].start >= list[k - 1].end
UInt8ConstraintsAreValid(ch) ==
    /\ ch.min <= ch.max
    /\ ch.validValues # {} \/ ch.ranges # {} => ch.apple
    /\ \A list \in ch.validValues : Ascending(list)
    /\ \A list \in ch.ranges : RangesAreValid(list)
ConstraintsAreValid(ch) ==
    CASE ch.format = "uint8" -> UInt8ConstraintsAreValid(ch)
      [] ch.format \in UnsignedFormats \ {"uint8"} -> ch.min <= ch.max
      [] ch.format = "int" -> ch.min <= ch.max /\ ch.step >= 0
      [] ch.format = "float" ->
            /\ {ch.min, ch.max} \cap {NaN} = {}
            /\ ch.min <= ch.max /\ IsFinite(ch.step) /\ ch.step >= 0
      [] OTHER -> TRUE

ServiceIsValid(s, services) ==
    /\ \A i, j \in DOMAIN s.linked : s.linked[i] = s.linked[j] => i = j
    /\ \A i \in DOMAIN s.linked : \E k \in DOMAIN services : services[k].iid = s.linked[i]
    /\ \A i \in DOMAIN s.characteristics :
            PropertiesAreValid(s.characteristics[i]) /\ ConstraintsAreValid(s.characteristics[i])
    /\ (\A i \in DOMAIN s.characteristics : "hd" \in s.characteristics[i].properties)
            => s.hidden
AccessoryIsValid(a) ==
    \A i \in DOMAIN a.services : ServiceIsValid(a.services[i], a.services)
RegularAccessoryIsValid(a) == a.aid = 1 /\ a.category # "None" /\ AccessoryIsValid(a)
BridgedAccessoryIsValid(a) ==
    a.aid # 1 /\ a.category = "BridgedAccessory" /\ AccessoryIsValid(a)

-----------------------------------------------------------------------------
(* Constraints. *)

\* Whether a value is a whole number of steps above the minimum.  The
\* difference of signed values overflows if it is not an int: then both
\* outcomes are possible.
OnStep(ch, v) ==
    IF ch.step = 0 THEN {TRUE}
    ELSE IF ch.format = "int" /\ v - ch.min > IntMax THEN BOOLEAN
    ELSE {(v - ch.min) % ch.step = 0}
IsValueInRange(ch, v) ==
    IF ch.min <= v /\ v <= ch.max THEN OnStep(ch, v) ELSE {FALSE}
IsInValidValues(ch, v) ==
    IF ~ch.apple \/ (ch.validValues = {} /\ ch.ranges = {}) THEN TRUE
    ELSE \/ \E list \in ch.validValues : \E k \in DOMAIN list : list[k] = v
         \/ \E list \in ch.ranges :
                \E k \in DOMAIN list : list[k].start <= v /\ v <= list[k].end
\* A float may be a tenth of a step away from one.
Remainder(ch, v) == (v - ch.min) % ch.step
Distance(ch, v) ==
    IF 2 * Remainder(ch, v) <= ch.step THEN Remainder(ch, v)
    ELSE ch.step - Remainder(ch, v)
IsInRangeWithTolerance(ch, v) ==
    CASE v = Infinity -> ch.max = Infinity
      [] v = -Infinity -> ch.min = -Infinity
      [] v = NaN -> FALSE
      [] OTHER -> /\ ch.min <= v /\ v <= ch.max
                  /\ \/ ch.step = 0
                     \/ ch.min # -Infinity /\ 10 * Distance(ch, v) <= ch.step

\* The outcomes of checking a value of each format against the constraints:
\* a value that is read has to pass, one that is written is refused if not.
DataPasses(ch, v) == {Len(v) <= ch.maxLength}
BoolPasses(ch, v) == {TRUE}
UInt8Passes(ch, v) == {b /\ IsInValidValues(ch, v) : b \in IsValueInRange(ch, v)}
UInt16Passes(ch, v) == IsValueInRange(ch, v)
UInt32Passes(ch, v) == IsValueInRange(ch, v)
UInt64Passes(ch, v) == IsValueInRange(ch, v)
IntPasses(ch, v) == IsValueInRange(ch, v)
FloatPasses(ch, v) == {IsInRangeWithTolerance(ch, v)}
StringPasses(ch, v) == {Len(v) <= ch.maxLength}
TLV8Passes(ch, v) == {TRUE}
IsValueFulfillingConstraints(ch, v) ==
    CASE ch.format = "data" -> DataPasses(ch, v)
      [] ch.format = "bool" -> BoolPasses(ch, v)
      [] ch.format = "uint8" -> UInt8Passes(ch, v)
      [] ch.format = "uint16" -> UInt16Passes(ch, v)
      [] ch.format = "uint32" -> UInt32Passes(ch, v)
      [] ch.format = "uint64" -> UInt64Passes(ch, v)
      [] ch.format = "int" -> IntPasses(ch, v)
      [] ch.format = "float" -> FloatPasses(ch, v)
      [] ch.format = "string" -> StringPasses(ch, v)
      [] ch.format = "tlv8" -> TLV8Passes(ch, v)

\* Mutant: a float is passed on as it was received.
MutRoundValueToStep(ch, v) == v
\* An accepted float is moved to its step; there is none for infinity.
RoundValueToStep(ch, v) ==
    IF ch.format # "float" \/ ch.step = 0 THEN v
    ELSE IF IsInfinite(v) THEN NaN
    ELSE IF 2 * Remainder(ch, v) < ch.step THEN v - Remainder(ch, v)
    ELSE v - Remainder(ch, v) + ch.step
=============================================================================
