------------------------------- MODULE JSONUtils -------------------------------
(***************************************************************************)
(* JSON helpers of the IP protocol: skipping a value that is not known,    *)
(* and escaping and unescaping the data of a string in its own buffer.     *)
(* The tokens of a value come from the JSON reader, which is external.     *)
(* Of a character only its escape counts: "quote" stands for a quotation   *)
(* mark or a reverse solidus, "newline" for the control characters with an *)
(* escape of their own, "control" for the others, "wide" for what takes    *)
(* more than one byte in UTF-8.                                            *)
(***************************************************************************)
EXTENDS Integers, Sequences, SequencesExt

CONSTANT MaxDepth       \* nesting that can be skipped

Scalars == {"number", "string", "true", "false", "null"}

\* A value has been skipped: the one asked for, or one in an array or object.
Skipped(s) == [s EXCEPT !.expect = IF s.stack = <<>> THEN "nothing" ELSE "separator"]
Popped(s) == Skipped([s EXCEPT !.stack = Front(s.stack)])
SkipError(s, e) == [s EXCEPT !.error = e]
Pushed(s, kind, expect) ==
    IF Len(s.stack) = MaxDepth THEN SkipError(s, "OutOfResources")
    ELSE [s EXCEPT !.stack = Append(s.stack, kind), !.expect = expect]

\* What the next token does to a value that is expected,
SkipBegin(s, t) ==
    CASE t \in Scalars -> Skipped(s)
      [] t = "{" -> [s EXCEPT !.expect = "firstName"]
      [] t = "[" -> [s EXCEPT !.expect = "firstValue"]
      [] OTHER -> SkipError(s, "InvalidData")
SkipToken(s, t) ==
    IF s.error # "None" \/ s.expect = "nothing" THEN s
    ELSE LET next == [s EXCEPT !.count = @ + 1]
         IN  CASE s.expect = "value" -> SkipBegin(next, t)
               [] s.expect = "firstValue" ->
                    IF t = "]" THEN Skipped(next)
                    ELSE LET pushed == Pushed(next, "array", "value")
                         IN  IF pushed.error # "None" THEN pushed
                             ELSE SkipBegin(pushed, t)
               [] s.expect = "firstName" /\ t = "}" -> Skipped(next)
               [] s.expect \in {"firstName", "name"} /\ t = "string" ->
                    [next EXCEPT !.expect = IF s.expect = "name" THEN "colon"
                                            ELSE "firstColon"]
               [] s.expect = "firstColon" /\ t = ":" -> Pushed(next, "object", "value")
               [] s.expect = "colon" /\ t = ":" -> [next EXCEPT !.expect = "value"]
               [] s.expect = "separator" /\ t = "," ->
                    [next EXCEPT !.expect = IF Last(s.stack) = "object" THEN "name"
                                            ELSE "value"]
               [] s.expect = "separator"
                  /\ t = (IF Last(s.stack) = "object" THEN "}" ELSE "]") ->
                    Popped(next)
               [] OTHER -> SkipError(next, "InvalidData")
\* The error of a skip and the number of tokens that it took.
SkipValue(tokens) ==
    FoldLeft(SkipToken, [stack |-> <<>>, expect |-> "value", count |-> 0,
                         error |-> "None"], tokens)

-----------------------------------------------------------------------------
(* Strings. *)

EscapedBytes(c) ==
    CASE c \in {"quote", "newline"} -> 2 [] c = "control" -> 6 [] OTHER -> 1
GetNumEscapedStringDataBytes(data) ==
    FoldLeft(LAMBDA n, c : n + EscapedBytes(c), 0, data)
\* Four hexadecimal digits are one member of Digits.
Digits == {"control4", "scalar4", "high4", "low4"}
EscapeOf(c) ==
    CASE c = "control" -> <<"backslash", "u", "control4">>
      [] c \in {"quote", "newline"} -> <<"backslash", c>>
      [] OTHER -> <<c>>

\* The data is moved to the end of the room and escaped to its beginning: i
\* bytes have been written when j have been read, and may not overtake them.
EscapeStringData(data, room) ==
    LET step(s, c) ==
            LET short == \/ EscapedBytes(c) > 1 /\ s.j - s.i < 1
                         \/ c = "control" /\ s.j - (s.i + 1) < 4
            IN  IF s.error # "None" \/ short THEN SkipError(s, "OutOfResources")
                ELSE [s EXCEPT !.i = @ + EscapedBytes(c), !.j = @ + 1,
                               !.text = @ \o EscapeOf(c)]
    IN  FoldLeft(step, [i |-> 0, j |-> room - Len(data), text |-> <<>>,
                        error |-> "None"], data)

\* A surrogate pair is one character.
UnescapeStep(s, c) ==
    LET out(ch) == [s EXCEPT !.text = Append(@, ch), !.expect = "character"]
        on(expect) == [s EXCEPT !.expect = expect]
    IN  CASE s.expect = "character" ->
                IF c = "backslash" THEN on("escape") ELSE out(c)
          [] s.expect = "escape" /\ c \in {"quote", "newline"} -> out(c)
          [] s.expect = "escape" /\ c = "backslash" -> out("quote")
          [] s.expect = "escape" /\ c = "u" -> on("digits")
          [] s.expect = "digits" /\ c = "control4" -> out("control")
          [] s.expect = "digits" /\ c = "scalar4" -> out("wide")
          [] s.expect = "digits" /\ c = "high4" -> on("secondEscape")
          [] s.expect = "secondEscape" /\ c = "backslash" -> on("secondU")
          [] s.expect = "secondU" /\ c = "u" -> on("secondDigits")
          [] s.expect = "secondDigits" /\ c = "low4" -> out("wide")
          [] OTHER -> SkipError(s, "InvalidData")
UnescapeStringData(text) ==
    LET s == FoldLeft(LAMBDA r, c : IF r.error # "None" THEN r
                                    ELSE UnescapeStep(r, c),
                      [expect |-> "character", text |-> <<>>, error |-> "None"],
                      text)
    IN  IF s.expect # "character" THEN SkipError(s, "InvalidData") ELSE s
=============================================================================
