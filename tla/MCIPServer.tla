----------------------------- MODULE MCIPServer ------------------------------
(***************************************************************************)
(* Instances of IPServer for TLC: two sessions, with event notifications   *)
(* of an ordinary and a switch characteristic, or with timed writes, the   *)
(* database in frames, and a server that stops.                            *)
(***************************************************************************)
EXTENDS IPServer, TLC

CONSTANTS s1, s2, c1, c2, sw, p1, p2

OneSession == {s1}
TwoSessions == {s1, s2}
OneChar == {c1}
BothChars == {c1, sw}
Switch == {sw}
None == {}
OnePID == {p1}
TwoPIDs == {p1, p2}

Symmetry == Permutations(TwoSessions)

=============================================================================
