--------------------------- MODULE MCAdvertising ---------------------------
(***************************************************************************)
(* Instances of Advertising for TLC.                                       *)
(***************************************************************************)
EXTENDS Advertising, TLC

CONSTANTS both, quiet, x, y
MCChars == {both, quiet}
MCBroadcasts == {both}
MCValues == {x, y}
MCSymmetry == Permutations(MCValues)
MCDisconnecteds == {both, quiet}
=============================================================================
