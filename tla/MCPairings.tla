----------------------------- MODULE MCPairings -----------------------------
(***************************************************************************)
(* Instances of Pairings for TLC: the sessions of an accessory with IP,    *)
(* with BLE, and with both.  Controllers are interchangeable, and so are   *)
(* IP sessions.                                                            *)
(***************************************************************************)
EXTENDS Pairings, TLC

CONSTANTS c1, c2, c3, ip1, ip2, ip3, ble

TwoControllers == {c1, c2}
ThreeControllers == {c1, c2, c3}

OneIP == {ip1}
TwoIP == {ip1, ip2}
ThreeIP == {ip1, ip2, ip3}
OneBLE == {ble}
None == {}

Symmetry == Permutations(ThreeControllers) \cup Permutations(ThreeIP)

=============================================================================
