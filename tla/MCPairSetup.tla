---------------------------- MODULE MCPairSetup ----------------------------
(***************************************************************************)
(* Instances of PairSetup for TLC: the sets of sessions of an accessory    *)
(* with IP, with BLE, and with both.  IP sessions are interchangeable.     *)
(***************************************************************************)
EXTENDS PairSetup, TLC

CONSTANTS ip1, ip2, ip3, ble

ThreeIP == {ip1, ip2, ip3}
TwoIP == {ip1, ip2}
OneBLE == {ble}
OneOfEach == {ip1, ble}
OneIP == {ip1}

IPSymmetry == Permutations(ThreeIP)

=============================================================================
