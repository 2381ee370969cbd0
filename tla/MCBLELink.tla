----------------------------- MODULE MCBLELink -----------------------------
(***************************************************************************)
(* Instances of BLELink: two pairing characteristics, the Pairings         *)
(* characteristic and one characteristic of the application.               *)
(***************************************************************************)
EXTENDS BLELink

CONSTANTS PairSetup, PairVerify, Pairings, On

MCChars == {PairSetup, PairVerify, Pairings, On}
MCDroppers == {PairSetup, PairVerify}
MCEvents == {On}
=============================================================================
