--------------------------- MODULE PairingContract ---------------------------
(***************************************************************************)
(* What Pair Setup promises, without messages, setup codes, timers or      *)
(* connections: who may become the owner of an accessory, and how often a  *)
(* setup code may be guessed.  PairSetup implements it.                    *)
(***************************************************************************)
EXTENDS Integers

CONSTANTS
    Sessions,       \* the sessions over which an accessory can be paired
    NoSession,      \* no session
    MaxTries        \* failed attempts after which nobody may guess any more

VARIABLES
    owner,          \* the session that paired the accessory, persistent
    attempts,       \* failed attempts since the last good one, persistent
    prover          \* the session that has proved that it knows the setup code

vars == <<owner, attempts, prover>>

Init == owner = NoSession /\ attempts = 0 /\ prover = NoSession

\* An attempt is possible for an accessory without an owner, while there are
\* attempts left and nobody else is about to pair.
CanAttempt == owner = NoSession /\ attempts < MaxTries /\ prover = NoSession

\* A good attempt clears the counter.  It need not be followed by a pairing.
Prove(s) ==
    /\ CanAttempt
    /\ prover' \in {s, NoSession}
    /\ attempts' = 0
    /\ UNCHANGED owner

FailAttempt ==
    /\ CanAttempt
    /\ attempts' = attempts + 1
    /\ UNCHANGED <<owner, prover>>

\* The session that has proved the setup code pairs, once.
Pair ==
    /\ prover # NoSession
    /\ owner = NoSession
    /\ owner' = prover
    /\ prover' = NoSession
    /\ UNCHANGED attempts

\* Closed, restarted, taken over, failed, or lost with the power.
GiveUp ==
    /\ prover' = NoSession
    /\ UNCHANGED <<owner, attempts>>

\* The owner removes the pairing.  The counter survives.
Unpair ==
    /\ owner # NoSession
    /\ owner' = NoSession
    /\ UNCHANGED <<attempts, prover>>

Next ==
    \/ \E s \in Sessions : Prove(s)
    \/ FailAttempt
    \/ Pair
    \/ GiveUp
    \/ Unpair

Spec == Init /\ [][Next]_vars

=============================================================================
