------------------------- MODULE AccessorySetupInfo -------------------------
(***************************************************************************)
(* The setup info manager of HAPAccessorySetupInfo.c: the setup code and   *)
(* SRP verifier an accessory hands out while it can be paired, the timer   *)
(* that refreshes a dynamic setup code, NFC pairing mode, and what the     *)
(* display and the programmable NFC tag present.                           *)
(*                                                                         *)
(* The component has no thread of its own: the accessory server, the Pair  *)
(* Setup procedure and the run loop's timers call into it.  Each function  *)
(* is therefore an operator from the component's state to its next state,  *)
(* and the modules that call it compose them in the order of the code.     *)
(*                                                                         *)
(* An operator's argument env is what the function reads elsewhere:        *)
(*   env.paired   HAPAccessoryServerIsPaired                               *)
(*   env.started  server->primaryAccessory is not NULL                     *)
(***************************************************************************)
EXTENDS FiniteSets, Integers

CONSTANTS
    Sessions,       \* the sessions over which an accessory can be paired
    NoSession,      \* the NULL session
    HasDisplay,     \* server->platform.setupDisplay
    HasNFC          \* server->platform.setupNFC

ASSUME SetupInfoAssumption ==
    /\ NoSession \notin Sessions
    /\ HasDisplay \in BOOLEAN
    /\ HasNFC \in BOOLEAN

(***************************************************************************)
(* The assertions and preconditions of the component that can be stated    *)
(* over this state; "none" while none has failed.  A failed one aborts the *)
(* process.  "PrimaryAccessory" is no assertion of the code: it stands for *)
(* reading the category of an accessory that is no longer registered.      *)
(***************************************************************************)
SetupChecks ==
    {"SynchronizeDisplayAndNFC", "ClearSetupInfo", "PrepareSetupInfo",
     "DynamicSetupInfoExpired", "GetSetupInfo", "HandleAccessoryServerStart",
     "HandlePairingStop", "PrimaryAccessory"}

Payloads == {"none", "current", "stale"}

(***************************************************************************)
(* server->accessorySetup.  code and info say that the setup code, or the  *)
(* salt and verifier, are available; served is the session whose M2 was    *)
(* answered from this very salt and verifier (erased with them); refresh   *)
(* and nfc say that the timer is registered.  display and tag are the      *)
(* payloads last sent to the platform: the current setup code, a code that *)
(* has been erased since, or none.                                         *)
(***************************************************************************)
SetupInfo ==
    [code : BOOLEAN, info : BOOLEAN, lock : BOOLEAN, keep : BOOLEAN,
     served : Sessions \cup {NoSession},
     refresh : BOOLEAN, nfc : BOOLEAN,
     display : Payloads, tag : Payloads,
     failed : SetupChecks \cup {"none"}]

NoSetupInfo ==
    [code |-> FALSE, info |-> FALSE, lock |-> FALSE, keep |-> FALSE,
     served |-> NoSession, refresh |-> FALSE, nfc |-> FALSE,
     display |-> "none", tag |-> "none", failed |-> "none"]

Available(a) == a.info \/ a.code

\* The first check that does not hold is the one that aborts the process.
Check(a, holds, name) ==
    IF holds \/ a.failed # "none" THEN a ELSE [a EXCEPT !.failed = name]

\* What a payload becomes when the setup code it shows is erased.
Erased(payload) == IF payload = "current" THEN "stale" ELSE payload

-----------------------------------------------------------------------------
(***************************************************************************)
(* Internal functions.                                                     *)
(***************************************************************************)

\* A setup payload a controller can pair with is presented.
HasPairablePayload(a) == a.code /\ (HasDisplay \/ (HasNFC /\ a.nfc))

SynchronizeDisplayAndNFC(a, env) ==
    IF ~HasDisplay /\ ~HasNFC
    THEN a
    ELSE LET b == Check(Check(a, env.started, "PrimaryAccessory"),
                        ~(HasPairablePayload(a) /\ env.paired),
                        "SynchronizeDisplayAndNFC")
         IN  [b EXCEPT
                !.display = IF HasDisplay /\ a.code THEN "current" ELSE "none",
                !.tag = IF HasNFC /\ a.nfc /\ HasPairablePayload(a)
                        THEN "current" ELSE "none"]

\* HAPRawBufferZero(&server->accessorySetup.state, ...)
ZeroedState(a) ==
    [a EXCEPT !.code = FALSE, !.info = FALSE, !.lock = FALSE, !.keep = FALSE,
              !.served = NoSession,
              !.display = Erased(@), !.tag = Erased(@)]

ClearSetupInfo(a) ==
    LET b == IF Available(a)
             THEN [ZeroedState(a) EXCEPT !.refresh = FALSE]
             ELSE a
    IN  Check(b, ~b.refresh, "ClearSetupInfo")

\* A random setup code for a display, or the static setup info.
FreshSetupInfo(a, lockSetupInfo) ==
    IF HasDisplay
    THEN [Check(ZeroedState(a), lockSetupInfo \/ ~a.refresh, "PrepareSetupInfo")
            EXCEPT !.lock = lockSetupInfo, !.code = TRUE,
                   !.refresh = @ \/ ~lockSetupInfo]
    ELSE [ZeroedState(a)
            EXCEPT !.lock = lockSetupInfo, !.code = HasNFC, !.info = TRUE]

\* Fault: the refresh timer goes on when the setup code is locked.
PrepareSetupInfo_KeepsTimer(a, env, lockSetupInfo) ==
    LET b == Check(a, ~env.paired, "PrepareSetupInfo")
    IN  IF Available(b)
        THEN [b EXCEPT !.lock = @ \/ lockSetupInfo]
        ELSE SynchronizeDisplayAndNFC(FreshSetupInfo(b, lockSetupInfo), env)

PrepareSetupInfo(a, env, lockSetupInfo) ==
    LET b == Check(a, ~env.paired, "PrepareSetupInfo")
    IN  CASE Available(b) /\ lockSetupInfo ->
                 [b EXCEPT !.lock = TRUE, !.refresh = FALSE]
          [] Available(b) /\ ~lockSetupInfo -> b
          [] ~Available(b) ->
                 SynchronizeDisplayAndNFC(FreshSetupInfo(b, lockSetupInfo), env)

-----------------------------------------------------------------------------
(***************************************************************************)
(* Calls of the Pair Setup procedure.                                      *)
(***************************************************************************)

\* Fault: the setup code is not locked.
HandlePairingStart_NoLock(a, env) == PrepareSetupInfo(a, env, FALSE)

HandlePairingStart(a, env) == PrepareSetupInfo(a, env, TRUE)

\* Fault: the display and the tag are not told that the setup code is gone.
HandlePairingStop_NoSync(a, env, keepSetupInfo) ==
    LET b == IF keepSetupInfo
             THEN [Check(a, a.lock, "HandlePairingStop") EXCEPT !.keep = TRUE]
             ELSE ClearSetupInfo(a)
    IN  IF HasDisplay /\ ~env.paired
        THEN PrepareSetupInfo(b, env, FALSE)
        ELSE b

\* Fault: the setup code stays locked, but nobody is told that it is kept.
HandlePairingStop_NoKeep(a, env, keepSetupInfo) ==
    LET b == IF keepSetupInfo
             THEN a
             ELSE SynchronizeDisplayAndNFC(ClearSetupInfo(a), env)
    IN  IF HasDisplay /\ ~env.paired
        THEN PrepareSetupInfo(b, env, FALSE)
        ELSE b

HandlePairingStop(a, env, keepSetupInfo) ==
    LET b == IF keepSetupInfo
             THEN [Check(a, a.lock, "HandlePairingStop") EXCEPT !.keep = TRUE]
             ELSE SynchronizeDisplayAndNFC(ClearSetupInfo(a), env)
    IN  IF HasDisplay /\ ~env.paired
        THEN PrepareSetupInfo(b, env, FALSE)
        ELSE b

\* The setup info that a Pair Setup request is to be answered from.
\* Deriving the verifier of a dynamic setup code makes a new salt and verifier.
\* The NULL result with restorePrevious, which M2 answers with an error and M4
\* asserts against, and the precondition without it are one check here.
GetSetupInfo(a, env, restorePrevious) ==
    LET b == Check(a, Available(a), "GetSetupInfo")
        c == IF ~restorePrevious /\ b.keep
             THEN PrepareSetupInfo(ClearSetupInfo(b), env, TRUE)
             ELSE b
    IN  IF c.info THEN c ELSE [c EXCEPT !.info = TRUE, !.served = NoSession]

-----------------------------------------------------------------------------
(***************************************************************************)
(* Calls of the accessory server.                                          *)
(***************************************************************************)

HandleAccessoryServerStart(a, env) ==
    LET b == Check(a, ~a.refresh, "HandleAccessoryServerStart")
    IN  IF HasDisplay /\ ~env.paired THEN PrepareSetupInfo(b, env, FALSE) ELSE b

\* Fault: the refresh timer is not deregistered.
HandleAccessoryServerStop_KeepsTimer(a, env) ==
    SynchronizeDisplayAndNFC([ZeroedState(a) EXCEPT !.nfc = FALSE], env)

\* Both timers are deregistered and the whole structure is zeroed.
HandleAccessoryServerStop(a, env) ==
    SynchronizeDisplayAndNFC(
        [ZeroedState(a) EXCEPT !.refresh = FALSE, !.nfc = FALSE], env)

CompleteExitingNFCPairingMode(a, env) ==
    SynchronizeDisplayAndNFC(
        IF ~a.lock /\ ~a.refresh THEN ClearSetupInfo(a) ELSE a, env)

ExitNFCPairingMode(a, env) ==
    IF a.nfc
    THEN CompleteExitingNFCPairingMode([a EXCEPT !.nfc = FALSE], env)
    ELSE a

\* Fault: NFC pairing mode is not exited.
HandleAccessoryServerStateUpdate_KeepsNFC(a, env) ==
    IF ~env.paired
    THEN IF HasDisplay
         THEN PrepareSetupInfo(a, env, FALSE)
         ELSE SynchronizeDisplayAndNFC(a, env)
    ELSE a

HandleAccessoryServerStateUpdate(a, env) ==
    IF ~env.paired
    THEN IF HasDisplay
         THEN PrepareSetupInfo(a, env, FALSE)
         ELSE SynchronizeDisplayAndNFC(a, env)
    ELSE IF HasNFC THEN ExitNFCPairingMode(a, env) ELSE a

-----------------------------------------------------------------------------
(***************************************************************************)
(* Timers, and calls of the application.                                   *)
(***************************************************************************)

DynamicSetupInfoExpired(a, env) ==
    LET b == Check([a EXCEPT !.refresh = FALSE],
                   ~env.paired /\ ~a.lock /\ Available(a),
                   "DynamicSetupInfoExpired")
        c == ClearSetupInfo(b)
    IN  IF HasDisplay THEN PrepareSetupInfo(c, env, FALSE) ELSE c

NFCPairingModeExpired(a, env) ==
    CompleteExitingNFCPairingMode([a EXCEPT !.nfc = FALSE], env)

EnterNFCPairingMode(a, env) ==
    LET b == [a EXCEPT !.nfc = TRUE]
    IN  CASE env.paired -> a
          [] ~env.paired /\ ~Available(a) -> PrepareSetupInfo(b, env, FALSE)
          [] ~env.paired /\ Available(a) /\ a.nfc -> b
          [] ~env.paired /\ Available(a) /\ ~a.nfc ->
                 SynchronizeDisplayAndNFC(b, env)

RefreshSetupPayload(a, env) ==
    IF a.refresh
    THEN PrepareSetupInfo(ClearSetupInfo(a), env, FALSE)
    ELSE a

=============================================================================
