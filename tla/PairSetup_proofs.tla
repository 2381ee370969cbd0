--------------------------- MODULE PairSetup_proofs ---------------------------
(***************************************************************************)
(* Theorems about PairSetup for any number of sessions: type correctness,  *)
(* ownership of the procedure, the limit on failed attempts, and that a    *)
(* pairing is stored only by a session that has proved the setup code.     *)
(*                                                                         *)
(* The inductive invariant IInv is the conjunction of TypeOK,              *)
(* ProcedureOwned, AttemptsBounded, NoProcedureWhilePaired and the fact    *)
(* that a session in state 4 got there with a good proof.  None of them is *)
(* inductive alone: the counter stays within a byte because M4 is reached  *)
(* from M2 only, by one session at a time, with no other procedure         *)
(* incrementing the counter in between.                                    *)
(*                                                                         *)
(* Two more invariants rest on it.  SInv: until an assertion fails, the    *)
(* setup info is sound and up to date, and pinned for whoever pairs.  UInv *)
(* (without BLE sessions): a code stays locked only for a use.             *)
(*                                                                         *)
(* The lemmas of the first part are about the setup info manager.  Type    *)
(* correctness: every function takes a state of the component to a state   *)
(* of the component.  Soundness: a function that fails no check takes a    *)
(* sound state to a sound one, and all but those of a Pair Setup procedure *)
(* leave a locked code alone.                                              *)
(***************************************************************************)
EXTENDS PairSetup, TLAPS

-----------------------------------------------------------------------------
(* The setup info manager. *)

EnvType == [paired : BOOLEAN, started : BOOLEAN]

\* Recording a failed check leaves the rest of the state alone.
LEMMA CheckType ==
    ASSUME NEW a \in SetupInfo, NEW holds \in BOOLEAN, NEW name \in SetupChecks
    PROVE  /\ Check(a, holds, name) \in SetupInfo
           /\ Check(a, holds, name).refresh = a.refresh
           /\ Check(a, holds, name).code = a.code
           /\ Check(a, holds, name).info = a.info
           /\ Check(a, holds, name).nfc = a.nfc
           /\ Check(a, holds, name).keep = a.keep
BY DEF Check, SetupInfo

LEMMA ErasedType ==
    ASSUME NEW payload \in Payloads
    PROVE  Erased(payload) \in Payloads
BY DEF Erased, Payloads

LEMMA ZeroedStateType ==
    ASSUME NEW a \in SetupInfo
    PROVE  ZeroedState(a) \in SetupInfo
BY ErasedType DEF ZeroedState, SetupInfo

LEMMA SynchronizeType ==
    ASSUME NEW a \in SetupInfo, NEW env \in EnvType
    PROVE  SynchronizeDisplayAndNFC(a, env) \in SetupInfo
<1> DEFINE c == Check(a, env.started, "PrimaryAccessory")
           b == Check(c, ~(HasPairablePayload(a) /\ env.paired),
                      "SynchronizeDisplayAndNFC")
<1>1. HasPairablePayload(a) \in BOOLEAN /\ env.started \in BOOLEAN
  BY SetupInfoAssumption DEF HasPairablePayload, SetupInfo, EnvType
<1>2. c \in SetupInfo
  BY <1>1, CheckType DEF SetupChecks
<1>3. b \in SetupInfo
  BY <1>1, <1>2, CheckType DEF SetupChecks
<1> DEFINE d == IF HasDisplay /\ a.code THEN "current" ELSE "none"
           t == IF HasNFC /\ a.nfc /\ HasPairablePayload(a)
                THEN "current" ELSE "none"
<1>4. d \in Payloads /\ t \in Payloads
  BY DEF Payloads
<1> HIDE DEF b, d, t
<1>5. [b EXCEPT !.display = d, !.tag = t] \in SetupInfo
  BY <1>3, <1>4 DEF SetupInfo
<1> QED
  BY <1>5 DEF SynchronizeDisplayAndNFC, b, c, d, t

LEMMA ClearSetupInfoType ==
    ASSUME NEW a \in SetupInfo
    PROVE  ClearSetupInfo(a) \in SetupInfo
<1> DEFINE b == IF Available(a)
                THEN [ZeroedState(a) EXCEPT !.refresh = FALSE]
                ELSE a
<1>1. b \in SetupInfo
  BY ZeroedStateType DEF SetupInfo
<1> HIDE DEF b
<1>2. (~b.refresh) \in BOOLEAN
  OBVIOUS
<1>3. Check(b, ~b.refresh, "ClearSetupInfo") \in SetupInfo
  BY <1>1, <1>2, CheckType DEF SetupChecks
<1> QED
  BY <1>3 DEF ClearSetupInfo, b

LEMMA FreshSetupInfoType ==
    ASSUME NEW a \in SetupInfo, NEW lockSetupInfo \in BOOLEAN
    PROVE  FreshSetupInfo(a, lockSetupInfo) \in SetupInfo
<1> DEFINE z == ZeroedState(a)
           c == Check(z, lockSetupInfo \/ ~a.refresh, "PrepareSetupInfo")
<1>1. z \in SetupInfo
  BY ZeroedStateType
<1>2. c \in SetupInfo
  BY <1>1, CheckType DEF SetupChecks
<1> HIDE DEF c, z
<1>5. (c.refresh \/ ~lockSetupInfo) \in BOOLEAN
  OBVIOUS
<1>3. [c EXCEPT !.lock = lockSetupInfo, !.code = TRUE,
                !.refresh = @ \/ ~lockSetupInfo] \in SetupInfo
  BY ZenonT(60), <1>2, <1>5 DEF SetupInfo
<1>4. [z EXCEPT !.lock = lockSetupInfo, !.code = HasNFC, !.info = TRUE]
          \in SetupInfo
  BY <1>1, SetupInfoAssumption DEF SetupInfo
<1> QED
  BY <1>3, <1>4 DEF FreshSetupInfo, c, z

LEMMA PrepareSetupInfoType ==
    ASSUME NEW a \in SetupInfo, NEW env \in EnvType, NEW lockSetupInfo \in BOOLEAN
    PROVE  PrepareSetupInfo(a, env, lockSetupInfo) \in SetupInfo
<1> DEFINE b == Check(a, ~env.paired, "PrepareSetupInfo")
<1>1. b \in SetupInfo
  BY CheckType DEF SetupChecks
<1>2. [b EXCEPT !.lock = TRUE, !.refresh = FALSE] \in SetupInfo
  BY ZenonT(40), <1>1 DEF SetupInfo
<1>3. SynchronizeDisplayAndNFC(FreshSetupInfo(b, lockSetupInfo), env) \in SetupInfo
  BY <1>1, FreshSetupInfoType, SynchronizeType
<1>4. Available(b) \in BOOLEAN
  BY <1>1 DEF Available, SetupInfo
<1> HIDE DEF b
<1>5. CASE Available(b) /\ lockSetupInfo
  BY <1>2, <1>5 DEF PrepareSetupInfo, b
<1>6. CASE Available(b) /\ ~lockSetupInfo
  BY <1>1, <1>6 DEF PrepareSetupInfo, b
<1>7. CASE ~Available(b)
  BY <1>3, <1>7 DEF PrepareSetupInfo, b
<1> QED
  BY <1>4, <1>5, <1>6, <1>7

-----------------------------------------------------------------------------
(***************************************************************************)
(* The calls of the Pair Setup procedure.                                  *)
(***************************************************************************)

LEMMA HandlePairingStartType ==
    ASSUME NEW a \in SetupInfo, NEW env \in EnvType
    PROVE  HandlePairingStart(a, env) \in SetupInfo
BY PrepareSetupInfoType DEF HandlePairingStart

LEMMA HandlePairingStopType ==
    ASSUME NEW a \in SetupInfo, NEW env \in EnvType, NEW keepSetupInfo \in BOOLEAN
    PROVE  HandlePairingStop(a, env, keepSetupInfo) \in SetupInfo
<1> DEFINE k == [Check(a, a.lock, "HandlePairingStop") EXCEPT !.keep = TRUE]
           b == IF keepSetupInfo
                THEN k
                ELSE SynchronizeDisplayAndNFC(ClearSetupInfo(a), env)
<1>1. a.lock \in BOOLEAN
  BY DEF SetupInfo
<1>2. Check(a, a.lock, "HandlePairingStop") \in SetupInfo
  BY <1>1, CheckType DEF SetupChecks
<1>3. k \in SetupInfo
  BY <1>2 DEF SetupInfo
<1>4. b \in SetupInfo
  BY <1>3, ClearSetupInfoType, SynchronizeType
<1> HIDE DEF b
<1>5. PrepareSetupInfo(b, env, FALSE) \in SetupInfo
  BY <1>4, PrepareSetupInfoType
<1> QED
  BY <1>4, <1>5 DEF HandlePairingStop, b

LEMMA GetSetupInfoType ==
    ASSUME NEW a \in SetupInfo, NEW env \in EnvType, NEW restorePrevious \in BOOLEAN
    PROVE  GetSetupInfo(a, env, restorePrevious) \in SetupInfo
<1> DEFINE b == Check(a, Available(a), "GetSetupInfo")
           c == IF ~restorePrevious /\ b.keep
                THEN PrepareSetupInfo(ClearSetupInfo(b), env, TRUE)
                ELSE b
<1>1. Available(a) \in BOOLEAN
  BY DEF Available, SetupInfo
<1>2. b \in SetupInfo
  BY <1>1, CheckType DEF SetupChecks
<1> HIDE DEF b
<1>3. c \in SetupInfo
  BY <1>2, ClearSetupInfoType, PrepareSetupInfoType
<1> HIDE DEF c
<1>4. [c EXCEPT !.info = TRUE, !.served = NoSession] \in SetupInfo
  BY <1>3 DEF SetupInfo
<1> QED
  BY <1>3, <1>4 DEF GetSetupInfo, b, c

-----------------------------------------------------------------------------
(***************************************************************************)
(* The calls of the accessory server, the timers and the application.      *)
(***************************************************************************)

LEMMA HandleAccessoryServerStartType ==
    ASSUME NEW a \in SetupInfo, NEW env \in EnvType
    PROVE  HandleAccessoryServerStart(a, env) \in SetupInfo
<1> DEFINE b == Check(a, ~a.refresh, "HandleAccessoryServerStart")
<1>1. (~a.refresh) \in BOOLEAN
  OBVIOUS
<1>2. b \in SetupInfo
  BY <1>1, CheckType DEF SetupChecks
<1> HIDE DEF b
<1> QED
  BY <1>2, PrepareSetupInfoType DEF HandleAccessoryServerStart, b

LEMMA HandleAccessoryServerStopType ==
    ASSUME NEW a \in SetupInfo, NEW env \in EnvType
    PROVE  HandleAccessoryServerStop(a, env) \in SetupInfo
<1> DEFINE z == ZeroedState(a)
<1>1. z \in SetupInfo
  BY ZeroedStateType
<1> HIDE DEF z
<1>2. [z EXCEPT !.refresh = FALSE, !.nfc = FALSE] \in SetupInfo
  BY <1>1 DEF SetupInfo
<1> QED
  BY <1>2, SynchronizeType DEF HandleAccessoryServerStop, z

LEMMA CompleteExitingType ==
    ASSUME NEW a \in SetupInfo, NEW env \in EnvType
    PROVE  CompleteExitingNFCPairingMode(a, env) \in SetupInfo
BY ClearSetupInfoType, SynchronizeType DEF CompleteExitingNFCPairingMode

LEMMA NoNFCType ==
    ASSUME NEW a \in SetupInfo, NEW nfc \in BOOLEAN
    PROVE  [a EXCEPT !.nfc = nfc] \in SetupInfo
BY DEF SetupInfo

LEMMA ExitNFCPairingModeType ==
    ASSUME NEW a \in SetupInfo, NEW env \in EnvType
    PROVE  ExitNFCPairingMode(a, env) \in SetupInfo
BY NoNFCType, CompleteExitingType DEF ExitNFCPairingMode

LEMMA NFCPairingModeExpiredType ==
    ASSUME NEW a \in SetupInfo, NEW env \in EnvType
    PROVE  NFCPairingModeExpired(a, env) \in SetupInfo
BY NoNFCType, CompleteExitingType DEF NFCPairingModeExpired

LEMMA HandleAccessoryServerStateUpdateType ==
    ASSUME NEW a \in SetupInfo, NEW env \in EnvType
    PROVE  HandleAccessoryServerStateUpdate(a, env) \in SetupInfo
BY PrepareSetupInfoType, SynchronizeType, ExitNFCPairingModeType
   DEF HandleAccessoryServerStateUpdate

LEMMA DynamicSetupInfoExpiredType ==
    ASSUME NEW a \in SetupInfo, NEW env \in EnvType
    PROVE  DynamicSetupInfoExpired(a, env) \in SetupInfo
<1> DEFINE d == [a EXCEPT !.refresh = FALSE]
           holds == ~env.paired /\ ~a.lock /\ Available(a)
           b == Check(d, holds, "DynamicSetupInfoExpired")
           c == ClearSetupInfo(b)
<1>1. d \in SetupInfo
  BY DEF SetupInfo
<1>2. holds \in BOOLEAN
  OBVIOUS
<1> HIDE DEF d, holds
<1>3. b \in SetupInfo
  BY <1>1, <1>2, CheckType DEF SetupChecks
<1> HIDE DEF b
<1>4. c \in SetupInfo
  BY <1>3, ClearSetupInfoType
<1> HIDE DEF c
<1> QED
  BY <1>4, PrepareSetupInfoType DEF DynamicSetupInfoExpired, d, holds, b, c

LEMMA EnterNFCPairingModeType ==
    ASSUME NEW a \in SetupInfo, NEW env \in EnvType
    PROVE  EnterNFCPairingMode(a, env) \in SetupInfo
<1> DEFINE b == [a EXCEPT !.nfc = TRUE]
<1>1. b \in SetupInfo
  BY NoNFCType
<1> HIDE DEF b
<1>2. /\ PrepareSetupInfo(b, env, FALSE) \in SetupInfo
      /\ SynchronizeDisplayAndNFC(b, env) \in SetupInfo
  BY <1>1, PrepareSetupInfoType, SynchronizeType
<1>3. /\ Available(a) \in BOOLEAN
      /\ a.nfc \in BOOLEAN
      /\ env.paired \in BOOLEAN
  BY DEF Available, SetupInfo, EnvType
<1>4. CASE env.paired
  BY <1>4 DEF EnterNFCPairingMode
<1>5. CASE ~env.paired /\ ~Available(a)
  BY <1>2, <1>5 DEF EnterNFCPairingMode, b
<1>6. CASE ~env.paired /\ Available(a) /\ a.nfc
  BY <1>1, <1>6 DEF EnterNFCPairingMode, b
<1>7. CASE ~env.paired /\ Available(a) /\ ~a.nfc
  BY <1>2, <1>7 DEF EnterNFCPairingMode, b
<1> QED
  BY <1>3, <1>4, <1>5, <1>6, <1>7

LEMMA RefreshSetupPayloadType ==
    ASSUME NEW a \in SetupInfo, NEW env \in EnvType
    PROVE  RefreshSetupPayload(a, env) \in SetupInfo
BY ClearSetupInfoType, PrepareSetupInfoType DEF RefreshSetupPayload

-----------------------------------------------------------------------------
(***************************************************************************)
(* The setup info while no check has failed.  Sound is what every function *)
(* keeps to: a locked code exists and is not refreshed, an unlocked one of *)
(* an unpaired accessory with a display is, and a code without a display   *)
(* is for NFC pairing mode or for a procedure.  Updated is what the state  *)
(* update is for.  Calm says that a locked code is the same as before.     *)
(***************************************************************************)

Sound(a, paired) ==
    /\ a.lock => Available(a)
    /\ a.refresh <=> HasDisplay /\ Available(a) /\ ~a.lock /\ ~paired
    /\ HasDisplay /\ a.info => a.code
    /\ a.keep => a.lock
    /\ paired /\ Available(a) => a.lock
    /\ ~HasDisplay /\ Available(a) => a.nfc \/ a.lock
    /\ a.nfc => HasNFC

Updated(a, paired) ==
    /\ HasDisplay /\ ~paired => a.code
    /\ paired => ~a.nfc

SameSecrets(a, b) ==
    /\ b.code = a.code /\ b.info = a.info /\ b.lock = a.lock
    /\ b.keep = a.keep /\ b.served = a.served

Calm(a, b) ==
    a.lock => /\ b.lock /\ b.info = a.info
              /\ b.keep = a.keep /\ b.served = a.served

KeepsSound(a, b, paired) ==
    /\ a.failed = "none"
    /\ Sound(b, paired)
    /\ Updated(a, paired) => Updated(b, paired)

Blank(a) == ~a.code /\ ~a.info /\ ~a.lock /\ ~a.keep /\ ~a.refresh

\* A check that does not fail holds, and changes nothing.
LEMMA Passed ==
    ASSUME NEW a \in SetupInfo, NEW holds \in BOOLEAN, NEW name \in SetupChecks,
           Check(a, holds, name).failed = "none"
    PROVE  Check(a, holds, name) = a /\ holds /\ a.failed = "none"
<1>1. name # "none"
  BY DEF SetupChecks
<1>2. CASE holds \/ a.failed # "none"
  BY <1>2 DEF Check
<1>3. CASE ~(holds \/ a.failed # "none")
  <2>1. Check(a, holds, name).failed = name
    BY <1>3 DEF Check, SetupInfo
  <2> QED
    BY <1>1, <2>1
<1> QED
  BY <1>2, <1>3

LEMMA SynchronizeSame ==
    ASSUME NEW a \in SetupInfo, NEW env \in EnvType,
           SynchronizeDisplayAndNFC(a, env).failed = "none"
    PROVE  LET b == SynchronizeDisplayAndNFC(a, env)
           IN  /\ a.failed = "none"
               /\ SameSecrets(a, b) /\ b.refresh = a.refresh /\ b.nfc = a.nfc
<1> DEFINE c == Check(a, env.started, "PrimaryAccessory")
           b == Check(c, ~(HasPairablePayload(a) /\ env.paired),
                      "SynchronizeDisplayAndNFC")
           d == IF HasDisplay /\ a.code THEN "current" ELSE "none"
           t == IF HasNFC /\ a.nfc /\ HasPairablePayload(a)
                THEN "current" ELSE "none"
           e == [b EXCEPT !.display = d, !.tag = t]
<1>1. CASE ~HasDisplay /\ ~HasNFC
  BY <1>1 DEF SynchronizeDisplayAndNFC, SameSecrets
<1>2. CASE HasDisplay \/ HasNFC
  <2>1. HasPairablePayload(a) \in BOOLEAN /\ env.started \in BOOLEAN
    BY SetupInfoAssumption DEF HasPairablePayload, SetupInfo, EnvType
  <2>2. c \in SetupInfo
    BY <2>1, CheckType DEF SetupChecks
  <2>3. b \in SetupInfo
    BY <2>1, <2>2, CheckType DEF SetupChecks
  <2>4. SynchronizeDisplayAndNFC(a, env) = e
    BY <1>2 DEF SynchronizeDisplayAndNFC
  <2> HIDE DEF b, d, t
  <2>5. /\ SameSecrets(b, e) /\ e.refresh = b.refresh /\ e.nfc = b.nfc
        /\ e.failed = b.failed
    BY <2>3 DEF SetupInfo, SameSecrets
  <2> HIDE DEF e
  <2>6. b.failed = "none"
    BY <2>4, <2>5
  <2> HIDE DEF c
  <2>7. b = c /\ c.failed = "none"
    BY <2>1, <2>2, <2>6, Passed DEF SetupChecks, b
  <2>8. c = a /\ a.failed = "none"
    BY <2>1, <2>7, Passed DEF SetupChecks, c
  <2> QED
    BY <2>4, <2>5, <2>7, <2>8
<1> QED
  BY <1>1, <1>2

LEMMA ClearedBlank ==
    ASSUME NEW a \in SetupInfo, NEW paired, Available(a) \/ Sound(a, paired),
           ClearSetupInfo(a).failed = "none"
    PROVE  LET b == ClearSetupInfo(a)
           IN  /\ a.failed = "none"
               /\ Blank(b) /\ b.nfc = a.nfc
<1> DEFINE b == IF Available(a)
                THEN [ZeroedState(a) EXCEPT !.refresh = FALSE]
                ELSE a
<1>1. b \in SetupInfo
  BY ZeroedStateType DEF SetupInfo
<1>2. b = ClearSetupInfo(a) /\ b.failed = "none"
  <2>1. (~b.refresh) \in BOOLEAN
    OBVIOUS
  <2> HIDE DEF b
  <2>2. Check(b, ~b.refresh, "ClearSetupInfo") = b /\ b.failed = "none"
    BY <1>1, <2>1, Passed DEF SetupChecks, ClearSetupInfo, b
  <2> QED
    BY <2>2 DEF ClearSetupInfo, b
<1>3. CASE Available(a)
  <2>1. b = [ZeroedState(a) EXCEPT !.refresh = FALSE]
    BY <1>3
  <2>2. Blank(b) /\ b.nfc = a.nfc /\ b.failed = a.failed
    BY <2>1 DEF ZeroedState, SetupInfo, Blank
  <2> QED
    BY <1>2, <2>2
<1>4. CASE ~Available(a)
  <2>1. b = a
    BY <1>4
  <2>2. Blank(a)
    BY <1>4 DEF Blank, Sound, Available
  <2> QED
    BY <1>2, <2>1, <2>2
<1> QED
  BY <1>3, <1>4

LEMMA FreshSticky ==
    ASSUME NEW a \in SetupInfo, NEW lockSetupInfo \in BOOLEAN,
           FreshSetupInfo(a, lockSetupInfo).failed = "none"
    PROVE  a.failed = "none"
<1> DEFINE z == ZeroedState(a)
           holds == lockSetupInfo \/ ~a.refresh
           c == Check(z, holds, "PrepareSetupInfo")
<1>1. z \in SetupInfo /\ z.failed = a.failed
  BY ZeroedStateType DEF ZeroedState, SetupInfo
<1>2. holds \in BOOLEAN
  OBVIOUS
<1> HIDE DEF z, holds
<1>3. c \in SetupInfo
  BY <1>1, <1>2, CheckType DEF SetupChecks
<1>4. c.failed = "none" => z.failed = "none"
  BY <1>1, <1>2, Passed DEF SetupChecks
<1> HIDE DEF c
<1>5. CASE HasDisplay
  BY <1>1, <1>3, <1>4, <1>5 DEF FreshSetupInfo, SetupInfo, c, z, holds
<1>6. CASE ~HasDisplay
  BY <1>1, <1>6 DEF FreshSetupInfo, SetupInfo, z
<1> QED
  BY <1>5, <1>6

LEMMA FreshSound ==
    ASSUME NEW a \in SetupInfo, NEW lockSetupInfo \in BOOLEAN,
           ~a.refresh, a.nfc => HasNFC,
           lockSetupInfo \/ HasDisplay \/ a.nfc,
           FreshSetupInfo(a, lockSetupInfo).failed = "none"
    PROVE  LET b == FreshSetupInfo(a, lockSetupInfo)
           IN  /\ a.failed = "none"
               /\ Sound(b, FALSE) /\ Available(b) /\ ~b.keep
               /\ b.lock = lockSetupInfo /\ b.nfc = a.nfc
<1> DEFINE z == ZeroedState(a)
           c == Check(z, lockSetupInfo \/ ~a.refresh, "PrepareSetupInfo")
<1>1. /\ z \in SetupInfo
      /\ ~z.code /\ ~z.info /\ ~z.lock /\ ~z.keep
      /\ z.refresh = a.refresh /\ z.nfc = a.nfc /\ z.failed = a.failed
  BY ZeroedStateType DEF ZeroedState, SetupInfo
<1>2. c = z
  BY DEF Check
<1> HIDE DEF c, z
<1>3. a.refresh = FALSE
  BY DEF SetupInfo
<1>4. CASE HasDisplay
  <2>1. FreshSetupInfo(a, lockSetupInfo) =
            [z EXCEPT !.lock = lockSetupInfo, !.code = TRUE,
                      !.refresh = @ \/ ~lockSetupInfo]
    BY <1>2, <1>4 DEF FreshSetupInfo, c, z
  <2> DEFINE b == [z EXCEPT !.lock = lockSetupInfo, !.code = TRUE,
                            !.refresh = @ \/ ~lockSetupInfo]
  <2>2. /\ b.code = TRUE /\ b.info = z.info /\ b.keep = z.keep
        /\ b.lock = lockSetupInfo /\ b.nfc = a.nfc /\ b.failed = a.failed
        /\ b.refresh = (z.refresh \/ ~lockSetupInfo)
    BY <1>1 DEF SetupInfo
  <2> HIDE DEF b
  <2>3. b.refresh <=> ~lockSetupInfo
    BY <1>1, <1>3, <2>2
  <2>4. Sound(b, FALSE) /\ Available(b) /\ ~b.keep
    BY <1>1, <1>4, <2>2, <2>3 DEF Sound, Available
  <2> QED
    BY <2>1, <2>2, <2>4 DEF b
<1>5. CASE ~HasDisplay
  <2>1. FreshSetupInfo(a, lockSetupInfo) =
            [z EXCEPT !.lock = lockSetupInfo, !.code = HasNFC, !.info = TRUE]
    BY <1>5 DEF FreshSetupInfo, z
  <2> DEFINE b == [z EXCEPT !.lock = lockSetupInfo, !.code = HasNFC, !.info = TRUE]
  <2>2. /\ b.info = TRUE /\ b.keep = z.keep
        /\ b.lock = lockSetupInfo /\ b.nfc = a.nfc /\ b.failed = a.failed
        /\ b.refresh = z.refresh
    BY <1>1 DEF SetupInfo
  <2> HIDE DEF b
  <2>3. ~b.refresh
    BY <1>1, <1>3, <2>2
  <2>4. Sound(b, FALSE) /\ Available(b) /\ ~b.keep
    BY <1>1, <1>5, <2>2, <2>3 DEF Sound, Available
  <2> QED
    BY <2>1, <2>2, <2>4 DEF b
<1> QED
  BY <1>4, <1>5

\* The setup code that is there afterwards: the one there was, or a new one.
LEMMA PrepareSound ==
    ASSUME NEW a \in SetupInfo, NEW env \in EnvType, NEW lockSetupInfo \in BOOLEAN,
           Sound(a, env.paired) \/ (Blank(a) /\ (a.nfc => HasNFC)),
           lockSetupInfo \/ HasDisplay \/ a.nfc,
           PrepareSetupInfo(a, env, lockSetupInfo).failed = "none"
    PROVE  LET b == PrepareSetupInfo(a, env, lockSetupInfo)
           IN  /\ a.failed = "none" /\ ~env.paired
               /\ Sound(b, FALSE) /\ Available(b)
               /\ b.lock = (a.lock \/ lockSetupInfo) /\ b.nfc = a.nfc
               /\ b.keep = a.keep
               /\ Available(a) => b.info = a.info /\ b.served = a.served
<1> DEFINE d == Check(a, ~env.paired, "PrepareSetupInfo")
           f == FreshSetupInfo(d, lockSetupInfo)
           b == PrepareSetupInfo(a, env, lockSetupInfo)
<1>0. /\ (~env.paired) \in BOOLEAN /\ d \in SetupInfo /\ f \in SetupInfo
      /\ b.failed = "none"
  <2>1. (~env.paired) \in BOOLEAN
    OBVIOUS
  <2>2. d \in SetupInfo
    BY <2>1, CheckType DEF SetupChecks
  <2> QED
    BY <2>1, <2>2, FreshSetupInfoType
<1>1. SUFFICES ASSUME d.failed = "none" => d = a /\ ~env.paired /\ a.failed = "none"
               PROVE  /\ a.failed = "none" /\ ~env.paired
                      /\ Sound(b, FALSE) /\ Available(b)
                      /\ b.lock = (a.lock \/ lockSetupInfo) /\ b.nfc = a.nfc
                      /\ b.keep = a.keep
                      /\ Available(a) => b.info = a.info /\ b.served = a.served
  BY <1>0, Passed DEF SetupChecks
<1>2. Available(d) \in BOOLEAN /\ a.lock \in BOOLEAN
  BY <1>0 DEF Available, SetupInfo
<1>3. CASE Available(d) /\ lockSetupInfo
  <2> DEFINE e == [d EXCEPT !.lock = TRUE, !.refresh = FALSE]
  <2>1. b = e
    BY <1>3 DEF PrepareSetupInfo
  <2>2. /\ e.code = d.code /\ e.info = d.info /\ e.lock = TRUE /\ e.keep = d.keep
        /\ e.served = d.served /\ e.refresh = FALSE /\ e.nfc = d.nfc
        /\ e.failed = d.failed
    BY <1>0 DEF SetupInfo
  <2> HIDE DEF e, b, d
  <2>3. d = a /\ ~env.paired /\ a.failed = "none"
    BY <1>0, <1>1, <2>1, <2>2
  <2>4. Sound(a, FALSE)
    BY <1>3, <2>3 DEF Sound, Blank, Available, EnvType
  <2>5. Sound(b, FALSE) /\ Available(b)
    BY <1>3, <2>1, <2>2, <2>3, <2>4 DEF Sound, Available
  <2> QED
    BY <1>3, <2>1, <2>2, <2>3, <2>5
<1>4. CASE Available(d) /\ ~lockSetupInfo
  <2>1. b = d
    BY <1>4 DEF PrepareSetupInfo
  <2> HIDE DEF b, d
  <2>3. d = a /\ ~env.paired /\ a.failed = "none"
    BY <1>0, <1>1, <2>1
  <2>4. Sound(a, FALSE)
    BY <1>4, <2>3 DEF Sound, Blank, Available, EnvType
  <2> QED
    BY <1>2, <1>4, <2>1, <2>3, <2>4
<1>5. CASE ~Available(d)
  <2>1. b = SynchronizeDisplayAndNFC(f, env)
    BY <1>5 DEF PrepareSetupInfo
  <2> HIDE DEF f, b
  <2>2. /\ f.failed = "none"
        /\ SameSecrets(f, b) /\ b.refresh = f.refresh /\ b.nfc = f.nfc
    BY <1>0, <2>1, SynchronizeSame
  <2>3. d.failed = "none"
    BY <1>0, <2>2, FreshSticky DEF f
  <2> HIDE DEF d
  <2>4. d = a /\ ~env.paired /\ a.failed = "none"
    BY <1>1, <2>3
  <2>5. ~a.refresh /\ (a.nfc => HasNFC) /\ ~a.keep /\ ~a.lock /\ ~Available(a)
    BY <1>5, <2>4 DEF Sound, Blank, Available
  <2>6. /\ Sound(f, FALSE) /\ Available(f) /\ ~f.keep
        /\ f.lock = lockSetupInfo /\ f.nfc = a.nfc
    BY <2>2, <2>4, <2>5, FreshSound DEF f
  <2>7. Sound(b, FALSE) /\ Available(b)
    BY <2>2, <2>6 DEF Sound, Available, SameSecrets
  <2>8. a.keep = FALSE /\ a.lock = FALSE /\ f.keep = FALSE
    BY <1>0, <2>5, <2>6 DEF SetupInfo
  <2>9. b.lock = f.lock /\ b.keep = f.keep
    BY <2>2 DEF SameSecrets
  <2>10. b.lock = (a.lock \/ lockSetupInfo) /\ b.keep = a.keep
    BY <2>6, <2>8, <2>9
  <2> QED
    BY <2>2, <2>4, <2>5, <2>6, <2>7, <2>10
<1> QED
  BY <1>2, <1>3, <1>4, <1>5

LEMMA ClearSticky ==
    ASSUME NEW a \in SetupInfo, ClearSetupInfo(a).failed = "none"
    PROVE  a.failed = "none"
<1> DEFINE b == IF Available(a)
                THEN [ZeroedState(a) EXCEPT !.refresh = FALSE]
                ELSE a
           holds == ~b.refresh
<1>1. b \in SetupInfo
  BY ZeroedStateType DEF SetupInfo
<1>2. b.failed = a.failed
  BY DEF ZeroedState, SetupInfo
<1>3. holds \in BOOLEAN
  OBVIOUS
<1>4. ClearSetupInfo(a) = Check(b, holds, "ClearSetupInfo")
  BY DEF ClearSetupInfo
<1> HIDE DEF b, holds
<1> QED
  BY <1>1, <1>2, <1>3, <1>4, Passed DEF SetupChecks

LEMMA PrepareSticky ==
    ASSUME NEW a \in SetupInfo, NEW env \in EnvType, NEW lockSetupInfo \in BOOLEAN,
           PrepareSetupInfo(a, env, lockSetupInfo).failed = "none"
    PROVE  a.failed = "none"
<1> DEFINE d == Check(a, ~env.paired, "PrepareSetupInfo")
           f == FreshSetupInfo(d, lockSetupInfo)
<1>1. /\ d \in SetupInfo /\ f \in SetupInfo
      /\ d.failed = "none" => a.failed = "none"
  <2>1. (~env.paired) \in BOOLEAN
    OBVIOUS
  <2>2. d \in SetupInfo
    BY <2>1, CheckType DEF SetupChecks
  <2> QED
    BY <2>1, <2>2, FreshSetupInfoType, Passed DEF SetupChecks
<1> HIDE DEF d
<1>2. [d EXCEPT !.lock = TRUE, !.refresh = FALSE].failed = d.failed
  BY <1>1 DEF SetupInfo
<1>3. SynchronizeDisplayAndNFC(f, env).failed = "none" => d.failed = "none"
  BY <1>1, SynchronizeSame, FreshSticky
<1> HIDE DEF f
<1>4. Available(d) \in BOOLEAN
  BY <1>1 DEF Available, SetupInfo
<1>5. CASE Available(d) /\ lockSetupInfo
  BY <1>1, <1>2, <1>5 DEF PrepareSetupInfo, d
<1>6. CASE Available(d) /\ ~lockSetupInfo
  BY <1>1, <1>6 DEF PrepareSetupInfo, d
<1>7. CASE ~Available(d)
  BY <1>1, <1>3, <1>7 DEF PrepareSetupInfo, d, f
<1> QED
  BY <1>4, <1>5, <1>6, <1>7

\* With a display there is always an unlocked code, or a locked one stays.
LEMMA PrepareUnlocked ==
    ASSUME NEW a \in SetupInfo, NEW env \in EnvType,
           Sound(a, env.paired) \/ (Blank(a) /\ (a.nfc => HasNFC)),
           HasDisplay \/ a.nfc, PrepareSetupInfo(a, env, FALSE).failed = "none"
    PROVE  LET b == PrepareSetupInfo(a, env, FALSE)
           IN  /\ a.failed = "none" /\ ~env.paired
               /\ Sound(b, FALSE) /\ Available(b)
               /\ b.lock = a.lock /\ b.nfc = a.nfc
               /\ b.keep = a.keep
               /\ Available(a) => b.info = a.info /\ b.served = a.served
<1> DEFINE b == PrepareSetupInfo(a, env, FALSE)
<1>1. /\ a.failed = "none" /\ ~env.paired
      /\ Sound(b, FALSE) /\ Available(b)
      /\ b.lock = (a.lock \/ FALSE) /\ b.nfc = a.nfc
      /\ b.keep = a.keep
      /\ Available(a) => b.info = a.info /\ b.served = a.served
  BY ZenonT(60), FALSE \in BOOLEAN, PrepareSound
<1> HIDE DEF b
<1>2. b.lock = a.lock
  BY <1>1 DEF SetupInfo
<1> QED
  BY <1>1, <1>2 DEF b

LEMMA BlankSound ==
    ASSUME NEW a, NEW paired, Blank(a), a.nfc => HasNFC
    PROVE  Sound(a, paired) /\ ~Available(a)
BY DEF Blank, Sound, Available

\* A controller begins: the code is locked, and is the same if there was one.
LEMMA HandlePairingStartSound ==
    ASSUME NEW a \in SetupInfo, NEW env \in EnvType, Sound(a, env.paired),
           HandlePairingStart(a, env).failed = "none"
    PROVE  LET b == HandlePairingStart(a, env)
           IN  /\ KeepsSound(a, b, env.paired) /\ ~env.paired
               /\ b.lock /\ Calm(a, b)
<1> DEFINE b == HandlePairingStart(a, env)
<1>1. b = PrepareSetupInfo(a, env, TRUE)
  BY DEF HandlePairingStart
<1>2. b.failed = "none" /\ b \in SetupInfo
  BY HandlePairingStartType
<1> HIDE DEF b
<1>3. /\ a.failed = "none" /\ ~env.paired
      /\ Sound(b, FALSE) /\ Available(b)
      /\ b.lock = (a.lock \/ TRUE) /\ b.nfc = a.nfc
      /\ b.keep = a.keep
      /\ Available(a) => b.info = a.info /\ b.served = a.served
  BY ZenonT(60), <1>1, <1>2, PrepareSound
<1>4. Sound(b, env.paired) /\ b.lock
  BY <1>3 DEF Sound
<1>5. Calm(a, b)
  BY <1>3, <1>4 DEF Calm, Sound
<1>6. Updated(b, env.paired)
  BY <1>3 DEF Updated, Sound, Available
<1> QED
  BY <1>3, <1>4, <1>5, <1>6 DEF KeepsSound, b

\* A procedure is over: what is still locked is kept for the next one.
LEMMA HandlePairingStopSound ==
    ASSUME NEW a \in SetupInfo, NEW env \in EnvType, NEW keepSetupInfo \in BOOLEAN,
           Sound(a, env.paired), a.lock,
           HandlePairingStop(a, env, keepSetupInfo).failed = "none"
    PROVE  LET b == HandlePairingStop(a, env, keepSetupInfo)
           IN  /\ KeepsSound(a, b, env.paired)
               /\ b.lock => b.keep
<1> DEFINE c == Check(a, a.lock, "HandlePairingStop")
           k == [c EXCEPT !.keep = TRUE]
           d == ClearSetupInfo(a)
           e == SynchronizeDisplayAndNFC(d, env)
           m == IF keepSetupInfo THEN k ELSE e
           b == HandlePairingStop(a, env, keepSetupInfo)
<1>1. /\ c \in SetupInfo /\ k \in SetupInfo /\ d \in SetupInfo /\ e \in SetupInfo
      /\ b.failed = "none"
  <2>1. a.lock \in BOOLEAN
    BY DEF SetupInfo
  <2>2. c \in SetupInfo
    BY <2>1, CheckType DEF SetupChecks
  <2>3. k \in SetupInfo
    BY <2>2 DEF SetupInfo
  <2> QED
    BY <2>2, <2>3, ClearSetupInfoType, SynchronizeType
<1>2. b = IF HasDisplay /\ ~env.paired THEN PrepareSetupInfo(m, env, FALSE) ELSE m
  BY DEF HandlePairingStop
<1>3. m \in SetupInfo
  BY <1>1
<1> HIDE DEF b, m
<1>4. m.failed = "none"
  <2>1. CASE HasDisplay /\ ~env.paired
    <3>1. PrepareSetupInfo(m, env, FALSE).failed = "none"
      BY <1>1, <1>2, <2>1
    <3> QED
      BY <1>3, <3>1, PrepareSticky
  <2>2. CASE ~(HasDisplay /\ ~env.paired)
    BY <1>1, <1>2, <2>2
  <2> QED
    BY <2>1, <2>2
\* The middle of the call.
<1>5. /\ a.failed = "none"
      /\ Sound(m, env.paired) /\ m.nfc = a.nfc
      /\ m.lock => m.keep
      /\ keepSetupInfo => m.code = a.code
  <2>1. CASE keepSetupInfo
    <3>1. m = k /\ k.failed = c.failed
      BY <1>1, <2>1 DEF m, SetupInfo
    <3>2. c = a /\ a.failed = "none"
      <4>1. a.lock \in BOOLEAN /\ c.failed = "none"
        BY <1>4, <3>1 DEF SetupInfo
      <4> QED
        BY <4>1, Passed DEF SetupChecks
    <3> HIDE DEF c
    <3>3. /\ k.code = a.code /\ k.info = a.info /\ k.lock = a.lock
          /\ k.keep = TRUE /\ k.refresh = a.refresh /\ k.nfc = a.nfc
      BY <3>2 DEF SetupInfo
    <3> HIDE DEF k
    <3>4. Sound(k, env.paired)
      BY <3>3 DEF Sound, Available
    <3> QED
      BY <3>1, <3>2, <3>3, <3>4
  <2>2. CASE ~keepSetupInfo
    <3>1. m = e
      BY <2>2 DEF m
    <3>2. /\ d.failed = "none"
          /\ SameSecrets(d, e) /\ e.refresh = d.refresh /\ e.nfc = d.nfc
      <4>1. e.failed = "none"
        BY <1>4, <3>1
      <4> QED
        BY <1>1, <4>1, SynchronizeSame
    <3>3. a.failed = "none" /\ Blank(d) /\ d.nfc = a.nfc
      BY <3>2, ClearedBlank
    <3> HIDE DEF d, e
    <3>4. Blank(e) /\ e.nfc = a.nfc /\ (e.nfc => HasNFC)
      BY <3>2, <3>3 DEF Blank, SameSecrets, Sound
    <3>5. Sound(e, env.paired) /\ ~e.lock
      BY <3>4, BlankSound DEF Blank
    <3> QED
      BY <2>2, <3>1, <3>3, <3>4, <3>5
  <2> QED
    BY <2>1, <2>2
<1>6. CASE HasDisplay /\ ~env.paired
  <2>1. b = PrepareSetupInfo(m, env, FALSE)
    BY <1>2, <1>6
  <2>2. PrepareSetupInfo(m, env, FALSE).failed = "none" /\ Sound(m, env.paired)
    BY <1>1, <1>5, <2>1
  <2>5. /\ Sound(b, FALSE) /\ Available(b)
        /\ b.lock = m.lock /\ b.nfc = m.nfc
        /\ b.keep = m.keep
    BY <1>3, <1>6, <2>1, <2>2, PrepareUnlocked
  <2>3. Sound(b, env.paired) /\ (b.lock => b.keep)
    BY <1>5, <1>6, <2>5 DEF Sound
  <2>4. Updated(b, env.paired)
    BY <1>6, <2>5 DEF Updated, Sound, Available
  <2> QED
    BY <1>5, <2>3, <2>4 DEF KeepsSound, b
<1>7. CASE ~(HasDisplay /\ ~env.paired)
  <2>1. b = m
    BY <1>2, <1>7
  <2>2. Updated(a, env.paired) => Updated(b, env.paired)
    BY <1>5, <1>7, <2>1 DEF Updated
  <2> QED
    BY <1>5, <2>1, <2>2 DEF KeepsSound, b
<1> QED
  BY <1>6, <1>7

\* The setup info of a response: the kept one is used on request only.
LEMMA GetSetupInfoSound ==
    ASSUME NEW a \in SetupInfo, NEW env \in EnvType, NEW restorePrevious \in BOOLEAN,
           Sound(a, env.paired), a.lock,
           GetSetupInfo(a, env, restorePrevious).failed = "none"
    PROVE  LET b == GetSetupInfo(a, env, restorePrevious)
           IN  /\ KeepsSound(a, b, env.paired)
               /\ b.lock /\ b.info
               /\ b.keep => restorePrevious
               /\ a.info /\ (a.keep => restorePrevious) => b = a
<1> DEFINE d == Check(a, Available(a), "GetSetupInfo")
           f == ClearSetupInfo(d)
           g == PrepareSetupInfo(f, env, TRUE)
           c == IF ~restorePrevious /\ d.keep THEN g ELSE d
           e == [c EXCEPT !.info = TRUE, !.served = NoSession]
           b == GetSetupInfo(a, env, restorePrevious)
<1>1. b = IF c.info THEN c ELSE e
  BY DEF GetSetupInfo
<1>2. /\ d \in SetupInfo /\ f \in SetupInfo /\ g \in SetupInfo /\ c \in SetupInfo
      /\ b.failed = "none"
  <2>1. d \in SetupInfo
    BY CheckType DEF Available, SetupInfo, SetupChecks
  <2> HIDE DEF d
  <2> QED
    BY <2>1, ClearSetupInfoType, PrepareSetupInfoType
<1> HIDE DEF b
<1>3. c.failed = "none"
  <2> HIDE DEF c
  <2>1. e.failed = c.failed
    BY <1>2 DEF SetupInfo
  <2> QED
    BY <1>1, <1>2, <2>1
<1>4. d.failed = "none"
  <2> HIDE DEF d
  <2>1. g.failed = "none" => f.failed = "none"
    BY <1>2, PrepareSticky
  <2>2. f.failed = "none" => d.failed = "none"
    BY <1>2, ClearSticky
  <2> QED
    BY <1>3, <2>1, <2>2
<1>5. d = a /\ a.failed = "none" /\ Available(a)
  <2>1. Available(a) \in BOOLEAN
    BY DEF Available, SetupInfo
  <2> QED
    BY <1>4, <2>1, Passed DEF SetupChecks
<1> HIDE DEF d
<1>6. /\ Sound(c, env.paired) /\ c.lock /\ Available(c) /\ c.nfc = a.nfc
      /\ c.keep => restorePrevious
  <2>1. CASE ~restorePrevious /\ a.keep
    <3>1. c = g
      BY <1>5, <2>1
    <3>2. g.failed = "none"
      BY <1>3, <3>1
    <3>3. f.failed = "none"
      BY <1>2, <3>2, PrepareSticky
    <3>4. Blank(f) /\ f.nfc = a.nfc
      BY <1>5, <3>3, ClearedBlank
    <3> HIDE DEF f
    <3>5. f.nfc => HasNFC
      BY <3>4 DEF Sound
    <3>6. /\ ~env.paired
          /\ Sound(g, FALSE) /\ Available(g)
          /\ g.lock = (f.lock \/ TRUE) /\ g.nfc = f.nfc
          /\ g.keep = f.keep
      BY <1>2, <3>2, <3>4, <3>5, PrepareSound
    <3>7. Sound(g, env.paired) /\ g.lock /\ ~g.keep
      BY <3>4, <3>6 DEF Sound, Blank
    <3> QED
      BY <2>1, <3>1, <3>4, <3>6, <3>7
  <2>2. CASE ~(~restorePrevious /\ a.keep)
    <3>1. c = a
      BY <1>5, <2>2
    <3> HIDE DEF c
    <3> QED
      BY <1>5, <2>2, <3>1
  <2> QED
    BY <2>1, <2>2
<1>7. (a.keep => restorePrevious) => c = a
  BY <1>5
<1> HIDE DEF c
<1>8. CASE c.info
  <2>1. b = c
    BY <1>1, <1>8
  <2>2. Updated(a, env.paired) => Updated(b, env.paired)
    BY <1>6, <2>1 DEF Updated, Sound, Available
  <2> QED
    BY <1>5, <1>6, <1>7, <1>8, <2>1, <2>2 DEF KeepsSound, b
<1>9. CASE ~c.info
  <2>1. b = e
    BY <1>1, <1>9
  <2>2. /\ e.code = c.code /\ e.info = TRUE /\ e.lock = c.lock /\ e.keep = c.keep
        /\ e.refresh = c.refresh /\ e.nfc = c.nfc
    BY <1>2 DEF SetupInfo
  <2> HIDE DEF e
  <2>3. c.code
    BY <1>6, <1>9 DEF Available
  <2>4. Sound(e, env.paired)
    BY <1>6, <2>2, <2>3 DEF Sound, Available
  <2>5. Updated(a, env.paired) => Updated(e, env.paired)
    BY <1>6, <2>2, <2>3 DEF Updated
  <2>6. ~(a.info /\ (a.keep => restorePrevious))
    BY <1>7, <1>9
  <2> QED
    BY <1>5, <1>6, <2>1, <2>2, <2>4, <2>5, <2>6 DEF KeepsSound, b
<1> QED
  BY <1>8, <1>9


-----------------------------------------------------------------------------
(***************************************************************************)
(* The server, the timers and the application do not touch a locked code.  *)
(***************************************************************************)

KeepsCalm(a, b, paired) ==
    /\ KeepsSound(a, b, paired)
    /\ Calm(a, b)
    /\ b.lock => a.lock

LEMMA HandleAccessoryServerStartSound ==
    ASSUME NEW a \in SetupInfo, NEW env \in EnvType, Sound(a, env.paired),
           HandleAccessoryServerStart(a, env).failed = "none"
    PROVE  KeepsCalm(a, HandleAccessoryServerStart(a, env), env.paired)
<1> DEFINE d == Check(a, ~a.refresh, "HandleAccessoryServerStart")
           b == HandleAccessoryServerStart(a, env)
<1>1. b = IF HasDisplay /\ ~env.paired THEN PrepareSetupInfo(d, env, FALSE) ELSE d
  BY DEF HandleAccessoryServerStart
<1>2. b.failed = "none"
  OBVIOUS
<1> HIDE DEF b
<1>3. (~a.refresh) \in BOOLEAN
  OBVIOUS
<1>4. d \in SetupInfo /\ (d.failed = "none" => d = a /\ a.failed = "none")
  BY <1>3, CheckType, Passed DEF SetupChecks
<1> HIDE DEF d
<1>5. CASE HasDisplay /\ ~env.paired
  <2>1. b = PrepareSetupInfo(d, env, FALSE)
    BY <1>1, <1>5
  <2>2. d = a /\ a.failed = "none"
    BY <1>2, <1>4, <2>1, PrepareSticky
  <2>3. PrepareSetupInfo(a, env, FALSE).failed = "none"
    BY <1>2, <2>1, <2>2
  <2>4. /\ Sound(b, FALSE) /\ Available(b)
        /\ b.lock = a.lock /\ b.nfc = a.nfc
        /\ b.keep = a.keep
        /\ Available(a) => b.info = a.info /\ b.served = a.served
    BY <1>5, <2>1, <2>2, <2>3, PrepareUnlocked
  <2>5. Sound(b, env.paired) /\ Updated(b, env.paired)
    BY <1>5, <2>4 DEF Sound, Updated, Available
  <2>6. Calm(a, b)
    BY <2>4 DEF Calm, Sound
  <2> QED
    BY <2>2, <2>4, <2>5, <2>6 DEF KeepsCalm, KeepsSound, b
<1>6. CASE ~(HasDisplay /\ ~env.paired)
  BY <1>1, <1>2, <1>4, <1>6 DEF KeepsCalm, KeepsSound, Calm, b
<1> QED
  BY <1>5, <1>6

\* When the server stops nothing is left.
LEMMA HandleAccessoryServerStopSound ==
    ASSUME NEW a \in SetupInfo, NEW env \in EnvType,
           HandleAccessoryServerStop(a, env).failed = "none"
    PROVE  LET b == HandleAccessoryServerStop(a, env)
           IN  /\ a.failed = "none"
               /\ Sound(b, env.paired) /\ ~b.lock /\ ~b.nfc
<1> DEFINE z == ZeroedState(a)
           y == [z EXCEPT !.refresh = FALSE, !.nfc = FALSE]
           b == HandleAccessoryServerStop(a, env)
<1>1. z \in SetupInfo /\ z.failed = a.failed /\ ~z.code /\ ~z.info /\ ~z.lock /\ ~z.keep
  BY ZeroedStateType DEF ZeroedState, SetupInfo
<1>2. b = SynchronizeDisplayAndNFC(y, env) /\ b.failed = "none"
  BY DEF HandleAccessoryServerStop
<1> HIDE DEF b, z
<1>3. y \in SetupInfo /\ y.failed = a.failed /\ Blank(y) /\ ~y.nfc
  BY <1>1 DEF SetupInfo, Blank
<1> HIDE DEF y
<1>4. /\ y.failed = "none"
      /\ SameSecrets(y, b) /\ b.refresh = y.refresh /\ b.nfc = y.nfc
  BY <1>2, <1>3, SynchronizeSame
<1>5. Blank(b) /\ ~b.nfc
  BY <1>3, <1>4 DEF Blank, SameSecrets
<1>6. Sound(b, env.paired)
  BY <1>5, BlankSound
<1> QED
  BY <1>3, <1>4, <1>5, <1>6 DEF Blank, b

\* NFC pairing mode is over: n is the state with the mode's flag cleared.
LEMMA CompleteExitingSound ==
    ASSUME NEW a \in SetupInfo, NEW env \in EnvType, Sound(a, env.paired),
           CompleteExitingNFCPairingMode([a EXCEPT !.nfc = FALSE], env).failed
               = "none"
    PROVE  LET b == CompleteExitingNFCPairingMode([a EXCEPT !.nfc = FALSE], env)
           IN  KeepsCalm(a, b, env.paired) /\ ~b.nfc
<1> DEFINE n == [a EXCEPT !.nfc = FALSE]
           d == ClearSetupInfo(n)
           m == IF ~n.lock /\ ~n.refresh THEN d ELSE n
           b == CompleteExitingNFCPairingMode(n, env)
<1>1. b = SynchronizeDisplayAndNFC(m, env) /\ b.failed = "none"
  BY DEF CompleteExitingNFCPairingMode
<1> HIDE DEF b
<1>2. /\ n \in SetupInfo /\ SameSecrets(a, n) /\ ~n.nfc /\ n.refresh = a.refresh
      /\ n.failed = a.failed
  BY DEF SetupInfo, SameSecrets
<1> HIDE DEF n
<1>3. d \in SetupInfo /\ m \in SetupInfo
  BY <1>2, ClearSetupInfoType
<1>4. /\ m.failed = "none"
      /\ SameSecrets(m, b) /\ b.refresh = m.refresh /\ b.nfc = m.nfc
  <2> HIDE DEF m
  <2> QED
    BY <1>1, <1>3, SynchronizeSame
<1>5. CASE ~n.lock /\ ~n.refresh
  <2>1. m = d /\ d.failed = "none"
    BY <1>4, <1>5
  <2>2. Available(n) \/ Sound(n, env.paired)
    BY <1>2, <1>5 DEF Available, Sound, SameSecrets
  <2>3. n.failed = "none" /\ Blank(d) /\ d.nfc = n.nfc
    BY <1>2, <2>1, <2>2, ClearedBlank
  <2> HIDE DEF d, m
  <2>4. Blank(b) /\ ~b.nfc
    BY <1>2, <1>4, <2>1, <2>3 DEF Blank, SameSecrets
  <2>5. Sound(b, env.paired)
    BY <2>4, BlankSound
  <2>6. Calm(a, b)
    BY <1>2, <1>5 DEF Calm, SameSecrets
  <2>7. Updated(a, env.paired) => Updated(b, env.paired)
    <3>1. HasDisplay /\ ~env.paired => ~a.code
      BY <1>2, <1>5 DEF Sound, Available, SameSecrets
    <3> QED
      BY <2>4, <3>1 DEF Updated
  <2>8. ~b.lock
    BY <2>4 DEF Blank
  <2> QED
    BY <1>2, <2>3, <2>4, <2>5, <2>6, <2>7, <2>8 DEF KeepsCalm, KeepsSound, b, n
<1>6. CASE ~(~n.lock /\ ~n.refresh)
  <2>1. m = n
    BY <1>6
  <2> HIDE DEF m
  <2>2. /\ SameSecrets(a, b) /\ b.refresh = a.refresh /\ ~b.nfc
        /\ a.failed = "none"
    BY <1>2, <1>4, <2>1 DEF SameSecrets
  <2>3. a.lock \/ a.refresh
    BY <1>2, <1>6 DEF SameSecrets
  <2>4. Sound(b, env.paired)
    BY <2>2, <2>3 DEF Sound, SameSecrets, Available
  <2>5. Calm(a, b) /\ (Updated(a, env.paired) => Updated(b, env.paired))
    BY <2>2 DEF Calm, SameSecrets, Updated
  <2> QED
    BY <2>2, <2>4, <2>5 DEF KeepsCalm, KeepsSound, SameSecrets, b, n
<1> QED
  BY <1>5, <1>6

LEMMA ExitNFCPairingModeSound ==
    ASSUME NEW a \in SetupInfo, NEW env \in EnvType, Sound(a, env.paired),
           ExitNFCPairingMode(a, env).failed = "none"
    PROVE  LET b == ExitNFCPairingMode(a, env)
           IN  KeepsCalm(a, b, env.paired) /\ ~b.nfc
<1>1. CASE a.nfc
  BY <1>1, CompleteExitingSound DEF ExitNFCPairingMode
<1>2. CASE ~a.nfc
  BY <1>2 DEF ExitNFCPairingMode, KeepsCalm, KeepsSound, Calm
<1> QED
  BY <1>1, <1>2

LEMMA NFCPairingModeExpiredSound ==
    ASSUME NEW a \in SetupInfo, NEW env \in EnvType, Sound(a, env.paired),
           NFCPairingModeExpired(a, env).failed = "none"
    PROVE  KeepsCalm(a, NFCPairingModeExpired(a, env), env.paired)
BY CompleteExitingSound DEF NFCPairingModeExpired

\* The state update brings the setup info up to date.
LEMMA HandleAccessoryServerStateUpdateSound ==
    ASSUME NEW a \in SetupInfo, NEW env \in EnvType, Sound(a, env.paired),
           HandleAccessoryServerStateUpdate(a, env).failed = "none"
    PROVE  LET b == HandleAccessoryServerStateUpdate(a, env)
           IN  /\ KeepsCalm(a, b, env.paired)
               /\ Updated(b, env.paired)
<1> DEFINE b == HandleAccessoryServerStateUpdate(a, env)
<1>1. CASE ~env.paired /\ HasDisplay
  <2>1. b = PrepareSetupInfo(a, env, FALSE) /\ b.failed = "none"
    BY <1>1 DEF HandleAccessoryServerStateUpdate
  <2> HIDE DEF b
  <2>2. PrepareSetupInfo(a, env, FALSE).failed = "none"
    BY <2>1
  <2>3. /\ a.failed = "none"
        /\ Sound(b, FALSE) /\ Available(b)
        /\ b.lock = a.lock /\ b.nfc = a.nfc
        /\ b.keep = a.keep
        /\ Available(a) => b.info = a.info /\ b.served = a.served
    BY <1>1, <2>1, <2>2, PrepareUnlocked
  <2>4. Sound(b, env.paired) /\ Updated(b, env.paired)
    BY <1>1, <2>3 DEF Sound, Updated, Available
  <2>5. Calm(a, b)
    BY <2>3 DEF Calm, Sound
  <2> QED
    BY <2>3, <2>4, <2>5 DEF KeepsCalm, KeepsSound, b
<1>2. CASE ~env.paired /\ ~HasDisplay
  <2>1. b = SynchronizeDisplayAndNFC(a, env) /\ b.failed = "none"
    BY <1>2 DEF HandleAccessoryServerStateUpdate
  <2> HIDE DEF b
  <2>2. /\ a.failed = "none"
        /\ SameSecrets(a, b) /\ b.refresh = a.refresh /\ b.nfc = a.nfc
    BY <2>1, SynchronizeSame
  <2>3. Sound(b, env.paired) /\ Updated(b, env.paired)
    BY <1>2, <2>2 DEF Sound, Updated, Available, SameSecrets
  <2> QED
    BY <2>2, <2>3 DEF KeepsCalm, KeepsSound, Calm, SameSecrets, b
<1>3. CASE env.paired /\ HasNFC
  <2>1. b = ExitNFCPairingMode(a, env) /\ b.failed = "none"
    BY <1>3 DEF HandleAccessoryServerStateUpdate
  <2> HIDE DEF b
  <2>2. KeepsCalm(a, b, env.paired) /\ ~b.nfc
    BY <2>1, ExitNFCPairingModeSound
  <2> QED
    BY <1>3, <2>2 DEF Updated, b
<1>4. CASE env.paired /\ ~HasNFC
  <2>1. b = a
    BY <1>4 DEF HandleAccessoryServerStateUpdate
  <2> QED
    BY <1>4, <2>1 DEF KeepsCalm, KeepsSound, Calm, Updated, Sound
<1> QED
  BY <1>1, <1>2, <1>3, <1>4

LEMMA EnterNFCPairingModeSound ==
    ASSUME NEW a \in SetupInfo, NEW env \in EnvType, Sound(a, env.paired),
           HasNFC, EnterNFCPairingMode(a, env).failed = "none"
    PROVE  KeepsCalm(a, EnterNFCPairingMode(a, env), env.paired)
<1> DEFINE n == [a EXCEPT !.nfc = TRUE]
           b == EnterNFCPairingMode(a, env)
<1>1. /\ n \in SetupInfo /\ SameSecrets(a, n) /\ n.nfc /\ n.refresh = a.refresh
      /\ n.failed = a.failed
  BY DEF SetupInfo, SameSecrets
<1>2. Sound(n, env.paired) /\ (~env.paired /\ Updated(a, env.paired) =>
                                   Updated(n, env.paired))
  BY <1>1 DEF Sound, Updated, SameSecrets, Available
<1>3. /\ Available(a) \in BOOLEAN
      /\ a.nfc \in BOOLEAN
      /\ env.paired \in BOOLEAN
  BY DEF Available, SetupInfo, EnvType
<1>4. CASE env.paired
  BY <1>4 DEF EnterNFCPairingMode, KeepsCalm, KeepsSound, Calm
<1>5. CASE ~env.paired /\ ~Available(a)
  <2>1. b = PrepareSetupInfo(n, env, FALSE) /\ b.failed = "none"
    BY <1>5 DEF EnterNFCPairingMode
  <2> HIDE DEF b, n
  <2>2. HasDisplay \/ n.nfc
    BY <1>1
  <2>3. PrepareSetupInfo(n, env, FALSE).failed = "none"
    BY <2>1
  <2>6. /\ n.failed = "none"
        /\ Sound(b, FALSE) /\ Available(b) /\ b.lock = n.lock
    BY <1>1, <1>2, <2>1, <2>2, <2>3, PrepareUnlocked
  <2>4. Sound(b, env.paired) /\ Updated(b, env.paired)
    BY <1>5, <2>6 DEF Sound, Updated, Available
  <2>5. Calm(a, b)
    BY <1>5 DEF Calm, Sound
  <2> QED
    BY <1>1, <2>4, <2>5, <2>6 DEF KeepsCalm, KeepsSound, SameSecrets, b
<1>6. CASE ~env.paired /\ Available(a) /\ a.nfc
  <2>1. b = n
    BY <1>6 DEF EnterNFCPairingMode
  <2> QED
    BY <1>1, <1>2, <1>6, <2>1 DEF KeepsCalm, KeepsSound, Calm, SameSecrets
<1>7. CASE ~env.paired /\ Available(a) /\ ~a.nfc
  <2>1. b = SynchronizeDisplayAndNFC(n, env) /\ b.failed = "none"
    BY <1>7 DEF EnterNFCPairingMode
  <2> HIDE DEF b, n
  <2>2. /\ n.failed = "none"
        /\ SameSecrets(n, b) /\ b.refresh = n.refresh /\ b.nfc = n.nfc
    BY <1>1, <2>1, SynchronizeSame
  <2>3. Sound(b, env.paired) /\ (Updated(a, env.paired) => Updated(b, env.paired))
    BY <1>2, <1>7, <2>2 DEF Sound, Updated, SameSecrets, Available
  <2>4. Calm(a, b)
    BY <1>1, <2>2 DEF Calm, SameSecrets
  <2> QED
    BY <1>1, <2>2, <2>3, <2>4 DEF KeepsCalm, KeepsSound, SameSecrets, b
<1> QED
  BY <1>3, <1>4, <1>5, <1>6, <1>7

\* A new code replaces one that is being refreshed, which is never locked.
LEMMA RenewedSound ==
    ASSUME NEW a \in SetupInfo, NEW env \in EnvType, Sound(a, env.paired), a.refresh,
           NEW d \in SetupInfo, d.failed = "none" => a.failed = "none",
           Available(d), d.nfc = a.nfc,
           PrepareSetupInfo(ClearSetupInfo(d), env, FALSE).failed = "none"
    PROVE  KeepsCalm(a, PrepareSetupInfo(ClearSetupInfo(d), env, FALSE), env.paired)
<1> DEFINE c == ClearSetupInfo(d)
           b == PrepareSetupInfo(c, env, FALSE)
<1>1. c \in SetupInfo /\ b.failed = "none"
  BY ClearSetupInfoType
<1>2. c.failed = "none"
  BY <1>1, PrepareSticky
<1>3. d.failed = "none" /\ Blank(c) /\ c.nfc = d.nfc
  BY <1>2, ClearedBlank
<1> HIDE DEF c
<1>4. HasDisplay /\ ~env.paired /\ ~a.lock /\ (c.nfc => HasNFC)
  BY <1>3 DEF Sound
<1>5. HasDisplay \/ c.nfc
  BY <1>4
<1>6. Sound(c, env.paired) \/ (Blank(c) /\ (c.nfc => HasNFC))
  BY <1>3, <1>4
<1>10. PrepareSetupInfo(c, env, FALSE).failed = "none"
  BY <1>1
<1>7. Sound(b, FALSE) /\ Available(b) /\ b.lock = c.lock
  BY <1>1, <1>5, <1>6, <1>10, PrepareUnlocked
<1>11. ~b.lock
  BY <1>3, <1>7 DEF Blank
<1> HIDE DEF b
<1>8. Sound(b, env.paired) /\ Updated(b, env.paired)
  BY <1>4, <1>7 DEF Sound, Updated, Available
<1>9. Calm(a, b)
  BY <1>4 DEF Calm
<1> QED
  BY <1>3, <1>8, <1>9, <1>11 DEF KeepsCalm, KeepsSound, b, c

LEMMA DynamicSetupInfoExpiredSound ==
    ASSUME NEW a \in SetupInfo, NEW env \in EnvType, Sound(a, env.paired), a.refresh,
           DynamicSetupInfoExpired(a, env).failed = "none"
    PROVE  KeepsCalm(a, DynamicSetupInfoExpired(a, env), env.paired)
<1> DEFINE n == [a EXCEPT !.refresh = FALSE]
           holds == ~env.paired /\ ~a.lock /\ Available(a)
           d == Check(n, holds, "DynamicSetupInfoExpired")
<1>1. /\ n \in SetupInfo /\ SameSecrets(a, n) /\ n.nfc = a.nfc
      /\ n.failed = a.failed
  BY DEF SetupInfo, SameSecrets
<1>2. holds
  BY DEF Sound
<1>3. d = n
  BY <1>2 DEF Check
<1>4. HasDisplay
  BY DEF Sound
<1>5. DynamicSetupInfoExpired(a, env) = PrepareSetupInfo(ClearSetupInfo(d), env, FALSE)
  BY <1>4 DEF DynamicSetupInfoExpired
<1> HIDE DEF d, n, holds
<1>6. Available(d)
  BY <1>1, <1>2, <1>3 DEF Available, SameSecrets, holds
<1> QED
  BY <1>1, <1>3, <1>5, <1>6, RenewedSound

LEMMA RefreshSetupPayloadSound ==
    ASSUME NEW a \in SetupInfo, NEW env \in EnvType, Sound(a, env.paired),
           RefreshSetupPayload(a, env).failed = "none"
    PROVE  KeepsCalm(a, RefreshSetupPayload(a, env), env.paired)
<1>1. CASE a.refresh
  <2>1. Available(a)
    BY <1>1 DEF Sound
  <2>2. RefreshSetupPayload(a, env) = PrepareSetupInfo(ClearSetupInfo(a), env, FALSE)
    BY <1>1 DEF RefreshSetupPayload
  <2> QED
    BY <1>1, <2>1, <2>2, RenewedSound
<1>2. CASE ~a.refresh
  BY <1>2 DEF RefreshSetupPayload, KeepsCalm, KeepsSound, Calm
<1> QED
  BY <1>1, <1>2

\* A pairing that is made while the code is locked, or removed, leaves it sound.
LEMMA PairedSound ==
    ASSUME NEW a \in SetupInfo, Sound(a, FALSE), a.lock
    PROVE  Sound(a, TRUE)
BY DEF Sound

LEMMA UnpairedSound ==
    ASSUME NEW a \in SetupInfo, Sound(a, TRUE)
    PROVE  Sound(a, FALSE)
BY DEF Sound

LEMMA UnkeptSound ==
    ASSUME NEW a \in SetupInfo, NEW paired, Sound(a, paired)
    PROVE  LET b == [a EXCEPT !.keep = FALSE]
           IN  /\ b \in SetupInfo /\ b.failed = a.failed
               /\ Sound(b, paired)
               /\ Updated(a, paired) => Updated(b, paired)
<1> DEFINE b == [a EXCEPT !.keep = FALSE]
<1>1. /\ b \in SetupInfo /\ b.failed = a.failed
      /\ b.code = a.code /\ b.info = a.info /\ b.lock = a.lock
      /\ b.keep = FALSE /\ b.refresh = a.refresh /\ b.nfc = a.nfc
  BY DEF SetupInfo
<1> HIDE DEF b
<1>2. Sound(b, paired) /\ (Updated(a, paired) => Updated(b, paired))
  BY <1>1 DEF Sound, Updated, Available
<1> QED
  BY <1>1, <1>2 DEF b

LEMMA HandlePairingStopSticky ==
    ASSUME NEW a \in SetupInfo, NEW env \in EnvType, NEW keepSetupInfo \in BOOLEAN,
           HandlePairingStop(a, env, keepSetupInfo).failed = "none"
    PROVE  a.failed = "none"
<1> DEFINE c == Check(a, a.lock, "HandlePairingStop")
           k == [c EXCEPT !.keep = TRUE]
           d == ClearSetupInfo(a)
           e == SynchronizeDisplayAndNFC(d, env)
           m == IF keepSetupInfo THEN k ELSE e
<1>1. c \in SetupInfo /\ (c.failed = "none" => a.failed = "none")
  <2>1. a.lock \in BOOLEAN
    BY DEF SetupInfo
  <2> QED
    BY <2>1, CheckType, Passed DEF SetupChecks
<1>2. k \in SetupInfo /\ (k.failed = "none" => a.failed = "none")
  BY <1>1 DEF SetupInfo
<1>3. e \in SetupInfo /\ (e.failed = "none" => a.failed = "none")
  BY ClearSetupInfoType, SynchronizeType, SynchronizeSame, ClearSticky
<1> HIDE DEF e, k
<1>4. m \in SetupInfo /\ (m.failed = "none" => a.failed = "none")
  BY <1>2, <1>3
<1>5. HandlePairingStop(a, env, keepSetupInfo) =
         IF HasDisplay /\ ~env.paired THEN PrepareSetupInfo(m, env, FALSE) ELSE m
  BY DEF HandlePairingStop, k, e
<1> HIDE DEF m
<1>6. PrepareSetupInfo(m, env, FALSE).failed = "none" => m.failed = "none"
  BY <1>4, FALSE \in BOOLEAN, PrepareSticky
<1>7. CASE HasDisplay /\ ~env.paired
  <2>1. PrepareSetupInfo(m, env, FALSE).failed = "none"
    BY <1>5, <1>7
  <2> QED
    BY <1>4, <1>6, <2>1
<1>8. CASE ~(HasDisplay /\ ~env.paired)
  <2>1. m.failed = "none"
    BY <1>5, <1>8
  <2> QED
    BY <1>4, <2>1
<1> QED
  BY <1>7, <1>8

\* Setup info that has been served is served again.
LEMMA GetSetupInfoSame ==
    ASSUME NEW a, NEW env, NEW restorePrevious, a.info, a.keep => restorePrevious
    PROVE  GetSetupInfo(a, env, restorePrevious) = a
<1>1. Check(a, Available(a), "GetSetupInfo") = a
  BY DEF Check, Available
<1> QED
  BY <1>1 DEF GetSetupInfo

LEMMA NoSetupInfoSound ==
    ASSUME NEW paired
    PROVE  Sound(NoSetupInfo, paired)
BY DEF Sound, NoSetupInfo, Available

-----------------------------------------------------------------------------
(***************************************************************************)
(* What IInv says of the volatile state r and the store st, in the middle  *)
(* of a handler too: the sessions of S may hold the procedure before they  *)
(* have begun it.                                                          *)
(***************************************************************************)

StepsOwned(r, st, S) ==
    /\ r.current # NoSession => r.current \in r.open
    /\ \A s \in Sessions :
          /\ r.state[s] >= 2 => r.current = s
          /\ r.error[s] => r.current = s
          /\ r.current = s /\ s \notin S => r.state[s] >= 1
          /\ r.state[s] \in {2, 3} => st.attempts < MaxTries
          /\ r.state[s] \in {2, 3, 4} => st.owner = NoSession
          /\ r.state[s] = 4 => r.proof = "good"

RamOK(r, st, S) == r \in Ram /\ StepsOwned(r, st, S)

IInv ==
    /\ RamOK(ram, store, {})
    /\ store \in Store
    /\ store.attempts <= MaxTries
    /\ lifecycle \in ServerStates
    /\ engine \in ServerStates
    /\ updatePending \in BOOLEAN
    /\ handling \in Sessions \cup {NoSession}

LEMMA NoSessionApart == \A s \in Sessions : s # NoSession
BY SetupInfoAssumption

\* The invariant reads neither the setup info nor the flags.
LEMMA SameSteps ==
    ASSUME NEW r \in Ram, NEW q \in Ram, NEW st, NEW S,
           RamOK(r, st, S),
           q.open = r.open, q.state = r.state, q.error = r.error,
           q.current = r.current, q.proof = r.proof
    PROVE  RamOK(q, st, S)
BY DEF RamOK, StepsOwned

LEMMA WithSetup ==
    ASSUME NEW r \in Ram, NEW a \in SetupInfo, NEW st, NEW S, RamOK(r, st, S)
    PROVE  /\ [r EXCEPT !.setup = a] \in Ram
           /\ RamOK([r EXCEPT !.setup = a], st, S)
<1> DEFINE q == [r EXCEPT !.setup = a]
<1>1. q \in Ram
  BY DEF Ram
<1>2. /\ q.open = r.open /\ q.state = r.state /\ q.error = r.error
      /\ q.current = r.current /\ q.proof = r.proof
  BY DEF Ram
<1> HIDE DEF q
<1>3. RamOK(q, st, S)
  BY <1>1, <1>2, SameSteps
<1> QED
  BY <1>1, <1>3 DEF q

\* Recording a failed assertion changes nothing else.
LEMMA FailOK ==
    ASSUME NEW r \in Ram, NEW holds \in BOOLEAN, NEW name \in Checks,
           NEW st, NEW S, RamOK(r, st, S)
    PROVE  /\ RamOK(Fail(r, holds, name), st, S)
           /\ Fail(r, holds, name).state = r.state
           /\ Fail(r, holds, name).current = r.current
           /\ Fail(r, holds, name).open = r.open
           /\ Fail(r, holds, name).setup = r.setup
<1> DEFINE q == Fail(r, holds, name)
<1>1. q \in Ram
  BY DEF Fail, Ram
<1>2. /\ q.open = r.open /\ q.state = r.state /\ q.error = r.error
      /\ q.current = r.current /\ q.proof = r.proof /\ q.setup = r.setup
  BY DEF Fail, Ram
<1> HIDE DEF q
<1>3. RamOK(q, st, S)
  BY <1>1, <1>2, SameSteps
<1> QED
  BY <1>2, <1>3 DEF q

-----------------------------------------------------------------------------
(***************************************************************************)
(* Ending a procedure.                                                     *)
(***************************************************************************)

LEMMA StopPairingType ==
    ASSUME NEW r \in Ram, NEW env \in EnvType, NEW S \in SUBSET Sessions
    PROVE  LET q == StopPairing(r, env, S)
           IN  /\ q \in Ram
               /\ q.open = r.open /\ q.state = r.state /\ q.error = r.error
               /\ q.hap = r.hap /\ q.method = r.method
               /\ r.current \in S => q.current = NoSession
               /\ r.current \notin S => q = r
<1>1. HandlePairingStop(r.setup, env, r.keep) \in SetupInfo
  BY HandlePairingStopType DEF Ram
<1> DEFINE a == HandlePairingStop(r.setup, env, r.keep)
<1> HIDE DEF a
<1>2. CASE r.current \in S
  BY <1>1, <1>2 DEF StopPairing, Ram, Proofs, PairingFlags, a
<1>3. CASE r.current \notin S
  BY <1>3 DEF StopPairing
<1> QED
  BY <1>2, <1>3

LEMMA ForgetStepsType ==
    ASSUME NEW r \in Ram, NEW S \in SUBSET Sessions
    PROVE  LET q == ForgetSteps(r, S)
           IN  /\ q \in Ram
               /\ q.open = r.open /\ q.current = r.current /\ q.hap = r.hap
               /\ q.proof = r.proof
               /\ \A s \in Sessions :
                     /\ q.state[s] = IF s \in S THEN 0 ELSE r.state[s]
                     /\ q.error[s] => s \notin S /\ r.error[s]
<1> DEFINE state == [s \in Sessions |-> IF s \in S THEN 0 ELSE r.state[s]]
           method == [s \in Sessions |-> IF s \in S THEN "none" ELSE r.method[s]]
           error == [s \in Sessions |-> s \notin S /\ r.error[s]]
<1>1. state \in [Sessions -> 0 .. 5]
  BY DEF Ram
<1>2. method \in [Sessions -> Methods]
  BY DEF Ram, Methods
<1>3. error \in [Sessions -> BOOLEAN]
  BY DEF Ram
<1>4. ForgetSteps(r, S) =
         [[[r EXCEPT !.state = state] EXCEPT !.method = method]
              EXCEPT !.error = error]
  BY DEF ForgetSteps, Ram
<1>5. \A s \in Sessions :
         /\ state[s] = IF s \in S THEN 0 ELSE r.state[s]
         /\ error[s] => s \notin S /\ r.error[s]
  OBVIOUS
<1> HIDE DEF state, method, error
<1> QED
  BY ZenonT(60), <1>1, <1>2, <1>3, <1>4, <1>5 DEF Ram

\* Stopping the procedure of whichever session of S has it, and forgetting the
\* steps of S, leaves nobody of S past M1.
LEMMA StopAndForgetOK ==
    ASSUME NEW r \in Ram, NEW env \in EnvType, NEW S \in SUBSET Sessions,
           NEW st, NEW T, RamOK(r, st, T)
    PROVE  LET q == ForgetSteps(StopPairing(r, env, S), S)
           IN  /\ RamOK(q, st, T \ S)
               /\ q.open = r.open /\ q.hap = r.hap
               /\ r.current \in S => q.current = NoSession
               /\ r.current \notin S => q.current = r.current
               /\ \A s \in Sessions :
                     q.state[s] = IF s \in S THEN 0 ELSE r.state[s]
<1> DEFINE p == StopPairing(r, env, S)
           q == ForgetSteps(p, S)
<1>1. /\ p \in Ram
      /\ p.open = r.open /\ p.state = r.state /\ p.error = r.error
      /\ p.hap = r.hap
      /\ r.current \in S => p.current = NoSession
      /\ r.current \notin S => p = r
  BY StopPairingType
<1> HIDE DEF p
<1>2. /\ q \in Ram
      /\ q.open = p.open /\ q.current = p.current /\ q.hap = p.hap
      /\ q.proof = p.proof
      /\ \A s \in Sessions :
            /\ q.state[s] = IF s \in S THEN 0 ELSE p.state[s]
            /\ q.error[s] => s \notin S /\ p.error[s]
  BY <1>1, ForgetStepsType
<1> HIDE DEF q
<1>3. StepsOwned(q, st, T \ S)
  <2>1. ASSUME NEW s \in S
        PROVE  q.state[s] = 0 /\ ~q.error[s] /\ q.current # s
    BY <1>1, <1>2, NoSessionApart
  <2>2. ASSUME NEW s \in Sessions \ S, r.current \in S
        PROVE  q.state[s] < 2 /\ ~q.error[s] /\ q.current = NoSession
    BY <1>1, <1>2, <2>2 DEF RamOK, StepsOwned, Ram
  <2>3. ASSUME NEW s \in Sessions \ S, r.current \notin S
        PROVE  /\ q.state[s] = r.state[s] /\ (q.error[s] => r.error[s])
               /\ q.current = r.current /\ q.proof = r.proof
    BY <1>1, <1>2, <2>3
  <2>4. q.current # NoSession => q.current \in q.open
    BY <1>1, <1>2 DEF RamOK, StepsOwned
  <2>5. ASSUME NEW s \in Sessions
        PROVE  /\ q.state[s] >= 2 => q.current = s
               /\ q.error[s] => q.current = s
               /\ q.current = s /\ s \notin T \ S => q.state[s] >= 1
               /\ q.state[s] \in {2, 3} => st.attempts < MaxTries
               /\ q.state[s] \in {2, 3, 4} => st.owner = NoSession
               /\ q.state[s] = 4 => q.proof = "good"
    <3>1. CASE s \in S
      BY <2>1, <3>1
    <3>2. CASE s \notin S /\ r.current \in S
      <4>1. q.state[s] \in 0 .. 5
        BY <1>2 DEF Ram
      <4> QED
        BY <2>2, <3>2, <4>1, NoSessionApart
    <3>3. CASE s \notin S /\ r.current \notin S
      BY <2>3, <3>3 DEF RamOK, StepsOwned
    <3> QED
      BY <3>1, <3>2, <3>3
  <2> QED
    BY <2>4, <2>5 DEF StepsOwned
<1> QED
  BY <1>1, <1>2, <1>3 DEF RamOK, p, q

LEMMA ResetForSessionOK ==
    ASSUME NEW r \in Ram, NEW env \in EnvType, NEW s \in Sessions,
           NEW st, NEW T, RamOK(r, st, T)
    PROVE  LET q == ResetForSession(r, env, s)
           IN  /\ RamOK(q, st, T \ {s})
               /\ q.open = r.open
               /\ r.current = s => q.current = NoSession
               /\ r.current # s => q.current = r.current
               /\ q.state[s] = 0
               /\ \A t \in Sessions \ {s} : q.state[t] = r.state[t]
BY SMTT(30), StopAndForgetOK, {s} \in SUBSET Sessions DEF ResetForSession

LEMMA ReleaseSessionsOK ==
    ASSUME NEW r \in Ram, NEW env \in EnvType, NEW S \in SUBSET Sessions,
           NEW st, NEW T, RamOK(r, st, T)
    PROVE  LET q == ReleaseSessions(r, env, S)
           IN  /\ RamOK(q, st, T)
               /\ q.open = r.open \ S
               /\ \A t \in Sessions : q.state[t] \in {0, r.state[t]}
               /\ q.current \in {r.current, NoSession}
<1> DEFINE p == ForgetSteps(StopPairing(r, env, S), S)
           hap == [s \in Sessions |-> IF s \in S THEN "none" ELSE p.hap[s]]
           q == ReleaseSessions(r, env, S)
<1>1. /\ RamOK(p, st, T \ S)
      /\ p.open = r.open
      /\ r.current \in S => p.current = NoSession
      /\ r.current \notin S => p.current = r.current
      /\ \A s \in Sessions :
            p.state[s] = IF s \in S THEN 0 ELSE r.state[s]
  BY StopAndForgetOK
<1>2. p \in Ram
  BY <1>1 DEF RamOK
<1>3. q = [[p EXCEPT !.hap = hap] EXCEPT !.open = p.open \ S]
  BY <1>2 DEF ReleaseSessions, Ram
<1> HIDE DEF p
<1>4. hap \in [Sessions -> {"none", "transient", "verified"}]
  BY <1>2 DEF Ram
<1> HIDE DEF hap, q
<1>5. /\ q \in Ram
      /\ q.open = p.open \ S /\ q.state = p.state /\ q.error = p.error
      /\ q.current = p.current /\ q.proof = p.proof
  BY <1>2, <1>3, <1>4 DEF Ram
<1>6. StepsOwned(q, st, T)
  BY <1>1, <1>5, NoSessionApart DEF RamOK, StepsOwned
<1> QED
  BY <1>1, <1>5, <1>6 DEF RamOK, q

LEMMA CheckTransientOK ==
    ASSUME NEW r \in Ram, NEW env \in EnvType, NEW S \in SUBSET Sessions,
           NEW st, NEW T, RamOK(r, st, T)
    PROVE  /\ RamOK(CheckTransient(r, env, S), st, T)
           /\ CheckTransient(r, env, S).state = r.state
           /\ CheckTransient(r, env, S).current = r.current
           /\ CheckTransient(r, env, S).open = r.open
<1> DEFINE holds == ~env.paired \/ \A s \in S : r.hap[s] # "transient"
<1>1. holds \in BOOLEAN
  OBVIOUS
<1> HIDE DEF holds
<1>2. /\ RamOK(Fail(r, holds, "HAPSessionIsTransient"), st, T)
      /\ Fail(r, holds, "HAPSessionIsTransient").state = r.state
      /\ Fail(r, holds, "HAPSessionIsTransient").current = r.current
      /\ Fail(r, holds, "HAPSessionIsTransient").open = r.open
  BY <1>1, FailOK DEF Checks
<1> QED
  BY <1>2 DEF CheckTransient, holds

LEMMA CloseTransientSessionsOK ==
    ASSUME NEW r \in Ram, NEW env \in EnvType, NEW s \in Sessions,
           NEW st, NEW T, RamOK(r, st, T)
    PROVE  LET q == CloseTransientSessions(r, env, s)
           IN  /\ RamOK(q, st, T)
               /\ s \in r.open => s \in q.open
               /\ \A t \in Sessions : q.state[t] \in {0, r.state[t]}
<1> DEFINE others == IF s \in IPSessions THEN IPSessions \ {s} ELSE {}
           S == {t \in others : r.hap[t] = "transient"}
           p == CheckTransient(r, env, others)
<1>1. others \in SUBSET Sessions /\ S \in SUBSET Sessions /\ s \notin S
  BY PairSetupAssumption
<1> HIDE DEF others
<1>2. RamOK(p, st, T) /\ p.state = r.state /\ p.open = r.open
  BY <1>1, CheckTransientOK
<1>3. p \in Ram
  BY <1>2 DEF RamOK
<1> HIDE DEF p, S
<1>4. /\ RamOK(ReleaseSessions(p, env, S), st, T)
      /\ ReleaseSessions(p, env, S).open = p.open \ S
      /\ \A t \in Sessions :
            ReleaseSessions(p, env, S).state[t] \in {0, p.state[t]}
  BY <1>1, <1>2, <1>3, ReleaseSessionsOK
<1> QED
  BY <1>1, <1>2, <1>4 DEF CloseTransientSessions, p, S, others

LEMMA CloseUnsecuredSessionsOK ==
    ASSUME NEW r \in Ram, NEW env \in EnvType, NEW s \in Sessions, NEW writing,
           NEW st, NEW T, RamOK(r, st, T)
    PROVE  LET q == CloseUnsecuredSessions(r, env, s, writing)
           IN  /\ RamOK(q, st, T)
               /\ \A t \in Sessions : q.state[t] \in {0, r.state[t]}
<1> DEFINE others == IF s \in IPSessions THEN IPSessions \ {s} ELSE {}
           S == {t \in others \ writing : r.hap[t] = "verified" /\ ~env.paired}
           p == CheckTransient(r, env, others)
           q == ReleaseSessions(p, env, S)
<1>1. others \in SUBSET Sessions /\ S \in SUBSET Sessions
  BY PairSetupAssumption
<1> HIDE DEF others
<1>2. RamOK(p, st, T) /\ p.state = r.state
  BY <1>1, CheckTransientOK
<1>3. p \in Ram
  BY <1>2 DEF RamOK
<1> HIDE DEF p, S
<1>4. /\ RamOK(q, st, T)
      /\ \A t \in Sessions : q.state[t] \in {0, p.state[t]}
  BY <1>1, <1>2, <1>3, ReleaseSessionsOK
<1> QED
  BY <1>2, <1>4 DEF CloseUnsecuredSessions, q, p, S, others

-----------------------------------------------------------------------------
(***************************************************************************)
(* The state a request finds the procedure in.                             *)
(***************************************************************************)

LEMMA KeepFlagOK ==
    ASSUME NEW r \in Ram, NEW st, NEW T, RamOK(r, st, T)
    PROVE  LET q == [r EXCEPT !.keep = TRUE]
           IN  /\ RamOK(q, st, T)
               /\ q.open = r.open /\ q.state = r.state /\ q.current = r.current
<1> DEFINE q == [r EXCEPT !.keep = TRUE]
<1>1. /\ q \in Ram
      /\ q.open = r.open /\ q.state = r.state /\ q.error = r.error
      /\ q.current = r.current /\ q.proof = r.proof
  BY DEF Ram
<1> HIDE DEF q
<1>2. RamOK(q, st, T)
  BY <1>1, SameSteps
<1> QED
  BY <1>1, <1>2 DEF q

LEMMA UnkeptOK ==
    ASSUME NEW r \in Ram, NEW st, NEW T, RamOK(r, st, T)
    PROVE  LET q == [r EXCEPT !.setup.keep = FALSE]
           IN  /\ RamOK(q, st, T)
               /\ q.open = r.open /\ q.state = r.state /\ q.current = r.current
<1> DEFINE q == [r EXCEPT !.setup.keep = FALSE]
           a == [r.setup EXCEPT !.keep = FALSE]
<1>1. a \in SetupInfo
  BY DEF Ram, SetupInfo
<1>2. q = [r EXCEPT !.setup = a]
  BY DEF Ram
<1> HIDE DEF a, q
<1>3. /\ q \in Ram
      /\ q.open = r.open /\ q.state = r.state /\ q.error = r.error
      /\ q.current = r.current /\ q.proof = r.proof
  BY <1>1, <1>2 DEF Ram
<1>4. RamOK(q, st, T)
  BY <1>3, SameSteps
<1> QED
  BY <1>3, <1>4 DEF q

LEMMA AbandonOK ==
    ASSUME NEW r \in Ram, NEW env \in EnvType, NEW s \in Sessions,
           NEW st, NEW T, RamOK(r, st, T)
    PROVE  LET q == Abandon(r, env, s)
           IN  /\ RamOK(q, st, T)
               /\ q.open = r.open
               /\ \A t \in Sessions : q.state[t] \in {0, r.state[t]}
               /\ q.current \in {r.current, NoSession}
<1> DEFINE k == [r EXCEPT !.keep = TRUE]
           p == ResetForSession(k, env, s)
           q == [p EXCEPT !.setup.keep = FALSE]
<1>1. /\ RamOK(k, st, T)
      /\ k.open = r.open /\ k.state = r.state /\ k.current = r.current
  BY KeepFlagOK
<1>2. k \in Ram
  BY <1>1 DEF RamOK
<1> HIDE DEF k
<1>3. /\ RamOK(p, st, T \ {s})
      /\ p.open = k.open
      /\ k.current = s => p.current = NoSession
      /\ k.current # s => p.current = k.current
      /\ p.state[s] = 0
      /\ \A t \in Sessions \ {s} : p.state[t] = k.state[t]
  BY <1>1, <1>2, ResetForSessionOK
<1> HIDE DEF p
<1>4. RamOK(p, st, T)
  BY <1>3 DEF RamOK, StepsOwned
<1>5. /\ RamOK(q, st, T)
      /\ q.open = p.open /\ q.state = p.state /\ q.current = p.current
  BY <1>4, UnkeptOK DEF RamOK
<1> HIDE DEF q
<1>6. \A t \in Sessions : q.state[t] \in {0, r.state[t]}
  BY <1>1, <1>3, <1>5
<1> QED
  BY <1>1, <1>3, <1>5, <1>6 DEF Abandon, q, p, k

LEMMA RestartOK ==
    ASSUME NEW r \in Ram, NEW env \in EnvType, NEW s \in Sessions, NEW request,
           NEW st, NEW T, RamOK(r, st, T)
    PROVE  LET q == Restart(r, env, s, request)
           IN  /\ RamOK(q, st, T)
               /\ q.open = r.open
               /\ \A t \in Sessions : q.state[t] \in {0, r.state[t]}
BY AbandonOK DEF Restart

LEMMA TakeOverOK ==
    ASSUME NEW r \in Ram, NEW env \in EnvType, NEW s \in Sessions, NEW timedOut,
           NEW st, NEW T, RamOK(r, st, T)
    PROVE  LET q == TakeOver(r, env, s, timedOut)
           IN  /\ RamOK(q, st, T)
               /\ q.open = r.open
               /\ \A t \in Sessions : q.state[t] \in {0, r.state[t]}
<1>1. CASE timedOut /\ r.current \notin {s, NoSession}
  <2>1. PICK c \in Sessions : c = r.current
    BY <1>1 DEF Ram
  <2>2. TakeOver(r, env, s, timedOut) = Abandon(r, env, c)
    BY <1>1, <2>1 DEF TakeOver
  <2> QED
    BY <2>1, <2>2, AbandonOK
<1>2. CASE ~(timedOut /\ r.current \notin {s, NoSession})
  BY <1>2 DEF TakeOver
<1> QED
  BY <1>1, <1>2

LEMMA ClaimOK ==
    ASSUME NEW r \in Ram, NEW env \in EnvType, NEW s \in Sessions, NEW timedOut,
           NEW st, RamOK(r, st, {}), s \in r.open
    PROVE  LET q == Claim(r, env, s, timedOut)
           IN  /\ RamOK(q, st, {s})
               /\ s \in q.open
               /\ \A t \in Sessions : q.state[t] \in {0, r.state[t]}
<1> DEFINE p == TakeOver(r, env, s, timedOut)
           a == HandlePairingStart(p.setup, env)
           q == [[p EXCEPT !.current = s] EXCEPT !.setup = a]
<1>1. /\ RamOK(p, st, {})
      /\ p.open = r.open
      /\ \A t \in Sessions : p.state[t] \in {0, r.state[t]}
  BY TakeOverOK
<1> HIDE DEF p
<1>2. p \in Ram
  BY <1>1 DEF RamOK
<1>3. a \in SetupInfo
  BY <1>2, HandlePairingStartType DEF Ram
<1> HIDE DEF a
<1>4. CASE ~(r.state[s] = 0 /\ ~env.paired)
  BY <1>4 DEF Claim, RamOK, StepsOwned
<1>5. CASE r.state[s] = 0 /\ ~env.paired /\ p.current # NoSession
  <2>1. Claim(r, env, s, timedOut) = p
    BY <1>5 DEF Claim, p
  <2> QED
    BY <1>1, <2>1 DEF RamOK, StepsOwned
<1>6. CASE r.state[s] = 0 /\ ~env.paired /\ p.current = NoSession
  <2>1. Claim(r, env, s, timedOut) = q
    BY <1>2, <1>6 DEF Claim, p, a, Ram
  <2> HIDE DEF q
  <2>2. /\ q \in Ram
        /\ q.open = p.open /\ q.state = p.state /\ q.error = p.error
        /\ q.current = s /\ q.proof = p.proof
    BY <1>2, <1>3 DEF Ram, q
  <2>3. StepsOwned(q, st, {s})
    BY <1>1, <1>6, <2>2, NoSessionApart DEF RamOK, StepsOwned
  <2> QED
    BY <1>1, <2>1, <2>2, <2>3 DEF RamOK
<1> QED
  BY <1>4, <1>5, <1>6

LEMMA BeginWriteOK ==
    ASSUME NEW r \in Ram, NEW env \in EnvType, NEW s \in Sessions,
           NEW request, NEW timedOut,
           NEW st, RamOK(r, st, {}), s \in r.open
    PROVE  LET q == BeginWrite(r, env, s, request, timedOut)
           IN  /\ RamOK(q, st, {s})
               /\ s \in q.open
               /\ \A t \in Sessions : q.state[t] \in {0, r.state[t]}
<1> DEFINE c == CloseTransientSessions(r, env, s)
           p == Restart(c, env, s, request)
           q == Claim(p, env, s, timedOut)
<1>1. /\ RamOK(c, st, {})
      /\ s \in c.open
      /\ \A t \in Sessions : c.state[t] \in {0, r.state[t]}
  BY CloseTransientSessionsOK
<1> HIDE DEF c
<1>2. /\ RamOK(p, st, {})
      /\ p.open = c.open
      /\ \A t \in Sessions : p.state[t] \in {0, c.state[t]}
  BY <1>1, RestartOK DEF RamOK
<1> HIDE DEF p
<1>3. /\ RamOK(q, st, {s})
      /\ s \in q.open
      /\ \A t \in Sessions : q.state[t] \in {0, p.state[t]}
  BY <1>1, <1>2, ClaimOK DEF RamOK
<1> HIDE DEF q
<1>4. \A t \in Sessions : q.state[t] \in {0, r.state[t]}
  BY <1>1, <1>2, <1>3
<1> QED
  BY <1>3, <1>4 DEF BeginWrite, q, p, c

-----------------------------------------------------------------------------
(***************************************************************************)
(* The steps of a procedure.                                               *)
(***************************************************************************)

LEMMA InvInit == Init => IInv
<1> SUFFICES ASSUME Init PROVE IInv
  OBVIOUS
<1>1. NoSetupInfo \in SetupInfo
  BY DEF NoSetupInfo, SetupInfo, Payloads
<1>2. ZeroedRam \in Ram
  BY <1>1 DEF ZeroedRam, Ram, Methods, Proofs
<1>3. StepsOwned(ram, store, {})
  BY SetupInfoAssumption DEF Init, ZeroedRam, StepsOwned
<1>4. store \in Store /\ store.attempts <= MaxTries
  BY PairSetupAssumption DEF Init, Store
<1> QED
  BY <1>2, <1>3, <1>4 DEF Init, IInv, RamOK, ServerStates

LEMMA EnvInType == IInv => Env \in EnvType
BY DEF IInv, Env, EnvType, Paired

\* Session s advances, and the store becomes st2: only the session that holds
\* the procedure may change it.
LEMMA StepOK ==
    ASSUME NEW r \in Ram, NEW q \in Ram, NEW st, NEW st2, NEW s \in Sessions,
           RamOK(r, st, {s}), s \in r.open,
           q.open = r.open, q.current = r.current,
           \A t \in Sessions \ {s} : q.state[t] = r.state[t],
           \A t \in Sessions : q.error[t] => r.error[t] \/ r.current = t,
           q.state[s] >= 1,
           q.state[s] >= 2 => r.current = s,
           q.state[s] \in {2, 3} => st2.attempts < MaxTries,
           q.state[s] \in {2, 3, 4} => st2.owner = NoSession,
           q.state[s] = 4 => q.proof = "good",
           st2 = st \/ r.current = s,
           q.proof = r.proof \/ r.current = s
    PROVE  RamOK(q, st2, {})
<1>1. \A t \in Sessions : r.state[t] \in 0 .. 5
  BY DEF Ram
<1>2. q.current # NoSession => q.current \in q.open
  BY DEF RamOK, StepsOwned
<1>3. ASSUME NEW t \in Sessions
      PROVE  /\ q.state[t] >= 2 => q.current = t
             /\ q.error[t] => q.current = t
             /\ q.current = t => q.state[t] >= 1
             /\ q.state[t] \in {2, 3} => st2.attempts < MaxTries
             /\ q.state[t] \in {2, 3, 4} => st2.owner = NoSession
             /\ q.state[t] = 4 => q.proof = "good"
  <2>1. q.error[t] => q.current = t
    BY DEF RamOK, StepsOwned
  <2>2. CASE t = s
    BY <1>1, <2>1, <2>2
  <2>3. CASE t # s /\ r.current = s
    <3>1. q.state[t] = r.state[t] /\ r.state[t] \in 0 .. 5 /\ ~(r.state[t] >= 2)
      BY <1>1, <2>3 DEF RamOK, StepsOwned
    <3> QED
      BY <2>1, <2>3, <3>1
  <2>4. CASE t # s /\ r.current # s
    <3>1. q.state[t] = r.state[t] /\ st2 = st /\ q.proof = r.proof
      BY <1>1, <2>4
    <3> QED
      BY <2>1, <2>4, <3>1 DEF RamOK, StepsOwned
  <2> QED
    BY <2>2, <2>3, <2>4
<1> QED
  BY <1>2, <1>3 DEF RamOK, StepsOwned

LEMMA StepNumbers == 2 \in 0 .. 5 /\ 4 \in 0 .. 5 /\ 5 \in 0 .. 5
OBVIOUS

LEMMA AdvanceOK ==
    ASSUME NEW r \in Ram, NEW s \in Sessions, NEW n \in 0 .. 5
    PROVE  LET q == Advance(r, s, n)
           IN  /\ q \in Ram
               /\ q.open = r.open /\ q.current = r.current
               /\ q.error = r.error /\ q.proof = r.proof /\ q.setup = r.setup
               /\ q.method = r.method
               /\ q.state[s] = n
               /\ \A t \in Sessions \ {s} : q.state[t] = r.state[t]
<1> DEFINE state == [r.state EXCEPT ![s] = n]
           q == Advance(r, s, n)
<1>1. /\ state \in [Sessions -> 0 .. 5]
      /\ state[s] = n
      /\ \A t \in Sessions \ {s} : state[t] = r.state[t]
  BY DEF Ram
<1>2. q = [r EXCEPT !.state = state]
  BY DEF Ram, Advance
<1> HIDE DEF state, q
<1>3. q \in Ram /\ q.state = state
  BY <1>1, <1>2 DEF Ram
<1>4. /\ q.open = r.open /\ q.current = r.current
      /\ q.error = r.error /\ q.proof = r.proof /\ q.setup = r.setup
      /\ q.method = r.method
  BY <1>2 DEF Ram
<1> QED
  BY <1>1, <1>3, <1>4 DEF q

LEMMA LastStepOK ==
    ASSUME NEW r \in Ram, NEW q \in Ram, NEW st, NEW st2, NEW s \in Sessions,
           RamOK(r, st, {s}), s \in r.open, r.current = s,
           q.open = r.open, q.current = r.current,
           \A t \in Sessions \ {s} : q.state[t] = r.state[t],
           \A t \in Sessions \ {s} : q.error[t] => r.error[t],
           q.state[s] = 5
    PROVE  RamOK(q, st2, {})
<1>1. /\ q.state[s] >= 1 /\ q.state[s] # 4
      /\ q.state[s] \notin {2, 3} /\ q.state[s] \notin {2, 3, 4}
  OBVIOUS
<1>2. \A t \in Sessions : q.error[t] => r.error[t] \/ r.current = t
  OBVIOUS
<1> QED
  BY <1>1, <1>2, StepOK

\* With no session past M1 the store may change.
LEMMA StoreOK ==
    ASSUME NEW q \in Ram, NEW st, NEW st2, RamOK(q, st, {}),
           \A t \in Sessions : q.state[t] < 2
    PROVE  RamOK(q, st2, {})
BY DEF RamOK, StepsOwned

LEMMA InvWriteM1 ==
    ASSUME IInv, NEW s \in Sessions, NEW method \in Methods \ {"none"},
           NEW flags \in SUBSET PairingFlags, NEW timedOut \in BOOLEAN,
           WriteM1(s, method, flags, timedOut)
    PROVE  IInv'
<1> DEFINE r == BeginWrite(ram, Env, s, "M1", timedOut)
<1>1. /\ RamOK(r, store, {s})
      /\ s \in r.open
  BY EnvInType, BeginWriteOK DEF WriteM1, Accessible, IInv, RamOK
<1>2. r.state[s] = 0 /\ ram' = ProcessM1(r, s, method, flags)
  BY DEF WriteM1, Expected
<1> HIDE DEF r
<1>3. r \in Ram
  BY <1>1 DEF RamOK
<1> DEFINE q == Advance(r, s, 1)
<1>4. /\ q \in Ram
      /\ q.open = r.open /\ q.current = r.current
      /\ q.error = r.error /\ q.proof = r.proof
      /\ q.state[s] = 1
      /\ \A t \in Sessions \ {s} : q.state[t] = r.state[t]
  BY <1>3, AdvanceOK
<1> DEFINE methods == [q.method EXCEPT ![s] = method]
           present == IF r.current = s THEN flags ELSE q.flags
<1>7. ram' = [q EXCEPT !.method = methods, !.flags = present]
  BY <1>2, <1>3 DEF ProcessM1, Ram
<1> HIDE DEF q
<1>8. methods \in [Sessions -> Methods] /\ present \in SUBSET PairingFlags
  BY <1>4 DEF Ram
<1> HIDE DEF methods, present
<1>9. /\ ram' \in Ram
      /\ ram'.open = r.open /\ ram'.current = r.current
      /\ ram'.error = r.error /\ ram'.proof = r.proof
      /\ ram'.state[s] = 1
      /\ \A t \in Sessions \ {s} : ram'.state[t] = r.state[t]
  BY <1>4, <1>7, <1>8 DEF Ram
<1>5. RamOK(ram', store, {})
  BY <1>1, <1>3, <1>9, StepOK
<1>6. /\ UNCHANGED <<store, lifecycle, engine, updatePending>>
      /\ handling' \in Sessions \cup {NoSession}
  BY DEF WriteM1, Respond
<1> QED
  BY <1>5, <1>6 DEF IInv

LEMMA InvWriteM3 ==
    ASSUME IInv, NEW s \in Sessions, NEW proof \in Proofs \ {"none"},
           WriteM3(s, proof)
    PROVE  IInv'
<1> DEFINE r == BeginWrite(ram, Env, s, "M3", FALSE)
<1>1. /\ RamOK(r, store, {s})
      /\ s \in r.open
  BY EnvInType, BeginWriteOK DEF WriteM3, Accessible, IInv, RamOK
<1>2. /\ r.state[s] = 2
      /\ ram' = [Advance(r, s, 3) EXCEPT !.proof = proof]
  BY DEF WriteM3, Expected
<1> HIDE DEF r
<1>3. r \in Ram
  BY <1>1 DEF RamOK
<1> DEFINE q == Advance(r, s, 3)
<1>4. /\ q \in Ram
      /\ q.open = r.open /\ q.current = r.current
      /\ q.error = r.error /\ q.proof = r.proof
      /\ q.state[s] = 3
      /\ \A t \in Sessions \ {s} : q.state[t] = r.state[t]
  BY <1>3, AdvanceOK
<1>8. ram' = [q EXCEPT !.proof = proof]
  BY <1>2
<1> HIDE DEF q
<1>9. /\ ram' \in Ram
      /\ ram'.open = r.open /\ ram'.current = r.current
      /\ ram'.error = r.error
      /\ ram'.state[s] = 3
      /\ \A t \in Sessions \ {s} : ram'.state[t] = r.state[t]
  BY <1>4, <1>8 DEF Ram
<1>5. /\ r.current = s
      /\ store.attempts < MaxTries
      /\ store.owner = NoSession
  BY <1>1, <1>2 DEF RamOK, StepsOwned
<1>6. RamOK(ram', store, {})
  BY <1>1, <1>3, <1>5, <1>9, StepOK
<1>7. /\ UNCHANGED <<store, lifecycle, engine, updatePending>>
      /\ handling' \in Sessions \cup {NoSession}
  BY DEF WriteM3, Respond
<1> QED
  BY <1>6, <1>7 DEF IInv

\* What a write of M5 finds: session s has proved the setup code, and holds
\* the procedure.
LEMMA BeginM5 ==
    ASSUME IInv, NEW s \in Sessions, Accessible(s),
           BeginWrite(ram, Env, s, "M5", FALSE).state[s] = 4
    PROVE  LET r == BeginWrite(ram, Env, s, "M5", FALSE)
               q == Advance(r, s, 5)
           IN  /\ r \in Ram /\ RamOK(r, store, {s}) /\ s \in r.open
               /\ r.current = s
               /\ store.owner = NoSession
               /\ ram.current = s /\ ram.state[s] = 4 /\ ram.proof = "good"
               /\ q \in Ram
               /\ q.open = r.open /\ q.current = r.current
               /\ q.error = r.error /\ q.proof = r.proof
               /\ q.state[s] = 5
               /\ \A t \in Sessions \ {s} : q.state[t] = r.state[t]
<1> DEFINE r == BeginWrite(ram, Env, s, "M5", FALSE)
           q == Advance(r, s, 5)
<1>1. /\ RamOK(r, store, {s})
      /\ s \in r.open
      /\ \A t \in Sessions : r.state[t] \in {0, ram.state[t]}
  BY EnvInType, BeginWriteOK DEF Accessible, IInv, RamOK
<1>2. r.state[s] = 4
  OBVIOUS
<1> HIDE DEF r
<1>3. r \in Ram /\ r.current = s /\ store.owner = NoSession
  BY <1>1, <1>2 DEF RamOK, StepsOwned
<1>4. ram.state[s] = 4
  BY <1>1, <1>2
<1>5. ram.current = s /\ ram.proof = "good"
  BY <1>4 DEF IInv, RamOK, StepsOwned
<1>6. /\ q \in Ram
      /\ q.open = r.open /\ q.current = r.current
      /\ q.error = r.error /\ q.proof = r.proof
      /\ q.state[s] = 5
      /\ \A t \in Sessions \ {s} : q.state[t] = r.state[t]
  <2>1. 5 \in 0 .. 5
    OBVIOUS
  <2>2. \A t \in Sessions \ {s} : q.state[t] = r.state[t]
    BY <1>3, <2>1, AdvanceOK
  <2>3. q \in Ram /\ q.state[s] = 5
    BY <1>3, <2>1, AdvanceOK
  <2>4. q.open = r.open /\ q.current = r.current
    BY <1>3, <2>1, AdvanceOK
  <2>5. q.error = r.error /\ q.proof = r.proof
    BY <1>3, <2>1, AdvanceOK
  <2> QED
    BY <2>2, <2>3, <2>4, <2>5
<1> QED
  BY <1>1, <1>3, <1>4, <1>5, <1>6 DEF q, r

LEMMA InvWriteM5 ==
    ASSUME IInv, NEW s \in Sessions, WriteM5(s)
    PROVE  IInv'
<1> DEFINE r == BeginWrite(ram, Env, s, "M5", FALSE)
           q == Advance(r, s, 5)
<1>1. Accessible(s) /\ r.state[s] = 4 /\ ram' = q
  BY DEF WriteM5, Expected
<1>2. /\ r \in Ram /\ RamOK(r, store, {s}) /\ s \in r.open
      /\ r.current = s
      /\ q \in Ram
      /\ q.open = r.open /\ q.current = r.current
      /\ q.error = r.error /\ q.proof = r.proof
      /\ q.state[s] = 5
      /\ \A t \in Sessions \ {s} : q.state[t] = r.state[t]
  BY <1>1, BeginM5
<1> HIDE DEF r, q
<1>3. RamOK(q, store', {})
  BY <1>2, LastStepOK
<1>4. /\ store' = [store EXCEPT !.owner = s]
      /\ updatePending' \in BOOLEAN
      /\ UNCHANGED <<lifecycle, engine>>
      /\ handling' \in Sessions \cup {NoSession}
  BY DEF WriteM5, Respond, IInv, Paired
<1>5. store' \in Store /\ store'.attempts <= MaxTries
  BY <1>4 DEF IInv, Store
<1> QED
  BY <1>1, <1>3, <1>4, <1>5 DEF IInv

LEMMA InvWriteForgedM5 ==
    ASSUME IInv, NEW s \in Sessions, WriteForgedM5(s)
    PROVE  IInv'
<1> DEFINE r == BeginWrite(ram, Env, s, "M5", FALSE)
           q == Advance(r, s, 5)
<1>1. Accessible(s) /\ r.state[s] = 4 /\ ram' = [q EXCEPT !.error[s] = TRUE]
  BY DEF WriteForgedM5, Expected
<1>2. /\ r \in Ram /\ RamOK(r, store, {s}) /\ s \in r.open
      /\ r.current = s
      /\ q \in Ram
      /\ q.open = r.open /\ q.current = r.current
      /\ q.error = r.error /\ q.proof = r.proof
      /\ q.state[s] = 5
      /\ \A t \in Sessions \ {s} : q.state[t] = r.state[t]
  BY <1>1, BeginM5
<1> HIDE DEF r, q
<1> DEFINE error == [q.error EXCEPT ![s] = TRUE]
<1>3. ram' = [q EXCEPT !.error = error]
  BY <1>1, <1>2 DEF Ram
<1>4. /\ error \in [Sessions -> BOOLEAN]
      /\ \A t \in Sessions \ {s} : error[t] = q.error[t]
  BY <1>2 DEF Ram
<1> HIDE DEF error
<1>5. /\ ram' \in Ram
      /\ ram'.open = r.open /\ ram'.current = r.current
      /\ ram'.error = error /\ ram'.proof = r.proof
      /\ ram'.state[s] = 5
      /\ \A t \in Sessions \ {s} : ram'.state[t] = r.state[t]
  BY <1>2, <1>3, <1>4 DEF Ram
<1>6. RamOK(ram', store, {})
  <2>1. \A t \in Sessions \ {s} : ram'.error[t] => r.error[t]
    BY <1>2, <1>4, <1>5
  <2> QED
    BY <1>2, <1>5, <2>1, LastStepOK
<1>7. /\ UNCHANGED <<store, lifecycle, engine, updatePending>>
      /\ handling' \in Sessions \cup {NoSession}
  BY DEF WriteForgedM5, Respond
<1> QED
  BY <1>6, <1>7 DEF IInv

LEMMA InvWriteM5Unstored ==
    ASSUME IInv, NEW s \in Sessions, WriteM5Unstored(s)
    PROVE  IInv'
<1> DEFINE r == BeginWrite(ram, Env, s, "M5", FALSE)
           q == Advance(r, s, 5)
<1>1. Accessible(s) /\ r.state[s] = 4 /\ ram' = Fail(q, FALSE, "ProcessM5")
  BY DEF WriteM5Unstored, Expected
<1>2. /\ r \in Ram /\ RamOK(r, store, {s}) /\ s \in r.open
      /\ r.current = s
      /\ q \in Ram
      /\ q.open = r.open /\ q.current = r.current
      /\ q.error = r.error /\ q.proof = r.proof
      /\ q.state[s] = 5
      /\ \A t \in Sessions \ {s} : q.state[t] = r.state[t]
  BY <1>1, BeginM5
<1> HIDE DEF r, q
<1>3. RamOK(q, store, {})
  BY <1>2, LastStepOK
<1>4. RamOK(ram', store, {})
  BY <1>1, <1>2, <1>3, FailOK DEF Checks
<1>5. UNCHANGED <<store, lifecycle, engine, updatePending, handling>>
  BY DEF WriteM5Unstored
<1> QED
  BY <1>4, <1>5 DEF IInv

LEMMA InvWriteRejected ==
    ASSUME IInv, NEW s \in Sessions, NEW request \in Requests,
           NEW timedOut \in BOOLEAN, WriteRejected(s, request, timedOut)
    PROVE  IInv'
<1> DEFINE r == BeginWrite(ram, Env, s, request, timedOut)
           q == ResetForSession(r, Env, s)
<1>1. RamOK(r, store, {s})
  BY EnvInType, BeginWriteOK DEF WriteRejected, Accessible, IInv, RamOK
<1>2. ram' = q
  BY DEF WriteRejected
<1> HIDE DEF r
<1>3. RamOK(q, store, {s} \ {s})
  BY <1>1, EnvInType, ResetForSessionOK DEF RamOK
<1>4. RamOK(ram', store, {})
  BY <1>2, <1>3, {s} \ {s} = {}
<1>5. UNCHANGED <<store, lifecycle, engine, updatePending, handling>>
  BY DEF WriteRejected
<1> QED
  BY <1>4, <1>5 DEF IInv

LEMMA InvWriteMalformed ==
    ASSUME IInv, NEW s \in Sessions, WriteMalformed(s)
    PROVE  IInv'
<1> DEFINE r == CloseTransientSessions(ram, Env, s)
           q == ResetForSession(r, Env, s)
<1>1. RamOK(r, store, {})
  BY EnvInType, CloseTransientSessionsOK DEF IInv, RamOK
<1>2. ram' = q
  BY DEF WriteMalformed
<1> HIDE DEF r
<1>3. RamOK(q, store, {} \ {s})
  BY <1>1, EnvInType, ResetForSessionOK DEF RamOK
<1>4. RamOK(ram', store, {})
  BY <1>2, <1>3, {} \ {s} = {}
<1>5. UNCHANGED <<store, lifecycle, engine, updatePending, handling>>
  BY DEF WriteMalformed
<1> QED
  BY <1>4, <1>5 DEF IInv

-----------------------------------------------------------------------------
(***************************************************************************)
(* Responses.                                                              *)
(***************************************************************************)

\* Every read ends by closing unsecured sessions, from a state q that keeps to
\* the invariant with the new store.
LEMMA EndReadOK ==
    ASSUME IInv, NEW s \in Sessions, NEW q \in Ram, RamOK(q, store', {}),
           store' \in Store, store'.attempts <= MaxTries,
           EndRead(s, q)
    PROVE  IInv'
<1>1. PICK writing : ram' = CloseUnsecuredSessions(q, Env, s, writing)
  BY DEF EndRead
<1>2. RamOK(ram', store', {})
  BY <1>1, EnvInType, CloseUnsecuredSessionsOK
<1>3. handling' = NoSession /\ UNCHANGED <<lifecycle, engine, updatePending>>
  BY DEF EndRead
<1> QED
  BY <1>2, <1>3 DEF IInv

LEMMA SetupInfoM2Type ==
    ASSUME IInv, NEW s \in Sessions
    PROVE  SetupInfoM2(s) \in SetupInfo
<1> DEFINE a == GetSetupInfo(ram.setup, Env, RestorePreviousM2(s))
<1>1. ram.setup \in SetupInfo
  BY DEF IInv, RamOK, Ram
<1>2. RestorePreviousM2(s) \in BOOLEAN
  BY DEF RestorePreviousM2
<1>3. a \in SetupInfo
  BY <1>1, <1>2, EnvInType, GetSetupInfoType
<1> HIDE DEF a
<1>4. [a EXCEPT !.served = s] \in SetupInfo
  BY <1>3 DEF SetupInfo
<1> QED
  BY <1>4 DEF SetupInfoM2, a

LEMMA SetupInfoM4Type == IInv => SetupInfoM4 \in SetupInfo
<1> SUFFICES ASSUME IInv PROVE SetupInfoM4 \in SetupInfo
  OBVIOUS
<1>1. ram.setup \in SetupInfo
  BY DEF IInv, RamOK, Ram
<1>2. RestorePreviousM4 \in BOOLEAN
  BY DEF RestorePreviousM4
<1> QED
  BY <1>1, <1>2, EnvInType, GetSetupInfoType DEF SetupInfoM4

\* The session in state 3, 4 or 5 is the only one past M1: resetting it, in any
\* state r that differs from ram in other things, leaves none.
LEMMA ResetLast ==
    ASSUME IInv, NEW s \in Sessions, ram.state[s] >= 2,
           NEW r \in Ram, RamOK(r, store, {}), r.state = ram.state
    PROVE  LET q == ResetForSession(r, Env, s)
           IN  /\ q \in Ram
               /\ \A st : RamOK(q, st, {})
<1> DEFINE q == ResetForSession(r, Env, s)
<1>1. /\ RamOK(q, store, {} \ {s})
      /\ q.state[s] = 0
      /\ \A t \in Sessions \ {s} : q.state[t] = r.state[t]
  BY EnvInType, ResetForSessionOK
<1> HIDE DEF q
<1>2. q \in Ram /\ RamOK(q, store, {})
  BY <1>1, {} \ {s} = {} DEF RamOK
<1>3. ASSUME NEW t \in Sessions PROVE q.state[t] < 2
  <2>1. CASE t = s
    BY <1>1, <2>1
  <2>2. CASE t # s
    <3>1. ram.state[t] \in 0 .. 5 /\ ~(ram.state[t] >= 2)
      BY <2>2 DEF IInv, RamOK, StepsOwned, Ram
    <3> QED
      BY <1>1, <2>2, <3>1
  <2> QED
    BY <2>1, <2>2
<1> QED
  BY <1>2, <1>3, StoreOK DEF q

LEMMA InvReadError ==
    ASSUME IInv, NEW s \in Sessions, ReadError(s)
    PROVE  IInv'
<1> DEFINE q == ResetForSession(ram, Env, s)
<1>1. RamOK(q, store, {} \ {s})
  BY EnvInType, ResetForSessionOK DEF IInv, RamOK
<1>2. EndRead(s, q) /\ store' = store
  BY DEF ReadError
<1> HIDE DEF q
<1>3. q \in Ram /\ RamOK(q, store', {})
  BY <1>1, <1>2, {} \ {s} = {} DEF RamOK
<1>4. store' \in Store /\ store'.attempts <= MaxTries
  BY <1>2 DEF IInv
<1> QED
  BY <1>2, <1>3, <1>4, EndReadOK

\* M2 is sent for the session that holds the procedure, when there is no
\* pairing and there are attempts left.
LEMMA AnswerM2 ==
    ASSUME IInv, NEW s \in Sessions, ReadM2(s)
    PROVE  LET q == [Advance(ram, s, 2) EXCEPT !.setup = SetupInfoM2(s)]
           IN  /\ EndRead(s, q)
               /\ q \in Ram /\ RamOK(q, store, {})
               /\ q.state[s] = 2
               /\ \A t \in Sessions \ {s} : q.state[t] = ram.state[t]
<1> DEFINE p == Advance(ram, s, 2)
           q == [p EXCEPT !.setup = SetupInfoM2(s)]
<1>1. /\ ram \in Ram /\ RamOK(ram, store, {})
      /\ ram.current = s /\ ~Paired /\ ~(store.attempts >= MaxTries)
      /\ EndRead(s, q)
  BY DEF ReadM2, RefusesM2, IInv, RamOK
<1> HIDE DEF p, q
<1>2. /\ s \in ram.open
      /\ store.owner = NoSession
      /\ store.attempts < MaxTries
  <2>1. store.attempts \in 0 .. 255 /\ MaxTries \in 1 .. 255
    BY PairSetupAssumption DEF IInv, Store
  <2> QED
    BY <1>1, <2>1, NoSessionApart DEF RamOK, StepsOwned, Paired
<1>3. /\ p \in Ram
      /\ p.open = ram.open /\ p.current = ram.current
      /\ p.error = ram.error /\ p.proof = ram.proof
      /\ p.state[s] = 2
      /\ \A t \in Sessions \ {s} : p.state[t] = ram.state[t]
  BY ZenonT(120), <1>1, StepNumbers, AdvanceOK DEF p
<1>4. RamOK(ram, store, {s})
  BY <1>1 DEF RamOK, StepsOwned
<1>5. RamOK(p, store, {})
  BY <1>1, <1>2, <1>3, <1>4, StepOK
<1>6. q \in Ram /\ RamOK(q, store, {}) /\ q.state = p.state
  BY <1>3, <1>5, SetupInfoM2Type, WithSetup DEF Ram, q
<1>7. \A t \in Sessions \ {s} : q.state[t] = ram.state[t]
  BY <1>3, <1>6
<1> QED
  BY <1>1, <1>3, <1>6, <1>7 DEF p, q

LEMMA InvReadM2 ==
    ASSUME IInv, NEW s \in Sessions, ReadM2(s)
    PROVE  IInv'
<1> DEFINE q == [Advance(ram, s, 2) EXCEPT !.setup = SetupInfoM2(s)]
<1>1. EndRead(s, q) /\ q \in Ram /\ RamOK(q, store, {})
  BY AnswerM2
<1> HIDE DEF q
<1>2. /\ store' = store
      /\ store' \in Store /\ store'.attempts <= MaxTries
  BY DEF ReadM2, IInv
<1> QED
  BY <1>1, <1>2, EndReadOK

LEMMA InvReadM2Unsent ==
    ASSUME IInv, NEW s \in Sessions, ReadM2Unsent(s)
    PROVE  IInv'
<1> DEFINE r == [ram EXCEPT !.setup = SetupInfoM2(s)]
           q == ResetForSession(r, Env, s)
<1>1. r \in Ram /\ RamOK(r, store, {})
  BY SetupInfoM2Type, WithSetup DEF IInv, RamOK
<1>2. EndRead(s, q) /\ store' = store
  BY DEF ReadM2Unsent
<1> HIDE DEF r
<1>3. RamOK(q, store, {} \ {s})
  BY <1>1, EnvInType, ResetForSessionOK
<1> HIDE DEF q
<1>4. q \in Ram /\ RamOK(q, store', {})
  BY <1>2, <1>3, {} \ {s} = {} DEF RamOK
<1>5. store' \in Store /\ store'.attempts <= MaxTries
  BY <1>2 DEF IInv
<1> QED
  BY <1>2, <1>4, <1>5, EndReadOK

LEMMA ResetM4 ==
    ASSUME IInv, NEW s \in Sessions, ram.state[s] = 3
    PROVE  LET q == ResetForSession([ram EXCEPT !.setup = SetupInfoM4], Env, s)
           IN  q \in Ram /\ \A st : RamOK(q, st, {})
<1> DEFINE r == [ram EXCEPT !.setup = SetupInfoM4]
<1>1. r \in Ram /\ RamOK(r, store, {})
  BY SetupInfoM4Type, WithSetup DEF IInv, RamOK
<1>2. r.state = ram.state
  BY DEF IInv, RamOK, Ram
<1>3. ram.state[s] >= 2
  OBVIOUS
<1> HIDE DEF r
<1> QED
  BY <1>1, <1>2, <1>3, ResetLast DEF r

LEMMA OneMore ==
    ASSUME NEW n \in 0 .. 255, NEW limit \in 1 .. 255, n < limit
    PROVE  n + 1 \in 0 .. 255 /\ n + 1 <= limit
OBVIOUS

\* A failed attempt stays within the limit, as M2 saw it.
LEMMA AttemptCounted ==
    ASSUME IInv, NEW s \in Sessions, ram.state[s] = 3
    PROVE  /\ [store EXCEPT !.attempts = @ + 1] \in Store
           /\ [store EXCEPT !.attempts = @ + 1].attempts <= MaxTries
<1>1. store.attempts < MaxTries
  BY DEF IInv, RamOK, StepsOwned
<1>2. store.attempts \in 0 .. 255 /\ MaxTries \in 1 .. 255
  BY PairSetupAssumption DEF IInv, Store
<1>3. store.attempts + 1 \in 0 .. 255 /\ store.attempts + 1 <= MaxTries
  BY <1>1, <1>2, OneMore
<1> QED
  BY <1>3 DEF IInv, Store

LEMMA AttemptsCleared ==
    ASSUME IInv
    PROVE  /\ [store EXCEPT !.attempts = 0] \in Store
           /\ [store EXCEPT !.attempts = 0].attempts <= MaxTries
BY PairSetupAssumption DEF IInv, Store

LEMMA InvReadM4Refused ==
    ASSUME IInv, NEW s \in Sessions, NEW counted \in BOOLEAN,
           ReadM4Refused(s, counted)
    PROVE  IInv'
<1> DEFINE q == ResetForSession([ram EXCEPT !.setup = SetupInfoM4], Env, s)
<1>1. /\ ram.state[s] = 3
      /\ EndRead(s, q)
      /\ store' = IF counted THEN [store EXCEPT !.attempts = @ + 1] ELSE store
  BY DEF ReadM4Refused
<1>2. q \in Ram /\ \A st : RamOK(q, st, {})
  BY <1>1, ResetM4
<1> HIDE DEF q
<1>3. store' \in Store /\ store'.attempts <= MaxTries
  BY <1>1, AttemptCounted DEF IInv
<1>4. RamOK(q, store', {})
  BY <1>2
<1> QED
  BY <1>1, <1>2, <1>3, <1>4, EndReadOK

LEMMA InvReadM4 ==
    ASSUME IInv, NEW s \in Sessions, ReadM4(s)
    PROVE  IInv'
<1> DEFINE p == Advance(ram, s, 4)
           q == [p EXCEPT !.setup = SetupInfoM4]
<1>1. /\ ram.state[s] = 3 /\ ram.proof = "good"
      /\ EndRead(s, q)
      /\ store' = [store EXCEPT !.attempts = 0]
  BY DEF ReadM4, ProofVerifies
<1>2. /\ ram \in Ram /\ RamOK(ram, store, {})
      /\ ram.current = s /\ s \in ram.open /\ store.owner = NoSession
  BY <1>1, NoSessionApart DEF IInv, RamOK, StepsOwned
<1>3. /\ p \in Ram
      /\ p.open = ram.open /\ p.current = ram.current
      /\ p.error = ram.error /\ p.proof = ram.proof
      /\ p.state[s] = 4
      /\ \A t \in Sessions \ {s} : p.state[t] = ram.state[t]
  BY ZenonT(120), <1>2, StepNumbers, AdvanceOK
<1> HIDE DEF p
<1>4. /\ store' \in Store /\ store'.attempts <= MaxTries
      /\ store'.owner = NoSession
  BY <1>1, <1>2, AttemptsCleared DEF IInv, Store
<1>5. RamOK(ram, store, {s})
  BY <1>2 DEF RamOK, StepsOwned
<1>6. /\ p.state[s] >= 1 /\ p.state[s] \notin {2, 3}
      /\ p.proof = "good"
      /\ \A t \in Sessions : p.error[t] => ram.error[t] \/ ram.current = t
  BY <1>1, <1>3
<1>7. RamOK(p, store', {})
  BY <1>2, <1>3, <1>4, <1>5, <1>6, StepOK
<1>8. q \in Ram /\ RamOK(q, store', {})
  BY <1>3, <1>7, SetupInfoM4Type, WithSetup
<1> HIDE DEF q
<1> QED
  BY <1>1, <1>4, <1>8, EndReadOK

LEMMA InvReadM4Transient ==
    ASSUME IInv, NEW s \in Sessions, ReadM4Transient(s)
    PROVE  IInv'
<1> DEFINE hap == [ram.hap EXCEPT ![s] = "transient"]
           keep == ram.keep \/ "Split" \in ram.flags
           r == [ram EXCEPT !.hap = hap, !.setup = SetupInfoM4, !.keep = keep]
           q == ResetForSession(r, Env, s)
<1>1. ram \in Ram /\ RamOK(ram, store, {})
  BY DEF IInv, RamOK
<1>2. /\ ram.state[s] = 3
      /\ EndRead(s, q)
      /\ store' = [store EXCEPT !.attempts = 0]
  BY <1>1 DEF ReadM4Transient, Ram
<1>3. /\ hap \in [Sessions -> {"none", "transient", "verified"}]
      /\ keep \in BOOLEAN
      /\ SetupInfoM4 \in SetupInfo
  BY <1>1, SetupInfoM4Type DEF Ram
<1> HIDE DEF hap, keep
<1>4. /\ r \in Ram
      /\ r.open = ram.open /\ r.state = ram.state /\ r.error = ram.error
      /\ r.current = ram.current /\ r.proof = ram.proof
  BY <1>1, <1>3 DEF Ram
<1> HIDE DEF r
<1>5. RamOK(r, store, {})
  BY <1>1, <1>4, SameSteps
<1>6. ram.state[s] >= 2
  BY <1>2
<1>7. q \in Ram /\ \A st : RamOK(q, st, {})
  BY <1>4, <1>5, <1>6, ResetLast
<1> HIDE DEF q
<1>8. /\ store' \in Store /\ store'.attempts <= MaxTries
      /\ RamOK(q, store', {})
  BY <1>2, <1>7, AttemptsCleared
<1> QED
  BY <1>2, <1>7, <1>8, EndReadOK

LEMMA InvReadM4Unsent ==
    ASSUME IInv, NEW s \in Sessions, ReadM4Unsent(s)
    PROVE  IInv'
<1> DEFINE q == ResetForSession([ram EXCEPT !.setup = SetupInfoM4], Env, s)
<1>1. /\ ram.state[s] = 3
      /\ EndRead(s, q)
      /\ store' = [store EXCEPT !.attempts = 0]
  BY DEF ReadM4Unsent
<1>2. q \in Ram /\ \A st : RamOK(q, st, {})
  BY <1>1, ResetM4
<1> HIDE DEF q
<1>3. /\ store' \in Store /\ store'.attempts <= MaxTries
      /\ RamOK(q, store', {})
  BY <1>1, <1>2, AttemptsCleared
<1> QED
  BY <1>1, <1>2, <1>3, EndReadOK

LEMMA InvReadM6 ==
    ASSUME IInv, NEW s \in Sessions, ReadM6(s)
    PROVE  IInv'
<1> DEFINE q == ResetForSession(ram, Env, s)
<1>1. RamOK(q, store, {} \ {s})
  BY EnvInType, ResetForSessionOK DEF IInv, RamOK
<1>2. EndRead(s, q) /\ store' = store
  BY DEF ReadM6
<1> HIDE DEF q
<1>3. q \in Ram /\ RamOK(q, store', {})
  BY <1>1, <1>2, {} \ {s} = {} DEF RamOK
<1>4. store' \in Store /\ store'.attempts <= MaxTries
  BY <1>2 DEF IInv
<1> QED
  BY <1>2, <1>3, <1>4, EndReadOK

LEMMA InvReadM6Unidentified ==
    ASSUME IInv, NEW s \in Sessions, ReadM6Unidentified(s)
    PROVE  IInv'
<1> DEFINE q == Fail(ram, FALSE, "GetM6")
<1>1. RamOK(q, store, {})
  BY FailOK DEF IInv, RamOK, Checks
<1>2. EndRead(s, q) /\ store' = store
  BY DEF ReadM6Unidentified
<1> HIDE DEF q
<1>3. q \in Ram /\ RamOK(q, store', {})
  BY <1>1, <1>2 DEF RamOK
<1>4. store' \in Store /\ store'.attempts <= MaxTries
  BY <1>2 DEF IInv
<1> QED
  BY <1>2, <1>3, <1>4, EndReadOK

-----------------------------------------------------------------------------
(***************************************************************************)
(* The accessory server and the setup info.                                *)
(***************************************************************************)

LEMMA RamInType == IInv => ram \in Ram /\ ram.setup \in SetupInfo
BY DEF IInv, RamOK, Ram

\* Only the setup info changes.
LEMMA InvSetup ==
    ASSUME IInv, NEW a \in SetupInfo, ram' = [ram EXCEPT !.setup = a],
           UNCHANGED store, lifecycle' \in ServerStates, engine' \in ServerStates,
           updatePending' \in BOOLEAN, handling' = handling
    PROVE  IInv'
<1>1. RamOK(ram', store, {})
  BY RamInType, WithSetup DEF IInv
<1> QED
  BY <1>1 DEF IInv

LEMMA CompleteShutdownOK ==
    ASSUME NEW r \in Ram, NEW env \in EnvType, NEW st, RamOK(r, st, {})
    PROVE  RamOK(CompleteShutdown(r, env), st, {})
<1> DEFINE holds == r.current = NoSession
           f == Fail(r, holds, "CompleteShutdown")
           a == HandleAccessoryServerStop(f.setup, env)
<1>1. holds \in BOOLEAN
  OBVIOUS
<1> HIDE DEF holds
<1>2. RamOK(f, st, {}) /\ f.setup = r.setup
  BY <1>1, FailOK DEF Checks
<1>3. f \in Ram /\ f.setup \in SetupInfo
  BY <1>2 DEF RamOK, Ram
<1> HIDE DEF f
<1>4. a \in SetupInfo
  BY <1>3, HandleAccessoryServerStopType
<1> HIDE DEF a
<1>5. RamOK([f EXCEPT !.setup = a], st, {})
  BY <1>2, <1>3, <1>4, WithSetup
<1> QED
  BY <1>5 DEF CompleteShutdown, holds, f, a

LEMMA InvStart == ASSUME IInv, Start PROVE IInv'
<1> DEFINE env == [Env EXCEPT !.started = TRUE]
           a == HandleAccessoryServerStart(ram.setup, env)
<1>1. env \in EnvType
  BY EnvInType DEF EnvType
<1>2. ram' = [ram EXCEPT !.setup = a]
  BY RamInType DEF Start, Ram
<1>3. a \in SetupInfo
  BY <1>1, RamInType, HandleAccessoryServerStartType
<1> HIDE DEF a
<1> QED
  BY <1>2, <1>3, InvSetup DEF Start, ServerStates, IInv

LEMMA InvProceedWithStop ==
    ASSUME IInv, NEW r \in Ram, RamOK(r, store, {}), ProceedWithStop(r),
           UNCHANGED <<store, handling>>
    PROVE  IInv'
<1>1. RamOK(ram', store, {})
  BY EnvInType, CompleteShutdownOK DEF ProceedWithStop
<1>2. /\ lifecycle' \in ServerStates /\ engine' \in ServerStates
      /\ updatePending' \in BOOLEAN
  BY DEF ProceedWithStop, ServerStates, IInv
<1> QED
  BY <1>1, <1>2 DEF IInv

LEMMA InvStop == ASSUME IInv, Stop PROVE IInv'
<1>1. CASE BLEConnected
  BY <1>1 DEF Stop, IInv, ServerStates
<1>2. CASE ~BLEConnected
  BY <1>2, InvProceedWithStop DEF Stop, IInv, RamOK
<1> QED
  BY <1>1, <1>2

LEMMA InvEngineIdle == ASSUME IInv, EngineIdle PROVE IInv'
BY DEF EngineIdle, IInv, ServerStates

LEMMA InvCallbackTimerExpired == ASSUME IInv, CallbackTimerExpired PROVE IInv'
<1> DEFINE a == HandleAccessoryServerStateUpdate(ram.setup, Env)
           r == [ram EXCEPT !.setup = a]
           completed == HasIP /\ engine = "Idle"
<1>1. a \in SetupInfo
  BY EnvInType, RamInType, HandleAccessoryServerStateUpdateType
<1>2. r = [ram EXCEPT !.setup = HandleAccessoryServerStateUpdate(@, Env)]
  BY RamInType DEF Ram
<1>3. /\ ram' = IF completed THEN CompleteShutdown(r, Env) ELSE r
      /\ lifecycle' = IF completed THEN "Idle" ELSE lifecycle
      /\ updatePending' = FALSE
      /\ UNCHANGED <<store, engine, handling>>
  BY <1>2 DEF CallbackTimerExpired
<1> HIDE DEF a
<1>4. r \in Ram /\ RamOK(r, store, {})
  BY <1>1, RamInType, WithSetup DEF IInv
<1> HIDE DEF r
<1>5. RamOK(ram', store, {})
  BY <1>3, <1>4, EnvInType, CompleteShutdownOK
<1> QED
  BY <1>3, <1>5 DEF IInv, ServerStates

LEMMA InvSetupStep == ASSUME IInv, Setup PROVE IInv'
<1>1. CASE RefreshTimerExpired
  BY <1>1, EnvInType, RamInType, DynamicSetupInfoExpiredType, InvSetup
     DEF RefreshTimerExpired, SetupInfoStep, IInv
<1>2. CASE NFCTimerExpired
  BY <1>2, EnvInType, RamInType, NFCPairingModeExpiredType, InvSetup
     DEF NFCTimerExpired, SetupInfoStep, IInv
<1>3. CASE EnterNFC
  BY <1>3, EnvInType, RamInType, EnterNFCPairingModeType, InvSetup
     DEF EnterNFC, SetupInfoStep, IInv
<1>4. CASE ExitNFC
  BY <1>4, EnvInType, RamInType, ExitNFCPairingModeType, InvSetup
     DEF ExitNFC, SetupInfoStep, IInv
<1>5. CASE RefreshPayload
  BY <1>5, EnvInType, RamInType, RefreshSetupPayloadType, InvSetup
     DEF RefreshPayload, SetupInfoStep, IInv
<1> QED
  BY <1>1, <1>2, <1>3, <1>4, <1>5 DEF Setup

LEMMA InvReboot == ASSUME IInv, Reboot PROVE IInv'
<1>1. NoSetupInfo \in SetupInfo
  BY DEF NoSetupInfo, SetupInfo, Payloads
<1>2. ZeroedRam \in Ram
  BY <1>1 DEF ZeroedRam, Ram, Methods, Proofs
<1>3. StepsOwned(ram', store', {})
  BY SetupInfoAssumption DEF Reboot, ZeroedRam, StepsOwned
<1> QED
  BY <1>2, <1>3 DEF Reboot, IInv, RamOK, ServerStates

-----------------------------------------------------------------------------
(***************************************************************************)
(* Sessions.                                                               *)
(***************************************************************************)

LEMMA InvOpenSession == ASSUME IInv, NEW s \in Sessions, OpenSession(s) PROVE IInv'
<1>1. ram \in Ram /\ RamOK(ram, store, {})
  BY DEF IInv, RamOK
<1>2. ram' = [ram EXCEPT !.open = ram.open \cup {s}]
  BY <1>1 DEF OpenSession, Ram
<1>3. /\ ram' \in Ram
      /\ ram'.open = ram.open \cup {s} /\ ram'.state = ram.state
      /\ ram'.error = ram.error /\ ram'.current = ram.current
      /\ ram'.proof = ram.proof
  BY <1>1, <1>2 DEF Ram
<1>4. RamOK(ram', store, {})
  BY <1>1, <1>3 DEF RamOK, StepsOwned
<1> QED
  BY <1>4 DEF OpenSession, IInv

LEMMA InvCloseSession == ASSUME IInv, NEW s \in Sessions, CloseSession(s) PROVE IInv'
<1> DEFINE r == ReleaseSessions(ram, Env, {s})
<1>1. RamOK(r, store, {})
  BY EnvInType, RamInType, {s} \in SUBSET Sessions, ReleaseSessionsOK DEF IInv
<1>2. \/ ProceedWithStop(r)
      \/ ram' = r /\ UNCHANGED <<lifecycle, engine, updatePending>>
  BY DEF CloseSession
<1>3. UNCHANGED <<store, handling>>
  BY DEF CloseSession
<1> HIDE DEF r
<1>4. r \in Ram
  BY <1>1 DEF RamOK
<1> QED
  BY <1>1, <1>2, <1>3, <1>4, InvProceedWithStop DEF IInv

LEMMA InvVerifySession ==
    ASSUME IInv, NEW s \in Sessions, VerifySession(s) PROVE IInv'
<1> DEFINE hap == [ram.hap EXCEPT ![s] = "verified"]
<1>1. ram \in Ram /\ RamOK(ram, store, {})
  BY DEF IInv, RamOK
<1>2. ram' = [ram EXCEPT !.hap = hap]
  BY <1>1 DEF VerifySession, Ram
<1>3. hap \in [Sessions -> {"none", "transient", "verified"}]
  BY <1>1 DEF Ram
<1> HIDE DEF hap
<1>4. /\ ram' \in Ram
      /\ ram'.open = ram.open /\ ram'.state = ram.state
      /\ ram'.error = ram.error /\ ram'.current = ram.current
      /\ ram'.proof = ram.proof
  BY <1>1, <1>2, <1>3 DEF Ram
<1>5. RamOK(ram', store, {})
  BY <1>1, <1>4, SameSteps
<1> QED
  BY <1>5 DEF VerifySession, IInv

LEMMA InvRemovePairings ==
    ASSUME IInv, NEW s \in Sessions, RemovePairings(s) PROVE IInv'
<1> DEFINE env == [Env EXCEPT !.paired = FALSE]
<1>1. env \in EnvType
  BY EnvInType DEF EnvType
<1>2. store' = [store EXCEPT !.owner = NoSession]
  BY DEF RemovePairings
<1>3. /\ store' \in Store
      /\ store'.owner = NoSession /\ store'.attempts = store.attempts
  BY <1>2 DEF IInv, Store
<1>4. RamOK(ram, store', {})
  BY <1>3 DEF IInv, RamOK, StepsOwned
<1>5. PICK writing : ram' = CloseUnsecuredSessions(ram, env, s, writing)
  BY DEF RemovePairings
<1>6. RamOK(ram', store', {})
  BY <1>1, <1>4, <1>5, RamInType, CloseUnsecuredSessionsOK
<1>7. updatePending' = TRUE /\ UNCHANGED <<lifecycle, engine, handling>>
  BY DEF RemovePairings
<1> QED
  BY <1>3, <1>6, <1>7 DEF IInv

LEMMA InvRequestOnTransientSession ==
    ASSUME IInv, NEW s \in Sessions, RequestOnTransientSession(s) PROVE IInv'
<1>1. RamOK(CheckTransient(ram, Env, {s}), store, {})
  BY EnvInType, RamInType, {s} \in SUBSET Sessions, CheckTransientOK DEF IInv
<1>2. /\ ram' = CheckTransient(ram, Env, {s})
      /\ UNCHANGED <<store, lifecycle, engine, updatePending, handling>>
  BY DEF RequestOnTransientSession
<1> QED
  BY <1>1, <1>2 DEF IInv

-----------------------------------------------------------------------------
(***************************************************************************)
(* Theorems.                                                               *)
(***************************************************************************)

LEMMA InvNext == IInv /\ [Next]_vars => IInv'
<1> SUFFICES ASSUME IInv, [Next]_vars PROVE IInv'
  OBVIOUS
<1>1. ASSUME NEW s \in Sessions, Write(s) PROVE IInv'
  BY <1>1, InvWriteM1, InvWriteM3, InvWriteM5, InvWriteForgedM5,
     InvWriteM5Unstored, InvWriteRejected, InvWriteMalformed DEF Write
<1>2. ASSUME NEW s \in Sessions, Read(s) PROVE IInv'
  BY <1>2, InvReadError, InvReadM2, InvReadM2Unsent, InvReadM4Refused,
     InvReadM4, InvReadM4Transient, InvReadM4Unsent, InvReadM6,
     InvReadM6Unidentified DEF Read
<1>3. ASSUME NEW s \in Sessions, Connection(s) PROVE IInv'
  BY <1>3, InvOpenSession, InvCloseSession, InvVerifySession,
     InvRemovePairings, InvRequestOnTransientSession DEF Connection
<1>4. CASE Server
  BY <1>4, InvStart, InvStop, InvEngineIdle, InvCallbackTimerExpired DEF Server
<1>5. CASE Setup
  BY <1>5, InvSetupStep
<1>6. CASE Reboot
  BY <1>6, InvReboot
<1>7. CASE UNCHANGED vars
  BY <1>7 DEF vars, IInv
<1> QED
  BY <1>1, <1>2, <1>3, <1>4, <1>5, <1>6, <1>7 DEF Next

THEOREM Invariance == Spec => []IInv
<1>1. Init => IInv
  BY InvInit
<1>2. IInv /\ [Next]_vars => IInv'
  BY InvNext
<1> QED
  BY <1>1, <1>2, PTL DEF Spec

\* Every function of the code leaves its state in the declared types; the byte
\* in which failed attempts are stored does not wrap.
THEOREM TypeCorrect == Spec => []TypeOK
<1>1. IInv => TypeOK
  BY DEF IInv, RamOK, TypeOK
<1> QED
  BY <1>1, Invariance, PTL

\* With any number of sessions, one at most is past M1: the session for which
\* sessionThatIsCurrentlyPairing is set, which is open and has begun.
THEOREM OneProcedure == Spec => []ProcedureOwned
<1>1. IInv => ProcedureOwned
  BY NoSessionApart DEF IInv, RamOK, StepsOwned, ProcedureOwned, Ram
<1> QED
  BY <1>1, Invariance, PTL

\* The counter of failed attempts, which M4 increments without a check of its
\* own, never passes the limit, whatever the limit and the number of sessions.
THEOREM AttemptLimit == Spec => []AttemptsBounded
<1>1. IInv => AttemptsBounded
  BY DEF IInv, RamOK, StepsOwned, AttemptsBounded
<1> QED
  BY <1>1, Invariance, PTL

\* Nobody can be between M2 and M5 of a procedure while a pairing is stored, so
\* that no pairing is ever replaced by another.
THEOREM UnpairedWhilePairing == Spec => []NoProcedureWhilePaired
<1>1. IInv => NoProcedureWhilePaired
  BY DEF IInv, RamOK, StepsOwned, NoProcedureWhilePaired, Paired
<1> QED
  BY <1>1, Invariance, PTL

LEMMA OwnerStep ==
    ASSUME IInv, [Next]_vars, store'.owner \notin {store.owner, NoSession}
    PROVE  \E s \in Sessions : WriteM5(s)
<1>1. ASSUME NEW s \in Sessions, Write(s) PROVE WriteM5(s)
  BY <1>1 DEF Write, WriteM1, WriteM3, WriteForgedM5, WriteM5Unstored,
              WriteRejected, WriteMalformed
<1>2. ASSUME NEW s \in Sessions, Read(s) PROVE FALSE
  <2>1. store' = store \/ \E n : store' = [store EXCEPT !.attempts = n]
    BY <1>2 DEF Read, ReadError, ReadM2, ReadM2Unsent, ReadM4Refused, ReadM4,
                ReadM4Transient, ReadM4Unsent, ReadM6, ReadM6Unidentified
  <2>2. store'.owner = store.owner
    BY <2>1 DEF IInv, Store
  <2> QED
    BY <2>2
<1>3. ASSUME NEW s \in Sessions, Connection(s) PROVE FALSE
  <2>1. store' = store \/ store' = [store EXCEPT !.owner = NoSession]
    BY <1>3 DEF Connection, OpenSession, CloseSession, VerifySession,
                RemovePairings, RequestOnTransientSession
  <2>2. store'.owner \in {store.owner, NoSession}
    BY <2>1 DEF IInv, Store
  <2> QED
    BY <2>2
<1>4. CASE Server \/ Setup \/ Reboot \/ UNCHANGED vars
  BY <1>4 DEF Server, Start, Stop, EngineIdle, CallbackTimerExpired,
              Setup, RefreshTimerExpired, NFCTimerExpired, EnterNFC, ExitNFC,
              RefreshPayload, SetupInfoStep, Reboot, vars
<1> QED
  BY <1>1, <1>2, <1>3, <1>4 DEF Next

\* A pairing is stored only by the session that holds the procedure, when there
\* is none, and after that session has proved that it knows the setup code.
THEOREM ProofBeforePairing == Spec => PairingNeedsProof
<1> DEFINE A == store'.owner \notin {store.owner, NoSession} =>
                   /\ ~Paired
                   /\ ram.current = store'.owner
                   /\ ram.state[ram.current] = 4
                   /\ ram.proof = "good"
<1>1. IInv /\ [Next]_vars => [A]_vars
  <2> SUFFICES ASSUME IInv, [Next]_vars,
                      store'.owner \notin {store.owner, NoSession}
               PROVE  /\ ~Paired
                      /\ ram.current = store'.owner
                      /\ ram.state[ram.current] = 4
                      /\ ram.proof = "good"
    OBVIOUS
  <2>1. PICK s \in Sessions : WriteM5(s)
    BY OwnerStep
  <2>2. Accessible(s) /\ BeginWrite(ram, Env, s, "M5", FALSE).state[s] = 4
    BY <2>1 DEF WriteM5, Expected
  <2>3. /\ store.owner = NoSession
        /\ ram.current = s /\ ram.state[s] = 4 /\ ram.proof = "good"
    BY <2>2, BeginM5
  <2>4. store'.owner = s
    BY <2>1 DEF WriteM5, IInv, Store
  <2> QED
    BY <2>3, <2>4 DEF Paired
<1> QED
  BY <1>1, Invariance, PTL DEF Spec, PairingNeedsProof

-----------------------------------------------------------------------------
(***************************************************************************)
(* PairSetup implements PairingContract.                                   *)
(*                                                                         *)
(* A session that is in state 4 after a step was in state 4 before it,     *)
(* unless the step is ReadM4: in terms of the contract, every other step   *)
(* of a session leaves the prover as it is or has it give up.              *)
(***************************************************************************)

ProvedBefore(q) == \A t \in Sessions : q.state[t] = 4 => ram.state[t] = 4

\* Whoever has proved the setup code is the prover.
LEMMA ProverIsInState4 ==
    ASSUME IInv
    PROVE  /\ \A t \in Sessions : ram.state[t] = 4 => Prover = t
           /\ Prover # NoSession =>
                 Prover \in Sessions /\ ram.state[Prover] = 4
BY NoSessionApart DEF IInv, RamOK, StepsOwned, Prover, Ram

LEMMA ProverAfter ==
    ASSUME IInv, IInv', ProvedBefore(ram')
    PROVE  Prover' \in {Prover, NoSession}
<1> SUFFICES ASSUME Prover' # NoSession PROVE Prover' = Prover
  OBVIOUS
<1>1. Prover' \in Sessions /\ ram'.state[Prover'] = 4
  <2>1. /\ ram'.current # NoSession
        /\ Prover' = ram'.current
        /\ ram'.state[ram'.current] = 4
    BY DEF Prover
  <2> QED
    BY <2>1 DEF IInv, RamOK, Ram
<1>2. ram.state[Prover'] = 4
  BY <1>1 DEF ProvedBefore
<1> QED
  BY <1>1, <1>2, ProverIsInState4

\* The response to a request does not make a prover.
LEMMA EndReadProved ==
    ASSUME IInv, NEW s \in Sessions, NEW q \in Ram, NEW st, RamOK(q, st, {}),
           EndRead(s, q), ProvedBefore(q)
    PROVE  ProvedBefore(ram')
<1>1. PICK writing : ram' = CloseUnsecuredSessions(q, Env, s, writing)
  BY DEF EndRead
<1>2. \A t \in Sessions : ram'.state[t] \in {0, q.state[t]}
  BY <1>1, EnvInType, CloseUnsecuredSessionsOK
<1> QED
  BY <1>2 DEF ProvedBefore

\* A request does not make a prover.
LEMMA WriteProved ==
    ASSUME IInv, NEW s \in Sessions, Write(s)
    PROVE  ProvedBefore(ram')
<1>1. ASSUME NEW request, NEW timedOut, Accessible(s)
      PROVE  LET r == BeginWrite(ram, Env, s, request, timedOut)
             IN  r \in Ram /\ RamOK(r, store, {s}) /\ ProvedBefore(r)
  <2> DEFINE r == BeginWrite(ram, Env, s, request, timedOut)
  <2>1. /\ RamOK(r, store, {s})
        /\ \A t \in Sessions : r.state[t] \in {0, ram.state[t]}
    BY <1>1, EnvInType, BeginWriteOK DEF Accessible, IInv, RamOK
  <2> HIDE DEF r
  <2>2. ProvedBefore(r)
    BY <2>1 DEF ProvedBefore
  <2> QED
    BY <2>1, <2>2 DEF RamOK, r
<1>2. ASSUME NEW r \in Ram, ProvedBefore(r), NEW n \in 0 .. 5, n # 4
      PROVE  Advance(r, s, n) \in Ram /\ ProvedBefore(Advance(r, s, n))
  <2> DEFINE q == Advance(r, s, n)
  <2>1. /\ q \in Ram
        /\ q.state[s] = n
        /\ \A t \in Sessions \ {s} : q.state[t] = r.state[t]
    BY AdvanceOK
  <2> HIDE DEF q
  <2>2. ProvedBefore(q)
    BY <1>2, <2>1 DEF ProvedBefore
  <2> QED
    BY <2>1, <2>2 DEF q
<1>3. ASSUME NEW method \in Methods \ {"none"}, NEW flags \in SUBSET PairingFlags,
             NEW timedOut \in BOOLEAN, WriteM1(s, method, flags, timedOut)
      PROVE  ProvedBefore(ram')
  <2> DEFINE r == BeginWrite(ram, Env, s, "M1", timedOut)
             q == Advance(r, s, 1)
  <2>1. r \in Ram /\ ProvedBefore(r)
    BY <1>1, <1>3 DEF WriteM1
  <2>2. ram' = ProcessM1(r, s, method, flags)
    BY <1>3 DEF WriteM1
  <2> HIDE DEF r
  <2>3. q \in Ram /\ ProvedBefore(q)
    BY <1>2, <2>1, 1 \in 0 .. 5, 1 # 4
  <2>4. ram'.state = q.state
    <3>1. PICK methods, present :
             ram' = [q EXCEPT !.method = methods, !.flags = present]
      BY <2>2, <2>3 DEF ProcessM1, Ram
    <3> HIDE DEF q
    <3> QED
      BY <2>3, <3>1 DEF Ram
  <2> QED
    BY <2>3, <2>4 DEF ProvedBefore
<1>4. ASSUME NEW proof \in Proofs \ {"none"}, WriteM3(s, proof)
      PROVE  ProvedBefore(ram')
  <2> DEFINE r == BeginWrite(ram, Env, s, "M3", FALSE)
             q == Advance(r, s, 3)
  <2>1. r \in Ram /\ ProvedBefore(r)
    BY <1>1, <1>4 DEF WriteM3
  <2>2. ram' = [q EXCEPT !.proof = proof]
    BY <1>4 DEF WriteM3
  <2> HIDE DEF r
  <2>3. q \in Ram /\ ProvedBefore(q)
    BY <1>2, <2>1, 3 \in 0 .. 5, 3 # 4
  <2> HIDE DEF q
  <2>4. ram'.state = q.state
    BY <2>2, <2>3 DEF Ram
  <2> QED
    BY <2>3, <2>4 DEF ProvedBefore
<1>5. ASSUME WriteM5(s) \/ WriteForgedM5(s) \/ WriteM5Unstored(s)
      PROVE  ProvedBefore(ram')
  <2> DEFINE r == BeginWrite(ram, Env, s, "M5", FALSE)
             q == Advance(r, s, 5)
  <2>1. r \in Ram /\ RamOK(r, store, {s}) /\ ProvedBefore(r)
    BY <1>1, <1>5 DEF WriteM5, WriteForgedM5, WriteM5Unstored
  <2>2. \/ ram' = q
        \/ ram' = [q EXCEPT !.error[s] = TRUE]
        \/ ram' = Fail(q, FALSE, "ProcessM5")
    BY <1>5 DEF WriteM5, WriteForgedM5, WriteM5Unstored
  <2> HIDE DEF r
  <2>3. q \in Ram /\ ProvedBefore(q)
    BY <1>2, <2>1, 5 \in 0 .. 5, 5 # 4
  <2> HIDE DEF q
  <2>4. ram'.state = q.state
    BY <2>2, <2>3 DEF Ram, Fail
  <2> QED
    BY <2>3, <2>4 DEF ProvedBefore
<1>6. ASSUME NEW r \in Ram, NEW T, RamOK(r, store, T), ProvedBefore(r)
      PROVE  ProvedBefore(ResetForSession(r, Env, s))
  <2> DEFINE q == ResetForSession(r, Env, s)
  <2>1. /\ q.state[s] = 0
        /\ \A t \in Sessions \ {s} : q.state[t] = r.state[t]
    BY <1>6, EnvInType, ResetForSessionOK
  <2> HIDE DEF q
  <2>2. ProvedBefore(q)
    BY <1>6, <2>1 DEF ProvedBefore
  <2> QED
    BY <2>2 DEF q
<1>7. ASSUME NEW request \in Requests, NEW timedOut \in BOOLEAN,
             WriteRejected(s, request, timedOut)
      PROVE  ProvedBefore(ram')
  BY <1>1, <1>6, <1>7 DEF WriteRejected
<1>8. ASSUME WriteMalformed(s) PROVE ProvedBefore(ram')
  <2> DEFINE r == CloseTransientSessions(ram, Env, s)
  <2>1. /\ RamOK(r, store, {})
        /\ \A t \in Sessions : r.state[t] \in {0, ram.state[t]}
    BY EnvInType, CloseTransientSessionsOK DEF IInv, RamOK
  <2>2. ram' = ResetForSession(r, Env, s)
    BY <1>8 DEF WriteMalformed
  <2> HIDE DEF r
  <2>3. r \in Ram /\ ProvedBefore(r)
    BY <2>1 DEF RamOK, ProvedBefore
  <2> QED
    BY <1>6, <2>1, <2>2, <2>3
<1> QED
  BY <1>3, <1>4, <1>5, <1>7, <1>8 DEF Write

\* A read other than ReadM4 does not make a prover.
LEMMA ReadProved ==
    ASSUME IInv, NEW s \in Sessions, Read(s), ~ReadM4(s)
    PROVE  ProvedBefore(ram')
<1>1. ASSUME NEW r \in Ram, RamOK(r, store, {}), ProvedBefore(r)
      PROVE  LET q == ResetForSession(r, Env, s)
             IN  q \in Ram /\ RamOK(q, store, {}) /\ ProvedBefore(q)
  <2> DEFINE q == ResetForSession(r, Env, s)
  <2>1. /\ RamOK(q, store, {} \ {s})
        /\ q.state[s] = 0
        /\ \A t \in Sessions \ {s} : q.state[t] = r.state[t]
    BY <1>1, EnvInType, ResetForSessionOK
  <2> HIDE DEF q
  <2>2. q \in Ram /\ RamOK(q, store, {})
    BY <2>1, {} \ {s} = {} DEF RamOK
  <2>3. ProvedBefore(q)
    BY <1>1, <2>1 DEF ProvedBefore
  <2> QED
    BY <2>2, <2>3 DEF q
<1>2. ASSUME NEW a \in SetupInfo
      PROVE  LET r == [ram EXCEPT !.setup = a]
             IN  r \in Ram /\ RamOK(r, store, {}) /\ ProvedBefore(r)
  <2>1. [ram EXCEPT !.setup = a].state = ram.state
    BY RamInType DEF Ram
  <2> QED
    BY <2>1, RamInType, WithSetup DEF IInv, ProvedBefore
<1>3. ram \in Ram /\ RamOK(ram, store, {}) /\ ProvedBefore(ram)
  BY RamInType DEF IInv, ProvedBefore
<1>4. CASE ReadError(s) \/ ReadM6(s)
  <2>1. EndRead(s, ResetForSession(ram, Env, s))
    BY <1>4 DEF ReadError, ReadM6
  <2> QED
    BY <1>1, <1>3, <2>1, EndReadProved
<1>5. CASE ReadM2(s)
  <2> DEFINE q == [Advance(ram, s, 2) EXCEPT !.setup = SetupInfoM2(s)]
  <2>1. /\ EndRead(s, q) /\ q \in Ram /\ RamOK(q, store, {})
        /\ q.state[s] = 2
        /\ \A t \in Sessions \ {s} : q.state[t] = ram.state[t]
    BY <1>5, AnswerM2
  <2> HIDE DEF q
  <2>2. ProvedBefore(q)
    BY <2>1 DEF ProvedBefore
  <2> QED
    BY <2>1, <2>2, EndReadProved
<1>6. CASE ReadM2Unsent(s)
  <2>1. EndRead(s, ResetForSession([ram EXCEPT !.setup = SetupInfoM2(s)], Env, s))
    BY <1>6 DEF ReadM2Unsent
  <2>2. SetupInfoM2(s) \in SetupInfo
    BY SetupInfoM2Type
  <2> DEFINE r == [ram EXCEPT !.setup = SetupInfoM2(s)]
  <2>3. r \in Ram /\ RamOK(r, store, {}) /\ ProvedBefore(r)
    BY <1>2, <2>2
  <2> HIDE DEF r
  <2>4. EndRead(s, ResetForSession(r, Env, s))
    BY <2>1 DEF r
  <2> QED
    BY <1>1, <2>3, <2>4, EndReadProved
<1>7. CASE (\E counted \in BOOLEAN : ReadM4Refused(s, counted)) \/ ReadM4Unsent(s)
  <2>1. EndRead(s, ResetForSession([ram EXCEPT !.setup = SetupInfoM4], Env, s))
    BY <1>7 DEF ReadM4Refused, ReadM4Unsent
  <2> DEFINE r == [ram EXCEPT !.setup = SetupInfoM4]
  <2>2. r \in Ram /\ RamOK(r, store, {}) /\ ProvedBefore(r)
    BY <1>2, SetupInfoM4Type
  <2> HIDE DEF r
  <2>3. EndRead(s, ResetForSession(r, Env, s))
    BY <2>1 DEF r
  <2> QED
    BY <1>1, <2>2, <2>3, EndReadProved
<1>8. CASE ReadM4Transient(s)
  <2> DEFINE hap == [ram.hap EXCEPT ![s] = "transient"]
             keep == ram.keep \/ "Split" \in ram.flags
             r == [ram EXCEPT !.hap = hap, !.setup = SetupInfoM4, !.keep = keep]
  <2>1. EndRead(s, ResetForSession(r, Env, s))
    BY <1>3, <1>8 DEF ReadM4Transient, Ram
  <2>2. /\ hap \in [Sessions -> {"none", "transient", "verified"}]
        /\ keep \in BOOLEAN
        /\ SetupInfoM4 \in SetupInfo
    BY <1>3, SetupInfoM4Type DEF Ram
  <2> HIDE DEF hap, keep
  <2>3. /\ r \in Ram
        /\ r.open = ram.open /\ r.state = ram.state /\ r.error = ram.error
        /\ r.current = ram.current /\ r.proof = ram.proof
    BY <1>3, <2>2 DEF Ram
  <2> HIDE DEF r
  <2>4. RamOK(r, store, {}) /\ ProvedBefore(r)
    BY <1>3, <2>3, SameSteps DEF ProvedBefore
  <2> QED
    BY <1>1, <2>1, <2>3, <2>4, EndReadProved
<1>9. CASE ReadM6Unidentified(s)
  <2>1. EndRead(s, Fail(ram, FALSE, "GetM6"))
    BY <1>9 DEF ReadM6Unidentified
  <2> DEFINE q == Fail(ram, FALSE, "GetM6")
  <2>2. RamOK(q, store, {}) /\ q.state = ram.state
    BY <1>3, FailOK DEF Checks
  <2> HIDE DEF q
  <2>3. q \in Ram /\ ProvedBefore(q)
    BY <2>2 DEF RamOK, ProvedBefore
  <2>4. EndRead(s, q)
    BY <2>1 DEF q
  <2> QED
    BY <2>2, <2>3, <2>4, EndReadProved
<1> QED
  BY <1>4, <1>5, <1>6, <1>7, <1>8, <1>9 DEF Read

\* Nor does anything else.
LEMMA OtherProved ==
    ASSUME IInv, \/ \E s \in Sessions : Connection(s)
                 \/ Server
                 \/ Setup
                 \/ Reboot
    PROVE  ProvedBefore(ram')
<1>1. ram \in Ram /\ RamOK(ram, store, {})
  BY RamInType DEF IInv
<1>2. ASSUME NEW r \in Ram, NEW env \in EnvType, RamOK(r, store, {}),
             ProvedBefore(r)
      PROVE  ProvedBefore(CompleteShutdown(r, env))
  <2> DEFINE holds == r.current = NoSession
             f == Fail(r, holds, "CompleteShutdown")
  <2>1. holds \in BOOLEAN
    OBVIOUS
  <2> HIDE DEF holds
  <2>2. RamOK(f, store, {}) /\ f.state = r.state
    BY <1>2, <2>1, FailOK DEF Checks
  <2>3. CompleteShutdown(r, env).state = f.state
    BY <2>2 DEF CompleteShutdown, f, holds, RamOK, Ram
  <2> QED
    BY <1>2, <2>2, <2>3 DEF ProvedBefore
<1>3. ASSUME NEW r \in Ram, RamOK(r, store, {}), ProvedBefore(r),
             ProceedWithStop(r)
      PROVE  ProvedBefore(ram')
  BY <1>2, <1>3, EnvInType DEF ProceedWithStop
<1>4. ASSUME ram'.state = ram.state PROVE ProvedBefore(ram')
  BY <1>4 DEF ProvedBefore
<1>5. ASSUME NEW s \in Sessions, OpenSession(s) \/ VerifySession(s)
      PROVE  ProvedBefore(ram')
  BY <1>1, <1>4, <1>5 DEF OpenSession, VerifySession, Ram
<1>6. ASSUME NEW s \in Sessions, CloseSession(s) PROVE ProvedBefore(ram')
  <2> DEFINE r == ReleaseSessions(ram, Env, {s})
  <2>1. /\ RamOK(r, store, {})
        /\ \A t \in Sessions : r.state[t] \in {0, ram.state[t]}
    BY <1>1, EnvInType, {s} \in SUBSET Sessions, ReleaseSessionsOK
  <2>2. ProceedWithStop(r) \/ ram' = r
    BY <1>6 DEF CloseSession
  <2> HIDE DEF r
  <2>3. r \in Ram /\ ProvedBefore(r)
    BY <2>1 DEF RamOK, ProvedBefore
  <2> QED
    BY <1>3, <2>1, <2>2, <2>3
<1>7. ASSUME NEW s \in Sessions, RemovePairings(s) PROVE ProvedBefore(ram')
  <2> DEFINE env == [Env EXCEPT !.paired = FALSE]
  <2>1. PICK writing : ram' = CloseUnsecuredSessions(ram, env, s, writing)
    BY <1>7 DEF RemovePairings
  <2>2. env \in EnvType
    BY EnvInType DEF EnvType
  <2>3. \A t \in Sessions : ram'.state[t] \in {0, ram.state[t]}
    BY <1>1, <2>1, <2>2, CloseUnsecuredSessionsOK
  <2> QED
    BY <2>3 DEF ProvedBefore
<1>8. ASSUME NEW s \in Sessions, RequestOnTransientSession(s)
      PROVE  ProvedBefore(ram')
  <2>1. CheckTransient(ram, Env, {s}).state = ram.state
    BY <1>1, EnvInType, {s} \in SUBSET Sessions, CheckTransientOK
  <2> QED
    BY <1>4, <1>8, <2>1 DEF RequestOnTransientSession
<1>9. CASE Server
  <2>1. CASE Start \/ EngineIdle
    BY <1>1, <1>4, <2>1 DEF Start, EngineIdle, Ram
  <2>2. CASE Stop
    <3>1. ProceedWithStop(ram) \/ ram' = ram
      BY <2>2 DEF Stop
    <3> QED
      BY <1>1, <1>3, <1>4, <3>1 DEF ProvedBefore
  <2>3. CASE CallbackTimerExpired
    <3> DEFINE a == HandleAccessoryServerStateUpdate(ram.setup, Env)
               r == [ram EXCEPT !.setup = a]
    <3>1. a \in SetupInfo
      BY EnvInType, RamInType, HandleAccessoryServerStateUpdateType
    <3>2. r = [ram EXCEPT !.setup = HandleAccessoryServerStateUpdate(@, Env)]
      BY RamInType DEF Ram
    <3>3. ram' = r \/ ram' = CompleteShutdown(r, Env)
      BY <2>3, <3>2 DEF CallbackTimerExpired
    <3> HIDE DEF a
    <3>4. r \in Ram /\ RamOK(r, store, {}) /\ r.state = ram.state
      BY <1>1, <3>1, WithSetup DEF Ram
    <3> HIDE DEF r
    <3>5. ProvedBefore(r)
      BY <3>4 DEF ProvedBefore
    <3> QED
      BY <1>2, <3>3, <3>4, <3>5, EnvInType
  <2> QED
    BY <1>9, <2>1, <2>2, <2>3 DEF Server
<1>10. CASE Setup
  <2>1. \E a : ram' = [ram EXCEPT !.setup = a]
    BY <1>10 DEF Setup, RefreshTimerExpired, NFCTimerExpired, EnterNFC,
                 ExitNFC, RefreshPayload, SetupInfoStep
  <2> QED
    BY <1>1, <1>4, <2>1 DEF Ram
<1>11. CASE Reboot
  BY <1>11 DEF Reboot, ZeroedRam, ProvedBefore
<1> QED
  BY <1>5, <1>6, <1>7, <1>8, <1>9, <1>10, <1>11 DEF Connection

\* A step that leaves the store alone and makes no prover: nothing happens in
\* terms of the contract, or the prover gives up.
LEMMA QuietStep ==
    ASSUME IInv, IInv', store' = store, ProvedBefore(ram')
    PROVE  [Contract!Next]_(Contract!vars)
<1>1. Prover' \in {Prover, NoSession}
  BY ProverAfter
<1> QED
  BY <1>1 DEF Contract!Next, Contract!GiveUp, Contract!vars

LEMMA ContractWrite ==
    ASSUME IInv, IInv', NEW s \in Sessions, Write(s)
    PROVE  [Contract!Next]_(Contract!vars)
<1>1. CASE WriteM5(s)
  <2> DEFINE q == Advance(BeginWrite(ram, Env, s, "M5", FALSE), s, 5)
  <2>1. /\ Accessible(s) /\ BeginWrite(ram, Env, s, "M5", FALSE).state[s] = 4
        /\ ram' = q
        /\ store' = [store EXCEPT !.owner = s]
    BY <1>1 DEF WriteM5, Expected
  <2>2. /\ store.owner = NoSession
        /\ ram.current = s /\ ram.state[s] = 4
        /\ q.current = s /\ q.state[s] = 5
    BY <2>1, BeginM5
  <2> HIDE DEF q
  <2>3. Prover = s /\ s # NoSession
    BY <2>2, NoSessionApart DEF Prover
  <2>4. Prover' = NoSession
    BY <2>1, <2>2 DEF Prover
  <2>5. store'.owner = s /\ store'.attempts = store.attempts
    BY <2>1 DEF IInv, Store
  <2>6. Contract!Pair
    BY <2>2, <2>3, <2>4, <2>5 DEF Contract!Pair
  <2> QED
    BY <2>6 DEF Contract!Next
<1>2. CASE ~WriteM5(s)
  <2>1. store' = store
    BY <1>2 DEF Write, WriteM1, WriteM3, WriteForgedM5, WriteM5Unstored,
                WriteRejected, WriteMalformed
  <2> QED
    BY <2>1, WriteProved, QuietStep
<1> QED
  BY <1>1, <1>2

\* M4 is an attempt that the contract allows.
LEMMA ContractCanAttempt ==
    ASSUME IInv, NEW s \in Sessions, ram.state[s] = 3
    PROVE  Contract!CanAttempt
<1>1. /\ store.owner = NoSession /\ store.attempts < MaxTries
      /\ ram.current = s
  BY DEF IInv, RamOK, StepsOwned
<1>2. Prover = NoSession
  BY <1>1 DEF Prover
<1> QED
  BY <1>1, <1>2 DEF Contract!CanAttempt

\* ReadM4 makes a prover of its own session only.
LEMMA ReadM4Prover ==
    ASSUME IInv, IInv', NEW s \in Sessions, ReadM4(s)
    PROVE  Prover' \in {s, NoSession}
<1> DEFINE p == Advance(ram, s, 4)
           q == [p EXCEPT !.setup = SetupInfoM4]
<1>1. /\ ram.state[s] = 3 /\ ram.proof = "good"
      /\ EndRead(s, q)
      /\ store' = [store EXCEPT !.attempts = 0]
  BY DEF ReadM4, ProofVerifies
<1>2. /\ ram \in Ram /\ RamOK(ram, store, {})
      /\ ram.current = s
  BY <1>1 DEF IInv, RamOK, StepsOwned
<1> HIDE DEF p, q
<1>3. /\ p \in Ram
      /\ p.open = ram.open /\ p.current = ram.current
      /\ p.error = ram.error /\ p.proof = ram.proof
      /\ p.state[s] = 4
      /\ \A t \in Sessions \ {s} : p.state[t] = ram.state[t]
  BY ZenonT(120), <1>2, StepNumbers, AdvanceOK DEF p
<1>4. s \in ram.open /\ store.owner = NoSession
  BY <1>1, <1>2, NoSessionApart DEF RamOK, StepsOwned
<1>5. RamOK(ram, store, {s})
  BY <1>2 DEF RamOK, StepsOwned
<1>6. /\ p.state[s] >= 1 /\ p.state[s] \notin {2, 3}
      /\ p.proof = "good"
      /\ \A t \in Sessions : p.error[t] => ram.error[t] \/ ram.current = t
  BY <1>1, <1>3
<1>7. RamOK(p, store, {})
  BY <1>2, <1>3, <1>4, <1>5, <1>6, StepOK
<1>8. q \in Ram /\ RamOK(q, store, {}) /\ q.state = p.state
  BY <1>3, <1>7, SetupInfoM4Type, WithSetup DEF Ram, q
<1>9. PICK writing : ram' = CloseUnsecuredSessions(q, Env, s, writing)
  BY <1>1 DEF EndRead
<1>10. \A t \in Sessions : ram'.state[t] \in {0, q.state[t]}
  BY <1>8, <1>9, EnvInType, CloseUnsecuredSessionsOK
<1>11. ASSUME NEW t \in Sessions, ram'.state[t] = 4
       PROVE  t = s
  <2>1. SUFFICES ASSUME t # s PROVE FALSE
    OBVIOUS
  <2>2. ram.state[t] = 4
    BY <1>3, <1>8, <1>10, <1>11, <2>1
  <2> QED
    BY <1>2, <2>1, <2>2 DEF RamOK, StepsOwned
<1>12. ram'.current \in Sessions \cup {NoSession}
  BY DEF IInv, RamOK, Ram
<1> QED
  BY <1>11, <1>12 DEF Prover

LEMMA ContractRead ==
    ASSUME IInv, IInv', NEW s \in Sessions, Read(s)
    PROVE  [Contract!Next]_(Contract!vars)
<1>1. ASSUME ram.state[s] = 3, Prover' \in {s, NoSession},
             store' = [store EXCEPT !.attempts = 0]
      PROVE  [Contract!Next]_(Contract!vars)
  <2>1. Contract!Prove(s)
    BY <1>1, ContractCanAttempt DEF Contract!Prove, IInv, Store
  <2> QED
    BY <2>1 DEF Contract!Next
<1>2. ASSUME ram.state[s] = 3, ~ReadM4(s) PROVE Prover' = NoSession
  <2>1. Prover' \in {Prover, NoSession}
    BY <1>2, ReadProved, ProverAfter
  <2>2. Prover = NoSession
    BY <1>2, ContractCanAttempt DEF Contract!CanAttempt
  <2> QED
    BY <2>1, <2>2
<1>3. CASE ReadM4(s)
  BY <1>1, <1>3, ReadM4Prover DEF ReadM4
<1>4. CASE ~ReadM4(s) /\ (ReadM4Transient(s) \/ ReadM4Unsent(s))
  BY <1>1, <1>2, <1>4 DEF ReadM4Transient, ReadM4Unsent
<1>5. CASE ~ReadM4(s) /\ \E counted \in BOOLEAN : ReadM4Refused(s, counted)
  <2>1. PICK counted \in BOOLEAN : ReadM4Refused(s, counted)
    BY <1>5
  <2>2. ram.state[s] = 3
    BY <2>1 DEF ReadM4Refused
  <2>3. CASE counted
    <3>1. store' = [store EXCEPT !.attempts = @ + 1]
      BY <2>1, <2>3 DEF ReadM4Refused
    <3>2. store'.owner = store.owner /\ store'.attempts = store.attempts + 1
      BY <3>1 DEF IInv, Store
    <3>3. Prover' = NoSession
      BY <1>2, <1>5, <2>2
    <3>4. Contract!FailAttempt
      BY <2>2, <3>2, <3>3, ContractCanAttempt
         DEF Contract!FailAttempt, Contract!CanAttempt
    <3> QED
      BY <3>4 DEF Contract!Next
  <2>4. CASE ~counted
    <3>1. store' = store
      BY <2>1, <2>4 DEF ReadM4Refused
    <3> QED
      BY <1>5, <3>1, ReadProved, QuietStep
  <2> QED
    BY <2>3, <2>4
<1>6. CASE ~ReadM4(s) /\ store' = store
  BY <1>6, ReadProved, QuietStep
<1> QED
  BY <1>3, <1>4, <1>5, <1>6
     DEF Read, ReadError, ReadM2, ReadM2Unsent, ReadM6, ReadM6Unidentified

LEMMA ContractOther ==
    ASSUME IInv, IInv', \/ \E s \in Sessions : Connection(s)
                        \/ Server
                        \/ Setup
                        \/ Reboot
    PROVE  [Contract!Next]_(Contract!vars)
<1>1. CASE store' = store
  BY <1>1, OtherProved, QuietStep
<1>2. CASE store' # store
  <2>1. PICK s \in Sessions : RemovePairings(s)
    BY <1>2 DEF Connection, OpenSession, CloseSession, VerifySession,
         RequestOnTransientSession, Server, Start, Stop, EngineIdle,
         CallbackTimerExpired, Setup, RefreshTimerExpired, NFCTimerExpired,
         EnterNFC, ExitNFC, RefreshPayload, SetupInfoStep, Reboot
  <2>2. store.owner # NoSession /\ store' = [store EXCEPT !.owner = NoSession]
    BY <2>1 DEF RemovePairings, Paired
  <2>3. store'.owner = NoSession /\ store'.attempts = store.attempts
    BY <2>2 DEF IInv, Store
  <2>4. Prover = NoSession
    BY <2>2, ProverIsInState4 DEF IInv, RamOK, StepsOwned
  <2>5. Prover' = NoSession
    BY <2>4, OtherProved, ProverAfter
  <2>6. Contract!Unpair
    BY <2>2, <2>3, <2>4, <2>5 DEF Contract!Unpair
  <2> QED
    BY <2>6 DEF Contract!Next
<1> QED
  BY <1>1, <1>2

\* Pair Setup is its contract and no more, with any number of sessions and any
\* limit on failed attempts.
THEOREM ImplementsContract == Spec => KeepsContract
<1>1. Init => Contract!Init
  BY DEF Init, ZeroedRam, Contract!Init, Prover
<1>2. IInv /\ IInv' /\ [Next]_vars => [Contract!Next]_(Contract!vars)
  <2> SUFFICES ASSUME IInv, IInv', [Next]_vars
               PROVE  [Contract!Next]_(Contract!vars)
    OBVIOUS
  <2>1. CASE UNCHANGED vars
    BY <2>1 DEF vars, Contract!vars, Prover
  <2>2. CASE Next
    BY <2>2, ContractWrite, ContractRead, ContractOther DEF Next
  <2> QED
    BY <2>1, <2>2
<1> QED
  BY <1>1, <1>2, Invariance, PTL DEF Spec, KeepsContract, Contract!Spec


-----------------------------------------------------------------------------
(***************************************************************************)
(* The setup info of a procedure.  Pinned is an invariant of the volatile  *)
(* state while no assertion has failed, and in the middle of a handler     *)
(* too: the setup info is sound; when done, it is what the state update    *)
(* makes it; the holder of the procedure has it locked, is at its last     *)
(* step if there is a pairing, and between M2 and the check of the proof   *)
(* finds the salt and verifier it was served, which are kept from another  *)
(* procedure only if this one asks for those.                              *)
(***************************************************************************)

Fine(r) == r.failed = "none" /\ r.setup.failed = "none"

AsServed(r) ==
    /\ r.setup.info
    /\ r.setup.served = r.current
    /\ r.setup.keep => "Split" \in r.flags /\ "Transient" \notin r.flags

HolderPinned(r, paired) ==
    /\ r.setup.lock
    /\ paired => r.state[r.current] = 5
    /\ r.state[r.current] \in {2, 3} => AsServed(r)
    /\ r.state[r.current] = 3 => r.proof # "none"

Pinned(r, paired, done) ==
    /\ Sound(r.setup, paired)
    /\ done => Updated(r.setup, paired)
    /\ r.current # NoSession => HolderPinned(r, paired)

Safe(r, paired, done) == Fine(r) => Pinned(r, paired, done)

SInv == Safe(ram, Paired, lifecycle = "Running" /\ ~updatePending)

LEMMA SameSafe ==
    ASSUME NEW r, NEW q, NEW paired, NEW done, Safe(r, paired, done),
           q.current = r.current, q.setup = r.setup, q.failed = r.failed,
           q.flags = r.flags, q.proof = r.proof,
           r.current # NoSession => q.state[r.current] = r.state[r.current]
    PROVE  Safe(q, paired, done)
BY DEF Safe, Fine, Pinned, HolderPinned, AsServed

\* Without a holder only the setup info itself counts.
LEMMA NoHolderSafe ==
    ASSUME NEW q, NEW paired, NEW done, q.current = NoSession,
           Fine(q) => /\ Sound(q.setup, paired)
                      /\ done => Updated(q.setup, paired)
    PROVE  Safe(q, paired, done)
BY DEF Safe, Pinned

LEMMA FailSafe ==
    ASSUME NEW r \in Ram, NEW holds \in BOOLEAN, NEW name \in Checks,
           NEW paired, NEW done, Safe(r, paired, done)
    PROVE  LET q == Fail(r, holds, name)
           IN  /\ Safe(q, paired, done)
               /\ Fine(q) => q = r /\ holds
<1>1. name # "none"
  BY DEF Checks
<1>2. CASE holds \/ r.failed # "none"
  BY <1>2 DEF Fail, Fine
<1>3. CASE ~(holds \/ r.failed # "none")
  <2>1. Fail(r, holds, name).failed = name
    BY <1>3 DEF Fail, Ram
  <2> QED
    BY <1>1, <2>1 DEF Safe, Fine
<1> QED
  BY <1>2, <1>3

-----------------------------------------------------------------------------
(***************************************************************************)
(* Ending a procedure.                                                     *)
(***************************************************************************)

LEMMA StopAndForgetSafe ==
    ASSUME NEW r \in Ram, NEW env \in EnvType, NEW S \in SUBSET Sessions,
           NEW done \in BOOLEAN, Safe(r, env.paired, done)
    PROVE  Safe(ForgetSteps(StopPairing(r, env, S), S), env.paired, done)
<1> DEFINE a == HandlePairingStop(r.setup, env, r.keep)
           p == StopPairing(r, env, S)
           q == ForgetSteps(p, S)
<1>1. p \in Ram /\ (r.current \in S => p.current = NoSession)
  BY StopPairingType
<1>2. CASE r.current \in S
  <2>1. p.setup = a /\ p.failed = r.failed
    BY <1>2 DEF StopPairing, Ram
  <2> HIDE DEF p
  <2>2. q.setup = p.setup /\ q.failed = p.failed /\ q.current = NoSession
    BY <1>1, <1>2 DEF ForgetSteps, Ram
  <2> HIDE DEF q
  <2>3. r.setup \in SetupInfo /\ r.keep \in BOOLEAN /\ r.current # NoSession
    BY <1>2, NoSessionApart DEF Ram
  <2>4. ASSUME Fine(q)
        PROVE  Sound(q.setup, env.paired) /\ (done => Updated(q.setup, env.paired))
    <3>1. a.failed = "none" /\ r.failed = "none" /\ q.setup = a
      BY <2>1, <2>2, <2>4 DEF Fine
    <3>2. r.setup.failed = "none"
      BY <2>3, <3>1, HandlePairingStopSticky
    <3>3. Pinned(r, env.paired, done)
      BY <3>1, <3>2 DEF Safe, Fine
    <3>4. Sound(r.setup, env.paired) /\ r.setup.lock
      BY <2>3, <3>3 DEF Pinned, HolderPinned
    <3>5. KeepsSound(r.setup, a, env.paired)
      BY <2>3, <3>1, <3>4, HandlePairingStopSound
    <3> QED
      BY <3>1, <3>3, <3>5 DEF Pinned, KeepsSound
  <2> QED
    BY <2>2, <2>4, NoHolderSafe DEF q, p
<1>3. CASE r.current \notin S
  <2>1. p = r
    BY <1>3 DEF StopPairing
  <2> HIDE DEF p
  <2>2. /\ q.setup = r.setup /\ q.failed = r.failed /\ q.current = r.current
        /\ q.flags = r.flags /\ q.proof = r.proof
    BY <2>1 DEF ForgetSteps, Ram
  <2>3. r.current # NoSession => q.state[r.current] = r.state[r.current]
    BY <1>3, <2>1, ForgetStepsType DEF Ram
  <2> HIDE DEF q
  <2> QED
    BY <2>2, <2>3, SameSafe DEF q, p
<1> QED
  BY <1>2, <1>3

LEMMA ResetForSessionSafe ==
    ASSUME NEW r \in Ram, NEW env \in EnvType, NEW s \in Sessions,
           NEW done \in BOOLEAN, Safe(r, env.paired, done)
    PROVE  Safe(ResetForSession(r, env, s), env.paired, done)
BY StopAndForgetSafe, {s} \in SUBSET Sessions DEF ResetForSession

LEMMA ReleaseSessionsSafe ==
    ASSUME NEW r \in Ram, NEW env \in EnvType, NEW S \in SUBSET Sessions,
           NEW done \in BOOLEAN, Safe(r, env.paired, done)
    PROVE  Safe(ReleaseSessions(r, env, S), env.paired, done)
<1> DEFINE p == ForgetSteps(StopPairing(r, env, S), S)
           q == ReleaseSessions(r, env, S)
<1>1. Safe(p, env.paired, done) /\ p \in Ram
  BY StopAndForgetSafe, StopPairingType, ForgetStepsType
<1>2. q = [p EXCEPT !.hap = [s \in Sessions |-> IF s \in S THEN "none" ELSE @[s]],
                    !.open = @ \ S]
  BY DEF ReleaseSessions
<1> HIDE DEF p, q
<1>3. /\ q.current = p.current /\ q.setup = p.setup /\ q.failed = p.failed
      /\ q.flags = p.flags /\ q.proof = p.proof /\ q.state = p.state
  BY <1>1, <1>2 DEF Ram
<1>4. Safe(q, env.paired, done)
  BY <1>1, <1>3, SameSafe
<1> QED
  BY <1>4 DEF q

LEMMA CheckTransientSafe ==
    ASSUME NEW r \in Ram, NEW env \in EnvType, NEW S,
           NEW paired, NEW done, Safe(r, paired, done)
    PROVE  Safe(CheckTransient(r, env, S), paired, done)
<1> DEFINE holds == ~env.paired \/ \A s \in S : r.hap[s] # "transient"
<1>1. holds \in BOOLEAN
  OBVIOUS
<1> HIDE DEF holds
<1>2. Safe(Fail(r, holds, "HAPSessionIsTransient"), paired, done)
  BY <1>1, FailSafe DEF Checks
<1> QED
  BY <1>2 DEF CheckTransient, holds

LEMMA CloseTransientSessionsSafe ==
    ASSUME NEW r \in Ram, NEW env \in EnvType, NEW s \in Sessions,
           NEW st, NEW T, RamOK(r, st, T),
           NEW done \in BOOLEAN, Safe(r, env.paired, done)
    PROVE  Safe(CloseTransientSessions(r, env, s), env.paired, done)
<1> DEFINE others == IF s \in IPSessions THEN IPSessions \ {s} ELSE {}
           S == {t \in others : r.hap[t] = "transient"}
           p == CheckTransient(r, env, others)
<1>1. others \in SUBSET Sessions /\ S \in SUBSET Sessions
  BY PairSetupAssumption
<1> HIDE DEF others
<1>2. p \in Ram
  BY <1>1, CheckTransientOK DEF RamOK
<1>3. Safe(p, env.paired, done)
  BY CheckTransientSafe
<1> HIDE DEF p, S
<1>4. Safe(ReleaseSessions(p, env, S), env.paired, done)
  BY <1>1, <1>2, <1>3, ReleaseSessionsSafe
<1> QED
  BY <1>4 DEF CloseTransientSessions, p, S, others

LEMMA CloseUnsecuredSessionsSafe ==
    ASSUME NEW r \in Ram, NEW env \in EnvType, NEW s \in Sessions, NEW writing,
           NEW st, NEW T, RamOK(r, st, T),
           NEW done \in BOOLEAN, Safe(r, env.paired, done)
    PROVE  Safe(CloseUnsecuredSessions(r, env, s, writing), env.paired, done)
<1> DEFINE others == IF s \in IPSessions THEN IPSessions \ {s} ELSE {}
           S == {t \in others \ writing : r.hap[t] = "verified" /\ ~env.paired}
           p == CheckTransient(r, env, others)
<1>1. others \in SUBSET Sessions /\ S \in SUBSET Sessions
  BY PairSetupAssumption
<1> HIDE DEF others
<1>2. p \in Ram
  BY <1>1, CheckTransientOK DEF RamOK
<1>3. Safe(p, env.paired, done)
  BY CheckTransientSafe
<1> HIDE DEF p, S
<1>4. Safe(ReleaseSessions(p, env, S), env.paired, done)
  BY <1>1, <1>2, <1>3, ReleaseSessionsSafe
<1> QED
  BY <1>4 DEF CloseUnsecuredSessions, p, S, others


-----------------------------------------------------------------------------
(***************************************************************************)
(* The setup info a request finds.                                         *)
(***************************************************************************)

LEMMA AbandonSafe ==
    ASSUME NEW r \in Ram, NEW env \in EnvType, NEW s \in Sessions,
           NEW st, NEW T, RamOK(r, st, T), r.current = s,
           NEW done \in BOOLEAN, Safe(r, env.paired, done)
    PROVE  LET q == Abandon(r, env, s)
           IN  Safe(q, env.paired, done) /\ q.current = NoSession
<1> DEFINE k == [r EXCEPT !.keep = TRUE]
           p == ResetForSession(k, env, s)
           a == [p.setup EXCEPT !.keep = FALSE]
           q == [p EXCEPT !.setup.keep = FALSE]
<1>1. k \in Ram /\ RamOK(k, st, T) /\ k.current = s
  BY KeepFlagOK DEF RamOK
<1>2. Safe(k, env.paired, done)
  <2>1. /\ k.current = r.current /\ k.setup = r.setup /\ k.failed = r.failed
        /\ k.flags = r.flags /\ k.proof = r.proof /\ k.state = r.state
    BY DEF Ram
  <2> HIDE DEF k
  <2> QED
    BY <2>1, SameSafe
<1> HIDE DEF k
<1>3. p \in Ram /\ p.current = NoSession
  BY <1>1, ResetForSessionOK DEF RamOK
<1>4. Safe(p, env.paired, done)
  BY <1>1, <1>2, ResetForSessionSafe
<1> HIDE DEF p
<1>5. q.current = NoSession /\ q.setup = a /\ q.failed = p.failed
  BY <1>3 DEF Ram
<1>6. p.setup \in SetupInfo
  BY <1>3 DEF Ram
<1> HIDE DEF q
<1>7. ASSUME Fine(q)
      PROVE  Sound(q.setup, env.paired) /\ (done => Updated(q.setup, env.paired))
  <2>1. a.failed = p.setup.failed
    BY <1>6, UnkeptSound DEF SetupInfo
  <2>2. Fine(p)
    BY <1>5, <1>7, <2>1 DEF Fine
  <2>3. Sound(p.setup, env.paired) /\ (done => Updated(p.setup, env.paired))
    BY <1>4, <2>2 DEF Safe, Pinned
  <2>4. Sound(a, env.paired) /\ (Updated(p.setup, env.paired) => Updated(a, env.paired))
    BY <1>6, <2>3, UnkeptSound
  <2> QED
    BY <1>5, <2>3, <2>4
<1>8. Safe(q, env.paired, done)
  BY <1>5, <1>7, NoHolderSafe
<1> QED
  BY <1>5, <1>8 DEF Abandon, q, p, k

LEMMA RestartSafe ==
    ASSUME NEW r \in Ram, NEW env \in EnvType, NEW s \in Sessions, NEW request,
           NEW st, NEW T, RamOK(r, st, T),
           NEW done \in BOOLEAN, Safe(r, env.paired, done)
    PROVE  Safe(Restart(r, env, s, request), env.paired, done)
<1>1. CASE r.current = s /\ request \in {"M1", "BadM1"}
  BY <1>1, AbandonSafe DEF Restart
<1>2. CASE ~(r.current = s /\ request \in {"M1", "BadM1"})
  BY <1>2 DEF Restart
<1> QED
  BY <1>1, <1>2

LEMMA TakeOverSafe ==
    ASSUME NEW r \in Ram, NEW env \in EnvType, NEW s \in Sessions, NEW timedOut,
           NEW st, NEW T, RamOK(r, st, T),
           NEW done \in BOOLEAN, Safe(r, env.paired, done)
    PROVE  Safe(TakeOver(r, env, s, timedOut), env.paired, done)
<1>1. CASE timedOut /\ r.current \notin {s, NoSession}
  <2>1. PICK c \in Sessions : c = r.current
    BY <1>1 DEF Ram
  <2>2. TakeOver(r, env, s, timedOut) = Abandon(r, env, c)
    BY <1>1, <2>1 DEF TakeOver
  <2> QED
    BY <2>1, <2>2, AbandonSafe
<1>2. CASE ~(timedOut /\ r.current \notin {s, NoSession})
  BY <1>2 DEF TakeOver
<1> QED
  BY <1>1, <1>2

LEMMA ClaimSafe ==
    ASSUME NEW r \in Ram, NEW env \in EnvType, NEW s \in Sessions, NEW timedOut,
           NEW st, RamOK(r, st, {}),
           NEW done \in BOOLEAN, Safe(r, env.paired, done)
    PROVE  Safe(Claim(r, env, s, timedOut), env.paired, done)
<1> DEFINE p == TakeOver(r, env, s, timedOut)
           a == HandlePairingStart(p.setup, env)
           q == [[p EXCEPT !.current = s] EXCEPT !.setup = a]
<1>1. /\ p \in Ram
      /\ \A t \in Sessions : p.state[t] \in {0, r.state[t]}
  BY TakeOverOK DEF RamOK
<1>2. Safe(p, env.paired, done)
  BY TakeOverSafe
<1> HIDE DEF p
<1>4. CASE ~(r.state[s] = 0 /\ ~env.paired)
  BY <1>4 DEF Claim
<1>5. CASE r.state[s] = 0 /\ ~env.paired /\ p.current # NoSession
  <2>1. Claim(r, env, s, timedOut) = p
    BY <1>5 DEF Claim, p
  <2> QED
    BY <1>2, <2>1
<1>6. CASE r.state[s] = 0 /\ ~env.paired /\ p.current = NoSession
  <2>1. Claim(r, env, s, timedOut) = q
    BY <1>1, <1>6 DEF Claim, p, a, Ram
  <2>2. /\ q.current = s /\ q.setup = a /\ q.failed = p.failed
        /\ q.state = p.state
    BY <1>1 DEF Ram
  <2>3. p.state[s] = 0
    BY <1>1, <1>6
  <2> HIDE DEF q
  <2>4. ASSUME Fine(q)
        PROVE  Pinned(q, env.paired, done)
    <3>1. a.failed = "none" /\ p.failed = "none" /\ p.setup \in SetupInfo
      BY <1>1, <2>2, <2>4 DEF Fine, Ram
    <3>2. p.setup.failed = "none"
      BY <3>1, TRUE \in BOOLEAN, PrepareSticky DEF HandlePairingStart, a
    <3>3. Pinned(p, env.paired, done)
      BY <1>2, <3>1, <3>2 DEF Safe, Fine
    <3>4. Sound(p.setup, env.paired)
      BY <3>3 DEF Pinned
    <3>5. KeepsSound(p.setup, a, env.paired) /\ a.lock
      BY <3>1, <3>4, HandlePairingStartSound DEF a
    <3> HIDE DEF a
    <3>6. HolderPinned(q, env.paired)
      BY <1>6, <2>2, <2>3, <3>5 DEF HolderPinned
    <3> QED
      BY <2>2, <3>3, <3>5, <3>6 DEF Pinned, KeepsSound
  <2> QED
    BY <2>1, <2>4 DEF Safe
<1> QED
  BY <1>4, <1>5, <1>6

LEMMA BeginWriteSafe ==
    ASSUME NEW r \in Ram, NEW env \in EnvType, NEW s \in Sessions,
           NEW request, NEW timedOut,
           NEW st, RamOK(r, st, {}), s \in r.open,
           NEW done \in BOOLEAN, Safe(r, env.paired, done)
    PROVE  Safe(BeginWrite(r, env, s, request, timedOut), env.paired, done)
<1> DEFINE c == CloseTransientSessions(r, env, s)
           p == Restart(c, env, s, request)
<1>1. RamOK(c, st, {}) /\ c \in Ram
  BY CloseTransientSessionsOK DEF RamOK
<1>2. Safe(c, env.paired, done)
  BY CloseTransientSessionsSafe
<1> HIDE DEF c
<1>3. RamOK(p, st, {}) /\ p \in Ram
  BY <1>1, RestartOK DEF RamOK
<1>4. Safe(p, env.paired, done)
  BY <1>1, <1>2, RestartSafe
<1> HIDE DEF p
<1>5. Safe(Claim(p, env, s, timedOut), env.paired, done)
  BY <1>3, <1>4, ClaimSafe
<1> QED
  BY <1>5 DEF BeginWrite, p, c


-----------------------------------------------------------------------------
(***************************************************************************)
(* Requests.  Every action keeps to SInv, given IInv.                      *)
(***************************************************************************)

Done == lifecycle = "Running" /\ ~updatePending

LEMMA SafeNow ==
    ASSUME IInv, SInv
    PROVE  /\ Done \in BOOLEAN
           /\ Safe(ram, Env.paired, Done)
           /\ ram \in Ram /\ RamOK(ram, store, {}) /\ Env \in EnvType
           /\ Env.paired = Paired
           /\ Up => Fine(ram) /\ Pinned(ram, Paired, Done)
BY EnvInType DEF SInv, Done, Env, IInv, RamOK, Up, Fine, Safe

LEMMA BeginSafe ==
    ASSUME IInv, SInv, NEW s \in Sessions, Accessible(s),
           NEW request, NEW timedOut
    PROVE  LET r == BeginWrite(ram, Env, s, request, timedOut)
           IN  /\ r \in Ram /\ RamOK(r, store, {s})
               /\ Safe(r, Paired, Done)
<1> DEFINE r == BeginWrite(ram, Env, s, request, timedOut)
<1>1. s \in ram.open
  BY DEF Accessible
<1>2. RamOK(r, store, {s})
  BY <1>1, SafeNow, BeginWriteOK
<1>3. Safe(r, Env.paired, Done)
  BY <1>1, SafeNow, BeginWriteSafe
<1> HIDE DEF r
<1> QED
  BY <1>2, <1>3, SafeNow DEF RamOK, r

\* What is left alone: the pairing, and that the state update is done.
LEMMA SameDone ==
    ASSUME UNCHANGED <<store, lifecycle, updatePending>>, Safe(ram', Paired, Done)
    PROVE  SInv'
BY DEF SInv, Done, Paired

LEMMA SafeWriteM1 ==
    ASSUME IInv, SInv, NEW s \in Sessions, NEW method \in Methods \ {"none"},
           NEW flags \in SUBSET PairingFlags, NEW timedOut \in BOOLEAN,
           WriteM1(s, method, flags, timedOut)
    PROVE  SInv'
<1> DEFINE r == BeginWrite(ram, Env, s, "M1", timedOut)
           q == Advance(r, s, 1)
<1>1. r \in Ram /\ RamOK(r, store, {s}) /\ Safe(r, Paired, Done)
  BY BeginSafe DEF WriteM1
<1>2. r.state[s] = 0 /\ ram' = ProcessM1(r, s, method, flags)
  BY DEF WriteM1, Expected
<1> HIDE DEF r
<1>3. /\ q \in Ram
      /\ q.current = r.current /\ q.proof = r.proof /\ q.setup = r.setup
      /\ q.state[s] = 1
      /\ \A t \in Sessions \ {s} : q.state[t] = r.state[t]
  BY <1>1, 1 \in 0 .. 5, AdvanceOK
<1>4. q.failed = r.failed /\ q.flags = r.flags
  BY <1>1 DEF Advance, Ram
<1> DEFINE methods == [q.method EXCEPT ![s] = method]
           present == IF r.current = s THEN flags ELSE q.flags
<1>5. ram' = [q EXCEPT !.method = methods, !.flags = present]
  BY <1>2, <1>1 DEF ProcessM1, Ram
<1> HIDE DEF q, methods
<1>6. /\ ram'.current = q.current /\ ram'.setup = q.setup
      /\ ram'.failed = q.failed /\ ram'.proof = q.proof
      /\ ram'.state = q.state /\ ram'.flags = present
  BY <1>3, <1>5 DEF Ram
<1>7. Safe(ram', Paired, Done)
  <2>1. CASE r.current = s
    <3>1. ASSUME Fine(ram') PROVE Pinned(ram', Paired, Done)
      <4>1. Pinned(r, Paired, Done)
        BY <1>1, <1>3, <1>4, <1>6, <3>1 DEF Safe, Fine
      <4>2. HolderPinned(r, Paired) /\ ~Paired
        BY <1>2, <2>1, <4>1, NoSessionApart DEF Pinned, HolderPinned
      <4>3. ram'.state[ram'.current] = 1 /\ ram'.setup = r.setup
        BY <1>3, <1>6, <2>1
      <4>4. HolderPinned(ram', Paired)
        BY <4>2, <4>3 DEF HolderPinned
      <4> QED
        BY <4>1, <4>3, <4>4 DEF Pinned
    <3> QED
      BY <3>1 DEF Safe
  <2>2. CASE r.current # s
    <3>1. r.current # NoSession => ram'.state[r.current] = r.state[r.current]
      BY <1>1, <1>3, <1>6, <2>2 DEF Ram
    <3>2. ram'.flags = r.flags
      BY <1>4, <1>6, <2>2
    <3> QED
      BY <1>1, <1>3, <1>4, <1>6, <3>1, <3>2, SameSafe
  <2> QED
    BY <2>1, <2>2
<1> QED
  BY <1>7, SameDone DEF WriteM1

LEMMA SafeWriteM3 ==
    ASSUME IInv, SInv, NEW s \in Sessions, NEW proof \in Proofs \ {"none"},
           WriteM3(s, proof)
    PROVE  SInv'
<1> DEFINE r == BeginWrite(ram, Env, s, "M3", FALSE)
           q == Advance(r, s, 3)
<1>1. r \in Ram /\ RamOK(r, store, {s}) /\ Safe(r, Paired, Done)
  BY BeginSafe DEF WriteM3
<1>2. r.state[s] = 2 /\ ram' = [q EXCEPT !.proof = proof]
  BY DEF WriteM3, Expected
<1> HIDE DEF r
<1>3. /\ q \in Ram
      /\ q.current = r.current /\ q.setup = r.setup
      /\ q.state[s] = 3
  BY <1>1, 3 \in 0 .. 5, AdvanceOK
<1>4. q.failed = r.failed /\ q.flags = r.flags
  BY <1>1 DEF Advance, Ram
<1> HIDE DEF q
<1>5. /\ ram'.current = r.current /\ ram'.setup = r.setup
      /\ ram'.failed = r.failed /\ ram'.flags = r.flags
      /\ ram'.state = q.state /\ ram'.proof = proof
  BY <1>2, <1>3, <1>4 DEF Ram
<1>6. r.current = s /\ ~Paired
  BY <1>1, <1>2 DEF RamOK, StepsOwned, Paired
<1>7. ASSUME Fine(ram') PROVE Pinned(ram', Paired, Done)
  <2>1. Pinned(r, Paired, Done)
    BY <1>1, <1>5, <1>7 DEF Safe, Fine
  <2>2. r.setup.lock /\ AsServed(r)
    BY <1>2, <1>6, <2>1, NoSessionApart DEF Pinned, HolderPinned
  <2>3. AsServed(ram')
    BY <1>5, <2>2 DEF AsServed
  <2>4. HolderPinned(ram', Paired)
    BY <1>5, <1>6, <2>2, <2>3 DEF HolderPinned
  <2> QED
    BY <1>5, <2>1, <2>4 DEF Pinned
<1> QED
  BY <1>7, SameDone DEF WriteM3, Safe

\* The pairing is stored while the setup code is locked.
LEMMA SafeWriteM5 ==
    ASSUME IInv, SInv, NEW s \in Sessions, WriteM5(s)
    PROVE  SInv'
<1> DEFINE r == BeginWrite(ram, Env, s, "M5", FALSE)
           q == Advance(r, s, 5)
<1>1. r \in Ram /\ RamOK(r, store, {s}) /\ Safe(r, Paired, Done)
  BY BeginSafe DEF WriteM5
<1>2. r.state[s] = 4 /\ ram' = q
  BY DEF WriteM5, Expected
<1> HIDE DEF r
<1>3. q.current = r.current /\ q.setup = r.setup /\ q.state[s] = 5
  BY <1>1, 5 \in 0 .. 5, AdvanceOK
<1>4. q.failed = r.failed
  BY <1>1 DEF Advance, Ram
<1> HIDE DEF q
<1>5. r.current = s /\ ~Paired
  BY <1>1, <1>2 DEF RamOK, StepsOwned, Paired
<1>6. /\ Paired' = TRUE
      /\ ~(lifecycle' = "Running" /\ ~updatePending')
  <2>1. store' = [store EXCEPT !.owner = s] /\ updatePending' = (updatePending \/ ~Paired)
    BY DEF WriteM5
  <2>2. store'.owner = s
    BY <2>1 DEF IInv, Store
  <2> QED
    BY <1>5, <2>1, <2>2, NoSessionApart DEF Paired
<1>7. ASSUME Fine(ram') PROVE Pinned(ram', TRUE, FALSE)
  <2>1. Pinned(r, Paired, Done)
    BY <1>1, <1>2, <1>3, <1>4, <1>7 DEF Safe, Fine
  <2>2. Sound(r.setup, FALSE) /\ r.setup.lock /\ r.setup \in SetupInfo
    BY <1>1, <1>5, <2>1, NoSessionApart DEF Pinned, HolderPinned, Sound, Ram
  <2>3. Sound(r.setup, TRUE)
    BY <2>2, PairedSound
  <2>4. HolderPinned(ram', TRUE)
    BY <1>2, <1>3, <1>5, <2>2 DEF HolderPinned
  <2> QED
    BY <1>2, <1>3, <2>3, <2>4 DEF Pinned
<1>8. Safe(ram', TRUE, FALSE)
  BY <1>7 DEF Safe
<1> QED
  BY <1>6, <1>8 DEF SInv

\* Session s advances to a step at which nothing is asked of the setup info.
LEMMA AdvanceSafe ==
    ASSUME NEW r \in Ram, NEW q, NEW s \in Sessions, NEW done,
           Safe(r, FALSE, done), r.current = s,
           q.current = s, q.setup = r.setup, q.failed = r.failed,
           q.state[s] \notin {2, 3}
    PROVE  Safe(q, FALSE, done)
<1> SUFFICES ASSUME Fine(q) PROVE Pinned(q, FALSE, done)
  BY DEF Safe
<1>1. Pinned(r, FALSE, done)
  BY DEF Safe, Fine
<1>2. q.setup.lock
  BY <1>1, NoSessionApart DEF Pinned, HolderPinned
<1>3. HolderPinned(q, FALSE)
  BY <1>2 DEF HolderPinned
<1> QED
  BY <1>1, <1>3 DEF Pinned

LEMMA SafeWriteForgedM5 ==
    ASSUME IInv, SInv, NEW s \in Sessions, WriteForgedM5(s)
    PROVE  SInv'
<1> DEFINE r == BeginWrite(ram, Env, s, "M5", FALSE)
           q == Advance(r, s, 5)
<1>1. r \in Ram /\ RamOK(r, store, {s}) /\ Safe(r, Paired, Done)
  BY BeginSafe DEF WriteForgedM5
<1>2. r.state[s] = 4 /\ ram' = [q EXCEPT !.error[s] = TRUE]
  BY DEF WriteForgedM5, Expected
<1> HIDE DEF r
<1>3. q \in Ram /\ q.current = r.current /\ q.setup = r.setup /\ q.state[s] = 5
  BY <1>1, 5 \in 0 .. 5, AdvanceOK
<1>4. q.failed = r.failed
  BY <1>1 DEF Advance, Ram
<1> HIDE DEF q
<1>5. r.current = s /\ Paired = FALSE
  BY <1>1, <1>2 DEF RamOK, StepsOwned, Paired
<1>6. /\ ram'.current = r.current /\ ram'.setup = r.setup
      /\ ram'.failed = r.failed /\ ram'.state = q.state
  BY <1>2, <1>3, <1>4 DEF Ram
<1>7. ram'.state[s] \notin {2, 3}
  BY <1>3, <1>6
<1>8. Safe(ram', FALSE, Done)
  BY <1>1, <1>5, <1>6, <1>7, AdvanceSafe
<1> QED
  BY <1>5, <1>8, SameDone DEF WriteForgedM5

LEMMA SafeWriteM5Unstored ==
    ASSUME IInv, SInv, NEW s \in Sessions, WriteM5Unstored(s)
    PROVE  SInv'
<1> DEFINE r == BeginWrite(ram, Env, s, "M5", FALSE)
           q == Advance(r, s, 5)
<1>1. r \in Ram
  BY BeginSafe DEF WriteM5Unstored
<1>2. ram' = Fail(q, FALSE, "ProcessM5")
  BY DEF WriteM5Unstored
<1> HIDE DEF r
<1>3. q \in Ram
  BY <1>1, 5 \in 0 .. 5, AdvanceOK
<1> HIDE DEF q
<1>4. ~Fine(ram')
  BY <1>2, <1>3 DEF Fail, Fine, Ram
<1> QED
  BY <1>4 DEF SInv, Safe

LEMMA SafeWriteRejected ==
    ASSUME IInv, SInv, NEW s \in Sessions, NEW request \in Requests,
           NEW timedOut \in BOOLEAN, WriteRejected(s, request, timedOut)
    PROVE  SInv'
<1> DEFINE r == BeginWrite(ram, Env, s, request, timedOut)
<1>1. r \in Ram /\ Safe(r, Paired, Done)
  BY BeginSafe DEF WriteRejected
<1>2. ram' = ResetForSession(r, Env, s)
  BY DEF WriteRejected
<1> HIDE DEF r
<1>3. Safe(ResetForSession(r, Env, s), Env.paired, Done)
  BY <1>1, SafeNow, ResetForSessionSafe
<1> QED
  BY <1>2, <1>3, SafeNow, SameDone DEF WriteRejected

LEMMA SafeWriteMalformed ==
    ASSUME IInv, SInv, NEW s \in Sessions, WriteMalformed(s)
    PROVE  SInv'
<1> DEFINE r == CloseTransientSessions(ram, Env, s)
<1>1. RamOK(r, store, {}) /\ r \in Ram
  BY SafeNow, CloseTransientSessionsOK DEF RamOK
<1>2. Safe(r, Env.paired, Done)
  BY SafeNow, CloseTransientSessionsSafe
<1>3. ram' = ResetForSession(r, Env, s)
  BY DEF WriteMalformed
<1> HIDE DEF r
<1>4. Safe(ResetForSession(r, Env, s), Env.paired, Done)
  BY <1>1, <1>2, SafeNow, ResetForSessionSafe
<1> QED
  BY <1>3, <1>4, SafeNow, SameDone DEF WriteMalformed


-----------------------------------------------------------------------------
(***************************************************************************)
(* Responses.                                                              *)
(***************************************************************************)

LEMMA EndReadSafe ==
    ASSUME IInv, SInv, NEW s \in Sessions, NEW q \in Ram, NEW st,
           RamOK(q, st, {}), Safe(q, Paired, Done), EndRead(s, q),
           store'.owner = store.owner
    PROVE  SInv'
<1>1. PICK writing : ram' = CloseUnsecuredSessions(q, Env, s, writing)
  BY DEF EndRead
<1>2. Safe(CloseUnsecuredSessions(q, Env, s, writing), Env.paired, Done)
  BY SafeNow, CloseUnsecuredSessionsSafe
<1>3. Safe(ram', Paired, Done)
  BY <1>1, <1>2, SafeNow
<1>4. Paired' = Paired /\ UNCHANGED <<lifecycle, updatePending>>
  BY DEF EndRead, Paired
<1> QED
  BY <1>3, <1>4 DEF SInv, Done

LEMMA CanReadUp == ASSUME NEW s, CanRead(s) PROVE Up
BY DEF CanRead

\* Resetting a session ends a read from any state that is safe.
LEMMA ResetEndSafe ==
    ASSUME IInv, SInv, NEW s \in Sessions, NEW r \in Ram, NEW st,
           RamOK(r, st, {}), Safe(r, Paired, Done),
           EndRead(s, ResetForSession(r, Env, s)),
           store'.owner = store.owner
    PROVE  SInv'
<1> DEFINE q == ResetForSession(r, Env, s)
<1>1. RamOK(q, st, {} \ {s})
  BY SafeNow, ResetForSessionOK
<1>2. Safe(q, Env.paired, Done)
  BY SafeNow, ResetForSessionSafe
<1> HIDE DEF q
<1>3. q \in Ram /\ RamOK(q, st, {}) /\ Safe(q, Paired, Done) /\ EndRead(s, q)
  BY <1>1, <1>2, {} \ {s} = {}, SafeNow DEF RamOK, q
<1> QED
  BY <1>3, EndReadSafe

LEMMA SafeReadError ==
    ASSUME IInv, SInv, NEW s \in Sessions, ReadError(s)
    PROVE  SInv'
BY SafeNow, ResetEndSafe DEF ReadError

LEMMA SafeReadM6 ==
    ASSUME IInv, SInv, NEW s \in Sessions, ReadM6(s)
    PROVE  SInv'
BY SafeNow, ResetEndSafe DEF ReadM6

LEMMA SafeReadM6Unidentified ==
    ASSUME IInv, SInv, NEW s \in Sessions, ReadM6Unidentified(s)
    PROVE  SInv'
<1> DEFINE q == Fail(ram, FALSE, "GetM6")
<1>1. RamOK(q, store, {}) /\ q \in Ram
  BY SafeNow, FailOK DEF Checks, RamOK
<1>2. Safe(q, Paired, Done)
  BY SafeNow, FailSafe DEF Checks
<1>3. EndRead(s, q) /\ store' = store
  BY DEF ReadM6Unidentified
<1> HIDE DEF q
<1> QED
  BY <1>1, <1>2, <1>3, EndReadSafe

\* The salt and verifier that M2 is answered from are locked, and this session's.
LEMMA ServedM2 ==
    ASSUME IInv, SInv, NEW s \in Sessions, Up, ram.current = s, ~Paired
    PROVE  LET a == SetupInfoM2(s)
           IN  /\ a \in SetupInfo
               /\ a.failed = "none" =>
                     /\ Sound(a, Paired) /\ (Done => Updated(a, Paired))
                     /\ a.lock /\ a.info /\ a.served = s
                     /\ a.keep => RestorePreviousM2(s)
<1> DEFINE g == GetSetupInfo(ram.setup, Env, RestorePreviousM2(s))
           a == SetupInfoM2(s)
<1>1. ram.setup \in SetupInfo /\ Env \in EnvType /\ RestorePreviousM2(s) \in BOOLEAN
  BY SafeNow DEF Ram, RestorePreviousM2
<1>2. g \in SetupInfo
  BY <1>1, GetSetupInfoType
<1>3. /\ a.failed = g.failed /\ a.lock = g.lock /\ a.info = g.info
      /\ a.code = g.code /\ a.refresh = g.refresh /\ a.nfc = g.nfc
      /\ a.served = s /\ a.keep = g.keep
  BY <1>2 DEF SetupInfoM2, SetupInfo
<1>4. Sound(ram.setup, Paired) /\ (Done => Updated(ram.setup, Paired)) /\ ram.setup.lock
  BY SafeNow, NoSessionApart DEF Pinned, HolderPinned
<1>5. a \in SetupInfo
  BY SetupInfoM2Type
<1> HIDE DEF a
<1>6. ASSUME a.failed = "none"
      PROVE  /\ Sound(a, Paired) /\ (Done => Updated(a, Paired))
             /\ a.lock /\ a.info /\ a.served = s
             /\ a.keep => RestorePreviousM2(s)
  <2>1. g.failed = "none"
    BY <1>3, <1>6
  <2>2. Sound(ram.setup, Env.paired)
    BY <1>4, SafeNow
  <2>3. /\ KeepsSound(ram.setup, g, Env.paired)
        /\ g.lock /\ g.info
        /\ g.keep => RestorePreviousM2(s)
    BY <1>1, <1>4, <2>1, <2>2, GetSetupInfoSound
  <2>4. Sound(g, Paired) /\ (Done => Updated(g, Paired))
    BY <1>4, <2>3, SafeNow DEF KeepsSound
  <2> HIDE DEF g
  <2>5. Sound(a, Paired) /\ (Done => Updated(a, Paired))
    BY <1>3, <2>4 DEF Sound, Updated, Available
  <2> QED
    BY <1>3, <2>3, <2>5
<1> QED
  BY <1>5, <1>6 DEF a

LEMMA SafeM2 ==
    ASSUME IInv, SInv, NEW s \in Sessions, ReadM2(s)
    PROVE  Safe([Advance(ram, s, 2) EXCEPT !.setup = SetupInfoM2(s)], Paired, Done)
<1> DEFINE p == Advance(ram, s, 2)
           a == SetupInfoM2(s)
           q == [p EXCEPT !.setup = a]
<1>1. q.state[s] = 2
  BY AnswerM2
<1>2. ram.current = s /\ ~Paired /\ Up
  BY DEF ReadM2, RefusesM2, CanRead
<1>3. p \in Ram /\ p.current = s
  BY <1>2, SafeNow, 2 \in 0 .. 5, AdvanceOK
<1>4. p.flags = ram.flags
  BY SafeNow DEF Advance, Ram
<1> HIDE DEF p
<1>5. q.current = s /\ q.setup = a /\ q.flags = ram.flags
  BY <1>3, <1>4 DEF Ram
<1>6. /\ a.failed = "none" =>
            /\ Sound(a, Paired) /\ (Done => Updated(a, Paired))
            /\ a.lock /\ a.info /\ a.served = s
            /\ a.keep => RestorePreviousM2(s)
  BY <1>2, ServedM2
<1> HIDE DEF q, a
<1>7. ASSUME Fine(q) PROVE Pinned(q, Paired, Done)
  <2>1. /\ Sound(a, Paired) /\ (Done => Updated(a, Paired))
        /\ a.lock /\ a.info /\ a.served = s
        /\ a.keep => RestorePreviousM2(s)
    BY <1>5, <1>6, <1>7 DEF Fine
  <2>2. AsServed(q)
    BY <1>5, <2>1 DEF AsServed, RestorePreviousM2
  <2>3. HolderPinned(q, Paired)
    BY <1>1, <1>2, <1>5, <2>1, <2>2 DEF HolderPinned
  <2> QED
    BY <1>5, <2>1, <2>3 DEF Pinned
<1> QED
  BY <1>7 DEF Safe, q, p, a

LEMMA SafeReadM2 ==
    ASSUME IInv, SInv, NEW s \in Sessions, ReadM2(s)
    PROVE  SInv'
<1> DEFINE q == [Advance(ram, s, 2) EXCEPT !.setup = SetupInfoM2(s)]
<1>1. EndRead(s, q) /\ q \in Ram /\ RamOK(q, store, {})
  BY AnswerM2
<1>2. Safe(q, Paired, Done) /\ store' = store
  BY SafeM2 DEF ReadM2
<1> HIDE DEF q
<1> QED
  BY <1>1, <1>2, EndReadSafe

LEMMA SafeM2Unsent ==
    ASSUME IInv, SInv, NEW s \in Sessions, ReadM2Unsent(s)
    PROVE  Safe([ram EXCEPT !.setup = SetupInfoM2(s)], Paired, Done)
<1> DEFINE a == SetupInfoM2(s)
           q == [ram EXCEPT !.setup = a]
<1>1. ram.current = s /\ Paired = FALSE /\ Up /\ ram.state[s] = 1
  BY DEF ReadM2Unsent, RefusesM2, CanRead, Paired
<1>2. /\ a.failed = "none" =>
            /\ Sound(a, Paired) /\ (Done => Updated(a, Paired)) /\ a.lock
  BY <1>1, ServedM2
<1> HIDE DEF a
<1>3. q.current = s /\ q.setup = a /\ q.state = ram.state
  BY <1>1, SafeNow DEF Ram
<1> HIDE DEF q
<1>4. ASSUME Fine(q) PROVE Pinned(q, Paired, Done)
  <2>1. Sound(a, Paired) /\ (Done => Updated(a, Paired)) /\ a.lock
    BY <1>2, <1>3, <1>4 DEF Fine
  <2>2. HolderPinned(q, Paired)
    BY <1>1, <1>3, <2>1 DEF HolderPinned
  <2> QED
    BY <1>3, <2>1, <2>2 DEF Pinned
<1> QED
  BY <1>4 DEF Safe, q, a

LEMMA SafeReadM2Unsent ==
    ASSUME IInv, SInv, NEW s \in Sessions, ReadM2Unsent(s)
    PROVE  SInv'
<1> DEFINE q == [ram EXCEPT !.setup = SetupInfoM2(s)]
<1>1. EndRead(s, ResetForSession(q, Env, s)) /\ store' = store
  BY DEF ReadM2Unsent
<1>2. q \in Ram /\ RamOK(q, store, {})
  BY SetupInfoM2Type, SafeNow, WithSetup
<1>3. Safe(q, Paired, Done)
  BY SafeM2Unsent
<1> HIDE DEF q
<1> QED
  BY <1>1, <1>2, <1>3, ResetEndSafe

\* At M4 the setup info is the one that M2 served, whatever was kept.
LEMMA ServedM4 ==
    ASSUME IInv, SInv, NEW s \in Sessions, Up, ram.state[s] = 3
    PROVE  /\ SetupInfoM4 = ram.setup
           /\ ram.setup.served = s
           /\ ram.proof # "none"
           /\ ram.current = s /\ Paired = FALSE
<1>1. ram.current = s /\ Paired = FALSE
  BY DEF IInv, RamOK, StepsOwned, Paired
<1>2. AsServed(ram) /\ ram.proof # "none"
  BY <1>1, SafeNow, NoSessionApart DEF Pinned, HolderPinned
<1>3. ram.setup.info /\ (ram.setup.keep => RestorePreviousM4)
  BY <1>2 DEF AsServed, RestorePreviousM4
<1>4. SetupInfoM4 = ram.setup
  BY <1>3, GetSetupInfoSame DEF SetupInfoM4
<1> QED
  BY <1>1, <1>2, <1>4 DEF AsServed

LEMMA SafeReadM4Refused ==
    ASSUME IInv, SInv, NEW s \in Sessions, NEW counted \in BOOLEAN,
           ReadM4Refused(s, counted)
    PROVE  SInv'
<1>1. /\ Up /\ ram.state[s] = 3
      /\ EndRead(s, ResetForSession([ram EXCEPT !.setup = SetupInfoM4], Env, s))
      /\ store'.owner = store.owner
  BY DEF ReadM4Refused, CanRead, IInv, Store
<1>2. [ram EXCEPT !.setup = SetupInfoM4] = ram
  BY <1>1, ServedM4, SafeNow DEF Ram
<1> QED
  BY <1>1, <1>2, SafeNow, ResetEndSafe

LEMMA SafeReadM4Unsent ==
    ASSUME IInv, SInv, NEW s \in Sessions, ReadM4Unsent(s)
    PROVE  SInv'
<1>1. /\ Up /\ ram.state[s] = 3
      /\ EndRead(s, ResetForSession([ram EXCEPT !.setup = SetupInfoM4], Env, s))
      /\ store'.owner = store.owner
  BY DEF ReadM4Unsent, CanRead, IInv, Store
<1>2. [ram EXCEPT !.setup = SetupInfoM4] = ram
  BY <1>1, ServedM4, SafeNow DEF Ram
<1> QED
  BY <1>1, <1>2, SafeNow, ResetEndSafe

LEMMA TransientM4 ==
    ASSUME IInv, SInv, NEW s \in Sessions, ReadM4Transient(s)
    PROVE  LET q == [ram EXCEPT !.hap[s] = "transient", !.setup = SetupInfoM4,
                                !.keep = @ \/ "Split" \in ram.flags]
           IN  /\ q \in Ram /\ RamOK(q, store, {}) /\ Safe(q, Paired, Done)
               /\ q.current = ram.current /\ q.setup = ram.setup
               /\ q.failed = ram.failed /\ q.state = ram.state
<1> DEFINE q == [ram EXCEPT !.hap[s] = "transient", !.setup = SetupInfoM4,
                            !.keep = @ \/ "Split" \in ram.flags]
           hap == [ram.hap EXCEPT ![s] = "transient"]
           keep == ram.keep \/ "Split" \in ram.flags
<1>1. Up /\ ram.state[s] = 3
  BY DEF ReadM4Transient, CanRead
<1>2. SetupInfoM4 = ram.setup
  BY <1>1, ServedM4
<1>3. q = [ram EXCEPT !.hap = hap, !.setup = SetupInfoM4, !.keep = keep]
  BY SafeNow DEF Ram
<1>4. hap \in [Sessions -> {"none", "transient", "verified"}] /\ keep \in BOOLEAN
  BY SafeNow DEF Ram
<1>5. SetupInfoM4 \in SetupInfo
  BY SetupInfoM4Type
<1> HIDE DEF q, hap, keep
<1>6. /\ q \in Ram
      /\ q.open = ram.open /\ q.state = ram.state /\ q.error = ram.error
      /\ q.current = ram.current /\ q.proof = ram.proof
      /\ q.setup = SetupInfoM4 /\ q.failed = ram.failed /\ q.flags = ram.flags
  BY <1>3, <1>4, <1>5, SafeNow DEF Ram
<1>7. RamOK(q, store, {})
  BY <1>6, SafeNow, SameSteps
<1>8. Safe(q, Paired, Done)
  BY <1>2, <1>6, SafeNow, SameSafe
<1> QED
  BY <1>2, <1>6, <1>7, <1>8 DEF q

LEMMA SafeReadM4Transient ==
    ASSUME IInv, SInv, NEW s \in Sessions, ReadM4Transient(s)
    PROVE  SInv'
<1> DEFINE q == [ram EXCEPT !.hap[s] = "transient", !.setup = SetupInfoM4,
                            !.keep = @ \/ "Split" \in ram.flags]
<1>1. /\ EndRead(s, ResetForSession(q, Env, s))
      /\ store'.owner = store.owner
  BY DEF ReadM4Transient, IInv, Store
<1>2. q \in Ram /\ RamOK(q, store, {}) /\ Safe(q, Paired, Done)
  BY TransientM4
<1> HIDE DEF q
<1> QED
  BY <1>1, <1>2, ResetEndSafe

LEMMA VerifiedM4 ==
    ASSUME IInv, SInv, NEW s \in Sessions, ReadM4(s)
    PROVE  LET q == [Advance(ram, s, 4) EXCEPT !.setup = SetupInfoM4]
           IN  /\ q \in Ram /\ RamOK(q, store', {}) /\ Safe(q, Paired, Done)
               /\ q.current = s /\ q.state[s] = 4
               /\ \A t \in Sessions \ {s} : q.state[t] = ram.state[t]
               /\ store'.owner = store.owner
<1> DEFINE p == Advance(ram, s, 4)
           q == [p EXCEPT !.setup = SetupInfoM4]
<1>1. /\ Up /\ ram.state[s] = 3 /\ ram.proof = "good"
      /\ store' = [store EXCEPT !.attempts = 0]
  BY DEF ReadM4, CanRead, ProofVerifies
<1>2. /\ SetupInfoM4 = ram.setup
      /\ ram.current = s /\ Paired = FALSE
  BY <1>1, ServedM4
<1>3. /\ ram \in Ram /\ RamOK(ram, store, {}) /\ s \in ram.open
      /\ store.owner = NoSession
  BY <1>1, <1>2, SafeNow, NoSessionApart DEF RamOK, StepsOwned, Paired
<1>4. /\ p \in Ram
      /\ p.open = ram.open /\ p.current = ram.current
      /\ p.error = ram.error /\ p.proof = ram.proof
      /\ p.state[s] = 4
      /\ \A t \in Sessions \ {s} : p.state[t] = ram.state[t]
  BY ZenonT(120), <1>3, StepNumbers, AdvanceOK
<1>5. p.failed = ram.failed
  BY <1>3 DEF Advance, Ram
<1> HIDE DEF p
<1>6. store'.owner = NoSession /\ store'.owner = store.owner
  BY <1>1, <1>3 DEF IInv, Store
<1>7. RamOK(ram, store, {s})
  BY <1>3 DEF RamOK, StepsOwned
<1>8. /\ p.state[s] >= 1 /\ p.state[s] \notin {2, 3}
      /\ p.proof = "good"
      /\ \A t \in Sessions : p.error[t] => ram.error[t] \/ ram.current = t
  BY <1>1, <1>4
<1>9. RamOK(p, store', {})
  BY <1>2, <1>3, <1>4, <1>6, <1>7, <1>8, StepOK
<1>10. q \in Ram /\ RamOK(q, store', {})
  BY <1>4, <1>9, SetupInfoM4Type, WithSetup
<1>11. q.current = s /\ q.setup = ram.setup /\ q.failed = ram.failed
       /\ q.state = p.state
  BY <1>2, <1>4, <1>5 DEF Ram
<1> HIDE DEF q
<1>12. q.state[s] \notin {2, 3}
  BY <1>8, <1>11
<1>13. Safe(ram, FALSE, Done)
  BY <1>2, SafeNow
<1>14. Safe(q, Paired, Done)
  BY <1>2, <1>3, <1>11, <1>12, <1>13, AdvanceSafe
<1> QED
  BY <1>4, <1>6, <1>10, <1>11, <1>14 DEF q, p

LEMMA SafeReadM4 ==
    ASSUME IInv, SInv, NEW s \in Sessions, ReadM4(s)
    PROVE  SInv'
<1> DEFINE q == [Advance(ram, s, 4) EXCEPT !.setup = SetupInfoM4]
<1>1. EndRead(s, q)
  BY DEF ReadM4
<1>2. /\ q \in Ram /\ RamOK(q, store', {}) /\ Safe(q, Paired, Done)
      /\ store'.owner = store.owner
  BY VerifiedM4
<1> HIDE DEF q
<1> QED
  BY <1>1, <1>2, EndReadSafe

-----------------------------------------------------------------------------
(***************************************************************************)
(* The accessory server, sessions, timers and the application.             *)
(***************************************************************************)

\* The setup info changes, and a locked one does not.
LEMMA CalmPinned ==
    ASSUME NEW r, NEW q, NEW paired, NEW done, NEW done2,
           Pinned(r, paired, done), KeepsCalm(r.setup, q.setup, paired),
           q.current = r.current, q.state = r.state, q.flags = r.flags,
           q.proof = r.proof,
           done2 => done \/ Updated(q.setup, paired)
    PROVE  Pinned(q, paired, done2)
<1>1. ASSUME q.current # NoSession PROVE HolderPinned(q, paired)
  <2>1. HolderPinned(r, paired)
    BY <1>1 DEF Pinned
  <2>2. /\ q.setup.lock /\ q.setup.info = r.setup.info
        /\ q.setup.keep = r.setup.keep /\ q.setup.served = r.setup.served
    BY <2>1 DEF HolderPinned, KeepsCalm, Calm
  <2> QED
    BY <2>1, <2>2 DEF HolderPinned, AsServed
<1> QED
  BY <1>1 DEF Pinned, KeepsCalm, KeepsSound

LEMMA CalmSafe ==
    ASSUME IInv, SInv, Up, NEW a \in SetupInfo, NEW done2,
           a.failed = "none" => KeepsCalm(ram.setup, a, Paired),
           a.failed = "none" => (done2 => Done \/ Updated(a, Paired))
    PROVE  Safe([ram EXCEPT !.setup = a], Paired, done2)
<1> DEFINE q == [ram EXCEPT !.setup = a]
<1>1. /\ q.setup = a /\ q.current = ram.current /\ q.state = ram.state
      /\ q.flags = ram.flags /\ q.proof = ram.proof
  BY SafeNow DEF Ram
<1> HIDE DEF q
<1>2. ASSUME Fine(q) PROVE Pinned(q, Paired, done2)
  <2>1. a.failed = "none"
    BY <1>1, <1>2 DEF Fine
  <2> QED
    BY <1>1, <2>1, SafeNow, CalmPinned
<1> QED
  BY <1>2 DEF Safe, q

\* A setup info operation of the server, a timer or the application.
LEMMA SetupNow ==
    ASSUME IInv, SInv, Up
    PROVE  /\ ram.setup \in SetupInfo /\ Env \in EnvType
           /\ Sound(ram.setup, Env.paired)
           /\ Env.paired = Paired
BY SafeNow DEF Ram, Pinned

LEMMA SafeSetupInfoStep ==
    ASSUME IInv, SInv, Up, NEW a \in SetupInfo, SetupInfoStep(a),
           a.failed = "none" => KeepsCalm(ram.setup, a, Env.paired)
    PROVE  SInv'
<1>1. Safe([ram EXCEPT !.setup = a], Paired, Done)
  BY SetupNow, CalmSafe
<1> QED
  BY <1>1, SameDone DEF SetupInfoStep

LEMMA SetupStepCalm ==
    ASSUME IInv, SInv, Setup
    PROVE  \E a \in SetupInfo :
               /\ Up /\ SetupInfoStep(a)
               /\ a.failed = "none" => KeepsCalm(ram.setup, a, Env.paired)
<1>1. CASE RefreshTimerExpired
  <2> DEFINE a == DynamicSetupInfoExpired(ram.setup, Env)
  <2>1. Up /\ ram.setup.refresh /\ SetupInfoStep(a)
    BY <1>1 DEF RefreshTimerExpired, Ready
  <2>2. a \in SetupInfo /\ (a.failed = "none" => KeepsCalm(ram.setup, a, Env.paired))
    BY <2>1, SetupNow, DynamicSetupInfoExpiredType, DynamicSetupInfoExpiredSound
  <2> QED
    BY <2>1, <2>2
<1>2. CASE NFCTimerExpired
  <2> DEFINE a == NFCPairingModeExpired(ram.setup, Env)
  <2>1. Up /\ SetupInfoStep(a)
    BY <1>2 DEF NFCTimerExpired, Ready
  <2>2. a \in SetupInfo /\ (a.failed = "none" => KeepsCalm(ram.setup, a, Env.paired))
    BY <2>1, SetupNow, NFCPairingModeExpiredType, NFCPairingModeExpiredSound
  <2> QED
    BY <2>1, <2>2
<1>3. CASE EnterNFC
  <2> DEFINE a == EnterNFCPairingMode(ram.setup, Env)
  <2>1. Up /\ HasNFC /\ SetupInfoStep(a)
    BY <1>3 DEF EnterNFC, Ready
  <2>2. a \in SetupInfo /\ (a.failed = "none" => KeepsCalm(ram.setup, a, Env.paired))
    BY <2>1, SetupNow, EnterNFCPairingModeType, EnterNFCPairingModeSound
  <2> QED
    BY <2>1, <2>2
<1>4. CASE ExitNFC
  <2> DEFINE a == ExitNFCPairingMode(ram.setup, Env)
  <2>1. Up /\ SetupInfoStep(a)
    BY <1>4 DEF ExitNFC, Ready
  <2>2. a \in SetupInfo /\ (a.failed = "none" => KeepsCalm(ram.setup, a, Env.paired))
    BY <2>1, SetupNow, ExitNFCPairingModeType, ExitNFCPairingModeSound
  <2> QED
    BY <2>1, <2>2
<1>5. CASE RefreshPayload
  <2> DEFINE a == RefreshSetupPayload(ram.setup, Env)
  <2>1. Up /\ SetupInfoStep(a)
    BY <1>5 DEF RefreshPayload, Ready
  <2>2. a \in SetupInfo /\ (a.failed = "none" => KeepsCalm(ram.setup, a, Env.paired))
    BY <2>1, SetupNow, RefreshSetupPayloadType, RefreshSetupPayloadSound
  <2> QED
    BY <2>1, <2>2
<1> QED
  BY <1>1, <1>2, <1>3, <1>4, <1>5 DEF Setup

LEMMA SafeSetup == ASSUME IInv, SInv, Setup PROVE SInv'
BY SetupStepCalm, SafeSetupInfoStep

LEMMA CompleteShutdownSafe ==
    ASSUME NEW r \in Ram, NEW env \in EnvType
    PROVE  LET q == CompleteShutdown(r, env)
           IN  Safe(q, env.paired, FALSE)
<1> DEFINE f == Fail(r, r.current = NoSession, "CompleteShutdown")
           a == HandleAccessoryServerStop(f.setup, env)
           q == CompleteShutdown(r, env)
<1>1. (r.current = NoSession) \in BOOLEAN
  OBVIOUS
<1>2. f \in Ram /\ (f.failed = "none" => r.current = NoSession /\ f.current = NoSession)
  BY <1>1 DEF Fail, Ram, Checks
<1>3. q.setup = a /\ q.failed = f.failed /\ q.current = f.current
  BY <1>2 DEF CompleteShutdown, Ram
<1> HIDE DEF q
<1>4. f.setup \in SetupInfo
  BY <1>2 DEF Ram
<1>5. ASSUME Fine(q) PROVE Pinned(q, env.paired, FALSE)
  <2>1. q.current = NoSession /\ a.failed = "none"
    BY <1>2, <1>3, <1>5 DEF Fine
  <2>2. Sound(a, env.paired)
    BY <1>4, <2>1, HandleAccessoryServerStopSound
  <2> QED
    BY <1>3, <2>1, <2>2 DEF Pinned
<1> QED
  BY <1>5 DEF Safe, q

\* Nothing is asked of an update while one is pending, or the server stops.
LEMMA SafePending ==
    ASSUME Safe(ram', Paired', FALSE),
           updatePending' = TRUE \/ lifecycle' # "Running"
    PROVE  SInv'
BY DEF SInv, Safe, Pinned

LEMMA LessSafe ==
    ASSUME NEW r, NEW paired, NEW done, Safe(r, paired, done)
    PROVE  Safe(r, paired, FALSE)
BY DEF Safe, Pinned

LEMMA SafeStart == ASSUME IInv, SInv, Start PROVE SInv'
<1> DEFINE env == [Env EXCEPT !.started = TRUE]
           a == HandleAccessoryServerStart(ram.setup, env)
<1>1. env \in EnvType /\ env.paired = Paired
  BY SafeNow DEF EnvType
<1>2. ram' = [ram EXCEPT !.setup = a] /\ updatePending' = TRUE /\ Up /\ store' = store
  BY DEF Start, Ready
<1> HIDE DEF env
<1>3. ram.setup \in SetupInfo /\ Sound(ram.setup, env.paired)
  BY <1>1, <1>2, SetupNow
<1>4. a \in SetupInfo /\ (a.failed = "none" => KeepsCalm(ram.setup, a, env.paired))
  BY <1>1, <1>3, HandleAccessoryServerStartType, HandleAccessoryServerStartSound
<1>5. Safe([ram EXCEPT !.setup = a], Paired, FALSE)
  BY <1>1, <1>2, <1>4, CalmSafe
<1> QED
  BY <1>2, <1>5, SafePending DEF Paired

LEMMA SafeProceedWithStop ==
    ASSUME IInv, SInv, NEW r \in Ram, Safe(r, Paired, Done), ProceedWithStop(r),
           store' = store
    PROVE  SInv'
<1>1. CASE HasIP
  <2>1. ram' = r /\ lifecycle' = "Stopping"
    BY <1>1 DEF ProceedWithStop
  <2> QED
    BY <2>1, LessSafe, SafePending DEF Paired
<1>2. CASE ~HasIP
  <2>1. ram' = CompleteShutdown(r, Env) /\ lifecycle' = "Idle"
    BY <1>2 DEF ProceedWithStop
  <2>2. Safe(CompleteShutdown(r, Env), Env.paired, FALSE)
    BY SafeNow, CompleteShutdownSafe
  <2>3. Safe(ram', Paired', FALSE)
    BY <2>1, <2>2, SafeNow DEF Paired
  <2> QED
    BY <2>1, <2>3, SafePending
<1> QED
  BY <1>1, <1>2

LEMMA SafeStop == ASSUME IInv, SInv, Stop PROVE SInv'
<1>1. CASE BLEConnected
  <2>1. ram' = ram /\ lifecycle' = "Stopping" /\ store' = store
    BY <1>1 DEF Stop
  <2>2. Safe(ram, Paired, FALSE)
    BY SafeNow, LessSafe
  <2> QED
    BY <2>1, <2>2, SafePending DEF Paired
<1>2. CASE ~BLEConnected
  BY <1>2, SafeNow, SafeProceedWithStop DEF Stop
<1> QED
  BY <1>1, <1>2

LEMMA SafeEngineIdle == ASSUME IInv, SInv, EngineIdle PROVE SInv'
<1>1. ram' = ram /\ updatePending' = TRUE /\ store' = store
  BY DEF EngineIdle
<1>2. Safe(ram, Paired, FALSE)
  BY SafeNow, LessSafe
<1> QED
  BY <1>1, <1>2, SafePending DEF Paired

LEMMA SafeCallbackTimerExpired ==
    ASSUME IInv, SInv, CallbackTimerExpired PROVE SInv'
<1> DEFINE a == HandleAccessoryServerStateUpdate(ram.setup, Env)
           r == [ram EXCEPT !.setup = a]
           completed == HasIP /\ engine = "Idle"
<1>1. a \in SetupInfo
  BY SafeNow, RamInType, HandleAccessoryServerStateUpdateType
<1>2. r = [ram EXCEPT !.setup = HandleAccessoryServerStateUpdate(@, Env)]
  BY RamInType DEF Ram
<1>3. /\ ram' = IF completed THEN CompleteShutdown(r, Env) ELSE r
      /\ lifecycle' = IF completed THEN "Idle" ELSE lifecycle
      /\ store' = store /\ Up
  BY <1>2 DEF CallbackTimerExpired, Ready
<1>4. a.failed = "none" =>
         /\ KeepsCalm(ram.setup, a, Env.paired)
         /\ Updated(a, Env.paired)
  BY <1>3, SetupNow, HandleAccessoryServerStateUpdateSound
<1> HIDE DEF a
<1>5. Safe(r, Paired, TRUE)
  BY <1>1, <1>3, <1>4, SafeNow, CalmSafe
<1>6. r \in Ram
  BY <1>1, RamInType, WithSetup DEF IInv
<1> HIDE DEF r
<1>7. CASE completed
  <2>1. ram' = CompleteShutdown(r, Env) /\ lifecycle' = "Idle"
    BY <1>3, <1>7
  <2>2. Safe(CompleteShutdown(r, Env), Env.paired, FALSE)
    BY <1>6, SafeNow, CompleteShutdownSafe
  <2>3. Safe(ram', Paired', FALSE)
    BY <1>3, <2>1, <2>2, SafeNow DEF Paired
  <2> QED
    BY <2>1, <2>3, SafePending
<1>8. CASE ~completed
  <2>1. ram' = r
    BY <1>3, <1>8
  <2>2. Safe(ram', Paired', TRUE)
    BY <1>3, <1>5, <2>1 DEF Paired
  <2> QED
    BY <2>2 DEF SInv, Safe, Pinned
<1> QED
  BY <1>7, <1>8

LEMMA SafeOpenSession ==
    ASSUME IInv, SInv, NEW s \in Sessions, OpenSession(s) PROVE SInv'
<1>1. ram' = [ram EXCEPT !.open = @ \cup {s}]
  BY DEF OpenSession
<1>2. /\ ram'.current = ram.current /\ ram'.setup = ram.setup
      /\ ram'.failed = ram.failed /\ ram'.flags = ram.flags
      /\ ram'.proof = ram.proof /\ ram'.state = ram.state
  BY <1>1, SafeNow DEF Ram
<1>3. Safe(ram', Paired, Done)
  BY <1>2, SafeNow, SameSafe
<1> QED
  BY <1>3, SameDone DEF OpenSession

LEMMA SafeVerifySession ==
    ASSUME IInv, SInv, NEW s \in Sessions, VerifySession(s) PROVE SInv'
<1>1. ram' = [ram EXCEPT !.hap[s] = "verified"]
  BY DEF VerifySession
<1>2. /\ ram'.current = ram.current /\ ram'.setup = ram.setup
      /\ ram'.failed = ram.failed /\ ram'.flags = ram.flags
      /\ ram'.proof = ram.proof /\ ram'.state = ram.state
  BY <1>1, SafeNow DEF Ram
<1>3. Safe(ram', Paired, Done)
  BY <1>2, SafeNow, SameSafe
<1> QED
  BY <1>3, SameDone DEF VerifySession

LEMMA SafeCloseSession ==
    ASSUME IInv, SInv, NEW s \in Sessions, CloseSession(s) PROVE SInv'
<1> DEFINE r == ReleaseSessions(ram, Env, {s})
<1>1. RamOK(r, store, {})
  BY SafeNow, {s} \in SUBSET Sessions, ReleaseSessionsOK
<1>2. Safe(r, Env.paired, Done)
  BY SafeNow, {s} \in SUBSET Sessions, ReleaseSessionsSafe
<1>3. \/ ProceedWithStop(r)
      \/ ram' = r /\ UNCHANGED <<lifecycle, engine, updatePending>>
  BY DEF CloseSession
<1>4. store' = store
  BY DEF CloseSession
<1> HIDE DEF r
<1>5. r \in Ram /\ Safe(r, Paired, Done)
  BY <1>1, <1>2, SafeNow DEF RamOK
<1> QED
  BY <1>3, <1>4, <1>5, SafeProceedWithStop, SameDone

LEMMA SafeRequestOnTransientSession ==
    ASSUME IInv, SInv, NEW s \in Sessions, RequestOnTransientSession(s) PROVE SInv'
<1>1. Safe(CheckTransient(ram, Env, {s}), Paired, Done)
  BY SafeNow, CheckTransientSafe
<1> QED
  BY <1>1, SameDone DEF RequestOnTransientSession

\* The setup info of an accessory that is no longer paired.
LEMMA UnpairedSafe ==
    ASSUME IInv, SInv, Up, Paired PROVE Safe(ram, FALSE, FALSE)
<1>1. Paired = TRUE
  BY DEF Paired
<1>2. Pinned(ram, TRUE, Done) /\ ram.setup \in SetupInfo
  BY <1>1, SafeNow, SetupNow
<1>3. Sound(ram.setup, FALSE)
  BY <1>2, UnpairedSound DEF Pinned
<1> QED
  BY <1>2, <1>3 DEF Safe, Pinned, HolderPinned

LEMMA SafeRemovePairings ==
    ASSUME IInv, SInv, NEW s \in Sessions, RemovePairings(s) PROVE SInv'
<1> DEFINE env == [Env EXCEPT !.paired = FALSE]
<1>1. env \in EnvType /\ env.paired = FALSE
  BY SafeNow DEF EnvType
<1>2. store' = [store EXCEPT !.owner = NoSession] /\ updatePending' = TRUE
      /\ Up /\ Paired = TRUE
  BY DEF RemovePairings, Ready, Paired
<1>3. Paired' = FALSE
  BY <1>2 DEF IInv, Store, Paired
<1>4. Safe(ram, FALSE, FALSE)
  BY <1>2, UnpairedSafe
<1>5. PICK writing : ram' = CloseUnsecuredSessions(ram, env, s, writing)
  BY DEF RemovePairings
<1> HIDE DEF env
<1>6. Safe(CloseUnsecuredSessions(ram, env, s, writing), env.paired, FALSE)
  BY <1>1, <1>4, SafeNow, FALSE \in BOOLEAN, CloseUnsecuredSessionsSafe
<1> QED
  BY <1>1, <1>2, <1>3, <1>5, <1>6, SafePending

LEMMA SafeZeroed ==
    ASSUME NEW paired, NEW done
    PROVE  Safe(ZeroedRam, paired, FALSE)
BY NoSetupInfoSound DEF Safe, Pinned, ZeroedRam

LEMMA SafeInit == Init => SInv
BY SafeZeroed, NoSetupInfoSound DEF Init, SInv, Safe, Pinned, ZeroedRam

LEMMA SafeReboot == ASSUME Reboot PROVE SInv'
<1>1. ram' = ZeroedRam /\ lifecycle' = "Idle"
  BY DEF Reboot
<1>2. Safe(ram', Paired', FALSE)
  BY <1>1, SafeZeroed
<1> QED
  BY <1>1, <1>2, SafePending

LEMMA SafeNext == IInv /\ SInv /\ [Next]_vars => SInv'
<1> SUFFICES ASSUME IInv, SInv, [Next]_vars PROVE SInv'
  OBVIOUS
<1>1. ASSUME NEW s \in Sessions, Write(s) PROVE SInv'
  BY <1>1, SafeWriteM1, SafeWriteM3, SafeWriteM5, SafeWriteForgedM5,
     SafeWriteM5Unstored, SafeWriteRejected, SafeWriteMalformed DEF Write
<1>2. ASSUME NEW s \in Sessions, Read(s) PROVE SInv'
  BY <1>2, SafeReadError, SafeReadM2, SafeReadM2Unsent, SafeReadM4Refused,
     SafeReadM4, SafeReadM4Transient, SafeReadM4Unsent, SafeReadM6,
     SafeReadM6Unidentified DEF Read
<1>3. ASSUME NEW s \in Sessions, Connection(s) PROVE SInv'
  BY <1>3, SafeOpenSession, SafeCloseSession, SafeVerifySession,
     SafeRemovePairings, SafeRequestOnTransientSession DEF Connection
<1>4. CASE Server
  BY <1>4, SafeStart, SafeStop, SafeEngineIdle, SafeCallbackTimerExpired DEF Server
<1>5. CASE Setup
  BY <1>5, SafeSetup
<1>6. CASE Reboot
  BY <1>6, SafeReboot
<1>7. CASE UNCHANGED vars
  BY <1>7 DEF vars, SInv, Safe, Fine, Pinned, HolderPinned, AsServed, Paired
<1> QED
  BY <1>1, <1>2, <1>3, <1>4, <1>5, <1>6, <1>7 DEF Next

\* In every state no assertion has failed in, in the middle of a handler too,
\* the setup info is sound, agrees with the state update that has been done, and
\* is locked for the session that pairs.
THEOREM SetupInvariance == Spec => []SInv
<1>1. Init => SInv
  BY SafeInit
<1>2. IInv /\ SInv /\ [Next]_vars => SInv'
  BY SafeNext
<1> QED
  BY <1>1, <1>2, Invariance, PTL DEF Spec

\* Until the proof has been checked, a session that was sent M2 finds the salt
\* and verifier it was sent, however many sessions, timers and server calls
\* intervene; the code of whoever pairs is locked and no timer refreshes it.
THEOREM PinnedWhilePairing == Spec => []SetupInfoPinned
<1>1. IInv /\ SInv => SetupInfoPinned
  <2> SUFFICES ASSUME IInv, SInv, Up PROVE SetupInfoPinned
    BY DEF SetupInfoPinned
  <2>1. Pinned(ram, Paired, Done)
    BY SafeNow
  <2>2. ASSUME ram.current # NoSession
        PROVE  ram.setup.lock /\ ~ram.setup.refresh /\ Available(ram.setup)
    BY <2>1, <2>2 DEF Pinned, HolderPinned, Sound
  <2>3. ASSUME NEW s \in Sessions, ram.state[s] \in {2, 3}
        PROVE  ram.setup.info /\ ram.setup.served = s
    <3>1. ram.current = s
      BY <2>3 DEF IInv, RamOK, StepsOwned
    <3> QED
      BY <2>1, <2>3, <3>1, NoSessionApart DEF Pinned, HolderPinned, AsServed
  <2> QED
    BY <2>2, <2>3 DEF SetupInfoPinned
<1> QED
  BY <1>1, Invariance, SetupInvariance, PTL

\* An unlocked code of an unpaired accessory with a display is refreshed by the
\* timer, and no other code is: every call that locks, clears or makes a code
\* registers or deregisters the timer as it should.
THEOREM AlwaysRefreshed == Spec => []CodeRefreshed
<1>1. IInv /\ SInv => CodeRefreshed
  BY SafeNow DEF CodeRefreshed, Pinned, Sound
<1> QED
  BY <1>1, Invariance, SetupInvariance, PTL

\* When no state update is pending its work is done: the display shows a code
\* exactly while one is needed for pairing, and NFC pairing mode is over once
\* there is a pairing.
THEOREM UpdateKept == Spec => []UpdateNotLost
<1>1. IInv /\ SInv => UpdateNotLost
  BY SafeNow DEF UpdateNotLost, Pinned, Updated, Done
<1> QED
  BY <1>1, Invariance, SetupInvariance, PTL

\* The counter of failed attempts goes up only by M4.
LEMMA AttemptsStep ==
    ASSUME IInv, [Next]_vars, store'.attempts > store.attempts
    PROVE  \E s \in Sessions : ReadM4Refused(s, TRUE)
<1>0. store.attempts \in 0 .. 255
  BY DEF IInv, Store
<1>1. ASSUME NEW s \in Sessions, Write(s) PROVE FALSE
  <2>1. store' = store \/ \E n : store' = [store EXCEPT !.owner = n]
    BY <1>1 DEF Write, WriteM1, WriteM3, WriteM5, WriteForgedM5, WriteM5Unstored,
                WriteRejected, WriteMalformed
  <2>2. store'.attempts = store.attempts
    BY <2>1 DEF IInv, Store
  <2> QED
    BY <1>0, <2>2
<1>2. ASSUME NEW s \in Sessions, Read(s)
      PROVE  ReadM4Refused(s, TRUE)
  <2>1. \/ store' = store
        \/ store' = [store EXCEPT !.attempts = 0]
        \/ ReadM4Refused(s, TRUE)
    BY <1>2 DEF Read, ReadError, ReadM2, ReadM2Unsent, ReadM4Refused, ReadM4,
                ReadM4Transient, ReadM4Unsent, ReadM6, ReadM6Unidentified
  <2>2. CASE store' = store
    BY <1>0, <2>2
  <2>3. CASE store' = [store EXCEPT !.attempts = 0]
    <3>1. store'.attempts = 0
      BY <2>3 DEF IInv, Store
    <3> QED
      BY <1>0, <3>1
  <2> QED
    BY <2>1, <2>2, <2>3
<1>3. ASSUME NEW s \in Sessions, Connection(s) PROVE FALSE
  <2>1. store' = store \/ store' = [store EXCEPT !.owner = NoSession]
    BY <1>3 DEF Connection, OpenSession, CloseSession, VerifySession,
                RemovePairings, RequestOnTransientSession
  <2>2. store'.attempts = store.attempts
    BY <2>1 DEF IInv, Store
  <2> QED
    BY <1>0, <2>2
<1>4. CASE Server \/ Setup \/ Reboot \/ UNCHANGED vars
  <2>1. store' = store
    BY <1>4 DEF Server, Start, Stop, EngineIdle, CallbackTimerExpired,
                Setup, RefreshTimerExpired, NFCTimerExpired, EnterNFC, ExitNFC,
                RefreshPayload, SetupInfoStep, Reboot, vars
  <2> QED
    BY <1>0, <2>1
<1> QED
  BY <1>1, <1>2, <1>3, <1>4 DEF Next

\* Whoever proves the setup code it was asked for is never counted as a failed
\* attempt: M4 checks the proof against the very setup info that M2 served.
THEOREM OnlyBadProofsCount == Spec => CorrectCodeNotCounted
<1>1. IInv /\ SInv /\ [Next]_vars =>
         [store'.attempts > store.attempts => ram.proof = "bad"]_vars
  <2> SUFFICES ASSUME IInv, SInv, [Next]_vars, store'.attempts > store.attempts
               PROVE  ram.proof = "bad"
    OBVIOUS
  <2>1. PICK s \in Sessions : ReadM4Refused(s, TRUE)
    BY AttemptsStep
  <2>2. /\ Up /\ ram.state[s] = 3
        /\ ram.proof # "illegal" /\ ~ProofVerifies(s)
    BY <2>1 DEF ReadM4Refused, CanRead
  <2>3. /\ SetupInfoM4.served = s
        /\ ram.proof # "none"
    BY <2>2, ServedM4
  <2>4. ram.proof \in Proofs
    BY SafeNow DEF Ram
  <2> QED
    BY <2>2, <2>3, <2>4 DEF Proofs, ProofVerifies
<1> QED
  BY <1>1, Invariance, SetupInvariance, PTL DEF Spec, CorrectCodeNotCounted


-----------------------------------------------------------------------------
(***************************************************************************)
(* A locked setup code has a use: a procedure holds it, or it is kept for  *)
(* the procedure that follows a split one.  A BLE session may be paired    *)
(* and not read, and then begin again; without BLE sessions a pairing that *)
(* has been made is answered by the handler that made it.                  *)
(***************************************************************************)

InUse(r) == Fine(r) => (r.setup.lock => r.current # NoSession \/ r.setup.keep)

UInv ==
    /\ InUse(ram)
    /\ Fine(ram) => \A s \in Sessions : ram.state[s] = 5 => handling = s

LEMMA SameInUse ==
    ASSUME NEW r, NEW q, InUse(r), q.current = r.current, q.setup = r.setup,
           q.failed = r.failed
    PROVE  InUse(q)
BY DEF InUse, Fine

LEMMA StopAndForgetInUse ==
    ASSUME NEW r \in Ram, NEW env \in EnvType, NEW S \in SUBSET Sessions,
           NEW done, Safe(r, env.paired, done), InUse(r)
    PROVE  LET q == ForgetSteps(StopPairing(r, env, S), S)
           IN  InUse(q) /\ (Fine(q) => Fine(r))
<1> DEFINE a == HandlePairingStop(r.setup, env, r.keep)
           p == StopPairing(r, env, S)
           q == ForgetSteps(p, S)
<1>1. p \in Ram
  BY StopPairingType
<1>2. q.setup = p.setup /\ q.failed = p.failed /\ q.current = p.current
  <2> HIDE DEF p
  <2> QED
    BY <1>1 DEF ForgetSteps, Ram
<1> HIDE DEF q
<1>3. CASE r.current \in S
  <2>1. p.setup = a /\ p.failed = r.failed
    BY <1>3 DEF StopPairing, Ram
  <2> HIDE DEF p
  <2>2. r.setup \in SetupInfo /\ r.keep \in BOOLEAN /\ r.current # NoSession
    BY <1>3, NoSessionApart DEF Ram
  <2>3. ASSUME Fine(q) PROVE Fine(r) /\ (q.setup.lock => q.setup.keep)
    <3>1. a.failed = "none" /\ r.failed = "none" /\ q.setup = a
      BY <1>2, <2>1, <2>3 DEF Fine
    <3>2. r.setup.failed = "none"
      BY <2>2, <3>1, HandlePairingStopSticky
    <3>3. Sound(r.setup, env.paired) /\ r.setup.lock
      BY <2>2, <3>1, <3>2 DEF Safe, Fine, Pinned, HolderPinned
    <3>4. a.lock => a.keep
      BY <2>2, <3>1, <3>3, HandlePairingStopSound
    <3> QED
      BY <3>1, <3>2, <3>4 DEF Fine
  <2> QED
    BY <2>3 DEF InUse, q, p
<1>4. CASE r.current \notin S
  <2>1. p = r
    BY <1>4 DEF StopPairing
  <2> HIDE DEF p
  <2>2. InUse(q) /\ (Fine(q) => Fine(r))
    BY <1>2, <2>1 DEF InUse, Fine
  <2> QED
    BY <2>2 DEF q, p
<1> QED
  BY <1>3, <1>4

LEMMA ResetForSessionInUse ==
    ASSUME NEW r \in Ram, NEW env \in EnvType, NEW s \in Sessions,
           NEW done, Safe(r, env.paired, done), InUse(r)
    PROVE  LET q == ResetForSession(r, env, s)
           IN  InUse(q) /\ (Fine(q) => Fine(r))
BY StopAndForgetInUse, {s} \in SUBSET Sessions DEF ResetForSession

LEMMA ReleaseSessionsInUse ==
    ASSUME NEW r \in Ram, NEW env \in EnvType, NEW S \in SUBSET Sessions,
           NEW done, Safe(r, env.paired, done), InUse(r)
    PROVE  LET q == ReleaseSessions(r, env, S)
           IN  InUse(q) /\ (Fine(q) => Fine(r))
<1> DEFINE p == ForgetSteps(StopPairing(r, env, S), S)
           q == ReleaseSessions(r, env, S)
<1>1. InUse(p) /\ (Fine(p) => Fine(r)) /\ p \in Ram
  BY StopAndForgetInUse, StopPairingType, ForgetStepsType
<1>2. q = [p EXCEPT !.hap = [s \in Sessions |-> IF s \in S THEN "none" ELSE @[s]],
                    !.open = @ \ S]
  BY DEF ReleaseSessions
<1> HIDE DEF p, q
<1>3. q.current = p.current /\ q.setup = p.setup /\ q.failed = p.failed
  BY <1>1, <1>2 DEF Ram
<1>4. InUse(q) /\ (Fine(q) => Fine(r))
  BY <1>1, <1>3 DEF InUse, Fine
<1> QED
  BY <1>4 DEF q

LEMMA CheckTransientInUse ==
    ASSUME NEW r \in Ram, NEW env, NEW S, InUse(r)
    PROVE  LET q == CheckTransient(r, env, S)
           IN  InUse(q) /\ (Fine(q) => Fine(r))
<1> DEFINE holds == ~env.paired \/ \A s \in S : r.hap[s] # "transient"
           q == Fail(r, holds, "HAPSessionIsTransient")
<1>1. CASE holds \/ r.failed # "none"
  BY <1>1 DEF CheckTransient, Fail
<1>2. CASE ~(holds \/ r.failed # "none")
  <2>1. q.failed = "HAPSessionIsTransient"
    BY <1>2 DEF Fail, Ram
  <2> HIDE DEF q
  <2>2. ~Fine(q)
    BY <2>1 DEF Fine
  <2> QED
    BY <2>2 DEF InUse, CheckTransient, q
<1> QED
  BY <1>1, <1>2

\* The other transient sessions, or those whose pairing is gone, are closed.
LEMMA CloseOthersInUse ==
    ASSUME NEW r \in Ram, NEW env \in EnvType, NEW others \in SUBSET Sessions,
           NEW S \in SUBSET Sessions, NEW done, Safe(r, env.paired, done), InUse(r),
           NEW st, NEW T, RamOK(r, st, T)
    PROVE  LET q == ReleaseSessions(CheckTransient(r, env, others), env, S)
           IN  /\ InUse(q) /\ (Fine(q) => Fine(r))
               /\ \A t \in Sessions : q.state[t] \in {0, r.state[t]}
               /\ q.current \in {r.current, NoSession}
<1> DEFINE p == CheckTransient(r, env, others)
           q == ReleaseSessions(p, env, S)
<1>1. Safe(p, env.paired, done) /\ InUse(p) /\ (Fine(p) => Fine(r))
  BY CheckTransientSafe, CheckTransientInUse
<1>2. RamOK(p, st, T) /\ p.state = r.state /\ p.current = r.current
  BY CheckTransientOK
<1>3. p \in Ram
  BY <1>2 DEF RamOK
<1> HIDE DEF p
<1>4. InUse(q) /\ (Fine(q) => Fine(p))
  BY <1>1, <1>3, ReleaseSessionsInUse
<1>5. /\ \A t \in Sessions : q.state[t] \in {0, p.state[t]}
      /\ q.current \in {p.current, NoSession}
  BY <1>2, <1>3, ReleaseSessionsOK
<1> QED
  BY <1>1, <1>2, <1>4, <1>5 DEF p

LEMMA CloseTransientSessionsInUse ==
    ASSUME NEW r \in Ram, NEW env \in EnvType, NEW s \in Sessions,
           NEW done, Safe(r, env.paired, done), InUse(r),
           NEW st, NEW T, RamOK(r, st, T)
    PROVE  LET q == CloseTransientSessions(r, env, s)
           IN  /\ InUse(q) /\ (Fine(q) => Fine(r))
               /\ \A t \in Sessions : q.state[t] \in {0, r.state[t]}
               /\ q.current \in {r.current, NoSession}
<1> DEFINE others == IF s \in IPSessions THEN IPSessions \ {s} ELSE {}
           S == {t \in others : r.hap[t] = "transient"}
<1>1. others \in SUBSET Sessions /\ S \in SUBSET Sessions
  BY PairSetupAssumption
<1>2. CloseTransientSessions(r, env, s)
        = ReleaseSessions(CheckTransient(r, env, others), env, S)
  BY DEF CloseTransientSessions
<1> HIDE DEF others, S
<1> QED
  BY <1>1, <1>2, CloseOthersInUse

LEMMA CloseUnsecuredSessionsInUse ==
    ASSUME NEW r \in Ram, NEW env \in EnvType, NEW s \in Sessions, NEW writing,
           NEW done, Safe(r, env.paired, done), InUse(r),
           NEW st, NEW T, RamOK(r, st, T)
    PROVE  LET q == CloseUnsecuredSessions(r, env, s, writing)
           IN  /\ InUse(q) /\ (Fine(q) => Fine(r))
               /\ \A t \in Sessions : q.state[t] \in {0, r.state[t]}
<1> DEFINE others == IF s \in IPSessions THEN IPSessions \ {s} ELSE {}
           S == {t \in others \ writing : r.hap[t] = "verified" /\ ~env.paired}
<1>1. others \in SUBSET Sessions /\ S \in SUBSET Sessions
  BY PairSetupAssumption
<1>2. CloseUnsecuredSessions(r, env, s, writing)
        = ReleaseSessions(CheckTransient(r, env, others), env, S)
  BY DEF CloseUnsecuredSessions
<1> HIDE DEF others, S
<1> QED
  BY <1>1, <1>2, CloseOthersInUse

LEMMA AbandonForgets ==
    ASSUME NEW r \in Ram, NEW env \in EnvType, NEW s \in Sessions,
           NEW st, NEW T, RamOK(r, st, T)
    PROVE  Abandon(r, env, s).state[s] = 0
<1> DEFINE k == [r EXCEPT !.keep = TRUE]
           p == ResetForSession(k, env, s)
<1>1. RamOK(k, st, T) /\ k \in Ram
  BY KeepFlagOK DEF RamOK
<1> HIDE DEF k
<1>2. p \in Ram /\ p.state[s] = 0
  BY <1>1, ResetForSessionOK DEF RamOK
<1>3. Abandon(r, env, s) = [p EXCEPT !.setup.keep = FALSE]
  BY DEF Abandon, p, k
<1> HIDE DEF p
<1> QED
  BY <1>2, <1>3 DEF Ram

\* Whoever claims the procedure uses the code.
LEMMA ClaimInUse ==
    ASSUME NEW r \in Ram, NEW env, NEW s \in Sessions, NEW timedOut,
           NEW st, NEW T, RamOK(r, st, T), env \in EnvType,
           InUse(r) \/ (r.state[s] = 0 /\ ~env.paired)
    PROVE  InUse(Claim(r, env, s, timedOut))
<1> DEFINE p == TakeOver(r, env, s, timedOut)
           q == [p EXCEPT !.current = s, !.setup = HandlePairingStart(@, env)]
<1>1. p \in Ram
  BY TakeOverOK DEF RamOK
<1> HIDE DEF p
<1>2. q.current # NoSession
  BY <1>1, NoSessionApart DEF Ram
<1> HIDE DEF q
<1>3. CASE r.state[s] = 0 /\ ~env.paired /\ p.current = NoSession
  <2>1. Claim(r, env, s, timedOut) = q
    BY <1>3 DEF Claim, p, q
  <2> QED
    BY <1>2, <2>1 DEF InUse
<1>4. CASE r.state[s] = 0 /\ ~env.paired /\ p.current # NoSession
  <2>1. Claim(r, env, s, timedOut) = p
    BY <1>4 DEF Claim, p
  <2> QED
    BY <1>4, <2>1 DEF InUse
<1>5. CASE ~(r.state[s] = 0 /\ ~env.paired)
  BY <1>5 DEF Claim
<1> QED
  BY <1>3, <1>4, <1>5

LEMMA BeginWriteInUse ==
    ASSUME IInv, SInv, UInv, Up, NEW s \in Sessions, handling = NoSession,
           NEW request, NEW timedOut, Accessible(s)
    PROVE  LET r == BeginWrite(ram, Env, s, request, timedOut)
           IN  InUse(r) /\ \A t \in Sessions : r.state[t] # 5
<1> DEFINE c == CloseTransientSessions(ram, Env, s)
           p == Restart(c, Env, s, request)
           q == Claim(p, Env, s, timedOut)
<1>0. /\ ram \in Ram /\ RamOK(ram, store, {}) /\ Env \in EnvType /\ Env.paired = Paired
      /\ Safe(ram, Env.paired, Done) /\ Pinned(ram, Paired, Done) /\ InUse(ram)
      /\ \A t \in Sessions : ram.state[t] # 5
  BY SafeNow, NoSessionApart DEF UInv
<1>1. /\ InUse(c) /\ c.current \in {ram.current, NoSession}
      /\ \A t \in Sessions : c.state[t] \in {0, ram.state[t]}
  BY <1>0, CloseTransientSessionsInUse
<1>2. RamOK(c, store, {}) /\ c \in Ram
  BY <1>0, CloseTransientSessionsOK DEF RamOK
<1> HIDE DEF c
<1>3. /\ RamOK(p, store, {}) /\ p \in Ram
      /\ \A t \in Sessions : p.state[t] \in {0, c.state[t]}
  BY <1>0, <1>2, RestartOK DEF RamOK
<1>4. InUse(p) \/ (p.state[s] = 0 /\ ~Env.paired)
  <2>1. CASE c.current = s /\ request \in {"M1", "BadM1"}
    <3>1. ~Paired
      BY <1>0, <1>1, <2>1, NoSessionApart DEF Pinned, HolderPinned
    <3>2. p = Abandon(c, Env, s)
      BY <2>1 DEF Restart
    <3>3. Abandon(c, Env, s).state[s] = 0
      BY <1>0, <1>2, AbandonForgets
    <3> QED
      BY <1>0, <3>1, <3>2, <3>3
  <2>2. CASE ~(c.current = s /\ request \in {"M1", "BadM1"})
    BY <1>1, <2>2 DEF Restart
  <2> QED
    BY <2>1, <2>2
<1> HIDE DEF p
<1>5. InUse(q)
  BY <1>0, <1>3, <1>4, ClaimInUse
<1>6. \A t \in Sessions : BeginWrite(ram, Env, s, request, timedOut).state[t]
                              \in {0, ram.state[t]}
  BY <1>0, BeginWriteOK DEF Accessible
<1>7. \A t \in Sessions : BeginWrite(ram, Env, s, request, timedOut).state[t] # 5
  BY <1>0, <1>6
<1> QED
  BY <1>5, <1>7 DEF BeginWrite, q, p, c


\* What an action has to show: the code is in use, and what has advanced to the
\* last step is the session that is now being handled.
LEMMA HandledInUse ==
    ASSUME UInv, NEW s \in Sessions, NEW r, InUse(r),
           \A t \in Sessions : r.state[t] # 5,
           ram'.current = r.current, ram'.setup = r.setup, ram'.failed = r.failed,
           \A t \in Sessions \ {s} : ram'.state[t] = r.state[t],
           handling' = s
    PROVE  UInv'
<1>1. InUse(ram')
  BY SameInUse
<1>2. \A t \in Sessions : ram'.state[t] = 5 => handling' = t
  OBVIOUS
<1> QED
  BY <1>1, <1>2 DEF UInv, InUse, Fine

LEMMA StayInUse ==
    ASSUME UInv, Up, InUse(ram'),
           \A t \in Sessions : ram'.state[t] \in {0, ram.state[t]},
           handling' = handling
    PROVE  UInv'
<1>1. \A t \in Sessions : ram'.state[t] = 5 => handling' = t
  <2>1. \A t \in Sessions : ram.state[t] = 5 => handling = t
    BY DEF UInv, Fine, Up
  <2> QED
    BY <2>1
<1> QED
  BY <1>1 DEF UInv, InUse, Fine

LEMMA UnfineInUse ==
    ASSUME ram'.failed # "none" PROVE UInv'
BY DEF UInv, InUse, Fine

LEMMA BeginInUse ==
    ASSUME IInv, SInv, UInv, NEW s \in Sessions, Ready, Accessible(s),
           NEW request, NEW timedOut
    PROVE  LET r == BeginWrite(ram, Env, s, request, timedOut)
           IN  /\ InUse(r) /\ \A t \in Sessions : r.state[t] # 5
               /\ r \in Ram /\ Safe(r, Env.paired, Done) /\ RamOK(r, store, {s})
BY BeginWriteInUse, BeginSafe, SafeNow DEF Ready

\* Over IP the handler of a request goes on to answer it.
LEMMA RespondIP ==
    ASSUME BLESessions = {}, NEW s, Respond(s) PROVE handling' = s
BY DEF Respond

LEMMA UseWriteM1 ==
    ASSUME BLESessions = {}, IInv, SInv, UInv, NEW s \in Sessions,
           NEW method \in Methods \ {"none"}, NEW flags \in SUBSET PairingFlags,
           NEW timedOut \in BOOLEAN, WriteM1(s, method, flags, timedOut)
    PROVE  UInv'
<1> DEFINE r == BeginWrite(ram, Env, s, "M1", timedOut)
           q == Advance(r, s, 1)
<1>1. InUse(r) /\ (\A t \in Sessions : r.state[t] # 5) /\ r \in Ram
  BY BeginInUse DEF WriteM1
<1>2. ram' = ProcessM1(r, s, method, flags) /\ handling' = s
  BY RespondIP DEF WriteM1
<1> HIDE DEF r
<1>3. /\ q \in Ram /\ q.current = r.current /\ q.setup = r.setup
      /\ \A t \in Sessions \ {s} : q.state[t] = r.state[t]
  BY <1>1, 1 \in 0 .. 5, AdvanceOK
<1>4. q.failed = r.failed
  BY <1>1 DEF Advance, Ram
<1> DEFINE methods == [q.method EXCEPT ![s] = method]
           present == IF r.current = s THEN flags ELSE q.flags
<1>5. ram' = [q EXCEPT !.method = methods, !.flags = present]
  BY <1>1, <1>2 DEF ProcessM1, Ram
<1> HIDE DEF q, methods, present
<1>6. /\ ram'.current = q.current /\ ram'.setup = q.setup
      /\ ram'.failed = q.failed /\ ram'.state = q.state
  BY <1>3, <1>5 DEF Ram
<1>7. /\ ram'.current = r.current /\ ram'.setup = r.setup /\ ram'.failed = r.failed
      /\ \A t \in Sessions \ {s} : ram'.state[t] = r.state[t]
  BY <1>3, <1>4, <1>6
<1> QED
  BY <1>1, <1>2, <1>7, HandledInUse

LEMMA UseWriteM3 ==
    ASSUME BLESessions = {}, IInv, SInv, UInv, NEW s \in Sessions,
           NEW proof \in Proofs \ {"none"}, WriteM3(s, proof)
    PROVE  UInv'
<1> DEFINE r == BeginWrite(ram, Env, s, "M3", FALSE)
           q == Advance(r, s, 3)
<1>1. InUse(r) /\ (\A t \in Sessions : r.state[t] # 5) /\ r \in Ram
  BY BeginInUse DEF WriteM3
<1>2. ram' = [q EXCEPT !.proof = proof] /\ handling' = s
  BY RespondIP DEF WriteM3
<1> HIDE DEF r
<1>3. /\ q \in Ram /\ q.current = r.current /\ q.setup = r.setup
      /\ \A t \in Sessions \ {s} : q.state[t] = r.state[t]
  BY <1>1, 3 \in 0 .. 5, AdvanceOK
<1>4. q.failed = r.failed
  BY <1>1 DEF Advance, Ram
<1> HIDE DEF q
<1>5. /\ ram'.current = q.current /\ ram'.setup = q.setup
      /\ ram'.failed = q.failed /\ ram'.state = q.state
  BY <1>2, <1>3 DEF Ram
<1>6. /\ ram'.current = r.current /\ ram'.setup = r.setup /\ ram'.failed = r.failed
      /\ \A t \in Sessions \ {s} : ram'.state[t] = r.state[t]
  BY <1>3, <1>4, <1>5
<1> QED
  BY <1>1, <1>2, <1>6, HandledInUse

LEMMA UseWriteM5 ==
    ASSUME BLESessions = {}, IInv, SInv, UInv, NEW s \in Sessions,
           WriteM5(s) \/ WriteForgedM5(s) \/ WriteM5Unstored(s)
    PROVE  UInv'
<1> DEFINE r == BeginWrite(ram, Env, s, "M5", FALSE)
           q == Advance(r, s, 5)
<1>1. InUse(r) /\ (\A t \in Sessions : r.state[t] # 5) /\ r \in Ram
  BY BeginInUse DEF WriteM5, WriteForgedM5, WriteM5Unstored
<1>2. /\ q \in Ram /\ q.current = r.current /\ q.setup = r.setup
      /\ \A t \in Sessions \ {s} : q.state[t] = r.state[t]
  <2> HIDE DEF r
  <2> QED
    BY <1>1, 5 \in 0 .. 5, AdvanceOK
<1>3. q.failed = r.failed
  <2> HIDE DEF r
  <2> QED
    BY <1>1 DEF Advance, Ram
<1>4. CASE WriteM5(s)
  <2>1. ram' = q /\ handling' = s
    BY <1>4, RespondIP DEF WriteM5
  <2> HIDE DEF q, r
  <2> QED
    BY <1>1, <1>2, <1>3, <2>1, HandledInUse
<1>5. CASE WriteForgedM5(s)
  <2>1. ram' = [q EXCEPT !.error[s] = TRUE] /\ handling' = s
    BY <1>5, RespondIP DEF WriteForgedM5
  <2> HIDE DEF q, r
  <2>2. /\ ram'.current = q.current /\ ram'.setup = q.setup
        /\ ram'.failed = q.failed /\ ram'.state = q.state
    BY <1>2, <2>1 DEF Ram
  <2> QED
    BY <1>1, <1>2, <1>3, <2>1, <2>2, HandledInUse
<1>6. CASE WriteM5Unstored(s)
  <2>1. ram' = Fail(q, FALSE, "ProcessM5")
    BY <1>6 DEF WriteM5Unstored
  <2> HIDE DEF q, r
  <2>2. ram'.failed # "none"
    BY <1>2, <2>1 DEF Fail, Ram
  <2> QED
    BY <2>2, UnfineInUse
<1> QED
  BY <1>4, <1>5, <1>6

\* Resetting a session in a handler that does not answer.
LEMMA ResetInUse ==
    ASSUME UInv, Up, handling = NoSession, handling' = handling,
           NEW s \in Sessions, NEW r \in Ram, NEW st, NEW T, RamOK(r, st, T),
           Env \in EnvType, NEW done, Safe(r, Env.paired, done), InUse(r),
           \A t \in Sessions : r.state[t] # 5,
           ram' = ResetForSession(r, Env, s)
    PROVE  UInv'
<1>1. InUse(ram')
  BY ResetForSessionInUse
<1>2. /\ ram'.state[s] = 0
      /\ \A t \in Sessions \ {s} : ram'.state[t] = r.state[t]
  BY ResetForSessionOK
<1>3. \A t \in Sessions : ram'.state[t] # 5
  BY <1>2
<1> QED
  BY <1>1, <1>3 DEF UInv, InUse, Fine

LEMMA UseWriteRejected ==
    ASSUME IInv, SInv, UInv, NEW s \in Sessions, NEW request \in Requests,
           NEW timedOut \in BOOLEAN, WriteRejected(s, request, timedOut)
    PROVE  UInv'
<1> DEFINE r == BeginWrite(ram, Env, s, request, timedOut)
<1>1. /\ InUse(r) /\ \A t \in Sessions : r.state[t] # 5
      /\ r \in Ram /\ Safe(r, Env.paired, Done) /\ RamOK(r, store, {s})
  BY BeginInUse DEF WriteRejected
<1>2. ram' = ResetForSession(r, Env, s) /\ handling' = handling /\ Up
      /\ handling = NoSession
  BY DEF WriteRejected, Ready
<1> HIDE DEF r
<1> QED
  BY <1>1, <1>2, SafeNow, ResetInUse

LEMMA UseWriteMalformed ==
    ASSUME IInv, SInv, UInv, NEW s \in Sessions, WriteMalformed(s)
    PROVE  UInv'
<1> DEFINE r == CloseTransientSessions(ram, Env, s)
<1>1. RamOK(r, store, {}) /\ r \in Ram
  BY SafeNow, CloseTransientSessionsOK DEF RamOK
<1>2. Safe(r, Env.paired, Done)
  BY SafeNow, CloseTransientSessionsSafe
<1>3. ram' = ResetForSession(r, Env, s) /\ handling' = handling /\ Up
      /\ handling = NoSession
  BY DEF WriteMalformed, Ready
<1>4. InUse(r) /\ \A t \in Sessions : r.state[t] \in {0, ram.state[t]}
  BY SafeNow, CloseTransientSessionsInUse DEF UInv
<1>5. \A t \in Sessions : r.state[t] # 5
  BY <1>3, <1>4, NoSessionApart DEF UInv, Up, Fine
<1> HIDE DEF r
<1> QED
  BY <1>1, <1>2, <1>3, <1>4, <1>5, SafeNow, ResetInUse

\* A read that ends leaves no session at the last step.
LEMMA EndReadInUse ==
    ASSUME IInv, SInv, NEW s \in Sessions, NEW q \in Ram, NEW st,
           RamOK(q, st, {}), Safe(q, Paired, Done), EndRead(s, q),
           InUse(q), Fine(q) => \A t \in Sessions : q.state[t] # 5
    PROVE  UInv'
<1>1. PICK writing : ram' = CloseUnsecuredSessions(q, Env, s, writing)
  BY DEF EndRead
<1> DEFINE c == CloseUnsecuredSessions(q, Env, s, writing)
<1>4. Env \in EnvType /\ Safe(q, Env.paired, Done)
  BY SafeNow
<1>5. /\ InUse(c) /\ (Fine(c) => Fine(q))
      /\ \A t \in Sessions : c.state[t] \in {0, q.state[t]}
  BY <1>4, CloseUnsecuredSessionsInUse
<1> HIDE DEF c
<1>2. /\ InUse(ram') /\ (Fine(ram') => Fine(q))
      /\ \A t \in Sessions : ram'.state[t] \in {0, q.state[t]}
  BY <1>1, <1>5 DEF c
<1>3. Fine(ram') => \A t \in Sessions : ram'.state[t] # 5
  BY <1>2
<1> QED
  BY <1>2, <1>3 DEF UInv, InUse, Fine

\* Without BLE sessions only the session that is being handled is read.
LEMMA OthersNotLast ==
    ASSUME BLESessions = {}, UInv, NEW s \in Sessions, CanRead(s)
    PROVE  \A t \in Sessions \ {s} : ram.state[t] # 5
BY DEF UInv, CanRead, Up, Fine

LEMMA ResetEndInUse ==
    ASSUME BLESessions = {}, IInv, SInv, UInv, NEW s \in Sessions, CanRead(s),
           NEW r \in Ram, RamOK(r, store, {}), Safe(r, Paired, Done), InUse(r),
           r.state = ram.state, EndRead(s, ResetForSession(r, Env, s))
    PROVE  UInv'
<1> DEFINE q == ResetForSession(r, Env, s)
<1>1. /\ RamOK(q, store, {} \ {s}) /\ q.state[s] = 0
      /\ \A t \in Sessions \ {s} : q.state[t] = r.state[t]
  BY SafeNow, ResetForSessionOK
<1>2. Safe(q, Env.paired, Done)
  BY SafeNow, ResetForSessionSafe
<1>3. InUse(q)
  BY SafeNow, ResetForSessionInUse
<1> HIDE DEF q
<1>4. q \in Ram /\ RamOK(q, store, {}) /\ Safe(q, Paired, Done) /\ EndRead(s, q)
  BY <1>1, <1>2, {} \ {s} = {}, SafeNow DEF RamOK, q
<1>5. \A t \in Sessions : q.state[t] # 5
  BY <1>1, OthersNotLast
<1> QED
  BY <1>3, <1>4, <1>5, EndReadInUse


LEMMA UseReadReset ==
    ASSUME BLESessions = {}, IInv, SInv, UInv, NEW s \in Sessions,
           ReadError(s) \/ ReadM6(s)
    PROVE  UInv'
<1>1. CanRead(s) /\ EndRead(s, ResetForSession(ram, Env, s))
  BY DEF ReadError, ReadM6
<1>2. ram \in Ram /\ RamOK(ram, store, {}) /\ Safe(ram, Paired, Done) /\ InUse(ram)
  BY SafeNow DEF UInv
<1> QED
  BY <1>1, <1>2, ResetEndInUse

LEMMA UseReadM6Unidentified ==
    ASSUME IInv, SInv, UInv, NEW s \in Sessions, ReadM6Unidentified(s)
    PROVE  UInv'
<1> DEFINE q == Fail(ram, FALSE, "GetM6")
<1>1. RamOK(q, store, {}) /\ q \in Ram
  BY SafeNow, FailOK DEF Checks, RamOK
<1>2. Safe(q, Paired, Done)
  BY SafeNow, FailSafe DEF Checks
<1>3. EndRead(s, q)
  BY DEF ReadM6Unidentified
<1>4. ~Fine(q)
  BY SafeNow DEF Fail, Fine, Ram
<1> HIDE DEF q
<1>5. InUse(q) /\ (Fine(q) => \A t \in Sessions : q.state[t] # 5)
  BY <1>4 DEF InUse
<1> QED
  BY <1>1, <1>2, <1>3, <1>5, EndReadInUse

LEMMA UseReadM2 ==
    ASSUME BLESessions = {}, IInv, SInv, UInv, NEW s \in Sessions, ReadM2(s)
    PROVE  UInv'
<1> DEFINE p == Advance(ram, s, 2)
           a == SetupInfoM2(s)
           q == [p EXCEPT !.setup = a]
<1>1. /\ EndRead(s, q)
      /\ q \in Ram /\ RamOK(q, store, {})
      /\ q.state[s] = 2
  BY AnswerM2
<1>2. ram.current = s /\ CanRead(s)
  BY DEF ReadM2, RefusesM2
<1>3. /\ p \in Ram /\ p.current = ram.current
      /\ \A t \in Sessions \ {s} : p.state[t] = ram.state[t]
  BY SafeNow, 2 \in 0 .. 5, AdvanceOK
<1>4. Safe(q, Paired, Done)
  BY SafeM2
<1> HIDE DEF p, a
<1>5. q.current = ram.current /\ q.state = p.state
  BY <1>3 DEF Ram
<1> HIDE DEF q
<1>6. InUse(q)
  BY <1>2, <1>5, NoSessionApart DEF InUse
<1>7. \A t \in Sessions : q.state[t] # 5
  BY <1>1, <1>2, <1>3, <1>5, OthersNotLast
<1> QED
  BY <1>1, <1>4, <1>6, <1>7, EndReadInUse

LEMMA UseReadM2Unsent ==
    ASSUME BLESessions = {}, IInv, SInv, UInv, NEW s \in Sessions, ReadM2Unsent(s)
    PROVE  UInv'
<1> DEFINE a == SetupInfoM2(s)
           q == [ram EXCEPT !.setup = a]
<1>1. ram.current = s /\ CanRead(s) /\ EndRead(s, ResetForSession(q, Env, s))
  BY DEF ReadM2Unsent, RefusesM2
<1>2. a \in SetupInfo
  BY SetupInfoM2Type
<1>3. Safe(q, Paired, Done)
  BY SafeM2Unsent
<1> HIDE DEF a
<1>4. q \in Ram /\ RamOK(q, store, {})
  BY <1>2, SafeNow, WithSetup
<1>5. q.current = s /\ q.state = ram.state
  BY <1>1, SafeNow DEF Ram
<1> HIDE DEF q
<1>6. InUse(q)
  BY <1>5, NoSessionApart DEF InUse
<1> QED
  BY <1>1, <1>3, <1>4, <1>5, <1>6, ResetEndInUse DEF q, a

LEMMA UseReadM4Reset ==
    ASSUME BLESessions = {}, IInv, SInv, UInv, NEW s \in Sessions,
           ReadM4Unsent(s) \/ \E counted \in BOOLEAN : ReadM4Refused(s, counted)
    PROVE  UInv'
<1>1. /\ CanRead(s) /\ ram.state[s] = 3
      /\ EndRead(s, ResetForSession([ram EXCEPT !.setup = SetupInfoM4], Env, s))
  BY DEF ReadM4Refused, ReadM4Unsent
<1>2. [ram EXCEPT !.setup = SetupInfoM4] = ram
  BY <1>1, ServedM4, CanReadUp, SafeNow DEF Ram
<1>3. ram \in Ram /\ RamOK(ram, store, {}) /\ Safe(ram, Paired, Done) /\ InUse(ram)
  BY SafeNow DEF UInv
<1> QED
  BY <1>1, <1>2, <1>3, ResetEndInUse

LEMMA UseReadM4Transient ==
    ASSUME BLESessions = {}, IInv, SInv, UInv, NEW s \in Sessions, ReadM4Transient(s)
    PROVE  UInv'
<1> DEFINE q == [ram EXCEPT !.hap[s] = "transient", !.setup = SetupInfoM4,
                            !.keep = @ \/ "Split" \in ram.flags]
<1>1. /\ CanRead(s)
      /\ EndRead(s, ResetForSession(q, Env, s))
  BY DEF ReadM4Transient
<1>2. /\ q \in Ram /\ RamOK(q, store, {}) /\ Safe(q, Paired, Done)
      /\ q.current = ram.current /\ q.setup = ram.setup /\ q.failed = ram.failed
      /\ q.state = ram.state
  BY TransientM4
<1> HIDE DEF q
<1>3. InUse(q)
  BY <1>2, SameInUse DEF UInv
<1> QED
  BY <1>1, <1>2, <1>3, ResetEndInUse DEF q

LEMMA UseReadM4 ==
    ASSUME BLESessions = {}, IInv, SInv, UInv, NEW s \in Sessions, ReadM4(s)
    PROVE  UInv'
<1> DEFINE q == [Advance(ram, s, 4) EXCEPT !.setup = SetupInfoM4]
<1>1. EndRead(s, q) /\ CanRead(s)
  BY DEF ReadM4
<1>2. /\ q \in Ram /\ RamOK(q, store', {}) /\ Safe(q, Paired, Done)
      /\ q.current = s /\ q.state[s] = 4
      /\ \A t \in Sessions \ {s} : q.state[t] = ram.state[t]
  BY VerifiedM4
<1> HIDE DEF q
<1>3. InUse(q)
  BY <1>2, NoSessionApart DEF InUse
<1>4. \A t \in Sessions : q.state[t] # 5
  BY <1>1, <1>2, OthersNotLast
<1> QED
  BY <1>1, <1>2, <1>3, <1>4, EndReadInUse


\* The server, the timers and the application lock nothing.
LEMMA CalmInUse ==
    ASSUME IInv, SInv, UInv, Up, NEW a \in SetupInfo,
           a.failed = "none" => KeepsCalm(ram.setup, a, Env.paired)
    PROVE  LET q == [ram EXCEPT !.setup = a]
           IN  /\ InUse(q) /\ q.state = ram.state
               /\ q \in Ram /\ RamOK(q, store, {})
<1> DEFINE q == [ram EXCEPT !.setup = a]
<1>1. q.setup = a /\ q.current = ram.current /\ q.failed = ram.failed
      /\ q.state = ram.state
  BY SafeNow DEF Ram
<1>2. q \in Ram /\ RamOK(q, store, {})
  BY SafeNow, WithSetup
<1> HIDE DEF q
<1>3. ASSUME Fine(q), q.setup.lock PROVE q.current # NoSession \/ q.setup.keep
  <2>1. KeepsCalm(ram.setup, a, Env.paired) /\ a.lock
    BY <1>1, <1>3 DEF Fine
  <2>2. ram.setup.lock /\ a.keep = ram.setup.keep
    BY <2>1 DEF KeepsCalm, Calm
  <2>3. ram.current # NoSession \/ ram.setup.keep
    BY <2>2, SafeNow DEF UInv, InUse
  <2> QED
    BY <1>1, <2>2, <2>3
<1> QED
  BY <1>1, <1>2, <1>3 DEF InUse, q

LEMMA UseSetupInfoStep ==
    ASSUME IInv, SInv, UInv, Up, NEW a \in SetupInfo, SetupInfoStep(a),
           a.failed = "none" => KeepsCalm(ram.setup, a, Env.paired)
    PROVE  UInv'
<1>1. InUse(ram') /\ ram'.state = ram.state /\ handling' = handling
  BY CalmInUse DEF SetupInfoStep
<1> QED
  BY <1>1, StayInUse

LEMMA UseSetup == ASSUME IInv, SInv, UInv, Setup PROVE UInv'
<1>1. PICK a : Up /\ a \in SetupInfo /\ SetupInfoStep(a)
               /\ (a.failed = "none" => KeepsCalm(ram.setup, a, Env.paired))
  BY SetupStepCalm
<1> QED
  BY <1>1, UseSetupInfoStep

LEMMA CompleteShutdownInUse ==
    ASSUME NEW r \in Ram, NEW env \in EnvType
    PROVE  LET q == CompleteShutdown(r, env)
           IN  InUse(q) /\ q.state = r.state
<1> DEFINE f == Fail(r, r.current = NoSession, "CompleteShutdown")
           a == HandleAccessoryServerStop(f.setup, env)
           q == CompleteShutdown(r, env)
<1>1. f \in Ram /\ f.state = r.state
  BY DEF Fail, Ram, Checks
<1>2. q.setup = a /\ q.failed = f.failed /\ q.state = f.state
  BY <1>1 DEF CompleteShutdown, Ram
<1>3. f.setup \in SetupInfo
  BY <1>1 DEF Ram
<1> HIDE DEF q, f
<1>4. ASSUME Fine(q) PROVE ~q.setup.lock
  <2>1. a.failed = "none"
    BY <1>2, <1>4 DEF Fine
  <2> QED
    BY <1>2, <1>3, <2>1, HandleAccessoryServerStopSound
<1> QED
  BY <1>1, <1>2, <1>4 DEF InUse, q

LEMMA UseStart == ASSUME IInv, SInv, UInv, Start PROVE UInv'
<1> DEFINE env == [Env EXCEPT !.started = TRUE]
           a == HandleAccessoryServerStart(ram.setup, env)
<1>1. env \in EnvType /\ env.paired = Paired /\ env.paired = Env.paired
  BY SafeNow DEF EnvType
<1>2. ram' = [ram EXCEPT !.setup = a] /\ Up /\ handling' = handling
  BY DEF Start, Ready
<1> HIDE DEF env
<1>3. ram.setup \in SetupInfo /\ Sound(ram.setup, env.paired)
  BY <1>1, <1>2, SetupNow
<1>4. a \in SetupInfo /\ (a.failed = "none" => KeepsCalm(ram.setup, a, env.paired))
  BY <1>1, <1>3, HandleAccessoryServerStartType, HandleAccessoryServerStartSound
<1> HIDE DEF a
<1>5. InUse(ram') /\ ram'.state = ram.state
  BY <1>1, <1>2, <1>4, CalmInUse
<1> QED
  BY <1>2, <1>5, StayInUse

\* A stop that proceeds finds the volatile state ram, or with a session less.
LEMMA UseProceedWithStop ==
    ASSUME IInv, SInv, UInv, Up, NEW r \in Ram, InUse(r), ProceedWithStop(r),
           \A t \in Sessions : r.state[t] \in {0, ram.state[t]},
           handling' = handling
    PROVE  UInv'
<1>1. CASE HasIP
  BY <1>1, StayInUse DEF ProceedWithStop
<1>2. CASE ~HasIP
  <2>1. ram' = CompleteShutdown(r, Env)
    BY <1>2 DEF ProceedWithStop
  <2>2. InUse(ram') /\ ram'.state = r.state
    BY <2>1, SafeNow, CompleteShutdownInUse
  <2> QED
    BY <2>2, StayInUse
<1> QED
  BY <1>1, <1>2

LEMMA UseStop == ASSUME IInv, SInv, UInv, Stop PROVE UInv'
<1>1. CASE BLEConnected
  <2>1. ram' = ram /\ handling' = handling
    BY <1>1 DEF Stop
  <2> QED
    BY <2>1 DEF UInv, InUse, Fine
<1>2. CASE ~BLEConnected
  <2>1. ProceedWithStop(ram) /\ handling' = handling /\ Up /\ ram \in Ram /\ InUse(ram)
    BY <1>2, SafeNow DEF Stop, Ready, UInv
  <2> QED
    BY <2>1, UseProceedWithStop
<1> QED
  BY <1>1, <1>2

LEMMA UseEngineIdle == ASSUME UInv, EngineIdle PROVE UInv'
BY DEF EngineIdle, UInv, InUse, Fine

LEMMA UseCallbackTimerExpired ==
    ASSUME IInv, SInv, UInv, CallbackTimerExpired PROVE UInv'
<1> DEFINE a == HandleAccessoryServerStateUpdate(ram.setup, Env)
           r == [ram EXCEPT !.setup = a]
           completed == HasIP /\ engine = "Idle"
<1>1. a \in SetupInfo
  BY SafeNow, RamInType, HandleAccessoryServerStateUpdateType
<1>2. r = [ram EXCEPT !.setup = HandleAccessoryServerStateUpdate(@, Env)]
  BY RamInType DEF Ram
<1>3. /\ ram' = IF completed THEN CompleteShutdown(r, Env) ELSE r
      /\ Up /\ handling' = handling
  BY <1>2 DEF CallbackTimerExpired, Ready
<1>4. a.failed = "none" => KeepsCalm(ram.setup, a, Env.paired)
  BY <1>3, SetupNow, HandleAccessoryServerStateUpdateSound
<1> HIDE DEF a
<1>5. InUse(r) /\ r \in Ram /\ r.state = ram.state
  BY <1>1, <1>3, <1>4, CalmInUse
<1> HIDE DEF r
<1>6. InUse(CompleteShutdown(r, Env)) /\ CompleteShutdown(r, Env).state = r.state
  BY <1>5, SafeNow, CompleteShutdownInUse
<1>7. InUse(ram') /\ ram'.state = ram.state
  BY <1>3, <1>5, <1>6
<1> QED
  BY <1>3, <1>7, StayInUse

LEMMA UseOpenSession ==
    ASSUME IInv, SInv, UInv, NEW s \in Sessions, OpenSession(s) \/ VerifySession(s)
    PROVE  UInv'
<1>1. \/ ram' = [ram EXCEPT !.open = @ \cup {s}]
      \/ ram' = [ram EXCEPT !.hap[s] = "verified"]
  BY DEF OpenSession, VerifySession
<1>2. /\ ram'.current = ram.current /\ ram'.setup = ram.setup
      /\ ram'.failed = ram.failed /\ ram'.state = ram.state
  BY <1>1, SafeNow DEF Ram
<1>3. handling' = handling /\ Up
  BY DEF OpenSession, VerifySession, Ready
<1>4. InUse(ram')
  BY <1>2, SameInUse DEF UInv
<1> QED
  BY <1>2, <1>3, <1>4, StayInUse

LEMMA UseCloseSession ==
    ASSUME IInv, SInv, UInv, NEW s \in Sessions, CloseSession(s) PROVE UInv'
<1> DEFINE r == ReleaseSessions(ram, Env, {s})
<1>1. r \in Ram /\ \A t \in Sessions : r.state[t] \in {0, ram.state[t]}
  BY SafeNow, {s} \in SUBSET Sessions, ReleaseSessionsOK DEF RamOK
<1>2. InUse(r)
  BY SafeNow, {s} \in SUBSET Sessions, ReleaseSessionsInUse DEF UInv
<1>3. /\ ProceedWithStop(r) \/ ram' = r
      /\ Up /\ handling' = handling
  BY DEF CloseSession, Ready
<1> HIDE DEF r
<1> QED
  BY <1>1, <1>2, <1>3, UseProceedWithStop, StayInUse

LEMMA UseRequestOnTransientSession ==
    ASSUME IInv, SInv, UInv, NEW s \in Sessions, RequestOnTransientSession(s)
    PROVE  UInv'
<1>1. ram' = CheckTransient(ram, Env, {s}) /\ Up /\ handling' = handling
  BY DEF RequestOnTransientSession, Ready
<1>2. InUse(ram')
  BY <1>1, SafeNow, CheckTransientInUse DEF UInv
<1>3. ram'.state = ram.state
  BY <1>1, SafeNow, {s} \in SUBSET Sessions, CheckTransientOK
<1> QED
  BY <1>1, <1>2, <1>3, StayInUse

LEMMA UseRemovePairings ==
    ASSUME IInv, SInv, UInv, NEW s \in Sessions, RemovePairings(s) PROVE UInv'
<1> DEFINE env == [Env EXCEPT !.paired = FALSE]
<1>1. env \in EnvType /\ env.paired = FALSE
  BY SafeNow DEF EnvType
<1>2. Safe(ram, FALSE, FALSE)
  BY UnpairedSafe DEF RemovePairings, Ready, Paired
<1>3. PICK writing : ram' = CloseUnsecuredSessions(ram, env, s, writing)
  BY DEF RemovePairings
<1> HIDE DEF env
<1> DEFINE c == CloseUnsecuredSessions(ram, env, s, writing)
<1>4. ram \in Ram /\ RamOK(ram, store, {}) /\ Safe(ram, env.paired, FALSE) /\ InUse(ram)
  BY <1>1, <1>2, SafeNow DEF UInv
<1>5. InUse(c) /\ \A t \in Sessions : c.state[t] \in {0, ram.state[t]}
  BY <1>1, <1>4, CloseUnsecuredSessionsInUse
<1> HIDE DEF c
<1>6. ram' = c /\ Up /\ handling' = handling
  BY <1>3 DEF RemovePairings, Ready, c
<1> QED
  BY <1>5, <1>6, StayInUse

LEMMA UseZeroed ==
    InUse(ZeroedRam) /\ \A s \in Sessions : ZeroedRam.state[s] # 5
BY DEF InUse, ZeroedRam, NoSetupInfo

LEMMA UseNext == BLESessions = {} /\ IInv /\ SInv /\ UInv /\ [Next]_vars => UInv'
<1> SUFFICES ASSUME BLESessions = {}, IInv, SInv, UInv, [Next]_vars PROVE UInv'
  OBVIOUS
<1>1. ASSUME NEW s \in Sessions, Write(s) PROVE UInv'
  BY <1>1, UseWriteM1, UseWriteM3, UseWriteM5, UseWriteRejected,
     UseWriteMalformed DEF Write
<1>2. ASSUME NEW s \in Sessions, Read(s) PROVE UInv'
  BY <1>2, UseReadReset, UseReadM2, UseReadM2Unsent, UseReadM4Reset,
     UseReadM4, UseReadM4Transient, UseReadM6Unidentified DEF Read
<1>3. ASSUME NEW s \in Sessions, Connection(s) PROVE UInv'
  BY <1>3, UseOpenSession, UseCloseSession, UseRemovePairings,
     UseRequestOnTransientSession DEF Connection
<1>4. CASE Server
  BY <1>4, UseStart, UseStop, UseEngineIdle, UseCallbackTimerExpired DEF Server
<1>5. CASE Setup
  BY <1>5, UseSetup
<1>6. CASE Reboot
  BY <1>6, UseZeroed DEF Reboot, UInv
<1>7. CASE UNCHANGED vars
  BY <1>7 DEF vars, UInv, InUse, Fine
<1> QED
  BY <1>1, <1>2, <1>3, <1>4, <1>5, <1>6, <1>7 DEF Next

\* Over IP no setup code stays in memory without a use: without a display it is
\* for NFC pairing mode or locked by a procedure, and a code that is locked has
\* a procedure or waits for the one that follows a split Pair Setup, whichever
\* way the sessions, the timers and the server's restarts interleave.
THEOREM CodesHaveUse ==
    ASSUME BLESessions = {} PROVE Spec => []SecretsHaveUse
<1>1. Init => UInv
  BY UseZeroed DEF Init, UInv
<1>2. IInv /\ SInv /\ UInv /\ [Next]_vars => UInv'
  BY UseNext
<1>3. IInv /\ SInv /\ UInv => SecretsHaveUse
  BY SafeNow DEF SecretsHaveUse, UInv, InUse, Pinned, Sound
<1> QED
  BY <1>1, <1>2, <1>3, Invariance, SetupInvariance, PTL DEF Spec

=============================================================================
