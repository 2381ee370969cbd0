----------------------------- MODULE PairSetup -----------------------------
(***************************************************************************)
(* Pair Setup: the procedure by which a controller that knows the setup    *)
(* code becomes the owner of the accessory (HAPPairingPairSetup.c), driven *)
(* by the sessions of the IP and BLE transports (HAPSession.c), together   *)
(* with what races with it: the setup info manager and its timers, the     *)
(* accessory server's start, stop and deferred state update, removal of    *)
(* the pairing over another session, and loss of power.                    *)
(*                                                                         *)
(* Everything runs on one run loop, so an action is a handler that runs to *)
(* completion.  Over IP a request is a write and a read of the procedure   *)
(* in one handler; over BLE the two are separate GATT operations unless    *)
(* the write asks for a response.  The two halves are separate actions     *)
(* here, and "handling" keeps them together when the code does.            *)
(***************************************************************************)
EXTENDS AccessorySetupInfo

CONSTANTS
    IPSessions,         \* sessions of the IP accessory server
    BLESessions,        \* the session of the BLE peripheral manager, if any
    MaxTries,           \* failed attempts after which M2 refuses; 100
    SupportsMFiHWAuth   \* an Apple Authentication Coprocessor is attached

ASSUME PairSetupAssumption ==
    /\ Sessions = IPSessions \cup BLESessions
    /\ IPSessions \cap BLESessions = {}
    /\ IsFiniteSet(BLESessions) /\ Cardinality(BLESessions) <= 1
    /\ MaxTries \in 1 .. 255
    /\ SupportsMFiHWAuth \in BOOLEAN

VARIABLES
    ram,            \* what power loss erases, see Ram
    store,          \* the key-value store, see Store
    lifecycle,      \* server->state
    engine,         \* server->ip.state
    updatePending,  \* server->callbackTimer is registered
    handling        \* session between the write and the read of one handler

vars == <<ram, store, lifecycle, engine, updatePending, handling>>

-----------------------------------------------------------------------------
(***************************************************************************)
(* State.                                                                  *)
(***************************************************************************)

PairingFlags == {"Transient", "Split"}
Methods == {"none", "normal", "auth"}
Proofs == {"none", "good", "bad", "illegal"}
ServerStates == {"Idle", "Running", "Stopping"}

\* The assertions of the callers that can be stated over this state.
Checks == {"CompleteShutdown", "HAPSessionIsTransient", "ProcessM5", "GetM6"}

(***************************************************************************)
(* Of server->pairSetup: current is sessionThatIsCurrentlyPairing, keep is *)
(* keepSetupInfo, flags is empty when none are present, and proof stands   *)
(* for A and M1.  Of each session: state, method and error of its          *)
(* state.pairSetup, and whether its security context hap is active.        *)
(***************************************************************************)
Ram ==
    [open : SUBSET Sessions,
     state : [Sessions -> 0 .. 5],
     method : [Sessions -> Methods],
     error : [Sessions -> BOOLEAN],
     hap : [Sessions -> {"none", "transient", "verified"}],
     current : Sessions \cup {NoSession},
     flags : SUBSET PairingFlags, keep : BOOLEAN, proof : Proofs,
     setup : SetupInfo,
     failed : Checks \cup {"none"}]

ZeroedRam ==
    [open |-> {},
     state |-> [s \in Sessions |-> 0],
     method |-> [s \in Sessions |-> "none"],
     error |-> [s \in Sessions |-> FALSE],
     hap |-> [s \in Sessions |-> "none"],
     current |-> NoSession,
     flags |-> {}, keep |-> FALSE, proof |-> "none",
     setup |-> NoSetupInfo,
     failed |-> "none"]

\* owner is the session over which the stored admin pairing was made.
\* attempts is a byte, kept as NumUnsuccessfulAuthAttempts.
Store == [owner : Sessions \cup {NoSession}, attempts : 0 .. 255]

Paired == store.owner # NoSession
Env == [paired |-> Paired, started |-> lifecycle # "Idle"]

HasIP == IPSessions # {}
BLEConnected == ram.open \cap BLESessions # {}

\* The process has not been aborted by a failed assertion.
Up == ram.failed = "none" /\ ram.setup.failed = "none"

\* The run loop may enter a handler.
Ready == Up /\ handling = NoSession

Init ==
    /\ ram = ZeroedRam
    /\ store = [owner |-> NoSession, attempts |-> 0]
    /\ lifecycle = "Idle"
    /\ engine = "Idle"
    /\ updatePending = FALSE
    /\ handling = NoSession

-----------------------------------------------------------------------------
(***************************************************************************)
(* Ending a procedure.                                                     *)
(***************************************************************************)

Fail(r, holds, name) ==
    IF holds \/ r.failed # "none" THEN r ELSE [r EXCEPT !.failed = name]

\* Fault: keepSetupInfo outlives the procedure.
StopPairing_KeepsFlag(r, env, S) ==
    IF r.current \in S
    THEN [r EXCEPT !.current = NoSession, !.flags = {}, !.proof = "none",
                   !.setup = HandlePairingStop(@, env, r.keep)]
    ELSE r

\* The procedure of whichever session of S is pairing is over.
StopPairing(r, env, S) ==
    IF r.current \in S
    THEN [r EXCEPT !.current = NoSession, !.flags = {}, !.keep = FALSE,
                   !.proof = "none",
                   !.setup = HandlePairingStop(@, env, r.keep)]
    ELSE r

\* HAPRawBufferZero(&session->state.pairSetup, ...) for every session of S.
ForgetSteps(r, S) ==
    [r EXCEPT !.state = [s \in Sessions |-> IF s \in S THEN 0 ELSE @[s]],
              !.method = [s \in Sessions |-> IF s \in S THEN "none" ELSE @[s]],
              !.error = [s \in Sessions |-> s \notin S /\ @[s]]]

ResetForSession(r, env, s) == ForgetSteps(StopPairing(r, env, {s}), {s})

\* Fault: the procedure of a closed session is not stopped.
ReleaseSessions_NoStop(r, env, S) ==
    [ForgetSteps(r, S) EXCEPT
        !.hap = [s \in Sessions |-> IF s \in S THEN "none" ELSE @[s]],
        !.open = @ \ S]

\* HAPSessionRelease of every session of S, whose connection is then gone.
ReleaseSessions(r, env, S) ==
    [ForgetSteps(StopPairing(r, env, S), S) EXCEPT
        !.hap = [s \in Sessions |-> IF s \in S THEN "none" ELSE @[s]],
        !.open = @ \ S]

\* HAPSessionIsTransient asserts that a transient session saw no pairing.
CheckTransient(r, env, S) ==
    Fail(r, ~env.paired \/ \A s \in S : r.hap[s] # "transient",
         "HAPSessionIsTransient")

\* Fault: transient sessions stay open.
CloseTransientSessions_None(r, env, s) == r

\* POST /pair-setup closes the transient sessions of its own transport.
CloseTransientSessions(r, env, s) ==
    LET others == IF s \in IPSessions THEN IPSessions \ {s} ELSE {}
    IN  ReleaseSessions(CheckTransient(r, env, others), env,
                        {t \in others : r.hap[t] = "transient"})

-----------------------------------------------------------------------------
(***************************************************************************)
(* HAPPairingPairSetupHandleWrite.  A request is known by its kTLVType_    *)
(* State and by whether the step for that state accepts it: "BadM1" has    *)
(* state 1 and an invalid method or flags, "Bad" has any other defect.     *)
(***************************************************************************)

Requests == {"M1", "M3", "M5", "BadM1", "Bad"}

\* Session s loses its procedure to another one, which goes on with the same
\* setup code: it is neither discarded nor kept beyond that.
Abandon(r, env, s) ==
    [ResetForSession([r EXCEPT !.keep = TRUE], env, s) EXCEPT !.setup.keep = FALSE]

\* Fault: the setup code stays kept after the restart.
Restart_StaysKept(r, env, s, request) ==
    IF r.current = s /\ request \in {"M1", "BadM1"}
    THEN ResetForSession([r EXCEPT !.keep = TRUE], env, s)
    ELSE r

\* A controller that sends M1 again abandons its own ongoing procedure, but
\* goes on with the setup code its user may be typing in.
Restart(r, env, s, request) ==
    IF r.current = s /\ request \in {"M1", "BadM1"} THEN Abandon(r, env, s) ELSE r

\* Fault: the steps of the session that is taken over from are not forgotten.
TakeOver_NoReset(r, env, s, timedOut) ==
    IF timedOut /\ r.current \notin {s, NoSession}
    THEN [StopPairing([r EXCEPT !.keep = TRUE], env, {r.current})
            EXCEPT !.setup.keep = FALSE]
    ELSE r

\* The procedure of another session is taken over once it has timed out.
TakeOver(r, env, s, timedOut) ==
    IF timedOut /\ r.current \notin {s, NoSession}
    THEN Abandon(r, env, r.current)
    ELSE r

Claim(r, env, s, timedOut) ==
    IF r.state[s] = 0 /\ ~env.paired
    THEN LET q == TakeOver(r, env, s, timedOut)
         IN  IF q.current = NoSession
             THEN [q EXCEPT !.current = s,
                            !.setup = HandlePairingStart(@, env)]
             ELSE q
    ELSE r

\* The state a request finds the procedure of session s in.
BeginWrite(r, env, s, request, timedOut) ==
    Claim(Restart(CloseTransientSessions(r, env, s), env, s, request),
          env, s, timedOut)

Expected(step, request) ==
    \/ step = 0 /\ request = "M1"
    \/ step = 2 /\ request = "M3"
    \/ step = 4 /\ request = "M5"

\* session->state.pairSetup.state
Advance(r, s, step) == [r EXCEPT !.state[s] = step]

ProcessM1(r, s, method, flags) ==
    [Advance(r, s, 1) EXCEPT
              !.method[s] = method,
              !.flags = IF r.current = s THEN flags ELSE @]

\* The transport lets the session write and read the pairing feature.
Accessible(s) ==
    /\ s \in ram.open
    /\ \/ s \in IPSessions /\ ram.hap[s] = "none"
       \/ /\ s \in BLESessions
          /\ ram.hap[s] # "transient"
          /\ ~(ram.hap[s] = "verified" /\ Paired)

\* After a successful write the same handler reads, or, over BLE, may not.
Respond(s) ==
    \/ handling' = s
    \/ s \in BLESessions /\ handling' = NoSession

WriteM1(s, method, flags, timedOut) ==
    /\ Ready /\ Accessible(s)
    /\ LET r == BeginWrite(ram, Env, s, "M1", timedOut)
       IN  /\ Expected(r.state[s], "M1")
           /\ ram' = ProcessM1(r, s, method, flags)
    /\ Respond(s)
    /\ UNCHANGED <<store, lifecycle, engine, updatePending>>

WriteM3(s, proof) ==
    /\ Ready /\ Accessible(s)
    /\ LET r == BeginWrite(ram, Env, s, "M3", FALSE)
       IN  /\ Expected(r.state[s], "M3")
           /\ ram' = [Advance(r, s, 3) EXCEPT !.proof = proof]
    /\ Respond(s)
    /\ UNCHANGED <<store, lifecycle, engine, updatePending>>

\* Fault: the state update is not scheduled.
WriteM5_NoUpdate(s) ==
    /\ Ready /\ Accessible(s)
    /\ LET r == BeginWrite(ram, Env, s, "M5", FALSE)
       IN  /\ Expected(r.state[s], "M5")
           /\ ram' = Advance(r, s, 5)
    /\ store' = [store EXCEPT !.owner = s]
    /\ Respond(s)
    /\ UNCHANGED <<lifecycle, engine, updatePending>>

\* Fault: the step is not advanced.
WriteM5_SameStep(s) ==
    /\ Ready /\ Accessible(s)
    /\ LET r == BeginWrite(ram, Env, s, "M5", FALSE)
       IN  Expected(r.state[s], "M5") /\ ram' = r
    /\ store' = [store EXCEPT !.owner = s]
    /\ updatePending' = TRUE
    /\ Respond(s)
    /\ UNCHANGED <<lifecycle, engine>>

\* The signature verifies and the controller's pairing is stored.
WriteM5(s) ==
    /\ Ready /\ Accessible(s)
    /\ LET r == BeginWrite(ram, Env, s, "M5", FALSE)
       IN  /\ Expected(r.state[s], "M5")
           /\ ram' = Advance(r, s, 5)
    /\ store' = [store EXCEPT !.owner = s]
    /\ updatePending' = (updatePending \/ ~Paired)
    /\ Respond(s)
    /\ UNCHANGED <<lifecycle, engine>>

\* The data does not decrypt or the signature is wrong: an error is pending.
WriteForgedM5(s) ==
    /\ Ready /\ Accessible(s)
    /\ LET r == BeginWrite(ram, Env, s, "M5", FALSE)
       IN  /\ Expected(r.state[s], "M5")
           /\ ram' = [Advance(r, s, 5) EXCEPT !.error[s] = TRUE]
    /\ Respond(s)
    /\ UNCHANGED <<store, lifecycle, engine, updatePending>>

\* The pairing cannot be stored: kHAPError_Unknown, which the caller does
\* not allow for.
WriteM5Unstored(s) ==
    /\ Ready /\ Accessible(s)
    /\ LET r == BeginWrite(ram, Env, s, "M5", FALSE)
       IN  /\ Expected(r.state[s], "M5")
           /\ ram' = Fail(Advance(r, s, 5), FALSE, "ProcessM5")
    /\ UNCHANGED <<store, lifecycle, engine, updatePending, handling>>

\* A request that this step rejects ends the procedure, and is not read.
WriteRejected(s, request, timedOut) ==
    /\ Ready /\ Accessible(s)
    /\ LET r == BeginWrite(ram, Env, s, request, timedOut)
       IN  /\ ~Expected(r.state[s], request)
           /\ ram' = ResetForSession(r, Env, s)
    /\ UNCHANGED <<store, lifecycle, engine, updatePending, handling>>

\* The request is not TLV8, or an M5 does not parse or finds no memory.
WriteMalformed(s) ==
    /\ Ready /\ Accessible(s)
    /\ ram' = ResetForSession(CloseTransientSessions(ram, Env, s), Env, s)
    /\ UNCHANGED <<store, lifecycle, engine, updatePending, handling>>

-----------------------------------------------------------------------------
(***************************************************************************)
(* HAPPairingPairSetupHandleRead.                                          *)
(***************************************************************************)

\* After a response over IP, the other sessions whose pairing has been removed
\* are closed, but for those that are still writing.
CloseUnsecuredSessions(r, env, s, writing) ==
    LET others == IF s \in IPSessions THEN IPSessions \ {s} ELSE {}
    IN  ReleaseSessions(CheckTransient(r, env, others), env,
            {t \in others \ writing : r.hap[t] = "verified" /\ ~env.paired})

CanRead(s) ==
    /\ Up
    /\ \/ handling = s
       \/ handling = NoSession /\ s \in BLESessions /\ Accessible(s)

EndRead(s, r) ==
    /\ \E writing \in SUBSET IPSessions :
          ram' = CloseUnsecuredSessions(r, Env, s, writing)
    /\ handling' = NoSession
    /\ UNCHANGED <<lifecycle, engine, updatePending>>

\* Already paired, too many failed attempts, or busy with another session.
RefusesM2(s) ==
    \/ ram.current = NoSession
    \/ Paired
    \/ store.attempts >= MaxTries
    \/ ram.current # s

RestorePreviousM2(s) ==
    /\ ram.method[s] = "normal"
    /\ "Split" \in ram.flags
    /\ "Transient" \notin ram.flags

\* Fault: M4 makes a new setup code after a split procedure.
RestorePreviousM4_Never == FALSE

\* M4 does not ask for the method again.
RestorePreviousM4 == "Split" \in ram.flags /\ "Transient" \notin ram.flags

SetupInfoM2(s) ==
    [GetSetupInfo(ram.setup, Env, RestorePreviousM2(s)) EXCEPT !.served = s]

SetupInfoM4 == GetSetupInfo(ram.setup, Env, RestorePreviousM4)

\* A pending error is reported, M2 is refused, no response is due, or the
\* store or the response buffer fails: the procedure is over.
ReadError(s) ==
    /\ CanRead(s)
    /\ ram.state[s] = 5 => ram.error[s]
    /\ EndRead(s, ResetForSession(ram, Env, s))
    /\ UNCHANGED store

ReadM2(s) ==
    /\ CanRead(s)
    /\ ~ram.error[s] /\ ram.state[s] = 1
    /\ ~RefusesM2(s)
    /\ EndRead(s, [Advance(ram, s, 2) EXCEPT !.setup = SetupInfoM2(s)])
    /\ UNCHANGED store

\* Out of resources after the setup info has been fetched.
ReadM2Unsent(s) ==
    /\ CanRead(s)
    /\ ~ram.error[s] /\ ram.state[s] = 1
    /\ ~RefusesM2(s)
    /\ EndRead(s, ResetForSession([ram EXCEPT !.setup = SetupInfoM2(s)], Env, s))
    /\ UNCHANGED store

\* Fault: any proof will do.
ProofVerifies_Any(s) == ram.proof # "illegal"

\* The proof is of the setup code and of the salt and key that M2 sent.
ProofVerifies(s) == ram.proof = "good" /\ SetupInfoM4.served = s

\* A wrong proof is a failed attempt.  An illegal public key is none, nor is
\* anything that comes to nothing because the store fails.
ReadM4Refused(s, counted) ==
    /\ CanRead(s)
    /\ ~ram.error[s] /\ ram.state[s] = 3
    /\ counted => ram.proof # "illegal" /\ ~ProofVerifies(s)
    /\ EndRead(s, ResetForSession([ram EXCEPT !.setup = SetupInfoM4], Env, s))
    /\ store' = IF counted THEN [store EXCEPT !.attempts = @ + 1] ELSE store

AuthenticatesCoprocessor(s) == ram.method[s] = "auth" => SupportsMFiHWAuth
IsTransient(s) == ram.method[s] = "normal" /\ "Transient" \in ram.flags

ReadM4(s) ==
    /\ CanRead(s)
    /\ ~ram.error[s] /\ ram.state[s] = 3
    /\ ProofVerifies(s) /\ AuthenticatesCoprocessor(s) /\ ~IsTransient(s)
    /\ EndRead(s, [Advance(ram, s, 4) EXCEPT !.setup = SetupInfoM4])
    /\ store' = [store EXCEPT !.attempts = 0]

\* The session is secured for as long as it is open, and nothing is stored.
ReadM4Transient(s) ==
    /\ CanRead(s)
    /\ ~ram.error[s] /\ ram.state[s] = 3
    /\ ProofVerifies(s) /\ IsTransient(s)
    /\ EndRead(s, ResetForSession(
            [ram EXCEPT !.hap[s] = "transient", !.setup = SetupInfoM4,
                        !.keep = @ \/ "Split" \in ram.flags], Env, s))
    /\ store' = [store EXCEPT !.attempts = 0]

\* No coprocessor, a failing one, or out of resources once the proof is
\* known to be right.
ReadM4Unsent(s) ==
    /\ CanRead(s)
    /\ ~ram.error[s] /\ ram.state[s] = 3
    /\ ProofVerifies(s)
    /\ EndRead(s, ResetForSession([ram EXCEPT !.setup = SetupInfoM4], Env, s))
    /\ store' = [store EXCEPT !.attempts = 0]

\* Fault: the procedure is not reset after M6.
ReadM6_NoReset(s) ==
    /\ CanRead(s)
    /\ ~ram.error[s] /\ ram.state[s] = 5
    /\ EndRead(s, Advance(ram, s, 6))
    /\ UNCHANGED store

\* M6, or the lack of resources to send it, ends the procedure.
ReadM6(s) ==
    /\ CanRead(s)
    /\ ~ram.error[s] /\ ram.state[s] = 5
    /\ EndRead(s, ResetForSession(ram, Env, s))
    /\ UNCHANGED store

\* The device ID cannot be read: kHAPError_Unknown, which the caller does
\* not allow for.
ReadM6Unidentified(s) ==
    /\ CanRead(s)
    /\ ~ram.error[s] /\ ram.state[s] = 5
    /\ EndRead(s, Fail(ram, FALSE, "GetM6"))
    /\ UNCHANGED store

-----------------------------------------------------------------------------
(***************************************************************************)
(* The accessory server.                                                   *)
(***************************************************************************)

CompleteShutdown(r, env) ==
    [Fail(r, r.current = NoSession, "CompleteShutdown")
        EXCEPT !.setup = HandleAccessoryServerStop(@, env)]

Start ==
    /\ Ready
    /\ lifecycle = "Idle"
    /\ lifecycle' = "Running"
    /\ engine' = IF HasIP THEN "Running" ELSE engine
    /\ updatePending' = TRUE
    /\ ram' = [ram EXCEPT !.setup = HandleAccessoryServerStart(@,
                                        [Env EXCEPT !.started = TRUE])]
    /\ UNCHANGED <<store, handling>>

\* The part of HAPAccessoryServerStop that a BLE connection holds up.
ProceedWithStop(r) ==
    IF HasIP
    THEN /\ lifecycle' = "Stopping"
         /\ engine' = IF engine = "Running" THEN "Stopping" ELSE engine
         /\ updatePending' = (updatePending \/ engine = "Running")
         /\ ram' = r
    ELSE /\ lifecycle' = "Idle"
         /\ ram' = CompleteShutdown(r, Env)
         /\ UNCHANGED <<engine, updatePending>>

\* Fault: the BLE connection is not waited for.
Stop_NoWait ==
    /\ Ready
    /\ lifecycle # "Idle"
    /\ ProceedWithStop(ram)
    /\ UNCHANGED <<store, handling>>

Stop ==
    /\ Ready
    /\ lifecycle # "Idle"
    /\ IF BLEConnected
       THEN lifecycle' = "Stopping" /\ UNCHANGED <<ram, engine, updatePending>>
       ELSE ProceedWithStop(ram)
    /\ UNCHANGED <<store, handling>>

\* The last IP session has been collected after the listener was closed.
EngineIdle ==
    /\ Ready
    /\ engine = "Stopping"
    /\ ram.open \cap IPSessions = {}
    /\ engine' = "Idle"
    /\ updatePending' = TRUE
    /\ UNCHANGED <<ram, store, lifecycle, handling>>

CallbackTimerExpired ==
    /\ Ready
    /\ updatePending
    /\ updatePending' = FALSE
    /\ LET r == [ram EXCEPT !.setup = HandleAccessoryServerStateUpdate(@, Env)]
           completed == HasIP /\ engine = "Idle"
       IN  /\ ram' = IF completed THEN CompleteShutdown(r, Env) ELSE r
           /\ lifecycle' = IF completed THEN "Idle" ELSE lifecycle
    /\ UNCHANGED <<store, engine, handling>>

-----------------------------------------------------------------------------
(***************************************************************************)
(* Sessions.                                                               *)
(***************************************************************************)

\* An IP stream can be accepted until the listener is closed; a BLE central
\* can connect while the accessory advertises.
OpenSession(s) ==
    /\ Ready
    /\ s \notin ram.open
    /\ \/ s \in IPSessions /\ engine # "Idle"
       \/ s \in BLESessions /\ lifecycle = "Running"
    /\ ram' = [ram EXCEPT !.open = @ \cup {s}]
    /\ UNCHANGED <<store, lifecycle, engine, updatePending, handling>>

\* Closed by the controller, by the link, or by the accessory.  A stop that
\* waited for the BLE connection proceeds.
CloseSession(s) ==
    /\ Ready
    /\ s \in ram.open
    /\ LET r == ReleaseSessions(ram, Env, {s})
       IN  IF s \in BLESessions /\ lifecycle = "Stopping"
           THEN ProceedWithStop(r)
           ELSE ram' = r /\ UNCHANGED <<lifecycle, engine, updatePending>>
    /\ UNCHANGED <<store, handling>>

\* Pair Verify, for this module one step.
VerifySession(s) ==
    /\ Ready
    /\ s \in ram.open
    /\ ram.hap[s] = "none"
    /\ Paired
    /\ ram' = [ram EXCEPT !.hap[s] = "verified"]
    /\ UNCHANGED <<store, lifecycle, engine, updatePending, handling>>

\* The admin removes its pairing, and with it all pairings.
RemovePairings(s) ==
    /\ Ready
    /\ s \in ram.open
    /\ ram.hap[s] = "verified"
    /\ Paired
    /\ store' = [store EXCEPT !.owner = NoSession]
    /\ updatePending' = TRUE
    /\ \E writing \in SUBSET IPSessions :
          ram' = CloseUnsecuredSessions(ram, [Env EXCEPT !.paired = FALSE],
                                        s, writing)
    /\ UNCHANGED <<lifecycle, engine, handling>>

\* Any request over a transient session checks that it still may be one.
RequestOnTransientSession(s) ==
    /\ Ready
    /\ s \in ram.open
    /\ ram.hap[s] = "transient"
    /\ ram' = CheckTransient(ram, Env, {s})
    /\ UNCHANGED <<store, lifecycle, engine, updatePending, handling>>

-----------------------------------------------------------------------------
(***************************************************************************)
(* Timers of the setup info, calls of the application, and power loss.     *)
(***************************************************************************)

SetupInfoStep(setup) ==
    /\ ram' = [ram EXCEPT !.setup = setup]
    /\ UNCHANGED <<store, lifecycle, engine, updatePending, handling>>

RefreshTimerExpired ==
    /\ Ready /\ ram.setup.refresh
    /\ SetupInfoStep(DynamicSetupInfoExpired(ram.setup, Env))

NFCTimerExpired ==
    /\ Ready /\ ram.setup.nfc
    /\ SetupInfoStep(NFCPairingModeExpired(ram.setup, Env))

EnterNFC ==
    /\ Ready /\ HasNFC /\ lifecycle # "Idle"
    /\ SetupInfoStep(EnterNFCPairingMode(ram.setup, Env))

ExitNFC ==
    /\ Ready /\ HasNFC /\ lifecycle # "Idle"
    /\ SetupInfoStep(ExitNFCPairingMode(ram.setup, Env))

RefreshPayload ==
    /\ Ready /\ HasDisplay /\ lifecycle # "Idle"
    /\ SetupInfoStep(RefreshSetupPayload(ram.setup, Env))

\* At any moment, in the middle of a handler and after an abort too.
Reboot ==
    /\ ram' = ZeroedRam
    /\ lifecycle' = "Idle"
    /\ engine' = "Idle"
    /\ updatePending' = FALSE
    /\ handling' = NoSession
    /\ UNCHANGED store

-----------------------------------------------------------------------------

Write(s) ==
    \/ \E method \in Methods \ {"none"}, flags \in SUBSET PairingFlags,
          timedOut \in BOOLEAN : WriteM1(s, method, flags, timedOut)
    \/ \E proof \in Proofs \ {"none"} : WriteM3(s, proof)
    \/ WriteM5(s)
    \/ WriteForgedM5(s)
    \/ WriteM5Unstored(s)
    \/ \E request \in Requests, timedOut \in BOOLEAN :
          WriteRejected(s, request, timedOut)
    \/ WriteMalformed(s)

Read(s) ==
    \/ ReadError(s)
    \/ ReadM2(s)
    \/ ReadM2Unsent(s)
    \/ \E counted \in BOOLEAN : ReadM4Refused(s, counted)
    \/ ReadM4(s)
    \/ ReadM4Transient(s)
    \/ ReadM4Unsent(s)
    \/ ReadM6(s)
    \/ ReadM6Unidentified(s)

Server == Start \/ Stop \/ EngineIdle \/ CallbackTimerExpired

Connection(s) ==
    \/ OpenSession(s)
    \/ CloseSession(s)
    \/ VerifySession(s)
    \/ RemovePairings(s)
    \/ RequestOnTransientSession(s)

Setup ==
    \/ RefreshTimerExpired
    \/ NFCTimerExpired
    \/ EnterNFC
    \/ ExitNFC
    \/ RefreshPayload

Next ==
    \/ \E s \in Sessions : Write(s) \/ Read(s) \/ Connection(s)
    \/ Server
    \/ Setup
    \/ Reboot

Spec == Init /\ [][Next]_vars

-----------------------------------------------------------------------------
(***************************************************************************)
(* Properties.                                                             *)
(***************************************************************************)

\* Every variable has the type its declaration in the code gives it.
TypeOK ==
    /\ ram \in Ram
    /\ store \in Store
    /\ lifecycle \in ServerStates
    /\ engine \in ServerStates
    /\ updatePending \in BOOLEAN
    /\ handling \in Sessions \cup {NoSession}

\* Only the session that holds the procedure is past M1 or has an error to
\* report, whatever was reset, taken over or closed meanwhile; the holder is a
\* session that exists and has begun.  (The preconditions of ProcessM3, GetM4,
\* ProcessM5 and GetM6 on sessionThatIsCurrentlyPairing.)
ProcedureOwned ==
    /\ \A s \in Sessions :
          ram.state[s] >= 2 \/ ram.error[s] => ram.current = s
    /\ ram.current # NoSession =>
          ram.current \in ram.open /\ ram.state[ram.current] >= 1

\* The counter of failed attempts, which survives restarts, never passes the
\* limit that M2 checks although M4 increments it, and so never wraps.
AttemptsBounded ==
    /\ store.attempts <= MaxTries
    /\ \A s \in Sessions :
          ram.state[s] \in {2, 3} => store.attempts < MaxTries

\* No procedure that could still store a pairing goes on once there is one.
NoProcedureWhilePaired ==
    \A s \in Sessions : ram.state[s] \in {2, 3, 4} => ~Paired

\* While a procedure is held the setup code is locked, no timer will refresh
\* it, and until the proof has been checked the verifier is the very one that
\* M2 sent the salt of.
SetupInfoPinned ==
    Up => /\ ram.current # NoSession =>
               ram.setup.lock /\ ~ram.setup.refresh /\ Available(ram.setup)
          /\ \A s \in Sessions : ram.state[s] \in {2, 3} =>
               ram.setup.info /\ ram.setup.served = s

\* The display shows the setup code that is in force, and the tag never one
\* that is not, nor any outside NFC pairing mode.
PayloadsInForce ==
    Up => /\ ram.setup.display =
               IF HasDisplay /\ ram.setup.code THEN "current" ELSE "none"
          /\ ram.setup.tag = "current" => ram.setup.code /\ ram.setup.nfc
          /\ ram.setup.tag # "stale"

\* An unlocked code of an accessory with a display has a timer to refresh it,
\* and a paired or pairing accessory has none.
CodeRefreshed ==
    Up /\ HasDisplay =>
        (ram.setup.refresh <=>
            Available(ram.setup) /\ ~ram.setup.lock /\ ~Paired)

\* A setup code is in memory for a purpose: NFC pairing mode, a procedure, or
\* the procedure that will follow a split one.
SecretsHaveUse ==
    Up => /\ ~HasDisplay /\ Available(ram.setup) => ram.setup.nfc \/ ram.setup.lock
          /\ ram.setup.lock => ram.current # NoSession \/ ram.setup.keep

\* A setup code is not advertised on once the procedure that paired the
\* accessory is over ("If pairing is successful, this stops advertising a
\* setup code", HAPAccessorySetupInfo.h).
PairedShowsNoCode ==
    Up /\ Paired /\ ram.current = NoSession => ~Available(ram.setup)

\* What the state update is for is done, or it is pending: a display shows a
\* code while the accessory can be paired, and NFC pairing mode ends when it
\* cannot.
UpdateNotLost ==
    Up /\ lifecycle = "Running" /\ ~updatePending =>
        /\ HasDisplay /\ ~Paired => ram.setup.code
        /\ Paired => ~ram.setup.nfc

\* No assertion of the setup info manager fails.
SetupAssertionsHold == ram.setup.failed = "none"

\* No session is secured by the setup code alone once there is a pairing: the
\* assertion of HAPSessionIsTransient.
TransientOnlyUnpaired ==
    Paired => \A s \in Sessions : ram.hap[s] # "transient"

\* The server is idle only when nothing of it is left: no session, procedure,
\* secret or timer, so that CompleteShutdown's assertion holds.
IdleMeansClean ==
    Up /\ lifecycle = "Idle" =>
        /\ ram.open = {} /\ ram.current = NoSession
        /\ ~Available(ram.setup) /\ ~ram.setup.refresh /\ ~ram.setup.nfc
        /\ ~updatePending
        /\ ram.failed # "CompleteShutdown"

\* A pairing is stored only where there was none, by the session that holds
\* the procedure, and only once that session has proved the setup code.
PairingNeedsProof ==
    [][store'.owner \notin {store.owner, NoSession} =>
        /\ ~Paired
        /\ ram.current = store'.owner
        /\ ram.state[ram.current] = 4
        /\ ram.proof = "good"]_vars

\* A controller that proves the setup code it was asked for is never counted
\* as a failed attempt, whatever setup info was kept, discarded or made anew
\* between M2 and M4.
CorrectCodeNotCounted ==
    [][store'.attempts > store.attempts => ram.proof = "bad"]_vars

\* A setup code is kept for the next procedure only when a transient one asks
\* for it; restarting or taking over a procedure keeps it for that one alone.
KeptOnlyForSplit ==
    [][~ram.setup.keep /\ ram'.setup.keep =>
        \E s \in Sessions : /\ ram.hap[s] # "transient"
                            /\ ram'.hap[s] = "transient"]_vars

\* The session that has proved the setup code, and has yet to store a pairing.
Prover ==
    IF ram.current # NoSession /\ ram.state[ram.current] = 4
    THEN ram.current
    ELSE NoSession

Contract == INSTANCE PairingContract
    WITH owner <- store.owner, attempts <- store.attempts, prover <- Prover

\* Whatever races with it, Pair Setup is no more than its contract: every step
\* of a handler, timer, closed connection or power loss is an attempt, a
\* pairing, a removal, a procedure given up, or none of these.
KeepsContract == Contract!Spec

-----------------------------------------------------------------------------
(***************************************************************************)
(* What the code says of itself and does not keep to in every              *)
(* configuration; see the findings in the README.                          *)
(***************************************************************************)

\* The assertion of HAPSessionIsTransient: no pairing exists.
TransientAssertion == ram.failed # "HAPSessionIsTransient"

\* The assertion of SynchronizeDisplayAndNFC: a payload that a controller can
\* pair with is made for an unpaired accessory only.
SynchronizeAssertion == ram.setup.failed # "SynchronizeDisplayAndNFC"

\* The assertion on the errors of ProcessM5 in HAPPairingPairSetupHandleWrite.
UnstoredPairingHandled == ram.failed # "ProcessM5"

\* The assertion on the errors of GetM6 in HAPPairingPairSetupHandleRead.
UnreadableDeviceIDHandled == ram.failed # "GetM6"

\* The precondition of HAPAccessorySetupInfoHandleAccessoryServerStart, in the
\* state the server is started from.
IdleHasNoRefreshTimer == lifecycle = "Idle" => ~ram.setup.refresh

\* "The setup payload is automatically refreshed periodically if no pairing
\* attempt is in progress" (HAPAccessoryServerRefreshSetupPayload in HAP.h).
RefreshedUnlessPairing ==
    Up /\ HasDisplay /\ ~Paired /\ ram.current = NoSession /\ ram.setup.code =>
        ram.setup.refresh

-----------------------------------------------------------------------------
(***************************************************************************)
(* Liveness.  A due timer fires at the next turn of the run loop, and a    *)
(* handler that has begun completes.                                       *)
(***************************************************************************)

Fairness ==
    /\ SF_vars(CallbackTimerExpired)
    /\ \A s \in Sessions : WF_vars(handling = s /\ Read(s))

FairSpec == Spec /\ Fairness

\* NFC pairing mode does not outlive the pairing it was meant for ("exits
\* automatically after 5 minutes or when pairing completes").
NFCPairingModeEnds ==
    Up /\ Paired /\ ram.setup.nfc ~> ~Up \/ ~Paired \/ ~ram.setup.nfc

=============================================================================
