------------------------------ MODULE BLELink ------------------------------
(***************************************************************************)
(* The connection of a BLE accessory server to its one central: the link   *)
(* and its timers (HAPBLESession.c), the security session as far as the    *)
(* link depends on it (HAPSession.c), the full procedure that serves one   *)
(* characteristic at a time and its transactions (HAPBLEProcedure.c,       *)
(* HAPBLETransaction.c), the fallback procedures that refuse the others,   *)
(* event indications (HAPBLEPeripheralManager.c) and the shutdown of the   *)
(* server (HAPBLEAccessoryServer.c).                                       *)
(*                                                                         *)
(* The code runs on one thread.  The platform calls it when the central    *)
(* connects, disconnects, reads or writes an attribute or confirms an      *)
(* indication; the run loop calls it when a timer expires; the application *)
(* raises events and stops the server.  A function of the code is an       *)
(* operator from the state b to the set of states it may leave: what the   *)
(* central sends, and whether it is well formed, is a choice.              *)
(*                                                                         *)
(* Registering a timer succeeds.  A timer that may be restarted is due     *)
(* whenever it is registered: times are not modelled.                      *)
(***************************************************************************)
EXTENDS FiniteSets, Integers

CONSTANTS
    Chars,          \* the characteristics of the accessory
    Droppers,       \* those that drop the security session: Pair Setup, ...
    PairingsChar,   \* the Pairings characteristic
    Events,         \* those that support event notification
    MaxLeft,        \* the most fragments that follow the first of a PDU
    None            \* no characteristic

ASSUME LinkAssumption ==
    /\ Droppers \subseteq Chars
    /\ PairingsChar \in Chars \ Droppers
    /\ Events \subseteq Chars \ Droppers
    /\ None \notin Chars
    /\ MaxLeft \in Nat

(***************************************************************************)
(* The state.                                                              *)
(*   server     server->state                                              *)
(*   connected  server->ble.connection.connected                           *)
(*   cancelled  the platform has been asked to disconnect                  *)
(*   busy       the platform waits for an indication to be confirmed       *)
(*   failed     the check that has aborted the process, or "none"          *)
(*   hap        the security session: none, active after Pair Verify,      *)
(*              transient, or active although its pairing is removed       *)
(*   terminal   bleSession->isTerminal                                     *)
(*   link       bleSession->linkTimer: off, on, or due but not processed   *)
(*   pairing    bleSession->pairingProcedureTimer is registered            *)
(*   safe       isSafeToDisconnect (safeToDisconnectTimer: not registered) *)
(*   att        the characteristic the full procedure is attached to       *)
(*   timer      its procedureTimer is registered: it is in progress        *)
(*   started    its startedSecured                                         *)
(*   timed      its multiTransactionType is TimedWrite                     *)
(*   tx, op     the state of its transaction and the opcode received       *)
(*   left       the fragments its request or response still lacks          *)
(*   buffer     the transaction has a buffer for the body of a request     *)
(*   body       what the procedure buffer holds: the body prepared by the  *)
(*              Timed Write in progress, or something else                 *)
(*   fb         the fallback procedure of each characteristic              *)
(*   subs       centralSubscribed                                          *)
(*   pending    pendingEvent                                               *)
(***************************************************************************)
VARIABLE b

Fallbacks == [on : BOOLEAN, left : 0..MaxLeft, sec : BOOLEAN]

NoFallback == [on |-> FALSE, left |-> 0, sec |-> FALSE]

Ops == {"read", "write", "timed", "execute", "other"}

Link ==
    [server : {"running", "stopping", "idle"},
     connected : BOOLEAN, cancelled : BOOLEAN, busy : BOOLEAN,
     failed : {"none", "DeregisterTimer", "VerifyInactive", "BodyBytes"},
     hap : {"none", "active", "transient", "removed"},
     terminal : BOOLEAN, link : {"off", "on", "due"},
     pairing : BOOLEAN, safe : BOOLEAN,
     att : Chars \cup {None}, timer : BOOLEAN, started : BOOLEAN,
     timed : BOOLEAN, tx : {"start", "request", "ready", "response"},
     op : Ops, left : 0..MaxLeft, buffer : BOOLEAN,
     body : {"other", "prepared"},
     fb : [Chars \ Droppers -> Fallbacks],
     subs : SUBSET Events, pending : SUBSET Events]

NoFallbacks == [c \in Chars \ Droppers |-> NoFallback]

Idle ==
    [server |-> "idle",
     connected |-> FALSE, cancelled |-> FALSE, busy |-> FALSE,
     failed |-> "none", hap |-> "none", terminal |-> FALSE, link |-> "off",
     pairing |-> FALSE, safe |-> TRUE,
     att |-> None, timer |-> FALSE, started |-> FALSE, timed |-> FALSE,
     tx |-> "start", op |-> "other", left |-> 0, buffer |-> TRUE,
     body |-> "other",
     fb |-> NoFallbacks, subs |-> {}, pending |-> {}]

Init == b = Idle

-----------------------------------------------------------------------------
(***************************************************************************)
(* The session (HAPSession.c, HAPBLESession.c).                            *)
(***************************************************************************)

\* HAPSessionIsSecured: the pairing is looked up in the store every time.
Secured(s) == s.hap \in {"active", "transient"}

\* HAPBLESessionCreate: the first procedure has to begin in time.
SessionCreate(s) ==
    [s EXCEPT !.hap = "none", !.terminal = FALSE, !.link = "on",
              !.pairing = FALSE, !.safe = TRUE]

Cancel(s) == [s EXCEPT !.cancelled = TRUE]

SessionInvalidate(s, terminateLink) ==
    [s EXCEPT !.hap = "none", !.link = "off", !.pairing = FALSE,
              !.terminal = @ \/ terminateLink,
              !.cancelled = @ \/ (terminateLink /\ s.safe /\ s.connected)]

Terminate(s) == SessionInvalidate(s, TRUE)

DidSendGATTResponse(s) == [s EXCEPT !.safe = FALSE]

\* Mutant: a new procedure only ever stops the link timer.
DidStartBLEProcedure_Stops(s) ==
    IF s.terminal THEN s ELSE [s EXCEPT !.link = "off"]

DidStartBLEProcedure(s) ==
    IF s.terminal THEN s
    ELSE [s EXCEPT !.link = IF Secured(s) THEN "on" ELSE "off"]

DidStartPairingProcedure(s) ==
    IF s.terminal THEN s ELSE [s EXCEPT !.pairing = TRUE]

DidCompletePairingProcedure(s, type) ==
    IF s.terminal THEN s
    ELSE [s EXCEPT !.pairing = FALSE,
                   !.link = IF type = "PairVerify" /\ Secured(s) THEN "on" ELSE @]

-----------------------------------------------------------------------------
(***************************************************************************)
(* Event indications.  The platform holds one indication at a time.        *)
(***************************************************************************)

ResetEventState(s) == [s EXCEPT !.subs = {}, !.pending = {}]

SendPendingEventNotifications(s) ==
    LET due == s.subs \cap s.pending
    IN  IF due = {} \/ s.hap # "active" \/ s.busy THEN {s}
        ELSE {[s EXCEPT !.pending = @ \ {c}, !.busy = TRUE] : c \in due}

\* Mutant: enabling events does not send those that are pending.
SetNotificationsEnabled_Silent(s, c, enable) ==
    {[s EXCEPT !.subs = IF enable THEN @ \cup {c} ELSE @ \ {c}]}

SetNotificationsEnabled(s, c, enable) ==
    IF (c \in s.subs) = enable THEN {s}
    ELSE SendPendingEventNotifications(
             [s EXCEPT !.subs = IF enable THEN @ \cup {c} ELSE @ \ {c}])

-----------------------------------------------------------------------------
(***************************************************************************)
(* The procedure attached to a characteristic and its transaction.         *)
(***************************************************************************)

TransactionCreate(s, hasBuffer) ==
    [s EXCEPT !.tx = "start", !.left = 0, !.buffer = hasBuffer]

\* HAPBLEProcedureAttach zeroes the procedure; HAPBLEProcedureDestroy stops
\* its timer.  The bytes of the procedure buffer are left alone.
ProcedureAttach(s, c) ==
    [TransactionCreate(s, TRUE) EXCEPT
        !.att = c, !.timer = FALSE, !.started = FALSE, !.timed = FALSE]

\* TryAppendBodyFragment copies into the procedure buffer if the transaction
\* has it.
AppendBody(s) == [s EXCEPT !.body = IF s.buffer THEN "other" ELSE @]

\* The first fragment: a request with opcode o that lacks n fragments.
BodyRequest(s, o, n) ==
    [AppendBody(s) EXCEPT !.tx = "request", !.op = o, !.left = n]

\* A body that is announced with no bytes fits a buffer that is not there, and the
\* assertion that there is one fails.
EmptyBody(s) == IF s.buffer THEN {} ELSE {[s EXCEPT !.failed = "BodyBytes"]}

\* HAPBLETransactionHandleWrite.  A continuation after the request is
\* complete is accepted when it carries nothing.
TransactionHandleWrite(s) ==
    CASE s.tx = "start" ->
            {BodyRequest(s, o, n) : o \in Ops, n \in 0..MaxLeft} \cup EmptyBody(s)
      [] s.tx = "request" /\ s.left > 0 ->
            {[AppendBody(s) EXCEPT !.left = @ - 1]}
      [] s.tx \in {"request", "ready"} /\ (s.tx = "request" => s.left = 0) -> {s}
      [] s.tx = "response" -> {}

\* Mutant: the security of the session is not recorded at the start.
StartProcedure_Forgets(s, c) ==
    LET dropped == IF Secured(s) /\ c \in Droppers
                   THEN ProcedureAttach(SessionInvalidate(s, FALSE), c)
                   ELSE s
    IN  DidStartBLEProcedure([dropped EXCEPT !.timer = TRUE])

\* A write that starts a procedure records whether the session is secured:
\* the rest of the procedure is encrypted, or is not, accordingly.
StartProcedure(s, c) ==
    LET dropped == IF Secured(s) /\ c \in Droppers
                   THEN ProcedureAttach(SessionInvalidate(s, FALSE), c)
                   ELSE s
    IN  DidStartBLEProcedure(
            [dropped EXCEPT !.started = Secured(dropped), !.timer = TRUE])

\* The errors: no timely end, a fragment that does not decrypt or parse, or
\* that the state of the transaction does not expect.
ProcedureHandleGATTWrite(s, c) ==
    IF ~s.timer /\ s.link = "due" THEN {Terminate(s)}
    ELSE LET p == IF s.timer THEN s ELSE StartProcedure(s, c)
         IN  {Terminate(p)} \cup
             {IF q.failed = "none" THEN DidSendGATTResponse(q) ELSE q : q \in
                 IF p.started /\ p.hap = "none" THEN {}
                 ELSE TransactionHandleWrite(p)}

-----------------------------------------------------------------------------
(***************************************************************************)
(* Processing a request.  Its effect on the session depends on the         *)
(* characteristic; a request that is refused has none.                     *)
(***************************************************************************)

SetResponse(s) == {[s EXCEPT !.tx = "ready", !.left = n] : n \in 0..MaxLeft}

\* HAPBLEPeripheralManagerHandleSessionAccept, then the end of Pair Verify.
SessionAccept(s) ==
    {DidCompletePairingProcedure(q, "PairVerify") :
        q \in SendPendingEventNotifications([s EXCEPT !.hap = "active"])}

\* Requests on the pairing characteristics go on with a pairing procedure,
\* complete it, or fail; Pair Verify must not start in an active session.
PairingRequest(s) ==
    IF s.hap = "removed" THEN {s, [s EXCEPT !.failed = "VerifyInactive"]}
    ELSE {s, DidStartPairingProcedure(s),
          DidCompletePairingProcedure(s, "PairSetup")}
         \cup (IF s.hap # "none" THEN {}
               ELSE SessionAccept(DidStartPairingProcedure(s)) \cup
                    {DidCompletePairingProcedure(
                        [s EXCEPT !.hap = "transient"], "PairSetup")})

\* The controller may remove its own pairing.
PairingsRequest(s) ==
    IF s.hap = "active" THEN {s, [s EXCEPT !.hap = "removed"]} ELSE {s}

ServeRequest(s) ==
    CASE s.att \in Droppers -> PairingRequest(s)
      [] s.att = PairingsChar -> PairingsRequest(s)
      [] OTHER -> {s}

\* HAPBLEProcedureProcessTransaction.  A request that is too large, has an
\* unknown opcode or addresses another instance ID is refused before anything
\* else.  Writing the response of a read, or of a write that returns one,
\* overwrites the procedure buffer.
ProcessTransaction(s) == SetResponse(s) \cup
    CASE s.timed /\ s.op # "execute" -> {}
      [] ~s.timed /\ s.op = "execute" -> {}
      [] s.op = "timed" ->
            UNION {SetResponse(q) : q \in
                {s} \cup (IF s.hap = "transient" THEN {}
                          ELSE {[s EXCEPT !.timed = TRUE, !.body = "prepared"]})}
      [] OTHER ->
            UNION {SetResponse([q EXCEPT !.timed = FALSE, !.body = "other"]) :
                q \in ServeRequest(s)}

\* Mutant: the next transaction of a timed write gets the buffer.
CompleteTransaction_Buffer(s) ==
    IF s.timed THEN TransactionCreate(s, TRUE)
    ELSE [TransactionCreate(s, TRUE) EXCEPT !.timer = FALSE]

\* CompleteTransaction
CompleteTransaction(s) ==
    IF s.timed THEN TransactionCreate(s, FALSE)
    ELSE [TransactionCreate(s, TRUE) EXCEPT !.timer = FALSE]

\* HAPBLETransactionHandleRead and what follows it in the procedure.
SendFragment(s) ==
    IF s.started /\ s.hap = "none" THEN {Terminate(s)}
    ELSE LET sent == DidSendGATTResponse(
                         IF s.left = 0 THEN CompleteTransaction(s)
                         ELSE [s EXCEPT !.tx = "response", !.left = @ - 1])
         IN  {IF ~sent.timer /\ sent.started /\ ~Secured(sent)
              THEN Terminate(sent) ELSE sent}

ProcedureHandleGATTRead(s) ==
    LET processed == IF s.tx = "request" /\ s.left = 0
                     THEN ProcessTransaction(s) ELSE {s}
    IN  {Terminate(s)} \cup
        UNION {IF p.failed # "none" THEN {p} ELSE SendFragment(p) :
               p \in {q \in processed : q.tx \in {"ready", "response"}}}

-----------------------------------------------------------------------------
(***************************************************************************)
(* Attribute requests of the central (HAPBLEPeripheralManager.c).          *)
(***************************************************************************)

AbortAllFallbackProcedures(s) == [s EXCEPT !.fb = NoFallbacks]

\* Mutant: fallback procedures survive a new security session.
Accessed_Kept(s, c) == s

Accessed(s, c) == IF c \in Droppers THEN AbortAllFallbackProcedures(s) ELSE s

HasFallback(s, c) == c \notin Droppers /\ s.fb[c].on

\* The first fragment of a fallback procedure says how long the body is.
FirstFallback(s, c) ==
    {[s EXCEPT !.fb[c] = [on |-> TRUE, left |-> n, sec |-> Secured(s)]] : n \in 0..MaxLeft}

\* Mutant: a continuation may be longer than the rest of the body.
NextFallback_TooLong(s, c) == {[s EXCEPT !.fb[c].left = @ - 1]}

NextFallback(s, c) ==
    IF s.fb[c].left > 0 THEN {[s EXCEPT !.fb[c].left = @ - 1]} ELSE {s}

FallbackWrite(s, c, isNew) ==
    {Terminate(s)} \cup
    {DidSendGATTResponse(q) : q \in
        IF isNew THEN FirstFallback(s, c) ELSE NextFallback(s, c)}

\* The new fallback procedure is registered before its fragment is decrypted.
NewFallback(s, c) ==
    FallbackWrite(DidStartBLEProcedure(
        [s EXCEPT !.fb[c] = [on |-> TRUE, left |-> 0, sec |-> Secured(s)]]), c, TRUE)

\* A shutdown lets the procedure in progress finish.
Rejects(s) ==
    \/ s.terminal
    \/ s.server # "running" /\ ~(s.att # None /\ s.timer)

\* AttachProcedure, then the procedure it returned.
HandleWrite(s, c) ==
    LET t == Accessed(s, c)
    IN  IF Rejects(s) THEN {Terminate(Cancel(s))}
        ELSE IF HasFallback(t, c) THEN FallbackWrite(t, c, FALSE)
        ELSE IF t.att = c THEN ProcedureHandleGATTWrite(t, c)
        ELSE IF t.timer /\ c \notin Droppers THEN NewFallback(t, c)
        ELSE ProcedureHandleGATTWrite(ProcedureAttach(t, c), c)

FallbackRead(s, c) ==
    IF s.fb[c].left > 0 THEN {Terminate(s)}
    ELSE {Terminate(s), DidSendGATTResponse([s EXCEPT !.fb[c] = NoFallback])}

\* GetProcedure, then the procedure it returned.
HandleRead(s, c) ==
    LET t == Accessed(s, c)
    IN  IF s.terminal THEN {Terminate(Cancel(s))}
        ELSE IF HasFallback(t, c) THEN FallbackRead(t, c)
        ELSE IF t.att = c THEN ProcedureHandleGATTRead(t)
        ELSE {Terminate(t)}

\* An error returns before events are sent.
ThenSendPending(results) ==
    UNION {IF q.terminal \/ q.failed # "none" THEN {q}
           ELSE SendPendingEventNotifications(q) : q \in results}

Up == b.connected /\ b.failed = "none"

HandleReadRequest(c) ==
    /\ Up
    /\ b' \in ThenSendPending(HandleRead(b, c))

HandleWriteRequest(c) ==
    /\ Up
    /\ b' \in ThenSendPending(HandleWrite(b, c))

WriteClientConfiguration(c, enable) ==
    /\ Up
    /\ b' \in SetNotificationsEnabled(b, c, enable)

HandleReadyToUpdateSubscribers ==
    /\ Up
    /\ b.busy
    /\ b' \in SendPendingEventNotifications([b EXCEPT !.busy = FALSE])

RaiseEvent(c) ==
    /\ Up
    /\ b' \in SendPendingEventNotifications([b EXCEPT !.pending = @ \cup {c}])

-----------------------------------------------------------------------------
(***************************************************************************)
(* The connection and the server.                                          *)
(***************************************************************************)

HandleConnectedCentral ==
    /\ b.server = "running" /\ ~b.connected /\ b.failed = "none"
    /\ b' = SessionCreate([ResetEventState(AbortAllFallbackProcedures(b))
                              EXCEPT !.connected = TRUE])

\* Stop goes on when the connection it waited for has ended.
HandleDisconnectedCentral ==
    /\ Up
    /\ b' = [Idle EXCEPT
                !.server = IF b.server = "running" THEN "running" ELSE "idle",
                !.body = b.body]

TryStop(s) ==
    IF ~s.connected THEN [s EXCEPT !.server = "idle"]
    ELSE IF s.safe THEN Cancel(s) ELSE s

Stop ==
    /\ b.server = "running" /\ b.failed = "none"
    /\ b' = TryStop([b EXCEPT !.server = "stopping"])

Start ==
    /\ b.server = "idle" /\ b.failed = "none"
    /\ b' = [b EXCEPT !.server = "running", !.body = "other"]

-----------------------------------------------------------------------------
(***************************************************************************)
(* Timers.                                                                 *)
(***************************************************************************)

LinkTimerDue ==
    /\ Up /\ b.link = "on"
    /\ b' = [b EXCEPT !.link = "due"]

LinkTimerExpired ==
    /\ Up /\ b.link = "due"
    /\ b' = Terminate([b EXCEPT !.link = "off"])

PairingProcedureTimerExpired ==
    /\ Up /\ b.pairing
    /\ b' = Terminate([b EXCEPT !.pairing = FALSE])

\* Mutants: only a shutdown, or only a terminal session, is ended.
SafeToDisconnectTimerExpired_Stop ==
    /\ Up /\ ~b.safe
    /\ LET s == [b EXCEPT !.safe = TRUE]
       IN  b' = IF b.server # "running" THEN Cancel(s) ELSE s

SafeToDisconnectTimerExpired_Terminal ==
    /\ Up /\ ~b.safe
    /\ LET s == [b EXCEPT !.safe = TRUE]
       IN  b' = IF b.terminal THEN Cancel(s) ELSE s

SafeToDisconnectTimerExpired ==
    /\ Up /\ ~b.safe
    /\ LET s == [b EXCEPT !.safe = TRUE]
       IN  b' = IF b.terminal \/ b.server # "running" THEN Cancel(s) ELSE s

ProcedureTimerExpired ==
    /\ Up /\ b.timer
    /\ b' = Terminate(ProcedureAttach(b, b.att))

\* The timer that has expired is deregistered, which the run loop refuses.
FallbackProcedureTimerExpired(c) ==
    /\ Up /\ b.fb[c].on
    /\ b' = [b EXCEPT !.failed = "DeregisterTimer"]

Next ==
    \/ HandleConnectedCentral
    \/ HandleDisconnectedCentral
    \/ \E c \in Chars : HandleReadRequest(c) \/ HandleWriteRequest(c)
    \/ \E c \in Events, on \in BOOLEAN : WriteClientConfiguration(c, on)
    \/ HandleReadyToUpdateSubscribers
    \/ \E c \in Events : RaiseEvent(c)
    \/ Stop
    \/ Start
    \/ LinkTimerDue
    \/ LinkTimerExpired
    \/ PairingProcedureTimerExpired
    \/ SafeToDisconnectTimerExpired
    \/ ProcedureTimerExpired
    \/ \E c \in Chars \ Droppers : FallbackProcedureTimerExpired(c)

Spec == Init /\ [][Next]_b

(***************************************************************************)
(* The run loop processes timers, and the platform disconnects when asked  *)
(* to.  The central, the application and the platform's confirmations are  *)
(* under no obligation.  A restart of the safe-to-disconnect timer is no   *)
(* change of the state; only requests that are answered restart it, and    *)
(* there are none once the session is terminal.                            *)
(***************************************************************************)
Disconnecting == b.cancelled /\ HandleDisconnectedCentral

Fairness ==
    /\ WF_b(LinkTimerDue)
    /\ WF_b(LinkTimerExpired)
    /\ WF_b(PairingProcedureTimerExpired)
    /\ WF_b(SafeToDisconnectTimerExpired)
    /\ WF_b(ProcedureTimerExpired)
    /\ WF_b(Disconnecting)
FairSpec == Spec /\ Fairness

-----------------------------------------------------------------------------
(***************************************************************************)
(* Properties.                                                             *)
(***************************************************************************)

\* The state is well formed.
TypeOK == b \in Link

\* A request for a characteristic that needs a secured session is carried out
\* in a secured session only if it was received encrypted, although the code
\* decides on encryption when the procedure starts and on access when the
\* request is processed (HAPBLEProcedure.c:791, 967 and 1118).
SecureAccess ==
    b.timer /\ b.att \notin Droppers /\ Secured(b) => b.started

\* What a Timed Write has prepared is still in the procedure buffer when it is
\* executed: no other transaction of the procedure writes there.
PreparedBodyKept == b.timed => b.body = "prepared"

\* An event that may be sent is sent as soon as the platform can take it: no
\* change of the subscriptions, the session or the platform leaves one behind,
\* as long as the process runs.
EventsNotStuck ==
    b.failed = "none" /\ b.hap = "active" /\ b.subs \cap b.pending # {} => b.busy

\* The code does not record whether a fallback procedure was encrypted because
\* "When Pair Verify is accessed, all fallback procedures are cancelled"
\* (HAPBLEPeripheralManager.c:766).  Nothing else changes the security of a
\* session that goes on, except the removal of its own pairing.
FallbackKeepsSecurity ==
    ~b.terminal /\ b.hap # "removed" =>
        \A c \in Chars \ Droppers :
            b.fb[c].on => b.fb[c].sec = Secured(b)

\* A session set up by Pair Verify has its inactivity timer running.
ActiveSessionTimesOut == b.hap = "active" => b.link # "off"

\* "Must implement a security session timeout" (HAPBLESession.c:242): so does
\* every secured session, between procedures.
SecureSessionTimesOut == Secured(b) /\ ~b.timer => b.link # "off"

\* "Deregisters a timer that has not yet fired" (HAPPlatformTimer.h:57): no
\* timer is deregistered from its own callback.
TimersDeregisteredInTime == b.failed # "DeregisterTimer"

\* HAPAssert(bleTransaction->_.request.bodyBytes) (HAPBLETransaction.c:43): what is
\* copied has a buffer to be copied to.
BodyHasBuffer == b.failed # "BodyBytes"

\* A connection whose session has become terminal ends, whether or not it was
\* safe to disconnect at that time and whatever the central still sends.
TerminalEnds == b.terminal ~> (~b.connected \/ b.failed # "none")

\* A server that has been stopped becomes idle, provided the central does not
\* for ever start procedures on one pairing characteristic after another,
\* which detaches the procedure in progress together with its timer.
StopEnds ==
    <>[][b'.att = b.att]_b =>
        (b.server = "stopping" ~> (b.server # "stopping" \/ b.failed # "none"))
=============================================================================
