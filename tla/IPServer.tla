------------------------------- MODULE IPServer -------------------------------
(***************************************************************************)
(* The IP accessory server (HAPIPAccessoryServer.c): its sessions, from    *)
(* the accepted connection to their collection, the requests they carry,   *)
(* event notifications, timed writes, the transfer of the accessory        *)
(* database in chunks, idle connections, and the start and stop of the     *)
(* server with its four timers.                                            *)
(*                                                                         *)
(* An action is a callback of the run loop.  Time is relative: an age grows *)
(* up to the bound at which it makes no difference any more, and a timer   *)
(* counts down to zero, then fires, maybe late.                            *)
(***************************************************************************)
EXTENDS Integers, FiniteSets

CONSTANTS
    Sessions,       \* server->ip.storage->sessions
    NoSession,
    Chars,          \* characteristics that support event notifications
    SwitchChars,    \* those of type Programmable Switch Event
    TimedChars,     \* those that require timed writes
    PIDs,           \* IDs of prepared writes
    NoPID,
    MaxEvents,      \* eventNotifications of a session
    MaxIdle,        \* kHAPIPSession_MaxIdleTime, in ticks
    Delay,          \* kHAPIPAccessoryServer_MaxEventNotificationDelay, in ticks
    TTL,            \* time to live of a prepared write, in ticks
    MaxInput,       \* capacity of the inbound buffer, in parts of a request
    MaxOutput,      \* parts in which a response is sent at most
    MaxChunks,      \* frames of a serialized accessory database
    MayStop         \* the application may stop the server

ASSUME IPServerAssumption ==
    /\ SwitchChars \subseteq Chars /\ TimedChars \subseteq Chars
    /\ NoPID \notin PIDs /\ NoSession \notin Sessions
    /\ MaxEvents \in Nat /\ MaxIdle \in Nat \ {0} /\ Delay \in Nat \ {0}
    /\ TTL \in Nat /\ MaxInput \in Nat \ {0} /\ MaxOutput \in Nat \ {0}
    /\ MaxChunks \in Nat
    /\ MayStop \in BOOLEAN

VARIABLES
    server,     \* state, and whether the TCP listener is open
    sess,       \* the sessions, see Session
    timer,      \* the timers, see Timers
    quiet,      \* history: time since an ordinary notification was begun
    grant,      \* history: what a session has prepared and not yet used
    misused     \* history: a write that had to be prepared was not

vars == <<server, sess, timer, quiet, grant, misused>>

-----------------------------------------------------------------------------
(***************************************************************************)
(* State.                                                                  *)
(***************************************************************************)

\* io "idle" is a closed session that is not collected yet; input, in the
\* inbound buffer; unsent, in the outbound buffer; chunks, of the accessory
\* database, not yet serialized; hap is "gone" when the pairing is removed.
Session ==
    [io : {"free", "reading", "writing", "idle"},
     input : 0 .. MaxInput, unsent : 0 .. MaxOutput,
     serializing : BOOLEAN, chunks : 0 .. MaxChunks,
     secured : BOOLEAN, hap : {"none", "active", "transient", "gone"},
     subs : SUBSET Chars, flags : SUBSET Chars, event : SUBSET Chars,
     pid : PIDs \cup {NoPID}, left : -1 .. TTL,
     idle : 0 .. MaxIdle, age : 0 .. Delay]

\* eventNotificationStamp is 0 in a new session: long ago.
FreeSession ==
    [io |-> "free", input |-> 0, unsent |-> 0,
     serializing |-> FALSE, chunks |-> 0,
     secured |-> FALSE, hap |-> "none",
     subs |-> {}, flags |-> {}, event |-> {},
     pid |-> NoPID, left |-> -1, idle |-> 0, age |-> Delay]

NewSession == [FreeSession EXCEPT !.io = "reading"]
ClosedSession == [FreeSession EXCEPT !.io = "idle"]

Off == -1

\* garbageCollectionTimer and stateTransitionTimer have no delay.
Timers == [gc : BOOLEAN, transition : BOOLEAN,
           idle : Off .. MaxIdle, event : Off .. Delay]
NoTimers == [gc |-> FALSE, transition |-> FALSE, idle |-> Off, event |-> Off]

Grant == [pid : PIDs \cup {NoPID}, left : 0 .. TTL + 1]
NoGrant == [pid |-> NoPID, left |-> 0]

Init ==
    /\ server = [state |-> "idle", listening |-> FALSE]
    /\ sess = [s \in Sessions |-> FreeSession]
    /\ timer = NoTimers
    /\ quiet = [s \in Sessions |-> Delay]
    /\ grant = [s \in Sessions |-> NoGrant]
    /\ misused = FALSE

TypeOK ==
    /\ server \in [state : {"idle", "running", "stopping"}, listening : BOOLEAN]
    /\ sess \in [Sessions -> Session]
    /\ timer \in Timers
    /\ quiet \in [Sessions -> 0 .. Delay]
    /\ grant \in [Sessions -> Grant]
    /\ misused \in BOOLEAN

Stopping == server.state = "stopping"

\* Sessions of S that are not collected, that are open, and that read with
\* nothing in the inbound buffer.
Used(S) == {s \in Sessions : S[s].io # "free"}
Open(S) == {s \in Sessions : S[s].io \in {"reading", "writing"}}
AtRest(S) == {s \in Sessions : S[s].io = "reading" /\ S[s].input = 0}
Full(S) == Used(S) = Sessions

Least(D) == IF D = {} THEN Off ELSE CHOOSE d \in D : \A e \in D : d <= e

-----------------------------------------------------------------------------
(***************************************************************************)
(* Closing sessions, and idle sessions.                                    *)
(***************************************************************************)

CloseSession(S, C) ==
    [s \in Sessions |-> IF s \in C THEN ClosedSession ELSE S[s]]

\* Closing any session registers the garbage collection timer.
Closing(T, C) == IF C = {} THEN T ELSE [T EXCEPT !.gc = TRUE]

\* Open sessions that are closed when they have been idle for too long: only
\* if there is no room for another one, or on the way to stop.
Watched(S) == IF Full(S) \/ Stopping THEN Open(S) ELSE {}

\* Fault: a client that is in the middle of a request may take its time.
Expired_Resting(S) ==
    {s \in Watched(S) : \/ S[s].idle >= MaxIdle /\ S[s].input = 0
                        \/ Stopping /\ s \in AtRest(S)}

Expired(S) ==
    {s \in Watched(S) : S[s].idle >= MaxIdle \/ (Stopping /\ s \in AtRest(S))}

IdleDeadline(S) ==
    Least({MaxIdle - S[s].idle : s \in Watched(S) \ Expired(S)})

\* Fault: the timer is not registered for the sessions that stay open.
ScheduleMaxIdleTimeTimer_Once(S, T) ==
    /\ sess' = CloseSession(S, Expired(S))
    /\ timer' = [T EXCEPT !.idle = Off, !.gc = TRUE]

ScheduleMaxIdleTimeTimer(S, T) ==
    /\ sess' = CloseSession(S, Expired(S))
    /\ timer' = [T EXCEPT !.idle = IdleDeadline(S), !.gc = TRUE]

-----------------------------------------------------------------------------
(***************************************************************************)
(* Event notifications.                                                    *)
(***************************************************************************)

\* R is raised while w writes c; only the sessions T are meant.
Flagged(S, R, w, c, T) ==
    [s \in Sessions |-> IF s \in T /\ S[s].hap # "transient"
        THEN [S[s] EXCEPT !.flags =
                @ \cup ((R \ (IF s = w THEN {c} ELSE {})) \cap S[s].subs)]
        ELSE S[s]]

\* The timer is registered again, without delay, if a flag was not set yet.
RaisedTimer(S, S2, T) ==
    IF \E s \in Sessions : S[s].flags # S2[s].flags
    THEN [T EXCEPT !.event = 0] ELSE T

\* What is told now: only switch events until the delay has passed.
ToldNow(r) == IF r.age >= Delay THEN r.flags ELSE r.flags \cap SwitchChars

\* Fault: switch events count as notifications, others do not.
WriteEventNotifications_NoStamp(r) ==
    LET N == ToldNow(r) IN
    IF N = {} THEN r
    ELSE [r EXCEPT !.io = "writing", !.unsent = MaxOutput, !.event = N,
              !.flags = @ \ N, !.age = IF N \subseteq SwitchChars THEN 0 ELSE @]

WriteEventNotifications(r) ==
    LET N == ToldNow(r) IN
    IF ~r.secured THEN [r EXCEPT !.flags = {}, !.age = 0]
    ELSE IF N = {} THEN r
    ELSE [r EXCEPT !.io = "writing", !.unsent = MaxOutput, !.event = N,
              !.flags = @ \ N, !.age = IF r.age >= Delay THEN 0 ELSE @]

ToNotify(S) == {s \in AtRest(S) : S[s].flags # {}}

Notified(S) ==
    [s \in Sessions |->
        IF s \in ToNotify(S) THEN WriteEventNotifications(S[s]) ELSE S[s]]

\* Fault: one tick too many, the delay has to be exceeded.
EventDeadline_Late(S) == Least({Delay + 1 - S[s].age : s \in ToNotify(S)})

EventDeadline(S) == Least({Delay - S[s].age : s \in ToNotify(S)})

ScheduleEventNotifications(S, T) ==
    /\ sess' = Notified(S)
    /\ timer' = [T EXCEPT !.event = EventDeadline(Notified(S))]

\* History: an ordinary notification is begun.
Begins(s, S, S2) ==
    (S2[s].event \ SwitchChars) \cap (S[s].flags \ S2[s].flags) # {}

Hushed(S, S2) ==
    [s \in Sessions |-> IF Begins(s, S, S2) THEN 0 ELSE quiet[s]]

-----------------------------------------------------------------------------
(***************************************************************************)
(* After input or output of session s, with the sessions at S.             *)
(***************************************************************************)

\* Fault: events that came in the meantime wait for their timer.
HandleIOProgression_NoEvents(s, S, T) ==
    /\ sess' = CloseSession(S, {s} \cap AtRest(S) \cap {t \in {s} : Stopping})
    /\ timer' = Closing(T, {s} \cap AtRest(S) \cap {t \in {s} : Stopping})

HandleIOProgression(s, S, T) ==
    IF s \in AtRest(S) /\ Stopping
    THEN sess' = CloseSession(S, {s}) /\ timer' = Closing(T, {s})
    ELSE IF s \in ToNotify(S)
    THEN ScheduleEventNotifications(S, T)
    ELSE sess' = S /\ timer' = T

-----------------------------------------------------------------------------
(***************************************************************************)
(* Requests of session s, with the sessions at S and the timers at T.      *)
(***************************************************************************)

\* A response that is ready.
Responding(S, s) ==
    [S EXCEPT ![s].io = "writing", ![s].unsent = MaxOutput, ![s].event = {}]

\* Requests that need a secured session, but not a transient one.
Authorized(r) == r.secured /\ r.hap # "transient"

\* Any request that changes nothing here: errors, reads, /identify, ...
OtherRequest(s, S, T) ==
    /\ sess' = Responding(S, s)
    /\ timer' = T
    /\ UNCHANGED <<grant, misused>>

\* POST /pair-setup closes the transient sessions of others.
PairSetupRequest(s, S, T) ==
    LET C == {t \in Sessions \ {s} : S[t].hap = "transient"} IN
    /\ ~S[s].secured
    /\ \E h \in {S[s].hap, "transient"} :
           sess' = CloseSession(Responding([S EXCEPT ![s].hap = h], s), C)
    /\ timer' = Closing(T, C)
    /\ UNCHANGED <<grant, misused>>

PairVerifyRequest(s, S, T) ==
    /\ ~S[s].secured
    /\ sess' = Responding([S EXCEPT ![s].hap = "active"], s)
    /\ timer' = T
    /\ UNCHANGED <<grant, misused>>

\* Sessions that read, other than s, and whose pairing has been removed.
Orphans(s, S) ==
    {t \in Sessions \ {s} :
        S[t].io = "reading" /\ S[t].secured /\ S[t].hap = "gone"}

\* POST /pairings, upon which the pairing of sessions G is gone.
PairingsRequest(s, S, T) ==
    /\ Authorized(S[s])
    /\ \E G \in SUBSET {t \in Sessions : S[t].hap = "active"} :
           LET S2 == [t \in Sessions |->
                         IF t \in G THEN [S[t] EXCEPT !.hap = "gone"] ELSE S[t]]
               C == Orphans(s, S2)
           IN /\ sess' = CloseSession(Responding(S2, s), C)
              /\ timer' = Closing(T, C)
    /\ UNCHANGED <<grant, misused>>

\* PUT /prepare.
PrepareRequest(s, S, T) ==
    /\ Authorized(S[s])
    /\ \E p \in PIDs :
           /\ sess' = Responding([S EXCEPT ![s].pid = p, ![s].left = TTL], s)
           /\ grant' = [grant EXCEPT ![s] = [pid |-> p, left |-> TTL + 1]]
    /\ timer' = T
    /\ UNCHANGED misused

\* p is the pid of the request, NoPID if it has none.
PutAccepted(r, p) == p = NoPID \/ (r.pid = p /\ r.left >= 0)

\* Fault: the preparation is good for another write.
PutUsed_Kept(r, p) == r

\* Whatever came of it, a request with a pid uses up what was prepared.
PutUsed(r, p) ==
    IF r.pid # NoPID /\ p # NoPID THEN [r EXCEPT !.pid = NoPID, !.left = -1]
    ELSE r

\* Fault: a notification that is due outlives its subscription.
Subscribed_KeepsFlag(r, c, ev) ==
    CASE ev = "on" /\ Cardinality(r.subs) < MaxEvents ->
             [r EXCEPT !.subs = @ \cup {c}]
      [] ev = "off" -> [r EXCEPT !.subs = @ \ {c}]
      [] OTHER -> r

Subscribed(r, c, ev) ==
    CASE ev = "on" /\ Cardinality(r.subs) < MaxEvents ->
             [r EXCEPT !.subs = @ \cup {c}]
      [] ev = "off" -> [r EXCEPT !.subs = @ \ {c}, !.flags = @ \ {c}]
      [] OTHER -> r

\* PUT /characteristics: notifications of c are enabled (ev "on"), disabled or
\* left alone, and c is written unless value is FALSE.  The application raises
\* R from the callbacks that are called.
PutCharacteristics(s, S, T, c, ev, value, p, R) ==
    LET runs == PutAccepted(S[s], p)
                /\ ~(value /\ c \in TimedChars /\ p = NoPID)
        used == [S EXCEPT ![s] = PutUsed(@, p)]
        asked == IF runs THEN [used EXCEPT ![s] = Subscribed(@, c, ev)] ELSE used
        raised == Flagged(asked, R, s, c, Sessions)
    IN /\ Authorized(S[s])
       /\ R # {} => runs /\ (value \/ S[s].subs # asked[s].subs)
       /\ sess' = Responding(raised, s)
       /\ timer' = RaisedTimer(asked, raised, T)
       /\ IF runs /\ value /\ p # NoPID
          THEN /\ misused' = (misused \/ grant[s].pid # p \/ grant[s].left = 0)
               /\ grant' = [grant EXCEPT ![s] = NoGrant]
          ELSE /\ misused' = (misused \/ (runs /\ value /\ c \in TimedChars))
               /\ UNCHANGED grant

\* GET /accessories sends a frame at a time.
GetAccessoriesRequest(s, S, T) ==
    /\ Authorized(S[s])
    /\ MaxChunks > 0
    /\ sess' = [Responding(S, s) EXCEPT ![s].serializing = TRUE,
                                        ![s].chunks = MaxChunks - 1]
    /\ timer' = T
    /\ UNCHANGED <<grant, misused>>

HandleHTTPRequest(s, S, T) ==
    \/ OtherRequest(s, S, T)
    \/ PairSetupRequest(s, S, T)
    \/ PairVerifyRequest(s, S, T)
    \/ PairingsRequest(s, S, T)
    \/ PrepareRequest(s, S, T)
    \/ GetAccessoriesRequest(s, S, T)
    \/ \E c \in Chars, ev \in {"on", "off", "none"}, value \in BOOLEAN,
          p \in PIDs \cup {NoPID}, R \in SUBSET Chars :
           PutCharacteristics(s, S, T, c, ev, value, p, R)

-----------------------------------------------------------------------------
(***************************************************************************)
(* Input and output.                                                       *)
(***************************************************************************)

\* Keys that Pair Verify agreed upon are in use from the next request on.
Secured(r) ==
    [r EXCEPT !.secured = r.secured \/ r.hap \in {"active", "transient"}]

Forgotten(C) == [s \in Sessions |-> IF s \in C THEN NoGrant ELSE grant[s]]

\* A request is handled of which the inbound buffer keeps the rest, it is not
\* complete, or it is none that can be decrypted and understood.
HandleInput(s, S, T, rest) ==
    LET S1 == [S EXCEPT ![s] = Secured(@)] IN
    \/ /\ rest < S[s].input
       /\ HandleHTTPRequest(s, [S1 EXCEPT ![s].input = rest], T)
    \/ /\ rest = S[s].input /\ rest < MaxInput
       /\ sess' = S1 /\ timer' = T
       /\ UNCHANGED <<grant, misused>>
    \/ /\ rest = 0
       /\ sess' = CloseSession(S, {s}) /\ timer' = Closing(T, {s})
       /\ grant' = Forgotten({s})
       /\ UNCHANGED misused

Receive(s, n, rest) ==
    /\ sess[s].io = "reading"
    /\ n \in 1 .. MaxInput - sess[s].input
    /\ HandleInput(s, [sess EXCEPT ![s].input = @ + n, ![s].idle = 0], timer, rest)
    /\ quiet' = Hushed(sess, sess')
    /\ UNCHANGED server

\* The stream turns out to have no bytes.
ReceiveBusy(s) ==
    /\ sess[s].io = "reading"
    /\ HandleIOProgression(s, [sess EXCEPT ![s].idle = 0], timer)
    /\ quiet' = Hushed(sess, sess')
    /\ UNCHANGED <<server, grant, misused>>

\* The peer closes the connection, or the connection fails.
Disconnect(s) ==
    /\ s \in Open(sess)
    /\ sess' = CloseSession(sess, {s})
    /\ timer' = Closing(timer, {s})
    /\ grant' = Forgotten({s})
    /\ UNCHANGED <<server, quiet, misused>>

Writable(s) == sess[s].io = "writing"
Touched(s) == [sess EXCEPT ![s].idle = 0]

SendPart(s, n) ==
    /\ Writable(s)
    /\ n \in 0 .. sess[s].unsent - 1
    /\ sess' = [sess EXCEPT ![s].idle = 0, ![s].unsent = @ - n]
    /\ UNCHANGED <<server, timer, quiet, grant, misused>>

\* The session's pairing has been removed since.
Outdated(r) == r.secured /\ r.hap = "gone"

SendToRemoved(s) ==
    /\ Writable(s)
    /\ Outdated(sess[s])
    /\ sess' = CloseSession(sess, {s})
    /\ timer' = Closing(timer, {s})
    /\ grant' = Forgotten({s})
    /\ UNCHANGED <<server, quiet, misused>>

SendChunk(s) ==
    /\ Writable(s)
    /\ ~Outdated(sess[s])
    /\ sess[s].serializing /\ sess[s].chunks > 0
    /\ sess' = [Touched(s) EXCEPT ![s].unsent = MaxOutput, ![s].chunks = @ - 1]
    /\ UNCHANGED <<server, timer, quiet, grant, misused>>

\* The response is complete: the next request may have come with the last.
SendLast(s, rest) ==
    LET S == [Touched(s) EXCEPT
                 ![s].io = "reading", ![s].unsent = 0, ![s].event = {},
                 ![s].serializing = FALSE]
    IN /\ Writable(s)
       /\ ~Outdated(sess[s])
       /\ sess[s].chunks = 0
       /\ IF S[s].input > 0
          THEN HandleInput(s, S, timer, rest)
          ELSE /\ rest = 0
               /\ HandleIOProgression(s, S, timer)
               /\ UNCHANGED <<grant, misused>>
       /\ quiet' = Hushed(sess, sess')
       /\ UNCHANGED server

-----------------------------------------------------------------------------
(***************************************************************************)
(* The server, its timers, and the application.                            *)
(***************************************************************************)

\* A session that is accepted may leave no room for another one.
Accept(s) ==
    LET S == [sess EXCEPT ![s] = NewSession] IN
    /\ server.listening
    /\ sess[s].io = "free"
    /\ IF Full(S)
       THEN ScheduleMaxIdleTimeTimer(S, timer) /\ grant' = Forgotten(Expired(S))
       ELSE sess' = S /\ UNCHANGED <<timer, grant>>
    /\ quiet' = [quiet EXCEPT ![s] = Delay]
    /\ UNCHANGED <<server, misused>>

Collected(S) == Used(S) = {}

GarbageCollectionTimer ==
    LET S == [s \in Sessions |->
                 IF sess[s].io = "idle" THEN FreeSession ELSE sess[s]]
    IN /\ timer.gc
       /\ sess' = S
       /\ IF ~server.listening /\ Collected(S)
          THEN /\ server' = [server EXCEPT !.state = "idle"]
               /\ timer' = [timer EXCEPT !.gc = FALSE, !.transition = FALSE,
                                         !.idle = Off]
          ELSE /\ timer' = [timer EXCEPT !.gc = FALSE]
               /\ UNCHANGED server
       /\ UNCHANGED <<quiet, grant, misused>>

\* On the way to stop, the first thing is to close the listener.
ReviewSessions(T) ==
    /\ ScheduleMaxIdleTimeTimer(sess, T)
    /\ server' = [server EXCEPT !.listening = @ /\ ~Stopping]
    /\ grant' = Forgotten(Expired(sess))
    /\ UNCHANGED <<quiet, misused>>

StateTransitionTimer ==
    /\ timer.transition
    /\ ReviewSessions([timer EXCEPT !.transition = FALSE])

MaxIdleTimeTimer ==
    /\ timer.idle = 0
    /\ ReviewSessions(timer)

EventNotificationTimer ==
    /\ timer.event = 0
    /\ ScheduleEventNotifications(sess, timer)
    /\ quiet' = Hushed(sess, sess')
    /\ UNCHANGED <<server, grant, misused>>

Start ==
    /\ server.state = "idle"
    /\ server' = [state |-> "running", listening |-> TRUE]
    /\ UNCHANGED <<sess, timer, quiet, grant, misused>>

Stop ==
    /\ MayStop
    /\ server.state = "running"
    /\ server' = [server EXCEPT !.state = "stopping"]
    /\ timer' = [timer EXCEPT !.transition = TRUE]
    /\ UNCHANGED <<sess, quiet, grant, misused>>

\* HAPAccessoryServerRaiseEvent, and with one session in T ...OnSession.
RaiseEvent(c, T) ==
    /\ sess' = Flagged(sess, {c}, NoSession, c, T)
    /\ timer' = RaisedTimer(sess, sess', timer)
    /\ UNCHANGED <<server, quiet, grant, misused>>

Later(n) == IF n > 0 THEN n - 1 ELSE n

Tick ==
    /\ sess' = [s \in Sessions |->
           IF s \in Open(sess)
           THEN [sess[s] EXCEPT
                    !.idle = IF @ < MaxIdle THEN @ + 1 ELSE @,
                    !.age = IF @ < Delay THEN @ + 1 ELSE @,
                    !.left = IF @ > -1 THEN @ - 1 ELSE @]
           ELSE sess[s]]
    /\ timer' = [timer EXCEPT !.idle = Later(@), !.event = Later(@)]
    /\ quiet' = [s \in Sessions |->
           IF s \in Open(sess) /\ quiet[s] < Delay THEN quiet[s] + 1 ELSE quiet[s]]
    /\ grant' = [s \in Sessions |-> [grant[s] EXCEPT !.left = Later(@)]]
    /\ UNCHANGED <<server, misused>>

Input(s) ==
    \/ \E n \in 1 .. MaxInput, rest \in 0 .. MaxInput : Receive(s, n, rest)
    \/ ReceiveBusy(s)

Output(s) ==
    \/ \E n \in 0 .. MaxOutput : SendPart(s, n)
    \/ SendToRemoved(s)
    \/ SendChunk(s)
    \/ \E rest \in 0 .. MaxInput : SendLast(s, rest)

Next ==
    \/ \E s \in Sessions : Accept(s) \/ Input(s) \/ Output(s) \/ Disconnect(s)
    \/ GarbageCollectionTimer
    \/ StateTransitionTimer
    \/ MaxIdleTimeTimer
    \/ EventNotificationTimer
    \/ Start
    \/ Stop
    \/ \E c \in Chars : \/ RaiseEvent(c, Sessions)
                        \/ \E s \in Sessions : RaiseEvent(c, {s})
    \/ Tick

Spec == Init /\ [][Next]_vars

(***************************************************************************)
(* Time passes, and the run loop calls the callback of a timer that has    *)
(* expired.  Nothing is assumed of the clients.                            *)
(***************************************************************************)
FairSpec ==
    /\ Spec
    /\ WF_vars(Tick)
    /\ WF_vars(GarbageCollectionTimer)
    /\ WF_vars(StateTransitionTimer)
    /\ WF_vars(MaxIdleTimeTimer)
    /\ WF_vars(EventNotificationTimer)

-----------------------------------------------------------------------------
(***************************************************************************)
(* Properties.                                                             *)
(***************************************************************************)

(***************************************************************************)
(* A session at rest whose notifications are due has the event timer       *)
(* registered: schedule_event_notifications, which passes over a session   *)
(* that is reading or writing, is called again when it is done.            *)
(***************************************************************************)
EventsScheduled == ToNotify(sess) # {} => timer.event # Off

(***************************************************************************)
(* Ordinary notifications to a session are at least Delay apart: the delay *)
(* that write_event_notifications enforces by eventNotificationStamp.      *)
(***************************************************************************)
Coalesced ==
    [][\A s \in Sessions : Begins(s, sess, sess') => quiet[s] >= Delay]_vars

(***************************************************************************)
(* No change is lost or told twice, nobody hears of own writes, and nobody *)
(* whose pairing is removed hears of anything: see EventContract.          *)
(***************************************************************************)
Contract ==
    INSTANCE EventContract WITH
        subs <- [s \in Sessions |-> sess[s].subs],
        stale <- [s \in Sessions |-> sess[s].flags],
        message <- [s \in Sessions |-> sess[s].event],
        entitled <- {s \in Sessions : sess[s].hap = "active"}

KeepsContract == Contract!Spec

(***************************************************************************)
(* A notification that is due is begun, if the client comes to rest again  *)
(* and again: the delay by the timer, by requests in progress and by other *)
(* notifications comes to an end.                                          *)
(***************************************************************************)
EventsDelivered ==
    \A s \in Sessions : ([]<>(s \in AtRest(sess) \/ s \notin Open(sess)))
        => \A c \in Chars : c \in sess[s].flags ~> c \notin sess[s].flags

(***************************************************************************)
(* A value of a characteristic that requires timed writes is written by a  *)
(* request whose pid has been prepared, in time, and only once, and so is  *)
(* any value written with a pid (put_prepare, put_characteristics).        *)
(***************************************************************************)
TimedWriteOnce == ~misused

\* A client that does not wait for its responses, or a stream that keeps
\* waking up the server for nothing, holds its session open.
Pipelines(s) == \E n, rest \in 1 .. MaxInput : Receive(s, n, rest) /\ sess'[s].io = "writing"
HoldsOn(s) == Pipelines(s) \/ ReceiveBusy(s) \/ SendPart(s, 0)

(***************************************************************************)
(* The server stops, whatever state its sessions are in, once clients stop *)
(* holding on: those that are idle are closed by maxIdleTimeTimer, all     *)
(* others after their request, and collect_garbage completes the stop.     *)
(***************************************************************************)
StopCompletes ==
    (<>[][~\E s \in Sessions : HoldsOn(s)]_vars)
        => (Stopping ~> server.state = "idle")

(***************************************************************************)
(* A client that falls silent does not take a session from others for ever *)
(* (RegisterSession, schedule_max_idle_time_timer).                        *)
(***************************************************************************)
FullServerRecovers ==
    \A s \in Sessions :
        (<>[][~(Input(s) \/ Output(s))]_vars) => []<>~Full(sess)

=============================================================================
