---------------------------- MODULE Advertising ----------------------------
(***************************************************************************)
(* The life cycle of a BLE accessory server, the configuration it keeps in *)
(* the key-value store and the advertisements it derives from it:          *)
(* HAPAccessoryServer.c, HAPAccessoryServer+Reset.c,                       *)
(* HAPBLEAccessoryServer.c, HAPBLEAccessoryServer+Advertising.c and        *)
(* HAPBLEAccessoryServer+Broadcast.c.                                      *)
(*                                                                         *)
(* Each write of a key is atomic and durable, a handler performs several.  *)
(* A handler is a trail: the sequence of the contents of the store after   *)
(* each of its writes.  It runs to its end, or power is lost after any of  *)
(* its writes; an I/O error, which ends in HAPFatalError, is such a loss.  *)
(***************************************************************************)
EXTENDS FiniteSets, Integers, Sequences

CONSTANTS
    MaxGSN,         \* UINT16_MAX, the last global state number
    Chars,          \* characteristics that support event notification
    Broadcasts,     \* those that support broadcast notification
    Disconnecteds,  \* those that support disconnected notification
    Values,         \* the values of a characteristic
    MaxFirmware,    \* bound on the firmware version
    MaxSessions,    \* bound on the security sessions
    MaxResets,      \* bound on the factory resets
    MaxConfig,      \* bound on configuration number and identities
    RemoteRemoval,  \* pairings may be removed over another transport
    WarmRestart,    \* a reset server is started again without being released
    PartialPurge,   \* power may be lost while a domain is purged
    Rollback,       \* the firmware may fall back before it has been recorded
    None

ASSUME AdvertisingAssumption ==
    /\ MaxGSN \in Nat /\ MaxGSN >= 5 /\ MaxGSN % 2 = 1
    /\ Broadcasts \subseteq Chars /\ Disconnecteds \subseteq Chars
    /\ MaxFirmware \in Nat \ {0} /\ MaxSessions \in Nat /\ MaxResets \in Nat
    /\ MaxConfig \in Nat \ {0}
    /\ {RemoteRemoval, WarmRestart, PartialPurge, Rollback} \subseteq BOOLEAN
    /\ None \notin [char: Chars, value: Values] \cup [n: Nat, inc: BOOLEAN]
                  \cup [n: Nat, cn: Nat]

(***************************************************************************)
(* kv, the key-value store: the recorded firmware version, the             *)
(* configuration number and the long-term key (0: no such key), the global *)
(* state number with its didIncrement flag (None: not found), the          *)
(* broadcast parameters (expiration 0: none or expired), the broadcast     *)
(* configuration of the characteristics and the pairings, each with the    *)
(* long-term key of the accessory that its controller knows.               *)
(*                                                                         *)
(* v, the process: server->state ("Off": no process), ble.adv.connected,   *)
(* fast_started, fast_timer, timer and broadcastedEvent, and the key of    *)
(* the security session of the connection (0: none).                       *)
(*                                                                         *)
(* h, what the outside has seen or done: the firmware installed, the       *)
(* broadcasts sent (each key and nonce with its plaintext), the versions   *)
(* that ran under each configuration number, what the controller knew when *)
(* it last disconnected, whether it missed an event since, and counters.   *)
(***************************************************************************)
VARIABLES kv, v, h

vars == <<kv, v, h>>

Gsns == 1 .. MaxGSN
Identities == 0 .. MaxResets + 1
Store ==
    [fw: 0 .. MaxFirmware, cn: 0 .. MaxConfig + 1, ltsk: Identities,
     gsn: [n: Gsns, inc: BOOLEAN] \cup {None},
     exp: 0 .. MaxGSN, key: 0 .. MaxSessions, enabled: SUBSET Broadcasts,
     pairings: SUBSET [admin: BOOLEAN, ltsk: Identities]]
Event == [char: Broadcasts, value: Values]
Memory ==
    [state: {"Off", "Idle", "Running", "Stopping"},
     connected: BOOLEAN, fastStarted: BOOLEAN, fastTimer: BOOLEAN,
     timer: BOOLEAN, event: Event \cup {None},
     session: 0 .. MaxSessions, aborted: BOOLEAN]

History ==
    [installed: 1 .. MaxFirmware,
     sent: SUBSET [key: 1 .. MaxSessions, n: Gsns, event: Event],
     ran: SUBSET [cn: 0 .. MaxConfig + 1, fw: 1 .. MaxFirmware],
     known: [n: Gsns, cn: 0 .. MaxConfig + 1] \cup {None},
     missed: BOOLEAN, sessions: 0 .. MaxSessions, resets: 0 .. MaxResets]

TypeOK == kv \in Store /\ v \in Memory /\ h \in History

-----------------------------------------------------------------------------
(* The configuration. *)

NoParameters(k) == [k EXCEPT !.exp = 0, !.key = 0]
GSN(k) == IF k.gsn = None THEN [n |-> 1, inc |-> FALSE] ELSE k.gsn
\* Mutant: the flag of the increment is kept.
MutIncrementKept(k) == [k EXCEPT !.gsn = GSN(k)]

ClearIncrement(k) == [k EXCEPT !.gsn = [GSN(k) EXCEPT !.inc = FALSE]]
Last(trail) == trail[Len(trail)]

IncrementCN(k) == [k EXCEPT !.cn = IF @ = 0 THEN 2 ELSE @ + 1]

\* The global state number skips zero; the key expires with its last number.
ExpireKey(k) == NoParameters(k)

IncrementGSN(k) ==
    LET expired == IF GSN(k).n = k.exp THEN ExpireKey(k) ELSE k
        next == IF GSN(k).n = MaxGSN THEN 1 ELSE GSN(k).n + 1
    IN  <<expired, [expired EXCEPT !.gsn = [n |-> next, inc |-> TRUE]]>>

\* A key serves half of the numbers less one.
GenerateKey(k, session) ==
    LET last == GSN(k).n + (MaxGSN - 1) \div 2 - 1
    IN  [k EXCEPT !.key = session,
                  !.exp = IF last > MaxGSN THEN last - MaxGSN ELSE last]

\* Mutant: the key outlives the reset of the number.
MutKeyOutlivesUpdate(k) ==
    LET counted == IncrementCN(k)
    IN  <<counted, [counted EXCEPT !.gsn = None]>>

HandleFirmwareUpdate(k) ==
    LET counted == IncrementCN(k)
        removed == [counted EXCEPT !.gsn = None]
    IN  <<counted, removed, ExpireKey(removed)>>

\* Mutant: the pairings outlive the identity.
MutPairingsOutliveKey(k, fresh) ==
    IF k.ltsk # 0 THEN <<k>> ELSE <<[k EXCEPT !.ltsk = fresh]>>

\* Pairings made with another identity are of no use without it.
LoadLTSK(k, fresh) ==
    LET purged == [k EXCEPT !.pairings = {}]
    IN  IF k.ltsk # 0 THEN <<k>>
        ELSE <<purged, [purged EXCEPT !.ltsk = fresh]>>

AdminFound(k) == \E p \in k.pairings: p.admin

CleanupPairings(k) ==
    LET purged == [k EXCEPT !.pairings = {}]
    IN  IF AdminFound(k) THEN <<k>> ELSE <<purged, NoParameters(purged)>>

\* The trail of f after a trail.
Then(trail, f(_)) == trail \o f(Last(trail))

\* Purging a domain removes its keys one by one.
PurgedConfiguration(k) ==
    [k EXCEPT !.fw = 0, !.cn = 0, !.ltsk = 0, !.gsn = None, !.exp = 0,
              !.key = 0]
Purging(k) ==
    LET p == PurgedConfiguration(k)
    IN  {[k EXCEPT !.fw = a, !.cn = b, !.ltsk = c, !.gsn = d] :
            a \in {k.fw, p.fw}, b \in {k.cn, p.cn}, c \in {k.ltsk, p.ltsk},
            d \in {k.gsn, p.gsn}}
RestoreFactorySettings(k) ==
    LET configuration == PurgedConfiguration(k)
        characteristics == [configuration EXCEPT !.enabled = {}]
    IN  <<configuration, characteristics,
          [characteristics EXCEPT !.pairings = {}]>>

-----------------------------------------------------------------------------
(* The advertisements. *)

Off == [state |-> "Off", connected |-> FALSE, fastStarted |-> FALSE,
        fastTimer |-> FALSE, timer |-> FALSE, event |-> None, session |-> 0,
        aborted |-> FALSE]
Abort(w) == [w EXCEPT !.aborted = TRUE]
Active(w) == w.state = "Running" /\ ~w.connected

\* Reading the configuration number stores its first value.
ReadCN(w, k) ==
    IF Active(w) /\ w.event = None /\ k.cn = 0 THEN [k EXCEPT !.cn = 1] ELSE k

DidStartAdvertising(w) ==
    IF w.fastStarted THEN w
    ELSE [w EXCEPT !.fastStarted = TRUE, !.fastTimer = TRUE]

UpdateAdvertisingData(w, k) ==
    IF ~Active(w) THEN w
    ELSE IF w.event # None /\ k.exp = 0 THEN Abort(w)
    ELSE DidStartAdvertising(w)

Advertised(w, k) ==
    IF Active(w) /\ w.event # None /\ k.exp # 0
    THEN {[key |-> k.key, n |-> GSN(k).n, event |-> w.event]} ELSE {}

\* A handler that ends in UpdateAdvertisingData: it completes, or not.
Completes(trail, w, g) ==
    LET k == Last(trail)
    IN  /\ kv' = ReadCN(w, k)
        /\ v' = UpdateAdvertisingData(w, k)
        /\ h' = [g EXCEPT !.sent = @ \cup Advertised(w, k)]
\* After a loss of power during a connection the flag is left as it is.
Lost == [h EXCEPT !.known = IF v.connected THEN None ELSE @,
                  !.missed = @ /\ ~v.connected]
LosesPower(trail, g) ==
    /\ \E i \in 1 .. Len(trail): kv' = trail[i]
    /\ v' = Off
    /\ h' = g
Handler(trail, w, g) == Completes(trail, w, g) \/ LosesPower(trail, Lost)
-----------------------------------------------------------------------------
(* The life cycle. *)

Init ==
    /\ kv = [fw |-> 0, cn |-> 0, ltsk |-> 0, gsn |-> None, exp |-> 0,
             key |-> 0, enabled |-> {}, pairings |-> {}]
    /\ v = Off
    /\ h \in [installed: 1 .. MaxFirmware, sent: {{}}, ran: {{}},
              known: {None}, missed: {FALSE}, sessions: {0}, resets: {0}]

\* Another firmware may have been installed: an older one is refused by
\* Start, unless it is the one that the store still names.
PowerUp ==
    /\ v.state = "Off"
    /\ v' = [Off EXCEPT !.state = "Idle"]
    /\ \E f \in 1 .. MaxFirmware:
        /\ f >= h.installed \/ kv.fw >= h.installed \/ Rollback
        /\ h' = [h EXCEPT !.installed = f]
    /\ UNCHANGED kv

PowerLoss == v.state # "Off" /\ LosesPower(<<kv>>, Lost)

\* Mutant: the version is recorded before the tasks of its update.
MutVersionFirst(k) ==
    LET recorded == [k EXCEPT !.fw = h.installed]
    IN  IF k.fw \in {0, h.installed} THEN <<recorded>>
        ELSE <<recorded>> \o HandleFirmwareUpdate(recorded)

\* Recording the firmware version follows the tasks of its update.
Versioned(k) ==
    LET tasks == IF k.fw \in {0, h.installed} THEN <<k>>
                 ELSE HandleFirmwareUpdate(k)
    IN  Append(tasks, [Last(tasks) EXCEPT !.fw = h.installed])

Start ==
    /\ v.state = "Idle" /\ ~v.aborted
    /\ kv.fw <= h.installed
    /\ kv.cn <= MaxConfig
    /\ LET Load(k) == LoadLTSK(k, h.resets + 1)
           trail == Then(Then(Versioned(kv), Load), CleanupPairings)
           w == [v EXCEPT !.state = "Running"]
           cn == ReadCN(w, Last(trail)).cn
       IN  Handler(trail, w,
                   [h EXCEPT !.ran = @ \cup {[cn |-> cn, fw |-> h.installed]}])

\* The application stops the server; a connection delays it.
Stop ==
    /\ v.state = "Running" /\ ~v.aborted
    /\ v' = [v EXCEPT !.state = IF v.connected THEN "Stopping" ELSE "Idle"]
    /\ UNCHANGED <<kv, h>>

\* The application resets a stopped server.  It has released it, or it starts
\* it again as it is.
Stopped == v.state = "Off" \/ (WarmRestart /\ v.state = "Idle" /\ ~v.aborted)
Resets(trail) ==
    /\ \/ kv' = Last(trail) /\ UNCHANGED v
       \/ \E i \in 1 .. Len(trail): kv' = trail[i] /\ v' = Off
       \/ PartialPurge /\ kv' \in Purging(kv) /\ v' = Off
FactoryReset ==
    /\ Stopped /\ h.resets < MaxResets
    /\ Resets(RestoreFactorySettings(kv))
    /\ h' = [h EXCEPT !.resets = @ + 1, !.known = None, !.missed = FALSE,
                      !.ran = IF kv'.fw = 0 THEN {} ELSE @]
RemoveAllPairings ==
    /\ Stopped /\ kv.pairings # {}
    /\ kv' = [kv EXCEPT !.pairings = {}]
    /\ h' = [h EXCEPT !.known = None, !.missed = FALSE]
    /\ UNCHANGED v

-----------------------------------------------------------------------------
(* The connection. *)

DidConnect ==
    /\ Active(v) /\ ~v.aborted
    /\ LET g == [h EXCEPT !.known = None, !.missed = FALSE]
           trail == <<ClearIncrement(kv)>>
       IN  \/ Completes(trail, [v EXCEPT !.connected = TRUE, !.timer = FALSE,
                                        !.fastTimer = FALSE, !.event = None],
                        g)
           \/ LosesPower(trail, g)

DidDisconnect ==
    /\ v.connected /\ ~v.aborted
    /\ LET cleared == ClearIncrement(kv)
           w == [v EXCEPT !.connected = FALSE, !.session = 0,
                          !.fastTimer = TRUE,
                          !.state = IF @ = "Stopping" THEN "Idle" ELSE @]
           asserted == v.fastStarted /\ ~v.fastTimer /\ ~v.timer
                       /\ v.event = None
       IN  Handler(<<cleared>>, IF asserted THEN w ELSE Abort(w),
                   [h EXCEPT !.known = [n |-> GSN(kv).n, cn |-> kv.cn],
                             !.missed = FALSE])

\* Pair Verify of a paired controller: each session has a key of its own.
Secure ==
    /\ v.connected /\ ~v.aborted /\ kv.pairings # {}
    /\ h.sessions < MaxSessions
    /\ v' = [v EXCEPT !.session = h.sessions + 1]
    /\ h' = [h EXCEPT !.sessions = @ + 1]
    /\ UNCHANGED kv

\* The requests of the session: a broadcast key, broadcasts of a
\* characteristic; a notification that is sent.
InSession == v.session # 0 /\ ~v.aborted
BroadcastGenerateKey ==
    InSession /\ kv' = GenerateKey(kv, v.session) /\ UNCHANGED <<v, h>>
ConfigureBroadcasts ==
    /\ InSession
    /\ \E c \in Broadcasts:
        kv' \in {[kv EXCEPT !.enabled = @ \cup {c}],
                 [kv EXCEPT !.enabled = @ \ {c}]}
    /\ UNCHANGED <<v, h>>
AssertsQuiet(w) == IF w.event = None /\ ~w.timer THEN w ELSE Abort(w)
DidSendEventNotification ==
    /\ InSession /\ ~GSN(kv).inc
    /\ LET trail == IncrementGSN(kv)
       IN  \/ kv' = Last(trail) /\ v' = AssertsQuiet(v) /\ UNCHANGED h
           \/ LosesPower(trail, Lost)

\* Pair Setup stores an admin, its session or Pair Verify adds others.
AddPairing ==
    /\ v.state = "Running" /\ ~v.aborted
    /\ LET p == [admin |-> ~AdminFound(kv), ltsk |-> kv.ltsk]
       IN  /\ ~v.connected => ~p.admin
           /\ p \notin kv.pairings
           /\ Handler(<<[kv EXCEPT !.pairings = @ \cup {p}]>>, v, h)
RemovePairing ==
    /\ v.state \in {"Running", "Stopping"} /\ ~v.aborted
    /\ InSession \/ RemoteRemoval
    /\ \E p \in kv.pairings:
        LET trail == Then(<<[kv EXCEPT !.pairings = @ \ {p}]>>,
                          CleanupPairings)
            w == IF Last(trail).pairings = {} THEN [v EXCEPT !.session = 0]
                 ELSE v
        IN  Handler(trail, w,
                    IF AdminFound(Last(trail)) THEN h
                    ELSE [h EXCEPT !.known = None, !.missed = FALSE])

-----------------------------------------------------------------------------
(* Events and timers. *)

\* A value that cannot be read is skipped; so is a timer that cannot start.
\* The value that was read is broadcast until the timer expires.
Broadcasting(w, c, x) ==
    [w EXCEPT !.timer = TRUE, !.event = [char |-> c, value |-> x]]

BroadcastEvent(c) ==
    LET calm == [v EXCEPT !.timer = FALSE, !.event = None]
        trail == IncrementGSN(kv)
    IN  \/ Handler(<<kv>>, calm, h)
        \/ Handler(trail, calm, [h EXCEPT !.missed = h.known # None])
        \/ \E x \in Values:
            Handler(trail, Broadcasting(v, c, x), [h EXCEPT !.missed = h.known # None])
DisconnectedEvent ==
    LET w == AssertsQuiet(v)
        g == [h EXCEPT !.missed = ~v.connected /\ h.known # None]
    IN  IF GSN(kv).inc THEN kv' = kv /\ v' = v /\ h' = g
        ELSE IF v.connected
        THEN \/ kv' = Last(IncrementGSN(kv)) /\ v' = w /\ h' = g
             \/ LosesPower(IncrementGSN(kv), Lost)
        ELSE \E t \in BOOLEAN:
                Handler(IncrementGSN(kv), [w EXCEPT !.timer = t], g)

\* Its connected part, a notification, changes nothing here.
DidRaiseEvent(c) ==
    /\ v.fastStarted /\ ~v.aborted
    /\ IF /\ c \in Broadcasts \cap kv.enabled /\ ~v.connected
          /\ kv.exp \notin {0, GSN(kv).n}
       THEN BroadcastEvent(c)
       ELSE c \in Disconnecteds /\ DisconnectedEvent

\* The slow timer ends a broadcast and runs once more for the advertisement
\* of the new number.
AdvertisingTimerExpired ==
    /\ ~v.aborted
    /\ \/ v.fastTimer /\ Handler(<<kv>>, [v EXCEPT !.fastTimer = FALSE], h)
       \/ /\ v.timer
          /\ \E t \in BOOLEAN:
                Handler(<<kv>>,
                        IF v.event = None THEN [v EXCEPT !.timer = FALSE]
                        ELSE [v EXCEPT !.event = None, !.timer = t], h)

Next ==
    \/ PowerUp \/ PowerLoss \/ Start \/ Stop \/ FactoryReset
    \/ RemoveAllPairings \/ DidConnect \/ DidDisconnect \/ Secure
    \/ BroadcastGenerateKey \/ ConfigureBroadcasts
    \/ DidSendEventNotification \/ AddPairing \/ RemovePairing
    \/ \E c \in Chars: DidRaiseEvent(c)
    \/ AdvertisingTimerExpired

Spec == Init /\ [][Next]_vars

-----------------------------------------------------------------------------
\* No broadcast key encrypts two different events with the same nonce, the
\* global state number: across the wrap of the number, its reset by a
\* firmware update, the expiry of the key and power losses in between.
NonceFresh ==
    \A x, y \in h.sent: x.key = y.key /\ x.n = y.n => x.event = y.event

\* While the server runs, every pairing in the store was made with its
\* long-term key: a reset that was interrupted, or a lost key, never leaves
\* a controller paired with an accessory that it cannot authenticate.
PairingsMatchIdentity ==
    v.state \in {"Running", "Stopping"} =>
        \A p \in kv.pairings: p.ltsk = kv.ltsk

\* Two firmware versions never run under one configuration number: a
\* controller that caches the attribute database by it reads it again.
ConfigurationNamesFirmware ==
    \A x, y \in h.ran: x.cn = y.cn => x.fw = y.fw

\* A controller that missed an event since it disconnected finds another
\* global state number, or another configuration number, in the
\* advertisements: across restarts, and at most one increment notwithstanding.
MissedEventSignalled ==
    h.missed /\ Active(v) => GSN(kv).n # h.known.n \/ kv.cn # h.known.cn

\* The assertions on the advertising timers, and the broadcast key that an
\* event being broadcast needs, hold: the process is never aborted.
NeverAborted == ~v.aborted

\* A pairing is only in force under an administrator: without one, no
\* broadcast key remains and the server does not run with pairings.
KeyNeedsPairing ==
    v.state = "Running" /\ (kv.exp # 0 \/ kv.pairings # {}) => AdminFound(kv)
=============================================================================
