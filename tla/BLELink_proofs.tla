--------------------------- MODULE BLELink_proofs ---------------------------
(***************************************************************************)
(* Theorems about the connection of a BLE accessory server, for any set of *)
(* characteristics and any number of fragments: what a secured session     *)
(* lets through was received encrypted, the body of a Timed Write is kept  *)
(* until it is executed, no event is left behind, and a fallback procedure *)
(* ends with the security it started with.                                 *)
(*                                                                         *)
(* A handler takes the state through several operators, so the invariant   *)
(* is stated of a state s: Good is what holds between them, and each       *)
(* operator has a lemma that says which part of it the operator keeps.     *)
(***************************************************************************)
EXTENDS BLELink, TLAPS

\* SecureAccess, ActiveSessionTimesOut, FallbackKeepsSecurity and
\* EventsNotStuck, of a state.
Access(s) == s.timer /\ s.att \notin Droppers /\ Secured(s) => s.started

Timely(s) == s.hap = "active" => s.link # "off"

KeptSecurity(s) ==
    ~s.terminal /\ s.hap # "removed" =>
        \A c \in Chars \ Droppers : s.fb[c].on => s.fb[c].sec = Secured(s)

NotStuck(s) == s.failed = "none" /\ s.hap = "active" /\ s.subs \cap s.pending # {} => s.busy

\* A prepared body is safe because the transactions that follow a Timed Write
\* get no buffer, and the one that has prepared it is past its body.
Prepared(s) ==
    s.timed => /\ s.body = "prepared"
               /\ ~s.buffer \/ s.tx \in {"ready", "response"}

\* A terminal session has been invalidated, and nothing secures it again.
TerminalUnsecured(s) == s.terminal => s.hap = "none"

Sound(s) ==
    /\ s \in Link
    /\ TerminalUnsecured(s)
    /\ Access(s)
    /\ Prepared(s)

\* What holds between the steps of a handler.
Good(s) ==
    /\ Sound(s)
    /\ Timely(s)
    /\ s.connected
    /\ s.server # "idle"

\* The inductive invariant.
IInv ==
    /\ Sound(b)
    /\ Timely(b)
    /\ KeptSecurity(b)
    /\ NotStuck(b)
    /\ b.server = "idle" => ~b.connected
    /\ ~b.connected => ~b.timed

\* What the sending of events leaves alone.
SameLink(q, s) ==
    /\ q.server = s.server /\ q.connected = s.connected
    /\ q.failed = s.failed /\ q.hap = s.hap
    /\ q.terminal = s.terminal /\ q.link = s.link
    /\ q.att = s.att /\ q.timer = s.timer /\ q.started = s.started
    /\ q.timed = s.timed /\ q.tx = s.tx /\ q.buffer = s.buffer
    /\ q.body = s.body /\ q.fb = s.fb

-----------------------------------------------------------------------------
(***************************************************************************)
(* The session.                                                            *)
(***************************************************************************)

LEMMA NoFallbacksKept ==
    ASSUME NEW s, s.fb = NoFallbacks PROVE KeptSecurity(s)
BY DEF KeptSecurity, NoFallbacks, NoFallback

LEMMA NoFallbacksType == NoFallbacks \in [Chars \ Droppers -> Fallbacks]
BY LinkAssumption DEF NoFallbacks, NoFallback, Fallbacks

LEMMA IdleType == Idle \in Link
BY NoFallbacksType, LinkAssumption DEF Idle, Link, Ops

LEMMA SameIsGood ==
    ASSUME NEW s, NEW q \in Link, SameLink(q, s)
    PROVE  /\ Good(s) => Good(q)
           /\ KeptSecurity(s) => KeptSecurity(q)
BY DEF SameLink, Good, Sound, Timely, Access, Prepared, TerminalUnsecured, KeptSecurity, Secured

LEMMA CancelKeeps ==
    ASSUME NEW s, s \in Link
    PROVE  Cancel(s) \in Link /\ SameLink(Cancel(s), s)
BY DEF Cancel, Link, SameLink

LEMMA Invalidated ==
    ASSUME NEW s, s \in Link, NEW terminateLink \in BOOLEAN
    PROVE  LET q == SessionInvalidate(s, terminateLink)
           IN  /\ q \in Link
               /\ q.hap = "none" /\ q.link = "off"
               /\ q.terminal = (s.terminal \/ terminateLink)
               /\ q.server = s.server /\ q.connected = s.connected
               /\ q.failed = s.failed /\ q.fb = s.fb
               /\ q.att = s.att /\ q.timer = s.timer /\ q.started = s.started
               /\ q.timed = s.timed /\ q.tx = s.tx
               /\ q.buffer = s.buffer /\ q.body = s.body
<1> DEFINE terminal == s.terminal \/ terminateLink
           cancelled == s.cancelled \/ (terminateLink /\ s.safe /\ s.connected)
           r == [s EXCEPT !.hap = "none", !.link = "off", !.pairing = FALSE]
           q == [r EXCEPT !.terminal = terminal, !.cancelled = cancelled]
<1>1. SessionInvalidate(s, terminateLink) = q
  BY DEF SessionInvalidate
<1>2. s.terminal \in BOOLEAN /\ s.cancelled \in BOOLEAN /\ s.safe \in BOOLEAN /\ s.connected \in BOOLEAN
  BY DEF Link
<1>3. terminal \in BOOLEAN /\ cancelled \in BOOLEAN
  BY <1>2, Zenon
<1> HIDE DEF terminal, cancelled
<1>3a. r \in Link
  BY ZenonT(60) DEF Link
<1>4. q \in Link
  <2> HIDE DEF r
  <2> QED
    BY <1>3, <1>3a, ZenonT(60) DEF Link
<1>5. /\ q.hap = "none" /\ q.link = "off" /\ q.terminal = terminal
      /\ q.server = s.server /\ q.connected = s.connected
      /\ q.failed = s.failed /\ q.fb = s.fb
      /\ q.att = s.att /\ q.timer = s.timer /\ q.started = s.started
      /\ q.timed = s.timed /\ q.tx = s.tx
      /\ q.buffer = s.buffer /\ q.body = s.body
  BY DEF Link
<1> QED
  BY <1>1, <1>4, <1>5 DEF terminal

\* A session that is terminated meets whatever it is asked.
LEMMA Terminated ==
    ASSUME NEW s, Good(s)
    PROVE  LET q == Terminate(s)
           IN  Good(q) /\ KeptSecurity(q) /\ q.terminal /\ q.hap = "none"
<1> DEFINE q == Terminate(s)
<1>1. s \in Link
  BY DEF Good, Sound
<1>2. /\ q \in Link
      /\ q.hap = "none" /\ q.terminal = (s.terminal \/ TRUE)
      /\ q.server = s.server /\ q.connected = s.connected
      /\ q.failed = s.failed /\ q.timed = s.timed /\ q.tx = s.tx
      /\ q.buffer = s.buffer /\ q.body = s.body
  BY <1>1, Invalidated, ZenonT(60) DEF Terminate
<1> HIDE DEF q
<1>3. q.terminal
  BY <1>2
<1> QED
  BY <1>2, <1>3 DEF q, Good, Sound, Timely, Access, Prepared, TerminalUnsecured, KeptSecurity, Secured

LEMMA ResponseSent ==
    ASSUME NEW s, s \in Link
    PROVE  DidSendGATTResponse(s) \in Link /\ SameLink(DidSendGATTResponse(s), s)
BY ZenonT(60) DEF DidSendGATTResponse, Link, SameLink

LEMMA ProcedureStarted ==
    ASSUME NEW s, Good(s)
    PROVE  LET q == DidStartBLEProcedure(s)
           IN  /\ Good(q) /\ q.fb = s.fb /\ q.hap = s.hap
               /\ q.att = s.att /\ q.timer = s.timer /\ q.failed = s.failed
               /\ KeptSecurity(s) => KeptSecurity(q)
<1> DEFINE q == DidStartBLEProcedure(s)
<1>1. s \in Link
  BY DEF Good, Sound
<1>2. q \in Link
  BY <1>1 DEF DidStartBLEProcedure, Link
<1>3. /\ q.hap = s.hap /\ q.terminal = s.terminal /\ q.fb = s.fb
      /\ q.server = s.server /\ q.connected = s.connected
      /\ q.failed = s.failed /\ q.timed = s.timed /\ q.tx = s.tx
      /\ q.buffer = s.buffer /\ q.body = s.body
      /\ q.att = s.att /\ q.timer = s.timer /\ q.started = s.started
  BY <1>1 DEF DidStartBLEProcedure, Link
<1>4. s.terminal => q.link = s.link
  BY DEF DidStartBLEProcedure
<1>5. ~s.terminal /\ s.hap = "active" => q.link = "on"
  BY <1>1 DEF DidStartBLEProcedure, Link, Secured
<1> HIDE DEF q
<1>6. Timely(q)
  BY <1>3, <1>4, <1>5 DEF Good, Timely
<1> QED
  BY <1>2, <1>3, <1>6 DEF q, Good, Sound, Access, Prepared, TerminalUnsecured, KeptSecurity, Secured

LEMMA PairingStarted ==
    ASSUME NEW s, s \in Link
    PROVE  DidStartPairingProcedure(s) \in Link /\ SameLink(DidStartPairingProcedure(s), s)
<1>1. CASE s.terminal
  BY <1>1 DEF DidStartPairingProcedure, SameLink
<1>2. CASE ~s.terminal
  BY <1>2, ZenonT(60) DEF DidStartPairingProcedure, Link, SameLink
<1> QED
  BY <1>1, <1>2

-----------------------------------------------------------------------------
(***************************************************************************)
(* Events.                                                                 *)
(***************************************************************************)

LEMMA PendingSent ==
    ASSUME NEW s, s \in Link, NEW q \in SendPendingEventNotifications(s)
    PROVE  q \in Link /\ SameLink(q, s) /\ NotStuck(q)
<1>1. CASE s.subs \cap s.pending = {} \/ s.hap # "active" \/ s.busy
  BY <1>1 DEF SendPendingEventNotifications, SameLink, NotStuck
<1>2. CASE ~(s.subs \cap s.pending = {} \/ s.hap # "active" \/ s.busy)
  <2>1. PICK c \in s.subs \cap s.pending : q = [s EXCEPT !.pending = @ \ {c}, !.busy = TRUE]
    BY <1>2 DEF SendPendingEventNotifications
  <2>2. s.pending \ {c} \subseteq Events
    BY DEF Link
  <2> QED
    BY <2>1, <2>2, ZenonT(60) DEF Link, SameLink, NotStuck
<1> QED
  BY <1>1, <1>2

LEMMA NotificationsEnabled ==
    ASSUME NEW s, s \in Link, NotStuck(s), NEW c \in Events, NEW enable \in BOOLEAN,
           NEW q \in SetNotificationsEnabled(s, c, enable)
    PROVE  q \in Link /\ SameLink(q, s) /\ NotStuck(q)
<1>1. CASE (c \in s.subs) = enable
  BY <1>1 DEF SetNotificationsEnabled, SameLink
<1>2. CASE (c \in s.subs) # enable
  <2> DEFINE subs == IF enable THEN s.subs \cup {c} ELSE s.subs \ {c}
             p == [s EXCEPT !.subs = subs]
  <2>1. q \in SendPendingEventNotifications(p)
    BY <1>2 DEF SetNotificationsEnabled
  <2>2. subs \in SUBSET Events
    BY DEF Link
  <2> HIDE DEF subs
  <2>3. p \in Link /\ SameLink(p, s)
    BY <2>2 DEF Link, SameLink
  <2> HIDE DEF p
  <2>4. q \in Link /\ SameLink(q, p) /\ NotStuck(q)
    BY <2>1, <2>3, PendingSent
  <2> QED
    BY <2>3, <2>4 DEF SameLink
<1> QED
  BY <1>1, <1>2

\* The end of a request: the events that are due are sent, except after an
\* error, which leaves no active session or no process.
LEMMA EventsSent ==
    ASSUME NEW results, NEW q \in ThenSendPending(results),
           \A s \in results : Good(s) /\ KeptSecurity(s)
    PROVE  Good(q) /\ KeptSecurity(q) /\ NotStuck(q)
<1>1. PICK s \in results :
         q \in IF s.terminal \/ s.failed # "none" THEN {s}
               ELSE SendPendingEventNotifications(s)
  BY DEF ThenSendPending
<1>2. Good(s) /\ KeptSecurity(s)
  OBVIOUS
<1>3. CASE s.terminal \/ s.failed # "none"
  BY <1>1, <1>2, <1>3 DEF Good, Sound, TerminalUnsecured, NotStuck
<1>4. CASE ~(s.terminal \/ s.failed # "none")
  <2>1. q \in Link /\ SameLink(q, s) /\ NotStuck(q)
    BY <1>1, <1>2, <1>4, PendingSent DEF Good, Sound
  <2> QED
    BY <1>2, <2>1, SameIsGood
<1> QED
  BY <1>3, <1>4

-----------------------------------------------------------------------------
(***************************************************************************)
(* A write to the characteristic the procedure is attached to.             *)
(***************************************************************************)

LEMMA Attached ==
    ASSUME NEW s, s \in Link, NEW c \in Chars \cup {None}
    PROVE  LET q == ProcedureAttach(s, c)
           IN  /\ q \in Link
               /\ q.att = c /\ ~q.timer /\ ~q.started /\ ~q.timed
               /\ q.server = s.server /\ q.connected = s.connected
               /\ q.failed = s.failed /\ q.hap = s.hap
               /\ q.terminal = s.terminal /\ q.link = s.link
               /\ q.body = s.body /\ q.fb = s.fb
<1> DEFINE p == TransactionCreate(s, TRUE)
           q == ProcedureAttach(s, c)
<1>0. 0 \in 0..MaxLeft
  BY LinkAssumption
<1>1a. p \in Link
  BY <1>0, ZenonT(60) DEF TransactionCreate, Link
<1>1b. /\ p.server = s.server /\ p.connected = s.connected
       /\ p.failed = s.failed /\ p.hap = s.hap
       /\ p.terminal = s.terminal /\ p.link = s.link
       /\ p.body = s.body /\ p.fb = s.fb
  BY DEF TransactionCreate, Link
<1>2. q = [p EXCEPT !.att = c, !.timer = FALSE, !.started = FALSE, !.timed = FALSE]
  BY DEF ProcedureAttach
<1> HIDE DEF p, q
<1>3. q \in Link
  BY <1>1a, <1>2, ZenonT(60) DEF Link
<1>4. /\ q.att = c /\ q.timer = FALSE /\ q.started = FALSE /\ q.timed = FALSE
      /\ q.server = p.server /\ q.connected = p.connected
      /\ q.failed = p.failed /\ q.hap = p.hap
      /\ q.terminal = p.terminal /\ q.link = p.link
      /\ q.body = p.body /\ q.fb = p.fb
  BY <1>1a, <1>2 DEF Link
<1> QED
  BY <1>1b, <1>3, <1>4 DEF q

LEMMA AttachKeeps ==
    ASSUME NEW s, Good(s), NEW c \in Chars \cup {None}
    PROVE  LET q == ProcedureAttach(s, c)
           IN  Good(q) /\ (KeptSecurity(s) => KeptSecurity(q))
<1>1. s \in Link
  BY DEF Good, Sound
<1> QED
  BY <1>1, Attached
     DEF Good, Sound, Timely, Access, Prepared, TerminalUnsecured, KeptSecurity, Secured

\* The first fragment of a request is the only one that finds the transaction
\* of a Timed Write open, and that transaction has no buffer to copy it to.
LEMMA FragmentReceived ==
    ASSUME NEW s, Good(s), NEW q \in TransactionHandleWrite(s)
    PROVE  Good(q) /\ (KeptSecurity(s) => KeptSecurity(q))
<1> DEFINE p == AppendBody(s)
           Frame(r) == /\ r.server = s.server /\ r.connected = s.connected
                       /\ r.hap = s.hap
                       /\ r.terminal = s.terminal /\ r.link = s.link
                       /\ r.att = s.att /\ r.timer = s.timer
                       /\ r.started = s.started /\ r.timed = s.timed
                       /\ r.buffer = s.buffer /\ r.fb = s.fb
<1>1. s \in Link
  BY DEF Good, Sound
<1>2. p \in Link /\ Frame(p) /\ p.tx = s.tx /\ p.left = s.left
  BY <1>1 DEF AppendBody, Link
<1>3. p.body = IF s.buffer THEN "other" ELSE s.body
  BY <1>1 DEF AppendBody, Link
<1>3a. TransactionHandleWrite(s) =
          CASE s.tx = "start" ->
                    {BodyRequest(s, o, n) : o \in Ops, n \in 0..MaxLeft} \cup EmptyBody(s)
            [] s.tx = "request" /\ s.left > 0 -> {[p EXCEPT !.left = @ - 1]}
            [] s.tx \in {"request", "ready"} /\ (s.tx = "request" => s.left = 0) -> {s}
            [] s.tx = "response" -> {}
  BY DEF TransactionHandleWrite
<1> HIDE DEF p
<1>4. ASSUME NEW r, r \in Link, Frame(r), r.body = p.body,
             s.tx \notin {"ready", "response"}
      PROVE  Good(r) /\ (KeptSecurity(s) => KeptSecurity(r))
  <2>1. Prepared(r)
    BY <1>3, <1>4 DEF Good, Sound, Prepared
  <2> QED
    BY <1>4, <2>1 DEF Good, Sound, Timely, Access, TerminalUnsecured, KeptSecurity, Secured
<1>5. CASE s.tx = "start" /\ q \notin EmptyBody(s)
  <2>1. PICK o \in Ops, n \in 0..MaxLeft : q = BodyRequest(s, o, n)
    BY <1>3a, <1>5
  <2>1a. q = [p EXCEPT !.tx = "request", !.op = o, !.left = n]
    BY <2>1 DEF BodyRequest, p
  <2>2. q \in Link
    BY <1>2, <2>1a, ZenonT(60) DEF Link
  <2>3. Frame(q) /\ q.body = p.body
    BY <1>2, <2>1a DEF Link
  <2> HIDE DEF Frame
  <2> QED
    BY <1>4, <1>5, <2>2, <2>3
<1>8. CASE s.tx = "start" /\ q \in EmptyBody(s)
  <2>1. ~s.buffer /\ q = [s EXCEPT !.failed = "BodyBytes"]
    BY <1>8 DEF EmptyBody
  <2>2. q \in Link
    BY <1>1, <2>1 DEF Link
  <2>3. Frame(q) /\ q.body = p.body
    BY <1>1, <1>3, <2>1 DEF Link
  <2> HIDE DEF Frame
  <2> QED
    BY <1>4, <1>8, <2>2, <2>3
<1>6. CASE s.tx = "request" /\ s.left > 0
  <2>1. q = [p EXCEPT !.left = p.left - 1]
    BY <1>3a, <1>6
  <2>2. p.left - 1 \in 0..MaxLeft
    BY <1>1, <1>2, <1>6, LinkAssumption DEF Link
  <2>3. q \in Link
    BY <1>2, <2>1, <2>2 DEF Link
  <2>4. Frame(q) /\ q.body = p.body
    BY <1>2, <2>1 DEF Link
  <2> HIDE DEF Frame
  <2> QED
    BY <1>4, <1>6, <2>3, <2>4
<1>7. CASE s.tx # "start" /\ ~(s.tx = "request" /\ s.left > 0)
  <2>1. s.tx \in {"start", "request", "ready", "response"} /\ s.left \in 0..MaxLeft
    BY <1>1 DEF Link
  <2>2. s.tx # "response" => TransactionHandleWrite(s) = {s}
    BY <1>3a, <1>7, <2>1, LinkAssumption
  <2>3. s.tx = "response" => TransactionHandleWrite(s) = {}
    BY <1>3a, <1>7, <2>1, LinkAssumption
  <2>4. q = s
    BY <2>2, <2>3
  <2> QED
    BY <2>4
<1> QED
  BY <1>5, <1>6, <1>7, <1>8

\* The session is secured, or not, from the start to the end of a procedure
\* that begins here, and startedSecured says so.
LEMMA StartKeeps ==
    ASSUME NEW s, Good(s), KeptSecurity(s), NEW c \in Chars,
           s.att = c, c \in Droppers => s.fb = NoFallbacks, ~s.timer
    PROVE  LET p == StartProcedure(s, c)
           IN  Good(p) /\ KeptSecurity(p)
<1> DEFINE drops == Secured(s) /\ c \in Droppers
           i == SessionInvalidate(s, FALSE)
           a == ProcedureAttach(i, c)
           d == IF drops THEN a ELSE s
           e == [d EXCEPT !.started = Secured(d), !.timer = TRUE]
<1>1. s \in Link
  BY DEF Good, Sound
<1>2. ASSUME drops
      PROVE  Good(d) /\ KeptSecurity(d)
  <2>1. /\ i \in Link
        /\ i.hap = "none" /\ i.link = "off"
        /\ i.server = s.server /\ i.connected = s.connected
        /\ i.failed = s.failed /\ i.fb = s.fb
    BY <1>1, Invalidated, ZenonT(60)
  <2>2. /\ a \in Link
        /\ a.att = c /\ ~a.timer /\ ~a.started /\ ~a.timed
        /\ a.server = i.server /\ a.connected = i.connected
        /\ a.failed = i.failed /\ a.hap = i.hap /\ a.fb = i.fb
    <3> HIDE DEF i
    <3> QED
      BY <2>1, Attached
  <2>3. d = a
    BY <1>2
  <2> HIDE DEF i, a, d
  <2>4. d.fb = NoFallbacks
    BY <1>2, <2>1, <2>2, <2>3
  <2> QED
    BY <2>1, <2>2, <2>3, <2>4, NoFallbacksKept
       DEF Good, Sound, Timely, Access, Prepared, TerminalUnsecured
<1>3. Good(d) /\ KeptSecurity(d)
  <2>1. CASE drops
    BY <1>2, <2>1
  <2>2. CASE ~drops
    BY <2>2
  <2> QED
    BY <2>1, <2>2
<1>4. d \in Link
  BY <1>3 DEF Good, Sound
<1>5. StartProcedure(s, c) = DidStartBLEProcedure(e)
  BY DEF StartProcedure
<1> HIDE DEF d
<1>6. Secured(d) \in BOOLEAN
  BY DEF Secured
<1>7. e \in Link
  BY <1>4, <1>6 DEF Link
<1>8. /\ e.started = Secured(d)
      /\ e.server = d.server /\ e.connected = d.connected
      /\ e.failed = d.failed /\ e.hap = d.hap
      /\ e.terminal = d.terminal /\ e.link = d.link
      /\ e.timed = d.timed /\ e.tx = d.tx /\ e.buffer = d.buffer
      /\ e.body = d.body /\ e.fb = d.fb
  BY <1>4 DEF Link
<1> HIDE DEF e
<1>9. Good(e) /\ KeptSecurity(e)
  BY <1>3, <1>7, <1>8, ZenonT(60)
     DEF Good, Sound, Timely, Access, Prepared, TerminalUnsecured, KeptSecurity, Secured
<1> QED
  BY <1>5, <1>9, ProcedureStarted

LEMMA WriteKeeps ==
    ASSUME NEW s, Good(s), KeptSecurity(s), NEW c \in Chars,
           s.att = c, c \in Droppers => s.fb = NoFallbacks,
           NEW q \in ProcedureHandleGATTWrite(s, c)
    PROVE  Good(q) /\ KeptSecurity(q)
<1>1. CASE ~s.timer /\ s.link = "due"
  BY <1>1, Terminated DEF ProcedureHandleGATTWrite
<1>2. CASE ~(~s.timer /\ s.link = "due")
  <2> DEFINE p == IF s.timer THEN s ELSE StartProcedure(s, c)
  <2>1. Good(p) /\ KeptSecurity(p)
    BY StartKeeps
  <2>2. \/ q = Terminate(p)
        \/ \E r \in TransactionHandleWrite(p) : q = r \/ q = DidSendGATTResponse(r)
    BY <1>2 DEF ProcedureHandleGATTWrite
  <2> HIDE DEF p
  <2>3. CASE q = Terminate(p)
    BY <2>1, <2>3, Terminated
  <2>4. ASSUME NEW r \in TransactionHandleWrite(p), q = r \/ q = DidSendGATTResponse(r)
        PROVE  Good(q) /\ KeptSecurity(q)
    <3>1. Good(r) /\ KeptSecurity(r)
      BY <2>1, FragmentReceived
    <3>2. r \in Link
      BY <3>1 DEF Good, Sound
    <3> QED
      BY <2>4, <3>1, <3>2, ResponseSent, SameIsGood
  <2> QED
    BY <2>2, <2>3, <2>4
<1> QED
  BY <1>1, <1>2


-----------------------------------------------------------------------------
(***************************************************************************)
(* Processing a request.                                                   *)
(***************************************************************************)

LEMMA PairingCompleted ==
    ASSUME NEW s, s \in Link, NEW type
    PROVE  LET q == DidCompletePairingProcedure(s, type)
           IN  /\ q \in Link
               /\ q.link = IF ~s.terminal /\ type = "PairVerify" /\ Secured(s)
                           THEN "on" ELSE s.link
               /\ q.server = s.server /\ q.connected = s.connected
               /\ q.failed = s.failed /\ q.hap = s.hap /\ q.terminal = s.terminal
               /\ q.att = s.att /\ q.timer = s.timer /\ q.started = s.started
               /\ q.timed = s.timed /\ q.tx = s.tx /\ q.buffer = s.buffer
               /\ q.body = s.body /\ q.fb = s.fb
<1> DEFINE link == IF type = "PairVerify" /\ Secured(s) THEN "on" ELSE s.link
           p == [s EXCEPT !.pairing = FALSE, !.link = link]
<1>1. CASE s.terminal
  BY <1>1 DEF DidCompletePairingProcedure
<1>2. CASE ~s.terminal
  <2>1. DidCompletePairingProcedure(s, type) = p
    BY <1>2 DEF DidCompletePairingProcedure
  <2>2. link \in {"off", "on", "due"}
    BY DEF Link
  <2>3. link = IF ~s.terminal /\ type = "PairVerify" /\ Secured(s)
               THEN "on" ELSE s.link
    BY <1>2
  <2> HIDE DEF link
  <2>4. p \in Link
    BY <2>2, ZenonT(60) DEF Link
  <2>5. /\ p.link = link
        /\ p.server = s.server /\ p.connected = s.connected
        /\ p.failed = s.failed /\ p.hap = s.hap /\ p.terminal = s.terminal
        /\ p.att = s.att /\ p.timer = s.timer /\ p.started = s.started
        /\ p.timed = s.timed /\ p.tx = s.tx /\ p.buffer = s.buffer
        /\ p.body = s.body /\ p.fb = s.fb
    BY DEF Link
  <2> QED
    BY <2>1, <2>3, <2>4, <2>5
<1> QED
  BY <1>1, <1>2

\* The security of the session may change while a request of a pairing
\* characteristic is processed: no fallback procedure is left by then.
LEMMA HapChanges ==
    ASSUME NEW s, Good(s), s.fb = NoFallbacks, s.att \in Droppers, ~s.terminal,
           NEW hap \in {"none", "active", "transient", "removed"}
    PROVE  LET q == [s EXCEPT !.hap = hap]
           IN  /\ Sound(q) /\ KeptSecurity(q)
               /\ hap # "active" => Good(q)
               /\ q.hap = hap /\ q.fb = NoFallbacks /\ q.att = s.att
               /\ q.terminal = s.terminal /\ q.failed = s.failed
               /\ q.server = s.server /\ q.connected = s.connected
<1> DEFINE q == [s EXCEPT !.hap = hap]
<1>1. s \in Link
  BY DEF Good, Sound
<1>2. q \in Link
  BY <1>1 DEF Link
<1>3. /\ q.hap = hap /\ q.terminal = s.terminal /\ q.link = s.link /\ q.fb = s.fb
      /\ q.server = s.server /\ q.connected = s.connected
      /\ q.failed = s.failed /\ q.timed = s.timed /\ q.tx = s.tx
      /\ q.buffer = s.buffer /\ q.body = s.body
      /\ q.att = s.att /\ q.timer = s.timer /\ q.started = s.started
  BY <1>1 DEF Link
<1> HIDE DEF q
<1>4. Sound(q) /\ (hap # "active" => Good(q))
  BY <1>2, <1>3 DEF Good, Sound, Timely, Access, Prepared, TerminalUnsecured
<1> QED
  BY <1>3, <1>4, NoFallbacksKept DEF q

LEMMA CompleteKeeps ==
    ASSUME NEW s, Good(s), KeptSecurity(s), NEW type
    PROVE  LET q == DidCompletePairingProcedure(s, type)
           IN  Good(q) /\ KeptSecurity(q)
<1> DEFINE q == DidCompletePairingProcedure(s, type)
<1>1. s \in Link
  BY DEF Good, Sound
<1>2. /\ q \in Link
      /\ q.link = "on" \/ q.link = s.link
      /\ q.server = s.server /\ q.connected = s.connected
      /\ q.failed = s.failed /\ q.hap = s.hap /\ q.terminal = s.terminal
      /\ q.att = s.att /\ q.timer = s.timer /\ q.started = s.started
      /\ q.timed = s.timed /\ q.tx = s.tx /\ q.buffer = s.buffer
      /\ q.body = s.body /\ q.fb = s.fb
  BY <1>1, PairingCompleted
<1> HIDE DEF q
<1> QED
  BY <1>2 DEF q, Good, Sound, Timely, Access, Prepared, TerminalUnsecured, KeptSecurity, Secured

\* Pair Verify activates the session and starts its timer.
LEMMA AcceptKeeps ==
    ASSUME NEW s, Good(s), s.fb = NoFallbacks, s.att \in Droppers, ~s.terminal,
           s.failed = "none", NEW q \in SessionAccept(s)
    PROVE  Good(q) /\ KeptSecurity(q)
<1> DEFINE a == [s EXCEPT !.hap = "active"]
<1>1. PICK r \in SendPendingEventNotifications(a) :
         q = DidCompletePairingProcedure(r, "PairVerify")
  BY DEF SessionAccept
<1>2. /\ Sound(a) /\ a.hap = "active" /\ a.fb = NoFallbacks /\ a.att = s.att
      /\ a.terminal = s.terminal /\ a.failed = s.failed
      /\ a.server = s.server /\ a.connected = s.connected
  BY HapChanges
<1> HIDE DEF a
<1>3. r \in Link /\ SameLink(r, a)
  BY <1>2, PendingSent DEF Sound
<1>4. Sound(r) /\ r.hap = "active" /\ r.fb = NoFallbacks /\ ~r.terminal /\ r.failed = "none"
  BY <1>2, <1>3 DEF Sound, SameLink, Access, Prepared, TerminalUnsecured, Secured
<1>5. r.server # "idle" /\ r.connected
  BY <1>2, <1>3 DEF Good, SameLink
<1>6. /\ q \in Link
      /\ q.link = "on"
      /\ q.server = r.server /\ q.connected = r.connected
      /\ q.failed = r.failed /\ q.hap = r.hap /\ q.terminal = r.terminal
      /\ q.att = r.att /\ q.timer = r.timer /\ q.started = r.started
      /\ q.timed = r.timed /\ q.tx = r.tx /\ q.buffer = r.buffer
      /\ q.body = r.body /\ q.fb = r.fb
  BY <1>1, <1>3, <1>4, PairingCompleted DEF Secured
<1>7. Good(q)
  BY <1>4, <1>5, <1>6 DEF Good, Sound, Timely, Access, Prepared, TerminalUnsecured, Secured
<1> QED
  BY <1>4, <1>6, <1>7, NoFallbacksKept

LEMMA PairingRequestKeeps ==
    ASSUME NEW s, Good(s), s.fb = NoFallbacks, s.att \in Droppers, ~s.terminal,
           s.failed = "none", NEW q \in PairingRequest(s)
    PROVE  Good(q) /\ KeptSecurity(q)
<1>1. s \in Link
  BY DEF Good, Sound
<1>2. KeptSecurity(s)
  BY NoFallbacksKept
<1> DEFINE f == [s EXCEPT !.failed = "VerifyInactive"]
           p == DidStartPairingProcedure(s)
           t == [s EXCEPT !.hap = "transient"]
<1>3. CASE s.hap = "removed"
  <2>1. q = s \/ q = f
    BY <1>3 DEF PairingRequest
  <2>2. f \in Link
    BY <1>1 DEF Link
  <2>3. /\ f.failed = "VerifyInactive"
        /\ f.hap = s.hap /\ f.terminal = s.terminal /\ f.link = s.link /\ f.fb = s.fb
        /\ f.server = s.server /\ f.connected = s.connected
        /\ f.timed = s.timed /\ f.tx = s.tx
        /\ f.buffer = s.buffer /\ f.body = s.body
        /\ f.att = s.att /\ f.timer = s.timer /\ f.started = s.started
    BY <1>1 DEF Link
  <2> HIDE DEF f
  <2>4. Good(f) /\ KeptSecurity(f)
    BY <1>3, <2>2, <2>3, NoFallbacksKept
       DEF Good, Sound, Timely, Access, Prepared, TerminalUnsecured, Secured
  <2> QED
    BY <1>2, <2>1, <2>4
<1>4. CASE s.hap # "removed"
  <2>1. p \in Link /\ SameLink(p, s)
    BY <1>1, PairingStarted
  <2>2. Good(p) /\ KeptSecurity(p)
    BY <1>2, <2>1, SameIsGood
  <2>3. /\ p.fb = NoFallbacks /\ p.att \in Droppers /\ ~p.terminal
        /\ p.failed = "none"
    BY <2>1 DEF SameLink
  <2>4. \/ q = s \/ q = p
        \/ q = DidCompletePairingProcedure(s, "PairSetup")
        \/ q \in SessionAccept(p)
        \/ q = DidCompletePairingProcedure(t, "PairSetup")
    BY <1>4 DEF PairingRequest
  <2>5. Good(t) /\ KeptSecurity(t)
    BY HapChanges
  <2> HIDE DEF p, t
  <2>6. Good(DidCompletePairingProcedure(s, "PairSetup")) /\ KeptSecurity(DidCompletePairingProcedure(s, "PairSetup"))
    BY <1>2, CompleteKeeps
  <2>7. Good(DidCompletePairingProcedure(t, "PairSetup")) /\ KeptSecurity(DidCompletePairingProcedure(t, "PairSetup"))
    BY <2>5, CompleteKeeps
  <2>8. q \in SessionAccept(p) => Good(q) /\ KeptSecurity(q)
    BY <2>2, <2>3, AcceptKeeps
  <2> QED
    BY <1>2, <2>2, <2>4, <2>6, <2>7, <2>8
<1> QED
  BY <1>3, <1>4

LEMMA PairingsRequestKeeps ==
    ASSUME NEW s, Good(s), KeptSecurity(s), NEW q \in PairingsRequest(s)
    PROVE  Good(q) /\ KeptSecurity(q)
<1> DEFINE r == [s EXCEPT !.hap = "removed"]
<1>1. s \in Link
  BY DEF Good, Sound
<1>2. q = s \/ (s.hap = "active" /\ q = r)
  BY DEF PairingsRequest
<1>3. r \in Link
  BY <1>1 DEF Link
<1>4. /\ r.hap = "removed" /\ r.terminal = s.terminal /\ r.failed = s.failed
      /\ r.server = s.server /\ r.connected = s.connected
      /\ r.timed = s.timed /\ r.tx = s.tx
      /\ r.buffer = s.buffer /\ r.body = s.body
  BY <1>1 DEF Link
<1> HIDE DEF r
<1>5. s.hap = "active" => Good(r) /\ KeptSecurity(r)
  BY <1>3, <1>4
     DEF Good, Sound, Timely, Access, Prepared, TerminalUnsecured, KeptSecurity, Secured
<1> QED
  BY <1>2, <1>5

LEMMA ServeKeeps ==
    ASSUME NEW s, Good(s), KeptSecurity(s), ~s.terminal, s.failed = "none",
           s.att \in Droppers => s.fb = NoFallbacks,
           NEW q \in ServeRequest(s)
    PROVE  Good(q) /\ KeptSecurity(q)
<1>1. CASE s.att \in Droppers
  <2>1. ServeRequest(s) = PairingRequest(s)
    BY <1>1, LinkAssumption DEF ServeRequest
  <2> QED
    BY <1>1, <2>1, PairingRequestKeeps
<1>2. CASE s.att \notin Droppers /\ s.att = PairingsChar
  BY <1>2, PairingsRequestKeeps DEF ServeRequest
<1>3. CASE s.att \notin Droppers /\ s.att # PairingsChar
  BY <1>3 DEF ServeRequest
<1> QED
  BY <1>1, <1>2, <1>3


LEMMA ResponseSet ==
    ASSUME NEW s, s \in Link, NEW q \in SetResponse(s)
    PROVE  /\ q \in Link
           /\ q.tx = "ready"
           /\ q.server = s.server /\ q.connected = s.connected
           /\ q.failed = s.failed /\ q.hap = s.hap /\ q.terminal = s.terminal
           /\ q.link = s.link /\ q.att = s.att /\ q.timer = s.timer
           /\ q.started = s.started /\ q.timed = s.timed
           /\ q.buffer = s.buffer /\ q.body = s.body /\ q.fb = s.fb
<1>1. PICK n \in 0..MaxLeft : q = [s EXCEPT !.tx = "ready", !.left = n]
  BY DEF SetResponse
<1>2. q \in Link
  BY <1>1, ZenonT(60) DEF Link
<1>3. /\ q.tx = "ready"
      /\ q.server = s.server /\ q.connected = s.connected
      /\ q.failed = s.failed /\ q.hap = s.hap /\ q.terminal = s.terminal
      /\ q.link = s.link /\ q.att = s.att /\ q.timer = s.timer
      /\ q.started = s.started /\ q.timed = s.timed
      /\ q.buffer = s.buffer /\ q.body = s.body /\ q.fb = s.fb
  BY <1>1 DEF Link
<1> QED
  BY <1>2, <1>3

\* A transaction with a response is past its body, whatever its buffer.
LEMMA ResponseKeeps ==
    ASSUME NEW s, Good(s), KeptSecurity(s), NEW timed \in BOOLEAN,
           NEW body \in {"other", "prepared"}, timed => body = "prepared",
           NEW q \in SetResponse([s EXCEPT !.timed = timed, !.body = body])
    PROVE  Good(q) /\ KeptSecurity(q)
<1> DEFINE r == [s EXCEPT !.timed = timed, !.body = body]
<1>1. s \in Link
  BY DEF Good, Sound
<1>2. r \in Link
  BY <1>1, ZenonT(60) DEF Link
<1>3. /\ r.timed = timed /\ r.body = body
      /\ r.server = s.server /\ r.connected = s.connected
      /\ r.failed = s.failed /\ r.hap = s.hap /\ r.terminal = s.terminal
      /\ r.link = s.link /\ r.att = s.att /\ r.timer = s.timer
      /\ r.started = s.started /\ r.fb = s.fb
  BY <1>1 DEF Link
<1> HIDE DEF r
<1>4. /\ q \in Link
      /\ q.tx = "ready"
      /\ q.server = r.server /\ q.connected = r.connected
      /\ q.failed = r.failed /\ q.hap = r.hap /\ q.terminal = r.terminal
      /\ q.link = r.link /\ q.att = r.att /\ q.timer = r.timer
      /\ q.started = r.started /\ q.timed = r.timed
      /\ q.buffer = r.buffer /\ q.body = r.body /\ q.fb = r.fb
  BY <1>2, ResponseSet DEF r
<1> QED
  BY <1>3, <1>4
     DEF Good, Sound, Timely, Access, Prepared, TerminalUnsecured, KeptSecurity, Secured

LEMMA RefusalKeeps ==
    ASSUME NEW s, Good(s), KeptSecurity(s), NEW q \in SetResponse(s)
    PROVE  Good(q) /\ KeptSecurity(q)
<1>1. s \in Link
  BY DEF Good, Sound
<1>2. /\ q \in Link
      /\ q.tx = "ready"
      /\ q.server = s.server /\ q.connected = s.connected
      /\ q.failed = s.failed /\ q.hap = s.hap /\ q.terminal = s.terminal
      /\ q.link = s.link /\ q.att = s.att /\ q.timer = s.timer
      /\ q.started = s.started /\ q.timed = s.timed
      /\ q.buffer = s.buffer /\ q.body = s.body /\ q.fb = s.fb
  BY <1>1, ResponseSet
<1> QED
  BY <1>2 DEF Good, Sound, Timely, Access, Prepared, TerminalUnsecured, KeptSecurity, Secured

LEMMA ProcessKeeps ==
    ASSUME NEW s, Good(s), KeptSecurity(s), ~s.terminal, s.failed = "none",
           s.att \in Droppers => s.fb = NoFallbacks,
           NEW q \in ProcessTransaction(s)
    PROVE  Good(q) /\ KeptSecurity(q)
<1> DEFINE timed == [s EXCEPT !.timed = TRUE, !.body = "prepared"]
           Timed == UNION {SetResponse(r) : r \in
                        {s} \cup (IF s.hap = "transient" THEN {} ELSE {timed})}
           Served == UNION {SetResponse([r EXCEPT !.timed = FALSE, !.body = "other"]) :
                        r \in ServeRequest(s)}
<1>1. CASE q \in SetResponse(s)
  BY <1>1, RefusalKeeps
<1>2. CASE q \in Timed
  <2>1. q \in SetResponse(s) \/ q \in SetResponse(timed)
    BY <1>2
  <2>2. q \in SetResponse(timed) => Good(q) /\ KeptSecurity(q)
    BY ResponseKeeps
  <2> QED
    BY <1>1, <2>1, <2>2
<1>3. CASE q \in Served
  <2>1. PICK r \in ServeRequest(s) :
           q \in SetResponse([r EXCEPT !.timed = FALSE, !.body = "other"])
    BY <1>3
  <2>2. Good(r) /\ KeptSecurity(r)
    BY ServeKeeps
  <2> QED
    BY <2>1, <2>2, ResponseKeeps
<1>4. q \in SetResponse(s) \/ q \in Timed \/ q \in Served
  <2>1. ProcessTransaction(s) = SetResponse(s) \cup
           CASE s.timed /\ s.op # "execute" -> {}
             [] ~s.timed /\ s.op = "execute" -> {}
             [] s.op = "timed" -> Timed
             [] OTHER -> Served
    BY DEF ProcessTransaction
  <2> HIDE DEF Timed, Served
  <2> QED
    BY <2>1
<1> QED
  BY <1>1, <1>2, <1>3, <1>4

-----------------------------------------------------------------------------
(***************************************************************************)
(* A read of the characteristic the procedure is attached to.              *)
(***************************************************************************)

\* The transaction that follows that of a Timed Write has no buffer.
LEMMA CompleteTransactionKeeps ==
    ASSUME NEW s, Good(s)
    PROVE  LET q == CompleteTransaction(s)
           IN  Good(q) /\ (KeptSecurity(s) => KeptSecurity(q))
<1> DEFINE c(v) == TransactionCreate(s, v)
           t == [c(TRUE) EXCEPT !.timer = FALSE]
<1>0. 0 \in 0..MaxLeft
  BY LinkAssumption
<1>1. s \in Link
  BY DEF Good, Sound
<1>2. ASSUME NEW v \in BOOLEAN
      PROVE  /\ c(v) \in Link
             /\ c(v).tx = "start" /\ c(v).buffer = v
             /\ c(v).server = s.server /\ c(v).connected = s.connected
             /\ c(v).failed = s.failed /\ c(v).hap = s.hap
             /\ c(v).terminal = s.terminal /\ c(v).link = s.link
             /\ c(v).att = s.att /\ c(v).timer = s.timer
             /\ c(v).started = s.started /\ c(v).timed = s.timed
             /\ c(v).body = s.body /\ c(v).fb = s.fb
  <2>1. c(v) \in Link
    BY <1>0, <1>1, ZenonT(60) DEF TransactionCreate, Link
  <2>2. /\ c(v).tx = "start" /\ c(v).buffer = v
        /\ c(v).server = s.server /\ c(v).connected = s.connected
        /\ c(v).failed = s.failed /\ c(v).hap = s.hap
        /\ c(v).terminal = s.terminal /\ c(v).link = s.link
        /\ c(v).att = s.att /\ c(v).timer = s.timer
        /\ c(v).started = s.started /\ c(v).timed = s.timed
        /\ c(v).body = s.body /\ c(v).fb = s.fb
    BY <1>1 DEF TransactionCreate, Link
  <2> QED
    BY <2>1, <2>2
<1> HIDE DEF c
<1>3. CASE s.timed
  <2>1. CompleteTransaction(s) = c(FALSE)
    BY <1>3 DEF CompleteTransaction, c
  <2> QED
    BY <1>2, <2>1, ZenonT(60)
       DEF Good, Sound, Timely, Access, Prepared, TerminalUnsecured, KeptSecurity, Secured
<1>4. CASE ~s.timed
  <2>1. CompleteTransaction(s) = t
    BY <1>4 DEF CompleteTransaction, c
  <2>2. t \in Link
    BY <1>2, ZenonT(60) DEF Link
  <2>3. /\ t.timer = FALSE /\ t.buffer = c(TRUE).buffer
        /\ t.server = c(TRUE).server /\ t.connected = c(TRUE).connected
        /\ t.failed = c(TRUE).failed /\ t.hap = c(TRUE).hap
        /\ t.terminal = c(TRUE).terminal /\ t.link = c(TRUE).link
        /\ t.timed = c(TRUE).timed /\ t.fb = c(TRUE).fb
    BY <1>2 DEF Link
  <2> HIDE DEF t
  <2> QED
    BY <1>2, <1>4, <2>1, <2>2, <2>3, ZenonT(60)
       DEF Good, Sound, Timely, Access, Prepared, TerminalUnsecured, KeptSecurity, Secured
<1> QED
  BY <1>3, <1>4

LEMMA SendKeeps ==
    ASSUME NEW s, Good(s), KeptSecurity(s), s.tx \in {"ready", "response"},
           NEW q \in SendFragment(s)
    PROVE  Good(q) /\ KeptSecurity(q)
<1> DEFINE r == [s EXCEPT !.tx = "response", !.left = @ - 1]
           p == IF s.left = 0 THEN CompleteTransaction(s) ELSE r
           sent == DidSendGATTResponse(p)
<1>1. s \in Link
  BY DEF Good, Sound
<1>2. CASE s.started /\ s.hap = "none"
  BY <1>2, Terminated DEF SendFragment
<1>3. CASE ~(s.started /\ s.hap = "none")
  <2>1. ASSUME s.left # 0 PROVE Good(r) /\ KeptSecurity(r)
    <3>1. s.left - 1 \in 0..MaxLeft
      BY <1>1, <2>1, LinkAssumption DEF Link
    <3>2. r \in Link
      BY <1>1, <3>1, ZenonT(60) DEF Link
    <3>3. /\ r.tx = "response"
          /\ r.server = s.server /\ r.connected = s.connected
          /\ r.failed = s.failed /\ r.hap = s.hap /\ r.terminal = s.terminal
          /\ r.link = s.link /\ r.att = s.att /\ r.timer = s.timer
          /\ r.started = s.started /\ r.timed = s.timed
          /\ r.buffer = s.buffer /\ r.body = s.body /\ r.fb = s.fb
      BY <1>1 DEF Link
    <3> HIDE DEF r
    <3> QED
      BY <3>2, <3>3
         DEF Good, Sound, Timely, Access, Prepared, TerminalUnsecured, KeptSecurity, Secured
  <2>2. Good(p) /\ KeptSecurity(p)
    BY <2>1, CompleteTransactionKeeps
  <2>3. q = IF ~sent.timer /\ sent.started /\ ~Secured(sent)
            THEN Terminate(sent) ELSE sent
    BY <1>3 DEF SendFragment
  <2> HIDE DEF p
  <2>4. p \in Link
    BY <2>2 DEF Good, Sound
  <2>5. Good(sent) /\ KeptSecurity(sent)
    BY <2>2, <2>4, ResponseSent, SameIsGood
  <2> HIDE DEF sent
  <2> QED
    BY <2>3, <2>5, Terminated
<1> QED
  BY <1>2, <1>3

LEMMA ReadKeeps ==
    ASSUME NEW s, Good(s), KeptSecurity(s), ~s.terminal, s.failed = "none",
           s.att \in Droppers => s.fb = NoFallbacks,
           NEW q \in ProcedureHandleGATTRead(s)
    PROVE  Good(q) /\ KeptSecurity(q)
<1> DEFINE processed == IF s.tx = "request" /\ s.left = 0
                        THEN ProcessTransaction(s) ELSE {s}
<1>1. CASE q = Terminate(s)
  BY <1>1, Terminated
<1>2. CASE q # Terminate(s)
  <2>1. PICK p \in {r \in processed : r.tx \in {"ready", "response"}} :
           q \in IF p.failed # "none" THEN {p} ELSE SendFragment(p)
    BY <1>2 DEF ProcedureHandleGATTRead
  <2>2. Good(p) /\ KeptSecurity(p)
    BY ProcessKeeps
  <2> QED
    BY <2>1, <2>2, SendKeeps
<1> QED
  BY <1>1, <1>2


-----------------------------------------------------------------------------
(***************************************************************************)
(* Attribute requests.                                                     *)
(***************************************************************************)

\* An access to a pairing characteristic finds no fallback procedure.
LEMMA AccessedKeeps ==
    ASSUME NEW s, Good(s), KeptSecurity(s), NEW c \in Chars
    PROVE  LET t == Accessed(s, c)
           IN  /\ Good(t) /\ KeptSecurity(t)
               /\ c \in Droppers => t.fb = NoFallbacks
               /\ t.terminal = s.terminal /\ t.failed = s.failed /\ t.att = s.att
<1> DEFINE t == AbortAllFallbackProcedures(s)
<1>1. s \in Link
  BY DEF Good, Sound
<1>2. t \in Link
  BY <1>1, NoFallbacksType DEF AbortAllFallbackProcedures, Link
<1>3. /\ t.fb = NoFallbacks
      /\ t.server = s.server /\ t.connected = s.connected
      /\ t.failed = s.failed /\ t.hap = s.hap /\ t.terminal = s.terminal
      /\ t.link = s.link /\ t.att = s.att /\ t.timer = s.timer
      /\ t.started = s.started /\ t.timed = s.timed
      /\ t.tx = s.tx /\ t.buffer = s.buffer /\ t.body = s.body
  BY <1>1 DEF AbortAllFallbackProcedures, Link
<1>4. Accessed(s, c) = IF c \in Droppers THEN t ELSE s
  BY DEF Accessed
<1> HIDE DEF t
<1>5. Good(t) /\ KeptSecurity(t)
  BY <1>2, <1>3, NoFallbacksKept
     DEF Good, Sound, Timely, Access, Prepared, TerminalUnsecured, Secured
<1> QED
  BY <1>3, <1>4, <1>5

LEMMA FallbackSet ==
    ASSUME NEW s, Good(s), KeptSecurity(s), NEW c \in Chars \ Droppers, NEW v \in Fallbacks,
           v.on => v.sec = Secured(s) \/ (s.fb[c].on /\ v.sec = s.fb[c].sec)
    PROVE  LET q == [s EXCEPT !.fb[c] = v]
           IN  /\ Good(q) /\ KeptSecurity(q)
               /\ q.failed = s.failed /\ q.hap = s.hap
<1> DEFINE fb == [s.fb EXCEPT ![c] = v]
           q == [s EXCEPT !.fb = fb]
<1>1. s \in Link
  BY DEF Good, Sound
<1>2. fb \in [Chars \ Droppers -> Fallbacks] /\ \A d \in Chars \ Droppers : fb[d] = IF d = c THEN v ELSE s.fb[d]
  BY <1>1 DEF Link
<1>3. [s EXCEPT !.fb[c] = v] = q
  OBVIOUS
<1> HIDE DEF fb
<1>4. q \in Link
  BY <1>1, <1>2 DEF Link
<1>5. /\ q.fb = fb
      /\ q.server = s.server /\ q.connected = s.connected
      /\ q.failed = s.failed /\ q.hap = s.hap /\ q.terminal = s.terminal
      /\ q.link = s.link /\ q.att = s.att /\ q.timer = s.timer
      /\ q.started = s.started /\ q.timed = s.timed
      /\ q.tx = s.tx /\ q.buffer = s.buffer /\ q.body = s.body
  BY <1>1 DEF Link
<1> HIDE DEF q
<1>6. Good(q)
  BY <1>4, <1>5 DEF Good, Sound, Timely, Access, Prepared, TerminalUnsecured, Secured
<1>7. Secured(q) = Secured(s)
  BY <1>5 DEF Secured
<1>8. KeptSecurity(q)
  BY <1>2, <1>5, <1>7 DEF KeptSecurity
<1> QED
  BY <1>3, <1>5, <1>6, <1>8

LEMMA FallbackWriteKeeps ==
    ASSUME NEW s, Good(s), KeptSecurity(s), NEW c \in Chars \ Droppers, NEW isNew \in BOOLEAN,
           NEW q \in FallbackWrite(s, c, isNew)
    PROVE  Good(q) /\ KeptSecurity(q)
<1> DEFINE new(n) == [on |-> TRUE, left |-> n, sec |-> Secured(s)]
           left == s.fb[c].left - 1
           less == [s EXCEPT !.fb[c].left = @ - 1]
           next == IF isNew THEN {[s EXCEPT !.fb[c] = new(n)] : n \in 0..MaxLeft}
                   ELSE IF s.fb[c].left > 0 THEN {less} ELSE {s}
<1>1. s \in Link
  BY DEF Good, Sound
<1>2. s.fb[c] \in Fallbacks
  BY <1>1 DEF Link
<1>3. ASSUME NEW n \in 0..MaxLeft
      PROVE  Good([s EXCEPT !.fb[c] = new(n)]) /\ KeptSecurity([s EXCEPT !.fb[c] = new(n)])
  <2>1. Secured(s) \in BOOLEAN
    BY DEF Secured
  <2>2. new(n) \in Fallbacks /\ new(n).sec = Secured(s)
    BY <2>1 DEF Fallbacks
  <2> HIDE DEF new
  <2> QED
    BY <2>2, FallbackSet
<1>4. ASSUME s.fb[c].left > 0 PROVE Good(less) /\ KeptSecurity(less)
  <2> DEFINE v == [s.fb[c] EXCEPT !.left = left]
  <2>1. left \in 0..MaxLeft
    BY <1>2, <1>4, LinkAssumption DEF Fallbacks
  <2>2. v \in Fallbacks /\ v.on = s.fb[c].on /\ v.sec = s.fb[c].sec
    BY <1>2, <2>1 DEF Fallbacks
  <2>3. less = [s EXCEPT !.fb[c] = v]
    OBVIOUS
  <2> HIDE DEF v, less
  <2> QED
    BY <2>2, <2>3, FallbackSet
<1>5. ASSUME NEW r \in next PROVE Good(r) /\ KeptSecurity(r)
  BY <1>3, <1>4, <1>5
<1>6. q = Terminate(s) \/ \E r \in next : q = DidSendGATTResponse(r)
  BY DEF FallbackWrite, FirstFallback, NextFallback
<1> HIDE DEF next
<1>7. ASSUME NEW r \in next, q = DidSendGATTResponse(r)
      PROVE  Good(q) /\ KeptSecurity(q)
  BY <1>5, <1>7, ResponseSent, SameIsGood DEF Good, Sound
<1> QED
  BY <1>6, <1>7, Terminated

LEMMA NewFallbackKeeps ==
    ASSUME NEW s, Good(s), KeptSecurity(s), NEW c \in Chars \ Droppers,
           NEW q \in NewFallback(s, c)
    PROVE  Good(q) /\ KeptSecurity(q)
<1> DEFINE new == [on |-> TRUE, left |-> 0, sec |-> Secured(s)]
           f == [s EXCEPT !.fb[c] = new]
           p == DidStartBLEProcedure(f)
<1>1. Secured(s) \in BOOLEAN
  BY DEF Secured
<1>2. new \in Fallbacks /\ new.sec = Secured(s)
  BY <1>1, LinkAssumption DEF Fallbacks
<1>3. q \in FallbackWrite(p, c, TRUE)
  BY DEF NewFallback
<1> HIDE DEF new
<1>4. Good(f) /\ KeptSecurity(f)
  BY <1>2, FallbackSet
<1> HIDE DEF f
<1>5. Good(p) /\ KeptSecurity(p)
  BY <1>4, ProcedureStarted
<1> HIDE DEF p
<1> QED
  BY <1>3, <1>5, FallbackWriteKeeps

LEMMA CancelledEnds ==
    ASSUME NEW s, Good(s)
    PROVE  Good(Terminate(Cancel(s))) /\ KeptSecurity(Terminate(Cancel(s)))
<1>1. Good(Cancel(s))
  BY CancelKeeps, SameIsGood DEF Good, Sound
<1> QED
  BY <1>1, Terminated

LEMMA HandleWriteKeeps ==
    ASSUME NEW s, Good(s), KeptSecurity(s), NEW c \in Chars,
           NEW q \in HandleWrite(s, c)
    PROVE  Good(q) /\ KeptSecurity(q)
<1> DEFINE t == Accessed(s, c)
           a == ProcedureAttach(t, c)
<1>1. Good(t) /\ KeptSecurity(t) /\ (c \in Droppers => t.fb = NoFallbacks)
  BY AccessedKeeps
<1>2. t \in Link
  BY <1>1 DEF Good, Sound
<1>3. \/ q = Terminate(Cancel(s))
      \/ HasFallback(t, c) /\ q \in FallbackWrite(t, c, FALSE)
      \/ t.att = c /\ q \in ProcedureHandleGATTWrite(t, c)
      \/ c \notin Droppers /\ q \in NewFallback(t, c)
      \/ q \in ProcedureHandleGATTWrite(a, c)
  BY DEF HandleWrite
<1> HIDE DEF t
<1>4. CASE q = Terminate(Cancel(s))
  BY <1>4, CancelledEnds
<1>5. CASE HasFallback(t, c) /\ q \in FallbackWrite(t, c, FALSE)
  BY <1>1, <1>5, FallbackWriteKeeps DEF HasFallback
<1>6. CASE t.att = c /\ q \in ProcedureHandleGATTWrite(t, c)
  BY <1>1, <1>6, WriteKeeps
<1>7. CASE c \notin Droppers /\ q \in NewFallback(t, c)
  BY <1>1, <1>7, NewFallbackKeeps
<1>8. CASE q \in ProcedureHandleGATTWrite(a, c)
  <2>1. Good(a) /\ KeptSecurity(a)
    BY <1>1, AttachKeeps
  <2>2. a.att = c /\ a.fb = t.fb
    BY <1>2, Attached
  <2> HIDE DEF a
  <2> QED
    BY <1>1, <1>8, <2>1, <2>2, WriteKeeps
<1> QED
  BY <1>3, <1>4, <1>5, <1>6, <1>7, <1>8

LEMMA FallbackReadKeeps ==
    ASSUME NEW s, Good(s), KeptSecurity(s), NEW c \in Chars \ Droppers,
           NEW q \in FallbackRead(s, c)
    PROVE  Good(q) /\ KeptSecurity(q)
<1> DEFINE f == [s EXCEPT !.fb[c] = NoFallback]
<1>1. q = Terminate(s) \/ q = DidSendGATTResponse(f)
  BY DEF FallbackRead
<1>2. NoFallback \in Fallbacks /\ ~NoFallback.on
  BY LinkAssumption DEF NoFallback, Fallbacks
<1>3. Good(f) /\ KeptSecurity(f)
  BY <1>2, FallbackSet
<1> HIDE DEF f
<1>4. Good(DidSendGATTResponse(f)) /\ KeptSecurity(DidSendGATTResponse(f))
  BY <1>3, ResponseSent, SameIsGood DEF Good, Sound
<1> QED
  BY <1>1, <1>4, Terminated

LEMMA HandleReadKeeps ==
    ASSUME NEW s, Good(s), KeptSecurity(s), s.failed = "none", NEW c \in Chars,
           NEW q \in HandleRead(s, c)
    PROVE  Good(q) /\ KeptSecurity(q)
<1> DEFINE t == Accessed(s, c)
<1>1. /\ Good(t) /\ KeptSecurity(t) /\ (c \in Droppers => t.fb = NoFallbacks)
      /\ t.terminal = s.terminal /\ t.failed = "none"
  BY AccessedKeeps
<1>2. \/ q = Terminate(Cancel(s))
      \/ HasFallback(t, c) /\ q \in FallbackRead(t, c)
      \/ ~s.terminal /\ t.att = c /\ q \in ProcedureHandleGATTRead(t)
      \/ q = Terminate(t)
  BY DEF HandleRead
<1> HIDE DEF t
<1>3. CASE q = Terminate(Cancel(s))
  BY <1>3, CancelledEnds
<1>4. CASE HasFallback(t, c) /\ q \in FallbackRead(t, c)
  BY <1>1, <1>4, FallbackReadKeeps DEF HasFallback
<1>5. CASE ~s.terminal /\ t.att = c /\ q \in ProcedureHandleGATTRead(t)
  BY <1>1, <1>5, ReadKeeps
<1>6. CASE q = Terminate(t)
  BY <1>1, <1>6, Terminated
<1> QED
  BY <1>2, <1>3, <1>4, <1>5, <1>6


-----------------------------------------------------------------------------
(***************************************************************************)
(* The invariant.                                                          *)
(***************************************************************************)

LEMMA Initially == Init => IInv
BY IdleType DEF Init, IInv, Sound, Timely, Access, Prepared, TerminalUnsecured, KeptSecurity,
                NotStuck, Secured, Idle, NoFallbacks, NoFallback

LEMMA GoodWhenUp ==
    ASSUME IInv, Up PROVE Good(b) /\ b \in Link
BY DEF IInv, Up, Good, Sound

\* A handler called while the central is connected leaves a good state.
LEMMA GoodSuffices ==
    ASSUME Good(b'), KeptSecurity(b'), NotStuck(b') PROVE IInv'
BY DEF IInv, Good

LEMMA UnsecuredSuffices ==
    ASSUME Good(b'), KeptSecurity(b'), b'.hap = "none" PROVE IInv'
BY DEF IInv, Good, NotStuck

LEMMA ConnectedKeeps == ASSUME IInv, HandleConnectedCentral PROVE IInv'
<1> DEFINE a == AbortAllFallbackProcedures(b)
           r == [ResetEventState(a) EXCEPT !.connected = TRUE]
<1>1. b \in Link
  BY DEF IInv, Sound
<1>2. a \in Link
  BY <1>1, NoFallbacksType DEF AbortAllFallbackProcedures, Link
<1>3. a.fb = NoFallbacks /\ a.server = b.server /\ a.timed = b.timed /\ a.timer = b.timer
  BY <1>1 DEF AbortAllFallbackProcedures, Link
<1>4. b' = SessionCreate(r)
  BY DEF HandleConnectedCentral
<1>5. b.server = "running" /\ ~b.timed
  BY DEF HandleConnectedCentral, IInv
<1> HIDE DEF a
<1>6. r \in Link
  BY <1>2, ZenonT(60) DEF ResetEventState, Link
<1>7. r.fb = a.fb /\ r.server = a.server /\ r.timed = a.timed /\ r.connected = TRUE
  BY <1>2 DEF ResetEventState, Link
<1> HIDE DEF r
<1>8. b' \in Link
  BY <1>4, <1>6, ZenonT(60) DEF SessionCreate, Link
<1>9. /\ b'.fb = NoFallbacks /\ b'.server = a.server /\ b'.timed = a.timed
      /\ b'.hap = "none" /\ b'.terminal = FALSE /\ b'.connected = TRUE
  BY <1>3, <1>4, <1>6, <1>7 DEF SessionCreate, Link
<1> QED
  BY <1>3, <1>5, <1>8, <1>9, NoFallbacksKept
     DEF IInv, Sound, Timely, Access, Prepared, TerminalUnsecured, NotStuck, Secured

LEMMA DisconnectedKeeps == ASSUME IInv, HandleDisconnectedCentral PROVE IInv'
<1> DEFINE server == IF b.server = "running" THEN "running" ELSE "idle"
           d == [Idle EXCEPT !.server = server, !.body = b.body]
<1>1. b \in Link
  BY DEF IInv, Sound
<1>2. server \in {"running", "stopping", "idle"} /\ b.body \in {"other", "prepared"}
  BY <1>1 DEF Link
<1>3. b' = d
  BY DEF HandleDisconnectedCentral
<1> HIDE DEF server
<1>4. d \in Link
  BY <1>2, IdleType, ZenonT(60) DEF Link
<1>5. /\ d.fb = Idle.fb /\ d.timed = Idle.timed /\ d.hap = Idle.hap
      /\ d.terminal = Idle.terminal /\ d.connected = Idle.connected
  BY IdleType DEF Link
<1>6. /\ Idle.fb = NoFallbacks /\ ~Idle.timed /\ Idle.hap = "none"
      /\ ~Idle.terminal /\ ~Idle.connected
  BY DEF Idle
<1> HIDE DEF d
<1> QED
  BY <1>3, <1>4, <1>5, <1>6, NoFallbacksKept
     DEF IInv, Sound, Timely, Access, Prepared, TerminalUnsecured, NotStuck, Secured

LEMMA RequestsKeep ==
    ASSUME IInv, NEW c \in Chars, HandleReadRequest(c) \/ HandleWriteRequest(c)
    PROVE  IInv'
<1>1. Up
  BY DEF HandleReadRequest, HandleWriteRequest
<1>2. Good(b) /\ KeptSecurity(b) /\ b.failed = "none"
  BY <1>1, GoodWhenUp DEF Up, IInv
<1>3. ASSUME HandleReadRequest(c) PROVE Good(b') /\ KeptSecurity(b') /\ NotStuck(b')
  <2>1. \A s \in HandleRead(b, c) : Good(s) /\ KeptSecurity(s)
    BY <1>2, HandleReadKeeps
  <2>2. b' \in ThenSendPending(HandleRead(b, c))
    BY <1>3 DEF HandleReadRequest
  <2> QED
    BY <2>1, <2>2, EventsSent
<1>4. ASSUME HandleWriteRequest(c) PROVE Good(b') /\ KeptSecurity(b') /\ NotStuck(b')
  <2>1. \A s \in HandleWrite(b, c) : Good(s) /\ KeptSecurity(s)
    BY <1>2, HandleWriteKeeps
  <2>2. b' \in ThenSendPending(HandleWrite(b, c))
    BY <1>4 DEF HandleWriteRequest
  <2> QED
    BY <2>1, <2>2, EventsSent
<1> QED
  BY <1>3, <1>4, GoodSuffices

LEMMA EventsKeep ==
    ASSUME IInv,
           \/ \E c \in Events, on \in BOOLEAN : WriteClientConfiguration(c, on)
           \/ HandleReadyToUpdateSubscribers
           \/ \E c \in Events : RaiseEvent(c)
    PROVE  IInv'
<1>1. Up
  BY DEF WriteClientConfiguration, HandleReadyToUpdateSubscribers, RaiseEvent
<1>2. Good(b) /\ b \in Link /\ KeptSecurity(b) /\ NotStuck(b)
  BY <1>1, GoodWhenUp DEF IInv
<1>3. ASSUME NEW s \in Link, SameLink(s, b), b' \in SendPendingEventNotifications(s)
      PROVE  IInv'
  <2>1. Good(s) /\ KeptSecurity(s)
    BY <1>2, <1>3, SameIsGood
  <2>2. b' \in Link /\ SameLink(b', s) /\ NotStuck(b')
    BY <1>3, PendingSent
  <2>3. Good(b') /\ KeptSecurity(b')
    BY <2>1, <2>2, SameIsGood
  <2> QED
    BY <2>2, <2>3, GoodSuffices
<1>4. ASSUME NEW c \in Events, NEW on \in BOOLEAN, WriteClientConfiguration(c, on)
      PROVE  IInv'
  <2>1. b' \in SetNotificationsEnabled(b, c, on)
    BY <1>4 DEF WriteClientConfiguration
  <2>2. b' \in Link /\ SameLink(b', b) /\ NotStuck(b')
    BY <1>2, <2>1, NotificationsEnabled
  <2>3. Good(b') /\ KeptSecurity(b')
    BY <1>2, <2>2, SameIsGood
  <2> QED
    BY <2>2, <2>3, GoodSuffices
<1>5. ASSUME HandleReadyToUpdateSubscribers PROVE IInv'
  <2> DEFINE s == [b EXCEPT !.busy = FALSE]
  <2>1. s \in Link /\ SameLink(s, b)
    BY <1>2, ZenonT(60) DEF Link, SameLink
  <2>2. b' \in SendPendingEventNotifications(s)
    BY <1>5 DEF HandleReadyToUpdateSubscribers
  <2> HIDE DEF s
  <2> QED
    BY <1>3, <2>1, <2>2
<1>6. ASSUME NEW c \in Events, RaiseEvent(c) PROVE IInv'
  <2> DEFINE pending == b.pending \cup {c}
             s == [b EXCEPT !.pending = pending]
  <2>1. pending \in SUBSET Events
    BY <1>2 DEF Link
  <2>2. b' \in SendPendingEventNotifications(s)
    BY <1>6 DEF RaiseEvent
  <2> HIDE DEF pending
  <2>3. s \in Link /\ SameLink(s, b)
    BY <1>2, <2>1 DEF Link, SameLink
  <2> HIDE DEF s
  <2> QED
    BY <1>3, <2>2, <2>3
<1> QED
  BY <1>4, <1>5, <1>6

LEMMA ServerKeeps == ASSUME IInv, Stop \/ Start PROVE IInv'
<1> DEFINE Rest(q) == /\ q.hap = b.hap /\ q.terminal = b.terminal /\ q.link = b.link
                      /\ q.att = b.att /\ q.timer = b.timer
                      /\ q.started = b.started /\ q.timed = b.timed
                      /\ q.tx = b.tx /\ q.buffer = b.buffer /\ q.fb = b.fb
                      /\ q.subs = b.subs /\ q.pending = b.pending /\ q.busy = b.busy
                      /\ q.connected = b.connected /\ q.failed = b.failed
<1>1. b \in Link
  BY DEF IInv, Sound
<1>2. ASSUME b' \in Link, Rest(b'), b'.body = b.body \/ ~b.timed,
             b'.server = "idle" => ~b.connected
      PROVE  IInv'
  BY <1>2 DEF IInv, Sound, Timely, Access, Prepared, TerminalUnsecured, KeptSecurity, NotStuck, Secured
<1>3. ASSUME Stop PROVE IInv'
  <2> DEFINE s == [b EXCEPT !.server = "stopping"]
             i == [s EXCEPT !.server = "idle"]
             c == [s EXCEPT !.cancelled = TRUE]
  <2>1. s \in Link /\ Rest(s) /\ s.body = b.body /\ s.server = "stopping"
    <3>1. s \in Link
      BY <1>1 DEF Link
    <3> QED
      BY <1>1, <3>1 DEF Link
  <2>2. b' = IF ~s.connected THEN i ELSE IF s.safe THEN c ELSE s
    BY <1>3 DEF Stop, TryStop, Cancel
  <2> HIDE DEF s
  <2>3. i \in Link /\ c \in Link
    BY <2>1 DEF Link
  <2>4. Rest(i) /\ i.body = b.body
    BY <2>1 DEF Link
  <2>5. Rest(c) /\ c.body = b.body /\ c.server = "stopping"
    BY <2>1 DEF Link
  <2> HIDE DEF i, c
  <2>6. ~s.connected => ~b.connected
    BY <2>1
  <2> HIDE DEF Rest
  <2>7. CASE ~s.connected
    BY <1>2, <2>2, <2>3, <2>4, <2>6, <2>7
  <2>8. CASE s.connected
    BY <1>2, <2>1, <2>2, <2>3, <2>5, <2>8
  <2> QED
    BY <2>7, <2>8
<1>4. ASSUME Start PROVE IInv'
  <2>1. b' = [b EXCEPT !.server = "running", !.body = "other"]
    BY <1>4 DEF Start
  <2>2. ~b.timed
    BY <1>4 DEF Start, IInv
  <2>3. b' \in Link
    BY <1>1, <2>1, ZenonT(60) DEF Link
  <2>4. Rest(b') /\ b'.server = "running"
    BY <1>1, <2>1 DEF Link
  <2> HIDE DEF Rest
  <2> QED
    BY <1>2, <2>2, <2>3, <2>4
<1> QED
  BY <1>3, <1>4

LEMMA TimersKeep ==
    ASSUME IInv,
           \/ LinkTimerDue
           \/ LinkTimerExpired
           \/ PairingProcedureTimerExpired
           \/ SafeToDisconnectTimerExpired
           \/ ProcedureTimerExpired
    PROVE  IInv'
<1>1. Up
  BY DEF LinkTimerDue, LinkTimerExpired, PairingProcedureTimerExpired,
         SafeToDisconnectTimerExpired, ProcedureTimerExpired
<1>2. Good(b) /\ b \in Link /\ KeptSecurity(b) /\ NotStuck(b)
  BY <1>1, GoodWhenUp DEF IInv
<1>3. ASSUME NEW s \in Link,
             s.server = b.server, s.connected = b.connected, s.failed = b.failed,
             s.timed = b.timed, s.tx = b.tx, s.buffer = b.buffer, s.body = b.body,
             b' = Terminate(s)
      PROVE  IInv'
  <2> DEFINE q == Terminate(s)
  <2>1. /\ q \in Link /\ q.hap = "none" /\ q.terminal = (s.terminal \/ TRUE)
        /\ q.server = s.server /\ q.connected = s.connected /\ q.failed = s.failed
        /\ q.timed = s.timed /\ q.tx = s.tx
        /\ q.buffer = s.buffer /\ q.body = s.body
    BY Invalidated, ZenonT(60) DEF Terminate
  <2> HIDE DEF q
  <2>2. Good(q) /\ KeptSecurity(q)
    BY <1>2, <1>3, <2>1
       DEF Good, Sound, Timely, Access, Prepared, TerminalUnsecured, KeptSecurity, Secured
  <2>3. b' = q
    BY <1>3 DEF q
  <2> QED
    BY <2>1, <2>2, <2>3, UnsecuredSuffices
<1>4. ASSUME LinkTimerDue PROVE IInv'
  <2>1. b' = [b EXCEPT !.link = "due"]
    BY <1>4 DEF LinkTimerDue
  <2>2. b' \in Link
    BY <1>2, <2>1 DEF Link
  <2>3. /\ b'.hap = b.hap /\ b'.terminal = b.terminal /\ b'.link = "due"
        /\ b'.att = b.att /\ b'.timer = b.timer /\ b'.failed = b.failed
        /\ b'.started = b.started /\ b'.timed = b.timed /\ b'.body = b.body
        /\ b'.tx = b.tx /\ b'.buffer = b.buffer /\ b'.fb = b.fb
        /\ b'.subs = b.subs /\ b'.pending = b.pending /\ b'.busy = b.busy
        /\ b'.connected = b.connected /\ b'.server = b.server
    BY <1>2, <2>1 DEF Link
  <2> QED
    BY <1>2, <2>2, <2>3, GoodSuffices
       DEF Good, Sound, Timely, Access, Prepared, TerminalUnsecured, KeptSecurity, NotStuck, Secured
<1>5. ASSUME LinkTimerExpired PROVE IInv'
  <2> DEFINE s == [b EXCEPT !.link = "off"]
  <2>1. s \in Link
    BY <1>2 DEF Link
  <2>2. /\ s.server = b.server /\ s.connected = b.connected /\ s.failed = b.failed
        /\ s.timed = b.timed /\ s.tx = b.tx /\ s.buffer = b.buffer /\ s.body = b.body
    BY <1>2 DEF Link
  <2>3. b' = Terminate(s)
    BY <1>5 DEF LinkTimerExpired
  <2> HIDE DEF s
  <2> QED
    BY <1>3, <2>1, <2>2, <2>3
<1>6. ASSUME PairingProcedureTimerExpired PROVE IInv'
  <2> DEFINE s == [b EXCEPT !.pairing = FALSE]
  <2>1. s \in Link
    BY <1>2 DEF Link
  <2>2. /\ s.server = b.server /\ s.connected = b.connected /\ s.failed = b.failed
        /\ s.timed = b.timed /\ s.tx = b.tx /\ s.buffer = b.buffer /\ s.body = b.body
    BY <1>2 DEF Link
  <2>3. b' = Terminate(s)
    BY <1>6 DEF PairingProcedureTimerExpired
  <2> HIDE DEF s
  <2> QED
    BY <1>3, <2>1, <2>2, <2>3
<1>7. ASSUME SafeToDisconnectTimerExpired PROVE IInv'
  <2> DEFINE s == [b EXCEPT !.safe = TRUE]
  <2>1. s \in Link
    BY <1>2 DEF Link
  <2>2. SameLink(s, b) /\ s.subs = b.subs /\ s.pending = b.pending /\ s.busy = b.busy
    BY <1>2 DEF Link, SameLink
  <2>3. b' = Cancel(s) \/ b' = s
    BY <1>7 DEF SafeToDisconnectTimerExpired
  <2> HIDE DEF s
  <2>4. /\ Cancel(s) \in Link /\ SameLink(Cancel(s), s)
        /\ Cancel(s).subs = s.subs /\ Cancel(s).pending = s.pending /\ Cancel(s).busy = s.busy
    BY <2>1, CancelKeeps DEF Cancel, Link
  <2>5. b' \in Link /\ SameLink(b', b) /\ NotStuck(b')
    BY <1>2, <2>1, <2>2, <2>3, <2>4 DEF SameLink, NotStuck
  <2> QED
    BY <1>2, <2>5, SameIsGood, GoodSuffices
<1>8. ASSUME ProcedureTimerExpired PROVE IInv'
  <2> DEFINE a == ProcedureAttach(b, b.att)
  <2>1. b.att \in Chars \cup {None}
    BY <1>2 DEF Link
  <2>2. Good(a)
    BY <1>2, <2>1, AttachKeeps
  <2>3. b' = Terminate(a)
    BY <1>8 DEF ProcedureTimerExpired
  <2> HIDE DEF a
  <2> QED
    BY <2>2, <2>3, Terminated, UnsecuredSuffices
<1> QED
  BY <1>4, <1>5, <1>6, <1>7, <1>8

LEMMA FallbackTimerKeeps ==
    ASSUME IInv, NEW c \in Chars \ Droppers, FallbackProcedureTimerExpired(c)
    PROVE  IInv'
<1>1. b \in Link
  BY DEF IInv, Sound
<1>2. b' = [b EXCEPT !.failed = "DeregisterTimer"]
  BY DEF FallbackProcedureTimerExpired
<1>3. b' \in Link
  BY <1>1, <1>2 DEF Link
<1>4. /\ b'.hap = b.hap /\ b'.terminal = b.terminal /\ b'.link = b.link
      /\ b'.att = b.att /\ b'.timer = b.timer
      /\ b'.started = b.started /\ b'.timed = b.timed /\ b'.body = b.body
      /\ b'.tx = b.tx /\ b'.buffer = b.buffer /\ b'.fb = b.fb
      /\ b'.subs = b.subs /\ b'.pending = b.pending /\ b'.busy = b.busy
      /\ b'.connected = b.connected /\ b'.server = b.server
      /\ b'.failed # "none"
  BY <1>1, <1>2 DEF Link
<1> QED
  BY <1>3, <1>4
     DEF IInv, Sound, Timely, Access, Prepared, TerminalUnsecured, KeptSecurity, NotStuck, Secured

\* The invariant behind the theorems of this module: every handler of the
\* connection keeps it, for any characteristics and any number of fragments.
THEOREM LinkInvariance == Spec => []IInv
<1>1. ASSUME IInv, [Next]_b PROVE IInv'
  <2>1. CASE HandleConnectedCentral
    BY <1>1, <2>1, ConnectedKeeps
  <2>2. CASE HandleDisconnectedCentral
    BY <1>1, <2>2, DisconnectedKeeps
  <2>3. CASE \E c \in Chars : HandleReadRequest(c) \/ HandleWriteRequest(c)
    BY <1>1, <2>3, RequestsKeep
  <2>4. CASE \/ \E c \in Events, on \in BOOLEAN : WriteClientConfiguration(c, on)
             \/ HandleReadyToUpdateSubscribers
             \/ \E c \in Events : RaiseEvent(c)
    BY <1>1, <2>4, EventsKeep
  <2>5. CASE Stop \/ Start
    BY <1>1, <2>5, ServerKeeps
  <2>6. CASE \/ LinkTimerDue
             \/ LinkTimerExpired
             \/ PairingProcedureTimerExpired
             \/ SafeToDisconnectTimerExpired
             \/ ProcedureTimerExpired
    BY <1>1, <2>6, TimersKeep
  <2>7. CASE \E c \in Chars \ Droppers : FallbackProcedureTimerExpired(c)
    BY <1>1, <2>7, FallbackTimerKeeps
  <2>8. CASE b' = b
    BY <1>1, <2>8
       DEF IInv, Sound, Timely, Access, Prepared, TerminalUnsecured, KeptSecurity, NotStuck, Secured
  <2> QED
    BY <1>1, <2>1, <2>2, <2>3, <2>4, <2>5, <2>6, <2>7, <2>8 DEF Next
<1> QED
  BY <1>1, Initially, PTL DEF Spec

\* The state of the connection is well formed.
THEOREM TypeCorrect == Spec => []TypeOK
<1>1. IInv => TypeOK
  BY DEF IInv, Sound, TypeOK
<1> QED
  BY <1>1, LinkInvariance, PTL

\* A request for a characteristic that needs a secured session is processed in
\* one only if the procedure was encrypted from its start: the two decisions,
\* HAPBLEProcedure.c:791 and 1118, agree although the session may be secured,
\* dropped or terminated between them.
THEOREM AccessSecured == Spec => []SecureAccess
<1>1. IInv => SecureAccess
  BY DEF IInv, Sound, Access, SecureAccess
<1> QED
  BY <1>1, LinkInvariance, PTL

\* The body that a Timed Write has prepared is in the procedure buffer until
\* the write is executed or the procedure ends.
THEOREM BodyKept == Spec => []PreparedBodyKept
<1>1. IInv => PreparedBodyKept
  BY DEF IInv, Sound, Prepared, PreparedBodyKept
<1> QED
  BY <1>1, LinkInvariance, PTL

\* An event for a subscribed characteristic waits only for the platform to
\* confirm the indication before it.
THEOREM EventsSentInTime == Spec => []EventsNotStuck
<1>1. IInv => EventsNotStuck
  BY DEF IInv, NotStuck, EventsNotStuck
<1> QED
  BY <1>1, LinkInvariance, PTL

\* A fallback procedure ends as encrypted as it began, which the code does not
\* record: it relies on pairing characteristics cancelling every fallback
\* procedure (HAPBLEPeripheralManager.c:766).
THEOREM FallbacksKeepSecurity == Spec => []FallbackKeepsSecurity
<1>1. IInv => FallbackKeepsSecurity
  BY DEF IInv, KeptSecurity, FallbackKeepsSecurity
<1> QED
  BY <1>1, LinkInvariance, PTL

\* A session that Pair Verify has secured never runs without its inactivity
\* timer (HAPBLESession.c:242).
THEOREM ActiveSessionsTimeOut == Spec => []ActiveSessionTimesOut
<1>1. IInv => ActiveSessionTimesOut
  BY DEF IInv, Timely, ActiveSessionTimesOut
<1> QED
  BY <1>1, LinkInvariance, PTL


=============================================================================
