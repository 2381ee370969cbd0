--------------------------- MODULE Pairings_proofs ---------------------------
(***************************************************************************)
(* Theorems about Pairings for any number of controllers, pairings and     *)
(* sessions: type correctness, one pairing per controller, an admin for    *)
(* every accessory that is paired and running, that the list of pairings   *)
(* implements PairingTable; that, without BLE, a session whose pairing has *)
(* been removed does not read; and that, with BLE alone, sessions and the  *)
(* Pair Resume cache know the controller whose pairing they name, only     *)
(* admins change pairings, and Pair Verify meets its preconditions.        *)
(*                                                                         *)
(* Four things are used.  IInv types the state, and says that an IP        *)
(* session that has been secured knows a pairing.  Changed describes all   *)
(* that a step may do to the pairings, whichever session, transport or     *)
(* power loss it comes from: what is said of the list follows from it.     *)
(* Quiet says which sessions may be found reading without their pairing.   *)
(* BInv says of the BLE session and the cache which pairings they know.    *)
(***************************************************************************)
EXTENDS Pairings, TLAPS

-----------------------------------------------------------------------------
(***************************************************************************)
(* Types.                                                                  *)
(***************************************************************************)

\* A session s may be r: an IP session that has been secured is active.
SessionOK(s, r) == r \in Session /\ (s \in IPSessions /\ r.flag => r.hap # Nobody)

SessionsOK == sess \in [Sessions -> Session] /\ \A s \in Sessions : SessionOK(s, sess[s])

IInv ==
    /\ TypeOK
    /\ SessionsOK
    /\ ~running => /\ handling = NoSession
                   /\ \A s \in Sessions : ~sess[s].flag

LEMMA Apart ==
    /\ \A s \in Sessions : s # NoSession
    /\ \A s \in IPSessions : s \notin BLESessions
BY PairingsAssumption DEF Sessions

LEMMA KeysType == 0 \in Keys /\ Keys \subseteq Nat /\ NoKey \notin Keys
BY PairingsAssumption DEF Keys, NoKey

LEMMA NoVerifyType == NoVerify \in Verify
BY DEF NoVerify, Verify, Identity

LEMMA NoChangeType == NoChange \in Change
BY DEF NoChange, Change, Methods

LEMMA ClosedOK == \A s \in Sessions : SessionOK(s, Closed)
BY NoVerifyType, NoChangeType DEF Closed, SessionOK, Session, Identity

LEMMA WithVerify ==
    ASSUME NEW s, NEW r, SessionOK(s, r), NEW v \in Verify
    PROVE  /\ SessionOK(s, [r EXCEPT !.verify = v])
           /\ [r EXCEPT !.verify = v].verify = v
BY DEF SessionOK, Session

LEMMA WithChange ==
    ASSUME NEW s, NEW r, SessionOK(s, r), NEW c \in Change
    PROVE  /\ SessionOK(s, [r EXCEPT !.change = c])
           /\ [r EXCEPT !.change = c].flag = r.flag
           /\ [r EXCEPT !.change = c].io = r.io
           /\ [r EXCEPT !.change = c].change = c
BY DEF SessionOK, Session

LEMMA InvalidateOK ==
    ASSUME NEW s \in BLESessions, NEW r \in Session
    PROVE  SessionOK(s, Invalidate(r))
BY Apart, NoVerifyType, NoChangeType DEF Invalidate, SessionOK, Session, Identity

LEMMA TerminateOK ==
    ASSUME NEW s \in BLESessions, NEW r \in Session
    PROVE  SessionOK(s, Terminate(r))
<1>1. Invalidate(r) \in Session
  BY InvalidateOK DEF SessionOK
<1> QED
  BY <1>1, Apart DEF Terminate, SessionOK, Session

LEMMA RespondOK ==
    ASSUME NEW s \in Sessions, NEW r, SessionOK(s, r), NEW p
    PROVE  /\ SessionOK(s, Respond(s, r, p))
           /\ s \in IPSessions => Respond(s, r, p).io = "writing"
<1>1. CASE s \in IPSessions
  BY <1>1 DEF Respond, SessionOK, Session
<1>2. CASE s \notin IPSessions
  <2>1. s \in BLESessions
    BY <1>2 DEF Sessions
  <2>2. SessionOK(s, Terminate(r))
    BY <2>1, TerminateOK DEF SessionOK
  <2>3. SessionOK(s, [r EXCEPT !.flag = FALSE, !.begun = "none"])
    BY DEF SessionOK, Session
  <2> QED
    BY <1>2, <2>2, <2>3 DEF Respond
<1> QED
  BY <1>1, <1>2

LEMMA AnswerOK ==
    ASSUME SessionsOK, NEW s \in Sessions, NEW r, SessionOK(s, r), NEW p
    PROVE  /\ Answer(s, r, p) \in [Sessions -> Session]
           /\ \A t \in Sessions : SessionOK(t, Answer(s, r, p)[t])
<1>1. SessionOK(s, Respond(s, r, p))
  BY RespondOK
<1>2. ASSUME NEW t \in Sessions
      PROVE  SessionOK(t, Answer(s, r, p)[t])
  BY <1>1, ClosedOK DEF Answer, SessionsOK
<1>3. Answer(s, r, p) = [t \in Sessions |-> Answer(s, r, p)[t]]
  BY DEF Answer
<1> QED
  BY <1>2, <1>3 DEF SessionOK

\* One session changes.
LEMMA OneSession ==
    ASSUME SessionsOK, NEW s \in Sessions, NEW r, SessionOK(s, r),
           sess' = [sess EXCEPT ![s] = r]
    PROVE  SessionsOK'
BY DEF SessionsOK, SessionOK

LEMMA ReceivedOK ==
    ASSUME SessionsOK, NEW s \in Sessions, NEW e, CanWrite(s, e)
    PROVE  /\ SessionOK(s, Received(s, e))
           /\ s \in IPSessions => /\ Received(s, e).flag = (e = "admin")
                                  /\ Received(s, e).io = "reading"
<1> DEFINE b == e = "admin"
<1>1. b \in BOOLEAN /\ (b => sess[s].hap # Nobody)
  BY DEF CanWrite, IsSecured
<1>2. /\ sess[s] \in Session
      /\ s \in IPSessions => sess[s].io = "reading"
  BY Apart DEF SessionsOK, CanWrite
<1> HIDE DEF b
<1>3. /\ [sess[s] EXCEPT !.flag = b] \in Session
      /\ [sess[s] EXCEPT !.flag = b].flag = b
      /\ [sess[s] EXCEPT !.flag = b].hap = sess[s].hap
      /\ [sess[s] EXCEPT !.flag = b].io = sess[s].io
  BY <1>1, <1>2 DEF Session
<1>4. SessionOK(s, [sess[s] EXCEPT !.flag = b])
  BY <1>1, <1>3 DEF SessionOK
<1>5. Received(s, e) = IF s \in IPSessions THEN [sess[s] EXCEPT !.flag = b] ELSE sess[s]
  BY DEF Received, b
<1>6. SessionOK(s, Received(s, e))
  BY <1>4, <1>5 DEF SessionsOK
<1>7. s \in IPSessions => /\ Received(s, e).flag = b
                          /\ Received(s, e).io = "reading"
  BY <1>2, <1>3, <1>5
<1> QED
  BY <1>6, <1>7 DEF b

-----------------------------------------------------------------------------
(***************************************************************************)
(* Types of the list of pairings and of the cache.                         *)
(***************************************************************************)

Lists == [Keys -> Pairing]
Caches == [Slots -> Identity]

LEMMA PairingFacts ==
    ASSUME NEW p \in Lists, NEW k \in Keys
    PROVE  /\ p[k].admin \in BOOLEAN
           /\ Stored(p, k) <=> p[k] # NoPairing
           /\ Stored(p, k) => p[k].who \in Controllers
           /\ p[k].admin => Stored(p, k)
<1>1. CASE p[k] = NoPairing
  BY <1>1 DEF NoPairing, Stored
<1>2. CASE p[k] \in [who : Controllers, admin : BOOLEAN]
  <2>1. p[k].who \in Controllers /\ p[k].admin \in BOOLEAN
    BY <1>2
  <2>2. NoPairing.who = NoController
    BY DEF NoPairing
  <2> QED
    BY <2>1, <2>2, PairingsAssumption DEF Stored
<1> QED
  BY <1>1, <1>2 DEF Lists, Pairing

LEMMA NoPairingsType == NoPairings \in Lists /\ ~HasAdmin(NoPairings)
BY DEF NoPairings, Lists, Pairing, NoPairing, HasAdmin

LEMMA CleanupType == \A p \in Lists : Cleanup(p) \in Lists
BY NoPairingsType DEF Cleanup

LEMMA PartlyPurgedType ==
    ASSUME NEW p \in Lists, NEW q \in PartlyPurged(p)
    PROVE  q \in Lists /\ \A k \in Keys : q[k] \in {p[k], NoPairing}
BY DEF PartlyPurged, Lists, Pairing

LEMMA SetType ==
    ASSUME NEW p \in Lists, NEW k \in Keys, NEW c \in Controllers, NEW a \in BOOLEAN
    PROVE  [p EXCEPT ![k] = [who |-> c, admin |-> a]] \in Lists
BY DEF Lists, Pairing

LEMMA RemoveType ==
    ASSUME NEW p \in Lists, NEW k \in Keys
    PROVE  [p EXCEPT ![k] = NoPairing] \in Lists
BY DEF Lists, Pairing

LEMMA FindFacts ==
    ASSUME NEW p \in Lists, NEW c \in Controllers, NEW k \in Find(p, c)
    PROVE  k \in Keys /\ Stored(p, k) /\ p[k].who = c
BY PairingsAssumption DEF Find, Stored

LEMMA CacheTypes ==
    ASSUME NEW c \in Caches
    PROVE  /\ EmptyCache \in Caches
           /\ \A p : CleanupCache(p, c) \in Caches
           /\ \A key : InvalidateEntriesForPairing(c, key) \in Caches
           /\ \A i \in Slots, id \in Identity : [c EXCEPT ![i] = id] \in Caches
<1>1. Nobody \in Identity
  BY DEF Identity
<1>2. EmptyCache \in Caches
  BY <1>1 DEF EmptyCache, Caches
<1>3. ASSUME NEW key PROVE InvalidateEntriesForPairing(c, key) \in Caches
  BY <1>1 DEF InvalidateEntriesForPairing, Caches
<1> QED
  BY <1>2, <1>3 DEF CleanupCache, Caches

LEMMA CleanupFailsType ==
    ASSUME NEW p \in Lists, NEW c \in Caches, CleanupFails(p, c)
    PROVE  pairings' \in Lists /\ cache' \in Caches
<1>1. pairings' \in Lists
  BY PartlyPurgedType DEF CleanupFails
<1>2. EmptyCache \in Caches
  BY CacheTypes
<1> QED
  BY <1>1, <1>2 DEF CleanupFails

LEMMA SavedType ==
    ASSUME IInv, NEW s \in Sessions, NEW c \in Saved(s)
    PROVE  c \in Caches
<1>1. sess[s].verify.id \in Identity
  BY DEF IInv, SessionsOK, Session, Verify
<1>2. cache \in Caches
  BY DEF IInv, TypeOK, Caches
<1>3. SlotsToReplace(cache) \subseteq Slots
  BY DEF SlotsToReplace, FreeSlots
<1> QED
  BY <1>1, <1>2, <1>3, CacheTypes DEF Saved

-----------------------------------------------------------------------------
(***************************************************************************)
(* What the handlers have in common.                                       *)
(***************************************************************************)

LEMMA Running ==
    ASSUME IInv
    PROVE  /\ Ready => running = TRUE
           /\ \A s, e : CanWrite(s, e) => running = TRUE /\ handling = NoSession
           /\ \A s \in Sessions : \A e : CanRead(s, e) => running = TRUE
<1>1. running \in BOOLEAN
  BY DEF IInv, TypeOK
<1>2. Ready => running = TRUE
  BY <1>1 DEF Ready
<1>3. ASSUME NEW s, NEW e, CanWrite(s, e)
      PROVE  running = TRUE /\ handling = NoSession
  BY <1>2, <1>3 DEF CanWrite, Ready
<1>4. ASSUME NEW s \in Sessions, NEW e, CanRead(s, e) PROVE running = TRUE
  BY <1>1, <1>2, <1>4, Apart DEF CanRead, IInv
<1> QED
  BY <1>2, <1>3, <1>4

\* A step of a session that is running, as the handlers of requests make it.
SessionsStepOK ==
    /\ running = TRUE /\ running' = TRUE
    /\ SessionsOK'
    /\ handling' \in Sessions \cup {NoSession}
    /\ failed' = failed

LEMMA StepIInv ==
    ASSUME IInv, SessionsStepOK, pairings' \in Lists, cache' \in Caches
    PROVE  IInv'
<1>1. TypeOK'
  BY DEF IInv, TypeOK, SessionsStepOK, SessionsOK, Lists, Caches
<1> QED
  BY <1>1 DEF IInv, SessionsStepOK

LEMMA WriteDoneOK ==
    ASSUME IInv, running = TRUE, running' = running, failed' = failed,
           NEW s \in Sessions, NEW r, SessionOK(s, r), NEW p, WriteDone(s, r, p)
    PROVE  SessionsStepOK
<1>1. SessionOK(s, Respond(s, r, p))
  BY RespondOK
<1>2. SessionsOK'
  BY <1>1, OneSession DEF IInv, WriteDone
<1> QED
  BY <1>2 DEF SessionsStepOK, WriteDone

LEMMA ReadDoneOK ==
    ASSUME IInv, running = TRUE,
           NEW s \in Sessions, NEW r, SessionOK(s, r), NEW p, ReadDone(s, r, p)
    PROVE  SessionsStepOK
<1>1. SessionsOK'
  BY AnswerOK DEF IInv, SessionsOK, ReadDone
<1> QED
  BY <1>1 DEF SessionsStepOK, ReadDone

LEMMA FailRequestOK ==
    ASSUME IInv, running = TRUE,
           NEW s \in Sessions, NEW r, SessionOK(s, r), FailRequest(s, r)
    PROVE  SessionsStepOK
<1>1. SessionOK(s, Respond(s, r, pairings))
  BY RespondOK
<1>2. SessionsOK'
  BY <1>1, OneSession DEF IInv, FailRequest
<1> QED
  BY <1>2 DEF SessionsStepOK, FailRequest

LEMMA SessionStepOK ==
    ASSUME IInv, running = TRUE,
           NEW s \in Sessions, NEW r, SessionOK(s, r), SessionStep(s, r)
    PROVE  SessionsStepOK
<1>1. SessionsOK'
  BY OneSession DEF IInv, SessionStep
<1>2. handling \in Sessions \cup {NoSession}
  BY DEF IInv, TypeOK
<1> QED
  BY <1>1, <1>2 DEF SessionsStepOK, SessionStep

LEMMA FailIInv ==
    ASSUME IInv, NEW name \in Assertions, Fail(name)
    PROVE  IInv'
BY DEF IInv, TypeOK, SessionsOK, SessionOK, Fail, Removed

LEMMA SessionFacts ==
    ASSUME IInv, NEW s \in Sessions
    PROVE  /\ SessionOK(s, sess[s])
           /\ sess[s] \in Session
           /\ pairings \in Lists
           /\ cache \in Caches
BY DEF IInv, TypeOK, SessionsOK, Lists, Caches

-----------------------------------------------------------------------------
(***************************************************************************)
(* Pair Verify keeps IInv.                                                 *)
(***************************************************************************)

LEMMA VerifyWrittenIInv ==
    ASSUME IInv, NEW s \in Sessions, CanWrite(s, "open"), NEW v \in Verify,
           VerifyWritten(s, v), cache' \in Caches
    PROVE  IInv'
<1>1. SessionOK(s, [Received(s, "open") EXCEPT !.verify = v])
  BY ReceivedOK, WithVerify DEF IInv
<1>2. running = TRUE
  BY Running
<1>3. /\ WriteDone(s, [Received(s, "open") EXCEPT !.verify = v], pairings)
      /\ running' = running /\ failed' = failed /\ pairings' = pairings
  BY DEF VerifyWritten
<1>4. SessionsStepOK
  BY <1>1, <1>2, <1>3, WriteDoneOK
<1> QED
  BY <1>3, <1>4, StepIInv, SessionFacts

LEMMA VerifyTypes ==
    ASSUME IInv
    PROVE  /\ [NoVerify EXCEPT !.step = 1] \in Verify
           /\ [NoVerify EXCEPT !.step = 3, !.error = TRUE] \in Verify
           /\ \A slot \in Slots, b \in BOOLEAN :
                 [step |-> 1, resume |-> TRUE, id |-> cache[slot], error |-> b]
                     \in Verify
           /\ \A c \in Controllers : \A key \in Find(pairings, c) :
                 [NoVerify EXCEPT !.step = 3, !.id = [key |-> key, who |-> c]]
                     \in Verify
<1>1. 1 \in 0 .. 3 /\ 3 \in 0 .. 3
  OBVIOUS
<1>2. ASSUME NEW slot \in Slots PROVE cache[slot] \in Identity
  BY DEF IInv, TypeOK
<1>3. ASSUME NEW c \in Controllers, NEW key \in Find(pairings, c)
      PROVE  [key |-> key, who |-> c] \in Identity
  BY DEF Find, Identity
<1> QED
  BY <1>1, <1>2, <1>3 DEF NoVerify, Verify, Identity

\* An IP session that starts has not been secured before.
LEMMA StartedOK ==
    ASSUME NEW s \in Sessions, SessionOK(s, sess[s]), CanRead(s, "open")
    PROVE  SessionOK(s, Started(s))
<1>1. sess[s].verify.id \in Identity
  BY DEF SessionOK, Session, Verify
<1>2. /\ Started(s) \in Session
      /\ Started(s).flag = sess[s].flag
  BY <1>1, NoVerifyType DEF Started, SessionOK, Session
<1>3. s \in IPSessions => ~sess[s].flag
  BY Apart DEF CanRead, Endpoint
<1> QED
  BY <1>2, <1>3 DEF SessionOK

LEMMA ReadDoneIInv ==
    ASSUME IInv, NEW s \in Sessions, NEW e, CanRead(s, e), NEW r, SessionOK(s, r),
           NEW p, ReadDone(s, r, p), pairings' \in Lists, cache' \in Caches
    PROVE  IInv'
<1>1. running = TRUE
  BY Running
<1>2. SessionsStepOK
  BY <1>1, ReadDoneOK
<1> QED
  BY <1>2, StepIInv

LEMMA VerifyStepIInv ==
    ASSUME IInv, NEW s \in Sessions, VerifyStep(s)
    PROVE  IInv'
<1> USE SessionFacts
<1>1. CASE VerifyM1(s)
  <2>1. [NoVerify EXCEPT !.step = 1] \in Verify
    BY VerifyTypes
  <2> QED
    BY <1>1, <2>1, VerifyWrittenIInv DEF VerifyM1
<1>2. CASE VerifyM1Active(s)
  BY <1>2, FailIInv DEF VerifyM1Active, Assertions
<1>3. ASSUME NEW slot \in Slots, NEW decrypts \in BOOLEAN,
             ResumeM1(s, slot, decrypts)
      PROVE  IInv'
  <2>1. (~decrypts) \in BOOLEAN
    OBVIOUS
  <2>2. [step |-> 1, resume |-> TRUE, id |-> cache[slot], error |-> ~decrypts]
            \in Verify
    BY <2>1, VerifyTypes
  <2>3. cache' \in Caches
    BY <1>3, CacheTypes DEF ResumeM1, Identity
  <2> QED
    BY <1>3, <2>2, <2>3, VerifyWrittenIInv DEF ResumeM1
<1>4. ASSUME NEW c \in Controllers, VerifyM3(s, c)
      PROVE  IInv'
  <2>1. PICK key \in Find(pairings, c) :
            VerifyWritten(s, [NoVerify EXCEPT !.step = 3,
                                              !.id = [key |-> key, who |-> c]])
    BY <1>4 DEF VerifyM3
  <2>2. [NoVerify EXCEPT !.step = 3, !.id = [key |-> key, who |-> c]] \in Verify
    BY VerifyTypes
  <2>3. CanWrite(s, "open") /\ cache' = cache
    BY <1>4 DEF VerifyM3
  <2> QED
    BY <2>1, <2>2, <2>3, VerifyWrittenIInv
<1>5. CASE VerifyM3Refused(s)
  <2>1. [NoVerify EXCEPT !.step = 3, !.error = TRUE] \in Verify
    BY VerifyTypes
  <2> QED
    BY <1>5, <2>1, VerifyWrittenIInv DEF VerifyM3Refused
<1>6. CASE VerifyReadError(s)
  <2>1. SessionOK(s, [sess[s] EXCEPT !.verify = NoVerify])
    BY WithVerify, NoVerifyType
  <2> QED
    BY <1>6, <2>1, ReadDoneIInv DEF VerifyReadError
<1>7. CASE VerifyM2(s)
  <2>1. 2 \in 0 .. 3
    OBVIOUS
  <2>2. SessionOK(s, [sess[s] EXCEPT !.verify.step = 2])
    BY <2>1 DEF SessionOK, Session, Verify
  <2> QED
    BY <1>7, <2>2, ReadDoneIInv DEF VerifyM2
<1>8. CASE ResumeM2(s) \/ VerifyM4(s)
  <2>0. StartSession(s)
    BY <1>8 DEF ResumeM2, VerifyM4
  <2>1. cache' \in Caches
    BY <2>0, SavedType DEF StartSession
  <2>2. SessionOK(s, Started(s))
    BY <2>0, StartedOK DEF StartSession
  <2> QED
    BY <2>0, <2>1, <2>2, ReadDoneIInv DEF StartSession
<1>9. CASE StartSessionUnpaired(s)
  BY <1>9, FailIInv DEF StartSessionUnpaired, Assertions
<1> QED
  BY <1>1, <1>2, <1>3, <1>4, <1>5, <1>6, <1>7, <1>8, <1>9 DEF VerifyStep

-----------------------------------------------------------------------------
(***************************************************************************)
(* Pairings keeps IInv.                                                    *)
(***************************************************************************)

LEMMA ChangeWrittenIInv ==
    ASSUME IInv, NEW s \in Sessions, CanWrite(s, "admin"),
           NEW method \in Methods, NEW target \in Controllers \cup {NoController},
           NEW error \in BOOLEAN, NEW p,
           ChangeWritten(s, method, target, error, p),
           pairings' \in Lists, cache' \in Caches
    PROVE  IInv'
<1> DEFINE c == [step |-> 1, method |-> method, target |-> target, error |-> error]
<1>1. c \in Change
  BY DEF Change
<1> HIDE DEF c
<1>2. SessionOK(s, [Received(s, "admin") EXCEPT !.change = c])
  BY <1>1, ReceivedOK, WithChange DEF IInv
<1>3. running = TRUE
  BY Running
<1>4. /\ WriteDone(s, [Received(s, "admin") EXCEPT !.change = c], p)
      /\ running' = running /\ failed' = failed
  BY DEF ChangeWritten, c
<1>5. SessionsStepOK
  BY <1>2, <1>3, <1>4, WriteDoneOK
<1> QED
  BY <1>5, StepIInv

LEMMA UpdatedFacts ==
    ASSUME IInv, NEW c \in Controllers, NEW a \in BOOLEAN, NEW p \in Updated(c, a)
    PROVE  /\ p \in Lists
           /\ \E k \in Find(pairings, c) :
                 /\ k \in Keys
                 /\ p[k].who = pairings[k].who
                 /\ \A j \in Keys \ {k} : p[j] = pairings[j]
<1>1. pairings \in Lists
  BY DEF IInv, TypeOK, Lists
<1>2. PICK k \in Find(pairings, c) : p = [pairings EXCEPT ![k].admin = a]
  BY DEF Updated
<1>3. k \in Keys /\ Stored(pairings, k)
  BY <1>1, FindFacts
<1>4. pairings[k] \in [who : Controllers, admin : BOOLEAN]
  BY <1>1, <1>3, PairingFacts DEF Lists, Pairing
<1>5. /\ [pairings[k] EXCEPT !.admin = a] \in Pairing
      /\ [pairings[k] EXCEPT !.admin = a].who = pairings[k].who
  BY <1>4 DEF Pairing
<1>6. /\ p \in Lists
      /\ p[k].who = pairings[k].who
      /\ \A j \in Keys \ {k} : p[j] = pairings[j]
  BY <1>1, <1>2, <1>3, <1>5 DEF Lists
<1> QED
  BY <1>3, <1>6

LEMMA ChangeStepIInv ==
    ASSUME IInv, NEW s \in Sessions, ChangeStep(s)
    PROVE  IInv'
<1> USE SessionFacts
<1> DEFINE r == [sess[s] EXCEPT !.change = NoChange]
<1>0. SessionOK(s, r)
  BY WithChange, NoChangeType
<1> HIDE DEF r
<1>1. ASSUME NEW method \in Methods, ChangeRefused(s, method)
      PROVE  IInv'
  BY <1>1, ChangeWrittenIInv DEF ChangeRefused, ExpectsM1
<1>2. ASSUME ListM1(s) \/ \E c \in Controllers : RemoveM1(s, c)
      PROVE  IInv'
  <2>1. {"remove", "list"} \subseteq Methods
    BY DEF Methods
  <2> QED
    BY <1>2, <2>1, ChangeWrittenIInv DEF RemoveM1, ListM1, ExpectsM1
<1> HIDE SessionFacts
<1>3. ASSUME NEW c \in Controllers, NEW admin \in BOOLEAN, UpdateM1(s, c, admin)
      PROVE  IInv'
  <2>1. PICK p \in Updated(c, admin) :
            /\ pairings' = Cleanup(p)
            /\ cache' = CleanupCache(p, cache)
            /\ ChangeWritten(s, "add", c, FALSE, Cleanup(p))
    BY <1>3 DEF UpdateM1
  <2>2. p \in Lists
    BY UpdatedFacts
  <2>3. pairings' \in Lists /\ cache' \in Caches
    BY <2>1, <2>2, CleanupType, CacheTypes, SessionFacts
  <2>4. "add" \in Methods /\ CanWrite(s, "admin")
    BY <1>3 DEF Methods, UpdateM1, ExpectsAddM1, ExpectsM1
  <2> QED
    BY <2>1, <2>3, <2>4, ChangeWrittenIInv
<1>4. ASSUME NEW c \in Controllers, NEW admin \in BOOLEAN, AddM1(s, c, admin)
      PROVE  IInv'
  <2>1. PICK key \in FreeKeys(pairings) :
            LET p == [pairings EXCEPT ![key] = [who |-> c, admin |-> admin]]
            IN  pairings' = p /\ ChangeWritten(s, "add", c, FALSE, p)
    BY <1>4 DEF AddM1
  <2>2. key \in Keys
    BY DEF FreeKeys
  <2>3. pairings' \in Lists /\ cache' \in Caches
    BY <1>4, <2>1, <2>2, SetType, SessionFacts DEF AddM1
  <2>4. "add" \in Methods /\ CanWrite(s, "admin")
    BY <1>4 DEF Methods, AddM1, ExpectsAddM1, ExpectsM1
  <2> QED
    BY <2>1, <2>3, <2>4, ChangeWrittenIInv
<1>5. ASSUME NEW c \in Controllers, AddM1Refused(s, c)
      PROVE  IInv'
  <2>1. "add" \in Methods
    BY DEF Methods
  <2> QED
    BY <1>5, <2>1, ChangeWrittenIInv, SessionFacts
       DEF AddM1Refused, ExpectsAddM1, ExpectsM1
<1>6. ASSUME NEW c \in Controllers, NEW admin \in BOOLEAN,
             UpdateM1NotCleaned(s, c, admin)
      PROVE  IInv'
  <2>1. PICK p \in Updated(c, admin) :
            /\ CleanupFails(p, cache)
            /\ ChangeWritten(s, "add", c, TRUE, pairings')
    BY <1>6 DEF UpdateM1NotCleaned
  <2>2. p \in Lists
    BY UpdatedFacts
  <2>3. pairings' \in Lists /\ cache' \in Caches
    BY <2>1, <2>2, CleanupFailsType, SessionFacts
  <2>4. "add" \in Methods /\ CanWrite(s, "admin")
    BY <1>6 DEF Methods, UpdateM1NotCleaned, ExpectsAddM1, ExpectsM1
  <2> QED
    BY <2>1, <2>3, <2>4, ChangeWrittenIInv
<1>7. CASE ChangeReadError(s)
  BY <1>0, <1>7, ReadDoneIInv, SessionFacts DEF ChangeReadError, Responds, r
<1>8. CASE OwnPairingGone(s)
  BY <1>8, FailIInv DEF OwnPairingGone, Assertions
<1>9. CASE M2Refused(s) \/ AddM2(s) \/ ListM2(s)
  <2>1. CanRead(s, "admin") /\ Responds(s)
    BY <1>9 DEF M2Refused, AddM2, ListM2, ExpectsM2
  <2> QED
    BY <1>0, <2>1, ReadDoneIInv, SessionFacts DEF Responds, r
<1>10. CASE RemoveM2(s)
  <2>1. PICK key \in KeysToRemove(s) :
            LET p == Without(key)
            IN  /\ pairings' = Cleanup(p)
                /\ cache' = CleanupCache(p, InvalidateEntriesForPairing(cache, key))
                /\ ReadDone(s, [sess[s] EXCEPT !.change = NoChange], Cleanup(p))
    BY <1>10 DEF RemoveM2
  <2>2. key \in Keys
    BY DEF KeysToRemove, Find
  <2>3. Without(key) \in Lists
    BY <2>2, RemoveType, SessionFacts DEF Without
  <2>4. pairings' \in Lists /\ cache' \in Caches
    BY <2>1, <2>3, CleanupType, CacheTypes, SessionFacts
  <2> QED
    BY <1>0, <1>10, <2>1, <2>4, ReadDoneIInv DEF RemoveM2, Removes, ExpectsM2, r
<1>11. CASE RemoveM2Nothing(s)
  BY <1>0, <1>11, ReadDoneIInv, SessionFacts
     DEF RemoveM2Nothing, Removes, ExpectsM2, Responds, r
<1>12. CASE RemoveM2NotCleaned(s)
  <2>1. PICK key \in KeysToRemove(s) :
            CleanupFails(Without(key), InvalidateEntriesForPairing(cache, key))
    BY <1>12 DEF RemoveM2NotCleaned
  <2>2. Without(key) \in Lists
    BY RemoveType, SessionFacts DEF KeysToRemove, Find, Without
  <2>3. InvalidateEntriesForPairing(cache, key) \in Caches
    BY CacheTypes, SessionFacts DEF KeysToRemove, Find
  <2>4. pairings' \in Lists /\ cache' \in Caches
    BY <2>1, <2>2, <2>3, CleanupFailsType
  <2> QED
    BY <1>0, <1>12, <2>4, ReadDoneIInv
       DEF RemoveM2NotCleaned, Removes, ExpectsM2, r
<1>13. CASE ReadRefused(s)
  <2>1. handling # NoSession /\ running \in BOOLEAN
    BY <1>13, Apart DEF ReadRefused, IInv, TypeOK
  <2>2. running = TRUE
    BY <2>1 DEF IInv
  <2>3. SessionsStepOK
    BY <1>13, <2>2, FailRequestOK, SessionFacts DEF ReadRefused
  <2> QED
    BY <1>13, <2>3, StepIInv, SessionFacts DEF ReadRefused, FailRequest
<1> QED
  BY <1>1, <1>2, <1>3, <1>4, <1>5, <1>6, <1>7, <1>8, <1>9, <1>10, <1>11, <1>12,
     <1>13 DEF ChangeStep

-----------------------------------------------------------------------------
(***************************************************************************)
(* Other requests, connections, the server and power loss keep IInv.       *)
(***************************************************************************)

LEMMA ResetOK ==
    ASSUME NEW s, NEW r, SessionOK(s, r), NEW e
    PROVE  SessionOK(s, Reset(r, e))
BY WithVerify, WithChange, NoVerifyType, NoChangeType DEF Reset

LEMMA FailRequestIInv ==
    ASSUME IInv, running = TRUE, NEW s \in Sessions, NEW r, SessionOK(s, r),
           FailRequest(s, r), cache' \in Caches
    PROVE  IInv'
BY FailRequestOK, StepIInv, SessionFacts DEF FailRequest

LEMMA RequestStepIInv ==
    ASSUME IInv, NEW s \in Sessions, RequestStep(s)
    PROVE  IInv'
<1>1. ASSUME NEW e \in Endpoints, WriteRejected(s, e)
      PROVE  IInv'
  <2>1. SessionOK(s, Reset(Received(s, e), e))
    BY <1>1, ReceivedOK, ResetOK DEF WriteRejected, IInv
  <2> QED
    BY <1>1, <2>1, Running, FailRequestIInv, SessionFacts DEF WriteRejected
<1>2. ASSUME NEW e \in Endpoints, ReadRejected(s, e)
      PROVE  IInv'
  <2>1. SessionOK(s, Reset(sess[s], e))
    BY ResetOK, SessionFacts
  <2>2. cache' \in Caches
    BY <1>2, SavedType, SessionFacts DEF ReadRejected
  <2> QED
    BY <1>2, <2>1, <2>2, Running, FailRequestIInv DEF ReadRejected
<1>3. CASE OtherRequest(s)
  <2> DEFINE b == IsSecured(sess[s], pairings)
  <2>1. b \in BOOLEAN /\ (b => sess[s].hap # Nobody)
    BY DEF IsSecured
  <2>2. sess[s] \in Session
    BY SessionFacts
  <2>3. FailRequest(s, [sess[s] EXCEPT !.flag = b]) \/ FailRequest(s, sess[s])
    BY <1>3 DEF OtherRequest
  <2> HIDE DEF b
  <2>4. /\ [sess[s] EXCEPT !.flag = b] \in Session
        /\ [sess[s] EXCEPT !.flag = b].flag = b
        /\ [sess[s] EXCEPT !.flag = b].hap = sess[s].hap
    BY <2>1, <2>2 DEF Session
  <2>5. SessionOK(s, [sess[s] EXCEPT !.flag = b])
    BY <2>1, <2>4 DEF SessionOK
  <2> QED
    BY <1>3, <2>3, <2>5, Running, FailRequestIInv, SessionFacts DEF OtherRequest
<1>4. CASE StoreFails(s)
  BY <1>4, FailIInv DEF StoreFails, Assertions
<1> QED
  BY <1>1, <1>2, <1>3, <1>4 DEF RequestStep

LEMMA SessionStepIInv ==
    ASSUME IInv, Ready, NEW s \in Sessions, NEW r, SessionOK(s, r), SessionStep(s, r)
    PROVE  IInv'
BY Running, SessionStepOK, StepIInv, SessionFacts DEF SessionStep

LEMMA ConnectionStepIInv ==
    ASSUME IInv, NEW s \in Sessions, ConnectionStep(s)
    PROVE  IInv'
<1> SUFFICES ASSUME ~IInv' PROVE FALSE
  OBVIOUS
<1>1. CASE Connect(s)
  <2>1. SessionOK(s, [Closed EXCEPT !.io = "reading"])
    BY ClosedOK DEF SessionOK, Session
  <2> QED
    BY <1>1, <2>1, SessionStepIInv DEF Connect
<1>2. CASE Disconnect(s)
  BY <1>2, ClosedOK, SessionStepIInv DEF Disconnect
<1>3. CASE Written(s)
  <2>1. SessionOK(s, [sess[s] EXCEPT !.io = "reading"])
    BY SessionFacts DEF SessionOK, Session
  <2> QED
    BY <1>3, <2>1, ClosedOK, SessionStepIInv DEF Written
<1>4. CASE InputOfRemoved(s)
  BY <1>4, FailIInv DEF InputOfRemoved, Assertions
<1>5. ASSUME NEW e \in Endpoints, BeginProcedure(s, e)
      PROVE  FALSE
  <2> DEFINE r == IF e = "open" /\ IsSecured(sess[s], pairings)
                  THEN Invalidate(sess[s])
                  ELSE sess[s]
             b == IsSecured(r, pairings)
             q == [r EXCEPT !.begun = e, !.flag = b]
  <2>1. s \in BLESessions /\ Ready
    BY <1>5 DEF BeginProcedure
  <2>2. r \in Session
    BY <2>1, InvalidateOK, SessionFacts DEF SessionOK
  <2>3. b \in BOOLEAN
    BY DEF IsSecured
  <2>4. SessionStep(s, q)
    BY <1>5 DEF BeginProcedure
  <2> HIDE DEF b, r
  <2>5. q \in Session
    BY <2>2, <2>3 DEF Session, Endpoints
  <2> HIDE DEF q
  <2>6. SessionOK(s, q)
    BY <2>1, <2>5, Apart DEF SessionOK
  <2> QED
    BY <2>1, <2>4, <2>6, SessionStepIInv
<1>6. CASE DropLink(s)
  <2>1. s \in BLESessions
    BY <1>6 DEF DropLink
  <2>2. SessionOK(s, Terminate(sess[s]))
    BY <2>1, TerminateOK, SessionFacts
  <2> QED
    BY <1>6, <2>2, SessionStepIInv DEF DropLink
<1>7. ASSUME NEW c \in Controllers, PairSetup(s, c)
      PROVE  FALSE
  <2> DEFINE p == [pairings EXCEPT ![0] = [who |-> c, admin |-> TRUE]]
  <2>1. p \in Lists
    BY SetType, SessionFacts, KeysType
  <2>2. SessionOK(s, Received(s, "open"))
    BY <1>7, ReceivedOK DEF PairSetup, IInv
  <2>3. sess' = Answer(s, Received(s, "open"), p) /\ pairings' = p
    BY <1>7 DEF PairSetup
  <2> HIDE DEF p
  <2>4. SessionsOK'
    BY <2>2, <2>3, AnswerOK DEF IInv, SessionsOK
  <2>5. SessionsStepOK
    BY <1>7, <2>4, Running DEF PairSetup, SessionsStepOK, IInv, TypeOK
  <2> QED
    BY <1>7, <2>1, <2>3, <2>5, StepIInv, SessionFacts DEF PairSetup
<1> QED
  BY <1>1, <1>2, <1>3, <1>4, <1>5, <1>6, <1>7 DEF ConnectionStep

LEMMA ZeroRamIInv ==
    ASSUME pairings' \in Lists, ZeroRam
    PROVE  IInv'
<1>1. EmptyCache \in Caches
  BY DEF EmptyCache, Caches, Identity
<1>2. /\ sess' \in [Sessions -> Session]
      /\ \A s \in Sessions : SessionOK(s, sess'[s]) /\ ~sess'[s].flag
  BY ClosedOK DEF ZeroRam, SessionOK, Closed
<1> QED
  BY <1>1, <1>2 DEF IInv, TypeOK, SessionsOK, ZeroRam, Lists, Caches, Assertions

\* What a purge leaves when the power is lost.
LEMMA InterruptedType ==
    ASSUME IInv, RebootDuringPurge
    PROVE  pairings' \in Lists
<1>1. CASE pairings' \in PartlyPurged(pairings)
  BY <1>1, PartlyPurgedType DEF IInv, TypeOK, Lists
<1>2. ASSUME NEW c \in Controllers, NEW p \in Updated(c, FALSE),
             pairings' \in PartlyPurged(p)
      PROVE  pairings' \in Lists
  BY <1>2, UpdatedFacts, PartlyPurgedType
<1>3. ASSUME NEW s \in Sessions, NEW key \in KeysToRemove(s),
             pairings' \in PartlyPurged(Without(key))
      PROVE  pairings' \in Lists
  <2>1. Without(key) \in Lists
    BY RemoveType DEF KeysToRemove, Find, Without, IInv, TypeOK, Lists
  <2> QED
    BY <1>3, <2>1, PartlyPurgedType
<1> QED
  BY <1>1, <1>2, <1>3 DEF RebootDuringPurge

LEMMA StartIInv ==
    ASSUME IInv, Start
    PROVE  IInv'
<1>1. pairings' \in Lists
  BY CleanupType DEF Start, IInv, TypeOK, Lists
<1>2. SessionsOK'
  BY DEF Start, IInv, SessionsOK, SessionOK
<1> QED
  BY <1>1, <1>2 DEF Start, IInv, TypeOK, Lists

LEMMA InitIInv == Init => IInv
<1> SUFFICES ASSUME Init PROVE IInv
  OBVIOUS
<1>1. EmptyCache \in Caches
  BY DEF EmptyCache, Caches, Identity
<1>2. /\ sess \in [Sessions -> Session]
      /\ \A s \in Sessions : SessionOK(s, sess[s]) /\ ~sess[s].flag
  BY ClosedOK DEF Init, SessionOK, Closed
<1> QED
  BY <1>1, <1>2, NoPairingsType
     DEF IInv, TypeOK, SessionsOK, Init, Lists, Caches, Assertions

LEMMA NextIInv == IInv /\ [Next]_vars => IInv'
<1> SUFFICES ASSUME IInv, [Next]_vars PROVE IInv'
  OBVIOUS
<1>1. CASE \E s \in Sessions :
              VerifyStep(s) \/ ChangeStep(s) \/ RequestStep(s) \/ ConnectionStep(s)
  BY <1>1, VerifyStepIInv, ChangeStepIInv, RequestStepIInv, ConnectionStepIInv
<1>2. CASE Start
  BY <1>2, StartIInv
<1>3. CASE Reboot
  BY <1>3, ZeroRamIInv DEF Reboot, IInv, TypeOK, Lists
<1>4. CASE RebootDuringPurge
  BY <1>4, ZeroRamIInv, InterruptedType DEF RebootDuringPurge
<1>5. CASE UNCHANGED vars
  BY <1>5 DEF vars, IInv, TypeOK, SessionsOK, SessionOK
<1> QED
  BY <1>1, <1>2, <1>3, <1>4, <1>5 DEF Next

LEMMA SpecIInv == Spec => []IInv
BY InitIInv, NextIInv, PTL DEF Spec

\* Every variable has its type, for any number of controllers and sessions:
\* no handler of HAPPairingPairings.c or HAPPairingPairVerify.c leaves a step or
\* an identity that the next one does not know.
THEOREM TypeCorrect == Spec => []TypeOK
<1>1. IInv => TypeOK
  BY DEF IInv
<1> QED
  BY <1>1, SpecIInv, PTL

-----------------------------------------------------------------------------
(***************************************************************************)
(* What a step may do to the list of pairings: nothing, set up the first   *)
(* one, add one, change or remove one and clean up, or clean up; and the   *)
(* same without coming to the end of a purge.                              *)
(***************************************************************************)

Revised(p) ==
    {u \in Lists : \E k \in Keys : /\ u[k].who \in {p[k].who, NoController}
                                  /\ \A j \in Keys \ {k} : u[j] = p[j]}

Founded(p, q) ==
    /\ ~IsPaired(p)
    /\ \E c \in Controllers : q = [p EXCEPT ![0] = [who |-> c, admin |-> TRUE]]

Added(p, q) ==
    /\ HasAdmin(p)
    /\ \E c \in Controllers, k \in FreeKeys(p), a \in BOOLEAN :
          Find(p, c) = {} /\ q = [p EXCEPT ![k] = [who |-> c, admin |-> a]]

Cleaned(p, q) ==
    \/ HasAdmin(p) /\ \E u \in Revised(p) : q = Cleanup(u)
    \/ q = Cleanup(p)

CutShort(p, q) ==
    \/ HasAdmin(p) /\ \E u \in Revised(p) : ~HasAdmin(u) /\ q \in PartlyPurged(u)
    \/ ~HasAdmin(p) /\ q \in PartlyPurged(p)

Changed ==
    \/ /\ pairings' = pairings \/ Founded(pairings, pairings')
                               \/ Added(pairings, pairings')
       /\ running' => running
    \/ Cleaned(pairings, pairings')
    \/ CutShort(pairings, pairings') /\ (~running' \/ StoreMayFail)

LEMMA AdminThere ==
    ASSUME IInv, NEW s \in Sessions, IsAdmin(s), CanWrite(s, "admin") \/ CanRead(s, "admin")
    PROVE  HasAdmin(pairings)
<1>1. sess[s].hap # Nobody
  <2>1. CASE CanWrite(s, "admin")
    BY <2>1 DEF CanWrite, IsSecured
  <2>2. CASE CanRead(s, "admin") /\ s \in BLESessions
    BY <2>2 DEF CanRead, IsSecured
  <2>3. CASE CanRead(s, "admin") /\ s \in IPSessions
    <3>1. sess[s].flag
      BY <2>3, Apart DEF CanRead, Endpoint
    <3> QED
      BY <2>3, <3>1, SessionFacts DEF SessionOK
  <2> QED
    BY <2>1, <2>2, <2>3 DEF Sessions
<1>2. sess[s].hap.key \in Keys
  BY <1>1, SessionFacts DEF Session, Identity
<1> QED
  BY <1>2 DEF IsAdmin, HasAdmin

LEMMA UpdatedRevised ==
    ASSUME IInv, NEW c \in Controllers, NEW a \in BOOLEAN, NEW p \in Updated(c, a)
    PROVE  p \in Revised(pairings)
BY UpdatedFacts DEF Revised

LEMMA WithoutRevised ==
    ASSUME IInv, NEW s, NEW key \in KeysToRemove(s)
    PROVE  Without(key) \in Revised(pairings)
<1>1. key \in Keys /\ pairings \in Lists
  BY DEF KeysToRemove, Find, IInv, TypeOK, Lists
<1>2. /\ Without(key) \in Lists
      /\ Without(key)[key] = NoPairing
      /\ \A j \in Keys \ {key} : Without(key)[j] = pairings[j]
  BY <1>1, RemoveType DEF Without, Lists
<1>3. NoPairing.who = NoController
  BY DEF NoPairing
<1> QED
  BY <1>1, <1>2, <1>3 DEF Revised

LEMMA CleanupFailsChanged ==
    ASSUME StoreMayFail, HasAdmin(pairings), NEW p \in Revised(pairings), NEW c,
           CleanupFails(p, c)
    PROVE  Changed
<1>1. CASE HasAdmin(p)
  BY <1>1 DEF CleanupFails, Cleanup, Changed, Cleaned
<1>2. CASE ~HasAdmin(p)
  BY <1>2 DEF CleanupFails, Changed, CutShort
<1> QED
  BY <1>1, <1>2

LEMMA SameList ==
    ASSUME pairings' = pairings, running' = running
    PROVE  Changed
BY DEF Changed

LEMMA VerifyStepChanges ==
    ASSUME NEW s \in Sessions, VerifyStep(s) \/ RequestStep(s)
    PROVE  Changed
<1>1. CASE VerifyStep(s)
  <2>1. pairings' = pairings /\ running' = running
    BY <1>1 DEF VerifyStep, VerifyM1, VerifyM1Active, ResumeM1, VerifyM3,
                VerifyM3Refused, VerifyReadError, VerifyM2, ResumeM2, VerifyM4, StartSession,
                StartSessionUnpaired, VerifyWritten, ReadDone, Fail
  <2> QED
    BY <2>1, SameList
<1>2. CASE RequestStep(s)
  <2>1. pairings' = pairings /\ running' = running
    BY <1>2 DEF RequestStep, WriteRejected, ReadRejected, OtherRequest, StoreFails,
                FailRequest, Fail
  <2> QED
    BY <2>1, SameList
<1> QED
  BY <1>1, <1>2

LEMMA ChangeStepChanges ==
    ASSUME IInv, NEW s \in Sessions, ChangeStep(s)
    PROVE  Changed
<1>1. ASSUME NEW c \in Controllers, NEW admin \in BOOLEAN, UpdateM1(s, c, admin)
      PROVE  Changed
  <2>1. HasAdmin(pairings)
    BY <1>1, AdminThere DEF UpdateM1, ExpectsAddM1, ExpectsM1
  <2> QED
    BY <1>1, <2>1, UpdatedRevised DEF UpdateM1, Changed, Cleaned
<1>2. ASSUME NEW c \in Controllers, NEW admin \in BOOLEAN, AddM1(s, c, admin)
      PROVE  Changed
  <2>1. HasAdmin(pairings)
    BY <1>2, AdminThere DEF AddM1, ExpectsAddM1, ExpectsM1
  <2>2. Added(pairings, pairings')
    BY <1>2, <2>1 DEF AddM1, Added
  <2>3. running' = running
    BY <1>2 DEF AddM1, ChangeWritten
  <2> QED
    BY <2>2, <2>3 DEF Changed
<1>3. ASSUME NEW c \in Controllers, NEW admin \in BOOLEAN,
             UpdateM1NotCleaned(s, c, admin)
      PROVE  Changed
  <2>1. HasAdmin(pairings)
    BY <1>3, AdminThere DEF UpdateM1NotCleaned, ExpectsAddM1, ExpectsM1
  <2> QED
    BY <1>3, <2>1, UpdatedRevised, CleanupFailsChanged DEF UpdateM1NotCleaned
<1>4. CASE RemoveM2(s)
  <2>1. HasAdmin(pairings)
    BY <1>4, AdminThere DEF RemoveM2, Removes, ExpectsM2
  <2> QED
    BY <1>4, <2>1, WithoutRevised DEF RemoveM2, Changed, Cleaned
<1>5. CASE RemoveM2NotCleaned(s)
  <2>1. HasAdmin(pairings)
    BY <1>5, AdminThere DEF RemoveM2NotCleaned, Removes, ExpectsM2
  <2> QED
    BY <1>5, <2>1, WithoutRevised, CleanupFailsChanged DEF RemoveM2NotCleaned
<1>6. ASSUME \/ \E method \in Methods \ {"none"} : ChangeRefused(s, method)
             \/ \E c \in Controllers : RemoveM1(s, c) \/ AddM1Refused(s, c)
             \/ ListM1(s) \/ M2Refused(s) \/ AddM2(s) \/ ListM2(s)
             \/ ChangeReadError(s) \/ OwnPairingGone(s)
             \/ RemoveM2Nothing(s) \/ ReadRefused(s)
      PROVE  Changed
  <2>1. pairings' = pairings /\ running' = running
    BY <1>6 DEF ChangeRefused, RemoveM1, ListM1, AddM1Refused, ChangeReadError,
                OwnPairingGone, M2Refused, AddM2, ListM2, RemoveM2Nothing, ReadRefused,
                ChangeWritten, Responds, ReadDone, FailRequest, Fail
  <2> QED
    BY <2>1, SameList
<1> QED
  BY <1>1, <1>2, <1>3, <1>4, <1>5, <1>6 DEF ChangeStep

LEMMA ConnectionStepChanges ==
    ASSUME NEW s \in Sessions, ConnectionStep(s)
    PROVE  Changed
<1>1. ASSUME NEW c \in Controllers, PairSetup(s, c)
      PROVE  Changed
  BY <1>1 DEF PairSetup, Changed, Founded
<1>2. ASSUME \/ Connect(s) \/ Disconnect(s) \/ Written(s) \/ InputOfRemoved(s)
             \/ \E e \in Endpoints : BeginProcedure(s, e)
             \/ DropLink(s)
      PROVE  Changed
  <2>1. pairings' = pairings /\ running' = running
    BY <1>2 DEF Connect, Disconnect, Written, InputOfRemoved, BeginProcedure,
                DropLink, SessionStep, Fail
  <2> QED
    BY <2>1, SameList
<1> QED
  BY <1>1, <1>2 DEF ConnectionStep

LEMMA NextChanges ==
    ASSUME IInv, [Next]_vars
    PROVE  Changed
<1>1. CASE \E s \in Sessions :
              VerifyStep(s) \/ ChangeStep(s) \/ RequestStep(s) \/ ConnectionStep(s)
  BY <1>1, VerifyStepChanges, ChangeStepChanges, ConnectionStepChanges
<1>2. CASE Start
  BY <1>2 DEF Start, Changed, Cleaned
<1>3. CASE Reboot
  BY <1>3 DEF Reboot, ZeroRam, Changed
<1>4. CASE RebootDuringPurge
  <2>1. ~running'
    BY <1>4 DEF RebootDuringPurge, ZeroRam
  <2>2. CASE ~running /\ pairings' \in PartlyPurged(pairings)
    BY <1>4, <2>1, <2>2 DEF RebootDuringPurge, Changed, CutShort
  <2>3. ASSUME NEW s \in Sessions, NEW c \in Controllers, ExpectsM1(s), IsAdmin(s),
               NEW p \in Updated(c, FALSE),
               ~HasAdmin(p), pairings' \in PartlyPurged(p)
        PROVE  Changed
    <3>1. HasAdmin(pairings)
      BY <2>3, AdminThere DEF ExpectsM1
    <3> QED
      BY <2>1, <2>3, <3>1, UpdatedRevised DEF Changed, CutShort
  <2>4. ASSUME NEW s \in Sessions, Removes(s), NEW key \in KeysToRemove(s),
               ~HasAdmin(Without(key)), pairings' \in PartlyPurged(Without(key))
        PROVE  Changed
    <3>1. HasAdmin(pairings)
      BY <2>4, AdminThere DEF Removes, ExpectsM2
    <3> QED
      BY <2>1, <2>4, <3>1, WithoutRevised DEF Changed, CutShort
  <2> QED
    BY <1>4, <2>2, <2>3, <2>4 DEF RebootDuringPurge
<1>5. CASE UNCHANGED vars
  BY <1>5, SameList DEF vars
<1> QED
  BY <1>1, <1>2, <1>3, <1>4, <1>5 DEF Next

-----------------------------------------------------------------------------
(***************************************************************************)
(* One pairing per controller.                                             *)
(***************************************************************************)

One(p) ==
    \A j, k \in Keys : Stored(p, j) /\ p[j].who = p[k].who => j = k

\* Where q says less than p.
Fewer(p, q) == \A k \in Keys : q[k].who \in {p[k].who, NoController}

LEMMA FewerOne ==
    ASSUME NEW p \in Lists, NEW q, Fewer(p, q), One(p)
    PROVE  One(q)
BY DEF One, Fewer, Stored

LEMMA CleanupFewer ==
    ASSUME NEW p
    PROVE  /\ Fewer(p, Cleanup(p))
           /\ HasAdmin(Cleanup(p)) \/ Cleanup(p) = NoPairings
BY DEF Fewer, Cleanup, NoPairings, NoPairing

LEMMA PartlyPurgedFewer ==
    ASSUME NEW p \in Lists, NEW q \in PartlyPurged(p)
    PROVE  /\ Fewer(p, q)
           /\ ~HasAdmin(p) => ~HasAdmin(q)
<1>1. \A k \in Keys : q[k] = p[k] \/ q[k] = NoPairing
  BY PartlyPurgedType
<1> QED
  BY <1>1 DEF Fewer, HasAdmin, NoPairing

LEMMA RevisedFewer ==
    ASSUME NEW p \in Lists, NEW u \in Revised(p)
    PROVE  u \in Lists /\ Fewer(p, u)
BY DEF Revised, Fewer

LEMMA FewerTrans ==
    ASSUME NEW p, NEW q, NEW r, Fewer(p, q), Fewer(q, r)
    PROVE  Fewer(p, r)
BY DEF Fewer

LEMMA FoundedOne ==
    ASSUME NEW p \in Lists, NEW q, Founded(p, q)
    PROVE  One(q)
<1>1. PICK c \in Controllers : q = [p EXCEPT ![0] = [who |-> c, admin |-> TRUE]]
  BY DEF Founded
<1>2. \A k \in Keys : p[k].who = NoController
  BY DEF Founded, IsPaired, Stored
<1>3. /\ q[0].who = c
      /\ \A k \in Keys \ {0} : q[k] = p[k]
  BY <1>1, KeysType DEF Lists
<1> QED
  BY <1>2, <1>3, PairingsAssumption DEF One, Stored

LEMMA AddedOne ==
    ASSUME NEW p \in Lists, NEW q, Added(p, q), One(p)
    PROVE  One(q) /\ HasAdmin(q) /\ q \in Lists
<1>1. PICK c \in Controllers, k \in FreeKeys(p), a \in BOOLEAN :
          Find(p, c) = {} /\ q = [p EXCEPT ![k] = [who |-> c, admin |-> a]]
  BY DEF Added
<1>2. k \in Keys /\ ~Stored(p, k)
  BY DEF FreeKeys
<1>3. /\ q \in Lists
      /\ q[k] = [who |-> c, admin |-> a]
      /\ \A j \in Keys \ {k} : q[j] = p[j]
  BY <1>1, <1>2, SetType DEF Lists
<1>4. \A j \in Keys : p[j].who # c
  BY <1>1 DEF Find
<1>5. One(q)
  BY <1>2, <1>3, <1>4 DEF One, Stored
<1>6. PICK j \in Keys : p[j].admin
  BY DEF Added, HasAdmin
<1>7. j # k
  BY <1>2, <1>6, PairingFacts
<1> QED
  BY <1>3, <1>5, <1>6, <1>7 DEF HasAdmin

LEMMA NextOne ==
    ASSUME IInv, One(pairings), [Next]_vars
    PROVE  One(pairings')
<1> DEFINE p == pairings
           q == pairings'
<1>1. p \in Lists /\ Changed
  BY NextChanges DEF IInv, TypeOK, Lists
<1>2. CASE q = p
  BY <1>2
<1>3. CASE Founded(p, q) \/ Added(p, q)
  BY <1>1, <1>3, FoundedOne, AddedOne
<1>4. CASE Cleaned(p, q)
  <2>1. Fewer(p, q)
    BY <1>1, <1>4, CleanupFewer, RevisedFewer, FewerTrans DEF Cleaned
  <2> QED
    BY <1>1, <2>1, FewerOne
<1>5. CASE CutShort(p, q)
  <2>1. Fewer(p, q)
    BY <1>1, <1>5, PartlyPurgedFewer, RevisedFewer, FewerTrans DEF CutShort
  <2> QED
    BY <1>1, <2>1, FewerOne
<1> QED
  BY <1>1, <1>2, <1>3, <1>4, <1>5 DEF Changed

LEMMA SpecOne == Spec => []One(pairings)
<1>1. Init => One(pairings)
  BY DEF Init, One, Stored, NoPairings, NoPairing
<1>2. IInv /\ One(pairings) /\ [Next]_vars => One(pairings)'
  BY NextOne DEF One, Stored
<1> QED
  BY <1>1, <1>2, SpecIInv, PTL DEF Spec

\* No order of requests, removals, purges and power losses leaves two pairings
\* of one controller, of which HAPPairingFind would find only one.
THEOREM OnePairing == Spec => []OnePairingPerController
<1>1. One(pairings) => OnePairingPerController
  BY DEF One, OnePairingPerController
<1> QED
  BY <1>1, SpecOne, PTL

-----------------------------------------------------------------------------
(***************************************************************************)
(* An admin for every accessory that is paired and running.                *)
(***************************************************************************)

LEMMA NextAdmin ==
    ASSUME ~StoreMayFail, IInv, One(pairings), AdminExists, [Next]_vars
    PROVE  running' /\ IsPaired(pairings') => HasAdmin(pairings')
<1> DEFINE p == pairings
           q == pairings'
<1>1. p \in Lists /\ Changed
  BY NextChanges DEF IInv, TypeOK, Lists
<1>2. CASE q = p /\ (running' => running)
  BY <1>2 DEF AdminExists
<1>3. CASE Founded(p, q)
  <2>1. q[0].admin
    BY <1>1, <1>3, KeysType DEF Founded, Lists
  <2> QED
    BY <2>1, KeysType DEF HasAdmin
<1>4. CASE Added(p, q)
  BY <1>1, <1>4, AddedOne
<1>5. CASE Cleaned(p, q)
  <2>1. HasAdmin(q) \/ q = NoPairings
    BY <1>5, CleanupFewer DEF Cleaned
  <2>2. ~IsPaired(NoPairings)
    BY DEF IsPaired, Stored, NoPairings, NoPairing
  <2> QED
    BY <2>1, <2>2
<1> QED
  BY <1>1, <1>2, <1>3, <1>4, <1>5 DEF Changed

\* While the store works, an accessory that is running and paired has an admin:
\* HAPAccessoryServerCleanupPairings is called wherever the last one may go, and
\* a purge that was cut short is completed before the accessory runs again.
THEOREM AlwaysAnAdmin == ~StoreMayFail => (Spec => []AdminExists)
<1> SUFFICES ASSUME ~StoreMayFail PROVE Spec => []AdminExists
  OBVIOUS
<1>1. Init => AdminExists
  BY DEF Init, AdminExists
<1>2. IInv /\ One(pairings) /\ AdminExists /\ [Next]_vars => AdminExists'
  BY NextAdmin DEF AdminExists, IsPaired, HasAdmin, Stored
<1> QED
  BY <1>1, <1>2, SpecIInv, SpecOne, PTL DEF Spec

-----------------------------------------------------------------------------
(***************************************************************************)
(* The list of pairings implements PairingTable.                           *)
(***************************************************************************)

\* What the pairing v gives its controller c.
Given(v, c) ==
    IF v.who # c THEN "none" ELSE IF v.admin THEN "admin" ELSE "user"

LEMMA AccessOfPairing ==
    ASSUME NEW p \in Lists, One(p), HasAdmin(p), NEW c \in Controllers
    PROVE  /\ \A k \in Keys : p[k].who = c => AccessOf(p, c) = Given(p[k], c)
           /\ (\A k \in Keys : p[k].who # c) => AccessOf(p, c) = "none"
           /\ AccessOf(p, c) = "admin" =>
                 \E k \in Keys : p[k].who = c /\ p[k].admin
<1>1. ASSUME NEW k \in Keys, p[k].who = c
      PROVE  AccessOf(p, c) = Given(p[k], c)
  <2>1. Stored(p, k)
    BY <1>1, PairingsAssumption DEF Stored
  <2>2. Find(p, c) = {k}
    BY <1>1, <2>1 DEF Find, One, Stored
  <2> QED
    BY <1>1, <2>2 DEF AccessOf, Given
<1>2. (\A k \in Keys : p[k].who # c) => AccessOf(p, c) = "none"
  BY DEF AccessOf, Find
<1>3. AccessOf(p, c) = "admin" => \E k \in Keys : p[k].who = c /\ p[k].admin
  BY DEF AccessOf, Find
<1> QED
  BY <1>1, <1>2, <1>3

LEMMA NobodyWithoutAdmin ==
    ASSUME NEW p, ~HasAdmin(p)
    PROVE  AccessBy(p) = Table!Nobody
BY DEF AccessBy, AccessOf, Table!Nobody

LEMMA AdminInTable ==
    ASSUME NEW p \in Lists, One(p), HasAdmin(p)
    PROVE  Table!Admins(AccessBy(p)) # {}
<1>1. PICK k \in Keys : p[k].admin
  BY DEF HasAdmin
<1>2. p[k].who \in Controllers
  BY <1>1, PairingFacts
<1>3. AccessOf(p, p[k].who) = "admin"
  BY <1>1, <1>2, AccessOfPairing DEF Given
<1> QED
  BY <1>2, <1>3 DEF Table!Admins, AccessBy

\* A purge, to its end or not, takes no more access than there was.
LEMMA CleanupAccess ==
    ASSUME NEW p
    PROVE  AccessBy(Cleanup(p)) = AccessBy(p)
BY NobodyWithoutAdmin, NoPairingsType DEF Cleanup

LEMMA PurgeAccess ==
    ASSUME NEW p \in Lists, ~HasAdmin(p), NEW q \in PartlyPurged(p)
    PROVE  AccessBy(q) = AccessBy(p)
BY NobodyWithoutAdmin, PartlyPurgedFewer

\* The pairing of one controller changes, while there is an admin.
LEMMA OneChanges ==
    ASSUME NEW p \in Lists, NEW q \in Lists, One(p), One(q), HasAdmin(p),
           NEW k \in Keys, NEW c \in Controllers,
           \A j \in Keys \ {k} : q[j] = p[j] /\ p[j].who # c,
           p[k].who \in {c, NoController}, q[k].who \in {c, NoController}
    PROVE  AccessBy(q) =
              Table!Kept([AccessBy(p) EXCEPT ![c] = Given(q[k], c)])
<1> DEFINE a == [AccessBy(p) EXCEPT ![c] = Given(q[k], c)]
<1>1. a = [d \in Controllers |-> IF d = c THEN Given(q[k], c) ELSE AccessOf(p, d)]
  BY DEF AccessBy
<1>2. \A d \in Controllers \ {c} : p[k].who # d /\ q[k].who # d
  BY PairingsAssumption
<1>3. CASE HasAdmin(q)
  <2>1. ASSUME NEW d \in Controllers \ {c}
        PROVE  AccessOf(q, d) = AccessOf(p, d)
    <3>1. CASE \E j \in Keys : p[j].who = d
      <4>1. PICK j \in Keys : p[j].who = d
        BY <3>1
      <4>2. j # k
        BY <1>2, <4>1
      <4>3. q[j] = p[j]
        BY <4>2
      <4>4. AccessOf(p, d) = Given(p[j], d)
        BY <4>1, AccessOfPairing
      <4>5. AccessOf(q, d) = Given(q[j], d)
        BY <1>3, <4>1, <4>3, AccessOfPairing
      <4> QED
        BY <4>3, <4>4, <4>5
    <3>2. CASE \A j \in Keys : p[j].who # d
      <4>1. \A j \in Keys : q[j].who # d
        BY <1>2, <3>2
      <4> QED
        BY <1>3, <3>2, <4>1, AccessOfPairing
    <3> QED
      BY <3>1, <3>2
  <2>2. AccessOf(q, c) = Given(q[k], c)
    <3>1. CASE q[k].who = c
      BY <1>3, <3>1, AccessOfPairing
    <3>2. CASE q[k].who # c
      <4>1. \A j \in Keys : q[j].who # c
        BY <3>2
      <4> QED
        BY <1>3, <3>2, <4>1, AccessOfPairing DEF Given
    <3> QED
      BY <3>1, <3>2
  <2>3. AccessBy(q) = a
    BY <1>1, <2>1, <2>2 DEF AccessBy
  <2>4. Table!Admins(a) # {}
    BY <1>3, <2>3, AdminInTable
  <2> QED
    BY <2>3, <2>4 DEF Table!Kept
<1>4. CASE ~HasAdmin(q)
  <2>1. AccessBy(q) = Table!Nobody
    BY <1>4, NobodyWithoutAdmin
  <2>2. \A d \in Controllers \ {c} : AccessOf(p, d) # "admin"
    <3>1. SUFFICES ASSUME NEW d \in Controllers \ {c}, AccessOf(p, d) = "admin"
                   PROVE  FALSE
      OBVIOUS
    <3>2. PICK j \in Keys : p[j].who = d /\ p[j].admin
      BY <3>1, AccessOfPairing
    <3>3. j # k
      BY <1>2, <3>2
    <3>4. q[j].admin
      BY <3>2, <3>3
    <3> QED
      BY <1>4, <3>4 DEF HasAdmin
  <2>3. Given(q[k], c) # "admin"
    BY <1>4 DEF HasAdmin, Given
  <2>4. Table!Admins(a) = {}
    BY <1>1, <2>2, <2>3 DEF Table!Admins
  <2> QED
    BY <2>1, <2>4 DEF Table!Kept
<1> QED
  BY <1>3, <1>4

\* A controller's pairing is changed or removed.
LEMMA RevisedAccess ==
    ASSUME NEW p \in Lists, One(p), HasAdmin(p), NEW u \in Revised(p)
    PROVE  \/ AccessBy(u) = AccessBy(p)
           \/ \E c \in Controllers, v \in {"none", "user", "admin"} :
                 AccessBy(u) = Table!Kept([AccessBy(p) EXCEPT ![c] = v])
<1>1. u \in Lists /\ One(u)
  BY RevisedFewer, FewerOne
<1>2. PICK k \in Keys : /\ u[k].who \in {p[k].who, NoController}
                       /\ \A j \in Keys \ {k} : u[j] = p[j]
  BY DEF Revised
<1>3. CASE Stored(p, k)
  <2> DEFINE c == p[k].who
  <2>1. c \in Controllers
    BY <1>3, PairingFacts
  <2>2. \A j \in Keys \ {k} : p[j].who # c
    BY <1>3 DEF One, Stored
  <2>3. Given(u[k], c) \in {"none", "user", "admin"}
    BY DEF Given
  <2>4. AccessBy(u) = Table!Kept([AccessBy(p) EXCEPT ![c] = Given(u[k], c)])
    BY <1>1, <1>2, <2>1, <2>2, OneChanges
  <2> QED
    BY <2>1, <2>3, <2>4
<1>4. CASE ~Stored(p, k)
  <2>1. p[k] = NoPairing /\ u[k] = NoPairing
    BY <1>1, <1>2, <1>4, PairingFacts DEF Stored
  <2>2. u = p
    BY <1>1, <1>2, <2>1 DEF Lists
  <2> QED
    BY <2>2
<1> QED
  BY <1>3, <1>4

\* A step is a step of the table, or leaves it as it is.
TableStep(a, b) ==
    \/ b = a
    \/ \E c \in Controllers :
          \/ a = Table!Nobody /\ b = [a EXCEPT ![c] = "admin"]
          \/ /\ Table!Admins(a) # {}
             /\ \E v \in {"none", "user", "admin"} : b = Table!Kept([a EXCEPT ![c] = v])

LEMMA FoundedAccess ==
    ASSUME NEW p \in Lists, NEW q, Founded(p, q)
    PROVE  TableStep(AccessBy(p), AccessBy(q))
<1>1. PICK c \in Controllers : q = [p EXCEPT ![0] = [who |-> c, admin |-> TRUE]]
  BY DEF Founded
<1>2. \A k \in Keys : ~p[k].admin /\ p[k].who = NoController
  BY PairingFacts DEF Founded, IsPaired, Stored
<1>3. AccessBy(p) = Table!Nobody
  BY <1>2, NobodyWithoutAdmin DEF HasAdmin
<1>4. /\ q[0] = [who |-> c, admin |-> TRUE]
      /\ \A k \in Keys \ {0} : q[k] = p[k]
      /\ 0 \in Keys
  BY <1>1, KeysType DEF Lists
<1>5. HasAdmin(q)
  BY <1>4 DEF HasAdmin
<1>6. ASSUME NEW d \in Controllers
      PROVE  AccessOf(q, d) = IF d = c THEN "admin" ELSE "none"
  <2>1. Find(q, d) = IF d = c THEN {0} ELSE {}
    BY <1>2, <1>4, PairingsAssumption DEF Find
  <2> QED
    BY <1>4, <1>5, <2>1 DEF AccessOf
<1>7. AccessBy(q) = [Table!Nobody EXCEPT ![c] = "admin"]
  BY <1>6 DEF AccessBy, Table!Nobody
<1> QED
  BY <1>3, <1>7 DEF TableStep

LEMMA AddedAccess ==
    ASSUME NEW p \in Lists, NEW q, Added(p, q), One(p)
    PROVE  TableStep(AccessBy(p), AccessBy(q))
<1>1. PICK c \in Controllers, k \in FreeKeys(p), a \in BOOLEAN :
          Find(p, c) = {} /\ q = [p EXCEPT ![k] = [who |-> c, admin |-> a]]
  BY DEF Added
<1>2. k \in Keys /\ p[k].who = NoController
  BY DEF FreeKeys, Stored
<1>3. q \in Lists /\ One(q) /\ HasAdmin(p)
  BY AddedOne DEF Added
<1>4. /\ q[k].who = c
      /\ \A j \in Keys \ {k} : q[j] = p[j] /\ p[j].who # c
  BY <1>1, <1>2 DEF Lists, Find
<1>5. AccessBy(q) = Table!Kept([AccessBy(p) EXCEPT ![c] = Given(q[k], c)])
  BY <1>2, <1>3, <1>4, OneChanges
<1>6. Given(q[k], c) \in {"none", "user", "admin"}
  BY DEF Given
<1>7. Table!Admins(AccessBy(p)) # {}
  BY <1>3, AdminInTable
<1> QED
  BY <1>5, <1>6, <1>7 DEF TableStep

LEMMA RevisedTable ==
    ASSUME NEW p \in Lists, One(p), HasAdmin(p), NEW u \in Revised(p)
    PROVE  TableStep(AccessBy(p), AccessBy(u))
BY RevisedAccess, AdminInTable DEF TableStep

LEMMA NextTable ==
    ASSUME IInv, One(pairings), [Next]_vars
    PROVE  TableStep(AccessBy(pairings), AccessBy(pairings'))
<1> DEFINE p == pairings
           q == pairings'
<1>1. p \in Lists /\ Changed
  BY NextChanges DEF IInv, TypeOK, Lists
<1>2. CASE q = p
  BY <1>2 DEF TableStep
<1>3. CASE Founded(p, q) \/ Added(p, q)
  BY <1>1, <1>3, FoundedAccess, AddedAccess
<1>4. CASE Cleaned(p, q)
  <2>1. CASE q = Cleanup(p)
    BY <2>1, CleanupAccess DEF TableStep
  <2>2. ASSUME HasAdmin(p), NEW u \in Revised(p), q = Cleanup(u)
        PROVE  TableStep(AccessBy(p), AccessBy(q))
    BY <1>1, <2>2, CleanupAccess, RevisedTable
  <2> QED
    BY <1>4, <2>1, <2>2 DEF Cleaned
<1>5. CASE CutShort(p, q)
  <2>1. CASE ~HasAdmin(p) /\ q \in PartlyPurged(p)
    BY <1>1, <2>1, PurgeAccess DEF TableStep
  <2>2. ASSUME HasAdmin(p), NEW u \in Revised(p), ~HasAdmin(u), q \in PartlyPurged(u)
        PROVE  TableStep(AccessBy(p), AccessBy(q))
    <3>1. AccessBy(q) = AccessBy(u)
      BY <1>1, <2>2, RevisedFewer, PurgeAccess
    <3>2. TableStep(AccessBy(p), AccessBy(u))
      BY <1>1, <2>2, RevisedTable
    <3> QED
      BY <3>1, <3>2
  <2> QED
    BY <1>5, <2>1, <2>2 DEF CutShort
<1> QED
  BY <1>1, <1>2, <1>3, <1>4, <1>5 DEF Changed

\* Whatever sessions do at the same time, and wherever the power is lost, the
\* list of pairings implements the table of who has access: only an admin
\* changes it, and nobody has access when the last admin is gone.
THEOREM TableKept == Spec => KeepsTable
<1>1. Init => Table!Init
  BY NobodyWithoutAdmin, NoPairingsType DEF Init, Table!Init
<1>2. IInv /\ One(pairings) /\ [Next]_vars => [Table!Next]_(AccessBy(pairings))
  <2> SUFFICES ASSUME IInv, One(pairings), [Next]_vars
               PROVE  [Table!Next]_(AccessBy(pairings))
    OBVIOUS
  <2> DEFINE a == AccessBy(pairings)
             b == AccessBy(pairings')
  <2>1. TableStep(a, b)
    BY NextTable
  <2>2. AccessBy(pairings)' = b
    BY DEF AccessBy, AccessOf, HasAdmin, Find
  <2>3. CASE b = a
    BY <2>2, <2>3
  <2>4. ASSUME NEW c \in Controllers, a = Table!Nobody, b = [a EXCEPT ![c] = "admin"]
        PROVE  Table!Next
    <3>1. Table!Own(c)
      BY <2>2, <2>4 DEF Table!Own
    <3> QED
      BY <3>1 DEF Table!Next
  <2>5. ASSUME NEW c \in Controllers, NEW v \in {"none", "user", "admin"},
               Table!Admins(a) # {}, b = Table!Kept([a EXCEPT ![c] = v])
        PROVE  Table!Next
    <3>1. CASE v = "none"
      <4>1. Table!Revoke(c)
        BY <2>2, <2>5, <3>1 DEF Table!Revoke
      <4> QED
        BY <4>1 DEF Table!Next
    <3>2. CASE v # "none"
      <4>1. Table!Grant(c, v)
        BY <2>2, <2>5 DEF Table!Grant
      <4>2. v \in Table!Access \ {"none"}
        BY <3>2 DEF Table!Access
      <4> QED
        BY <4>1, <4>2 DEF Table!Next
    <3> QED
      BY <3>1, <3>2
  <2> QED
    BY <2>1, <2>3, <2>4, <2>5 DEF TableStep
<1> QED
  BY <1>1, <1>2, SpecIInv, SpecOne, PTL DEF Spec, KeepsTable, Table!Spec

-----------------------------------------------------------------------------
(***************************************************************************)
(* Without BLE, a session whose pairing has been removed does not read.    *)
(***************************************************************************)

\* Of the sessions but s, none reads without its pairing.
Quiet(s) ==
    \A t \in IPSessions \ {s} : sess[t].io = "reading" => ~Removed(sess[t], pairings)

\* Between the halves of a handler there may be such sessions: the purge of an
\* update has been made, and the read that follows will close them.
Purging(s) == sess[s].flag /\ sess[s].change.step = 1 /\ sess[s].change.method = "add"

QInv ==
    /\ handling = NoSession => Quiet(NoSession)
    /\ \A s \in IPSessions : handling = s => Quiet(s) \/ Purging(s)

LEMMA QuietWrite ==
    ASSUME IInv, BLESessions = {}, QInv, handling = NoSession,
           NEW s \in IPSessions, NEW r, NEW p, WriteDone(s, r, p),
           \A k \in Keys : Stored(pairings, k) => Stored(pairings', k)
    PROVE  QInv'
<1>1. handling' = s /\ sess' = [sess EXCEPT ![s] = r]
  BY DEF WriteDone
<1>2. sess \in [Sessions -> Session] /\ s \in Sessions /\ s # NoSession
  BY Apart DEF IInv, SessionsOK, Sessions
<1>3. ASSUME NEW t \in IPSessions \ {s}, sess'[t].io = "reading",
             Removed(sess'[t], pairings')
      PROVE  FALSE
  <2>1. sess'[t] = sess[t] /\ sess[t] \in Session /\ t # NoSession
    BY <1>1, <1>2, Apart DEF Sessions
  <2>2. sess[t].hap # Nobody => sess[t].hap.key \in Keys
    BY <2>1 DEF Session, Identity
  <2>3. Removed(sess[t], pairings)
    BY <1>3, <2>1, <2>2 DEF Removed, IsSecured
  <2> QED
    BY <1>3, <2>1, <2>3 DEF QInv, Quiet
<1>4. Quiet(s)'
  BY <1>3 DEF Quiet
<1> QED
  BY <1>1, <1>2, <1>4 DEF QInv

LEMMA QuietUpdate ==
    ASSUME IInv, NEW s \in IPSessions, NEW r, NEW p, WriteDone(s, r, p), BLESessions = {},
           r.flag, r.change.step = 1, r.change.method = "add"
    PROVE  QInv'
<1>1. handling' = s /\ sess' = [sess EXCEPT ![s] = r]
  BY DEF WriteDone
<1>2. sess \in [Sessions -> Session] /\ s \in Sessions /\ s # NoSession
  BY Apart DEF IInv, SessionsOK, Sessions
<1>3. Purging(s)'
  BY <1>1, <1>2 DEF Purging
<1> QED
  BY <1>1, <1>2, <1>3 DEF QInv

\* An answer closes the sessions that read without their pairing.
LEMMA AnswerQuiet ==
    ASSUME BLESessions = {}, NEW s \in IPSessions, NEW r, SessionOK(s, r), NEW p,
           sess' = Answer(s, r, p), pairings' = p
    PROVE  Quiet(NoSession)'
<1>1. Respond(s, r, p).io = "writing"
  BY RespondOK DEF Sessions
<1>2. ASSUME NEW t \in IPSessions, sess'[t].io = "reading"
      PROVE  ~Removed(sess'[t], p)
  <2>1. t # s /\ t \in Sessions
    BY <1>1, <1>2 DEF Answer, Sessions
  <2>2. CASE sess[t].io = "reading" /\ Removed(sess[t], p)
    <3>1. sess'[t] = Closed
      BY <2>1, <2>2 DEF Answer
    <3> QED
      BY <3>1 DEF Closed, Removed
  <2>3. CASE ~(sess[t].io = "reading" /\ Removed(sess[t], p))
    <3>1. sess'[t] = sess[t]
      BY <2>1, <2>3 DEF Answer
    <3> QED
      BY <1>2, <2>3, <3>1
  <2> QED
    BY <2>2, <2>3
<1> QED
  BY <1>2 DEF Quiet

LEMMA QuietRead ==
    ASSUME BLESessions = {}, NEW s \in IPSessions, NEW r, SessionOK(s, r),
           NEW p, ReadDone(s, r, p), pairings' = p
    PROVE  QInv'
<1>1. Quiet(NoSession)' /\ handling' = NoSession
  BY AnswerQuiet DEF ReadDone
<1> QED
  BY <1>1, Apart DEF QInv, Sessions

LEMMA QuietFail ==
    ASSUME IInv, BLESessions = {}, NEW s \in IPSessions, Quiet(s), NEW r, SessionOK(s, r),
           FailRequest(s, r)
    PROVE  QInv'
<1>1. Respond(s, r, pairings).io = "writing"
  BY RespondOK DEF Sessions
<1>2. sess \in [Sessions -> Session] /\ s \in Sessions
  BY DEF IInv, SessionsOK, Sessions
<1>3. ASSUME NEW t \in IPSessions, sess'[t].io = "reading"
      PROVE  ~Removed(sess'[t], pairings')
  <2>1. t # s /\ sess'[t] = sess[t] /\ pairings' = pairings
    BY <1>1, <1>2, <1>3 DEF FailRequest, Sessions
  <2> QED
    BY <1>3, <2>1 DEF Quiet
<1>4. handling' = NoSession
  BY DEF FailRequest
<1> QED
  BY <1>3, <1>4, Apart DEF QInv, Quiet, Sessions

LEMMA QuietSession ==
    ASSUME IInv, BLESessions = {}, QInv, handling = NoSession,
           NEW s \in IPSessions, NEW r, SessionStep(s, r),
           r.io = "reading" => ~Removed(r, pairings)
    PROVE  QInv'
<1>1. sess \in [Sessions -> Session] /\ s \in Sessions
  BY DEF IInv, SessionsOK, Sessions
<1>2. ASSUME NEW t \in IPSessions, sess'[t].io = "reading"
      PROVE  ~Removed(sess'[t], pairings')
  <2>1. pairings' = pairings /\ t # NoSession
    BY Apart DEF SessionStep, Sessions
  <2>2. CASE t = s
    <3>1. sess'[t] = r
      BY <1>1, <2>2 DEF SessionStep
    <3> QED
      BY <1>2, <2>1, <3>1
  <2>3. CASE t # s
    <3>1. sess'[t] = sess[t]
      BY <1>1, <2>3 DEF SessionStep, Sessions
    <3> QED
      BY <1>2, <2>1, <3>1 DEF QInv, Quiet
  <2> QED
    BY <2>2, <2>3
<1>3. handling' = NoSession
  BY DEF SessionStep
<1> QED
  BY <1>2, <1>3, Apart DEF QInv, Quiet, Sessions

LEMMA QuietSame ==
    ASSUME QInv, UNCHANGED <<pairings, sess, handling>>
    PROVE  QInv'
BY DEF QInv, Quiet, Purging, Removed, IsSecured, Stored

LEMMA WriterIdle ==
    ASSUME IInv, NEW s, NEW e, CanWrite(s, e)
    PROVE  handling = NoSession
BY DEF CanWrite, Ready

LEMMA VerifyStepQuiet ==
    ASSUME IInv, BLESessions = {}, QInv, NEW s \in IPSessions, VerifyStep(s)
    PROVE  QInv'
<1> USE DEF Sessions
<1>1. ASSUME NEW v, CanWrite(s, "open"), VerifyWritten(s, v)
      PROVE  QInv'
  BY <1>1, WriterIdle, QuietWrite DEF VerifyWritten
<1>2. CASE VerifyM1(s) \/ VerifyM3Refused(s) \/ \E c \in Controllers : VerifyM3(s, c)
  BY <1>1, <1>2 DEF VerifyM1, VerifyM3Refused, VerifyM3
<1>3. CASE \E slot \in Slots, decrypts \in BOOLEAN : ResumeM1(s, slot, decrypts)
  BY <1>3 DEF ResumeM1
<1>4. CASE VerifyM1Active(s) \/ StartSessionUnpaired(s)
  BY <1>4, QuietSame DEF VerifyM1Active, StartSessionUnpaired, Fail
<1>5. CASE VerifyReadError(s)
  <2>1. SessionOK(s, [sess[s] EXCEPT !.verify = NoVerify])
    BY WithVerify, NoVerifyType, SessionFacts
  <2> QED
    BY <1>5, <2>1, QuietRead DEF VerifyReadError
<1>6. CASE VerifyM2(s)
  <2>1. 2 \in 0 .. 3
    OBVIOUS
  <2>2. SessionOK(s, [sess[s] EXCEPT !.verify.step = 2])
    BY <2>1, SessionFacts DEF SessionOK, Session, Verify
  <2> QED
    BY <1>6, <2>2, QuietRead DEF VerifyM2
<1>7. CASE ResumeM2(s) \/ VerifyM4(s)
  <2>0. StartSession(s)
    BY <1>7 DEF ResumeM2, VerifyM4
  <2>1. SessionOK(s, Started(s))
    BY <2>0, StartedOK, SessionFacts DEF StartSession
  <2> QED
    BY <2>0, <2>1, QuietRead DEF StartSession
<1> QED
  BY <1>2, <1>3, <1>4, <1>5, <1>6, <1>7 DEF VerifyStep

LEMMA ChangeWrittenQuiet ==
    ASSUME IInv, BLESessions = {}, QInv, NEW s \in IPSessions, CanWrite(s, "admin"),
           NEW method \in Methods, NEW target \in Controllers \cup {NoController},
           NEW error \in BOOLEAN, NEW p, ChangeWritten(s, method, target, error, p),
           \/ method = "add"
           \/ \A k \in Keys : Stored(pairings, k) => Stored(pairings', k)
    PROVE  QInv'
<1> DEFINE c == [step |-> 1, method |-> method, target |-> target, error |-> error]
           r == [Received(s, "admin") EXCEPT !.change = c]
<1>1. c \in Change /\ c.step = 1 /\ c.method = method
  BY DEF Change
<1>2. WriteDone(s, r, p)
  BY DEF ChangeWritten
<1> HIDE DEF c
<1>3. Received(s, "admin").flag /\ SessionOK(s, Received(s, "admin"))
  BY ReceivedOK DEF IInv, Sessions
<1>4. r.flag /\ r.change = c
  BY <1>1, <1>3, WithChange
<1> HIDE DEF r
<1>5. CASE method = "add"
  BY <1>1, <1>2, <1>4, <1>5, QuietUpdate
<1>6. CASE \A k \in Keys : Stored(pairings, k) => Stored(pairings', k)
  BY <1>2, <1>6, WriterIdle, QuietWrite
<1> QED
  BY <1>5, <1>6

LEMMA ChangeStepQuiet ==
    ASSUME IInv, BLESessions = {}, QInv, NEW s \in IPSessions, ChangeStep(s)
    PROVE  QInv'
<1> DEFINE r == [sess[s] EXCEPT !.change = NoChange]
<1>0. SessionOK(s, r)
  BY WithChange, NoChangeType, SessionFacts DEF Sessions
<1> HIDE DEF r
<1>1. ASSUME NEW method \in Methods, ChangeRefused(s, method)
      PROVE  QInv'
  BY <1>1, ChangeWrittenQuiet DEF ChangeRefused, ExpectsM1
<1>2. ASSUME ListM1(s) \/ \E c \in Controllers : RemoveM1(s, c)
      PROVE  QInv'
  <2>1. {"remove", "list"} \subseteq Methods
    BY DEF Methods
  <2> QED
    BY <1>2, <2>1, ChangeWrittenQuiet DEF RemoveM1, ListM1, ExpectsM1
<1>3. ASSUME NEW c \in Controllers,
             \/ AddM1Refused(s, c)
             \/ \E admin \in BOOLEAN : \/ UpdateM1(s, c, admin) \/ AddM1(s, c, admin)
                                      \/ UpdateM1NotCleaned(s, c, admin)
      PROVE  QInv'
  <2>1. /\ CanWrite(s, "admin")
        /\ \E error \in BOOLEAN : \E p : ChangeWritten(s, "add", c, error, p)
    BY <1>3 DEF UpdateM1, AddM1, AddM1Refused, UpdateM1NotCleaned, ExpectsAddM1, ExpectsM1
  <2>2. "add" \in Methods
    BY DEF Methods
  <2> QED
    BY <2>1, <2>2, ChangeWrittenQuiet
<1>4. CASE ChangeReadError(s) \/ M2Refused(s) \/ AddM2(s) \/ ListM2(s)
  BY <1>0, <1>4, QuietRead DEF ChangeReadError, M2Refused, AddM2, ListM2, Responds, r
<1>5. CASE OwnPairingGone(s)
  BY <1>5, QuietSame DEF OwnPairingGone, Fail
<1>6. CASE RemoveM2(s)
  <2>1. \E p : pairings' = p /\ ReadDone(s, r, p)
    BY <1>6 DEF RemoveM2, r
  <2> QED
    BY <1>0, <2>1, QuietRead
<1>7. CASE RemoveM2Nothing(s) \/ RemoveM2NotCleaned(s)
  BY <1>0, <1>7, QuietRead DEF RemoveM2Nothing, RemoveM2NotCleaned, Responds, r
<1>8. CASE ReadRefused(s)
  BY <1>8 DEF ReadRefused
<1> QED
  BY <1>1, <1>2, <1>3, <1>4, <1>5, <1>6, <1>7, <1>8 DEF ChangeStep

LEMMA RequestStepQuiet ==
    ASSUME IInv, BLESessions = {}, QInv, NEW s \in IPSessions, RequestStep(s)
    PROVE  QInv'
<1> USE DEF Sessions
<1>1. Ready => Quiet(s)
  BY Apart DEF Ready, QInv, Quiet
<1>2. ASSUME NEW e \in Endpoints, WriteRejected(s, e)
      PROVE  QInv'
  <2>1. SessionOK(s, Reset(Received(s, e), e))
    BY <1>2, ReceivedOK, ResetOK DEF WriteRejected, IInv
  <2> QED
    BY <1>1, <1>2, <2>1, QuietFail DEF WriteRejected, CanWrite
<1>3. ASSUME NEW e \in Endpoints, ReadRejected(s, e)
      PROVE  QInv'
  <2>1. handling = s /\ Endpoint(s) = e
    BY <1>3 DEF ReadRejected, CanRead
  <2>2. ~Purging(s)
    BY <1>3, <2>1, Apart DEF ReadRejected, Endpoint, Purging
  <2>3. SessionOK(s, Reset(sess[s], e))
    BY ResetOK, SessionFacts
  <2> QED
    BY <1>3, <2>1, <2>2, <2>3, QuietFail DEF QInv, ReadRejected
<1>4. CASE OtherRequest(s)
  <2> DEFINE b == IsSecured(sess[s], pairings)
             q == [sess[s] EXCEPT !.flag = b]
  <2>1. b \in BOOLEAN /\ (b => sess[s].hap # Nobody)
    BY DEF IsSecured
  <2>2. Ready /\ FailRequest(s, q)
    BY <1>4 DEF OtherRequest
  <2> HIDE DEF b
  <2>3. q \in Session /\ q.flag = b /\ q.hap = sess[s].hap
    BY <2>1, SessionFacts DEF Session
  <2>4. SessionOK(s, q)
    BY <2>1, <2>3 DEF SessionOK
  <2> HIDE DEF q
  <2> QED
    BY <1>1, <2>2, <2>4, QuietFail
<1>5. CASE StoreFails(s)
  BY <1>5, QuietSame DEF StoreFails, Fail
<1> QED
  BY <1>2, <1>3, <1>4, <1>5 DEF RequestStep

LEMMA ConnectionStepQuiet ==
    ASSUME IInv, BLESessions = {}, QInv, NEW s \in IPSessions, ConnectionStep(s)
    PROVE  QInv'
<1> USE DEF Sessions
<1>1. CASE Connect(s)
  <2>1. ~Removed([Closed EXCEPT !.io = "reading"], pairings)
    BY DEF Closed, Removed
  <2> QED
    BY <1>1, <2>1, QuietSession DEF Connect, Ready
<1>2. CASE Disconnect(s)
  BY <1>2, QuietSession DEF Disconnect, Ready, Closed
<1>3. CASE Written(s)
  <2> DEFINE q == IF Removed(sess[s], pairings) THEN Closed
                  ELSE [sess[s] EXCEPT !.io = "reading"]
  <2>1. q.io = "reading" => ~Removed(q, pairings)
    BY SessionFacts DEF Closed, Removed, IsSecured, Session
  <2>2. Ready /\ SessionStep(s, q)
    BY <1>3 DEF Written
  <2> HIDE DEF q
  <2> QED
    BY <2>1, <2>2, QuietSession DEF Ready
<1>4. CASE InputOfRemoved(s)
  BY <1>4, QuietSame DEF InputOfRemoved, Fail
<1>5. CASE DropLink(s) \/ \E e \in Endpoints : BeginProcedure(s, e)
  BY <1>5 DEF DropLink, BeginProcedure
<1>6. ASSUME NEW c \in Controllers, PairSetup(s, c)
      PROVE  QInv'
  <2>1. SessionOK(s, Received(s, "open"))
    BY <1>6, ReceivedOK DEF PairSetup, IInv
  <2>2. Quiet(NoSession)'
    BY <1>6, <2>1, AnswerQuiet DEF PairSetup
  <2>3. handling' = NoSession
    BY <1>6, WriterIdle DEF PairSetup
  <2> QED
    BY <2>2, <2>3, Apart DEF QInv
<1> QED
  BY <1>1, <1>2, <1>3, <1>4, <1>5, <1>6 DEF ConnectionStep

LEMMA ZeroRamQuiet ==
    ASSUME ZeroRam
    PROVE  QInv'
BY Apart DEF ZeroRam, QInv, Quiet, Closed, Sessions

LEMMA NextQuiet ==
    ASSUME IInv, BLESessions = {}, QInv, [Next]_vars
    PROVE  QInv'
<1>1. CASE \E s \in Sessions :
              VerifyStep(s) \/ ChangeStep(s) \/ RequestStep(s) \/ ConnectionStep(s)
  BY <1>1, VerifyStepQuiet, ChangeStepQuiet, RequestStepQuiet, ConnectionStepQuiet
     DEF Sessions
<1>2. CASE Start
  BY <1>2, Apart DEF Start, IInv, QInv, Quiet, Removed, Sessions
<1>3. CASE Reboot \/ RebootDuringPurge
  BY <1>3, ZeroRamQuiet DEF Reboot, RebootDuringPurge
<1>4. CASE UNCHANGED vars
  BY <1>4, QuietSame DEF vars
<1> QED
  BY <1>1, <1>2, <1>3, <1>4 DEF Next

\* In an accessory with IP alone, the assertion of handle_input never fails:
\* of two halves of a handler, and of all handlers in any order, none leaves a
\* session reading whose pairing another session has removed.
THEOREM RemovedSessionsClosed ==
    BLESessions = {} => (Spec => []RemovedNotReading)
<1> SUFFICES ASSUME BLESessions = {} PROVE Spec => []RemovedNotReading
  OBVIOUS
<1>1. Init => QInv
  BY Apart DEF Init, QInv, Quiet, Closed, Sessions
<1>2. IInv /\ QInv /\ [Next]_vars => QInv'
  BY NextQuiet
<1>3. QInv => RemovedNotReading
  BY Apart DEF QInv, Quiet, RemovedNotReading, Ready, Sessions
<1> QED
  BY <1>1, <1>2, <1>3, SpecIInv, PTL DEF Spec

-----------------------------------------------------------------------------
(***************************************************************************)
(* With BLE alone, and a store that works, what a session or the cache     *)
(* knows of a pairing is true of the list: the session that changes the    *)
(* list is the only one there is.  Between the write of a request and its  *)
(* read it may be without the pairing it has just removed.                 *)
(***************************************************************************)
Alone == IPSessions = {} /\ ~StoreMayFail

\* The identity id is that of a pairing of p.
Peer(id, p) == id # Nobody => p[id.key].who = id.who

\* The steps of Pair Verify that have found a pairing.
Proved(v) == v.resume \/ (v.step = 3 /\ ~v.error)

VerifyLinked(v, p) ==
    /\ Peer(v.id, p)
    /\ v.id # Nobody => v.step # 0
    /\ Proved(v) => v.id # Nobody

Linked(r, p) ==
    /\ VerifyLinked(r.verify, p)
    /\ r.verify.step # 0 => r.hap = Nobody
    /\ r.begun = "admin" /\ r.hap # Nobody => r.flag
    /\ \/ Peer(r.hap, p)
       \/ r.begun = "admin" /\ ~Stored(p, r.hap.key)

Bound(r, p, busy) ==
    /\ Linked(r, p)
    /\ r.begun = "open" => r.hap = Nobody
    /\ Peer(r.hap, p) \/ busy

CacheBound(c, p) == \A i \in Slots : Peer(c[i], p)

BInv ==
    /\ CacheBound(cache, pairings)
    /\ \A s \in Sessions : Bound(sess[s], pairings, handling = s)
    /\ ~running => cache = EmptyCache /\ \A s \in Sessions : sess[s] = Closed

LEMMA NobodyPeer == \A p : Peer(Nobody, p)
BY DEF Peer

LEMMA NoVerifyLinked == \A p : VerifyLinked(NoVerify, p)
BY NobodyPeer DEF VerifyLinked, NoVerify, Proved

\* A session that is not active, and whose Pair Verify is v.
LEMMA InactiveLinked ==
    ASSUME NEW r, NEW p, r.hap = Nobody, VerifyLinked(r.verify, p), NEW busy
    PROVE  Bound(r, p, busy)
BY NobodyPeer DEF Bound, Linked

LEMMA InactiveBound ==
    ASSUME NEW r \in Session, NEW p, NEW busy
    PROVE  Bound(Closed, p, busy) /\ Bound(Terminate(r), p, busy)
<1>1. Closed.hap = Nobody /\ Closed.verify = NoVerify
  BY DEF Closed
<1>2. Terminate(r).hap = Nobody /\ Terminate(r).verify = NoVerify
  BY DEF Terminate, Invalidate, Session
<1> QED
  BY <1>1, <1>2, InactiveLinked, NoVerifyLinked

\* A session that has responded is bound again.
LEMMA RespondBound ==
    ASSUME NEW s \in BLESessions, NEW r \in Session, NEW p, Linked(r, p), NEW busy
    PROVE  Bound(Respond(s, r, p), p, busy)
<1>1. CASE Removed(r, p)
  BY <1>1, Apart, InactiveBound DEF Respond
<1>2. CASE ~Removed(r, p)
  <2> DEFINE q == [r EXCEPT !.flag = FALSE, !.begun = "none"]
  <2>1. q.verify = r.verify /\ q.hap = r.hap /\ q.begun = "none"
    BY DEF Session
  <2>2. Peer(r.hap, p)
    BY <1>2, NobodyPeer DEF Removed, IsSecured, Linked
  <2>3. Respond(s, r, p) = q
    BY <1>2, Apart DEF Respond
  <2> HIDE DEF q
  <2> QED
    BY <2>1, <2>2, <2>3 DEF Bound, Linked
<1> QED
  BY <1>1, <1>2

\* The one session there is makes a step.
LEMMA OneBound ==
    ASSUME Alone, IInv, NEW s \in Sessions, NEW r,
           sess' = [sess EXCEPT ![s] = r], Bound(r, pairings', handling' = s),
           CacheBound(cache', pairings'), running' = TRUE
    PROVE  BInv'
<1>1. \A t \in Sessions : t = s
  BY PairingsAssumption DEF Alone, Sessions
<1>2. sess'[s] = r
  BY DEF IInv, SessionsOK
<1>3. \A t \in Sessions : Bound(sess'[t], pairings', handling' = t)
  BY <1>1, <1>2
<1> QED
  BY <1>3 DEF BInv

LEMMA OfBLE == ASSUME Alone, NEW s \in Sessions PROVE s \in BLESessions
BY DEF Alone, Sessions

LEMMA WriteDoneBound ==
    ASSUME Alone, IInv, NEW s \in Sessions, NEW r \in Session,
           WriteDone(s, r, pairings'), Bound(r, pairings', TRUE),
           CacheBound(cache', pairings'), running' = TRUE
    PROVE  BInv'
<1>1. CASE handling' = s /\ sess' = [sess EXCEPT ![s] = r]
  <2>1. Bound(r, pairings', handling' = s)
    BY <1>1
  <2> QED
    BY <1>1, <2>1, OneBound
<1>2. CASE sess' = [sess EXCEPT ![s] = Respond(s, r, pairings')]
  <2>1. Bound(Respond(s, r, pairings'), pairings', handling' = s)
    BY RespondBound, OfBLE DEF Bound
  <2> QED
    BY <1>2, <2>1, OneBound
<1> QED
  BY <1>1, <1>2 DEF WriteDone

LEMMA FailRequestBound ==
    ASSUME Alone, IInv, NEW s \in Sessions, NEW r \in Session, running = TRUE,
           FailRequest(s, r), Linked(r, pairings), CacheBound(cache', pairings)
    PROVE  BInv'
<1>1. /\ sess' = [sess EXCEPT ![s] = Respond(s, r, pairings)]
      /\ pairings' = pairings /\ running' = TRUE
  BY DEF FailRequest
<1>2. Bound(Respond(s, r, pairings), pairings, handling' = s)
  BY RespondBound, OfBLE
<1> QED
  BY <1>1, <1>2, OneBound

LEMMA ReadDoneBound ==
    ASSUME Alone, IInv, NEW s \in Sessions, NEW r \in Session, running = TRUE,
           ReadDone(s, r, pairings'), Linked(r, pairings'),
           CacheBound(cache', pairings')
    PROVE  BInv'
<1>1. Answer(s, r, pairings') = [sess EXCEPT ![s] = Respond(s, r, pairings')]
  <2>1. s \notin IPSessions
    BY DEF Alone
  <2>2. sess = [t \in Sessions |-> sess[t]]
    BY DEF IInv, SessionsOK
  <2> QED
    BY <2>1, <2>2 DEF Answer
<1>2. Bound(Respond(s, r, pairings'), pairings', handling' = s)
  BY RespondBound, OfBLE
<1>3. sess' = [sess EXCEPT ![s] = Respond(s, r, pairings')] /\ running' = TRUE
  BY <1>1 DEF ReadDone
<1> QED
  BY <1>2, <1>3, OneBound

\* The requests that a session may make over BLE.
LEMMA BLERequest ==
    ASSUME Alone, IInv, NEW s \in Sessions, NEW e
    PROVE  /\ CanWrite(s, e) =>
                 /\ running = TRUE
                 /\ Received(s, e) = sess[s]
                 /\ sess[s].begun = e
                 /\ e = "admin" => IsSecured(sess[s], pairings)
           /\ CanRead(s, e) =>
                 /\ running = TRUE
                 /\ sess[s].begun = e
                 /\ e = "admin" => IsSecured(sess[s], pairings)
<1>1. s \in BLESessions /\ s \notin IPSessions
  BY OfBLE DEF Alone
<1>2. CASE CanWrite(s, e)
  <2>1. running = TRUE
    BY <1>2, Running
  <2>2. sess[s].begun = e
    BY <1>1, <1>2 DEF CanWrite
  <2>3. e = "admin" => IsSecured(sess[s], pairings)
    BY <1>2 DEF CanWrite
  <2>4. Received(s, e) = sess[s]
    BY <1>1 DEF Received
  <2>5. CanRead(s, e) => running = TRUE
    BY <2>1
  <2> QED
    BY <2>1, <2>2, <2>3, <2>4
<1>3. CASE CanRead(s, e)
  <2>1. running = TRUE
    BY <1>3, Running
  <2>2. sess[s].begun = e
    BY <1>1, <1>3 DEF CanRead, Endpoint
  <2>3. e = "admin" => IsSecured(sess[s], pairings)
    BY <1>1, <1>3 DEF CanRead
  <2>4. Received(s, e) = sess[s]
    BY <1>1 DEF Received
  <2> QED
    BY <2>1, <2>2, <2>3, <2>4
<1> QED
  BY <1>2, <1>3


\* Pair Verify is open to sessions that are not active, and keeps to them.
LEMMA VerifyWrittenBound ==
    ASSUME Alone, IInv, BInv, NEW s \in Sessions, CanWrite(s, "open"),
           NEW v \in Verify, VerifyLinked(v, pairings), VerifyWritten(s, v),
           CacheBound(cache', pairings)
    PROVE  BInv'
<1> DEFINE r == [sess[s] EXCEPT !.verify = v]
<1>1. /\ running = TRUE
      /\ Received(s, "open") = sess[s]
      /\ sess[s].begun = "open"
  BY BLERequest
<1>2. sess[s].hap = Nobody
  BY <1>1 DEF BInv, Bound
<1>3. r \in Session /\ r.hap = Nobody /\ r.verify = v
  BY <1>2, SessionFacts DEF Session
<1>4. pairings' = pairings /\ running' = TRUE /\ WriteDone(s, r, pairings)
  BY <1>1 DEF VerifyWritten
<1> HIDE DEF r
<1>5. Bound(r, pairings', TRUE) /\ WriteDone(s, r, pairings')
  BY <1>3, <1>4, InactiveLinked
<1> QED
  BY <1>3, <1>4, <1>5, WriteDoneBound

\* A session starts under the pairing that its Pair Verify has found.
LEMMA StartedLinked ==
    ASSUME Alone, IInv, BInv, NEW s \in Sessions, CanRead(s, "open")
    PROVE  Started(s) \in Session /\ Linked(Started(s), pairings)
<1>1. sess[s].begun = "open"
  BY BLERequest
<1>2. Started(s) \in Session
  BY StartedOK, SessionFacts DEF SessionOK
<1>3. /\ Started(s).verify = NoVerify
      /\ Started(s).hap = sess[s].verify.id
      /\ Started(s).begun = "open"
  BY <1>1, SessionFacts DEF Started, Session
<1>4. Peer(sess[s].verify.id, pairings)
  BY DEF BInv, Bound, Linked, VerifyLinked
<1>5. NoVerify.step = 0
  BY DEF NoVerify
<1> QED
  BY <1>2, <1>3, <1>4, <1>5, NoVerifyLinked DEF Linked

LEMMA SavedBound ==
    ASSUME Alone, IInv, BInv, NEW s \in Sessions, NEW c \in Saved(s)
    PROVE  CacheBound(c, pairings)
<1>1. Peer(sess[s].verify.id, pairings)
  BY DEF BInv, Bound, Linked, VerifyLinked
<1>2. PICK slot \in SlotsToReplace(cache) :
          c = [cache EXCEPT ![slot] = sess[s].verify.id]
  BY OfBLE DEF Saved
<1>3. slot \in Slots /\ cache \in Caches
  BY SessionFacts DEF SlotsToReplace, FreeSlots
<1> QED
  BY <1>1, <1>2, <1>3 DEF BInv, CacheBound, Caches

\* A session whose pairing is gone, or that has not shown any, does not start.
LEMMA VerifyLemmas ==
    ASSUME Alone, IInv, BInv, NEW s \in Sessions
    PROVE  /\ ~VerifyM1Active(s)
           /\ ~StartSessionUnpaired(s)
<1>1. ASSUME VerifyM1Active(s) PROVE FALSE
  <2>1. CanWrite(s, "open") /\ sess[s].hap # Nobody
    BY <1>1 DEF VerifyM1Active
  <2> QED
    BY <2>1, BLERequest DEF BInv, Bound
<1>2. ASSUME StartSessionUnpaired(s) PROVE FALSE
  <2> DEFINE id == sess[s].verify.id
  <2>1. Starting(s) /\ ~IsSecured(Started(s), pairings)
    BY <1>2 DEF StartSessionUnpaired
  <2>2. id # Nobody /\ Peer(id, pairings)
    BY <2>1 DEF Starting, Resuming, Verified, BInv, Bound, Linked, VerifyLinked, Proved
  <2>3. Started(s).hap = id
    BY SessionFacts DEF Started, Session
  <2>4. id \in Identity
    BY SessionFacts DEF Session, Verify
  <2> HIDE DEF id
  <2>5. id.who \in Controllers
    BY <2>2, <2>4 DEF Identity
  <2>6. Stored(pairings, id.key)
    BY <2>2, <2>5, PairingsAssumption DEF Peer, Stored
  <2> QED
    BY <2>1, <2>2, <2>3, <2>6 DEF IsSecured
<1> QED
  BY <1>1, <1>2

LEMMA VerifyStepBound ==
    ASSUME Alone, IInv, BInv, NEW s \in Sessions, VerifyStep(s)
    PROVE  BInv'
<1>0. CacheBound(cache, pairings) /\ VerifyLinked(sess[s].verify, pairings)
  BY DEF BInv, Bound, Linked
<1>1. CASE VerifyM1(s)
  <2> DEFINE v == [NoVerify EXCEPT !.step = 1]
  <2>1. v.id = Nobody /\ ~Proved(v)
    BY DEF NoVerify, Proved
  <2>2. v \in Verify
    BY VerifyTypes
  <2>3. CanWrite(s, "open") /\ VerifyWritten(s, v) /\ cache' = cache
    BY <1>1 DEF VerifyM1
  <2> HIDE DEF v
  <2>4. VerifyLinked(v, pairings)
    BY <2>1, NobodyPeer DEF VerifyLinked
  <2> QED
    BY <1>0, <2>2, <2>3, <2>4, VerifyWrittenBound
<1>2. ASSUME NEW slot \in Slots, NEW decrypts \in BOOLEAN, ResumeM1(s, slot, decrypts)
      PROVE  BInv'
  <2> DEFINE v == [step |-> 1, resume |-> TRUE, id |-> cache[slot],
                   error |-> ~decrypts]
  <2>1. v.id = cache[slot] /\ v.step = 1
    OBVIOUS
  <2>2. v \in Verify
    BY VerifyTypes
  <2>3. /\ CanWrite(s, "open") /\ VerifyWritten(s, v)
        /\ cache' = [cache EXCEPT ![slot] = Nobody]
        /\ cache[slot] # Nobody
    BY <1>2 DEF ResumeM1
  <2> HIDE DEF v
  <2>4. VerifyLinked(v, pairings)
    BY <1>0, <2>1, <2>3 DEF VerifyLinked, CacheBound
  <2>5. CacheBound(cache', pairings)
    BY <1>0, <2>3, NobodyPeer, SessionFacts DEF CacheBound, Caches
  <2> QED
    BY <2>2, <2>3, <2>4, <2>5, VerifyWrittenBound
<1>3. ASSUME NEW c \in Controllers, VerifyM3(s, c)
      PROVE  BInv'
  <2>1. PICK key \in Find(pairings, c) :
            VerifyWritten(s, [NoVerify EXCEPT !.step = 3,
                                              !.id = [key |-> key, who |-> c]])
    BY <1>3 DEF VerifyM3
  <2> DEFINE v == [NoVerify EXCEPT !.step = 3, !.id = [key |-> key, who |-> c]]
  <2>2. v.step = 3 /\ v.id = [key |-> key, who |-> c]
    BY DEF NoVerify
  <2>3. v \in Verify
    BY VerifyTypes
  <2>4. VerifyWritten(s, v) /\ CanWrite(s, "open") /\ cache' = cache
    BY <1>3, <2>1 DEF VerifyM3
  <2> HIDE DEF v
  <2>5. v.id.key = key /\ v.id.who = c
    BY <2>2
  <2>6. v.id # Nobody
    BY <2>5, PairingsAssumption DEF Nobody
  <2>7. Peer(v.id, pairings)
    BY <2>5 DEF Peer, Find
  <2>8. VerifyLinked(v, pairings)
    BY <2>2, <2>6, <2>7 DEF VerifyLinked
  <2> QED
    BY <1>0, <2>3, <2>4, <2>8, VerifyWrittenBound
<1>4. CASE VerifyM3Refused(s)
  <2> DEFINE v == [NoVerify EXCEPT !.step = 3, !.error = TRUE]
  <2>1. v.id = Nobody /\ ~Proved(v)
    BY DEF NoVerify, Proved
  <2>2. v \in Verify
    BY VerifyTypes
  <2>3. CanWrite(s, "open") /\ VerifyWritten(s, v) /\ cache' = cache
    BY <1>4 DEF VerifyM3Refused
  <2> HIDE DEF v
  <2>4. VerifyLinked(v, pairings)
    BY <2>1, NobodyPeer DEF VerifyLinked
  <2> QED
    BY <1>0, <2>2, <2>3, <2>4, VerifyWrittenBound
<1>5. CASE VerifyReadError(s) \/ VerifyM2(s)
  <2>1. /\ CanRead(s, "open") /\ pairings' = pairings /\ cache' = cache
        /\ \/ ReadDone(s, [sess[s] EXCEPT !.verify = NoVerify], pairings)
           \/ /\ ReadDone(s, [sess[s] EXCEPT !.verify.step = 2], pairings)
              /\ sess[s].verify.step = 1 /\ ~sess[s].verify.resume
    BY <1>5 DEF VerifyReadError, VerifyM2
  <2>2. running = TRUE /\ sess[s].begun = "open"
    BY <2>1, BLERequest
  <2>3. sess[s].hap = Nobody
    BY <2>2 DEF BInv, Bound
  <2>4. ASSUME NEW v \in Verify, ReadDone(s, [sess[s] EXCEPT !.verify = v], pairings),
               VerifyLinked(v, pairings)
        PROVE  BInv'
    <3> DEFINE r == [sess[s] EXCEPT !.verify = v]
    <3>1. r \in Session /\ r.hap = Nobody /\ r.verify = v
      BY <2>3, SessionFacts DEF Session
    <3>2. ReadDone(s, r, pairings')
      BY <2>1, <2>4
    <3> HIDE DEF r
    <3>3. Linked(r, pairings')
      BY <2>1, <2>4, <3>1, InactiveLinked DEF Bound
    <3> QED
      BY <1>0, <2>1, <2>2, <3>1, <3>2, <3>3, ReadDoneBound
  <2>5. CASE ReadDone(s, [sess[s] EXCEPT !.verify = NoVerify], pairings)
    BY <2>4, <2>5, NoVerifyType, NoVerifyLinked
  <2>6. CASE /\ ReadDone(s, [sess[s] EXCEPT !.verify.step = 2], pairings)
             /\ sess[s].verify.step = 1 /\ ~sess[s].verify.resume
    <3> DEFINE u == sess[s].verify
               v == [u EXCEPT !.step = 2]
    <3>1. u \in Verify
      BY SessionFacts DEF Session
    <3>2. [sess[s] EXCEPT !.verify.step = 2] = [sess[s] EXCEPT !.verify = v]
      BY SessionFacts DEF Session
    <3> HIDE DEF u
    <3>3. v \in Verify /\ v.step = 2 /\ v.id = u.id /\ v.resume = u.resume
      BY <3>1 DEF Verify
    <3>4. ReadDone(s, [sess[s] EXCEPT !.verify = v], pairings)
      BY <2>6, <3>2
    <3> HIDE DEF v
    <3>5. VerifyLinked(v, pairings)
      BY <1>0, <2>6, <3>3 DEF VerifyLinked, Proved, u
    <3> QED
      BY <2>4, <3>3, <3>4, <3>5
  <2> QED
    BY <2>1, <2>5, <2>6
<1>6. CASE ResumeM2(s) \/ VerifyM4(s)
  <2>1. /\ CanRead(s, "open") /\ pairings' = pairings /\ cache' \in Saved(s)
        /\ ReadDone(s, Started(s), pairings)
    BY <1>6 DEF ResumeM2, VerifyM4, StartSession
  <2>2. running = TRUE
    BY <2>1, BLERequest
  <2>3. CacheBound(cache', pairings')
    BY <2>1, SavedBound
  <2>4. Started(s) \in Session /\ Linked(Started(s), pairings')
    BY <2>1, StartedLinked
  <2> QED
    BY <2>1, <2>2, <2>3, <2>4, ReadDoneBound
<1> QED
  BY <1>1, <1>2, <1>3, <1>4, <1>5, <1>6, VerifyLemmas DEF VerifyStep


\* What Fewer leaves of the pairing that an identity knows.
LEMMA PeerFewer ==
    ASSUME NEW p, NEW q, Fewer(p, q), NEW id \in Identity, Peer(id, p)
    PROVE  Peer(id, q) \/ ~Stored(q, id.key)
BY DEF Peer, Fewer, Identity, Stored

\* The session of an admin, while the list goes from pairings to p.
LEMMA AdminLinked ==
    ASSUME Alone, IInv, BInv, NEW s \in Sessions,
           CanWrite(s, "admin") \/ CanRead(s, "admin"),
           NEW p, Fewer(pairings, p) \/ Peer(sess[s].hap, p),
           NEW c \in Change
    PROVE  /\ [sess[s] EXCEPT !.change = c] \in Session
           /\ Bound([sess[s] EXCEPT !.change = c], p, TRUE)
<1> DEFINE r == [sess[s] EXCEPT !.change = c]
<1>1. sess[s].begun = "admin" /\ IsSecured(sess[s], pairings)
  BY BLERequest
<1>2. /\ r \in Session /\ r.hap = sess[s].hap /\ r.verify = sess[s].verify
      /\ r.begun = sess[s].begun /\ r.flag = sess[s].flag
  BY SessionFacts DEF Session
<1>3. sess[s].hap # Nobody
  BY <1>1 DEF IsSecured
<1>4. sess[s].verify.step = 0 /\ sess[s].verify.id = Nobody /\ ~Proved(sess[s].verify)
  BY <1>3 DEF BInv, Bound, Linked, VerifyLinked
<1>5. sess[s].flag
  BY <1>1, <1>3 DEF BInv, Bound, Linked
<1>6. Peer(sess[s].hap, pairings)
  BY <1>1 DEF BInv, Bound, Linked, IsSecured
<1>7. Peer(sess[s].hap, p) \/ ~Stored(p, sess[s].hap.key)
  <2>1. sess[s].hap \in Identity
    BY SessionFacts DEF Session
  <2> QED
    BY <1>6, <2>1, PeerFewer
<1> HIDE DEF r
<1>8. VerifyLinked(r.verify, p)
  BY <1>2, <1>4, NobodyPeer DEF VerifyLinked
<1>9. r.begun # "open"
  BY <1>1, <1>2
<1>10. Linked(r, p)
  BY <1>1, <1>2, <1>4, <1>5, <1>7, <1>8 DEF Linked
<1> QED
  BY <1>2, <1>9, <1>10 DEF Bound, r

LEMMA CleanupBound ==
    ASSUME NEW p, NEW c, CacheBound(c, p)
    PROVE  CacheBound(CleanupCache(p, c), Cleanup(p))
BY NobodyPeer DEF CleanupCache, Cleanup, CacheBound, EmptyCache

LEMMA ChangeWrittenBound ==
    ASSUME Alone, IInv, BInv, NEW s \in Sessions, CanWrite(s, "admin"),
           NEW method \in Methods, NEW target \in Controllers \cup {NoController},
           NEW error \in BOOLEAN, ChangeWritten(s, method, target, error, pairings'),
           Fewer(pairings, pairings') \/ Peer(sess[s].hap, pairings'),
           CacheBound(cache', pairings')
    PROVE  BInv'
<1> DEFINE c == [step |-> 1, method |-> method, target |-> target, error |-> error]
           r == [sess[s] EXCEPT !.change = c]
<1>1. c \in Change
  BY DEF Change
<1>2. running = TRUE /\ Received(s, "admin") = sess[s]
  BY BLERequest
<1>3. WriteDone(s, r, pairings') /\ running' = TRUE
  BY <1>2 DEF ChangeWritten
<1> HIDE DEF c
<1>4. r \in Session /\ Bound(r, pairings', TRUE)
  BY <1>1, AdminLinked
<1> HIDE DEF r
<1> QED
  BY <1>3, <1>4, WriteDoneBound

LEMMA ChangeReadBound ==
    ASSUME Alone, IInv, BInv, NEW s \in Sessions, CanRead(s, "admin"),
           ReadDone(s, [sess[s] EXCEPT !.change = NoChange], pairings'),
           Fewer(pairings, pairings'), CacheBound(cache', pairings')
    PROVE  BInv'
<1> DEFINE r == [sess[s] EXCEPT !.change = NoChange]
<1>1. running = TRUE
  BY BLERequest
<1>2. r \in Session /\ Bound(r, pairings', TRUE)
  BY AdminLinked, NoChangeType
<1>3. ReadDone(s, r, pairings')
  OBVIOUS
<1> HIDE DEF r
<1>4. Linked(r, pairings')
  BY <1>2 DEF Bound
<1> QED
  BY <1>1, <1>2, <1>3, <1>4, ReadDoneBound

LEMMA SameFewer == \A p : Fewer(p, p)
BY DEF Fewer

\* What a purge, and the removal of a key, leave of the cache.
LEMMA RemovedCacheBound ==
    ASSUME IInv, BInv, NEW key \in Keys
    PROVE  CacheBound(InvalidateEntriesForPairing(cache, key), Without(key))
<1> DEFINE c == InvalidateEntriesForPairing(cache, key)
<1>1. ASSUME NEW i \in Slots PROVE Peer(c[i], Without(key))
  <2>1. c[i] = IF cache[i].key = key THEN Nobody ELSE cache[i]
    BY DEF InvalidateEntriesForPairing
  <2>2. CASE cache[i].key = key
    BY <2>1, <2>2, NobodyPeer
  <2>3. CASE cache[i].key # key
    <3>1. cache[i] \in Identity /\ pairings \in Lists
      BY SessionFacts DEF IInv, TypeOK, Lists
    <3>2. Peer(cache[i], pairings)
      BY DEF BInv, CacheBound
    <3>3. cache[i] # Nobody => Without(key)[cache[i].key] = pairings[cache[i].key]
      BY <2>3, <3>1 DEF Without, Identity, Lists
    <3> QED
      BY <2>1, <2>3, <3>2, <3>3 DEF Peer
  <2> QED
    BY <2>2, <2>3
<1> QED
  BY <1>1 DEF CacheBound

LEMMA ChangeStepBound ==
    ASSUME Alone, IInv, BInv, NEW s \in Sessions, ChangeStep(s)
    PROVE  BInv'
<1>0. CacheBound(cache, pairings) /\ pairings \in Lists
  BY SessionFacts DEF BInv
<1>1. ASSUME \/ \E method \in Methods \ {"none"} : ChangeRefused(s, method)
             \/ \E c \in Controllers : RemoveM1(s, c) \/ AddM1Refused(s, c)
             \/ ListM1(s)
      PROVE  BInv'
  <2>1. /\ CanWrite(s, "admin")
        /\ pairings' = pairings /\ cache' = cache
        /\ \E m \in Methods, c \in Controllers \cup {NoController}, e \in BOOLEAN :
              ChangeWritten(s, m, c, e, pairings)
    BY <1>1 DEF ChangeRefused, RemoveM1, ListM1, AddM1Refused, ExpectsAddM1,
                ExpectsM1, Methods
  <2>2. Fewer(pairings, pairings') /\ CacheBound(cache', pairings')
    BY <1>0, <2>1, SameFewer
  <2> QED
    BY <2>1, <2>2, ChangeWrittenBound
<1>2. ASSUME NEW c \in Controllers, NEW admin \in BOOLEAN, UpdateM1(s, c, admin)
      PROVE  BInv'
  <2>1. PICK p \in Updated(c, admin) :
            /\ pairings' = Cleanup(p)
            /\ cache' = CleanupCache(p, cache)
            /\ ChangeWritten(s, "add", c, FALSE, Cleanup(p))
    BY <1>2 DEF UpdateM1
  <2>2. \A k \in Keys : p[k].who = pairings[k].who
    BY UpdatedFacts
  <2>3. CacheBound(cache, p)
    <3>1. ASSUME NEW i \in Slots PROVE Peer(cache[i], p)
      <4>1. cache[i] \in Identity
        BY SessionFacts DEF IInv, TypeOK
      <4> QED
        BY <1>0, <2>2, <4>1 DEF CacheBound, Peer, Identity
    <3> QED
      BY <3>1 DEF CacheBound
  <2>4. CacheBound(cache', pairings')
    BY <2>1, <2>3, CleanupBound
  <2>5. Fewer(pairings, pairings')
    BY <2>1, <2>2 DEF Cleanup, Fewer, NoPairings, NoPairing
  <2>6. CanWrite(s, "admin") /\ "add" \in Methods
    BY <1>2 DEF UpdateM1, ExpectsAddM1, ExpectsM1, Methods
  <2> QED
    BY <2>1, <2>4, <2>5, <2>6, ChangeWrittenBound
<1>3. ASSUME NEW c \in Controllers, NEW admin \in BOOLEAN, AddM1(s, c, admin)
      PROVE  BInv'
  <2>1. PICK key \in FreeKeys(pairings) :
            LET p == [pairings EXCEPT ![key] = [who |-> c, admin |-> admin]]
            IN  pairings' = p /\ ChangeWritten(s, "add", c, FALSE, p)
    BY <1>3 DEF AddM1
  <2>2. key \in Keys /\ pairings[key].who = NoController
    BY DEF FreeKeys, Stored
  <2>3. ASSUME NEW id \in Identity, Peer(id, pairings) PROVE Peer(id, pairings')
    <3>1. id # Nobody => id.key \in Keys /\ id.who # NoController
      BY PairingsAssumption DEF Identity
    <3> QED
      BY <1>0, <2>1, <2>2, <2>3, <3>1 DEF Peer, Lists
  <2>4. CacheBound(cache', pairings')
    <3>1. cache' = cache /\ \A i \in Slots : cache[i] \in Identity
      BY <1>3 DEF AddM1, IInv, TypeOK
    <3> QED
      BY <1>0, <2>3, <3>1 DEF CacheBound
  <2>5. CanWrite(s, "admin") /\ "add" \in Methods
    BY <1>3 DEF AddM1, ExpectsAddM1, ExpectsM1, Methods
  <2>6. Peer(sess[s].hap, pairings')
    <3>1. sess[s].hap \in Identity /\ IsSecured(sess[s], pairings)
      BY <2>5, BLERequest, SessionFacts DEF Session
    <3>2. Peer(sess[s].hap, pairings)
      BY <3>1 DEF BInv, Bound, Linked, IsSecured
    <3> QED
      BY <2>3, <3>1, <3>2
  <2>7. ChangeWritten(s, "add", c, FALSE, pairings')
    BY <2>1
  <2> QED
    BY <2>4, <2>5, <2>6, <2>7, ChangeWrittenBound
<1>4. CASE \/ ChangeReadError(s) \/ M2Refused(s) \/ AddM2(s) \/ ListM2(s)
           \/ RemoveM2Nothing(s)
  <2>1. CanRead(s, "admin") /\ Responds(s)
    BY <1>4 DEF ChangeReadError, M2Refused, AddM2, ListM2, RemoveM2Nothing, Removes,
                ExpectsM2
  <2>2. /\ pairings' = pairings /\ cache' = cache
        /\ ReadDone(s, [sess[s] EXCEPT !.change = NoChange], pairings')
    BY <2>1 DEF Responds
  <2>3. Fewer(pairings, pairings') /\ CacheBound(cache', pairings')
    BY <1>0, <2>2, SameFewer
  <2> QED
    BY <2>1, <2>2, <2>3, ChangeReadBound
<1>5. CASE RemoveM2(s)
  <2>1. PICK key \in KeysToRemove(s) :
            LET p == Without(key)
            IN  /\ pairings' = Cleanup(p)
                /\ cache' = CleanupCache(p, InvalidateEntriesForPairing(cache, key))
                /\ ReadDone(s, [sess[s] EXCEPT !.change = NoChange], Cleanup(p))
    BY <1>5 DEF RemoveM2
  <2>2. key \in Keys
    BY DEF KeysToRemove, Find
  <2>3. CacheBound(cache', pairings')
    BY <2>1, <2>2, RemovedCacheBound, CleanupBound
  <2>4. Fewer(pairings, pairings')
    BY <1>0, <2>1, <2>2 DEF Cleanup, Fewer, NoPairings, NoPairing, Without, Lists
  <2>5. CanRead(s, "admin")
    BY <1>5 DEF RemoveM2, Removes, ExpectsM2
  <2>6. ReadDone(s, [sess[s] EXCEPT !.change = NoChange], pairings')
    BY <2>1
  <2> QED
    BY <2>3, <2>4, <2>5, <2>6, ChangeReadBound
<1>6. CASE OwnPairingGone(s)
  BY <1>6 DEF OwnPairingGone, Fail, BInv
<1>7. CASE ReadRefused(s)
  <2>1. handling # NoSession /\ running \in BOOLEAN
    BY <1>7, Apart DEF ReadRefused, IInv, TypeOK
  <2>2. running = TRUE
    BY <2>1 DEF IInv
  <2>3. FailRequest(s, sess[s]) /\ cache' = cache /\ sess[s] \in Session
    BY <1>7, SessionFacts DEF ReadRefused
  <2>4. Linked(sess[s], pairings)
    BY DEF BInv, Bound
  <2> QED
    BY <1>0, <2>2, <2>3, <2>4, FailRequestBound
<1>8. ASSUME \/ \E c \in Controllers, admin \in BOOLEAN : UpdateM1NotCleaned(s, c, admin)
             \/ RemoveM2NotCleaned(s)
      PROVE  FALSE
  BY <1>8 DEF UpdateM1NotCleaned, RemoveM2NotCleaned, Alone
<1> QED
  BY <1>1, <1>2, <1>3, <1>4, <1>5, <1>6, <1>7, <1>8 DEF ChangeStep


LEMMA RequestStepBound ==
    ASSUME Alone, IInv, BInv, NEW s \in Sessions, RequestStep(s)
    PROVE  BInv'
<1>0. /\ CacheBound(cache, pairings)
      /\ Bound(sess[s], pairings, handling = s)
      /\ sess[s] \in Session
  BY SessionFacts DEF BInv
<1>1. ASSUME NEW e \in Endpoints, running = TRUE, FailRequest(s, Reset(sess[s], e)),
             CacheBound(cache', pairings)
      PROVE  BInv'
  <2>1. CASE e = "open"
    <3> DEFINE r == [sess[s] EXCEPT !.verify = NoVerify]
    <3>1. /\ r \in Session /\ r.hap = sess[s].hap /\ r.verify = NoVerify
          /\ r.begun = sess[s].begun /\ r.flag = sess[s].flag
      BY <1>0, NoVerifyType DEF Session
    <3>2. Reset(sess[s], e) = r
      BY <2>1 DEF Reset
    <3> HIDE DEF r
    <3>3. NoVerify.step = 0
      BY DEF NoVerify
    <3>4. Linked(r, pairings)
      BY <1>0, <3>1, <3>3, NoVerifyLinked DEF Bound, Linked
    <3> QED
      BY <1>1, <3>1, <3>2, <3>4, FailRequestBound
  <2>2. CASE e # "open"
    <3> DEFINE r == [sess[s] EXCEPT !.change = NoChange]
    <3>1. /\ r \in Session /\ r.hap = sess[s].hap /\ r.verify = sess[s].verify
          /\ r.begun = sess[s].begun /\ r.flag = sess[s].flag
      BY <1>0, NoChangeType DEF Session
    <3>2. Reset(sess[s], e) = r
      BY <2>2 DEF Reset
    <3> HIDE DEF r
    <3>3. Linked(r, pairings)
      BY <1>0, <3>1 DEF Bound, Linked
    <3> QED
      BY <1>1, <3>1, <3>2, <3>3, FailRequestBound
  <2> QED
    BY <2>1, <2>2
<1>2. ASSUME NEW e \in Endpoints, WriteRejected(s, e)
      PROVE  BInv'
  <2>1. CanWrite(s, e) /\ FailRequest(s, Reset(Received(s, e), e)) /\ cache' = cache
    BY <1>2 DEF WriteRejected
  <2>2. running = TRUE /\ Received(s, e) = sess[s]
    BY <2>1, BLERequest
  <2> QED
    BY <1>0, <1>1, <2>1, <2>2
<1>3. ASSUME NEW e \in Endpoints, ReadRejected(s, e)
      PROVE  BInv'
  <2>1. /\ CanRead(s, e) /\ FailRequest(s, Reset(sess[s], e))
        /\ cache' = cache \/ cache' \in Saved(s)
    BY <1>3 DEF ReadRejected
  <2>2. running = TRUE
    BY <2>1, BLERequest
  <2>3. CacheBound(cache', pairings)
    BY <1>0, <2>1, SavedBound
  <2> QED
    BY <1>1, <2>1, <2>2, <2>3
<1>4. CASE OtherRequest(s)
  <2>1. s \notin IPSessions
    BY DEF Alone
  <2>2. FailRequest(s, sess[s]) /\ cache' = cache /\ Ready
    BY <1>4, <2>1 DEF OtherRequest
  <2>3. Linked(sess[s], pairings) /\ running = TRUE
    BY <1>0, <2>2, Running DEF Bound
  <2> QED
    BY <1>0, <2>2, <2>3, FailRequestBound
<1>5. CASE StoreFails(s)
  BY <1>5 DEF StoreFails, Alone
<1> QED
  BY <1>2, <1>3, <1>4, <1>5 DEF RequestStep

LEMMA SessionStepBound ==
    ASSUME Alone, IInv, BInv, Ready, NEW s \in Sessions, NEW r,
           SessionStep(s, r), \A busy : Bound(r, pairings, busy)
    PROVE  BInv'
<1>1. /\ sess' = [sess EXCEPT ![s] = r]
      /\ pairings' = pairings /\ cache' = cache /\ running' = TRUE
  BY Running DEF SessionStep
<1>2. CacheBound(cache', pairings') /\ Bound(r, pairings', handling' = s)
  BY <1>1 DEF BInv
<1> QED
  BY <1>1, <1>2, OneBound

\* What a session that is at rest knows.
LEMMA AtRest ==
    ASSUME BInv, Ready, NEW s \in Sessions
    PROVE  Linked(sess[s], pairings) /\ Peer(sess[s].hap, pairings)
BY Apart DEF Ready, BInv, Bound

LEMMA ConnectionStepBound ==
    ASSUME Alone, IInv, BInv, NEW s \in Sessions, ConnectionStep(s)
    PROVE  BInv'
<1>1. CASE Connect(s)
  <2> DEFINE r == [Closed EXCEPT !.io = "reading"]
  <2>1. r.hap = Nobody /\ r.verify = NoVerify
    BY DEF Closed
  <2>2. Ready /\ SessionStep(s, r)
    BY <1>1 DEF Connect
  <2> HIDE DEF r
  <2>3. \A busy : Bound(r, pairings, busy)
    BY <2>1, InactiveLinked, NoVerifyLinked
  <2> QED
    BY <2>2, <2>3, SessionStepBound
<1>2. CASE Disconnect(s)
  <2>1. \A busy : Bound(Closed, pairings, busy)
    BY InactiveBound, SessionFacts
  <2> QED
    BY <1>2, <2>1, SessionStepBound DEF Disconnect
<1>3. CASE Written(s)
  <2> DEFINE r == [sess[s] EXCEPT !.io = "reading"]
  <2>1. Ready /\ (SessionStep(s, Closed) \/ SessionStep(s, r))
    BY <1>3 DEF Written
  <2>2. /\ r.hap = sess[s].hap /\ r.verify = sess[s].verify
        /\ r.begun = sess[s].begun /\ r.flag = sess[s].flag
    BY SessionFacts DEF Session
  <2> HIDE DEF r
  <2>3. \A busy : Bound(Closed, pairings, busy)
    BY InactiveBound, SessionFacts
  <2>4. Linked(sess[s], pairings) /\ Peer(sess[s].hap, pairings)
    BY <2>1, AtRest
  <2>5. sess[s].begun = "open" => sess[s].hap = Nobody
    BY DEF BInv, Bound
  <2>6. \A busy : Bound(r, pairings, busy)
    BY <2>2, <2>4, <2>5 DEF Bound, Linked
  <2> QED
    BY <2>1, <2>3, <2>6, SessionStepBound
<1>4. CASE InputOfRemoved(s)
  BY <1>4 DEF InputOfRemoved, Alone
<1>5. ASSUME NEW e \in Endpoints, BeginProcedure(s, e)
      PROVE  BInv'
  <2> DEFINE r == IF e = "open" /\ IsSecured(sess[s], pairings)
                  THEN Invalidate(sess[s])
                  ELSE sess[s]
             b == IsSecured(r, pairings)
             q == [r EXCEPT !.begun = e, !.flag = b]
  <2>1. Ready /\ SessionStep(s, q) /\ s \in BLESessions
    BY <1>5 DEF BeginProcedure
  <2>2. Linked(sess[s], pairings) /\ Peer(sess[s].hap, pairings)
    BY <2>1, AtRest
  <2>3. sess[s].hap \in Identity /\ (sess[s].hap # Nobody => IsSecured(sess[s], pairings))
    <3>1. sess[s].hap \in Identity
      BY SessionFacts DEF Session
    <3> QED
      BY <2>2, <3>1, PairingsAssumption DEF Peer, IsSecured, Stored, Identity
  <2>4. /\ Invalidate(sess[s]).hap = Nobody
        /\ Invalidate(sess[s]).verify = NoVerify
    BY SessionFacts DEF Invalidate, Session
  <2>5. r \in Session
    BY <2>1, InvalidateOK, SessionFacts DEF SessionOK
  <2>6. e = "open" => r.hap = Nobody
    BY <2>3, <2>4
  <2>7. VerifyLinked(r.verify, pairings) /\ Peer(r.hap, pairings)
    BY <2>2, <2>4, NobodyPeer, NoVerifyLinked DEF Linked
  <2>8. r.verify.step # 0 => r.hap = Nobody
    BY <2>2, <2>4 DEF Linked
  <2>9. r.hap # Nobody => b
    BY <2>3, <2>4
  <2>10. b \in BOOLEAN
    BY DEF IsSecured
  <2> HIDE DEF r, b
  <2>11. q.hap = r.hap /\ q.verify = r.verify /\ q.begun = e /\ q.flag = b
    BY <2>5, <2>10 DEF Session
  <2> HIDE DEF q
  <2>12. \A busy : Bound(q, pairings, busy)
    BY <2>6, <2>7, <2>8, <2>9, <2>11 DEF Bound, Linked
  <2> QED
    BY <2>1, <2>12, SessionStepBound
<1>6. CASE DropLink(s)
  <2>1. \A busy : Bound(Terminate(sess[s]), pairings, busy)
    BY InactiveBound, SessionFacts
  <2> QED
    BY <1>6, <2>1, SessionStepBound DEF DropLink
<1>7. ASSUME NEW c \in Controllers, PairSetup(s, c)
      PROVE  BInv'
  <2> DEFINE p == [pairings EXCEPT ![0] = [who |-> c, admin |-> TRUE]]
  <2>1. /\ CanWrite(s, "open") /\ ~IsPaired(pairings)
        /\ pairings' = p /\ sess' = Answer(s, Received(s, "open"), p)
        /\ cache' = cache /\ running' = running /\ handling' = handling
    BY <1>7 DEF PairSetup
  <2>2. running = TRUE /\ Received(s, "open") = sess[s] /\ sess[s].begun = "open"
    BY <2>1, BLERequest
  <2> HIDE DEF p
  <2>3. sess[s].hap = Nobody
    BY <2>2 DEF BInv, Bound
  <2>4. \A id \in Identity : Peer(id, pairings) => id = Nobody
    BY <2>1, PairingsAssumption DEF Peer, Identity, IsPaired, Stored
  <2>5. VerifyLinked(sess[s].verify, p)
    <3>1. sess[s].verify.id \in Identity
      BY SessionFacts DEF Session, Verify
    <3> QED
      BY <2>4, <3>1, NobodyPeer DEF BInv, Bound, Linked, VerifyLinked
  <2>6. CacheBound(cache', p)
    <3>1. \A i \in Slots : cache[i] \in Identity
      BY DEF IInv, TypeOK
    <3> QED
      BY <2>1, <2>4, <3>1, NobodyPeer DEF BInv, CacheBound
  <2>7. Linked(sess[s], p)
    BY <2>3, <2>5, InactiveLinked DEF Bound
  <2>8. Answer(s, sess[s], p) = [sess EXCEPT ![s] = Respond(s, sess[s], p)]
    <3>1. s \notin IPSessions
      BY DEF Alone
    <3>2. sess = [t \in Sessions |-> sess[t]]
      BY DEF IInv, SessionsOK
    <3> QED
      BY <3>1, <3>2 DEF Answer
  <2>9. Bound(Respond(s, sess[s], p), p, handling' = s)
    BY <2>7, RespondBound, OfBLE, SessionFacts
  <2> QED
    BY <2>1, <2>2, <2>6, <2>8, <2>9, OneBound
<1> QED
  BY <1>1, <1>2, <1>3, <1>4, <1>5, <1>6, <1>7 DEF ConnectionStep

LEMMA ZeroRamBound ==
    ASSUME ZeroRam
    PROVE  BInv'
<1>1. \A s \in Sessions : sess'[s] = Closed
  BY DEF ZeroRam
<1>2. \A p, b : Bound(Closed, p, b)
  BY InactiveLinked, NoVerifyLinked DEF Closed
<1>3. CacheBound(EmptyCache, pairings')
  BY NobodyPeer DEF CacheBound, EmptyCache
<1> QED
  BY <1>1, <1>2, <1>3 DEF BInv, ZeroRam

LEMMA NextBound ==
    ASSUME Alone, IInv, BInv, [Next]_vars
    PROVE  BInv'
<1>1. CASE \E s \in Sessions :
              VerifyStep(s) \/ ChangeStep(s) \/ RequestStep(s) \/ ConnectionStep(s)
  BY <1>1, VerifyStepBound, ChangeStepBound, RequestStepBound, ConnectionStepBound
<1>2. CASE Start
  <2>1. /\ cache = EmptyCache /\ \A s \in Sessions : sess[s] = Closed
        /\ cache' = cache /\ sess' = sess /\ handling' = handling /\ running' = TRUE
    BY <1>2 DEF Start, BInv
  <2>2. \A p, b : Bound(Closed, p, b)
    BY InactiveLinked, NoVerifyLinked DEF Closed
  <2>3. CacheBound(EmptyCache, pairings')
    BY NobodyPeer DEF CacheBound, EmptyCache
  <2> QED
    BY <2>1, <2>2, <2>3 DEF BInv
<1>3. CASE Reboot \/ RebootDuringPurge
  BY <1>3, ZeroRamBound DEF Reboot, RebootDuringPurge
<1>4. CASE UNCHANGED vars
  BY <1>4 DEF vars, BInv
<1> QED
  BY <1>1, <1>2, <1>3, <1>4 DEF Next

LEMMA InitBound == Init => BInv
<1>1. \A p, b : Bound(Closed, p, b)
  BY InactiveLinked, NoVerifyLinked DEF Closed
<1>2. CacheBound(EmptyCache, pairings)
  BY NobodyPeer DEF CacheBound, EmptyCache
<1> QED
  BY <1>1, <1>2 DEF Init, BInv

LEMMA SpecBound == Alone => (Spec => []BInv)
<1> SUFFICES ASSUME Alone PROVE Spec => []BInv
  OBVIOUS
<1>1. IInv /\ BInv /\ [Next]_vars => BInv'
  BY NextBound
<1> QED
  BY <1>1, InitBound, SpecIInv, PTL DEF Spec

\* Over BLE a session is never used under a pairing of another controller than
\* the one that it was verified with, although HAPSessionIsSecured compares keys
\* of the store and keys are used again (HAPSession.c).
THEOREM SessionsHavePeer == IPSessions = {} /\ ~StoreMayFail => (Spec => []SessionPeer)
<1> SUFFICES ASSUME Alone PROVE Spec => []SessionPeer
  BY DEF Alone
<1>1. BInv => SessionPeer
  BY DEF BInv, SessionPeer, Bound, Linked, Peer, IsSecured
<1> QED
  BY <1>1, SpecBound, PTL

\* Over BLE what the Pair Resume cache holds is always the pairing of the
\* controller it was saved for (HAPPairingBLESessionCacheInvalidateEntriesForPairing
\* is called wherever a pairing goes): a removed controller never resumes.
THEOREM CacheIsPaired == IPSessions = {} /\ ~StoreMayFail => (Spec => []CacheEntriesPaired)
<1> SUFFICES ASSUME Alone PROVE Spec => []CacheEntriesPaired
  BY DEF Alone
<1>1. IInv /\ BInv => CacheEntriesPaired
  <2> SUFFICES ASSUME IInv, BInv, NEW i \in Slots, cache[i] # Nobody
               PROVE  cache[i].key \in Find(pairings, cache[i].who)
    BY DEF CacheEntriesPaired
  <2>1. cache[i] \in Identity /\ Peer(cache[i], pairings)
    BY DEF IInv, TypeOK, BInv, CacheBound
  <2> QED
    BY <2>1 DEF Find, Peer, Identity
<1> QED
  BY <1>1, SpecIInv, SpecBound, PTL

\* Over BLE Pair Verify finds no session that is still active, and starts none
\* whose pairing is gone: the preconditions of HAPPairingPairVerifyProcessM1 and
\* HAPBLEPeripheralManagerHandleSessionAccept hold.
THEOREM VerifyPreconditionsHold ==
    IPSessions = {} /\ ~StoreMayFail => (Spec => []VerifyPreconditions)
<1> SUFFICES ASSUME Alone PROVE Spec => []VerifyPreconditions
  BY DEF Alone
<1>1. Init => VerifyPreconditions
  BY DEF Init, VerifyPreconditions
<1>2. IInv /\ BInv /\ VerifyPreconditions /\ [Next]_vars => VerifyPreconditions'
  <2> SUFFICES ASSUME IInv, BInv, VerifyPreconditions, [Next]_vars,
                      failed' # failed, failed' \in {"VerifyM1", "SessionAccept"}
               PROVE  FALSE
    BY DEF VerifyPreconditions
  <2>1. CASE \E s \in Sessions : VerifyStep(s)
    BY <2>1, VerifyLemmas
       DEF VerifyStep, VerifyM1, ResumeM1, VerifyM3, VerifyM3Refused, VerifyReadError,
           VerifyM2, ResumeM2, VerifyM4, StartSession, VerifyWritten, ReadDone
  <2>2. ASSUME NEW s \in Sessions, ChangeStep(s) PROVE FALSE
    <3>1. ASSUME \/ \E c \in Controllers, admin \in BOOLEAN :
                       \/ UpdateM1(s, c, admin) \/ AddM1(s, c, admin)
                       \/ UpdateM1NotCleaned(s, c, admin)
                 \/ \E c \in Controllers : RemoveM1(s, c) \/ AddM1Refused(s, c)
                 \/ \E method \in Methods \ {"none"} : ChangeRefused(s, method)
                 \/ ListM1(s)
          PROVE  failed' = failed
      BY <3>1 DEF ChangeRefused, RemoveM1, ListM1, UpdateM1, AddM1, UpdateM1NotCleaned,
                  AddM1Refused, ChangeWritten
    <3>2. ASSUME \/ ChangeReadError(s) \/ M2Refused(s) \/ AddM2(s) \/ ListM2(s)
                 \/ RemoveM2(s) \/ RemoveM2Nothing(s) \/ RemoveM2NotCleaned(s)
                 \/ ReadRefused(s)
          PROVE  failed' = failed
      BY <3>2 DEF ChangeReadError, M2Refused, AddM2, ListM2, RemoveM2, RemoveM2Nothing,
                  RemoveM2NotCleaned, ReadRefused, Responds, ReadDone, FailRequest
    <3>3. OwnPairingGone(s) => failed' = "PairingsRead"
      BY DEF OwnPairingGone, Fail
    <3> QED
      BY <2>2, <3>1, <3>2, <3>3 DEF ChangeStep
  <2>3. CASE \E s \in Sessions : RequestStep(s)
    BY <2>3 DEF RequestStep, WriteRejected, ReadRejected, OtherRequest, StoreFails,
                FailRequest, Fail
  <2>4. CASE \E s \in Sessions : ConnectionStep(s)
    BY <2>4 DEF ConnectionStep, Connect, Disconnect, Written, InputOfRemoved,
                BeginProcedure, DropLink, PairSetup, SessionStep, Fail
  <2>5. CASE Start \/ Reboot \/ RebootDuringPurge \/ UNCHANGED vars
    BY <2>5 DEF Start, Reboot, RebootDuringPurge, ZeroRam, vars
  <2> QED
    BY <2>1, <2>2, <2>3, <2>4, <2>5 DEF Next
<1> QED
  BY <1>1, <1>2, SpecIInv, SpecBound, PTL DEF Spec

-----------------------------------------------------------------------------
(***************************************************************************)
(* With BLE alone, who changes the pairings.                               *)
(***************************************************************************)

\* Session s has the pairing of an admin, and is that admin's.
OfAdmin(s) == pairings[sess[s].hap.key] = [who |-> sess[s].hap.who, admin |-> TRUE]

LEMMA AdminOfPairing ==
    ASSUME Alone, IInv, BInv, NEW s \in Sessions, IsAdmin(s),
           CanWrite(s, "admin") \/ CanRead(s, "admin")
    PROVE  OfAdmin(s)
<1>1. IsSecured(sess[s], pairings)
  BY BLERequest
<1>2. Peer(sess[s].hap, pairings) /\ sess[s].hap # Nobody
  BY <1>1 DEF BInv, Bound, Linked, IsSecured
<1>3. sess[s].hap.key \in Keys /\ pairings \in Lists
  BY <1>2, SessionFacts DEF Session, Identity
<1>4. pairings[sess[s].hap.key] \in [who : Controllers, admin : BOOLEAN]
  BY <1>1, <1>3, PairingFacts DEF IsSecured, Lists, Pairing
<1> QED
  BY <1>2, <1>4 DEF Peer, IsAdmin, OfAdmin

\* A session that has responded has ended its procedure.
LEMMA RespondEnds ==
    ASSUME NEW s \in BLESessions, NEW r \in Session, NEW p
    PROVE  Respond(s, r, p).begun = "none"
<1>1. [r EXCEPT !.flag = FALSE, !.begun = "none"].begun = "none"
  BY DEF Session
<1>2. Terminate(r).begun = "none"
  BY DEF Terminate, Invalidate, Session
<1> QED
  BY <1>1, <1>2, Apart DEF Respond

LEMMA WriterChanges ==
    ASSUME Alone, IInv, BInv, NEW s \in Sessions, ExpectsM1(s),
           NEW method \in Methods, NEW target \in Controllers, NEW p,
           ChangeWritten(s, method, target, FALSE, p)
    PROVE  sess'[s] # sess[s]
<1> DEFINE c == [step |-> 1, method |-> method, target |-> target, error |-> FALSE]
           r == [sess[s] EXCEPT !.change = c]
<1>1. CanWrite(s, "admin") /\ sess[s].change.step = 0
  BY DEF ExpectsM1
<1>2. Received(s, "admin") = sess[s] /\ sess[s].begun = "admin"
  BY <1>1, BLERequest
<1>3. sess' = [sess EXCEPT ![s] = r] \/ sess' = [sess EXCEPT ![s] = Respond(s, r, p)]
  BY <1>2 DEF ChangeWritten, WriteDone
<1>4. c \in Change /\ c.step = 1
  BY DEF Change
<1> HIDE DEF c
<1>5. r \in Session /\ r.change.step = 1
  BY <1>4, SessionFacts DEF Session
<1> HIDE DEF r
<1>6. Respond(s, r, p).begun = "none"
  BY <1>5, RespondEnds, OfBLE
<1>7. sess'[s] = r \/ sess'[s] = Respond(s, r, p)
  BY <1>3 DEF IInv, SessionsOK
<1> QED
  BY <1>1, <1>2, <1>5, <1>6, <1>7

LEMMA ReaderChanges ==
    ASSUME Alone, IInv, BInv, NEW s \in Sessions, CanRead(s, "admin"), NEW p,
           ReadDone(s, [sess[s] EXCEPT !.change = NoChange], p)
    PROVE  sess'[s] # sess[s]
<1> DEFINE r == [sess[s] EXCEPT !.change = NoChange]
<1>1. sess[s].begun = "admin"
  BY BLERequest
<1>2. r \in Session
  BY NoChangeType, SessionFacts DEF Session
<1>3. sess'[s] = Respond(s, r, p)
  BY DEF ReadDone, Answer
<1> HIDE DEF r
<1> QED
  BY <1>1, <1>2, <1>3, RespondEnds, OfBLE

LEMMA AdminStep ==
    ASSUME Alone, IInv, BInv, [Next]_vars, running, running', IsPaired(pairings),
           pairings' # pairings
    PROVE  \E s \in Sessions : sess[s] # sess'[s] /\ OfAdmin(s)
<1>1. ASSUME NEW s \in Sessions, ChangeStep(s)
      PROVE  sess[s] # sess'[s] /\ OfAdmin(s)
  <2>1. CASE \E c \in Controllers, admin \in BOOLEAN :
                UpdateM1(s, c, admin) \/ AddM1(s, c, admin)
    <3>1. PICK c \in Controllers :
              \E p : ExpectsM1(s) /\ IsAdmin(s) /\ ChangeWritten(s, "add", c, FALSE, p)
      BY <2>1 DEF UpdateM1, AddM1, ExpectsAddM1
    <3>2. PICK p : ExpectsM1(s) /\ IsAdmin(s) /\ ChangeWritten(s, "add", c, FALSE, p)
      BY <3>1
    <3>3. "add" \in Methods
      BY DEF Methods
    <3> QED
      BY <3>2, <3>3, WriterChanges, AdminOfPairing DEF ExpectsM1
  <2>2. CASE RemoveM2(s)
    <3>1. PICK p : /\ CanRead(s, "admin") /\ IsAdmin(s)
                   /\ ReadDone(s, [sess[s] EXCEPT !.change = NoChange], p)
      BY <2>2 DEF RemoveM2, Removes, ExpectsM2
    <3> QED
      BY <3>1, ReaderChanges, AdminOfPairing
  <2>3. CASE \/ \E c \in Controllers, admin \in BOOLEAN : UpdateM1NotCleaned(s, c, admin)
             \/ RemoveM2NotCleaned(s)
    BY <2>3 DEF UpdateM1NotCleaned, RemoveM2NotCleaned, Alone
  <2>4. CASE \/ \E method \in Methods \ {"none"} : ChangeRefused(s, method)
             \/ \E c \in Controllers : RemoveM1(s, c) \/ AddM1Refused(s, c)
             \/ ListM1(s) \/ M2Refused(s) \/ AddM2(s) \/ ListM2(s)
             \/ ChangeReadError(s) \/ OwnPairingGone(s)
             \/ RemoveM2Nothing(s) \/ ReadRefused(s)
    BY <2>4 DEF ChangeRefused, RemoveM1, ListM1, AddM1Refused, ChangeReadError,
                OwnPairingGone, M2Refused, AddM2, ListM2, RemoveM2Nothing, ReadRefused,
                ChangeWritten, Responds, ReadDone, FailRequest, Fail
  <2> QED
    BY <1>1, <2>1, <2>2, <2>3, <2>4 DEF ChangeStep
<1>2. ASSUME NEW s \in Sessions, VerifyStep(s) \/ RequestStep(s)
      PROVE  FALSE
  <2>1. CASE VerifyStep(s)
    BY <2>1 DEF VerifyStep, VerifyM1, VerifyM1Active, ResumeM1, VerifyM3,
                VerifyM3Refused, VerifyReadError, VerifyM2, ResumeM2, VerifyM4,
                StartSession, StartSessionUnpaired, VerifyWritten, ReadDone, Fail
  <2>2. CASE RequestStep(s)
    BY <2>2 DEF RequestStep, WriteRejected, ReadRejected, OtherRequest, StoreFails,
                FailRequest, Fail
  <2> QED
    BY <1>2, <2>1, <2>2
<1>3. ASSUME NEW s \in Sessions, ConnectionStep(s)
      PROVE  FALSE
  BY <1>3 DEF ConnectionStep, Connect, Disconnect, Written, InputOfRemoved,
              BeginProcedure, DropLink, PairSetup, SessionStep, Fail
<1>4. ASSUME Start \/ Reboot \/ RebootDuringPurge \/ UNCHANGED vars
      PROVE  FALSE
  BY <1>4 DEF Start, Reboot, RebootDuringPurge, ZeroRam, vars
<1> QED
  BY <1>1, <1>2, <1>3, <1>4 DEF Next

\* Over BLE pairings that are there are changed only by a session of a
\* controller that is an admin by the list as it is then
\* (HAPPairingPairingsHandleWrite and HAPPairingPairingsHandleRead ask the store
\* for the session's own pairing on every request).
THEOREM OnlyAdminsChange ==
    IPSessions = {} /\ ~StoreMayFail => (Spec => AdminsChangePairings)
<1> SUFFICES ASSUME Alone PROVE Spec => AdminsChangePairings
  BY DEF Alone
<1>1. IInv /\ BInv /\ [Next]_vars
         => [/\ running /\ running'
             /\ IsPaired(pairings)
             /\ pairings' # pairings
             => \E s \in Sessions :
                   /\ sess[s] # sess'[s]
                   /\ pairings[sess[s].hap.key]
                         = [who |-> sess[s].hap.who, admin |-> TRUE]
            ]_vars
  BY AdminStep DEF OfAdmin
<1> QED
  BY <1>1, SpecIInv, SpecBound, PTL DEF Spec, AdminsChangePairings

=============================================================================
