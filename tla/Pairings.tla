------------------------------ MODULE Pairings ------------------------------
(***************************************************************************)
(* Pairings and the sessions they secure: the list of pairings in the      *)
(* key-value store (HAPPairingPairings.c), Pair Verify and, over BLE, Pair *)
(* Resume with its cache (HAPPairingPairVerify.c,                          *)
(* HAPPairingBLESessionCache.c), and the checks by which the transports    *)
(* notice that the pairing of a session is gone (HAPSession.c,             *)
(* HAPIPAccessoryServer.c, HAPBLEProcedure.c).                             *)
(*                                                                         *)
(* An action is a handler or, as "handling" tells, the first or the second *)
(* half of one: over IP a request is a write and a read of a procedure;    *)
(* over BLE a write may also come without a read, and a read without a     *)
(* write.  Pair Setup is one step here, see PairSetup for its inside.      *)
(***************************************************************************)
EXTENDS Integers, FiniteSets

CONSTANTS
    Controllers,    \* pairing identifiers, each with its long-term key
    NoController,
    MaxPairings,    \* server->maxPairings
    IPSessions,     \* sessions of the IP accessory server
    BLESessions,    \* the session of the BLE peripheral manager, if any
    NoSession,
    CacheSize,      \* ble.storage->numSessionCacheElements
    StoreMayFail    \* accesses to the store by Pairings and Pair Verify may fail

ASSUME PairingsAssumption ==
    /\ NoController \notin Controllers
    /\ MaxPairings \in Nat \ {0}
    /\ IPSessions \cap BLESessions = {}
    /\ NoSession \notin IPSessions \cup BLESessions
    /\ \A s, t \in BLESessions : s = t
    /\ CacheSize \in Nat \ {0}
    /\ StoreMayFail \in BOOLEAN

VARIABLES
    pairings,   \* kHAPKeyValueStoreDomain_Pairings
    sess,       \* the sessions, see Session
    cache,      \* ble.storage->sessionCacheElements
    running,    \* the server has been started
    handling,   \* session between the write and the read of one handler
    failed      \* the assertion that has failed

vars == <<pairings, sess, cache, running, handling, failed>>

-----------------------------------------------------------------------------
(***************************************************************************)
(* State.                                                                  *)
(***************************************************************************)

Sessions == IPSessions \cup BLESessions
Keys == 0 .. MaxPairings - 1
NoKey == -1
Slots == 1 .. CacheSize

NoPairing == [who |-> NoController, admin |-> FALSE]
Pairing == [who : Controllers, admin : BOOLEAN] \cup {NoPairing}

\* What a session was secured by: the key of the pairing, and the controller
\* that proved to have it, which the session's keys stand for in the code.
Nobody == [key |-> NoKey, who |-> NoController]
Identity == [key : Keys, who : Controllers] \cup {Nobody}

\* session->state.pairVerify
Verify == [step : 0 .. 3, resume : BOOLEAN, id : Identity, error : BOOLEAN]
NoVerify == [step |-> 0, resume |-> FALSE, id |-> Nobody, error |-> FALSE]

\* session->state.pairings
Methods == {"none", "add", "remove", "list"}
Change == [step : 0 .. 1, method : Methods,
           target : Controllers \cup {NoController}, error : BOOLEAN]
NoChange == [step |-> 0, method |-> "none", target |-> NoController,
             error |-> FALSE]

(***************************************************************************)
(* What a request is for: Pair Setup and Pair Verify are open to sessions  *)
(* that are not secured, and to those only; Pairings is for admins.        *)
(***************************************************************************)
Endpoints == {"open", "admin"}

(***************************************************************************)
(* io is the state of the connection; hap is session->hap, Nobody when it  *)
(* is not active; flag is isSecured of an IP session's security session,   *)
(* or startedSecured of the BLE procedure; begun is the characteristic of  *)
(* the BLE procedure in progress.                                          *)
(***************************************************************************)
Session ==
    [io : {"closed", "reading", "writing", "terminal"}, flag : BOOLEAN,
     hap : Identity, verify : Verify, change : Change,
     begun : Endpoints \cup {"none"}]

Closed ==
    [io |-> "closed", flag |-> FALSE, hap |-> Nobody, verify |-> NoVerify,
     change |-> NoChange, begun |-> "none"]

Assertions == {"none", "Input", "VerifyM1", "SessionAccept", "PairingsRead",
               "StoreError"}

HasBLE == BLESessions # {}
NoPairings == [k \in Keys |-> NoPairing]
EmptyCache == [i \in Slots |-> Nobody]

Init ==
    /\ pairings = NoPairings
    /\ sess = [s \in Sessions |-> Closed]
    /\ cache = EmptyCache
    /\ running = FALSE
    /\ handling = NoSession
    /\ failed = "none"

Up == failed = "none"

\* The run loop may enter a handler.
Ready == Up /\ running /\ handling = NoSession

-----------------------------------------------------------------------------
(***************************************************************************)
(* The list of pairings p.                                                 *)
(***************************************************************************)

Stored(p, k) == p[k].who # NoController
HasAdmin(p) == \E k \in Keys : p[k].admin

\* Fault: a list without an admin, left by a purge, is like none.
IsPaired_ByAdmin(p) == HasAdmin(p)

IsPaired(p) == \E k \in Keys : Stored(p, k)

\* HAPPairingFind: the order of the enumeration is the store's.
Find(p, c) == {k \in Keys : p[k].who = c}

\* The first key that is not in use.
FreeKeys(p) ==
    {k \in Keys : ~Stored(p, k) /\ \A j \in Keys : j < k => Stored(p, j)}

\* Fault: the other pairings stay when the last admin is removed.
Cleanup_Never(p) == p

\* If there is no admin, delete all pairings.
Cleanup(p) == IF HasAdmin(p) THEN p ELSE NoPairings

\* What a purge of p that does not come to its end may leave.
PartlyPurged(p) ==
    {[k \in Keys |-> IF k \in S THEN NoPairing ELSE p[k]] : S \in SUBSET Keys}

-----------------------------------------------------------------------------
(***************************************************************************)
(* The Pair Resume cache.  Its entries are known by session IDs, which no  *)
(* two share.  The least recently used one is replaced: here, any.         *)
(***************************************************************************)

FreeSlots(c) == {i \in Slots : c[i] = Nobody}
SlotsToReplace(c) == IF FreeSlots(c) = {} THEN Slots ELSE FreeSlots(c)

\* Fault: entries outlive their pairing.
InvalidateEntriesForPairing_None(c, key) == c

InvalidateEntriesForPairing(c, key) ==
    [i \in Slots |-> IF c[i].key = key THEN Nobody ELSE c[i]]

\* CleanupPairings purges the cache with the pairings.
CleanupCache(p, c) == IF HasAdmin(p) THEN c ELSE EmptyCache

\* What a clean-up of the pairings p and the cache c that fails does: in the
\* search of an admin, in the purge, or in the removal of the broadcast key,
\* which comes last.
CleanupFails(p, c) ==
    /\ pairings' \in IF HasAdmin(p) THEN {p} ELSE PartlyPurged(p)
    /\ \/ cache' = c
       \/ pairings' = NoPairings /\ cache' = EmptyCache

-----------------------------------------------------------------------------
(***************************************************************************)
(* A session r, given the pairings p.                                      *)
(***************************************************************************)

\* Fault: the store is not asked.
IsSecured_ActiveOnly(r, p) == r.hap # Nobody

\* HAPSessionIsSecured.
IsSecured(r, p) == r.hap # Nobody /\ Stored(p, r.hap.key)

\* It has been secured, and its pairing is gone.
Removed(r, p) == r.flag /\ ~IsSecured(r, p)

\* HAPSessionInvalidate.
Invalidate(r) ==
    [r EXCEPT !.hap = Nobody, !.verify = NoVerify, !.change = NoChange]

Terminate(r) == [Invalidate(r) EXCEPT !.io = "terminal", !.flag = FALSE,
                                      !.begun = "none"]

\* Fault: over BLE a session outlives its pairing.
Respond_KeepsSession(s, r, p) ==
    IF s \in IPSessions THEN [r EXCEPT !.io = "writing"]
    ELSE [r EXCEPT !.flag = FALSE, !.begun = "none"]

\* A response is given to the transport.  Over BLE it ends the procedure, and
\* the session if it is not secured any more.
Respond(s, r, p) ==
    IF s \in IPSessions THEN [r EXCEPT !.io = "writing"]
    ELSE IF Removed(r, p) THEN Terminate(r)
    ELSE [r EXCEPT !.flag = FALSE, !.begun = "none"]

\* Fault: other sessions are not looked at.
Answer_NotOthers(s, r, p) == [sess EXCEPT ![s] = Respond(s, r, p)]

\* Session s, now r, responds, and over IP "other sessions whose pairing has
\* been removed" are closed, but for those that are still writing.
Answer(s, r, p) ==
    [t \in Sessions |->
        IF t = s THEN Respond(s, r, p)
        ELSE IF /\ {s, t} \subseteq IPSessions
                /\ sess[t].io = "reading"
                /\ Removed(sess[t], p)
        THEN Closed
        ELSE sess[t]]

\* What the request that session s is handling is for.
Endpoint(s) ==
    IF s \in BLESessions THEN sess[s].begun
    ELSE IF sess[s].flag THEN "admin" ELSE "open"

\* A request to endpoint e is processed.  (Over IP, the input of a session
\* that has been secured is not looked at further when it no longer is.)
CanWrite(s, e) ==
    /\ Ready
    /\ \/ s \in IPSessions /\ sess[s].io = "reading"
       \/ s \in BLESessions /\ sess[s].begun = e
    /\ e = "admin" <=> IsSecured(sess[s], pairings)
    /\ e = "open" /\ s \in IPSessions => ~sess[s].flag

\* The session as the handler of its request finds it.
Received(s, e) ==
    IF s \in IPSessions THEN [sess[s] EXCEPT !.flag = (e = "admin")] ELSE sess[s]

\* The write succeeds, with session s now r and the pairings p: the same
\* handler reads, or, over BLE, may not.
WriteDone(s, r, p) ==
    \/ /\ handling' = s
       /\ sess' = [sess EXCEPT ![s] = r]
    \/ /\ s \in BLESessions
       /\ handling' = NoSession
       /\ sess' = [sess EXCEPT ![s] = Respond(s, r, p)]

\* The response to a request to endpoint e is read.
CanRead(s, e) ==
    /\ Up
    /\ \/ handling = s /\ Endpoint(s) = e
       \/ Ready /\ s \in BLESessions /\ sess[s].begun = e
    /\ s \in BLESessions => (e = "admin" <=> IsSecured(sess[s], pairings))

\* An assertion fails, and with it the process.
Fail(name) ==
    /\ failed' = name
    /\ UNCHANGED <<pairings, sess, cache, running, handling>>

-----------------------------------------------------------------------------
(***************************************************************************)
(* Pair Verify and Pair Resume, HAPPairingPairVerifyHandleWrite.           *)
(***************************************************************************)

\* HAPSessionHandlePairVerifyWrite of a message that is accepted.
VerifyWritten(s, verify) ==
    /\ WriteDone(s, [Received(s, "open") EXCEPT !.verify = verify], pairings)
    /\ UNCHANGED <<pairings, running, failed>>

\* M1 begins anew, whatever the step was.
VerifyM1(s) ==
    /\ CanWrite(s, "open")
    /\ sess[s].hap = Nobody
    /\ VerifyWritten(s, [NoVerify EXCEPT !.step = 1])
    /\ UNCHANGED cache

\* The precondition of HAPPairingPairVerifyProcessM1: the session is not
\* active.  It may be, with a pairing that has been removed.
VerifyM1Active(s) ==
    /\ CanWrite(s, "open")
    /\ sess[s].hap # Nobody
    /\ Fail("VerifyM1")

\* M1 asks to resume the session of a cache entry, which it removes.  One that
\* is not found falls back to VerifyM1.
ResumeM1(s, slot, decrypts) ==
    /\ s \in BLESessions
    /\ CanWrite(s, "open")
    /\ sess[s].hap = Nobody
    /\ cache[slot] # Nobody
    /\ cache' = [cache EXCEPT ![slot] = Nobody]
    /\ VerifyWritten(s, [step |-> 1, resume |-> TRUE, id |-> cache[slot],
                         error |-> ~decrypts])

\* M3 is signed by controller c, whose pairing is found.
VerifyM3(s, c) ==
    /\ CanWrite(s, "open")
    /\ sess[s].verify.step = 2
    /\ \E key \in Find(pairings, c) :
          VerifyWritten(s, [NoVerify EXCEPT !.step = 3,
                                            !.id = [key |-> key, who |-> c]])
    /\ UNCHANGED cache

\* M3 does not decrypt, its pairing is not found, or the signature is wrong.
VerifyM3Refused(s) ==
    /\ CanWrite(s, "open")
    /\ sess[s].verify.step = 2
    /\ VerifyWritten(s, [NoVerify EXCEPT !.step = 3, !.error = TRUE])
    /\ UNCHANGED cache

-----------------------------------------------------------------------------
(***************************************************************************)
(* HAPPairingPairVerifyHandleRead.                                         *)
(***************************************************************************)

\* The read succeeds with session s now r.
ReadDone(s, r, p) ==
    /\ sess' = Answer(s, r, p)
    /\ handling' = NoSession
    /\ UNCHANGED <<running, failed>>

VerifyReadError(s) ==
    /\ CanRead(s, "open")
    /\ sess[s].verify.error
    /\ ReadDone(s, [sess[s] EXCEPT !.verify = NoVerify], pairings)
    /\ UNCHANGED <<pairings, cache>>

\* Fault: the step of the procedure is not asked.
VerifyM2_AnyStep(s) ==
    /\ CanRead(s, "open")
    /\ sess[s].verify.step # 0
    /\ ~sess[s].verify.resume /\ ~sess[s].verify.error
    /\ ReadDone(s, [sess[s] EXCEPT !.verify.step = @ + 1], pairings)
    /\ UNCHANGED <<pairings, cache>>

VerifyM2(s) ==
    /\ CanRead(s, "open")
    /\ sess[s].verify.step = 1
    /\ ~sess[s].verify.resume /\ ~sess[s].verify.error
    /\ ReadDone(s, [sess[s] EXCEPT !.verify.step = 2], pairings)
    /\ UNCHANGED <<pairings, cache>>

\* A session starts: Pair Resume at M2, or Pair Verify at M4.
Resuming(s) ==
    ~sess[s].verify.error /\ sess[s].verify.step = 1 /\ sess[s].verify.resume

Verified(s) == ~sess[s].verify.error /\ sess[s].verify.step = 3

Starting(s) == Resuming(s) \/ Verified(s)

Started(s) == [sess[s] EXCEPT !.hap = sess[s].verify.id, !.verify = NoVerify]

\* Over BLE the secret of session s is saved.
Saved(s) ==
    IF s \in BLESessions
    THEN {[cache EXCEPT ![slot] = sess[s].verify.id] :
              slot \in SlotsToReplace(cache)}
    ELSE {cache}

StartSession(s) ==
    /\ CanRead(s, "open")
    /\ HasBLE => IsSecured(Started(s), pairings)
    /\ cache' \in Saved(s)
    /\ ReadDone(s, Started(s), pairings)
    /\ UNCHANGED pairings

ResumeM2(s) == Resuming(s) /\ StartSession(s)
VerifyM4(s) == Verified(s) /\ StartSession(s)

\* The precondition of HAPBLEPeripheralManagerHandleSessionAccept: the session
\* that has been started is secured.
StartSessionUnpaired(s) ==
    /\ CanRead(s, "open")
    /\ Starting(s)
    /\ HasBLE
    /\ ~IsSecured(Started(s), pairings)
    /\ Fail("SessionAccept")

-----------------------------------------------------------------------------
(***************************************************************************)
(* Requests without an effect on the pairings.                             *)
(***************************************************************************)

\* The procedure of endpoint e is reset.
Reset(r, e) ==
    IF e = "open" THEN [r EXCEPT !.verify = NoVerify]
    ELSE [r EXCEPT !.change = NoChange]

\* A failed request is answered, and other sessions are not looked at.
FailRequest(s, r) ==
    /\ sess' = [sess EXCEPT ![s] = Respond(s, r, pairings)]
    /\ handling' = NoSession
    /\ UNCHANGED <<pairings, running, failed>>

\* A write that is malformed, or not expected in this step.
WriteRejected(s, e) ==
    /\ CanWrite(s, e)
    /\ FailRequest(s, Reset(Received(s, e), e))
    /\ UNCHANGED cache

\* A read that is not expected in this step, or whose response does not fit (a
\* list, or keys), perhaps after the secret of a session has been saved.
ReadRejected(s, e) ==
    /\ CanRead(s, e)
    /\ e = "admin" => sess[s].change.step = 0 \/ sess[s].change.method = "list"
    /\ FailRequest(s, Reset(sess[s], e))
    /\ \/ UNCHANGED cache
       \/ e = "open" /\ Starting(s) /\ cache' \in Saved(s)

\* Any other request that an IP session may send, or, over BLE, one that needs
\* another security than the session has.
OtherRequest(s) ==
    /\ Ready
    /\ \/ /\ s \in IPSessions
          /\ sess[s].io = "reading"
          /\ ~Removed(sess[s], pairings)
          /\ FailRequest(s, [sess[s] EXCEPT !.flag = IsSecured(sess[s], pairings)])
       \/ /\ s \in BLESessions
          /\ sess[s].begun # "none"
          /\ FailRequest(s, sess[s])
    /\ UNCHANGED cache

-----------------------------------------------------------------------------
(***************************************************************************)
(* Pairings, HAPPairingPairingsHandleWrite.                                *)
(***************************************************************************)

\* Fault: any controller may change the pairings.
IsAdmin_Any(s) == Stored(pairings, sess[s].hap.key)

\* The session's own pairing is an admin's.
IsAdmin(s) == pairings[sess[s].hap.key].admin

\* M1 is expected, with its method and target, and the outcome error.
ChangeWritten(s, method, target, error, p) ==
    /\ WriteDone(s, [Received(s, "admin") EXCEPT
                        !.change = [step |-> 1, method |-> method,
                                    target |-> target, error |-> error]], p)
    /\ UNCHANGED <<running, failed>>

ExpectsM1(s) == CanWrite(s, "admin") /\ sess[s].change.step = 0

ChangeRefused(s, method) ==
    /\ ExpectsM1(s)
    /\ ~IsAdmin(s)
    /\ ChangeWritten(s, method, NoController, TRUE, pairings)
    /\ UNCHANGED <<pairings, cache>>

\* Remove Pairing M1: the removal is done when the response is read.
RemoveM1(s, c) ==
    /\ ExpectsM1(s)
    /\ IsAdmin(s)
    /\ ChangeWritten(s, "remove", c, FALSE, pairings)
    /\ UNCHANGED <<pairings, cache>>

\* List Pairings M1.
ListM1(s) ==
    /\ ExpectsM1(s)
    /\ IsAdmin(s)
    /\ ChangeWritten(s, "list", NoController, FALSE, pairings)
    /\ UNCHANGED <<pairings, cache>>

\* Add Pairing M1 whose fields have their types and lengths.  (WriteRejected
\* is for those that do not.)
ExpectsAddM1(s) == ExpectsM1(s) /\ IsAdmin(s)

\* The pairings after the permissions of controller c have been stored.
Updated(c, admin) ==
    {[pairings EXCEPT ![key].admin = admin] : key \in Find(pairings, c)}

\* Add Pairing M1 of a controller that has a pairing updates its permissions,
\* which may leave no admin.
UpdateM1(s, c, admin) ==
    /\ ExpectsAddM1(s)
    /\ \E p \in Updated(c, admin) :
          /\ pairings' = Cleanup(p)
          /\ cache' = CleanupCache(p, cache)
          /\ ChangeWritten(s, "add", c, FALSE, Cleanup(p))

\* Fault: the controller is not looked for.
AddM1_Anew(s, c, admin) ==
    /\ ExpectsAddM1(s)
    /\ \E key \in FreeKeys(pairings) :
          LET p == [pairings EXCEPT ![key] = [who |-> c, admin |-> admin]]
          IN  pairings' = p /\ ChangeWritten(s, "add", c, FALSE, p)
    /\ UNCHANGED cache

\* Add Pairing M1 of another controller.
AddM1(s, c, admin) ==
    /\ ExpectsAddM1(s)
    /\ Find(pairings, c) = {}
    /\ \E key \in FreeKeys(pairings) :
          LET p == [pairings EXCEPT ![key] = [who |-> c, admin |-> admin]]
          IN  pairings' = p /\ ChangeWritten(s, "add", c, FALSE, p)
    /\ UNCHANGED cache

\* No key is free, the long-term key is not the stored one, or, for a new
\* pairing, the store fails.
AddM1Refused(s, c) ==
    /\ ExpectsAddM1(s)
    /\ \/ Find(pairings, c) # {}
       \/ FreeKeys(pairings) = {}
       \/ StoreMayFail
    /\ ChangeWritten(s, "add", c, TRUE, pairings)
    /\ UNCHANGED <<pairings, cache>>

\* The clean-up fails: an error is pending.
UpdateM1NotCleaned(s, c, admin) ==
    /\ StoreMayFail
    /\ ExpectsAddM1(s)
    /\ \E p \in Updated(c, admin) :
          /\ CleanupFails(p, cache)
          /\ ChangeWritten(s, "add", c, TRUE, pairings')

-----------------------------------------------------------------------------
(***************************************************************************)
(* HAPPairingPairingsHandleRead.                                           *)
(***************************************************************************)

\* A response, after which the procedure is reset.
Responds(s) ==
    /\ ReadDone(s, [sess[s] EXCEPT !.change = NoChange], pairings)
    /\ UNCHANGED <<pairings, cache>>

ChangeReadError(s) ==
    /\ CanRead(s, "admin")
    /\ sess[s].change.error
    /\ Responds(s)

ExpectsM2(s) ==
    /\ CanRead(s, "admin")
    /\ sess[s].change.step = 1
    /\ ~sess[s].change.error

\* The assertion of HAPSessionHandlePairingsRead on its errors: the session's
\* own pairing is gone, which is an error that it does not allow for.
OwnPairingGone(s) ==
    /\ ExpectsM2(s)
    /\ ~Stored(pairings, sess[s].hap.key)
    /\ Fail("PairingsRead")

\* The session is not that of an admin any more.
M2Refused(s) ==
    /\ ExpectsM2(s)
    /\ Stored(pairings, sess[s].hap.key)
    /\ ~IsAdmin(s)
    /\ Responds(s)

\* Add Pairing M2: M1 has done it all.
AddM2(s) ==
    /\ ExpectsM2(s)
    /\ IsAdmin(s)
    /\ sess[s].change.method = "add"
    /\ Responds(s)

\* List Pairings M2: pairings are enumerated and stay as they are.  (A list
\* that does not fit is ReadRejected, one that cannot be read StoreFails.)
ListM2(s) ==
    /\ ExpectsM2(s)
    /\ IsAdmin(s)
    /\ sess[s].change.method = "list"
    /\ Responds(s)

Removes(s) ==
    /\ ExpectsM2(s)
    /\ IsAdmin(s)
    /\ sess[s].change.method = "remove"

\* The key of the pairing that session s removes, and the pairings without it.
KeysToRemove(s) == Find(pairings, sess[s].change.target)
Without(key) == [pairings EXCEPT ![key] = NoPairing]

\* Remove Pairing M2.
RemoveM2(s) ==
    /\ Removes(s)
    /\ \E key \in KeysToRemove(s) :
          LET p == Without(key)
          IN  /\ pairings' = Cleanup(p)
              /\ cache' = CleanupCache(p, InvalidateEntriesForPairing(cache, key))
              /\ ReadDone(s, [sess[s] EXCEPT !.change = NoChange], Cleanup(p))

\* There is no such pairing, which is a success, or the store fails, which is
\* reported.
RemoveM2Nothing(s) ==
    /\ Removes(s)
    /\ KeysToRemove(s) = {} \/ StoreMayFail
    /\ Responds(s)

\* The clean-up fails: an error is reported.
RemoveM2NotCleaned(s) ==
    /\ StoreMayFail
    /\ Removes(s)
    /\ \E key \in KeysToRemove(s) :
          CleanupFails(Without(key), InvalidateEntriesForPairing(cache, key))
    /\ ReadDone(s, [sess[s] EXCEPT !.change = NoChange], pairings')

\* Over BLE, the write before has left the session without its pairing.
ReadRefused(s) ==
    /\ Up
    /\ handling = s
    /\ s \in BLESessions
    /\ sess[s].begun = "admin"
    /\ ~IsSecured(sess[s], pairings)
    /\ FailRequest(s, sess[s])
    /\ UNCHANGED cache

\* Accesses to the store whose failure an assertion does not allow for: while
\* a pairing is looked for, while the permissions are stored, and for the
\* device ID of Pair Verify M2.
StoreFails(s) ==
    /\ StoreMayFail
    /\ \/ ExpectsM1(s)
       \/ CanWrite(s, "open") /\ sess[s].verify.step = 2
       \/ ExpectsM2(s)
       \/ CanRead(s, "open") /\ sess[s].verify.step = 1 /\ ~sess[s].verify.resume
    /\ Fail("StoreError")

-----------------------------------------------------------------------------
(***************************************************************************)
(* Connections.                                                            *)
(***************************************************************************)

SessionStep(s, r) ==
    /\ sess' = [sess EXCEPT ![s] = r]
    /\ UNCHANGED <<pairings, cache, running, handling, failed>>

Connect(s) ==
    /\ Ready
    /\ sess[s].io = "closed"
    /\ SessionStep(s, [Closed EXCEPT !.io = "reading"])

\* Closed by the controller, by the link, or by the accessory.
Disconnect(s) ==
    /\ Ready
    /\ sess[s].io # "closed"
    /\ SessionStep(s, Closed)

\* The last byte of a response has been written.
Written(s) ==
    /\ Ready
    /\ sess[s].io = "writing"
    /\ SessionStep(s, IF Removed(sess[s], pairings) THEN Closed
                      ELSE [sess[s] EXCEPT !.io = "reading"])

\* The assertion of handle_input on a session that has been secured.
InputOfRemoved(s) ==
    /\ Ready
    /\ s \in IPSessions
    /\ sess[s].io = "reading"
    /\ Removed(sess[s], pairings)
    /\ Fail("Input")

\* The first GATT write of a procedure on a characteristic of endpoint e.  One
\* of Pair Setup or Pair Verify ends the security of the session, and takes
\* the place of a procedure in progress.
BeginProcedure(s, e) ==
    /\ Ready
    /\ s \in BLESessions
    /\ sess[s].io = "reading"
    /\ \/ sess[s].begun = "none"
       \/ sess[s].begun = "admin" /\ e = "open"
    /\ LET r == IF e = "open" /\ IsSecured(sess[s], pairings)
                THEN Invalidate(sess[s])
                ELSE sess[s]
       IN  SessionStep(s, [r EXCEPT !.begun = e, !.flag = IsSecured(r, pairings)])

\* A timer of the link, the pairing procedure or the BLE procedure expires, or
\* a fragment of a request is not accepted.
DropLink(s) ==
    /\ Ready
    /\ s \in BLESessions
    /\ sess[s].io = "reading"
    /\ SessionStep(s, Terminate(sess[s]))

-----------------------------------------------------------------------------
(***************************************************************************)
(* Pair Setup, the server, and power loss.                                 *)
(***************************************************************************)

\* M5 and M6 over session s: controller c is paired, as an admin.
PairSetup(s, c) ==
    /\ CanWrite(s, "open")
    /\ ~IsPaired(pairings)
    /\ LET p == [pairings EXCEPT ![0] = [who |-> c, admin |-> TRUE]]
       IN  pairings' = p /\ sess' = Answer(s, Received(s, "open"), p)
    /\ UNCHANGED <<cache, running, handling, failed>>

\* PrepareStart: a purge that was interrupted is completed.
Start ==
    /\ Up
    /\ ~running
    /\ running' = TRUE
    /\ pairings' = Cleanup(pairings)
    /\ UNCHANGED <<sess, cache, handling, failed>>

ZeroRam ==
    /\ sess' = [s \in Sessions |-> Closed]
    /\ cache' = EmptyCache
    /\ running' = FALSE
    /\ handling' = NoSession
    /\ failed' = "none"

\* At any moment, after an abort too.
Reboot == ZeroRam /\ UNCHANGED pairings

\* During a purge: in Start, UpdateM1 or RemoveM2.
RebootDuringPurge ==
    /\ Up
    /\ \/ ~running /\ pairings' \in PartlyPurged(pairings)
       \/ \E s \in Sessions, c \in Controllers :
             /\ ExpectsM1(s)
             /\ IsAdmin(s)
             /\ \E p \in Updated(c, FALSE) :
                   ~HasAdmin(p) /\ pairings' \in PartlyPurged(p)
       \/ \E s \in Sessions :
             /\ Removes(s)
             /\ \E key \in KeysToRemove(s) :
                   /\ ~HasAdmin(Without(key))
                   /\ pairings' \in PartlyPurged(Without(key))
    /\ ~running => ~HasAdmin(pairings)
    /\ ZeroRam

-----------------------------------------------------------------------------

VerifyStep(s) ==
    \/ VerifyM1(s)
    \/ VerifyM1Active(s)
    \/ \E slot \in Slots, decrypts \in BOOLEAN : ResumeM1(s, slot, decrypts)
    \/ \E c \in Controllers : VerifyM3(s, c)
    \/ VerifyM3Refused(s)
    \/ VerifyReadError(s)
    \/ VerifyM2(s)
    \/ ResumeM2(s)
    \/ VerifyM4(s)
    \/ StartSessionUnpaired(s)

ChangeStep(s) ==
    \/ \E method \in Methods \ {"none"} : ChangeRefused(s, method)
    \/ \E c \in Controllers : RemoveM1(s, c)
    \/ ListM1(s)
    \/ \E c \in Controllers, admin \in BOOLEAN :
          \/ UpdateM1(s, c, admin)
          \/ AddM1(s, c, admin)
          \/ UpdateM1NotCleaned(s, c, admin)
    \/ \E c \in Controllers : AddM1Refused(s, c)
    \/ ChangeReadError(s)
    \/ OwnPairingGone(s)
    \/ M2Refused(s)
    \/ AddM2(s)
    \/ ListM2(s)
    \/ RemoveM2(s)
    \/ RemoveM2Nothing(s)
    \/ RemoveM2NotCleaned(s)
    \/ ReadRefused(s)

RequestStep(s) ==
    \/ \E e \in Endpoints : WriteRejected(s, e) \/ ReadRejected(s, e)
    \/ OtherRequest(s)
    \/ StoreFails(s)

ConnectionStep(s) ==
    \/ Connect(s)
    \/ Disconnect(s)
    \/ Written(s)
    \/ InputOfRemoved(s)
    \/ \E e \in Endpoints : BeginProcedure(s, e)
    \/ DropLink(s)
    \/ \E c \in Controllers : PairSetup(s, c)

Next ==
    \/ \E s \in Sessions :
          VerifyStep(s) \/ ChangeStep(s) \/ RequestStep(s) \/ ConnectionStep(s)
    \/ Start
    \/ Reboot
    \/ RebootDuringPurge

Spec == Init /\ [][Next]_vars

-----------------------------------------------------------------------------
(***************************************************************************)
(* Properties.                                                             *)
(***************************************************************************)

\* Every variable has its type.
TypeOK ==
    /\ pairings \in [Keys -> Pairing]
    /\ sess \in [Sessions -> Session]
    /\ cache \in [Slots -> Identity]
    /\ running \in BOOLEAN
    /\ handling \in Sessions \cup {NoSession}
    /\ failed \in Assertions

\* A controller has one pairing: HAPPairingFind, which every request starts
\* with, finds all there is to find, and a removal leaves nothing behind.
OnePairingPerController ==
    \A j, k \in Keys :
        Stored(pairings, j) /\ pairings[j].who = pairings[k].who => j = k

\* "If there is no admin, delete all pairings" (HAPAccessoryServer.c): a paired
\* accessory that is running always has an admin, whatever sessions did and
\* wherever the power was lost.  (The store works.)
AdminExists == running /\ IsPaired(pairings) => HasAdmin(pairings)

\* What each controller may do by the pairings p, as PairingTable sees it.  While
\* a purge has begun and not ended nobody has access.
AccessOf(p, c) ==
    IF ~HasAdmin(p) \/ Find(p, c) = {} THEN "none"
    ELSE IF \E k \in Find(p, c) : p[k].admin THEN "admin"
    ELSE "user"

AccessBy(p) == [c \in Controllers |-> AccessOf(p, c)]

Table == INSTANCE PairingTable WITH access <- AccessBy(pairings)

\* The list of pairings, whatever sessions do at the same time and wherever the
\* power is lost, implements the table.
KeepsTable == Table!Spec

\* Without BLE: when no handler runs, a session whose pairing has been removed
\* does not read requests any more: it is closed at once, or when its response
\* has been written.  The assertion of handle_input depends on it.
RemovedNotReading ==
    Ready => \A s \in IPSessions :
        sess[s].io = "reading" => ~Removed(sess[s], pairings)

\* A session is used under the pairing of the controller that it was verified
\* with.  ("To detect concurrent Remove Pairing operations, the persistent
\* cache is also checked", HAPSession.c.)
SessionPeer ==
    Up => \A s \in Sessions :
        IsSecured(sess[s], pairings) =>
            pairings[sess[s].hap.key].who = sess[s].hap.who

\* With BLE alone: what is left in the Pair Resume cache is the pairing of the
\* controller that it was saved for, so that a removed controller, or one that
\* was given the key of a removed one, never resumes a session.
CacheEntriesPaired ==
    Up /\ running => \A i \in Slots :
        cache[i] # Nobody =>
            cache[i].key \in Find(pairings, cache[i].who)

\* With BLE alone: pairings that are there are changed only by a session that
\* was verified with the controller of an admin pairing, and has not lost it to
\* another one.
AdminsChangePairings ==
    [][/\ running /\ running'
       /\ IsPaired(pairings)
       /\ pairings' # pairings
       => \E s \in Sessions :
             /\ sess[s] # sess'[s]
             /\ pairings[sess[s].hap.key] = [who |-> sess[s].hap.who, admin |-> TRUE]
      ]_vars

\* With BLE alone: Pair Verify never finds a session that is still active, nor
\* does it start one whose pairing is gone.
VerifyPreconditions == failed \notin {"VerifyM1", "SessionAccept"}

\* What the code asserts, with an IP session alone or with both transports:

\* HAPPrecondition(!session->hap.active) of HAPPairingPairVerifyProcessM1.
VerifyStartsInactive == failed # "VerifyM1"

\* HAPAssert of handle_input: a session that has been secured is secured.
InputIsSecured == failed # "Input"

\* HAPAssert of HAPSessionHandlePairingsRead on the errors it may meet.
PairingsReadErrors == failed # "PairingsRead"

\* HAPPrecondition of HAPBLEPeripheralManagerHandleSessionAccept.
AcceptsSecuredSession == failed # "SessionAccept"

\* "kHAPError_Unknown If persistent store access failed."
StoreErrorsAllowed == failed # "StoreError"

=============================================================================
