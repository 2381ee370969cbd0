---------------------------- MODULE IPServer_proofs ----------------------------
(***************************************************************************)
(* The IP accessory server keeps its promises for any number of sessions,  *)
(* characteristics and prepared writes, and whatever the delays and the    *)
(* sizes of its buffers are.                                               *)
(***************************************************************************)
EXTENDS IPServer, FiniteSetTheorems, WellFoundedInduction, TLAPS

OpenIO == {"reading", "writing"}

\* What holds of a session and of the write that it has prepared: the grant
\* lasts as long as the server would accept the write; a session that reads
\* has its pairing; what is due has been subscribed to, in a secured session.
SessionOK(r, g) ==
    /\ r.pid # NoPID => r.io \in OpenIO /\ g.pid = r.pid /\ g.left = r.left + 1
    /\ r.secured => r.hap # "none" /\ r.io \in OpenIO
    /\ r.secured /\ r.hap = "gone" => r.io = "writing"
    /\ r.flags \subseteq r.subs
    /\ r.subs # {} => r.secured /\ r.hap \in {"active", "gone"}

Good(S, g) ==
    /\ S \in [Sessions -> Session]
    /\ g \in [Sessions -> Grant]
    /\ \A s \in Sessions : SessionOK(S[s], g[s])

IInv == TypeOK /\ Good(sess, grant) /\ EventsScheduled /\ ~misused

-----------------------------------------------------------------------------
(* Deadlines. *)

\* Whatever the deadlines are, there is an earliest one.
LEMMA LeastIsMember ==
    ASSUME NEW N \in Nat, NEW D \in SUBSET (0 .. N), D # {}
    PROVE  Least(D) \in D
<1> DEFINE T == {0 .. d - 1 : d \in D}
           R == StrictSubsetOrdering(0 .. N)
<1>1. IsWellFoundedOn(R, SUBSET (0 .. N))
  <2>1. IsFiniteSet(0 .. N)
    BY FS_Interval
  <2>2. FiniteSubsetsOf(0 .. N) = SUBSET (0 .. N)
    BY <2>1, FS_FiniteSubsetsOfFinite
  <2>q. QED
    BY <2>2, FS_StrictSubsetOrderingWellFounded
<1>2. T \subseteq SUBSET (0 .. N) /\ T # {}
  <2>1. ASSUME NEW d \in D PROVE (0 .. d - 1) \in SUBSET (0 .. N)
    <3>1. d \in 0 .. N
      OBVIOUS
    <3>q. QED
      BY <3>1
  <2>q. QED
    BY <2>1
<1> HIDE DEF T, R
<1>3. PICK x \in T : \A y \in T : ~ (<<y, x>> \in R)
  BY <1>1, <1>2, WFMin
<1>4. PICK d \in D : x = 0 .. d - 1
  BY DEF T
<1>5. ASSUME NEW e \in D PROVE d <= e
  <2>1. 0 .. e - 1 \in T
    BY DEF T
  <2>2. CASE e < d
    <3>1. (0 .. e - 1) \subseteq x /\ (0 .. e - 1) # x
      <4>1. e \in 0 .. d - 1 /\ e \notin 0 .. e - 1
        BY <2>2
      <4>q. QED
        BY <4>1, <1>4, <2>2
    <3>2. <<0 .. e - 1, x>> \in R
      BY <3>1, <2>1, <1>2 DEF R, StrictSubsetOrdering
    <3>q. QED
      BY <3>2, <2>1, <1>3
  <2>q. QED
    BY <2>2
<1>q. QED
  BY <1>5 DEF Least

LEMMA LeastType ==
    ASSUME NEW N \in Nat, NEW D \in SUBSET (0 .. N)
    PROVE  Least(D) \in Off .. N /\ (D # {} => Least(D) # Off)
<1>1. CASE D = {}
  BY <1>1 DEF Least, Off
<1>2. CASE D # {}
  <2>1. Least(D) \in 0 .. N
    BY <1>2, LeastIsMember
  <2>q. QED
    BY <2>1 DEF Off
<1>q. QED
  BY <1>1, <1>2

-----------------------------------------------------------------------------
(* Sessions are opened, closed, and changed one at a time. *)

LEMMA NewSessions ==
    /\ {FreeSession, NewSession, ClosedSession} \subseteq Session
    /\ \A r \in {FreeSession, NewSession, ClosedSession}, g \in Grant : SessionOK(r, g)
    /\ \A r \in {FreeSession, NewSession, ClosedSession} :
        r.flags = {} /\ r.hap = "none" /\ r.subs = {} /\ r.event = {}
<1>1. Delay \in 0 .. Delay /\ 0 \in 0 .. MaxIdle /\ -1 \in -1 .. TTL
      /\ 0 \in 0 .. MaxInput /\ 0 \in 0 .. MaxOutput /\ 0 \in 0 .. MaxChunks
  BY IPServerAssumption
<1>2. FreeSession \in Session
  BY <1>1 DEF FreeSession, Session
<1>3. NewSession \in Session /\ ClosedSession \in Session
  BY <1>2 DEF Session, NewSession, ClosedSession
<1>q. QED
  BY <1>2, <1>3 DEF FreeSession, NewSession, ClosedSession, SessionOK

LEMMA NoGrantType == NoGrant \in Grant
BY IPServerAssumption DEF NoGrant, Grant

LEMMA OneChanged ==
    ASSUME NEW S, NEW g, Good(S, g), NEW s \in Sessions, NEW r \in Session,
           SessionOK(r, g[s])
    PROVE  Good([S EXCEPT ![s] = r], g)
BY DEF Good

LEMMA Closed ==
    ASSUME NEW S, NEW g, Good(S, g), NEW C, NEW h \in [Sessions -> Grant],
           \A t \in Sessions \ C : h[t] = g[t]
    PROVE  /\ Good(CloseSession(S, C), h)
           /\ ToNotify(CloseSession(S, C)) \subseteq ToNotify(S) \ C
BY NewSessions DEF Good, CloseSession, ToNotify, AtRest

LEMMA ForgottenType ==
    ASSUME NEW C, grant \in [Sessions -> Grant]
    PROVE  Forgotten(C) \in [Sessions -> Grant]
BY NoGrantType DEF Forgotten

LEMMA Closings ==
    ASSUME NEW T \in Timers, NEW C
    PROVE  Closing(T, C) \in Timers /\ Closing(T, C).event = T.event
BY DEF Closing, Timers

\* A response is sent, whatever the session was.
LEMMA Responded ==
    ASSUME NEW S, NEW g, Good(S, g), NEW s \in Sessions
    PROVE  /\ Good(Responding(S, s), g)
           /\ Responding(S, s)[s].io = "writing"
           /\ \A t \in Sessions \ {s} : Responding(S, s)[t] = S[t]
           /\ ToNotify(Responding(S, s)) \subseteq ToNotify(S) \ {s}
<1>1. MaxOutput \in 0 .. MaxOutput
  BY IPServerAssumption
<1> DEFINE r == [S[s] EXCEPT !.io = "writing", !.unsent = MaxOutput, !.event = {}]
<1>2. Responding(S, s) = [S EXCEPT ![s] = r]
  BY DEF Responding, Good
<1>3. S[s] \in Session /\ SessionOK(S[s], g[s])
  BY DEF Good
<1>4. r \in Session
  BY <1>1, <1>3 DEF Session
<1>5. SessionOK(r, g[s]) /\ r.io = "writing"
  BY <1>3 DEF SessionOK, OpenIO, Session
<1> HIDE DEF r
<1>q. QED
  BY <1>2, <1>4, <1>5, OneChanged DEF Good, ToNotify, AtRest

-----------------------------------------------------------------------------
(* Requests. *)

\* After session s has sent or begun something, with sessions S and timers T before.
Kept(S, T, s) ==
    /\ Good(sess', grant') /\ timer' \in Timers /\ misused' = FALSE
    /\ \/ ToNotify(sess') # {} => timer'.event # Off
       \/ timer'.event = T.event /\ ToNotify(sess') \subseteq ToNotify(S) \ {s}

Handling(S, T, s) ==
    s \in Sessions /\ Good(S, grant) /\ T \in Timers /\ misused = FALSE

LEMMA OtherRequestKept ==
    ASSUME NEW S, NEW T, NEW s, Handling(S, T, s), OtherRequest(s, S, T)
    PROVE  Kept(S, T, s)
BY Responded DEF Handling, OtherRequest, Kept

LEMMA GetAccessoriesRequestKept ==
    ASSUME NEW S, NEW T, NEW s, Handling(S, T, s), GetAccessoriesRequest(s, S, T)
    PROVE  Kept(S, T, s)
<1> DEFINE R == Responding(S, s)
           r == [R[s] EXCEPT !.serializing = TRUE, !.chunks = MaxChunks - 1]
<1>0. /\ s \in Sessions /\ Good(R, grant) /\ R[s].io = "writing"
      /\ ToNotify(R) \subseteq ToNotify(S) \ {s}
  BY Responded DEF Handling
<1>1. MaxChunks - 1 \in 0 .. MaxChunks
  BY IPServerAssumption DEF GetAccessoriesRequest
<1> HIDE DEF R
<1>2. R[s] \in Session /\ SessionOK(R[s], grant[s])
  BY <1>0 DEF Good
<1>3. r \in Session
  BY <1>1, <1>2 DEF Session
<1>4. SessionOK(r, grant[s]) /\ r.io = "writing"
  BY <1>0, <1>2 DEF SessionOK, Session
<1>5. sess' = [R EXCEPT ![s] = r]
  BY <1>0 DEF GetAccessoriesRequest, Good, R
<1> HIDE DEF r
<1>6. Good(sess', grant)
  BY <1>0, <1>3, <1>4, <1>5, OneChanged
<1>7. ToNotify(sess') \subseteq ToNotify(R)
  BY <1>0, <1>4, <1>5 DEF Good, ToNotify, AtRest
<1>q. QED
  BY <1>0, <1>6, <1>7 DEF GetAccessoriesRequest, Handling, Kept

\* A change of a session that is not secured, of what its session is.
WithHap(S, s, h) == [S EXCEPT ![s].hap = h]

LEMMA HapChanged ==
    ASSUME NEW S, NEW s \in Sessions, Good(S, grant), ~S[s].secured,
           NEW h \in {"none", "active", "transient", "gone"}
    PROVE  /\ Good(WithHap(S, s, h), grant)
           /\ ToNotify(WithHap(S, s, h)) = ToNotify(S)
<1> DEFINE r == [S[s] EXCEPT !.hap = h]
<1>1. S[s] \in Session /\ SessionOK(S[s], grant[s])
  BY DEF Good
<1>2. r \in Session
  BY <1>1 DEF Session
<1>3. SessionOK(r, grant[s]) /\ r.io = S[s].io /\ r.input = S[s].input /\ r.flags = S[s].flags
  BY <1>1 DEF SessionOK, Session
<1>4. WithHap(S, s, h) = [S EXCEPT ![s] = r]
  BY DEF Good, WithHap
<1> HIDE DEF r
<1>q. QED
  BY <1>2, <1>3, <1>4, OneChanged DEF Good, ToNotify, AtRest

LEMMA PairVerifyRequestKept ==
    ASSUME NEW S, NEW T, NEW s, Handling(S, T, s), PairVerifyRequest(s, S, T)
    PROVE  Kept(S, T, s)
<1> DEFINE R == WithHap(S, s, "active")
<1>a. s \in Sessions /\ Good(S, grant) /\ ~S[s].secured
  BY DEF Handling, PairVerifyRequest
<1>1. s \in Sessions /\ Good(R, grant) /\ ToNotify(R) = ToNotify(S)
  BY <1>a, HapChanged
<1>2. sess' = Responding(R, s)
  BY DEF PairVerifyRequest, WithHap
<1> HIDE DEF R
<1>3. Good(sess', grant) /\ ToNotify(sess') \subseteq ToNotify(R) \ {s}
  BY <1>1, <1>2, Responded
<1>q. QED
  BY <1>1, <1>3 DEF Handling, PairVerifyRequest, Kept

LEMMA PairSetupRequestKept ==
    ASSUME NEW S, NEW T, NEW s, Handling(S, T, s), PairSetupRequest(s, S, T)
    PROVE  Kept(S, T, s)
<1>1. PICK h \in {S[s].hap, "transient"} :
          sess' = CloseSession(Responding([S EXCEPT ![s].hap = h], s),
                               {t \in Sessions \ {s} : S[t].hap = "transient"})
  BY DEF PairSetupRequest
<1>2. h \in {"none", "active", "transient", "gone"}
  BY DEF Handling, Good, Session
<1> DEFINE R == WithHap(S, s, h)
           C == {t \in Sessions \ {s} : S[t].hap = "transient"}
<1>a. s \in Sessions /\ Good(S, grant) /\ ~S[s].secured
  BY DEF Handling, PairSetupRequest
<1>3. s \in Sessions /\ Good(R, grant) /\ ToNotify(R) = ToNotify(S)
  BY <1>2, <1>a, HapChanged
<1>4. sess' = CloseSession(Responding(R, s), C) /\ timer' = Closing(T, C)
  BY <1>1 DEF PairSetupRequest, WithHap
<1> HIDE DEF R, C
<1>5. /\ Good(Responding(R, s), grant)
      /\ ToNotify(Responding(R, s)) \subseteq ToNotify(R) \ {s}
  BY <1>3, Responded
<1>6. Good(sess', grant) /\ ToNotify(sess') \subseteq ToNotify(Responding(R, s))
  BY <1>4, <1>5, Closed DEF Good
<1>7. timer' \in Timers /\ timer'.event = T.event
  BY <1>4, Closings DEF Handling
<1>q. QED
  BY <1>3, <1>5, <1>6, <1>7 DEF Handling, PairSetupRequest, Kept

LEMMA PairingsRequestKept ==
    ASSUME NEW S, NEW T, NEW s, Handling(S, T, s), PairingsRequest(s, S, T)
    PROVE  Kept(S, T, s)
<1>1. PICK G \in SUBSET {t \in Sessions : S[t].hap = "active"} :
          LET S2 == [t \in Sessions |-> IF t \in G THEN [S[t] EXCEPT !.hap = "gone"] ELSE S[t]]
              C == Orphans(s, S2)
          IN sess' = CloseSession(Responding(S2, s), C) /\ timer' = Closing(T, C)
  BY DEF PairingsRequest
<1> DEFINE S2 == [t \in Sessions |-> IF t \in G THEN [S[t] EXCEPT !.hap = "gone"] ELSE S[t]]
           C == Orphans(s, S2)
           R == Responding(S2, s)
<1>2. sess' = CloseSession(R, C) /\ timer' = Closing(T, C)
  BY <1>1
<1>3. s \in Sessions /\ S \in [Sessions -> Session] /\ grant \in [Sessions -> Grant]
      /\ \A t \in Sessions : SessionOK(S[t], grant[t])
  BY DEF Handling, Good
<1>4. MaxOutput \in 0 .. MaxOutput
  BY IPServerAssumption
<1>5. ASSUME NEW t \in Sessions
      PROVE  /\ S2[t] \in Session
             /\ t \in G => S2[t] = [S[t] EXCEPT !.hap = "gone"] /\ S[t].hap = "active"
             /\ t \notin G => S2[t] = S[t]
  BY <1>3 DEF Session
<1>6. S2 \in [Sessions -> Session]
  BY <1>5
<1> HIDE DEF S2
<1>7. \A t \in Sessions \ {s} : R[t] = S2[t]
  BY <1>6 DEF Responding
<1>8. R[s] = [S2[s] EXCEPT !.io = "writing", !.unsent = MaxOutput, !.event = {}]
  BY <1>3, <1>6 DEF Responding
<1>A. /\ R[s].io = "writing" /\ R[s].hap = S2[s].hap /\ R[s].secured = S2[s].secured
       /\ R[s].subs = S2[s].subs /\ R[s].flags = S2[s].flags
       /\ R[s].pid = S2[s].pid /\ R[s].left = S2[s].left
  BY <1>3, <1>6, <1>8 DEF Session
<1>B. ASSUME NEW t \in Sessions
       PROVE  /\ S2[t].io = S[t].io /\ S2[t].secured = S[t].secured /\ S2[t].input = S[t].input
              /\ S2[t].subs = S[t].subs /\ S2[t].flags = S[t].flags
              /\ S2[t].pid = S[t].pid /\ S2[t].left = S[t].left
              /\ t \in G => S2[t].hap = "gone" /\ S[t].hap = "active"
              /\ t \notin G => S2[t].hap = S[t].hap
  <2>1. S[t] \in Session
    BY <1>3
  <2>2. CASE t \in G
    <3>1. S2[t] = [S[t] EXCEPT !.hap = "gone"] /\ S[t].hap = "active"
      BY <1>5, <2>2
    <3>q. QED
      BY <2>1, <2>2, <3>1 DEF Session
  <2>3. CASE t \notin G
    BY <1>5, <2>3
  <2>q. QED
    BY <2>2, <2>3
<1>9. R[s] \in Session
  BY <1>3, <1>4, <1>6, <1>8 DEF Session
<1>10. R \in [Sessions -> Session]
  BY <1>6, <1>7, <1>9, <1>3 DEF Responding
<1>11. ASSUME NEW t \in Sessions, t \notin C, t # s PROVE SessionOK(S2[t], grant[t])
  <2>1. SessionOK(S[t], grant[t])
    BY <1>3
  <2>2. t \in G => ~(S2[t].io = "reading" /\ S2[t].secured /\ S2[t].hap = "gone")
    BY <1>11 DEF Orphans
  <2>3. S2[t].hap # "none" \/ ~S2[t].secured
    BY <1>B, <2>1 DEF SessionOK
  <2>q. QED
    BY <1>B, <2>1, <2>2, <2>3 DEF SessionOK, OpenIO
<1>12. SessionOK(R[s], grant[s])
  <2>1. SessionOK(S[s], grant[s])
    BY <1>3
  <2>q. QED
    BY <1>3, <1>A, <1>B, <2>1 DEF SessionOK, OpenIO
<1> HIDE DEF R, C
<1>13. Good(sess', grant)
  BY <1>2, <1>3, <1>7, <1>10, <1>11, <1>12, NewSessions DEF Good, CloseSession
<1>14. ToNotify(sess') \subseteq ToNotify(S) \ {s}
  <2>1. ASSUME NEW t \in Sessions, t \in ToNotify(sess') PROVE t \in ToNotify(S) \ {s}
    <3>1. t \notin C /\ sess'[t] = R[t]
      BY <1>2, <2>1, NewSessions DEF CloseSession, ToNotify
    <3>2. t # s
      BY <1>A, <2>1, <3>1 DEF ToNotify, AtRest
    <3>3. sess'[t] = S2[t]
      BY <1>7, <3>1, <3>2
    <3>q. QED
      BY <1>B, <2>1, <3>2, <3>3 DEF ToNotify, AtRest
  <2>q. QED
    BY <2>1 DEF ToNotify, AtRest
<1>15. timer' \in Timers /\ timer'.event = T.event
  BY <1>2, Closings DEF Handling
<1>q. QED
  BY <1>13, <1>14, <1>15 DEF Handling, PairingsRequest, Kept


LEMMA PrepareRequestKept ==
    ASSUME NEW S, NEW T, NEW s, Handling(S, T, s), PrepareRequest(s, S, T)
    PROVE  Kept(S, T, s)
<1>1. PICK p \in PIDs :
          /\ sess' = Responding([S EXCEPT ![s].pid = p, ![s].left = TTL], s)
          /\ grant' = [grant EXCEPT ![s] = [pid |-> p, left |-> TTL + 1]]
  BY DEF PrepareRequest
<1> DEFINE r == [S[s] EXCEPT !.pid = p, !.left = TTL]
           R == [S EXCEPT ![s] = r]
<1>2. s \in Sessions /\ Good(S, grant) /\ S[s] \in Session /\ SessionOK(S[s], grant[s])
  BY DEF Handling, Good
<1>3. TTL \in -1 .. TTL /\ TTL + 1 \in 0 .. TTL + 1 /\ p # NoPID
  BY IPServerAssumption
<1>4. r \in Session
  BY <1>2, <1>3 DEF Session
<1>5. /\ r.pid = p /\ r.left = TTL /\ r.io = S[s].io /\ r.secured = S[s].secured
      /\ r.hap = S[s].hap /\ r.flags = S[s].flags /\ r.subs = S[s].subs
      /\ r.input = S[s].input
  BY <1>2 DEF Session
<1>6. grant' \in [Sessions -> Grant] /\ grant'[s].pid = p /\ grant'[s].left = TTL + 1
  BY <1>1, <1>2, <1>3 DEF Good, Grant
<1>7. S[s].secured /\ S[s].io \in OpenIO
  BY <1>2 DEF PrepareRequest, Authorized, SessionOK
<1>8. SessionOK(r, grant'[s])
  BY <1>2, <1>5, <1>6, <1>7 DEF SessionOK
<1>9. sess' = Responding(R, s)
  BY <1>1, <1>2 DEF Good
<1> HIDE DEF r
<1>10. Good(R, grant') /\ ToNotify(R) \ {s} = ToNotify(S) \ {s}
  BY <1>1, <1>2, <1>4, <1>6, <1>8 DEF Good, ToNotify, AtRest
<1> HIDE DEF R
<1>11. Good(sess', grant') /\ ToNotify(sess') \subseteq ToNotify(R) \ {s}
  BY <1>2, <1>9, <1>10, Responded
<1>q. QED
  BY <1>10, <1>11 DEF Handling, PrepareRequest, Kept

\* Characteristics are raised.
LEMMA FlaggedKept ==
    ASSUME NEW S, NEW g, Good(S, g), NEW T \in Timers,
           NEW R, NEW w, NEW c, NEW Told
    PROVE  LET S2 == Flagged(S, R, w, c, Told)
               T2 == RaisedTimer(S, S2, T)
           IN /\ Good(S2, g) /\ T2 \in Timers
              /\ T2.event # Off \/ (T2.event = T.event /\ ToNotify(S2) = ToNotify(S))
<1> DEFINE F(s) == S[s].flags \cup ((R \ (IF s = w THEN {c} ELSE {})) \cap S[s].subs)
           S2 == Flagged(S, R, w, c, Told)
           T2 == RaisedTimer(S, S2, T)
<1>1. ASSUME NEW s \in Sessions
      PROVE  /\ S2[s] \in Session /\ SessionOK(S2[s], g[s])
             /\ S2[s].io = S[s].io /\ S2[s].input = S[s].input
  <2>1. S[s] \in Session /\ SessionOK(S[s], g[s])
    BY DEF Good
  <2>2. CASE s \in Told /\ S[s].hap # "transient"
    <3>1. S2[s] = [S[s] EXCEPT !.flags = F(s)]
      BY <2>2 DEF Flagged
    <3>2. F(s) \subseteq S[s].subs /\ F(s) \in SUBSET Chars
      BY <2>1 DEF Session, SessionOK
    <3> HIDE DEF S2, F
    <3>3. S2[s] \in Session
      BY <2>1, <3>1, <3>2 DEF Session
    <3>4. /\ S2[s].flags = F(s) /\ S2[s].io = S[s].io /\ S2[s].input = S[s].input
          /\ S2[s].secured = S[s].secured /\ S2[s].hap = S[s].hap
          /\ S2[s].subs = S[s].subs /\ S2[s].pid = S[s].pid /\ S2[s].left = S[s].left
      BY <2>1, <3>1 DEF Session
    <3>q. QED
      BY <2>1, <3>2, <3>3, <3>4 DEF SessionOK
  <2>3. CASE ~(s \in Told /\ S[s].hap # "transient")
    BY <2>1, <2>3 DEF Flagged
  <2>q. QED
    BY <2>2, <2>3
<1>2. S2 \in [Sessions -> Session]
  BY <1>1 DEF Flagged
<1> HIDE DEF S2
<1>3. Good(S2, g)
  BY <1>1, <1>2 DEF Good
<1>4. CASE \E s \in Sessions : S[s].flags # S2[s].flags
  <2>1. T2 = [T EXCEPT !.event = 0]
    BY <1>4 DEF RaisedTimer
  <2>2. 0 \in Off .. Delay
    BY IPServerAssumption DEF Off
  <2>q. QED
    BY <1>3, <2>1, <2>2 DEF Timers, Off, S2
<1>5. CASE ~\E s \in Sessions : S[s].flags # S2[s].flags
  <2>1. T2 = T
    BY <1>5 DEF RaisedTimer
  <2>2. ToNotify(S2) = ToNotify(S)
    BY <1>1, <1>5 DEF ToNotify, AtRest
  <2>q. QED
    BY <1>3, <2>1, <2>2 DEF S2
<1>q. QED
  BY <1>4, <1>5

\* A write of session r, and what it subscribes to.
LEMMA Subscribing ==
    ASSUME NEW r \in Session, NEW g \in Grant, SessionOK(r, g), Authorized(r),
           NEW c \in Chars, NEW ev \in {"on", "off", "none"},
           NEW p \in PIDs \cup {NoPID}
    PROVE  /\ PutUsed(r, p) \in Session /\ SessionOK(PutUsed(r, p), g)
           /\ Subscribed(PutUsed(r, p), c, ev) \in Session
           /\ SessionOK(Subscribed(PutUsed(r, p), c, ev), g)
           /\ p # NoPID => /\ PutUsed(r, p).pid = NoPID
                           /\ Subscribed(PutUsed(r, p), c, ev).pid = NoPID
<1> DEFINE u == PutUsed(r, p)
           b == Subscribed(u, c, ev)
<1>1. -1 \in -1 .. TTL
  BY IPServerAssumption
<1>2. /\ u \in Session /\ SessionOK(u, g) /\ u.secured /\ u.hap # "transient"
      /\ p # NoPID => u.pid = NoPID
  <2>1. CASE r.pid # NoPID /\ p # NoPID
    <3>1. u = [r EXCEPT !.pid = NoPID, !.left = -1]
      BY <2>1 DEF PutUsed
    <3> HIDE DEF u
    <3>2. u \in Session
      BY <1>1, <3>1 DEF Session
    <3>3. /\ u.pid = NoPID /\ u.io = r.io /\ u.secured = r.secured
          /\ u.hap = r.hap /\ u.subs = r.subs /\ u.flags = r.flags
      BY <3>1 DEF Session
    <3>q. QED
      BY <3>2, <3>3 DEF SessionOK, Authorized
  <2>2. CASE ~(r.pid # NoPID /\ p # NoPID)
    BY <2>2 DEF PutUsed, Authorized
  <2>q. QED
    BY <2>1, <2>2
<1> HIDE DEF u
<1>3. u.hap \in {"active", "gone"}
  BY <1>2 DEF SessionOK, Session
<1>4. CASE ev = "on" /\ Cardinality(u.subs) < MaxEvents
  <2>1. b = [u EXCEPT !.subs = u.subs \cup {c}]
    BY <1>4 DEF Subscribed
  <2> HIDE DEF b
  <2>2. b \in Session
    BY <1>2, <2>1 DEF Session
  <2>3. /\ b.pid = u.pid /\ b.io = u.io /\ b.secured = u.secured /\ b.left = u.left
        /\ b.hap = u.hap /\ b.subs = u.subs \cup {c} /\ b.flags = u.flags
    BY <1>2, <2>1 DEF Session
  <2>q. QED
    BY <1>2, <1>3, <2>2, <2>3 DEF SessionOK, u, b
<1>5. CASE ev = "off"
  <2>1. b = [u EXCEPT !.subs = u.subs \ {c}, !.flags = u.flags \ {c}]
    BY <1>5 DEF Subscribed
  <2> HIDE DEF b
  <2>2. b \in Session
    BY <1>2, <2>1 DEF Session
  <2>3. /\ b.pid = u.pid /\ b.io = u.io /\ b.secured = u.secured /\ b.left = u.left
        /\ b.hap = u.hap /\ b.subs = u.subs \ {c} /\ b.flags = u.flags \ {c}
    BY <1>2, <2>1 DEF Session
  <2>q. QED
    BY <1>2, <1>3, <2>2, <2>3 DEF SessionOK, u, b
<1>6. CASE ~(ev = "on" /\ Cardinality(u.subs) < MaxEvents) /\ ev # "off"
  BY <1>2, <1>6 DEF Subscribed, u
<1>q. QED
  BY <1>4, <1>5, <1>6

LEMMA PutCharacteristicsKept ==
    ASSUME NEW S, NEW T, NEW s, Handling(S, T, s),
           NEW c \in Chars, NEW ev \in {"on", "off", "none"}, NEW value \in BOOLEAN,
           NEW p \in PIDs \cup {NoPID}, NEW R,
           PutCharacteristics(s, S, T, c, ev, value, p, R)
    PROVE  Kept(S, T, s)
<1> DEFINE runs == PutAccepted(S[s], p) /\ ~(value /\ c \in TimedChars /\ p = NoPID)
           used == [S EXCEPT ![s] = PutUsed(S[s], p)]
           asked == IF runs THEN [used EXCEPT ![s] = Subscribed(used[s], c, ev)] ELSE used
           raised == Flagged(asked, R, s, c, Sessions)
           executes == runs /\ value /\ p # NoPID
<1>1. /\ s \in Sessions /\ Good(S, grant) /\ T \in Timers
      /\ S[s] \in Session /\ grant[s] \in Grant /\ SessionOK(S[s], grant[s])
      /\ Authorized(S[s])
  BY DEF Handling, Good, PutCharacteristics
<1>2. /\ Good(asked, grant)
      /\ \A t \in Sessions \ {s} : asked[t] = S[t]
      /\ p # NoPID => asked[s].pid = NoPID
  <2>1. Good(used, grant) /\ used[s] = PutUsed(S[s], p)
    BY <1>1, Subscribing, OneChanged DEF Good
  <2>2. Good([used EXCEPT ![s] = Subscribed(used[s], c, ev)], grant)
    <3> DEFINE b == Subscribed(PutUsed(S[s], p), c, ev)
    <3>1. b \in Session /\ SessionOK(b, grant[s])
      BY <1>1, Subscribing
    <3> HIDE DEF b, used
    <3>2. Good([used EXCEPT ![s] = b], grant)
      BY <1>1, <2>1, <3>1, OneChanged
    <3>q. QED
      BY <2>1, <3>2 DEF b
  <2>3. p # NoPID => PutUsed(S[s], p).pid = NoPID
                     /\ Subscribed(PutUsed(S[s], p), c, ev).pid = NoPID
    BY <1>1, Subscribing
  <2>q. QED
    BY <1>1, <2>1, <2>2, <2>3 DEF Good
<1>3. /\ sess' = Responding(raised, s)
      /\ timer' = RaisedTimer(asked, raised, T)
      /\ IF executes
         THEN /\ misused' = (misused \/ grant[s].pid # p \/ grant[s].left = 0)
              /\ grant' = [grant EXCEPT ![s] = NoGrant]
         ELSE /\ misused' = (misused \/ (runs /\ value /\ c \in TimedChars))
              /\ UNCHANGED grant
  BY DEF PutCharacteristics
<1> HIDE DEF asked
<1>4. /\ Good(raised, grant) /\ timer' \in Timers
      /\ timer'.event # Off
         \/ (timer'.event = T.event /\ ToNotify(raised) = ToNotify(asked))
  BY <1>1, <1>2, <1>3, FlaggedKept
<1>5. raised[s].pid = asked[s].pid
  BY <1>1, <1>2 DEF Flagged, Good, Session
<1> HIDE DEF raised
<1>6. misused = FALSE /\ Good(raised, grant') /\ misused' = FALSE
  <2>0. misused = FALSE
    BY DEF Handling
  <2>1. CASE executes
    <3>1. S[s].pid = p /\ S[s].left >= 0 /\ p # NoPID
      BY <2>1 DEF PutAccepted
    <3>2. grant[s].pid = p /\ grant[s].left = S[s].left + 1
      BY <1>1, <3>1 DEF SessionOK
    <3>3. S[s].left \in -1 .. TTL
      BY <1>1 DEF Session
    <3>4. misused' = FALSE
      <4>1. grant[s].left # 0
        BY <3>1, <3>2, <3>3
      <4>2. misused' = (misused \/ grant[s].pid # p \/ grant[s].left = 0)
        BY <1>3, <2>1
      <4>q. QED
        BY <2>0, <3>1, <3>2, <4>1, <4>2
    <3>5. grant' = [grant EXCEPT ![s] = NoGrant]
      BY <1>3, <2>1
    <3>6. raised[s].pid = NoPID /\ grant \in [Sessions -> Grant] /\ SessionOK(raised[s], grant[s])
      BY <1>1, <1>2, <1>4, <1>5, <3>1 DEF Good
    <3>7. SessionOK(raised[s], grant'[s])
      BY <3>6 DEF SessionOK
    <3>q. QED
      BY <1>1, <1>4, <2>0, <3>4, <3>5, <3>6, <3>7, NoGrantType DEF Good
  <2>2. CASE ~executes
    <3>1. ~(runs /\ value /\ c \in TimedChars)
      BY <2>2
    <3>q. QED
      BY <1>3, <1>4, <2>0, <2>2, <3>1
  <2>q. QED
    BY <2>1, <2>2
<1>7. Good(sess', grant') /\ ToNotify(sess') \subseteq ToNotify(raised) \ {s}
  BY <1>1, <1>3, <1>6, Responded
<1>8. ToNotify(asked) \ {s} = ToNotify(S) \ {s}
  BY <1>2 DEF ToNotify, AtRest
<1>q. QED
  BY <1>4, <1>6, <1>7, <1>8 DEF Kept

LEMMA HandleHTTPRequestKept ==
    ASSUME NEW S, NEW T, NEW s, Handling(S, T, s), HandleHTTPRequest(s, S, T)
    PROVE  Kept(S, T, s)
BY OtherRequestKept, PairSetupRequestKept, PairVerifyRequestKept, PairingsRequestKept,
   PrepareRequestKept, GetAccessoriesRequestKept, PutCharacteristicsKept
   DEF HandleHTTPRequest

-----------------------------------------------------------------------------
(* Input and output. *)

\* The session is secured if need be, and the inbound buffer keeps the rest.
SecuredIn(S, s) == [S EXCEPT ![s] = Secured(@)]
RestIn(S, s, rest) == [SecuredIn(S, s) EXCEPT ![s].input = rest]

LEMMA InputTaken ==
    ASSUME NEW S, NEW T, NEW s, NEW rest \in 0 .. MaxInput, Handling(S, T, s),
           S[s].io = "reading"
    PROVE  LET S1 == SecuredIn(S, s)
               S2 == RestIn(S, s, rest)
           IN /\ Handling(S1, T, s) /\ Handling(S2, T, s) /\ S2[s].io = "reading"
              /\ ToNotify(S2) \ {s} = ToNotify(S) \ {s}
              /\ S[s].input # 0 => ToNotify(S1) \subseteq ToNotify(S) \ {s}
              /\ \A t \in Sessions :
                    /\ S1[t].subs = S[t].subs /\ S2[t].subs = S[t].subs
                    /\ S1[t].flags = S[t].flags /\ S2[t].flags = S[t].flags
                    /\ S1[t].event = S[t].event /\ S2[t].event = S[t].event
                    /\ S1[t].hap = S[t].hap /\ S2[t].hap = S[t].hap
                    /\ S1[t].age = S[t].age /\ S2[t].age = S[t].age
                    /\ S1[t].io = S[t].io /\ S2[t].io = S[t].io
<1> DEFINE r == Secured(S[s])
           b == [r EXCEPT !.input = rest]
           S1 == [S EXCEPT ![s] = r]
           S2 == [S1 EXCEPT ![s] = b]
<1>1. /\ s \in Sessions /\ Good(S, grant) /\ T \in Timers /\ misused = FALSE
      /\ S[s] \in Session /\ SessionOK(S[s], grant[s]) /\ S \in [Sessions -> Session]
  BY DEF Handling, Good
<1>2. /\ r \in Session
      /\ r.secured = (S[s].secured \/ S[s].hap \in {"active", "transient"})
      /\ r.hap = S[s].hap /\ r.io = S[s].io /\ r.pid = S[s].pid /\ r.left = S[s].left
      /\ r.subs = S[s].subs /\ r.flags = S[s].flags /\ r.input = S[s].input
      /\ r.event = S[s].event /\ r.age = S[s].age
  BY <1>1 DEF Secured, Session
<1> HIDE DEF r
<1>3. SessionOK(r, grant[s])
  BY <1>1, <1>2 DEF SessionOK, OpenIO
<1>4. b \in Session
  BY <1>2 DEF Session
<1>5. /\ b.secured = r.secured /\ b.hap = r.hap /\ b.io = r.io /\ b.pid = r.pid
      /\ b.left = r.left /\ b.subs = r.subs /\ b.flags = r.flags
      /\ b.event = r.event /\ b.age = r.age
  BY <1>2 DEF Session
<1>6. SecuredIn(S, s) = S1 /\ RestIn(S, s, rest) = S2
  BY <1>1 DEF SecuredIn, RestIn, r
<1> HIDE DEF b
<1>7. SessionOK(b, grant[s])
  BY <1>3, <1>5 DEF SessionOK
<1>8. Good(S1, grant)
  BY <1>1, <1>2, <1>3, OneChanged
<1>9. S1 \in [Sessions -> Session] /\ S1[s] = r /\ \A t \in Sessions \ {s} : S1[t] = S[t]
  BY <1>1, <1>2
<1> HIDE DEF S1
<1>10. Good(S2, grant)
  BY <1>1, <1>4, <1>7, <1>8, OneChanged
<1>11. S2[s] = b /\ \A t \in Sessions \ {s} : S2[t] = S[t]
  BY <1>1, <1>9
<1> HIDE DEF S2
<1>12. /\ ToNotify(S2) \ {s} = ToNotify(S) \ {s}
       /\ S[s].input # 0 => ToNotify(S1) \subseteq ToNotify(S) \ {s}
  BY <1>1, <1>2, <1>9, <1>11 DEF ToNotify, AtRest
<1>13. Handling(S1, T, s) /\ Handling(S2, T, s) /\ S2[s].io = "reading"
  BY <1>1, <1>2, <1>5, <1>8, <1>10, <1>11 DEF Handling
<1>14. \A t \in Sessions :
          /\ S1[t].subs = S[t].subs /\ S2[t].subs = S[t].subs
          /\ S1[t].flags = S[t].flags /\ S2[t].flags = S[t].flags
          /\ S1[t].event = S[t].event /\ S2[t].event = S[t].event
          /\ S1[t].hap = S[t].hap /\ S2[t].hap = S[t].hap
          /\ S1[t].age = S[t].age /\ S2[t].age = S[t].age
          /\ S1[t].io = S[t].io /\ S2[t].io = S[t].io
  BY <1>2, <1>5, <1>9, <1>11
<1>q. QED
  BY <1>6, <1>12, <1>13, <1>14

LEMMA HandleInputKept ==
    ASSUME NEW S, NEW T, NEW s, NEW rest \in 0 .. MaxInput, Handling(S, T, s),
           S[s].io = "reading", S[s].input # 0, HandleInput(s, S, T, rest)
    PROVE  Kept(S, T, s)
<1> DEFINE S1 == SecuredIn(S, s)
           S2 == RestIn(S, s, rest)
<1>1. /\ s \in Sessions /\ Good(S, grant) /\ T \in Timers /\ misused = FALSE
  BY DEF Handling
<1>2. /\ Handling(S1, T, s) /\ Handling(S2, T, s)
      /\ ToNotify(S2) \ {s} = ToNotify(S) \ {s}
      /\ ToNotify(S1) \subseteq ToNotify(S) \ {s}
  BY <1>1, InputTaken
<1>3. \/ HandleHTTPRequest(s, S2, T)
      \/ sess' = S1 /\ timer' = T /\ UNCHANGED <<grant, misused>>
      \/ /\ sess' = CloseSession(S, {s}) /\ timer' = Closing(T, {s})
         /\ grant' = Forgotten({s}) /\ UNCHANGED misused
  BY DEF HandleInput, SecuredIn, RestIn
<1> HIDE DEF S1, S2
<1>4. CASE HandleHTTPRequest(s, S2, T)
  <2>1. Kept(S2, T, s)
    BY <1>2, <1>4, HandleHTTPRequestKept
  <2>q. QED
    BY <1>2, <2>1 DEF Kept
<1>5. CASE sess' = S1 /\ timer' = T /\ UNCHANGED <<grant, misused>>
  BY <1>2, <1>5 DEF Handling, Kept
<1>6. CASE /\ sess' = CloseSession(S, {s}) /\ timer' = Closing(T, {s})
           /\ grant' = Forgotten({s}) /\ UNCHANGED misused
  <2>1. grant' \in [Sessions -> Grant] /\ \A t \in Sessions \ {s} : grant'[t] = grant[t]
    BY <1>1, <1>6, ForgottenType DEF Good, Forgotten
  <2>2. /\ Good(CloseSession(S, {s}), grant')
        /\ ToNotify(CloseSession(S, {s})) \subseteq ToNotify(S) \ {s}
    BY <1>1, <2>1, Closed
  <2>3. timer' \in Timers /\ timer'.event = T.event
    BY <1>1, <1>6, Closings
  <2>q. QED
    BY <1>1, <1>6, <2>2, <2>3 DEF Kept
<1>q. QED
  BY <1>3, <1>4, <1>5, <1>6

\* Notifications are written to the sessions that are at rest.
LEMMA NotifiedKept ==
    ASSUME NEW S, NEW g, Good(S, g), NEW T \in Timers
    PROVE  /\ Good(Notified(S), g)
           /\ EventDeadline(Notified(S)) \in Off .. Delay
           /\ ToNotify(Notified(S)) # {} => EventDeadline(Notified(S)) # Off
<1>1. ASSUME NEW s \in Sessions
      PROVE  Notified(S)[s] \in Session /\ SessionOK(Notified(S)[s], g[s])
  <2> DEFINE r == S[s]
             w == WriteEventNotifications(r)
             N == ToldNow(r)
             age == IF r.age >= Delay THEN 0 ELSE r.age
  <2>1. r \in Session /\ SessionOK(r, g[s])
    BY DEF Good
  <2>2. CASE s \in ToNotify(S) /\ N # {}
    <3>1. Notified(S)[s] = w
      BY <2>2 DEF Notified
    <3>2. r.io = "reading" /\ r.flags # {}
      BY <2>2 DEF ToNotify, AtRest
    <3>3. r.secured /\ r.hap = "active"
      BY <2>1, <3>2 DEF SessionOK
    <3>4. N \subseteq r.flags
      BY DEF ToldNow
    <3>5. w = [r EXCEPT !.io = "writing", !.unsent = MaxOutput, !.event = N,
                        !.flags = r.flags \ N, !.age = age]
      BY <2>2, <3>3 DEF WriteEventNotifications
    <3>6. age \in 0 .. Delay /\ MaxOutput \in 0 .. MaxOutput
      BY <2>1, IPServerAssumption DEF Session
    <3> HIDE DEF w, N, age, r
    <3>7. w \in Session
      BY <2>1, <3>4, <3>5, <3>6 DEF Session
    <3>8. /\ w.io = "writing" /\ w.flags = r.flags \ N /\ w.secured = r.secured
          /\ w.hap = r.hap /\ w.subs = r.subs /\ w.pid = r.pid /\ w.left = r.left
      BY <2>1, <3>5 DEF Session
    <3>q. QED
      BY <2>1, <3>1, <3>3, <3>7, <3>8 DEF SessionOK, OpenIO
  <2>3. CASE s \in ToNotify(S) /\ N = {}
    <3>1. r.io = "reading" /\ r.flags # {}
      BY <2>3 DEF ToNotify, AtRest
    <3>2. r.secured
      BY <2>1, <3>1 DEF SessionOK
    <3>3. Notified(S)[s] = r
      BY <2>3, <3>2 DEF Notified, WriteEventNotifications
    <3>q. QED
      BY <2>1, <3>3
  <2>4. CASE s \notin ToNotify(S)
    BY <2>1, <2>4 DEF Notified
  <2>q. QED
    BY <2>2, <2>3, <2>4
<1>2. Notified(S) \in [Sessions -> Session]
  BY <1>1 DEF Notified
<1>3. Good(Notified(S), g)
  BY <1>1, <1>2 DEF Good
<1> DEFINE S2 == Notified(S)
           D == {Delay - S2[s].age : s \in ToNotify(S2)}
<1> HIDE DEF S2
<1>4. D \subseteq 0 .. Delay
  <2>1. ASSUME NEW s \in ToNotify(S2) PROVE Delay - S2[s].age \in 0 .. Delay
    <3>1. S2[s] \in Session
      BY <1>2 DEF S2, ToNotify, AtRest
    <3>2. S2[s].age \in 0 .. Delay
      BY <3>1 DEF Session
    <3>q. QED
      BY <3>2, IPServerAssumption
  <2>q. QED
    BY <2>1
<1>5. Delay \in Nat
  BY IPServerAssumption
<1>6. EventDeadline(S2) = Least(D)
  BY DEF EventDeadline
<1>7. ToNotify(S2) # {} => D # {}
  OBVIOUS
<1> HIDE DEF D
<1>8. Least(D) \in Off .. Delay /\ (D # {} => Least(D) # Off)
  BY <1>4, <1>5, LeastType
<1>q. QED
  BY <1>3, <1>6, <1>7, <1>8 DEF S2

LEMMA ScheduleEventNotificationsKept ==
    ASSUME NEW S, NEW g, Good(S, g), NEW T \in Timers, ScheduleEventNotifications(S, T)
    PROVE  /\ Good(sess', g) /\ timer' \in Timers
           /\ ToNotify(sess') # {} => timer'.event # Off
<1> DEFINE d == EventDeadline(Notified(S))
<1>1. sess' = Notified(S) /\ timer' = [T EXCEPT !.event = d]
  BY DEF ScheduleEventNotifications
<1>2. /\ Good(Notified(S), g) /\ d \in Off .. Delay
      /\ ToNotify(Notified(S)) # {} => d # Off
  BY NotifiedKept
<1> HIDE DEF d
<1>3. timer' \in Timers /\ timer'.event = d
  BY <1>1, <1>2 DEF Timers
<1>q. QED
  BY <1>1, <1>2, <1>3

LEMMA HandleIOProgressionKept ==
    ASSUME NEW S, NEW T, NEW s, Handling(S, T, s), UNCHANGED <<grant, misused>>,
           HandleIOProgression(s, S, T)
    PROVE  Kept(S, T, s)
<1>1. s \in Sessions /\ Good(S, grant) /\ T \in Timers /\ misused' = FALSE /\ grant' = grant
      /\ grant \in [Sessions -> Grant]
  BY DEF Handling, Good
<1>2. CASE sess' = CloseSession(S, {s}) /\ timer' = Closing(T, {s})
  <2>1. /\ Good(CloseSession(S, {s}), grant)
        /\ ToNotify(CloseSession(S, {s})) \subseteq ToNotify(S) \ {s}
    BY <1>1, Closed
  <2>2. timer' \in Timers /\ timer'.event = T.event
    BY <1>1, <1>2, Closings
  <2>q. QED
    BY <1>1, <1>2, <2>1, <2>2 DEF Kept
<1>3. CASE ScheduleEventNotifications(S, T)
  <2>1. /\ Good(sess', grant) /\ timer' \in Timers
        /\ ToNotify(sess') # {} => timer'.event # Off
    BY <1>1, <1>3, ScheduleEventNotificationsKept
  <2>q. QED
    BY <1>1, <2>1 DEF Kept
<1>4. CASE s \notin ToNotify(S) /\ sess' = S /\ timer' = T
  BY <1>1, <1>4 DEF Kept
<1>q. QED
  BY <1>2, <1>3, <1>4 DEF HandleIOProgression

-----------------------------------------------------------------------------
(* Idle sessions. *)

LEMMA ScheduleMaxIdleTimeTimerKept ==
    ASSUME NEW S, NEW g, Good(S, g), NEW T \in Timers, ScheduleMaxIdleTimeTimer(S, T),
           NEW h \in [Sessions -> Grant], \A t \in Sessions \ Expired(S) : h[t] = g[t]
    PROVE  /\ Good(sess', h) /\ timer' \in Timers /\ timer'.event = T.event
           /\ ToNotify(sess') \subseteq ToNotify(S)
<1> DEFINE C == Expired(S)
           D == {MaxIdle - S[s].idle : s \in Watched(S) \ C}
<1>1. sess' = CloseSession(S, C) /\ timer' = [T EXCEPT !.idle = Least(D), !.gc = TRUE]
  BY DEF ScheduleMaxIdleTimeTimer, IdleDeadline
<1>2. D \subseteq 0 .. MaxIdle
  <2>1. ASSUME NEW s \in Watched(S) PROVE MaxIdle - S[s].idle \in 0 .. MaxIdle
    <3>1. S[s] \in Session
      BY DEF Good, Watched, Open
    <3>2. S[s].idle \in 0 .. MaxIdle
      BY <3>1 DEF Session
    <3>q. QED
      BY <3>2, IPServerAssumption
  <2>q. QED
    BY <2>1
<1>3. MaxIdle \in Nat
  BY IPServerAssumption
<1> HIDE DEF D, C
<1>4. Least(D) \in Off .. MaxIdle
  BY <1>2, <1>3, LeastType
<1>5. timer' \in Timers /\ timer'.event = T.event
  BY <1>1, <1>4 DEF Timers
<1>6. Good(sess', h) /\ ToNotify(sess') \subseteq ToNotify(S)
  BY <1>1, Closed DEF C
<1>q. QED
  BY <1>5, <1>6

-----------------------------------------------------------------------------
(* The actions. *)

\* What a step has to show.
Holds ==
    /\ server' \in [state : {"idle", "running", "stopping"}, listening : BOOLEAN]
    /\ quiet' \in [Sessions -> 0 .. Delay]
    /\ Good(sess', grant') /\ timer' \in Timers /\ misused' = FALSE
    /\ ToNotify(sess') # {} => timer'.event # Off

LEMMA HoldsSuffices ==
    ASSUME Holds PROVE IInv'
BY DEF Holds, IInv, TypeOK, Good, EventsScheduled, ToNotify, AtRest, SessionOK,
       Session, Timers, Grant, OpenIO, Off

\* What is known before one.
LEMMA Before ==
    ASSUME IInv
    PROVE  /\ server \in [state : {"idle", "running", "stopping"}, listening : BOOLEAN]
           /\ quiet \in [Sessions -> 0 .. Delay]
           /\ Good(sess, grant) /\ timer \in Timers /\ misused = FALSE
           /\ ToNotify(sess) # {} => timer.event # Off
           /\ sess \in [Sessions -> Session] /\ grant \in [Sessions -> Grant]
BY DEF IInv, TypeOK, EventsScheduled, Good

LEMMA HushedType ==
    ASSUME IInv, NEW S, NEW S2
    PROVE  Hushed(S, S2) \in [Sessions -> 0 .. Delay]
<1>1. 0 \in 0 .. Delay
  BY IPServerAssumption
<1>q. QED
  BY <1>1, Before DEF Hushed

LEMMA KeptHolds ==
    ASSUME IInv, NEW s \in Sessions, NEW S, Kept(S, timer, s),
           ToNotify(S) \ {s} \subseteq ToNotify(sess),
           UNCHANGED server, quiet' \in [Sessions -> 0 .. Delay]
    PROVE  Holds
BY Before DEF Kept, Holds

\* A session is used, whatever comes of it.
LEMMA Touching ==
    ASSUME IInv, NEW s \in Sessions, NEW n \in 0 .. MaxInput
    PROVE  LET S == [sess EXCEPT ![s].input = n, ![s].idle = 0]
               R == [sess EXCEPT ![s].idle = 0]
           IN /\ Handling(S, timer, s) /\ S[s].io = sess[s].io /\ S[s].input = n
              /\ Handling(R, timer, s) /\ R[s].io = sess[s].io
              /\ ToNotify(S) \ {s} \subseteq ToNotify(sess)
              /\ ToNotify(R) \subseteq ToNotify(sess)
<1> DEFINE r == [sess[s] EXCEPT !.input = n, !.idle = 0]
           b == [sess[s] EXCEPT !.idle = 0]
<1>1. /\ Good(sess, grant) /\ sess \in [Sessions -> Session] /\ timer \in Timers
      /\ sess[s] \in Session /\ SessionOK(sess[s], grant[s]) /\ misused = FALSE
  BY Before DEF Good
<1>2. 0 \in 0 .. MaxIdle
  BY IPServerAssumption
<1>3. r \in Session /\ b \in Session
  BY <1>1, <1>2 DEF Session
<1>4. /\ r.input = n /\ r.io = sess[s].io /\ r.secured = sess[s].secured
      /\ r.hap = sess[s].hap /\ r.pid = sess[s].pid /\ r.left = sess[s].left
      /\ r.subs = sess[s].subs /\ r.flags = sess[s].flags
  BY <1>1 DEF Session
<1>5. /\ b.input = sess[s].input /\ b.io = sess[s].io /\ b.secured = sess[s].secured
      /\ b.hap = sess[s].hap /\ b.pid = sess[s].pid /\ b.left = sess[s].left
      /\ b.subs = sess[s].subs /\ b.flags = sess[s].flags
  BY <1>1 DEF Session
<1>6. /\ [sess EXCEPT ![s].input = n, ![s].idle = 0] = [sess EXCEPT ![s] = r]
      /\ [sess EXCEPT ![s].idle = 0] = [sess EXCEPT ![s] = b]
  BY <1>1
<1> HIDE DEF r, b
<1>7. SessionOK(r, grant[s]) /\ SessionOK(b, grant[s])
  BY <1>1, <1>4, <1>5 DEF SessionOK
<1>8. Good([sess EXCEPT ![s] = r], grant) /\ Good([sess EXCEPT ![s] = b], grant)
  BY <1>1, <1>3, <1>7, OneChanged
<1>9. /\ ToNotify([sess EXCEPT ![s] = r]) \ {s} \subseteq ToNotify(sess)
      /\ ToNotify([sess EXCEPT ![s] = b]) \subseteq ToNotify(sess)
  BY <1>1, <1>5 DEF ToNotify, AtRest
<1>q. QED
  BY <1>1, <1>4, <1>5, <1>6, <1>8, <1>9 DEF Handling

LEMMA ReceiveHolds ==
    ASSUME IInv, NEW s \in Sessions, NEW n \in 1 .. MaxInput,
           NEW rest \in 0 .. MaxInput, Receive(s, n, rest)
    PROVE  Holds
<1> DEFINE m == sess[s].input + n
           S == [sess EXCEPT ![s].input = m, ![s].idle = 0]
<1>1. sess[s] \in Session /\ sess \in [Sessions -> Session]
  BY Before
<1>2. m \in 0 .. MaxInput /\ m # 0
  BY <1>1, IPServerAssumption DEF Receive, Session
<1>3. HandleInput(s, S, timer, rest) /\ sess[s].io = "reading"
  BY <1>1 DEF Receive
<1> HIDE DEF m
<1>4. /\ Handling(S, timer, s) /\ S[s].io = sess[s].io /\ S[s].input = m
      /\ ToNotify(S) \ {s} \subseteq ToNotify(sess)
  BY <1>2, Touching
<1> HIDE DEF S
<1>5. Kept(S, timer, s)
  BY <1>2, <1>3, <1>4, HandleInputKept
<1>6. UNCHANGED server /\ quiet' \in [Sessions -> 0 .. Delay]
  BY HushedType DEF Receive
<1>q. QED
  BY <1>4, <1>5, <1>6, KeptHolds

LEMMA ReceiveBusyHolds ==
    ASSUME IInv, NEW s \in Sessions, ReceiveBusy(s)
    PROVE  Holds
<1> DEFINE R == [sess EXCEPT ![s].idle = 0]
<1>1. 0 \in 0 .. MaxInput
  BY IPServerAssumption
<1>2. Handling(R, timer, s) /\ ToNotify(R) \subseteq ToNotify(sess)
  BY <1>1, Touching
<1>3. HandleIOProgression(s, R, timer) /\ UNCHANGED <<grant, misused>>
  BY DEF ReceiveBusy
<1> HIDE DEF R
<1>4. Kept(R, timer, s)
  BY <1>2, <1>3, HandleIOProgressionKept
<1>5. UNCHANGED server /\ quiet' \in [Sessions -> 0 .. Delay]
  BY HushedType DEF ReceiveBusy
<1>q. QED
  BY <1>2, <1>4, <1>5, KeptHolds

\* A session is closed by its peer, or because its pairing has been removed.
LEMMA CloseHolds ==
    ASSUME IInv, NEW s \in Sessions, Disconnect(s) \/ SendToRemoved(s)
    PROVE  Holds
<1>1. /\ sess' = CloseSession(sess, {s}) /\ timer' = Closing(timer, {s})
      /\ grant' = Forgotten({s}) /\ UNCHANGED <<server, quiet, misused>>
  BY DEF Disconnect, SendToRemoved
<1>2. /\ Good(sess, grant) /\ grant' \in [Sessions -> Grant]
      /\ \A t \in Sessions \ {s} : grant'[t] = grant[t]
  BY <1>1, Before, ForgottenType DEF Forgotten
<1>3. /\ Good(CloseSession(sess, {s}), grant')
      /\ ToNotify(CloseSession(sess, {s})) \subseteq ToNotify(sess) \ {s}
  BY <1>2, Closed
<1>4. timer' \in Timers /\ timer'.event = timer.event
  BY <1>1, Before, Closings
<1>q. QED
  BY <1>1, <1>3, <1>4, Before DEF Holds

LEMMA SendPartHolds ==
    ASSUME IInv, NEW s \in Sessions, NEW n \in 0 .. MaxOutput, SendPart(s, n)
    PROVE  Holds
<1> DEFINE r == [sess[s] EXCEPT !.idle = 0, !.unsent = sess[s].unsent - n]
<1>1. /\ Good(sess, grant) /\ sess \in [Sessions -> Session]
      /\ sess[s] \in Session /\ SessionOK(sess[s], grant[s])
  BY Before DEF Good
<1>2. sess[s].unsent - n \in 0 .. MaxOutput /\ 0 \in 0 .. MaxIdle
  BY <1>1, IPServerAssumption DEF Session, SendPart
<1>3. r \in Session
  BY <1>1, <1>2 DEF Session
<1>4. /\ r.io = sess[s].io /\ r.secured = sess[s].secured
      /\ r.hap = sess[s].hap /\ r.pid = sess[s].pid /\ r.left = sess[s].left
      /\ r.subs = sess[s].subs /\ r.flags = sess[s].flags
  BY <1>1 DEF Session
<1>5. sess' = [sess EXCEPT ![s] = r]
  BY <1>1 DEF SendPart
<1>6. r.io = "writing"
  BY <1>4 DEF SendPart, Writable
<1> HIDE DEF r
<1>7. SessionOK(r, grant[s])
  BY <1>1, <1>4 DEF SessionOK
<1>8. Good(sess', grant)
  BY <1>1, <1>3, <1>5, <1>7, OneChanged
<1>9. ToNotify(sess') \subseteq ToNotify(sess)
  BY <1>1, <1>5, <1>6 DEF ToNotify, AtRest
<1>q. QED
  BY <1>8, <1>9, Before DEF SendPart, Holds

LEMMA SendChunkHolds ==
    ASSUME IInv, NEW s \in Sessions, SendChunk(s)
    PROVE  Holds
<1> DEFINE r == [sess[s] EXCEPT !.idle = 0, !.unsent = MaxOutput,
                                !.chunks = sess[s].chunks - 1]
<1>1. /\ Good(sess, grant) /\ sess \in [Sessions -> Session]
      /\ sess[s] \in Session /\ SessionOK(sess[s], grant[s])
  BY Before DEF Good
<1>2. /\ sess[s].chunks - 1 \in 0 .. MaxChunks /\ 0 \in 0 .. MaxIdle
      /\ MaxOutput \in 0 .. MaxOutput
  BY <1>1, IPServerAssumption DEF Session, SendChunk
<1>3. r \in Session
  BY <1>1, <1>2 DEF Session
<1>4. /\ r.io = sess[s].io /\ r.secured = sess[s].secured
      /\ r.hap = sess[s].hap /\ r.pid = sess[s].pid /\ r.left = sess[s].left
      /\ r.subs = sess[s].subs /\ r.flags = sess[s].flags
  BY <1>1 DEF Session
<1>5. sess' = [sess EXCEPT ![s] = r]
  BY <1>1 DEF SendChunk, Touched
<1>6. r.io = "writing"
  BY <1>4 DEF SendChunk, Writable
<1> HIDE DEF r
<1>7. SessionOK(r, grant[s])
  BY <1>1, <1>4 DEF SessionOK
<1>8. Good(sess', grant)
  BY <1>1, <1>3, <1>5, <1>7, OneChanged
<1>9. ToNotify(sess') \subseteq ToNotify(sess)
  BY <1>1, <1>5, <1>6 DEF ToNotify, AtRest
<1>q. QED
  BY <1>8, <1>9, Before DEF SendChunk, Holds

\* The sessions when the last part of a response of s has been sent.
LastSent(s) ==
    [Touched(s) EXCEPT ![s].io = "reading", ![s].unsent = 0, ![s].event = {},
                       ![s].serializing = FALSE]

LEMMA SendingLast ==
    ASSUME IInv, NEW s \in Sessions, NEW rest \in 0 .. MaxInput, SendLast(s, rest)
    PROVE  LET S == LastSent(s) IN
           /\ Handling(S, timer, s) /\ S[s].io = "reading"
           /\ ToNotify(S) \ {s} \subseteq ToNotify(sess)
           /\ \A t \in Sessions :
                 /\ S[t].subs = sess[t].subs /\ S[t].flags = sess[t].flags
                 /\ S[t].event \in {sess[t].event, {}} /\ S[t].hap = sess[t].hap
                 /\ S[t].age = sess[t].age
                 /\ sess[t].io \in OpenIO <=> S[t].io \in OpenIO
           /\ \/ S[s].input # 0 /\ HandleInput(s, S, timer, rest)
              \/ HandleIOProgression(s, S, timer) /\ UNCHANGED <<grant, misused>>
<1> DEFINE r == [sess[s] EXCEPT !.idle = 0, !.io = "reading", !.unsent = 0,
                                !.event = {}, !.serializing = FALSE]
           S == [sess EXCEPT ![s] = r]
<1>1. /\ Good(sess, grant) /\ sess \in [Sessions -> Session] /\ timer \in Timers
      /\ sess[s] \in Session /\ SessionOK(sess[s], grant[s]) /\ misused = FALSE
  BY Before DEF Good
<1>2. 0 \in 0 .. MaxOutput /\ 0 \in 0 .. MaxIdle
  BY IPServerAssumption
<1>3. r \in Session
  BY <1>1, <1>2 DEF Session
<1>4. /\ r.io = "reading" /\ r.secured = sess[s].secured
      /\ r.hap = sess[s].hap /\ r.pid = sess[s].pid /\ r.left = sess[s].left
      /\ r.subs = sess[s].subs /\ r.flags = sess[s].flags
      /\ r.event = {} /\ r.age = sess[s].age
  BY <1>1 DEF Session
<1>5. S = LastSent(s)
  BY <1>1 DEF Touched, LastSent
<1>6. sess[s].io = "writing" /\ ~Outdated(sess[s])
  BY DEF SendLast, Writable
<1> HIDE DEF r
<1>7. SessionOK(r, grant[s])
  BY <1>1, <1>4, <1>6 DEF SessionOK, OpenIO, Outdated
<1>8. Good(S, grant) /\ S[s].io = "reading"
  BY <1>1, <1>3, <1>4, <1>7, OneChanged
<1>9. ToNotify(S) \ {s} \subseteq ToNotify(sess)
  BY <1>1 DEF ToNotify, AtRest
<1>10. \A t \in Sessions :
          /\ S[t].subs = sess[t].subs /\ S[t].flags = sess[t].flags
          /\ S[t].event \in {sess[t].event, {}} /\ S[t].hap = sess[t].hap
          /\ S[t].age = sess[t].age
          /\ sess[t].io \in OpenIO <=> S[t].io \in OpenIO
  BY <1>1, <1>4, <1>6 DEF OpenIO
<1>11. IF S[s].input > 0 THEN HandleInput(s, S, timer, rest)
       ELSE HandleIOProgression(s, S, timer) /\ UNCHANGED <<grant, misused>>
  BY <1>5 DEF SendLast, LastSent
<1> HIDE DEF S
<1>12. Handling(S, timer, s)
  BY <1>1, <1>8 DEF Handling
<1>13. S[s].input > 0 => S[s].input # 0
  BY <1>8 DEF Good, Session
<1>q. QED
  BY <1>5, <1>8, <1>9, <1>10, <1>11, <1>12, <1>13

LEMMA SendLastHolds ==
    ASSUME IInv, NEW s \in Sessions, NEW rest \in 0 .. MaxInput, SendLast(s, rest)
    PROVE  Holds
<1> DEFINE S == LastSent(s)
<1>1. /\ Handling(S, timer, s) /\ S[s].io = "reading"
      /\ ToNotify(S) \ {s} \subseteq ToNotify(sess)
      /\ \/ S[s].input # 0 /\ HandleInput(s, S, timer, rest)
         \/ HandleIOProgression(s, S, timer) /\ UNCHANGED <<grant, misused>>
  BY SendingLast
<1> HIDE DEF S
<1>2. Kept(S, timer, s)
  BY <1>1, HandleInputKept, HandleIOProgressionKept
<1>3. UNCHANGED server /\ quiet' \in [Sessions -> 0 .. Delay]
  BY HushedType DEF SendLast
<1>q. QED
  BY <1>1, <1>2, <1>3, KeptHolds

LEMMA AcceptHolds ==
    ASSUME IInv, NEW s \in Sessions, Accept(s)
    PROVE  Holds
<1> DEFINE S == [sess EXCEPT ![s] = NewSession]
<1>1. /\ Good(sess, grant) /\ sess \in [Sessions -> Session] /\ timer \in Timers
      /\ grant \in [Sessions -> Grant]
  BY Before
<1>2. NewSession \in Session /\ SessionOK(NewSession, grant[s]) /\ NewSession.flags = {}
  BY <1>1, NewSessions
<1>3. Good(S, grant)
  BY <1>1, <1>2, OneChanged
<1>4. ToNotify(S) \subseteq ToNotify(sess)
  BY <1>1, <1>2 DEF ToNotify, AtRest
<1>5. UNCHANGED server /\ quiet' \in [Sessions -> 0 .. Delay] /\ misused' = FALSE
  <2>1. Delay \in 0 .. Delay
    BY IPServerAssumption
  <2>q. QED
    BY <2>1, Before DEF Accept
<1>6. /\ Good(sess', grant') /\ timer' \in Timers /\ timer'.event = timer.event
      /\ ToNotify(sess') \subseteq ToNotify(S)
  <2>1. CASE ScheduleMaxIdleTimeTimer(S, timer) /\ grant' = Forgotten(Expired(S))
    <3> HIDE DEF S
    <3>1. grant' \in [Sessions -> Grant]
          /\ \A t \in Sessions \ Expired(S) : grant'[t] = grant[t]
      BY <1>1, <2>1, ForgottenType DEF Forgotten
    <3>q. QED
      BY <1>1, <1>3, <2>1, <3>1, ScheduleMaxIdleTimeTimerKept
  <2>2. CASE sess' = S /\ UNCHANGED <<timer, grant>>
    BY <1>1, <1>3, <2>2
  <2>q. QED
    BY <2>1, <2>2 DEF Accept
<1>q. QED
  BY <1>4, <1>5, <1>6, Before DEF Holds

LEMMA GarbageCollectionTimerHolds ==
    ASSUME IInv, GarbageCollectionTimer
    PROVE  Holds
<1>1. /\ Good(sess, grant) /\ sess \in [Sessions -> Session] /\ timer \in Timers
      /\ grant \in [Sessions -> Grant]
  BY Before
<1>2. sess' = [s \in Sessions |-> IF sess[s].io = "idle" THEN FreeSession ELSE sess[s]]
  BY DEF GarbageCollectionTimer
<1>3. Good(sess', grant) /\ ToNotify(sess') \subseteq ToNotify(sess)
  BY <1>1, <1>2, NewSessions DEF Good, ToNotify, AtRest
<1>4. timer' \in Timers /\ timer'.event = timer.event
  <2>1. Off \in Off .. MaxIdle
    BY IPServerAssumption DEF Off
  <2>q. QED
    BY <1>1, <2>1 DEF GarbageCollectionTimer, Timers
<1>5. server' \in [state : {"idle", "running", "stopping"}, listening : BOOLEAN]
  BY Before DEF GarbageCollectionTimer
<1>q. QED
  BY <1>3, <1>4, <1>5, Before DEF GarbageCollectionTimer, Holds

LEMMA ReviewSessionsHolds ==
    ASSUME IInv, NEW T \in Timers, T.event = timer.event, ReviewSessions(T)
    PROVE  Holds
<1>1. Good(sess, grant) /\ grant \in [Sessions -> Grant]
  BY Before
<1>2. ScheduleMaxIdleTimeTimer(sess, T) /\ grant' = Forgotten(Expired(sess))
  BY DEF ReviewSessions
<1>3. grant' \in [Sessions -> Grant]
      /\ \A t \in Sessions \ Expired(sess) : grant'[t] = grant[t]
  BY <1>1, <1>2, ForgottenType DEF Forgotten
<1>4. /\ Good(sess', grant') /\ timer' \in Timers /\ timer'.event = T.event
      /\ ToNotify(sess') \subseteq ToNotify(sess)
  BY <1>1, <1>2, <1>3, ScheduleMaxIdleTimeTimerKept
<1>5. server' \in [state : {"idle", "running", "stopping"}, listening : BOOLEAN]
  BY Before DEF ReviewSessions
<1>q. QED
  BY <1>4, <1>5, Before DEF ReviewSessions, Holds

LEMMA EventNotificationTimerHolds ==
    ASSUME IInv, EventNotificationTimer
    PROVE  Holds
<1>1. Good(sess, grant) /\ timer \in Timers
  BY Before
<1>2. /\ Good(sess', grant) /\ timer' \in Timers
      /\ ToNotify(sess') # {} => timer'.event # Off
  BY <1>1, ScheduleEventNotificationsKept DEF EventNotificationTimer
<1>3. quiet' \in [Sessions -> 0 .. Delay]
  BY HushedType DEF EventNotificationTimer
<1>q. QED
  BY <1>2, <1>3, Before DEF EventNotificationTimer, Holds

LEMMA StartStopHolds ==
    ASSUME IInv, Start \/ Stop
    PROVE  Holds
<1>1. timer' \in Timers /\ timer'.event = timer.event
  BY Before DEF Start, Stop, Timers
<1>2. server' \in [state : {"idle", "running", "stopping"}, listening : BOOLEAN]
  <2>1. server \in [state : {"idle", "running", "stopping"}, listening : BOOLEAN]
    BY Before
  <2>2. CASE Start
    BY <2>2 DEF Start
  <2>3. CASE Stop
    BY <2>1, <2>3 DEF Stop
  <2>q. QED
    BY <2>2, <2>3
<1>q. QED
  BY <1>1, <1>2, Before DEF Start, Stop, Holds

LEMMA RaiseEventHolds ==
    ASSUME IInv, NEW c, NEW Told, RaiseEvent(c, Told)
    PROVE  Holds
<1>1. Good(sess, grant) /\ timer \in Timers
  BY Before
<1>2. sess' = Flagged(sess, {c}, NoSession, c, Told) /\ timer' = RaisedTimer(sess, sess', timer)
  BY DEF RaiseEvent
<1>3. /\ Good(sess', grant) /\ timer' \in Timers
      /\ timer'.event # Off
         \/ (timer'.event = timer.event /\ ToNotify(sess') = ToNotify(sess))
  BY <1>1, <1>2, FlaggedKept
<1>q. QED
  BY <1>3, Before DEF RaiseEvent, Holds

\* A session when a second has passed.
Aged(r, i, a, l) == [r EXCEPT !.idle = i, !.age = a, !.left = l]

LEMMA AgedSession ==
    ASSUME NEW r \in Session,
           NEW i \in 0 .. MaxIdle, NEW a \in 0 .. Delay, NEW l \in -1 .. TTL
    PROVE  Aged(r, i, a, l) \in Session
BY DEF Aged, Session

LEMMA TickHolds ==
    ASSUME IInv, Tick
    PROVE  Holds
<1>1. /\ Good(sess, grant) /\ sess \in [Sessions -> Session] /\ timer \in Timers
      /\ grant \in [Sessions -> Grant] /\ quiet \in [Sessions -> 0 .. Delay]
  BY Before
<1>2. MaxIdle \in Nat \ {0} /\ Delay \in Nat \ {0} /\ TTL \in Nat
  BY IPServerAssumption
<1>3. ASSUME NEW s \in Sessions
      PROVE  /\ sess'[s] \in Session /\ grant'[s] \in Grant
             /\ SessionOK(sess'[s], grant'[s])
             /\ sess'[s].io = sess[s].io /\ sess'[s].input = sess[s].input
             /\ sess'[s].flags = sess[s].flags
  <2> DEFINE r == sess[s]
             idle == IF r.idle < MaxIdle THEN r.idle + 1 ELSE r.idle
             age == IF r.age < Delay THEN r.age + 1 ELSE r.age
             left == IF r.left > -1 THEN r.left - 1 ELSE r.left
             glf == Later(grant[s].left)
  <2>1. r \in Session /\ SessionOK(r, grant[s]) /\ grant[s] \in Grant
    BY <1>1 DEF Good
  <2>2. r.idle \in 0 .. MaxIdle /\ r.age \in 0 .. Delay /\ r.left \in -1 .. TTL
        /\ grant[s].left \in 0 .. TTL + 1
    BY <2>1 DEF Session, Grant
  <2>3. idle \in 0 .. MaxIdle /\ age \in 0 .. Delay /\ left \in -1 .. TTL
        /\ glf \in 0 .. TTL + 1
    BY <1>2, <2>2 DEF Later
  <2>4. grant[s].left = r.left + 1 => glf = left + 1
    BY <1>2, <2>2 DEF Later
  <2>5. grant'[s] = [grant[s] EXCEPT !.left = glf]
    BY DEF Tick
  <2>6. s \in Open(sess) => sess'[s] = [r EXCEPT !.idle = idle, !.age = age, !.left = left]
    BY DEF Tick
  <2>7. s \notin Open(sess) => sess'[s] = r
    BY DEF Tick
  <2> HIDE DEF idle, age, left, glf, r
  <2>8. grant'[s] \in Grant /\ grant'[s].pid = grant[s].pid /\ grant'[s].left = glf
    BY <2>1, <2>3, <2>5 DEF Grant
  <2>9. CASE s \in Open(sess)
    <3>1. sess'[s] \in Session
      <4>1. r \in Session /\ sess'[s] = Aged(r, idle, age, left)
        BY <2>1, <2>6, <2>9 DEF Aged
      <4>q. QED
        BY <2>3, <4>1, AgedSession
    <3>2. LET b == sess'[s] IN
          /\ b.io = r.io /\ b.secured = r.secured /\ b.hap = r.hap /\ b.pid = r.pid
          /\ b.left = left /\ b.subs = r.subs /\ b.flags = r.flags /\ b.input = r.input
      BY <2>1, <2>6, <2>9 DEF Session
    <3>q. QED
      BY <2>1, <2>4, <2>8, <3>1, <3>2 DEF SessionOK, r
  <2>10. CASE s \notin Open(sess)
    <3>1. r.io \notin OpenIO
      BY <2>10 DEF Open, OpenIO, r
    <3>2. r.pid = NoPID
      BY <2>1, <3>1 DEF SessionOK
    <3>q. QED
      BY <2>1, <2>7, <2>8, <2>10, <3>2 DEF SessionOK, r
  <2>q. QED
    BY <2>9, <2>10
<1>4. sess' \in [Sessions -> Session] /\ grant' \in [Sessions -> Grant]
  BY <1>3 DEF Tick
<1>5. Good(sess', grant') /\ ToNotify(sess') = ToNotify(sess)
  BY <1>3, <1>4 DEF Good, ToNotify, AtRest
<1>6. /\ timer' \in Timers
      /\ timer.event # Off => timer'.event # Off
  <2>1. timer.idle \in Off .. MaxIdle /\ timer.event \in Off .. Delay
    BY <1>1 DEF Timers
  <2>2. /\ Later(timer.idle) \in Off .. MaxIdle /\ Later(timer.event) \in Off .. Delay
        /\ timer.event # Off => Later(timer.event) # Off
    BY <1>2, <2>1 DEF Later, Off
  <2>3. timer' = [timer EXCEPT !.idle = Later(timer.idle), !.event = Later(timer.event)]
    BY DEF Tick
  <2>q. QED
    BY <1>1, <2>2, <2>3 DEF Timers
<1>7. quiet' \in [Sessions -> 0 .. Delay]
  <2>1. ASSUME NEW s \in Sessions
        PROVE  (IF s \in Open(sess) /\ quiet[s] < Delay THEN quiet[s] + 1 ELSE quiet[s])
                 \in 0 .. Delay
    <3>1. quiet[s] \in 0 .. Delay
      BY <1>1
    <3>q. QED
      BY <1>2, <3>1
  <2>q. QED
    BY <2>1 DEF Tick
<1>q. QED
  BY <1>5, <1>6, <1>7, Before DEF Tick, Holds

-----------------------------------------------------------------------------
(* The invariant, and what it is for. *)

LEMMA Initially == Init => IInv
<1> SUFFICES ASSUME Init PROVE IInv
  OBVIOUS
<1>1. FreeSession \in Session /\ FreeSession.flags = {}
      /\ \A g \in Grant : SessionOK(FreeSession, g)
  BY NewSessions
<1>2. Good(sess, grant)
  BY <1>1, NoGrantType DEF Init, Good
<1>3. ToNotify(sess) = {}
  BY <1>1 DEF Init, ToNotify, AtRest
<1>4. Delay \in 0 .. Delay /\ Off \in Off .. MaxIdle /\ Off \in Off .. Delay
  BY IPServerAssumption DEF Off
<1>5. timer \in Timers /\ quiet \in [Sessions -> 0 .. Delay]
  BY <1>4 DEF Init, NoTimers, Timers
<1>6. sess \in [Sessions -> Session] /\ grant \in [Sessions -> Grant]
  BY <1>2 DEF Good
<1>q. QED
  BY <1>2, <1>3, <1>5, <1>6 DEF Init, IInv, TypeOK, EventsScheduled

LEMMA Step == IInv /\ [Next]_vars => IInv'
<1> SUFFICES ASSUME IInv, [Next]_vars PROVE IInv'
  OBVIOUS
<1>1. CASE Next
  <2> SUFFICES Holds
    BY HoldsSuffices
  <2>1. ASSUME NEW s \in Sessions,
               Accept(s) \/ Input(s) \/ Output(s) \/ Disconnect(s)
        PROVE  Holds
    <3>1. CASE Accept(s)
      BY <3>1, AcceptHolds
    <3>2. CASE Input(s)
      BY <3>2, ReceiveHolds, ReceiveBusyHolds DEF Input
    <3>3. CASE Output(s)
      BY <3>3, SendPartHolds, CloseHolds, SendChunkHolds, SendLastHolds DEF Output
    <3>4. CASE Disconnect(s)
      BY <3>4, CloseHolds
    <3>q. QED
      BY <2>1, <3>1, <3>2, <3>3, <3>4
  <2>2. CASE GarbageCollectionTimer
    BY <2>2, GarbageCollectionTimerHolds
  <2>3. CASE StateTransitionTimer
    <3>1. [timer EXCEPT !.transition = FALSE] \in Timers
          /\ [timer EXCEPT !.transition = FALSE].event = timer.event
      BY Before DEF Timers
    <3>q. QED
      BY <2>3, <3>1, ReviewSessionsHolds DEF StateTransitionTimer
  <2>4. CASE MaxIdleTimeTimer
    BY <2>4, Before, ReviewSessionsHolds DEF MaxIdleTimeTimer
  <2>5. CASE EventNotificationTimer
    BY <2>5, EventNotificationTimerHolds
  <2>6. CASE Start \/ Stop
    BY <2>6, StartStopHolds
  <2>7. ASSUME NEW c \in Chars, \/ RaiseEvent(c, Sessions)
                                \/ \E s \in Sessions : RaiseEvent(c, {s})
        PROVE  Holds
    BY <2>7, RaiseEventHolds
  <2>8. CASE Tick
    BY <2>8, TickHolds
  <2>q. QED
    BY <1>1, <2>1, <2>2, <2>3, <2>4, <2>5, <2>6, <2>7, <2>8 DEF Next
<1>2. CASE UNCHANGED vars
  BY <1>2 DEF vars, IInv, TypeOK, Good, EventsScheduled, ToNotify, AtRest, SessionOK
<1>q. QED
  BY <1>1, <1>2

THEOREM Invariance == Spec => []IInv
BY Initially, Step, PTL DEF Spec

\* The state of the server has its type, buffers, delays and all: no session
\* has more in its inbound buffer than fits, and no timer is overdue by more
\* than it waits.
THEOREM TypeCorrect == Spec => []TypeOK
<1>1. IInv => TypeOK
  BY DEF IInv
<1>q. QED
  BY <1>1, Invariance, PTL

\* A value that has to be prepared is written by a request that carries the
\* pid last prepared in this session, before it expires, and only once
\* (handle_prepare_request, handle_characteristics_request).
THEOREM TimedWritesOnce == Spec => []TimedWriteOnce
<1>1. IInv => TimedWriteOnce
  BY DEF IInv, TimedWriteOnce
<1>q. QED
  BY <1>1, Invariance, PTL

\* Whenever notifications are due to a session at rest, the timer that writes
\* them runs (schedule_event_notifications).
THEOREM TimerCoversEvents == Spec => []EventsScheduled
<1>1. IInv => EventsScheduled
  BY DEF IInv
<1>q. QED
  BY <1>1, Invariance, PTL

-----------------------------------------------------------------------------
(* The contract about event notifications. *)

\* What a step makes of a session, in terms of the contract: nothing, or its
\* end.
Unmoved(r, r2) ==
    r2.subs = r.subs /\ r2.flags = r.flags /\ r2.event \in {r.event, {}}

Cleared(r) == r.subs = {} /\ r.flags = {} /\ r.event = {} /\ r.hap # "active"

\* The same, and what becomes of its age; or it is sent a notification.
Lasts(r, r2) == r2.io \in OpenIO => r.io \in OpenIO
Same(r, r2) == Unmoved(r, r2) /\ Lasts(r, r2) /\ r2.age = r.age

Ended(r) == Cleared(r) /\ r.io \notin OpenIO

Told(r, r2) ==
    /\ r.hap = "active" /\ r2.event # {} /\ r2.event \subseteq r.flags
    /\ r2.flags = r.flags \ r2.event
    /\ r.age < Delay => r2.event \subseteq SwitchChars
    /\ r2.age = IF r.age >= Delay THEN 0 ELSE r.age
    /\ Lasts(r, r2)

Changes(S) == \A t \in Sessions : Ended(sess'[t]) \/ Same(S[t], sess'[t])

Tells(S) ==
    \A t \in Sessions :
        /\ sess'[t].subs = S[t].subs
        /\ sess'[t].hap = S[t].hap
        /\ Same(S[t], sess'[t]) \/ Told(S[t], sess'[t])

Asks(S, s, c, R) ==
    /\ S[s].hap = "active"
    /\ sess'[s].subs \in {S[s].subs \cup {c}, S[s].subs \ {c}}
    /\ \A t \in Sessions \ {s} : sess'[t].subs = S[t].subs
    /\ sess'[s].event = {}
    /\ \A t \in Sessions :
        /\ sess'[t].flags = (S[t].flags \cup (R \ (IF t = s THEN {c} ELSE {})))
                              \cap sess'[t].subs
        /\ sess'[t].event \in {S[t].event, {}}
        /\ sess'[t].hap = S[t].hap
        /\ sess'[t].age = S[t].age /\ Lasts(S[t], sess'[t])

Permitted(S) ==
    \/ Changes(S)
    \/ Tells(S)
    \/ \E s \in Sessions, c \in Chars, R \in SUBSET Chars : Asks(S, s, c, R)

\* S2 differs from S in nothing that the contract speaks of.
Like(S, S2) ==
    \A t \in Sessions : Same(S[t], S2[t]) /\ S2[t].hap = S[t].hap

LEMMA LikePermitted ==
    ASSUME NEW S, NEW S2, Like(S, S2), Permitted(S2)
    PROVE  Permitted(S)
<1>1. CASE Changes(S2)
  BY <1>1 DEF Like, Permitted, Changes, Same, Unmoved, Lasts
<1>2. CASE Tells(S2)
  BY <1>2 DEF Like, Permitted, Tells, Same, Unmoved, Lasts, Told
<1>3. ASSUME NEW s \in Sessions, NEW c \in Chars, NEW R \in SUBSET Chars,
             Asks(S2, s, c, R)
      PROVE  Asks(S, s, c, R)
  BY <1>3 DEF Like, Asks, Same, Unmoved, Lasts
<1>q. QED
  BY <1>1, <1>2, <1>3 DEF Permitted

LEMMA PermittedByContract ==
    ASSUME Permitted(sess)
    PROVE  Contract!Next
<1>1. CASE Changes(sess)
  BY <1>1
     DEF Changes, Same, Unmoved, Ended, Cleared,
         Contract!Next, Contract!ChangeSessions, Contract!Sending
<1>2. CASE Tells(sess)
  BY <1>2 DEF Tells, Same, Unmoved, Told, Contract!Next, Contract!Notify, Contract!Sending
<1>3. ASSUME NEW s \in Sessions, NEW c \in Chars, NEW R \in SUBSET Chars,
             Asks(sess, s, c, R)
      PROVE  Contract!Request(s, c, R)
  BY <1>3 DEF Asks, Contract!Request, Contract!Sending
<1>q. QED
  BY <1>1, <1>2, <1>3 DEF Permitted, Contract!Next

LEMMA ClosedChanges ==
    ASSUME NEW S, NEW S2, NEW C, \A t \in Sessions : Same(S[t], S2[t]),
           sess' = CloseSession(S2, C)
    PROVE  Permitted(S)
BY NewSessions
   DEF CloseSession, Changes, Ended, Cleared, OpenIO, Permitted, ClosedSession, FreeSession

LEMMA UnclosedChanges ==
    ASSUME NEW S, \A t \in Sessions : Same(S[t], sess'[t])
    PROVE  Permitted(S)
BY DEF Changes, Permitted

LEMMA RespondingLike ==
    ASSUME NEW S \in [Sessions -> Session], NEW s \in Sessions, S[s].io = "reading"
    PROVE  Like(S, Responding(S, s)) /\ Responding(S, s)[s].event = {}
<1> DEFINE r == [S[s] EXCEPT !.io = "writing", !.unsent = MaxOutput, !.event = {}]
<1>1. S[s] \in Session
  OBVIOUS
<1>2. r.subs = S[s].subs /\ r.flags = S[s].flags /\ r.hap = S[s].hap /\ r.event = {}
      /\ r.age = S[s].age
  BY <1>1 DEF Session
<1>3. Responding(S, s) = [S EXCEPT ![s] = r]
  BY DEF Responding
<1> HIDE DEF r
<1>q. QED
  BY <1>2, <1>3 DEF Like, Same, Unmoved, Lasts, OpenIO

LEMMA HapSame ==
    ASSUME NEW S \in [Sessions -> Session], NEW s \in Sessions, NEW h
    PROVE  /\ \A t \in Sessions : Same(S[t], [S EXCEPT ![s].hap = h][t])
           /\ [S EXCEPT ![s].hap = h][s].io = S[s].io
<1> DEFINE r == [S[s] EXCEPT !.hap = h]
<1>1. /\ r.subs = S[s].subs /\ r.flags = S[s].flags /\ r.event = S[s].event
      /\ r.age = S[s].age /\ r.io = S[s].io
  BY DEF Session
<1>2. [S EXCEPT ![s].hap = h] = [S EXCEPT ![s] = r]
  OBVIOUS
<1> HIDE DEF r
<1>q. QED
  BY <1>1, <1>2 DEF Same, Unmoved, Lasts

LEMMA OtherRequestPermitted ==
    ASSUME NEW S \in [Sessions -> Session], NEW T, NEW s \in Sessions,
           S[s].io = "reading", OtherRequest(s, S, T)
    PROVE  Permitted(S)
BY RespondingLike, UnclosedChanges DEF OtherRequest, Like

LEMMA PairSetupRequestPermitted ==
    ASSUME NEW S, NEW T, NEW s, Handling(S, T, s),
           S[s].io = "reading", PairSetupRequest(s, S, T)
    PROVE  Permitted(S)
<1>1. PICK h \in {S[s].hap, "transient"} :
          sess' = CloseSession(Responding([S EXCEPT ![s].hap = h], s),
                               {t \in Sessions \ {s} : S[t].hap = "transient"})
  BY DEF PairSetupRequest
<1>2. s \in Sessions /\ S \in [Sessions -> Session]
  BY DEF Handling, Good
<1> DEFINE R == [S EXCEPT ![s].hap = h]
<1>3. R \in [Sessions -> Session]
  <2>1. h \in {"none", "active", "transient", "gone"} /\ ~S[s].secured /\ Good(S, grant)
    BY <1>2 DEF Handling, PairSetupRequest, Session
  <2>2. Good(WithHap(S, s, h), grant)
    BY <1>2, <2>1, HapChanged
  <2>q. QED
    BY <2>2 DEF Good, WithHap
<1>4. R[s].io = "reading" /\ \A t \in Sessions : Same(S[t], R[t])
  BY <1>2, HapSame
<1> HIDE DEF R
<1>5. \A t \in Sessions : Same(S[t], Responding(R, s)[t])
  BY <1>2, <1>3, <1>4, RespondingLike DEF Like, Same, Unmoved, Lasts
<1>q. QED
  BY <1>1, <1>5, ClosedChanges DEF R

LEMMA PairVerifyRequestPermitted ==
    ASSUME NEW S, NEW T, NEW s, Handling(S, T, s),
           S[s].io = "reading", PairVerifyRequest(s, S, T)
    PROVE  Permitted(S)
<1>1. sess' = Responding([S EXCEPT ![s].hap = "active"], s)
  BY DEF PairVerifyRequest
<1>2. s \in Sessions /\ S \in [Sessions -> Session]
  BY DEF Handling, Good
<1> DEFINE R == [S EXCEPT ![s].hap = "active"]
<1>3. R \in [Sessions -> Session]
  <2>1. ~S[s].secured /\ Good(S, grant)
    BY DEF Handling, PairVerifyRequest
  <2>2. Good(WithHap(S, s, "active"), grant)
    BY <1>2, <2>1, HapChanged
  <2>q. QED
    BY <2>2 DEF Good, WithHap
<1>4. R[s].io = "reading" /\ \A t \in Sessions : Same(S[t], R[t])
  BY <1>2, HapSame
<1> HIDE DEF R
<1>5. \A t \in Sessions : Same(S[t], Responding(R, s)[t])
  BY <1>2, <1>3, <1>4, RespondingLike DEF Like, Same, Unmoved, Lasts
<1>q. QED
  BY <1>1, <1>5, UnclosedChanges DEF R

LEMMA PairingsRequestPermitted ==
    ASSUME NEW S \in [Sessions -> Session], NEW T, NEW s \in Sessions,
           S[s].io = "reading", PairingsRequest(s, S, T)
    PROVE  Permitted(S)
<1>1. PICK G \in SUBSET {t \in Sessions : S[t].hap = "active"} :
          LET S2 == [t \in Sessions |-> IF t \in G THEN [S[t] EXCEPT !.hap = "gone"] ELSE S[t]]
              C == Orphans(s, S2)
          IN sess' = CloseSession(Responding(S2, s), C) /\ timer' = Closing(T, C)
  BY DEF PairingsRequest
<1> DEFINE S2 == [t \in Sessions |-> IF t \in G THEN [S[t] EXCEPT !.hap = "gone"] ELSE S[t]]
<1>2. ASSUME NEW t \in Sessions
      PROVE  S2[t] \in Session /\ Same(S[t], S2[t]) /\ S2[t].io = S[t].io
  <2>1. S[t] \in Session
    OBVIOUS
  <2>2. CASE t \in G
    <3>1. S2[t] = [S[t] EXCEPT !.hap = "gone"]
      BY <2>2
    <3>q. QED
      BY <2>1, <3>1 DEF Session, Same, Unmoved, Lasts
  <2>3. CASE t \notin G
    BY <2>1, <2>3 DEF Same, Unmoved, Lasts
  <2>q. QED
    BY <2>2, <2>3
<1>3. S2 \in [Sessions -> Session]
  BY <1>2
<1>4. sess' = CloseSession(Responding(S2, s), Orphans(s, S2))
  BY <1>1
<1> HIDE DEF S2
<1>5. \A t \in Sessions : Same(S[t], Responding(S2, s)[t])
  BY <1>2, <1>3, RespondingLike DEF Like, Same, Unmoved, Lasts
<1>q. QED
  BY <1>4, <1>5, ClosedChanges

LEMMA PrepareRequestPermitted ==
    ASSUME NEW S \in [Sessions -> Session], NEW T, NEW s \in Sessions,
           S[s].io = "reading", PrepareRequest(s, S, T)
    PROVE  Permitted(S)
<1>1. PICK p \in PIDs :
          sess' = Responding([S EXCEPT ![s].pid = p, ![s].left = TTL], s)
  BY DEF PrepareRequest
<1> DEFINE r == [S[s] EXCEPT !.pid = p, !.left = TTL]
           R == [S EXCEPT ![s] = r]
<1>2. TTL \in -1 .. TTL /\ S[s] \in Session
  BY IPServerAssumption
<1>3. r \in Session /\ Same(S[s], r) /\ r.io = "reading"
  BY <1>2 DEF Session, Same, Unmoved, Lasts
<1>4. R = [S EXCEPT ![s].pid = p, ![s].left = TTL]
  OBVIOUS
<1> HIDE DEF r
<1>5. /\ R \in [Sessions -> Session] /\ R[s].io = "reading"
      /\ \A t \in Sessions : Same(S[t], R[t])
  BY <1>3 DEF Same, Unmoved, Lasts
<1>6. sess' = Responding(R, s)
  BY <1>1, <1>4
<1> HIDE DEF R
<1>7. \A t \in Sessions : Same(S[t], Responding(R, s)[t])
  BY <1>5, RespondingLike DEF Like, Same, Unmoved, Lasts
<1>q. QED
  BY <1>6, <1>7, UnclosedChanges

LEMMA GetAccessoriesRequestPermitted ==
    ASSUME NEW S \in [Sessions -> Session], NEW T, NEW s \in Sessions,
           Responding(S, s) \in [Sessions -> Session],
           S[s].io = "reading", GetAccessoriesRequest(s, S, T)
    PROVE  Permitted(S)
<1> DEFINE R == Responding(S, s)
           r == [R[s] EXCEPT !.serializing = TRUE, !.chunks = MaxChunks - 1]
<1>1. \A t \in Sessions : Same(S[t], R[t])
  BY RespondingLike DEF Like
<1>2. R \in [Sessions -> Session]
  OBVIOUS
<1> HIDE DEF R
<1>3. Same(R[s], r)
  BY <1>2 DEF Session, Same, Unmoved, Lasts
<1>4. sess' = [R EXCEPT ![s] = r]
  BY <1>2 DEF GetAccessoriesRequest, R
<1> HIDE DEF r
<1>5. \A t \in Sessions : Same(S[t], sess'[t])
  BY <1>1, <1>2, <1>3, <1>4 DEF Same, Unmoved, Lasts
<1>q. QED
  BY <1>5, UnclosedChanges

\* What a write makes of the subscriptions.
LEMMA SubscribingChanges ==
    ASSUME NEW r \in Session, r.flags \subseteq r.subs, NEW c \in Chars,
           NEW ev \in {"on", "off", "none"}, NEW p
    PROVE  LET u == PutUsed(r, p)
               b == Subscribed(u, c, ev)
           IN /\ u.subs = r.subs /\ u.flags = r.flags /\ u.event = r.event
              /\ u.hap = r.hap /\ u.age = r.age /\ u.io = r.io
              /\ b.subs \in {r.subs \cup {c}, r.subs \ {c}}
              /\ b.flags = r.flags \cap b.subs /\ b.event = r.event /\ b.hap = r.hap
              /\ b.age = r.age /\ b.io = r.io
<1> DEFINE u == PutUsed(r, p)
           b == Subscribed(u, c, ev)
<1>1. u.subs = r.subs /\ u.flags = r.flags /\ u.event = r.event /\ u.hap = r.hap
      /\ u.age = r.age /\ u.io = r.io /\ DOMAIN u = DOMAIN r
  <2>1. CASE r.pid # NoPID /\ p # NoPID
    <3>1. u = [r EXCEPT !.pid = NoPID, !.left = -1]
      BY <2>1 DEF PutUsed
    <3>q. QED
      BY <3>1 DEF Session
  <2>2. CASE ~(r.pid # NoPID /\ p # NoPID)
    BY <2>2 DEF PutUsed
  <2>q. QED
    BY <2>1, <2>2
<1>2. {"subs", "flags", "event", "hap", "age", "io"} \subseteq DOMAIN r
  BY DEF Session
<1> HIDE DEF u
<1>3. CASE ev = "on" /\ Cardinality(u.subs) < MaxEvents
  <2>1. b = [u EXCEPT !.subs = u.subs \cup {c}]
    BY <1>3 DEF Subscribed
  <2> HIDE DEF b
  <2>2. /\ b.subs = u.subs \cup {c} /\ b.flags = u.flags /\ b.event = u.event
        /\ b.hap = u.hap /\ b.age = u.age /\ b.io = u.io
    BY <1>1, <1>2, <2>1
  <2>q. QED
    BY <1>1, <2>2 DEF u, b
<1>4. CASE ev = "off"
  <2>1. b = [u EXCEPT !.subs = u.subs \ {c}, !.flags = u.flags \ {c}]
    BY <1>4 DEF Subscribed
  <2> HIDE DEF b
  <2>2. /\ b.subs = u.subs \ {c} /\ b.flags = u.flags \ {c} /\ b.event = u.event
        /\ b.hap = u.hap /\ b.age = u.age /\ b.io = u.io
    BY <1>1, <1>2, <2>1
  <2>q. QED
    BY <1>1, <2>2 DEF u, b
<1>5. CASE ~(ev = "on" /\ Cardinality(u.subs) < MaxEvents) /\ ev # "off"
  <2>1. b = u
    BY <1>5 DEF Subscribed
  <2>2. u.subs \in {u.subs \cup {c}, u.subs \ {c}}
    OBVIOUS
  <2>q. QED
    BY <1>1, <2>1, <2>2 DEF u, b
<1>q. QED
  BY <1>3, <1>4, <1>5

LEMMA PutCharacteristicsPermitted ==
    ASSUME NEW S, NEW T, NEW s, Handling(S, T, s), S[s].io = "reading",
           NEW c \in Chars, NEW ev \in {"on", "off", "none"}, NEW value \in BOOLEAN,
           NEW p \in PIDs \cup {NoPID}, NEW R \in SUBSET Chars,
           PutCharacteristics(s, S, T, c, ev, value, p, R)
    PROVE  Asks(S, s, c, R)
<1> DEFINE runs == PutAccepted(S[s], p) /\ ~(value /\ c \in TimedChars /\ p = NoPID)
           used == [S EXCEPT ![s] = PutUsed(S[s], p)]
           asked == IF runs THEN [used EXCEPT ![s] = Subscribed(used[s], c, ev)] ELSE used
           raised == Flagged(asked, R, s, c, Sessions)
           u == PutUsed(S[s], p)
           b == Subscribed(u, c, ev)
           Own(t) == IF t = s THEN {c} ELSE {}
<1>1. /\ s \in Sessions /\ S \in [Sessions -> Session] /\ Good(S, grant)
      /\ S[s] \in Session /\ SessionOK(S[s], grant[s]) /\ Authorized(S[s])
      /\ grant[s] \in Grant
  BY DEF Handling, Good, PutCharacteristics
<1>2. S[s].hap = "active" /\ S[s].flags \subseteq S[s].subs
  BY <1>1 DEF SessionOK, Authorized, Session
<1>3. /\ u \in Session /\ b \in Session
      /\ u.subs = S[s].subs /\ u.flags = S[s].flags /\ u.event = S[s].event
      /\ u.hap = S[s].hap /\ u.age = S[s].age /\ u.io = S[s].io
      /\ b.age = S[s].age /\ b.io = S[s].io
      /\ b.subs \in {S[s].subs \cup {c}, S[s].subs \ {c}}
      /\ b.flags = S[s].flags \cap b.subs /\ b.event = S[s].event /\ b.hap = S[s].hap
  BY <1>1, <1>2, SubscribingChanges, Subscribing
<1>4. S[s].subs \in {S[s].subs \cup {c}, S[s].subs \ {c}}
  OBVIOUS
<1>5. asked = [S EXCEPT ![s] = IF runs THEN b ELSE u]
  BY <1>1
<1> HIDE DEF u, b, runs
<1>6. asked \in [Sessions -> Session]
  BY <1>1, <1>3, <1>5
<1>7. /\ \A t \in Sessions \ {s} : asked[t] = S[t]
      /\ asked[s].subs \in {S[s].subs \cup {c}, S[s].subs \ {c}}
      /\ asked[s].flags = S[s].flags \cap asked[s].subs
      /\ asked[s].event = S[s].event /\ asked[s].hap = S[s].hap
      /\ asked[s].age = S[s].age /\ asked[s].io = S[s].io
  BY <1>1, <1>2, <1>3, <1>4, <1>5
<1>8. sess' = Responding(raised, s)
  BY DEF PutCharacteristics, runs
<1> HIDE DEF asked
<1>9. ASSUME NEW t \in Sessions
      PROVE  /\ asked[t].flags \subseteq asked[t].subs
             /\ asked[t].hap = "transient" => asked[t].subs = {}
             /\ asked[t].flags = S[t].flags \cap asked[t].subs
             /\ asked[t].event = S[t].event /\ asked[t].hap = S[t].hap
             /\ asked[t].age = S[t].age /\ asked[t].io = S[t].io
  <2>1. SessionOK(S[t], grant[t])
    BY <1>1 DEF Good
  <2>q. QED
    BY <1>2, <1>7, <2>1 DEF SessionOK
<1>10. ASSUME NEW t \in Sessions
       PROVE  /\ raised[t] \in Session
              /\ raised[t].subs = asked[t].subs /\ raised[t].hap = S[t].hap
              /\ raised[t].event = S[t].event
              /\ raised[t].age = S[t].age /\ raised[t].io = S[t].io
              /\ raised[t].flags = (S[t].flags \cup (R \ Own(t))) \cap asked[t].subs
  <2> DEFINE F == asked[t].flags \cup ((R \ Own(t)) \cap asked[t].subs)
  <2>1. asked[t] \in Session
    BY <1>6
  <2>2. CASE asked[t].hap # "transient"
    <3>1. raised[t] = [asked[t] EXCEPT !.flags = F]
      BY <2>2 DEF Flagged
    <3>2. F \subseteq Chars
      BY <2>1 DEF Session
    <3>3. F = (S[t].flags \cup (R \ Own(t))) \cap asked[t].subs
      BY <1>9
    <3> HIDE DEF raised, F
    <3>4. /\ raised[t] \in Session /\ raised[t].flags = F
          /\ raised[t].subs = asked[t].subs /\ raised[t].hap = asked[t].hap
          /\ raised[t].event = asked[t].event
          /\ raised[t].age = asked[t].age /\ raised[t].io = asked[t].io
      BY <2>1, <3>1, <3>2 DEF Session
    <3>q. QED
      BY <1>9, <3>3, <3>4
  <2>3. CASE asked[t].hap = "transient"
    <3>1. raised[t] = asked[t]
      BY <2>3 DEF Flagged
    <3>q. QED
      BY <1>9, <2>1, <2>3, <3>1
  <2>q. QED
    BY <2>2, <2>3
<1>11. raised \in [Sessions -> Session]
  BY <1>10 DEF Flagged
<1> HIDE DEF raised
<1>12. Like(raised, sess') /\ sess'[s].event = {}
  BY <1>1, <1>8, <1>10, <1>11, RespondingLike
<1>13. ASSUME NEW t \in Sessions
       PROVE  /\ sess'[t].subs = asked[t].subs /\ sess'[t].hap = S[t].hap
              /\ sess'[t].event \in {S[t].event, {}}
              /\ sess'[t].age = S[t].age /\ Lasts(S[t], sess'[t])
              /\ sess'[t].flags = (S[t].flags \cup (R \ Own(t))) \cap asked[t].subs
  BY <1>10, <1>12 DEF Like, Same, Unmoved, Lasts
<1>q. QED
  BY <1>1, <1>2, <1>7, <1>12, <1>13 DEF Asks

LEMMA HandleHTTPRequestPermitted ==
    ASSUME NEW S, NEW T, NEW s, Handling(S, T, s), S[s].io = "reading",
           HandleHTTPRequest(s, S, T)
    PROVE  Permitted(S)
<1>1. /\ s \in Sessions /\ S \in [Sessions -> Session]
      /\ Responding(S, s) \in [Sessions -> Session]
  BY Responded DEF Handling, Good
<1>2. ASSUME NEW c \in Chars, NEW ev \in {"on", "off", "none"}, NEW value \in BOOLEAN,
             NEW p \in PIDs \cup {NoPID}, NEW R \in SUBSET Chars,
             PutCharacteristics(s, S, T, c, ev, value, p, R)
      PROVE  Permitted(S)
  BY <1>1, <1>2, PutCharacteristicsPermitted DEF Permitted
<1>q. QED
  BY <1>1, <1>2, OtherRequestPermitted, PairSetupRequestPermitted,
     PairVerifyRequestPermitted, PairingsRequestPermitted, PrepareRequestPermitted,
     GetAccessoriesRequestPermitted
     DEF HandleHTTPRequest

LEMMA HandleInputPermitted ==
    ASSUME NEW S, NEW T, NEW s, NEW rest \in 0 .. MaxInput, Handling(S, T, s),
           S[s].io = "reading", HandleInput(s, S, T, rest)
    PROVE  Permitted(S)
<1> DEFINE S1 == SecuredIn(S, s)
           S2 == RestIn(S, s, rest)
<1>1. /\ Handling(S2, T, s) /\ S2[s].io = "reading"
      /\ Like(S, S1) /\ Like(S, S2)
  <2>1. /\ Handling(S2, T, s) /\ S2[s].io = "reading"
        /\ \A t \in Sessions :
              /\ S1[t].subs = S[t].subs /\ S2[t].subs = S[t].subs
              /\ S1[t].flags = S[t].flags /\ S2[t].flags = S[t].flags
              /\ S1[t].event = S[t].event /\ S2[t].event = S[t].event
              /\ S1[t].hap = S[t].hap /\ S2[t].hap = S[t].hap
              /\ S1[t].age = S[t].age /\ S2[t].age = S[t].age
              /\ S1[t].io = S[t].io /\ S2[t].io = S[t].io
    BY InputTaken
  <2>q. QED
    BY <2>1 DEF Like, Same, Unmoved, Lasts
<1>2. \/ HandleHTTPRequest(s, S2, T)
      \/ sess' = S1
      \/ sess' = CloseSession(S, {s})
  BY DEF HandleInput, SecuredIn, RestIn
<1> HIDE DEF S1, S2
<1>3. CASE HandleHTTPRequest(s, S2, T)
  <2>1. Permitted(S2)
    BY <1>1, <1>3, HandleHTTPRequestPermitted
  <2>q. QED
    BY <1>1, <2>1, LikePermitted
<1>4. CASE sess' = S1
  BY <1>1, <1>4, UnclosedChanges DEF Like
<1>5. CASE sess' = CloseSession(S, {s})
  <2>1. \A t \in Sessions : Same(S[t], S[t])
    BY DEF Same, Unmoved, Lasts
  <2>q. QED
    BY <1>5, <2>1, ClosedChanges
<1>q. QED
  BY <1>2, <1>3, <1>4, <1>5

\* What a notification makes of a session.
LEMMA NotifiedTells ==
    ASSUME NEW S, NEW g, Good(S, g), NEW s \in Sessions
    PROVE  LET r == S[s]
               n == Notified(S)[s]
           IN /\ n.subs = r.subs /\ n.hap = r.hap
              /\ Same(r, n) \/ Told(r, n)
<1> DEFINE r == S[s]
           n == Notified(S)[s]
           N == ToldNow(r)
           age == IF r.age >= Delay THEN 0 ELSE r.age
<1>1. r \in Session /\ SessionOK(r, g[s])
  BY DEF Good
<1>2. CASE s \in ToNotify(S) /\ N # {}
  <2>1. r.io = "reading" /\ r.flags # {}
    BY <1>2 DEF ToNotify, AtRest
  <2>2. r.secured /\ r.hap = "active"
    BY <1>1, <2>1 DEF SessionOK
  <2>3. N \subseteq r.flags /\ (r.age < Delay => N \subseteq SwitchChars)
    <3>1. r.age < Delay => ~(r.age >= Delay)
      BY <1>1, IPServerAssumption DEF Session
    <3>q. QED
      BY <3>1 DEF ToldNow
  <2>4. n = [r EXCEPT !.io = "writing", !.unsent = MaxOutput, !.event = N,
                      !.flags = r.flags \ N, !.age = age]
    BY <1>2, <2>2 DEF Notified, WriteEventNotifications
  <2> HIDE DEF n, N, r, age
  <2>5. /\ n.subs = r.subs /\ n.hap = r.hap /\ n.event = N /\ n.flags = r.flags \ N
        /\ n.io = "writing" /\ n.age = age
    BY <1>1, <2>4 DEF Session
  <2>q. QED
    BY <1>2, <2>1, <2>2, <2>3, <2>5 DEF Told, Lasts, OpenIO, n, r, age
<1>3. CASE s \in ToNotify(S) /\ N = {}
  <2>1. r.io = "reading" /\ r.flags # {}
    BY <1>3 DEF ToNotify, AtRest
  <2>2. r.secured
    BY <1>1, <2>1 DEF SessionOK
  <2>3. n = r
    BY <1>3, <2>2 DEF Notified, WriteEventNotifications
  <2>q. QED
    BY <2>3 DEF Same, Unmoved, Lasts
<1>4. CASE s \notin ToNotify(S)
  <2>1. n = r
    BY <1>4 DEF Notified
  <2>q. QED
    BY <2>1 DEF Same, Unmoved, Lasts
<1>q. QED
  BY <1>2, <1>3, <1>4

LEMMA ScheduleEventNotificationsPermitted ==
    ASSUME NEW S, NEW g, Good(S, g), NEW T, ScheduleEventNotifications(S, T)
    PROVE  Permitted(S)
<1>1. sess' = Notified(S)
  BY DEF ScheduleEventNotifications
<1>q. QED
  BY <1>1, NotifiedTells DEF Tells, Permitted

LEMMA HandleIOProgressionPermitted ==
    ASSUME NEW S, NEW T, NEW s, Good(S, grant), HandleIOProgression(s, S, T)
    PROVE  Permitted(S)
<1>1. \A t \in Sessions : Same(S[t], S[t])
  BY DEF Same, Unmoved, Lasts
<1>2. CASE sess' = CloseSession(S, {s})
  BY <1>1, <1>2, ClosedChanges
<1>3. CASE ScheduleEventNotifications(S, T)
  BY <1>3, ScheduleEventNotificationsPermitted
<1>4. CASE sess' = S
  BY <1>1, <1>4, UnclosedChanges
<1>q. QED
  BY <1>2, <1>3, <1>4 DEF HandleIOProgression

LEMMA TouchingLike ==
    ASSUME IInv, NEW s \in Sessions, NEW n
    PROVE  /\ Like(sess, [sess EXCEPT ![s].input = n, ![s].idle = 0])
           /\ Like(sess, [sess EXCEPT ![s].idle = 0])
<1> DEFINE r == [sess[s] EXCEPT !.input = n, !.idle = 0]
           b == [sess[s] EXCEPT !.idle = 0]
<1>1. sess \in [Sessions -> Session] /\ sess[s] \in Session
  BY Before
<1>2. /\ r.hap = sess[s].hap /\ r.subs = sess[s].subs /\ r.flags = sess[s].flags
      /\ r.event = sess[s].event
      /\ b.hap = sess[s].hap /\ b.subs = sess[s].subs /\ b.flags = sess[s].flags
      /\ b.event = sess[s].event
      /\ r.age = sess[s].age /\ b.age = sess[s].age
      /\ r.io = sess[s].io /\ b.io = sess[s].io
  BY <1>1 DEF Session
<1>3. /\ [sess EXCEPT ![s].input = n, ![s].idle = 0] = [sess EXCEPT ![s] = r]
      /\ [sess EXCEPT ![s].idle = 0] = [sess EXCEPT ![s] = b]
  BY <1>1
<1> HIDE DEF r, b
<1>q. QED
  BY <1>1, <1>2, <1>3 DEF Like, Same, Unmoved, Lasts

LEMMA ReceivePermitted ==
    ASSUME IInv, NEW s \in Sessions, NEW n \in 1 .. MaxInput,
           NEW rest \in 0 .. MaxInput, Receive(s, n, rest)
    PROVE  Permitted(sess)
<1> DEFINE m == sess[s].input + n
           S == [sess EXCEPT ![s].input = m, ![s].idle = 0]
<1>1. sess[s] \in Session /\ sess \in [Sessions -> Session]
  BY Before
<1>2. m \in 0 .. MaxInput
  BY <1>1, IPServerAssumption DEF Receive, Session
<1>3. HandleInput(s, S, timer, rest) /\ sess[s].io = "reading"
  BY <1>1 DEF Receive
<1> HIDE DEF m
<1>4. Handling(S, timer, s) /\ S[s].io = sess[s].io
  BY <1>2, Touching
<1>5. Like(sess, S)
  BY TouchingLike
<1> HIDE DEF S
<1>6. Permitted(S)
  BY <1>3, <1>4, HandleInputPermitted
<1>q. QED
  BY <1>5, <1>6, LikePermitted

LEMMA ReceiveBusyPermitted ==
    ASSUME IInv, NEW s \in Sessions, ReceiveBusy(s)
    PROVE  Permitted(sess)
<1> DEFINE R == [sess EXCEPT ![s].idle = 0]
<1>1. 0 \in 0 .. MaxInput
  BY IPServerAssumption
<1>2. Handling(R, timer, s) /\ Like(sess, R)
  BY <1>1, Touching, TouchingLike
<1>3. HandleIOProgression(s, R, timer)
  BY DEF ReceiveBusy
<1> HIDE DEF R
<1>4. Permitted(R)
  BY <1>2, <1>3, HandleIOProgressionPermitted DEF Handling
<1>q. QED
  BY <1>2, <1>4, LikePermitted

LEMMA SendingPermitted ==
    ASSUME IInv, NEW s \in Sessions,
           SendChunk(s) \/ \E n \in 0 .. MaxOutput : SendPart(s, n)
    PROVE  Permitted(sess)
<1>1. sess \in [Sessions -> Session] /\ sess[s] \in Session
  BY Before
<1>2. CASE SendChunk(s)
  <2> DEFINE r == [sess[s] EXCEPT !.idle = 0, !.unsent = MaxOutput,
                                  !.chunks = sess[s].chunks - 1]
  <2>1. Same(sess[s], r)
    BY <1>1 DEF Session, Same, Unmoved, Lasts
  <2>2. sess' = [sess EXCEPT ![s] = r]
    BY <1>1, <1>2 DEF SendChunk, Touched
  <2> HIDE DEF r
  <2>3. \A t \in Sessions : Same(sess[t], sess'[t])
    BY <1>1, <2>1, <2>2 DEF Same, Unmoved, Lasts
  <2>q. QED
    BY <2>3, UnclosedChanges
<1>3. ASSUME NEW n \in 0 .. MaxOutput, SendPart(s, n)
      PROVE  Permitted(sess)
  <2> DEFINE r == [sess[s] EXCEPT !.idle = 0, !.unsent = sess[s].unsent - n]
  <2>1. Same(sess[s], r)
    BY <1>1 DEF Session, Same, Unmoved, Lasts
  <2>2. sess' = [sess EXCEPT ![s] = r]
    BY <1>1, <1>3 DEF SendPart
  <2> HIDE DEF r
  <2>3. \A t \in Sessions : Same(sess[t], sess'[t])
    BY <1>1, <2>1, <2>2 DEF Same, Unmoved, Lasts
  <2>q. QED
    BY <2>3, UnclosedChanges
<1>q. QED
  BY <1>2, <1>3

LEMMA SendLastPermitted ==
    ASSUME IInv, NEW s \in Sessions, NEW rest \in 0 .. MaxInput, SendLast(s, rest)
    PROVE  Permitted(sess)
<1> DEFINE S == LastSent(s)
<1>1. /\ Handling(S, timer, s) /\ S[s].io = "reading" /\ Like(sess, S)
      /\ HandleInput(s, S, timer, rest) \/ HandleIOProgression(s, S, timer)
  <2>1. /\ Handling(S, timer, s) /\ S[s].io = "reading"
        /\ \A t \in Sessions :
              /\ S[t].subs = sess[t].subs /\ S[t].flags = sess[t].flags
              /\ S[t].event \in {sess[t].event, {}} /\ S[t].hap = sess[t].hap
              /\ S[t].age = sess[t].age
              /\ sess[t].io \in OpenIO <=> S[t].io \in OpenIO
        /\ HandleInput(s, S, timer, rest) \/ HandleIOProgression(s, S, timer)
    BY SendingLast
  <2>q. QED
    BY <2>1 DEF Like, Same, Unmoved, Lasts
<1> HIDE DEF S
<1>2. Good(S, grant)
  BY <1>1 DEF Handling
<1>3. Permitted(S)
  BY <1>1, <1>2, HandleInputPermitted, HandleIOProgressionPermitted
<1>q. QED
  BY <1>1, <1>3, LikePermitted

LEMMA ClosingPermitted ==
    ASSUME NEW C, sess' = CloseSession(sess, C)
    PROVE  Permitted(sess)
<1>1. \A t \in Sessions : Same(sess[t], sess[t])
  BY DEF Same, Unmoved, Lasts
<1>q. QED
  BY <1>1, ClosedChanges

\* Steps in which time passes or a session begins.
Renews ==
    \A t \in Sessions : Cleared(sess'[t]) \/ Unmoved(sess[t], sess'[t])

LEMMA AcceptRenews ==
    ASSUME IInv, NEW s \in Sessions, Accept(s)
    PROVE  /\ Renews
           /\ \A t \in Sessions \ {s} : sess'[t] \in {sess[t], ClosedSession}
           /\ sess'[s] \in {NewSession, ClosedSession}
<1> DEFINE S == [sess EXCEPT ![s] = NewSession]
<1>1. \A t \in Sessions : sess'[t] \in {S[t], ClosedSession}
  BY Before DEF Accept, ScheduleMaxIdleTimeTimer, CloseSession
<1>2. /\ \A t \in Sessions \ {s} : sess'[t] \in {sess[t], ClosedSession}
      /\ sess'[s] \in {NewSession, ClosedSession}
  BY <1>1, Before
<1>3. Cleared(ClosedSession) /\ Cleared(NewSession)
  BY NewSessions DEF Cleared
<1>q. QED
  BY <1>2, <1>3 DEF Renews, Unmoved

LEMMA GarbageCollectionTimerPermitted ==
    ASSUME IInv, GarbageCollectionTimer
    PROVE  Permitted(sess)
<1>1. sess' = [s \in Sessions |-> IF sess[s].io = "idle" THEN FreeSession ELSE sess[s]]
  BY DEF GarbageCollectionTimer
<1>2. Ended(FreeSession)
  BY NewSessions DEF Ended, Cleared, FreeSession, OpenIO
<1>q. QED
  BY <1>1, <1>2 DEF Changes, Same, Unmoved, Lasts, Permitted

LEMMA TickRenews ==
    ASSUME IInv, Tick
    PROVE  /\ Renews
           /\ \A s \in Sessions :
                 /\ Unmoved(sess[s], sess'[s]) /\ sess'[s].io = sess[s].io
                 /\ s \in Open(sess) => sess'[s].age =
                        IF sess[s].age < Delay THEN sess[s].age + 1 ELSE sess[s].age
<1>1. ASSUME NEW s \in Sessions
      PROVE  /\ Unmoved(sess[s], sess'[s]) /\ sess'[s].io = sess[s].io
             /\ s \in Open(sess) => sess'[s].age =
                    IF sess[s].age < Delay THEN sess[s].age + 1 ELSE sess[s].age
  <2> DEFINE r == sess[s]
             idle == IF r.idle < MaxIdle THEN r.idle + 1 ELSE r.idle
             age == IF r.age < Delay THEN r.age + 1 ELSE r.age
             left == IF r.left > -1 THEN r.left - 1 ELSE r.left
  <2>1. r \in Session
    BY Before
  <2>2. CASE s \in Open(sess)
    <3>1. sess'[s] = [r EXCEPT !.idle = idle, !.age = age, !.left = left]
      BY <2>2 DEF Tick
    <3> HIDE DEF idle, age, left, r
    <3>2. Unmoved(r, sess'[s]) /\ sess'[s].io = r.io /\ sess'[s].age = age
      BY <2>1, <3>1 DEF Session, Unmoved
    <3>q. QED
      BY <3>2 DEF r, age
  <2>3. CASE s \notin Open(sess)
    BY <2>3 DEF Tick, Unmoved
  <2>q. QED
    BY <2>2, <2>3
<1>q. QED
  BY <1>1 DEF Renews

\* What is raised, by the contract: sessions hear of it that subscribed.
LEMMA RaiseEventPermitted ==
    ASSUME IInv, NEW c \in Chars, NEW T \in SUBSET Sessions, RaiseEvent(c, T)
    PROVE  /\ Contract!Change({c}, T)
           /\ \A s \in Sessions :
                 /\ sess[s].flags \subseteq sess'[s].flags
                 /\ sess'[s].age = sess[s].age /\ sess'[s].io = sess[s].io
<1>1. ASSUME NEW s \in Sessions
      PROVE  /\ sess'[s].subs = sess[s].subs /\ sess'[s].event = sess[s].event
             /\ sess'[s].hap = sess[s].hap
             /\ sess'[s].age = sess[s].age /\ sess'[s].io = sess[s].io
             /\ sess'[s].flags = IF s \in T THEN sess[s].flags \cup ({c} \cap sess[s].subs)
                                 ELSE sess[s].flags
  <2> DEFINE r == sess[s]
             F == r.flags \cup (({c} \ (IF s = NoSession THEN {c} ELSE {})) \cap r.subs)
  <2>1. r \in Session /\ SessionOK(r, grant[s]) /\ s # NoSession
    BY Before, IPServerAssumption DEF Good
  <2>2. CASE s \in T /\ r.hap # "transient"
    <3>1. sess'[s] = [r EXCEPT !.flags = F]
      BY <2>2 DEF RaiseEvent, Flagged
    <3>2. F = r.flags \cup ({c} \cap r.subs)
      BY <2>1
    <3> HIDE DEF F, r
    <3>3. /\ sess'[s].subs = r.subs /\ sess'[s].event = r.event
          /\ sess'[s].hap = r.hap /\ sess'[s].flags = F
          /\ sess'[s].age = r.age /\ sess'[s].io = r.io
      BY <2>1, <3>1 DEF Session
    <3>q. QED
      BY <2>2, <3>2, <3>3 DEF r
  <2>3. CASE ~(s \in T /\ r.hap # "transient")
    <3>1. sess'[s] = r
      BY <2>3 DEF RaiseEvent, Flagged
    <3>2. s \in T => r.subs = {}
      BY <2>1, <2>3 DEF SessionOK
    <3>q. QED
      BY <3>1, <3>2
  <2>q. QED
    BY <2>2, <2>3
<1>q. QED
  BY <1>1 DEF Contract!Change

Raises ==
    \E c \in Chars : \/ RaiseEvent(c, Sessions)
                     \/ \E s \in Sessions : RaiseEvent(c, {s})

\* Every step is one of these.
LEMMA Steps ==
    ASSUME IInv, Next
    PROVE  \/ Permitted(sess) /\ quiet' \in {quiet, Hushed(sess, sess')}
           \/ (\E s \in Sessions : Accept(s)) \/ Tick \/ Raises
<1> DEFINE Ordinary == Permitted(sess) /\ quiet' \in {quiet, Hushed(sess, sess')}
<1>1. ASSUME NEW s \in Sessions, Input(s) PROVE Ordinary
  BY <1>1, ReceivePermitted, ReceiveBusyPermitted DEF Input, Receive, ReceiveBusy
<1>2. ASSUME NEW s \in Sessions, SendToRemoved(s) \/ Disconnect(s) PROVE Ordinary
  BY <1>2, ClosingPermitted DEF SendToRemoved, Disconnect
<1>3. ASSUME NEW s \in Sessions, Output(s) PROVE Ordinary
  <2>1. CASE SendToRemoved(s)
    BY <1>2, <2>1
  <2>2. CASE SendChunk(s) \/ \E n \in 0 .. MaxOutput : SendPart(s, n)
    BY <2>2, SendingPermitted DEF SendChunk, SendPart
  <2>3. CASE \E rest \in 0 .. MaxInput : SendLast(s, rest)
    BY <2>3, SendLastPermitted DEF SendLast
  <2>q. QED
    BY <1>3, <2>1, <2>2, <2>3 DEF Output
<1>4. ASSUME GarbageCollectionTimer PROVE Ordinary
  BY <1>4, GarbageCollectionTimerPermitted DEF GarbageCollectionTimer
<1>5. ASSUME StateTransitionTimer \/ MaxIdleTimeTimer PROVE Ordinary
  BY <1>5, ClosingPermitted DEF StateTransitionTimer, MaxIdleTimeTimer, ReviewSessions,
     ScheduleMaxIdleTimeTimer
<1>6. ASSUME EventNotificationTimer PROVE Ordinary
  BY <1>6, Before, ScheduleEventNotificationsPermitted DEF EventNotificationTimer
<1>7. ASSUME Start \/ Stop PROVE Ordinary
  <2>1. \A s \in Sessions : Same(sess[s], sess'[s])
    BY <1>7 DEF Start, Stop, Same, Unmoved, Lasts
  <2>q. QED
    BY <1>7, <2>1, UnclosedChanges DEF Start, Stop
<1> HIDE DEF Ordinary
<1>8. Ordinary \/ (\E s \in Sessions : Accept(s)) \/ Tick \/ Raises
  BY <1>1, <1>2, <1>3, <1>4, <1>5, <1>6, <1>7 DEF Next, Raises
<1>q. QED
  BY <1>8 DEF Ordinary

LEMMA ContractStep == IInv /\ [Next]_vars => [Contract!Next]_Contract!vars
<1> SUFFICES ASSUME IInv, [Next]_vars PROVE [Contract!Next]_Contract!vars
  OBVIOUS
<1>1. CASE Next
  <2>1. CASE Permitted(sess)
    BY <2>1, PermittedByContract
  <2>2. ASSUME Renews PROVE Contract!Next
    BY <2>2 DEF Renews, Unmoved, Cleared, Contract!Next, Contract!ChangeSessions,
       Contract!Sending
  <2>3. CASE (\E s \in Sessions : Accept(s)) \/ Tick
    BY <2>2, <2>3, AcceptRenews, TickRenews
  <2>4. CASE Raises
    BY <2>4, RaiseEventPermitted DEF Raises, Contract!Next
  <2>q. QED
    BY <1>1, <2>1, <2>3, <2>4, Steps
<1>2. CASE UNCHANGED vars
  BY <1>2 DEF vars, Contract!vars
<1>q. QED
  BY <1>1, <1>2

LEMMA ContractInit == Init => Contract!Init
BY NewSessions DEF Init, Contract!Init, Contract!Nothing

\* The server keeps the contract about event notifications: no change is lost
\* or told twice, nobody hears of own writes, and nobody whose pairing has
\* been removed hears of anything (HAPAccessoryServerRaiseEvent,
\* write_event_notifications, handle_characteristics_request).
THEOREM ContractKept == Spec => KeepsContract
BY ContractInit, ContractStep, Invariance, PTL DEF Spec, KeepsContract, Contract!Spec

-----------------------------------------------------------------------------
(* Notifications are far enough apart. *)

\* No session believes its last notification to be longer ago than it is.
AgeInv == \A s \in Sessions : sess[s].io \in OpenIO => sess[s].age <= quiet[s]

Unhurried == \A s \in Sessions : Begins(s, sess, sess') => quiet[s] >= Delay

\* A notification that is not only about switches is begun by a session whose
\* delay has passed, and then the delay begins anew.
LEMMA Beginning ==
    ASSUME IInv, Permitted(sess), NEW s \in Sessions
    PROVE  /\ sess'[s].io \in OpenIO => /\ sess[s].io \in OpenIO
                                        /\ sess'[s].age \in {sess[s].age, 0}
           /\ Begins(s, sess, sess') => /\ sess[s].io \in OpenIO
                                        /\ sess[s].age >= Delay /\ sess'[s].age = 0
<1>1. sess[s] \in Session /\ SessionOK(sess[s], grant[s])
  BY Before DEF Good
<1>2. sess[s].flags \subseteq sess[s].subs /\ (sess[s].flags # {} => sess[s].io \in OpenIO)
  BY <1>1 DEF SessionOK
<1>3. CASE Same(sess[s], sess'[s]) \/ Ended(sess'[s])
  BY <1>3 DEF Same, Unmoved, Lasts, Ended, Cleared, Begins
<1>4. CASE Told(sess[s], sess'[s])
  <2>1. sess[s].age < Delay \/ sess[s].age >= Delay
    BY <1>1, IPServerAssumption DEF Session
  <2>2. sess[s].age < Delay => ~Begins(s, sess, sess')
    BY <1>4 DEF Told, Begins
  <2>3. sess[s].age >= Delay => sess'[s].age = 0
    BY <1>4 DEF Told
  <2>4. Begins(s, sess, sess') => sess[s].flags # {}
    BY DEF Begins
  <2>q. QED
    BY <1>2, <1>4, <2>1, <2>2, <2>3, <2>4 DEF Told, Lasts
<1>5. ASSUME NEW t \in Sessions, NEW c, NEW R, Asks(sess, t, c, R)
      PROVE  /\ sess'[s].io \in OpenIO => sess[s].io \in OpenIO
             /\ sess'[s].age = sess[s].age
             /\ ~Begins(s, sess, sess')
  <2>1. CASE s = t
    BY <1>5, <2>1 DEF Asks, Begins, Lasts
  <2>2. CASE s # t
    BY <1>2, <1>5, <2>2 DEF Asks, Begins, Lasts
  <2>q. QED
    BY <2>1, <2>2
<1>q. QED
  BY <1>3, <1>4, <1>5 DEF Permitted, Changes, Tells

LEMMA CoalescedStep ==
    ASSUME IInv, AgeInv, Next
    PROVE  AgeInv' /\ Unhurried
<1>1. /\ sess \in [Sessions -> Session] /\ quiet \in [Sessions -> 0 .. Delay]
      /\ Delay \in Nat \ {0}
  BY Before, IPServerAssumption
<1>2. SUFFICES ASSUME NEW s \in Sessions
               PROVE  /\ sess'[s].io \in OpenIO => sess'[s].age <= quiet'[s]
                      /\ Begins(s, sess, sess') => quiet[s] >= Delay
  BY DEF AgeInv, Unhurried
<1>3. /\ sess[s].age \in 0 .. Delay /\ quiet[s] \in 0 .. Delay
      /\ sess[s].io \in OpenIO => sess[s].age <= quiet[s]
  <2>1. sess[s] \in Session
    BY <1>1
  <2>q. QED
    BY <1>1, <2>1 DEF Session, AgeInv
<1>4. CASE Permitted(sess) /\ quiet' \in {quiet, Hushed(sess, sess')}
  <2>1. /\ sess'[s].io \in OpenIO => /\ sess[s].io \in OpenIO
                                     /\ sess'[s].age \in {sess[s].age, 0}
        /\ Begins(s, sess, sess') => /\ sess[s].io \in OpenIO
                                     /\ sess[s].age >= Delay /\ sess'[s].age = 0
    BY <1>4, Beginning
  <2>2. quiet'[s] = quiet[s] \/ (Begins(s, sess, sess') /\ quiet'[s] = 0)
    BY <1>4 DEF Hushed
  <2> DEFINE begins == Begins(s, sess, sess')
  <2> HIDE DEF begins
  <2>3. begins => sess[s].io \in OpenIO /\ sess[s].age >= Delay /\ sess'[s].age = 0
    BY <2>1 DEF begins
  <2>4. quiet'[s] = quiet[s] \/ (begins /\ quiet'[s] = 0)
    BY <2>2 DEF begins
  <2>5. begins => quiet[s] >= Delay
    BY <1>1, <1>3, <2>3
  <2>6. sess'[s].io \in OpenIO => sess'[s].age <= quiet'[s]
    BY <1>1, <1>3, <2>1, <2>3, <2>4
  <2>q. QED
    BY <2>5, <2>6 DEF begins
<1>5. ASSUME NEW a \in Sessions, Accept(a)
      PROVE  /\ sess'[s].io \in OpenIO => sess'[s].age <= quiet'[s]
             /\ ~Begins(s, sess, sess')
  <2>1. quiet' = [quiet EXCEPT ![a] = Delay]
    BY <1>5 DEF Accept
  <2>2. /\ NewSession.age = Delay /\ NewSession.event = {}
        /\ ClosedSession.io = "idle" /\ ClosedSession.event = {}
    BY DEF NewSession, ClosedSession, FreeSession
  <2>3. CASE s = a
    <3>1. sess'[s] \in {NewSession, ClosedSession}
      BY <1>5, <2>3, AcceptRenews
    <3>q. QED
      BY <1>1, <2>1, <2>2, <2>3, <3>1 DEF Begins, OpenIO
  <2>4. CASE s # a
    <3>1. sess'[s] \in {sess[s], ClosedSession}
      BY <1>5, <2>4, AcceptRenews
    <3>q. QED
      BY <1>1, <1>3, <2>1, <2>2, <2>4, <3>1 DEF Begins, OpenIO
  <2>q. QED
    BY <2>3, <2>4
<1>6. CASE Tick
  <2>1. /\ Unmoved(sess[s], sess'[s]) /\ sess'[s].io = sess[s].io
        /\ s \in Open(sess) => sess'[s].age =
               IF sess[s].age < Delay THEN sess[s].age + 1 ELSE sess[s].age
    BY <1>6, TickRenews
  <2>2. quiet'[s] = IF s \in Open(sess) /\ quiet[s] < Delay THEN quiet[s] + 1 ELSE quiet[s]
    BY <1>6 DEF Tick
  <2>3. ~Begins(s, sess, sess')
    BY <2>1 DEF Unmoved, Begins
  <2>4. sess[s].io \in OpenIO => s \in Open(sess)
    BY DEF OpenIO, Open
  <2>5. sess'[s].io \in OpenIO => sess'[s].age <= quiet'[s]
    BY <1>1, <1>3, <2>1, <2>2, <2>4
  <2>q. QED
    BY <2>3, <2>5
<1>7. CASE Raises
  <2>1. /\ sess[s].flags \subseteq sess'[s].flags
        /\ sess'[s].age = sess[s].age /\ sess'[s].io = sess[s].io
    BY <1>7, RaiseEventPermitted DEF Raises
  <2>2. quiet' = quiet
    BY <1>7 DEF Raises, RaiseEvent
  <2>q. QED
    BY <1>3, <2>1, <2>2 DEF Begins
<1>q. QED
  BY <1>4, <1>5, <1>6, <1>7, Steps

\* Between two notifications to a session that are not only about switches at
\* least the maximum delay passes, even if one of them is cut short, another
\* session is notified in between, or the timer is late
\* (write_event_notifications and its eventNotificationStamp).
THEOREM EventsCoalesced == Spec => Coalesced
<1>1. Init => AgeInv
  BY DEF Init, AgeInv, FreeSession, OpenIO
<1>2. IInv /\ AgeInv /\ [Next]_vars => AgeInv' /\ [Unhurried]_vars
  <2> SUFFICES ASSUME IInv, AgeInv, [Next]_vars
               PROVE  AgeInv' /\ [Unhurried]_vars
    OBVIOUS
  <2>1. CASE Next
    BY <2>1, CoalescedStep
  <2>2. CASE UNCHANGED vars
    BY <2>2 DEF vars, AgeInv
  <2>q. QED
    BY <2>1, <2>2
<1>q. QED
  BY <1>1, <1>2, Invariance, PTL DEF Spec, Coalesced, Unhurried
=============================================================================
