-------------------------- MODULE Advertising_proofs --------------------------
(***************************************************************************)
(* Theorems about what a BLE accessory server stores and advertises, for   *)
(* any range of the global state number, any characteristics, and any      *)
(* number of sessions, firmware versions and factory resets.               *)
(***************************************************************************)
EXTENDS Advertising, SequenceTheorems, TLAPS

-----------------------------------------------------------------------------
(***************************************************************************)
(* The inductive invariant: what the store, the process and the outside    *)
(* world know of each other, in every state in which power may be lost.    *)
(***************************************************************************)

\* How far the number m is ahead of n, across the wrap.
Ahead(n, m) == IF n <= m THEN m - n ELSE m - n + MaxGSN

Serving(w) == w.state \in {"Running", "Stopping"}

\* The process: a session ends with its connection, during which there is no
\* broadcast, and what the controller knew is settled when it begins.
ProcessOK(w, g) ==
    /\ w \in Memory /\ g \in History
    /\ w.session # 0 => w.connected /\ w.session = g.sessions
    /\ w.connected => w.event = None /\ g.known = None /\ Serving(w)
    /\ w.state = "Stopping" => w.connected
    /\ g.missed => g.known # None

\* Pairings are those of the identity, and the server runs with one.
IdentityOK(k, w) ==
    /\ k.ltsk # 0 => \A p \in k.pairings : p.ltsk = k.ltsk
    /\ Serving(w) => k.ltsk # 0

\* A broadcast key needs an administrator.
AdminOK(k, w) ==
    /\ Serving(w) /\ (k.exp # 0 \/ k.pairings # {}) => AdminFound(k)
    /\ w.session # 0 => k.pairings # {}

\* The number is ahead of n, by one turn at most before the key expires.
Since(k, n) ==
    /\ ~GSN(k).inc <=> GSN(k).n = n
    /\ k.exp # 0 => Ahead(n, GSN(k).n) + Ahead(GSN(k).n, k.exp) < MaxGSN

\* What the controller knew is behind.
KnownOK(k, g) ==
    g.known # None =>
        /\ g.known.cn <= k.cn
        /\ g.known.cn = k.cn => Since(k, g.known.n) /\ (g.missed => GSN(k).inc)

\* One firmware ran under each configuration number, the recorded one under the
\* present.
RanOK(k, g) ==
    /\ \A x \in g.ran : x.cn <= k.cn /\ (x.cn = k.cn => x.fw = k.fw)
    /\ \A x, y \in g.ran : x.cn = y.cn => x.fw = y.fw

\* An update of the firmware has begun and has to be begun again.
Torn(k, g) == k.fw # 0 /\ k.fw < g.installed

\* The numbers that the present key has been used with are behind.
Behind(k, g) ==
    k.exp # 0 =>
        \A x \in g.sent :
            x.key = k.key => Ahead(GSN(k).n, k.exp) <= Ahead(x.n, k.exp)

\* The broadcasts, and the one that is being repeated.
SentOK(k, w, g) ==
    /\ \A x \in g.sent : x.key <= g.sessions /\ x.key # w.session
    /\ \A x, y \in g.sent : x.key = y.key /\ x.n = y.n => x.event = y.event
    /\ w.event # None /\ k.exp # 0 =>
          \A x \in g.sent : x.key = k.key /\ x.n = GSN(k).n => x.event = w.event

KeyOK(k, w, g) ==
    /\ SentOK(k, w, g)
    /\ Torn(k, g) \/ Behind(k, g)
    /\ w.fastStarted \/ Serving(w) => ~Torn(k, g)

\* A key was made in a session.
MadeOK(k, g) == k.exp # 0 => k.key \in 1 .. g.sessions

StoreOK(k, w, g) ==
    /\ k \in Store
    /\ MadeOK(k, g)
    /\ IdentityOK(k, w)
    /\ AdminOK(k, w)
    /\ KnownOK(k, g)
    /\ PartialPurge \/ RanOK(k, g)
    /\ PartialPurge \/ Rollback \/ KeyOK(k, w, g)

OK(k, w, g) == ProcessOK(w, g) /\ StoreOK(k, w, g)

IInv == OK(kv, v, h)

-----------------------------------------------------------------------------
(***************************************************************************)
(* The process, with the store as it is.                                   *)
(***************************************************************************)

LEMMA Numbers ==
    /\ MaxGSN \in Nat /\ MaxGSN >= 5 /\ MaxGSN % 2 = 1
    /\ MaxSessions \in Nat /\ MaxResets \in Nat
    /\ MaxConfig \in Nat /\ MaxConfig >= 1 /\ MaxFirmware \in Nat /\ MaxFirmware >= 1
    /\ None \notin Event /\ None \notin [n: Gsns, inc: BOOLEAN]
    /\ None \notin [n: Gsns, cn: 0 .. MaxConfig + 1]
<1>1. /\ Event \subseteq [char: Chars, value: Values]
      /\ [n: Gsns, inc: BOOLEAN] \subseteq [n: Nat, inc: BOOLEAN]
      /\ [n: Gsns, cn: 0 .. MaxConfig + 1] \subseteq [n: Nat, cn: Nat]
  BY AdvertisingAssumption DEF Event, Gsns
<1> QED
  BY <1>1, AdvertisingAssumption

LEMMA StoreFields ==
    ASSUME NEW k \in Store
    PROVE  /\ GSN(k) \in [n: Gsns, inc: BOOLEAN] /\ GSN(k).n \in Gsns /\ GSN(k).inc \in BOOLEAN
           /\ k.exp \in 0 .. MaxGSN /\ k.key \in 0 .. MaxSessions
           /\ k.cn \in 0 .. MaxConfig + 1 /\ k.fw \in 0 .. MaxFirmware
           /\ k.ltsk \in Identities /\ k.enabled \in SUBSET Broadcasts
           /\ k.gsn \in [n: Gsns, inc: BOOLEAN] \cup {None}
           /\ k.pairings \in SUBSET [admin: BOOLEAN, ltsk: Identities]
<1>1. /\ k.exp \in 0 .. MaxGSN /\ k.key \in 0 .. MaxSessions
      /\ k.cn \in 0 .. MaxConfig + 1 /\ k.fw \in 0 .. MaxFirmware
      /\ k.ltsk \in Identities /\ k.enabled \in SUBSET Broadcasts
      /\ k.gsn \in [n: Gsns, inc: BOOLEAN] \cup {None}
      /\ k.pairings \in SUBSET [admin: BOOLEAN, ltsk: Identities]
  BY DEF Store
<1>2. [n |-> 1, inc |-> FALSE] \in [n: Gsns, inc: BOOLEAN]
  BY Numbers DEF Gsns
<1>3. GSN(k) \in [n: Gsns, inc: BOOLEAN]
  BY <1>1, <1>2 DEF GSN
<1>4. GSN(k).n \in Gsns /\ GSN(k).inc \in BOOLEAN
  BY <1>3
<1> QED
  BY <1>1, <1>3, <1>4

LEMMA HistoryFields ==
    ASSUME NEW g \in History
    PROVE  /\ g.installed \in 1 .. MaxFirmware /\ g.missed \in BOOLEAN
           /\ g.sent \in SUBSET [key: 1 .. MaxSessions, n: Gsns, event: Event]
           /\ g.ran \in SUBSET [cn: 0 .. MaxConfig + 1, fw: 1 .. MaxFirmware]
           /\ g.known \in [n: Gsns, cn: 0 .. MaxConfig + 1] \cup {None}
           /\ g.sessions \in 0 .. MaxSessions /\ g.resets \in 0 .. MaxResets
BY DEF History

LEMMA AheadRange ==
    ASSUME NEW n \in Gsns, NEW m \in Gsns
    PROVE  Ahead(n, m) \in 0 .. MaxGSN - 1 /\ (Ahead(n, m) = 0 <=> n = m)
BY Numbers DEF Gsns, Ahead

\* The process forgets: its session, its broadcast, or that it runs.
LEMMA Quieter ==
    ASSUME NEW k, NEW w, NEW g, StoreOK(k, w, g), NEW w2, g \in History,
           w2.session \in {0, w.session}, w2.event \in {None, w.event},
           Serving(w2) => Serving(w),
           w2.fastStarted => w.fastStarted \/ Serving(w)
    PROVE  StoreOK(k, w2, g)
<1>1. IdentityOK(k, w2) /\ AdminOK(k, w2)
  BY DEF StoreOK, IdentityOK, AdminOK
<1>2. ASSUME KeyOK(k, w, g) PROVE KeyOK(k, w2, g)
  <2>1. \A x \in g.sent : x.key # 0
    BY HistoryFields
  <2> QED
    BY <1>2, <2>1 DEF KeyOK, SentOK
<1> QED
  BY <1>1, <1>2 DEF StoreOK, MadeOK

\* Whose history is that of another, except for what the controller knew.
SameRecord(a, b) ==
    b.sent = a.sent /\ b.ran = a.ran /\ b.sessions = a.sessions /\ b.installed = a.installed

\* The outside forgets what the controller knew, or that it has missed an event.
LEMMA Forgetful ==
    ASSUME NEW k, NEW w, NEW g, StoreOK(k, w, g), NEW g2, SameRecord(g, g2),
           g2.known = None \/ (g2.known = g.known /\ (g2.missed => g.missed))
    PROVE  StoreOK(k, w, g2)
<1>1. KnownOK(k, g2)
  BY DEF StoreOK, KnownOK
<1>2. RanOK(k, g) => RanOK(k, g2)
  BY DEF RanOK, SameRecord
<1>3. KeyOK(k, w, g) => KeyOK(k, w, g2)
  BY DEF KeyOK, SentOK, Torn, Behind, SameRecord
<1> QED
  BY <1>1, <1>2, <1>3 DEF StoreOK, MadeOK, SameRecord

LEMMA OffOK ==
    /\ Off \in Memory /\ Off.session = 0 /\ Off.event = None /\ ~Off.connected
    /\ ~Off.fastStarted /\ Off.state = "Off" /\ ~Serving(Off)
BY Numbers DEF Off, Memory, Serving

LEMMA LostOK ==
    ASSUME ProcessOK(v, h)
    PROVE  /\ ProcessOK(Off, Lost) /\ SameRecord(h, Lost) /\ Lost \in History
           /\ Lost.known = None \/ (Lost.known = h.known /\ (Lost.missed => h.missed))
<1> DEFINE g == Lost
<1>1. /\ g.known = (IF v.connected THEN None ELSE h.known)
      /\ g.missed = (h.missed /\ ~v.connected)
      /\ SameRecord(h, g) /\ g \in History
  BY DEF Lost, ProcessOK, History, Memory, SameRecord
<1> HIDE DEF g
<1>2. ProcessOK(Off, g)
  BY <1>1, OffOK DEF ProcessOK
<1> QED
  BY <1>1, <1>2 DEF g

\* The stores that power may be lost in.
Survives(trail, g) == \A i \in 1 .. Len(trail) : \E w : StoreOK(trail[i], w, g)

LEMMA LosesPowerOK ==
    ASSUME NEW trail, NEW g, ProcessOK(Off, g), Survives(trail, g), LosesPower(trail, g)
    PROVE  IInv'
<1>1. PICK i \in 1 .. Len(trail) : kv' = trail[i]
  BY DEF LosesPower
<1>2. PICK w : StoreOK(kv', w, g)
  BY <1>1 DEF Survives
<1>3. v' = Off /\ h' = g
  BY DEF LosesPower
<1>4. StoreOK(kv', Off, g)
  BY <1>2, OffOK, Quieter DEF ProcessOK
<1> QED
  BY <1>3, <1>4 DEF IInv, OK

LEMMA SurvivesLost ==
    ASSUME NEW trail, Survives(trail, h), ProcessOK(v, h)
    PROVE  Survives(trail, Lost)
<1> SUFFICES ASSUME NEW i \in 1 .. Len(trail) PROVE \E w : StoreOK(trail[i], w, Lost)
  BY DEF Survives
<1>1. PICK w : StoreOK(trail[i], w, h)
  BY DEF Survives
<1>2. StoreOK(trail[i], w, Lost)
  BY <1>1, LostOK, Forgetful
<1> QED
  BY <1>2


-----------------------------------------------------------------------------
(***************************************************************************)
(* The writes of the store.                                                *)
(***************************************************************************)

\* Two stores that differ in nothing that is said of keys and of what is known.
LEMMA CountedOK ==
    ASSUME NEW k, NEW w, NEW g, StoreOK(k, w, g), g \in History,
           NEW c \in 0 .. MaxConfig + 1, c > k.cn
    PROVE  LET q == [k EXCEPT !.cn = c]
           IN  /\ StoreOK(q, w, g)
               /\ PartialPurge \/ \A x \in g.ran : x.cn < q.cn
               /\ g.known # None => g.known.cn # q.cn
<1> DEFINE q == [k EXCEPT !.cn = c]
<1>1. /\ q \in Store /\ k.cn \in Nat /\ c \in Nat
      /\ q.cn = c /\ q.fw = k.fw /\ q.ltsk = k.ltsk /\ q.exp = k.exp /\ q.key = k.key
      /\ q.pairings = k.pairings /\ GSN(q) = GSN(k)
  BY Numbers DEF StoreOK, Store, GSN
<1> HIDE DEF q
<1>2. IdentityOK(q, w) /\ AdminOK(q, w)
  BY <1>1 DEF StoreOK, IdentityOK, AdminOK, AdminFound
<1>3. KnownOK(q, g) /\ (g.known # None => g.known.cn # q.cn)
  <2> SUFFICES ASSUME g.known # None
               PROVE  g.known.cn <= q.cn /\ g.known.cn # q.cn
    BY DEF KnownOK
  <2>1. g.known.cn <= k.cn /\ g.known.cn \in Nat
    BY Numbers, HistoryFields DEF StoreOK, KnownOK
  <2> QED
    BY <1>1, <2>1
<1>4. ASSUME RanOK(k, g) PROVE \A x \in g.ran : x.cn < q.cn
  <2>1. \A x \in g.ran : x.cn \in Nat
    BY HistoryFields, Numbers
  <2> QED
    BY <1>1, <1>4, <2>1 DEF RanOK
<1>5. RanOK(k, g) => RanOK(q, g)
  <2>1. \A x \in g.ran : x.cn \in Nat
    BY HistoryFields, Numbers
  <2> QED
    BY <1>1, <1>4, <2>1 DEF RanOK
<1>6. KeyOK(k, w, g) => KeyOK(q, w, g)
  BY <1>1 DEF KeyOK, SentOK, Torn, Behind
<1> QED
  BY <1>1, <1>2, <1>3, <1>4, <1>5, <1>6 DEF StoreOK, MadeOK, q

LEMMA ExpiredOK ==
    ASSUME NEW k, NEW w, NEW g, StoreOK(k, w, g)
    PROVE  /\ StoreOK(NoParameters(k), w, g)
           /\ PartialPurge \/ Rollback \/ Behind(NoParameters(k), g)
<1> DEFINE q == NoParameters(k)
<1>1. /\ q \in Store /\ q.exp = 0
      /\ q.cn = k.cn /\ q.fw = k.fw /\ q.ltsk = k.ltsk
      /\ q.pairings = k.pairings /\ GSN(q) = GSN(k)
  <2>1. k \in Store
    BY DEF StoreOK
  <2>2. 0 \in 0 .. MaxGSN /\ 0 \in 0 .. MaxSessions
    BY Numbers
  <2>3. q \in Store
    BY <2>1, <2>2 DEF Store, NoParameters
  <2>4. /\ q.exp = 0 /\ q.cn = k.cn /\ q.fw = k.fw /\ q.ltsk = k.ltsk
        /\ q.pairings = k.pairings /\ q.gsn = k.gsn
    BY <2>1 DEF Store, NoParameters
  <2> QED
    BY <2>3, <2>4 DEF GSN
<1> HIDE DEF q
<1>2. IdentityOK(q, w) /\ AdminOK(q, w)
  BY <1>1 DEF StoreOK, IdentityOK, AdminOK, AdminFound
<1>3. KnownOK(q, g)
  BY <1>1 DEF StoreOK, KnownOK, Since
<1>4. RanOK(k, g) => RanOK(q, g)
  BY <1>1 DEF RanOK
<1>5. KeyOK(k, w, g) => KeyOK(q, w, g)
  BY <1>1 DEF KeyOK, SentOK, Torn, Behind
<1> QED
  BY <1>1, <1>2, <1>3, <1>4, <1>5 DEF StoreOK, MadeOK, Behind, q

\* The next number.
NextNumber(k) == IF GSN(k).n = MaxGSN THEN 1 ELSE GSN(k).n + 1
Incremented(k) == [k EXCEPT !.gsn = [n |-> NextNumber(k), inc |-> TRUE]]

LEMMA NextAhead ==
    ASSUME NEW n \in Gsns, NEW next, next = IF n = MaxGSN THEN 1 ELSE n + 1
    PROVE  /\ next \in Gsns /\ next # n
           /\ \A m \in Gsns : m # n => Ahead(next, m) = Ahead(n, m) - 1
           /\ \A m \in Gsns : m # next => Ahead(m, next) = Ahead(m, n) + 1
BY Numbers DEF Gsns, Ahead

\* The number is incremented, for an event or a notification, while the key has
\* numbers left or has expired.  Nothing has been sent with it.
LEMMA IncrementedOK ==
    ASSUME NEW k, NEW w, NEW g, StoreOK(k, w, g), g \in History,
           k.exp = 0 \/ k.exp # GSN(k).n,
           k.exp = 0 => ~GSN(k).inc,
           w.fastStarted \/ Serving(w),
           NEW w2, w2.session = w.session, Serving(w2) <=> Serving(w),
           w2.fastStarted = w.fastStarted,
           NEW g2, SameRecord(g, g2), g2.known \in {None, g.known}
    PROVE  StoreOK(Incremented(k), w2, g2)
<1> DEFINE q == Incremented(k)
           n == GSN(k).n
           next == NextNumber(k)
<1>1. k \in Store /\ n \in Gsns /\ next = IF n = MaxGSN THEN 1 ELSE n + 1
  BY StoreFields DEF StoreOK, NextNumber
<1>2. /\ next \in Gsns /\ next # n
      /\ \A m \in Gsns : m # n => Ahead(next, m) = Ahead(n, m) - 1
      /\ \A m \in Gsns : m # next => Ahead(m, next) = Ahead(m, n) + 1
  BY <1>1, NextAhead
<1>3. /\ q \in Store /\ q.exp = k.exp /\ q.key = k.key
      /\ q.cn = k.cn /\ q.fw = k.fw /\ q.ltsk = k.ltsk /\ q.pairings = k.pairings
      /\ GSN(q) = [n |-> next, inc |-> TRUE]
  <2>1. [n |-> next, inc |-> TRUE] \in [n: Gsns, inc: BOOLEAN]
    BY <1>2
  <2>2. [n |-> next, inc |-> TRUE] # None
    BY <2>1, Numbers
  <2> QED
    BY <1>1, <2>1, <2>2 DEF Store, GSN, Incremented
<1> HIDE DEF q, next
<1>4. IdentityOK(q, w2) /\ AdminOK(q, w2)
  BY <1>3 DEF StoreOK, IdentityOK, AdminOK, AdminFound
<1>5. KnownOK(q, g2)
  <2> SUFFICES ASSUME g2.known # None, g2.known.cn = q.cn
               PROVE  Since(q, g2.known.n) /\ GSN(q).inc
    BY <1>3 DEF StoreOK, KnownOK
  <2> DEFINE o == g2.known.n
  <2>1. Since(k, o) /\ o \in Gsns
    BY <1>3, HistoryFields DEF StoreOK, KnownOK
  <2> HIDE DEF o
  <2>2. /\ Ahead(o, n) \in 0 .. MaxGSN - 1 /\ (Ahead(o, n) = 0 <=> o = n)
        /\ \A m \in Gsns : Ahead(n, m) \in 0 .. MaxGSN - 1
    BY <1>1, <2>1, AheadRange
  <2>3. CASE k.exp = 0
    <3>1. n = o
      BY <2>1, <2>3 DEF Since
    <3> QED
      BY <1>2, <1>3, <2>3, <3>1 DEF Since, o
  <2>4. CASE k.exp # 0
    <3>1. k.exp \in Gsns /\ k.exp # n
      BY <1>1, <2>4, Numbers, StoreFields DEF Gsns
    <3>2. /\ Ahead(next, k.exp) = Ahead(n, k.exp) - 1
          /\ Ahead(o, n) + Ahead(n, k.exp) < MaxGSN
          /\ Ahead(n, k.exp) \in 1 .. MaxGSN - 1
      <4>1. Ahead(n, k.exp) \in 0 .. MaxGSN - 1 /\ Ahead(n, k.exp) # 0
        BY <1>1, <3>1, AheadRange
      <4>2. Ahead(n, k.exp) \in 1 .. MaxGSN - 1
        BY <4>1, Numbers
      <4> QED
        BY <1>2, <2>1, <2>4, <3>1, <4>2 DEF Since
    <3>3. next # o
      <4>1. ASSUME next = o PROVE FALSE
        <5>1. Ahead(o, n) = MaxGSN - 1
          BY <1>1, <1>2, <4>1, Numbers DEF Ahead, Gsns
        <5> QED
          BY <3>2, <5>1, Numbers
      <4> QED
        BY <4>1
    <3>4. Ahead(o, next) = Ahead(o, n) + 1
      BY <1>2, <2>1, <3>3
    <3>5. Ahead(o, next) + Ahead(next, k.exp) < MaxGSN
      BY <2>2, <3>2, <3>4, Numbers
    <3> QED
      BY <1>3, <3>3, <3>5 DEF Since, o
  <2> QED
    BY <2>3, <2>4
<1>6. RanOK(k, g) => RanOK(q, g2)
  BY <1>3 DEF RanOK, SameRecord
<1>7. ASSUME KeyOK(k, w, g) PROVE KeyOK(q, w2, g2)
  <2>1. ASSUME k.exp # 0, NEW x \in g.sent, x.key = k.key
        PROVE  /\ Ahead(next, k.exp) <= Ahead(x.n, k.exp)
               /\ x.n # next
    <3>1. /\ k.exp \in Gsns /\ k.exp # n /\ x.n \in Gsns
      BY <1>1, <2>1, Numbers, StoreFields, HistoryFields DEF Gsns
    <3>2. Ahead(n, k.exp) <= Ahead(x.n, k.exp)
      BY <1>7, <2>1 DEF KeyOK, Behind
    <3>3. /\ Ahead(next, k.exp) = Ahead(n, k.exp) - 1
          /\ Ahead(n, k.exp) \in Nat /\ Ahead(x.n, k.exp) \in Nat
      <4>1. Ahead(n, k.exp) \in 0 .. MaxGSN - 1 /\ Ahead(x.n, k.exp) \in 0 .. MaxGSN - 1
        BY <1>1, <3>1, AheadRange
      <4> QED
        BY <1>2, <3>1, <4>1, Numbers
    <3> QED
      BY <3>2, <3>3
  <2>2. SentOK(q, w2, g2)
    BY <1>3, <1>7, <2>1 DEF KeyOK, SentOK, SameRecord
  <2>3. Behind(q, g2)
    BY <1>3, <2>1 DEF Behind, SameRecord
  <2> QED
    BY <1>3, <1>7, <2>2, <2>3 DEF KeyOK, Torn, SameRecord
<1> QED
  BY <1>3, <1>4, <1>5, <1>6, <1>7 DEF StoreOK, MadeOK, SameRecord, q


\* A connection begins or ends: what the controller knows is the present number.
LEMMA ClearedOK ==
    ASSUME NEW k, NEW w, NEW g, StoreOK(k, w, g),
           NEW g2, SameRecord(g, g2), ~g2.missed,
           g2.known \in {None, [n |-> GSN(k).n, cn |-> k.cn]}
    PROVE  StoreOK(ClearIncrement(k), w, g2)
<1> DEFINE q == ClearIncrement(k)
           n == GSN(k).n
<1>1. k \in Store /\ n \in Gsns /\ GSN(k) \in [n: Gsns, inc: BOOLEAN]
      /\ k.cn \in Nat /\ k.exp \in 0 .. MaxGSN
  BY Numbers, StoreFields DEF StoreOK
<1>2. /\ q \in Store /\ q.exp = k.exp /\ q.key = k.key
      /\ q.cn = k.cn /\ q.fw = k.fw /\ q.ltsk = k.ltsk /\ q.pairings = k.pairings
      /\ GSN(q).n = n /\ GSN(q).inc = FALSE
  <2> DEFINE c == [GSN(k) EXCEPT !.inc = FALSE]
  <2>1. c \in [n: Gsns, inc: BOOLEAN] /\ c.n = n /\ c.inc = FALSE /\ q = [k EXCEPT !.gsn = c]
    BY <1>1 DEF ClearIncrement
  <2> HIDE DEF c, q
  <2>2. c # None
    BY <2>1, Numbers
  <2>3. q \in Store /\ q.gsn = c
    BY <1>1, <2>1 DEF Store
  <2>4. /\ q.exp = k.exp /\ q.key = k.key
        /\ q.cn = k.cn /\ q.fw = k.fw /\ q.ltsk = k.ltsk /\ q.pairings = k.pairings
    BY <1>1, <2>1 DEF Store
  <2> QED
    BY <2>1, <2>2, <2>3, <2>4 DEF GSN
<1> HIDE DEF q
<1>3. IdentityOK(q, w) /\ AdminOK(q, w)
  BY <1>2 DEF StoreOK, IdentityOK, AdminOK, AdminFound
<1>4. KnownOK(q, g2)
  <2> SUFFICES ASSUME g2.known # None
               PROVE  g2.known.cn <= q.cn /\ Since(q, g2.known.n)
    BY DEF KnownOK
  <2>1. g2.known.n = n /\ g2.known.cn = k.cn
    OBVIOUS
  <2>2. Ahead(n, n) = 0 /\ (k.exp # 0 => Ahead(n, k.exp) \in 0 .. MaxGSN - 1)
    <3>1. k.exp # 0 => k.exp \in Gsns
      BY <1>1, Numbers DEF Gsns
    <3> QED
      BY <1>1, <3>1, AheadRange
  <2>3. Since(q, n)
    BY <1>2, <2>2, Numbers DEF Since
  <2> QED
    BY <1>1, <1>2, <2>1, <2>3
<1>5. RanOK(k, g) => RanOK(q, g2)
  BY <1>2 DEF RanOK, SameRecord
<1>6. KeyOK(k, w, g) => KeyOK(q, w, g2)
  BY <1>2 DEF KeyOK, SentOK, Torn, Behind, SameRecord
<1> QED
  BY <1>2, <1>3, <1>4, <1>5, <1>6 DEF StoreOK, MadeOK, SameRecord, q

\* The key of the present session, with which nothing has been sent.
LEMMA GeneratedOK ==
    ASSUME NEW k, NEW w, NEW g, OK(k, w, g), w.session # 0
    PROVE  StoreOK(GenerateKey(k, w.session), w, g)
<1> DEFINE q == GenerateKey(k, w.session)
           half == (MaxGSN - 1) \div 2
           last == GSN(k).n + half - 1
           exp == IF last > MaxGSN THEN last - MaxGSN ELSE last
<1>1. k \in Store /\ GSN(k).n \in Gsns /\ w.session \in 1 .. MaxSessions
      /\ w.session = g.sessions /\ g.sessions \in 0 .. MaxSessions
      /\ g.known = None /\ w.event = None /\ Serving(w)
  BY StoreFields, HistoryFields, Numbers DEF OK, StoreOK, ProcessOK, Memory
<1>2. exp \in 1 .. MaxGSN
  <2>1. half \in Nat /\ half >= 2 /\ half < MaxGSN
    BY Numbers
  <2> HIDE DEF half
  <2> QED
    BY <1>1, <2>1, Numbers DEF Gsns
<1>3. q = [k EXCEPT !.key = w.session, !.exp = exp]
  BY DEF GenerateKey
<1> HIDE DEF exp, q
<1>4. /\ q \in Store /\ q.exp = exp /\ q.key = w.session
      /\ q.cn = k.cn /\ q.fw = k.fw /\ q.ltsk = k.ltsk /\ q.pairings = k.pairings
      /\ GSN(q) = GSN(k)
  <2>1. exp \in 0 .. MaxGSN /\ w.session \in 0 .. MaxSessions
    BY <1>1, <1>2, Numbers
  <2>2. q \in Store
    BY <1>1, <1>3, <2>1 DEF Store
  <2>3. /\ q.exp = exp /\ q.key = w.session /\ q.gsn = k.gsn
        /\ q.cn = k.cn /\ q.fw = k.fw /\ q.ltsk = k.ltsk /\ q.pairings = k.pairings
    BY <1>1, <1>3 DEF Store
  <2> QED
    BY <2>2, <2>3 DEF GSN
<1>5. IdentityOK(q, w) /\ AdminOK(q, w)
  BY <1>1, <1>4 DEF OK, StoreOK, IdentityOK, AdminOK, AdminFound
<1>6. KnownOK(q, g)
  BY <1>1 DEF KnownOK
<1>7. RanOK(k, g) => RanOK(q, g)
  BY <1>4 DEF RanOK
<1>8. KeyOK(k, w, g) => KeyOK(q, w, g)
  <2>1. g.sessions \in 1 .. g.sessions
    BY <1>1
  <2> QED
    BY <1>1, <1>4, <2>1 DEF KeyOK, SentOK, Torn, Behind
<1>9. MadeOK(q, g)
  BY <1>1, <1>4 DEF MadeOK
<1> QED
  BY <1>4, <1>5, <1>6, <1>7, <1>8, <1>9 DEF OK, StoreOK, q

\* Broadcasts of a characteristic are switched on or off.
LEMMA ConfiguredOK ==
    ASSUME NEW k, NEW w, NEW g, StoreOK(k, w, g), NEW e \in SUBSET Broadcasts
    PROVE  StoreOK([k EXCEPT !.enabled = e], w, g)
<1> DEFINE q == [k EXCEPT !.enabled = e]
<1>1. /\ q \in Store /\ q.exp = k.exp /\ q.key = k.key
      /\ q.cn = k.cn /\ q.fw = k.fw /\ q.ltsk = k.ltsk /\ q.pairings = k.pairings
      /\ GSN(q) = GSN(k)
  BY DEF StoreOK, Store, GSN
<1> HIDE DEF q
<1>2. IdentityOK(q, w) /\ AdminOK(q, w)
  BY <1>1 DEF StoreOK, IdentityOK, AdminOK, AdminFound
<1>3. KnownOK(q, g) /\ (RanOK(k, g) => RanOK(q, g))
  BY <1>1 DEF StoreOK, KnownOK, RanOK, Since
<1>4. KeyOK(k, w, g) => KeyOK(q, w, g)
  BY <1>1 DEF KeyOK, SentOK, Torn, Behind
<1> QED
  BY <1>1, <1>2, <1>3, <1>4 DEF StoreOK, MadeOK, q


-----------------------------------------------------------------------------
(***************************************************************************)
(* Start and reset.  Nothing runs meanwhile.                               *)
(***************************************************************************)

\* The number is removed by an update, whose configuration number is new, and the
\* key still stands.
LEMMA RemovedOK ==
    ASSUME NEW k, NEW g, StoreOK(k, Off, g), Torn(k, g),
           g.known # None => g.known.cn # k.cn
    PROVE  StoreOK([k EXCEPT !.gsn = None], Off, g)
<1> DEFINE q == [k EXCEPT !.gsn = None]
<1>1. /\ q \in Store /\ q.exp = k.exp /\ q.key = k.key
      /\ q.cn = k.cn /\ q.fw = k.fw /\ q.ltsk = k.ltsk /\ q.pairings = k.pairings
  BY DEF StoreOK, Store
<1> HIDE DEF q
<1>2. IdentityOK(q, Off) /\ AdminOK(q, Off)
  BY <1>1, OffOK DEF StoreOK, IdentityOK, AdminOK, AdminFound
<1>3. KnownOK(q, g) /\ (RanOK(k, g) => RanOK(q, g))
  BY <1>1 DEF StoreOK, KnownOK, RanOK
<1>4. KeyOK(k, Off, g) => KeyOK(q, Off, g)
  BY <1>1, OffOK DEF KeyOK, SentOK, Torn
<1> QED
  BY <1>1, <1>2, <1>3, <1>4 DEF StoreOK, MadeOK, q

\* The version is recorded, when there was none, when it is the same, or when the
\* tasks of its update are done.
LEMMA RecordedOK ==
    ASSUME NEW k, NEW g, StoreOK(k, Off, g), g \in History,
           \/ k.fw \in {0, g.installed}
           \/ /\ PartialPurge \/ \A x \in g.ran : x.cn < k.cn
              /\ PartialPurge \/ Rollback \/ Behind(k, g)
    PROVE  LET q == [k EXCEPT !.fw = g.installed] IN StoreOK(q, Off, g) /\ ~Torn(q, g)
<1> DEFINE q == [k EXCEPT !.fw = g.installed]
<1>1. /\ q \in Store /\ q.exp = k.exp /\ q.key = k.key
      /\ q.cn = k.cn /\ q.fw = g.installed /\ q.ltsk = k.ltsk /\ q.pairings = k.pairings
      /\ GSN(q) = GSN(k) /\ g.installed \in 1 .. MaxFirmware
  BY HistoryFields, Numbers DEF StoreOK, Store, GSN
<1> HIDE DEF q
<1>2. IdentityOK(q, Off) /\ AdminOK(q, Off)
  BY <1>1, OffOK DEF StoreOK, IdentityOK, AdminOK, AdminFound
<1>3. KnownOK(q, g)
  BY <1>1 DEF StoreOK, KnownOK, Since
<1>4. ASSUME RanOK(k, g), ~PartialPurge PROVE RanOK(q, g)
  <2>1. \A x \in g.ran : x.cn \in Nat /\ x.fw # 0
    BY HistoryFields, Numbers
  <2>2. k.cn \in Nat
    BY Numbers, StoreFields DEF StoreOK
  <2> QED
    BY <1>1, <1>4, <2>1, <2>2 DEF RanOK
<1>5. ~Torn(q, g)
  BY <1>1 DEF Torn
<1>6. ASSUME KeyOK(k, Off, g), ~PartialPurge, ~Rollback PROVE KeyOK(q, Off, g)
  <2>1. Behind(k, g)
    BY <1>1, <1>6 DEF KeyOK, Torn
  <2> QED
    BY <1>1, <1>5, <1>6, <2>1 DEF KeyOK, SentOK, Behind
<1> QED
  BY <1>1, <1>2, <1>3, <1>4, <1>5, <1>6 DEF StoreOK, MadeOK, q

\* The pairings are purged, and the identity may be another afterwards.
LEMMA PurgedOK ==
    ASSUME NEW k, NEW g, StoreOK(k, Off, g), NEW id \in Identities
    PROVE  StoreOK([k EXCEPT !.pairings = {}], Off, g)
           /\ StoreOK([[k EXCEPT !.pairings = {}] EXCEPT !.ltsk = id], Off, g)
<1>1. ASSUME NEW q \in Store, q.exp = k.exp, q.key = k.key, q.cn = k.cn, q.fw = k.fw,
             q.gsn = k.gsn, q.pairings = {}
      PROVE  StoreOK(q, Off, g)
  <2>1. GSN(q) = GSN(k)
    BY <1>1 DEF GSN
  <2>2. IdentityOK(q, Off) /\ AdminOK(q, Off)
    BY <1>1, OffOK DEF IdentityOK, AdminOK
  <2>3. KnownOK(q, g) /\ (RanOK(k, g) => RanOK(q, g))
    BY <1>1, <2>1 DEF StoreOK, KnownOK, RanOK, Since
  <2>4. KeyOK(k, Off, g) => KeyOK(q, Off, g)
    BY <1>1, <2>1, OffOK DEF KeyOK, SentOK, Torn, Behind
  <2>5. MadeOK(q, g)
    BY <1>1 DEF StoreOK, MadeOK
  <2> QED
    BY <2>2, <2>3, <2>4, <2>5 DEF StoreOK
<1> DEFINE q == [k EXCEPT !.pairings = {}]
           r == [q EXCEPT !.ltsk = id]
<1>2. k \in Store
  BY DEF StoreOK
<1>3. /\ q \in Store /\ q.exp = k.exp /\ q.key = k.key /\ q.cn = k.cn /\ q.fw = k.fw
      /\ q.gsn = k.gsn /\ q.pairings = {}
  BY <1>2 DEF Store
<1>4. /\ r \in Store /\ r.exp = q.exp /\ r.key = q.key /\ r.cn = q.cn /\ r.fw = q.fw
      /\ r.gsn = q.gsn /\ r.pairings = q.pairings
  BY <1>3 DEF Store
<1> HIDE DEF q, r
<1>5. StoreOK(q, Off, g)
  BY <1>1, <1>3
<1>6. StoreOK(r, Off, g)
  BY <1>1, <1>3, <1>4
<1> QED
  BY <1>5, <1>6 DEF q, r

\* A server starts: what is stored is in order, and the process still broadcasts
\* what it did, if anything.
LEMMA ServesOK ==
    ASSUME NEW k, NEW w, NEW g, StoreOK(k, Off, g), w.session = 0,
           k.ltsk # 0, k.exp # 0 \/ k.pairings # {} => AdminFound(k),
           PartialPurge \/ Rollback \/ ~Torn(k, g),
           PartialPurge \/ Rollback \/
              (w.event # None /\ k.exp # 0 =>
                  \A x \in g.sent : x.key = k.key /\ x.n = GSN(k).n => x.event = w.event)
    PROVE  StoreOK(k, w, g)
BY OffOK DEF StoreOK, IdentityOK, AdminOK, KeyOK, SentOK


\* What the key and the present number say of a broadcast that is repeated.
SameNonce(k, q) == q.exp = 0 \/ (k.exp # 0 /\ q.key = k.key /\ GSN(q).n = GSN(k).n)

LEMMA TasksOK ==
    ASSUME NEW k, NEW g, StoreOK(k, Off, g), g \in History, Torn(k, g), k.cn <= MaxConfig
    PROVE  LET t == HandleFirmwareUpdate(k)
           IN  /\ Len(t) = 3 /\ t \in Seq(Store)
               /\ StoreOK(t[1], Off, g) /\ StoreOK(t[2], Off, g) /\ StoreOK(t[3], Off, g)
               /\ PartialPurge \/ \A x \in g.ran : x.cn < t[3].cn
               /\ PartialPurge \/ Rollback \/ Behind(t[3], g)
               /\ t[3].exp = 0
<1> DEFINE a == IncrementCN(k)
           b == [a EXCEPT !.gsn = None]
           c == NoParameters(b)
<1>1. /\ StoreOK(a, Off, g) /\ a.fw = k.fw
      /\ PartialPurge \/ \A x \in g.ran : x.cn < a.cn
      /\ g.known # None => g.known.cn # a.cn
  <2> DEFINE d == IF k.cn = 0 THEN 2 ELSE k.cn + 1
  <2>1. a = [k EXCEPT !.cn = d]
    BY DEF IncrementCN
  <2>2. d \in 0 .. MaxConfig + 1 /\ d > k.cn
    BY StoreFields, Numbers DEF StoreOK
  <2>3. a.fw = k.fw
    BY <2>1 DEF StoreOK, Store
  <2> HIDE DEF a, d
  <2> QED
    BY <2>1, <2>2, <2>3, CountedOK
<1>2. Torn(a, g)
  BY <1>1 DEF Torn
<1>3. StoreOK(b, Off, g) /\ b.cn = a.cn
  <2>1. a \in Store
    BY <1>1 DEF StoreOK
  <2> HIDE DEF a
  <2> QED
    BY <1>1, <1>2, <2>1, RemovedOK DEF Store
<1>4. /\ StoreOK(c, Off, g)
      /\ PartialPurge \/ Rollback \/ Behind(c, g)
      /\ c.cn = b.cn /\ c.exp = 0
  <2>1. b \in Store
    BY <1>3 DEF StoreOK
  <2> HIDE DEF b
  <2>2. NoParameters(b).cn = b.cn /\ NoParameters(b).exp = 0
    BY <2>1 DEF Store, NoParameters
  <2> QED
    BY <1>3, <2>2, ExpiredOK
<1>5. HandleFirmwareUpdate(k) = <<a, b, c>>
  BY DEF HandleFirmwareUpdate, ExpireKey
<1> HIDE DEF a, b, c
<1>6. a \in Store /\ b \in Store /\ c \in Store
  BY <1>1, <1>3, <1>4 DEF StoreOK
<1> QED
  BY <1>1, <1>3, <1>4, <1>5, <1>6

\* A trail whose stores may all be left, and the store at its end.
Trail(t, g) == t \in Seq(Store) /\ Len(t) >= 1 /\ \A i \in 1 .. Len(t) : StoreOK(t[i], Off, g)

LEMMA Joined ==
    ASSUME NEW t, NEW u, NEW g, Trail(t, g), Trail(u, g)
    PROVE  Trail(t \o u, g) /\ Last(t \o u) = Last(u)
<1> DEFINE j == t \o u
<1>1. /\ j \in Seq(Store) /\ Len(j) = Len(t) + Len(u) /\ Len(t) \in Nat /\ Len(u) \in Nat
      /\ Len(t) >= 1 /\ Len(u) >= 1
      /\ \A i \in 1 .. Len(j) : j[i] = IF i <= Len(t) THEN t[i] ELSE u[i - Len(t)]
  BY DEF Trail
<1> HIDE DEF j
<1>2. ASSUME NEW i \in 1 .. Len(j) PROVE StoreOK(j[i], Off, g)
  <2>1. CASE i <= Len(t)
    BY <1>1, <1>2, <2>1 DEF Trail
  <2>2. CASE i > Len(t)
    <3>1. i - Len(t) \in 1 .. Len(u) /\ j[i] = u[i - Len(t)]
      BY <1>1, <1>2, <2>2
    <3> QED
      BY <3>1 DEF Trail
  <2> QED
    BY <1>1, <2>1, <2>2
<1>3. Last(j) = Last(u)
  BY <1>1 DEF Last
<1> QED
  BY <1>1, <1>2, <1>3 DEF Trail, j

LEMMA LastOK ==
    ASSUME NEW t, NEW g, Trail(t, g)
    PROVE  StoreOK(Last(t), Off, g)
BY DEF Trail, Last

LEMMA SingleTrail ==
    ASSUME NEW k, NEW g, StoreOK(k, Off, g)
    PROVE  Trail(<<k>>, g) /\ Last(<<k>>) = k
BY DEF Trail, Last, StoreOK

LEMMA PairTrail ==
    ASSUME NEW k, NEW q, NEW g, StoreOK(k, Off, g), StoreOK(q, Off, g)
    PROVE  Trail(<<k, q>>, g) /\ Last(<<k, q>>) = q
BY DEF Trail, Last, StoreOK

LEMMA TrailSurvives ==
    ASSUME NEW t, NEW g, Trail(t, g)
    PROVE  Survives(t, g)
BY DEF Trail, Survives

LEMMA Appended ==
    ASSUME NEW t, NEW q, NEW g, Trail(t, g), StoreOK(q, Off, g)
    PROVE  Trail(Append(t, q), g) /\ Last(Append(t, q)) = q
<1>1. t \in Seq(Store) /\ Len(t) \in Nat /\ Len(t) >= 1 /\ q \in Store
  BY DEF Trail, StoreOK
<1> DEFINE a == Append(t, q)
<1>2. /\ a \in Seq(Store) /\ Len(a) = Len(t) + 1
      /\ \A i \in 1 .. Len(t) : a[i] = t[i]
      /\ a[Len(t) + 1] = q
  BY <1>1, AppendProperties
<1> HIDE DEF a
<1>3. ASSUME NEW i \in 1 .. Len(a) PROVE StoreOK(a[i], Off, g)
  <2>1. i \in 1 .. Len(t) \/ i = Len(t) + 1
    BY <1>1, <1>2
  <2> QED
    BY <1>2, <2>1 DEF Trail
<1> QED
  BY <1>1, <1>2, <1>3 DEF Trail, Last, a

LEMMA VersionedOK ==
    ASSUME NEW k, StoreOK(k, Off, h), h \in History, k.fw <= h.installed, k.cn <= MaxConfig
    PROVE  LET t == Versioned(k)
           IN  /\ Trail(t, h) /\ ~Torn(Last(t), h) /\ SameNonce(k, Last(t))
               /\ Last(t).fw = h.installed
               /\ k.fw = h.installed => Last(t) = k
<1>1. k \in Store /\ h.installed \in 1 .. MaxFirmware
  BY HistoryFields DEF StoreOK
<1>2. CASE k.fw \in {0, h.installed}
  <2> DEFINE q == [k EXCEPT !.fw = h.installed]
  <2>1. StoreOK(q, Off, h) /\ ~Torn(q, h)
    BY <1>2, RecordedOK
  <2>2. SameNonce(k, q) /\ q.fw = h.installed /\ (k.fw = h.installed => q = k)
    BY <1>1 DEF SameNonce, GSN, Store
  <2>3. Trail(<<k>>, h) /\ Last(<<k>>) = k
    BY SingleTrail
  <2>4. Versioned(k) = Append(<<k>>, q)
    BY <1>2, <2>3 DEF Versioned
  <2> HIDE DEF q
  <2> QED
    BY <2>1, <2>2, <2>3, <2>4, Appended
<1>3. CASE k.fw \notin {0, h.installed}
  <2>1. Torn(k, h)
    BY <1>1, <1>3, StoreFields, Numbers DEF Torn
  <2> DEFINE t == HandleFirmwareUpdate(k)
  <2>2. /\ Trail(t, h) /\ Last(t) = t[3]
        /\ StoreOK(t[3], Off, h)
        /\ PartialPurge \/ \A x \in h.ran : x.cn < t[3].cn
        /\ PartialPurge \/ Rollback \/ Behind(t[3], h)
        /\ t[3].exp = 0
    <3>1. /\ Len(t) = 3 /\ t \in Seq(Store)
          /\ StoreOK(t[1], Off, h) /\ StoreOK(t[2], Off, h) /\ StoreOK(t[3], Off, h)
          /\ PartialPurge \/ \A x \in h.ran : x.cn < t[3].cn
          /\ PartialPurge \/ Rollback \/ Behind(t[3], h)
          /\ t[3].exp = 0
      BY <2>1, TasksOK
    <3> HIDE DEF t
    <3>2. \A i \in 1 .. Len(t) : i \in {1, 2, 3}
      BY <3>1
    <3> QED
      BY <3>1, <3>2 DEF Trail, Last
  <2> DEFINE q == [t[3] EXCEPT !.fw = h.installed]
  <2>3. Versioned(k) = Append(t, q)
    BY <1>3, <2>2 DEF Versioned
  <2> HIDE DEF t
  <2>4. StoreOK(q, Off, h) /\ ~Torn(q, h)
    BY <2>2, RecordedOK
  <2>5. q.exp = 0 /\ q.fw = h.installed
    BY <2>2 DEF StoreOK, Store
  <2> HIDE DEF q
  <2>6. Trail(Append(t, q), h) /\ Last(Append(t, q)) = q
    BY <2>2, <2>4, Appended
  <2> QED
    BY <1>3, <2>3, <2>4, <2>5, <2>6 DEF SameNonce
<1> QED
  BY <1>2, <1>3


-----------------------------------------------------------------------------
(***************************************************************************)
(* The advertisements.                                                     *)
(***************************************************************************)

\* The first configuration number is stored when it is read.
LEMMA ReadOK ==
    ASSUME NEW k, NEW w, NEW g, StoreOK(k, w, g), g \in History
    PROVE  LET q == ReadCN(w, k)
           IN  /\ StoreOK(q, w, g)
               /\ q.exp = k.exp /\ q.key = k.key /\ GSN(q) = GSN(k)
<1>1. CASE k.cn = 0
  <2>1. 1 \in 0 .. MaxConfig + 1 /\ 1 > k.cn
    BY <1>1, Numbers
  <2> DEFINE q == [k EXCEPT !.cn = 1]
  <2>2. StoreOK(q, w, g)
    BY <2>1, CountedOK
  <2>3. q.exp = k.exp /\ q.key = k.key /\ GSN(q) = GSN(k)
    BY DEF StoreOK, Store, GSN
  <2>4. ReadCN(w, k) \in {k, q}
    BY DEF ReadCN
  <2> HIDE DEF q
  <2> QED
    BY <2>2, <2>3, <2>4
<1>2. CASE k.cn # 0
  BY <1>2 DEF ReadCN
<1> QED
  BY <1>1, <1>2

\* What the advertising state of the process becomes.
LEMMA UpdatedFields ==
    ASSUME NEW w \in Memory, NEW k
    PROVE  LET u == UpdateAdvertisingData(w, k)
           IN  /\ u \in Memory
               /\ u.state = w.state /\ u.connected = w.connected
               /\ u.session = w.session /\ u.event = w.event
               /\ u.timer = w.timer
               /\ w.aborted => u.aborted
               /\ u.fastStarted => w.fastStarted \/ Active(w)
BY DEF UpdateAdvertisingData, DidStartAdvertising, Abort, Memory, Active

\* A broadcast is sent with the present key and number.
LEMMA AdvertisedOK ==
    ASSUME NEW k, NEW w, NEW g, OK(k, w, g), NEW q, StoreOK(q, w, g),
           q.exp = k.exp, q.key = k.key, GSN(q) = GSN(k)
    PROVE  OK(q, w, [g EXCEPT !.sent = @ \cup Advertised(w, k)])
<1> DEFINE g2 == [g EXCEPT !.sent = @ \cup Advertised(w, k)]
           x0 == [key |-> k.key, n |-> GSN(k).n, event |-> w.event]
<1>1. /\ g \in History /\ w \in Memory /\ k \in Store /\ q \in Store
      /\ GSN(k).n \in Gsns /\ GSN(q) = GSN(k) /\ w.event \in Event \cup {None}
      /\ k.exp # 0 => k.key \in 1 .. g.sessions
      /\ g.sessions \in 0 .. MaxSessions
  BY StoreFields, HistoryFields DEF OK, StoreOK, ProcessOK, MadeOK, Memory
<1>2. ASSUME Advertised(w, k) # {}
      PROVE  /\ Advertised(w, k) = {x0} /\ k.exp # 0 /\ w.event # None
             /\ x0 \in [key: 1 .. MaxSessions, n: Gsns, event: Event]
             /\ k.key # w.session /\ k.key \in 1 .. g.sessions
  <2>1. Advertised(w, k) = {x0} /\ k.exp # 0 /\ w.event # None /\ Active(w)
    BY <1>2 DEF Advertised
  <2>2. k.key \in 1 .. MaxSessions /\ k.key # 0
    BY <1>1, <2>1, Numbers
  <2>3. w.session = 0
    BY <2>1 DEF OK, ProcessOK, Active
  <2> QED
    BY <1>1, <2>1, <2>2, <2>3
<1>3. /\ g2 \in History /\ g2.sent = g.sent \cup Advertised(w, k)
      /\ g2.installed = g.installed /\ g2.missed = g.missed /\ g2.ran = g.ran
      /\ g2.known = g.known /\ g2.sessions = g.sessions /\ g2.resets = g.resets
  <2>1. g.sent \cup Advertised(w, k) \in SUBSET [key: 1 .. MaxSessions, n: Gsns, event: Event]
    BY <1>1, <1>2, HistoryFields
  <2> QED
    BY <1>1, <2>1 DEF History
<1> HIDE DEF g2
<1>4. ProcessOK(w, g2)
  BY <1>3 DEF OK, ProcessOK
<1>5. KnownOK(q, g2) /\ MadeOK(q, g2) /\ (RanOK(q, g) => RanOK(q, g2))
  BY <1>3 DEF StoreOK, KnownOK, MadeOK, RanOK
<1>6. ASSUME ~(PartialPurge \/ Rollback) PROVE KeyOK(q, w, g2)
  <2>1. KeyOK(q, w, g)
    BY <1>6 DEF StoreOK
  <2>2. CASE Advertised(w, k) = {}
    BY <1>3, <2>1, <2>2 DEF KeyOK, SentOK, Torn, Behind
  <2>3. CASE Advertised(w, k) # {}
    <3> HIDE DEF x0
    <3>1. g2.sent = g.sent \cup {x0}
      BY <1>2, <1>3, <2>3
    <3>2. /\ x0.key = k.key /\ x0.n = GSN(k).n /\ x0.event = w.event
          /\ k.exp # 0 /\ w.event # None /\ k.key # w.session /\ k.key <= g.sessions
      BY <1>1, <1>2, <2>3 DEF x0
    <3>3. \A x \in g.sent : x.key = k.key /\ x.n = GSN(k).n => x.event = w.event
      BY <2>1, <3>2 DEF KeyOK, SentOK
    <3>4. SentOK(q, w, g2)
      BY <1>3, <2>1, <3>1, <3>2, <3>3 DEF KeyOK, SentOK
    <3>5. ASSUME Behind(q, g) PROVE Behind(q, g2)
      <4> SUFFICES ASSUME q.exp # 0, NEW x \in g2.sent, x.key = q.key
                   PROVE  Ahead(GSN(q).n, q.exp) <= Ahead(x.n, q.exp)
        BY DEF Behind
      <4>1. CASE x \in g.sent
        BY <3>5, <4>1 DEF Behind
      <4>2. CASE x = x0
        <5>1. k.exp \in Gsns
          BY <1>1, <3>2, StoreFields, Numbers DEF Gsns
        <5>2. Ahead(GSN(k).n, k.exp) \in 0 .. MaxGSN - 1
          BY <1>1, <5>1, AheadRange
        <5> QED
          BY <3>2, <4>2, <5>2, Numbers
      <4> QED
        BY <3>1, <4>1, <4>2
    <3> QED
      BY <1>3, <2>1, <3>4, <3>5 DEF KeyOK, Torn
  <2> QED
    BY <2>2, <2>3
<1>7. StoreOK(q, w, g2)
  BY <1>5, <1>6 DEF StoreOK
<1> QED
  BY <1>4, <1>7 DEF OK, g2

\* The advertising state is brought up to date.
LEMMA UpdatedOK ==
    ASSUME NEW k, NEW w, NEW g, OK(k, w, g), NEW q
    PROVE  OK(k, UpdateAdvertisingData(w, q), g)
<1> DEFINE u == UpdateAdvertisingData(w, q)
<1>1. w \in Memory /\ g \in History /\ StoreOK(k, w, g)
  BY DEF OK, ProcessOK
<1>2. /\ u \in Memory
      /\ u.state = w.state /\ u.connected = w.connected
      /\ u.session = w.session /\ u.event = w.event
      /\ u.fastStarted => w.fastStarted \/ Active(w)
  BY <1>1, UpdatedFields
<1> HIDE DEF u
<1>3. ProcessOK(u, g)
  BY <1>2 DEF OK, ProcessOK, Serving
<1>4. Serving(u) => Serving(w)
  BY <1>2 DEF Serving
<1>5. u.fastStarted => w.fastStarted \/ Serving(w)
  BY <1>2 DEF Active, Serving
<1>6. StoreOK(k, u, g)
  BY <1>1, <1>2, <1>4, <1>5, Quieter
<1> QED
  BY <1>3, <1>6 DEF OK, u

\* A handler completes, or loses power on the way.
LEMMA CompletesOK ==
    ASSUME NEW trail, NEW w, NEW g, OK(Last(trail), w, g), Completes(trail, w, g)
    PROVE  IInv'
<1> DEFINE k == Last(trail)
           q == ReadCN(w, k)
           g2 == [g EXCEPT !.sent = @ \cup Advertised(w, k)]
<1>1. kv' = q /\ v' = UpdateAdvertisingData(w, k) /\ h' = g2
  BY DEF Completes
<1> HIDE DEF k
<1>2. OK(k, w, g) /\ g \in History /\ StoreOK(k, w, g)
  BY DEF k, OK, ProcessOK
<1>3. StoreOK(q, w, g) /\ q.exp = k.exp /\ q.key = k.key /\ GSN(q) = GSN(k)
  BY <1>2, ReadOK
<1> HIDE DEF q
<1>4. OK(q, w, g2)
  BY <1>2, <1>3, AdvertisedOK
<1> HIDE DEF g2
<1>5. OK(q, UpdateAdvertisingData(w, k), g2)
  BY <1>4, UpdatedOK
<1> QED
  BY <1>1, <1>5 DEF IInv

LEMMA HandlerOK ==
    ASSUME NEW trail, NEW w, NEW g, ProcessOK(v, h), Survives(trail, h),
           OK(Last(trail), w, g), Handler(trail, w, g)
    PROVE  IInv'
<1>1. CASE Completes(trail, w, g)
  BY <1>1, CompletesOK
<1>2. CASE LosesPower(trail, Lost)
  <2>1. ProcessOK(Off, Lost) /\ Survives(trail, Lost)
    BY LostOK, SurvivesLost
  <2> HIDE DEF Lost
  <2> QED
    BY <1>2, <2>1, LosesPowerOK
<1> QED
  BY <1>1, <1>2 DEF Handler



-----------------------------------------------------------------------------
(***************************************************************************)
(* The life cycle.                                                         *)
(***************************************************************************)

\* Trails of one store, and of two.
LEMMA SingleOK ==
    ASSUME NEW k, NEW w, NEW g, StoreOK(k, w, g)
    PROVE  Survives(<<k>>, g) /\ Last(<<k>>) = k
BY DEF Survives, Last

LEMMA PowerUpOK ==
    ASSUME IInv, PowerUp
    PROVE  IInv'
<1> DEFINE w == [Off EXCEPT !.state = "Idle"]
<1>1. PICK f \in 1 .. MaxFirmware :
        /\ f >= h.installed \/ kv.fw >= h.installed \/ Rollback
        /\ h' = [h EXCEPT !.installed = f]
  BY DEF PowerUp
<1>2. kv' = kv /\ v' = w
  BY DEF PowerUp
<1>3. /\ h' \in History /\ h'.installed = f
      /\ h'.known = h.known /\ h'.missed = h.missed /\ h'.sent = h.sent /\ h'.ran = h.ran
      /\ h'.sessions = h.sessions
  BY <1>1 DEF IInv, OK, ProcessOK, History
<1>4. /\ w \in Memory /\ ~w.connected /\ w.session = 0 /\ w.event = None
      /\ ~Serving(w) /\ ~w.fastStarted /\ w.state # "Stopping"
  BY OffOK DEF Memory, Serving, Off
<1> HIDE DEF w
<1>5. ProcessOK(w, h')
  BY <1>3, <1>4 DEF IInv, OK, ProcessOK
<1>6. StoreOK(kv, w, h)
  BY <1>4, Quieter DEF IInv, OK, ProcessOK
<1>7. KnownOK(kv, h') /\ MadeOK(kv, h') /\ (RanOK(kv, h) => RanOK(kv, h'))
  BY <1>3, <1>6 DEF StoreOK, KnownOK, MadeOK, RanOK
<1>8. ASSUME ~Rollback, KeyOK(kv, w, h) PROVE KeyOK(kv, w, h')
  <2>1. SentOK(kv, w, h')
    BY <1>3, <1>8 DEF KeyOK, SentOK
  <2>2. kv.fw \in Nat /\ f \in Nat /\ h.installed \in Nat
    BY <1>6, Numbers, StoreFields, HistoryFields DEF IInv, OK, ProcessOK, StoreOK
  <2>3. Torn(kv, h) => Torn(kv, h') \/ kv.fw >= h.installed
    BY <1>1, <1>3, <1>8, <2>2 DEF Torn
  <2>4. Torn(kv, h') \/ Behind(kv, h')
    BY <1>3, <1>8, <2>2, <2>3 DEF KeyOK, Torn, Behind
  <2> QED
    BY <1>4, <2>1, <2>4 DEF KeyOK
<1>9. StoreOK(kv, w, h')
  BY <1>6, <1>7, <1>8 DEF StoreOK
<1> QED
  BY <1>2, <1>5, <1>9 DEF IInv, OK

LEMMA PowerLossOK ==
    ASSUME IInv, PowerLoss
    PROVE  IInv'
<1>1. Survives(<<kv>>, h)
  BY SingleOK DEF IInv, OK
<1>2. ProcessOK(Off, Lost) /\ Survives(<<kv>>, Lost)
  BY <1>1, LostOK, SurvivesLost DEF IInv, OK
<1>3. LosesPower(<<kv>>, Lost)
  BY DEF PowerLoss
<1> HIDE DEF Lost
<1> QED
  BY <1>2, <1>3, LosesPowerOK

LEMMA StopOK ==
    ASSUME IInv, Stop
    PROVE  IInv'
<1> DEFINE w == [v EXCEPT !.state = IF v.connected THEN "Stopping" ELSE "Idle"]
<1>1. kv' = kv /\ v' = w /\ h' = h /\ v.state = "Running"
  BY DEF Stop
<1>2. v \in Memory /\ h \in History
  BY DEF IInv, OK, ProcessOK
<1>3. /\ w \in Memory /\ w.connected = v.connected /\ w.session = v.session
      /\ w.event = v.event /\ w.fastStarted = v.fastStarted
      /\ w.state = IF v.connected THEN "Stopping" ELSE "Idle"
  BY <1>2 DEF Memory
<1> HIDE DEF w
<1>4. ProcessOK(w, h)
  BY <1>3 DEF IInv, OK, ProcessOK, Serving
<1>5. StoreOK(kv, w, h)
  BY <1>1, <1>2, <1>3, Quieter DEF IInv, OK, Serving
<1> QED
  BY <1>1, <1>4, <1>5 DEF IInv, OK



\* The identity is loaded, or another is made after the pairings are purged.
LEMMA LoadedOK ==
    ASSUME NEW k, NEW g, StoreOK(k, Off, g), ~Torn(k, g), NEW fresh \in Identities \ {0}
    PROVE  LET t == LoadLTSK(k, fresh)
           IN  /\ Trail(t, g) /\ ~Torn(Last(t), g) /\ SameNonce(k, Last(t))
               /\ Last(t).fw = k.fw /\ Last(t).ltsk # 0
               /\ k.ltsk # 0 => Last(t) = k
<1> DEFINE q == [k EXCEPT !.pairings = {}]
           r == [q EXCEPT !.ltsk = fresh]
<1>1. k \in Store
  BY DEF StoreOK
<1>2. CASE k.ltsk # 0
  <2>1. LoadLTSK(k, fresh) = <<k>>
    BY <1>2 DEF LoadLTSK
  <2> QED
    BY <1>2, <2>1, SingleTrail DEF SameNonce
<1>3. CASE k.ltsk = 0
  <2>1. LoadLTSK(k, fresh) = <<q, r>>
    BY <1>3 DEF LoadLTSK
  <2>2. /\ q \in Store /\ q.fw = k.fw /\ q.gsn = k.gsn /\ q.exp = k.exp /\ q.key = k.key
    BY <1>1 DEF Store
  <2>3. r.fw = q.fw /\ r.gsn = q.gsn /\ r.exp = q.exp /\ r.key = q.key /\ r.ltsk = fresh
    BY <2>2 DEF Store
  <2>4. StoreOK(q, Off, g) /\ StoreOK(r, Off, g)
    BY PurgedOK
  <2> HIDE DEF q, r
  <2>5. Trail(<<q, r>>, g) /\ Last(<<q, r>>) = r
    BY <2>4, PairTrail
  <2>6. ~Torn(r, g) /\ SameNonce(k, r) /\ r.fw = k.fw /\ r.ltsk # 0
    BY <2>2, <2>3 DEF Torn, SameNonce, GSN
  <2> QED
    BY <1>3, <2>1, <2>5, <2>6
<1> QED
  BY <1>2, <1>3

\* What is left of pairings without an administrator is purged, with the key.
LEMMA CleanedOK ==
    ASSUME NEW k, NEW g, StoreOK(k, Off, g)
    PROVE  LET t == CleanupPairings(k)
           IN  /\ Trail(t, g) /\ SameNonce(k, Last(t))
               /\ Last(t).fw = k.fw /\ Last(t).ltsk = k.ltsk /\ GSN(Last(t)) = GSN(k)
               /\ AdminFound(k) => Last(t) = k
               /\ ~AdminFound(k) => Last(t).exp = 0 /\ Last(t).pairings = {}
<1> DEFINE q == [k EXCEPT !.pairings = {}]
           r == NoParameters(q)
<1>1. k \in Store
  BY DEF StoreOK
<1>2. CASE AdminFound(k)
  <2>1. CleanupPairings(k) = <<k>>
    BY <1>2 DEF CleanupPairings
  <2> QED
    BY <1>2, <2>1, SingleTrail DEF SameNonce
<1>3. CASE ~AdminFound(k)
  <2>1. CleanupPairings(k) = <<q, r>>
    BY <1>3 DEF CleanupPairings
  <2>2. /\ q \in Store /\ q.fw = k.fw /\ q.ltsk = k.ltsk /\ q.pairings = {}
        /\ GSN(q) = GSN(k)
    BY <1>1 DEF Store, GSN
  <2>3. 0 \in Identities
    BY Numbers DEF Identities
  <2>4. StoreOK(q, Off, g)
    BY <2>3, PurgedOK
  <2> HIDE DEF q
  <2>5. /\ r.fw = q.fw /\ r.ltsk = q.ltsk /\ r.pairings = q.pairings /\ r.exp = 0
        /\ GSN(r) = GSN(q)
    BY <2>2 DEF Store, NoParameters, GSN
  <2>6. StoreOK(r, Off, g)
    BY <2>4, ExpiredOK
  <2> HIDE DEF r
  <2>7. Trail(<<q, r>>, g) /\ Last(<<q, r>>) = r
    BY <2>4, <2>6, PairTrail
  <2> QED
    BY <1>3, <2>1, <2>2, <2>5, <2>7 DEF SameNonce
<1> QED
  BY <1>2, <1>3

\* The firmware runs under the configuration number.
LEMMA RanAdded ==
    ASSUME NEW k, NEW w, NEW g, OK(k, w, g), k.fw = g.installed
    PROVE  OK(k, w, [g EXCEPT !.ran = @ \cup {[cn |-> k.cn, fw |-> k.fw]}])
<1> DEFINE x0 == [cn |-> k.cn, fw |-> k.fw]
           g2 == [g EXCEPT !.ran = @ \cup {x0}]
<1>1. /\ g \in History /\ k.cn \in 0 .. MaxConfig + 1 /\ k.fw \in 1 .. MaxFirmware
      /\ x0 \in [cn: 0 .. MaxConfig + 1, fw: 1 .. MaxFirmware]
  BY StoreFields, HistoryFields DEF OK, ProcessOK, StoreOK
<1>2. /\ g2 \in History /\ g2.sent = g.sent /\ g2.ran = g.ran \cup {x0}
      /\ g2.installed = g.installed /\ g2.missed = g.missed
      /\ g2.known = g.known /\ g2.sessions = g.sessions
  BY <1>1 DEF History
<1> HIDE DEF g2
<1>3. ProcessOK(w, g2)
  BY <1>2 DEF OK, ProcessOK
<1>4. KnownOK(k, g2) /\ MadeOK(k, g2)
  BY <1>2 DEF OK, StoreOK, KnownOK, MadeOK
<1>5. RanOK(k, g) => RanOK(k, g2)
  <2>1. x0.cn = k.cn /\ x0.fw = k.fw /\ k.cn <= k.cn
    BY <1>1, Numbers
  <2> HIDE DEF x0
  <2> QED
    BY <1>2, <2>1 DEF RanOK
<1>6. KeyOK(k, w, g) => KeyOK(k, w, g2)
  BY <1>2 DEF KeyOK, SentOK, Torn, Behind
<1>7. StoreOK(k, w, g2)
  BY <1>4, <1>5, <1>6 DEF OK, StoreOK
<1> QED
  BY <1>3, <1>7 DEF OK, g2

\* The stores that a start leaves on its way, and the one that it ends in.
LEMMA StartTrail ==
    ASSUME IInv, Start
    PROVE  LET Load(k) == LoadLTSK(k, h.resets + 1)
               t == Then(Then(Versioned(kv), Load), CleanupPairings)
           IN  /\ Trail(t, h) /\ ~Torn(Last(t), h) /\ SameNonce(kv, Last(t))
               /\ Last(t).fw = h.installed /\ Last(t).ltsk # 0
               /\ Last(t).exp # 0 \/ Last(t).pairings # {} => AdminFound(Last(t))
               /\ kv.fw = h.installed /\ kv.ltsk # 0 =>
                     /\ GSN(Last(t)) = GSN(kv)
                     /\ AdminFound(kv) => Last(t) = kv
<1> DEFINE Load(k) == LoadLTSK(k, h.resets + 1)
           t1 == Versioned(kv)
           t2 == Load(Last(t1))
           t3 == CleanupPairings(Last(t1 \o t2))
<1>1. /\ v.state = "Idle" /\ kv.fw <= h.installed /\ kv.cn <= MaxConfig /\ h \in History
      /\ StoreOK(kv, v, h) /\ ProcessOK(Off, h)
  BY OffOK DEF Start, IInv, OK, ProcessOK
<1>2. StoreOK(kv, Off, h)
  BY <1>1, OffOK, Quieter
<1>3. /\ Trail(t1, h) /\ ~Torn(Last(t1), h) /\ SameNonce(kv, Last(t1))
      /\ Last(t1).fw = h.installed
      /\ kv.fw = h.installed => Last(t1) = kv
  BY <1>1, <1>2, VersionedOK
<1>4. h.resets + 1 \in Identities \ {0}
  BY <1>1, HistoryFields, Numbers DEF Identities
<1> HIDE DEF t1
<1>5. /\ Trail(t2, h) /\ ~Torn(Last(t2), h) /\ SameNonce(Last(t1), Last(t2))
      /\ Last(t2).fw = h.installed /\ Last(t2).ltsk # 0
      /\ Last(t1).ltsk # 0 => Last(t2) = Last(t1)
  BY <1>3, <1>4, LastOK, LoadedOK
<1> HIDE DEF t2
<1>6. Trail(t1 \o t2, h) /\ Last(t1 \o t2) = Last(t2)
  BY <1>3, <1>5, Joined
<1>7. StoreOK(Last(t2), Off, h)
  BY <1>5, LastOK
<1>8. /\ Trail(t3, h) /\ SameNonce(Last(t2), Last(t3))
      /\ Last(t3).fw = Last(t2).fw /\ Last(t3).ltsk = Last(t2).ltsk
      /\ GSN(Last(t3)) = GSN(Last(t2))
      /\ AdminFound(Last(t2)) => Last(t3) = Last(t2)
      /\ ~AdminFound(Last(t2)) => Last(t3).exp = 0 /\ Last(t3).pairings = {}
  BY <1>6, <1>7, CleanedOK
<1> HIDE DEF t3
<1>9. Trail((t1 \o t2) \o t3, h) /\ Last((t1 \o t2) \o t3) = Last(t3)
  BY <1>6, <1>8, Joined
<1>10. Then(Then(Versioned(kv), Load), CleanupPairings) = (t1 \o t2) \o t3
  BY DEF Then, t1, t2, t3
<1>11. ~Torn(Last(t3), h) /\ SameNonce(kv, Last(t3))
  BY <1>3, <1>5, <1>8 DEF Torn, SameNonce
<1>12. Last(t3).exp # 0 \/ Last(t3).pairings # {} => AdminFound(Last(t3))
  BY <1>8
<1>13. kv.fw = h.installed /\ kv.ltsk # 0 =>
          GSN(Last(t3)) = GSN(kv) /\ (AdminFound(kv) => Last(t3) = kv)
  BY <1>3, <1>5, <1>8
<1> QED
  BY <1>5, <1>8, <1>9, <1>10, <1>11, <1>12, <1>13

LEMMA StartOK ==
    ASSUME IInv, Start
    PROVE  IInv'
<1> DEFINE Load(k) == LoadLTSK(k, h.resets + 1)
           t == Then(Then(Versioned(kv), Load), CleanupPairings)
           k == Last(t)
           w == [v EXCEPT !.state = "Running"]
           q == ReadCN(w, k)
           x0 == [cn |-> q.cn, fw |-> h.installed]
           g == [h EXCEPT !.ran = @ \cup {x0}]
           sent == Advertised(w, k)
<1>1. /\ Trail(t, h) /\ ~Torn(k, h) /\ SameNonce(kv, k)
      /\ k.fw = h.installed /\ k.ltsk # 0
      /\ k.exp # 0 \/ k.pairings # {} => AdminFound(k)
  BY StartTrail
<1>2. Handler(t, w, g)
  BY DEF Start
<1> HIDE DEF t
<1>3. /\ v.state = "Idle" /\ v \in Memory /\ h \in History
      /\ StoreOK(kv, v, h) /\ ProcessOK(v, h)
  BY DEF Start, IInv, OK, ProcessOK
<1>4. StoreOK(k, Off, h) /\ Survives(t, h)
  BY <1>1, LastOK, TrailSurvives
<1>5. CASE LosesPower(t, Lost)
  <2>1. ProcessOK(Off, Lost) /\ Survives(t, Lost)
    BY <1>3, <1>4, LostOK, SurvivesLost
  <2> HIDE DEF Lost
  <2> QED
    BY <1>5, <2>1, LosesPowerOK
<1>6. CASE Completes(t, w, g)
  <2> HIDE DEF k
  <2>1. /\ w \in Memory /\ w.state = "Running" /\ ~w.connected /\ w.session = 0
        /\ w.event = v.event
    BY <1>3 DEF Memory, ProcessOK, Serving
  <2> HIDE DEF w
  <2>2. ProcessOK(w, h)
    BY <1>3, <2>1 DEF ProcessOK, Serving
  <2>3. ASSUME ~(PartialPurge \/ Rollback), w.event # None, k.exp # 0,
               NEW x \in h.sent, x.key = k.key, x.n = GSN(k).n
        PROVE  x.event = w.event
    BY <1>1, <1>3, <2>1, <2>3 DEF StoreOK, KeyOK, SentOK, SameNonce
  <2>4. StoreOK(k, w, h)
    BY <1>1, <1>4, <2>1, <2>3, ServesOK
  <2>5. StoreOK(q, w, h) /\ q.exp = k.exp /\ q.key = k.key /\ GSN(q) = GSN(k)
    BY <1>3, <2>4, ReadOK
  <2>6. q.fw = k.fw
    BY <2>4 DEF ReadCN, StoreOK, Store
  <2> HIDE DEF q
  <2> DEFINE g1 == [h EXCEPT !.sent = @ \cup sent]
  <2>7. OK(q, w, g1)
    BY <2>2, <2>4, <2>5, AdvertisedOK DEF OK
  <2>8. g1.installed = h.installed
    OBVIOUS
  <2> HIDE DEF g1
  <2>9. OK(q, w, [g1 EXCEPT !.ran = @ \cup {x0}])
    BY <1>1, <2>6, <2>7, <2>8, RanAdded
  <2>10. kv' = q /\ v' = UpdateAdvertisingData(w, k) /\ h' = [g EXCEPT !.sent = @ \cup sent]
    BY <1>6 DEF Completes, k, q
  <2>11. h' = [g1 EXCEPT !.ran = @ \cup {x0}]
    <3> HIDE DEF x0, sent
    <3> QED
      BY <1>3, <2>10 DEF History, g1
  <2> DEFINE g2 == [g1 EXCEPT !.ran = @ \cup {x0}]
  <2> HIDE DEF g2
  <2>12. OK(q, UpdateAdvertisingData(w, k), g2)
    BY <2>9, UpdatedOK DEF g2
  <2> QED
    BY <2>10, <2>11, <2>12 DEF IInv, g2
<1> QED
  BY <1>2, <1>5, <1>6 DEF Handler



\* A store that is reset, whatever the process was.
LEMMA ResetOK ==
    ASSUME NEW k, NEW w, NEW g, StoreOK(k, w, g), g \in History, ~Serving(w), w.session = 0,
           NEW q \in Store, NEW g2, g2.known = None, g2.sent = g.sent,
           g2.sessions = g.sessions, g2.installed = g.installed,
           g2.ran = (IF q.fw = 0 THEN {} ELSE g.ran),
           NEW w2, w2.session = 0, ~Serving(w2),
           \/ q.exp = 0 /\ q.fw = 0 /\ q.ltsk = 0
           \/ /\ PartialPurge /\ q.exp = k.exp /\ q.key = k.key
              /\ q.ltsk \in {0, k.ltsk} /\ q.pairings = k.pairings
    PROVE  StoreOK(q, w2, g2)
<1>1. IdentityOK(q, w2) /\ AdminOK(q, w2)
  BY DEF StoreOK, IdentityOK, AdminOK
<1>2. KnownOK(q, g2) /\ MadeOK(q, g2)
  BY DEF StoreOK, KnownOK, MadeOK
<1>3. CASE PartialPurge
  BY <1>1, <1>2, <1>3 DEF StoreOK
<1>4. CASE ~PartialPurge
  <2>1. q.exp = 0 /\ q.fw = 0
    BY <1>4
  <2>2. RanOK(q, g2)
    BY <2>1 DEF RanOK
  <2>3. ASSUME KeyOK(k, w, g) PROVE KeyOK(q, w2, g2)
    <3>1. \A x \in g.sent : x.key # 0
      BY HistoryFields
    <3> QED
      BY <2>1, <2>3, <3>1 DEF KeyOK, SentOK, Torn, Behind
  <2> QED
    BY <1>1, <1>2, <1>4, <2>2, <2>3 DEF StoreOK
<1> QED
  BY <1>3, <1>4


LEMMA FactoryResetOK ==
    ASSUME IInv, FactoryReset
    PROVE  IInv'
<1>1. /\ v.state \in {"Off", "Idle"} /\ h.resets < MaxResets
      /\ h' = [h EXCEPT !.resets = @ + 1, !.known = None, !.missed = FALSE,
                        !.ran = IF kv'.fw = 0 THEN {} ELSE @]
      /\ Resets(RestoreFactorySettings(kv))
  BY DEF FactoryReset, Stopped
<1>2. /\ v \in Memory /\ h \in History /\ kv \in Store /\ StoreOK(kv, v, h) /\ ProcessOK(v, h)
      /\ ~v.connected /\ v.session = 0 /\ ~Serving(v)
  BY <1>1 DEF IInv, OK, ProcessOK, StoreOK, Serving
<1>3. /\ h' \in History /\ h'.known = None /\ ~h'.missed /\ h'.sent = h.sent
      /\ h'.sessions = h.sessions /\ h'.installed = h.installed
      /\ h'.ran = IF kv'.fw = 0 THEN {} ELSE h.ran
  <2>1. h.resets + 1 \in 0 .. MaxResets
    BY <1>1, <1>2, HistoryFields, Numbers
  <2>2. (IF kv'.fw = 0 THEN {} ELSE h.ran) \in SUBSET [cn: 0 .. MaxConfig + 1, fw: 1 .. MaxFirmware]
    BY <1>2, HistoryFields
  <2> DEFINE ran == IF kv'.fw = 0 THEN {} ELSE h.ran
  <2> HIDE DEF ran
  <2>3. h' = [h EXCEPT !.resets = @ + 1, !.known = None, !.missed = FALSE, !.ran = ran]
    BY <1>1 DEF ran
  <2>4. h' \in History
    <3> DEFINE resets == h.resets + 1
    <3>1. ran \in SUBSET [cn: 0 .. MaxConfig + 1, fw: 1 .. MaxFirmware]
      BY <2>2 DEF ran
    <3> HIDE DEF resets
    <3>2. resets \in 0 .. MaxResets
      BY <2>1 DEF resets
    <3>3. h' = [h EXCEPT !.resets = resets, !.known = None, !.missed = FALSE, !.ran = ran]
      BY <2>3 DEF resets
    <3> QED
      BY <1>2, <3>1, <3>2, <3>3 DEF History
  <2>5. /\ h'.known = None /\ ~h'.missed /\ h'.sent = h.sent
        /\ h'.sessions = h.sessions /\ h'.installed = h.installed /\ h'.ran = ran
    BY <1>2, <2>3 DEF History
  <2> QED
    BY <2>4, <2>5 DEF ran
<1>4. ASSUME NEW i \in 1 .. Len(RestoreFactorySettings(kv)), kv' = RestoreFactorySettings(kv)[i]
      PROVE  kv' \in Store /\ kv'.exp = 0 /\ kv'.fw = 0 /\ kv'.ltsk = 0
  <2> DEFINE a == PurgedConfiguration(kv)
             b == [a EXCEPT !.enabled = {}]
             c == [b EXCEPT !.pairings = {}]
  <2>1. a \in Store /\ a.exp = 0 /\ a.fw = 0 /\ a.ltsk = 0
    <3>1. /\ 0 \in 0 .. MaxFirmware /\ 0 \in 0 .. MaxConfig + 1 /\ 0 \in Identities
          /\ 0 \in 0 .. MaxGSN /\ 0 \in 0 .. MaxSessions
      BY Numbers DEF Identities
    <3> QED
      <4> DEFINE r1 == [kv EXCEPT !.fw = 0, !.cn = 0, !.ltsk = 0]
                 r2 == [r1 EXCEPT !.gsn = None, !.exp = 0, !.key = 0]
      <4>1. r1 \in Store /\ r1.fw = 0 /\ r1.ltsk = 0
        BY <1>2, <3>1 DEF Store
      <4>2. a = r2
        BY DEF PurgedConfiguration
      <4> HIDE DEF r1, a
      <4>3. r2 \in Store /\ r2.exp = 0 /\ r2.fw = r1.fw /\ r2.ltsk = r1.ltsk
        BY <3>1, <4>1 DEF Store
      <4> QED
        BY <4>1, <4>2, <4>3
  <2>2. RestoreFactorySettings(kv) = <<a, b, c>>
    BY DEF RestoreFactorySettings
  <2> HIDE DEF a
  <2>3. b \in Store /\ b.exp = 0 /\ b.fw = 0 /\ b.ltsk = 0
    BY <2>1 DEF Store
  <2> HIDE DEF b
  <2>4. c \in Store /\ c.exp = 0 /\ c.fw = 0 /\ c.ltsk = 0
    BY <2>3 DEF Store
  <2> HIDE DEF c
  <2>5. kv' \in {a, b, c}
    BY <1>4, <2>2
  <2> QED
    BY <2>1, <2>3, <2>4, <2>5
<1>5. ProcessOK(v, h') /\ ProcessOK(Off, h')
  BY <1>1, <1>2, <1>3, OffOK DEF ProcessOK
<1>6. CASE kv' = Last(RestoreFactorySettings(kv)) /\ UNCHANGED v
  <2>1. kv' = RestoreFactorySettings(kv)[3] /\ Len(RestoreFactorySettings(kv)) = 3
    BY <1>6 DEF Last, RestoreFactorySettings
  <2>2. kv' \in Store /\ kv'.exp = 0 /\ kv'.fw = 0 /\ kv'.ltsk = 0
    BY <1>4, <2>1
  <2>3. StoreOK(kv', v, h')
    BY <1>2, <1>3, <2>2, ResetOK
  <2> QED
    BY <1>5, <1>6, <2>3 DEF IInv, OK
<1>7. CASE \E i \in 1 .. Len(RestoreFactorySettings(kv)) :
              kv' = RestoreFactorySettings(kv)[i] /\ v' = Off
  <2>1. kv' \in Store /\ kv'.exp = 0 /\ kv'.fw = 0 /\ kv'.ltsk = 0
    BY <1>4, <1>7
  <2>2. StoreOK(kv', Off, h')
    BY <1>2, <1>3, <2>1, OffOK, ResetOK
  <2> QED
    BY <1>5, <1>7, <2>2 DEF IInv, OK
<1>8. CASE PartialPurge /\ kv' \in Purging(kv) /\ v' = Off
  <2>1. PICK a \in {kv.fw, 0}, b \in {kv.cn, 0}, c \in {kv.ltsk, 0}, d \in {kv.gsn, None} :
           kv' = [kv EXCEPT !.fw = a, !.cn = b, !.ltsk = c, !.gsn = d]
    <3>1. /\ PurgedConfiguration(kv).fw = 0 /\ PurgedConfiguration(kv).cn = 0
          /\ PurgedConfiguration(kv).ltsk = 0 /\ PurgedConfiguration(kv).gsn = None
      BY <1>2 DEF PurgedConfiguration, Store
    <3> QED
      BY <1>8, <3>1 DEF Purging
  <2>2. /\ a \in 0 .. MaxFirmware /\ b \in 0 .. MaxConfig + 1 /\ c \in Identities
        /\ d \in [n: Gsns, inc: BOOLEAN] \cup {None}
    BY <1>2, <2>1, StoreFields, Numbers DEF Identities
  <2>3. kv' \in Store
    BY <1>2, <2>1, <2>2 DEF Store
  <2>4. kv'.exp = kv.exp /\ kv'.key = kv.key /\ kv'.ltsk = c /\ kv'.pairings = kv.pairings
    BY <1>2, <2>1 DEF Store
  <2>5. kv'.ltsk \in {0, kv.ltsk}
    BY <2>1, <2>4
  <2>6. StoreOK(kv', Off, h')
    BY <1>2, <1>3, <1>8, <2>3, <2>4, <2>5, OffOK, ResetOK
  <2> QED
    BY <1>5, <1>8, <2>6 DEF IInv, OK
<1> QED
  BY <1>1, <1>6, <1>7, <1>8 DEF Resets

\* The pairings change, and nothing else does.
LEMMA PairedOK ==
    ASSUME NEW k, NEW w, NEW g, StoreOK(k, w, g),
           NEW P \in SUBSET [admin: BOOLEAN, ltsk: Identities],
           k.ltsk # 0 => \A p \in P : p.ltsk = k.ltsk,
           Serving(w) /\ (k.exp # 0 \/ P # {}) => \E p \in P : p.admin,
           w.session # 0 => P # {}
    PROVE  StoreOK([k EXCEPT !.pairings = P], w, g)
<1> DEFINE q == [k EXCEPT !.pairings = P]
<1>1. /\ q \in Store /\ q.exp = k.exp /\ q.key = k.key
      /\ q.cn = k.cn /\ q.fw = k.fw /\ q.ltsk = k.ltsk /\ q.pairings = P
      /\ GSN(q) = GSN(k)
  BY DEF StoreOK, Store, GSN
<1> HIDE DEF q
<1>2. IdentityOK(q, w) /\ AdminOK(q, w)
  BY <1>1 DEF StoreOK, IdentityOK, AdminOK, AdminFound
<1>3. KnownOK(q, g) /\ (RanOK(k, g) => RanOK(q, g))
  BY <1>1 DEF StoreOK, KnownOK, RanOK, Since
<1>4. KeyOK(k, w, g) => KeyOK(q, w, g)
  BY <1>1 DEF KeyOK, SentOK, Torn, Behind
<1> QED
  BY <1>1, <1>2, <1>3, <1>4 DEF StoreOK, MadeOK, q

LEMMA RemoveAllPairingsOK ==
    ASSUME IInv, RemoveAllPairings
    PROVE  IInv'
<1>1. /\ v.state \in {"Off", "Idle"} /\ v' = v
      /\ kv' = [kv EXCEPT !.pairings = {}]
      /\ h' = [h EXCEPT !.known = None, !.missed = FALSE]
  BY DEF RemoveAllPairings, Stopped
<1>2. /\ h \in History /\ StoreOK(kv, v, h) /\ ProcessOK(v, h)
      /\ v.session = 0 /\ ~Serving(v)
  BY <1>1 DEF IInv, OK, ProcessOK, StoreOK, Serving
<1>3. /\ h' \in History /\ h'.known = None /\ ~h'.missed /\ SameRecord(h, h')
  BY <1>1, <1>2 DEF History, SameRecord
<1>4. StoreOK(kv', v, h)
  BY <1>1, <1>2, PairedOK
<1>5. StoreOK(kv', v, h')
  BY <1>3, <1>4, Forgetful
<1> QED
  BY <1>1, <1>2, <1>3, <1>5 DEF IInv, OK, ProcessOK



-----------------------------------------------------------------------------
(***************************************************************************)
(* The connection.                                                         *)
(***************************************************************************)

LEMMA DidConnectOK ==
    ASSUME IInv, DidConnect
    PROVE  IInv'
<1> DEFINE g == [h EXCEPT !.known = None, !.missed = FALSE]
           k == ClearIncrement(kv)
           w == [v EXCEPT !.connected = TRUE, !.timer = FALSE,
                          !.fastTimer = FALSE, !.event = None]
<1>1. /\ v.state = "Running" /\ ~v.connected
      /\ Completes(<<k>>, w, g) \/ LosesPower(<<k>>, g)
  BY DEF DidConnect, Active
<1>2. /\ v \in Memory /\ h \in History /\ StoreOK(kv, v, h) /\ v.session = 0
  BY <1>1 DEF IInv, OK, ProcessOK
<1>3. /\ g \in History /\ g.known = None /\ ~g.missed /\ SameRecord(h, g)
  BY <1>2 DEF History, SameRecord
<1> HIDE DEF g
<1>4. StoreOK(k, v, g)
  BY <1>2, <1>3, ClearedOK
<1> HIDE DEF k
<1>5. /\ w \in Memory /\ w.connected /\ w.state = "Running" /\ w.event = None
      /\ w.session = 0 /\ w.fastStarted = v.fastStarted
  BY <1>1, <1>2 DEF Memory
<1> HIDE DEF w
<1>6. ProcessOK(w, g) /\ ProcessOK(Off, g)
  BY <1>3, <1>5, OffOK DEF ProcessOK, Serving
<1>7. StoreOK(k, w, g)
  BY <1>1, <1>3, <1>4, <1>5, Quieter DEF Serving
<1>8. Last(<<k>>) = k /\ Survives(<<k>>, g)
  BY <1>7, SingleOK
<1> QED
  BY <1>1, <1>6, <1>7, <1>8, CompletesOK, LosesPowerOK DEF OK

LEMMA DidDisconnectOK ==
    ASSUME IInv, DidDisconnect
    PROVE  IInv'
<1> DEFINE k == ClearIncrement(kv)
           u == [v EXCEPT !.connected = FALSE, !.session = 0, !.fastTimer = TRUE,
                          !.state = IF @ = "Stopping" THEN "Idle" ELSE @]
           g == [h EXCEPT !.known = [n |-> GSN(kv).n, cn |-> kv.cn], !.missed = FALSE]
<1>1. PICK w \in {u, Abort(u)} : Handler(<<k>>, w, g)
  BY DEF DidDisconnect
<1>2. /\ v.connected /\ v \in Memory /\ h \in History /\ ProcessOK(v, h)
      /\ StoreOK(kv, v, h) /\ kv \in Store /\ h.known = None /\ ~h.missed /\ v.event = None
  BY DEF DidDisconnect, IInv, OK, ProcessOK, StoreOK
<1>3. /\ g \in History /\ g.known = [n |-> GSN(kv).n, cn |-> kv.cn] /\ ~g.missed
      /\ SameRecord(h, g)
  <2>1. [n |-> GSN(kv).n, cn |-> kv.cn] \in [n: Gsns, cn: 0 .. MaxConfig + 1]
    BY <1>2, StoreFields
  <2> QED
    BY <1>2, <2>1 DEF History, SameRecord
<1> HIDE DEF g
<1>4. StoreOK(k, v, g)
  BY <1>2, <1>3, ClearedOK
<1>5. StoreOK(k, v, h)
  BY <1>2, ClearedOK DEF SameRecord
<1> HIDE DEF k
<1>6. /\ w \in Memory /\ ~w.connected /\ w.session = 0 /\ w.event = v.event
      /\ w.fastStarted = v.fastStarted /\ w.state # "Stopping"
      /\ w.state \in {v.state, "Idle"}
  <2>1. /\ u \in Memory /\ ~u.connected /\ u.session = 0 /\ u.event = v.event
        /\ u.fastStarted = v.fastStarted /\ u.state # "Stopping"
        /\ u.state \in {v.state, "Idle"}
    <3> DEFINE s == IF v.state = "Stopping" THEN "Idle" ELSE v.state
    <3>1. /\ s \in {"Off", "Idle", "Running", "Stopping"} /\ s # "Stopping"
          /\ s \in {v.state, "Idle"} /\ 0 \in 0 .. MaxSessions
      BY <1>2, Numbers DEF Memory
    <3>2. u = [v EXCEPT !.connected = FALSE, !.session = 0, !.fastTimer = TRUE, !.state = s]
      BY <1>2
    <3> HIDE DEF s, u
    <3> QED
      BY <1>2, <3>1, <3>2 DEF Memory
  <2> HIDE DEF u
  <2> QED
    BY <2>1 DEF Memory, Abort
<1>7. ProcessOK(w, g)
  BY <1>3, <1>6 DEF ProcessOK
<1>8. StoreOK(k, w, g)
  BY <1>3, <1>4, <1>6, Quieter DEF Serving
<1>9. Last(<<k>>) = k /\ Survives(<<k>>, h)
  BY <1>5, SingleOK
<1> QED
  BY <1>1, <1>2, <1>7, <1>8, <1>9, HandlerOK DEF OK

LEMMA SecureOK ==
    ASSUME IInv, Secure
    PROVE  IInv'
<1>1. /\ v.connected /\ kv.pairings # {} /\ h.sessions < MaxSessions /\ kv' = kv
      /\ v' = [v EXCEPT !.session = h.sessions + 1]
      /\ h' = [h EXCEPT !.sessions = @ + 1]
  BY DEF Secure
<1>2. /\ v \in Memory /\ h \in History /\ StoreOK(kv, v, h) /\ v.connected
      /\ h.sessions \in Nat /\ h.sessions + 1 \in 1 .. MaxSessions
  BY <1>1, Numbers, HistoryFields DEF IInv, OK, ProcessOK
<1>3. /\ v' \in Memory /\ v'.session = h.sessions + 1 /\ v'.connected
      /\ v'.event = v.event /\ v'.state = v.state /\ v'.fastStarted = v.fastStarted
  BY <1>1, <1>2 DEF Memory
<1>4. /\ h' \in History /\ h'.sessions = h.sessions + 1 /\ h'.sent = h.sent
      /\ h'.ran = h.ran /\ h'.known = h.known /\ h'.missed = h.missed
      /\ h'.installed = h.installed
  BY <1>1, <1>2 DEF History
<1>5. ProcessOK(v', h')
  BY <1>2, <1>3, <1>4 DEF IInv, OK, ProcessOK, Serving
<1>6. IdentityOK(kv, v') /\ AdminOK(kv, v')
  BY <1>1, <1>2, <1>3 DEF StoreOK, IdentityOK, AdminOK, Serving
<1>7. KnownOK(kv, h') /\ (RanOK(kv, h) => RanOK(kv, h'))
  BY <1>2, <1>4 DEF StoreOK, KnownOK, RanOK
<1>8. MadeOK(kv, h')
  <2>1. kv.key \in 1 .. h.sessions => kv.key \in 1 .. h.sessions + 1
    BY <1>2
  <2> QED
    BY <1>2, <1>4, <2>1 DEF StoreOK, MadeOK
<1>9. ASSUME KeyOK(kv, v, h) PROVE KeyOK(kv, v', h')
  <2>1. \A x \in h.sent : x.key <= h.sessions + 1 /\ x.key # h.sessions + 1
    <3>1. \A x \in h.sent : x.key \in Nat /\ x.key <= h.sessions
      BY <1>2, <1>9, HistoryFields, Numbers DEF KeyOK, SentOK
    <3> QED
      BY <1>2, <3>1
  <2>2. SentOK(kv, v', h')
    BY <1>3, <1>4, <1>9, <2>1 DEF KeyOK, SentOK
  <2> QED
    BY <1>3, <1>4, <1>9, <2>2 DEF KeyOK, Torn, Behind, Serving
<1>10. StoreOK(kv, v', h')
  BY <1>2, <1>6, <1>7, <1>8, <1>9 DEF StoreOK
<1> QED
  BY <1>1, <1>5, <1>10 DEF IInv, OK

LEMMA BroadcastGenerateKeyOK ==
    ASSUME IInv, BroadcastGenerateKey
    PROVE  IInv'
<1>1. v.session # 0 /\ kv' = GenerateKey(kv, v.session) /\ v' = v /\ h' = h
  BY DEF BroadcastGenerateKey, InSession
<1>2. StoreOK(GenerateKey(kv, v.session), v, h)
  BY <1>1, GeneratedOK DEF IInv
<1> QED
  BY <1>1, <1>2 DEF IInv, OK

LEMMA ConfigureBroadcastsOK ==
    ASSUME IInv, ConfigureBroadcasts
    PROVE  IInv'
<1>1. kv.enabled \in SUBSET Broadcasts /\ StoreOK(kv, v, h)
  BY StoreFields DEF IInv, OK, StoreOK
<1>2. PICK e \in SUBSET Broadcasts : kv' = [kv EXCEPT !.enabled = e]
  BY <1>1 DEF ConfigureBroadcasts
<1>3. v' = v /\ h' = h
  BY DEF ConfigureBroadcasts
<1>4. StoreOK([kv EXCEPT !.enabled = e], v, h)
  BY <1>1, ConfiguredOK
<1> QED
  BY <1>2, <1>3, <1>4 DEF IInv, OK



\* The trail of an increment, after which the process and what the outside knows
\* may be others.
LEMMA IncrementOK ==
    ASSUME NEW k, NEW w, NEW g, StoreOK(k, w, g), g \in History,
           ~GSN(k).inc \/ k.exp \notin {0, GSN(k).n},
           w.fastStarted \/ Serving(w),
           NEW w2, w2.session = w.session, Serving(w2) <=> Serving(w),
           w2.fastStarted = w.fastStarted,
           NEW g2, SameRecord(g, g2), g2.known \in {None, g.known}
    PROVE  Survives(IncrementGSN(k), g) /\ StoreOK(Last(IncrementGSN(k)), w2, g2)
<1> DEFINE e == IF GSN(k).n = k.exp THEN NoParameters(k) ELSE k
           q == Incremented(e)
<1>1. k \in Store
  BY DEF StoreOK
<1>2. StoreOK(e, w, g) /\ GSN(e) = GSN(k) /\ (e.exp # 0 => e.exp # GSN(k).n /\ e.exp = k.exp)
  <2>1. StoreOK(NoParameters(k), w, g)
    BY ExpiredOK
  <2>2. NoParameters(k).exp = 0 /\ GSN(NoParameters(k)) = GSN(k)
    BY <1>1 DEF NoParameters, GSN, Store
  <2>3. 0 # GSN(k).n
    BY <1>1, StoreFields, Numbers DEF Gsns
  <2> QED
    BY <2>1, <2>2, <2>3
<1>3. IncrementGSN(k) = <<e, q>>
  BY <1>2 DEF IncrementGSN, Incremented, NextNumber, ExpireKey
<1>4. e.exp = 0 => ~GSN(e).inc
  <2>1. CASE ~GSN(k).inc
    BY <1>2, <2>1
  <2>2. CASE k.exp \notin {0, GSN(k).n}
    BY <2>2
  <2> QED
    BY <2>1, <2>2
<1> HIDE DEF e
<1>5. StoreOK(q, w, g) /\ StoreOK(q, w2, g2)
  <2>1. e.exp = 0 \/ e.exp # GSN(e).n
    BY <1>2
  <2>2. SameRecord(g, g) /\ g.known \in {None, g.known}
    BY DEF SameRecord
  <2> QED
    BY <1>2, <1>4, <2>1, <2>2, IncrementedOK
<1> HIDE DEF q
<1> QED
  BY <1>2, <1>3, <1>5 DEF Survives, Last

\* An assertion only ever aborts.
LEMMA QuietFields ==
    ASSUME NEW w \in Memory
    PROVE  LET u == AssertsQuiet(w)
           IN  /\ u \in Memory
               /\ u.state = w.state /\ u.connected = w.connected
               /\ u.session = w.session /\ u.event = w.event
               /\ u.fastStarted = w.fastStarted
BY DEF AssertsQuiet, Abort, Memory

LEMMA DidSendEventNotificationOK ==
    ASSUME IInv, DidSendEventNotification
    PROVE  IInv'
<1> DEFINE w == AssertsQuiet(v)
           t == IncrementGSN(kv)
<1>1. v.session # 0 /\ ~GSN(kv).inc
  BY DEF DidSendEventNotification, InSession
<1>2. \/ kv' = Last(t) /\ v' = w /\ h' = h
      \/ LosesPower(t, Lost)
  BY DEF DidSendEventNotification
<1>3. /\ v \in Memory /\ h \in History /\ StoreOK(kv, v, h) /\ ProcessOK(v, h)
      /\ Serving(v)
  BY <1>1 DEF IInv, OK, ProcessOK
<1>4. /\ w \in Memory /\ w.state = v.state /\ w.connected = v.connected
      /\ w.session = v.session /\ w.event = v.event /\ w.fastStarted = v.fastStarted
  BY <1>3, QuietFields
<1> HIDE DEF w
<1>5. ProcessOK(w, h) /\ (Serving(w) <=> Serving(v))
  BY <1>3, <1>4 DEF ProcessOK, Serving
<1>6. Survives(t, h) /\ StoreOK(Last(t), w, h)
  <2>1. SameRecord(h, h) /\ h.known \in {None, h.known}
    BY DEF SameRecord
  <2> QED
    BY <1>1, <1>3, <1>4, <1>5, <2>1, IncrementOK
<1> HIDE DEF t
<1>7. CASE LosesPower(t, Lost)
  <2>1. ProcessOK(Off, Lost) /\ Survives(t, Lost)
    BY <1>3, <1>6, LostOK, SurvivesLost
  <2> HIDE DEF Lost
  <2> QED
    BY <1>7, <2>1, LosesPowerOK
<1> QED
  BY <1>2, <1>5, <1>6, <1>7 DEF IInv, OK

LEMMA AddPairingOK ==
    ASSUME IInv, AddPairing
    PROVE  IInv'
<1> DEFINE p == [admin |-> ~AdminFound(kv), ltsk |-> kv.ltsk]
           P == kv.pairings \cup {p}
           k == [kv EXCEPT !.pairings = P]
<1>1. /\ ~v.connected => AdminFound(kv)
      /\ Handler(<<k>>, v, h)
  BY DEF AddPairing
<1>2. StoreOK(kv, v, h) /\ ProcessOK(v, h) /\ kv \in Store
  BY DEF IInv, OK, StoreOK
<1> DEFINE a == ~AdminFound(kv)
<1>3. /\ p \in [admin: BOOLEAN, ltsk: Identities]
      /\ p.admin = a /\ p.ltsk = kv.ltsk
  <2>1. AdminFound(kv) \in BOOLEAN
    BY DEF AdminFound
  <2>2. a \in BOOLEAN
    BY <2>1
  <2>3. p = [admin |-> a, ltsk |-> kv.ltsk] /\ kv.ltsk \in Identities
    BY <1>2, StoreFields
  <2> HIDE DEF a, p
  <2> QED
    BY <2>2, <2>3
<1> HIDE DEF p
<1>8. P \in SUBSET [admin: BOOLEAN, ltsk: Identities]
  BY <1>2, <1>3, StoreFields
<1>4. kv.ltsk # 0 => \A x \in P : x.ltsk = kv.ltsk
  BY <1>2, <1>3 DEF StoreOK, IdentityOK
<1>5. \E x \in P : x.admin
  <2>1. CASE AdminFound(kv)
    BY <2>1 DEF AdminFound
  <2>2. CASE ~AdminFound(kv)
    <3>1. p \in P /\ p.admin = TRUE
      BY <1>3, <2>2
    <3> QED
      BY <3>1
  <2> QED
    BY <2>1, <2>2
<1> HIDE DEF P
<1>6. StoreOK(k, v, h)
  BY <1>2, <1>4, <1>5, <1>8, PairedOK
<1> HIDE DEF k
<1>7. Last(<<k>>) = k /\ Survives(<<k>>, h)
  BY <1>6, SingleOK
<1> QED
  BY <1>1, <1>2, <1>6, <1>7, HandlerOK DEF OK

LEMMA RemovePairingOK ==
    ASSUME IInv, RemovePairing
    PROVE  IInv'
<1>1. PICK p \in kv.pairings :
        LET t == Then(<<[kv EXCEPT !.pairings = @ \ {p}]>>, CleanupPairings)
            w == IF Last(t).pairings = {} THEN [v EXCEPT !.session = 0] ELSE v
        IN  Handler(t, w, IF AdminFound(Last(t)) THEN h
                          ELSE [h EXCEPT !.known = None, !.missed = FALSE])
  BY DEF RemovePairing
<1> DEFINE P == kv.pairings \ {p}
           k == [kv EXCEPT !.pairings = P]
           u == CleanupPairings(Last(<<k>>))
           t == <<k>> \o u
           q == Last(t)
           w == IF q.pairings = {} THEN [v EXCEPT !.session = 0] ELSE v
           forgotten == [h EXCEPT !.known = None, !.missed = FALSE]
           g == IF AdminFound(q) THEN h ELSE forgotten
<1>2. Handler(t, w, g)
  BY <1>1 DEF Then
<1>3. /\ Serving(v) /\ v \in Memory /\ h \in History /\ kv \in Store
      /\ ProcessOK(v, h) /\ StoreOK(kv, v, h)
  BY DEF RemovePairing, Serving, IInv, OK, ProcessOK, StoreOK
<1>4. ProcessOK(Off, h) /\ StoreOK(kv, Off, h)
  BY <1>3, OffOK, Quieter DEF ProcessOK
<1>5. /\ P \in SUBSET [admin: BOOLEAN, ltsk: Identities]
      /\ kv.ltsk # 0 => \A x \in P : x.ltsk = kv.ltsk
      /\ kv.ltsk # 0
  BY <1>3, StoreFields DEF StoreOK, IdentityOK
<1> HIDE DEF P
<1>6. k.ltsk = kv.ltsk /\ k.fw = kv.fw /\ k.pairings = P
  BY <1>3, <1>5 DEF Store
<1>7. StoreOK(k, Off, h)
  BY <1>4, <1>5, OffOK, PairedOK
<1>8. AdminFound(k) => StoreOK(k, v, h) /\ P # {}
  BY <1>3, <1>5, <1>6, PairedOK DEF AdminFound
<1> HIDE DEF k
<1>9. Trail(<<k>>, h) /\ Last(<<k>>) = k
  BY <1>7, SingleTrail
<1>10. /\ Trail(u, h) /\ Last(u).fw = k.fw /\ Last(u).ltsk = k.ltsk
       /\ AdminFound(k) => Last(u) = k
       /\ ~AdminFound(k) => Last(u).exp = 0 /\ Last(u).pairings = {}
  BY <1>7, <1>9, CleanedOK
<1> HIDE DEF u
<1>11. Trail(t, h) /\ q = Last(u)
  BY <1>9, <1>10, Joined
<1> HIDE DEF t, q
<1>12. StoreOK(q, Off, h) /\ Survives(t, h) /\ q = Last(t)
  BY <1>11, LastOK, TrailSurvives DEF q
<1>13. OK(q, w, g)
  <2>1. CASE AdminFound(k)
    <3>1. AdminFound(q) /\ q = k /\ w = v /\ g = h
      BY <1>6, <1>8, <1>10, <1>11, <2>1
    <3> QED
      BY <1>3, <1>8, <2>1, <3>1 DEF OK
  <2>2. CASE ~AdminFound(k)
    <3>1. q.exp = 0 /\ q.pairings = {} /\ q.ltsk = kv.ltsk /\ q.fw = kv.fw
      BY <1>6, <1>10, <1>11, <2>2
    <3>2. ~AdminFound(q)
      BY <3>1 DEF AdminFound
    <3>3. w = [v EXCEPT !.session = 0] /\ g = forgotten
      BY <3>1, <3>2
    <3>4. /\ w \in Memory /\ w.session = 0 /\ w.connected = v.connected
          /\ w.event = v.event /\ w.state = v.state /\ w.fastStarted = v.fastStarted
      BY <1>3, <3>3, Numbers DEF Memory
    <3>5. /\ g \in History /\ g.known = None /\ ~g.missed /\ SameRecord(h, g)
      BY <1>3, <3>3 DEF History, SameRecord
    <3> HIDE DEF w, g
    <3>6. ProcessOK(w, g)
      BY <1>3, <3>4, <3>5 DEF ProcessOK, Serving
    <3>7. PartialPurge \/ Rollback \/ ~Torn(q, h)
      BY <1>3, <3>1 DEF StoreOK, KeyOK, Torn
    <3>8. StoreOK(q, w, h)
      BY <1>5, <1>12, <3>1, <3>4, <3>7, ServesOK
    <3>9. StoreOK(q, w, g)
      BY <3>5, <3>8, Forgetful
    <3> QED
      BY <3>6, <3>9 DEF OK
  <2> QED
    BY <2>1, <2>2
<1> HIDE DEF w, g
<1> QED
  BY <1>2, <1>3, <1>12, <1>13, HandlerOK



-----------------------------------------------------------------------------
(***************************************************************************)
(* Events and timers.                                                      *)
(***************************************************************************)

\* An event that is missed, after the number has been incremented for another.
LEMMA MissedOK ==
    ASSUME NEW k, NEW w, NEW g, StoreOK(k, w, g), GSN(k).inc,
           NEW g2, SameRecord(g, g2), g2.known = g.known
    PROVE  StoreOK(k, w, g2)
<1>1. KnownOK(k, g2)
  BY DEF StoreOK, KnownOK
<1>2. RanOK(k, g) => RanOK(k, g2)
  BY DEF RanOK, SameRecord
<1>3. KeyOK(k, w, g) => KeyOK(k, w, g2)
  BY DEF KeyOK, SentOK, Torn, Behind, SameRecord
<1> QED
  BY <1>1, <1>2, <1>3 DEF StoreOK, MadeOK, SameRecord

\* The process is the same but for its timers and its broadcast.
LEMMA SameProcess ==
    ASSUME ProcessOK(v, h), NEW w \in Memory, NEW g \in History,
           w.state = v.state, w.connected = v.connected, w.session = v.session,
           w.event = None \/ w.event = v.event \/ ~v.connected,
           g.sessions = h.sessions, g.known = h.known,
           g.missed => g.known # None
    PROVE  ProcessOK(w, g)
BY DEF ProcessOK, Serving

LEMMA BroadcastEventOK ==
    ASSUME IInv, NEW c \in Broadcasts, ~v.connected, v.fastStarted,
           kv.exp \notin {0, GSN(kv).n}, BroadcastEvent(c)
    PROVE  IInv'
<1> DEFINE calm == [v EXCEPT !.timer = FALSE, !.event = None]
           Sending(x) == [v EXCEPT !.timer = TRUE, !.event = [char |-> c, value |-> x]]
           t == IncrementGSN(kv)
           g == [h EXCEPT !.missed = h.known # None]
<1>1. \/ Handler(<<kv>>, calm, h)
      \/ Handler(t, calm, g)
      \/ \E x \in Values : Handler(t, Sending(x), g)
  BY DEF BroadcastEvent, Broadcasting
<1>2. /\ v \in Memory /\ h \in History /\ StoreOK(kv, v, h) /\ ProcessOK(v, h)
  BY DEF IInv, OK, ProcessOK
<1>3. /\ g \in History /\ g.known = h.known /\ (g.missed => g.known # None)
      /\ SameRecord(h, g) /\ g.sessions = h.sessions
  BY <1>2 DEF History, SameRecord
<1> HIDE DEF g
<1>4. /\ calm \in Memory /\ calm.state = v.state /\ calm.connected = v.connected
      /\ calm.session = v.session /\ calm.event = None /\ calm.fastStarted = v.fastStarted
  BY <1>2 DEF Memory
<1>5. ASSUME NEW x \in Values
      PROVE  LET w == Sending(x)
             IN  /\ w \in Memory /\ w.state = v.state /\ w.connected = v.connected
                 /\ w.session = v.session /\ w.fastStarted = v.fastStarted
  <2>1. [char |-> c, value |-> x] \in Event
    BY DEF Event
  <2> QED
    BY <1>2, <2>1 DEF Memory
<1> HIDE DEF calm, Sending
<1>6. ASSUME NEW w \in Memory, w.state = v.state, w.connected = v.connected,
             w.session = v.session, w.fastStarted = v.fastStarted
      PROVE  Survives(t, h) /\ OK(Last(t), w, g)
  <2>1. Serving(w) <=> Serving(v)
    BY <1>6 DEF Serving
  <2>2. Survives(t, h) /\ StoreOK(Last(t), w, g)
    BY <1>2, <1>3, <1>6, <2>1, IncrementOK
  <2>3. ProcessOK(w, g)
    BY <1>2, <1>3, <1>6, SameProcess
  <2> QED
    BY <2>2, <2>3 DEF OK
<1> HIDE DEF t
<1>7. CASE Handler(<<kv>>, calm, h)
  <2>1. ProcessOK(calm, h)
    BY <1>2, <1>4, SameProcess DEF ProcessOK
  <2>2. StoreOK(kv, calm, h)
    BY <1>2, <1>4, Quieter DEF Serving
  <2>3. Last(<<kv>>) = kv /\ Survives(<<kv>>, h)
    BY <1>2, SingleOK
  <2> QED
    BY <1>2, <1>7, <2>1, <2>2, <2>3, HandlerOK DEF OK
<1>8. CASE Handler(t, calm, g)
  BY <1>2, <1>4, <1>6, <1>8, HandlerOK
<1>9. ASSUME NEW x \in Values, Handler(t, Sending(x), g) PROVE IInv'
  BY <1>2, <1>5, <1>6, <1>9, HandlerOK
<1> QED
  BY <1>1, <1>7, <1>8, <1>9

LEMMA DisconnectedEventOK ==
    ASSUME IInv, v.fastStarted, DisconnectedEvent
    PROVE  IInv'
<1> DEFINE w == AssertsQuiet(v)
           t == IncrementGSN(kv)
           g == [h EXCEPT !.missed = ~v.connected /\ h.known # None]
<1>1. /\ v \in Memory /\ h \in History /\ StoreOK(kv, v, h) /\ ProcessOK(v, h)
      /\ v.connected \in BOOLEAN
  BY DEF IInv, OK, ProcessOK, Memory
<1>2. /\ g \in History /\ g.known = h.known /\ (g.missed => g.known # None)
      /\ SameRecord(h, g) /\ g.sessions = h.sessions
  BY <1>1 DEF History, SameRecord
<1>3. /\ w \in Memory /\ w.state = v.state /\ w.connected = v.connected
      /\ w.session = v.session /\ w.event = v.event /\ w.fastStarted = v.fastStarted
  BY <1>1, QuietFields
<1>4. CASE GSN(kv).inc
  <2>1. kv' = kv /\ v' = v /\ h' = g
    BY <1>4 DEF DisconnectedEvent
  <2> HIDE DEF g
  <2>2. ProcessOK(v, g)
    BY <1>1, <1>2, SameProcess
  <2>3. StoreOK(kv, v, g)
    BY <1>1, <1>2, <1>4, MissedOK
  <2> QED
    BY <2>1, <2>2, <2>3 DEF IInv, OK
<1>5. ASSUME ~GSN(kv).inc, NEW u \in Memory, u.state = v.state, u.connected = v.connected,
             u.session = v.session, u.event = v.event, u.fastStarted = v.fastStarted
      PROVE  Survives(t, h) /\ OK(Last(t), u, g)
  <2> HIDE DEF g
  <2>1. Serving(u) <=> Serving(v)
    BY <1>5 DEF Serving
  <2>2. Survives(t, h) /\ StoreOK(Last(t), u, g)
    BY <1>1, <1>2, <1>5, <2>1, IncrementOK
  <2>3. ProcessOK(u, g)
    BY <1>1, <1>2, <1>5, SameProcess
  <2> QED
    BY <2>2, <2>3 DEF OK
<1>6. CASE ~GSN(kv).inc /\ v.connected
  <2>1. \/ kv' = Last(t) /\ v' = w /\ h' = g
        \/ LosesPower(t, Lost)
    BY <1>6 DEF DisconnectedEvent
  <2> HIDE DEF t, w, g
  <2>2. Survives(t, h) /\ OK(Last(t), w, g)
    BY <1>3, <1>5, <1>6
  <2>3. CASE LosesPower(t, Lost)
    <3>1. ProcessOK(Off, Lost) /\ Survives(t, Lost)
      BY <1>1, <2>2, LostOK, SurvivesLost
    <3> HIDE DEF Lost
    <3> QED
      BY <2>3, <3>1, LosesPowerOK
  <2> QED
    BY <2>1, <2>2, <2>3 DEF IInv
<1>7. CASE ~GSN(kv).inc /\ ~v.connected
  <2>1. PICK b \in BOOLEAN : Handler(t, [w EXCEPT !.timer = b], g)
    BY <1>7 DEF DisconnectedEvent
  <2> HIDE DEF t, w, g
  <2> DEFINE u == [w EXCEPT !.timer = b]
  <2>2. /\ u \in Memory /\ u.state = v.state /\ u.connected = v.connected
        /\ u.session = v.session /\ u.event = v.event /\ u.fastStarted = v.fastStarted
    BY <1>3 DEF Memory
  <2> HIDE DEF u
  <2>3. Survives(t, h) /\ OK(Last(t), u, g)
    BY <1>5, <1>7, <2>2
  <2> QED
    BY <1>1, <2>1, <2>3, HandlerOK DEF u
<1> QED
  BY <1>1, <1>4, <1>6, <1>7

LEMMA DidRaiseEventOK ==
    ASSUME IInv, NEW c \in Chars, DidRaiseEvent(c)
    PROVE  IInv'
<1>1. v.fastStarted
  BY DEF DidRaiseEvent
<1>2. CASE /\ c \in Broadcasts \cap kv.enabled /\ ~v.connected
           /\ kv.exp \notin {0, GSN(kv).n}
  <2>1. BroadcastEvent(c)
    BY <1>2 DEF DidRaiseEvent
  <2> QED
    BY <1>1, <1>2, <2>1, BroadcastEventOK
<1>3. CASE ~(/\ c \in Broadcasts \cap kv.enabled /\ ~v.connected
             /\ kv.exp \notin {0, GSN(kv).n})
  <2>1. DisconnectedEvent
    BY <1>3 DEF DidRaiseEvent
  <2> QED
    BY <1>1, <2>1, DisconnectedEventOK
<1> QED
  BY <1>2, <1>3

\* The process after a timer.
TimerEnds == {[v EXCEPT !.fastTimer = FALSE], [v EXCEPT !.timer = FALSE]}
             \cup {[v EXCEPT !.event = None, !.timer = b] : b \in BOOLEAN}

LEMMA TimerFields ==
    ASSUME v \in Memory, NEW w \in TimerEnds
    PROVE  /\ w \in Memory /\ w.state = v.state /\ w.connected = v.connected
           /\ w.session = v.session /\ w.event \in {None, v.event}
           /\ w.fastStarted = v.fastStarted /\ w.aborted = v.aborted
<1>1. CASE w = [v EXCEPT !.fastTimer = FALSE]
  BY <1>1 DEF Memory
<1>2. CASE w = [v EXCEPT !.timer = FALSE]
  BY <1>2 DEF Memory
<1>3. ASSUME NEW b \in BOOLEAN, w = [v EXCEPT !.event = None, !.timer = b]
      PROVE  /\ w \in Memory /\ w.state = v.state /\ w.connected = v.connected
             /\ w.session = v.session /\ w.event = None
             /\ w.fastStarted = v.fastStarted /\ w.aborted = v.aborted
  BY <1>3 DEF Memory
<1> QED
  BY <1>1, <1>2, <1>3 DEF TimerEnds

LEMMA AdvertisingTimerExpiredOK ==
    ASSUME IInv, AdvertisingTimerExpired
    PROVE  IInv'
<1>1. v \in Memory /\ h \in History /\ StoreOK(kv, v, h) /\ ProcessOK(v, h)
  BY DEF IInv, OK, ProcessOK
<1>2. PICK w \in TimerEnds : Handler(<<kv>>, w, h)
  BY DEF AdvertisingTimerExpired, TimerEnds
<1>3. /\ w \in Memory /\ w.state = v.state /\ w.connected = v.connected
      /\ w.session = v.session /\ w.event \in {None, v.event}
      /\ w.fastStarted = v.fastStarted
  BY <1>1, TimerFields
<1>4. ProcessOK(w, h)
  BY <1>1, <1>3, SameProcess DEF ProcessOK
<1>5. StoreOK(kv, w, h)
  BY <1>1, <1>3, Quieter DEF Serving
<1>6. Last(<<kv>>) = kv /\ Survives(<<kv>>, h)
  BY <1>1, SingleOK
<1> QED
  BY <1>1, <1>2, <1>4, <1>5, <1>6, HandlerOK DEF OK



-----------------------------------------------------------------------------
(***************************************************************************)
(* The theorems.                                                           *)
(***************************************************************************)

LEMMA InitOK ==
    ASSUME Init
    PROVE  IInv
<1>1. /\ kv = [fw |-> 0, cn |-> 0, ltsk |-> 0, gsn |-> None, exp |-> 0, key |-> 0,
               enabled |-> {}, pairings |-> {}]
      /\ v = Off
  BY DEF Init
<1>2. PICK f \in 1 .. MaxFirmware :
         h = [installed |-> f, sent |-> {}, ran |-> {}, known |-> None,
              missed |-> FALSE, sessions |-> 0, resets |-> 0]
  BY DEF Init
<1>3. h \in History
  <2>1. 0 \in 0 .. MaxSessions /\ 0 \in 0 .. MaxResets
    BY Numbers
  <2> QED
    BY <1>2, <2>1 DEF History
<1>4. ProcessOK(v, h)
  BY <1>1, <1>2, <1>3, OffOK DEF ProcessOK
<1>5. kv \in Store
  <2>1. /\ 0 \in 0 .. MaxFirmware /\ 0 \in 0 .. MaxConfig + 1 /\ 0 \in Identities
        /\ 0 \in 0 .. MaxGSN /\ 0 \in 0 .. MaxSessions
    BY Numbers DEF Identities
  <2> QED
    BY <1>1, <2>1 DEF Store
<1>6. kv.exp = 0 /\ kv.ltsk = 0 /\ kv.fw = 0 /\ h.known = None /\ h.sent = {} /\ h.ran = {}
  BY <1>1, <1>2
<1>7. IdentityOK(kv, v) /\ AdminOK(kv, v) /\ KnownOK(kv, h) /\ MadeOK(kv, h) /\ RanOK(kv, h)
  BY <1>1, <1>6, OffOK DEF IdentityOK, AdminOK, KnownOK, MadeOK, RanOK
<1>8. KeyOK(kv, v, h)
  BY <1>6 DEF KeyOK, SentOK, Torn, Behind
<1> QED
  BY <1>4, <1>5, <1>7, <1>8 DEF IInv, OK, StoreOK

LEMMA NextOK ==
    ASSUME IInv, [Next]_vars
    PROVE  IInv'
<1>1. CASE Next
  BY <1>1, PowerUpOK, PowerLossOK, StartOK, StopOK, FactoryResetOK, RemoveAllPairingsOK,
     DidConnectOK, DidDisconnectOK, SecureOK, BroadcastGenerateKeyOK,
     ConfigureBroadcastsOK, DidSendEventNotificationOK, AddPairingOK, RemovePairingOK,
     DidRaiseEventOK, AdvertisingTimerExpiredOK
  DEF Next
<1>2. CASE UNCHANGED vars
  BY <1>2 DEF vars, IInv
<1> QED
  BY <1>1, <1>2

\* The inductive invariant holds, whatever is bounded and whatever may happen: power
\* losses, resets that are interrupted, pairings that another transport removes.
THEOREM StoreInvariance == Spec => []IInv
<1>1. Init => IInv
  BY InitOK
<1>2. IInv /\ [Next]_vars => IInv'
  BY NextOK
<1> QED
  BY <1>1, <1>2, PTL DEF Spec

\* The store, the process and what is recorded of them have their types: the
\* configuration number stays within its bound, the global state number within
\* UINT16_MAX, and never zero.
THEOREM TypeCorrect == Spec => []TypeOK
<1>1. IInv => TypeOK
  BY DEF IInv, OK, ProcessOK, StoreOK, TypeOK
<1> QED
  BY <1>1, StoreInvariance, PTL

\* A server runs with pairings of its own identity alone, although a purge that power
\* was lost in may leave any of the keys of the configuration behind.
THEOREM PairingsOfIdentity == Spec => []PairingsMatchIdentity
<1>1. IInv => PairingsMatchIdentity
  BY DEF IInv, OK, StoreOK, IdentityOK, Serving, PairingsMatchIdentity
<1> QED
  BY <1>1, StoreInvariance, PTL

\* No broadcast key and no pairing is in force without an administrator.
THEOREM KeysOfPairings == Spec => []KeyNeedsPairing
<1>1. IInv => KeyNeedsPairing
  BY DEF IInv, OK, StoreOK, AdminOK, Serving, KeyNeedsPairing
<1> QED
  BY <1>1, StoreInvariance, PTL

\* A controller that missed an event is told so, whatever was lost or updated since.
THEOREM MissedSignalled == Spec => []MissedEventSignalled
<1>1. IInv => MissedEventSignalled
  <2> SUFFICES ASSUME IInv, h.missed, kv.cn = h.known.cn
               PROVE  GSN(kv).n # h.known.n
    BY DEF MissedEventSignalled
  <2>1. KnownOK(kv, h) /\ h.known # None
    BY DEF IInv, OK, ProcessOK, StoreOK
  <2> QED
    BY <2>1 DEF KnownOK, Since
<1> QED
  BY <1>1, StoreInvariance, PTL

\* No nonce is used twice with a key, while a purge is not interrupted and the
\* firmware does not fall back in the middle of an update.
THEOREM NoncesFresh ==
    ASSUME ~PartialPurge, ~Rollback
    PROVE  Spec => []NonceFresh
<1>1. IInv => NonceFresh
  BY DEF IInv, OK, StoreOK, KeyOK, SentOK, NonceFresh
<1> QED
  BY <1>1, StoreInvariance, PTL

\* A configuration number names one firmware, while a purge is not interrupted.
THEOREM ConfigurationNamed ==
    ASSUME ~PartialPurge
    PROVE  Spec => []ConfigurationNamesFirmware
<1>1. IInv => ConfigurationNamesFirmware
  BY DEF IInv, OK, StoreOK, RanOK, ConfigurationNamesFirmware
<1> QED
  BY <1>1, StoreInvariance, PTL



-----------------------------------------------------------------------------
(***************************************************************************)
(* The assertions, without a removal over another transport and without a  *)
(* warm restart after a reset.                                             *)
(***************************************************************************)

\* The timers: none runs during a connection, the slow one and the broadcast are
\* those of an incremented number and of a key.
TimersOK(k, w, g) ==
    /\ ~w.aborted
    /\ w.connected => ~w.fastTimer /\ ~w.timer
    /\ w.event # None \/ w.timer => w.fastStarted /\ GSN(k).inc
    /\ w.event # None => k.exp # 0
    /\ w.fastStarted \/ Serving(w) =>
          /\ w.state # "Off" /\ k.fw = g.installed /\ k.ltsk # 0
          /\ k.exp # 0 => AdminFound(k)

TInv == TimersOK(kv, v, h) /\ (Serving(v) => v.fastStarted)


LEMMA LossQuiet ==
    ASSUME v' = Off
    PROVE  TInv'
<1>1. ~Off.aborted /\ ~Off.timer /\ Off.event = None /\ ~Off.connected /\ ~Off.fastStarted
      /\ ~Serving(Off)
  BY OffOK DEF Off
<1> QED
  BY <1>1 DEF TInv, TimersOK, Serving

\* A handler that leaves the timers in order starts the advertisements, or it has
\* started them before.
LEMMA HandlerQuiet ==
    ASSUME NEW trail, NEW w \in Memory, NEW g, Last(trail) \in Store,
           TimersOK(Last(trail), w, g),
           Serving(w) => w.fastStarted \/ Active(w),
           Handler(trail, w, g)
    PROVE  TInv'
<1> DEFINE k == Last(trail)
           q == ReadCN(w, k)
           u == UpdateAdvertisingData(w, k)
<1>1. CASE LosesPower(trail, Lost)
  BY <1>1, LossQuiet DEF LosesPower
<1>2. CASE Completes(trail, w, g)
  <2>1. kv' = q /\ v' = u /\ h'.installed = g.installed
    BY <1>2 DEF Completes
  <2> HIDE DEF k
  <2>2. /\ q.exp = k.exp /\ GSN(q) = GSN(k) /\ q.fw = k.fw /\ q.ltsk = k.ltsk
        /\ AdminFound(q) <=> AdminFound(k)
    BY DEF ReadCN, Store, GSN, AdminFound, k
  <2> HIDE DEF q
  <2>3. TimersOK(k, w, g)
    BY DEF k
  <2>4. u = IF Active(w) THEN DidStartAdvertising(w) ELSE w
    BY <2>3 DEF UpdateAdvertisingData, TimersOK
  <2>5. /\ u.state = w.state /\ u.connected = w.connected /\ u.event = w.event
        /\ u.timer = w.timer /\ u.aborted = w.aborted
        /\ u.fastTimer = w.fastTimer \/ ~w.connected
        /\ u.fastStarted <=> w.fastStarted \/ Active(w)
    BY <2>4 DEF DidStartAdvertising, Memory, Active
  <2> HIDE DEF u
  <2>6. Active(w) => Serving(w)
    BY DEF Active, Serving
  <2>7. TimersOK(q, u, g) /\ (Serving(u) => u.fastStarted)
    BY <2>2, <2>3, <2>5, <2>6 DEF TimersOK, Serving
  <2> QED
    BY <2>1, <2>7 DEF TInv, TimersOK
<1> QED
  BY <1>1, <1>2 DEF Handler


\* What the assertions need of a serving process.
LEMMA Facts ==
    ASSUME IInv, TInv
    PROVE  /\ v \in Memory /\ h \in History /\ kv \in Store
           /\ TimersOK(kv, v, h) /\ ~v.aborted
           /\ Serving(v) => v.fastStarted
           /\ v.fastStarted => v.state # "Off" /\ kv.fw = h.installed /\ kv.ltsk # 0
                               /\ (kv.exp # 0 => AdminFound(kv))
           /\ v.event # None \/ v.timer => v.fastStarted /\ GSN(kv).inc
           /\ v.event # None => kv.exp # 0
           /\ v.connected => /\ v.event = None /\ ~v.timer /\ ~v.fastTimer
                             /\ v.fastStarted /\ Serving(v)
           /\ v.state = "Stopping" => v.connected
           /\ v.session # 0 => v.connected
BY DEF IInv, OK, ProcessOK, StoreOK, TInv, TimersOK, Serving

LEMMA PowerUpQuiet ==
    ASSUME IInv, TInv, PowerUp
    PROVE  TInv'
<1>1. /\ v'.state = "Idle" /\ ~v'.aborted /\ ~v'.timer /\ v'.event = None /\ ~v'.connected
      /\ ~v'.fastStarted
  BY OffOK DEF PowerUp, Off
<1> QED
  BY <1>1 DEF TInv, TimersOK, Serving

LEMMA StartQuiet ==
    ASSUME IInv, TInv, Start
    PROVE  TInv'
<1> DEFINE Load(k) == LoadLTSK(k, h.resets + 1)
           t == Then(Then(Versioned(kv), Load), CleanupPairings)
           k == Last(t)
           w == [v EXCEPT !.state = "Running"]
           q == ReadCN(w, k)
           g == [h EXCEPT !.ran = @ \cup {[cn |-> q.cn, fw |-> h.installed]}]
<1>1. /\ Trail(t, h)
      /\ k.fw = h.installed /\ k.ltsk # 0
      /\ k.exp # 0 \/ k.pairings # {} => AdminFound(k)
      /\ kv.fw = h.installed /\ kv.ltsk # 0 =>
            GSN(k) = GSN(kv) /\ (AdminFound(kv) => k = kv)
  BY StartTrail
<1>2. Handler(t, w, g)
  BY DEF Start
<1> HIDE DEF t
<1>3. k \in Store
  BY <1>1, LastOK DEF StoreOK
<1>4. g.installed = h.installed
  OBVIOUS
<1> HIDE DEF g
<1>5. v.state = "Idle"
  BY DEF Start
<1>6. /\ w \in Memory /\ w.state = "Running" /\ w.connected = v.connected
      /\ w.event = v.event /\ w.timer = v.timer /\ w.fastTimer = v.fastTimer
      /\ w.fastStarted = v.fastStarted /\ w.aborted = v.aborted
  BY Facts DEF Memory
<1> HIDE DEF w
<1>7. ~w.connected
  BY <1>5, <1>6, Facts DEF Serving
<1>8. /\ ~w.aborted
      /\ w.event # None \/ w.timer => w.fastStarted /\ GSN(k).inc
      /\ w.event # None => k.exp # 0
  BY <1>1, <1>6, Facts
<1>9. TimersOK(k, w, g)
  BY <1>1, <1>4, <1>6, <1>7, <1>8 DEF TimersOK
<1>10. Active(w)
  BY <1>6, <1>7 DEF Active
<1> QED
  BY <1>2, <1>3, <1>6, <1>9, <1>10, HandlerQuiet

LEMMA StopQuiet ==
    ASSUME IInv, TInv, Stop
    PROVE  TInv'
<1>1. /\ v.state = "Running" /\ kv' = kv /\ h' = h
      /\ v' = [v EXCEPT !.state = IF v.connected THEN "Stopping" ELSE "Idle"]
  BY DEF Stop
<1>2. /\ v'.state \in {"Idle", "Stopping"} /\ v'.connected = v.connected
      /\ v'.event = v.event /\ v'.timer = v.timer /\ v'.fastTimer = v.fastTimer
      /\ v'.fastStarted = v.fastStarted /\ v'.aborted = v.aborted
  BY <1>1, Facts DEF Memory
<1> QED
  BY <1>1, <1>2, Facts DEF TInv, TimersOK, Serving

LEMMA ResetQuiet ==
    ASSUME IInv, TInv, ~WarmRestart, FactoryReset \/ RemoveAllPairings
    PROVE  TInv'
<1>1. v.state = "Off" /\ (v' = v \/ v' = Off)
  BY DEF FactoryReset, RemoveAllPairings, Resets, Stopped
<1>2. CASE v' = Off
  BY <1>2, LossQuiet
<1>3. CASE v' = v
  <2>1. /\ ~v.fastStarted /\ v.event = None /\ ~v.timer /\ ~v.connected /\ ~Serving(v)
        /\ ~v.aborted
    BY <1>1, Facts DEF Serving
  <2> QED
    BY <1>3, <2>1 DEF TInv, TimersOK, Serving
<1> QED
  BY <1>1, <1>2, <1>3


\* The stores after a connection and after an event.
LEMMA ClearedSame ==
    ASSUME NEW k \in Store
    PROVE  LET q == ClearIncrement(k)
           IN  /\ q \in Store /\ q.exp = k.exp /\ q.fw = k.fw /\ q.ltsk = k.ltsk
               /\ AdminFound(q) <=> AdminFound(k)
<1> DEFINE c == [GSN(k) EXCEPT !.inc = FALSE]
           q == ClearIncrement(k)
<1>1. c \in [n: Gsns, inc: BOOLEAN]
  BY StoreFields
<1>2. q = [k EXCEPT !.gsn = c]
  BY DEF ClearIncrement
<1> HIDE DEF c, q
<1> QED
  BY <1>1, <1>2 DEF Store, AdminFound, q

LEMMA IncrementSame ==
    ASSUME NEW k \in Store
    PROVE  LET q == Last(IncrementGSN(k))
           IN  /\ q \in Store /\ GSN(q).inc /\ q.fw = k.fw /\ q.ltsk = k.ltsk
               /\ AdminFound(q) <=> AdminFound(k)
               /\ q.exp \in {0, k.exp} /\ (k.exp # GSN(k).n => q.exp = k.exp)
<1> DEFINE e == IF GSN(k).n = k.exp THEN NoParameters(k) ELSE k
           q == Incremented(e)
           c == [n |-> NextNumber(e), inc |-> TRUE]
<1>1. NoParameters(k) \in Store
  <2>1. 0 \in 0 .. MaxGSN /\ 0 \in 0 .. MaxSessions
    BY Numbers
  <2> QED
    BY <2>1 DEF Store, NoParameters
<1>2. /\ e \in Store /\ GSN(e) = GSN(k) /\ e.fw = k.fw /\ e.ltsk = k.ltsk
      /\ e.pairings = k.pairings /\ e.exp \in {0, k.exp}
      /\ (k.exp # GSN(k).n => e.exp = k.exp)
  BY <1>1 DEF NoParameters, GSN, Store
<1>3. Last(IncrementGSN(k)) = q
  BY <1>2 DEF IncrementGSN, Incremented, NextNumber, ExpireKey, Last
<1> HIDE DEF e
<1>4. c \in [n: Gsns, inc: BOOLEAN]
  <2>1. GSN(e).n \in Gsns
    BY <1>2, StoreFields
  <2>2. NextNumber(e) \in Gsns
    BY <2>1, NextAhead DEF NextNumber
  <2> QED
    BY <2>2
<1>5. c # None /\ c.inc = TRUE
  BY <1>4, Numbers
<1>6. q = [e EXCEPT !.gsn = c]
  BY DEF Incremented
<1> HIDE DEF c, q
<1>7. /\ q \in Store /\ q.gsn = c /\ q.fw = e.fw /\ q.ltsk = e.ltsk
      /\ q.pairings = e.pairings /\ q.exp = e.exp
  BY <1>2, <1>4, <1>6 DEF Store
<1> QED
  BY <1>2, <1>3, <1>5, <1>7 DEF GSN, AdminFound

LEMMA DidConnectQuiet ==
    ASSUME IInv, TInv, DidConnect
    PROVE  TInv'
<1> DEFINE g == [h EXCEPT !.known = None, !.missed = FALSE]
           k == ClearIncrement(kv)
           w == [v EXCEPT !.connected = TRUE, !.timer = FALSE,
                          !.fastTimer = FALSE, !.event = None]
<1>1. Completes(<<k>>, w, g) \/ LosesPower(<<k>>, g)
  BY DEF DidConnect
<1>2. v.fastStarted /\ v.state = "Running" /\ ~v.aborted
  BY Facts DEF DidConnect, Active, Serving
<1>3. /\ w \in Memory /\ w.connected /\ w.state = "Running" /\ w.event = None
      /\ ~w.timer /\ ~w.fastTimer /\ w.fastStarted /\ ~w.aborted
  BY <1>2, Facts DEF Memory
<1>4. /\ k \in Store /\ k.exp = kv.exp /\ k.fw = kv.fw /\ k.ltsk = kv.ltsk
      /\ AdminFound(k) <=> AdminFound(kv)
  BY Facts, ClearedSame
<1>5. g.installed = h.installed
  OBVIOUS
<1> HIDE DEF g, k, w
<1>6. TimersOK(k, w, g)
  BY <1>2, <1>3, <1>4, <1>5, Facts DEF TimersOK
<1>7. Last(<<k>>) = k
  BY DEF Last
<1>8. CASE LosesPower(<<k>>, g)
  BY <1>8, LossQuiet DEF LosesPower
<1>9. CASE Completes(<<k>>, w, g)
  BY <1>3, <1>4, <1>6, <1>7, <1>9, HandlerQuiet DEF Handler
<1> QED
  BY <1>1, <1>8, <1>9

LEMMA DidDisconnectQuiet ==
    ASSUME IInv, TInv, DidDisconnect
    PROVE  TInv'
<1> DEFINE k == ClearIncrement(kv)
           s == IF v.state = "Stopping" THEN "Idle" ELSE v.state
           w == [v EXCEPT !.connected = FALSE, !.session = 0, !.fastTimer = TRUE,
                          !.state = s]
           g == [h EXCEPT !.known = [n |-> GSN(kv).n, cn |-> kv.cn], !.missed = FALSE]
<1>1. v.connected
  BY DEF DidDisconnect
<1>2. /\ v.fastStarted /\ ~v.fastTimer /\ ~v.timer /\ v.event = None /\ Serving(v)
      /\ v \in Memory /\ ~v.aborted
  BY <1>1, Facts
<1>3. Handler(<<k>>, w, g)
  BY <1>2 DEF DidDisconnect
<1>4. s \in {"Running", "Idle"}
  BY <1>2 DEF Serving
<1>5. /\ w \in Memory /\ ~w.connected /\ w.state = s /\ w.event = None
      /\ ~w.timer /\ w.fastStarted /\ ~w.aborted
  <2> HIDE DEF s
  <2>1. 0 \in 0 .. MaxSessions
    BY Numbers
  <2>2. w \in Memory
    BY <1>2, <1>4, <2>1 DEF Memory
  <2>3. /\ w.connected = FALSE /\ w.state = s /\ w.event = v.event /\ w.timer = v.timer
        /\ w.fastStarted = v.fastStarted /\ w.aborted = v.aborted
    BY <1>2 DEF Memory
  <2> QED
    BY <1>2, <2>2, <2>3
<1>6. /\ k \in Store /\ k.exp = kv.exp /\ k.fw = kv.fw /\ k.ltsk = kv.ltsk
      /\ AdminFound(k) <=> AdminFound(kv)
  BY Facts, ClearedSame
<1>7. g.installed = h.installed
  OBVIOUS
<1> HIDE DEF g, k, w, s
<1>8. TimersOK(k, w, g)
  BY <1>2, <1>4, <1>5, <1>6, <1>7, Facts DEF TimersOK
<1>9. Last(<<k>>) = k
  BY DEF Last
<1> QED
  BY <1>3, <1>5, <1>6, <1>8, <1>9, HandlerQuiet

\* A request of a session: the timers are left as they are.
LEMMA SessionQuiet ==
    ASSUME IInv, TInv, v.connected, IInv', v'.connected, v'.state = v.state, v'.event = v.event,
           v'.timer = v.timer, v'.fastTimer = v.fastTimer, v'.fastStarted = v.fastStarted,
           v'.aborted = v.aborted, kv'.fw = kv.fw, h'.installed = h.installed
    PROVE  TInv'
<1>1. /\ v.event = None /\ ~v.timer /\ ~v.fastTimer /\ v.fastStarted /\ Serving(v)
      /\ ~v.aborted /\ kv.fw = h.installed /\ v.state # "Off"
  BY Facts
<1>2. Serving(v') /\ IdentityOK(kv', v') /\ AdminOK(kv', v')
  BY <1>1 DEF IInv, OK, StoreOK, Serving
<1> QED
  BY <1>1, <1>2 DEF TInv, TimersOK, IdentityOK, AdminOK

LEMMA RequestsQuiet ==
    ASSUME IInv, TInv, IInv',
           Secure \/ BroadcastGenerateKey \/ ConfigureBroadcasts \/ DidSendEventNotification
    PROVE  TInv'
<1>1. v \in Memory /\ h \in History /\ kv \in Store
  BY Facts
<1>2. CASE Secure
  <2>1. /\ v.connected /\ kv' = kv
        /\ v' = [v EXCEPT !.session = h.sessions + 1]
        /\ h' = [h EXCEPT !.sessions = @ + 1]
    BY <1>2 DEF Secure
  <2>2. /\ v'.connected = v.connected /\ v'.state = v.state /\ v'.event = v.event
        /\ v'.timer = v.timer /\ v'.fastTimer = v.fastTimer /\ v'.fastStarted = v.fastStarted
        /\ v'.aborted = v.aborted /\ h'.installed = h.installed
    BY <1>1, <2>1 DEF Memory, History
  <2> QED
    BY <2>1, <2>2, SessionQuiet
<1>3. CASE BroadcastGenerateKey
  <2>1. v.connected /\ v' = v /\ h' = h
    BY <1>3, Facts DEF BroadcastGenerateKey, InSession
  <2>2. kv'.fw = kv.fw
    BY <1>1, <1>3 DEF BroadcastGenerateKey, GenerateKey, Store
  <2> QED
    BY <2>1, <2>2, SessionQuiet
<1>4. CASE ConfigureBroadcasts
  <2>1. v.connected /\ v' = v /\ h' = h
    BY <1>4, Facts DEF ConfigureBroadcasts, InSession
  <2>2. kv'.fw = kv.fw
    BY <1>1, <1>4 DEF ConfigureBroadcasts, Store
  <2> QED
    BY <2>1, <2>2, SessionQuiet
<1>5. CASE DidSendEventNotification
  <2>1. v.connected
    BY <1>5, Facts DEF DidSendEventNotification, InSession
  <2>2. AssertsQuiet(v) = v
    BY <2>1, Facts DEF AssertsQuiet
  <2>3. \/ kv' = Last(IncrementGSN(kv)) /\ v' = v /\ h' = h
        \/ v' = Off
    BY <1>5, <2>2 DEF DidSendEventNotification, LosesPower
  <2>4. Last(IncrementGSN(kv)).fw = kv.fw
    BY <1>1, IncrementSame
  <2> QED
    BY <2>1, <2>3, <2>4, LossQuiet, SessionQuiet
<1> QED
  BY <1>2, <1>3, <1>4, <1>5


LEMMA AddPairingQuiet ==
    ASSUME IInv, TInv, AddPairing
    PROVE  TInv'
<1> DEFINE k == [kv EXCEPT !.pairings = @ \cup {[admin |-> ~AdminFound(kv), ltsk |-> kv.ltsk]}]
<1>1. /\ Handler(<<k>>, v, h) /\ v.state = "Running"
      /\ ~v.connected => AdminFound(kv)
  BY DEF AddPairing
<1>2. PICK P \in SUBSET [admin: BOOLEAN, ltsk: Identities] :
         k = [kv EXCEPT !.pairings = P] /\ kv.pairings \subseteq P
  <2> DEFINE a == ~AdminFound(kv)
             p == [admin |-> a, ltsk |-> kv.ltsk]
  <2>1. AdminFound(kv) \in BOOLEAN
    BY DEF AdminFound
  <2>2. a \in BOOLEAN
    BY <2>1
  <2>3. kv.ltsk \in Identities /\ kv.pairings \in SUBSET [admin: BOOLEAN, ltsk: Identities]
    BY Facts, StoreFields
  <2> HIDE DEF a
  <2>4. p \in [admin: BOOLEAN, ltsk: Identities]
    BY <2>2, <2>3
  <2> HIDE DEF p
  <2>5. kv.pairings \cup {p} \in SUBSET [admin: BOOLEAN, ltsk: Identities]
    BY <2>3, <2>4
  <2>6. k = [kv EXCEPT !.pairings = kv.pairings \cup {p}]
    BY DEF p, a
  <2> HIDE DEF k
  <2> QED
    BY <2>5, <2>6
<1> HIDE DEF k
<1>3. /\ k \in Store /\ k.exp = kv.exp /\ k.fw = kv.fw /\ k.ltsk = kv.ltsk
      /\ GSN(k) = GSN(kv) /\ (AdminFound(kv) => AdminFound(k))
  BY <1>2, Facts DEF Store, GSN, AdminFound
<1>4. TimersOK(k, v, h)
  BY <1>1, <1>3, Facts DEF TimersOK, Serving
<1>5. Last(<<k>>) = k
  BY DEF Last
<1>6. v \in Memory /\ (Serving(v) => v.fastStarted)
  BY Facts
<1> QED
  BY <1>1, <1>3, <1>4, <1>5, <1>6, HandlerQuiet

LEMMA RemovePairingQuiet ==
    ASSUME IInv, TInv, IInv', ~RemoteRemoval, RemovePairing
    PROVE  TInv'
<1>1. PICK p \in kv.pairings :
        LET t == Then(<<[kv EXCEPT !.pairings = @ \ {p}]>>, CleanupPairings)
            w == IF Last(t).pairings = {} THEN [v EXCEPT !.session = 0] ELSE v
        IN  Handler(t, w, IF AdminFound(Last(t)) THEN h
                          ELSE [h EXCEPT !.known = None, !.missed = FALSE])
  BY DEF RemovePairing
<1> DEFINE P == kv.pairings \ {p}
           k == [kv EXCEPT !.pairings = P]
           t == Then(<<k>>, CleanupPairings)
           q == Last(t)
           w == IF q.pairings = {} THEN [v EXCEPT !.session = 0] ELSE v
           g == IF AdminFound(q) THEN h ELSE [h EXCEPT !.known = None, !.missed = FALSE]
<1>2. Handler(t, w, g)
  BY <1>1
<1>3. v.connected
  BY Facts DEF RemovePairing, InSession
<1>4. /\ v \in Memory /\ h \in History /\ kv \in Store
      /\ v.event = None /\ ~v.timer /\ ~v.fastTimer /\ v.fastStarted /\ Serving(v)
      /\ ~v.aborted
  BY <1>3, Facts
<1>5. CASE LosesPower(t, Lost)
  BY <1>5, LossQuiet DEF LosesPower
<1>6. CASE Completes(t, w, g)
  <2>1. q.fw = kv.fw
    <3>1. k \in Store /\ k.fw = kv.fw
      BY <1>4, StoreFields DEF Store
    <3> DEFINE a == [k EXCEPT !.pairings = {}]
               b == NoParameters(a)
    <3>2. a \in Store /\ a.fw = k.fw
      BY <3>1 DEF Store
    <3> HIDE DEF a
    <3>3. b \in Store /\ b.fw = a.fw
      <4>1. 0 \in 0 .. MaxGSN /\ 0 \in 0 .. MaxSessions
        BY Numbers
      <4> QED
        BY <3>2, <4>1 DEF Store, NoParameters
    <3>4. CleanupPairings(k) \in {<<k>>, <<a, b>>}
      BY DEF CleanupPairings, a
    <3> HIDE DEF k, b
    <3> DEFINE u == CleanupPairings(k)
    <3>5. u \in Seq(Store) /\ Len(u) \in 1 .. 2 /\ u[Len(u)] \in {k, b}
      <4>1. /\ <<k>> \in Seq(Store) /\ Len(<<k>>) = 1 /\ <<k>>[1] = k
            /\ <<a, b>> \in Seq(Store) /\ Len(<<a, b>>) = 2 /\ <<a, b>>[2] = b
        BY <3>1, <3>2, <3>3
      <4> HIDE DEF u
      <4>2. CASE u = <<k>>
        BY <4>1, <4>2
      <4>3. CASE u = <<a, b>>
        BY <4>1, <4>3
      <4> QED
        BY <3>4, <4>2, <4>3 DEF u
    <3>6. q \in {k, b}
      <4>1. t = <<k>> \o u
        BY DEF Then, Last
      <4>2. <<k>> \in Seq(Store) /\ Len(<<k>>) = 1
        BY <3>1
      <4> HIDE DEF u, t
      <4>3. Len(t) = 1 + Len(u) /\ t[1 + Len(u)] = u[Len(u)]
        BY <3>5, <4>1, <4>2, ConcatProperties
      <4> QED
        BY <3>5, <4>3 DEF Last
    <3> QED
      BY <3>1, <3>2, <3>3, <3>6
  <2>2. kv'.fw = q.fw /\ v' = UpdateAdvertisingData(w, q) /\ h'.installed = g.installed
    <3> HIDE DEF t, w, g
    <3>1. kv' = ReadCN(w, q)
      BY <1>6 DEF Completes
    <3>2. ReadCN(w, q).fw = q.fw
      BY DEF ReadCN
    <3> QED
      BY <1>6, <3>1, <3>2 DEF Completes
  <2>3. g.installed = h.installed
    BY <1>4 DEF History
  <2>4. /\ w.connected = v.connected /\ w.state = v.state /\ w.event = v.event
        /\ w.timer = v.timer /\ w.fastTimer = v.fastTimer /\ w.fastStarted = v.fastStarted
        /\ w.aborted = v.aborted
    BY <1>4 DEF Memory
  <2> HIDE DEF w, g, t, q
  <2>5. v' = w
    BY <1>3, <2>2, <2>4 DEF UpdateAdvertisingData, Active
  <2> QED
    BY <1>3, <2>1, <2>2, <2>3, <2>4, <2>5, SessionQuiet
<1> QED
  BY <1>2, <1>5, <1>6 DEF Handler


LEMMA EventQuiet ==
    ASSUME IInv, TInv, IInv', NEW c \in Chars, DidRaiseEvent(c)
    PROVE  TInv'
<1> DEFINE q == Last(IncrementGSN(kv))
           g == [h EXCEPT !.missed = h.known # None]
           g2 == [h EXCEPT !.missed = ~v.connected /\ h.known # None]
<1>1. /\ v.fastStarted /\ ~v.aborted /\ v \in Memory /\ kv \in Store
      /\ kv.fw = h.installed /\ kv.ltsk # 0 /\ v.state # "Off"
      /\ kv.exp # 0 => AdminFound(kv)
  BY Facts DEF DidRaiseEvent
<1>2. /\ q \in Store /\ GSN(q).inc /\ q.fw = kv.fw /\ q.ltsk = kv.ltsk
      /\ AdminFound(q) <=> AdminFound(kv)
      /\ q.exp \in {0, kv.exp} /\ (kv.exp # GSN(kv).n => q.exp = kv.exp)
  BY <1>1, IncrementSame
<1>3. g.installed = h.installed /\ g2.installed = h.installed
  OBVIOUS
<1>4. Last(<<kv>>) = kv
  BY DEF Last
<1>5. CASE /\ c \in Broadcasts \cap kv.enabled /\ ~v.connected
           /\ kv.exp \notin {0, GSN(kv).n}
  <2> DEFINE calm == [v EXCEPT !.timer = FALSE, !.event = None]
             Sending(x) == [v EXCEPT !.timer = TRUE, !.event = [char |-> c, value |-> x]]
             t == IncrementGSN(kv)
  <2>1. \/ Handler(<<kv>>, calm, h)
        \/ Handler(t, calm, g)
        \/ \E x \in Values : Handler(t, Sending(x), g)
    BY <1>5 DEF DidRaiseEvent, BroadcastEvent, Broadcasting
  <2>2. /\ calm \in Memory /\ calm.state = v.state /\ calm.connected = v.connected
        /\ calm.event = None /\ ~calm.timer /\ calm.fastStarted = v.fastStarted
        /\ calm.aborted = v.aborted
    BY <1>1 DEF Memory
  <2>3. ASSUME NEW x \in Values
        PROVE  LET w == Sending(x)
               IN  /\ w \in Memory /\ w.state = v.state /\ w.connected = v.connected
                   /\ w.fastStarted = v.fastStarted /\ w.aborted = v.aborted
    <3>1. [char |-> c, value |-> x] \in Event
      BY <1>5 DEF Event
    <3> QED
      BY <1>1, <3>1 DEF Memory
  <2> HIDE DEF calm, Sending, g, q
  <2>4. TimersOK(kv, calm, h)
    BY <1>1, <1>5, <2>2 DEF TimersOK
  <2>5. ASSUME NEW w \in Memory, w.state = v.state, w.connected = v.connected,
               w.fastStarted = v.fastStarted, w.aborted = v.aborted
        PROVE  TimersOK(q, w, g)
    BY <1>1, <1>2, <1>3, <1>5, <2>5 DEF TimersOK
  <2>6. q = Last(t)
    BY DEF q
  <2> HIDE DEF t
  <2>7. CASE Handler(<<kv>>, calm, h)
    BY <1>1, <1>4, <2>2, <2>4, <2>7, HandlerQuiet
  <2>8. CASE Handler(t, calm, g)
    BY <1>1, <1>2, <2>2, <2>5, <2>6, <2>8, HandlerQuiet
  <2>9. ASSUME NEW x \in Values, Handler(t, Sending(x), g) PROVE TInv'
    BY <1>1, <1>2, <2>3, <2>5, <2>6, <2>9, HandlerQuiet
  <2> QED
    BY <2>1, <2>7, <2>8, <2>9
<1>6. CASE ~(/\ c \in Broadcasts \cap kv.enabled /\ ~v.connected
             /\ kv.exp \notin {0, GSN(kv).n})
  <2>1. DisconnectedEvent
    BY <1>6 DEF DidRaiseEvent
  <2>2. CASE GSN(kv).inc
    <3>1. kv' = kv /\ v' = v /\ h'.installed = h.installed
      BY <2>1, <2>2, <1>3 DEF DisconnectedEvent
    <3> QED
      BY <3>1 DEF TInv, TimersOK, Serving
  <2>3. CASE ~GSN(kv).inc
    <3>1. AssertsQuiet(v) = v
      BY <2>3, Facts DEF AssertsQuiet
    <3> HIDE DEF g2
    <3>2. CASE v.connected
      <4>1. \/ kv' = q /\ v' = v /\ h' = g2
            \/ v' = Off
        BY <2>1, <2>3, <3>1, <3>2 DEF DisconnectedEvent, LosesPower, g2
      <4> HIDE DEF q
      <4> QED
        BY <1>2, <1>3, <3>2, <4>1, LossQuiet, SessionQuiet
    <3>3. CASE ~v.connected
      <4> DEFINE t == IncrementGSN(kv)
      <4>1. PICK b \in BOOLEAN : Handler(t, [v EXCEPT !.timer = b], g2)
        BY <2>1, <2>3, <3>1, <3>3 DEF DisconnectedEvent, g2
      <4> DEFINE w == [v EXCEPT !.timer = b]
      <4>2. /\ w \in Memory /\ w.state = v.state /\ w.connected = v.connected
            /\ w.event = v.event /\ w.fastStarted = v.fastStarted /\ w.aborted = v.aborted
        BY <1>1 DEF Memory
      <4>3. v.event = None
        BY <2>3, Facts
      <4>4. q = Last(t)
        OBVIOUS
      <4> HIDE DEF w, q, t
      <4>5. TimersOK(q, w, g2)
        BY <1>1, <1>2, <1>3, <3>3, <4>2, <4>3 DEF TimersOK
      <4> QED
        BY <1>1, <1>2, <4>1, <4>2, <4>4, <4>5, HandlerQuiet DEF w
    <3> QED
      BY <3>2, <3>3
  <2> QED
    BY <2>2, <2>3
<1> QED
  BY <1>5, <1>6

LEMMA TimerQuiet ==
    ASSUME IInv, TInv, AdvertisingTimerExpired
    PROVE  TInv'
<1> DEFINE fast == [v EXCEPT !.fastTimer = FALSE]
           slow == [v EXCEPT !.timer = FALSE]
           Ended(b) == [v EXCEPT !.event = None, !.timer = b]
<1>1. PICK w \in TimerEnds :
         Handler(<<kv>>, w, h) /\ (v.fastTimer \/ v.timer) /\ (w.timer => v.timer)
  <2>1. fast.timer = v.timer /\ ~slow.timer
    BY Facts DEF Memory
  <2>2. \/ v.fastTimer /\ Handler(<<kv>>, fast, h)
        \/ v.timer /\ Handler(<<kv>>, slow, h)
        \/ v.timer /\ \E b \in BOOLEAN : Handler(<<kv>>, Ended(b), h)
    BY DEF AdvertisingTimerExpired
  <2>3. TimerEnds = {fast, slow} \cup {Ended(b) : b \in BOOLEAN}
    BY DEF TimerEnds
  <2> HIDE DEF fast, slow, Ended
  <2> QED
    BY <2>1, <2>2, <2>3
<1>2. /\ v \in Memory /\ kv \in Store /\ TimersOK(kv, v, h)
      /\ Serving(v) => v.fastStarted
  BY Facts
<1>3. /\ w \in Memory /\ w.state = v.state /\ w.connected = v.connected
      /\ w.event \in {None, v.event} /\ w.fastStarted = v.fastStarted
      /\ w.aborted = v.aborted
  BY <1>2, TimerFields
<1>4. ~w.connected
  BY <1>1, <1>3, Facts
<1>5. TimersOK(kv, w, h)
  BY <1>1, <1>2, <1>3, <1>4 DEF TimersOK, Serving
<1>6. Last(<<kv>>) = kv
  BY DEF Last
<1>7. Serving(w) => w.fastStarted
  BY <1>2, <1>3 DEF Serving
<1> QED
  BY <1>1, <1>2, <1>3, <1>5, <1>6, <1>7, HandlerQuiet

LEMMA NextQuiet ==
    ASSUME ~WarmRestart, ~RemoteRemoval, IInv, TInv, [Next]_vars
    PROVE  TInv'
<1>1. IInv'
  BY NextOK
<1>2. CASE UNCHANGED vars
  BY <1>2 DEF vars, TInv
<1>3. CASE PowerLoss
  BY <1>3, LossQuiet DEF PowerLoss, LosesPower
<1>4. CASE Next
  BY <1>1, <1>3, <1>4, PowerUpQuiet, StartQuiet, StopQuiet, ResetQuiet, DidConnectQuiet,
     DidDisconnectQuiet, RequestsQuiet, AddPairingQuiet, RemovePairingQuiet, EventQuiet,
     TimerQuiet
  DEF Next
<1> QED
  BY <1>2, <1>4

\* No assertion on the advertising timers fails and no broadcast lacks its key, while
\* pairings are removed in sessions alone and a server that was reset is released.
THEOREM AssertionsHold ==
    ASSUME ~WarmRestart, ~RemoteRemoval
    PROVE  Spec => []NeverAborted
<1>1. Init => IInv /\ TInv
  <2> SUFFICES ASSUME Init PROVE IInv /\ TInv
    OBVIOUS
  <2>1. /\ ~v.aborted /\ ~v.timer /\ v.event = None /\ ~v.connected /\ ~v.fastStarted
        /\ ~Serving(v)
    BY OffOK DEF Init, Off
  <2> QED
    BY <2>1, InitOK DEF TInv, TimersOK
<1>2. IInv /\ TInv /\ [Next]_vars => (IInv /\ TInv)'
  BY NextOK, NextQuiet
<1>3. IInv /\ TInv => NeverAborted
  BY DEF TInv, TimersOK, NeverAborted
<1> QED
  BY <1>1, <1>2, <1>3, PTL DEF Spec


=============================================================================
