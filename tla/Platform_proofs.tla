---------------------------- MODULE Platform_proofs ----------------------------
(***************************************************************************)
(* Theorems about the run loop with its timers, handles and messages       *)
(* (RunLoop), the TCP streams on it (TCPStreams), the key-value store      *)
(* (KeyValueStore), and what the IP accessory server makes of the bytes    *)
(* that the streams deliver (IPMessages).                                  *)
(***************************************************************************)
EXTENDS TCPStreams, KeyValueStore, IPMessages, SequenceTheorems,
        WellFoundedInduction, TLAPS

-----------------------------------------------------------------------------
(***************************************************************************)
(* The list of file handles.                                               *)
(***************************************************************************)

NoRepeats(seq) == \A i, j \in 1..Len(seq) : seq[i] = seq[j] => i = j

LEMMA SetOfSeq ==
    ASSUME NEW S, NEW seq \in Seq(S)
    PROVE  /\ ToSet(seq) \subseteq S
           /\ \A x : x \in ToSet(seq) <=> \E i \in 1..Len(seq) : seq[i] = x
BY DEF ToSet

LEMMA Appended ==
    ASSUME NEW S, NEW seq \in Seq(S), NEW x \in S \ ToSet(seq), NoRepeats(seq)
    PROVE  LET new == Append(seq, x)
           IN  /\ new \in Seq(S)
               /\ NoRepeats(new)
               /\ ToSet(new) = ToSet(seq) \cup {x}
<1> DEFINE new == Append(seq, x)
<1>1. /\ new \in Seq(S) /\ Len(new) = Len(seq) + 1
      /\ \A i \in 1..Len(seq) : new[i] = seq[i]
      /\ new[Len(seq) + 1] = x
  OBVIOUS
<1>2. \A i \in 1..Len(seq) : seq[i] # x
  BY SetOfSeq
<1> HIDE DEF new
<1>3. NoRepeats(new)
  BY <1>1, <1>2 DEF NoRepeats
<1>4. ASSUME NEW y PROVE y \in ToSet(new) <=> y \in ToSet(seq) \cup {x}
  <2>1. y \in ToSet(new) <=> \E i \in 1..Len(new) : new[i] = y
    BY <1>1, SetOfSeq
  <2>2. y \in ToSet(seq) <=> \E i \in 1..Len(seq) : seq[i] = y
    BY SetOfSeq
  <2> QED
    BY <1>1, <2>1, <2>2
<1> QED
  BY <1>1, <1>3, <1>4 DEF new

LEMMA Removed ==
    ASSUME NEW S, NEW seq \in Seq(S), NEW k \in 1..Len(seq), NoRepeats(seq)
    PROVE  LET new == RemoveAt(seq, k)
           IN  /\ new \in Seq(S) /\ Len(new) = Len(seq) - 1
               /\ \A i \in 1..Len(new) :
                     new[i] = IF i < k THEN seq[i] ELSE seq[i + 1]
               /\ NoRepeats(new)
               /\ ToSet(new) = ToSet(seq) \ {seq[k]}
<1> DEFINE new == RemoveAt(seq, k)
           a == SubSeq(seq, 1, k - 1)
           b == SubSeq(seq, k + 1, Len(seq))
<1>1. /\ a \in Seq(S) /\ Len(a) = k - 1
      /\ \A i \in 1..k - 1 : a[i] = seq[i]
  OBVIOUS
<1>2. /\ b \in Seq(S) /\ Len(b) = Len(seq) - k
      /\ \A i \in 1..Len(seq) - k : b[i] = seq[k + i]
  OBVIOUS
<1>3. new = a \o b
  BY DEF RemoveAt
<1> HIDE DEF a, b, new
<1>4. /\ new \in Seq(S) /\ Len(new) = Len(seq) - 1
      /\ \A i \in 1..Len(new) :
            new[i] = IF i < k THEN seq[i] ELSE seq[i + 1]
  <2>1. new \in Seq(S) /\ Len(new) = Len(a) + Len(b)
    BY <1>1, <1>2, <1>3, ConcatProperties
  <2>2. ASSUME NEW i \in 1..Len(new) PROVE new[i] = IF i < k THEN seq[i] ELSE seq[i + 1]
    <3>1. CASE i < k
      BY <1>1, <1>2, <1>3, <2>1, <3>1
    <3>2. CASE i >= k
      <4>1. new[i] = b[i - (k - 1)] /\ i - (k - 1) \in 1..Len(seq) - k
        BY <1>1, <1>2, <1>3, <2>1, <3>2
      <4>2. k + (i - (k - 1)) = i + 1
        OBVIOUS
      <4> QED
        BY <1>2, <3>2, <4>1, <4>2
    <3> QED
      BY <3>1, <3>2
  <2>3. Len(seq) \in Nat /\ Len(new) = Len(seq) - 1
    BY <1>1, <1>2, <2>1
  <2> QED
    BY <2>1, <2>2, <2>3
<1>5. NoRepeats(new)
  <2> DEFINE From(i) == IF i < k THEN i ELSE i + 1
  <2>1. ASSUME NEW i \in 1..Len(new)
        PROVE  From(i) \in 1..Len(seq) /\ new[i] = seq[From(i)]
    BY <1>4
  <2>2. ASSUME NEW i \in 1..Len(new), NEW j \in 1..Len(new), From(i) = From(j)
        PROVE  i = j
    BY <2>2
  <2> HIDE DEF From
  <2>3. ASSUME NEW i \in 1..Len(new), NEW j \in 1..Len(new), new[i] = new[j]
        PROVE  i = j
    <3>1. From(i) = From(j)
      BY <2>1, <2>3 DEF NoRepeats
    <3> QED
      BY <2>2, <3>1
  <2> QED
    BY <2>3 DEF NoRepeats
<1>6. ASSUME NEW y PROVE y \in ToSet(new) <=> y \in ToSet(seq) \ {seq[k]}
  <2>1. y \in ToSet(new) <=> \E i \in 1..Len(new) : new[i] = y
    BY <1>4, SetOfSeq
  <2>2. y \in ToSet(seq) <=> \E i \in 1..Len(seq) : seq[i] = y
    BY SetOfSeq
  <2>3. ASSUME NEW i \in 1..Len(new), new[i] = y PROVE y \in ToSet(seq) \ {seq[k]}
    <3>1. CASE i < k
      BY SMTT(30), <1>4, <2>2, <2>3, <3>1 DEF NoRepeats
    <3>2. CASE i >= k
      BY <1>4, <2>2, <2>3, <3>2 DEF NoRepeats
    <3> QED
      BY <3>1, <3>2
  <2>4. ASSUME NEW i \in 1..Len(seq), seq[i] = y, y # seq[k] PROVE y \in ToSet(new)
    <3>1. CASE i < k
      BY <1>4, <2>1, <2>4, <3>1
    <3>2. CASE i > k
      <4>1. i - 1 \in 1..Len(new) /\ new[i - 1] = seq[i]
        BY <1>4, <3>2
      <4> QED
        BY <2>1, <2>4, <4>1
    <3> QED
      BY <2>4, <3>1, <3>2
  <2> QED
    BY <2>1, <2>2, <2>3, <2>4
<1> QED
  BY <1>4, <1>5, <1>6 DEF new

\* A list with x put in at place k.
Spliced(new, seq, k, x) ==
    /\ Len(new) = Len(seq) + 1
    /\ \A i \in 1..Len(new) :
          new[i] = IF i < k THEN seq[i] ELSE IF i = k THEN x ELSE seq[i - 1]

LEMMA InsertedAt ==
    ASSUME NEW S, NEW seq \in Seq(S), NEW k \in 1..Len(seq) + 1, NEW x \in S
    PROVE  InsertAt(seq, k, x) \in Seq(S) /\ Spliced(InsertAt(seq, k, x), seq, k, x)
<1> DEFINE new == InsertAt(seq, k, x)
           a == SubSeq(seq, 1, k - 1)
           b == SubSeq(seq, k, Len(seq))
           c == a \o <<x>>
<1>1. /\ a \in Seq(S) /\ Len(a) = k - 1
      /\ \A i \in 1..k - 1 : a[i] = seq[i]
  OBVIOUS
<1>2. /\ b \in Seq(S) /\ Len(b) = Len(seq) - k + 1
      /\ \A i \in 1..Len(seq) - k + 1 : b[i] = seq[k + i - 1]
  OBVIOUS
<1>3. new = c \o b
  BY DEF InsertAt
<1> HIDE DEF a, b
<1>4. /\ c \in Seq(S) /\ Len(c) = k
      /\ \A i \in 1..k - 1 : c[i] = seq[i]
      /\ c[k] = x
  BY <1>1
<1> HIDE DEF c, new
<1>5. new \in Seq(S) /\ Len(new) = Len(seq) + 1
  <2>1. new \in Seq(S) /\ Len(new) = Len(c) + Len(b)
    BY <1>2, <1>3, <1>4, ConcatProperties
  <2> QED
    BY <1>2, <1>4, <2>1
<1>6. ASSUME NEW i \in 1..Len(new)
      PROVE  new[i] = IF i < k THEN seq[i] ELSE IF i = k THEN x ELSE seq[i - 1]
  <2>1. CASE i <= k
    BY <1>2, <1>3, <1>4, <1>5, <2>1
  <2>2. CASE i > k
    <3>1. new[i] = b[i - k] /\ i - k \in 1..Len(seq) - k + 1
      BY <1>2, <1>3, <1>4, <1>5, <2>2
    <3>2. k + (i - k) - 1 = i - 1
      OBVIOUS
    <3> QED
      BY <1>2, <2>2, <3>1, <3>2
  <2> QED
    BY <2>1, <2>2
<1> QED
  BY <1>5, <1>6 DEF new, Spliced

-----------------------------------------------------------------------------
(***************************************************************************)
(* The inductive invariants.                                               *)
(***************************************************************************)

Rounds == {"timers", "handles", "messages"}

\* The list of registered handles and the iterator over it.
ListOK(l, f, c) ==
    /\ l \in Seq(Handles) /\ NoRepeats(l)
    /\ f \in [Handles -> Handle]
    /\ c # End => c \in ToSet(l)
    /\ \A g, h \in ToSet(l) : f[g].fd = f[h].fd => g = h

\* A handle that still awaits its events is the one that was polled for them.
RoundOK(l, f, reported) ==
    \A h \in ToSet(l) : f[h].awaiting =>
       \A e \in Events : <<f[h].fd, e>> \in reported => e \in f[h].polled

\* Who holds which handle.
OwnersOK(l, owner, st) ==
    /\ owner # NoHandle => owner \in l \ {PipeHandle}
    /\ st \in [Streams -> [handle : Handles \cup {NoHandle}, interests : SUBSET Events]]
    /\ \A s \in Streams : st[s].handle # NoHandle =>
          /\ st[s].handle \in l \ {PipeHandle, owner}
          /\ \A t \in Streams : st[t].handle = st[s].handle => t = s
HInv ==
    /\ ListOK(list, fh, cursor)
    /\ pc \in Rounds => RoundOK(list, fh, selected)
    /\ call # NoCall => pc \in Rounds
    /\ call.kind = "handle" => call.events \subseteq call.polled
    /\ state # "Released" => PipeHandle \in ToSet(list)
    /\ state = "Released" => pc = "out" /\ call = NoCall
    /\ OwnersOK(ToSet(list), listener, stream)

\* The bytes of the context of the callback that runs are still in the buffer.
Skip == IF call.kind = "message" THEN Len(call.context) ELSE 0

\* What was scheduled and not called yet: in the buffer and in the pipe.
Rest(b, n, p) == SubSeq(b, n + 1, Len(b)) \o p
Unread == Rest(buf, Skip, pipe)

\* One of its bytes, and that two splits have the same bytes.
ByteAt(b, n, p, k) == IF k <= Len(b) - n THEN b[n + k] ELSE p[k - (Len(b) - n)]
SameBytes(b, n, p, c, m, q) ==
    /\ Len(b) - n + Len(p) = Len(c) - m + Len(q)
    /\ \A k \in 1..Len(b) - n + Len(p) : ByteAt(b, n, p, k) = ByteAt(c, m, q, k)

Cells == Nat \X Nat

\* Where each of the messages starts in the stream of all bytes ever written.
Offsets(off, sizes) ==
    /\ off \in [1..Len(sizes) + 1 -> Nat]
    /\ off[1] = 0
    /\ \A i \in 1..Len(sizes) : off[i + 1] = off[i] + 2 + sizes[i]
    /\ \A i, j \in 1..Len(sizes) + 1 : i <= j => off[i] <= off[j]

\* The bytes are the messages after the first n, whole and in order.
Framed(off, bytes, sizes, n) ==
    /\ Len(bytes) = off[Len(sizes) + 1] - off[n + 1]
    /\ \A i \in n + 1..Len(sizes) : \A p \in 0..1 + sizes[i] :
          bytes[off[i] - off[n + 1] + p + 1] = <<i, p>>

Whole(bytes, sizes, n) ==
    \E off : Offsets(off, sizes) /\ Framed(off, bytes, sizes, n)

MessagesInv ==
    /\ sent \in Seq(Sizes) /\ ran \in 0..Len(sent)
    /\ buf \in Seq(Cells) /\ pipe \in Seq(Cells)
    /\ Skip \in 0..Len(buf) /\ Len(buf) <= BufSize
    /\ call.kind = "message" => ran >= 1
    /\ CallbacksInOrder
    /\ state # "Released" => Whole(Unread, sent, ran)

-----------------------------------------------------------------------------
(***************************************************************************)
(* The operations on the list of handles.                                  *)
(***************************************************************************)

LEMMA PipeTypes == PipeHandle \in Handles /\ PipeFd \in Fds
BY RunLoopAssumption DEF PipeHandle, PipeFd

LEMMA ListMembers ==
    ASSUME NEW l, NEW f, NEW c, ListOK(l, f, c)
    PROVE  ToSet(l) \subseteq Handles
BY SetOfSeq DEF ListOK

\* A new handle, with a descriptor that no other one has.
LEMMA EntryAdded ==
    ASSUME NEW l, NEW f, NEW c, ListOK(l, f, c),
           NEW h \in Handles \ ToSet(l), NEW d \in Fds, NEW i \in SUBSET Events,
           \A g \in ToSet(l) : f[g].fd # d
    PROVE  LET m == Append(l, h)
               n == [f EXCEPT ![h] = NewHandle(d, i)]
           IN  /\ ListOK(m, n, c)
               /\ ToSet(m) = ToSet(l) \cup {h}
               /\ \A r : RoundOK(l, f, r) => RoundOK(m, n, r)
<1> DEFINE m == Append(l, h)
           n == [f EXCEPT ![h] = NewHandle(d, i)]
<1>1. /\ l \in Seq(Handles) /\ NoRepeats(l) /\ f \in [Handles -> Handle]
      /\ ToSet(l) \subseteq Handles
  BY ListMembers DEF ListOK
<1>2. m \in Seq(Handles) /\ NoRepeats(m) /\ ToSet(m) = ToSet(l) \cup {h}
  BY <1>1, Appended
<1>3. NewHandle(d, i) \in Handle /\ NewHandle(d, i).fd = d /\ ~NewHandle(d, i).awaiting
  BY DEF NewHandle, Handle
<1>4. /\ n \in [Handles -> Handle]
      /\ n[h] = NewHandle(d, i)
      /\ \A g \in ToSet(l) : n[g] = f[g]
  BY <1>1, <1>3
<1> HIDE DEF m, n
<1>5. c # End => c \in ToSet(m)
  BY <1>2 DEF ListOK
<1>6. \A a, b \in ToSet(m) : n[a].fd = n[b].fd => a = b
  BY <1>2, <1>3, <1>4 DEF ListOK
<1>7. ASSUME NEW r, RoundOK(l, f, r) PROVE RoundOK(m, n, r)
  BY <1>2, <1>3, <1>4, <1>7 DEF RoundOK
<1>8. ListOK(m, n, c)
  BY <1>2, <1>4, <1>5, <1>6 DEF ListOK
<1> QED
  BY <1>2, <1>7, <1>8 DEF m, n

LEMMA InterestsSet ==
    ASSUME NEW l, NEW f, NEW c, ListOK(l, f, c), NEW h \in Handles, NEW i \in SUBSET Events
    PROVE  LET n == [f EXCEPT ![h].interests = i]
           IN  /\ ListOK(l, n, c)
               /\ \A r : RoundOK(l, f, r) => RoundOK(l, n, r)
<1> DEFINE n == [f EXCEPT ![h].interests = i]
           e == [f[h] EXCEPT !.interests = i]
<1>1. f \in [Handles -> Handle] /\ ToSet(l) \subseteq Handles
  BY ListMembers DEF ListOK
<1>2. /\ e \in Handle /\ e.fd = f[h].fd /\ e.awaiting = f[h].awaiting
      /\ e.polled = f[h].polled
  BY <1>1 DEF Handle
<1>3. n = [f EXCEPT ![h] = e]
  OBVIOUS
<1> HIDE DEF e
<1>4. /\ n \in [Handles -> Handle]
      /\ \A g \in Handles : /\ n[g].fd = f[g].fd /\ n[g].awaiting = f[g].awaiting
                            /\ n[g].polled = f[g].polled
  BY <1>1, <1>2, <1>3
<1> HIDE DEF n
<1>5. ListOK(l, n, c)
  BY <1>1, <1>4 DEF ListOK
<1>6. ASSUME NEW r, RoundOK(l, f, r) PROVE RoundOK(l, n, r)
  BY <1>1, <1>4, <1>6 DEF RoundOK
<1> QED
  BY <1>5, <1>6 DEF n

LEMMA FollowingInList ==
    ASSUME ListOK(list, fh, cursor), NEW h \in ToSet(list)
    PROVE  Following(h) # End => Following(h) \in ToSet(list) \ {h}
<1>1. list \in Seq(Handles) /\ NoRepeats(list)
  BY DEF ListOK
<1>2. CASE \E i \in 1..Len(list) - 1 : list[i] = h
  <2> DEFINE k == CHOOSE i \in 1..Len(list) - 1 : list[i] = h
  <2>1. k \in 1..Len(list) - 1 /\ list[k] = h
    BY <1>2
  <2>2. Following(h) = list[1 + k]
    BY <1>2 DEF Following
  <2> HIDE DEF k
  <2>3. 1 + k \in 1..Len(list) /\ list[1 + k] # list[k]
    BY <1>1, <2>1 DEF NoRepeats
  <2> QED
    BY <1>1, <2>1, <2>2, <2>3, SetOfSeq
<1>3. CASE ~ \E i \in 1..Len(list) - 1 : list[i] = h
  BY <1>3 DEF Following
<1> QED
  BY <1>2, <1>3

\* A handle is removed: the iterator steps over it, and no other one is affected.
LEMMA EntryRemoved ==
    ASSUME ListOK(list, fh, cursor), NEW h \in ToSet(list)
    PROVE  LET n == [fh EXCEPT ![h] = Freed]
           IN  /\ ListOK(Unlinked(h), n, AfterDeregister(h))
               /\ ToSet(Unlinked(h)) = ToSet(list) \ {h}
               /\ \A r : RoundOK(list, fh, r) => RoundOK(Unlinked(h), n, r)
<1> DEFINE n == [fh EXCEPT ![h] = Freed]
           k == CHOOSE i \in DOMAIN list : list[i] = h
<1>1. /\ list \in Seq(Handles) /\ NoRepeats(list) /\ fh \in [Handles -> Handle]
      /\ ToSet(list) \subseteq Handles
  BY ListMembers DEF ListOK
<1>2. k \in 1..Len(list) /\ list[k] = h
  BY <1>1, SetOfSeq
<1>3. Unlinked(h) = RemoveAt(list, k)
  BY DEF Unlinked
<1> HIDE DEF k
<1>4. /\ Unlinked(h) \in Seq(Handles) /\ NoRepeats(Unlinked(h))
      /\ ToSet(Unlinked(h)) = ToSet(list) \ {h}
  BY <1>1, <1>2, <1>3, Removed
<1>5. Freed \in Handle
  BY DEF Freed, Handle
<1>6. n \in [Handles -> Handle] /\ \A g \in ToSet(list) \ {h} : n[g] = fh[g]
  BY <1>1, <1>5
<1> HIDE DEF n
<1>7. AfterDeregister(h) # End => AfterDeregister(h) \in ToSet(list) \ {h}
  <2>1. CASE cursor = h
    BY <2>1, FollowingInList DEF AfterDeregister
  <2>2. CASE cursor # h
    BY <2>2 DEF AfterDeregister, ListOK
  <2> QED
    BY <2>1, <2>2
<1>8. ListOK(Unlinked(h), n, AfterDeregister(h))
  BY <1>4, <1>6, <1>7 DEF ListOK
<1>9. ASSUME NEW r, RoundOK(list, fh, r) PROVE RoundOK(Unlinked(h), n, r)
  BY <1>4, <1>6, <1>9 DEF RoundOK
<1> QED
  BY <1>4, <1>8, <1>9 DEF n

\* The descriptor of a new handle is free.
LEMMA LowestFreeUnused ==
    ASSUME NEW d \in LowestFree
    PROVE  d \in Fds /\ \A g \in ToSet(list) : fh[g].fd # d
BY DEF LowestFree, UsedFds

-----------------------------------------------------------------------------
(***************************************************************************)
(* The handles, action by action.                                          *)
(***************************************************************************)

LEMMA HInvInit ==
    ASSUME LoopInit, TCPInit
    PROVE  HInv
<1> DEFINE f == [h \in Handles |-> IF h = PipeHandle THEN NewHandle(PipeFd, {"read"}) ELSE Freed]
<1>1. /\ state = "Idle" /\ pc = "out" /\ list = <<PipeHandle>> /\ fh = f
      /\ cursor = End /\ call = NoCall
      /\ listener = NoHandle /\ stream = [s \in Streams |-> ClosedStream]
  BY DEF LoopInit, TCPInit
<1>2. NewHandle(PipeFd, {"read"}) \in Handle /\ Freed \in Handle
  BY PipeTypes DEF NewHandle, Freed, Handle, Events
<1>3. fh \in [Handles -> Handle]
  BY <1>1, <1>2
<1> HIDE DEF f
<1>4. /\ list \in Seq(Handles) /\ Len(list) = 1 /\ list[1] = PipeHandle
  BY <1>1, PipeTypes
<1>5. NoRepeats(list) /\ \A h : h \in ToSet(list) <=> h = PipeHandle
  BY <1>4, SetOfSeq DEF NoRepeats
<1>6. ListOK(list, fh, cursor)
  BY <1>1, <1>3, <1>4, <1>5 DEF ListOK
<1>7. OwnersOK(ToSet(list), listener, stream)
  BY <1>1 DEF OwnersOK, ClosedStream
<1>8. pc \notin Rounds /\ call.kind # "handle" /\ state # "Released"
  BY <1>1 DEF Rounds, NoCall
<1> QED
  BY <1>1, <1>5, <1>6, <1>7, <1>8 DEF HInv

LEMMA HInvRest ==
    ASSUME HInv,
           UNCHANGED <<list, fh, cursor, selected, pc, call, listener, stream>>,
           state' = state \/ (state # "Released" /\ state' # "Released")
    PROVE  HInv'
BY DEF HInv, ListOK, RoundOK, OwnersOK, Rounds, NoCall

\* The thread moves on without a callback, in the middle of a round with the lists
\* unchanged.
LEMMA HInvMoves ==
    ASSUME HInv, UNCHANGED <<list, fh, selected, listener, stream>>,
           cursor' = cursor \/ (cursor' # End => cursor' \in ToSet(list)),
           pc' \in Rounds => pc \in Rounds,
           call' # NoCall => pc' \in Rounds /\ call'.kind # "handle",
           state = "Released" <=> state' = "Released",
           state' = "Released" => pc' = "out" /\ call' = NoCall
    PROVE  HInv'
<1>1. ListOK(list, fh, cursor)'
  BY DEF HInv, ListOK
<1>2. (pc \in Rounds => RoundOK(list, fh, selected))'
  BY DEF HInv, RoundOK
<1>3. call'.kind = "handle" => call' # NoCall
  BY DEF NoCall
<1>4. OwnersOK(ToSet(list), listener, stream)'
  BY DEF HInv
<1> QED
  BY <1>1, <1>2, <1>3, <1>4 DEF HInv

LEMMA HInvLoop ==
    ASSUME HInv, UNCHANGED tcpVars,
           Run \/ SelectInterrupted \/ FireTimer \/ TimersDone \/ CallScheduled
               \/ MessagesDone \/ Return \/ HandlesDone
    PROVE  HInv'
<1> USE DEF Rounds, NoCall, tcpVars
<1>0. /\ state = "Released" => pc = "out" /\ call = NoCall
      /\ list \in Seq(Handles)
      /\ call # NoCall => pc \in Rounds
  BY DEF HInv, ListOK
<1>1. CASE Run
  BY <1>0, <1>1, HInvMoves DEF Run
<1>2. CASE SelectInterrupted
  BY <1>0, <1>2, HInvMoves DEF SelectInterrupted
<1>3. CASE FireTimer
  BY <1>0, <1>3, HInvMoves DEF FireTimer
<1>4. CASE TimersDone
  <2>1. cursor' # End => cursor' \in ToSet(list)
    BY <1>0, <1>4, SetOfSeq DEF TimersDone
  <2> QED
    BY <1>0, <1>4, <2>1, HInvMoves DEF TimersDone
<1>5. CASE CallScheduled
  BY <1>0, <1>5, HInvMoves DEF CallScheduled
<1>6. CASE MessagesDone
  BY <1>0, <1>6, HInvMoves DEF MessagesDone
<1>7. CASE Return
  BY <1>0, <1>7, HInvMoves DEF Return
<1>8. CASE HandlesDone
  BY <1>0, <1>8, HInvMoves DEF HandlesDone
<1> QED
  BY <1>1, <1>2, <1>3, <1>4, <1>5, <1>6, <1>7, <1>8

LEMMA HInvPoll ==
    ASSUME HInv, UNCHANGED tcpVars, Poll
    PROVE  HInv'
<1>1. /\ pc = "poll" /\ pc' = "select"
      /\ fh' = [h \in Handles |->
                  IF h \in ToSet(list)
                  THEN [fh[h] EXCEPT !.awaiting = fh[h].interests # {},
                                     !.polled = fh[h].interests]
                  ELSE fh[h]]
      /\ UNCHANGED <<state, list, cursor, selected, call, listener, stream>>
  BY DEF Poll, tcpVars
<1>2. fh \in [Handles -> Handle] /\ ToSet(list) \subseteq Handles
  BY ListMembers DEF HInv, ListOK
<1>3. ASSUME NEW h \in Handles
      PROVE  /\ [fh[h] EXCEPT !.awaiting = fh[h].interests # {},
                              !.polled = fh[h].interests] \in Handle
             /\ fh'[h].fd = fh[h].fd
  <2>1. fh[h] \in Handle /\ fh[h].interests \in SUBSET Events
    BY <1>2 DEF Handle
  <2>2. [fh[h] EXCEPT !.awaiting = fh[h].interests # {},
                      !.polled = fh[h].interests] \in Handle
    BY <2>1 DEF Handle
  <2>3. [fh[h] EXCEPT !.awaiting = fh[h].interests # {},
                      !.polled = fh[h].interests].fd = fh[h].fd
    BY <2>1 DEF Handle
  <2> QED
    BY <1>1, <2>2, <2>3
<1>4. fh' \in [Handles -> Handle]
  BY <1>1, <1>2, <1>3
<1>5. ListOK(list, fh, cursor)'
  <2>1. \A h \in Handles : fh'[h].fd = fh[h].fd
    BY <1>3
  <2>2. list' = list /\ cursor' = cursor
    BY <1>1
  <2> QED
    BY <1>2, <1>4, <2>1, <2>2 DEF HInv, ListOK
<1>6. pc' \notin Rounds /\ pc \notin Rounds /\ state # "Released"
  BY <1>1 DEF Rounds, HInv
<1> QED
  BY <1>1, <1>5, <1>6 DEF HInv, OwnersOK

\* What select reports of a descriptor was polled for the handle that has it.
LEMMA HInvSelect ==
    ASSUME HInv, UNCHANGED tcpVars, NEW ready, Select(ready)
    PROVE  HInv'
<1>1. /\ pc = "select" /\ pc' = "timers" /\ selected' \subseteq Polled
      /\ UNCHANGED <<state, list, fh, cursor, call, listener, stream>>
  BY DEF Select, tcpVars
<1>2. RoundOK(list, fh, selected')
  <2> SUFFICES ASSUME NEW h \in ToSet(list), NEW e \in Events,
                      <<fh[h].fd, e>> \in selected'
               PROVE  e \in fh[h].polled
    BY DEF RoundOK
  <2>1. PICK g \in ToSet(list) : <<fh[h].fd, e>> \in {<<fh[g].fd, x>> : x \in fh[g].polled}
    BY <1>1 DEF Polled
  <2>2. e \in fh[g].polled /\ fh[g].fd = fh[h].fd
    BY <2>1
  <2> QED
    BY <2>2 DEF HInv, ListOK
<1>3. ListOK(list, fh, cursor)'
  BY <1>1 DEF HInv, ListOK
<1>4. pc \notin Rounds /\ pc' \in Rounds /\ state # "Released"
  BY <1>1 DEF Rounds, HInv
<1> QED
  BY <1>1, <1>2, <1>3, <1>4 DEF HInv, OwnersOK, RoundOK

\* A callback is made for what select reported of a handle that awaited it.
LEMMA HInvProcess ==
    ASSUME HInv, UNCHANGED tcpVars, ProcessFileHandle
    PROVE  HInv'
<1> DEFINE n == [fh EXCEPT ![cursor].awaiting = FALSE]
           e == [fh[cursor] EXCEPT !.awaiting = FALSE]
<1>1. /\ pc = "handles" /\ call = NoCall /\ cursor # End
      /\ cursor' = Following(cursor) /\ fh' = n
      /\ pc' \in {"handles", "messages"}
      /\ \/ call' = NoCall
         \/ /\ fh[cursor].awaiting
            /\ call' = [kind |-> "handle", handle |-> cursor, events |-> CursorEvents,
                        polled |-> fh[cursor].polled]
      /\ UNCHANGED <<state, list, selected, listener, stream>>
  BY DEF ProcessFileHandle, tcpVars
<1>2. /\ fh \in [Handles -> Handle] /\ ToSet(list) \subseteq Handles
      /\ cursor \in ToSet(list) /\ RoundOK(list, fh, selected)
  BY <1>1, ListMembers DEF HInv, ListOK, Rounds
<1>3. cursor' # End => cursor' \in ToSet(list)
  BY <1>1, <1>2, FollowingInList DEF HInv
<1>4. /\ e \in Handle /\ e.fd = fh[cursor].fd /\ ~e.awaiting
  BY <1>2 DEF Handle
<1>5. n = [fh EXCEPT ![cursor] = e]
  OBVIOUS
<1> HIDE DEF e
<1>6. /\ n \in [Handles -> Handle] /\ ~n[cursor].awaiting
      /\ \A h \in Handles : /\ n[h].fd = fh[h].fd
                            /\ h # cursor => n[h] = fh[h]
  BY <1>2, <1>4, <1>5
<1> HIDE DEF n
<1>7. ListOK(list, fh, cursor)'
  BY <1>1, <1>2, <1>3, <1>6 DEF HInv, ListOK
<1>8. RoundOK(list, fh, selected)'
  BY <1>1, <1>2, <1>6 DEF RoundOK
<1>9. call'.kind = "handle" => call'.events \subseteq call'.polled
  <2>1. CASE call' = NoCall
    BY <2>1 DEF NoCall
  <2>2. CASE call' # NoCall
    <3>1. fh[cursor].awaiting /\ call'.events = CursorEvents /\ call'.polled = fh[cursor].polled
      BY <1>1, <2>2
    <3>2. fh[cursor].interests \subseteq Events
      BY <1>2 DEF Handle
    <3> QED
      BY <1>2, <3>1, <3>2 DEF CursorEvents, RoundOK
  <2> QED
    BY <2>1, <2>2
<1>10. pc' \in Rounds /\ state # "Released"
  BY <1>1 DEF Rounds, HInv
<1> QED
  BY <1>1, <1>7, <1>8, <1>9, <1>10 DEF HInv, OwnersOK


\* A client does nothing once the loop is released.
LEMMA ClientsRun ==
    ASSUME HInv, ClientRuns
    PROVE  state # "Released" /\ PipeHandle \in ToSet(list)
BY DEF HInv, ClientRuns

LEMMA HInvClient ==
    ASSUME HInv, ClientStep, ListOK(list, fh, cursor)',
           \A r : RoundOK(list, fh, r) => RoundOK(list', fh', r),
           PipeHandle \in ToSet(list'),
           OwnersOK(ToSet(list), listener, stream)'
    PROVE  HInv'
BY ClientsRun DEF HInv, ClientStep, NoCall, Rounds

LEMMA HInvOpenListener ==
    ASSUME HInv, OpenListener
    PROVE  HInv'
<1>1. PICK h \in FreeHandles, d \in LowestFree :
         /\ listener' = h /\ FileHandleRegister(h, d, {"read"})
  BY DEF OpenListener
<1>2. /\ ClientStep /\ listener = NoHandle /\ stream' = stream
      /\ list' = Append(list, h) /\ cursor' = cursor
      /\ fh' = [fh EXCEPT ![h] = NewHandle(d, {"read"})]
  BY <1>1 DEF OpenListener, FileHandleRegister
<1>3. ClientRuns /\ h \in Handles \ ToSet(list)
  BY <1>2 DEF ClientStep, FreeHandles
<1>4. /\ ListOK(list, fh, cursor)' /\ ToSet(list') = ToSet(list) \cup {h}
      /\ \A r : RoundOK(list, fh, r) => RoundOK(list', fh', r)
  <2>1. {"read"} \in SUBSET Events
    BY DEF Events
  <2>2. /\ ListOK(list, fh, cursor) /\ h \in Handles \ ToSet(list)
        /\ d \in Fds /\ \A g \in ToSet(list) : fh[g].fd # d
    BY <1>3, LowestFreeUnused DEF HInv
  <2>3. LET m == Append(list, h)
            n == [fh EXCEPT ![h] = NewHandle(d, {"read"})]
        IN  /\ ListOK(m, n, cursor)
            /\ ToSet(m) = ToSet(list) \cup {h}
            /\ \A r : RoundOK(list, fh, r) => RoundOK(m, n, r)
    BY ZenonT(60), <2>1, <2>2, EntryAdded
  <2> QED
    BY <1>2, <2>3
<1>5. PipeHandle \in ToSet(list)
  BY <1>3, ClientsRun
<1>6. OwnersOK(ToSet(list), listener, stream)'
  BY <1>1, <1>2, <1>3, <1>4, <1>5, TCPAssumption DEF HInv, OwnersOK
<1> QED
  BY <1>2, <1>4, <1>5, <1>6, HInvClient

LEMMA HInvCloseListener ==
    ASSUME HInv, CloseListener
    PROVE  HInv'
<1>1. /\ ClientStep /\ listener # NoHandle /\ listener' = NoHandle /\ stream' = stream
      /\ list' = Unlinked(listener) /\ cursor' = AfterDeregister(listener)
      /\ fh' = [fh EXCEPT ![listener] = Freed]
  BY DEF CloseListener, FileHandleDeregister
<1>2. listener \in ToSet(list) \ {PipeHandle} /\ PipeHandle \in ToSet(list)
  BY <1>1, ClientsRun DEF HInv, OwnersOK, ClientStep
<1>3. /\ ListOK(list, fh, cursor)' /\ ToSet(list') = ToSet(list) \ {listener}
      /\ \A r : RoundOK(list, fh, r) => RoundOK(list', fh', r)
  BY <1>1, <1>2, EntryRemoved DEF HInv
<1>4. \A s \in Streams : stream[s].handle # NoHandle =>
         stream[s].handle \in ToSet(list') \ {PipeHandle, listener'}
  BY <1>1, <1>3 DEF HInv, OwnersOK
<1>5. OwnersOK(ToSet(list), listener, stream)'
  BY <1>1, <1>4 DEF HInv, OwnersOK
<1> QED
  BY <1>1, <1>2, <1>3, <1>5, HInvClient

LEMMA HInvAccept ==
    ASSUME HInv, AcceptTCPStream
    PROVE  HInv'
<1>1. PICK h \in FreeHandles, d \in LowestFree, s \in FirstFree :
         /\ stream' = [stream EXCEPT ![s].handle = h]
         /\ list' = Append(list, h)
         /\ LET accepted == [fh EXCEPT ![h] = NewHandle(d, {})]
            IN  fh' = IF numTCPStreams' = Cardinality(Streams)
                      THEN [accepted EXCEPT ![listener].interests = {}]
                      ELSE accepted
  BY DEF AcceptTCPStream
<1> DEFINE n == [fh EXCEPT ![h] = NewHandle(d, {})]
<1>2. /\ ClientStep /\ cursor' = cursor /\ listener' = listener
      /\ fh' = n \/ fh' = [n EXCEPT ![listener].interests = {}]
      /\ call.kind = "handle" /\ call.handle = listener
  BY <1>1 DEF AcceptTCPStream
<1>3. /\ ClientRuns /\ h \in Handles \ ToSet(list)
      /\ s \in Streams /\ stream[s].handle = NoHandle
  BY <1>2 DEF ClientStep, FreeHandles, FirstFree, Open
<1>4. {} \in SUBSET Events
  OBVIOUS
<1>5. /\ ListOK(list', n, cursor) /\ ToSet(list') = ToSet(list) \cup {h}
      /\ \A r : RoundOK(list, fh, r) => RoundOK(list', n, r)
  <2>1. /\ ListOK(list, fh, cursor) /\ h \in Handles \ ToSet(list)
        /\ d \in Fds /\ \A g \in ToSet(list) : fh[g].fd # d
    BY <1>3, LowestFreeUnused DEF HInv
  <2>2. LET m == Append(list, h)
            k == [fh EXCEPT ![h] = NewHandle(d, {})]
        IN  /\ ListOK(m, k, cursor)
            /\ ToSet(m) = ToSet(list) \cup {h}
            /\ \A r : RoundOK(list, fh, r) => RoundOK(m, k, r)
    BY ZenonT(60), <1>4, <2>1, EntryAdded
  <2> QED
    BY <1>1, <2>2 DEF n
<1>6. PipeHandle \in ToSet(list) /\ h # listener
  BY <1>3, ClientsRun, TCPAssumption DEF HInv, OwnersOK
<1> HIDE DEF n
<1>7. /\ ListOK(list, fh, cursor)'
      /\ \A r : RoundOK(list, fh, r) => RoundOK(list', fh', r)
  <2>1. CASE fh' = n
    BY <1>2, <1>5, <2>1
  <2>2. CASE fh' # n /\ listener \in Handles
    BY <1>2, <1>4, <1>5, <2>2, InterestsSet
  <2>3. CASE listener \notin Handles
    <3>1. DOMAIN n = Handles /\ [n EXCEPT ![listener].interests = {}] = n
      BY <1>5, <2>3 DEF ListOK
    <3> QED
      BY <1>2, <1>5, <3>1
  <2> QED
    BY <2>1, <2>2, <2>3
<1>8. stream' \in [Streams -> [handle : Handles \cup {NoHandle}, interests : SUBSET Events]]
  BY <1>1, <1>3 DEF HInv, OwnersOK
<1>9. stream'[s].handle = h /\ \A t \in Streams \ {s} : stream'[t].handle = stream[t].handle
  BY <1>1, <1>3 DEF HInv, OwnersOK
<1>10. \A t \in Streams : stream[t].handle # h
  BY <1>3, TCPAssumption DEF HInv, OwnersOK
<1>11. OwnersOK(ToSet(list), listener, stream)'
  BY <1>2, <1>3, <1>5, <1>6, <1>8, <1>9, <1>10 DEF HInv, OwnersOK
<1> QED
  BY <1>2, <1>5, <1>6, <1>7, <1>11, HInvClient

LEMMA HInvClose ==
    ASSUME HInv, NEW s \in Streams, TCPStreamClose(s)
    PROVE  HInv'
<1> DEFINE h == stream[s].handle
           n == [fh EXCEPT ![h] = Freed]
<1>1. /\ ClientStep /\ h # NoHandle /\ listener' = listener
      /\ list' = Unlinked(h) /\ cursor' = AfterDeregister(h)
      /\ fh' = n \/ (listener # NoHandle /\ fh' = [n EXCEPT ![listener].interests = {"read"}])
      /\ stream' = [stream EXCEPT ![s] = ClosedStream]
  BY DEF TCPStreamClose, Open
<1>2. h \in ToSet(list) \ {PipeHandle, listener} /\ PipeHandle \in ToSet(list)
  BY <1>1, ClientsRun DEF HInv, OwnersOK, ClientStep
<1>3. /\ ListOK(list', n, cursor') /\ ToSet(list') = ToSet(list) \ {h}
      /\ \A r : RoundOK(list, fh, r) => RoundOK(list', n, r)
  BY <1>1, <1>2, EntryRemoved DEF HInv
<1> HIDE DEF n
<1>4. /\ ListOK(list, fh, cursor)'
      /\ \A r : RoundOK(list, fh, r) => RoundOK(list', fh', r)
  <2>1. CASE fh' = n
    BY <1>3, <2>1
  <2>2. CASE fh' # n
    <3>1. {"read"} \in SUBSET Events /\ listener \in Handles
      BY <1>1, <2>2, ListMembers DEF HInv, OwnersOK, Events
    <3> QED
      BY <1>1, <1>3, <2>2, <3>1, InterestsSet
  <2> QED
    BY <2>1, <2>2
<1>5. stream' \in [Streams -> [handle : Handles \cup {NoHandle}, interests : SUBSET Events]]
  BY <1>1 DEF HInv, OwnersOK, ClosedStream
<1>6. /\ stream'[s].handle = NoHandle
      /\ \A t \in Streams \ {s} : stream'[t].handle = stream[t].handle
  BY <1>1 DEF HInv, OwnersOK, ClosedStream
<1>7. \A t \in Streams \ {s} : stream[t].handle # h
  BY <1>1 DEF HInv, OwnersOK
<1> HIDE DEF h
<1>8. OwnersOK(ToSet(list), listener, stream)'
  BY <1>1, <1>2, <1>3, <1>5, <1>6, <1>7 DEF HInv, OwnersOK
<1> QED
  BY <1>1, <1>2, <1>3, <1>4, <1>8, HInvClient

LEMMA HInvInterests ==
    ASSUME HInv, NEW s \in Streams, NEW i \in StreamInterests,
           TCPStreamUpdateInterests(s, i)
    PROVE  HInv'
<1>1. /\ ClientStep /\ stream[s].handle # NoHandle
      /\ UNCHANGED <<list, cursor, listener>>
      /\ fh' = [fh EXCEPT ![stream[s].handle].interests = i]
      /\ stream' = [stream EXCEPT ![s].interests = i]
      /\ i \in SUBSET Events
  BY TCPAssumption DEF TCPStreamUpdateInterests, FileHandleUpdateInterests, Open
<1>2. stream[s].handle \in Handles /\ PipeHandle \in ToSet(list)
  BY <1>1, ClientsRun, ListMembers DEF HInv, OwnersOK, ClientStep
<1>3. /\ ListOK(list, fh, cursor)'
      /\ \A r : RoundOK(list, fh, r) => RoundOK(list', fh', r)
  BY <1>1, <1>2, InterestsSet DEF HInv
<1>4. stream' \in [Streams -> [handle : Handles \cup {NoHandle}, interests : SUBSET Events]]
  BY <1>1 DEF HInv, OwnersOK
<1>5. \A t \in Streams : stream'[t].handle = stream[t].handle
  BY <1>1 DEF HInv, OwnersOK
<1>6. OwnersOK(ToSet(list), listener, stream)'
  BY <1>1, <1>4, <1>5 DEF HInv, OwnersOK
<1> QED
  BY <1>1, <1>2, <1>3, <1>6, HInvClient

\* Only the self-pipe's handle goes, and nothing runs afterwards.
LEMMA HInvRelease ==
    ASSUME HInv, UNCHANGED tcpVars, Release
    PROVE  HInv'
<1>1. /\ pc = "out" /\ pc' = pc /\ state = "Idle" /\ state' = "Released"
      /\ list' = Unlinked(PipeHandle) /\ cursor' = AfterDeregister(PipeHandle)
      /\ fh' = [fh EXCEPT ![PipeHandle] = Freed]
      /\ UNCHANGED <<call, listener, stream>>
  BY DEF Release, FileHandleDeregister, tcpVars
<1>2. PipeHandle \in ToSet(list) /\ call = NoCall
  BY <1>1 DEF HInv, Rounds
<1>3. ListOK(list, fh, cursor)' /\ ToSet(list') = ToSet(list) \ {PipeHandle}
  BY <1>1, <1>2, EntryRemoved DEF HInv
<1>4. OwnersOK(ToSet(list), listener, stream)'
  BY <1>1, <1>3 DEF HInv, OwnersOK
<1>5. pc' \notin Rounds /\ call'.kind # "handle"
  BY <1>1, <1>2 DEF Rounds, NoCall
<1> QED
  BY <1>1, <1>2, <1>3, <1>4, <1>5 DEF HInv

LEMMA HInvNext ==
    ASSUME HInv, [TCPNext]_vars
    PROVE  HInv'
<1>1. CASE LoopStep /\ UNCHANGED tcpVars
  BY <1>1, HInvLoop, HInvPoll, HInvProcess DEF LoopStep
<1>2. CASE LoopEnvironment /\ UNCHANGED tcpVars
  <2>1. CASE Stop
    BY <1>2, <2>1, HInvRest DEF Stop, tcpVars, HInv
  <2>2. CASE Release
    BY <1>2, <2>2, HInvRelease
  <2>3. CASE Tick
    BY <1>2, <2>3, HInvRest DEF Tick, tcpVars
  <2>4. CASE ClientTimers
    BY <1>2, <2>4, HInvRest DEF ClientTimers, tcpVars
  <2>5. CASE \E size \in Sizes : ScheduleCallback(size)
    BY <1>2, <2>5, HInvRest DEF ScheduleCallback, tcpVars
  <2> QED
    BY <1>2, <2>1, <2>2, <2>3, <2>4, <2>5 DEF LoopEnvironment
<1>3. CASE SelectSockets /\ UNCHANGED tcpVars
  BY <1>3, HInvSelect DEF SelectSockets
<1>4. CASE ClientOperation
  BY <1>4, HInvOpenListener, HInvCloseListener, HInvAccept, HInvClose, HInvInterests
     DEF ClientOperation
<1>5. CASE Connect
  BY <1>5, HInvRest DEF Connect, loopVars
<1>6. CASE Abort
  BY <1>6, HInvRest DEF Abort, loopVars
<1>7. CASE UNCHANGED vars
  BY <1>7, HInvRest DEF vars, loopVars, tcpVars
<1> QED
  BY <1>1, <1>2, <1>3, <1>4, <1>5, <1>6, <1>7 DEF TCPNext

\* The invariant of the handles: whoever registers, updates and removes handles in
\* whichever callback, the list, the iterator and the owners agree.
THEOREM HandlesInvariance == TCPSpec => []HInv
BY HInvInit, HInvNext, PTL DEF TCPSpec

\* A callback is made only for what select reported of this very registration, and
\* the loop never follows a freed handle.
THEOREM OnlyPolled == TCPSpec => []OnlyPolledHandles
<1>1. HInv => OnlyPolledHandles
  BY DEF HInv, ListOK, OnlyPolledHandles
<1> QED
  BY <1>1, HandlesInvariance, PTL


-----------------------------------------------------------------------------
(***************************************************************************)
(* The bytes of the self-pipe.                                             *)
(***************************************************************************)

LEMMA Concatenated ==
    ASSUME NEW S, NEW a \in Seq(S), NEW b \in Seq(S)
    PROVE  /\ a \o b \in Seq(S) /\ Len(a \o b) = Len(a) + Len(b)
           /\ \A k \in 1..Len(a) + Len(b) :
                 (a \o b)[k] = IF k <= Len(a) THEN a[k] ELSE b[k - Len(a)]
OBVIOUS

LEMMA Slice ==
    ASSUME NEW S, NEW s \in Seq(S), NEW a \in 1..Len(s) + 1, NEW b \in a - 1..Len(s)
    PROVE  /\ SubSeq(s, a, b) \in Seq(S) /\ Len(SubSeq(s, a, b)) = b - a + 1
           /\ SubSeq(s, a, b) = [i \in 1..b - a + 1 |-> s[a + i - 1]]
           /\ \A i \in 1..b - a + 1 : SubSeq(s, a, b)[i] = s[a + i - 1]
<1>1. SubSeq(s, a, b) = [i \in 1..b - a + 1 |-> s[a + i - 1]]
  OBVIOUS
<1>2. \A i \in 1..b - a + 1 : a + i - 1 \in 1..Len(s)
  OBVIOUS
<1>3. SubSeq(s, a, b) \in Seq(S) /\ Len(SubSeq(s, a, b)) = b - a + 1
  OBVIOUS
<1> QED
  BY <1>1, <1>2, <1>3

LEMMA RestShape ==
    ASSUME NEW b \in Seq(Cells), NEW n \in 0..Len(b), NEW p \in Seq(Cells)
    PROVE  /\ Rest(b, n, p) \in Seq(Cells)
           /\ Len(Rest(b, n, p)) = Len(b) - n + Len(p)
           /\ \A k \in 1..Len(b) - n : Rest(b, n, p)[k] = b[n + k]
           /\ \A k \in 1..Len(p) : Rest(b, n, p)[Len(b) - n + k] = p[k]
<1> DEFINE a == SubSeq(b, n + 1, Len(b))
<1>1. /\ a \in Seq(Cells) /\ Len(a) = Len(b) - n
      /\ \A k \in 1..Len(b) - n : a[k] = b[n + k]
  OBVIOUS
<1> HIDE DEF a
<1>2. /\ a \o p \in Seq(Cells) /\ Len(a \o p) = Len(a) + Len(p)
      /\ \A k \in 1..Len(a) + Len(p) :
            (a \o p)[k] = IF k <= Len(a) THEN a[k] ELSE p[k - Len(a)]
  BY <1>1, Concatenated
<1> DEFINE r == a \o p
<1> HIDE DEF r
<1>3. ASSUME NEW k \in 1..Len(b) - n PROVE r[k] = b[n + k]
  BY <1>1, <1>2 DEF r
<1>4. ASSUME NEW k \in 1..Len(p) PROVE r[Len(b) - n + k] = p[k]
  <2>1. /\ Len(b) - n + k \in 1..Len(a) + Len(p) /\ ~(Len(b) - n + k <= Len(a))
        /\ (Len(b) - n + k) - Len(a) = k
    BY <1>1
  <2> QED
    BY <1>2, <2>1 DEF r
<1> QED
  BY <1>1, <1>2, <1>3, <1>4 DEF Rest, r, a

\* Two splits of the same bytes between the buffer and the pipe.
LEMMA SameRest ==
    ASSUME NEW b \in Seq(Cells), NEW n \in 0..Len(b), NEW p \in Seq(Cells),
           NEW c \in Seq(Cells), NEW m \in 0..Len(c), NEW q \in Seq(Cells),
           SameBytes(b, n, p, c, m, q)
    PROVE  Rest(b, n, p) = Rest(c, m, q)
<1> DEFINE r == Rest(b, n, p)
           t == Rest(c, m, q)
<1>1. /\ r \in Seq(Cells) /\ Len(r) = Len(b) - n + Len(p)
      /\ \A k \in 1..Len(b) - n : r[k] = b[n + k]
      /\ \A k \in 1..Len(p) : r[Len(b) - n + k] = p[k]
  BY RestShape
<1>2. /\ t \in Seq(Cells) /\ Len(t) = Len(c) - m + Len(q)
      /\ \A k \in 1..Len(c) - m : t[k] = c[m + k]
      /\ \A k \in 1..Len(q) : t[Len(c) - m + k] = q[k]
  BY RestShape
<1> HIDE DEF r, t
<1>3. ASSUME NEW k \in 1..Len(r)
      PROVE  r[k] = ByteAt(b, n, p, k)
  <2>1. CASE k > Len(b) - n
    <3>1. k - (Len(b) - n) \in 1..Len(p) /\ Len(b) - n + (k - (Len(b) - n)) = k
      BY <1>1, <2>1
    <3> QED
      BY <1>1, <2>1, <3>1 DEF ByteAt
  <2> QED
    BY <1>1, <2>1 DEF ByteAt
<1>4. ASSUME NEW k \in 1..Len(t)
      PROVE  t[k] = ByteAt(c, m, q, k)
  <2>1. CASE k > Len(c) - m
    <3>1. k - (Len(c) - m) \in 1..Len(q) /\ Len(c) - m + (k - (Len(c) - m)) = k
      BY <1>2, <2>1
    <3> QED
      BY <1>2, <2>1, <3>1 DEF ByteAt
  <2> QED
    BY <1>2, <2>1 DEF ByteAt
<1>5. ASSUME NEW k \in 1..Len(r) PROVE r[k] = t[k]
  <2>1. k \in 1..Len(b) - n + Len(p) /\ k \in 1..Len(t)
    BY <1>1, <1>2 DEF SameBytes
  <2>2. r[k] = ByteAt(b, n, p, k) /\ t[k] = ByteAt(c, m, q, k)
    BY <1>3, <1>4, <2>1
  <2> QED
    BY <2>1, <2>2 DEF SameBytes
<1>6. r = t
  <2>1. Len(r) = Len(t)
    BY <1>1, <1>2 DEF SameBytes
  <2> QED
    BY <1>1, <1>2, <1>5, <2>1, SeqEqual
<1> QED
  BY <1>6 DEF r, t


LEMMA SizesNat == \A n \in Sizes : n \in Nat /\ n <= MaxContext
BY RunLoopAssumption

\* The place of a byte of a message is among the bytes after message r.
LEMMA PlaceInRange ==
    ASSUME NEW s \in Seq(Sizes), NEW off, Offsets(off, s), NEW r \in 0..Len(s),
           NEW i \in r + 1..Len(s), NEW p \in 0..1 + s[i]
    PROVE  /\ off[i] - off[r + 1] + p + 1 \in 1..off[Len(s) + 1] - off[r + 1]
           /\ off[i] - off[r + 1] \in Nat
<1>1. /\ i \in 1..Len(s) /\ i + 1 \in 1..Len(s) + 1 /\ r + 1 \in 1..Len(s) + 1
      /\ i \in 1..Len(s) + 1 /\ Len(s) + 1 \in 1..Len(s) + 1
      /\ r + 1 <= i /\ i + 1 <= Len(s) + 1
  OBVIOUS
<1>2. s[i] \in Sizes /\ s[i] \in Nat
  BY <1>1, SizesNat
<1>3. off[i] \in Nat /\ off[r + 1] \in Nat /\ off[Len(s) + 1] \in Nat
  BY <1>1 DEF Offsets
<1>4. off[i + 1] = off[i] + 2 + s[i]
  BY <1>1 DEF Offsets
<1>5. off[r + 1] <= off[i] /\ off[i + 1] <= off[Len(s) + 1]
  BY <1>1 DEF Offsets
<1> DEFINE a == off[i]
           b == off[r + 1]
           c == off[Len(s) + 1]
           n == s[i]
<1> HIDE DEF a, b, c, n
<1>6. /\ a \in Nat /\ b \in Nat /\ c \in Nat /\ n \in Nat /\ p \in 0..1 + n
      /\ b <= a /\ a + 2 + n <= c
  BY <1>2, <1>3, <1>4, <1>5 DEF a, b, c, n
<1>7. a - b + p + 1 \in 1..c - b /\ a - b \in Nat
  BY <1>6
<1> QED
  BY <1>7 DEF a, b, c

LEMMA MessagesInit ==
    ASSUME LoopInit
    PROVE  MessagesInv
<1> DEFINE off == [i \in 1..1 |-> 0]
<1>1. /\ sent = <<>> /\ ran = 0 /\ buf = <<>> /\ pipe = <<>> /\ call = NoCall
      /\ call.kind = "none" /\ Skip = 0
  BY DEF LoopInit, NoCall, Skip
<1>2. /\ Len(buf) = 0 /\ Len(pipe) = 0 /\ buf \in Seq(Cells) /\ pipe \in Seq(Cells)
      /\ Skip \in 0..Len(buf)
  BY <1>1
<1>3. Len(Unread) = Len(buf) - Skip + Len(pipe)
  BY <1>2, RestShape DEF Unread
<1>4. Offsets(off, sent) /\ Framed(off, Unread, sent, ran)
  BY <1>1, <1>2, <1>3 DEF Offsets, Framed
<1>5. BufSize \in Nat
  BY RunLoopAssumption DEF BufSize
<1> QED
  BY <1>1, <1>2, <1>4, <1>5 DEF MessagesInv, CallbacksInOrder, Whole

LEMMA MessagesRest ==
    ASSUME MessagesInv, UNCHANGED <<sent, ran, buf, pipe>>,
           call' = call \/ (call.kind # "message" /\ call'.kind # "message"),
           state' # "Released" => state # "Released"
    PROVE  MessagesInv'
<1>1. Skip' = Skip /\ Unread' = Unread
  BY DEF Skip, Unread
<1> QED
  BY <1>1 DEF MessagesInv, CallbacksInOrder

\* The bytes move from the pipe to the buffer, or a context that was used is removed.
LEMMA MessagesMove ==
    ASSUME MessagesInv, UNCHANGED <<sent, ran, state>>, call'.kind # "message",
           buf' \in Seq(Cells), pipe' \in Seq(Cells), Len(buf') <= BufSize,
           Unread' = Unread
    PROVE  MessagesInv'
<1>1. Skip' = 0
  BY DEF Skip
<1> QED
  BY <1>1 DEF MessagesInv, CallbacksInOrder

LEMMA MessagesReturn ==
    ASSUME MessagesInv, Return
    PROVE  MessagesInv'
<1>1. /\ call'.kind = "none" /\ UNCHANGED <<sent, ran, state, pipe>>
      /\ buf' = IF call.kind = "message" THEN SubSeq(buf, 1 + Len(call.context), Len(buf)) ELSE buf
  BY DEF Return, NoCall
<1>2. CASE call.kind # "message"
  BY <1>1, <1>2, MessagesRest
<1>3. CASE call.kind = "message"
  <2>1. /\ buf \in Seq(Cells) /\ pipe \in Seq(Cells) /\ Skip \in 0..Len(buf)
        /\ Len(buf) <= BufSize /\ BufSize \in Nat
    BY RunLoopAssumption DEF MessagesInv, BufSize
  <2>2. buf' = SubSeq(buf, 1 + Skip, Len(buf)) /\ Skip' = 0
    BY <1>1, <1>3 DEF Skip
  <2>3. /\ buf' \in Seq(Cells) /\ Len(buf') = Len(buf) - Skip
        /\ \A k \in 1..Len(buf) - Skip : buf'[k] = buf[Skip + k]
    BY <2>1, <2>2
  <2> DEFINE n == Skip
             c == buf'
  <2> HIDE DEF n, c
  <2>4. /\ n \in 0..Len(buf) /\ c \in Seq(Cells) /\ Len(c) = Len(buf) - n
        /\ \A k \in 1..Len(buf) - n : c[k] = buf[n + k]
    BY <2>1, <2>3 DEF n, c
  <2>5. Rest(buf, n, pipe) = Rest(c, 0, pipe)
    <3>1. Len(buf) - n + Len(pipe) = Len(c) - 0 + Len(pipe) /\ 0 \in 0..Len(c)
      BY <2>1, <2>4
    <3>2. ASSUME NEW k \in 1..Len(buf) - n + Len(pipe)
          PROVE  ByteAt(buf, n, pipe, k) = ByteAt(c, 0, pipe, k)
      BY <2>1, <2>4 DEF ByteAt
    <3>3. SameBytes(buf, n, pipe, c, 0, pipe)
      BY <3>1, <3>2 DEF SameBytes
    <3> QED
      BY <2>1, <2>4, <3>1, <3>3, SameRest
  <2>6. Unread' = Unread
    BY <1>1, <2>2, <2>5 DEF Unread, n, c
  <2> QED
    BY <1>1, <2>1, <2>3, <2>6, MessagesMove
<1> QED
  BY <1>2, <1>3

LEMMA MessagesProcess ==
    ASSUME MessagesInv, ProcessFileHandle
    PROVE  MessagesInv'
<1>1. /\ call.kind = "none" /\ call'.kind # "message" /\ UNCHANGED <<sent, ran, state>>
      /\ \/ UNCHANGED <<buf, pipe>>
         \/ /\ buf' = buf \o SubSeq(pipe, 1, ReadSize)
            /\ pipe' = SubSeq(pipe, ReadSize + 1, Len(pipe))
  <2> DEFINE called == fh[cursor].awaiting /\ CursorEvents # {}
  <2>1. call = NoCall /\ UNCHANGED <<sent, ran, state>>
    BY DEF ProcessFileHandle
  <2>2. CASE called /\ cursor = PipeHandle
    <3>1. /\ buf' = buf \o SubSeq(pipe, 1, ReadSize)
          /\ pipe' = SubSeq(pipe, ReadSize + 1, Len(pipe))
          /\ call' = call
      BY <2>2 DEF ProcessFileHandle
    <3>2. call.kind = "none"
      BY <2>1 DEF NoCall
    <3> QED
      BY <2>1, <3>1, <3>2
  <2>3. CASE called /\ cursor # PipeHandle
    BY <2>1, <2>3 DEF ProcessFileHandle, NoCall
  <2>4. CASE ~called
    BY <2>1, <2>4 DEF ProcessFileHandle, NoCall
  <2> QED
    BY <2>2, <2>3, <2>4
<1>2. CASE UNCHANGED <<buf, pipe>>
  BY <1>1, <1>2, MessagesRest
<1>3. CASE /\ buf' = buf \o SubSeq(pipe, 1, ReadSize)
           /\ pipe' = SubSeq(pipe, ReadSize + 1, Len(pipe))
  <2> DEFINE r == ReadSize
             a == SubSeq(pipe, 1, r)
             c == buf'
             q == pipe'
  <2>1. /\ buf \in Seq(Cells) /\ pipe \in Seq(Cells)
        /\ Len(buf) <= BufSize /\ BufSize \in Nat
    BY RunLoopAssumption DEF MessagesInv, BufSize
  <2>2. r \in 0..Len(pipe) /\ Len(buf) + r <= BufSize
    BY <2>1 DEF ReadSize
  <2> HIDE DEF r
  <2>3. /\ a \in Seq(Cells) /\ Len(a) = r /\ \A k \in 1..r : a[k] = pipe[k]
    BY <2>1, <2>2
  <2>4. /\ q \in Seq(Cells) /\ Len(q) = Len(pipe) - r
        /\ \A k \in 1..Len(pipe) - r : q[k] = pipe[r + k]
    BY <1>3, <2>1, <2>2 DEF r
  <2>5. c = buf \o a
    BY <1>3 DEF r
  <2> HIDE DEF a, c, q
  <2>6. /\ c \in Seq(Cells) /\ Len(c) = Len(buf) + r
        /\ \A k \in 1..Len(buf) + r : c[k] = IF k <= Len(buf) THEN buf[k] ELSE a[k - Len(buf)]
    BY <2>1, <2>3, <2>5, Concatenated
  <2>7. Rest(buf, 0, pipe) = Rest(c, 0, q)
    <3>1. /\ Len(buf) - 0 + Len(pipe) = Len(c) - 0 + Len(q)
          /\ 0 \in 0..Len(c) /\ 0 \in 0..Len(buf)
      BY <2>1, <2>2, <2>4, <2>6
    <3>2. ASSUME NEW k \in 1..Len(buf) - 0 + Len(pipe)
          PROVE  ByteAt(buf, 0, pipe, k) = ByteAt(c, 0, q, k)
      <4>1. CASE k <= Len(buf)
        BY <2>1, <2>2, <2>6, <4>1 DEF ByteAt
      <4>2. CASE k > Len(buf) /\ k <= Len(buf) + r
        <5>1. k - Len(buf) \in 1..r /\ k \in 1..Len(buf) + r
          BY <2>1, <2>2, <4>2
        <5>2. c[k] = pipe[k - Len(buf)]
          BY <2>1, <2>3, <2>6, <4>2, <5>1
        <5> QED
          BY <2>1, <2>2, <2>6, <4>2, <5>2 DEF ByteAt
      <4>3. CASE k > Len(buf) + r
        <5>1. /\ k - (Len(buf) + r) \in 1..Len(pipe) - r
              /\ r + (k - (Len(buf) + r)) = k - Len(buf)
          BY <2>1, <2>2, <4>3
        <5>2. q[k - (Len(buf) + r)] = pipe[k - Len(buf)]
          BY <2>4, <5>1
        <5> QED
          BY <2>1, <2>2, <2>6, <4>3, <5>2 DEF ByteAt
      <4> QED
        BY <2>1, <2>2, <4>1, <4>2, <4>3
    <3>3. SameBytes(buf, 0, pipe, c, 0, q)
      BY <3>1, <3>2 DEF SameBytes
    <3> QED
      BY <2>1, <2>4, <2>6, <3>1, <3>3, SameRest
  <2>8. Skip = 0 /\ Skip' = 0
    BY <1>1 DEF Skip
  <2>9. Unread' = Unread
    BY <2>7, <2>8 DEF Unread, c, q
  <2>10. buf' \in Seq(Cells) /\ Len(buf') <= BufSize /\ pipe' \in Seq(Cells)
    BY <2>2, <2>4, <2>6 DEF c, q
  <2> QED
    BY <1>1, <2>9, <2>10, MessagesMove
<1> QED
  BY <1>1, <1>2, <1>3


\* The first bytes that were not read yet are the next message, whole as soon as the
\* buffer is as long as its header says.
LEMMA MessagesCall ==
    ASSUME MessagesInv, HInv, CallScheduled
    PROVE  MessagesInv'
<1> DEFINE m == ran + 1
           n == sent[m]
           u == Rest(buf, 0, pipe)
           v == Rest(buf', n, pipe)
<1> HIDE DEF m, n
<1>1. /\ call.kind = "none" /\ pc = "messages"
      /\ Len(buf) >= 2 /\ Len(buf) >= 2 + ContextSize
      /\ call' = [kind |-> "message", of |-> buf[1], context |-> SubSeq(buf, 3, 2 + ContextSize)]
      /\ buf' = SubSeq(buf, 3, Len(buf))
      /\ ran' = m /\ m = ran + 1 /\ UNCHANGED <<state, sent, pipe>>
  BY DEF m, CallScheduled, MessageComplete, NoCall
<1>2. /\ sent \in Seq(Sizes) /\ ran \in 0..Len(sent)
      /\ buf \in Seq(Cells) /\ pipe \in Seq(Cells)
      /\ Len(buf) <= BufSize /\ BufSize \in Nat
  BY RunLoopAssumption DEF MessagesInv, BufSize
<1>3. Skip = 0 /\ Unread = u
  BY <1>1 DEF Skip, Unread
<1>4. PICK off : Offsets(off, sent) /\ Framed(off, u, sent, ran)
  BY <1>1, <1>3 DEF MessagesInv, HInv, Whole
<1>5. /\ u \in Seq(Cells) /\ Len(u) = Len(buf) + Len(pipe)
      /\ \A k \in 1..Len(buf) : u[k] = buf[k]
      /\ \A k \in 1..Len(pipe) : u[Len(buf) + k] = pipe[k]
  <2>1. 0 \in 0..Len(buf)
    BY <1>2
  <2>2. /\ u \in Seq(Cells) /\ Len(u) = Len(buf) - 0 + Len(pipe)
        /\ \A k \in 1..Len(buf) - 0 : u[k] = buf[0 + k]
        /\ \A k \in 1..Len(pipe) : u[Len(buf) - 0 + k] = pipe[k]
    BY <1>2, <2>1, RestShape
  <2> HIDE DEF u
  <2> QED
    BY <1>2, <2>2
<1> HIDE DEF u
<1>6. off[Len(sent) + 1] - off[ran + 1] >= 2
  BY <1>1, <1>2, <1>4, <1>5 DEF Framed
<1>7. m \in 1..Len(sent)
  <2>1. ran # Len(sent)
    <3>1. off[Len(sent) + 1] \in Nat
      BY <1>2, <1>4 DEF Offsets
    <3> QED
      BY <1>2, <1>6, <3>1
  <2> QED
    BY <1>1, <1>2, <2>1
<1>8. n \in Nat /\ n <= MaxContext
  BY <1>2, <1>7, SizesNat DEF n
<1>9. \A p \in 0..1 + n : u[p + 1] = <<m, p>>
  <2>1. \A p \in 0..1 + n : u[off[m] - off[m] + p + 1] = <<m, p>>
    <3>1. m \in ran + 1..Len(sent) /\ ran + 1 = m
      BY <1>1, <1>2, <1>7
    <3> QED
      BY <1>4, <3>1 DEF Framed, n
  <2>2. off[m] \in Nat
    BY SMTT(30), <1>2, <1>4, <1>7 DEF Offsets
  <2>3. \A p \in 0..1 + n : off[m] - off[m] + p + 1 = p + 1
    BY <1>8, <2>2
  <2> QED
    BY <2>1, <2>3
<1>10. buf[1] = <<m, 0>> /\ buf[2] = <<m, 1>>
  <2>1. 1 \in 1..Len(buf) /\ 2 \in 1..Len(buf) /\ 0 \in 0..1 + n /\ 1 \in 0..1 + n
    BY <1>1, <1>2, <1>8
  <2>2. u[0 + 1] = <<m, 0>> /\ u[1 + 1] = <<m, 1>>
    BY <1>9, <2>1
  <2> QED
    BY <1>5, <2>1, <2>2
<1>11. ContextSize = n /\ Len(buf) >= 2 + n
  <2>1. sent[buf[2][1]] = n
    BY <1>10 DEF n
  <2>2. ContextSize = n \/ ContextSize = BufSize
    BY <2>1 DEF ContextSize
  <2>3. ContextSize # BufSize
    BY <1>1, <1>2
  <2> QED
    BY <1>1, <2>2, <2>3
<1>12. /\ call'.context = [i \in 1..n |-> <<m, i + 1>>]
       /\ Len(call'.context) = n
  <2> DEFINE c == SubSeq(buf, 3, 2 + n)
  <2>1. /\ Len(c) = n /\ c = [i \in 1..n |-> c[i]]
        /\ \A i \in 1..n : c[i] = buf[i + 2]
    <3>1. 3 \in 1..Len(buf) + 1 /\ 2 + n \in 3 - 1..Len(buf) /\ (2 + n) - 3 + 1 = n
      BY <1>1, <1>2, <1>8, <1>11
    <3>2. /\ Len(c) = n /\ c = [i \in 1..n |-> buf[3 + i - 1]]
          /\ \A i \in 1..n : c[i] = buf[3 + i - 1]
      BY <1>2, <3>1, Slice
    <3> HIDE DEF c
    <3>3. \A i \in 1..n : 3 + i - 1 = i + 2
      BY <1>8
    <3> QED
      BY <3>2, <3>3
  <2>2. call'.context = c
    BY <1>1, <1>11
  <2> HIDE DEF c
  <2>3. ASSUME NEW i \in 1..n PROVE c[i] = <<m, i + 1>>
    <3>1. i + 1 \in 0..1 + n /\ i + 2 \in 1..Len(buf) /\ (i + 1) + 1 = i + 2
      BY <1>2, <1>8, <1>11
    <3>2. u[(i + 1) + 1] = <<m, i + 1>>
      BY <1>9, <3>1
    <3> QED
      BY <1>5, <2>1, <3>1, <3>2
  <2> QED
    BY <2>1, <2>2, <2>3
<1>13. call'.of = <<m, 0>> /\ call'.kind = "message"
  BY <1>1, <1>10
<1>14. /\ buf' \in Seq(Cells) /\ Len(buf') = Len(buf) - 2
       /\ \A k \in 1..Len(buf) - 2 : buf'[k] = buf[k + 2]
  <2> DEFINE c == SubSeq(buf, 3, Len(buf))
  <2>1. /\ 3 \in 1..Len(buf) + 1 /\ Len(buf) \in 3 - 1..Len(buf)
        /\ Len(buf) - 3 + 1 = Len(buf) - 2
    BY <1>1, <1>2
  <2>2. /\ c \in Seq(Cells) /\ Len(c) = Len(buf) - 2
        /\ \A k \in 1..Len(buf) - 2 : c[k] = buf[3 + k - 1]
    BY <1>2, <2>1, Slice
  <2>3. buf' = c
    BY <1>1
  <2> HIDE DEF c
  <2>4. \A k \in 1..Len(buf) - 2 : 3 + k - 1 = k + 2
    BY <1>2
  <2> QED
    BY <2>2, <2>3, <2>4
<1>15. Skip' = n /\ n \in 0..Len(buf') /\ Len(buf') <= BufSize
  BY <1>2, <1>8, <1>11, <1>12, <1>13, <1>14 DEF Skip
<1>16. Unread' = v
  BY <1>1, <1>15 DEF Unread
<1> DEFINE b == buf'
<1> HIDE DEF b, v
<1>17. /\ Len(v) = Len(buf) - 2 - n + Len(pipe)
       /\ \A k \in 1..Len(buf) - 2 - n : v[k] = buf[n + k + 2]
       /\ \A k \in 1..Len(pipe) : v[Len(buf) - 2 - n + k] = pipe[k]
  <2>1. /\ b \in Seq(Cells) /\ Len(b) = Len(buf) - 2 /\ n \in 0..Len(b)
        /\ \A k \in 1..Len(buf) - 2 : b[k] = buf[k + 2]
        /\ v = Rest(b, n, pipe)
    BY <1>14, <1>15 DEF b, v
  <2>2. /\ Len(v) = Len(b) - n + Len(pipe)
        /\ \A k \in 1..Len(b) - n : v[k] = b[n + k]
        /\ \A k \in 1..Len(pipe) : v[Len(b) - n + k] = pipe[k]
    BY ZenonT(60), <1>2, <2>1, RestShape
  <2>3. ASSUME NEW k \in 1..Len(buf) - 2 - n PROVE v[k] = buf[n + k + 2]
    <3>1. k \in 1..Len(b) - n /\ n + k \in 1..Len(buf) - 2
      BY <1>2, <1>8, <1>11, <2>1
    <3> QED
      BY <2>1, <2>2, <3>1
  <2> QED
    BY <2>1, <2>2, <2>3
<1>18. Len(v) = Len(u) - (2 + n) /\ \A k \in 1..Len(v) : v[k] = u[k + (2 + n)]
  <2>1. Len(v) = Len(u) - (2 + n)
    BY <1>2, <1>5, <1>8, <1>17
  <2>2. ASSUME NEW k \in 1..Len(v) PROVE v[k] = u[k + (2 + n)]
    <3>1. CASE k <= Len(buf) - 2 - n
      <4>1. k \in 1..Len(buf) - 2 - n /\ n + k + 2 \in 1..Len(buf) /\ n + k + 2 = k + (2 + n)
        BY <1>2, <1>8, <1>11, <3>1
      <4> QED
        BY <1>5, <1>17, <4>1
    <3>2. CASE k > Len(buf) - 2 - n
      <4> DEFINE j == k - (Len(buf) - 2 - n)
      <4>1. /\ j \in 1..Len(pipe) /\ Len(buf) - 2 - n + j = k
            /\ Len(buf) + j = k + (2 + n)
        BY <1>2, <1>8, <1>11, <1>17, <3>2
      <4> HIDE DEF j
      <4>2. v[k] = pipe[j] /\ u[k + (2 + n)] = pipe[j]
        BY <1>5, <1>17, <4>1
      <4> QED
        BY <4>2
    <3> QED
      BY <1>2, <1>8, <1>11, <3>1, <3>2
  <2> QED
    BY <2>1, <2>2
<1>19. off[m + 1] = off[m] + 2 + n /\ off[m] \in Nat /\ off[Len(sent) + 1] \in Nat
  <2>1. m \in 1..Len(sent) + 1 /\ Len(sent) + 1 \in 1..Len(sent) + 1
    BY <1>2, <1>7
  <2> QED
    BY <1>4, <1>7, <2>1 DEF Offsets, n
<1>20. Len(v) = off[Len(sent) + 1] - off[m + 1]
  <2>1. Len(u) = off[Len(sent) + 1] - off[m]
    BY <1>1, <1>4 DEF Framed
  <2> QED
    BY SMTT(30), <1>8, <1>18, <1>19, <2>1
<1>21. ASSUME NEW i \in m + 1..Len(sent), NEW p \in 0..1 + sent[i]
       PROVE  v[off[i] - off[m + 1] + p + 1] = <<i, p>>
  <2> DEFINE k == off[i] - off[m + 1] + p + 1
  <2>1. k \in 1..Len(v)
    BY <1>2, <1>4, <1>7, <1>20, PlaceInRange
  <2>2. i \in ran + 1..Len(sent) /\ i \in 1..Len(sent) /\ i \in 1..Len(sent) + 1
    BY <1>1, <1>2, <1>7
  <2>3. off[i] \in Nat /\ p \in Nat
    <3>1. off[i] \in Nat
      BY <1>4, <2>2 DEF Offsets
    <3>2. sent[i] \in Nat
      BY <1>2, <2>2, SizesNat
    <3> QED
      BY <3>1, <3>2
  <2>4. k + (2 + n) = off[i] - off[ran + 1] + p + 1
    <3>1. /\ off[m + 1] = off[m] + 2 + n /\ off[ran + 1] = off[m]
          /\ off[i] \in Int /\ off[m] \in Int /\ n \in Int /\ p \in Int
      BY SMTT(30), <1>1, <1>8, <1>19, <2>3
    <3> DEFINE d == off[i] - off[m + 1]
               e == off[i] - off[m]
    <3>2. d \in Int /\ e \in Int /\ d + 2 + n = e
      BY <3>1
    <3> HIDE DEF d, e
    <3>3. d + p + 1 + (2 + n) = e + p + 1
      BY <3>1, <3>2
    <3> QED
      BY <3>1, <3>3 DEF d, e
  <2>5. u[off[i] - off[ran + 1] + p + 1] = <<i, p>>
    BY <1>4, <2>2 DEF Framed
  <2> QED
    BY <1>18, <2>1, <2>4, <2>5
<1>22. Framed(off, v, sent, m)
  BY <1>20, <1>21 DEF Framed
<1>23. Whole(Unread, sent, ran)'
  BY <1>1, <1>4, <1>16, <1>22 DEF Whole
<1>24. CallbacksInOrder'
  <2>1. sent'[ran'] = n
    BY <1>1 DEF n
  <2> QED
    BY <1>1, <1>12, <1>13, <2>1 DEF CallbacksInOrder
<1>25. /\ sent' \in Seq(Sizes) /\ ran' \in 0..Len(sent') /\ ran' >= 1
       /\ buf' \in Seq(Cells) /\ pipe' \in Seq(Cells)
       /\ Skip' \in 0..Len(buf') /\ Len(buf') <= BufSize
  BY <1>1, <1>2, <1>7, <1>14, <1>15
<1> QED
  BY <1>23, <1>24, <1>25 DEF MessagesInv

\* One more message is written behind the others.
LEMMA MessagesSchedule ==
    ASSUME MessagesInv, HInv, NEW size \in Sizes, ScheduleCallback(size)
    PROVE  MessagesInv'
<1> DEFINE m == Len(sent) + 1
           w == Message(m, size)
           q == pipe \o w
           u == Rest(buf, Skip, pipe)
           v == Rest(buf, Skip, q)
           t == Append(sent, size)
<1>1. /\ state # "Released" /\ sent' = t /\ UNCHANGED <<state, buf, call, ran>>
      /\ Len(t) = m /\ t \in Seq(Sizes)
      /\ \A i \in 1..Len(sent) : t[i] = sent[i]
      /\ t[m] = size
  BY DEF ScheduleCallback, MessagesInv
<1>2. pipe' = q
  BY <1>1 DEF ScheduleCallback
<1>3. /\ sent \in Seq(Sizes) /\ ran \in 0..Len(sent) /\ size \in Nat
      /\ buf \in Seq(Cells) /\ pipe \in Seq(Cells) /\ Skip \in 0..Len(buf)
  BY SizesNat DEF MessagesInv
<1>4. /\ w \in Seq(Cells) /\ Len(w) = 2 + size
      /\ \A k \in 1..2 + size : w[k] = <<m, k - 1>>
  BY <1>3 DEF Message, Cells
<1> HIDE DEF w, t
<1>5. /\ q \in Seq(Cells) /\ Len(q) = Len(pipe) + Len(w)
      /\ \A k \in 1..Len(pipe) + Len(w) :
            q[k] = IF k <= Len(pipe) THEN pipe[k] ELSE w[k - Len(pipe)]
  BY <1>3, <1>4, Concatenated
<1> HIDE DEF q
<1>6. /\ Len(u) = Len(buf) - Skip + Len(pipe)
      /\ \A k \in 1..Len(buf) - Skip : u[k] = buf[Skip + k]
      /\ \A k \in 1..Len(pipe) : u[Len(buf) - Skip + k] = pipe[k]
  BY <1>3, RestShape
<1>7. /\ Len(v) = Len(buf) - Skip + Len(q)
      /\ \A k \in 1..Len(buf) - Skip : v[k] = buf[Skip + k]
      /\ \A k \in 1..Len(q) : v[Len(buf) - Skip + k] = q[k]
  BY <1>3, <1>5, RestShape
<1>8. Unread = u /\ Unread' = v
  BY <1>1, <1>2 DEF Unread, Skip
<1> DEFINE n == Len(buf) - Skip
<1>9. n \in Nat
  BY <1>3
<1> HIDE DEF u, v, n
<1>10. /\ Len(v) = Len(u) + 2 + size /\ Len(u) \in Nat
       /\ \A k \in 1..Len(u) : v[k] = u[k]
       /\ \A k \in 1..2 + size : v[Len(u) + k] = <<m, k - 1>>
  <2>1. /\ Len(u) = n + Len(pipe) /\ Len(v) = n + Len(q)
        /\ \A k \in 1..n : v[k] = u[k]
        /\ \A k \in 1..Len(pipe) : u[n + k] = pipe[k]
        /\ \A k \in 1..Len(q) : v[n + k] = q[k]
    BY <1>6, <1>7 DEF n
  <2>2. ASSUME NEW k \in 1..Len(u) PROVE v[k] = u[k]
    <3>1. CASE k <= n
      BY <1>9, <2>1, <3>1
    <3>2. CASE k > n
      <4> DEFINE j == k - n
      <4>1. j \in 1..Len(pipe) /\ n + j = k /\ j \in 1..Len(pipe) + Len(w) /\ j \in 1..Len(q)
        BY <1>3, <1>4, <1>5, <1>9, <2>1, <3>2
      <4> HIDE DEF j
      <4>2. q[j] = pipe[j]
        BY <1>5, <4>1
      <4>3. v[n + j] = q[j] /\ u[n + j] = pipe[j]
        BY <2>1, <4>1
      <4> QED
        BY <4>1, <4>2, <4>3
    <3> QED
      BY <1>9, <2>1, <1>3, <3>1, <3>2
  <2>3. ASSUME NEW k \in 1..2 + size PROVE v[Len(u) + k] = <<m, k - 1>>
    <3> DEFINE j == Len(pipe) + k
    <3>1. /\ j \in 1..Len(pipe) + Len(w) /\ j \in 1..Len(q) /\ n + j = Len(u) + k
          /\ ~(j <= Len(pipe)) /\ j - Len(pipe) = k
      BY <1>3, <1>4, <1>5, <1>9, <2>1
    <3> HIDE DEF j
    <3>2. q[j] = w[k]
      BY <1>5, <3>1
    <3>3. v[n + j] = q[j]
      BY <2>1, <3>1
    <3> QED
      BY <1>4, <3>1, <3>2, <3>3
  <2>4. Len(v) = Len(u) + 2 + size /\ Len(u) \in Nat
    BY SMTT(30), <1>3, <1>4, <1>5, <1>9, <2>1
  <2> QED
    BY <2>2, <2>3, <2>4
<1>11. PICK off : Offsets(off, sent) /\ Framed(off, u, sent, ran)
  BY <1>1, <1>8 DEF MessagesInv, Whole
<1> DEFINE new == [i \in 1..m + 1 |-> IF i <= m THEN off[i] ELSE off[m] + 2 + size]
<1>12. /\ off[m] \in Nat /\ off[1] = 0
       /\ \A i \in 1..m : off[i] \in Nat /\ off[i] <= off[m]
  BY SMTT(30), <1>3, <1>11 DEF Offsets
<1>13. /\ new \in [1..m + 1 -> Nat] /\ new[m + 1] = off[m] + 2 + size
       /\ \A i \in 1..m : new[i] = off[i]
  BY SMTT(30), <1>3, <1>12
<1> HIDE DEF new
<1>14. Offsets(new, t)
  <2>1. new \in [1..Len(t) + 1 -> Nat] /\ new[1] = 0
    BY <1>1, <1>3, <1>12, <1>13
  <2>2. ASSUME NEW i \in 1..Len(t) PROVE new[i + 1] = new[i] + 2 + t[i]
    <3>1. CASE i \in 1..Len(sent)
      <4>1. off[i + 1] = off[i] + 2 + sent[i]
        BY <1>11, <3>1 DEF Offsets
      <4>2. i \in 1..m /\ i + 1 \in 1..m
        BY <1>3, <3>1
      <4> QED
        BY <1>1, <1>13, <3>1, <4>1, <4>2
    <3>2. CASE i = m
      BY <1>1, <1>3, <1>13, <3>2
    <3> QED
      BY <1>1, <1>3, <3>1, <3>2
  <2>3. ASSUME NEW i \in 1..Len(t) + 1, NEW j \in 1..Len(t) + 1, i <= j
        PROVE  new[i] <= new[j]
    <3>1. CASE j <= m
      <4>1. i \in 1..Len(sent) + 1 /\ j \in 1..Len(sent) + 1
        BY <1>3, <2>3, <3>1
      <4> QED
        BY <1>11, <1>13, <2>3, <4>1 DEF Offsets
    <3>2. CASE j = m + 1 /\ i <= m
      <4>1. i \in 1..m
        BY <1>3, <3>2
      <4> QED
        BY SMTT(30), <1>3, <1>12, <1>13, <3>2, <4>1
    <3>3. CASE j = m + 1 /\ i = m + 1
      BY <1>3, <1>12, <1>13, <3>3
    <3> QED
      BY <1>1, <1>3, <2>3, <3>1, <3>2, <3>3
  <2> QED
    BY <2>1, <2>2, <2>3 DEF Offsets
<1>15. ran + 1 \in 1..m /\ m \in 1..m
  BY <1>3
<1>16. Len(u) = off[m] - off[ran + 1]
  BY <1>11 DEF Framed
<1>17. Len(v) = new[Len(t) + 1] - new[ran + 1]
  <2> DEFINE a == off[m]
             b == off[ran + 1]
  <2>1. /\ a \in Nat /\ b \in Nat /\ Len(u) = a - b
        /\ new[Len(t) + 1] = a + 2 + size /\ new[ran + 1] = b
    BY <1>1, <1>12, <1>13, <1>15, <1>16
  <2> HIDE DEF a, b
  <2>2. Len(v) = (a + 2 + size) - b
    BY <1>3, <1>10, <2>1
  <2> QED
    BY <2>1, <2>2
<1>18. ASSUME NEW i \in ran + 1..Len(t), NEW p \in 0..1 + t[i]
       PROVE  v[new[i] - new[ran + 1] + p + 1] = <<i, p>>
  <2>1. CASE i <= Len(sent)
    <3>1. /\ i \in ran + 1..Len(sent) /\ i \in 1..m /\ t[i] = sent[i]
          /\ p \in 0..1 + sent[i]
      BY <1>1, <1>3, <2>1
    <3>2. off[i] - off[ran + 1] + p + 1 \in 1..Len(u)
      BY <1>3, <1>11, <1>16, <3>1, PlaceInRange
    <3>3. u[off[i] - off[ran + 1] + p + 1] = <<i, p>>
      BY <1>11, <3>1 DEF Framed
    <3>4. new[i] = off[i] /\ new[ran + 1] = off[ran + 1]
      BY <1>13, <1>15, <3>1
    <3> QED
      BY <1>10, <3>2, <3>3, <3>4
  <2>2. CASE i = m
    <3>1. new[i] - new[ran + 1] = Len(u)
      BY <1>13, <1>15, <1>16, <2>2
    <3>2. p + 1 \in 1..2 + size /\ (p + 1) - 1 = p /\ p \in Nat
      BY <1>1, <1>3, <2>2
    <3>3. Len(u) + p + 1 = Len(u) + (p + 1)
      BY <1>10, <3>2
    <3>4. v[Len(u) + (p + 1)] = <<m, p>>
      BY <1>10, <3>2
    <3> QED
      BY <2>2, <3>1, <3>3, <3>4
  <2> QED
    BY <1>1, <1>3, <2>1, <2>2
<1>19. Whole(v, t, ran)
  BY <1>14, <1>17, <1>18 DEF Whole, Framed
<1>20. CallbacksInOrder'
  <2>1. CASE call.kind = "message"
    <3>1. ran \in 1..Len(sent)
      BY <1>3, <2>1 DEF MessagesInv
    <3>2. sent'[ran] = sent[ran]
      BY <1>1, <3>1
    <3> QED
      BY <1>1, <3>2 DEF CallbacksInOrder, MessagesInv
  <2> QED
    BY <1>1, <2>1 DEF CallbacksInOrder
<1>21. /\ sent' \in Seq(Sizes) /\ ran' \in 0..Len(sent') /\ pipe' \in Seq(Cells)
       /\ Skip' = Skip
  BY <1>1, <1>2, <1>3, <1>5 DEF Skip
<1> QED
  BY <1>1, <1>8, <1>19, <1>20, <1>21 DEF MessagesInv

LEMMA MessagesNext ==
    ASSUME MessagesInv, HInv, [TCPNext]_vars
    PROVE  MessagesInv'
<1> USE DEF NoCall
<1>1. CASE LoopStep /\ UNCHANGED tcpVars
  <2>1. CASE Run \/ Poll \/ SelectInterrupted \/ FireTimer \/ TimersDone \/ MessagesDone
             \/ HandlesDone
    <3>1. UNCHANGED <<sent, ran, buf, pipe>>
      BY <2>1
         DEF Run, Poll, SelectInterrupted, FireTimer, TimersDone, MessagesDone, HandlesDone
    <3>2. call' = call \/ (call = NoCall /\ call'.kind = "timer")
      <4>1. CASE FireTimer
        BY <4>1 DEF FireTimer
      <4> QED
        BY <2>1, <4>1
           DEF Run, Poll, SelectInterrupted, TimersDone, MessagesDone, HandlesDone
    <3>3. state = "Released" => state' = "Released"
      BY <2>1 DEF HInv, Run, Poll, SelectInterrupted, FireTimer, TimersDone, MessagesDone,
                  HandlesDone
    <3>4. call' = call \/ (call.kind # "message" /\ call'.kind # "message")
      BY <3>2
    <3> QED
      BY <3>1, <3>3, <3>4, MessagesRest
  <2> QED
    BY <1>1, <2>1, MessagesReturn, MessagesProcess, MessagesCall DEF LoopStep
<1>2. CASE LoopEnvironment /\ UNCHANGED tcpVars
  <2>1. CASE Stop \/ Tick \/ ClientTimers
    BY <2>1, MessagesRest DEF Stop, Tick, ClientTimers
  <2>2. CASE Release
    <3>1. /\ pipe' = <<>> /\ pipe' \in Seq(Cells) /\ state' = "Released"
          /\ UNCHANGED <<sent, ran, buf, call>>
      BY <2>2 DEF Release
    <3> QED
      BY <3>1 DEF MessagesInv, CallbacksInOrder, Skip
  <2>3. CASE \E size \in Sizes : ScheduleCallback(size)
    BY <2>3, MessagesSchedule
  <2> QED
    BY <1>2, <2>1, <2>2, <2>3 DEF LoopEnvironment
<1>3. CASE SelectSockets
  BY <1>3, MessagesRest DEF SelectSockets, Select
<1>4. CASE ClientOperation
  BY <1>4, MessagesRest
     DEF ClientOperation, OpenListener, CloseListener, AcceptTCPStream, TCPStreamClose,
         TCPStreamUpdateInterests, ClientStep
<1>5. CASE Connect \/ Abort \/ UNCHANGED vars
  BY <1>5, MessagesRest DEF Connect, Abort, vars, loopVars
<1> QED
  BY <1>1, <1>2, <1>3, <1>4, <1>5 DEF TCPNext

\* The bytes in the buffer and the pipe are always whole messages, in the order in
\* which they were written, behind the context of the callback that runs.
THEOREM MessagesInvariance == TCPSpec => []MessagesInv
<1>1. LoopInit => MessagesInv
  BY MessagesInit
<1> QED
  BY <1>1, MessagesNext, HandlesInvariance, PTL DEF TCPSpec

\* Callbacks that other threads schedule are called in order, once and with their
\* context, however the pipe is read.
THEOREM MessagesInOrder == TCPSpec => []CallbacksInOrder
<1>1. MessagesInv => CallbacksInOrder
  BY DEF MessagesInv
<1> QED
  BY <1>1, MessagesInvariance, PTL


-----------------------------------------------------------------------------
(***************************************************************************)
(* The timers.                                                             *)
(***************************************************************************)

Timers == [id : Nat, asked : Nat, deadline : Nat]

\* What is stored for a deadline: 0 is stored as 1.
Stored(t) == t.deadline = IF t.asked = 0 THEN 1 ELSE t.asked

\* A list of timers in the order in which they fire, the newest of which is number n.
Ordered(l, n) ==
    /\ l \in Seq(Timers) /\ n \in Nat
    /\ \A i \in 1..Len(l) : l[i].id <= n /\ Stored(l[i])
    /\ \A i, j \in 1..Len(l) : i < j => Before(l[i], l[j]) /\ l[i].id # l[j].id

\* A clock past 0: only a timer asked for as soon as possible has deadline 0.
TimersInv ==
    /\ now \in Nat /\ now >= 1
    /\ Ordered(timers, registered)

LEMMA TimerRemoved ==
    ASSUME NEW l, NEW n, Ordered(l, n), NEW k \in 1..Len(l)
    PROVE  Ordered(RemoveAt(l, k), n)
<1> DEFINE new == RemoveAt(l, k)
<1>1. l \in Seq(Timers) /\ n \in Nat
  BY DEF Ordered
<1>2. NoRepeats(l)
  <2> SUFFICES ASSUME NEW i \in 1..Len(l), NEW j \in 1..Len(l), i < j, l[i] = l[j]
               PROVE  FALSE
    BY <1>1 DEF NoRepeats
  <2>1. l[i].id # l[j].id
    BY DEF Ordered
  <2> QED
    BY <2>1
<1>3. /\ new \in Seq(Timers) /\ Len(new) = Len(l) - 1
      /\ \A i \in 1..Len(new) : new[i] = IF i < k THEN l[i] ELSE l[i + 1]
  BY <1>1, <1>2, Removed
<1> HIDE DEF new
<1> DEFINE f(i) == IF i < k THEN i ELSE i + 1
<1>4. \A i \in 1..Len(new) : f(i) \in 1..Len(l) /\ new[i] = l[f(i)]
  BY <1>1, <1>3
<1>5. \A i, j \in 1..Len(new) : i < j => f(i) < f(j)
  BY <1>1, <1>3
<1> HIDE DEF f
<1>6. \A i \in 1..Len(new) : new[i].id <= n /\ Stored(new[i])
  BY <1>4 DEF Ordered
<1>7. \A i, j \in 1..Len(new) : i < j => Before(new[i], new[j]) /\ new[i].id # new[j].id
  BY <1>4, <1>5 DEF Ordered
<1>8. Ordered(new, n)
  BY <1>1, <1>3, <1>6, <1>7 DEF Ordered
<1> QED
  BY <1>8 DEF new

\* Behind the timers that expire no later, before the first that expires later.
LEMMA TimerInserted ==
    ASSUME NEW l, NEW n, Ordered(l, n), NEW k \in 1..Len(l) + 1, NEW d \in Nat, NEW x \in Timers,
           x.id = n + 1, x.asked = d, Stored(x),
           \A j \in 1..k - 1 : l[j].deadline <= d,
           k <= Len(l) => l[k].deadline > d
    PROVE  Ordered(InsertAt(l, k, x), n + 1)
<1> DEFINE new == InsertAt(l, k, x)
<1>1. l \in Seq(Timers) /\ n \in Nat /\ \A i \in 1..Len(l) : l[i] \in Timers
  BY DEF Ordered
<1>2. /\ new \in Seq(Timers) /\ Len(new) = Len(l) + 1
      /\ \A i \in 1..Len(new) :
            new[i] = IF i < k THEN l[i] ELSE IF i = k THEN x ELSE l[i - 1]
  <2>1. new \in Seq(Timers) /\ Spliced(new, l, k, x)
    BY <1>1, InsertedAt
  <2> HIDE DEF new
  <2> QED
    BY <2>1 DEF Spliced
<1> HIDE DEF new
<1>3. \A i \in 1..Len(l) : /\ l[i].deadline \in Nat /\ l[i].asked \in Nat
                           /\ l[i].id \in Nat /\ l[i].id <= n /\ Stored(l[i])
  BY <1>1 DEF Ordered, Timers
<1>4. ASSUME NEW i \in 1..Len(new)
      PROVE  new[i].id <= n + 1 /\ Stored(new[i])
  <2>1. CASE i < k
    <3>1. i \in 1..Len(l) /\ new[i] = l[i]
      BY <1>1, <1>2, <2>1
    <3>2. l[i].id <= n /\ Stored(l[i]) /\ l[i].id \in Nat
      BY <1>3, <3>1
    <3> QED
      BY <1>1, <3>1, <3>2
  <2>2. CASE i = k
    BY <1>1, <1>2, <2>2
  <2>3. CASE i > k
    <3>1. i - 1 \in 1..Len(l) /\ new[i] = l[i - 1]
      BY <1>1, <1>2, <2>3
    <3>2. l[i - 1].id <= n /\ Stored(l[i - 1]) /\ l[i - 1].id \in Nat
      BY <1>3, <3>1
    <3> QED
      BY <1>1, <3>1, <3>2
  <2> QED
    BY <2>1, <2>2, <2>3
<1>5. ASSUME NEW j \in 1..Len(l), j < k PROVE Before(l[j], x) /\ l[j].id # x.id
  <2>1. l[j].deadline <= d
    BY <1>5
  <2>2. /\ l[j].deadline = IF l[j].asked = 0 THEN 1 ELSE l[j].asked
        /\ l[j].asked \in Nat /\ l[j].id \in Nat /\ l[j].id <= n
    BY <1>3 DEF Stored
  <2> QED
    BY <1>1, <2>1, <2>2 DEF Before
<1>6. ASSUME NEW j \in 1..Len(l), j >= k PROVE Before(x, l[j]) /\ l[j].id # x.id
  <2>1. k \in 1..Len(l) /\ l[k].deadline > d
    BY <1>1, <1>6
  <2>2. l[j].asked >= l[k].asked
    <3>1. CASE j = k
      BY <1>3, <2>1, <3>1
    <3>2. CASE j > k
      <4>1. Before(l[k], l[j])
        BY <2>1, <3>2 DEF Ordered
      <4> QED
        BY <1>3, <2>1, <4>1 DEF Before
    <3> QED
      BY <1>6, <3>1, <3>2
  <2>3. d = 0 \/ d < l[k].asked
    <3>1. l[k].deadline = IF l[k].asked = 0 THEN 1 ELSE l[k].asked
      BY <1>3, <2>1 DEF Stored
    <3> QED
      BY <1>3, <2>1, <3>1
  <2>4. d = 0 \/ d < l[j].asked
    BY <1>3, <2>1, <2>2, <2>3
  <2>5. l[j].asked \in Nat /\ l[j].id \in Nat /\ l[j].id <= n
    BY <1>3
  <2> QED
    BY <1>1, <2>4, <2>5 DEF Before
<1>7. ASSUME NEW i \in 1..Len(new), NEW j \in 1..Len(new), i < j
      PROVE  Before(new[i], new[j]) /\ new[i].id # new[j].id
  <2>1. CASE j < k
    <3>1. new[i] = l[i] /\ new[j] = l[j] /\ i \in 1..Len(l) /\ j \in 1..Len(l)
      BY <1>1, <1>2, <1>7, <2>1
    <3> QED
      BY <1>7, <3>1 DEF Ordered
  <2>2. CASE j = k
    <3>1. new[i] = l[i] /\ new[j] = x /\ i \in 1..Len(l) /\ i < k
      BY <1>1, <1>2, <1>7, <2>2
    <3> QED
      BY <1>5, <3>1
  <2>3. CASE i < k /\ j > k
    <3>1. /\ new[i] = l[i] /\ new[j] = l[j - 1] /\ i \in 1..Len(l) /\ j - 1 \in 1..Len(l)
          /\ i < j - 1
      BY <1>1, <1>2, <2>3
    <3> QED
      BY <3>1 DEF Ordered
  <2>4. CASE i = k
    <3>1. new[i] = x /\ new[j] = l[j - 1] /\ j - 1 \in 1..Len(l) /\ j - 1 >= k
      BY <1>1, <1>2, <1>7, <2>4
    <3> QED
      BY <1>6, <3>1
  <2>5. CASE i > k
    <3>1. /\ new[i] = l[i - 1] /\ new[j] = l[j - 1] /\ i - 1 \in 1..Len(l)
          /\ j - 1 \in 1..Len(l) /\ i - 1 < j - 1
      <4>1. /\ i - 1 \in 1..Len(l) /\ j - 1 \in 1..Len(l) /\ i - 1 < j - 1
            /\ ~(i < k) /\ i # k /\ ~(j < k) /\ j # k
        BY <1>1, <1>2, <1>7, <2>5
      <4> QED
        BY <1>2, <4>1
    <3> QED
      BY <3>1 DEF Ordered
  <2> QED
    BY <1>7, <2>1, <2>2, <2>3, <2>4, <2>5
<1>8. Ordered(new, n + 1)
  BY <1>1, <1>2, <1>4, <1>7 DEF Ordered
<1> QED
  BY <1>8 DEF new

\* The first timer is removed.
LEMMA TimerFired ==
    ASSUME NEW l, NEW n, Ordered(l, n), l # <<>>
    PROVE  /\ Ordered(Tail(l), n)
           /\ \A i \in 1..Len(Tail(l)) : Before(Head(l), Tail(l)[i])
<1>1. /\ l \in Seq(Timers) /\ Len(l) >= 1 /\ n \in Nat
      /\ Tail(l) \in Seq(Timers) /\ Len(Tail(l)) = Len(l) - 1
      /\ \A i \in 1..Len(Tail(l)) : Tail(l)[i] = l[i + 1]
      /\ Head(l) = l[1]
  BY DEF Ordered
<1> DEFINE t == Tail(l)
<1> HIDE DEF t
<1>2. /\ t \in Seq(Timers) /\ Len(t) = Len(l) - 1
      /\ \A i \in 1..Len(t) : t[i] = l[i + 1] /\ i + 1 \in 1..Len(l) /\ i + 1 > 1
      /\ 1 \in 1..Len(l)
  BY <1>1 DEF t
<1>3. \A i, j \in 1..Len(t) : i < j => i + 1 < j + 1
  OBVIOUS
<1>4. Ordered(t, n)
  BY SMTT(30), <1>1, <1>2, <1>3 DEF Ordered
<1>5. \A i \in 1..Len(t) : Before(l[1], t[i])
  BY <1>2 DEF Ordered
<1> QED
  BY <1>1, <1>4, <1>5 DEF t

LEMMA TimersInit ==
    ASSUME LoopInit
    PROVE  TimersInv
BY DEF LoopInit, TimersInv, Ordered

LEMMA TimersNext ==
    ASSUME TimersInv, [TCPNext]_vars
    PROVE  TimersInv'
<1>1. CASE UNCHANGED <<timers, registered>> /\ (now' = now \/ now' = now + 1)
  BY <1>1 DEF TimersInv
<1>2. CASE FireTimer
  <2>1. /\ timers # <<>> /\ timers' = Tail(timers) /\ registered' = registered /\ now' = now
    BY <1>2 DEF FireTimer, DueBy
  <2> QED
    BY <2>1, TimerFired DEF TimersInv
<1>3. CASE ClientTimers
  <2>1. now' = now
    BY <1>3 DEF ClientTimers
  <2>2. CASE \E deadline \in Deadlines : TimerRegister(deadline)
    <3>1. PICK d \in Deadlines : TimerRegister(d)
      BY <2>2
    <3>2. d \in Nat
      BY <3>1, RunLoopAssumption DEF Deadlines, TimersInv
    <3> DEFINE x == [id |-> registered + 1, asked |-> d,
                     deadline |-> IF d = 0 THEN 1 ELSE d]
    <3>3. /\ registered' = registered + 1
          /\ \E i \in InsertPosition(d) : timers' = InsertAt(timers, i, x)
      BY <3>1, <3>2 DEF TimerRegister
    <3>4. PICK k \in InsertPosition(d) : timers' = InsertAt(timers, k, x)
      BY <3>3
    <3>5. /\ x \in Timers /\ x.id = registered + 1 /\ x.asked = d /\ Stored(x)
      BY <3>2 DEF Timers, TimersInv, Ordered, Stored
    <3> HIDE DEF x
    <3>6. /\ k \in 1..Len(timers) + 1
          /\ \A j \in 1..k - 1 : timers[j].deadline <= d
          /\ k <= Len(timers) => timers[k].deadline > d
      BY DEF InsertPosition
    <3>7. Ordered(InsertAt(timers, k, x), registered + 1)
      BY <3>2, <3>5, <3>6, TimerInserted DEF TimersInv
    <3> QED
      BY <2>1, <3>3, <3>4, <3>7 DEF TimersInv
  <2>3. CASE \E i \in DOMAIN timers : TimerDeregister(i) /\ UNCHANGED registered
    <3>1. PICK i \in DOMAIN timers : timers' = RemoveAt(timers, i) /\ registered' = registered
      BY <2>3 DEF TimerDeregister
    <3>2. i \in 1..Len(timers)
      BY DEF TimersInv, Ordered
    <3> QED
      BY <2>1, <3>1, <3>2, TimerRemoved DEF TimersInv
  <2> QED
    BY <1>3, <2>2, <2>3 DEF ClientTimers
<1>4. CASE LoopStep /\ ~FireTimer
  BY <1>1, <1>4
     DEF LoopStep, Run, Poll, SelectInterrupted, TimersDone, ProcessFileHandle, CallScheduled,
         MessagesDone, Return, HandlesDone
<1>5. CASE LoopEnvironment /\ ~ClientTimers
  BY <1>1, <1>5 DEF LoopEnvironment, Stop, Release, Tick, ScheduleCallback
<1>6. CASE SelectSockets \/ ClientOperation
  BY <1>1, <1>6
     DEF SelectSockets, Select, ClientOperation, OpenListener, CloseListener, AcceptTCPStream,
         TCPStreamClose, TCPStreamUpdateInterests, ClientStep
<1>7. CASE Connect \/ Abort \/ UNCHANGED vars
  BY <1>1, <1>7 DEF Connect, Abort, vars, loopVars
<1> QED
  BY <1>2, <1>3, <1>4, <1>5, <1>6, <1>7 DEF TCPNext

\* A callback of a timer begins only when the first timer expires.
LEMMA FiringStep ==
    ASSUME TimersInv, [TCPNext]_vars
    PROVE  (call = NoCall /\ call'.kind = "timer") =>
              \A i \in DOMAIN timers' : Before(call'.timer, timers'[i])
<1> SUFFICES ASSUME call = NoCall, call'.kind = "timer"
             PROVE  \A i \in DOMAIN timers' : Before(call'.timer, timers'[i])
  OBVIOUS
<1>1. call' # call
  BY DEF NoCall
<1>2. CASE FireTimer
  <2>1. /\ timers # <<>> /\ timers' = Tail(timers) /\ call'.timer = Head(timers)
    BY <1>2 DEF FireTimer, DueBy
  <2> DEFINE t == Tail(timers)
             h == Head(timers)
  <2>2. /\ Ordered(t, registered)
        /\ \A i \in 1..Len(t) : Before(h, t[i])
    BY <2>1, TimerFired DEF TimersInv
  <2> HIDE DEF t, h
  <2>3. DOMAIN t = 1..Len(t)
    BY <2>2 DEF Ordered
  <2> QED
    BY <2>1, <2>2, <2>3 DEF t, h
<1>3. CASE ProcessFileHandle
  <2>1. call' = NoCall \/ call'.kind = "handle"
    BY <1>3 DEF ProcessFileHandle
  <2> QED
    BY <2>1 DEF NoCall
<1>4. CASE CallScheduled
  BY <1>4 DEF CallScheduled
<1>5. CASE LoopStep /\ ~FireTimer /\ ~ProcessFileHandle /\ ~CallScheduled
  BY <1>1, <1>5
     DEF LoopStep, Run, Poll, SelectInterrupted, TimersDone, MessagesDone, Return, HandlesDone
<1>6. CASE LoopEnvironment
  BY <1>1, <1>6 DEF LoopEnvironment, Stop, Release, Tick, ClientTimers, ScheduleCallback
<1>7. CASE SelectSockets \/ ClientOperation
  BY <1>1, <1>7
     DEF SelectSockets, Select, ClientOperation, OpenListener, CloseListener, AcceptTCPStream,
         TCPStreamClose, TCPStreamUpdateInterests, ClientStep
<1>8. CASE Connect \/ Abort \/ UNCHANGED vars
  BY <1>1, <1>8 DEF Connect, Abort, vars, loopVars
<1> QED
  BY <1>2, <1>3, <1>4, <1>5, <1>6, <1>7, <1>8 DEF TCPNext

\* The list of timers is sorted by deadline and registration, also with timers whose
\* deadline 0 is stored as 1 and compared as 0, so that what fires is the first.
THEOREM TimersFireByDeadline == TCPSpec => TimersByDeadline
<1>1. LoopInit => TimersInv
  BY TimersInit
<1>2. TimersInv /\ [TCPNext]_vars => TimersInv'
  BY TimersNext
<1>3. TimersInv /\ [TCPNext]_vars =>
        [call = NoCall /\ call'.kind = "timer" =>
          \A i \in DOMAIN timers' : Before(call'.timer, timers'[i])]_loopVars
  BY FiringStep
<1> QED
  BY <1>1, <1>2, <1>3, PTL DEF TCPSpec, TimersByDeadline

-----------------------------------------------------------------------------
Files == [contents : Values \cup {Torn, Nothing}, synced : BOOLEAN]
SetKinds == {"open", "write", "fsync", "fsyncDir", "rename", "fsyncRename"}
RemovalKinds == {"unlink", "fsyncUnlink"}

\* The operation in progress, and what it has written or removed so far.
OperationOK ==
    /\ op.kind \in {"none", "refused"} \cup SetKinds \cup RemovalKinds
    /\ op.kind \in SetKinds =>
        /\ op = [kind |-> op.kind, key |-> op.key, value |-> op.value]
        /\ op.key \in Keys /\ op.value \in Values /\ op.value \in may[op.key]
    /\ op.kind \in {"fsyncDir", "rename"} =>
        dir[TmpPath(op.key)] = [contents |-> op.value, synced |-> TRUE]
    /\ op.kind = "fsyncRename" => dir[Path(op.key)].contents = op.value
    /\ op.kind \in RemovalKinds =>
        /\ op = [kind |-> op.kind, left |-> op.left, removed |-> op.removed]
        /\ op.left \subseteq op.removed /\ op.removed \subseteq Keys
        /\ \A k \in op.removed : Nothing \in may[k]
        /\ \A k \in op.removed \ op.left : dir[Path(k)] = NoFile
\* A directory that may come back has no key that is gone, except between a
\* removal and the synchronization that follows it.
NothingComesBack ==
    op.kind # "fsyncUnlink" =>
        \A d \in past, k \in Keys : dir[Path(k)] = NoFile => d[Path(k)] = NoFile

IInv ==
    /\ dir \in [Names -> Files] /\ past \subseteq [Names -> Files]
    /\ may \in [Keys -> SUBSET (Values \cup {Nothing})]
    /\ ValueSurvives
    /\ OperationOK
    /\ NothingComesBack

\* The names of keys and of temporary files are told apart
\* (HAPPlatformKeyValueStore.c gives the latter a suffix).
LEMMA NamesDiffer ==
    \A k, l \in Keys :
        /\ Path(k) \in Names /\ TmpPath(k) \in Names
        /\ Path(k) # TmpPath(l)
        /\ (k # l => Path(k) # Path(l) /\ TmpPath(k) # TmpPath(l))
BY DEF Names, Path, TmpPath

LEMMA Initially == KVSInit => IInv
BY NamesDiffer DEF KVSInit, IInv, ValueSurvives, OperationOK, NothingComesBack, Files,
    SetKinds, RemovalKinds, NoOp, NoFile

LEMMA SetStep == ASSUME IInv, NEW k \in Keys, NEW v \in Values, Set(k, v) PROVE IInv'
<1>1. OperationOK'
  BY NamesDiffer DEF IInv, Set, OperationOK, SetKinds, RemovalKinds
<1>2. ValueSurvives'
  BY DEF IInv, Set, ValueSurvives
<1>3. NothingComesBack'
  BY DEF IInv, Set, NothingComesBack
<1>q. QED
  BY <1>1, <1>2, <1>3 DEF IInv, Set

\* A temporary file is opened, written and synchronized: no key is touched.
LEMMA OpenTmpStep == ASSUME IInv, OpenTmp PROVE IInv'
<1> USE NamesDiffer
<1>0. op.kind = "open" /\ op.kind \in SetKinds /\ op.key \in Keys /\ op.value \in Values
      /\ op.kind # "fsyncUnlink"
  BY DEF IInv, OpenTmp, OperationOK, SetKinds
<1> DEFINE tmp == TmpPath(op.key)
<1>1. CASE ~Exists(tmp) /\ Link([dir EXCEPT ![tmp] = EmptyFile])
           /\ op' = [op EXCEPT !.kind = "write"] /\ UNCHANGED may
  <2>1. \A k \in Keys : dir'[Path(k)] = dir[Path(k)]
    BY <1>0, <1>1 DEF IInv, Link
  <2>2. dir' \in [Names -> Files] /\ past' \subseteq [Names -> Files]
    BY <1>0, <1>1 DEF IInv, Link, Files, EmptyFile
  <2>3. OperationOK'
    BY <1>0, <1>1, <2>1 DEF IInv, OperationOK, SetKinds, RemovalKinds
  <2>4. ValueSurvives'
    BY <1>1, <2>1 DEF IInv, ValueSurvives, Link
  <2>5. NothingComesBack'
    BY <1>0, <1>1, <2>1 DEF IInv, NothingComesBack, Link
  <2>q. QED
    BY <1>1, <2>2, <2>3, <2>4, <2>5 DEF IInv
<1>2. CASE Exists(tmp) /\ Change(tmp, EmptyFile)
           /\ op' = [op EXCEPT !.kind = "write"] /\ UNCHANGED may
  <2>1. \A k \in Keys : dir'[Path(k)] = dir[Path(k)]
    BY <1>0, <1>2 DEF IInv, Change
  <2>2. dir' \in [Names -> Files] /\ past' \subseteq [Names -> Files]
    BY <1>0, <1>2 DEF IInv, Change, Files, EmptyFile
  <2>3. OperationOK'
    BY <1>0, <1>2, <2>1 DEF IInv, OperationOK, SetKinds, RemovalKinds
  <2>4. ValueSurvives'
    BY <1>2, <2>1 DEF IInv, ValueSurvives, Change
  <2>5. NothingComesBack'
    BY <1>0, <1>2, <2>1 DEF IInv, NothingComesBack, Change
  <2>q. QED
    BY <1>2, <2>2, <2>3, <2>4, <2>5 DEF IInv
<1>3. CASE op' = [kind |-> "refused"] /\ UNCHANGED <<dir, past, may>>
  BY <1>0, <1>3 DEF IInv, OperationOK, ValueSurvives, NothingComesBack, SetKinds, RemovalKinds
<1>q. QED
  BY <1>1, <1>2, <1>3 DEF OpenTmp

\* An operation that gives up leaves nothing to finish.
LEMMA GiveUp ==
    ASSUME IInv, op.kind # "fsyncUnlink", op' = NoOp, UNCHANGED <<dir, past, may>> PROVE IInv'
BY DEF IInv, OperationOK, ValueSurvives, NothingComesBack, SetKinds, RemovalKinds, NoOp

LEMMA WriteTmpStep == ASSUME IInv, WriteTmp PROVE IInv'
<1> USE NamesDiffer
<1>0. op.kind = "write" /\ op.kind \in SetKinds /\ op.key \in Keys /\ op.value \in Values
  BY DEF IInv, WriteTmp, OperationOK, SetKinds
<1>1. CASE /\ Change(TmpPath(op.key), [contents |-> op.value, synced |-> FALSE])
           /\ op' = [op EXCEPT !.kind = "fsync"] /\ UNCHANGED may
  <2>1. \A k \in Keys : dir'[Path(k)] = dir[Path(k)]
    BY <1>0, <1>1 DEF IInv, Change
  <2>2. dir' \in [Names -> Files] /\ past' \subseteq [Names -> Files]
    BY <1>0, <1>1 DEF IInv, Change, Files
  <2>3. OperationOK'
    BY <1>0, <1>1, <2>1 DEF IInv, OperationOK, SetKinds, RemovalKinds
  <2>4. ValueSurvives'
    BY <1>1, <2>1 DEF IInv, ValueSurvives, Change
  <2>5. NothingComesBack'
    BY <1>0, <1>1, <2>1 DEF IInv, NothingComesBack, Change
  <2>q. QED
    BY <1>1, <2>2, <2>3, <2>4, <2>5 DEF IInv
<1>2. CASE Fail /\ UNCHANGED <<dir, past, may>>
  BY <1>0, <1>2, GiveUp DEF Fail
<1>q. QED
  BY <1>1, <1>2 DEF WriteTmp

\* What is renamed has been synchronized: here FsyncFails matters.
LEMMA FsyncTmpStep == ASSUME IInv, FsyncTmp, FsyncFails = FALSE PROVE IInv'
<1> USE NamesDiffer
<1>0. op.kind = "fsync" /\ op.kind \in SetKinds /\ op.key \in Keys /\ op.value \in Values
  BY DEF IInv, FsyncTmp, OperationOK, SetKinds
<1>1. /\ Change(TmpPath(op.key), [contents |-> op.value, synced |-> TRUE])
      /\ op' = [op EXCEPT !.kind = "fsyncDir"] /\ UNCHANGED may
  BY DEF FsyncTmp
<1>2. \A k \in Keys : dir'[Path(k)] = dir[Path(k)]
  BY <1>0, <1>1 DEF IInv, Change
<1>3. dir' \in [Names -> Files] /\ past' \subseteq [Names -> Files]
  BY <1>0, <1>1 DEF IInv, Change, Files
<1>4. dir'[TmpPath(op.key)] = [contents |-> op.value, synced |-> TRUE]
  BY <1>0, <1>1 DEF IInv, Change
<1>5. OperationOK'
  BY <1>0, <1>1, <1>2, <1>4 DEF IInv, OperationOK, SetKinds, RemovalKinds
<1>6. ValueSurvives'
  BY <1>1, <1>2 DEF IInv, ValueSurvives, Change
<1>7. NothingComesBack'
  BY <1>0, <1>1, <1>2 DEF IInv, NothingComesBack, Change
<1>q. QED
  BY <1>1, <1>3, <1>5, <1>6, <1>7 DEF IInv

LEMMA FsyncTmpDirStep == ASSUME IInv, FsyncTmpDir PROVE IInv'
<1>0. op.kind = "fsyncDir" /\ op.kind \in SetKinds
  BY DEF FsyncTmpDir, SetKinds
<1>1. CASE FsyncDir /\ op' = [op EXCEPT !.kind = "rename"] /\ UNCHANGED may
  BY <1>0, <1>1, NamesDiffer
     DEF IInv, FsyncDir, OperationOK, ValueSurvives, NothingComesBack, SetKinds, RemovalKinds
<1>2. CASE Fail /\ UNCHANGED <<dir, past, may>>
  BY <1>0, <1>2, GiveUp DEF Fail
<1>q. QED
  BY <1>1, <1>2 DEF FsyncTmpDir

LEMMA RenamedStep ==
    ASSUME IInv, KeyValueStoreAssumption, op.kind = "rename",
           Link([dir EXCEPT ![Path(op.key)] = dir[TmpPath(op.key)], ![TmpPath(op.key)] = NoFile]),
           op' = [op EXCEPT !.kind = "fsyncRename"], UNCHANGED may
    PROVE  IInv'
<1> USE NamesDiffer
<1>0. op.kind = "rename" /\ op.kind \in SetKinds /\ op.key \in Keys /\ op.value \in Values
      /\ op.value \in may[op.key]
  BY DEF IInv, OperationOK, SetKinds
<1> DEFINE new == [contents |-> op.value, synced |-> TRUE]
<1>1. /\ dir' = [dir EXCEPT ![Path(op.key)] = new, ![TmpPath(op.key)] = NoFile]
      /\ past' = past \cup {dir}
      /\ op' = [op EXCEPT !.kind = "fsyncRename"] /\ UNCHANGED may
  BY <1>0 DEF IInv, Link, OperationOK
<1>2. /\ dir'[Path(op.key)] = new
      /\ \A k \in Keys \ {op.key} : dir'[Path(k)] = dir[Path(k)]
  BY <1>0, <1>1 DEF IInv
<1>3. dir' \in [Names -> Files] /\ past' \subseteq [Names -> Files]
  BY <1>0, <1>1 DEF IInv, Files, NoFile
<1>4. OperationOK'
  BY <1>0, <1>1, <1>2 DEF IInv, OperationOK, SetKinds, RemovalKinds
<1>5. ValueSurvives'
  BY <1>0, <1>1, <1>2 DEF IInv, ValueSurvives
<1>6. new # NoFile
  BY <1>0 DEF NoFile, KeyValueStoreAssumption
<1>7. NothingComesBack'
  BY <1>0, <1>1, <1>2, <1>6 DEF IInv, NothingComesBack
<1>q. QED
  BY <1>1, <1>3, <1>4, <1>5, <1>7 DEF IInv

LEMMA RenameStep == ASSUME IInv, Rename, KeyValueStoreAssumption PROVE IInv'
<1>0. op.kind = "rename" /\ op.kind \in SetKinds
  BY DEF Rename, SetKinds
<1>1. CASE Fail /\ UNCHANGED <<dir, past, may>>
  BY <1>0, <1>1, GiveUp DEF Fail
<1>q. QED
  BY <1>0, <1>1, RenamedStep DEF Rename

LEMMA FsyncRenameStep == ASSUME IInv, FsyncRename PROVE IInv'
<1>0. op.kind = "fsyncRename" /\ op.kind \in SetKinds /\ op.key \in Keys /\ op.value \in Values
  BY DEF IInv, FsyncRename, OperationOK, SetKinds
<1>1. CASE FsyncDir /\ op' = NoOp /\ may' = [may EXCEPT ![op.key] = {op.value}]
  <2>1. \A k \in Keys : may'[k] = IF k = op.key THEN {op.value} ELSE may[k]
    BY <1>1 DEF IInv
  <2>2. ValueSurvives'
    BY <1>0, <1>1, <2>1 DEF IInv, ValueSurvives, OperationOK, FsyncDir
  <2>3. may' \in [Keys -> SUBSET (Values \cup {Nothing})]
    BY <1>0, <1>1 DEF IInv
  <2>q. QED
    BY <1>0, <1>1, <2>2, <2>3
       DEF IInv, FsyncDir, OperationOK, NothingComesBack, SetKinds, RemovalKinds, NoOp
<1>2. CASE Fail /\ UNCHANGED <<dir, past, may>>
  BY <1>0, <1>2, GiveUp DEF Fail
<1>q. QED
  BY <1>1, <1>2 DEF FsyncRename

LEMMA StartRemovalStep ==
    ASSUME IInv, NEW keys \in SUBSET Keys, StartRemoval(keys) PROVE IInv'
<1>1. op' = [kind |-> "unlink", left |-> Enumerated(keys), removed |-> keys]
      /\ op.kind = "none" /\ UNCHANGED <<dir, past>>
  BY DEF StartRemoval
<1>2. may' \in [Keys -> SUBSET (Values \cup {Nothing})]
      /\ \A k \in Keys : may[k] \subseteq may'[k] /\ (k \in keys => Nothing \in may'[k])
  BY DEF IInv, StartRemoval
<1>3. OperationOK'
  BY <1>1, <1>2 DEF OperationOK, Enumerated, Exists, SetKinds, RemovalKinds
<1>4. ValueSurvives'
  BY <1>1, <1>2 DEF IInv, ValueSurvives
<1>q. QED
  BY <1>1, <1>2, <1>3, <1>4 DEF IInv, NothingComesBack

LEMMA FileUnlinked ==
    ASSUME NEW k, op' = [op EXCEPT !.kind = "fsyncUnlink", !.left = @ \ {k}],
           op = [kind |-> op.kind, left |-> op.left, removed |-> op.removed]
    PROVE  op' = [kind |-> "fsyncUnlink", left |-> op.left \ {k}, removed |-> op.removed]
OBVIOUS

LEMMA UnlinkStep == ASSUME IInv, Unlink PROVE IInv'
<1> USE NamesDiffer
<1>1. PICK k \in op.left :
         \/ /\ Link([dir EXCEPT ![Path(k)] = NoFile])
            /\ op' = [op EXCEPT !.kind = "fsyncUnlink", !.left = @ \ {k}]
            /\ UNCHANGED may
         \/ Fail /\ UNCHANGED <<dir, past, may>>
  BY DEF Unlink
<1>0. /\ op.kind = "unlink" /\ op.kind \in RemovalKinds
      /\ op = [kind |-> op.kind, left |-> op.left, removed |-> op.removed]
      /\ k \in op.removed /\ k \in Keys /\ Nothing \in may[k]
  BY DEF IInv, Unlink, OperationOK, RemovalKinds
<1>2. CASE /\ Link([dir EXCEPT ![Path(k)] = NoFile])
           /\ op' = [op EXCEPT !.kind = "fsyncUnlink", !.left = @ \ {k}]
           /\ UNCHANGED may
  <2>1. /\ dir'[Path(k)] = NoFile
        /\ \A l \in Keys \ {k} : dir'[Path(l)] = dir[Path(l)]
    BY <1>0, <1>2 DEF IInv, Link
  <2>2. dir' \in [Names -> Files] /\ past' \subseteq [Names -> Files]
    BY <1>0, <1>2 DEF IInv, Link, Files, NoFile
  <2>3. op' = [kind |-> "fsyncUnlink", left |-> op.left \ {k}, removed |-> op.removed]
    <3>1. op' = [op EXCEPT !.kind = "fsyncUnlink", !.left = @ \ {k}]
      BY <1>2
    <3>2. op = [kind |-> op.kind, left |-> op.left, removed |-> op.removed]
      BY <1>0
    <3>q. QED
      BY <3>1, <3>2, FileUnlinked
  <2>4. OperationOK'
    <3>1. /\ op.left \subseteq op.removed /\ op.removed \subseteq Keys
          /\ \A l \in op.removed : Nothing \in may'[l]
          /\ \A l \in op.removed \ (op.left \ {k}) : dir'[Path(l)] = NoFile
      BY <1>0, <1>2, <2>1 DEF IInv, OperationOK
    <3>q. QED
      BY <2>3, <3>1 DEF OperationOK, SetKinds, RemovalKinds
  <2>5. ValueSurvives'
    BY <1>0, <1>2, <2>1 DEF IInv, ValueSurvives, Link, NoFile
  <2>6. NothingComesBack'
    BY <2>3 DEF NothingComesBack
  <2>q. QED
    BY <1>2, <2>2, <2>4, <2>5, <2>6 DEF IInv
<1>3. CASE Fail /\ UNCHANGED <<dir, past, may>>
  BY <1>0, <1>3, GiveUp DEF Fail
<1>q. QED
  BY <1>1, <1>2, <1>3

LEMMA FsyncUnlinkStep == ASSUME IInv, FsyncUnlink, FsyncFails = FALSE PROVE IInv'
<1>1. /\ past' = {} /\ UNCHANGED <<dir, may>> /\ op.kind = "fsyncUnlink"
      /\ op' = [op EXCEPT !.kind = "unlink"]
  BY DEF FsyncUnlink, FsyncDir
<1>2. OperationOK'
  BY <1>1 DEF IInv, OperationOK, SetKinds, RemovalKinds
<1>q. QED
  BY <1>1, <1>2 DEF IInv, ValueSurvives, NothingComesBack

\* What has been removed is gone in every directory that may come back.
LEMMA EndRemovalStep == ASSUME IInv, EndRemoval PROVE IInv'
<1>0. /\ op.kind = "unlink" /\ op.kind \in RemovalKinds /\ op.left = {} /\ op' = NoOp
      /\ UNCHANGED <<dir, past>>
      /\ may' = [k \in Keys |-> IF k \in op.removed THEN {Nothing} ELSE may[k]]
  BY DEF EndRemoval, RemovalKinds
<1>1. \A k \in op.removed, d \in past \cup {dir} : d[Path(k)] = NoFile
  BY <1>0 DEF IInv, OperationOK, NothingComesBack
<1>2. ValueSurvives'
  BY <1>0, <1>1 DEF IInv, ValueSurvives, NoFile
<1>3. may' \in [Keys -> SUBSET (Values \cup {Nothing})]
  BY <1>0 DEF IInv
<1>q. QED
  BY <1>0, <1>2, <1>3
     DEF IInv, OperationOK, NothingComesBack, SetKinds, RemovalKinds, NoOp

LEMMA PowerLossStep == ASSUME IInv, PowerLoss PROVE IInv'
<1> USE NamesDiffer
<1>1. PICK d \in past \cup {dir} :
        /\ dir' = [n \in Names |-> [contents |-> IF d[n].synced THEN d[n].contents ELSE Torn,
                                    synced |-> TRUE]]
        /\ may' = [k \in Keys |-> {d[Path(k)].contents}]
  BY DEF PowerLoss
<1>2. past' = {} /\ op' = NoOp
  BY DEF PowerLoss
<1>3. d \in [Names -> Files]
  BY DEF IInv
<1>4. \A k \in Keys : d[Path(k)].contents \in may[k] /\ d[Path(k)].synced
  BY DEF IInv, ValueSurvives
<1>5. dir' \in [Names -> Files]
  <2>1. \A n \in Names : [contents |-> IF d[n].synced THEN d[n].contents ELSE Torn,
                          synced |-> TRUE] \in Files
    BY <1>3 DEF Files
  <2>q. QED
    BY <1>1, <2>1
<1>6. may' \in [Keys -> SUBSET (Values \cup {Nothing})]
  <2>1. \A k \in Keys : {d[Path(k)].contents} \in SUBSET (Values \cup {Nothing})
    <3> SUFFICES ASSUME NEW k \in Keys PROVE d[Path(k)].contents \in Values \cup {Nothing}
      OBVIOUS
    <3>1. d[Path(k)].contents \in may[k] /\ may[k] \subseteq Values \cup {Nothing}
      BY <1>4 DEF IInv
    <3>q. QED
      BY <3>1
  <2>q. QED
    BY <1>1, <2>1
<1>7. ValueSurvives'
  <2>1. \A k \in Keys : dir'[Path(k)].contents \in may'[k] /\ dir'[Path(k)].synced
    <3> SUFFICES ASSUME NEW k \in Keys
                 PROVE dir'[Path(k)].contents \in may'[k] /\ dir'[Path(k)].synced
      OBVIOUS
    <3>1. dir'[Path(k)] = [contents |-> d[Path(k)].contents, synced |-> TRUE]
      BY <1>1, <1>4
    <3>2. may'[k] = {d[Path(k)].contents}
      BY <1>1
    <3>q. QED
      BY <3>1, <3>2
  <2>2. past' \cup {dir'} = {dir'}
    BY <1>2
  <2>q. QED
    BY <2>1, <2>2 DEF ValueSurvives
<1>q. QED
  BY <1>2, <1>5, <1>6, <1>7
     DEF IInv, OperationOK, NothingComesBack, SetKinds, RemovalKinds, NoOp

\* Every step of the store keeps the invariant.
THEOREM StoreInvariance ==
    ASSUME FsyncFails = FALSE PROVE KVSSpec => []IInv
<1>1. IInv /\ [KVSNext]_kvsVars => IInv'
  <2> SUFFICES ASSUME IInv, [KVSNext]_kvsVars PROVE IInv'
    OBVIOUS
  <2>1. ASSUME NEW k \in Keys, NEW v \in Values, Set(k, v) PROVE IInv'
    BY <2>1, SetStep
  <2>2. CASE OpenTmp \/ WriteTmp \/ FsyncTmpDir \/ FsyncRename
    BY <2>2, OpenTmpStep, WriteTmpStep, FsyncTmpDirStep, FsyncRenameStep
  <2>3. CASE FsyncTmp \/ FsyncUnlink
    BY <2>3, FsyncTmpStep, FsyncUnlinkStep
  <2>4. CASE Rename
    BY <2>4, RenameStep, KeyValueStoreAssumption
  <2>5. ASSUME NEW k \in Keys, RemoveKey(k) PROVE IInv'
    BY <2>5, StartRemovalStep DEF RemoveKey
  <2>6. CASE PurgeDomain
    BY <2>6, StartRemovalStep, KeyValueStoreAssumption DEF PurgeDomain, KeyValueStoreAssumption
  <2>7. CASE Unlink \/ EndRemoval \/ PowerLoss
    BY <2>7, UnlinkStep, EndRemovalStep, PowerLossStep
  <2>8. CASE UNCHANGED kvsVars
    BY <2>8 DEF kvsVars, IInv, ValueSurvives, OperationOK, NothingComesBack
  <2>q. QED
    BY <2>1, <2>2, <2>3, <2>4, <2>5, <2>6, <2>7, <2>8 DEF KVSNext
<1>q. QED
  BY <1>1, Initially, PTL DEF KVSSpec

\* The store and its files keep their types through any failure.
THEOREM StoreTypeCorrect ==
    ASSUME FsyncFails = FALSE PROVE KVSSpec => []KVSTypeOK
<1>1. IInv => KVSTypeOK
  BY DEF IInv, KVSTypeOK, Files
<1>q. QED
  BY <1>1, StoreInvariance, PTL

\* A key has the value last set, or one that was being set or set with an
\* error since, after any loss of power (HAPPlatformKeyValueStore+Init.h).
THEOREM ValuesSurvive ==
    ASSUME FsyncFails = FALSE PROVE KVSSpec => []ValueSurvives
<1>1. IInv => ValueSurvives
  BY DEF IInv
<1>q. QED
  BY <1>1, StoreInvariance, PTL

-----------------------------------------------------------------------------
(***************************************************************************)
(* The bytes of an IP session: what is sealed in place has the length that *)
(* was counted for it, the frames of a controller are opened in order and  *)
(* only once, and the HTTP reader hands over each request whole, in order  *)
(* and as soon as its last byte is there, however the bytes are cut into   *)
(* segments and frames.                                                    *)
(***************************************************************************)

\* The controller's frames follow one another, and are not empty.
FramesInOrder ==
    \A f, g \in 0 .. Len(sealed) : f < g =>
        /\ FrameEnd(f).plain < FrameEnd(g).plain
        /\ FrameEnd(f).wire + (FrameEnd(g).plain - FrameEnd(f).plain) + Overhead
            <= FrameEnd(g).wire

\* What a controller has sealed when n requests have been answered.
SealedFor(n) ==
    sealed # <<>> =>
        /\ n >= Verify
        /\ FrameEnd(Len(sealed)).plain <=
            (IF pipelines \/ n + 1 >= Requests THEN Begin[Requests + 1] ELSE Begin[n + 2])

NextRequest == Len(served) + 1

\* What is open is what follows the requests that have been handled.
OpenInOrder(c) == \A i \in 1 .. c.mark : c.data[i] = Plain(Begin[NextRequest] + i)

\* Before and after Pair Verify, when the first a bytes have arrived.
ClearOK(c, a) ==
    Len(served) < Verify =>
        /\ c.nonce = 0 /\ ~c.torn /\ ~c.secured /\ sealed = <<>>
        /\ a = Begin[NextRequest] + Len(c.data) /\ a <= Clear
        /\ \A i \in 1 .. Len(c.data) : c.data[i] = Plain(Begin[NextRequest] + i)
FollowsOpened(c, a) ==
    LET start == FrameEnd(c.nonce).wire
    IN  /\ a = start + (Len(c.data) - c.mark)
        /\ \A j \in 1 .. Len(c.data) - c.mark : c.data[c.mark + j] = Wire(start + j)
SecuredOK(c, a) ==
    Len(served) >= Verify =>
        /\ c.nonce \in 0 .. Len(sealed)
        /\ Begin[NextRequest] + c.mark = FrameEnd(c.nonce).plain
        /\ a <= FrameEnd(Len(sealed)).wire
        /\ ~c.torn => FollowsOpened(c, a)
        /\ c.torn => c.mark < Len(c.data) /\ c.data[c.mark + 1].kind = "plain"
BufferOK(c, a) ==
    /\ OpenInOrder(c) /\ ClearOK(c, a) /\ SecuredOK(c, a)
    /\ c.torn => pipelines

\* Nothing that is whole is left.
AllOpened(c, a) ==
    /\ Len(served) < Verify => c.mark = Len(c.data)
    /\ Len(served) >= Verify /\ ~c.torn =>
        \A f \in 0 .. Len(sealed) : c.nonce < f => a < FrameEnd(f).wire

\* The reader is within the next header, or at its end.
ReaderOK(c) ==
    /\ c.reader <= c.mark
    /\ c.http # "error"
    /\ c.http = "reading" /\ Len(served) < Requests =>
            Begin[NextRequest] + c.reader < Body[NextRequest]
    /\ c.http = "done" =>
            /\ Len(served) < Requests
            /\ Begin[NextRequest] + c.reader = Body[NextRequest]
\* and the request is not complete.
StillReading(c) ==
    /\ ReaderOK(c)
    /\ Len(c.data) < InCapacity
    /\ c.http = "reading" => c.reader = c.mark
    /\ Len(served) < Requests => Begin[NextRequest] + c.mark < Begin[NextRequest + 1]

InMessages ==
    conn.io # "closed" =>
        /\ BufferOK(conn, arrived)
        /\ AllOpened(conn, arrived) \/ conn.io # "reading"
        /\ SealedFor(Answered)
        /\ conn.io = "reading" => StillReading(conn)
        /\ conn.io = "responding" => Len(served) > 0
        /\ conn.io = "notifying" => conn.data = <<>> /\ conn.secured /\ Len(served) >= Verify

\* What handle_input finds.
Ready(c, a) ==
    /\ c \in Connection /\ c.io = "reading"
    /\ c.mark <= Len(c.data) /\ Len(c.data) <= InCapacity
    /\ BufferOK(c, a) /\ ReaderOK(c) /\ SealedFor(Len(served))

MsgInv == MsgTypeOK /\ RequestsWhole /\ FramesInOrder /\ InMessages

-----------------------------------------------------------------------------
(***************************************************************************)
(* Counting.                                                               *)
(***************************************************************************)

LEMMA Quotient ==
    ASSUME NEW n \in Nat, NEW M \in Nat \ {0}
    PROVE  /\ n \div M \in Nat /\ n % M \in 0 .. M - 1
           /\ n = M * (n \div M) + (n % M)
OBVIOUS

LEMMA QuotientUnique ==
    ASSUME NEW M \in Nat \ {0}, NEW p \in Int, NEW q \in Int,
           NEW r \in 0 .. M - 1, NEW s \in 0 .. M - 1, M * p + r = M * q + s
    PROVE  p = q /\ r = s
<1>1. M * (p - q) = s - r
  OBVIOUS
<1>2. CASE p > q
  <2>1. M * (p - q) >= M * 1
    BY <1>2
  <2> QED BY <2>1, <1>1
<1>3. CASE p < q
  <2>1. M * (q - p) >= M * 1
    BY <1>3
  <2> QED BY <2>1, <1>1
<1>4. CASE p = q
  BY <1>4
<1> QED BY <1>2, <1>3, <1>4

LEMMA QuotientStep ==
    ASSUME NEW n \in Nat, NEW M \in Nat \ {0}, M <= n
    PROVE  n \div M = ((n - M) \div M) + 1 /\ n % M = (n - M) % M
<1>1. n - M \in Nat
  OBVIOUS
<1>2. /\ n - M = M * ((n - M) \div M) + ((n - M) % M)
      /\ (n - M) \div M \in Nat /\ (n - M) % M \in 0 .. M - 1
  BY <1>1, Quotient
<1>3. /\ n = M * (n \div M) + (n % M)
      /\ n \div M \in Nat /\ n % M \in 0 .. M - 1
  BY Quotient
<1> DEFINE p == (n - M) \div M  q == n \div M
           r == (n - M) % M     s == n % M
<1> HIDE DEF p, q, r, s
<1>4. n - M = M * p + r /\ n = M * q + s
  BY <1>2, <1>3 DEF p, q, r, s
<1>5. p \in Int /\ q \in Int /\ p + 1 \in Int /\ r \in 0 .. M - 1 /\ s \in 0 .. M - 1
  BY <1>2, <1>3 DEF p, q, r, s
<1>6. M * (p + 1) = M * p + M
  BY <1>5
<1>7. M * (p + 1) + r = M * q + s
  <2> DEFINE a == M * p  b == M * q  c == M * (p + 1)
  <2>1. a \in Int /\ b \in Int /\ c = a + M
    BY <1>5, <1>6
  <2>2. n - M = a + r /\ n = b + s
    BY <1>4
  <2> HIDE DEF a, b, c
  <2>3. c + r = b + s
    BY <2>1, <2>2, <1>5
  <2> QED
    BY <2>3 DEF b, c
<1>8. p + 1 = q /\ r = s
  BY <1>5, <1>7, QuotientUnique
<1> QED
  BY <1>8 DEF p, q, r, s

\* A set of numbers that is not empty has a least one.
LEMMA LeastNatural ==
    ASSUME NEW T \in SUBSET Nat, T # {}
    PROVE  \E n \in T : \A m \in T : n <= m
<1>1. PICK n \in T : \A m \in T : ~(<<m, n>> \in OpToRel(<, Nat))
  BY NatLessThanWellFounded, WFMin
<1>2. \A m \in T : ~(m < n)
  BY <1>1 DEF OpToRel
<1> QED
  BY <1>2

\* The closed form has the shape of the loop.
LEMMA NumEncryptedBytesStep ==
    ASSUME NEW n \in Nat
    PROVE  /\ NumEncryptedBytes(n) \in Nat
           /\ NumEncryptedBytes(n) =
                IF n = 0 THEN 0
                ELSE IF n > MaxFrame
                THEN MaxFrame + Overhead + NumEncryptedBytes(n - MaxFrame)
                ELSE n + Overhead
<1> DEFINE A == Overhead + MaxFrame
<1>1. A \in Nat /\ MaxFrame \in Nat \ {0} /\ Overhead \in Nat
  BY IPMessagesAssumption DEF Overhead
<1>2. n \div MaxFrame \in Nat /\ n % MaxFrame \in 0 .. MaxFrame - 1
  BY <1>1, Quotient
<1>3. NumEncryptedBytes(n) \in Nat
  <2>1. (n \div MaxFrame) * A \in Nat
    BY <1>1, <1>2
  <2> QED
    BY <2>1, <1>1, <1>2 DEF NumEncryptedBytes
<1>4. ASSUME n < MaxFrame
      PROVE  n \div MaxFrame = 0 /\ n % MaxFrame = n
  BY <1>1, <1>4
<1>5. CASE n < MaxFrame
  <2>1. 0 * A = 0
    BY <1>1
  <2> QED
    BY <2>1, <1>1, <1>3, <1>4, <1>5 DEF NumEncryptedBytes
<1>6. CASE n = MaxFrame
  <2>1. n \div MaxFrame = 1 /\ n % MaxFrame = 0
    BY <1>1, <1>6
  <2>2. 1 * A = A
    BY <1>1
  <2> QED
    BY <2>1, <2>2, <1>1, <1>3, <1>6 DEF NumEncryptedBytes
<1>7. CASE n > MaxFrame
  <2> DEFINE q == (n - MaxFrame) \div MaxFrame
  <2> HIDE DEF A
  <2>a. MaxFrame <= n /\ n - MaxFrame \in Nat
    BY <1>1, <1>7
  <2>1. n \div MaxFrame = q + 1 /\ n % MaxFrame = (n - MaxFrame) % MaxFrame
    BY <1>1, <2>a, QuotientStep, Zenon
  <2>2. n - MaxFrame \in Nat /\ q \in Nat /\ (n - MaxFrame) % MaxFrame \in 0 .. MaxFrame - 1
    BY <1>1, <2>a, Quotient, Zenon
  <2>3. (q + 1) * A = q * A + A
    BY <2>2, <1>1
  <2>4. q * A \in Nat
    BY <2>2, <1>1
  <2> HIDE DEF q
  <2> QED
    BY <2>1, <2>2, <2>3, <2>4, <1>1, <1>3, <1>7 DEF NumEncryptedBytes, q, A
<1> QED
  BY <1>1, <1>3, <1>5, <1>6, <1>7

\* EncryptData seals frame by frame what GetNumEncryptedBytes has counted.
THEOREM EncryptedAsCounted == \A n \in Nat : Encrypted[n] = NumEncryptedBytes(n)
<1> DEFINE Step(f, n) ==
      IF n = 0 THEN 0
      ELSE IF n > MaxFrame THEN MaxFrame + Overhead + f[n - MaxFrame]
      ELSE n + Overhead
    Counted == [n \in Nat |-> NumEncryptedBytes(n)]
    Loop(f) == f = [n \in Nat |-> Step(f, n)]
<1>1. MaxFrame \in Nat \ {0} /\ Overhead \in Nat
  BY IPMessagesAssumption DEF Overhead
<1>2. Loop(Counted)
  <2>1. \A n \in Nat : n > MaxFrame => n - MaxFrame \in Nat
    BY <1>1
  <2>2. \A n \in Nat : Counted[n] = Step(Counted, n)
    BY <2>1, <1>1, NumEncryptedBytesStep
  <2> QED
    BY <2>2
<1>3. Loop(Encrypted)
  <2>1. Encrypted = CHOOSE f : Loop(f)
    BY DEF Encrypted
  <2> QED
    BY <2>1, <1>2
<1> DEFINE Wrong == {n \in Nat : Encrypted[n] # NumEncryptedBytes(n)}
<1>4. Wrong = {}
  <2> SUFFICES ASSUME Wrong # {} PROVE FALSE
    OBVIOUS
  <2>1. PICK n \in Wrong : \A m \in Wrong : n <= m
    BY LeastNatural
  <2>2. Encrypted[n] = Step(Encrypted, n)
    BY <1>3
  <2>3. n > MaxFrame => n - MaxFrame \in Nat /\ n - MaxFrame < n
    BY <1>1
  <2>4. n > MaxFrame => Encrypted[n - MaxFrame] = NumEncryptedBytes(n - MaxFrame)
    BY <2>1, <2>3
  <2>5. n \in Nat /\ Encrypted[n] # NumEncryptedBytes(n)
    BY <2>1
  <2> QED
    BY <2>2, <2>4, <2>5, NumEncryptedBytesStep
<1> QED
  BY <1>4

-----------------------------------------------------------------------------
(***************************************************************************)
(* Requests and frames.                                                    *)
(***************************************************************************)

LEMMA BeginTyped ==
    /\ \A k \in 1 .. Requests + 1 : Begin[k] \in Nat
    /\ \A k \in 1 .. Requests :
        Body[k] \in Nat /\ Begin[k] < Body[k] /\ Body[k] <= Begin[k + 1]
    /\ Clear \in Nat
BY IPMessagesAssumption DEF Clear

\* Requests follow one another.
LEMMA BeginInOrder ==
    ASSUME NEW i \in 1 .. Requests + 1, NEW j \in 1 .. Requests + 1, i < j
    PROVE  Begin[i] < Begin[j]
<1> DEFINE Wrong == {k \in 1 .. Requests + 1 : i < k /\ ~(Begin[i] < Begin[k])}
<1>1. Requests \in Nat \ {0} /\ Verify \in 1 .. Requests
  BY IPMessagesAssumption
<1>2. Wrong = {}
  <2> SUFFICES ASSUME Wrong # {} PROVE FALSE
    OBVIOUS
  <2>1. Wrong \in SUBSET Nat
    BY <1>1
  <2>2. PICK k \in Wrong : \A m \in Wrong : k <= m
    BY <2>1, LeastNatural
  <2>3. k - 1 \in 1 .. Requests /\ k \in 1 .. Requests + 1 /\ i <= k - 1
    BY <2>2, <1>1
  <2>4. Begin[k - 1] < Body[k - 1] /\ Body[k - 1] <= Begin[(k - 1) + 1] /\ (k - 1) + 1 = k
    BY <2>3, BeginTyped
  <2>5. Begin[i] <= Begin[k - 1]
    <3>1. CASE i = k - 1
      BY <3>1, <2>3, BeginTyped, <1>1
    <3>2. CASE i < k - 1
      BY <3>2, <2>2, <2>3, BeginTyped, <1>1
    <3> QED
      BY <3>1, <3>2, <2>3, <1>1
  <2> QED
    BY <2>2, <2>3, <2>4, <2>5, BeginTyped, <1>1
<1> QED
  BY <1>2

\* The body that begins within request k is its own.
LEMMA BodyOwn ==
    ASSUME NEW k \in 1 .. Requests, NEW l \in 1 .. Requests,
           Begin[k] < Body[l], Body[l] <= Body[k]
    PROVE  l = k
<1>1. Requests \in Nat \ {0}
  BY IPMessagesAssumption
<1>2. CASE l < k
  <2>1. Begin[l + 1] <= Begin[k]
    BY <1>1, <1>2, BeginInOrder, BeginTyped
  <2> QED
    BY <2>1, <1>1, BeginTyped
<1>3. CASE k < l
  <2>1. Begin[k + 1] <= Begin[l]
    BY <1>1, <1>3, BeginInOrder, BeginTyped
  <2> QED
    BY <2>1, <1>1, BeginTyped
<1> QED
  BY <1>1, <1>2, <1>3

LEMMA FrameEndTyped ==
    ASSUME MsgTypeOK, NEW f \in 0 .. Len(sealed)
    PROVE  FrameEnd(f).plain \in Nat /\ FrameEnd(f).wire \in Nat
<1>1. CASE f = 0
  BY <1>1, BeginTyped DEF FrameEnd
<1>2. CASE f # 0
  <2> DEFINE R == [plain : Nat, wire : Nat]
  <2>1. sealed \in Seq(R)
    BY DEF MsgTypeOK
  <2> HIDE DEF R
  <2>2. sealed[f] \in R
    BY <2>1, <1>2
  <2>3. FrameEnd(f) = sealed[f]
    BY <1>2 DEF FrameEnd
  <2> QED
    BY <2>2, <2>3 DEF R
<1> QED
  BY <1>1, <1>2

\* A frame is longer on the wire than what it holds.
LEMMA FramesGrow ==
    ASSUME MsgTypeOK, FramesInOrder,
           NEW f \in 0 .. Len(sealed), NEW g \in 0 .. Len(sealed), f <= g
    PROVE  /\ FrameEnd(f).plain <= FrameEnd(g).plain
           /\ FrameEnd(g).plain - FrameEnd(f).plain <= FrameEnd(g).wire - FrameEnd(f).wire
           /\ FrameEnd(f).wire <= FrameEnd(g).wire
           /\ f # g => /\ FrameEnd(f).plain < FrameEnd(g).plain
                       /\ FrameEnd(f).wire < FrameEnd(g).wire
<1>1. Overhead \in Nat
  BY IPMessagesAssumption DEF Overhead
<1>2. Len(sealed) \in Nat
  BY DEF MsgTypeOK
<1>3. /\ FrameEnd(f).plain \in Nat /\ FrameEnd(f).wire \in Nat
      /\ FrameEnd(g).plain \in Nat /\ FrameEnd(g).wire \in Nat
  BY FrameEndTyped
<1>4. CASE f = g
  BY <1>3, <1>4
<1>5. CASE f < g
  <2>1. /\ FrameEnd(f).plain < FrameEnd(g).plain
        /\ FrameEnd(f).wire + (FrameEnd(g).plain - FrameEnd(f).plain) + Overhead
            <= FrameEnd(g).wire
    BY <1>5 DEF FramesInOrder
  <2> QED
    BY <2>1, <1>1, <1>3, <1>5
<1> QED
  BY <1>2, <1>4, <1>5

-----------------------------------------------------------------------------
(***************************************************************************)
(* Sequences.                                                              *)
(***************************************************************************)


LEMMA Joined ==
    ASSUME NEW S, NEW a \in Seq(S), NEW b \in Seq(S)
    PROVE  /\ a \o b \in Seq(S) /\ Len(a \o b) = Len(a) + Len(b)
           /\ \A i \in 1 .. Len(a) : (a \o b)[i] = a[i]
           /\ \A i \in 1 .. Len(b) : (a \o b)[Len(a) + i] = b[i]
OBVIOUS

\* W elements behind the first m are replaced by those of f.
Splice(s, m, W, f) == SubSeq(s, 1, m) \o f \o SubSeq(s, m + W + 1, Len(s))

LEMMA WireSpliced ==
    ASSUME NEW S, NEW s \in Seq(S), NEW m \in 0 .. Len(s), NEW W \in 0 .. Len(s) - m,
           NEW n \in Nat, NEW f \in [1 .. n -> S]
    PROVE  /\ Splice(s, m, W, f) \in Seq(S)
           /\ Len(Splice(s, m, W, f)) = (Len(s) - W) + n
           /\ \A i \in 1 .. (Len(s) - W) + n :
                    Splice(s, m, W, f)[i] = IF i <= m THEN s[i]
                                            ELSE IF i <= m + n THEN f[i - m]
                                            ELSE s[(i - n) + W]
<1> DEFINE a == SubSeq(s, 1, m)
           b == SubSeq(s, m + W + 1, Len(s))
           d == a \o f
           t == d \o b
<1>1. a \in Seq(S) /\ Len(a) = m /\ \A i \in 1 .. m : a[i] = s[i]
  BY SubSeqProperties
<1>2. b \in Seq(S) /\ Len(b) = (Len(s) - m) - W
      /\ \A j \in 1 .. (Len(s) - m) - W : b[j] = s[m + W + j]
  BY SubSeqProperties
<1>3. f \in Seq(S) /\ Len(f) = n
  OBVIOUS
<1> HIDE DEF a, b
<1>4. /\ d \in Seq(S) /\ Len(d) = m + n
      /\ \A i \in 1 .. m : d[i] = a[i]
      /\ \A i \in 1 .. n : d[m + i] = f[i]
  <2>1. a \in Seq(S) /\ f \in Seq(S)
    BY <1>1, <1>3
  <2>2. /\ d \in Seq(S) /\ Len(d) = Len(a) + Len(f)
        /\ \A i \in 1 .. Len(a) : d[i] = a[i]
        /\ \A i \in 1 .. Len(f) : d[Len(a) + i] = f[i]
    BY <2>1
  <2> HIDE DEF d
  <2> QED
    BY <2>2, <1>1, <1>3
<1> HIDE DEF d
<1>5. /\ t \in Seq(S) /\ Len(t) = (m + n) + ((Len(s) - m) - W)
      /\ \A i \in 1 .. m + n : t[i] = d[i]
      /\ \A j \in 1 .. (Len(s) - m) - W : t[m + n + j] = b[j]
  <2>1. d \in Seq(S) /\ b \in Seq(S)
    BY <1>2, <1>4
  <2>2. /\ t \in Seq(S) /\ Len(t) = Len(d) + Len(b)
        /\ \A i \in 1 .. Len(d) : t[i] = d[i]
        /\ \A i \in 1 .. Len(b) : t[Len(d) + i] = b[i]
    BY <2>1
  <2> HIDE DEF t
  <2> QED
    BY <2>2, <1>2, <1>4
<1> HIDE DEF t
<1>6. Len(s) \in Nat /\ m \in Nat /\ W \in Nat
  OBVIOUS
<1>7. \A i \in 1 .. m : t[i] = s[i]
  BY <1>1, <1>4, <1>5, <1>6
<1>8. \A i \in m + 1 .. m + n : t[i] = f[i - m]
  <2> SUFFICES ASSUME NEW i \in m + 1 .. m + n PROVE t[i] = f[i - m]
    OBVIOUS
  <2>1. i - m \in 1 .. n /\ i \in 1 .. m + n /\ m + (i - m) = i
    BY <1>6
  <2>2. d[m + (i - m)] = f[i - m]
    BY <1>4, <2>1
  <2> QED
    BY <1>5, <2>1, <2>2
<1>9. \A i \in m + n + 1 .. (Len(s) - W) + n : t[i] = s[(i - n) + W]
  <2> SUFFICES ASSUME NEW i \in m + n + 1 .. (Len(s) - W) + n
               PROVE  t[i] = s[(i - n) + W]
    OBVIOUS
  <2> DEFINE j == i - (m + n)
  <2>1. j \in 1 .. (Len(s) - m) - W /\ m + n + j = i /\ m + W + j = (i - n) + W
    BY <1>6
  <2> HIDE DEF j
  <2>2. t[m + n + j] = b[j] /\ b[j] = s[m + W + j]
    BY <1>2, <1>5, <2>1
  <2> QED
    BY <2>1, <2>2
<1>10. Len(t) = (Len(s) - W) + n
  BY <1>5, <1>6
<1>11. t = Splice(s, m, W, f)
  BY DEF a, b, d, t, Splice
<1> HIDE DEF t
<1>12. \A i \in 1 .. (Len(s) - W) + n :
        t[i] = IF i <= m THEN s[i] ELSE IF i <= m + n THEN f[i - m] ELSE s[(i - n) + W]
  <2> SUFFICES ASSUME NEW i \in 1 .. (Len(s) - W) + n
               PROVE  t[i] = IF i <= m THEN s[i]
                             ELSE IF i <= m + n THEN f[i - m] ELSE s[(i - n) + W]
    OBVIOUS
  <2>1. CASE i \in 1 .. m
    BY <1>6, <1>7, <2>1
  <2>2. CASE i \in m + 1 .. m + n
    BY <1>6, <1>8, <2>2
  <2>3. CASE i \in m + n + 1 .. (Len(s) - W) + n
    BY <1>6, <1>9, <2>3
  <2> QED
    BY <1>6, <2>1, <2>2, <2>3
<1> QED
  BY <1>5, <1>10, <1>11, <1>12

LEMMA Shifted ==
    ASSUME NEW S, NEW s \in Seq(S), NEW p \in 0 .. Len(s), NEW n \in 0 .. p
    PROVE  /\ ShiftLeft(s, p, n) \in Seq(S)
           /\ Len(ShiftLeft(s, p, n)) = Len(s) - n
           /\ \A i \in 1 .. p - n : ShiftLeft(s, p, n)[i] = s[i + n]
           /\ \A i \in p - n + 1 .. Len(s) - n : ShiftLeft(s, p, n)[i] = s[i]
<1>1. Len(s) \in Nat /\ n \in Nat /\ p \in Nat /\ Len(s) - n \in Nat
  OBVIOUS
<1>2. \A i \in 1 .. Len(s) - n :
        (IF i <= p - n THEN s[i + n] ELSE s[i]) \in S
  BY <1>1
<1>3. ShiftLeft(s, p, n) \in [1 .. Len(s) - n -> S]
  BY <1>2 DEF ShiftLeft
<1>4. ShiftLeft(s, p, n) \in Seq(S) /\ Len(ShiftLeft(s, p, n)) = Len(s) - n
  BY <1>1, <1>3
<1> QED
  BY <1>1, <1>4 DEF ShiftLeft

-----------------------------------------------------------------------------
(***************************************************************************)
(* The security protocol.                                                  *)
(***************************************************************************)

\* The frames up to last have been opened in place.
OpenedUpTo(c, d, last) ==
    LET start == FrameEnd(c.nonce)
        end == FrameEnd(last)
        n == end.plain - start.plain
        W == end.wire - start.wire
    IN  /\ n \in Nat /\ W \in 0 .. Len(c.data) - c.mark /\ n <= W
        /\ d = [c EXCEPT !.data = d.data, !.mark = c.mark + n, !.nonce = last]
        /\ d.data \in Seq(Cell) /\ Len(d.data) = (Len(c.data) - W) + n
        /\ \A i \in 1 .. c.mark : d.data[i] = c.data[i]
        /\ \A i \in c.mark + 1 .. c.mark + n :
                d.data[i] = Plain(start.plain + (i - c.mark))
        /\ \A i \in c.mark + n + 1 .. (Len(c.data) - W) + n :
                d.data[i] = c.data[(i - n) + W]

\* HAPIPSecurityProtocolDecryptData opens frames up to one of the sealed
\* ones, and all that have arrived.
LEMMA Decrypted ==
    ASSUME MsgTypeOK, FramesInOrder, NEW c \in Connection, NEW a \in Nat,
           c.mark <= Len(c.data), Len(served) >= Verify, SecuredOK(c, a)
    PROVE  \E last \in c.nonce .. Len(sealed) :
              /\ OpenedUpTo(c, DecryptData(c), last)
              /\ c.torn => last = c.nonce
              /\ ~c.torn => \A f \in 0 .. Len(sealed) : last < f => a < FrameEnd(f).wire
<1> DEFINE opened == {g \in c.nonce .. Len(sealed) : Opens(c, g)}
           start == FrameEnd(c.nonce)
<1>1. /\ c.data \in Seq(Cell) /\ c.mark \in Nat /\ c.nonce \in Nat /\ Len(c.data) \in Nat
      /\ Len(sealed) \in Nat /\ c.nonce \in 0 .. Len(sealed)
  BY DEF Connection, SecuredOK, MsgTypeOK
<1>2. start.plain \in Nat /\ start.wire \in Nat
  BY <1>1, FrameEndTyped
<1>3. c.nonce \in opened
  BY <1>1, <1>2 DEF Opens
<1>4. \A g \in opened :
        /\ g \in 0 .. Len(sealed) /\ c.nonce <= g
        /\ FrameEnd(g).plain \in Nat /\ FrameEnd(g).wire \in Nat
        /\ FrameEnd(g).wire - start.wire \in 0 .. Len(c.data) - c.mark
        /\ c.torn => g = c.nonce
  <2> SUFFICES ASSUME NEW g \in opened
               PROVE  /\ g \in 0 .. Len(sealed) /\ c.nonce <= g
                      /\ FrameEnd(g).plain \in Nat /\ FrameEnd(g).wire \in Nat
                      /\ FrameEnd(g).wire - start.wire \in 0 .. Len(c.data) - c.mark
                      /\ c.torn => g = c.nonce
    OBVIOUS
  <2>1. g \in 0 .. Len(sealed) /\ c.nonce <= g
    BY <1>1
  <2>2. FrameEnd(g).plain \in Nat /\ FrameEnd(g).wire \in Nat
    BY <2>1, FrameEndTyped
  <2>3. start.wire <= FrameEnd(g).wire /\ (c.nonce # g => start.wire < FrameEnd(g).wire)
    BY <1>1, <2>1, FramesGrow
  <2>4. /\ c.mark + (FrameEnd(g).wire - start.wire) <= Len(c.data)
        /\ \A j \in 1 .. FrameEnd(g).wire - start.wire :
                c.data[c.mark + j] = Wire(start.wire + j)
    BY DEF Opens
  <2>5. c.torn => g = c.nonce
    <3> SUFFICES ASSUME c.torn, g # c.nonce PROVE FALSE
      OBVIOUS
    <3>1. c.data[c.mark + 1] = Wire(start.wire + 1)
      BY <2>2, <2>3, <2>4, <1>2
    <3>2. c.data[c.mark + 1].kind = "plain"
      BY DEF SecuredOK
    <3> QED
      BY <3>1, <3>2 DEF Wire
  <2>6. FrameEnd(g).wire - start.wire \in 0 .. Len(c.data) - c.mark
    <3> HIDE DEF start, opened
    <3>1. c.mark + (FrameEnd(g).wire - start.wire) <= Len(c.data)
      BY <2>4
    <3> QED
      BY <1>1, <1>2, <2>2, <2>3, <3>1
  <2> QED
    BY <2>1, <2>2, <2>5, <2>6
<1>5. \E last \in opened : \A h \in opened : h <= last
  <2> DEFINE above == {Len(sealed) - g : g \in opened}
  <2>1. above \in SUBSET Nat /\ above # {}
    BY <1>1, <1>3, <1>4
  <2>2. PICK m \in above : \A k \in above : m <= k
    BY <2>1, LeastNatural
  <2>3. PICK g \in opened : m = Len(sealed) - g
    BY <2>2
  <2>4. \A h \in opened : Len(sealed) - g <= Len(sealed) - h
    BY <2>2, <2>3
  <2> QED
    BY <1>1, <1>4, <2>3, <2>4
<1> DEFINE newest == CHOOSE g \in opened : \A h \in opened : h <= g
<1>6. newest \in opened /\ \A h \in opened : h <= newest
  BY <1>5
<1> HIDE DEF newest
<1> DEFINE end == FrameEnd(newest)
           n == end.plain - start.plain
           W == end.wire - start.wire
           texts == [i \in 1 .. n |-> Plain(start.plain + i)]
           spliced == Splice(c.data, c.mark, W, texts)
<1>7. /\ newest \in c.nonce .. Len(sealed) /\ newest \in 0 .. Len(sealed)
      /\ end.plain \in Nat /\ end.wire \in Nat
      /\ W \in 0 .. Len(c.data) - c.mark
      /\ c.torn => newest = c.nonce
  BY <1>1, <1>4, <1>6
<1>8. start.plain <= end.plain /\ n <= W
  BY <1>1, <1>7, FramesGrow
<1>9. n \in Nat /\ W \in Nat
  BY <1>2, <1>7, <1>8
<1>10. texts \in [1 .. n -> Cell] /\ \A i \in 1 .. n : texts[i] = Plain(start.plain + i)
  BY <1>2, <1>9 DEF Plain, Cell
<1>11. DecryptData(c) = [c EXCEPT !.data = spliced, !.mark = c.mark + n, !.nonce = newest]
  BY DEF DecryptData, newest, Splice
<1> DEFINE d == DecryptData(c)
<1>12. d.data = spliced /\ d = [c EXCEPT !.data = d.data, !.mark = c.mark + n, !.nonce = newest]
  BY <1>11 DEF Connection
<1>13. /\ spliced \in Seq(Cell) /\ Len(spliced) = (Len(c.data) - W) + n
       /\ \A i \in 1 .. c.mark : spliced[i] = c.data[i]
       /\ \A i \in c.mark + 1 .. c.mark + n : spliced[i] = texts[i - c.mark]
       /\ \A i \in c.mark + n + 1 .. (Len(c.data) - W) + n :
            spliced[i] = c.data[(i - n) + W]
  <2>1. c.mark \in 0 .. Len(c.data)
    BY <1>1
  <2>2. /\ c.data \in Seq(Cell) /\ W \in 0 .. Len(c.data) - c.mark /\ n \in Nat
        /\ texts \in [1 .. n -> Cell]
    BY <1>1, <1>7, <1>9, <1>10
  <2> HIDE DEF texts, n, W
  <2> QED
    <3> DEFINE s == c.data  m == c.mark
    <3>1. s \in Seq(Cell) /\ m \in 0 .. Len(s) /\ W \in 0 .. Len(s) - m
      BY <2>1, <2>2
    <3> HIDE DEF s, m
    <3>10. n \in Nat /\ texts \in [1 .. n -> Cell]
      BY <2>2
    <3>2. Splice(s, m, W, texts) \in Seq(Cell)
      BY <3>1, <3>10, WireSpliced
    <3>3. Len(Splice(s, m, W, texts)) = (Len(s) - W) + n
      BY <3>1, <3>10, WireSpliced
    <3>4. \A i \in 1 .. (Len(s) - W) + n :
            Splice(s, m, W, texts)[i] = IF i <= m THEN s[i]
                                        ELSE IF i <= m + n THEN texts[i - m]
                                        ELSE s[(i - n) + W]
      <4> HIDE DEF texts, n, W
      <4> QED
        BY <3>1, <3>10, WireSpliced, SMTT(20)
    <3>5. Len(s) \in Nat /\ m \in Nat /\ W \in Nat /\ n \in Nat
      BY <3>1, <2>2
    <3> DEFINE t == Splice(s, m, W, texts)
    <3> HIDE DEF t
    <3>6. \A i \in 1 .. m : t[i] = s[i]
      BY <3>1, <3>4, <3>5 DEF t
    <3> DEFINE L == Len(s)
    <3>9. /\ L \in Nat /\ W <= L - m /\ m <= L
          /\ \A i \in 1 .. (L - W) + n :
                t[i] = IF i <= m THEN s[i] ELSE IF i <= m + n THEN texts[i - m]
                       ELSE s[(i - n) + W]
      BY <3>1, <3>4, <3>5 DEF t
    <3> HIDE DEF L
    <3>7. ASSUME NEW i \in m + 1 .. m + n PROVE t[i] = texts[i - m]
      <4>1. i \in 1 .. (L - W) + n /\ ~(i <= m) /\ i <= m + n
        BY <3>5, <3>9
      <4> QED
        BY <3>9, <4>1
    <3>8. ASSUME NEW i \in m + n + 1 .. (L - W) + n PROVE t[i] = s[(i - n) + W]
      <4>1. i \in 1 .. (L - W) + n /\ ~(i <= m) /\ ~(i <= m + n)
        BY <3>5, <3>9
      <4> QED
        BY <3>9, <4>1
    <3> QED
      BY <3>2, <3>3, <3>6, <3>7, <3>8 DEF s, m, t, L
<1>14. ~c.torn => \A f \in 0 .. Len(sealed) : newest < f => a < FrameEnd(f).wire
  <2> SUFFICES ASSUME ~c.torn, NEW f \in 0 .. Len(sealed), newest < f, a >= FrameEnd(f).wire
               PROVE  FALSE
    BY FrameEndTyped
  <2>1. FollowsOpened(c, a)
    BY DEF SecuredOK
  <2>2. f \in c.nonce .. Len(sealed) /\ FrameEnd(f).wire \in Nat
    BY <1>1, <1>7, FrameEndTyped
  <2>3. FrameEnd(f).wire - start.wire <= Len(c.data) - c.mark
    BY <1>1, <1>2, <2>1, <2>2 DEF FollowsOpened
  <2>4. \A j \in 1 .. FrameEnd(f).wire - start.wire : c.data[c.mark + j] = Wire(start.wire + j)
    <3> SUFFICES ASSUME NEW j \in 1 .. FrameEnd(f).wire - start.wire
                 PROVE  c.data[c.mark + j] = Wire(start.wire + j)
      OBVIOUS
    <3>1. j \in 1 .. Len(c.data) - c.mark
      BY <1>1, <1>2, <2>2, <2>3
    <3> QED
      BY <2>1, <3>1 DEF FollowsOpened
  <2>5. c.mark + (FrameEnd(f).wire - start.wire) <= Len(c.data)
    <3> DEFINE m == c.mark  L == Len(c.data)  x == FrameEnd(f).wire  y == start.wire
    <3>1. m \in Nat /\ L \in Nat /\ x \in Nat /\ y \in Nat /\ x - y <= L - m
      BY <1>1, <1>2, <2>2, <2>3
    <3> HIDE DEF m, L, x, y
    <3>2. m + (x - y) <= L
      BY <3>1
    <3> QED
      BY <3>2 DEF m, L, x, y
  <2>6. Opens(c, f)
    BY <2>4, <2>5 DEF Opens
  <2> QED
    BY <1>1, <1>6, <1>7, <2>2, <2>6
<1>15. OpenedUpTo(c, d, newest)
  <2>1. /\ d.data \in Seq(Cell) /\ Len(d.data) = (Len(c.data) - W) + n
        /\ \A i \in 1 .. c.mark : d.data[i] = c.data[i]
        /\ \A i \in c.mark + 1 .. c.mark + n :
                d.data[i] = Plain(start.plain + (i - c.mark))
        /\ \A i \in c.mark + n + 1 .. (Len(c.data) - W) + n :
                d.data[i] = c.data[(i - n) + W]
    <3>1. \A i \in c.mark + 1 .. c.mark + n : i - c.mark \in 1 .. n
      BY <1>1, <1>9
    <3> HIDE DEF spliced, n, W
    <3>2. \A i \in c.mark + 1 .. c.mark + n :
                spliced[i] = Plain(start.plain + (i - c.mark))
      BY <1>10, <1>13, <3>1
    <3> QED
      BY <1>12, <1>13, <3>2, Zenon
  <2>2. n \in Nat /\ W \in 0 .. Len(c.data) - c.mark /\ n <= W
    BY <1>7, <1>8, <1>9
  <2> QED
    BY <1>12, <2>1, <2>2, Zenon DEF OpenedUpTo, n, W
<1> QED
  <2>1. newest \in c.nonce .. Len(sealed)
    BY <1>7
  <2>2. /\ OpenedUpTo(c, DecryptData(c), newest)
        /\ c.torn => newest = c.nonce
        /\ ~c.torn => \A f \in 0 .. Len(sealed) : newest < f => a < FrameEnd(f).wire
    BY <1>7, <1>14, <1>15 DEF d
  <2> QED
    BY <2>1, <2>2

\* What handle_input has decoded is in order, and whole.
LEMMA DecodedReady ==
    ASSUME MsgTypeOK, RequestsWhole, FramesInOrder, NEW c, NEW a \in Nat, Ready(c, a)
    PROVE  Ready(Decoded(c), a) /\ AllOpened(Decoded(c), a)
<1> DEFINE d == Decoded(c)
<1>1. /\ c \in Connection /\ c.io = "reading" /\ c.data \in Seq(Cell) /\ Len(c.data) \in Nat
      /\ c.mark \in Nat /\ c.reader \in Nat /\ c.mark <= Len(c.data)
      /\ Len(c.data) <= InCapacity
      /\ BufferOK(c, a) /\ ReaderOK(c) /\ SealedFor(Len(served))
  BY DEF Ready, Connection
<1>2. /\ Len(served) \in Nat /\ Len(sealed) \in Nat /\ Verify \in Nat /\ InCapacity \in Nat
  <2>1. Len(served) \in Nat /\ Len(sealed) \in Nat
    BY DEF MsgTypeOK
  <2>2. Verify \in Nat /\ InCapacity \in Nat
    BY IPMessagesAssumption
  <2> QED
    BY <2>1, <2>2
<1>3. CASE Len(served) < Verify
  <2>1. d = [c EXCEPT !.mark = Len(c.data)]
    BY <1>2, <1>3 DEF Decoded
  <2>2. /\ d \in Connection /\ d.io = "reading" /\ d.data = c.data /\ d.mark = Len(c.data)
        /\ d.reader = c.reader /\ d.http = c.http /\ d.nonce = c.nonce
        /\ d.torn = c.torn /\ d.secured = c.secured
    BY <1>1, <2>1 DEF Connection
  <2> HIDE DEF d
  <2>3. ClearOK(d, a)
    BY <1>1, <2>2 DEF BufferOK, ClearOK
  <2>4. OpenInOrder(d)
    BY <1>1, <1>3, <2>2 DEF BufferOK, ClearOK, OpenInOrder
  <2>5. ReaderOK(d)
    BY <1>1, <2>2 DEF ReaderOK
  <2>6. SecuredOK(d, a) /\ AllOpened(d, a)
    BY <1>2, <1>3, <2>2 DEF SecuredOK, AllOpened
  <2>7. d.torn => pipelines
    BY <1>1, <2>2 DEF BufferOK
  <2> QED
    BY <1>1, <2>2, <2>3, <2>4, <2>5, <2>6, <2>7 DEF Ready, BufferOK, d
<1>4. CASE Len(served) >= Verify
  <2> DEFINE e == [c EXCEPT !.secured = TRUE]
  <2>1. d = DecryptData(e)
    BY <1>4 DEF Decoded
  <2>2. /\ e \in Connection /\ e.io = "reading" /\ e.data = c.data /\ e.mark = c.mark
        /\ e.reader = c.reader /\ e.http = c.http /\ e.nonce = c.nonce
        /\ e.torn = c.torn
    BY <1>1 DEF Connection
  <2> HIDE DEF e, d
  <2>3. SecuredOK(e, a)
    BY <1>1, <2>2 DEF BufferOK, SecuredOK, FollowsOpened
  <2>4. PICK last \in c.nonce .. Len(sealed) :
            /\ OpenedUpTo(e, d, last)
            /\ c.torn => last = c.nonce
            /\ ~c.torn => \A f \in 0 .. Len(sealed) : last < f => a < FrameEnd(f).wire
    BY <1>1, <1>4, <2>1, <2>2, <2>3, Decrypted
  <2> DEFINE start == FrameEnd(c.nonce)
             end == FrameEnd(last)
             n == end.plain - start.plain
             W == end.wire - start.wire
  <2>5. /\ n \in Nat /\ W \in 0 .. Len(c.data) - c.mark /\ n <= W
        /\ d.data \in Seq(Cell) /\ Len(d.data) = (Len(c.data) - W) + n
    BY <2>2, <2>4 DEF OpenedUpTo
  <2>31. d = [e EXCEPT !.data = d.data, !.mark = c.mark + n, !.nonce = last]
    BY <2>2, <2>4 DEF OpenedUpTo
  <2>6. /\ \A i \in 1 .. c.mark : d.data[i] = c.data[i]
        /\ \A i \in c.mark + 1 .. c.mark + n :
                d.data[i] = Plain(start.plain + (i - c.mark))
        /\ \A i \in c.mark + n + 1 .. (Len(c.data) - W) + n :
                d.data[i] = c.data[(i - n) + W]
    BY <2>2, <2>4 DEF OpenedUpTo
  <2>7. c.nonce \in 0 .. Len(sealed) /\ last \in 0 .. Len(sealed) /\ last \in Nat
    BY <1>1, <1>2, <1>4 DEF BufferOK, SecuredOK
  <2>8. /\ start.plain \in Nat /\ start.wire \in Nat
        /\ end.plain \in Nat /\ end.wire \in Nat
    BY <2>7, FrameEndTyped
  <2>9. /\ d \in Connection /\ d.io = "reading" /\ d.mark = c.mark + n
        /\ d.reader = c.reader /\ d.http = c.http /\ d.nonce = last
        /\ d.torn = c.torn
    <3> DEFINE x == d.data
    <3>1. d = [e EXCEPT !.data = x, !.mark = c.mark + n, !.nonce = last]
      BY <2>31
    <3>2. x \in Seq(Cell) /\ c.mark + n \in Nat
      BY <1>1, <2>5
    <3> HIDE DEF x, n, W
    <3> QED
      BY <2>2, <2>7, <3>1, <3>2 DEF Connection
  <2>10. d.mark <= Len(d.data) /\ Len(d.data) <= InCapacity /\ c.mark <= d.mark
    <3> DEFINE m == c.mark  L == Len(c.data)
    <3>1. /\ m \in Nat /\ L \in Nat /\ n \in Nat /\ W \in 0 .. L - m /\ n <= W
          /\ L <= InCapacity /\ InCapacity \in Nat
          /\ d.mark = m + n /\ Len(d.data) = (L - W) + n
      BY <1>1, <1>2, <2>5, <2>9
    <3> HIDE DEF m, L, n, W
    <3>2. m + n <= (L - W) + n /\ (L - W) + n <= InCapacity /\ m <= m + n
      BY <3>1
    <3> QED
      BY <3>1, <3>2 DEF m
  <2>30. d.mark \in Nat /\ d.reader \in Nat /\ Len(d.data) \in Nat
    <3>1. d.data \in Seq(Cell)
      BY <2>5
    <3>2. d.mark \in Nat /\ d.reader \in Nat
      BY <2>9 DEF Connection
    <3> QED
      BY <3>1, <3>2
  <2>11. Begin[NextRequest] + c.mark = start.plain
    BY <1>1, <1>4 DEF BufferOK, SecuredOK
  <2>12. Begin[NextRequest] \in Nat
    <3>1. Len(served) <= Requests /\ Requests \in Nat
      BY IPMessagesAssumption DEF RequestsWhole
    <3> QED
      BY <1>2, <3>1, BeginTyped DEF NextRequest
  <2>13. OpenInOrder(d)
    <3> SUFFICES ASSUME NEW i \in 1 .. d.mark PROVE d.data[i] = Plain(Begin[NextRequest] + i)
      BY DEF OpenInOrder
    <3>1. CASE i \in 1 .. c.mark
      BY <1>1, <2>6, <3>1 DEF BufferOK, OpenInOrder
    <3>2. CASE i \in c.mark + 1 .. c.mark + n
      <4>1. d.data[i] = Plain(start.plain + (i - c.mark))
        BY <2>6, <3>2
      <4>2. start.plain + (i - c.mark) = Begin[NextRequest] + i
        <5> DEFINE x == start.plain  b == Begin[NextRequest]  m == c.mark
        <5>1. x \in Nat /\ b \in Nat /\ m \in Nat /\ b + m = x /\ i \in Int
          BY <1>1, <2>5, <2>8, <2>11, <2>12, <3>2
        <5> HIDE DEF x, b, m
        <5>2. x + (i - m) = b + i
          BY <5>1
        <5> QED
          BY <5>2 DEF x, b, m
      <4> QED
        BY <4>1, <4>2
    <3> QED
      BY <1>1, <2>5, <2>9, <3>1, <3>2
  <2>32. /\ start.wire + (Len(c.data) - c.mark)
                = end.wire + (((Len(c.data) - W) + n) - (c.mark + n))
        /\ \A j \in 1 .. ((Len(c.data) - W) + n) - (c.mark + n) :
                /\ (c.mark + n) + j \in (c.mark + n) + 1 .. (Len(c.data) - W) + n
                /\ (((c.mark + n) + j) - n) + W = c.mark + (W + j)
                /\ W + j \in 1 .. Len(c.data) - c.mark
                /\ start.wire + (W + j) = end.wire + j
    <3> DEFINE L == Len(c.data)  m == c.mark  s == start.wire  e1 == end.wire
    <3>1. /\ L \in Nat /\ m \in Nat /\ n \in Nat /\ W \in 0 .. L - m
          /\ s \in Nat /\ e1 \in Nat /\ W = e1 - s
      BY <1>1, <2>5, <2>8
    <3> HIDE DEF L, m, s, e1, n, W
    <3>2. s + (L - m) = e1 + (((L - W) + n) - (m + n))
      BY <3>1
    <3>3. \A j \in 1 .. ((L - W) + n) - (m + n) :
                /\ (m + n) + j \in (m + n) + 1 .. (L - W) + n
                /\ (((m + n) + j) - n) + W = m + (W + j)
                /\ W + j \in 1 .. L - m
                /\ s + (W + j) = e1 + j
      BY <3>1
    <3> QED
      BY <3>2, <3>3, Zenon DEF L, m, s, e1
  <2>14. ~d.torn => FollowsOpened(d, a)
    <3> SUFFICES ASSUME ~d.torn PROVE FollowsOpened(d, a)
      OBVIOUS
    <3>1. FollowsOpened(c, a)
      BY <1>1, <1>4, <2>9 DEF BufferOK, SecuredOK
    <3>2. a = end.wire + (Len(d.data) - d.mark)
      <4>1. a = start.wire + (Len(c.data) - c.mark)
        BY <3>1 DEF FollowsOpened
      <4>2. Len(d.data) = (Len(c.data) - W) + n /\ d.mark = c.mark + n
        BY <2>5, <2>9
      <4>3. start.wire + (Len(c.data) - c.mark)
                = end.wire + (((Len(c.data) - W) + n) - (c.mark + n))
        BY <2>32
      <4> HIDE DEF n, W, start, end
      <4> QED
        BY <4>1, <4>2, <4>3, Zenon
    <3>3. ASSUME NEW j \in 1 .. Len(d.data) - d.mark
          PROVE  d.data[d.mark + j] = Wire(end.wire + j)
      <4>1. /\ d.mark + j \in (c.mark + n) + 1 .. (Len(c.data) - W) + n
            /\ ((d.mark + j) - n) + W = c.mark + (W + j)
            /\ W + j \in 1 .. Len(c.data) - c.mark
            /\ start.wire + (W + j) = end.wire + j
        <5>1. Len(d.data) = (Len(c.data) - W) + n /\ d.mark = c.mark + n
          BY <2>5, <2>9
        <5> HIDE DEF n, W, start, end
        <5> QED
          BY <2>32, <5>1, Zenon
      <4>2. d.data[d.mark + j] = c.data[((d.mark + j) - n) + W]
        BY <2>6, <4>1
      <4>3. c.data[c.mark + (W + j)] = Wire(start.wire + (W + j))
        BY <3>1, <4>1 DEF FollowsOpened
      <4> QED
        BY <4>1, <4>2, <4>3
    <3> QED
      BY <2>9, <3>2, <3>3 DEF FollowsOpened
  <2>15. d.torn => d.mark < Len(d.data) /\ d.data[d.mark + 1].kind = "plain"
    <3> SUFFICES ASSUME d.torn
                 PROVE  d.mark < Len(d.data) /\ d.data[d.mark + 1].kind = "plain"
      OBVIOUS
    <3>1. last = c.nonce /\ n = 0 /\ W = 0
      BY <2>4, <2>8, <2>9
    <3>2. c.mark < Len(c.data) /\ c.data[c.mark + 1].kind = "plain"
      BY <1>1, <1>4, <2>9 DEF BufferOK, SecuredOK
    <3> HIDE DEF n, W
    <3>3. /\ d.mark = c.mark /\ Len(d.data) = Len(c.data)
          /\ c.mark + 1 \in c.mark + n + 1 .. (Len(c.data) - W) + n
          /\ ((c.mark + 1) - n) + W = c.mark + 1
      BY <1>1, <2>5, <2>9, <3>1, <3>2
    <3>4. d.data[c.mark + 1] = c.data[c.mark + 1]
      BY <2>6, <3>3
    <3> QED
      BY <3>2, <3>3, <3>4
  <2>16. SecuredOK(d, a)
    <3>1. Begin[NextRequest] + d.mark = FrameEnd(d.nonce).plain
      <4> DEFINE x == start.plain  y == end.plain  b == Begin[NextRequest]  m == c.mark
      <4>1. x + n = y
        BY <2>8
      <4>2. FrameEnd(d.nonce).plain = y /\ d.mark = m + n
        BY <2>9
      <4>3. b \in Nat /\ m \in Nat /\ n \in Nat /\ b + m = x
        BY <1>1, <2>5, <2>11, <2>12
      <4> HIDE DEF n, W, start, end, x, y, b, m
      <4>4. b + (m + n) = y
        BY <4>1, <4>3
      <4> QED
        BY <4>2, <4>4 DEF b
    <3>2. a <= FrameEnd(Len(sealed)).wire
      BY <1>1, <1>4 DEF BufferOK, SecuredOK
    <3> QED
      BY <2>7, <2>9, <2>14, <2>15, <3>1, <3>2 DEF SecuredOK
  <2>17. ClearOK(d, a)
    BY <1>2, <1>4 DEF ClearOK
  <2>18. AllOpened(d, a)
    BY <1>2, <1>4, <2>4, <2>9 DEF AllOpened
  <2>19. ReaderOK(d)
    <3>1. d.reader <= d.mark
      BY <1>1, <2>9, <2>10, <2>30 DEF ReaderOK
    <3> QED
      BY <1>1, <2>9, <3>1, Zenon DEF ReaderOK
  <2>20. d.torn => pipelines
    BY <1>1, <2>9 DEF BufferOK
  <2> QED
    BY <1>1, <2>9, <2>10, <2>13, <2>16, <2>17, <2>18, <2>19, <2>20 DEF Ready, BufferOK, d
<1> QED
  BY <1>2, <1>3, <1>4

-----------------------------------------------------------------------------
(***************************************************************************)
(* The HTTP reader.                                                        *)
(***************************************************************************)

LEMMA ServedTyped ==
    ASSUME MsgTypeOK, RequestsWhole
    PROVE  /\ Len(served) \in Nat /\ Len(served) <= Requests
           /\ NextRequest \in 1 .. Requests + 1 /\ Begin[NextRequest] \in Nat
           /\ Len(served) < Requests =>
                /\ NextRequest \in 1 .. Requests /\ NextRequest + 1 \in 1 .. Requests + 1
                /\ Body[NextRequest] \in Nat /\ Begin[NextRequest + 1] \in Nat
                /\ Begin[NextRequest] < Body[NextRequest]
                /\ Body[NextRequest] <= Begin[NextRequest + 1]
<1>1. Len(served) \in Nat /\ Len(served) <= Requests /\ Requests \in Nat \ {0}
  <2>1. Requests \in Nat \ {0}
    BY IPMessagesAssumption
  <2>2. Len(served) \in Nat
    BY DEF MsgTypeOK
  <2> QED
    BY <2>1, <2>2 DEF RequestsWhole
<1>2. NextRequest \in 1 .. Requests + 1
  BY <1>1 DEF NextRequest
<1>3. Len(served) < Requests =>
        NextRequest \in 1 .. Requests /\ NextRequest + 1 \in 1 .. Requests + 1
  BY <1>1 DEF NextRequest
<1> QED
  BY <1>1, <1>2, <1>3, BeginTyped

\* When all requests have been handled, nothing of one is left.
LEMMA NothingLeft ==
    ASSUME MsgTypeOK, RequestsWhole, FramesInOrder, NEW c, NEW a \in Nat, Ready(c, a),
           Len(served) = Requests
    PROVE  c.mark = 0
<1>1. /\ c.mark \in Nat /\ SealedFor(Len(served)) /\ SecuredOK(c, a)
  BY DEF Ready, Connection, BufferOK
<1>2. /\ Verify \in 1 .. Requests /\ Requests \in Nat \ {0} /\ Len(sealed) \in Nat
      /\ Begin[Requests + 1] \in Nat /\ NextRequest = Requests + 1
  BY IPMessagesAssumption, BeginTyped DEF MsgTypeOK, NextRequest
<1>3. /\ c.nonce \in 0 .. Len(sealed)
      /\ Begin[Requests + 1] + c.mark = FrameEnd(c.nonce).plain
  BY <1>1, <1>2 DEF SecuredOK
<1>4. FrameEnd(Len(sealed)).plain <= Begin[Requests + 1]
  <2>1. CASE sealed = <<>>
    <3>1. FrameEnd(Len(sealed)).plain = Begin[Verify + 1]
      BY <2>1 DEF FrameEnd, Clear
    <3>2. Verify + 1 \in 1 .. Requests + 1 /\ Verify + 1 <= Requests + 1
      BY <1>2
    <3>3. Verify + 1 = Requests + 1 \/ Begin[Verify + 1] < Begin[Requests + 1]
      BY <1>2, <3>2, BeginInOrder
    <3> QED
      BY <1>2, <3>1, <3>2, <3>3, BeginTyped
  <2>2. CASE sealed # <<>>
    BY <1>1, <1>2, <2>2 DEF SealedFor
  <2> QED
    BY <2>1, <2>2
<1>5. FrameEnd(c.nonce).plain <= FrameEnd(Len(sealed)).plain
  BY <1>2, <1>3, FramesGrow
<1>6. FrameEnd(c.nonce).plain \in Nat /\ FrameEnd(Len(sealed)).plain \in Nat
  BY <1>2, <1>3, FrameEndTyped
<1> QED
  BY <1>1, <1>2, <1>3, <1>4, <1>5, <1>6

\* The first header that ends in what is open is that of the next request.
LEMMA EndsNextHeader ==
    ASSUME MsgTypeOK, RequestsWhole, FramesInOrder, NEW c, NEW a \in Nat, Ready(c, a),
           Len(served) < Requests, NEW p \in 1 .. c.mark
    PROVE  /\ Begin[NextRequest] + p = Body[NextRequest] => EndsHeader(c.data[p])
           /\ EndsHeader(c.data[p]) => Body[NextRequest] <= Begin[NextRequest] + p
<1>1. c.mark \in Nat /\ c.data[p] = Plain(Begin[NextRequest] + p)
  BY DEF Ready, Connection, BufferOK, OpenInOrder
<1>2. /\ NextRequest \in 1 .. Requests /\ Begin[NextRequest] \in Nat
      /\ Body[NextRequest] \in Nat
  BY ServedTyped
<1>3. ASSUME EndsHeader(c.data[p])
      PROVE  Body[NextRequest] <= Begin[NextRequest] + p
  <2>1. PICK k \in 1 .. Requests : Plain(Begin[NextRequest] + p) = Plain(Body[k])
    BY <1>1, <1>3 DEF EndsHeader
  <2>2. Begin[NextRequest] + p = Body[k] /\ Body[k] \in Nat
    BY <2>1, BeginTyped DEF Plain
  <2>3. Begin[NextRequest] < Body[k]
    BY <1>1, <1>2, <2>2
  <2>4. Body[k] <= Body[NextRequest] => k = NextRequest
    BY <1>2, <2>3, BodyOwn
  <2> QED
    BY <1>1, <1>2, <2>2, <2>4
<1> QED
  BY <1>1, <1>2, <1>3 DEF EndsHeader

\* read_http stops at the end of the header of the next request, or at an
\* error, or has gone through all that is open.
LEMMA ReadReady ==
    ASSUME MsgTypeOK, RequestsWhole, FramesInOrder, NEW c, NEW a \in Nat, Ready(c, a)
    PROVE  /\ ReadHTTP(c).http # "error" =>
                /\ Ready(ReadHTTP(c), a)
                /\ ReadHTTP(c).http = "reading" => ReadHTTP(c).reader = c.mark
           /\ ReadHTTP(c) = [c EXCEPT !.reader = ReadHTTP(c).reader,
                                      !.http = ReadHTTP(c).http]
<1> DEFINE r == ReadHTTP(c)
           stops == {p \in c.reader + 1 .. c.mark :
                       EndsHeader(c.data[p]) \/ Flawed(c.data[p])}
<1>1. /\ c \in Connection /\ c.io = "reading" /\ c.data \in Seq(Cell) /\ Len(c.data) \in Nat
      /\ c.mark \in Nat /\ c.reader \in Nat /\ c.mark <= Len(c.data)
      /\ Len(c.data) <= InCapacity
      /\ BufferOK(c, a) /\ ReaderOK(c) /\ SealedFor(Len(served))
  BY DEF Ready, Connection
<1>2. ASSUME NEW x \in 0 .. c.mark, NEW h \in {"reading", "done"},
             r = [c EXCEPT !.reader = x, !.http = h],
             h = "reading" => x = c.mark,
             h = "reading" /\ Len(served) < Requests =>
                Begin[NextRequest] + x < Body[NextRequest],
             h = "done" => /\ Len(served) < Requests
                           /\ Begin[NextRequest] + x = Body[NextRequest]
      PROVE  /\ Ready(r, a) /\ (r.http = "reading" => r.reader = c.mark)
             /\ r = [c EXCEPT !.reader = r.reader, !.http = r.http]
  <2> HIDE DEF r
  <2>1. /\ r \in Connection /\ r.io = "reading" /\ r.data = c.data /\ r.mark = c.mark
        /\ r.reader = x /\ r.http = h /\ r.nonce = c.nonce /\ r.torn = c.torn
        /\ r.secured = c.secured
    <3>1. x \in Nat /\ h \in {"reading", "done", "error"}
      BY <1>1
    <3>2. r = [c EXCEPT !.reader = x, !.http = h]
      BY <1>2
    <3> QED
      BY <1>1, <3>1, <3>2 DEF Connection
  <2>2. BufferOK(r, a)
    BY <1>1, <2>1 DEF BufferOK, OpenInOrder, ClearOK, SecuredOK, FollowsOpened
  <2>3. ReaderOK(r)
    BY <1>1, <1>2, <2>1 DEF ReaderOK
  <2> QED
    BY <1>1, <1>2, <2>1, <2>2, <2>3 DEF Ready
<1>3. CASE c.http # "reading"
  <2>1. c.http = "done" /\ c.reader \in 0 .. c.mark
    BY <1>1, <1>3 DEF ReaderOK, Connection
  <2>2. r = c
    BY <1>3 DEF ReadHTTP
  <2>3. r = [c EXCEPT !.reader = c.reader, !.http = "done"]
    BY <1>1, <2>1, <2>2 DEF Connection
  <2>4. Len(served) < Requests /\ Begin[NextRequest] + c.reader = Body[NextRequest]
    BY <1>1, <2>1 DEF ReaderOK
  <2> QED
    BY <1>2, <2>1, <2>3, <2>4
<1>4. CASE c.http = "reading" /\ stops = {}
  <2>1. r = [c EXCEPT !.reader = c.mark, !.http = "reading"]
    <3>1. r = [c EXCEPT !.reader = c.mark]
      BY <1>4 DEF ReadHTTP
    <3> QED
      BY <1>1, <1>4, <3>1 DEF Connection
  <2>2. ASSUME Len(served) < Requests
        PROVE  Begin[NextRequest] + c.mark < Body[NextRequest]
    <3> DEFINE h == Body[NextRequest] - Begin[NextRequest]
    <3>1. /\ Begin[NextRequest] \in Nat /\ Body[NextRequest] \in Nat
          /\ Begin[NextRequest] + c.reader < Body[NextRequest]
      BY <1>1, <1>4, <2>2, ServedTyped DEF ReaderOK
    <3>2. ASSUME h <= c.mark PROVE FALSE
      <4>1. /\ h \in 1 .. c.mark /\ h \in c.reader + 1 .. c.mark
            /\ Begin[NextRequest] + h = Body[NextRequest]
        BY <1>1, <3>1, <3>2
      <4>2. EndsHeader(c.data[h])
        BY <2>2, <4>1, EndsNextHeader
      <4> QED
        BY <1>4, <4>1, <4>2
    <3> QED
      BY <1>1, <3>1, <3>2
  <2>3. c.mark \in 0 .. c.mark
    BY <1>1
  <2> QED
    BY <1>2, <2>1, <2>2, <2>3
<1>5. CASE c.http = "reading" /\ stops # {}
  <2>1. stops \in SUBSET Nat
    BY <1>1
  <2>2. \E p \in stops : \A q \in stops : p <= q
    BY <1>5, <2>1, LeastNatural
  <2> DEFINE first == CHOOSE p \in stops : \A q \in stops : p <= q
  <2>3. first \in stops /\ \A q \in stops : first <= q
    BY <2>2
  <2>4. r = [c EXCEPT !.reader = first,
                      !.http = IF Flawed(c.data[first]) THEN "error" ELSE "done"]
    BY <1>5 DEF ReadHTTP
  <2> HIDE DEF first
  <2>5. CASE Flawed(c.data[first])
    <3>1. r = [c EXCEPT !.reader = first, !.http = "error"]
      BY <2>4, <2>5
    <3> HIDE DEF r
    <3>2. r.http = "error" /\ r.reader = first
      BY <1>1, <3>1 DEF Connection
    <3> QED
      BY <3>1, <3>2 DEF r
  <2>6. CASE ~Flawed(c.data[first])
    <3>1. r = [c EXCEPT !.reader = first, !.http = "done"]
      BY <2>4, <2>6
    <3>2. first \in 1 .. c.mark /\ first \in 0 .. c.mark /\ EndsHeader(c.data[first])
      BY <1>1, <2>3, <2>6
    <3>3. Len(served) < Requests
      <4>1. Len(served) = Requests => c.mark = 0
        BY NothingLeft
      <4>2. Len(served) \in Nat /\ Len(served) <= Requests /\ Requests \in Nat
        BY ServedTyped, IPMessagesAssumption
      <4> QED
        BY <3>2, <4>1, <4>2
    <3> DEFINE h == Body[NextRequest] - Begin[NextRequest]
    <3>4. /\ Begin[NextRequest] \in Nat /\ Body[NextRequest] \in Nat
          /\ Begin[NextRequest] + c.reader < Body[NextRequest]
      BY <1>1, <1>5, <3>3, ServedTyped DEF ReaderOK
    <3>5. Body[NextRequest] <= Begin[NextRequest] + first
      BY <3>2, <3>3, EndsNextHeader
    <3>6. /\ h \in 1 .. c.mark /\ h \in c.reader + 1 .. c.mark
          /\ Begin[NextRequest] + h = Body[NextRequest]
      <4> DEFINE b == Begin[NextRequest]  y == Body[NextRequest]  m == c.mark
                 q == c.reader
      <4>1. /\ b \in Nat /\ y \in Nat /\ m \in Nat /\ q \in Nat /\ first \in 1 .. m
            /\ b + q < y /\ y <= b + first
        BY <1>1, <3>2, <3>4, <3>5
      <4>2. h = y - b
        OBVIOUS
      <4> HIDE DEF b, y, m, q, h
      <4>3. h \in 1 .. m /\ h \in q + 1 .. m /\ b + h = y
        BY <4>1, <4>2
      <4> QED
        BY <4>3 DEF b, y, m, q
    <3>7. h \in stops
      <4>1. EndsHeader(c.data[h])
        BY <3>3, <3>6, EndsNextHeader
      <4> QED
        BY <3>6, <4>1
    <3>8. first <= h
      BY <2>3, <3>7
    <3>9. Begin[NextRequest] + first = Body[NextRequest]
      BY <3>2, <3>4, <3>5, <3>6, <3>8
    <3> QED
      BY <1>2, <3>1, <3>2, <3>3, <3>9
  <2> QED
    BY <2>5, <2>6
<1> QED
  BY <1>3, <1>4, <1>5

-----------------------------------------------------------------------------
(***************************************************************************)
(* A request is handled.                                                   *)
(***************************************************************************)

LEMMA RequestLength ==
    ASSUME MsgTypeOK, RequestsWhole, FramesInOrder, NEW c, NEW a \in Nat, Ready(c, a),
           c.http = "done"
    PROVE  /\ ContentLength(c) = Begin[NextRequest + 1] - Body[NextRequest]
           /\ c.reader + ContentLength(c) = Begin[NextRequest + 1] - Begin[NextRequest]
           /\ Len(served) < Requests
<1>1. /\ c.mark \in Nat /\ c.reader \in Nat /\ c.reader <= c.mark
      /\ Len(served) < Requests /\ Begin[NextRequest] + c.reader = Body[NextRequest]
      /\ OpenInOrder(c)
  BY DEF Ready, Connection, ReaderOK, BufferOK
<1>2. /\ NextRequest \in 1 .. Requests /\ NextRequest + 1 \in 1 .. Requests + 1
      /\ Begin[NextRequest] \in Nat /\ Begin[NextRequest + 1] \in Nat
      /\ Body[NextRequest] \in Nat /\ Begin[NextRequest] < Body[NextRequest]
  BY <1>1, ServedTyped
<1>3. c.reader \in 1 .. c.mark
  BY <1>1, <1>2
<1>4. c.data[c.reader] = Plain(Body[NextRequest])
  BY <1>1, <1>3 DEF OpenInOrder
<1>5. \A k \in 1 .. Requests : c.data[c.reader] = Plain(Body[k]) <=> k = NextRequest
  <2> SUFFICES ASSUME NEW k \in 1 .. Requests, c.data[c.reader] = Plain(Body[k])
               PROVE  k = NextRequest
    BY <1>2, <1>4
  <2>1. Body[k] = Body[NextRequest]
    BY <1>4 DEF Plain
  <2> QED
    BY <1>2, <2>1, BodyOwn
<1>6. (CHOOSE k \in 1 .. Requests : c.data[c.reader] = Plain(Body[k])) = NextRequest
  BY <1>2, <1>5
<1>7. ContentLength(c) = Begin[NextRequest + 1] - Body[NextRequest]
  BY <1>6 DEF ContentLength
<1> QED
  BY <1>1, <1>2, <1>7

LEMMA OutboundFits ==
    ASSUME NEW n \in 1 .. OutCapacity, NEW secured
    PROVE  Outbound(n, secured) \in 0 .. OutCapacity
<1>1. /\ OutOfResources \in Nat /\ n \in Nat /\ OutCapacity \in Nat
      /\ NumEncryptedBytes(OutOfResources) <= OutCapacity
  BY IPMessagesAssumption
<1>2. /\ NumEncryptedBytes(n) \in Nat /\ Encrypted[n] = NumEncryptedBytes(n)
      /\ NumEncryptedBytes(OutOfResources) \in Nat
      /\ Encrypted[OutOfResources] = NumEncryptedBytes(OutOfResources)
  BY <1>1, NumEncryptedBytesStep, EncryptedAsCounted
<1> QED
  BY <1>1, <1>2 DEF Outbound

\* Nothing but the request is taken from the buffer.
LEMMA HandledWhole ==
    ASSUME MsgTypeOK, RequestsWhole, FramesInOrder, NEW c, NEW a \in Nat, Ready(c, a),
           AllOpened(c, a), Complete(c), HandleHTTP(c),
           sealed' = sealed, pipelines' = pipelines, arrived' = a
    PROVE  MsgInv'
<1> DEFINE k == NextRequest
           n == c.reader + ContentLength(c)
           left == ShiftLeft(c.data, c.mark, n)
           request == SubSeq(c.data, 1, n)
<1>1. /\ c \in Connection /\ c.io = "reading" /\ c.data \in Seq(Cell) /\ Len(c.data) \in Nat
      /\ c.mark \in Nat /\ c.reader \in Nat /\ c.mark <= Len(c.data)
      /\ Len(c.data) <= InCapacity
      /\ BufferOK(c, a) /\ ReaderOK(c) /\ SealedFor(Len(served))
      /\ InCapacity \in Nat /\ Verify \in 1 .. Requests /\ Requests \in Nat
  BY IPMessagesAssumption DEF Ready, Connection
<1>2. c.http = "done" /\ n <= c.mark
  BY DEF Complete
<1>3. n = Begin[k + 1] - Begin[k] /\ Len(served) < Requests
  BY <1>2, RequestLength
<1>4. /\ k \in 1 .. Requests /\ k + 1 \in 1 .. Requests + 1
      /\ Begin[k] \in Nat /\ Begin[k + 1] \in Nat /\ Begin[k] < Begin[k + 1]
  BY <1>3, ServedTyped
<1>24. Begin[k] + n = Begin[k + 1]
  <2> DEFINE b == Begin[k]  e == Begin[k + 1]
  <2>1. b \in Nat /\ e \in Nat /\ n = e - b
    BY <1>3, <1>4
  <2> HIDE DEF b, e, n
  <2>2. b + n = e
    BY <2>1
  <2> QED
    BY <2>2 DEF b, e
<1>23. k = Len(served) + 1 /\ Len(served) \in Nat
  BY ServedTyped DEF NextRequest
<1>5. n \in Nat /\ n \in 1 .. c.mark /\ n \in 0 .. c.mark /\ c.mark \in 0 .. Len(c.data)
  BY <1>1, <1>2, <1>3, <1>4
<1> HIDE DEF n
<1>6. /\ left \in Seq(Cell) /\ Len(left) = Len(c.data) - n
      /\ \A i \in 1 .. c.mark - n : left[i] = c.data[i + n]
      /\ \A i \in c.mark - n + 1 .. Len(c.data) - n : left[i] = c.data[i]
  <2> DEFINE s == c.data  p == c.mark
  <2>1. s \in Seq(Cell) /\ p \in 0 .. Len(s) /\ n \in 0 .. p
    BY <1>1, <1>5
  <2> HIDE DEF s, p
  <2>2. /\ ShiftLeft(s, p, n) \in Seq(Cell) /\ Len(ShiftLeft(s, p, n)) = Len(s) - n
        /\ \A i \in 1 .. p - n : ShiftLeft(s, p, n)[i] = s[i + n]
        /\ \A i \in p - n + 1 .. Len(s) - n : ShiftLeft(s, p, n)[i] = s[i]
    BY <2>1, Shifted
  <2> QED
    BY <2>2 DEF s, p
<1>7. /\ request \in Seq(Cell) /\ Len(request) = n
      /\ \A i \in 1 .. n : request[i] = c.data[i]
  BY <1>1, <1>5, SubSeqProperties
<1>8. Outbound(Response[Len(served) + 1], c.secured) \in 0 .. OutCapacity
  <2>1. Response[Len(served) + 1] \in 1 .. OutCapacity
    BY <1>4, <1>23, IPMessagesAssumption
  <2> QED
    BY <2>1, OutboundFits
<1>9. /\ conn' \in Connection /\ conn'.io = "responding" /\ conn'.data = left
      /\ conn'.mark = c.mark - n /\ conn'.nonce = c.nonce /\ conn'.secured = c.secured
      /\ conn'.torn = (c.torn \/ c.mark < Len(c.data))
  <2> DEFINE unsent == Outbound(Response[Len(served) + 1], c.secured)
             torn == c.torn \/ c.mark < Len(c.data)
  <2>1. conn' = [c EXCEPT !.data = left, !.mark = c.mark - n, !.io = "responding",
                          !.unsent = unsent, !.torn = torn]
    BY DEF HandleHTTP, n
  <2>2. unsent \in 0 .. OutCapacity /\ torn \in BOOLEAN /\ c.mark - n \in Nat
    BY <1>1, <1>5, <1>8 DEF Connection
  <2> HIDE DEF unsent, torn, left
  <2>3. /\ conn' \in Connection /\ conn'.io = "responding" /\ conn'.data = left
        /\ conn'.mark = c.mark - n /\ conn'.nonce = c.nonce /\ conn'.secured = c.secured
        /\ conn'.torn = torn
    BY <1>1, <1>6, <2>1, <2>2 DEF Connection
  <2> QED
    BY <2>3 DEF torn
<1>25. /\ conn'.torn => c.torn \/ c.mark < Len(c.data)
       /\ ~conn'.torn => ~c.torn /\ c.mark = Len(c.data)
  <2>1. c.mark < Len(c.data) \/ c.mark = Len(c.data)
    BY <1>1
  <2>2. ~conn'.torn => ~c.torn /\ ~(c.mark < Len(c.data))
    BY <1>9
  <2> QED
    BY <1>9, <2>1, <2>2
<1>10. served' = Append(served, request)
  BY DEF HandleHTTP, n
<1> HIDE DEF left, request
<1>11. /\ served' \in Seq(Seq(Cell)) /\ Len(served') = k
       /\ \A i \in 1 .. Len(served) : served'[i] = served[i]
       /\ served'[k] = request
  BY <1>23, <1>7, <1>10 DEF MsgTypeOK
<1>12. NextRequest' = k + 1
  BY <1>11 DEF NextRequest
<1>13. MsgTypeOK'
  <2>1. conn'.mark <= Len(conn'.data) /\ Len(conn'.data) <= InCapacity
    BY <1>1, <1>5, <1>6, <1>9
  <2> QED
    BY <1>9, <1>11, <2>1 DEF MsgTypeOK
<1>14. RequestsWhole'
  <2>1. Len(served') <= Requests
    BY <1>4, <1>11
  <2>2. request = [i \in 1 .. Begin[k + 1] - Begin[k] |-> Plain(Begin[k] + i)]
    <3>1. \A i \in 1 .. n : request[i] = Plain(Begin[k] + i)
      BY <1>1, <1>5, <1>7 DEF BufferOK, OpenInOrder
    <3>2. request = [i \in 1 .. n |-> request[i]]
      BY <1>7
    <3> QED
      BY <1>3, <3>1, <3>2
  <2>3. ASSUME NEW j \in 1 .. Len(served')
        PROVE  served'[j] = [i \in 1 .. Begin[j + 1] - Begin[j] |-> Plain(Begin[j] + i)]
    <3>1. CASE j = k
      BY <1>11, <2>2, <3>1
    <3>2. CASE j # k
      <4>1. j \in 1 .. Len(served)
        BY <1>4, <1>23, <1>11, <3>2
      <4> QED
        BY <1>11, <4>1 DEF RequestsWhole
    <3> QED
      BY <3>1, <3>2
  <2> QED
    BY <2>1, <2>3 DEF RequestsWhole
<1>15. \A f : FrameEnd(f)' = FrameEnd(f)
  BY DEF FrameEnd
<1>16. FramesInOrder'
  BY <1>15 DEF FramesInOrder
<1>17. OpenInOrder(conn)'
  <2> SUFFICES ASSUME NEW i \in 1 .. conn'.mark
               PROVE  conn'.data[i] = Plain(Begin[k + 1] + i)
    BY <1>12 DEF OpenInOrder
  <2>1. i \in 1 .. c.mark - n /\ i + n \in 1 .. c.mark /\ Begin[k] + (i + n) = Begin[k + 1] + i
    <3> DEFINE b == Begin[k]  e == Begin[k + 1]
    <3>1. b \in Nat /\ e \in Nat /\ b + n = e /\ n \in Nat /\ c.mark \in Nat
      BY <1>1, <1>4, <1>5, <1>24
    <3>2. i \in 1 .. c.mark - n
      BY <1>9
    <3> HIDE DEF b, e
    <3>3. i + n \in 1 .. c.mark /\ b + (i + n) = e + i
      BY <3>1, <3>2
    <3> QED
      BY <3>2, <3>3 DEF b, e
  <2>2. left[i] = c.data[i + n] /\ c.data[i + n] = Plain(Begin[k] + (i + n))
    BY <1>1, <1>6, <2>1 DEF BufferOK, OpenInOrder
  <2> QED
    BY <1>9, <2>1, <2>2
<1>18. ASSUME Len(served) < Verify
       PROVE  BufferOK(conn, arrived)'
  <2>1. /\ c.nonce = 0 /\ ~c.torn /\ ~c.secured /\ sealed = <<>>
        /\ a = Begin[k] + Len(c.data) /\ a <= Clear
        /\ \A i \in 1 .. Len(c.data) : c.data[i] = Plain(Begin[k] + i)
        /\ c.mark = Len(c.data)
    BY <1>1, <1>18 DEF BufferOK, ClearOK, AllOpened
  <2>2. /\ conn'.nonce = 0 /\ ~conn'.torn /\ ~conn'.secured
        /\ a = Begin[k + 1] + Len(conn'.data) /\ Len(conn'.data) = conn'.mark
    <3>1. conn'.nonce = 0 /\ ~conn'.torn /\ ~conn'.secured
      BY <1>1, <1>9, <1>25, <2>1
    <3>2. Len(conn'.data) = Len(c.data) - n /\ conn'.mark = Len(c.data) - n
      BY <1>6, <1>9, <2>1
    <3> DEFINE b == Begin[k]  e == Begin[k + 1]  L == Len(c.data)
    <3>3. b \in Nat /\ e \in Nat /\ b + n = e /\ n \in Nat /\ L \in Nat /\ a = b + L
      BY <1>1, <1>4, <1>5, <1>24, <2>1
    <3> HIDE DEF b, e, L
    <3>4. a = e + (L - n)
      BY <3>3
    <3> QED
      BY <3>1, <3>2, <3>4 DEF e, L
  <2>3. ClearOK(conn, arrived)'
    BY <1>12, <1>17, <2>1, <2>2 DEF ClearOK, OpenInOrder
  <2>4. SecuredOK(conn, arrived)'
    <3> SUFFICES ASSUME Len(served') >= Verify PROVE SecuredOK(conn, arrived)'
      BY DEF SecuredOK
    <3>1. k = Verify /\ Clear = Begin[k + 1] /\ Clear \in Nat
      BY <1>1, <1>4, <1>23, <1>11, <1>18, BeginTyped DEF Clear
    <3>2. Len(conn'.data) = 0 /\ conn'.mark = 0 /\ a = Clear
      BY <1>1, <1>4, <1>5, <1>6, <1>9, <2>1, <2>2, <3>1
    <3>3. FrameEnd(0)'.plain = Clear /\ FrameEnd(0)'.wire = Clear /\ Len(sealed') = 0
      BY <2>1 DEF FrameEnd
    <3>4. FollowsOpened(conn, arrived)'
      BY <2>2, <3>1, <3>2, <3>3 DEF FollowsOpened
    <3> QED
      BY <1>4, <1>12, <2>2, <3>1, <3>2, <3>3, <3>4 DEF SecuredOK
  <2>5. BufferOK(conn, arrived)'
    BY <1>17, <2>2, <2>3, <2>4 DEF BufferOK
  <2> QED
    BY <2>5
<1>19. ASSUME Len(served) >= Verify
       PROVE  BufferOK(conn, arrived)'
  <2>1. /\ c.nonce \in 0 .. Len(sealed) /\ Begin[k] + c.mark = FrameEnd(c.nonce).plain
        /\ a <= FrameEnd(Len(sealed)).wire
        /\ ~c.torn => FollowsOpened(c, a)
    BY <1>1, <1>19 DEF BufferOK, SecuredOK
  <2>2. ClearOK(conn, arrived)'
    BY <1>1, <1>4, <1>23, <1>11, <1>19 DEF ClearOK
  <2>3. Begin[k + 1] + conn'.mark = FrameEnd(c.nonce).plain
    <3> DEFINE b == Begin[k]  e == Begin[k + 1]  m == c.mark
    <3>1. /\ b \in Nat /\ e \in Nat /\ m \in Nat /\ n \in Nat /\ b + n = e
          /\ conn'.mark = m - n /\ b + m = FrameEnd(c.nonce).plain
      BY <1>1, <1>4, <1>5, <1>9, <1>24, <2>1
    <3> HIDE DEF b, e, m
    <3>2. e + (m - n) = b + m
      BY <3>1
    <3> QED
      BY <3>1, <3>2 DEF e
  <2>4. ASSUME ~conn'.torn PROVE FollowsOpened(conn, arrived)'
    <3>1. c.mark = Len(c.data) /\ FollowsOpened(c, a)
      BY <1>25, <2>1, <2>4
    <3>2. Len(conn'.data) - conn'.mark = 0
      BY <1>1, <1>5, <1>6, <1>9, <3>1
    <3>3. FrameEnd(c.nonce).wire \in Nat
      BY <2>1, FrameEndTyped
    <3>4. a = FrameEnd(c.nonce).wire
      BY <1>1, <3>1, <3>3 DEF FollowsOpened
    <3> QED
      BY <1>9, <1>15, <3>2, <3>3, <3>4 DEF FollowsOpened
  <2>5. ASSUME conn'.torn
        PROVE  conn'.mark < Len(conn'.data) /\ conn'.data[conn'.mark + 1].kind = "plain"
    <3>1. c.mark < Len(c.data)
      BY <1>1, <1>9, <1>19, <2>5 DEF BufferOK, SecuredOK
    <3>2. /\ conn'.mark < Len(conn'.data) /\ conn'.mark + 1 = c.mark - n + 1
          /\ c.mark - n + 1 \in c.mark - n + 1 .. Len(c.data) - n
          /\ c.mark - n + 1 \in 1 .. c.mark
      <4> DEFINE m == c.mark  L == Len(c.data)
      <4>1. /\ m \in Nat /\ L \in Nat /\ n \in Nat /\ n >= 1 /\ n <= m /\ m < L
            /\ conn'.mark = m - n /\ Len(conn'.data) = L - n
        BY <1>1, <1>5, <1>6, <1>9, <3>1
      <4> HIDE DEF m, L
      <4>2. m - n < L - n /\ m - n + 1 \in m - n + 1 .. L - n /\ m - n + 1 \in 1 .. m
        BY <4>1
      <4> QED
        BY <4>1, <4>2 DEF m, L
    <3>3. left[c.mark - n + 1] = c.data[c.mark - n + 1]
      BY <1>6, <3>2
    <3>4. c.data[c.mark - n + 1] = Plain(Begin[k] + (c.mark - n + 1))
      BY <1>1, <3>2 DEF BufferOK, OpenInOrder
    <3> QED
      BY <1>9, <3>2, <3>3, <3>4 DEF Plain
  <2>6. SecuredOK(conn, arrived)'
    BY <1>9, <1>12, <1>15, <2>1, <2>3, <2>4, <2>5 DEF SecuredOK
  <2>7. ASSUME conn'.torn PROVE pipelines
    <3>1. CASE c.torn
      BY <1>1, <3>1 DEF BufferOK
    <3>2. CASE ~c.torn /\ ~pipelines
      <4>1. FollowsOpened(c, a) /\ c.mark < Len(c.data)
        BY <1>9, <2>1, <2>7, <3>2
      <4>2. /\ FrameEnd(c.nonce).plain \in Nat /\ FrameEnd(c.nonce).wire \in Nat
            /\ FrameEnd(Len(sealed)).plain \in Nat /\ Len(sealed) \in Nat
        BY <2>1, FrameEndTyped DEF MsgTypeOK
      <4>3. Begin[k + 1] <= FrameEnd(c.nonce).plain
        <5> DEFINE b == Begin[k]  e == Begin[k + 1]  p == FrameEnd(c.nonce).plain
        <5>1. /\ b \in Nat /\ e \in Nat /\ b + n = e /\ n \in Nat /\ n <= c.mark
              /\ c.mark \in Nat /\ p \in Nat /\ b + c.mark = p
          BY <1>1, <1>4, <1>5, <1>24, <2>1, <4>2
        <5> HIDE DEF b, e, p
        <5>2. e <= p
          BY <5>1
        <5> QED
          BY <5>2 DEF e, p
      <4>4. sealed # <<>> => FrameEnd(Len(sealed)).plain <= Begin[k + 1]
        <5> SUFFICES ASSUME sealed # <<>>
                     PROVE  FrameEnd(Len(sealed)).plain <= Begin[k + 1]
          OBVIOUS
        <5>1. FrameEnd(Len(sealed)).plain <=
                (IF k >= Requests THEN Begin[Requests + 1] ELSE Begin[Len(served) + 2])
          BY <1>1, <1>4, <1>23, <3>2 DEF SealedFor
        <5>2. Len(served) + 2 = k + 1 /\ (k >= Requests => k = Requests)
          BY <1>1, <1>4, <1>23
        <5> QED
          BY <5>1, <5>2
      <4>5. c.nonce = Len(sealed)
        <5>1. CASE sealed = <<>>
          BY <2>1, <4>2, <5>1
        <5>2. CASE sealed # <<>>
          <6>1. c.nonce # Len(sealed) =>
                    FrameEnd(c.nonce).plain < FrameEnd(Len(sealed)).plain
            BY <2>1, <4>2, FramesGrow
          <6> QED
            BY <1>4, <4>2, <4>3, <4>4, <5>2, <6>1
        <5> QED
          BY <5>1, <5>2
      <4> QED
        BY <1>1, <2>1, <4>1, <4>2, <4>5 DEF FollowsOpened
    <3> QED
      BY <3>1, <3>2
  <2> QED
    BY <1>17, <2>2, <2>6, <2>7 DEF BufferOK
<1>20. BufferOK(conn, arrived)'
  <2>1. Len(served) < Verify \/ Len(served) >= Verify
    BY <1>1, <1>23
  <2> QED
    BY <1>18, <1>19, <2>1
<1>21. SealedFor(Answered)'
  <2>1. Answered' = Len(served)
    BY <1>23, <1>9, <1>11 DEF Answered
  <2> QED
    BY <1>1, <1>15, <2>1 DEF SealedFor
<1>22. InMessages'
  BY <1>23, <1>9, <1>11, <1>20, <1>21 DEF InMessages
<1> QED
  BY <1>13, <1>14, <1>16, <1>22 DEF MsgInv

-----------------------------------------------------------------------------
(***************************************************************************)
(* Input.                                                                  *)
(***************************************************************************)

\* What follows from the variables that the session leaves alone.
LEMMA SameFrames ==
    ASSUME sealed' = sealed
    PROVE  /\ \A f : FrameEnd(f)' = FrameEnd(f)
           /\ FramesInOrder => FramesInOrder'
<1>1. \A f : FrameEnd(f)' = FrameEnd(f)
  BY DEF FrameEnd
<1> QED
  BY <1>1 DEF FramesInOrder

LEMMA Closed ==
    ASSUME MsgTypeOK, RequestsWhole, FramesInOrder, CloseConnection,
           sealed' = sealed, pipelines' = pipelines, arrived' \in Nat
    PROVE  MsgInv'
<1>1. /\ conn' = [NewConnection EXCEPT !.io = "closed"] /\ served' = served
      /\ InCapacity \in Nat \ {0} /\ OutCapacity \in Nat \ {0}
  BY IPMessagesAssumption DEF CloseConnection
<1>2. /\ conn' \in Connection /\ conn'.io = "closed" /\ conn'.reader = 0 /\ conn'.mark = 0
      /\ conn'.data = <<>> /\ Len(conn'.data) = 0
  <2>1. <<>> \in Seq(Cell) /\ 0 \in 0 .. OutCapacity
    BY <1>1
  <2>2. NewConnection \in Connection
    BY <2>1 DEF Connection, NewConnection
  <2> QED
    BY <1>1, <2>1, <2>2 DEF Connection, NewConnection
<1>3. MsgTypeOK'
  BY <1>1, <1>2 DEF MsgTypeOK
<1>4. RequestsWhole' /\ FramesInOrder' /\ InMessages'
  BY <1>1, <1>2, SameFrames DEF RequestsWhole, InMessages
<1> QED
  BY <1>3, <1>4 DEF MsgInv

\* A session that waits for more.
LEMMA Waits ==
    ASSUME MsgTypeOK, RequestsWhole, FramesInOrder, NEW c, NEW a \in Nat, Ready(c, a),
           AllOpened(c, a), StillReading(c), conn' = c, served' = served,
           sealed' = sealed, pipelines' = pipelines, arrived' = a
    PROVE  MsgInv'
<1>1. /\ c \in Connection /\ c.io = "reading" /\ c.reader <= c.mark
      /\ c.mark <= Len(c.data) /\ Len(c.data) <= InCapacity
      /\ BufferOK(c, a) /\ SealedFor(Len(served))
  BY DEF Ready, ReaderOK
<1>2. MsgTypeOK'
  BY <1>1 DEF MsgTypeOK
<1>3. RequestsWhole' /\ FramesInOrder'
  BY SameFrames DEF RequestsWhole
<1>4. \A f : FrameEnd(f)' = FrameEnd(f)
  BY SameFrames
<1>5. NextRequest' = NextRequest
  BY DEF NextRequest
<1>6. BufferOK(conn, arrived)'
  <2>1. OpenInOrder(conn)' /\ ClearOK(conn, arrived)'
    BY <1>1, <1>5 DEF BufferOK, OpenInOrder, ClearOK
  <2>2. SecuredOK(conn, arrived)'
    BY <1>1, <1>4, <1>5 DEF BufferOK, SecuredOK, FollowsOpened
  <2> QED
    BY <1>1, <2>1, <2>2 DEF BufferOK
<1>7. AllOpened(conn, arrived)'
  BY <1>4 DEF AllOpened
<1>8. StillReading(conn)'
  BY <1>5 DEF StillReading, ReaderOK
<1>9. SealedFor(Answered)'
  <2>1. Answered' = Len(served)
    <3>1. Len(served) \in Nat
      BY DEF MsgTypeOK
    <3> QED
      BY <1>1, <3>1 DEF Answered
  <2> QED
    BY <1>1, <1>4, <2>1 DEF SealedFor
<1>10. InMessages'
  BY <1>1, <1>6, <1>7, <1>8, <1>9 DEF InMessages
<1> QED
  BY <1>2, <1>3, <1>10 DEF MsgInv

\* handle_input closes the session, handles a request, or waits for more.
LEMMA HandledInput ==
    ASSUME MsgTypeOK, RequestsWhole, FramesInOrder, NEW c, NEW a \in Nat, Ready(c, a),
           HandleInput(c), sealed' = sealed, pipelines' = pipelines, arrived' = a
    PROVE  MsgInv'
<1> DEFINE d == Decoded(c)
           r == ReadHTTP(d)
<1>1. Ready(d, a) /\ AllOpened(d, a)
  BY DecodedReady
<1> HIDE DEF d
<1>2. /\ r.http # "error" => /\ Ready(r, a)
                             /\ r.http = "reading" => r.reader = d.mark
      /\ r = [d EXCEPT !.reader = r.reader, !.http = r.http]
  BY <1>1, ReadReady
<1>3. \/ CloseConnection
      \/ r.http # "error" /\ Complete(r) /\ HandleHTTP(r)
      \/ /\ r.http # "error" /\ ~Complete(r) /\ Len(r.data) # InCapacity
         /\ conn' = r /\ served' = served
  BY DEF HandleInput, d
<1> DEFINE x == r.reader  h == r.http
<1>4. r = [d EXCEPT !.reader = x, !.http = h]
  BY <1>2
<1> HIDE DEF r, x, h
<1>5. /\ r.data = d.data /\ r.mark = d.mark /\ r.nonce = d.nonce /\ r.torn = d.torn
      /\ d \in Connection
  <2>1. d \in Connection
    BY <1>1 DEF Ready
  <2> QED
    BY <1>4, <2>1 DEF Connection
<1>6. AllOpened(r, a)
  BY <1>1, <1>5 DEF AllOpened
<1>7. CASE CloseConnection
  BY <1>7, Closed
<1>8. CASE r.http # "error" /\ Complete(r) /\ HandleHTTP(r)
  BY <1>2, <1>6, <1>8, HandledWhole
<1>9. CASE /\ r.http # "error" /\ ~Complete(r) /\ Len(r.data) # InCapacity
           /\ conn' = r /\ served' = served
  <2>1. Ready(r, a) /\ (r.http = "reading" => r.reader = r.mark)
    BY <1>2, <1>5, <1>9
  <2>2. /\ ReaderOK(r) /\ r \in Connection /\ r.mark \in Nat /\ r.reader \in Nat
        /\ Len(r.data) \in Nat /\ Len(r.data) <= InCapacity /\ InCapacity \in Nat
    BY <2>1, IPMessagesAssumption DEF Ready, Connection
  <2>3. ASSUME Len(served) < Requests
        PROVE  Begin[NextRequest] + r.mark < Begin[NextRequest + 1]
    <3>1. /\ Begin[NextRequest] \in Nat /\ Begin[NextRequest + 1] \in Nat
          /\ Body[NextRequest] \in Nat /\ Body[NextRequest] <= Begin[NextRequest + 1]
      BY <2>3, ServedTyped
    <3>2. CASE r.http = "done"
      <4>1. r.reader + ContentLength(r) = Begin[NextRequest + 1] - Begin[NextRequest]
        BY <2>1, <3>2, RequestLength
      <4>2. ~(r.reader + ContentLength(r) <= r.mark)
        BY <1>9, <3>2 DEF Complete
      <4> QED
        BY <2>2, <3>1, <4>1, <4>2
    <3>3. CASE r.http = "reading"
      BY <2>1, <2>2, <2>3, <3>1, <3>3 DEF ReaderOK
    <3>4. r.http \in {"reading", "done"}
      BY <1>9, <2>2 DEF Connection
    <3> QED
      BY <3>2, <3>3, <3>4
  <2>4. StillReading(r)
    BY <1>9, <2>1, <2>2, <2>3 DEF StillReading
  <2> QED
    BY <1>6, <1>9, <2>1, <2>4, Waits
<1> QED
  BY <1>3, <1>7, <1>8, <1>9

-----------------------------------------------------------------------------
(***************************************************************************)
(* Steps.                                                                  *)
(***************************************************************************)

\* A session that has not been closed is ready for input when it reads, and
\* when its reader starts again.
LEMMA ReaderStarts ==
    ASSUME MsgInv, conn.io # "closed", NEW c \in Connection, c.io = "reading",
           c.data = conn.data, c.mark = conn.mark, c.nonce = conn.nonce,
           c.secured = conn.secured, c.torn = conn.torn,
           c.reader = 0, c.http = "reading", SealedFor(Len(served))
    PROVE  Ready(c, arrived)
<1>1. BufferOK(conn, arrived) /\ MsgTypeOK /\ RequestsWhole
  BY DEF MsgInv, InMessages
<1>2. BufferOK(c, arrived)
  BY <1>1 DEF BufferOK, OpenInOrder, ClearOK, SecuredOK, FollowsOpened
<1>3. c.mark \in Nat /\ c.mark <= Len(c.data) /\ Len(c.data) <= InCapacity
  BY <1>1 DEF MsgTypeOK, Connection
<1>4. ReaderOK(c)
  <2>1. 0 <= c.mark /\ c.reader <= c.mark
    BY <1>3
  <2>2. Len(served) < Requests => Begin[NextRequest] + c.reader < Body[NextRequest]
    BY <1>1, ServedTyped
  <2> QED
    BY <2>1, <2>2 DEF ReaderOK
<1> QED
  BY <1>2, <1>3, <1>4 DEF Ready

\* What was sealed for the last request was sealed for the next one.
LEMMA SealedForNext ==
    ASSUME MsgTypeOK, NEW n \in Nat, SealedFor(n)
    PROVE  SealedFor(n + 1)
<1> SUFFICES ASSUME sealed # <<>>
             PROVE  /\ n + 1 >= Verify
                    /\ FrameEnd(Len(sealed)).plain <=
                        (IF pipelines \/ (n + 1) + 1 >= Requests THEN Begin[Requests + 1]
                         ELSE Begin[(n + 1) + 2])
  BY DEF SealedFor
<1> DEFINE p == FrameEnd(Len(sealed)).plain
<1>1. /\ n >= Verify /\ Verify \in 1 .. Requests /\ Requests \in Nat
      /\ p <= (IF pipelines \/ n + 1 >= Requests THEN Begin[Requests + 1] ELSE Begin[n + 2])
  BY IPMessagesAssumption DEF SealedFor
<1>2. p \in Nat
  <2>1. Len(sealed) \in 0 .. Len(sealed)
    BY DEF MsgTypeOK
  <2> QED
    BY <2>1, FrameEndTyped
<1> HIDE DEF p
<1>3. p <= (IF pipelines \/ (n + 1) + 1 >= Requests THEN Begin[Requests + 1]
            ELSE Begin[(n + 1) + 2])
  <2>1. CASE pipelines \/ n + 1 >= Requests
    BY <1>1, <2>1
  <2>2. CASE ~pipelines /\ n + 1 < Requests
    <3>1. /\ p <= Begin[n + 2] /\ n + 2 \in 1 .. Requests + 1 /\ (n + 1) + 2 = n + 3
          /\ n + 3 \in 1 .. Requests + 1 /\ Requests + 1 \in 1 .. Requests + 1
      BY <1>1, <2>2
    <3>2. Begin[n + 2] < Begin[n + 3]
      BY <3>1, BeginInOrder
    <3>3. n + 2 < Requests + 1 /\ Begin[n + 2] < Begin[Requests + 1]
      BY <1>1, <2>2, <3>1, BeginInOrder
    <3>4. /\ Begin[n + 2] \in Nat /\ Begin[n + 3] \in Nat /\ Begin[Requests + 1] \in Nat
      BY <3>1, BeginTyped
    <3> QED
      BY <1>2, <3>1, <3>2, <3>3, <3>4
  <2> QED
    BY <1>1, <2>1, <2>2
<1> QED
  BY <1>1, <1>3 DEF p

LEMMA InitMsgInv == MsgInit => MsgInv
<1> SUFFICES ASSUME MsgInit PROVE MsgInv
  OBVIOUS
<1>1. /\ conn = NewConnection /\ arrived = 0 /\ sealed = <<>> /\ served = <<>>
      /\ pipelines \in BOOLEAN /\ InCapacity \in Nat \ {0} /\ OutCapacity \in Nat \ {0}
      /\ Begin[1] = 0 /\ Requests \in Nat \ {0} /\ Verify \in 1 .. Requests
  BY IPMessagesAssumption DEF MsgInit
<1>2. /\ conn \in Connection /\ conn.io = "reading" /\ conn.data = <<>> /\ conn.mark = 0
      /\ conn.reader = 0 /\ conn.http = "reading" /\ conn.nonce = 0
      /\ ~conn.torn /\ ~conn.secured /\ Len(conn.data) = 0
  <2>1. <<>> \in Seq(Cell) /\ 0 \in 0 .. OutCapacity
    BY <1>1
  <2> QED
    BY <1>1, <2>1 DEF Connection, NewConnection
<1>3. Len(served) = 0 /\ Len(sealed) = 0 /\ NextRequest = 1 /\ Len(served) < Verify
  BY <1>1 DEF NextRequest
<1>4. MsgTypeOK
  BY <1>1, <1>2 DEF MsgTypeOK
<1>5. RequestsWhole
  BY <1>1, <1>3 DEF RequestsWhole
<1>6. FramesInOrder
  BY <1>3 DEF FramesInOrder
<1>7. Begin[1] \in Nat /\ Begin[2] \in Nat /\ Body[1] \in Nat /\ Clear \in Nat
      /\ Begin[1] < Body[1] /\ Body[1] <= Begin[1 + 1]
  BY <1>1, BeginTyped
<1>8. BufferOK(conn, arrived)
  BY <1>1, <1>2, <1>3, <1>7 DEF BufferOK, OpenInOrder, ClearOK, SecuredOK
<1>9. AllOpened(conn, arrived)
  BY <1>1, <1>2, <1>3 DEF AllOpened
<1>10. StillReading(conn)
  BY <1>1, <1>2, <1>3, <1>7 DEF StillReading, ReaderOK
<1>11. SealedFor(Answered)
  BY <1>1 DEF SealedFor
<1>12. InMessages
  BY <1>2, <1>8, <1>9, <1>10, <1>11 DEF InMessages
<1> QED
  BY <1>4, <1>5, <1>6, <1>12 DEF MsgInv

LEMMA SealFrameStep ==
    ASSUME MsgInv, NEW n \in 1 .. MaxFrame, SealFrame(n)
    PROVE  MsgInv'
<1> DEFINE last == Len(sealed)
           e == FrameEnd(last)
           new == [plain |-> e.plain + n, wire |-> e.wire + n + Overhead]
<1>1. /\ MsgTypeOK /\ RequestsWhole /\ FramesInOrder /\ InMessages
  BY DEF MsgInv
<1>2. /\ conn.io # "closed" /\ Answered >= Verify /\ e.plain + n <= Willing
      /\ sealed' = Append(sealed, new)
      /\ conn' = conn /\ arrived' = arrived /\ pipelines' = pipelines /\ served' = served
  BY DEF SealFrame
<1>3. /\ MaxFrame \in Nat \ {0} /\ Overhead \in Nat /\ n \in Nat /\ n >= 1
      /\ Verify \in 1 .. Requests /\ Requests \in Nat
  BY IPMessagesAssumption DEF Overhead
<1>4. /\ last \in Nat /\ last \in 0 .. last /\ e.plain \in Nat /\ e.wire \in Nat
      /\ Len(served) \in Nat
  <2>1. last \in Nat /\ Len(served) \in Nat
    BY <1>1 DEF MsgTypeOK
  <2>2. last \in 0 .. last
    BY <2>1
  <2> QED
    BY <1>1, <2>1, <2>2, FrameEndTyped
<1> HIDE DEF e
<1>5. new \in [plain : Nat, wire : Nat]
  BY <1>3, <1>4
<1>6. /\ sealed' \in Seq([plain : Nat, wire : Nat]) /\ Len(sealed') = last + 1
      /\ \A i \in 1 .. last : sealed'[i] = sealed[i]
      /\ sealed'[last + 1] = new
  <2> DEFINE R == [plain : Nat, wire : Nat]
  <2>1. sealed \in Seq(R) /\ new \in R
    BY <1>1, <1>5 DEF MsgTypeOK
  <2> HIDE DEF R, new
  <2>2. /\ sealed' \in Seq(R) /\ Len(sealed') = last + 1
        /\ \A i \in 1 .. last : sealed'[i] = sealed[i]
        /\ sealed'[last + 1] = new
    BY <1>2, <2>1
  <2> QED
    BY <2>2 DEF R
<1>7. \A f \in 0 .. last : FrameEnd(f)' = FrameEnd(f)
  BY <1>4, <1>6 DEF FrameEnd
<1>21. PICK m : m = last + 1
  OBVIOUS
<1>8. FrameEnd(m)'.plain = e.plain + n /\ FrameEnd(m)'.wire = e.wire + n + Overhead
  <2>1. m # 0 /\ sealed'[m] = new
    BY <1>4, <1>6, <1>21
  <2>2. FrameEnd(m)' = sealed'[m]
    BY <2>1 DEF FrameEnd
  <2> QED
    BY <2>1, <2>2
<1>22. PICK x : x = conn.nonce
  OBVIOUS
<1>23. Len(sealed)' = m /\ m \in Nat /\ conn'.nonce = x
  BY <1>2, <1>4, <1>6, <1>21, <1>22
<1>9. FramesInOrder'
  <2> SUFFICES ASSUME NEW f \in 0 .. m, NEW g \in 0 .. m, f < g
               PROVE  /\ FrameEnd(f)'.plain < FrameEnd(g)'.plain
                      /\ FrameEnd(f)'.wire + (FrameEnd(g)'.plain - FrameEnd(f)'.plain) + Overhead
                            <= FrameEnd(g)'.wire
    BY <1>23 DEF FramesInOrder
  <2>1. f \in 0 .. last
    BY <1>4, <1>21
  <2>2. CASE g \in 0 .. last
    BY <1>1, <1>7, <2>1, <2>2 DEF FramesInOrder
  <2>3. CASE g = m
    <3> DEFINE fp == FrameEnd(f).plain  fw == FrameEnd(f).wire
    <3>1. fp \in Nat /\ fw \in Nat
      BY <1>1, <2>1, FrameEndTyped
    <3>2. f <= last
      BY <1>4, <2>1
    <3>3. fp <= e.plain /\ e.plain - fp <= e.wire - fw
      BY <1>1, <1>4, <2>1, <3>2, FramesGrow DEF e
    <3>4. FrameEnd(f)'.plain = fp /\ FrameEnd(f)'.wire = fw
      BY <1>7, <2>1
    <3>5. FrameEnd(g)'.plain = e.plain + n /\ FrameEnd(g)'.wire = e.wire + n + Overhead
      BY <1>8, <2>3
    <3> DEFINE ep == e.plain  ew == e.wire
    <3>6. ep \in Nat /\ ew \in Nat /\ fp <= ep /\ ep - fp <= ew - fw
      BY <1>4, <3>3
    <3> HIDE DEF fp, fw, ep, ew
    <3>7. /\ fp < ep + n
          /\ fw + ((ep + n) - fp) + Overhead <= ew + n + Overhead
      BY <1>3, <3>1, <3>6
    <3> QED
      BY <3>4, <3>5, <3>7 DEF ep, ew
  <2> QED
    BY <1>4, <1>21, <2>2, <2>3
<1>10. MsgTypeOK'
  BY <1>1, <1>2, <1>6 DEF MsgTypeOK
<1>11. RequestsWhole'
  BY <1>1, <1>2 DEF RequestsWhole
<1>12. NextRequest' = NextRequest /\ Answered' = Answered
  BY <1>2 DEF NextRequest, Answered
<1>13. Len(served) >= Verify
  BY <1>2, <1>3, <1>4 DEF Answered
<1>14. /\ conn.nonce \in 0 .. last /\ Begin[NextRequest] + conn.mark = FrameEnd(conn.nonce).plain
       /\ arrived <= e.wire /\ arrived \in Nat
       /\ ~conn.torn => FollowsOpened(conn, arrived)
       /\ conn.torn => conn.mark < Len(conn.data) /\ conn.data[conn.mark + 1].kind = "plain"
       /\ OpenInOrder(conn) /\ (conn.torn => pipelines)
  BY <1>1, <1>2, <1>13 DEF InMessages, BufferOK, SecuredOK, MsgTypeOK, e
<1>15. SecuredOK(conn, arrived)'
  <2>1. arrived <= FrameEnd(m)'.wire
    BY <1>3, <1>4, <1>8, <1>14
  <2>2. x \in 0 .. m /\ FrameEnd(x)' = FrameEnd(conn.nonce)
    BY <1>4, <1>7, <1>14, <1>21, <1>22
  <2>3. ~conn.torn => FollowsOpened(conn, arrived)'
    BY <1>2, <1>14, <1>23, <2>2 DEF FollowsOpened
  <2> QED
    BY <1>2, <1>12, <1>14, <1>23, <2>1, <2>2, <2>3 DEF SecuredOK
<1>16. BufferOK(conn, arrived)'
  <2>1. OpenInOrder(conn)'
    BY <1>2, <1>12, <1>14 DEF OpenInOrder
  <2>2. ClearOK(conn, arrived)'
    BY <1>2, <1>3, <1>4, <1>13 DEF ClearOK
  <2> QED
    BY <1>2, <1>14, <1>15, <2>1, <2>2 DEF BufferOK
<1>17. (AllOpened(conn, arrived) \/ conn.io # "reading")'
  <2> SUFFICES ASSUME conn.io = "reading" PROVE AllOpened(conn, arrived)'
    BY <1>2
  <2>1. AllOpened(conn, arrived)
    BY <1>1, <1>2 DEF InMessages
  <2>2. ASSUME ~conn.torn, NEW f \in 0 .. m, conn.nonce < f
        PROVE  arrived < FrameEnd(f)'.wire
    <3>1. CASE f \in 0 .. last
      BY <1>7, <1>13, <2>1, <2>2, <3>1 DEF AllOpened
    <3>2. CASE f = m
      BY <1>3, <1>4, <1>8, <1>14, <3>2
    <3> QED
      BY <1>4, <1>21, <3>1, <3>2
  <2>3. ~(Len(served) < Verify)
    BY <1>3, <1>4, <1>13
  <2> QED
    BY <1>2, <1>23, <2>2, <2>3 DEF AllOpened
<1>18. SealedFor(Answered)'
  <2>1. FrameEnd(m)'.plain <= Willing
    BY <1>2, <1>8
  <2>2. Willing = (IF pipelines \/ Answered + 1 >= Requests THEN Begin[Requests + 1]
                   ELSE Begin[Answered + 2])
    BY DEF Willing
  <2> QED
    BY <1>2, <1>12, <1>23, <2>1, <2>2 DEF SealedFor
<1>19. conn.io = "reading" => StillReading(conn)'
  BY <1>1, <1>2, <1>12 DEF InMessages, StillReading, ReaderOK
<1>20. InMessages'
  BY <1>1, <1>2, <1>16, <1>17, <1>18, <1>19 DEF InMessages
<1> QED
  BY <1>9, <1>10, <1>11, <1>20 DEF MsgInv

LEMMA ReadInboundDataStep ==
    ASSUME MsgInv, NEW n \in 1 .. InCapacity, ReadInboundData(n)
    PROVE  MsgInv'
<1> DEFINE a == arrived + n
           new == [i \in 1 .. n |-> IF arrived + i <= Clear THEN Plain(arrived + i)
                                    ELSE Wire(arrived + i)]
           data == conn.data \o new
           c == [conn EXCEPT !.data = data]
<1>1. /\ MsgTypeOK /\ RequestsWhole /\ FramesInOrder /\ InMessages
  BY DEF MsgInv
<1>2. /\ conn.io = "reading" /\ Len(conn.data) + n <= InCapacity /\ a <= Offered
      /\ arrived' = a /\ HandleInput(c) /\ sealed' = sealed /\ pipelines' = pipelines
  BY DEF ReadInboundData
<1>3. /\ conn \in Connection /\ conn.data \in Seq(Cell) /\ conn.mark \in Nat
      /\ conn.reader \in Nat
      /\ Len(conn.data) \in Nat /\ conn.mark <= Len(conn.data) /\ arrived \in Nat
      /\ InCapacity \in Nat /\ n \in Nat /\ n >= 1
      /\ Len(served) \in Nat /\ Len(sealed) \in Nat
      /\ Verify \in 1 .. Requests /\ Requests \in Nat /\ Clear \in Nat
  <2>1. conn \in Connection /\ conn.mark <= Len(conn.data) /\ arrived \in Nat
    BY <1>1 DEF MsgTypeOK
  <2>2. conn.data \in Seq(Cell) /\ conn.mark \in Nat /\ conn.reader \in Nat
    BY <2>1 DEF Connection
  <2>3. Len(conn.data) \in Nat
    BY <2>2
  <2>4. Len(served) \in Nat /\ Len(sealed) \in Nat
    BY <1>1 DEF MsgTypeOK
  <2>5. Verify \in 1 .. Requests /\ Requests \in Nat /\ InCapacity \in Nat
    BY IPMessagesAssumption
  <2>6. Clear \in Nat /\ n \in Nat /\ n >= 1
    BY <2>5, BeginTyped
  <2> QED
    BY <2>1, <2>2, <2>3, <2>4, <2>5, <2>6
<1>4. a \in Nat
  BY <1>3
<1>5. new \in Seq(Cell) /\ Len(new) = n
  <2>1. \A i \in 1 .. n : (IF arrived + i <= Clear THEN Plain(arrived + i)
                           ELSE Wire(arrived + i)) \in Cell
    BY <1>3 DEF Plain, Wire, Cell
  <2>2. new \in [1 .. n -> Cell]
    BY <2>1
  <2> HIDE DEF new
  <2>3. n \in Nat
    BY <1>3
  <2> QED
    BY <2>2, <2>3
<1>6. \A i \in 1 .. n : new[i] = IF arrived + i <= Clear THEN Plain(arrived + i)
                                 ELSE Wire(arrived + i)
  OBVIOUS
<1> HIDE DEF new
<1>7. /\ data \in Seq(Cell) /\ Len(data) = Len(conn.data) + n
      /\ \A i \in 1 .. Len(conn.data) : data[i] = conn.data[i]
      /\ \A i \in Len(conn.data) + 1 .. Len(conn.data) + n : data[i] = new[i - Len(conn.data)]
  <2>1. conn.data \in Seq(Cell) /\ new \in Seq(Cell)
    BY <1>3, <1>5
  <2>2. data \in Seq(Cell) /\ Len(data) = Len(conn.data) + Len(new)
    BY <2>1
  <2>3. \A i \in 1 .. Len(conn.data) : data[i] = conn.data[i]
    BY <2>1
  <2>4. \A i \in Len(conn.data) + 1 .. Len(conn.data) + Len(new) :
            data[i] = new[i - Len(conn.data)]
    BY <2>1
  <2> HIDE DEF data
  <2> QED
    BY <1>5, <2>2, <2>3, <2>4
<1> HIDE DEF data
<1>8. /\ c \in Connection /\ c.io = "reading" /\ c.data = data /\ c.mark = conn.mark
      /\ c.reader = conn.reader /\ c.http = conn.http /\ c.nonce = conn.nonce
      /\ c.torn = conn.torn /\ c.secured = conn.secured
  BY <1>2, <1>3, <1>7 DEF Connection
<1>9. /\ BufferOK(conn, arrived) /\ SealedFor(Len(served)) /\ StillReading(conn)
      /\ Answered = Len(served)
  BY <1>1, <1>2, <1>3 DEF InMessages, Answered
<1> DEFINE L == Len(conn.data)
<1>20. Begin[NextRequest] \in Nat
  BY <1>1, ServedTyped
<1> HIDE DEF c, a
<1>10. OpenInOrder(c)
  <2> SUFFICES ASSUME NEW i \in 1 .. c.mark PROVE c.data[i] = Plain(Begin[NextRequest] + i)
    BY DEF OpenInOrder
  <2>1. i \in 1 .. conn.mark /\ i \in 1 .. L
    BY <1>3, <1>8
  <2> QED
    BY <1>7, <1>8, <1>9, <2>1 DEF BufferOK, OpenInOrder
<1>11. ASSUME Len(served) < Verify PROVE ClearOK(c, a)
  <2>1. /\ conn.nonce = 0 /\ ~conn.torn /\ ~conn.secured /\ sealed = <<>>
        /\ arrived = Begin[NextRequest] + L
        /\ \A i \in 1 .. L : conn.data[i] = Plain(Begin[NextRequest] + i)
    BY <1>9, <1>11 DEF BufferOK, ClearOK
  <2>2. Offered = Willing \/ Offered = Clear
    BY <1>3, <1>9, <1>11 DEF Offered
  <2>3. a <= Clear
    <3>1. Offered = (IF Willing < Clear THEN Willing ELSE Clear)
      BY <1>3, <1>9, <1>11 DEF Offered
    <3>2. Willing \in Nat
      <4>1. Answered + 1 < Requests => Answered + 2 \in 1 .. Requests + 1
        BY <1>3, <1>9
      <4>2. Requests + 1 \in 1 .. Requests + 1
        BY <1>3
      <4> QED
        BY <1>3, <1>9, <4>1, <4>2, BeginTyped DEF Willing
    <3> QED
      BY <1>2, <1>3, <1>4, <3>1, <3>2
  <2>4. a = Begin[NextRequest] + Len(data)
    BY <1>3, <1>7, <1>20, <2>1 DEF a
  <2>5. ASSUME NEW i \in 1 .. Len(data) PROVE data[i] = Plain(Begin[NextRequest] + i)
    <3>1. CASE i \in 1 .. L
      BY <1>7, <2>1, <3>1
    <3>2. CASE i \in L + 1 .. L + n
      <4>1. i - L \in 1 .. n /\ arrived + (i - L) <= Clear
            /\ arrived + (i - L) = Begin[NextRequest] + i
        <5> DEFINE w == arrived  b == Begin[NextRequest]
        <5>1. /\ w \in Nat /\ b \in Nat /\ L \in Nat /\ n \in Nat /\ w = b + L
              /\ w + n <= Clear /\ Clear \in Nat /\ i \in L + 1 .. L + n
          BY <1>3, <1>20, <2>1, <2>3, <3>2 DEF a
        <5> HIDE DEF w, b, L
        <5>2. i - L \in 1 .. n /\ w + (i - L) <= Clear /\ w + (i - L) = b + i
          BY <5>1
        <5> QED
          BY <5>2 DEF w, b
      <4>2. data[i] = new[i - L] /\ new[i - L] = Plain(arrived + (i - L))
        BY <1>6, <1>7, <3>2, <4>1
      <4> QED
        BY <4>1, <4>2
    <3> QED
      BY <1>3, <1>7, <3>1, <3>2
  <2> QED
    BY <1>8, <2>1, <2>3, <2>4, <2>5 DEF ClearOK
<1>12. ASSUME Len(served) >= Verify PROVE SecuredOK(c, a)
  <2>1. /\ conn.nonce \in 0 .. Len(sealed)
        /\ Begin[NextRequest] + conn.mark = FrameEnd(conn.nonce).plain
        /\ ~conn.torn => FollowsOpened(conn, arrived)
        /\ conn.torn => conn.mark < L /\ conn.data[conn.mark + 1].kind = "plain"
    BY <1>9, <1>12 DEF BufferOK, SecuredOK
  <2>2. a <= FrameEnd(Len(sealed)).wire
    BY <1>2, <1>9, <1>12 DEF Offered
  <2>3. ASSUME conn.torn
        PROVE  c.mark < Len(c.data) /\ c.data[c.mark + 1].kind = "plain"
    <3>1. conn.mark + 1 \in 1 .. L /\ conn.mark < Len(data)
      BY <1>3, <1>7, <2>1, <2>3
    <3> QED
      BY <1>7, <1>8, <2>1, <2>3, <3>1
  <2>4. ASSUME ~conn.torn PROVE FollowsOpened(c, a)
    <3> DEFINE start == FrameEnd(conn.nonce).wire
    <3>1. start \in Nat /\ Clear <= start
      <4>1. 0 \in 0 .. Len(sealed) /\ 0 <= conn.nonce
        BY <1>3, <2>1
      <4>2. FrameEnd(0).wire <= start /\ start \in Nat
        BY <1>1, <2>1, <4>1, FramesGrow, FrameEndTyped
      <4> QED
        BY <4>2 DEF FrameEnd
    <3>2. /\ arrived = start + (L - conn.mark)
          /\ \A j \in 1 .. L - conn.mark : conn.data[conn.mark + j] = Wire(start + j)
      BY <2>1, <2>4 DEF FollowsOpened
    <3> HIDE DEF start
    <3>3. a = start + (Len(data) - conn.mark)
      <4> DEFINE m == conn.mark  w == arrived
      <4>1. /\ m \in Nat /\ L \in Nat /\ w \in Nat /\ n \in Nat /\ start \in Nat
            /\ w = start + (L - m) /\ Len(data) = L + n
        BY <1>3, <1>7, <3>1, <3>2
      <4> HIDE DEF m, w, L
      <4>2. w + n = start + ((L + n) - m)
        BY <4>1
      <4> QED
        BY <4>1, <4>2 DEF a, m, w
    <3>4. ASSUME NEW j \in 1 .. Len(data) - conn.mark
          PROVE  data[conn.mark + j] = Wire(start + j)
      <4>1. CASE j \in 1 .. L - conn.mark
        <5>1. conn.mark + j \in 1 .. L
          BY <1>3, <4>1
        <5> QED
          BY <1>7, <3>2, <4>1, <5>1
      <4>2. CASE j \in L - conn.mark + 1 .. (L + n) - conn.mark
        <5> DEFINE m == conn.mark
                   w == arrived
                   i == (m + j) - L
        <5>1. /\ m \in Nat /\ L \in Nat /\ w \in Nat /\ n \in Nat /\ start \in Nat
              /\ m <= L /\ Clear \in Nat /\ Clear <= start /\ w = start + (L - m)
              /\ j \in L - m + 1 .. (L + n) - m
          BY <1>3, <3>1, <3>2, <4>2
        <5> HIDE DEF m, L, w
        <5>2. /\ i \in 1 .. n /\ m + j \in L + 1 .. L + n
              /\ w + i = start + j /\ ~(w + i <= Clear)
          BY <5>1
        <5>3. i = (m + j) - L
          OBVIOUS
        <5> HIDE DEF i
        <5>4. data[m + j] = new[i]
          BY <1>7, <5>2, <5>3 DEF L
        <5>5. new[i] = Wire(w + i)
          BY <1>6, <5>2 DEF w
        <5>6. data[m + j] = Wire(start + j)
          BY <5>2, <5>4, <5>5
        <5> QED
          BY <5>6 DEF m
      <4> QED
        BY <1>3, <1>7, <4>1, <4>2
    <3> QED
      BY <1>8, <3>3, <3>4 DEF FollowsOpened, start
  <2> QED
    BY <1>8, <2>1, <2>2, <2>3, <2>4 DEF SecuredOK
<1>13. BufferOK(c, a)
  <2>1. Len(served) < Verify \/ Len(served) >= Verify
    BY <1>3
  <2>2. ClearOK(c, a)
    BY <1>3, <1>11 DEF ClearOK
  <2>3. SecuredOK(c, a)
    BY <1>3, <1>12 DEF SecuredOK
  <2>4. c.torn => pipelines
    BY <1>8, <1>9 DEF BufferOK
  <2> QED
    BY <1>10, <2>2, <2>3, <2>4 DEF BufferOK
<1>14. ReaderOK(c)
  BY <1>8, <1>9 DEF StillReading, ReaderOK
<1>15. c.mark <= Len(c.data) /\ Len(c.data) <= InCapacity
  BY <1>2, <1>3, <1>7, <1>8
<1>16. Ready(c, a)
  BY <1>8, <1>9, <1>13, <1>14, <1>15 DEF Ready
<1> QED
  BY <1>1, <1>2, <1>4, <1>16, HandledInput

LEMMA WriteOutboundDataStep ==
    ASSUME MsgInv, NEW n \in 1 .. OutCapacity, WriteOutboundData(n)
    PROVE  MsgInv'
<1>1. /\ MsgTypeOK /\ RequestsWhole /\ FramesInOrder /\ InMessages
  BY DEF MsgInv
<1>2. /\ conn.io \in {"responding", "notifying"} /\ n <= conn.unsent
      /\ arrived' = arrived /\ sealed' = sealed /\ pipelines' = pipelines
  BY DEF WriteOutboundData
<1>3. /\ conn \in Connection /\ conn.io # "closed" /\ conn.io # "reading"
      /\ conn.unsent \in 0 .. OutCapacity /\ arrived \in Nat /\ Len(served) \in Nat
      /\ conn.mark \in Nat /\ conn.mark <= Len(conn.data) /\ Len(conn.data) <= InCapacity
      /\ InCapacity \in Nat \ {0} /\ OutCapacity \in Nat /\ n \in Nat
  <2>1. conn.io # "closed" /\ conn.io # "reading"
    BY <1>2
  <2>2. /\ conn \in Connection /\ arrived \in Nat /\ Len(served) \in Nat
        /\ conn.mark <= Len(conn.data) /\ Len(conn.data) <= InCapacity
    BY <1>1 DEF MsgTypeOK
  <2>3. conn.unsent \in 0 .. OutCapacity /\ conn.mark \in Nat
    BY <2>2 DEF Connection
  <2>4. InCapacity \in Nat \ {0} /\ OutCapacity \in Nat
    BY IPMessagesAssumption
  <2>5. n \in Nat
    BY <2>4
  <2> QED
    BY <2>1, <2>2, <2>3, <2>4, <2>5
<1>4. CASE n # conn.unsent
  <2>1. conn' = [conn EXCEPT !.unsent = conn.unsent - n] /\ served' = served
    BY <1>4 DEF WriteOutboundData
  <2>2. conn.unsent - n \in 0 .. OutCapacity
    BY <1>2, <1>3
  <2>3. /\ conn' \in Connection /\ conn'.io = conn.io /\ conn'.data = conn.data
        /\ conn'.mark = conn.mark /\ conn'.nonce = conn.nonce
        /\ conn'.torn = conn.torn /\ conn'.secured = conn.secured
    BY <1>3, <2>1, <2>2 DEF Connection
  <2>4. MsgTypeOK'
    BY <1>1, <1>2, <1>3, <2>1, <2>3 DEF MsgTypeOK
  <2>5. RequestsWhole' /\ FramesInOrder'
    BY <1>1, <1>2, <2>1, SameFrames DEF RequestsWhole
  <2>6. /\ \A f : FrameEnd(f)' = FrameEnd(f)
        /\ NextRequest' = NextRequest /\ Answered' = Answered
    BY <1>2, <2>1, <2>3, SameFrames DEF NextRequest, Answered
  <2>7. BufferOK(conn, arrived)'
    <3>1. BufferOK(conn, arrived)
      BY <1>1, <1>3 DEF InMessages
    <3>2. OpenInOrder(conn)' /\ ClearOK(conn, arrived)'
      BY <1>2, <2>1, <2>3, <2>6, <3>1 DEF BufferOK, OpenInOrder, ClearOK
    <3>3. SecuredOK(conn, arrived)'
      BY <1>2, <2>1, <2>3, <2>6, <3>1 DEF BufferOK, SecuredOK, FollowsOpened
    <3> QED
      BY <1>2, <2>3, <3>1, <3>2, <3>3 DEF BufferOK
  <2>8. SealedFor(Answered)'
    BY <1>1, <1>2, <1>3, <2>6 DEF InMessages, SealedFor
  <2>9. InMessages'
    BY <1>1, <1>3, <2>1, <2>3, <2>7, <2>8 DEF InMessages
  <2> QED
    BY <2>4, <2>5, <2>9 DEF MsgInv
<1>5. CASE n = conn.unsent
  <2> DEFINE c == [conn EXCEPT !.io = "reading", !.unsent = 0]
             p == PrepareReadingRequest(c)
  <2>1. HandleOutputCompletion(c)
    BY <1>5 DEF WriteOutboundData
  <2>2. c.data = conn.data
    BY <1>3 DEF Connection
  <2>3. /\ p \in Connection /\ p.io = "reading" /\ p.data = conn.data
        /\ p.mark = conn.mark /\ p.nonce = conn.nonce /\ p.secured = conn.secured
        /\ p.torn = conn.torn /\ p.reader = 0 /\ p.http = "reading"
    <3>1. 0 \in 0 .. OutCapacity
      BY <1>3
    <3> QED
      BY <1>3, <3>1 DEF Connection, PrepareReadingRequest
  <2>4. \/ conn.data = <<>> /\ conn' = p /\ served' = served
        \/ HandleInput(p)
    BY <2>1, <2>2 DEF HandleOutputCompletion
  <2> HIDE DEF c, p
  <2>5. SealedFor(Len(served))
    <3>1. CASE conn.io = "responding"
      <4>1. SealedFor(Answered) /\ Len(served) > 0 /\ Answered = Len(served) - 1
        BY <1>1, <1>3, <3>1 DEF InMessages, Answered
      <4>2. Answered \in Nat /\ Answered + 1 = Len(served)
        BY <1>3, <4>1
      <4> QED
        BY <1>1, <4>1, <4>2, SealedForNext
    <3>2. CASE conn.io = "notifying"
      BY <1>1, <1>3, <3>2 DEF InMessages, Answered
    <3> QED
      BY <1>2, <3>1, <3>2
  <2>6. Ready(p, arrived)
    BY <1>3, <2>3, <2>5, ReaderStarts
  <2>7. CASE conn.data = <<>> /\ conn' = p /\ served' = served
    <3>1. p.mark = 0 /\ Len(p.data) = 0
      BY <1>3, <2>3, <2>7
    <3>2. StillReading(p)
      <4>1. Len(served) < Requests => Begin[NextRequest] + p.mark < Begin[NextRequest + 1]
        BY <1>1, <3>1, ServedTyped
      <4> QED
        BY <1>3, <2>3, <2>6, <3>1, <4>1 DEF StillReading, Ready
    <3>3. AllOpened(p, arrived)
      <4> SUFFICES ASSUME Len(served) >= Verify, ~p.torn,
                          NEW f \in 0 .. Len(sealed), p.nonce < f
                   PROVE  arrived < FrameEnd(f).wire
        BY <3>1 DEF AllOpened
      <4>1. p.nonce \in 0 .. Len(sealed) /\ FollowsOpened(p, arrived)
        BY <2>6 DEF Ready, BufferOK, SecuredOK
      <4>2. FrameEnd(p.nonce).wire \in Nat /\ FrameEnd(f).wire \in Nat
        BY <1>1, <4>1, FrameEndTyped
      <4>3. arrived = FrameEnd(p.nonce).wire
        BY <3>1, <4>1, <4>2 DEF FollowsOpened
      <4>4. p.nonce <= f /\ p.nonce # f
        BY <4>1
      <4>5. FrameEnd(p.nonce).wire < FrameEnd(f).wire
        BY <1>1, <4>1, <4>4, FramesGrow
      <4> QED
        BY <4>3, <4>5
    <3> QED
      BY <1>1, <1>2, <1>3, <2>6, <2>7, <3>2, <3>3, Waits
  <2>8. CASE HandleInput(p)
    BY <1>1, <1>2, <1>3, <2>6, <2>8, HandledInput
  <2> QED
    BY <2>4, <2>7, <2>8
<1> QED
  BY <1>4, <1>5

LEMMA WriteEventNotificationsStep ==
    ASSUME MsgInv, WriteEventNotifications
    PROVE  MsgInv'
<1>1. /\ MsgTypeOK /\ RequestsWhole /\ FramesInOrder /\ InMessages
  BY DEF MsgInv
<1>2. /\ conn.io = "reading" /\ conn.data = <<>> /\ conn.secured
      /\ NumEncryptedBytes(EventBytes) <= OutCapacity
      /\ conn' = [conn EXCEPT !.io = "notifying", !.unsent = Encrypted[EventBytes]]
      /\ arrived' = arrived /\ sealed' = sealed /\ pipelines' = pipelines
      /\ served' = served
  BY DEF WriteEventNotifications
<1>3. /\ conn \in Connection /\ Len(served) \in Nat /\ Verify \in Nat
      /\ EventBytes \in Nat /\ OutCapacity \in Nat
  BY <1>1, IPMessagesAssumption DEF MsgTypeOK
<1>4. Encrypted[EventBytes] \in 0 .. OutCapacity
  BY <1>2, <1>3, NumEncryptedBytesStep, EncryptedAsCounted
<1>5. /\ conn' \in Connection /\ conn'.io = "notifying" /\ conn'.data = conn.data
      /\ conn'.mark = conn.mark /\ conn'.nonce = conn.nonce
      /\ conn'.torn = conn.torn /\ conn'.secured = conn.secured
  BY <1>2, <1>3, <1>4 DEF Connection
<1>6. MsgTypeOK'
  BY <1>1, <1>2, <1>5 DEF MsgTypeOK
<1>7. RequestsWhole' /\ FramesInOrder'
  BY <1>1, <1>2, SameFrames DEF RequestsWhole
<1>8. /\ \A f : FrameEnd(f)' = FrameEnd(f)
      /\ NextRequest' = NextRequest /\ Answered' = Answered
  BY <1>2, <1>5, SameFrames DEF NextRequest, Answered
<1>9. BufferOK(conn, arrived)
  BY <1>1, <1>2 DEF InMessages
<1>10. BufferOK(conn, arrived)'
  <2>1. OpenInOrder(conn)' /\ ClearOK(conn, arrived)'
    BY <1>2, <1>5, <1>8, <1>9 DEF BufferOK, OpenInOrder, ClearOK
  <2>2. SecuredOK(conn, arrived)'
    BY <1>2, <1>5, <1>8, <1>9 DEF BufferOK, SecuredOK, FollowsOpened
  <2> QED
    BY <1>2, <1>5, <1>9, <2>1, <2>2 DEF BufferOK
<1>11. SealedFor(Answered)'
  BY <1>1, <1>2, <1>8 DEF InMessages, SealedFor
<1>12. Len(served) >= Verify
  BY <1>2, <1>3, <1>9 DEF BufferOK, ClearOK
<1>13. InMessages'
  BY <1>2, <1>5, <1>10, <1>11, <1>12 DEF InMessages
<1> QED
  BY <1>6, <1>7, <1>13 DEF MsgInv

LEMMA InputClosedStep ==
    ASSUME MsgInv, InputClosed
    PROVE  MsgInv'
<1>1. /\ MsgTypeOK /\ RequestsWhole /\ FramesInOrder /\ CloseConnection
      /\ sealed' = sealed /\ pipelines' = pipelines /\ arrived' = arrived
  BY DEF MsgInv, InputClosed
<1>2. arrived' \in Nat
  BY <1>1 DEF MsgTypeOK
<1> QED
  BY <1>1, <1>2, Closed

LEMMA MsgStutter ==
    ASSUME MsgInv, UNCHANGED msgVars
    PROVE  MsgInv'
<1>1. /\ conn' = conn /\ arrived' = arrived /\ sealed' = sealed
      /\ pipelines' = pipelines /\ served' = served
  BY DEF msgVars
<1>2. /\ \A f : FrameEnd(f)' = FrameEnd(f)
      /\ NextRequest' = NextRequest /\ Answered' = Answered
  BY <1>1, SameFrames DEF NextRequest, Answered
<1>3. MsgTypeOK' /\ RequestsWhole' /\ FramesInOrder'
  BY <1>1, SameFrames DEF MsgInv, MsgTypeOK, RequestsWhole
<1>4. conn.io # "closed" => BufferOK(conn, arrived)'
  BY <1>1, <1>2 DEF MsgInv, InMessages, BufferOK, OpenInOrder, ClearOK, SecuredOK,
                    FollowsOpened
<1>5. InMessages'
  BY <1>1, <1>2, <1>4 DEF MsgInv, InMessages, AllOpened, SealedFor, StillReading, ReaderOK
<1> QED
  BY <1>3, <1>5 DEF MsgInv

LEMMA NextMsgInv == MsgInv /\ [MsgNext]_msgVars => MsgInv'
<1> SUFFICES ASSUME MsgInv, [MsgNext]_msgVars PROVE MsgInv'
  OBVIOUS
<1>1. ASSUME NEW n \in 1 .. MaxFrame, SealFrame(n) PROVE MsgInv'
  BY <1>1, SealFrameStep
<1>2. ASSUME NEW n \in 1 .. InCapacity, ReadInboundData(n) PROVE MsgInv'
  BY <1>2, ReadInboundDataStep
<1>3. ASSUME NEW n \in 1 .. OutCapacity, WriteOutboundData(n) PROVE MsgInv'
  BY <1>3, WriteOutboundDataStep
<1>4. CASE WriteEventNotifications
  BY <1>4, WriteEventNotificationsStep
<1>5. CASE InputClosed
  BY <1>5, InputClosedStep
<1>6. CASE UNCHANGED msgVars
  BY <1>6, MsgStutter
<1> QED
  BY <1>1, <1>2, <1>3, <1>4, <1>5, <1>6 DEF MsgNext

-----------------------------------------------------------------------------
(***************************************************************************)
(* Theorems.                                                               *)
(***************************************************************************)

\* Every session keeps the invariant, whatever is sent and however it is cut.
THEOREM SessionInvariance == MsgSpec => []MsgInv
<1>1. MsgInit => MsgInv
  BY InitMsgInv
<1>2. MsgInv /\ [MsgNext]_msgVars => MsgInv'
  BY NextMsgInv
<1> QED
  BY <1>1, <1>2, PTL DEF MsgSpec

\* The cursors of the buffers stay in order and within their capacity, and
\* what is sealed for output fits (HAPIPByteBuffer, GetNumEncryptedBytes).
THEOREM MessagesTyped == MsgSpec => []MsgTypeOK
<1>1. MsgInv => MsgTypeOK
  BY DEF MsgInv
<1> QED
  BY <1>1, SessionInvariance, PTL

LEMMA WaitingHasHandled ==
    ASSUME MsgInv
    PROVE  NothingWaits
<1> SUFFICES ASSUME conn.io = "reading", ~conn.torn
             PROVE  /\ Len(conn.data) < InCapacity
                    /\ Len(served) < Requests => ~HasArrived(Len(served) + 1)
  BY DEF NothingWaits
<1>1. /\ MsgTypeOK /\ RequestsWhole /\ FramesInOrder
      /\ BufferOK(conn, arrived) /\ AllOpened(conn, arrived) /\ StillReading(conn)
  BY DEF MsgInv, InMessages
<1>2. Len(conn.data) < InCapacity
  BY <1>1 DEF StillReading
<1>3. ASSUME Len(served) < Requests, HasArrived(Len(served) + 1) PROVE FALSE
  <2>1. /\ Begin[NextRequest] \in Nat /\ Begin[NextRequest + 1] \in Nat
        /\ Begin[NextRequest] + conn.mark < Begin[NextRequest + 1]
        /\ conn.mark \in Nat /\ arrived \in Nat
    BY <1>1, <1>3, ServedTyped DEF StillReading, MsgTypeOK, Connection
  <2>2. /\ Len(served) \in Nat /\ Verify \in Nat /\ NextRequest = Len(served) + 1
        /\ Len(sealed) \in Nat
    <3>1. Len(served) \in Nat /\ Len(sealed) \in Nat
      BY <1>1 DEF MsgTypeOK
    <3>2. Verify \in Nat
      BY IPMessagesAssumption
    <3> QED
      BY <3>1, <3>2 DEF NextRequest
  <2>3. CASE Len(served) < Verify
    <3>1. Begin[NextRequest + 1] <= arrived
      BY <1>3, <2>2, <2>3 DEF HasArrived
    <3>2. arrived = Begin[NextRequest] + conn.mark
      BY <1>1, <2>3 DEF BufferOK, ClearOK, AllOpened
    <3> QED
      BY <2>1, <3>1, <3>2
  <2>4. CASE Len(served) >= Verify
    <3>1. PICK f \in 1 .. Len(sealed) :
                Begin[NextRequest + 1] <= sealed[f].plain /\ sealed[f].wire <= arrived
      BY <1>3, <2>2, <2>4 DEF HasArrived
    <3>2. /\ f \in 0 .. Len(sealed) /\ FrameEnd(f) = sealed[f]
          /\ conn.nonce \in 0 .. Len(sealed)
          /\ Begin[NextRequest] + conn.mark = FrameEnd(conn.nonce).plain
      BY <1>1, <2>2, <2>4 DEF FrameEnd, BufferOK, SecuredOK
    <3>3. FrameEnd(f).plain \in Nat /\ FrameEnd(f).wire \in Nat
      BY <1>1, <3>2, FrameEndTyped
    <3>4. ~(conn.nonce < f)
      BY <1>1, <2>1, <2>4, <3>1, <3>2, <3>3 DEF AllOpened
    <3>5. FrameEnd(f).plain <= FrameEnd(conn.nonce).plain
      BY <1>1, <2>2, <3>2, <3>4, FramesGrow
    <3> QED
      BY <2>1, <3>1, <3>2, <3>3, <3>5
  <2> QED
    BY <2>2, <2>3, <2>4
<1> QED
  BY <1>2, <1>3

LEMMA WaitingLosesNothing ==
    ASSUME MsgInv
    PROVE  WaitingIsServed
<1> SUFFICES ASSUME ~pipelines, conn.io # "closed", Len(served) >= Verify
             PROVE  FollowsOpened(conn, arrived)
  BY DEF WaitingIsServed, BytesKept, FollowsOpened
<1>1. BufferOK(conn, arrived)
  BY DEF MsgInv, InMessages
<1> QED
  BY <1>1 DEF BufferOK, SecuredOK

\* handle_input hands over the requests that were sent, whole and in order;
\* when it waits for more, no whole request is left in the buffer; and no
\* byte is lost of a controller that waits for each response.
THEOREM RequestsAreServed == MsgSpec => []RequestsServed
<1>1. MsgInv => RequestsServed
  BY WaitingHasHandled, WaitingLosesNothing DEF MsgInv, RequestsServed
<1> QED
  BY <1>1, SessionInvariance, PTL
=============================================================================
