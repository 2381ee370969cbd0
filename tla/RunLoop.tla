------------------------------- MODULE RunLoop -------------------------------
(***************************************************************************)
(* The run loop of the POSIX platform (PAL/POSIX/HAPPlatformRunLoop.c):    *)
(* file handles polled with select, timers ordered by deadline, and a      *)
(* self-pipe through which other threads and signal handlers schedule      *)
(* callbacks.  The loop is one thread; "call" is the client callback that  *)
(* it is running, in which the client registers, updates and deregisters   *)
(* handles and timers and stops the loop.  Between two callbacks time may  *)
(* pass and other threads may write to the pipe.                           *)
(*                                                                         *)
(* A cell of the pipe is <<message, position>>: position 0 is the function *)
(* pointer, 1 the byte with the size of the context, and 2, 3, ... are the *)
(* bytes of the context.  A handle has no error interest: no client of the *)
(* repository asks for one, and it is treated like the two others.         *)
(***************************************************************************)
EXTENDS Integers, SequencesExt

CONSTANTS
    Handles,        \* addresses of file handle objects (calloc'ed, freed and reused)
    Fds,            \* file descriptors, a set of numbers: the kernel gives the lowest free one
    Delays,         \* a timer is registered for now + d, or for 0: as soon as possible
    MaxTimers,      \* bound on timers registered in a behaviour
    MaxTime,        \* bound on the clock
    MaxContext,     \* the largest context (UINT8_MAX)
    Sizes,          \* the sizes of the contexts scheduled
    MaxMessages,    \* bound on callbacks scheduled in a behaviour
    PipeSize,       \* capacity of the pipe
    CharSigned,     \* whether char is signed on the platform
    End             \* the sentinel of the list of file handles

ASSUME RunLoopAssumption ==
    /\ MaxContext \in Nat /\ Sizes \subseteq 0..MaxContext
    /\ Handles # {} /\ End \notin Handles
    /\ Fds \subseteq Nat /\ Fds # {}
    /\ Delays \subseteq Nat

VARIABLES
    state,          \* runLoop.state, or "Released"
    pc,             \* where the thread is: "out", "poll", "select", "timers", "handles", "messages"
    list,           \* runLoop.fileHandles, without the sentinel
    fh,             \* the file handle objects
    cursor,         \* runLoop.fileHandleCursor
    selected,       \* the events select reported: pairs of a descriptor and an event
    timers,         \* runLoop.timers
    loopNow,        \* the time ProcessExpiredTimers read
    pipe,           \* what is in the self-pipe
    buf,            \* runLoop.selfPipeBytes
    call,           \* the client callback that is running
    now,            \* HAPPlatformClockGetCurrent
    sent,           \* the sizes of the callbacks scheduled so far, in order
    ran,            \* how many of them were called
    registered      \* how many timers were registered so far

loopVars == <<state, pc, list, fh, cursor, selected, timers, loopNow, pipe, buf,
              call, now, sent, ran, registered>>

Events == {"read", "write"}
PipeHandle == CHOOSE h \in Handles : TRUE
PipeFd == CHOOSE d \in Fds : TRUE
Freed == [fd |-> -1, interests |-> {}, awaiting |-> FALSE, polled |-> {}]
NoCall == [kind |-> "none"]
BufSize == 1 + 1 + MaxContext

FreeHandles == Handles \ ToSet(list)
UsedFds == {fh[h].fd : h \in ToSet(list)}
LowestFree == {d \in Fds \ UsedFds : \A e \in Fds \ UsedFds : d <= e}

Following(h) == IF \E i \in 1..Len(list) - 1 : list[i] = h
                THEN list[1 + CHOOSE i \in 1..Len(list) - 1 : list[i] = h]
                ELSE End

-----------------------------------------------------------------------------
(* The operations on file handles and timers, for use in client steps.  A   *)
(* client step conjoins the new lists and objects it is given by these.     *)

NewHandle(d, interests) ==
    [fd |-> d, interests |-> interests, awaiting |-> FALSE, polled |-> {}]

FileHandleRegister(h, d, interests) ==
    /\ h \in FreeHandles
    /\ fh' = [fh EXCEPT ![h] = NewHandle(d, interests)]
    /\ list' = Append(list, h)
    /\ UNCHANGED cursor

FileHandleUpdateInterests(h, interests) ==
    /\ fh' = [fh EXCEPT ![h].interests = interests]
    /\ UNCHANGED <<list, cursor>>

\* Mutant: the iteration goes on at the freed handle.
MutCursorStays(h) == cursor

AfterDeregister(h) == IF cursor = h THEN Following(h) ELSE cursor

\* The list without the node of h, which is in it once.
Unlinked(h) == RemoveAt(list, CHOOSE i \in DOMAIN list : list[i] = h)

FileHandleDeregister(h) ==
    /\ cursor' = AfterDeregister(h)
    /\ fh' = [fh EXCEPT ![h] = Freed]
    /\ list' = Unlinked(h)

\* Mutant: before the timers with the same deadline.
MutBeforeEqual(deadline) ==
    {i \in 1..Len(timers) + 1 :
        /\ \A j \in 1..i - 1 : timers[j].deadline < deadline
        /\ i <= Len(timers) => timers[i].deadline >= deadline}

\* Where a new timer goes: before the first one that expires later.
InsertPosition(deadline) ==
    {i \in 1..Len(timers) + 1 :
        /\ \A j \in 1..i - 1 : timers[j].deadline <= deadline
        /\ i <= Len(timers) => timers[i].deadline > deadline}

TimerRegister(deadline) ==
    /\ registered < MaxTimers
    /\ registered' = registered + 1
    /\ \E i \in InsertPosition(deadline) :
          timers' = InsertAt(timers, i,
                             [id |-> registered', asked |-> deadline,
                              deadline |-> IF deadline = 0 THEN 1 ELSE deadline])

TimerDeregister(i) == timers' = RemoveAt(timers, i)

-----------------------------------------------------------------------------
(* The loop. *)

LoopInit ==
    /\ state = "Idle" /\ pc = "out"
    /\ list = <<PipeHandle>>
    /\ fh = [h \in Handles |-> IF h = PipeHandle THEN NewHandle(PipeFd, {"read"}) ELSE Freed]
    /\ cursor = End /\ selected = {}
    /\ timers = <<>> /\ loopNow = 1 /\ now = 1
    /\ pipe = <<>> /\ buf = <<>>
    /\ call = NoCall
    /\ sent = <<>> /\ ran = 0 /\ registered = 0

Run ==
    /\ pc = "out" /\ state = "Idle"
    /\ state' = "Running" /\ pc' = "poll"
    /\ UNCHANGED <<list, fh, cursor, selected, timers, loopNow, pipe, buf, call, now,
                   sent, ran, registered>>

\* The descriptor sets are built from the current interests.
Poll ==
    /\ pc = "poll"
    /\ fh' = [h \in Handles |->
                IF h \in ToSet(list)
                THEN [fh[h] EXCEPT !.awaiting = fh[h].interests # {},
                                   !.polled = fh[h].interests]
                ELSE fh[h]]
    /\ pc' = "select"
    /\ UNCHANGED <<state, list, cursor, selected, timers, loopNow, pipe, buf, call,
                   now, sent, ran, registered>>

\* Whether the first timer is due.
DueBy(time) == timers # <<>> /\ Head(timers).deadline <= time

\* What select can report: the polled events of the registered handles.
Polled == UNION {{<<fh[h].fd, e>> : e \in fh[h].polled} : h \in ToSet(list)}

\* Select returns when something polled is ready or the first timer is due.  The
\* self-pipe is ready exactly when it is not empty; "ready" is the rest.
Select(ready) ==
    LET reported == Polled \cap (ready \cup (IF pipe = <<>> THEN {} ELSE {<<PipeFd, "read">>}))
    IN  /\ pc = "select"
        /\ reported # {} \/ DueBy(now)
        /\ selected' = reported
        /\ loopNow' = now
        /\ pc' = "timers"
        /\ UNCHANGED <<state, list, fh, cursor, timers, pipe, buf, call, now,
                       sent, ran, registered>>

\* A signal: the loop polls again, nothing is processed.
SelectInterrupted ==
    /\ pc = "select"
    /\ pc' = "poll"
    /\ UNCHANGED <<state, list, fh, cursor, selected, timers, loopNow, pipe, buf, call,
                   now, sent, ran, registered>>

FireTimer ==
    /\ pc = "timers" /\ call = NoCall
    /\ DueBy(loopNow)
    /\ call' = [kind |-> "timer", timer |-> Head(timers)]
    /\ timers' = Tail(timers)
    /\ UNCHANGED <<state, pc, list, fh, cursor, selected, loopNow, pipe, buf, now,
                   sent, ran, registered>>

TimersDone ==
    /\ pc = "timers" /\ call = NoCall
    /\ ~DueBy(loopNow)
    /\ cursor' = IF list = <<>> THEN End ELSE Head(list)
    /\ pc' = "handles"
    /\ UNCHANGED <<state, list, fh, selected, timers, loopNow, pipe, buf, call, now,
                   sent, ran, registered>>

\* The events of the handle at the cursor: its interests now, what select said then.
CursorEvents == {e \in fh[cursor].interests : <<fh[cursor].fd, e>> \in selected}

\* How much the self-pipe is read: what the buffer has room for.
ReadSize == IF Len(pipe) < BufSize - Len(buf) THEN Len(pipe) ELSE BufSize - Len(buf)

\* One iteration of ProcessSelectedFileHandles.
ProcessFileHandle ==
    /\ pc = "handles" /\ call = NoCall /\ cursor # End
    /\ cursor' = Following(cursor)
    /\ fh' = [fh EXCEPT ![cursor].awaiting = FALSE]
    /\ LET called == fh[cursor].awaiting /\ CursorEvents # {}
       IN  IF called /\ cursor = PipeHandle
           THEN /\ buf' = buf \o SubSeq(pipe, 1, ReadSize)
                /\ pipe' = SubSeq(pipe, ReadSize + 1, Len(pipe))
                /\ pc' = "messages"
                /\ UNCHANGED call
           ELSE /\ call' = IF called
                           THEN [kind |-> "handle", handle |-> cursor, events |-> CursorEvents,
                                 polled |-> fh[cursor].polled]
                           ELSE NoCall
                /\ UNCHANGED <<pc, buf, pipe>>
    /\ UNCHANGED <<state, list, selected, timers, loopNow, now, sent, ran, registered>>

\* The size in the header at the start of the buffer.  Converted from a negative
\* char to size_t it is larger than any buffer.
ContextSize ==
    LET n == sent[buf[2][1]]
    IN  IF CharSigned /\ n > MaxContext \div 2 THEN BufSize ELSE n

MessageComplete == Len(buf) >= 2 /\ Len(buf) >= 2 + ContextSize

\* The header is removed, the context stays in the buffer while the callback runs.
CallScheduled ==
    /\ pc = "messages" /\ call = NoCall /\ MessageComplete
    /\ call' = [kind |-> "message", of |-> buf[1], context |-> SubSeq(buf, 3, 2 + ContextSize)]
    /\ buf' = SubSeq(buf, 3, Len(buf))
    /\ ran' = ran + 1
    /\ UNCHANGED <<state, pc, list, fh, cursor, selected, timers, loopNow, pipe, now,
                   sent, registered>>

MessagesDone ==
    /\ pc = "messages" /\ call = NoCall /\ ~MessageComplete
    /\ pc' = "handles"
    /\ UNCHANGED <<state, list, fh, cursor, selected, timers, loopNow, pipe, buf, call,
                   now, sent, ran, registered>>

\* Mutant: the context stays in the buffer.
MutContextStays ==
    /\ call # NoCall
    /\ call' = NoCall
    /\ UNCHANGED <<state, pc, list, fh, cursor, selected, timers, loopNow, pipe, buf, now,
                   sent, ran, registered>>

\* The client callback returns; the context of a scheduled callback is removed.
Return ==
    /\ call # NoCall
    /\ buf' = IF call.kind = "message" THEN SubSeq(buf, 1 + Len(call.context), Len(buf)) ELSE buf
    /\ call' = NoCall
    /\ UNCHANGED <<state, pc, list, fh, cursor, selected, timers, loopNow, pipe, now,
                   sent, ran, registered>>

HandlesDone ==
    /\ pc = "handles" /\ call = NoCall /\ cursor = End
    /\ IF state = "Running"
       THEN pc' = "poll" /\ UNCHANGED state
       ELSE pc' = "out" /\ state' = "Idle"
    /\ UNCHANGED <<list, fh, cursor, selected, timers, loopNow, pipe, buf, call, now,
                   sent, ran, registered>>

Stop ==
    /\ call # NoCall
    /\ state' = IF state = "Running" THEN "Stopping" ELSE state
    /\ UNCHANGED <<pc, list, fh, cursor, selected, timers, loopNow, pipe, buf, call, now,
                   sent, ran, registered>>

\* Only while the loop does not run.  The bytes in the buffer are left as they are.
Release ==
    /\ pc = "out" /\ state = "Idle"
    /\ pipe' = <<>>
    /\ FileHandleDeregister(PipeHandle)
    /\ state' = "Released"
    /\ UNCHANGED <<pc, selected, timers, loopNow, buf, call, now, sent, ran, registered>>

\* From any thread.  A message is written whole or, when the pipe is full, not at all.
Message(id, size) == [i \in 1..2 + size |-> <<id, i - 1>>]

ScheduleCallback(size) ==
    /\ state # "Released"
    /\ Len(sent) < MaxMessages
    /\ Len(pipe) + 2 + size <= PipeSize
    /\ sent' = Append(sent, size)
    /\ pipe' = pipe \o Message(Len(sent'), size)
    /\ UNCHANGED <<state, pc, list, fh, cursor, selected, timers, loopNow, buf, call, now,
                   ran, registered>>

Tick ==
    /\ now < MaxTime
    /\ now' = now + 1
    /\ UNCHANGED <<state, pc, list, fh, cursor, selected, timers, loopNow, pipe, buf, call,
                   sent, ran, registered>>

\* Client code runs in a callback, or outside of the loop.
ClientRuns == call # NoCall \/ (pc = "out" /\ state = "Idle")

Deadlines == {0} \cup {now + d : d \in Delays}

ClientTimers ==
    /\ ClientRuns
    /\ \/ \E deadline \in Deadlines : TimerRegister(deadline)
       \/ \E i \in DOMAIN timers : TimerDeregister(i) /\ UNCHANGED registered
    /\ UNCHANGED <<state, pc, list, fh, cursor, selected, loopNow, pipe, buf, call, now,
                   sent, ran>>

\* The steps of the thread of the loop, the ones of its clients excepted.
LoopStep ==
    \/ Run \/ Poll \/ SelectInterrupted \/ FireTimer \/ TimersDone \/ ProcessFileHandle
    \/ CallScheduled \/ MessagesDone \/ Return \/ HandlesDone

LoopEnvironment ==
    \/ Stop \/ Release \/ Tick \/ ClientTimers
    \/ \E size \in Sizes : ScheduleCallback(size)

-----------------------------------------------------------------------------
Handle == [fd : Fds \cup {-1}, interests : SUBSET Events, awaiting : BOOLEAN, polled : SUBSET Events]

LoopTypeOK ==
    /\ state \in {"Idle", "Running", "Stopping", "Released"}
    /\ pc \in {"out", "poll", "select", "timers", "handles", "messages"}
    /\ list \in Seq(Handles) /\ fh \in [Handles -> Handle] /\ cursor \in Handles \cup {End}
    /\ selected \subseteq Fds \X Events
    /\ Len(timers) <= MaxTimers
    /\ Len(buf) <= BufSize /\ (Len(buf) = BufSize => pc = "messages")
    /\ Len(pipe) <= PipeSize
    /\ ran <= Len(sent)

\* The callback of a handle is called only for what select reported of this very
\* registration: the descriptor of a closed stream, and the memory of a freed handle,
\* may have been given to a new one since (ProcessSelectedFileHandles,
\* HAPPlatformFileHandleDeregister).  And the loop never follows a freed handle.
OnlyPolledHandles ==
    /\ cursor # End => cursor \in ToSet(list)
    /\ call.kind = "handle" => call.events \subseteq call.polled

\* Callbacks scheduled by other threads are called once each, in the order in which
\* they were scheduled, and with the context they were scheduled with, however the
\* bytes of the pipe arrive (HandleSelfPipeFileHandleCallback).
CallbacksInOrder ==
    call.kind = "message" =>
        /\ call.of = <<ran, 0>>
        /\ call.context = [i \in 1..sent[ran] |-> <<ran, i + 1>>]

\* Before: an earlier deadline, or the same one and registered earlier.  Only timers
\* that are to fire as soon as possible (deadline 0) precede one another the newest
\* first: 0 is stored as 1, and a new one is compared as 0.
Before(a, b) ==
    \/ a.asked < b.asked
    \/ a.asked = b.asked /\ IF a.asked = 0 THEN a.id > b.id ELSE a.id < b.id

\* "Timers fire in ascending order of their deadlines. Timers registered with the
\* same deadline fire in order of registration." (HAPPlatformTimer.h:38)  So they do,
\* whatever timers the callbacks register and remove while the expired ones are being
\* called, but for those with deadline 0 (HAPPlatformRunLoop.c:310, 321), which fire
\* first and in exactly the opposite order.
TimersByDeadline ==
    [][call = NoCall /\ call'.kind = "timer" =>
          \A i \in DOMAIN timers' : Before(call'.timer, timers'[i])]_loopVars
=============================================================================
