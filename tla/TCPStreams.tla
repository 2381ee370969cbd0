------------------------------ MODULE TCPStreams ------------------------------
(***************************************************************************)
(* The TCP streams of the POSIX platform                                   *)
(* (PAL/POSIX/HAPPlatformTCPStreamManager.c) as a client of the run loop:  *)
(* a listener and a fixed number of streams, each with a file handle.      *)
(* When the last free stream is taken the listener is no longer polled,    *)
(* and it is polled again when one is closed.                              *)
(*                                                                         *)
(* The client of the streams is the IP accessory server: it accepts in the *)
(* listener's callback, opens the listener while it has no stream, and     *)
(* otherwise may do anything in any callback.  Bytes are not modelled;     *)
(* what a read or write returns does not change the state of the manager.  *)
(***************************************************************************)
EXTENDS RunLoop

CONSTANTS
    Streams,        \* tcpStreamManager->tcpStreams, a set of numbers
    StreamInterests, \* what the server asks of a stream: sets of events
    MaxConnects,    \* bound on connections attempted in a behaviour
    NoHandle

ASSUME TCPAssumption ==
    /\ NoHandle \notin Handles
    /\ StreamInterests \subseteq SUBSET Events

VARIABLES
    listener,       \* the file handle of the listener, or NoHandle
    stream,         \* for each stream its handle, its interests and the connection it carries
    numTCPStreams,
    pending,        \* connections that the kernel holds for the listener
    connects        \* connections attempted so far

tcpVars == <<listener, stream, numTCPStreams, pending, connects>>
vars == <<loopVars, tcpVars>>

ClosedStream == [handle |-> NoHandle, interests |-> {}]
Open == {s \in Streams : stream[s].handle # NoHandle}
FirstFree == {s \in Streams \ Open : \A t \in Streams \ Open : s <= t}

TCPInit ==
    /\ listener = NoHandle
    /\ stream = [s \in Streams |-> ClosedStream]
    /\ numTCPStreams = 0 /\ pending = 0 /\ connects = 0

\* What a client step leaves alone: everything but handles and streams.
ClientStep ==
    /\ ClientRuns
    /\ UNCHANGED <<state, pc, selected, timers, loopNow, pipe, buf, call, now, sent, ran,
                   registered>>

OpenListener ==
    /\ ClientStep
    /\ listener = NoHandle /\ Open = {}
    /\ \E h \in FreeHandles, d \in LowestFree :
         /\ listener' = h
         /\ FileHandleRegister(h, d, {"read"})
    /\ UNCHANGED <<stream, numTCPStreams, pending, connects>>

\* The connections that were not accepted yet are lost with the socket.
CloseListener ==
    /\ ClientStep
    /\ listener # NoHandle
    /\ FileHandleDeregister(listener)
    /\ listener' = NoHandle
    /\ pending' = 0
    /\ UNCHANGED <<stream, numTCPStreams, connects>>

\* A stream is free and the listener has a connection for it.
AcceptTCPStream ==
    /\ ClientStep
    /\ call.kind = "handle" /\ call.handle = listener
    /\ numTCPStreams < Cardinality(Streams) /\ pending > 0
    /\ numTCPStreams' = numTCPStreams + 1
    /\ pending' = pending - 1
    /\ \E h \in FreeHandles, d \in LowestFree, s \in FirstFree :
         /\ stream' = [stream EXCEPT ![s].handle = h]
         /\ list' = Append(list, h)
         /\ LET accepted == [fh EXCEPT ![h] = NewHandle(d, {})]
            IN  fh' = IF numTCPStreams' = Cardinality(Streams)
                      THEN [accepted EXCEPT ![listener].interests = {}]
                      ELSE accepted
    /\ UNCHANGED <<cursor, listener, connects>>

\* Whether the stream just closed is the only free one.
OneFree(n) == Cardinality(Streams) - n = 1

TCPStreamClose(s) ==
    /\ ClientStep
    /\ s \in Open
    /\ numTCPStreams' = numTCPStreams - 1
    /\ LET h == stream[s].handle
           closed == [fh EXCEPT ![h] = Freed]
       IN  /\ cursor' = AfterDeregister(h)
           /\ list' = Unlinked(h)
           /\ fh' = IF listener # NoHandle /\ OneFree(numTCPStreams')
                    THEN [closed EXCEPT ![listener].interests = {"read"}]
                    ELSE closed
    /\ stream' = [stream EXCEPT ![s] = ClosedStream]
    /\ UNCHANGED <<listener, pending, connects>>

TCPStreamUpdateInterests(s, interests) ==
    /\ ClientStep
    /\ s \in Open
    /\ stream' = [stream EXCEPT ![s].interests = interests]
    /\ FileHandleUpdateInterests(stream[s].handle, interests)
    /\ UNCHANGED <<listener, numTCPStreams, pending, connects>>

\* A connection reaches the listening socket, or is aborted before it is accepted:
\* accept then reports Busy.
Connect ==
    /\ listener # NoHandle /\ connects < MaxConnects
    /\ pending' = pending + 1 /\ connects' = connects + 1
    /\ UNCHANGED <<loopVars, listener, stream, numTCPStreams>>

Abort ==
    /\ pending > 0
    /\ pending' = pending - 1
    /\ UNCHANGED <<loopVars, listener, stream, numTCPStreams, connects>>

\* What the sockets have for select: a connection, and whatever the peers do.
StreamReadiness == {fh[stream[s].handle].fd : s \in Open} \X Events
ListenerReadiness == IF listener # NoHandle /\ pending > 0
                     THEN {<<fh[listener].fd, "read">>} ELSE {}

SelectSockets ==
    \E ready \in SUBSET (StreamReadiness \cap Polled) : Select(ready \cup ListenerReadiness)

ClientOperation ==
    \/ OpenListener \/ CloseListener \/ AcceptTCPStream
    \/ \E s \in Streams : TCPStreamClose(s)
    \/ \E s \in Streams, interests \in StreamInterests : TCPStreamUpdateInterests(s, interests)

TCPNext ==
    \/ (LoopStep \/ LoopEnvironment) /\ UNCHANGED tcpVars
    \/ SelectSockets /\ UNCHANGED tcpVars
    \/ ClientOperation \/ Connect \/ Abort

TCPSpec == LoopInit /\ TCPInit /\ [][TCPNext]_vars

\* The thread of the loop runs and its clients return.  Signals do not interrupt
\* select for ever, and the callbacks do not register timers that are already due.
TCPFairness ==
    /\ WF_vars((Poll \/ FireTimer \/ TimersDone \/ ProcessFileHandle \/ CallScheduled
                \/ MessagesDone \/ Return \/ HandlesDone) /\ UNCHANGED tcpVars)
    /\ SF_vars(SelectSockets /\ UNCHANGED tcpVars)

-----------------------------------------------------------------------------
TCPTypeOK ==
    /\ LoopTypeOK
    /\ listener \in Handles \cup {NoHandle}
    /\ stream \in [Streams -> [handle : Handles \cup {NoHandle}, interests : SUBSET Events]]
    /\ numTCPStreams = Cardinality(Open)
    /\ pending \in 0..MaxConnects /\ connects \in 0..MaxConnects

\* A listener is polled exactly while a stream is free: a connection that arrives when
\* none is free neither spins the loop nor, once a stream is closed in whichever
\* callback, waits for ever (HAPPlatformTCPStreamManagerAcceptTCPStream,
\* HAPPlatformTCPStreamClose).
ListenerPolled ==
    listener # NoHandle => (fh[listener].interests = {"read"} <=> Open # Streams)

\* The assertions of HandleTCPStreamListenerFileHandleCallback and
\* HandleTCPStreamFileHandleCallback: a handle that calls back belongs to the
\* listener or to an open stream, with events that it is interested in.
CallbackFindsItsStream ==
    [][call'.kind = "handle" /\ call = NoCall =>
          \/ call'.handle = listener /\ "read" \in call'.events
          \/ \E s \in Open : stream[s].handle = call'.handle
                             /\ call'.events \cap stream[s].interests # {}]_vars

\* The callbacks that were scheduled while the loop runs are called, unless the loop
\* stops (HAPPlatformRunLoopScheduleCallback).
ScheduledRuns == []<>(ran = Len(sent) \/ state # "Running")
=============================================================================
