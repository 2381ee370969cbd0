------------------------------ MODULE MCPlatform ------------------------------
(***************************************************************************)
(* Instances of the POSIX platform for TLC, and of the bytes of one IP     *)
(* session that its streams carry.  The transport (TCPStreams on RunLoop), *)
(* the store (KeyValueStore) and the session (IPMessages) share no state,  *)
(* and sockets and scheduled callbacks meet only in the list of handles: a *)
(* behaviour is one of the four, chosen at the start, and the rest keeps   *)
(* its initial state.                                                      *)
(***************************************************************************)
EXTENDS TCPStreams, KeyValueStore, IPMessages

VARIABLE part

CONSTANTS h1, h2, h3, h4, key1, key2, v1, v2

MCHandles == {h1, h2, h3, h4}
MCKeys == {key1, key2}
MCDomain == {key1}
MCValues == {v1, v2}
MCFds == 3..6
MCDelays == {0, 1}
MCSizes == {0, 1, 3}
MCStreams == {1, 2}
MCInterests == {{}, {"read"}}

\* Request 2 is Pair Verify M3; requests 1 and 3 have a body, and the last one ends in an
\* error.  The response to request 3 has two frames.
MCBegin == <<0, 3, 5, 9, 10, 12, 13>>
MCBody == <<2, 5, 7, 10, 12, 13>>
MCResponse == <<1, 2, 5, 3, 1, 1>>
MCFlaws == {13}

mcVars == <<vars, kvsVars, msgVars, part>>

PlatformInit ==
    /\ TCPInit /\ LoopInit /\ KVSInit /\ MsgInit
    /\ part \in {"sockets", "messages", "store", "session"}
    /\ pipelines => part = "session"
PlatformNext ==
    \/ part = "sockets" /\ TCPNext /\ sent' = <<>> /\ registered' <= 1 /\ UNCHANGED <<kvsVars, msgVars, part>>
    \/ part = "messages" /\ TCPNext /\ listener' = NoHandle /\ UNCHANGED <<kvsVars, msgVars, part>>
    \/ part = "store" /\ KVSNext /\ UNCHANGED <<vars, msgVars, part>>
    \/ part = "session" /\ MsgNext /\ UNCHANGED <<vars, kvsVars, part>>
PlatformSpec == PlatformInit /\ [][PlatformNext]_mcVars /\ TCPFairness

PlatformTypeOK == TCPTypeOK /\ KVSTypeOK /\ MsgTypeOK
=============================================================================
