----------------------------- MODULE IPMessages -----------------------------
(***************************************************************************)
(* The bytes of one IP session (HAPIPAccessoryServer.c,                    *)
(* HAPIPSecurityProtocol.c, HAPIP+ByteBuffer.c): requests arrive in         *)
(* segments of any size, at first as they are and, once Pair Verify is      *)
(* done, sealed in frames that are opened in place in the inbound buffer;  *)
(* the HTTP reader goes through what is open until a request is whole.     *)
(*                                                                         *)
(* The bytes that the controller means to send are numbered from 1, and so *)
(* are those on the wire; a request is where it begins, where its body     *)
(* begins, and what it is answered with.                                   *)
(***************************************************************************)
EXTENDS Integers, Sequences

CONSTANTS
    Requests,       \* number of requests that the controller means to send
    Begin,          \* bytes in front of a request, and of the end
    Body,           \* bytes in front of the body of a request
    Flaws,          \* bytes at which the HTTP reader finds an error
    BadHeaders,     \* ends of header fields that read_http refuses
    Verify,         \* the request that secures the session: Pair Verify M3
    Response,       \* bytes of the response to a request
    EventBytes,     \* bytes of an event notification
    OutOfResources, \* bytes of kHAPIPAccessoryServerResponse_OutOfResources
    MaxFrame,       \* kHAPIPSecurityProtocol_MaxFrameBytes
    NumAAD,         \* kHAPIPSecurityProtocol_NumAADBytes
    NumTag,         \* CHACHA20_POLY1305_TAG_BYTES
    InCapacity,     \* capacity of the inbound buffer
    OutCapacity     \* capacity of the outbound buffer

Overhead == NumAAD + NumTag

NumEncryptedBytes(n) ==
    (n \div MaxFrame) * (Overhead + MaxFrame)
        + (IF n % MaxFrame = 0 THEN 0 ELSE Overhead + (n % MaxFrame))

\* Responses are written into the buffer; the last one is short enough to be
\* sealed, as handle_http asserts where it falls back to it.
ASSUME IPMessagesAssumption ==
    /\ Requests \in Nat \ {0} /\ Verify \in 1 .. Requests
    /\ Begin \in [1 .. Requests + 1 -> Nat] /\ Begin[1] = 0
    /\ Body \in [1 .. Requests -> Nat]
    /\ \A k \in 1 .. Requests : Begin[k] < Body[k] /\ Body[k] <= Begin[k + 1]
    /\ Response \in [1 .. Requests -> 1 .. OutCapacity]
    /\ EventBytes \in Nat \ {0} /\ OutOfResources \in Nat \ {0}
    /\ MaxFrame \in Nat \ {0} /\ NumAAD \in Nat \ {0} /\ NumTag \in Nat \ {0}
    /\ InCapacity \in Nat \ {0} /\ OutCapacity \in Nat \ {0}
    /\ NumEncryptedBytes(OutOfResources) <= OutCapacity

VARIABLES
    conn,       \* the session, see Connection
    arrived,    \* number of bytes that have been read from the TCP stream
    sealed,     \* frames of the controller: where each ends, see FrameEnd
    pipelines,  \* the controller does not wait for a response
    served      \* history: the requests that have been handled

msgVars == <<conn, arrived, sealed, pipelines, served>>

-----------------------------------------------------------------------------
(***************************************************************************)
(* State.                                                                  *)
(***************************************************************************)

\* What a byte of the inbound buffer is: one that was meant, or one of a
\* frame that is not open yet.
Plain(i) == [kind |-> "plain", at |-> i]
Wire(w) == [kind |-> "wire", at |-> w]
Cell == [kind : {"plain", "wire"}, at : Nat]

\* data goes up to the end of what was received, mark up to the end of what
\* is open, and reader up to where the HTTP reader is; torn is a ghost: a
\* request has been handled with a part of a frame behind it.
Connection ==
    [io : {"reading", "responding", "notifying", "closed"},
     data : Seq(Cell), mark : Nat, reader : Nat,
     http : {"reading", "done", "error"}, secured : BOOLEAN, nonce : Nat,
     unsent : 0 .. OutCapacity, torn : BOOLEAN]

NewConnection ==
    [io |-> "reading", data |-> <<>>, mark |-> 0, reader |-> 0,
     http |-> "reading", secured |-> FALSE, nonce |-> 0, unsent |-> 0,
     torn |-> FALSE]

MsgInit ==
    /\ conn = NewConnection
    /\ arrived = 0
    /\ sealed = <<>>
    /\ pipelines \in BOOLEAN
    /\ served = <<>>

CloseConnection ==
    /\ conn' = [NewConnection EXCEPT !.io = "closed"]
    /\ UNCHANGED served

-----------------------------------------------------------------------------
(***************************************************************************)
(* The controller: what it has sent.                                       *)
(***************************************************************************)

\* The bytes that are sent without security, and where frame f ends.
Clear == Begin[Verify + 1]
FrameEnd(f) == IF f = 0 THEN [plain |-> Clear, wire |-> Clear] ELSE sealed[f]

Answered == Len(served) - (IF conn.io = "responding" THEN 1 ELSE 0)

\* A controller sends its next request when the last one has been answered.
Willing ==
    IF pipelines \/ Answered + 1 >= Requests THEN Begin[Requests + 1]
    ELSE Begin[Answered + 2]

Offered ==
    IF Answered >= Verify THEN FrameEnd(Len(sealed)).wire
    ELSE IF Willing < Clear THEN Willing ELSE Clear

SealFrame(n) ==
    LET end == FrameEnd(Len(sealed)) IN
    /\ conn.io # "closed" /\ Answered >= Verify
    /\ end.plain + n <= Willing
    /\ sealed' = Append(sealed, [plain |-> end.plain + n,
                                 wire |-> end.wire + n + Overhead])
    /\ UNCHANGED <<conn, arrived, pipelines, served>>

-----------------------------------------------------------------------------
(***************************************************************************)
(* The security protocol.                                                  *)
(***************************************************************************)

\* Where the loop ends that seals n bytes in place, frame by frame.
Encrypted[n \in Nat] ==
    IF n = 0 THEN 0
    ELSE IF n > MaxFrame THEN MaxFrame + Overhead + Encrypted[n - MaxFrame]
    ELSE n + Overhead

\* The next frames, up to g, are there, and authentic.
Opens(c, g) ==
    LET start == FrameEnd(c.nonce).wire
        length == FrameEnd(g).wire - start
    IN  /\ c.mark + length <= Len(c.data)
        /\ \A j \in 1 .. length : c.data[c.mark + j] = Wire(start + j)

DecryptData(c) ==
    LET opened == {g \in c.nonce .. Len(sealed) : Opens(c, g)}
        last == CHOOSE g \in opened : \A h \in opened : h <= g
        start == FrameEnd(c.nonce)
        end == FrameEnd(last)
        rest == c.mark + (end.wire - start.wire)
    IN  [c EXCEPT !.data = SubSeq(c.data, 1, c.mark)
                    \o [i \in 1 .. end.plain - start.plain |-> Plain(start.plain + i)]
                    \o SubSeq(c.data, rest + 1, Len(c.data)),
                  !.mark = c.mark + (end.plain - start.plain),
                  !.nonce = last]

\* What is taken for the length of a frame is none: it may be too large, or
\* the bytes it announces are not authentic when they have arrived.  The
\* session ends: it is closed, or the process with it, since handle_input
\* asserts that the error is -1 and it is kHAPError_InvalidData.
Misread(c) ==
    /\ c.mark + NumAAD <= Len(c.data)
    /\ c.data[c.mark + 1] # Wire(FrameEnd(c.nonce).wire + 1)

-----------------------------------------------------------------------------
(***************************************************************************)
(* The HTTP reader.                                                        *)
(***************************************************************************)

EndsHeader(c) == \E k \in 1 .. Requests : c = Plain(Body[k])
Malformed(c) == \E i \in Flaws : c = Plain(i)
\* A length that is no number or too large, or an empty type.  (A field that is
\* there twice is refused only if one call reads both, and is left out.)
RefusedHeader(c) == \E i \in BadHeaders : c = Plain(i)
Flawed(c) == Malformed(c) \/ RefusedHeader(c)

ReadHTTP(c) ==
    LET stops == {p \in c.reader + 1 .. c.mark :
                    EndsHeader(c.data[p]) \/ Flawed(c.data[p])}
        first == CHOOSE p \in stops : \A q \in stops : p <= q
    IN  IF c.http # "reading" THEN c
        ELSE IF stops = {} THEN [c EXCEPT !.reader = c.mark]
        ELSE [c EXCEPT !.reader = first,
                       !.http = IF Flawed(c.data[first]) THEN "error" ELSE "done"]

ContentLength(c) ==
    LET k == CHOOSE k \in 1 .. Requests : c.data[c.reader] = Plain(Body[k])
    IN  Begin[k + 1] - Body[k]

\* Bytes behind position stay where they are.
ShiftLeft(data, position, n) ==
    [i \in 1 .. Len(data) - n |-> IF i <= position - n THEN data[i + n] ELSE data[i]]

-----------------------------------------------------------------------------
(***************************************************************************)
(* Input and output.                                                       *)
(***************************************************************************)

\* Mutant: the reader goes on where it was.
MutReaderStays(c) == [c EXCEPT !.http = "reading"]

PrepareReadingRequest(c) == [c EXCEPT !.reader = 0, !.http = "reading"]

\* The bytes of a response of n bytes in the outbound buffer.
Outbound(n, secured) ==
    IF ~secured THEN n
    ELSE IF NumEncryptedBytes(n) > OutCapacity THEN Encrypted[OutOfResources]
    ELSE Encrypted[n]

Complete(c) == c.http = "done" /\ c.reader + ContentLength(c) <= c.mark

HandleHTTP(c) ==
    LET n == c.reader + ContentLength(c) IN
    /\ served' = Append(served, SubSeq(c.data, 1, n))
    /\ conn' = [c EXCEPT !.data = ShiftLeft(c.data, c.mark, n),
                         !.mark = c.mark - n,
                         !.io = "responding",
                         !.unsent = Outbound(Response[Len(served) + 1], c.secured),
                         !.torn = c.torn \/ c.mark < Len(c.data)]

\* HAPSessionIsSecured after Pair Verify M3; isSecured follows here.
Decoded(c) ==
    IF Len(served) >= Verify THEN DecryptData([c EXCEPT !.secured = TRUE])
    ELSE [c EXCEPT !.mark = Len(c.data)]

HandleInput(c) ==
    LET read == ReadHTTP(Decoded(c)) IN
    \/ /\ Len(served) >= Verify /\ Misread(Decoded(c))
       /\ CloseConnection
    \/ IF read.http = "error" THEN CloseConnection
       ELSE IF Complete(read) THEN HandleHTTP(read)
       ELSE IF Len(read.data) = InCapacity THEN CloseConnection
       ELSE conn' = read /\ UNCHANGED served

ReadInboundData(n) ==
    /\ conn.io = "reading"
    /\ Len(conn.data) + n <= InCapacity
    /\ arrived + n <= Offered
    /\ arrived' = arrived + n
    /\ HandleInput([conn EXCEPT !.data =
            @ \o [i \in 1 .. n |-> IF arrived + i <= Clear THEN Plain(arrived + i)
                                   ELSE Wire(arrived + i)]])
    /\ UNCHANGED <<sealed, pipelines>>

HandleOutputCompletion(c) ==
    IF c.data = <<>> THEN conn' = PrepareReadingRequest(c) /\ UNCHANGED served
    ELSE HandleInput(PrepareReadingRequest(c))

WriteOutboundData(n) ==
    /\ conn.io \in {"responding", "notifying"}
    /\ n <= conn.unsent
    /\ IF n = conn.unsent
       THEN HandleOutputCompletion([conn EXCEPT !.io = "reading", !.unsent = 0])
       ELSE conn' = [conn EXCEPT !.unsent = @ - n] /\ UNCHANGED served
    /\ UNCHANGED <<arrived, sealed, pipelines>>

\* The session rests: nothing of a request has been received.
WriteEventNotifications ==
    /\ conn.io = "reading" /\ conn.data = <<>> /\ conn.secured
    /\ NumEncryptedBytes(EventBytes) <= OutCapacity
    /\ conn' = [conn EXCEPT !.io = "notifying", !.unsent = Encrypted[EventBytes]]
    /\ UNCHANGED <<arrived, sealed, pipelines, served>>

\* The stream fails, ends, or has been idle for too long.
InputClosed ==
    /\ conn.io # "closed"
    /\ CloseConnection
    /\ UNCHANGED <<arrived, sealed, pipelines>>

MsgNext ==
    \/ \E n \in 1 .. MaxFrame : SealFrame(n)
    \/ \E n \in 1 .. InCapacity : ReadInboundData(n)
    \/ \E n \in 1 .. OutCapacity : WriteOutboundData(n)
    \/ WriteEventNotifications
    \/ InputClosed

MsgSpec == MsgInit /\ [][MsgNext]_msgVars

-----------------------------------------------------------------------------
(***************************************************************************)
(* Properties.                                                             *)
(***************************************************************************)

MsgTypeOK ==
    /\ conn \in Connection
    /\ arrived \in Nat
    /\ sealed \in Seq([plain : Nat, wire : Nat])
    /\ pipelines \in BOOLEAN
    /\ served \in Seq(Seq(Cell))
    /\ conn.reader <= conn.mark \/ conn.io # "reading"
    /\ conn.mark <= Len(conn.data) /\ Len(conn.data) <= InCapacity

\* Every request that is handled is one that was sent, whole and in order,
\* with no byte of another one, however the bytes were cut into frames and
\* segments, and whatever was sent in between.
RequestsWhole ==
    /\ Len(served) <= Requests
    /\ \A k \in 1 .. Len(served) :
           served[k] = [i \in 1 .. Begin[k + 1] - Begin[k] |-> Plain(Begin[k] + i)]

\* The bytes of request k have arrived, with those of the frame it ends in.
HasArrived(k) ==
    IF k <= Verify THEN Begin[k + 1] <= arrived
    ELSE \E f \in 1 .. Len(sealed) :
            Begin[k + 1] <= sealed[f].plain /\ sealed[f].wire <= arrived

\* A session that waits for input has handled all that has arrived whole,
\* and has room for more: it is not told of bytes that it has already.
NothingWaits ==
    conn.io = "reading" /\ ~conn.torn =>
        /\ Len(conn.data) < InCapacity
        /\ Len(served) < Requests => ~HasArrived(Len(served) + 1)

\* The rest of the buffer is what follows on the wire what has been opened.
BytesKept ==
    conn.io # "closed" /\ Len(served) >= Verify =>
        LET start == FrameEnd(conn.nonce).wire
        IN  /\ arrived = start + (Len(conn.data) - conn.mark)
            /\ \A j \in 1 .. Len(conn.data) - conn.mark :
                    conn.data[conn.mark + j] = Wire(start + j)

\* A controller that waits for the response loses nothing: what it has sent
\* stays in the buffer as it was sent, and in order.
WaitingIsServed == pipelines \/ BytesKept
RequestsServed == RequestsWhole /\ NothingWaits /\ WaitingIsServed
=============================================================================
