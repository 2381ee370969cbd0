# HomeKit ADK: a TLA+ verification development

This directory models the HomeKit Accessory Development Kit (`src/HAP`, `src/PAL`) in TLA+,
model-checks it with TLC on small instances, and proves its central theorems with TLAPS for
every instance. It is kept beside the code: each definition is translated from the C functions
that `PROJECT.json` maps it to, by file and line.

Contents: [the system](#the-system), [the modules](#the-modules), [the runs](#the-runs),
[fairness](#fairness), [the proofs](#the-proofs), [where the code deviates](#where-the-code-deviates),
[abstractions](#abstractions), [not modelled](#not-modelled), [the plan](#the-plan).

## The system

A HomeKit accessory is a server for controllers (phones, home hubs). One process runs one
`HAPAccessoryServer` on a single-threaded run loop: sockets, BLE link events and timers call
handlers, and each handler runs to completion. There are no threads to race; what races are
*handlers of different sessions*, timers, the application's calls, failures of platform
services, and loss of power. Only the run loop itself meets other threads and signal handlers,
at its self-pipe. Assertions (`HAPAssert`, `HAPPrecondition`) and `HAPFatalError` abort the process.

### Components

| Component (sources) | State | Operations | Correct when |
|---|---|---|---|
| Pair Setup (`HAPPairingPairSetup.c`) | `server->pairSetup`: which session pairs, SRP keys, flags, `keepSetupInfo`; per session: step, method, error; stored: failed attempts, the first pairing | M1 to M6, reset, takeover from a silent controller | one procedure at a time, held by a live session; a pairing only by proof of the setup code and only when unpaired; attempts bounded and never wrongly counted |
| Setup info manager (`HAPAccessorySetupInfo.c`) | setup code, salt and verifier, lock and keep flags; two timers; what display and tag show | start, stop, state update; start and stop of pairing; NFC pairing mode; refresh | what is shown is in force; a code in use is not changed; secrets do not outlive their use |
| Pair Verify, Pair Resume (`HAPPairingPairVerify.c`, `HAPPairingBLESessionCache.c`) | per session: step, method, pairing, keys; cache of session IDs and secrets | M1 to M4; fetch, save, invalidate | a session is secured only for a controller whose pairing is stored; a cache entry does not outlive its pairing |
| Pairings (`HAPPairingPairings.c`, `HAPPairing.c`) | stored: key → pairing; per session: method, error, removed pairing | Add, Remove, List; clean-up | an admin exists while any pairing does; one pairing per controller; only admins change pairings |
| Sessions (`HAPSession.c`) | security context, pairing, procedure states | create, release, invalidate, admin check | a removed pairing's sessions get nothing more |
| IP accessory server (`HAPIPAccessoryServer.c`) | server and engine state, sessions with buffers, timed write and notifications; four timers | accept, read, write, close, collect, request handlers, event notifications, start, stop | events reach subscribers but not the writer; a timed write executes once and in time; a stop comes to its end |
| IP accessory protocol (`HAPIPAccessoryProtocol.c`, `HAPIPAccessory.c`, `HAPJSONUtils.c`) | a context per characteristic; the state of the incremental serialization | parse read, write and prepare requests; format responses and notifications; serialize the database in chunks | what is parsed is what was asked; a response is as long as was counted; the chunks make the document |
| Characteristics (`HAPCharacteristic.c`, `HAPIPCharacteristic.c`, `HAPBLECharacteristic*.c`, `HAPAccessoryValidation.c`) | definitions; the data buffer of a request; subscriptions | validate, read, write, convert, constrain | a handler is called only where there is one (or the validation forgot it), with the value that was sent, within its constraints |
| Bytes of an IP session (`HAPIPSecurityProtocol.c`, `HAPIP+ByteBuffer.c`, `HAPIPAccessoryServer.c`) | inbound buffer with what is open and what is not, HTTP reader, nonce; outbound buffer | read a segment, open frames, read a request, shift the buffer, seal and write a response or notification | requests are handled whole, in order, as soon as they are there; what is sealed fits |
| BLE link (`HAPBLESession.c`, `HAPBLEPeripheralManager.c`, `HAPBLEProcedure.c`, `HAPBLEFallbackProcedure.c`) | connection, session, attached procedure, timed write, fallback procedures, subscriptions, three timers | connect, disconnect, GATT reads and writes, indications, timers | what needs security gets it; a timed write keeps its body; no event is stuck; a terminal link ends |
| BLE transactions (`HAPBLETransaction.c`, `HAPBLEPDU*.c`, `HAPBLE*+Signature/Configuration/Broadcast.c`) | request and response, in fragments; the stored broadcast configuration | fragments in and out; every request that is not a read or write of a value | a request is handled as written; an answer is true |
| BLE advertising (`HAPBLEAccessoryServer+Advertising.c`, `+Broadcast.c`), reset, firmware update | stored: global state number, broadcast key, configuration number, identity; advertising timers | modes, connected, disconnected and broadcast events, key generation and expiry, resets, updates | a key and a number are used once; missed events show; an interrupted reset leaves no mixture of identities |
| TLV8 (`HAPTLV*.c`) | the document's own buffer | read, decode and encode structs, unions, sequences, values | values are handed out as they came although fragments are merged in place |
| PAL, POSIX (`HAPPlatformRunLoop.c`, `HAPPlatformTCPStreamManager.c`, `HAPPlatformKeyValueStore.c`, `HAPPlatformFileManager.c`) | handles, timers, self-pipe; listener and streams; files | register, fire, schedule; accept, interests, close; get, set, remove, purge | a callback reaches what was polled; timers in order; a key keeps its value through power loss |
| Cryptography, services, logging, other adapters, applications, vendored parsers | mostly none | | see [not modelled](#not-modelled) |

### Interactions

* A transport (IP or BLE) owns sessions and calls the pairing procedures through `HAPSession.c`.
  Over IP the write and the read of a message happen in one request handler; over BLE they are
  two GATT operations unless the write asks for a response, so that anything can come between.
* Pair Setup calls the setup info manager when a session claims or releases the procedure, and
  for the salt, verifier and code of M2 and M4.
* Storing or removing a pairing schedules the *deferred state update*: a timer that is due at
  once. It reaches the setup info manager and the transports, and completes a stop.
* Closing a session resets its procedure, which calls back into the setup info manager. On IP a
  request may close *other* sessions: POST `/pair-setup` closes transient ones, every response
  closes those whose pairing has been removed.
* `HAPAccessoryServerRaiseEvent` sets a flag in the IP sessions and in the BLE link that
  subscribe, and a broadcast or a disconnected event otherwise; the IP server tells it when the
  session is at rest and its delay is over, the link when the platform is ready.
* The transports parse a request into contexts or TLV items, hand them to the characteristic's
  handlers, and format what they return; request and response share buffers.
* Everything that waits does so in the run loop of the platform, and everything that stays is in
  its key-value store.

### What is hard

* **Interleaving of sessions**: restart and takeover of a procedure, removal of a pairing whose
  sessions are open, both transports at once, events raised by the handler of another session.
* **Split requests**: the gap between write and read over BLE; fragments of requests and responses.
* **Timers against handlers**: refresh, NFC pairing mode, the state update, notifications, idle
  sessions, timed writes, the link.
* **Failure in the middle**: the key-value store, a full buffer, the coprocessor.
* **Power loss** after any persistent write, in a purge, a reset, an update, the replacement of a file.
* **Counters and widths**: a one-byte attempts counter, a two-byte global state number, integers
  of five widths, lengths counted before they are written.
* **Shared buffers**: values in the buffer of the request that asked for them, TLV fragments merged
  over the headers between them.

`PROJECT.json` lists each hazard at the line where it bites, with the properties that cover it, or
with a note that says why none does.

## The modules

| Module | Models | Kind |
|---|---|---|
| `AccessorySetupInfo` | the setup info manager, as operators from its state to its next state | component |
| `PairSetup` | Pair Setup on both transports, with sessions, server start and stop, state update, power loss; EXTENDS `AccessorySetupInfo` | component |
| `PairingContract` | what Pair Setup promises | abstract specification |
| `Pairings` | the list of pairings, Pair Verify, Pair Resume and its cache, and how both transports notice that a pairing is gone | component |
| `PairingTable` | what the list of pairings promises | abstract specification |
| `IPServer` | sessions, requests, notifications, timed writes, chunked transfer, idle sessions, timers, start and stop of the IP server | component |
| `IPMessages` | the bytes of one IP session: segments, frames, the HTTP reader, the buffers | component |
| `EventContract` | what the IP server promises about event notifications | abstract specification |
| `BLELink` | connection, session, procedures, timers, fallback procedures, indications, shutdown | component |
| `BLERequests`, `BLETransactions` | PDUs and transactions byte by byte; signatures, configurations, broadcasts, tokens | component |
| `Advertising` | life cycle of a BLE server with what it stores: state number, broadcast key, identity, configuration number; resets and updates | component |
| `Attributes`, `AccessoryDatabase` | the serialization of the attribute database in chunks | component |
| `JSONUtils`, `AccessoryProtocol` | requests and responses of characteristics over IP, and their lengths | component |
| `Characteristics`, `CharacteristicAccess` | validation and constraints; reads and writes from message to handler and back | component |
| `TLV8` | reader and writer of TLV8 and of the formats built on it | component |
| `RunLoop`, `TCPStreams` | the POSIX run loop, and TCP streams as its client | component |
| `KeyValueStore` | the POSIX key-value store, system call by system call | component |
| `MCPairSetup`, `MCPairings`, `MCIPServer`, `MCBLELink`, `MCAdvertising`, `MCAccess`, `MCTLV` | instances for TLC | |
| `MCBLE`, `MCData`, `MCPlatform` | instances that join components without common state: a behaviour is one of the parts, chosen at the start, and the others rest | |
| `PairSetup_proofs` (with the lemmas about `AccessorySetupInfo`), `Pairings_proofs`, `IPServer_proofs`, `Platform_proofs` (run loop, streams, key-value store and the bytes of an IP session), `Advertising_proofs`, `BLELink_proofs`, `CharacteristicAccess_proofs`, `AccessoryDatabase_proofs` | lemmas and theorems | |

`PairSetup` and `Pairings` are two views of one accessory that meet at the list of pairings.
`PairSetup` has one pairing, its owner's, and takes Pair Verify and the removal of pairings as
single steps; `Pairings` has the whole list and takes Pair Setup as a single step (M5 and M6 of a
procedure that `PairSetup` shows to be the only one, on an accessory that is not paired). `IPServer`
and `BLELink` take the pairing procedures as single steps in turn, with every effect that those two
modules give them on sessions, and take what a request reads or writes as data, which is the subject
of `CharacteristicAccess`, `AccessoryProtocol` and `BLETransactions`. `Advertising` takes writes of
keys as atomic; `KeyValueStore` shows what they are made of. `IPServer` takes requests as they become whole;
`IPMessages` shows how they do, for one session.

In the modules a definition named `X_...` or `Mut...` next to a definition `X` (for instance
`StopPairing_KeepsFlag`) is a plausible bug in `X`. Nothing uses it; it is there so that every
property can be shown to fail when the code goes wrong.

### `AccessorySetupInfo`

The component is passive, so each C function is an operator: `PrepareSetupInfo(a, env,
lock)` is the structure `server->accessorySetup` after the call, given `a` before it.
`env` carries what the function reads elsewhere (whether a pairing exists, whether the
primary accessory is registered). The calls a function makes are applied in the code's
order; in particular `SynchronizeDisplayAndNFC` runs where the code calls it, and what
it last told the platform is state (`display`, `tag`), so that a payload that no longer
matches the code in memory is visible as `"stale"`. An assertion of the component is
`Check`: the first that fails is recorded in `failed`, and the modules above stop there,
as the process does.

A setup code is a Boolean (available or not), since all properties compare a code with
its own later self: erasing it marks `display` and `tag` stale and clears `served`, the
ghost field that names the session whose M2 was computed from the salt and verifier in
memory.

### `PairSetup`

State and its origin:

| TLA+ | C |
|---|---|
| `ram.current`, `.flags`, `.keep`, `.proof` | `server->pairSetup.sessionThatIsCurrentlyPairing`, `.flags...`, `.keepSetupInfo`, `.A`/`.M1` |
| `ram.state[s]`, `.method[s]`, `.error[s]` | `session->state.pairSetup.*` |
| `ram.hap[s]` | `session->hap`: inactive, transient, or verified by Pair Verify |
| `ram.open` | sessions that exist on a transport |
| `ram.setup` | `server->accessorySetup` |
| `ram.failed` | an assertion of a caller that has failed |
| `store.owner`, `store.attempts` | key-value store: first pairing; `NumUnsuccessfulAuthAttempts` (a byte) |
| `lifecycle`, `engine`, `updatePending` | `server->state`, `server->ip.state`, `server->callbackTimer` |
| `handling` | the session whose write has returned in this handler and whose read is next |

Actions: `WriteM1`, `WriteM3`, `WriteM5` and their failures are
`HAPPairingPairSetupHandleWrite` with everything it does first (closing transient
sessions, restart by the same session, takeover after the timeout, claim);
`ReadM2`, `ReadM4`, `ReadM6` and their failures are `HAPPairingPairSetupHandleRead` with
the closing of sessions that follows the response over IP. `Start`, `Stop`, `EngineIdle`,
`CallbackTimerExpired` are the server; `OpenSession`, `CloseSession`, `VerifySession`,
`RemovePairings`, `RequestOnTransientSession` the sessions; `RefreshTimerExpired`,
`NFCTimerExpired`, `EnterNFC`, `ExitNFC`, `RefreshPayload` the setup info; `Reboot` loses
power at any moment, in the middle of a handler too.

A message is known by its `kTLVType_State` and by what the step makes of it: M3's proof is
`good`, `bad` or `illegal` (the public key is zero modulo N), M1 has a method and flags, M5
decrypts and verifies or not. Whether a good proof verifies is not assumed: M4 fetches the
setup info *again* (`SetupInfoM4`), and the proof is good only for the salt and
verifier that this session's M2 was computed from.

### `PairingContract`

Three variables: who owns the accessory, the failed attempts, and who has proved the
setup code and has yet to pair. Its actions say: only a prover pairs, only when nobody owns
the accessory; an attempt needs the counter below the limit; a good attempt clears it;
anything may be given up at any time. `PairSetup` implements it with `prover <- Prover`
(the holder of the procedure in step 4), `owner <- store.owner`, `attempts <- store.attempts`.

### `Pairings`

State and its origin:

| TLA+ | C |
|---|---|
| `pairings[key]` | domain `kHAPKeyValueStoreDomain_Pairings`: who, and whether an admin |
| `sess[s].hap` | `session->hap`: `.key` is `pairingID`; `.who` is a ghost for the session's encryption keys, which only the controller that was verified has |
| `sess[s].verify`, `.change` | `session->state.pairVerify`, `session->state.pairings` |
| `sess[s].io` | state of the IP connection (reading, writing), or the BLE link (`reading` while it is open, `terminal` once it is to be terminated) |
| `sess[s].flag` | IP: `securitySession.isSecured`; BLE: `startedSecured` of the procedure |
| `sess[s].begun` | BLE: the characteristic of the procedure in progress |
| `cache` | `server->ble.storage->sessionCacheElements`; the session ID is the slot |
| `handling` | the session whose write has returned in this handler and whose read is next |

A request is a write and a read. Over IP (`handle_pairing_data`) the second follows the first in
one handler; over BLE (`HAPBLEProcedureProcessTransaction`) the same handler may read, or a
later procedure reads without having written. So the write ends in `WriteDone`, whose disjuncts
are the two, and `CanRead` has two as well. The read ends in `ReadDone`: `Respond` gives the
response to the transport, and `Answer` adds what `handle_pairing_data` does to *other* IP
sessions. `FailRequest` is an error response, which does not look at other sessions.

Actions: `VerifyM1`, `ResumeM1`, `VerifyM3`, `VerifyM3Refused`, `VerifyM2`, `ResumeM2` and `VerifyM4`
(which start a session, `StartSession`), `VerifyReadError` are Pair Verify; `UpdateM1`, `AddM1`,
`AddM1Refused`, `RemoveM1`, `ListM1`, `ChangeRefused`, `AddM2`, `ListM2`, `M2Refused`, `RemoveM2`,
`RemoveM2Nothing`, `ChangeReadError` are Pairings; `UpdateM1NotCleaned` and `RemoveM2NotCleaned` fail half way through the clean-up;
`WriteRejected`, `ReadRejected`, `OtherRequest`, `ReadRefused` are requests out of order, that do
not fit, or need another security. `Connect`, `Disconnect`, `Written`, `BeginProcedure`,
`DropLink` are the transports. `Start` completes an interrupted purge; `Reboot` loses power between
any two steps, and `RebootDuringPurge` between any two removals of a purge, which `PartlyPurged`
leaves in any subset, since a directory is enumerated in no order. `VerifyM1Active`,
`StartSessionUnpaired`, `OwnPairingGone`, `InputOfRemoved` and `StoreFails` are assertions that
can fail: they record which in `failed`, and only a reboot follows.

### `PairingTable`

One variable: each controller's access (none, user, admin). Somebody becomes the first owner when
nobody has access; an admin grants and revokes; without an admin nobody keeps access. `Pairings`
implements it with `access <- AccessBy(pairings)`. The mapping hides keys, sessions and the
purge: from the moment the list has no admin nobody has access, and the removals that follow,
with or without a loss of power in between, are stutters. That is so only because neither
`HAPAccessoryServerIsPaired` nor the clean-up at start takes what is left for a paired accessory
or an admin for gone.

### `IPServer` and `EventContract`

| TLA+ | C |
|---|---|
| `server.state`, `.listening` | `server->ip.state`; whether the TCP listener is open |
| `sess[s].io` | `session->state`: `free` (not in use), `reading`, `writing`, `idle` (closed, not yet collected) |
| `.input`, `.unsent`, `.serializing`, `.chunks` | inbound and outbound buffers in parts; `accessorySerializationIsInProgress` and the chunks still to be serialized |
| `.secured`, `.hap` | `securitySession.isSecured`; the HAP session, `gone` when its pairing is removed |
| `.subs`, `.flags`, `.event` | `eventNotifications` and their flags; what the notification being written tells |
| `.pid`, `.left` | `timedWritePID`, `timedWriteExpirationTime` |
| `.idle`, `.age` | time since `stamp`, since `eventNotificationStamp`, both up to the bound at which they make no more difference |
| `timer` | `garbageCollectionTimer`, `stateTransitionTimer`, `maxIdleTimeTimer`, `eventNotificationTimer` |
| `quiet`, `grant`, `misused` | history: last ordinary notification, what has been prepared and not used, a write out of order |

An action is a callback of the run loop: `Receive`, `SendPart`, `SendChunk`, `SendLast`,
`SendToRemoved` are `handle_io` with the requests that become complete in it (`HandleHTTPRequest`,
one disjunct per endpoint) and `handle_io_progression` after it; then the four timers, `Accept`,
`Start`, `Stop`, `RaiseEvent`, and `Tick`. A handler works on intermediate session states (`S`) in the
code's order. `EventContract` says what a subscriber is promised: it learns of every change but its
own, as long as it is entitled, nothing is told twice, and when is left open. `IPServer` implements it with
`subs`, `flags`, `event` and the active sessions.

### `IPMessages`

| TLA+ | C |
|---|---|
| `conn.data` | `inboundBuffer.data` up to its limit when the session is about to read, each byte known by where it comes from: the i-th that the controller means to send (`Plain`), or the w-th on the wire (`Wire`), which is part of a frame that is not open |
| `.mark`, `.reader` | `inboundBufferMark`, up to which the bytes are open; `httpReaderPosition` |
| `.http` | `httpReader.state` and `httpParserError` |
| `.secured`, `.nonce` | `securitySession.isSecured`; the frames opened with the session's keys, which is the nonce of the next |
| `.io`, `.unsent` | `session->state`; bytes of the outbound buffer that are still to be written |
| `.torn` | ghost: a request was handled while a part of a frame lay behind it |
| `arrived`, `sealed`, `pipelines` | the controller and the network: bytes that have been read, where each sealed frame ends, whether the controller sends without waiting |
| `served` | history: the bytes of each request that was handed to a handler |

`ReadInboundData(n)` is a callback in which `n` bytes are read: `Decoded` opens all frames that are there, in place
(`HAPIPSecurityProtocolDecryptData`), `ReadHTTP` lets the reader go on from where it was, and if the request is complete
`HandleHTTP` hands it over, moves what follows it to the front (`ShiftLeft`, as `HAPIPByteBufferShiftLeft` does it) and
seals the response in place (`Encrypted`), or a short one if the length that was counted for it does not fit.
`WriteOutboundData(n)` writes a part of it; when all is written the reader starts again with what
is already in the buffer, at once. `SealFrame` is the controller, which cuts what it sends into frames without regard to
requests; nothing is assumed of the segments either.

### `BLELink`

One variable, the record `b`, whose fields the module's comment ties to the C structures one by one.
A C function is an operator from a state to the *set* of states it may leave, since what the central
sends is a choice. `HandleReadRequest` and `HandleWriteRequest` are the GATT callbacks: session
terminal, fallback or full procedure, attach and detach, the transaction's fragments, the check of
security at the start and again at the request, the reply, and the timers. Malformed input is an
error that invalidates the session and terminates the link.

### `BLETransactions` and `BLERequests`

`transaction` is `HAPBLETransaction`, with its buffer as a sequence of bytes; `WriteFirst`, `WriteNext`,
`WriteStray` are `HAPBLETransactionHandleWrite`, with the three kinds of PDUs and every limit on sizes;
`ReadNext` processes a complete request and hands out fragments (`HAPBLETransactionHandleRead`).
`BLERequests` is what a request does: characteristic and service signatures, the broadcast
configuration of a characteristic, the configuration of the protocol, software tokens, information. What
the central can put together from the answers, with the defaults of the specification for what
is left out, is compared with what it asked.

### `Advertising`

`kv` is the key-value store, `v` the process, `h` what the outside has seen (the nonces of broadcasts,
the versions that ran under each configuration number, what the controller knew). A handler is a *trail*:
the sequence of the contents of the store after each of its writes. It runs to its end, or power is lost
after any of its writes. Actions are start, stop, factory reset, removal of pairings, connection,
disconnection, sessions, generation and expiry of the broadcast key, configuration of broadcasts,
events, and the advertising timer.

### The data plane

* `AccessoryDatabase`: `context` is `HAPIPAccessorySerializationContext`, one action is one call of
  `HAPIPAccessorySerializeReadResponse`, which takes as many states of its automaton as fit.
* `AccessoryProtocol`: a request as fields, `contexts` as `HAPIPReadContext` or `HAPIPWriteContext`, the
  response as the pieces that the formatter appends, each with its bytes. `GetCharacteristicsRequest`,
  `PutCharacteristicsRequest` and `PutPrepareRequest` parse, `RaiseEvents` makes the contexts of a
  notification, `HandleRequests` leaves any status and value, `Respond` counts and writes.
* `CharacteristicAccess`: one action handles the next context of a request, or a BLE request, from
  the check of permissions to the handler's call and the formatting of its result; `cells` is the
  data buffer. `Characteristics` has the validation that says which definitions are legal, and the
  constraints and conversions.
* `TLV8`: `memory` is the buffer that reader and formats work in; `DecodeVoid` decodes a document by a
  format, `ReadAll` collects items by type, `EnumerateSequence` decodes a sequence later, `EncodeVoid`
  encodes the decoded value into buffers of several capacities.

### The platform

* `RunLoop`: `list`, `cursor` and `fh` are the handles, `timers` the list by deadline, `pipe` and `buf` the
  self-pipe cell by cell, `call` the client callback in progress, in which the client may register,
  update and deregister anything. Steps follow the loop: timers, select, handles, messages.
* `TCPStreams`: listener, streams and the count that decides whether the listener is polled; its
  client is the IP server.
* `KeyValueStore`: `dir` is the directory, `past` the states of it that power loss may bring back,
  `op` the operation in progress, whose steps are system calls, `may` the values a key may have.

## The runs

| Run | Instance | Shows |
|---|---|---|
| `PairSetupIP` | three IP sessions, display, NFC, coprocessor, limit 3 | types; a code is refreshed for one use only; `PairingContract` is implemented |
| `PairSetupNFC` | two IP sessions, NFC and no display, with fairness | no secret without a use; the deferred update is not lost; NFC pairing mode ends after pairing |
| `PairSetupBoth` | an IP and a BLE session, static setup info | split writes and reads keep the procedure and its setup info; the transports compete correctly for it |
| `PairingsIP` | three IP sessions, three controllers, two keys, one of them reused | one pairing per controller, always an admin, no session that reads under a removed pairing |
| `PairingsBLE` | one BLE session, three controllers, three keys, two cache entries | sessions and cache entries belong to the controller of their pairing; only admins change pairings |
| `PairingsStore` | an IP and a BLE session, two controllers, a store that may fail | `PairingTable` is implemented, whatever assertion fails |
| `IPEvents` | two sessions, an ordinary and a switch characteristic | a notification that is due has its timer; `EventContract` is implemented |
| `IPServer` | two sessions, a timed characteristic, the database in two chunks, a server that stops, with fairness | a prepared write is executed once and in time; a stop comes to its end |
| `BLELink` | two pairing characteristics, Pairings and one other, with fairness; in other behaviours, requests and responses in fragments | access stays secured, prepared bodies and events are kept, a terminal link ends; a request is handled as it was written and its answer is true |
| `Advertising` | two characteristics, two values, state numbers up to 7, two firmware versions, a reset | nonces are not reused; identity and configuration number are right; missed events show |
| `Platform` | three timers, some of them for at once, four handles, two streams, three scheduled callbacks; or two keys with failures and power loss; or an IP session with six requests | a callback reaches what was polled; callbacks and timers in order; a key keeps its value; requests are served whole, in order and at once |
| `Data` | four parts: the database for several buffer sizes; requests and responses; reads and writes of every format; TLV documents | chunks make the document; counted bytes; contexts and writes are right; no handler is missing that the validation asks for; TLV values survive in-place merging and encoding |

What the properties are about is said at their definitions. Those worth a remark:

* `ProcedureOwned`, `PairingNeedsProof`, `KeepsContract` (Pair Setup): who holds the procedure, through
  restart, takeover, closed connections and unexpected order. `CorrectCodeNotCounted`: M2 and M4 fetch the
  setup info separately, and the one is still the other's.
* `OnePairingPerController`, `AdminExists`, `KeepsTable`: the list of pairings, through concurrent changes,
  interrupted purges and reuse of keys. `RemovedNotReading` holds without BLE; `SessionPeer`,
  `CacheEntriesPaired` and `AdminsChangePairings` without IP. With both transports they do not:
  see [where the code deviates](#where-the-code-deviates).
* `KeepsContract` (IP server): no change is lost or told twice, nobody hears of own writes, and nobody
  whose pairing is gone hears of anything. It covers the flags that a closed, full, writing or
  transient session has or has not.
* `StopCompletes`: from any state of any session, with nothing assumed of clients but that they stop
  sending one request after another for ever.
* `NonceFresh`: no key and state number are used for two plaintexts, whatever write the power is lost after. A write of
  one key and a purge of one domain are atomic in the listed run; with a purge that is interrupted it does not hold, see
  [where the code deviates](#where-the-code-deviates).
* `ValueSurvives`: after a loss of power a key has the value last set, or one that was being set or set with an
  error since. The file system of the model loses names since the last synchronization of the directory and
  contents since the last synchronization of the file.
* `RequestsServed`: what is handled are the requests that were sent, byte by byte, however they were cut into frames and
  segments; a session that waits has handled everything that has arrived whole (it would not be told of it again) and
  has room for more; of a controller that waits for each response no byte is lost. For one that does not wait the
  last is false: see [where the code deviates](#where-the-code-deviates).
* `RequestAsWritten`, `AnswersTrue`, `PiecesMakeDocument`, `BytesCounted`, `WritesAsAsked`, `ValuesKept` compare what the code's algorithms do, buffer by buffer and state by state, with what
  they are for, defined apart from them: the document, its length, the value asked for, the
  meaning of a TLV document.

Bounds, and why they are enough:

* *Sessions*: a takeover has two parties; the third IP session is the bystander that claims, closes, or
  removes the pairing meanwhile. BLE has one link. IP sessions are interchangeable, so the runs without
  liveness use symmetry where it pays. With two sessions of `IPServer` the server is full.
* *`MaxTries`*: 1 to 3 instead of 100; only comparison with the limit matters, and `AttemptLimit` is
  proved for every limit up to 255.
* *Controllers and keys*: an admin, the controller it acts on, and a third that takes over the key of a
  removed one; with two keys the list of three controllers overflows. One cache entry is replaced by each
  new one, two differ.
* *IP server*: delays and lifetimes of one tick, since an age counts only up to its bound; buffers of one
  part and chunks of which there are two, so that a transfer can stop at every place. In `IPServer` no
  characteristic has events (`MaxEvents = 0`), which are the subject of `IPEvents`.
* *BLE*: one further fragment; requests with scratch buffers of 6, 30 and 60 bytes, fragments of 3 bytes, and
  rooms of 2 to 60 bytes for those of responses. *Advertising*: `MaxGSN = 7` wraps within two key lifetimes;
  `MaxConfig`, `MaxSessions`, `MaxResets`, `MaxFirmware` bound history.
* *Platform*: two descriptors can be reused while a turn still has a third to process; a context of
  three bytes and a pipe of eight make partial writes and a full pipe. `MaxTime`, `MaxTimers`, `MaxMessages`,
  `MaxConnects` bound the length of behaviours. The session has six requests in 13 bytes, with and without a body,
  the second of which is Pair Verify M3 and the last one malformed; frames of up to three bytes with one byte each of
  length and tag; an inbound buffer of 8 bytes, which holds more than a request and less than three frames; and an
  outbound one of 7, so that one response has two frames and another does not fit once it is sealed.
* *Data*: integers of 3 and 4 bits, floats in tenths, a data buffer of 24 bytes with bodies up to half of it,
  three contexts, chunks of at least 1 and 7 of 10 bytes; TLV fragments of 2 bytes, so that documents of two
  items (three in lists of unions), each also cut by a byte, have items of several fragments.

There is no state constraint. Deadlock is checked except where the system may rest: a data plane that has
answered, a run loop that has stopped, a link whose process has aborted.

## Fairness

* `PairSetup.FairSpec`: strong fairness of `CallbackTimerExpired` and weak fairness of the read that completes
  a handler. The timer is registered with deadline zero, so that the run loop fires it at its next turn;
  the action is disabled only in the middle of a handler, repeatedly, which is why weak fairness would not
  say so. A handler is a function that returns.
* `IPServer.FairSpec`: weak fairness of `Tick` and of the four timers: time passes, and the run loop fires what
  is due. Nothing is assumed of clients.
* `BLELink.Fairness`: weak fairness of the timers, and of the disconnection that the platform has been asked
  for.
* `TCPStreams.TCPFairness`: the run loop takes its steps and client callbacks return; strong fairness of
  `select`, since signals interrupt it, though not for ever. With it `ScheduledRuns` holds, beside the listed
  runs.

Nothing is assumed of controllers, the application or power.

## The proofs

Each component's theorems are in a module of their own. Assumptions are the named ones of the component,
which TLC evaluates in its runs.

### Pair Setup

`SetupInfoAssumption` (the NULL session is no session; two Booleans) and `PairSetupAssumption` (sessions are
those of the two transports, at most one BLE session, a limit that fits the byte it is compared with).

| Theorem | Statement |
|---|---|
| `Invariance` | `Spec => []IInv` |
| `TypeCorrect` | `Spec => []TypeOK` |
| `OneProcedure` | `Spec => []ProcedureOwned` |
| `AttemptLimit` | `Spec => []AttemptsBounded` |
| `UnpairedWhilePairing` | `Spec => []NoProcedureWhilePaired` |
| `ProofBeforePairing` | `Spec => PairingNeedsProof` |
| `ImplementsContract` | `Spec => KeepsContract` |
| `SetupInvariance` | `Spec => []SInv` |
| `PinnedWhilePairing` | `Spec => []SetupInfoPinned` |
| `AlwaysRefreshed` | `Spec => []CodeRefreshed` |
| `UpdateKept` | `Spec => []UpdateNotLost` |
| `OnlyBadProofsCount` | `Spec => CorrectCodeNotCounted` |
| `CodesHaveUse` | `BLESessions = {} => (Spec => []SecretsHaveUse)` |

The first part of `PairSetup_proofs` shows that every operator of the setup info manager maps `SetupInfo` to
`SetupInfo`. `IInv` joins the types with `StepsOwned`: a session past M1 or with a pending error is the
current one; the current one is open and has begun; a session in step 2 or 3 has attempts left; in steps 2 to 4
nobody owns the accessory; in step 4 the proof was good. None of these is inductive alone.
`AttemptsBounded`, for instance, needs the step-2 and 3 conjunct, because M4 increments without looking; that
conjunct is preserved by another session's M4 only since there is no other session past M1; and that
in turn needs that every way of leaving a procedure resets *both* the server's record and the session's. The
lemmas follow the structure of the code: one for each transformer of the volatile state (`StopPairing`,
`ForgetSteps`, `Abandon`, `TakeOver`, `Claim`, `BeginWrite`, ...), then one for each action. In the middle of a
write the invariant is weaker: a session has claimed but not begun (the set `S` of `StepsOwned`).
`ImplementsContract` uses `IInv` on both sides of a step.

The next four are about what lies between the procedure and the setup info manager. `SInv` says of the setup info that it
is `Sound` (no assertion has failed; a code of a display has its refresh timer exactly when it is unlocked; what is
shown is what is in memory, or there is none), of the procedure that its holder finds the code locked and, until its proof
has been checked, served (`HolderPinned`), and of the deferred update that when none is pending it has been done
(`Updated`). A handler changes the three one after another, and may end in an assertion or lose power between any two of its
calls, so that `SInv` is about `Safe` states, which are those where either an assertion has failed or all is in order;
the lemmas show that each operator of the setup info manager and each transformer of the procedure takes `Safe`
states to `Safe` states, and the handlers compose them in their own order. `OnlyBadProofsCount` is the use of it: M4 counts
an attempt only if the proof was bad, since the salt and verifier are those of M2.

`CodesHaveUse` is stated without BLE. Its invariant `UInv` says that a locked code has a holder, or is kept for the second
part of a split Pair Setup (`keep`), and that a session between M5 and the end of M6 is in the middle of a handler. Over
BLE the latter is false, since write and read are handlers of their own there: that is the deviation of
`MCPairSetupSynchronize.cfg`.

### Pairings

`PairingsAssumption`: at least one key and one cache entry, the NULL session and the NULL controller are none,
the sessions of the transports are disjoint, and there is at most one BLE session (the code has one link).

| Theorem | Statement |
|---|---|
| `TypeCorrect` | `Spec => []TypeOK` |
| `OnePairing` | `Spec => []OnePairingPerController` |
| `AlwaysAnAdmin` | `~StoreMayFail => (Spec => []AdminExists)` |
| `TableKept` | `Spec => KeepsTable` |
| `RemovedSessionsClosed` | `BLESessions = {} => (Spec => []RemovedNotReading)` |
| `SessionsHavePeer` | `IPSessions = {} /\ ~StoreMayFail => (Spec => []SessionPeer)` |
| `CacheIsPaired` | the same hypotheses `=> (Spec => []CacheEntriesPaired)` |
| `VerifyPreconditionsHold` | the same hypotheses `=>` neither precondition of Pair Verify fails |
| `OnlyAdminsChange` | the same hypotheses `=> (Spec => AdminsChangePairings)` |

`IInv` adds to the types that an IP session whose `isSecured` flag is set is active, and so has a key to look its
pairing up with (`SessionOK`), and that a server that has not been started has no handler running and no
flag set. Every step is then shown to do to the list one of a few things (`Changed`): nothing; set up the first
pairing; add one with a free key of a controller that has none; revise one and clean up; or the same
without coming to the end of the purge, in which case the power is lost or the store has failed.
`AdminThere` is the step that needs the sessions: whoever changes the list has just been seen to be an admin.
From `Changed` follow `OnePairing`, `AlwaysAnAdmin` (a clean-up leaves an admin or nothing) and `TableKept` (each
kind of change is an action of `PairingTable` or a stutter). `RemovedSessionsClosed` is about sessions: `QInv`
says that while no handler runs no reading session has lost its pairing (`Quiet`), and that in the middle of a
handler one may have only if the handler's write was an Add Pairing (`Purging`). Such a handler ends in
`Answer`, which closes those sessions, or in the assertion of `OwnPairingGone`, never in `FailRequest`.

The last four are about BLE alone and a store that works, since with both transports, or when a removal is not
completed, TLC finds them violated. `BInv` says that what a
session or the cache knows of a pairing is true of the list: the session that changes the list is the only one there is,
so that nobody else loses a pairing by it; a session that has removed its own is seen to be without it by the read of the
same handler, which leaves the link terminal; and whatever removes a pairing invalidates its entry of the cache in the
same step, before the key can be given away.

### Key-value store

Assumed: `KeyValueStoreAssumption`, and `FsyncFails = FALSE`, that the two calls of `fsync` whose failure the code
only logs do not fail. Calls may fail otherwise, and the process may be unprivileged.

| Theorem | Statement |
|---|---|
| `StoreInvariance` | `KVSSpec => []IInv` |
| `StoreTypeCorrect` | `KVSSpec => []KVSTypeOK` |
| `ValuesSurvive` | `KVSSpec => []ValueSurvives` |

`ValueSurvives` alone is not inductive: that a rename is safe depends on what the steps before it have synchronized.
`OperationOK` says for each system call what the operation has done so far (the temporary file has the value and is
synchronized before the rename; a removal has unlinked all but `left`), and `NothingComesBack` that a name that is
gone is gone in every directory that a loss of power may bring back, except between the unlink and the
synchronization that follows it.

This part, the next and the [bytes of an IP session](#bytes-of-an-ip-session) are in `Platform_proofs`.

### Run loop and TCP streams

`RunLoopAssumption` (numbers are numbers, there is a handle and a descriptor, a context fits), `TCPAssumption` (the NULL
handle is none; interests are events). There may be any number of handles, descriptors, streams, timers and callbacks.

| Theorem | Statement |
|---|---|
| `HandlesInvariance` | `TCPSpec => []HInv` |
| `OnlyPolled` | `TCPSpec => []OnlyPolledHandles` |
| `MessagesInvariance` | `TCPSpec => []MessagesInv` |
| `MessagesInOrder` | `TCPSpec => []CallbacksInOrder` |
| `TimersFireByDeadline` | `TCPSpec => TimersByDeadline` |

`HInv`: the list has no handle twice and no two with one descriptor; the iterator is at its end or in the list; a handle
of the list that still awaits its events was in the list, with the same descriptor, when `select` was
called (`RoundOK`); and whoever owns a handle has it in the list. A handle that is freed and registered again within one turn
does not await anything, and this is what keeps a callback from events that were reported of its predecessor.

`MessagesInv`: what has not been read, in the buffer behind the context of the callback in progress and in the pipe, is the
concatenation of whole messages (`Whole`), the next of which is that of the next callback. A pipe that is full accepts
a message as a whole or not at all; a read takes as much as the buffer has room for, and may end in the middle of a
message. It is stated by the offset at which each message begins, since a concatenation would have to be
defined by recursion. With `CharSigned` the theorem still holds: a context whose size is read as a negative number
is never whole, so that callbacks stop (`ScheduledRuns`) and are not confused.

`TimersInv`: the list is sorted as timers are to fire. The code sorts a deadline of 0, which it stores as 1, as 0: so
timers that are to fire at once precede all others, the newest first. `TimersByDeadline`, which the run `Platform` checks
with such timers, says exactly that, and `TimersFireByDeadline` proves it with nothing assumed of the clients: the server
registers timers of both kinds (for at once at `HAPAccessoryServer.c:72`, `HAPIPAccessoryServer.c:441` and `:519`).
For timers with a deadline it is the order that `HAPPlatformTimer.h:38` promises; for those without it is the opposite.

### IP server

`IPServerAssumption`: bounds are numbers, the delays and the inbound and outbound buffers are not zero, the NULL
session and pid are none. There may be any number of sessions, characteristics and pids.

| Theorem | Statement |
|---|---|
| `TypeCorrect` | `Spec => []TypeOK` |
| `TimedWritesOnce` | `Spec => []TimedWriteOnce` |
| `TimerCoversEvents` | `Spec => []EventsScheduled` |
| `ContractKept` | `Spec => KeepsContract` |
| `EventsCoalesced` | `Spec => Coalesced` |

`IInv` adds `Good`, of every session with what it has prepared: the grant that the history variable keeps lasts exactly
as long as the server accepts the pid; a session that is secured is open and knows its pairing, and while it reads,
that pairing exists; what is due has been subscribed to, by a session that is secured. The third is what a request
needs (`Asks`: whoever changes subscriptions is entitled) and a notification (`Told`), and it holds because `PairingsRequest`
closes the sessions that read (`Orphans`), and `SendToRemoved` those that write.

A handler is a composition of functions on the sessions, each of which takes what the last has made of them, and the
lemmas are about these: what each keeps of `Good` and which timer it leaves (`Kept`), and what it does in terms of
the contract (`Permitted`: sessions end or stay as they are, one asks, or some are told; `LikePermitted` composes them).
`ContractKept` follows from `Permitted`, and `EventsCoalesced` from it and `AgeInv`: no session believes its last notification
to be longer ago than it is. No run checks `Coalesced`.

### Bytes of an IP session

`IPMessagesAssumption`: requests follow one another and none is without a header; lengths and capacities are not zero;
a response fits the buffer it is written into, and the short one also when it is sealed, which `handle_http` asserts. There may
be any number of requests, of any length, and the frames and buffers may have any size.

| Theorem | Statement |
|---|---|
| `EncryptedAsCounted` | `\A n \in Nat : Encrypted[n] = NumEncryptedBytes(n)` |
| `SessionInvariance` | `MsgSpec => []MsgInv` |
| `MessagesTyped` | `MsgSpec => []MsgTypeOK` |
| `RequestsAreServed` | `MsgSpec => []RequestsServed` |

The first is about the loop of `HAPIPSecurityProtocolEncryptData`: it ends where the division in
`HAPIPSecurityProtocolGetNumEncryptedBytes` says, so that the check before it is the right one. It is an induction over
the length, which is done without the induction theorem: if some length were a counterexample there would be a least one
(`WFMin`), and one frame less is a smaller one.

`RequestsServed` speaks of what has been handled and of what waits. Why it stays so is in the buffer, and `MsgInv` says it:
up to `mark` lie the bytes that follow the last request handled (`OpenInOrder`); behind it lie those on the wire that follow the
last frame opened, up to the last that arrived (`FollowsOpened`), unless a request was handled with a part of a frame behind
it (`torn`), and then the first of them is none that could begin a frame; the bytes opened so far are those of the first
`nonce` frames, so that a request boundary and a frame boundary need have nothing to do with each other (`SecuredOK`); the reader is
within the header of the next request or at its end (`ReaderOK`); and what a controller has sealed is no more than it was
willing to send (`SealedFor`), which is why `torn` needs one that does not wait. Frames do not overlap (`FramesInOrder`), so
that the choice of the last frame that can be opened is one. A callback composes decryption, reader, handler and buffer, and the
lemmas do the same: `Ready` is what `handle_input` finds, in whatever way it was called; `Decrypted`, `DecodedReady`, `ReadReady` and
`HandledWhole` say what each part makes of it, and `HandledInput` that the session then either waits, or responds, or is closed.
The case that the header of a request is complete before its body uses that a header ends in no other request (`EndsNextHeader`).

### Advertising

`AdvertisingAssumption`: the last state number is odd and at least 5, bounds are numbers, at least one firmware version
and one configuration number, the NULL value is none of the records. There may be any number of state numbers,
characteristics, values, versions, sessions and resets.

| Theorem | Statement |
|---|---|
| `StoreInvariance` | `Spec => []IInv` |
| `TypeCorrect` | `Spec => []TypeOK` |
| `PairingsOfIdentity` | `Spec => []PairingsMatchIdentity` |
| `KeysOfPairings` | `Spec => []KeyNeedsPairing` |
| `MissedSignalled` | `Spec => []MissedEventSignalled` |
| `NoncesFresh` | `~PartialPurge /\ ~Rollback => (Spec => []NonceFresh)` |
| `ConfigurationNamed` | `~PartialPurge => (Spec => []ConfigurationNamesFirmware)` |
| `AssertionsHold` | `~WarmRestart /\ ~RemoteRemoval => (Spec => []NeverAborted)` |

`IInv` is `OK` of the store, the process and the history. What it says of the store (`StoreOK`) has to hold of every store
of a trail, since power may be lost in any of them: `Survives` says so of a trail, `Joined` composes trails, and
`HandlerOK` reduces an action to the trail it leaves and the store and process it ends with. The state number is compared by
how far it is ahead (`Ahead`, modulo `MaxGSN`):

* `KnownOK`: under the configuration number that the controller knew, the number has been incremented since
  exactly if `didIncrement` is set, and is less than a turn ahead while the key lasts; so it does not come
  back to what the controller knew (`IncrementedOK`). After the key has expired only the flag bounds it.
* `Behind`: every number that the present key was used with is behind the present one, or is the present one with the
  same event (`SentOK`). Recording an update of the firmware is what needs it (`Torn`): the update removes the number first and
  the key afterwards, so that in between a key is in force whose numbers may be ahead. Start does the tasks again
  as long as the version has not been recorded, and nothing is broadcast until then. This is why the order
  of writes in `HAPHandleFirmwareUpdate` matters, and why a version that falls back in between does harm.
* `RanOK`: a configuration number that a version ran under is the present one only with that version recorded.

The last theorem has an invariant of its own (`TInv`): no timer runs during a connection; the slow timer and the
broadcast belong to an incremented number, and the broadcast to a key. It needs `IInv`: what an administrator is to the key.

### BLE link

`LinkAssumption`: the characteristics that drop the session, that of the pairings and those with events are
characteristics, and the pairings need a session. There may be any number of characteristics and of fragments.

| Theorem | Statement |
|---|---|
| `LinkInvariance` | `Spec => []IInv` |
| `TypeCorrect` | `Spec => []TypeOK` |
| `AccessSecured` | `Spec => []SecureAccess` |
| `BodyKept` | `Spec => []PreparedBodyKept` |
| `EventsSentInTime` | `Spec => []EventsNotStuck` |
| `FallbacksKeepSecurity` | `Spec => []FallbackKeepsSecurity` |
| `ActiveSessionsTimeOut` | `Spec => []ActiveSessionTimesOut` |

`IInv` adds to the properties what they rest on:

* `Prepared`: while a Timed Write waits to be executed, the transaction has no buffer, or it is the one that has
  prepared the body and is past its own request. Without it a fragment of the next request could be copied over
  the body, so that `PreparedBodyKept` is not inductive.
* `TerminalUnsecured`: a terminal session is not secured. A procedure that starts in a terminal session
  starts no timer, and one that is still in progress is not encrypted; neither gets access any more.
* An idle server has no connection, and without one no Timed Write is prepared.

A handler takes the state through several functions, and events are sent at its end, so `EventsNotStuck`
does not hold in between, nor does `KeptSecurity` from the acceptance of Pair Verify on, unless all fallback procedures
were aborted before. The lemmas are therefore about functions of a state `s`: `Good(s)` is what holds
between them (with `Timely`: an active session has its timer), each has a lemma that says which part it keeps,
`SameLink` is what the sending of events leaves alone, and `GoodSuffices` and `UnsecuredSuffices` lead back to `IInv`.
No run checks the last two properties.

### Characteristics

`AccessAssumption`: the scenarios are accessories and requests of the types of the C structures (`Definitions8`: the
constraints of an int are ints, the step of an unsigned format is unsigned), with events enabled at most once per
characteristic; handlers return the errors that `HAPCharacteristic.c` allows. Definitions, services, requests,
values, ranges and the lengths of all buffers are otherwise arbitrary.

| Theorem | Statement |
|---|---|
| `AccessInvariance` | `AccessSpec => []AccessInv` |
| `OnlyUncheckedHandlersMiss` | `AccessSpec => []OnlyUncheckedHandlersMissing` |
| `HandlersAreThere` | `AccessSpec => [](PlainAccessHandled => HandlersExist)` |
| `WritesAreAsAsked` | `AccessSpec => [](PlainWrite => WritesAsAsked)` |
| `FlagsAreCounted` | `AccessSpec => []FlagsCounted` |

`OnlyUncheckedHandlersMissing` has no hypothesis: a handler that is missing when it is called is one that the validation
forgets, of what can be read, or written, without security only, and the request came over BLE without security. The run
`Data` checks it on definitions with the permissions for reading, or those for writing, in every combination with the
handlers that the validation lets pass, and
on the Pairing service of the repository (`Applications/Lightbulb/DB.c`), whose characteristics are of that kind.
`HandlersAreThere` follows: if an accessory has the handlers that the validation says it asks for, as that service does,
none is missing.

The hypothesis of `WritesAreAsAsked` names what the code does not look at; without it TLC has counterexamples, which are
listed below under the deviations. `PlainWrite`, for the written definition: an int does not range over more than
`INT32_MAX`, a range of floats with a step is bounded and ends in a step, a string over IP has no NUL, and a TLV8 value
over IP is a string. It is about the accessory and the request alone, and the run `Data` checks the property on requests
of that kind.

`WritesAsAsked` says nothing of how a call came about, so it is not inductive. `AccessInv` has the reason: `ItemsInv` (what was
asked does not change while it is answered) and `Told`: unless the handler was not
called and the write is no success, the value is among those that the message converts to, its definition accepted it,
the controller may write it, the handler got it rounded to a step, and the read of a response came after
that. Each of the three handlers is taken apart into the ways it `Ends` a context, one lemma for each. What
remains is arithmetic, for a definition that has passed the validation: `IntegersAreRight`, `TextsAreRight` and
`FloatsAreRight` show that what was accepted and rounded is legal and what was meant; the last rests on `NearestStep`,
that rounding moves a value by at most half a step and never out of the range.

`FlagsCounted` counts with `Cardinality`: removing an element of the list moves those behind it, and the proof maps the
flagged indices of the new list one to one to those of the old one. No run of the list checks it.

### Accessory database

`DatabasesAssumption`: a database is a sequence of accessories, at least one of them, and each field of an accessory, service
or characteristic is of its kind. There may be any number of accessories, services and characteristics, supported or not, with
any properties, linked services and constraints, and chunks may end behind any number of states of the serializer.

| Theorem | Statement |
|---|---|
| `ChunksMakeDocument` | `DatabaseSpec => []PiecesMakeDocument` |

`PiecesMakeDocument` compares what has been sent with `Document`, which is defined from the accessories alone. The inductive
invariant `DatabaseInv` is about what has *not* been sent. `Rest(db, c)` is what is left of the document when the serialization
is at the context `c`: the rest of the object or array that it is in, by `RestAt`, and then what surrounds it (`Outside`,
`ObjectTail`), up to the last bracket. The invariant says that the context is one that the serializer can be in (`InPlace`:
each index that its element uses points to something that there is), and that what has been sent, the chunk and `Rest` of the
context make the document.

A step keeps it if its tokens are the beginning of `Rest` at the context it leaves, and `Rest` at the context it reaches is what
follows them. That is `Serializes`, shown for each kind of step: opening and closing of objects and arrays, names and values,
the separator of a field, the items of a list. Two things make it more than a case analysis.

* A characteristic leaves out the fields it has nothing for, and the serializer decides at each separator how far to
  skip. The document has an empty part for each of them (`Given`), and `ToLaterField` says that what is left behind a field is
  what is left behind a later one if all between them are empty (`NoFields`). Services and characteristics that are not
  supported are empty parts as well, so that the first and the next that is supported are where the rest begins.
* `Commas` is recursive: the parts of a list from the `i`th on, each with a comma before it. That the recursion defines a function
  at all (`CommasExist`), that it yields a text (`CommasTyped`) and that empty parts may be stepped over are inductions,
  done without the induction theorem: a set that contains 0, and with each number the next, contains them all (`SetInduction`,
  from `WFMin`).

### What is only model-checked

* Liveness under fairness (`NFCPairingModeEnds`, `StopCompletes`, `TerminalEnds`): out of the prover's reach.
* What the rest of the data plane computes for *every* input: `BytesCounted` and `ContextsAsAsked` (`AccessoryProtocol`),
  `ValuesKept` (`TLV8`), `RequestAsWritten` and `AnswersTrue` (`BLETransactions`). They compare what was written byte by byte
  or piece by piece with the whole; that is an induction over the data, by recursive operators or by folds over sequences.

Every other property of the runs is the statement of a theorem. `TextsKept` in `CharacteristicAccess` (texts stay in the
shared buffer until they are used) holds on the instance of `Data`, where it is not listed, and is not proved.

## Where the code deviates

What TLC shows when a configuration is changed as said here, or what was seen on the way. None is among the listed
runs, all of which pass.

Assertions and preconditions that can fail (each with a configuration file):

* `MCPairSetupTransient.cfg`: `HAPSession.c:184` asserts that a transient session never sees a pairing. POST
  `/pair-setup` closes transient sessions of IP only; a BLE transient session outlives a pairing made over IP, and its
  next request aborts the process.
* `MCPairSetupSynchronize.cfg`: `HAPAccessorySetupInfo.c:122` asserts that a pairable payload is presented by an
  unpaired accessory only. Between M5 and the reset after M6 over BLE the code is still available, and NFC
  pairing mode may end there.
* `MCPairSetupRestart.cfg`: without IP, a stop completes at once and leaves the callback timer that start
  registered. When it fires it prepares setup info for an idle server; the next start fails the precondition at
  `HAPAccessorySetupInfo.c:344`.
* `MCPairSetupUnstored.cfg`: `HAPPairingPairSetup.c:1314` does not allow for `kHAPError_Unknown`, which is
  returned when the key-value store fails; nor do `:1425` (`UnreadableDeviceIDHandled` on the same instance) and
  `HAPPairingPairings.c:871` (`StoreErrorsAllowed` on that of `PairingsStore`).
* `MCPairingsVerifyActive.cfg`: `HAPPairingPairVerify.c:147` requires an inactive session. Between M4 and its next input
  an IP session is active and its `isSecured` flag is not yet set; if an admin removes its pairing then, nothing
  closes it, it counts as not secured, and another M1 aborts.
* `MCPairingsInput.cfg`: `HAPIPAccessoryServer.c:3207` asserts that a session that was secured is secured. Only
  pairing responses over IP look for sessions whose pairing is gone; a removal over BLE does not.

On changed instances:

* `BLELink` without the PDU part (`MCBLELink` with `SPECIFICATION Spec`): `TimersDeregisteredInTime` (a timer of a
  fallback procedure is deregistered from its own callback, against `HAPPlatformTimer.h:57`) and `SecureSessionTimesOut`
  (`HAPBLESession.c:242` says that every secured session times out; a transient one that is between two
  procedures does not). `BodyHasBuffer` there: after a Timed Write the transaction has no buffer
  (`HAPBLEProcedure.c:1219`), so that a request that announces a body of no bytes, an Execute Write for one, passes the
  test of the room for it and fails the assertion at `HAPBLETransaction.c:43`, where the process aborts.
* `Advertising` with `WarmRestart` (a server that is reset and started again without being released) or `RemoteRemoval` (the
  last administrator is removed over IP while an event is being broadcast over BLE): the broadcast outlives its
  key, and an assertion on the key or on the advertising timer aborts the process (`NeverAborted`).
* `PairingsStore` with `PairingsReadErrors` (`HAPSession.c:512` does not allow for the error that is returned when the
  only admin has removed its own permission) or `AcceptsSecuredSession` (`HAPBLEPeripheralManager.c:1670` requires
  that a session that starts is secured; Pair Verify M4 does not look again for the pairing that M3 found).
* `PairingsIP` with `SessionPeer`: `HAPSession.c:144` says that concurrent removals are detected. Only the use of the key
  is: a session that is still writing when its pairing goes is secured again, with the rights of the new
  pairing, if a new Pair Setup stores another controller under the key before it is closed.
* `PairSetupBoth` with a display and `RefreshedUnlessPairing` (`HAP.h:4256` promises a periodic refresh; a code kept after a
  transient split procedure stays locked with no timer) or, over
  BLE alone, `PairedShowsNoCode` (a controller that repeats M1 after M5 ends the procedure with `keepSetupInfo` set).
* `Advertising` with `PartialPurge` or `Rollback`: `NonceFresh` (with the former also `ConfigurationNamesFirmware`) is violated, when power is lost in the middle of the
  purge of a domain, or the firmware falls back before its version has been recorded.
* `Platform` with `CharSigned` (`HAPPlatformRunLoop.c:440` reads the size of a context as a `char`, `ScheduledRuns`), `FsyncFails`
  (`FileManager.c:205` only logs), or `Root = FALSE` (`FileManager.c:148`: the file left by an earlier failure cannot be
  opened again; `:187` removes it relative to the current directory). As listed, with timers that are to fire at once, it has no
  order of registration for equal deadlines, which `HAPPlatformTimer.h:38` promises: a deadline of 0 is stored as 1
  (`HAPPlatformRunLoop.c:310`) and compared as 0 (`:321`), so that of such timers the newest fires first. This is why `Before`
  makes a difference between the two kinds; without it `TimersByDeadline` is violated.
* `Platform` with `BytesKept` in place of `RequestsServed`: `HAPIPByteBufferShiftLeft` (`HAPIP+ByteBuffer.c:22`) moves the
  bytes up to the position only, and sets the limit back. When `handle_http` calls it (`HAPIPAccessoryServer.c:2886`) while a
  part of the next frame lies between position and limit, which takes a controller that sends a request before the last one is
  answered, old bytes take the place of that part. The next input cannot be decrypted, and the session is closed; in a
  build with assertions the process aborts, as after every frame that cannot be decrypted, since `:3237` asserts that the
  error is -1 and it is `kHAPError_InvalidData`.
* `Data` with `HandlersExist`: the validation tests `readable` and `writable` where its comments and messages
  name `ble.readableWithoutSecurity` and `ble.writableWithoutSecurity` (`HAPAccessoryValidation.c:497-519`), and a handler
  that is not there is called.
* `MCAccess` with `AccessSpec` and `Scenarios` replaced: `MCNumberForTLV8`, `MCStringWithNUL`, `MCWideInts`,
  `MCUnalignedFloats` (`HAPIPAccessoryServer.c:1193`, `HAPCharacteristic.c:47`, `WritesAsAsked`). `Data` with
  `Spare = 0` (a response that fits its room exactly cannot be written, `BytesCounted`).

Seen while modelling: the status of a failed subscription is masked by that of the value written with it
(`HAPIPAccessoryServer.c:944`). A broadcast configuration is refused for the 42nd characteristic although
`HAPBLECharacteristic+Broadcast.c:240` says 42 fit (`:294`). `HAPBLEProcedure.c:236` says that service properties of an
unknown service are returned as 0; they are left out. A body length may be announced that the size of the header
does not count (`HAPBLETransaction.c:229`). The format decoder consumes items behind a flat struct member, so
that flat members work only last; sequences can be enumerated once (`HAPTLV+Internal.h:790`). A header field that is there twice
is noticed only if both are read in one callback (`HAPIPAccessoryServer.c:3087`: what has been seen is local to `read_http`).

## Abstractions

In every module:

* One thread runs all handlers; no order is undefined. Registering a timer succeeds.
* Cryptography is an outcome: a proof is good, bad or illegal, a message verifies or does not, a key is a value.
* Logging and the wording of messages are left out.

Pairing (`PairSetup`, `Pairings`):

* Out of memory and a full response buffer are nondeterministic failures of the step they belong to
  (`ReadM2Unsent`, `ReadM4Unsent`, `WriteMalformed`); the procedure timeout is a choice, since any time at which another
  session sends M1 may be later than it. A write of one key is atomic. A setup ID is provisioned: without one there is no
  payload to be shown (`HAPAccessorySetupInfo.c:119-128`), and the assertion there that fails is not reached.
* Failures of reads of the store in Pair Setup are `ReadError` and the assertions named above; in `Pairings` they
  are those of the accesses that the Pairings and Pair Verify handlers make. Those of `HAPSessionIsSecured` and
  `HAPAccessoryServerIsPaired`, which are answered as if nothing were stored, and of the clean-up at start, which aborts,
  are left out.
* The resume cache replaces the least recently used entry; the module lets it replace any. Session IDs
  are never equal. Responses fit the IP buffers, except for lists and encrypted data (`ReadRejected`).

IP server: one characteristic is written by a PUT; a response or notification fits the outbound buffer; read
handlers raise no events; a connection that is accepted without a free session is closed at once, a stutter;
the pairings that a request removes are those of IP sessions; a frame that cannot be decrypted is input that
cannot be understood. A timer may fire late.

Bytes of an IP session: a frame is authentic if its bytes are those on the wire, in order and as a whole; a byte of a
header ends it, is refused, or neither, however the reader gets there (a field that is there twice is left out); what a request asks for is the subject of `IPServer`. Pair Verify succeeds
when its M3 is handled; a controller seals from then on. The segment that is read is any part of what has been sent. `pipelines` says
whether the controller sends more before it is answered.

BLE link: timers have no times, so that one that may be restarted is due whenever it is registered; the platform
holds one indication; what the central sends, and whether it is well formed, is a choice; that the writer hears
nothing of its own write, and events for admins only, are left out; no service can be read without security.
A process that aborts stops.

Transactions: UUIDs have one byte; a number is its rank among sixteen; items of more than 255 bytes are left
out; the store does not fail there; any error drops the session. `BLELink` decides when a timed write is in
progress.

Advertising: each write of a key is atomic and durable; an I/O error ends in `HAPFatalError` and is a loss of power;
events begin after the first start; every Pair Verify gives a fresh key; what the controller knows is waived when
the power is lost during a connection; the application's own `configurationChanged` and the advertising
identifier are left out. The regular advertisement shows the configuration number in one byte
(`HAPBLEAccessoryServer+Advertising.c:317`); the model compares the numbers themselves, so `MissedEventSignalled` speaks of a
controller that has not been away for 255 changes of it. In the listed run pairings are removed over BLE only, a server that was reset is
released, a purge is not interrupted, and the firmware is recorded before it can fall back; each of these is a
constant, and the deviations above say what happens otherwise.

Data plane: the JSON tokenizer is external and gives whole tokens; a controller asks for a write response only
with a value; what handlers return is any legal value or error, as their documentation demands; the information
strings of an accessory are any; nested sequences, UTF-8 checks, `isValid` callbacks and the formats of single
values are left out of `TLV8`, as are authorization data and the unpaired write of Identify in
`CharacteristicAccess`.

Platform: the kernel reuses the lowest free descriptor, as POSIX says; `char` is unsigned unless a constant says
otherwise; the loop is created once; a signal does not interrupt every `select`; clients accept
only in the listener's callback and open the listener while no stream is open. The write of the temporary file
is synchronized or fails, changes of a directory become durable in order, and a rename is atomic.

## Not modelled

* *IP service discovery*: the contents of TXT records, without a control state.
* *Built-in services' request handlers*: they forward to the pairing procedures or return constants.
* *The GATT registration*, the tables of service and characteristic types, the information strings in the
  validation: data.
* *Legacy pairing mode* of the setup info manager (deprecated in the header), the *import of legacy state*.
* *MFi authentication*: the registers of the coprocessor; its presence, its failures and software tokens are
  modelled.
* *Helpers without state* (bit sets, UUIDs, device identifiers, version and number formats), the *base library*,
  *logging*, *platform adapters* that only call the operating system, the *Windows platform* and the mock
  platform of the tests.
* *Cryptography*: arithmetic out of the reach of model checking; *vendored parsers*: third-party, used through
  their results; *applications, tests and tools*: examples of use, read for the order in which they call the
  server.

`PROJECT.json` lists every component with its status.

## The plan

Done, in this order: Pair Setup with the setup info manager; Pairings with Pair Verify and the resume cache; the IP
server; life cycle and persistence; the BLE link and its transactions; the platform; the data plane; the theorems
above.

What would come next:

1. **Proofs**: `TextsKept`, whose invariant is that the texts of the answered contexts lie behind each other below
   `position`; the refinement of `PairingContract` and `EventContract` by one composed accessory; sizes in
   `JSONUtils`, whose writers are not recursive.
2. **Composition**: `IPServer` over `TCPStreams`, to drop the assumption about acceptance; `Advertising` over
   `KeyValueStore`, to replace `PartialPurge` by the purge that the store makes.
3. **Data**: authorization data, Identify, the formats of single values, bit sets.
