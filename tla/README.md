# Verification of Harmony Web Companion

Harmony Web Companion shows a browser tab on a HarmonyOS tablet.  An Edge
extension captures the tab, encodes it as H.264 and sends it over a WebSocket
(protocol HWC6, `ws://<receiver>:44000/direct`) to the Receiver application,
which decodes it onto an XComponent surface.  The repository also keeps the two
Windows programs that came before the direct connection: a relay between the
extension and the Receiver, and a host with a virtual display.  This directory
holds TLA+ models of these programs, the TLC runs that check them, and proofs
checked by TLAPS.

Paths below are relative to the repository; `cpp/` stands for
`receiver/entry/src/main/cpp/`, `ets/` for `receiver/entry/src/main/ets/`.

Contents: 1 inventory, 2 plan, 3-10 the models (decoder, sender, session, mDNS,
framing, capture, host, relay), 11 runs, 12 proofs, 13 findings, 14 what
is not modelled and known limits.

## 1. Inventory

| Component | State it keeps | Operations | What is hard | What makes it correct |
|---|---|---|---|---|
| **Decoder pipeline** (`cpp/receiver_session.cpp` 951-1380, `decoder_orchestration.h`, `decoder_state.h`, `receiver_lifecycle_state.h`, `avc_decoder_input.h`) | callback gate, recovery state, pending keyframe request, decode queue, input slots, decoder handle, surface and foreground, media contract | `HandleVideo`, `SubmitRecovery`, `SubmitFrame`, `PumpDecoderLocked`, `DecoderNeedInput`, `CreateDecoderLocked`, `DestroyDecoderLocked`, `FlushDecoder`, `ReconfigureDecoder`, five UI events | three threads, two mutexes and lock-free reads between them; codec calls that fail | the codec is fed in order, no buffer is used twice or after a flush, the decoder matches surface and contract, a keyframe is always asked for when only one helps |
| **Receiver session, authentication, pairing** (`cpp/receiver_session.cpp` 149-950, `native_protocol.*`) | trusted device, pending pairing, latest and active epoch, active contract, sockets, status | `Start`, `Stop`, `ConfigureTrust`, `AuthorizeQr`, `AuthorizeShortCode`, `ForgetDevice`, the accept loop, `AuthenticateConnection`, `RunConnectedSession` | UI calls against the worker, lost replies, reconnects with equal epochs | one session at a time; epochs never go back; an accepted contract is the decoder's; one-time authorisations are used once |
| **mDNS responder** (`cpp/mdns_responder.cpp`, `mdns_protocol.cpp`) | phase, probe counter, rate window, worker thread | probe, tie-break, announce, defend, answer, goodbye, stop | packets in any order or lost, stop from two threads against the worker | two tablets do not keep one name; a published record is withdrawn; a bounded response rate; stop never hangs |
| **WebSocket framing** (`cpp/websocket_protocol.cpp`, `bounded_control_queue.h`) | upgrade buffer, receive buffer, open fragment, telemetry queue | `ReadUpgrade`, `Push`, `Reset`, send | frames split and joined anywhere, partial sends, silent peers | messages come out whole, once and in order; only a malformed peer is cut off |
| **Receiver UI** (`ets/pages/Index.ets`, `EntryAbility.ets`) | preferences, registration generation, keep-screen-on chain | persist pairing, forget, register mDNS, window events | awaits interleave, crash between write and flush | native trust and stored trust agree; the last request wins |
| **Direct client** (`extension/direct-client.js`) | socket, authenticated flag, heartbeat | `connect`, `recover`, `sendVideo`, `close` | timeouts, late events of an old socket | one live socket; a lost connection is recovered or the capture ends |
| **Capture pipeline** (`extension/offscreen.js`) | stream, reader, encoder, connection, epoch, flags `running`/`stopping`/`reconfiguring` | `startCapture`, `stopCapture`, `consumeFrames`, `reconfigureForSource`, recovery | several async functions interleave at every `await` | a stopped capture releases everything; only the current source's output is sent |
| **Delivery** (`extension/direct-delivery-orchestrator.js`, `direct-resync-policy.js`, `keyframe-policy.js`) | two resync flags, sequence number | `deliver`, `requireKeyFrame`, `onKeyFrameSubmitted`, `reset` | encoder output lags the requests; loss at any point | what is sent is decodable; every loss is followed by a keyframe |
| **Video contract** (`extension/video-contract.js`) | frame size tracker, rate gate | candidate search, `observe`, `shouldSubmit` | numeric edges | even, in-bounds sizes; three equal frames before a change |
| **Service worker** (`extension/service-worker.js`) | the mode shown, in `chrome.storage.session` | `startProbe`, `stopProbe`, `failProbe`, `finishUnexpectedCapture`, `resetProbe` | overlap at awaits, late messages of an old capture | the mode shown is the capture's; no document outlives it |
| **Storage, epochs, setup** (`extension/pairing-store.js`, `source-epoch-allocator.js`, `pending-pairing-store.js`, `host-permissions.js`, `setup.js`) | records in `chrome.storage`, epoch high-water mark | save, load, clear, allocate | concurrent callers, worker restart | epochs strictly increase over restarts |
| **Relay** (`relay/src/websocket_server.cpp`, `lan_sender.cpp`, `main.cpp`) | listener and client socket, pairing, video and control sockets, key-frame request | accept, handshake, authenticate, forward, `ConfigureReceiver`, control loop, `Stop` | three threads that share variables without a lock; sockets closed under blocking calls | datagrams in order; nothing of a former Receiver is obeyed; `Stop` ends |
| **Windows host server** (`host/app/host_server.cpp`, `data_plane_gate.h`) | pairing code, session, resume window, gate epoch | accept, pair, resume, clear, `SendVideoFrame`, `Stop` | control and pipe thread, resumption against expiry | video goes to the paired client only; a code pairs once |
| Monitors, native glue, UI assets, host encoder and display driver, build scripts, vendored QR code | | | | not modelled, section 14 |

**Interactions.** Service worker -> offscreen document by messages, answered in
order (`CaptureController`); offscreen -> encoder by calls and an output callback
(`SenderDelivery`); extension -> Receiver by WebSocket messages
(challenge/proof/auth, video, ping) and back (ready, keyframe, telemetry, error):
their bytes in `WebSocketFraming`, their contents in `ReceiverSession`, what they
carry in `SenderDelivery` and `DecoderPipeline`.  The Receiver's network worker
shares atomics and two mutexes with the codec's callback thread and the UI thread
(`DecoderPipeline`), and it starts and stops the mDNS responder, which has a thread
of its own (`MdnsResponder`).  ArkTS -> native by N-API calls and polling of a
status snapshot.  The relay and the host stand alone: each is a model of its own.

How the models meet: the connection that `SenderDelivery` loses and recovers is the
session that `ReceiverSession` opens and ends; `DecodableStream`, what a sender
promises, is the stream of complete keyframes and pictures that `DecoderPipeline`
receives; `MessageStream`, what the framing promises, is what lets
`ReceiverSession` treat a message as one step; the connections, encoders and
flags that `SenderDelivery` handles as one capture are those whose start and
stop `CaptureController` takes apart.

The hazards found in this inventory are listed, each at its line, in
`PROJECT.json`.

## 2. Plan

Order of work; the most important behaviour comes first.

1. `DecoderPipeline`, `DecoderPipelineProofs`: **done**.
2. `SenderDelivery`, `DecodableStream`, `SenderDeliveryProofs`: **done**.
3. `ReceiverSession`, `DeviceTrust`, `ReceiverSessionProofs`: **done**.
4. `MdnsMessages`, `MdnsResponder`, `MdnsResponderProofs`: **done**.
5. `WebSocketFraming`, `MessageStream`, `WebSocketFramingProofs`: **done**.
6. `CaptureController`, `CaptureControllerProofs`: **done**.
7. `HostServer`, `HostServerProofs`: **done**.
8. `Relay`, `RelayProofs`: **done**.
9. Left: the pages' persistence of the pairing (`ets/pages/Index.ets`) and of the
   epochs' high-water mark, the size tracker and candidate search of
   `video-contract.js` as pure functions, the host's encoder queue.

Each component module `M` has an `MCM` module with the sets its instances use; the
`.cfg` files give the numbers.  The abstract specifications are `DecodableStream` (what
`SenderDelivery` promises a decoder), `MessageStream` (what `WebSocketFraming`
promises a session) and `DeviceTrust` (what `ReceiverSession` promises its user).  Every
safety property that a passing run checks is a theorem, and so are the three refinements.

## 3. DecoderPipeline

### State and actions against the code

The module has one variable per shared field of `ReceiverSession` (the comments of
the `VARIABLES` declaration name them) and one control variable per thread:

* `net`: the network worker.  `offline` (no session), `auth` (inside
  `FlushDecoder` or `ReconfigureDecoder`), `prepared`/`refused` (answering),
  `idle` (in `recv`), then the steps of `HandleVideo`: `route`,
  `submitRecovery`/`submitFrame`, `pump`, and `consume` (end of the round).
* `cb`: the codec's callback thread in `DecoderNeedInput`.
* `ui`: the UI thread in a surface or application event.
* `stage`/`job`: the lifecycle procedure run by whoever holds
  `decoder_lifecycle_mutex_`, and its locals.
* `pump`/`cur`/`submitted`: `PumpDecoderLocked`, run by whoever holds
  `decoder_queue_mutex_`.

A procedure is split where another thread can observe or change something between
two of its steps: at an unlocked atomic read that decides a branch (`RouteAU`), at
each acquisition of a mutex, at each store of the gate, at each codec call, and
inside `OnInputSubmitted`, which loads, computes and stores the recovery state
without a compare-exchange (`PumpPush` loads, `PumpStore` stores).  What runs under
a lock with no such point is one action.

| Code | Definitions |
|---|---|
| `HandleVideo` | `EnterHandleVideo`, `RouteAU`, `SubmitRecovery`, `SubmitFrame` |
| `DecoderRecoveryCoordinator` | `AdvanceDecoderRecovery`, `DecoderInputAllowed`, `Overflow`, `ConsumeKeyFrameRequest`, `ResetRecovery` |
| `PumpDecoderLocked` | `PumpTake`, `PumpPush`, `PumpStore`, `EndPump` |
| `DecoderNeedInput` | `NeedInput`, `AddInputSlot` |
| `DestroyDecoderLocked` | `DestroyClose`, `DestroyClear`, `DestroyCodec` |
| `CreateDecoderLocked` | `CreateDecoder`, `ConfigureDecoder`, `StartDecoder`, `AbandonDecoder`, `RequireAfterStart` |
| `FlushDecoder` | `Authenticate` (BeginFlush), `FlushClear`, `FlushCodec`, `RestartCodec`, `Rebuild`, `FinishSession` |
| `ReconfigureDecoder` | `Authenticate`, the Destroy and Create steps, `ContractAfterSession`, `FinishSession` |
| `AuthenticateConnection`, its end | `Authenticate`, `AnswerAuthentication` |
| `ReceiverLifecycleState`, `On...` | `Reconcile`, `OnSurfaceCreated`, ..., `FinishEvent`, `RequestKeyframe` |

### Abstractions

* An AU is one of three kinds, as `HandleVideo` tells them apart: a complete
  keyframe (SPS, PPS and IDR), a keyframe that lacks one of them, another picture.
* `linked` and `tailKept` are history: they record whether the AU just before one
  in the stream was kept, and no guard reads them.
* The codec is external.  It is assumed, as the comment in `DestroyDecoderLocked`
  says, that Flush, Stop and Destroy wait for a callback in progress.  A callback
  thus never outlives its codec, so the handle is a Boolean.
* `activeContract` changes in the same step as the lifecycle lock is taken: only
  the worker reads it.  `mediaContract` changes when the reconfiguration starts; it
  is protected by that lock, so nobody sees the moment.
* Left out: epochs, the video header check, counters, status text, telemetry,
  `DecoderOutput`, `DecoderError`.

### Properties

* `TypeOK`: types, `decode_queue_` within its bound, `input_slots_` within the
  codec's buffers.
* `InputInOrder`: a push reaches a started codec, parameter sets before an IDR
  before other pictures, counted from its creation or last flush.  The gate opens
  before `Start` and the recovery state is reset only afterwards, so this rests on
  the queue being empty and the worker being busy in between.
* `SlotsConserved`: no buffer index survives a flush or destruction.
* `DecoderMatchesLifecycle`: whenever the lifecycle lock is free, gate, handle,
  surface and contract fit together.
* `ContractsAgree`: after a rollback the decoder's contract and the session's are
  the same.
* `RequestNotForgotten`: a decoder only a keyframe can help has asked for one.
* `BrokenChainUnderRepair`: a picture whose predecessor was dropped reaches the
  codec only while the repair is under way.
* `KeepsFeeding` (liveness): a decoder that stays in a session is fed again and
  again, or is ready.

### Bounds

`DecoderPipeline.cfg`: three pieces of decode queue (the code's bound), two input
buffers, two windows, two contracts, two UI events, two sessions, one
failing codec call.  `DecoderKeepsFeeding.cfg` and `DecoderSlotLeak.cfg` have a queue
of two, one window, contract, session and event, since liveness needs no symmetry
and one session shows it.  Two windows and two events are the least that lets a surface be replaced
or go away while the decoder for it is being built; two sessions with two
contracts are the least that lets a reconfiguration be rolled back to a session's contract; a
queue of two or three overflows, holds a recovery AU with a picture behind it,
and is exhausted with the slots.  `MaxEvents`, `MaxSessions` and `MaxFaults` are the
only cut-offs; they appear in the guards of `UIEvent`, `Authenticate`,
`Disconnect` and `Fault`.  Windows and contracts are symmetric in the run without liveness.

### Fairness

`FairSpec` assumes: every thread that can run does (weak fairness); a thread that
waits for a mutex another thread takes again and again gets it in the end
(strong fairness of `SubmitRecovery`, `SubmitFrame`, `AddInputSlot`, `Lifecycle`);
one `recv` brings a bounded number of AUs, so the worker reaches
`ConsumeKeyFrameRequest` again; the codec announces the buffers it has; a sender
that owes a keyframe sends it (`ReceiveRequested`: `requireKeyFrame` makes the next
encodable frame a keyframe); a sender without a session connects again.  No fairness is
assumed of UI events, other AUs, failures or disconnects.

## 4. SenderDelivery

### State and actions against the code

What a capture sends, from the encoder's output to the socket, with everything that
disturbs it: losses, keyframe requests, reconnects, source changes, stops.

JavaScript runs one task at a time, so an action is one task with the microtasks
it leaves behind: what follows an `await` of a settled promise is part of the
action, what follows an `await` of a timer, a socket or a chrome or WebCodecs call
is an action of its own.

| Variable | Code |
|---|---|
| `phase`, `pc` | `running` and `stopping` of `offscreen.js`; the await at which `startCapture` or `reconfigureForSource` waits (`reconfiguring` is `pc # "idle"` outside the start) |
| `sourceEpoch`, `contract`, `generation`, `encoder` | `sourceEpoch`, `mediaContract`, `activeEncoderGeneration`, the binding of `videoEncoder` |
| `inEncoder` | chunks that an encoder, open or just closed, has yet to emit |
| `required`, `awaiting` | the two flags of `DirectResyncPolicy` |
| `conn`, `session`, `recovery` | `receiverConnection`, what it was made for, `beginReceiverRecovery` with the loop of `recover` |
| `wire`, `chain`, `parity` | history: what was last sent, whether the encoder's latest chunk was sent |

| Code | Definitions |
|---|---|
| `encodeFrame` | `EncodeFrame`, `EncoderHasRoom` |
| `handleEncodedChunk`, `deliver` | `IgnoreChunk`, `DropChunk`, `SendChunk`, `IsCurrentEncoderBinding`, `CanDeliver` |
| `DirectResyncPolicy` | `ResetPolicy`, `RequireKeyFrame`, `CanDeliver` |
| `applyReceiverControl` | `ReceiveKeyFrameRequest` |
| `onClose`, `beginReceiverRecovery`, `recover` | `CloseEvent`, `AttemptRecovery`, `RetryRecovery`, `Reconnect`, `GiveUp` |
| `startCapture`, `connectReceiver` | `StartCapture`, `CreateEncoder`, `Connect`, `FailSource` |
| `reconfigureForSource` | `SourceChanges`, `EpochAllocated`, `ReplaceSource`, `CreateEncoder`, `Connect`, `FailSource` |
| `stopCapture`, `closeReceiver` | `Stop`, `StopVideoEncoder`, `CloseReceiver` |

### Abstractions

* The encoder is external: it emits what it was given in order, a keyframe where
  one was asked for.  After `close` the outputs under way may still come or not
  (`CloseEncoder`): the case encoder bindings exist for.
* A chunk is its binding and whether it is a keyframe.  Whether the socket's buffer
  is above its limit is a free choice (`DropChunk` is always possible), and so is
  whether the periodic keyframe is due.
* A chunk leaves in the order it was encoded: the frame's sequence number is a
  label nothing here depends on.
* A `startCapture` that meets a `stopCapture` at an await is left to
  `CaptureController`.

### Properties

* `TypeOK`: types, and the encoder's depth (proved, not run).
* `OwnSession`: no chunk is sent on a connection made for another epoch or contract.
* `KeyframeComing`: while delivery waits for a keyframe, the next frame is one or the
  encoder holds a current one.  Both flags together carry this: `required` goes
  when the keyframe is *encoded*, `awaiting` when it is *sent*, and a loss may come
  between.
* `RecoveryUnderWay`: a running capture without a connection is recovering it.
* `Decodable`: the module implements `DecodableStream`, in which a picture that refers
  to the one before it is sent only if that one was sent on the same connection.
* `KeyframeDelivered` (liveness): once connections stop being lost, every loss,
  request and source change is followed by a delivered keyframe.

### Bounds and fairness

Two pictures in the encoder are the least in which a keyframe from before a loss
is followed by a picture from after it.  Three epochs allow a source change and a
capture started anew, or two changes of one capture; two contracts tell
the old source from the new one.  One run checks safety, refinement and liveness
on this instance.  Epochs are bounded, so the system stops when they are used up: the run does
not check deadlock.

`FairSpec` assumes that frames keep coming and find room in the encoder again and
again, that the encoder emits what it holds, that the calls to chrome and WebCodecs end,
that a Receiver tried again and again answers, and that one of infinitely many
keyframes finds room on the socket.  It assumes nothing of losses, requests,
stops, source changes and failures.

## 5. ReceiverSession

### State and actions against the code

The Receiver's network worker and its UI, the extensions, and their users.

| Variable | Code |
|---|---|
| `trust`, `version` | `trusted_sender_id_` and `trusted_credential_`, `pairing_record_version_` |
| `pending`, `expired`, `consumed` | `pending_session_id_`, `pending_token_`, `pending_short_code_`; the clock against `pairing_expires_at_`; `consumed_session_id_` |
| `latest`, `contract`, `previous` | `latest_source_epoch_` (always equal to `active_source_epoch_`), `active_media_contract_`, the locals a failing decoder restores |
| `desired`, `socket`, `worker`, `ui` | `desired_`, `control_socket_`, where the worker is, which half of `ForgetDevice` or `Stop` the UI thread is in |
| `peer`, `live`, `request`, `reply` | the connection: whose, what has become of its other end, the message on its way each way |
| `challenge` | the challenge state of `AuthenticateConnection`, then the accepted final message |
| `stored`, `epoch`, `code`, `shown` | the extension's storage, the code it shows |
| `capture`, `exchange` | the `DirectReceiverConnection` of a capture with its copy of the trusted device; the stage of `openProofExchange` |
| `issued`, `forgotten`, `used`, `author`, `served`, `owner` | history, which no guard reads except to bound `issued`; `owner` is the extension that made each code |

| Code | Definitions |
|---|---|
| `NetworkLoop`, `AcceptWebSocket`, `ReadUpgrade` | `AcceptWebSocket`, `ReadUpgrade`, `AbandonConnection`, `CloseConnection`, `StopAccepting` |
| `ContinueWithCurrentAddress` | `AddressChanged` |
| `AuthenticateConnection` | `HandlePairChallenge`, `HandlePairFinal`, `HandleAuthChallenge`, `HandleAuthFinal`, `PrepareDecoder`, `FailDecoder`, `SendReady`, `CannotSendReady`, `AbandonConnection` |
| `EvaluatePairingAuthorization`, `EvaluateSourceContract` | `Authorized`, `EvaluateSourceContract` |
| `RunConnectedSession` | `EndSession`, `FailSession` |
| `AuthorizeQr`, `AuthorizeShortCode`, `ForgetDevice`, `Start`, `Stop` | `Authorize`, `ForgetDevice` and `FinishForget`, `Start`, `Stop` and `FinishStop` |
| `setup.js`, `service-worker.js` | `ShowCode`, `ForgetReceiver`, `OpenForPairing`, `StartCapture` |
| `pairReceiver`, `connect`, `openProofExchange` | `SendChallenge`, `ReceivePairProof`, `ReceiveAuthProof`, `ReceivePaired`, `ReceiveReady`, `ReceiveError`, `SeeClose`, `LoseConnection` |
| `close`, `recover` | `StopCapture`, `OpenForCapture`, `RetryOrEnd` |

A step of the worker is what it does under one hold of `state_mutex_`, or between
two reads from the socket.  `ForgetDevice` is two steps: it clears the trust under
the mutex and closes the socket after it.

### Abstractions

* Secrets are numbers never used before (credentials count with the record's
  version, codes with `shown`), so a proof is the secret it was computed from and
  the nonces that tie it to a connection need no model.
* A message that reaches nobody is lost; two messages are never under way in one
  direction, since each side waits for the other.
* An extension has one connection at a time, for a pairing or a capture, and an
  extension that lost its data is another sender.
* The number of a descriptor that was closed is not reused while a thread still
  holds it.
* The extension's own check of the code's expiry, malformed messages and the
  checks that refuse them, and the texts shown are left out.  A refusal is `refused`
  or, where the extension treats it apart, `epoch_stale`.
* `forgetPairing` does not reach a running capture: its copy of the credential goes on
  opening connections, in the model as in the code, and no property forbids it.
* `ConfigureTrust` runs before the Receiver starts, with what the page had stored; it
  is left out with the page.

### Properties

* `TypeOK` (proved, not run): types, and each trusted credential belongs to a record
  version, which is what makes the UI save it.
* `SessionTrusted`: an open session is that of the trusted device with the trusted
  credential, whatever was forgotten or paired while it was set up.  The exception
  is the moment between the two halves of `ForgetDevice`.
* `ForgottenStaysForgotten`: no authorisation from before a forgetting makes a device
  trusted after it.
* `AuthorizationUsedOnce`: one pairing for each authorisation of the user.
* `SourcesAdvance`: sources are announced as ready in the order of their epochs, and
  one epoch always with one contract, over roll backs, restarts and changes of the
  trusted device.
* `KeepsTrust`: the module implements `DeviceTrust`, in which a device becomes trusted
  only by the authorisation of its own code, once, and never while another is
  served; only the trusted device is served, and sources are announced in order.  A
  pending pairing maps to the owner of its code until it expires, the session to its
  peer until its socket is closed or the user has begun to forget the device.
* `CaptureServed` (liveness): a trusted extension whose capture goes on is connected
  again and again.
* `StaleMeansNewerSource` is violated, see section 13.

### Bounds and fairness

Two extensions are the least that lets one be forgotten or replaced for another.
Two codes and two authorisations let a code be used twice, an authorisation
be replaced before it is used and a device be paired after it was forgotten.
Two epochs, the second for one extension only, and two contracts let a source advance, come
again, come with another contract and be older than that of the other device.
`receiver_session` has these, both extensions and no fault; a decoder may fail at any
time, since the capture ends with it.
`receiver_serves` has one extension and one `Fault`, which stands for what may else go
wrong at any time: a time-out, a lost connection or reply, a peer that goes silent, an
address that changes.  The bounds let the system stop, so the runs do not check deadlock.

`FairSpec` assumes that a thread or an extension that can take a step does (weak
fairness of `WorkerStep`, `ExtensionStep`, `FinishForget`, `FinishStop`), that
the listen queue passes nobody over for ever (strong fairness of `AcceptWebSocket`),
and that a capture that lost its connection opens another (`OpenForCapture`; `recover`
tries again every two seconds at most).  The liveness run has one extension: with two, the
other may hold the only session for as long as its user likes.

## 6. MdnsResponder

### State and actions against the code

`MdnsMessages` is the part of `mdns_protocol.cpp` that decides: what a packet is
(`ClassifyMessage`), which addresses it claims for our name (`ExtractARecords`),
which of two addresses is greater (`CompareAddresses`), and whether a query is to be answered
(`Answers`, the condition of `BuildAResponse`).  `MdnsResponder` has every tablet of a
LAN: its responder with the worker thread, and the two threads of its
`ReceiverSession` that start and stop it.

| Variable | Code |
|---|---|
| `state`, `desired`, `goodbye_sent` | the members of the same names; the socket is open exactly while `desired_` holds |
| `worker`, `joinable`, `probes`, `held` | where `Run` stands, `worker_.joinable()`, its loop counter, the datagram received and not yet handled |
| `window` | `response_window_started_ms_` as an age, `responses_in_window_` |
| `wanted`, `net`, `ui` | `ReceiverSession::desired_`, its `NetworkLoop`, what the UI thread does with the session |
| `call`, `taken` | where each of the two callers stands in `Stop`, and whether it took the thread to join it |
| `inbox` | the LAN: datagrams on their way to each socket, a set, so in any order |
| `advertised`, `recent` | history: what the LAN has heard of the record; how many answers are at most so many ticks old |

| Code | Definitions |
|---|---|
| `Run`, `ObserveFor` | `SendProbe`, `Announce`, `Receive`, `WorkerEnds`, `WorkerFails` |
| `AcceptDatagramMetadata`, `AcceptMessageHopLimit` | the same names |
| `HandleProbingDatagram` | `HandleProbingDatagram`, `LosesTieBreak` |
| `HandlePublishedDatagram`, `AllowQueryResponse` | `HandleContest`, `HandleQuery`, `RenewWindow` |
| `FailLocked`, `ConflictLocked`, `SendGoodbyeLocked`, `SendAnnouncementLocked` | `FailLocked`, `ConflictLocked`, `Withdraw`, `SendRecord` |
| `Start`, `Stop` | `StartLocked`; `CallStop`, `StopLocked`, `StopReturns` |
| `ReceiverSession::Start`, `Stop`, `NetworkLoop`, `ContinueWithCurrentAddress` | `UiPress`, `UiJoins`, `NetOpens`, `NetLeaves`, `AddressChanged` |

A critical section of `lifecycle_mutex_` is one action.  `Stop` is two: it takes
the thread object under the mutex and joins it outside.

### Abstractions

* A packet is its flags and sections of records; a name is whether it is ours, a
  TTL one of the three values the code tells apart.  Compression, byte order and the
  transaction number, which is 0 in everything built here, are left out.
* The responder's own multicasts come back to it and are ignored by the code: they are
  not delivered.
* A `Stop` that began before a worker was started does not wait for that worker, and
  still has a store of the state to make.  It has made it by the time the worker
  announces (`NoStopPending`), since the probes in between take 750 ms.
* A query means nothing to a responder that is still probing, so the LAN brings one only
  once someone publishes.

### Properties

* `SettlingUnderWay`: two tablets publish the name only while a response that makes
  one of them yield is on its way to it, or the LAN has lost a datagram.
* `Withdrawn`: a published record is withdrawn by a goodbye whoever stops the
  responder and in whatever order; only a failed socket leaves it behind.
* The limit of `docs/PROTOCOL.md` 381 for any second does not hold, see section 14.  What the
  code keeps to is `BurstBound` (less than twice the limit), which is proved.
* `StopIsClean`: what a stopped session leaves is nothing, and a worker is only started
  when the one before is gone, whichever of two Stops took it.
* `StopNeverStuck`: a pressed button never hangs on the joins of the three threads: the
  UI thread, the network worker it joins or the responder's worker that either of them
  joins has its next step at hand, without a datagram, a timer or the user.

### Bounds

Two tablets, one probe (each probe after the first repeats the step), one answer to a
window of two ticks, three presses, two events among losses, failing sockets, address changes and
datagrams of others; these are a query with a known answer of one
tablet, and a stray reply.  No liveness is stated, so no fairness is assumed.

## 7. WebSocketFraming

### State and actions against the code

The Receiver's end of one WebSocket connection after another, from the upgrade to the
handling of each message, with the peer's end.

| Variable | Code |
|---|---|
| `stage`, `late`, `request` | where the worker is with the connection, whether the deadline of that stage passed, the bytes of the upgrade read |
| `received`, `fragmented` | `buffer_`; `fragmented_opcode_` with `fragmented_` |
| `messages` | the messages `Push` returned, in the order they are to be handled |
| `telemetry`, `reported`, `sent` | the telemetry queue, the reports of the decoder's callback, what was sent last |
| `wire`, `open`, `frames`, `malformed` | the peer: frames under way, its unfinished message, how many it sent, whether it broke the rules |
| `owed`, `handled` | history: messages completed and not yet handled, and the one handled last |

| Code | Definitions |
|---|---|
| `ReadUpgradeRequest`, `BuildUpgradeResponse` | `ReadUpgradeRequest`, `RefuseUpgrade`, `TimeOut` |
| `Decoder::Push` | `Push` with `DecodeFrames`, `DecodeFrame`, `Decoded`, `Illegal`, `BufferLimit` |
| `Decoder::Reset`, the end of a connection | `Reset`, `Close` |
| `AuthenticateConnection`, `RunConnectedSession`, `HandleControl` | `HandleChallenge`, `RefuseChallenge`, `HandleMessage`, `HandleClose`, `CannotReply`, `LoseConnection` |
| `BoundedControlQueue::Push`, `SendControl` | `Enqueue`, `Report`, `SendTelemetry`, `CannotSendTelemetry` |

### Abstractions

The stream is counted in units: one for the flags and length of a frame, one for its
mask, and its payload.  A `recv` returns any number of them up to `Chunk`.  A frame that no
peer may send (a reserved bit, no mask, a fragmented or too long control frame, a
continuation out of place, a message above the limit) is one of those
`SendMalformed` sends.  UTF-8 and the contents of a message are left out: a text
marked `final` ends the challenge, one marked `bye` makes its handler end the
session.  Before the session a peer sends one message and waits for its answer, as the
extension does (`PeerReady`); what a peer that does not wait puts in the same read is
dropped by the code and not examined.  Reports that wait when a connection
ends go out on the next one, in the model as in the code.

### Properties

* `TypeOK` (proved, not run): after `Push` the buffer holds less than a frame, a fragmented message is
  within the limit, the queue within its capacity.
* `StreamDelivered`: the module implements `MessageStream`: messages are handled whole,
  once, in order, and nothing of a connection reaches the next.
* `OnlyMalformedRejected`: `Push` fails only on a frame a peer may not send.  The limit on
  the buffer is the one that could break it: it must leave room for what one `recv`
  adds to an incomplete frame.
* `SendsInOrder`: after part of a frame nothing more is sent on that connection, and
  reports go out in order, the oldest lost first.
* `HandshakeEnds` (liveness): a peer that goes silent before the session is dropped.

### Bounds and fairness

Messages of 0 or 4 units, 4 the limit, a read of at most 3: a message takes several reads, a
read holds several small frames, and two fragments exceed the limit.  Four frames on a connection
let a control frame fall between fragments and a message follow a fragmented one; a queue of two
with three reports holds two whose order could change, and overflows.  `FairSpec` assumes that time passes and that the worker,
whose calls wait 100 ms or until the deadline, goes on; nothing of the peer.

## 8. CaptureController

### State and actions against the code

The service worker and the offscreen document, whose asynchronous functions overlap
wherever they await.  An action is what a function does between two awaits; microtasks
come before any other task (`NoMicrotask`); messages and answers between the two
keep their order.

| Variable | Code |
|---|---|
| `mode` | `mode` of the stored state, which the page shows |
| `starting`, `stopper`, `closing` | where `startProbe` and `stopProbe` stand; the calls of `failProbe` and `finishUnexpectedCapture` that are closing the document |
| `reports` | messages and answers on their way to the service worker |
| `page` | the variables of `offscreen.js` in the present document, where `startCapture`, `consumeFrames` and `recover` stand, and each call of `stopCapture` with its locals |

| Code | Definitions |
|---|---|
| `stopCapture`, `closeReceiver`, `stopVideoEncoder` | `StopCapture`, `CancelReader`, `StopVideoEncoder`, `FlushEncoder`, `CloseReceiver`, `CloseConnection`, `AwaitRecovery`, `Finish` |
| `startCapture` | `GetUserMedia`, `FirstFrame`, `CreateEncoder`, `ConnectStart`, `FailStart`, `FailConnectStart` |
| `consumeFrames`, `encodeFrame`, `reconfigureForSource` | `SourceChanges`, `AllocateEpoch`, `ReplaceEncoder`, `Reconnect`, `FrameFails`, `LoopEnds` |
| `onClose`, `beginReceiverRecovery`, `recover` | `ConnectionLost`, `AttemptRecovery`, `CancelRecovery`, `RetryRecovery`, `Recover`, `GiveUp` |
| encoder error, `applyReceiverControl`, `handleTrackEnded` | `EncoderFails`, `ReceiverRefuses`, `TrackEnds`, `HandleTrackEnded` |
| `startProbeFromAction`, `ensureOffscreenDocument` | `StartProbe`, `EnsureDocument`, `SendStart`, `StartAnswered`, `StartUnanswered` |
| `stopProbe` | `PressStop`, `StopProbe`, `SendStop`, `StopAnswered`, `StopUnanswered`, `CloseAfterStop`, `FinishStop` |
| `failProbe`, `finishUnexpectedCapture`, `resetProbe` | `CaptureReported`, `CloseDocumentAfterEnd`, `ResetProbe` |

### Abstractions

* Of what a document owns the model keeps whether it is there and closed.  Encoders
  and connections have numbers, since a function may hold one that the variable no
  longer does.
* The user starts a capture, or resets a finished one, when whatever ended the last
  one is over (`Settled`); stop is pressed whenever the page offers it.  A
  start that overtakes the end of the last capture is not examined.
* The wait for the constraints is part of `GetUserMedia`, the question whether a document
  exists part of closing it.  `MediaStreamTrackProcessor` fails for a
  track that has ended.
* What a capture encodes and sends is in `SenderDelivery`; stages, telemetry, the badge
  and the pop-up are left out.

### Properties

* `TypeOK` (proved, not run): types, and no more encoders and connections than the
  changes of the source account for.
* `NoDocumentLeft`: a capture that is over leaves no document behind, and so no
  tab that the browser shows as captured.
* `CapturingIsLive`: while a capture is shown, its frames are sent, its source is
  changing or its connection is being recovered.
* `ReleasedAfterStop`: however calls of `stopCapture` overlap each other, a start, a change of
  the source and a recovery, the last of them to return leaves nothing open.
* `CallsEnd` (liveness): a start ends, and so does every `stopCapture`, which
  waits for the frame loop, which may wait for a connection or a recovery.

### Bounds and fairness

One change of the source, one lost connection (with any number of attempts to recover),
one encoder error, failing frame or refusal, in each capture and in any number of captures one after the other; three overlapping
calls of `stopCapture`, one for each way it is called at the same time.  `FairSpec`
assumes that the event loops run on, and that each wait for the browser or the
Receiver ends: by an answer, an error or a time-out.

## 9. HostServer

### State and actions against the code

The Windows host's control thread, its pipe thread, and the gate between them.

| Variable | Code |
|---|---|
| `allowed`, `epoch` | `DataPlaneGate` |
| `paired`, `resume_pending`, `session_short`, `video_peer`, `pairing_code` | the members of the same names |
| `left` | the time to `resume_deadline_`, in ticks |
| `control`, `after`, `client`, `authenticated` | where the control thread stands, where `ClearSession` returns to, the client it serves |
| `pipe`, `token`, `session`, `peer`, `fragment` | `SendVideoFrame` and its locals |
| `wifi` | what the network gate says of the address |
| `codes` | history: the codes that have paired a client |

| Code | Definitions |
|---|---|
| `ClearSession`, `DataPlaneGate::Revoke`, `RotatePairingCode` | `RevokeCloses`, `RevokeDrains`, `ClearState`, `RotatePairingCode` |
| `ControlLoop`, `ExpireResumeWindow`, `MarkDisconnected` | `Accept`, `ControlEnds`, `ExpireResumeWindow`, `Disconnected` |
| `HandleClient` | `Resume`, `Pair`, `SendSession`, `OpenEpoch`, `WifiNotAllowed`, `ClientEnds`, `ClientStopped` |
| `SendVideoFrame`, `DataPlaneGate::Capture`, `RunIfAllowed` | `CaptureAllowed`, `CaptureToken`, `ReadSession`, `SendFragment` |
| `Stop` | `Stop`, `PipeEnds` |

A critical section of `state_mutex_` or of the gate's mutex is one action, an access
to an atomic outside them another.  A client is its address, codes and sessions are
numbers in the order they are drawn; the status loop, pointer events, metrics and a
random generator that fails are left out.

### Properties

* `NoForeignVideo`: whenever the gate would let the pipe thread send, the session and the
  peer it read are those of the session now.
* `CodeUsedOnce`: no code is offered again once it has paired.
* `SessionExpires` (liveness): a session whose client does not come back ends, once clients stop
  connecting.
* `StopEnds` (liveness): `Stop` ends both threads, with a client connected or not.

### Bounds and fairness

Two clients, two pairings, one resumption, one loss of the Wi-Fi, a window of one
tick and frames of two datagrams: the least in which a session is resumed, expires and
is followed by another client's while a frame of the first is half sent.  `FairSpec` assumes
that both threads and the clock go on.

## 10. Relay

### State and actions against the code

Three threads that share atomics, so a step is one access to what another thread writes, or one
blocking call.  `session_short_` (`lan_sender.h` 70) is shared too and a plain integer of 32
bits; it is read and written as a whole in the builds there are.

| Variable | Code |
|---|---|
| `main` | `wmain`, with `ConfigureReceiver`, `LanSender::Configure` and `Stop` |
| `stopping`, `listener`, `client`, `accepted`, `authed` | `stopping_`, `listener_`, `client_`, the socket `accept` returned, `client_authenticated_` |
| `worker`, `assembling`, `unit`, `socket`, `telling` | `Run` and `RunClient`, the message `ReceiveMessage` puts together, the locals of `SendAccessUnit` |
| `connected`, `running`, `keyframe`, `session`, `video`, `control`, `frames` | the members of `LanSender`; `frames` is `control_frames_` |
| `thread`, `taken` | the control thread and the message it handles |
| `receiver`, `incoming`, `messages`, `latest` | the Receiver's end of the control connection |
| `wire`, `units`, `inUnit` | the capture client |
| `owed`, `out` | history: a key frame the client has not been told of, the last datagram |

| Code | Definitions |
|---|---|
| `WebSocketServer::Run` | `Accept`, `AcceptFails`, `SeeStopping`, `StoreClient`, `EndClient` |
| `PerformHandshake`, `ReceiveMessage`, `RunClient` | `PerformHandshake`, `Authenticate`, `ReceiveMessage`, `TurnLoop`, `ConsumeKeyframeRequest`, `TellClient`, `ClientFails` |
| `SendAccessUnit` | `BuildLanVideoDatagrams`, `LoadSocket`, `SendDatagram`, `SendFails` |
| `ControlLoop`, `ReceiveControl`, `HandleControl` | `ReceiveControl`, `TakeControl`, `HandleControl`, `LosePeer`, `PingFails`, `LeaveControlLoop` |
| `ConfigureReceiver`, `Configure`, `PerformPairing` | `ConfigureReceiver`, `ConnectControl`, `ReceiveReply`, `PerformPairing`, `OpenVideoSocket`, `ConfigureFails` |
| `LanSender::Stop`, `WebSocketServer::Stop` | `Halt`, `Join`, `CloseSockets`, `JoinWorker` |

A frame of the client is its opcode, its FIN bit and the access unit it is part of; a
control message carries the number of the connection it came on.  Before its first message
a client may send frames that `ReceiveMessage` reads past (pings, pongs, unfinished
fragments: `ping` in the model).  Telemetry counters are left out.

Sockets are numbered by the configuration.  Windows may give the handle of a closed socket to
the next one: a unit that was being sent on the former video socket goes on on the
next (`SendDatagram`).  That the next control socket gets the handle, and with it
a datagram in its stream, is left out.

### Properties

* `DatagramsInOrder`: datagrams leave in the order of the access units, each unit whole
  before the next; a unit that was cut short is the last.
* `ControlIsCurrent`: no thread acts on a message of a former Receiver.
* `RequestKept`: a key-frame request is not lost between the control thread and the
  worker, which clear and set the same flag.
* `StopEnds` (liveness): `Stop` ends whatever the Receiver and `accept` do, with a client
  at any point of its life, unless a client sends frame after frame and never its first
  message.  Without the exception (`ShutdownEnds`) it does not hold, see section 14.

### Bounds and fairness

Two configurations, two access units of two datagrams, three control messages on a connection, one
frame under way, one fault: the second configuration is made while control
bytes of the first wait, and a unit is cut while its socket is replaced.
`FairSpec` assumes that the threads go on, that a failing send is noticed, and that the
3 s a configuration waits for the Receiver end.  Nothing is assumed of the client.

## 11. Runs

| Run | What it checks |
|---|---|
| `decoder` | the seven safety properties of `DecoderPipeline`, two sessions, two contracts, two windows, two UI events, one failure (2.4 million states) |
| `decoder_keeps_feeding` | its liveness while codec calls succeed (68 thousand states) |
| `decoder_input_slots_leak` | counterexample under `FairSpec`, section 13 |
| `sender` | safety of `SenderDelivery`, the refinement of `DecodableStream`, and liveness (34 thousand states) |
| `receiver_session` | `SessionTrusted`, `ForgottenStaysForgotten`, `SourcesAdvance` and the refinement of `DeviceTrust`, two extensions, two epochs, two contracts (3.2 million states) |
| `receiver_serves` | `AuthorizationUsedOnce`, the refinement and liveness, one extension, two authorisations, one fault (332 thousand states) |
| `receiver_stale_epoch` | counterexample, section 13 |
| `mdns_responder` | two tablets, losses, failing sockets, foreign datagrams (1.3 million states) |
| `websocket_framing` | the refinement of `MessageStream`, safety and liveness of the framing (418 thousand states) |
| `capture_controller` | overlapping starts, stops, failures and recoveries of captures one after the other, with liveness (280 thousand states) |
| `host_server` | two clients, resumption and expiry, with liveness (161 thousand states) |
| `relay` | three threads, two configurations, one fault, with liveness (535 thousand states) |

Each passing property has a mutant in `PROJECT.json`: a plausible slip in the code
(a dropped request, a bound off by one, a roll back left out) under which TLC finds
the property violated.  A mutant's operator stands before the definition it
would replace and is marked as one.

All runs but those of the decoder and the framing set `CHECK_DEADLOCK FALSE`: the bounds on
epochs, codes, presses, pairings, calls and messages let the system stop, and
`Stop` of the host and of the relay ends it.

## 12. Proofs

The type invariants of the eight component modules are proved, each safety property that
the runs check, and the three refinements.  `DecoderPipelineProofs`, `RelayProofs` and
`CaptureControllerProofs` also prove what no run names: that no thread or function waits
for one that waits for it.  A proof has one lemma per
action, or per group of actions with the same effect; operators that change
several parts of the state at once are described by lemmas of their own, so that a proof
about an action need not open them.

### DecoderPipelineProofs

`DecoderPipelineProofs` proves, for every value of the constants allowed by the
named assumptions, `TypeCorrectness`, `FeedsInOrder`, `NoStaleSlot` and
`LifecycleMatches`, each `Spec => []Inv`, from one inductive invariant `IInv`:

* `LockInv`: which thread is inside which critical section;
* `StageInv`: what each step of a lifecycle procedure has established of gate,
  handle and codec;
* `MatchInv`: a decoder is only wanted, kept or left for a visible surface and the
  current contract;
* `SlotsInv`: buffers are out of the codec's hands only while it is started;
* `FedInv`: the recovery state promises no more than the codec received.

None of the four properties is inductive alone.  `InputInOrder` needs `FedInv`
because the state is advanced one step after the push, and needs `StageInv` because a flush
empties the codec while the state still says ready; `DecoderMatchesLifecycle` is
`StageInv` and `MatchInv` at the moment the lock is free.  There is one lemma per
action and per part of the invariant; `Invariance` combines them.

The proofs use the assumptions `CapacityAssumption` (at least 2: the recovery AU is
two entries), `SlotsAssumption`, `BoundsAssumption` and `NoneAssumption`.  TLC checks
these for every instance.

`RequestsNotForgotten` (`RequestNotForgotten`) and `BrokenChainsUnderRepair`
(`BrokenChainUnderRepair`) follow from a second invariant, `KeyframeInv`, which the steps
preserve given `IInv` (`RepairInvariance`):

* `QueueInv`: parameter sets are only queued at the head, with their picture behind
  them, and for a decoder that needs them;
* `PositionInv`: what a step that has left the lock may still rely on;
* `RepairInv`: a decoder that only a keyframe can help, a latest AU that was dropped, and a
  picture queued or popped without its predecessor each have a repair on its way.

Two definitions make it inductive.  `RecoveryAhead` is the recovery state that the pump is
about to store: between the push and the store the variable is out of date.
`RepairComing` counts, besides a request and a keyframe in hand, the failed push and the
UI event that have yet to ask; a property about the request alone does not hold
between their steps.

`ContractsStayInAgreement` (`ContractsAgree`) needs `ContractInv`: while a refusal is under
way the media contract is the local `previous` of `AuthenticateConnection`, and that local is
what was active before.

Two theorems say why the two mutexes and the codec's callbacks cannot deadlock, which
the comment in `DestroyDecoderLocked` (`cpp/receiver_session.cpp` 1121) asks for:
`LifecycleNeverDeadlocks` (whoever waits in Flush, Stop or Destroy for the callback in
progress has closed the gate, and nobody holds `decoder_queue_mutex_`, which the callback may
be waiting for) and `CallbacksStayOut` (no other callback passes the gate meanwhile).
Both follow from `IInv`.

Only model-checked: `KeepsFeeding`, since liveness under fairness is out of the
prover's reach.

### SenderDeliveryProofs

Proves `TypeCorrectness`, `NoForeignChunk` (`OwnSession`), `KeyframeNotLost`
(`KeyframeComing`), `RecoveryNotForgotten` (`RecoveryUnderWay`) and `Implements`
(`Spec => Decodable`) for every set of contracts, encoder depth and number of epochs.
The inductive invariant `IInv` adds to the properties

* `ControlInv`: which encoder and connection each await goes with;
* `CurrentInv`: an encoder is always current and a connection was always made for the
  current source, which is why comparing a chunk's binding with the current one is
  enough for `OwnSession`;
* `ChainInv`: delivery is open only while the encoder's latest chunk was sent on this
  connection, which is why `Reconnect` has to demand a keyframe even if
  nothing was dropped, and what makes a delta that is sent a step of `DecodableStream`.

`Implements` maps every step to a step of the abstract module or to a stutter.
The assumptions are `InFlightAssumption`, `EpochAssumption` and `NoneAssumption`.
Only model-checked: `KeyframeDelivered`.

### ReceiverSessionProofs

Proves `TypeCorrectness`, `SessionIsTrusted` (`SessionTrusted`), `Forgotten`
(`ForgottenStaysForgotten`), `OnePairingPerAuthorization`
(`AuthorizationUsedOnce`), `SourcesOnlyAdvance` (`SourcesAdvance`) and `ImplementsTrust`
(`KeepsTrust`, the refinement of `DeviceTrust`) for any extensions, contracts and bounds.  The inductive invariant `IInv` has

* `WorkerInv`: what the worker has of a connection at each position;
* `ExchangeInv`, `RequestInv`: a proof only reaches the exchange whose challenge it
  answers, which gives the messages their types;
* `GrantInv`: what is pending was authorised after the last forgetting and has granted
  nothing yet;
* `SessionInv`: from the final check to the end of the session, the trust does not
  change unless the socket is closed.  `SessionTrusted` is its last stage;
* `SourceInv`: what was announced last is not ahead of what is active, nor of
  `previous`: this is what a roll back must not undo;
* `OwnerInv`: a code that an extension shows or an exchange uses was made by that
  extension, and an authorised code was made by somebody.

Four frame lemmas say what each part of the system leaves alone; a lemma about a
part of the invariant then looks only at the actions that can disturb it.  TLC finds
`IInv` invariant on the instance of `receiver_session` too.

`ImplementsTrust` maps every step to a step of `DeviceTrust` or a stutter.  A step that
touches neither the trust nor the pending code nor the session is a stutter
(`PromisedSteps`); a pairing is `Pair` of the device whose code was authorised, since
the proof that it is checked against is that code's (`PairingPromised`, with `OwnerInv`);
the opening of a session is `Serve`, or `AnnounceInVain` if `ForgetDevice` has cleared the
trust and not yet closed the socket (`ReadyPromised`).  A code that is made anew changes
the owner of no other (`OwnersStay`).
  The assumptions are
`BoundsAssumption` and `NoneAssumption`.  Only model-checked: `CaptureServed`.

### MdnsResponderProofs

Proves `TypeCorrectness`, `ConflictsSettle` (`SettlingUnderWay`) and
`RecordsAreWithdrawn` (`Withdrawn`) for any number of tablets and any foreign
datagrams.  The inductive invariant `IInv` adds to the properties

* `Shapes`: what an inbox may hold;
* `LifeInv`: for each tablet, how the state, the socket, the worker and the history
  of its record go together.

The argument for `SettlingUnderWay`: the second of two tablets to announce multicasts its
record while the first, which publishes, has its socket open; so the first is told
(`AnnouncementTells`), what tells it stays on its way until it is read or lost
(`StaysTold`, `LostStays`), and reading it makes the first yield (`HandledBy`,
`RecordTells`).  The assumptions are `HostsAssumption`, `CountsAssumption`,
`NoneAssumption` and `MaxRecordsAssumption`.

`BurstsAreBounded` proves `BurstBound`, fewer than twice the limit in the length of one
window, from `RateInv`, which says for each age how many answers
are no older: what the present window has counted, and of the one before all but the first at
most.  The first opened that window, and so it is a whole window older than whatever
opened the next.  `CountsAssumption` has the limit and the window at least 1; the code
has 10 and 1000 ms.

`StopsAreClean` proves `StopIsClean` from `JoinInv`: the worker thread belongs to
`worker_` or to one Stop that waits for it (`OwnerInv`); nothing runs before the network
worker starts a responder, and its last Stop ends whatever it started, although
the one of the UI thread may have taken the thread first (`NetInv`).

`StopsNeverStick` proves `StopNeverStuck` from `JoinInv` with `AskedInv`: a press has told
the network worker to end before the UI thread waits for it, and a caller of `Stop`
has told the responder's worker to end before it takes the thread.  `SomeoneMoves` then
looks at where the two callers stand.

### HostServerProofs

Proves `TypeCorrectness`, `VideoStaysInSession` (`NoForeignVideo`) and
`OnePairingPerCode` (`CodeUsedOnce`) for any clients, fragments and resume window.
`IInv` adds to the properties

* `GateInv`: the gate is open only for a session, and never while `ClearSession`
  or the opening of an epoch is under way;
* `TokenInv`: the epoch the pipe thread holds is not ahead of the gate's;
* `CodeInv`: a code that has paired is drawn anew before anyone may pair again.

An epoch is never reused, so a token that still matches was captured in this session
and so were the session and the peer read after it.  The
assumptions are `NobodyAssumption` and `CountsAssumption`.  Only model-checked:
`SessionExpires`, `StopEnds`.

### RelayProofs

Proves `TypeCorrectness`, `OnlyTheLatestReceiver` (`ControlIsCurrent`) and
`RequestsAreKept` (`RequestKept`) for any number of datagrams, configurations,
units, messages, frames and faults.  `IInv` has the parts of the type invariant, and

* `SocketInv`, `UnitInv`: which sockets and which unit each position goes with;
* `ControlInv`: every control message in the buffer, on its way or being handled bears the
  number of the latest connection, no thread reads while a new one is made, and the
  buffer is empty then;
* `RequestInv`: `RequestKept` with what each position of the worker still owes.

`UnitsLeaveInOrder` proves `DatagramsInOrder`.  `OrderInv`, which holds while the worker
has not ended, treats what is on the wire, what the worker has in its hands and what it has
sent as one sequence: `SendingInv` says that a new unit is one after the last, which
is complete; `WireInv` that the units on the wire rise, that each ends with its
final frame and that none between those taken and the last one begun is missing;
`ClientInv` that a client which is not authenticated has sent none.

Of `StopEnds` a safety half is proved.  `StopsServeNobody`: while main joins the worker,
that one is not in an `accept` of an open listener, and in no turn of the loop of `RunClient`
while the client's socket is open; and while main joins the control thread `running_` is
cleared.  What the worker may still be in with an open socket is the handshake and the first message of
a client that was stored after `Stop` looked for it: that is the gap of `ShutdownEnds`.
`StoppingInv` carries it: a client that is served is the one `Stop` finds in `client_`, or
its socket is closed, or the worker has yet to look at `stopping_`.
`StopsLeaveNothing`: once `Stop` has returned neither thread runs, no socket of the last
configuration is open and no request is left (`StoppedInv`).

The assumption is `BoundsAssumption`.  Only model-checked: that the steps are taken, which
is `StopEnds`.

### WebSocketFramingProofs

Proves `TypeCorrectness`, `LegalPeersServed` (`OnlyMalformedRejected`), `ReportsInOrder`
(`SendsInOrder`) and `MessagesDelivered` (`StreamDelivered`, the refinement of
`MessageStream`) for any set of lengths, any limits and any number of frames.  `IInv` has

* `StreamInv`: there is a `run` of decoder states, one after each frame on the wire,
  that begins with the state of the decoder and ends with the peer's unfinished message
  and all it has completed (`Decodes`); the last frame is one no peer may send if the
  peer has broken the rules;
* `PlaceInv`: where the worker is, and what it has read;
* `TelemetryInv`: the queue holds the last of the reports, without a gap, and none that was sent.

`InStep` is the heart of it: however `recv` cuts the stream, the loop of `Push` has
after `n` frames either failed at a malformed one or is in the state that `run` has
after the frames it has taken.  The peer extends the `run` by a frame (`StreamGrows`), handling
and receiving remove its beginning (`StreamHandled`, `StreamReceived`), and so what is
handled is always what the peer owed first.  The loop is a recursive function: that it
unfolds (`LoopUnfolds`) and that `InStep` holds at every `n` are proved with the least
element of a set of counterexamples (`Least`, `Induction`), as the induction
theorems of the library take an operator.

The assumptions are `SizesAssumption` (the limits of the code: a control frame fits into a
message, a read is smaller than one) and `NoneAssumption`.  Only model-checked:
`HandshakeEnds`.

### CaptureControllerProofs

Proves `TypeCorrectness`, `DocumentsAreClosed` (`NoDocumentLeft`), `ShownCapturesAreLive`
(`CapturingIsLive`) and `StoppedCapturesAreReleased` (`ReleasedAfterStop`) for any number of
overlapping calls of `stopCapture`, losses, faults and changes of the source.  TLC found
`IInv` invariant on the instance of `capture_controller` before it was proved.  Its parts:

* `TypeInv`;
* `WorkerInv`: which of start, stop and failure the service worker is in the middle
  of, and when a document may be there;
* `StopInv`, `StartInv`: `STOP_CAPTURE` and `START_CAPTURE` are answered once, the
  latter before anything else is reported;
* `CallInv`: calls that have returned, the call that is a step of the frame loop, whose
  end is reported once;
* `NumberInv`: encoders and connections are numbered in the order they were made;
* `StartupInv`, `RunInv`: what a capture that starts or runs has, and which calls may
  be under way meanwhile;
* `StreamInv`, `EncoderInv`, `ConnectionInv`: a stream, encoder or connection that is still
  open belongs to a capture that starts or runs, or there is a call of `stopCapture`
  that has yet to reach it.

The last three are what makes overlapping calls safe: the variable of `offscreen.js` is
cleared before the await, so a second call finds nothing to close, and the invariant
says which call holds the object instead.  For each operator on the page there is a
lemma with its effect (`CallTaken`, `RecoveryAborted`, `EncoderOf`, `ConnectionOf`
and others), and one lemma per action (`...Kept`) that IInv is preserved.

`StopsNeverStick` proves the safety half of `CallsEnd`: while a `stopCapture` is being executed,
one of its calls, `closeReceiver` of a reconfiguration, the frame loop, the recovery that
is waited for, or the report the loop waits for has its next step at hand.  The circle
that could close is `stopCapture`, which waits for the loop, which in a
reconfiguration waits for the recovery, which goes on while the capture runs; `RunInv` says
that it does not run any more once a call has begun to stop it (`WaitsEnd`).

`AnswersCome` proves the other half.  The service worker waits for the answers to `START_CAPTURE`
and `STOP_CAPTURE` without a time-out; while the document is there, the answer is in
`reports`, or `startCapture` stands at an await, or a call of `stopCapture` that was made
for it is being executed (`AnswerComing`).  It is preserved given `IInv`: a call is
begun in a free place and no step but its return forgets whom it answers (`Remembers`);
a start that fails or is overtaken answers when the `stopCapture` of its catch clause
returns.

The only assumption is `BoundsAssumption`.  Only model-checked: `CallsEnd`.

### Only model-checked

* Liveness under fairness: `KeepsFeeding`, `KeyframeDelivered`, `CaptureServed`,
  `HandshakeEnds`, `CallsEnd`, `SessionExpires` and both `StopEnds`.  The proof system
  has no rule for fairness.  What is proved of `CallsEnd` is that nobody waits in vain, and of
  the relay's `StopEnds` what `Stop` may still wait for.

## 13. Findings

* **Input buffers that are not given back** (`decoder_input_slots_leak`).
  `PumpDecoderLocked` pops the slot first; on an inadmissible frame, a buffer that
  is too small and a failed push it is lost until the next flush.  When all are
  lost the keyframe that `docs/PROTOCOL.md` 297-298 asks for cannot be fed.
* **The epoch of a forgotten device** (`receiver_stale_epoch`).  `ForgetDevice` and
  the next pairing leave `latest_source_epoch_` in place, though each extension
  counts its epochs from 1.  A newly paired extension is refused with
  `epoch_stale`, which `extension/direct-client.js` 638 calls a switch to a newer
  source, until its counter has caught up or the Receiver is restarted.

## 14. Not modelled, and known limits

Parts:

* `ets/pages/Index.ets`, `EntryAbility.ets`: what the page asks of the native module is
  in `ReceiverSession` and `MdnsResponder`.  Its promise chains depend on the order in which
  system services answer, which the source does not fix; a pairing that is persisted
  while another is made (304) and a registration that completes late (342) are hazards
  left there.
* `cpp/napi_init.cpp`, `video_surface_layout.h`, `connect_policy.h`: argument
  conversion, a layout formula, a policy only tests use.
* `mdns_posix_transport.cpp` beyond sending and receiving: socket options.
* `extension/video-contract.js`: a pure computation, tested by table; its result is
  a constant of the models.  `setup.js` 176 clears a pairing under a running capture,
  which keeps its copy (section 5).  The epoch's wrap at 2^32-1
  (`direct-protocol.js` 277) is out of the models' bounds.
* `extension/monitor.js`, `encoder-monitor.js`, pages and styles: presentation and
  statistics.
* `host/graphics/`, `host/driver/`: glue to Media Foundation and IddCx.
* Cryptography (SHA-256, HMAC, random numbers): assumed.
* Build scripts and `extension/vendor/`.

Behaviour the models have, and no property forbids, which a reader of the
documentation may not expect:

* A P frame behind a recovery AU that waits for an input buffer is dropped
  (`cpp/receiver_session.cpp` 986), where `docs/PROTOCOL.md` 296-297 speaks of those
  before it.  The next one is decoded without its reference, while the keyframe
  that heals it is requested: `BrokenChainUnderRepair`.
* A time-out of one attempt to recover is raised as a protocol error
  (`extension/direct-client.js` 513), which `recover` does not retry; the capture ends,
  where `docs/PROTOCOL.md` 284-289 keeps it: `GiveUp`.
* A peer that vanishes without closing keeps the only accept loop once its session has
  begun (`cpp/receiver_session.cpp` 821); `docs/PROTOCOL.md` 27-28 has the limits
  before that, which `HandshakeEnds` checks.
* `docs/PROTOCOL.md` 381 limits a responder to 10 responses per second.
  `AllowQueryResponse` (`cpp/mdns_responder.cpp` 278) counts in windows that start with a first
  response, so the rest of one window and the whole of the next may fall into one
  second: up to 19 responses, and no more (`BurstsAreBounded`).
* `WebSocketServer::Stop` of the relay (`relay/src/websocket_server.cpp` 429) finds `client_`
  empty while the worker is between 473 and 479, so nobody closes that client's socket.  The
  first `ReceiveMessage` (507) answers pings without end (318-320), each `recv` bounded by 5 s
  only, and `stopping_` is next read at 549.  While the client pings, `Stop` does not
  return and the process does not exit, as
  `relay/tests/relay_integration_test.mjs` 100-102 has it.  `StopEnds` names this exception;
  TLC finds `ShutdownEnds` violated on the instance of `relay` by exactly these steps.
* A stop that races the end of the capture leaves the mode `stopping`, as
  `stopProbe` throws when the document is gone (`extension/service-worker.js` 158), and the
  page then offers neither stop nor reset (`extension/monitor.js` 211-214).  The
  liveness of the mode is therefore stated for `starting` and for the calls
  only.
* A client that the host rejects extends the resume window of the session it did not have
  (`host/app/host_server.cpp` 370), so `SessionExpires` asks that clients stop
  connecting.
* The relay's control thread takes a closed connection for a time-out and goes on until a ping
  fails (`relay/src/lan_sender.cpp` 458), and bytes that would overflow its buffer are
  dropped (462), after which it may read from the middle of a message.  A configuration
  that is accepted just before the client authenticates goes on while it streams
  (`relay/src/websocket_server.cpp` 447).
