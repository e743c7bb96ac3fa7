-------------------------- MODULE DecoderPipeline --------------------------
(***************************************************************************)
(* The Receiver's decoder pipeline: how the access units (AUs) that reach  *)
(* the network worker get into the platform's AVC decoder, while the UI    *)
(* thread creates and destroys that decoder with the XComponent surface    *)
(* and the application's foreground state.                                 *)
(*                                                                         *)
(* Four actors: the network worker (HandleVideo, FlushDecoder,             *)
(* ReconfigureDecoder), the codec's callback thread (DecoderNeedInput),    *)
(* the UI thread (surface and application events), and the sender on the   *)
(* far end of the socket.  Two mutexes: decoder_queue_mutex_ and           *)
(* decoder_lifecycle_mutex_; everything else the threads share is atomic   *)
(* and read without a lock, so a thread is split into a step at each such  *)
(* read that a concurrent step can invalidate.                             *)
(*                                                                         *)
(* The platform codec is external.  What is assumed of it is what the      *)
(* comment in DestroyDecoderLocked relies on: Flush, Stop and Destroy wait *)
(* for a callback in progress.  Since a callback therefore never outlives  *)
(* its codec, the comparison of its codec handle with decoder_ says no     *)
(* more than "decoder_ is not null", and decoder is a Boolean here.        *)
(***************************************************************************)
EXTENDS Naturals, Sequences

CONSTANTS
  Components,   \* XComponent handles the UI may report
  Windows,      \* native windows the UI may report
  Contracts,    \* media contracts a sender may authenticate with
  Capacity,     \* bound of decode_queue_, 3 in SubmitFrame
  NSlots,       \* input buffers the codec owns
  MaxEvents,    \* bound: surface and application events
  MaxSessions,  \* bound: authentications
  MaxFaults,    \* bound: failing codec calls
  None          \* a null handle, and the contract before the first session

ASSUME CapacityAssumption == Capacity \in Nat /\ Capacity >= 2
ASSUME SlotsAssumption == NSlots \in Nat \ {0}
ASSUME BoundsAssumption ==
  MaxEvents \in Nat /\ MaxSessions \in Nat /\ MaxFaults \in Nat
ASSUME NoneAssumption ==
  None \notin Components /\ None \notin Windows /\ None \notin Contracts

VARIABLES
  gate,            \* DecoderCallbackGate::state_
  recovery,        \* DecoderRecoveryCoordinator::state_
  keyframePending, \* DecoderRecoveryCoordinator::keyframe_request_pending_
  decoder,         \* decoder_ is not null
  queue,           \* decode_queue_
  slots,           \* number of buffers in input_slots_
  queueLock,       \* who holds decoder_queue_mutex_ across steps
  pump,            \* where the holder is in PumpDecoderLocked
  cur,             \* the frame PumpDecoderLocked has popped
  submitted,       \* what OnInputSubmitted is about to store
  component, surface, foreground,    \* ReceiverLifecycleState
  mediaContract,   \* decoder_media_contract_
  activeContract,  \* active_media_contract_
  previousContract,\* local of AuthenticateConnection: what a refusal restores
  lifecycleLock,   \* who holds decoder_lifecycle_mutex_
  stage,           \* where the holder is in the lifecycle procedures
  job,             \* the procedure it runs, and its locals
  net, au,         \* network worker: control state, the AU in HandleVideo
  cb,              \* codec callback thread
  ui,              \* UI thread
  codec,           \* external: the platform codec behind decoder_
  forced,          \* external: the sender owes a complete keyframe
  tailKept,        \* history: the stream's latest AU is queued or submitted
  faults, events, sessions           \* counters of the bounds

recoveryVars == <<recovery, keyframePending>>
queueVars == <<queue, slots, tailKept>>
pumpVars == <<queueLock, pump, cur, submitted>>
surfaceVars == <<component, surface, foreground>>
contractVars == <<mediaContract, activeContract, previousContract>>
lifecycleVars == <<lifecycleLock, stage, job>>
counters == <<faults, events, sessions>>
vars == <<gate, recovery, keyframePending, decoder, queue, slots, tailKept,
          queueLock, pump, cur, submitted, component, surface, foreground,
          mediaContract, activeContract, previousContract, lifecycleLock,
          stage, job, net, au, cb, ui, codec, forced, faults, events, sessions>>

-----------------------------------------------------------------------------
(* Data *)

DecoderLifecycleState ==
  {"stopped", "starting", "running", "flushing", "stopping"}
DecoderRecoveryState == {"needsCodecData", "needsSyncFrame", "ready"}
DecoderInputKind == {"codecData", "syncFrame", "frame"}

\* An AU as HandleVideo tells them apart: a keyframe whose payload has SPS,
\* PPS and IDR, a keyframe that lacks one of them, any other picture.
AccessUnit == {"complete", "idrOnly", "delta"}

\* linked: the AU before this one in the stream is just ahead of it, in the
\* queue or already in the codec (only meaningful for a frame).
DecodedInput == [kind : DecoderInputKind, linked : BOOLEAN]
NoInput == [kind |-> "codecData", linked |-> FALSE]
CodecData == [kind |-> "codecData", linked |-> TRUE]
SyncFrame == [kind |-> "syncFrame", linked |-> TRUE]

\* fed: what the codec has received since it was last created or flushed.
Codec == [life : {"none", "configured", "started", "flushed"},
          buffers : 0..NSlots,
          fed : {"empty", "config", "decoding"},
          surface : Windows \cup {None},
          contract : Contracts \cup {None}]
NoCodec == [life |-> "none", buffers |-> 0, fed |-> "empty",
            surface |-> None, contract |-> None]

Stage == {"idle", "close", "clear", "stop", "create", "configure", "start",
          "abandon", "require", "flushClear", "flush", "restart", "finish"}
Job == [op : {"event", "flush", "reconfigure"}, start : BOOLEAN,
        started : BOOLEAN, ok : BOOLEAN, previous : Contracts \cup {None}]
NoJob == [op |-> "event", start |-> FALSE, started |-> FALSE, ok |-> FALSE,
          previous |-> None]

CallbacksAllowed == gate = "running"
DecoderShouldRun == foreground /\ surface # None

DecoderInputAllowed(state, kind) ==
  \/ state = "needsCodecData" /\ kind = "codecData"
  \/ state = "needsSyncFrame" /\ kind = "syncFrame"
  \/ state = "ready" /\ kind \in {"syncFrame", "frame"}

AdvanceDecoderRecovery(state, kind, pushed) ==
  IF ~pushed THEN "needsCodecData"
  ELSE IF state = "needsCodecData" /\ kind = "codecData" THEN "needsSyncFrame"
  ELSE IF state = "needsSyncFrame" /\ kind = "syncFrame" THEN "ready"
  ELSE state

FedAfter(fed, kind) ==
  IF kind = "codecData" THEN "config"
  ELSE IF kind = "syncFrame" /\ fed # "empty" THEN "decoding"
  ELSE fed

\* Some codec call fails; at most MaxFaults of them do.
Fault == faults < MaxFaults /\ faults' = faults + 1

-----------------------------------------------------------------------------
(* The network worker: HandleVideo and what it calls *)

\* The AU in hand goes no further; RejectAU also asks for a keyframe.
DropAU == tailKept' = FALSE /\ net' = "consume"

RejectSilently == DropAU /\ UNCHANGED keyframePending  \* mutant of RejectAU

RejectAU == DropAU /\ keyframePending' = TRUE

\* The two early checks of HandleVideo: the gate is open, decoder_ not null.
\* From "consume" this is the next message of the same recv.
EnterHandleVideo(kind) ==
  /\ net \in {"idle", "consume"}
  /\ au' = kind
  /\ IF CallbacksAllowed /\ decoder
       THEN net' = "route" /\ UNCHANGED tailKept
       ELSE DropAU
  /\ UNCHANGED <<gate, recoveryVars, decoder, queue, slots, pumpVars,
                 surfaceVars, contractVars, lifecycleVars, cb, ui, codec,
                 counters>>

\* The keyframe the sender owes arrives.
ReceiveRequested == forced /\ forced' = FALSE /\ EnterHandleVideo("complete")

\* Any other AU of the stream, among them those sent before the request.
ReceiveOther(kind) == EnterHandleVideo(kind) /\ UNCHANGED forced

\* HandleVideo branches on a recovery state read without the queue lock.
RouteAU ==
  /\ net = "route"
  /\ \/ /\ recovery = "needsCodecData" /\ au = "complete"
        /\ net' = "submitRecovery"
        /\ UNCHANGED <<tailKept, keyframePending>>
     \/ /\ \/ recovery = "needsCodecData" /\ au # "complete"
           \/ recovery = "needsSyncFrame" /\ au = "delta"
        /\ RejectAU
     \/ /\ \/ recovery = "ready"
           \/ recovery = "needsSyncFrame" /\ au # "delta"
        /\ net' = "submitFrame"
        /\ UNCHANGED <<tailKept, keyframePending>>
  /\ UNCHANGED <<gate, recovery, decoder, queue, slots, pumpVars, surfaceVars,
                 contractVars, lifecycleVars, au, cb, ui, codec, forced,
                 counters>>

BeginPump(owner) == queueLock' = owner /\ pump' = "take"

\* SubmitRecovery: the recovery AU, split in two, replaces what is queued.
SubmitRecovery ==
  /\ net = "submitRecovery"
  /\ queueLock = "free"
  /\ IF CallbacksAllowed /\ decoder /\ recovery = "needsCodecData"
       THEN /\ queue' = <<CodecData, SyncFrame>>
            /\ tailKept' = TRUE
            /\ net' = "pump"
            /\ BeginPump("net")
            /\ UNCHANGED keyframePending
       ELSE /\ RejectAU
            /\ UNCHANGED <<queue, queueLock, pump>>
  /\ UNCHANGED <<gate, recovery, decoder, slots, cur, submitted, surfaceVars,
                 contractVars, lifecycleVars, au, cb, ui, codec, forced,
                 counters>>

AUInput ==
  IF au = "delta" THEN [kind |-> "frame", linked |-> tailKept] ELSE SyncFrame

OneTooMany == Len(queue) > Capacity  \* mutant of QueueFull

QueueFull == Len(queue) >= Capacity

OverflowSilently ==  \* mutant of Overflow
  /\ queue' = <<>>
  /\ recovery' = "needsCodecData"
  /\ UNCHANGED keyframePending

\* Admit finds no room: what is queued is lost, a keyframe is asked for.
Overflow ==
  /\ queue' = <<>>
  /\ recovery' = "needsCodecData"
  /\ keyframePending' = TRUE

FrameAllowed ==
  CallbacksAllowed /\ decoder /\ DecoderInputAllowed(recovery, AUInput.kind)

\* SubmitFrame: what is no longer admissible is dropped without a request;
\* a full queue is emptied and the stream must be recovered.
SubmitFrame ==
  /\ net = "submitFrame"
  /\ queueLock = "free"
  /\ \/ /\ ~FrameAllowed
        /\ DropAU
        /\ UNCHANGED <<recoveryVars, queue, queueLock, pump>>
     \/ /\ FrameAllowed /\ QueueFull
        /\ Overflow
        /\ DropAU
        /\ UNCHANGED <<queueLock, pump>>
     \/ /\ FrameAllowed /\ ~QueueFull
        /\ queue' = Append(queue, AUInput)
        /\ tailKept' = TRUE
        /\ net' = "pump"
        /\ BeginPump("net")
        /\ UNCHANGED recoveryVars
  /\ UNCHANGED <<gate, decoder, slots, cur, submitted, surfaceVars,
                 contractVars, lifecycleVars, au, cb, ui, codec, forced,
                 counters>>

RequestSwallowed == forced  \* mutant of KeyframeOwed

KeyframeOwed == forced \/ keyframePending

\* End of a round of RunConnectedSession: a pending request is sent.
ConsumeKeyFrameRequest ==
  /\ net = "consume" \/ (net = "idle" /\ keyframePending)
  /\ keyframePending' = FALSE
  /\ forced' = KeyframeOwed
  /\ net' = "idle"
  /\ UNCHANGED <<gate, recovery, decoder, queueVars, pumpVars, surfaceVars,
                 contractVars, lifecycleVars, au, cb, ui, codec, counters>>

\* The socket fails, the peer closes, or a control message cannot be sent.
Disconnect ==
  /\ net \in {"idle", "consume"}
  /\ sessions < MaxSessions
  /\ net' = "offline"
  /\ forced' = FALSE
  /\ UNCHANGED <<gate, recoveryVars, decoder, queueVars, pumpVars,
                 surfaceVars, contractVars, lifecycleVars, au, cb, ui, codec,
                 counters>>

\* The worker ends (Stop) and a new one starts: both reset the coordinator.
ResetRecovery ==
  /\ net = "offline"
  /\ recovery' = "needsCodecData"
  /\ keyframePending' = FALSE
  /\ UNCHANGED <<gate, decoder, queueVars, pumpVars, surfaceVars,
                 contractVars, lifecycleVars, net, au, cb, ui, codec, forced,
                 counters>>

-----------------------------------------------------------------------------
(* PumpDecoderLocked, run under the queue lock by the worker or a callback *)

EndPump ==
  /\ queueLock' = "free"
  /\ pump' = "idle"
  /\ IF queueLock = "net" THEN net' = "consume" /\ UNCHANGED cb
                          ELSE cb' = "idle" /\ UNCHANGED net

\* The frames behind a frame that is lost have lost their reference.
AfterLoss(rest) ==
  IF rest = <<>> THEN rest
  ELSE [rest EXCEPT ![1].linked = (rest[1].kind # "frame")]

\* The loop's condition, the pops, and InputAllowed.  A frame that is not
\* admissible is dropped, and the slot taken for it is not put back.
PumpTake ==
  /\ pump = "take"
  /\ \/ /\ ~(CallbacksAllowed /\ decoder /\ slots > 0 /\ queue # <<>>)
        /\ EndPump
        /\ UNCHANGED <<slots, queue, cur, tailKept>>
     \/ /\ CallbacksAllowed /\ decoder /\ slots > 0 /\ queue # <<>>
        /\ slots' = slots - 1
        /\ IF DecoderInputAllowed(recovery, Head(queue).kind)
             THEN /\ cur' = Head(queue)
                  /\ queue' = Tail(queue)
                  /\ pump' = "push"
                  /\ UNCHANGED tailKept
             ELSE /\ queue' = AfterLoss(Tail(queue))
                  /\ tailKept' = (tailKept /\ Len(queue) > 1)
                  /\ UNCHANGED <<cur, pump>>
        /\ UNCHANGED <<queueLock, net, cb>>
  /\ UNCHANGED <<gate, recoveryVars, decoder, submitted, surfaceVars,
                 contractVars, lifecycleVars, au, ui, codec, forced, counters>>

\* The buffer is filled and pushed, and OnInputSubmitted loads the state it
\* is about to replace.  After a push the buffer is the codec's again.
PumpPush ==
  /\ pump = "push"
  /\ pump' = "store"
  /\ \/ /\ codec' = [codec EXCEPT !.buffers = @ + 1,
                                  !.fed = FedAfter(@, cur.kind)]
        /\ submitted' = [state |->
                           AdvanceDecoderRecovery(recovery, cur.kind, TRUE),
                         ok |-> TRUE]
        /\ UNCHANGED faults
     \/ /\ Fault
        /\ submitted' = [state |-> "needsCodecData", ok |-> FALSE]
        /\ UNCHANGED codec
  /\ UNCHANGED <<gate, recoveryVars, decoder, queueVars, queueLock, cur,
                 surfaceVars, contractVars, lifecycleVars, net, au, cb, ui,
                 forced, events, sessions>>

\* The store of OnInputSubmitted; a buffer too small for the frame and a push
\* that failed both clear the queue and ask for a keyframe.
PumpStore ==
  /\ pump = "store"
  /\ recovery' = submitted.state
  /\ submitted' = [state |-> "needsCodecData", ok |-> FALSE]
  /\ cur' = NoInput
  /\ IF submitted.ok
       THEN /\ pump' = "take"
            /\ UNCHANGED <<keyframePending, queue, tailKept, queueLock,
                           net, cb>>
       ELSE /\ keyframePending' = TRUE
            /\ queue' = <<>>
            /\ tailKept' = FALSE
            /\ EndPump
  /\ UNCHANGED <<gate, decoder, slots, surfaceVars, contractVars,
                 lifecycleVars, au, ui, codec, forced, counters>>

-----------------------------------------------------------------------------
(* The codec's callback thread: DecoderNeedInput *)

\* The codec announces an input buffer.  The callback gives up at once when
\* the gate is closed.
NeedInput ==
  /\ cb = "idle"
  /\ codec.life = "started" /\ codec.buffers > 0
  /\ codec' = [codec EXCEPT !.buffers = @ - 1]
  /\ cb' = IF CallbacksAllowed THEN "needInput" ELSE "idle"
  /\ UNCHANGED <<gate, recoveryVars, decoder, queueVars, pumpVars,
                 surfaceVars, contractVars, lifecycleVars, net, au, ui,
                 forced, counters>>

\* Under the queue lock the gate is checked again before the slot is kept.
AddInputSlot ==
  /\ cb = "needInput"
  /\ queueLock = "free"
  /\ IF CallbacksAllowed /\ decoder
       THEN /\ slots' = slots + 1
            /\ cb' = "pump"
            /\ BeginPump("codec")
       ELSE cb' = "idle" /\ UNCHANGED <<slots, queueLock, pump>>
  /\ UNCHANGED <<gate, recoveryVars, decoder, queue, tailKept, cur, submitted,
                 surfaceVars, contractVars, lifecycleVars, net, au, ui, codec,
                 forced, counters>>

-----------------------------------------------------------------------------
(* Lifecycle procedures, run under the lifecycle lock *)

\* DestroyDecoderLocked, 1: the gate closes before anything is cleared.
DestroyClose ==
  /\ stage = "close"
  /\ gate' = "stopping"
  /\ stage' = "clear"
  /\ UNCHANGED <<recoveryVars, decoder, queueVars, pumpVars, surfaceVars,
                 contractVars, lifecycleLock, job, net, au, cb, ui, codec,
                 forced, counters>>

ClearSlotsOnly ==  \* mutant of ClearDecoderQueues
  queueLock = "free" /\ slots' = 0 /\ UNCHANGED <<queue, tailKept>>

ClearFramesOnly ==  \* mutant of ClearDecoderQueues
  queueLock = "free" /\ queue' = <<>> /\ tailKept' = FALSE /\ UNCHANGED slots

ClearDecoderQueues ==
  /\ queueLock = "free"
  /\ queue' = <<>>
  /\ slots' = 0
  /\ tailKept' = FALSE

\* DestroyDecoderLocked, 2: ClearDecoderQueues, then decoder_ becomes null.
DestroyClear ==
  /\ stage = "clear"
  /\ ClearDecoderQueues
  /\ decoder' = FALSE
  /\ stage' = "stop"
  /\ UNCHANGED <<gate, recoveryVars, pumpVars, surfaceVars, contractVars,
                 lifecycleLock, job, net, au, cb, ui, codec, forced, counters>>

\* DestroyDecoderLocked, 3: Stop and Destroy wait for a callback in progress.
DestroyCodec ==
  /\ stage = "stop"
  /\ cb = "idle"
  /\ codec' = NoCodec
  /\ gate' = "stopped"
  /\ recovery' = "needsCodecData"
  /\ stage' = IF job.start THEN "create" ELSE "finish"
  /\ UNCHANGED <<keyframePending, decoder, queueVars, pumpVars, surfaceVars,
                 contractVars, lifecycleLock, job, net, au, cb, ui, forced,
                 counters>>

\* CreateDecoderLocked, 1: without a contract there is nothing to create.
CreateDecoder ==
  /\ stage = "create"
  /\ IF mediaContract = None
       THEN gate' = "stopped" /\ stage' = "finish"
       ELSE gate' = "starting" /\ stage' = "configure"
  /\ UNCHANGED <<recoveryVars, decoder, queueVars, pumpVars, surfaceVars,
                 contractVars, lifecycleLock, job, net, au, cb, ui, codec,
                 forced, counters>>

\* CreateDecoderLocked, 2: CreateByMime, RegisterCallback, Configure,
\* SetSurface and Prepare; the gate opens before Start.
ConfigureDecoder ==
  /\ stage = "configure"
  /\ \/ /\ codec' = [NoCodec EXCEPT !.life = "configured",
                                    !.surface = surface,
                                    !.contract = mediaContract]
        /\ decoder' = TRUE
        /\ gate' = "running"
        /\ stage' = "start"
        /\ UNCHANGED faults
     \/ /\ Fault
        /\ gate' = "stopped"
        /\ stage' = "finish"
        /\ UNCHANGED <<codec, decoder>>
  /\ UNCHANGED <<recoveryVars, queueVars, pumpVars, surfaceVars, contractVars,
                 lifecycleLock, job, net, au, cb, ui, forced, events,
                 sessions>>

\* CreateDecoderLocked, 3: Start, from which the codec announces buffers.
StartDecoder ==
  /\ stage = "start"
  /\ \/ /\ codec' = [codec EXCEPT !.life = "started", !.buffers = NSlots]
        /\ stage' = "require"
        /\ UNCHANGED <<gate, faults>>
     \/ /\ Fault
        /\ gate' = "stopping"
        /\ stage' = "abandon"
        /\ UNCHANGED codec
  /\ UNCHANGED <<recoveryVars, decoder, queueVars, pumpVars, surfaceVars,
                 contractVars, lifecycleLock, job, net, au, cb, ui, forced,
                 events, sessions>>

\* CreateDecoderLocked, Start failed: clear, forget and destroy the codec.
AbandonDecoder ==
  /\ stage = "abandon"
  /\ ClearDecoderQueues
  /\ decoder' = FALSE
  /\ codec' = NoCodec
  /\ gate' = "stopped"
  /\ stage' = "finish"
  /\ UNCHANGED <<recoveryVars, pumpVars, surfaceVars, contractVars,
                 lifecycleLock, job, net, au, cb, ui, forced, counters>>

\* CreateDecoderLocked, 4: the state is reset after the gate has opened.
RequireAfterStart ==
  /\ stage = "require"
  /\ recovery' = "needsCodecData"
  /\ job' = [job EXCEPT !.started = TRUE, !.ok = TRUE]
  /\ stage' = "finish"
  /\ UNCHANGED <<gate, keyframePending, decoder, queueVars, pumpVars,
                 surfaceVars, contractVars, lifecycleLock, net, au, cb, ui,
                 codec, forced, counters>>

\* FlushDecoder, 1: BeginFlush has closed the gate; the queues are cleared.
FlushClear ==
  /\ stage = "flushClear"
  /\ ClearDecoderQueues
  /\ \/ /\ decoder
        /\ stage' = "flush"
        /\ UNCHANGED <<gate, job>>
     \/ /\ ~decoder
        /\ gate' = "stopped"
        /\ stage' = IF DecoderShouldRun THEN "create" ELSE "finish"
        /\ job' = [job EXCEPT !.ok = ~DecoderShouldRun]
  /\ UNCHANGED <<recoveryVars, decoder, pumpVars, surfaceVars, contractVars,
                 lifecycleLock, net, au, cb, ui, codec, forced, counters>>

Rebuild ==
  /\ stage' = "close"
  /\ job' = [job EXCEPT !.start = DecoderShouldRun]

\* FlushDecoder, 2: Flush returns every buffer to the codec, which forgets
\* its parameter sets; the gate opens before the restart.
FlushCodec ==
  /\ stage = "flush"
  /\ cb = "idle"
  /\ \/ /\ codec' = [codec EXCEPT !.life = "flushed", !.buffers = 0,
                                  !.fed = "empty"]
        /\ gate' = "running"
        /\ stage' = "restart"
        /\ UNCHANGED <<job, faults>>
     \/ /\ Fault
        /\ Rebuild
        /\ UNCHANGED <<codec, gate>>
  /\ UNCHANGED <<recoveryVars, decoder, queueVars, pumpVars, surfaceVars,
                 contractVars, lifecycleLock, net, au, cb, ui, forced, events,
                 sessions>>

\* FlushDecoder, 3: Start again, or destroy and create.
RestartCodec ==
  /\ stage = "restart"
  /\ \/ /\ codec' = [codec EXCEPT !.life = "started", !.buffers = NSlots]
        /\ stage' = "finish"
        /\ job' = [job EXCEPT !.ok = TRUE]
        /\ UNCHANGED faults
     \/ /\ Fault
        /\ Rebuild
        /\ UNCHANGED codec
  /\ UNCHANGED <<gate, recoveryVars, decoder, queueVars, pumpVars,
                 surfaceVars, contractVars, lifecycleLock, net, au, cb, ui,
                 forced, events, sessions>>

Release ==
  /\ lifecycleLock' = "free"
  /\ stage' = "idle"

\* The end of a surface or application event.
FinishEvent ==
  /\ stage = "finish" /\ job.op = "event"
  /\ Release
  /\ job' = NoJob
  /\ ui' = IF job.started THEN "request" ELSE "idle"
  /\ UNCHANGED <<gate, recoveryVars, decoder, queueVars, pumpVars,
                 surfaceVars, contractVars, net, au, cb, codec, forced,
                 counters>>

KeepNewContract == mediaContract  \* mutant of ContractAfterSession

ContractAfterSession ==
  IF job.op = "reconfigure" /\ ~job.ok THEN job.previous ELSE mediaContract

\* The end of FlushDecoder and ReconfigureDecoder inside the lock.
FinishSession ==
  /\ stage = "finish" /\ job.op # "event"
  /\ Release
  /\ recovery' = "needsCodecData"
  /\ mediaContract' = ContractAfterSession
  /\ net' = IF job.ok THEN "prepared" ELSE "refused"
  /\ job' = NoJob
  /\ UNCHANGED <<gate, keyframePending, decoder, queueVars, pumpVars,
                 surfaceVars, activeContract, previousContract, au, cb, ui,
                 codec, forced, counters>>

-----------------------------------------------------------------------------
(* The end of an authentication, and the UI's events *)

\* The trusted, accepted end of AuthenticateConnection: the contract becomes
\* the active one, and the decoder is flushed or reconfigured for it.
Authenticate(contract) ==
  /\ net = "offline"
  /\ lifecycleLock = "free"
  /\ sessions < MaxSessions
  /\ sessions' = sessions + 1
  /\ activeContract' = contract
  /\ previousContract' = activeContract
  /\ lifecycleLock' = "net"
  /\ net' = "auth"
  /\ IF activeContract = contract
       THEN /\ job' = [NoJob EXCEPT !.op = "flush"]
            /\ gate' = "flushing"
            /\ stage' = "flushClear"
            /\ UNCHANGED mediaContract
       ELSE /\ job' = [NoJob EXCEPT !.op = "reconfigure",
                                    !.start = DecoderShouldRun,
                                    !.ok = ~DecoderShouldRun,
                                    !.previous = mediaContract]
            /\ mediaContract' = contract
            /\ stage' = "close"
            /\ UNCHANGED gate
  /\ UNCHANGED <<recoveryVars, decoder, queueVars, pumpVars, surfaceVars, au,
                 cb, ui, codec, forced, faults, events>>

\* RequestKeyframe after the lock is released, then ready, or the rollback of
\* the active contract and the error reply.
AnswerAuthentication ==
  /\ net \in {"prepared", "refused"}
  /\ keyframePending' = TRUE
  /\ previousContract' = None
  /\ \/ net = "prepared" /\ net' = "consume" /\ UNCHANGED activeContract
     \/ /\ net = "prepared" /\ sessions < MaxSessions
        /\ net' = "offline" /\ UNCHANGED activeContract
     \/ /\ net = "refused"
        /\ net' = "offline" /\ activeContract' = previousContract
  /\ UNCHANGED <<gate, recovery, decoder, queueVars, pumpVars, surfaceVars,
                 mediaContract, lifecycleVars, au, cb, ui, codec, forced,
                 counters>>

HealthyIsEnough(identityChanged) ==  \* mutant of Outdated
  ~(decoder /\ gate = "running")

Outdated(identityChanged) ==
  identityChanged \/ ~(decoder /\ gate = "running")

\* ReceiverLifecycleState::Reconcile and ApplyLifecycleDecisionLocked: what an
\* accepted event makes of the decoder, from the state it finds it in.
Reconcile(shouldRun, identityChanged) ==
  LET exists == decoder \/ gate # "stopped"
      stop == exists /\ (~shouldRun \/ Outdated(identityChanged))
      start == shouldRun /\ Outdated(identityChanged)
  IN  /\ job' = [NoJob EXCEPT !.start = start]
      /\ stage' = IF stop THEN "close"
                  ELSE IF start THEN "create" ELSE "finish"
      /\ lifecycleLock' = "ui"
      /\ ui' = "event"

UIEvent ==
  /\ ui = "idle"
  /\ lifecycleLock = "free"
  /\ events < MaxEvents
  /\ events' = events + 1
  /\ UNCHANGED <<gate, recoveryVars, decoder, queueVars, pumpVars,
                 contractVars, net, au, cb, codec, forced, faults, sessions>>

OnSurfaceCreated(c, w) ==
  /\ UIEvent
  /\ component' = c /\ surface' = w
  /\ UNCHANGED foreground
  /\ Reconcile(foreground, c # component \/ w # surface)

\* Another component's change is ignored while one is known.
OnSurfaceChanged(c, w) ==
  /\ UIEvent
  /\ component \in {None, c}
  /\ component' = c /\ surface' = w
  /\ UNCHANGED foreground
  /\ Reconcile(foreground, c # component \/ w # surface)

\* The destruction of anything but the current surface is ignored.
OnSurfaceDestroyed(c, w) ==
  /\ UIEvent
  /\ component = c /\ surface = w
  /\ component' = None /\ surface' = None
  /\ UNCHANGED foreground
  /\ Reconcile(FALSE, TRUE)

OnAppForeground ==
  /\ UIEvent
  /\ foreground' = TRUE
  /\ UNCHANGED <<component, surface>>
  /\ Reconcile(surface # None, FALSE)

OnAppBackground ==
  /\ UIEvent
  /\ foreground' = FALSE
  /\ UNCHANGED <<component, surface>>
  /\ Reconcile(FALSE, FALSE)

\* After the lock is released the event handler asks for a keyframe.
RequestKeyframe ==
  /\ ui = "request"
  /\ ui' = "idle"
  /\ keyframePending' = TRUE
  /\ UNCHANGED <<gate, recovery, decoder, queueVars, pumpVars, surfaceVars,
                 contractVars, lifecycleVars, net, au, cb, codec, forced,
                 counters>>

-----------------------------------------------------------------------------
(* The specification *)

Init ==
  /\ gate = "stopped"
  /\ recovery = "needsCodecData" /\ keyframePending = FALSE
  /\ decoder = FALSE
  /\ queue = <<>> /\ slots = 0 /\ tailKept = FALSE
  /\ queueLock = "free" /\ pump = "idle" /\ cur = NoInput
  /\ submitted = [state |-> "needsCodecData", ok |-> FALSE]
  /\ component = None /\ surface = None /\ foreground = TRUE
  /\ mediaContract = None /\ activeContract = None /\ previousContract = None
  /\ lifecycleLock = "free" /\ stage = "idle" /\ job = NoJob
  /\ net = "offline" /\ au = "delta" /\ cb = "idle" /\ ui = "idle"
  /\ codec = NoCodec
  /\ forced = FALSE
  /\ faults = 0 /\ events = 0 /\ sessions = 0

HandleVideo ==
  \/ ReceiveRequested
  \/ \E kind \in AccessUnit : ReceiveOther(kind)
  \/ RouteAU
  \/ SubmitRecovery
  \/ SubmitFrame

PumpDecoder == PumpTake \/ PumpPush \/ PumpStore

Lifecycle ==
  \/ DestroyClose \/ DestroyClear \/ DestroyCodec
  \/ CreateDecoder \/ ConfigureDecoder \/ StartDecoder \/ AbandonDecoder
  \/ RequireAfterStart
  \/ FlushClear \/ FlushCodec \/ RestartCodec
  \/ FinishEvent \/ FinishSession

Events ==
  \/ \E c \in Components, w \in Windows :
       OnSurfaceCreated(c, w) \/ OnSurfaceChanged(c, w)
         \/ OnSurfaceDestroyed(c, w)
  \/ OnAppForeground
  \/ OnAppBackground

Next ==
  \/ HandleVideo
  \/ ConsumeKeyFrameRequest
  \/ Disconnect
  \/ ResetRecovery
  \/ PumpDecoder
  \/ NeedInput
  \/ AddInputSlot
  \/ Lifecycle
  \/ \E contract \in Contracts : Authenticate(contract)
  \/ AnswerAuthentication
  \/ Events
  \/ RequestKeyframe

Spec == Init /\ [][Next]_vars

\* The threads run, the sender keeps sending and reconnects, and a thread
\* that waits for a mutex gets it: the acquisitions that another thread can
\* win again and again are strongly fair.  One recv brings a bounded number of
\* AUs, so the worker reaches the end of its round again.  A sender that
\* owes a keyframe makes its next encodable frame one, so that only finitely
\* many others are still on the way.
Fairness ==
  /\ SF_vars(ReceiveRequested)
  /\ WF_vars(RouteAU)
  /\ SF_vars(SubmitRecovery)
  /\ SF_vars(SubmitFrame)
  /\ SF_vars(ConsumeKeyFrameRequest)
  /\ WF_vars(PumpDecoder)
  /\ SF_vars(NeedInput)
  /\ SF_vars(AddInputSlot)
  /\ SF_vars(Lifecycle)
  /\ WF_vars(RequestKeyframe)
  /\ SF_vars(\E contract \in Contracts : Authenticate(contract))
  /\ WF_vars(AnswerAuthentication)

FairSpec == Spec /\ Fairness

-----------------------------------------------------------------------------
(* Properties *)

FlagsOK ==
  /\ keyframePending \in BOOLEAN
  /\ decoder \in BOOLEAN
  /\ tailKept \in BOOLEAN
  /\ foreground \in BOOLEAN
  /\ forced \in BOOLEAN

RecordsOK ==
  /\ cur \in DecodedInput
  /\ submitted \in [state : DecoderRecoveryState, ok : BOOLEAN]
  /\ job \in Job
  /\ codec \in Codec

PositionsOK ==
  /\ gate \in DecoderLifecycleState
  /\ recovery \in DecoderRecoveryState
  /\ queueLock \in {"free", "net", "codec"}
  /\ pump \in {"idle", "take", "push", "store"}
  /\ lifecycleLock \in {"free", "net", "ui"}
  /\ stage \in Stage
  /\ net \in {"offline", "auth", "prepared", "refused", "idle", "route",
              "submitRecovery", "submitFrame", "pump", "consume"}
  /\ au \in AccessUnit
  /\ cb \in {"idle", "needInput", "pump"}
  /\ ui \in {"idle", "event", "request"}

ValuesOK ==
  /\ queue \in Seq(DecodedInput) /\ Len(queue) <= Capacity
  /\ slots \in 0..NSlots
  /\ component \in Components \cup {None}
  /\ surface \in Windows \cup {None}
  /\ mediaContract \in Contracts \cup {None}
  /\ activeContract \in Contracts \cup {None}
  /\ previousContract \in Contracts \cup {None}
  /\ faults \in 0..MaxFaults
  /\ events \in 0..MaxEvents
  /\ sessions \in 0..MaxSessions

\* Every variable keeps its type; in particular decode_queue_ never exceeds
\* its bound and input_slots_ never holds more buffers than the codec has.
TypeOK == FlagsOK /\ RecordsOK /\ PositionsOK /\ ValuesOK

\* What PumpDecoderLocked pushes reaches a started codec, and in an order the
\* codec can use: parameter sets, then an IDR, then other pictures, since the
\* codec was created or last flushed.
InputInOrder ==
  pump = "push" =>
    /\ codec.life = "started"
    /\ cur.kind = "syncFrame" => codec.fed # "empty"
    /\ cur.kind = "frame" => codec.fed = "decoding"

\* A buffer the codec took back when it was flushed or destroyed is never
\* still in input_slots_, nor announced or pushed a second time.
InHand == (IF pump = "push" THEN 1 ELSE 0) + (IF cb = "needInput" THEN 1 ELSE 0)
SlotsConserved == codec.buffers + slots + InHand <= NSlots

\* Whenever no lifecycle procedure runs, a decoder exists only for a visible
\* surface, renders to the current surface, was configured with the current
\* contract, and the gate is open exactly when there is one.
DecoderMatchesLifecycle ==
  lifecycleLock = "free" =>
    /\ gate = IF decoder THEN "running" ELSE "stopped"
    /\ decoder => /\ DecoderShouldRun
                  /\ codec.life = "started"
                  /\ codec.surface = surface
                  /\ codec.contract = mediaContract
    /\ ~decoder => codec = NoCodec

\* While the worker serves a session, or waits for one, the contract the
\* decoder is created with is the one the sender was accepted with, also
\* after a reconfiguration that failed and was rolled back.
ContractsAgree ==
  net \notin {"auth", "prepared", "refused"} => mediaContract = activeContract

InSession == net \notin {"offline", "auth", "prepared", "refused"}

Queued(kind) == \E i \in DOMAIN queue : queue[i].kind = kind

\* In this state no frame is admissible and none that could become so is queued.
StuckIn(state) ==
  \/ state = "needsCodecData" /\ ~Queued("codecData")
  \/ state = "needsSyncFrame" /\ ~Queued("syncFrame")

Stuck == StuckIn(recovery)

\* A decoder that can only be helped by a keyframe has one coming: when all
\* threads are between two calls, the request is pending or was sent and is
\* not yet answered.  No drop, overflow, failed push, flush or restart, in
\* whatever order they meet, forgets to ask or has its request swallowed.
RequestNotForgotten ==
  (/\ net = "idle" /\ cb = "idle" /\ ui = "idle" /\ lifecycleLock = "free"
   /\ decoder /\ Stuck)
  => keyframePending \/ forced

\* A picture whose predecessor was dropped is pushed, in a session and to a
\* decoder that stays, only while its repair is under way: a keyframe was
\* asked for, is in the worker's hands, or is queued behind it.
BrokenChainUnderRepair ==
  (/\ pump = "push" /\ cur.kind = "frame" /\ ~cur.linked
   /\ CallbacksAllowed /\ InSession) =>
    \/ keyframePending \/ forced
    \/ net \in {"route", "submitFrame", "submitRecovery"} /\ au = "complete"
    \/ Queued("syncFrame")

\* A decoder that stays in a session is fed again and again or is ready and
\* merely has nothing to decode: every drop, overflow, rejected keyframe and
\* failed push is followed by a keyframe that reaches the codec (PROTOCOL.md
\* lines 297-298 promise this after an overflow, an input buffer that is too
\* small and a failed submission alike).
KeepsFeeding ==
  <>[](decoder /\ InSession) => []<>(pump = "push" \/ recovery = "ready")

-----------------------------------------------------------------------------
(* The inductive invariant behind the safety properties *)

\* Which thread is inside which critical section.
LockInv ==
  /\ queueLock = "free" <=> pump = "idle"
  /\ queueLock = "net" <=> net = "pump"
  /\ queueLock = "codec" <=> cb = "pump"
  /\ lifecycleLock = "free" <=> stage = "idle"
  /\ lifecycleLock = "net" <=> net = "auth"
  /\ lifecycleLock = "ui" <=> ui = "event"
  /\ lifecycleLock = "net" <=> job.op # "event"
  /\ stage \in {"flushClear", "flush", "restart"} => job.op = "flush"

\* What the lifecycle procedures have established at each of their steps.
StageInv ==
  /\ stage \in {"idle", "finish"} =>
       /\ gate = IF decoder THEN "running" ELSE "stopped"
       /\ codec.life = IF decoder THEN "started" ELSE "none"
  /\ stage = "close" =>
       codec.life \in IF decoder THEN {"started", "flushed"} ELSE {"none"}
  /\ stage = "clear" =>
       /\ gate = "stopping"
       /\ codec.life \in IF decoder THEN {"started", "flushed"} ELSE {"none"}
  /\ stage = "stop" => gate = "stopping" /\ ~decoder
  /\ stage = "create" => gate = "stopped" /\ ~decoder /\ codec.life = "none"
  /\ stage = "configure" =>
       gate = "starting" /\ ~decoder /\ codec.life = "none"
  /\ stage = "start" =>
       gate = "running" /\ decoder /\ codec.life = "configured"
  /\ stage = "abandon" =>
       gate = "stopping" /\ decoder /\ codec.life = "configured"
  /\ stage = "require" =>
       gate = "running" /\ decoder /\ codec.life = "started"
  /\ stage = "flushClear" =>
       gate = "flushing" /\ codec.life = IF decoder THEN "started" ELSE "none"
  /\ stage = "flush" => gate = "flushing" /\ decoder /\ codec.life = "started"
  /\ stage = "restart" => gate = "running" /\ decoder /\ codec.life = "flushed"

\* A decoder is only ever wanted, kept or left for a visible surface, and the
\* codec behind it was set up for that surface and the current contract.
MatchInv ==
  /\ stage \in {"close", "clear", "stop"} /\ job.start => DecoderShouldRun
  /\ stage \in {"create", "configure"} => DecoderShouldRun
  /\ stage \in {"idle", "finish", "start", "abandon", "require", "flushClear",
                "flush", "restart"} /\ decoder =>
       /\ DecoderShouldRun
       /\ codec.surface = surface
       /\ codec.contract = mediaContract
  /\ stage = "finish" /\ job.op = "reconfigure" /\ decoder => job.ok
  /\ codec.life = "none" => codec = NoCodec

\* Buffers are only out of the codec's hands while it is started, and then
\* never more of them than it has.
SlotsInv ==
  /\ codec.life = "started" => SlotsConserved
  /\ codec.life # "started" =>
       /\ slots = 0 /\ codec.buffers = 0
       /\ cb = "idle" /\ pump \in {"idle", "take"}
  /\ stage \in {"stop", "flush"} => slots = 0 /\ queue = <<>> /\ pump = "idle"

FedEnough(state) ==
  /\ state = "ready" => codec.fed = "decoding"
  /\ state = "needsSyncFrame" => codec.fed # "empty"

\* From the clearing of the queues to the end of a FlushDecoder.
Flushing == job.op = "flush" /\ stage # "flushClear"

\* The recovery state promises no more than the codec has received.  During a
\* flush it may, but then the worker itself is busy and nothing is queued.
FedInv ==
  /\ ~Flushing => FedEnough(recovery)
  /\ Flushing => queue = <<>> /\ pump \in {"idle", "take"}
  /\ pump = "push" /\ cur.kind = "codecData" => recovery = "needsCodecData"
  /\ pump = "store" => FedEnough(submitted.state)
  /\ codec.life \in {"none", "configured", "flushed"} => codec.fed = "empty"

IInv ==
  TypeOK /\ LockInv /\ StageInv /\ MatchInv /\ SlotsInv /\ FedInv
    /\ InputInOrder

\* The contracts while an authentication decides between two of them: what is
\* restored when it is refused is what was in force before.
ContractInv ==
  /\ net # "refused" => mediaContract = activeContract
  /\ net = "refused" => mediaContract = previousContract
  /\ job.op = "flush" => mediaContract = previousContract
  /\ job.op = "reconfigure" => job.previous = previousContract

-----------------------------------------------------------------------------
(* The inductive invariant behind the requests for keyframes *)

\* The recovery state once PumpDecoderLocked has stored what it is about to,
\* unless a push fails.
RecoveryAhead ==
  IF pump = "push" THEN AdvanceDecoderRecovery(recovery, cur.kind, TRUE)
  ELSE IF pump = "store" THEN submitted.state
  ELSE recovery

\* The decoder is about to be destroyed, and the gate is closed.
Closing == stage \in {"clear", "abandon"}

\* A UI event has created the decoder and has yet to ask for its keyframe.
Restarting ==
  \/ stage \in {"start", "require"}
  \/ stage = "finish" /\ job.started
  \/ ui = "request"

PushFailed == pump = "store" /\ ~submitted.ok

KeyframeInHand ==
  net \in {"route", "submitFrame", "submitRecovery"} /\ au = "complete"

KeyframeComing ==
  keyframePending \/ forced \/ ~InSession \/ Closing \/ KeyframeInHand

\* A keyframe is coming, or is certain to be asked for before anything but a
\* complete recovery can reach the codec.
RepairComing ==
  \/ KeyframeComing
  \/ PushFailed
  \/ /\ Restarting
     /\ RecoveryAhead = "needsCodecData" /\ ~Queued("codecData")

\* Where the parameter sets are in the queue, and what it may hold when.
QueueInv ==
  /\ ~decoder => queue = <<>>
  /\ \A i \in DOMAIN queue : queue[i].kind = "codecData" =>
       i = 1 /\ Len(queue) >= 2 /\ queue[2].kind = "syncFrame"
  /\ Queued("codecData") =>
       /\ pump \in {"idle", "take"}
       /\ recovery = "needsCodecData"
       /\ net # "submitFrame"

\* What the steps between two reads of the shared state may rely on.
PositionInv ==
  /\ pump \in {"push", "store"} => decoder
  /\ pump = "store" =>
       IF submitted.ok
       THEN recovery = "needsCodecData" \/ submitted.state \in {recovery, "ready"}
       ELSE submitted.state = "needsCodecData"
  /\ stage = "close" /\ job.op = "event" /\ decoder => gate = "running"
  /\ net = "submitRecovery" => au = "complete"
  /\ net = "submitFrame" /\ au = "delta" => RecoveryAhead # "needsSyncFrame"
  /\ net = "submitFrame" /\ decoder /\ RecoveryAhead = "needsCodecData" =>
       keyframePending \/ Closing \/ Restarting \/ PushFailed

\* Wherever the stream is broken, its repair is on the way: in a decoder that
\* only a keyframe can help, behind the latest AU when that one was dropped,
\* and at a picture that is queued or popped without its predecessor.
RepairInv ==
  /\ decoder /\ StuckIn(RecoveryAhead) => RepairComing
  /\ decoder /\ ~tailKept => RepairComing
  /\ \A i \in DOMAIN queue :
       decoder /\ queue[i].kind = "frame" /\ ~queue[i].linked =>
         \/ RepairComing
         \/ \E j \in DOMAIN queue : j > i /\ queue[j].kind = "syncFrame"
  /\ pump = "push" /\ cur.kind = "frame" /\ ~cur.linked =>
       KeyframeComing \/ Queued("syncFrame")

KeyframeInv == QueueInv /\ PositionInv /\ RepairInv
=============================================================================
