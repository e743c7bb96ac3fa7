----------------------- MODULE DecoderPipelineProofs -----------------------
(***************************************************************************)
(* Proofs of the safety properties of DecoderPipeline, for every number of *)
(* codec buffers, queue bound, window, contract and bound of the counters. *)
(*                                                                         *)
(* The argument: IInv is inductive.  One lemma per action shows that the   *)
(* action preserves each conjunct of IInv; NextInv collects them.  The     *)
(* same once more for KeyframeInv, which is inductive relative to IInv and *)
(* carries the two properties of keyframe requests, and for ContractInv.   *)
(*                                                                         *)
(* Records are updated with EXCEPT; the first lemmas say what such updates *)
(* do, because the solver does not see it in the size of obligation the    *)
(* step lemmas make.                                                       *)
(***************************************************************************)
EXTENDS DecoderPipeline, TLAPS

-----------------------------------------------------------------------------
(* Updates of records and of the queue *)

\* A started or flushed codec stays a codec when its fields change.
LEMMA CodecFields ==
  ASSUME NEW c \in Codec,
         NEW life \in {"none", "configured", "started", "flushed"},
         NEW buffers \in 0..NSlots,
         NEW fed \in {"empty", "config", "decoding"}
  PROVE  /\ [c EXCEPT !.buffers = buffers] \in Codec
         /\ [c EXCEPT !.life = life, !.buffers = buffers] \in Codec
         /\ [c EXCEPT !.buffers = buffers, !.fed = fed] \in Codec
         /\ [c EXCEPT !.life = life, !.buffers = buffers, !.fed = fed] \in Codec
BY DEF Codec

\* Start hands out every buffer; Flush takes them back and empties the codec.
LEMMA CodecSteps ==
  ASSUME NEW c \in Codec, SlotsAssumption
  PROVE  /\ [c EXCEPT !.life = "started", !.buffers = NSlots] \in Codec
         /\ [c EXCEPT !.life = "flushed", !.buffers = 0, !.fed = "empty"]
              \in Codec
<1>1. NSlots \in 0..NSlots /\ 0 \in 0..NSlots BY DEF SlotsAssumption
<1> QED BY <1>1 DEF Codec

\* ClearDecoderQueues leaves a decode_queue_ of the right type.
LEMMA EmptyQueue ==
  ASSUME CapacityAssumption
  PROVE  <<>> \in Seq(DecodedInput) /\ Len(<<>>) <= Capacity
BY DEF CapacityAssumption

\* The locals of an event procedure before it has decided anything.
LEMMA NoJobInJob == NoJob \in Job
BY Zenon DEF Job, NoJob

\* Recording a procedure's decisions keeps the type of its locals.
LEMMA JobFields ==
  ASSUME NEW j \in Job, NEW b \in BOOLEAN, NEW ok \in BOOLEAN
  PROVE  /\ [j EXCEPT !.start = b] \in Job
         /\ [j EXCEPT !.ok = b] \in Job
         /\ [j EXCEPT !.started = b, !.ok = ok] \in Job
BY DEF Job

\* The locals of FlushDecoder and of ReconfigureDecoder when they begin.
LEMMA SessionJobs ==
  ASSUME NEW b \in BOOLEAN, NEW ok \in BOOLEAN, NEW p \in Contracts \cup {None}
  PROVE  /\ [NoJob EXCEPT !.op = "flush"] \in Job
         /\ [NoJob EXCEPT !.op = "reconfigure", !.start = b, !.ok = ok,
                          !.previous = p] \in Job
<1>1. NoJob \in Job BY NoJobInJob
<1> QED BY <1>1 DEF Job

\* The frames behind a lost one stay frames, and none is added.
LEMMA AfterLossType ==
  ASSUME NEW rest \in Seq(DecodedInput)
  PROVE  AfterLoss(rest) \in Seq(DecodedInput) /\ Len(AfterLoss(rest)) = Len(rest)
<1>1. CASE rest = <<>> BY <1>1 DEF AfterLoss
<1>2. CASE rest # <<>>
  <2> DEFINE b == rest[1].kind # "frame"
             first == [rest[1] EXCEPT !.linked = b]
  <2>1. b \in BOOLEAN OBVIOUS
  <2>2. rest[1] \in DecodedInput BY <1>2
  <2> HIDE DEF b
  <2>3. first \in DecodedInput BY <2>1, <2>2 DEF DecodedInput
  <2>4. /\ [rest EXCEPT ![1] = first] \in Seq(DecodedInput)
        /\ Len([rest EXCEPT ![1] = first]) = Len(rest)
    <3> HIDE DEF first
    <3> QED BY <2>3, <1>2
  <2> QED BY <2>4, <1>2 DEF AfterLoss, b
<1> QED BY <1>1, <1>2

\* The inputs the network worker queues.
LEMMA InputTypes ==
  ASSUME FlagsOK
  PROVE  {CodecData, SyncFrame, AUInput, NoInput} \subseteq DecodedInput
<1>1. CodecData \in DecodedInput
  BY Zenon DEF DecodedInput, DecoderInputKind, CodecData
<1>2. SyncFrame \in DecodedInput
  BY Zenon DEF DecodedInput, DecoderInputKind, SyncFrame
<1>3. NoInput \in DecodedInput
  BY Zenon DEF DecodedInput, DecoderInputKind, NoInput
<1>4. [kind |-> "frame", linked |-> tailKept] \in DecodedInput
  BY Zenon DEF DecodedInput, DecoderInputKind, FlagsOK
<1>5. AUInput \in DecodedInput
  BY <1>2, <1>4 DEF AUInput
<1> QED BY <1>1, <1>2, <1>3, <1>5


-----------------------------------------------------------------------------
(* Typing and effect of the actions that update a record or the queue *)

\* A codec that announces a buffer has one less of its own.
LEMMA NeedInputRecords ==
  ASSUME RecordsOK, SlotsAssumption, NeedInput PROVE RecordsOK'
<1>1. codec.buffers - 1 \in 0..NSlots
  BY DEF NeedInput, RecordsOK, Codec, SlotsAssumption
<1>2. codec' \in Codec BY <1>1, CodecFields DEF NeedInput, RecordsOK
<1>3. UNCHANGED <<cur, submitted, job>>
  BY DEF NeedInput, pumpVars, lifecycleVars
<1> QED BY <1>2, <1>3 DEF RecordsOK

\* What PumpDecoderLocked pops is an input.
LEMMA PumpTakeRecords ==
  ASSUME RecordsOK, ValuesOK, PumpTake PROVE RecordsOK'
<1>1. queue # <<>> => Head(queue) \in DecodedInput BY DEF ValuesOK
<1>2. cur' \in DecodedInput BY <1>1 DEF RecordsOK, PumpTake
<1>3. UNCHANGED <<submitted, job, codec>> BY DEF PumpTake, lifecycleVars
<1> QED BY <1>2, <1>3 DEF RecordsOK

\* Popping, or dropping what is not admissible, keeps decode_queue_ bounded.
LEMMA PumpTakeQueue ==
  ASSUME ValuesOK, CapacityAssumption, PumpTake
  PROVE  queue' \in Seq(DecodedInput) /\ Len(queue') <= Capacity
<1>1. CASE queue' = queue BY <1>1 DEF ValuesOK
<1>2. CASE queue # <<>> /\ queue' = Tail(queue)
  BY <1>2 DEF ValuesOK, CapacityAssumption
<1>3. CASE queue # <<>> /\ queue' = AfterLoss(Tail(queue))
  <2>1. Tail(queue) \in Seq(DecodedInput) /\ Len(Tail(queue)) <= Capacity
    BY <1>3 DEF ValuesOK, CapacityAssumption
  <2> QED BY <1>3, <2>1, AfterLossType
<1> QED BY <1>1, <1>2, <1>3 DEF PumpTake

\* Admit keeps decode_queue_ within its bound.
LEMMA SubmitFrameQueue ==
  ASSUME FlagsOK, ValuesOK, CapacityAssumption, SubmitFrame
  PROVE  queue' \in Seq(DecodedInput) /\ Len(queue') <= Capacity
<1>1. AUInput \in DecodedInput BY InputTypes
<1>2. CASE queue' = queue BY <1>2 DEF ValuesOK
<1>4. CASE queue' = <<>> BY <1>4, EmptyQueue
<1>3. CASE queue' = Append(queue, AUInput) /\ ~QueueFull
  BY <1>1, <1>3 DEF ValuesOK, CapacityAssumption, QueueFull
<1> QED BY <1>2, <1>3, <1>4 DEF SubmitFrame, Overflow

\* The store of OnInputSubmitted keeps the queue or clears it.
LEMMA PumpStoreValues ==
  ASSUME ValuesOK, CapacityAssumption, PumpStore PROVE ValuesOK'
<1>1. queue' = queue \/ queue' = <<>> BY DEF PumpStore
<1>2. UNCHANGED <<slots, component, surface, mediaContract, activeContract,
                  previousContract, faults, events, sessions>>
  BY DEF PumpStore, surfaceVars, contractVars, counters
<1>3. queue' \in Seq(DecodedInput) /\ Len(queue') <= Capacity
  BY <1>1, EmptyQueue DEF ValuesOK
<1> QED BY <1>2, <1>3 DEF ValuesOK

\* Start leaves the codec's record well typed.
LEMMA StartDecoderRecords ==
  ASSUME RecordsOK, SlotsAssumption, StartDecoder PROVE RecordsOK'
<1>2. codec' \in Codec BY Zenon, CodecSteps DEF StartDecoder, RecordsOK
<1>3. UNCHANGED <<cur, submitted, job>>
  BY DEF StartDecoder, pumpVars, lifecycleVars
<1> QED BY <1>2, <1>3 DEF RecordsOK

\* The decisions DecoderShouldRun enters into the procedure's locals.
LEMMA JobAfterRun ==
  ASSUME RecordsOK
  PROVE  /\ [job EXCEPT !.start = DecoderShouldRun] \in Job
         /\ [job EXCEPT !.ok = ~DecoderShouldRun] \in Job
         /\ [job EXCEPT !.ok = TRUE] \in Job
<1> DEFINE run == DecoderShouldRun
<1>1. run \in BOOLEAN /\ (~run) \in BOOLEAN /\ TRUE \in BOOLEAN
  BY Zenon DEF DecoderShouldRun
<1>2. job \in Job BY DEF RecordsOK
<1> HIDE DEF run
<1>3. [job EXCEPT !.start = run] \in Job BY <1>1, <1>2, JobFields
<1>4. [job EXCEPT !.ok = ~run] \in Job BY Zenon, <1>1, <1>2, JobFields
<1>5. [job EXCEPT !.ok = TRUE] \in Job BY Zenon, <1>1, <1>2, JobFields
<1> QED BY Zenon, <1>3, <1>4, <1>5 DEF run

\* FlushDecoder without a decoder only records whether it may go on.
LEMMA FlushClearRecords ==
  ASSUME RecordsOK, FlushClear PROVE RecordsOK'
<1>1. job' = job \/ job' = [job EXCEPT !.ok = ~DecoderShouldRun]
  BY Zenon DEF FlushClear
<1>2. job' \in Job BY Zenon, <1>1, JobAfterRun DEF RecordsOK
<1>3. UNCHANGED <<cur, submitted, codec>>
  BY DEF FlushClear, pumpVars
<1> QED BY <1>2, <1>3 DEF RecordsOK

\* Flush, or falling back to a rebuild, keeps the records well typed.
LEMMA FlushCodecRecords ==
  ASSUME RecordsOK, SlotsAssumption, FlushCodec PROVE RecordsOK'
<1>1. job' = job \/ job' = [job EXCEPT !.start = DecoderShouldRun]
  BY Zenon DEF FlushCodec, Rebuild
<1>2. job' \in Job BY Zenon, <1>1, JobAfterRun DEF RecordsOK
<1>4. codec' \in Codec BY Zenon, CodecSteps DEF FlushCodec, RecordsOK
<1>5. UNCHANGED <<cur, submitted>> BY DEF FlushCodec, pumpVars
<1> QED BY <1>2, <1>4, <1>5 DEF RecordsOK

\* Restarting, or falling back to a rebuild, keeps the records well typed.
LEMMA RestartCodecRecords ==
  ASSUME RecordsOK, SlotsAssumption, RestartCodec PROVE RecordsOK'
<1>1. \/ job' = [job EXCEPT !.ok = TRUE]
      \/ job' = [job EXCEPT !.start = DecoderShouldRun]
  BY Zenon DEF RestartCodec, Rebuild
<1>2. job' \in Job BY Zenon, <1>1, JobAfterRun DEF RecordsOK
<1>4. codec' \in Codec BY Zenon, CodecSteps DEF RestartCodec, RecordsOK
<1>5. UNCHANGED <<cur, submitted>> BY DEF RestartCodec, pumpVars
<1> QED BY <1>2, <1>4, <1>5 DEF RecordsOK

\* The two outcomes of PushInputBuffer, field by field.
LEMMA PumpPushEffect ==
  ASSUME RecordsOK, PumpPush
  PROVE  \/ /\ faults' = faults
            /\ submitted' =
                 [state |-> AdvanceDecoderRecovery(recovery, cur.kind, TRUE),
                  ok |-> TRUE]
            /\ submitted'.state =
                 AdvanceDecoderRecovery(recovery, cur.kind, TRUE)
            /\ codec' = [codec EXCEPT !.buffers = codec.buffers + 1,
                                      !.fed = FedAfter(codec.fed, cur.kind)]
            /\ codec'.life = codec.life
            /\ codec'.buffers = codec.buffers + 1
            /\ codec'.fed = FedAfter(codec.fed, cur.kind)
            /\ codec'.surface = codec.surface
            /\ codec'.contract = codec.contract
         \/ /\ Fault
            /\ submitted' = [state |-> "needsCodecData", ok |-> FALSE]
            /\ submitted'.state = "needsCodecData"
            /\ codec' = codec
<1>1. codec \in Codec BY DEF RecordsOK
<1>2. CASE /\ codec' = [codec EXCEPT !.buffers = @ + 1,
                                     !.fed = FedAfter(@, cur.kind)]
           /\ submitted' =
                [state |-> AdvanceDecoderRecovery(recovery, cur.kind, TRUE),
                 ok |-> TRUE]
           /\ faults' = faults
  BY <1>1, <1>2 DEF Codec
<1>3. CASE /\ Fault /\ codec' = codec
           /\ submitted' = [state |-> "needsCodecData", ok |-> FALSE]
  BY <1>3
<1> QED BY Zenon, <1>2, <1>3 DEF PumpPush

\* AdvanceDecoderRecovery yields a recovery state.
LEMMA AdvanceType ==
  ASSUME NEW state \in DecoderRecoveryState, NEW kind \in DecoderInputKind
  PROVE  AdvanceDecoderRecovery(state, kind, TRUE) \in DecoderRecoveryState
BY DEF AdvanceDecoderRecovery, DecoderRecoveryState, DecoderInputKind

\* A push returns at most the buffer in hand to the codec.
LEMMA PumpPushRecords ==
  ASSUME RecordsOK, PositionsOK, ValuesOK, SlotsAssumption, PumpPush,
         SlotsConserved, pump = "push"
  PROVE  RecordsOK'
<1>1. cur \in DecodedInput /\ recovery \in DecoderRecoveryState /\ codec \in Codec
  BY DEF RecordsOK, PositionsOK
<1>2. UNCHANGED <<cur, job>> BY DEF PumpPush, lifecycleVars
<1>3. submitted' \in [state : DecoderRecoveryState, ok : BOOLEAN]
  <2> DEFINE next == AdvanceDecoderRecovery(recovery, cur.kind, TRUE)
  <2>1. next \in DecoderRecoveryState BY <1>1, AdvanceType DEF DecodedInput
  <2> HIDE DEF next
  <2>2. [state |-> next, ok |-> TRUE] \in [state : DecoderRecoveryState, ok : BOOLEAN]
    BY Zenon, <2>1
  <2>3. [state |-> "needsCodecData", ok |-> FALSE] \in
          [state : DecoderRecoveryState, ok : BOOLEAN]
    BY Zenon DEF DecoderRecoveryState
  <2> QED BY Zenon, <2>2, <2>3, PumpPushEffect DEF next
<1>4. codec' \in Codec
  <2>1. codec.buffers + 1 \in 0..NSlots
    BY <1>1 DEF SlotsConserved, InHand, ValuesOK, Codec, SlotsAssumption
  <2>2. FedAfter(codec.fed, cur.kind) \in {"empty", "config", "decoding"}
    BY <1>1 DEF Codec, FedAfter
  <2>3. [codec EXCEPT !.buffers = codec.buffers + 1,
                      !.fed = FedAfter(codec.fed, cur.kind)] \in Codec
    BY <1>1, <2>1, <2>2, CodecFields
  <2> QED BY Zenon, <1>1, <2>3, PumpPushEffect
<1> QED BY <1>1, <1>2, <1>3, <1>4 DEF RecordsOK

\* The two outcomes of setting a codec up, field by field.
LEMMA ConfigureEffect ==
  ASSUME ConfigureDecoder
  PROVE  \/ /\ codec' = [life |-> "configured", buffers |-> 0, fed |-> "empty",
                         surface |-> surface, contract |-> mediaContract]
            /\ codec'.life = "configured" /\ codec'.buffers = 0
            /\ codec'.fed = "empty"
            /\ codec'.surface = surface /\ codec'.contract = mediaContract
            /\ decoder' = TRUE
            /\ gate' = "running" /\ stage' = "start"
            /\ faults' = faults
         \/ /\ Fault
            /\ gate' = "stopped" /\ stage' = "finish"
            /\ UNCHANGED <<codec, decoder>>
BY DEF ConfigureDecoder, NoCodec

\* An accepted contract begins a flush or a reconfiguration.
LEMMA AuthenticateEffect ==
  ASSUME NEW contract \in Contracts, Authenticate(contract), ValuesOK, FlagsOK
  PROVE  /\ job' \in Job
         /\ job'.op \in {"flush", "reconfigure"}
         /\ job'.op = "flush" =>
              /\ gate' = "flushing" /\ stage' = "flushClear" 
              /\ mediaContract' = mediaContract
         /\ job'.op = "reconfigure" =>
              /\ gate' = gate /\ stage' = "close"
              /\ mediaContract' = contract
              /\ job'.start <=> DecoderShouldRun
<1> DEFINE run == DecoderShouldRun
<1>1. run \in BOOLEAN /\ (~run) \in BOOLEAN BY Zenon DEF DecoderShouldRun
<1>2. CASE activeContract = contract
  <2>1. job' = [NoJob EXCEPT !.op = "flush"]
    BY Zenon, <1>2 DEF Authenticate
  <2>2. job' \in Job BY Zenon, <2>1, SessionJobs, TRUE \in BOOLEAN, None \in Contracts \cup {None}
  <2>3. job'.op = "flush" BY <2>1 DEF NoJob
  <2> QED BY <1>2, <2>2, <2>3 DEF Authenticate
<1>3. CASE activeContract # contract
  <2>1. job' = [NoJob EXCEPT !.op = "reconfigure", !.start = run, !.ok = ~run,
                             !.previous = mediaContract]
    BY Zenon, <1>3 DEF Authenticate
  <2> HIDE DEF run
  <2>2. job' \in Job
    BY Zenon, <1>1, <2>1, SessionJobs DEF ValuesOK
  <2>3. job'.op = "reconfigure" /\ job'.start = run
    BY <1>1, <2>1 DEF NoJob
  <2>4. gate' = gate /\ stage' = "close" /\ mediaContract' = contract
    BY <1>3 DEF Authenticate
  <2> QED BY <1>1, <2>2, <2>3, <2>4 DEF run
<1> QED BY <1>2, <1>3
-----------------------------------------------------------------------------
(* Every action preserves the inductive invariant *)

\* PushInputBuffer: the codec and the state about to be stored advance
\* together.
LEMMA PumpPushStep ==
  ASSUME IInv, PumpPush
  PROVE  IInv'
<1> USE CapacityAssumption, SlotsAssumption, BoundsAssumption, NoneAssumption
<1>0. /\ pump = "push" /\ pump' = "store"
      /\ UNCHANGED <<gate, recoveryVars, decoder, queueVars, queueLock, cur,
                     surfaceVars, contractVars, lifecycleVars, net, au, cb, ui,
                     forced, events, sessions>>
  BY DEF PumpPush
<1>1. /\ TypeOK /\ LockInv /\ StageInv /\ MatchInv /\ SlotsInv /\ FedInv
      /\ InputInOrder
  BY DEF IInv
<1>2. /\ codec.life = "started" /\ codec'.life = "started"
      /\ codec'.surface = codec.surface /\ codec'.contract = codec.contract
  BY <1>0, <1>1, PumpPushEffect DEF TypeOK, InputInOrder
<1>3. FlagsOK'
  BY <1>0, <1>1 DEF TypeOK, FlagsOK, recoveryVars, queueVars, surfaceVars
<1>4. RecordsOK'
  <2>1. SlotsConserved BY <1>1, <1>2 DEF SlotsInv
  <2> QED BY <1>0, <1>1, <2>1, PumpPushRecords DEF TypeOK
<1>5. PositionsOK'
  BY <1>0, <1>1
  DEF TypeOK, PositionsOK, recoveryVars, lifecycleVars
<1>6. ValuesOK'
  <2>1. faults' = faults \/ Fault
    BY Zenon, <1>1, PumpPushEffect DEF TypeOK
  <2>2. faults' \in 0..MaxFaults
    BY <1>1, <2>1 DEF TypeOK, ValuesOK, Fault
  <2> QED
    BY <1>0, <1>1, <2>2
    DEF TypeOK, ValuesOK, queueVars, surfaceVars, contractVars
<1>7. LockInv'
  BY <1>0, <1>1 DEF LockInv, lifecycleVars
<1>8. StageInv'
  BY <1>0, <1>1, <1>2 DEF StageInv, lifecycleVars
<1>9. MatchInv'
  BY <1>0, <1>1, <1>2
  DEF MatchInv, DecoderShouldRun, surfaceVars, contractVars, lifecycleVars
<1>10. SlotsInv'
  <2>1. codec'.buffers \in {codec.buffers, codec.buffers + 1}
    BY <1>1, PumpPushEffect DEF TypeOK
  <2>2. SlotsConserved'
    <3>1. codec.buffers \in Nat /\ slots \in Nat
      BY <1>1 DEF TypeOK, RecordsOK, ValuesOK, Codec
    <3>2. SlotsConserved BY <1>1, <1>2 DEF SlotsInv
    <3>3. slots' = slots /\ cb' = cb BY <1>0 DEF queueVars
    <3> QED BY <1>0, <2>1, <3>1, <3>2, <3>3 DEF SlotsConserved, InHand
  <2>3. stage' = stage /\ stage \notin {"stop", "flush"}
    BY <1>0, <1>1 DEF SlotsInv, lifecycleVars
  <2> QED BY <1>2, <2>2, <2>3 DEF SlotsInv
<1>11. FedInv'
  <2>1. ~Flushing /\ ~Flushing'
    BY <1>0, <1>1 DEF FedInv, Flushing, lifecycleVars
  <2>2. recovery' = recovery BY <1>0 DEF recoveryVars
  <2>3. /\ FedEnough(recovery)
        /\ cur.kind = "codecData" => recovery = "needsCodecData"
        /\ cur.kind = "syncFrame" => codec.fed # "empty"
        /\ cur.kind = "frame" => codec.fed = "decoding"
    BY <1>0, <1>1, <2>1 DEF FedInv, InputInOrder
  <2>4. CASE codec' = codec /\ submitted'.state = "needsCodecData"
    BY <1>0, <1>2, <2>1, <2>2, <2>3, <2>4 DEF FedInv, FedEnough
  <2>5. CASE /\ codec'.fed = FedAfter(codec.fed, cur.kind)
             /\ submitted'.state =
                  AdvanceDecoderRecovery(recovery, cur.kind, TRUE)
    <3>1. FedEnough(recovery)' /\ FedEnough(submitted.state)'
      <4>1. cur.kind \in DecoderInputKind /\ recovery \in DecoderRecoveryState
        BY <1>1 DEF TypeOK, RecordsOK, PositionsOK, DecodedInput
      <4>2. FedEnough(recovery)'
        BY <2>2, <2>3, <2>5, <4>1
        DEF FedEnough, FedAfter, DecoderInputKind, DecoderRecoveryState
      <4>3. FedEnough(submitted.state)'
        BY <2>3, <2>5, <4>1
        DEF FedEnough, FedAfter, AdvanceDecoderRecovery, DecoderInputKind,
            DecoderRecoveryState
      <4> QED BY <4>2, <4>3
    <3> QED BY <1>0, <1>2, <2>1, <3>1 DEF FedInv
  <2> QED BY Zenon, <1>1, <2>4, <2>5, PumpPushEffect DEF TypeOK
<1>12. InputInOrder'
  BY <1>0 DEF InputInOrder
<1> QED
  BY <1>3, <1>4, <1>5, <1>6, <1>7, <1>8, <1>9, <1>10, <1>11, <1>12
  DEF IInv, TypeOK

\* Configure, SetSurface and Prepare fix the surface and the contract.
LEMMA ConfigureDecoderStep ==
  ASSUME IInv, ConfigureDecoder
  PROVE  IInv'
<1> USE CapacityAssumption, SlotsAssumption, BoundsAssumption, NoneAssumption
<1>0. /\ stage = "configure"
      /\ UNCHANGED <<recoveryVars, queueVars, pumpVars, surfaceVars,
                     contractVars, lifecycleLock, job, net, au, cb, ui,
                     forced, events, sessions>>
  BY DEF ConfigureDecoder
<1>1. /\ TypeOK /\ LockInv /\ StageInv /\ MatchInv /\ SlotsInv /\ FedInv
      /\ InputInOrder
  BY DEF IInv
<1>2. /\ gate = "starting" /\ ~decoder /\ DecoderShouldRun
      /\ codec = NoCodec /\ codec.life = "none" /\ codec.buffers = 0
      /\ codec.fed = "empty"
  BY <1>0, <1>1 DEF StageInv, MatchInv, NoCodec
<1>3. \/ /\ codec' = [life |-> "configured", buffers |-> 0, fed |-> "empty",
                      surface |-> surface, contract |-> mediaContract]
         /\ codec'.life = "configured" /\ codec'.buffers = 0
         /\ codec'.fed = "empty"
         /\ codec'.surface = surface /\ codec'.contract = mediaContract
         /\ decoder' = TRUE /\ gate' = "running" /\ stage' = "start"
         /\ faults' = faults
      \/ /\ codec' = codec /\ decoder' = decoder
         /\ gate' = "stopped" /\ stage' = "finish"
         /\ Fault
  BY Zenon, ConfigureEffect
<1>4. FlagsOK'
  <2>1. decoder' \in BOOLEAN BY Zenon, <1>1, <1>3 DEF TypeOK, FlagsOK
  <2> QED
    BY <1>0, <1>1, <2>1
    DEF TypeOK, FlagsOK, recoveryVars, queueVars, surfaceVars
<1>5. RecordsOK'
  <2>1. codec' \in Codec
    BY <1>1, <1>3 DEF TypeOK, RecordsOK, ValuesOK, Codec
  <2> QED BY <1>0, <1>1, <2>1 DEF TypeOK, RecordsOK, pumpVars
<1>6. PositionsOK'
  BY <1>0, <1>1, <1>3
  DEF TypeOK, PositionsOK, recoveryVars, pumpVars, Stage,
      DecoderLifecycleState
<1>7. ValuesOK'
  <2>1. faults' \in 0..MaxFaults BY <1>1, <1>3 DEF TypeOK, ValuesOK, Fault
  <2> QED
    BY <1>0, <1>1, <2>1
    DEF TypeOK, ValuesOK, queueVars, surfaceVars, contractVars
<1>8. LockInv'
  BY <1>0, <1>1, <1>3 DEF LockInv, pumpVars
<1>9. StageInv'
  BY <1>2, <1>3 DEF StageInv
<1>10. MatchInv'
  <2>1. DecoderShouldRun' /\ surface' = surface /\ mediaContract' = mediaContract
    BY <1>0, <1>2 DEF DecoderShouldRun, surfaceVars, contractVars
  <2>2. codec'.life = "none" => codec' = NoCodec' BY <1>2, <1>3 DEF NoCodec
  <2> QED BY <1>2, <1>3, <2>1, <2>2 DEF MatchInv
<1>11. SlotsInv'
  BY <1>0, <1>1, <1>2, <1>3 DEF SlotsInv, queueVars, pumpVars
<1>12. FedInv'
  <2>1. /\ recovery' = recovery /\ submitted' = submitted /\ cur' = cur
        /\ pump' = pump /\ queue' = queue /\ job' = job
    BY <1>0 DEF recoveryVars, pumpVars, queueVars
  <2> QED
    BY <1>0, <1>1, <1>2, <1>3, <2>1 DEF FedInv, FedEnough, Flushing
<1>13. InputInOrder'
  BY <1>0, <1>1, <1>2 DEF InputInOrder, pumpVars
<1> QED
  BY <1>4, <1>5, <1>6, <1>7, <1>8, <1>9, <1>10, <1>11, <1>12, <1>13
  DEF IInv, TypeOK

\* An accepted authentication takes the lifecycle lock.
LEMMA AuthenticateStep ==
  ASSUME IInv, NEW k \in Contracts, Authenticate(k)
  PROVE  IInv'
<1> USE CapacityAssumption, SlotsAssumption, BoundsAssumption, NoneAssumption
<1>0. /\ net = "offline" /\ lifecycleLock = "free"
      /\ net' = "auth" /\ lifecycleLock' = "net"
      /\ sessions < MaxSessions /\ sessions' = sessions + 1
      /\ activeContract' = k /\ previousContract' = activeContract
      /\ UNCHANGED <<recoveryVars, decoder, queueVars, pumpVars, surfaceVars,
                     au, cb, ui, codec, forced, faults, events>>
  BY DEF Authenticate
<1>1. /\ TypeOK /\ LockInv /\ StageInv /\ MatchInv /\ SlotsInv /\ FedInv
      /\ InputInOrder
  BY DEF IInv
<1>2. /\ job' \in Job
      /\ \/ /\ job'.op = "flush" /\ gate' = "flushing"
            /\ stage' = "flushClear" /\ mediaContract' = mediaContract
         \/ /\ job'.op = "reconfigure" /\ gate' = gate /\ stage' = "close"
            /\ mediaContract' = k
            /\ job'.start <=> DecoderShouldRun
  BY <1>1, AuthenticateEffect DEF TypeOK
<1>3. stage = "idle" /\ DecoderShouldRun' = DecoderShouldRun
  BY <1>0, <1>1 DEF LockInv, DecoderShouldRun, surfaceVars
<1>4. FlagsOK'
  BY <1>0, <1>1 DEF TypeOK, FlagsOK, recoveryVars, queueVars, surfaceVars
<1>5. RecordsOK'
  BY <1>0, <1>1, <1>2 DEF TypeOK, RecordsOK, pumpVars
<1>6. PositionsOK'
  BY <1>0, <1>1, <1>2
  DEF TypeOK, PositionsOK, recoveryVars, pumpVars, Stage,
      DecoderLifecycleState
<1>7. ValuesOK'
  <2>1. sessions' \in 0..MaxSessions BY <1>0, <1>1 DEF TypeOK, ValuesOK
  <2>2. /\ mediaContract' \in Contracts \cup {None}
        /\ activeContract' \in Contracts \cup {None}
        /\ previousContract' \in Contracts \cup {None}
    BY <1>0, <1>1, <1>2 DEF TypeOK, ValuesOK
  <2> QED
    BY <1>0, <1>1, <2>1, <2>2 DEF TypeOK, ValuesOK, queueVars, surfaceVars
<1>8. LockInv'
  BY <1>0, <1>1, <1>2 DEF LockInv, pumpVars
<1>9. StageInv'
  BY <1>0, <1>1, <1>2, <1>3 DEF StageInv
<1>10. MatchInv'
  <2>1. surface' = surface BY <1>0 DEF surfaceVars
  <2> QED BY <1>0, <1>1, <1>2, <1>3, <2>1 DEF MatchInv, NoCodec
<1>11. SlotsInv'
  BY <1>0, <1>1, <1>2
  DEF SlotsInv, SlotsConserved, InHand, queueVars, pumpVars
<1>12. FedInv'
  <2>1. /\ recovery' = recovery /\ submitted' = submitted /\ cur' = cur
        /\ pump' = pump /\ codec' = codec
    BY <1>0 DEF recoveryVars, pumpVars
  <2>2. ~Flushing /\ ~Flushing'
    BY <1>0, <1>1, <1>2, <1>3 DEF Flushing, LockInv
  <2> QED BY <1>1, <2>1, <2>2 DEF FedInv, FedEnough
<1>13. InputInOrder'
  BY <1>0, <1>1 DEF InputInOrder, pumpVars
<1> QED
  BY <1>4, <1>5, <1>6, <1>7, <1>8, <1>9, <1>10, <1>11, <1>12, <1>13
  DEF IInv, TypeOK

\* The remaining steps are small, and each of them needs the same definitions.
USE CapacityAssumption, SlotsAssumption, BoundsAssumption, NoneAssumption
    DEF IInv, TypeOK, FlagsOK, RecordsOK, PositionsOK, ValuesOK, recoveryVars,
        queueVars, pumpVars, surfaceVars, contractVars, lifecycleVars,
        counters, CallbacksAllowed, DecoderLifecycleState,
        DecoderRecoveryState, DecoderInputKind, AccessUnit, DecodedInput,
        Codec, Stage, Job

\* HandleVideo's early checks, for the keyframe the sender owed.
LEMMA ReceiveRequestedStep ==
  ASSUME IInv, ReceiveRequested
  PROVE  IInv'
<1> USE DEF ReceiveRequested, EnterHandleVideo, DropAU
<1>1. FlagsOK'
  BY DEF DecoderShouldRun
<1>2. RecordsOK' /\ PositionsOK' /\ ValuesOK'
  BY DEF SlotsInv, SlotsConserved, InHand, NoCodec, DecoderShouldRun
<1>3. LockInv' /\ StageInv' /\ MatchInv' /\ SlotsInv' /\ FedInv' /\
       InputInOrder'
  BY DEF LockInv, StageInv, MatchInv, SlotsInv, SlotsConserved, InHand,
         FedInv, FedEnough, Flushing, InputInOrder, NoCodec, DecoderShouldRun
<1> QED BY <1>1, <1>2, <1>3

\* HandleVideo's early checks, for any other AU.
LEMMA ReceiveOtherStep ==
  ASSUME IInv, NEW kind \in AccessUnit, ReceiveOther(kind)
  PROVE  IInv'
<1> USE DEF ReceiveOther, EnterHandleVideo, DropAU
<1>1. FlagsOK'
  BY DEF DecoderShouldRun
<1>2. RecordsOK' /\ PositionsOK' /\ ValuesOK'
  BY DEF SlotsInv, SlotsConserved, InHand, NoCodec, DecoderShouldRun
<1>3. LockInv' /\ StageInv' /\ MatchInv' /\ SlotsInv' /\ FedInv' /\
       InputInOrder'
  BY DEF LockInv, StageInv, MatchInv, SlotsInv, SlotsConserved, InHand,
         FedInv, FedEnough, Flushing, InputInOrder, NoCodec, DecoderShouldRun
<1> QED BY <1>1, <1>2, <1>3

\* HandleVideo's branch on a recovery state read without the queue lock.
LEMMA RouteAUStep ==
  ASSUME IInv, RouteAU
  PROVE  IInv'
<1> USE DEF RouteAU, DropAU, RejectAU
<1>1. FlagsOK'
  BY DEF DecoderShouldRun
<1>2. RecordsOK' /\ PositionsOK' /\ ValuesOK'
  BY DEF SlotsInv, SlotsConserved, InHand, NoCodec, DecoderShouldRun
<1>3. LockInv' /\ StageInv' /\ MatchInv' /\ SlotsInv' /\ FedInv' /\
       InputInOrder'
  BY DEF LockInv, StageInv, MatchInv, SlotsInv, SlotsConserved, InHand,
         FedInv, FedEnough, Flushing, InputInOrder, NoCodec, DecoderShouldRun
<1> QED BY <1>1, <1>2, <1>3

\* SubmitRecovery replaces the queue under the lock, after a second check.
LEMMA SubmitRecoveryStep ==
  ASSUME IInv, SubmitRecovery
  PROVE  IInv'
<1> USE DEF SubmitRecovery, DropAU, RejectAU, BeginPump, CodecData, SyncFrame
<1>1. FlagsOK'
  BY DEF DecoderShouldRun
<1>2. ValuesOK'
  <2>1. queue' \in Seq(DecodedInput) /\ Len(queue') <= Capacity
    <3>1. CASE queue' = <<CodecData, SyncFrame>>
      <4>1. CodecData \in DecodedInput /\ SyncFrame \in DecodedInput
        BY InputTypes
      <4> HIDE DEF CodecData, SyncFrame, DecodedInput
      <4> QED BY <3>1, <4>1
    <3>2. CASE queue' = queue BY <3>2
    <3> QED BY <3>1, <3>2
  <2> QED BY <2>1
<1>3. RecordsOK' /\ PositionsOK'
  BY DEF SlotsInv, SlotsConserved, InHand, NoCodec, DecoderShouldRun
<1>4. LockInv' /\ StageInv' /\ MatchInv' /\ SlotsInv' /\ FedInv' /\
       InputInOrder'
  BY DEF LockInv, StageInv, MatchInv, SlotsInv, SlotsConserved, InHand,
         FedInv, FedEnough, Flushing, InputInOrder, NoCodec, DecoderShouldRun
<1> QED BY <1>1, <1>2, <1>3, <1>4

\* SubmitFrame admits, drops or overflows under the queue lock.
LEMMA SubmitFrameStep ==
  ASSUME IInv, SubmitFrame
  PROVE  IInv'
<1> USE DEF SubmitFrame, DropAU, BeginPump, Overflow, QueueFull, FrameAllowed,
            AUInput, SyncFrame
<1>1. FlagsOK'
  BY DEF DecoderShouldRun
<1>2. ValuesOK'
  <2>1. queue' \in Seq(DecodedInput) /\ Len(queue') <= Capacity
    BY SubmitFrameQueue
  <2> QED BY <2>1
<1>3. RecordsOK' /\ PositionsOK'
  BY DEF SlotsInv, SlotsConserved, InHand, NoCodec, DecoderShouldRun
<1>4. LockInv' /\ StageInv' /\ MatchInv' /\ SlotsInv' /\ FedInv' /\
       InputInOrder'
  BY DEF LockInv, StageInv, MatchInv, SlotsInv, SlotsConserved, InHand,
         FedInv, FedEnough, Flushing, InputInOrder, NoCodec, DecoderShouldRun
<1> QED BY <1>1, <1>2, <1>3, <1>4

\* Sending the pending request changes no decoder state.
LEMMA ConsumeKeyFrameRequestStep ==
  ASSUME IInv, ConsumeKeyFrameRequest
  PROVE  IInv'
<1> USE DEF ConsumeKeyFrameRequest, KeyframeOwed
<1>1. FlagsOK'
  BY DEF DecoderShouldRun
<1>2. RecordsOK' /\ PositionsOK' /\ ValuesOK'
  BY DEF SlotsInv, SlotsConserved, InHand, NoCodec, DecoderShouldRun
<1>3. LockInv' /\ StageInv' /\ MatchInv' /\ SlotsInv' /\ FedInv' /\
       InputInOrder'
  BY DEF LockInv, StageInv, MatchInv, SlotsInv, SlotsConserved, InHand,
         FedInv, FedEnough, Flushing, InputInOrder, NoCodec, DecoderShouldRun
<1> QED BY <1>1, <1>2, <1>3

\* A session that ends changes no decoder state.
LEMMA DisconnectStep ==
  ASSUME IInv, Disconnect
  PROVE  IInv'
<1> USE DEF Disconnect
<1>1. FlagsOK'
  BY DEF DecoderShouldRun
<1>2. RecordsOK' /\ PositionsOK' /\ ValuesOK'
  BY DEF SlotsInv, SlotsConserved, InHand, NoCodec, DecoderShouldRun
<1>3. LockInv' /\ StageInv' /\ MatchInv' /\ SlotsInv' /\ FedInv' /\
       InputInOrder'
  BY DEF LockInv, StageInv, MatchInv, SlotsInv, SlotsConserved, InHand,
         FedInv, FedEnough, Flushing, InputInOrder, NoCodec, DecoderShouldRun
<1> QED BY <1>1, <1>2, <1>3

\* Reset may lower the recovery state at any time: lower promises less.
LEMMA ResetRecoveryStep ==
  ASSUME IInv, ResetRecovery
  PROVE  IInv'
<1> USE DEF ResetRecovery
<1>1. FlagsOK'
  BY DEF DecoderShouldRun
<1>2. RecordsOK' /\ PositionsOK' /\ ValuesOK'
  BY DEF SlotsInv, SlotsConserved, InHand, NoCodec, DecoderShouldRun
<1>3. LockInv' /\ StageInv' /\ MatchInv' /\ SlotsInv' /\ FedInv' /\
       InputInOrder'
  BY DEF LockInv, StageInv, MatchInv, SlotsInv, SlotsConserved, InHand,
         FedInv, FedEnough, Flushing, InputInOrder, NoCodec, DecoderShouldRun
<1> QED BY <1>1, <1>2, <1>3

\* The pops of PumpDecoderLocked and its check of InputAllowed.
LEMMA PumpTakeStep ==
  ASSUME IInv, PumpTake
  PROVE  IInv'
<1> USE DEF PumpTake, EndPump, DecoderInputAllowed
<1>1. FlagsOK'
  BY DEF DecoderShouldRun
<1>2. RecordsOK'
  BY PumpTakeRecords
<1>3. ValuesOK'
  <2>1. queue' \in Seq(DecodedInput) /\ Len(queue') <= Capacity
    BY PumpTakeQueue
  <2>2. slots' \in 0..NSlots OBVIOUS
  <2> QED BY <2>1, <2>2
<1>4. PositionsOK'
  BY DEF SlotsInv, SlotsConserved, InHand, NoCodec, DecoderShouldRun
<1>5. LockInv'
  BY DEF LockInv, StageInv, MatchInv, SlotsInv, SlotsConserved, InHand,
         FedInv, FedEnough, Flushing, InputInOrder, NoCodec, DecoderShouldRun
<1>6. StageInv'
  BY DEF LockInv, StageInv, MatchInv, SlotsInv, SlotsConserved, InHand,
         FedInv, FedEnough, Flushing, InputInOrder, NoCodec, DecoderShouldRun
<1>7. MatchInv'
  BY DEF LockInv, StageInv, MatchInv, SlotsInv, SlotsConserved, InHand,
         FedInv, FedEnough, Flushing, InputInOrder, NoCodec, DecoderShouldRun
<1>8. SlotsInv'
  BY DEF LockInv, StageInv, MatchInv, SlotsInv, SlotsConserved, InHand,
         FedInv, FedEnough, Flushing, InputInOrder, NoCodec, DecoderShouldRun
<1>9. FedInv'
  BY DEF LockInv, StageInv, MatchInv, SlotsInv, SlotsConserved, InHand,
         FedInv, FedEnough, Flushing, InputInOrder, NoCodec, DecoderShouldRun
<1>10. InputInOrder'
  BY DEF LockInv, StageInv, MatchInv, SlotsInv, SlotsConserved, InHand,
         FedInv, FedEnough, Flushing, InputInOrder, NoCodec, DecoderShouldRun
<1> QED BY <1>1, <1>2, <1>3, <1>4, <1>5, <1>6, <1>7, <1>8, <1>9, <1>10

\* The store of OnInputSubmitted matches what the codec received.
LEMMA PumpStoreStep ==
  ASSUME IInv, PumpStore
  PROVE  IInv'
<1> USE DEF PumpStore, EndPump, NoInput
<1>1. FlagsOK'
  BY DEF DecoderShouldRun
<1>2. ValuesOK'
  BY PumpStoreValues
<1>3. RecordsOK' /\ PositionsOK'
  BY DEF SlotsInv, SlotsConserved, InHand, NoCodec, DecoderShouldRun
<1>4. LockInv' /\ StageInv' /\ MatchInv' /\ SlotsInv' /\ FedInv' /\
       InputInOrder'
  BY DEF LockInv, StageInv, MatchInv, SlotsInv, SlotsConserved, InHand,
         FedInv, FedEnough, Flushing, InputInOrder, NoCodec, DecoderShouldRun
<1> QED BY <1>1, <1>2, <1>3, <1>4

\* A buffer passes from the codec into the callback's hands.
LEMMA NeedInputStep ==
  ASSUME IInv, NeedInput
  PROVE  IInv'
<1> USE DEF NeedInput
<1>1. FlagsOK'
  BY DEF DecoderShouldRun
<1>2. RecordsOK'
  BY NeedInputRecords
<1>3. PositionsOK' /\ ValuesOK'
  BY DEF SlotsInv, SlotsConserved, InHand, NoCodec, DecoderShouldRun
<1>4. LockInv'
  BY DEF LockInv, StageInv, MatchInv, SlotsInv, SlotsConserved, InHand,
         FedInv, FedEnough, Flushing, InputInOrder, NoCodec, DecoderShouldRun
<1>5. StageInv'
  BY DEF LockInv, StageInv, MatchInv, SlotsInv, SlotsConserved, InHand,
         FedInv, FedEnough, Flushing, InputInOrder, NoCodec, DecoderShouldRun
<1>6. MatchInv'
  BY DEF LockInv, StageInv, MatchInv, SlotsInv, SlotsConserved, InHand,
         FedInv, FedEnough, Flushing, InputInOrder, NoCodec, DecoderShouldRun
<1>7. SlotsInv'
  BY SMTT(30) DEF LockInv, StageInv, MatchInv, SlotsInv, SlotsConserved, InHand,
         FedInv, FedEnough, Flushing, InputInOrder, NoCodec, DecoderShouldRun
<1>8. FedInv'
  BY DEF LockInv, StageInv, MatchInv, SlotsInv, SlotsConserved, InHand,
         FedInv, FedEnough, Flushing, InputInOrder, NoCodec, DecoderShouldRun
<1>9. InputInOrder'
  BY DEF LockInv, StageInv, MatchInv, SlotsInv, SlotsConserved, InHand,
         FedInv, FedEnough, Flushing, InputInOrder, NoCodec, DecoderShouldRun
<1> QED BY <1>1, <1>2, <1>3, <1>4, <1>5, <1>6, <1>7, <1>8, <1>9

\* The slot is kept only behind an open gate, under the queue lock.
LEMMA AddInputSlotStep ==
  ASSUME IInv, AddInputSlot
  PROVE  IInv'
<1> USE DEF AddInputSlot, BeginPump
<1>1. FlagsOK'
  BY DEF DecoderShouldRun
<1>2. RecordsOK' /\ PositionsOK' /\ ValuesOK'
  BY DEF SlotsInv, SlotsConserved, InHand, NoCodec, DecoderShouldRun
<1>3. LockInv' /\ StageInv' /\ MatchInv' /\ SlotsInv' /\ FedInv' /\
       InputInOrder'
  BY DEF LockInv, StageInv, MatchInv, SlotsInv, SlotsConserved, InHand,
         FedInv, FedEnough, Flushing, InputInOrder, NoCodec, DecoderShouldRun
<1> QED BY <1>1, <1>2, <1>3

\* DestroyDecoderLocked closes the gate first.
LEMMA DestroyCloseStep ==
  ASSUME IInv, DestroyClose
  PROVE  IInv'
<1> USE DEF DestroyClose
<1>1. FlagsOK'
  BY DEF DecoderShouldRun
<1>2. RecordsOK' /\ PositionsOK' /\ ValuesOK'
  BY DEF SlotsInv, SlotsConserved, InHand, NoCodec, DecoderShouldRun
<1>3. LockInv' /\ StageInv' /\ MatchInv' /\ SlotsInv' /\ FedInv' /\
       InputInOrder'
  BY DEF LockInv, StageInv, MatchInv, SlotsInv, SlotsConserved, InHand,
         FedInv, FedEnough, Flushing, InputInOrder, NoCodec, DecoderShouldRun
<1> QED BY <1>1, <1>2, <1>3

\* DestroyDecoderLocked clears the queues and decoder_ under the queue lock.
LEMMA DestroyClearStep ==
  ASSUME IInv, DestroyClear
  PROVE  IInv'
<1> USE DEF DestroyClear, ClearDecoderQueues
<1>1. FlagsOK'
  BY DEF DecoderShouldRun
<1>2. RecordsOK' /\ PositionsOK' /\ ValuesOK'
  BY DEF SlotsInv, SlotsConserved, InHand, NoCodec, DecoderShouldRun
<1>3. LockInv' /\ StageInv' /\ MatchInv' /\ SlotsInv' /\ FedInv' /\
       InputInOrder'
  BY DEF LockInv, StageInv, MatchInv, SlotsInv, SlotsConserved, InHand,
         FedInv, FedEnough, Flushing, InputInOrder, NoCodec, DecoderShouldRun
<1> QED BY <1>1, <1>2, <1>3

\* Stop and Destroy, after the callback in progress.
LEMMA DestroyCodecStep ==
  ASSUME IInv, DestroyCodec
  PROVE  IInv'
<1> USE DEF DestroyCodec, NoCodec
<1>1. FlagsOK'
  BY DEF DecoderShouldRun
<1>2. RecordsOK' /\ PositionsOK' /\ ValuesOK'
  BY DEF SlotsInv, SlotsConserved, InHand, NoCodec, DecoderShouldRun
<1>3. LockInv' /\ StageInv' /\ MatchInv' /\ SlotsInv' /\ FedInv' /\
       InputInOrder'
  BY DEF LockInv, StageInv, MatchInv, SlotsInv, SlotsConserved, InHand,
         FedInv, FedEnough, Flushing, InputInOrder, NoCodec, DecoderShouldRun
<1> QED BY <1>1, <1>2, <1>3

\* CreateDecoderLocked begins only where no codec is left.
LEMMA CreateDecoderStep ==
  ASSUME IInv, CreateDecoder
  PROVE  IInv'
<1> USE DEF CreateDecoder
<1>1. FlagsOK'
  BY DEF DecoderShouldRun
<1>2. RecordsOK' /\ PositionsOK' /\ ValuesOK'
  BY DEF SlotsInv, SlotsConserved, InHand, NoCodec, DecoderShouldRun
<1>3. LockInv' /\ StageInv' /\ MatchInv' /\ SlotsInv' /\ FedInv' /\
       InputInOrder'
  BY DEF LockInv, StageInv, MatchInv, SlotsInv, SlotsConserved, InHand,
         FedInv, FedEnough, Flushing, InputInOrder, NoCodec, DecoderShouldRun
<1> QED BY <1>1, <1>2, <1>3

\* Start, behind an already open gate.
LEMMA StartDecoderStep ==
  ASSUME IInv, StartDecoder
  PROVE  IInv'
<1> USE DEF StartDecoder, Fault
<1>1. FlagsOK'
  BY DEF DecoderShouldRun
<1>2. RecordsOK'
  BY StartDecoderRecords
<1>3. PositionsOK' /\ ValuesOK'
  BY DEF SlotsInv, SlotsConserved, InHand, NoCodec, DecoderShouldRun
<1>4. SlotsInv'
  <2>1. slots' = 0 /\ cb' = "idle" /\ pump' \in {"idle", "take"}
    BY DEF SlotsInv, StageInv
  <2>2. CASE codec' = [codec EXCEPT !.life = "started", !.buffers = NSlots]
    <3>1. codec'.life = "started" /\ codec'.buffers = NSlots BY <2>2
    <3>2. stage' \notin {"stop", "flush"} OBVIOUS
    <3> QED BY <2>1, <3>1, <3>2 DEF SlotsInv, SlotsConserved, InHand
  <2>3. CASE codec' = codec /\ stage' = "abandon"
    BY <2>1, <2>3 DEF SlotsInv, StageInv
  <2> QED BY <2>2, <2>3
<1>5. LockInv' /\ StageInv' /\ MatchInv' /\ FedInv' /\ InputInOrder'
  BY DEF LockInv, StageInv, MatchInv, SlotsInv, SlotsConserved, InHand,
         FedInv, FedEnough, Flushing, InputInOrder, NoCodec, DecoderShouldRun
<1> QED BY <1>1, <1>2, <1>3, <1>4, <1>5

\* A decoder that could not be started is forgotten.
LEMMA AbandonDecoderStep ==
  ASSUME IInv, AbandonDecoder
  PROVE  IInv'
<1> USE DEF AbandonDecoder, ClearDecoderQueues, NoCodec
<1>1. FlagsOK'
  BY DEF DecoderShouldRun
<1>2. RecordsOK' /\ PositionsOK' /\ ValuesOK'
  BY DEF SlotsInv, SlotsConserved, InHand, NoCodec, DecoderShouldRun
<1>3. LockInv' /\ StageInv' /\ MatchInv' /\ SlotsInv' /\ FedInv' /\
       InputInOrder'
  BY DEF LockInv, StageInv, MatchInv, SlotsInv, SlotsConserved, InHand,
         FedInv, FedEnough, Flushing, InputInOrder, NoCodec, DecoderShouldRun
<1> QED BY <1>1, <1>2, <1>3

\* CreateDecoderLocked's late reset of the recovery state.
LEMMA RequireAfterStartStep ==
  ASSUME IInv, RequireAfterStart
  PROVE  IInv'
<1> USE DEF RequireAfterStart
<1>1. FlagsOK'
  BY DEF DecoderShouldRun
<1>2. RecordsOK'
  <2>1. job' \in Job BY Zenon, JobFields, TRUE \in BOOLEAN
  <2>2. UNCHANGED <<cur, submitted, codec>> OBVIOUS
  <2> HIDE DEF RequireAfterStart, Codec, Job, DecodedInput
  <2> QED BY <2>1, <2>2
<1>3. PositionsOK' /\ ValuesOK'
  BY DEF SlotsInv, SlotsConserved, InHand, NoCodec, DecoderShouldRun
<1>4. LockInv' /\ StageInv' /\ MatchInv' /\ SlotsInv' /\ FedInv' /\
       InputInOrder'
  BY DEF LockInv, StageInv, MatchInv, SlotsInv, SlotsConserved, InHand,
         FedInv, FedEnough, Flushing, InputInOrder, NoCodec, DecoderShouldRun
<1> QED BY <1>1, <1>2, <1>3, <1>4

\* FlushDecoder clears the queues under a closed gate.
LEMMA FlushClearStep ==
  ASSUME IInv, FlushClear
  PROVE  IInv'
<1> USE DEF FlushClear, ClearDecoderQueues
<1>1. FlagsOK'
  BY DEF DecoderShouldRun
<1>2. RecordsOK'
  BY FlushClearRecords
<1>3. PositionsOK' /\ ValuesOK'
  BY DEF SlotsInv, SlotsConserved, InHand, NoCodec, DecoderShouldRun
<1>4. LockInv' /\ StageInv' /\ MatchInv' /\ SlotsInv' /\ FedInv' /\
       InputInOrder'
  BY DEF LockInv, StageInv, MatchInv, SlotsInv, SlotsConserved, InHand,
         FedInv, FedEnough, Flushing, InputInOrder, NoCodec, DecoderShouldRun
<1> QED BY <1>1, <1>2, <1>3, <1>4

\* Flush empties the codec while recovery_ still promises more.
LEMMA FlushCodecStep ==
  ASSUME IInv, FlushCodec
  PROVE  IInv'
<1> USE DEF FlushCodec, Fault, Rebuild
<1>1. FlagsOK'
  BY DEF DecoderShouldRun
<1>2. RecordsOK'
  BY FlushCodecRecords
<1>3. PositionsOK' /\ ValuesOK'
  BY DEF SlotsInv, SlotsConserved, InHand, NoCodec, DecoderShouldRun
<1>4. LockInv'
  BY DEF LockInv, StageInv, MatchInv, SlotsInv, SlotsConserved, InHand,
         FedInv, FedEnough, Flushing, InputInOrder, NoCodec, DecoderShouldRun
<1>5. StageInv'
  BY DEF LockInv, StageInv, MatchInv, SlotsInv, SlotsConserved, InHand,
         FedInv, FedEnough, Flushing, InputInOrder, NoCodec, DecoderShouldRun
<1>6. MatchInv'
  BY DEF LockInv, StageInv, MatchInv, SlotsInv, SlotsConserved, InHand,
         FedInv, FedEnough, Flushing, InputInOrder, NoCodec, DecoderShouldRun
<1>7. SlotsInv'
  BY DEF LockInv, StageInv, MatchInv, SlotsInv, SlotsConserved, InHand,
         FedInv, FedEnough, Flushing, InputInOrder, NoCodec, DecoderShouldRun
<1>8. FedInv'
  BY DEF LockInv, StageInv, MatchInv, SlotsInv, SlotsConserved, InHand,
         FedInv, FedEnough, Flushing, InputInOrder, NoCodec, DecoderShouldRun
<1>9. InputInOrder'
  BY DEF LockInv, StageInv, MatchInv, SlotsInv, SlotsConserved, InHand,
         FedInv, FedEnough, Flushing, InputInOrder, NoCodec, DecoderShouldRun
<1> QED BY <1>1, <1>2, <1>3, <1>4, <1>5, <1>6, <1>7, <1>8, <1>9

\* The gate is open again before the codec is restarted.
LEMMA RestartCodecStep ==
  ASSUME IInv, RestartCodec
  PROVE  IInv'
<1> USE DEF RestartCodec, Fault, Rebuild
<1>1. FlagsOK'
  BY DEF DecoderShouldRun
<1>2. RecordsOK'
  BY RestartCodecRecords
<1>3. PositionsOK' /\ ValuesOK'
  BY DEF SlotsInv, SlotsConserved, InHand, NoCodec, DecoderShouldRun
<1>4. LockInv'
  BY DEF LockInv, StageInv, MatchInv, SlotsInv, SlotsConserved, InHand,
         FedInv, FedEnough, Flushing, InputInOrder, NoCodec, DecoderShouldRun
<1>5. StageInv'
  BY DEF LockInv, StageInv, MatchInv, SlotsInv, SlotsConserved, InHand,
         FedInv, FedEnough, Flushing, InputInOrder, NoCodec, DecoderShouldRun
<1>6. MatchInv'
  BY DEF LockInv, StageInv, MatchInv, SlotsInv, SlotsConserved, InHand,
         FedInv, FedEnough, Flushing, InputInOrder, NoCodec, DecoderShouldRun
<1>7. SlotsInv'
  <2>1. slots' = 0 /\ cb' = "idle" /\ pump' \in {"idle", "take"}
    BY DEF SlotsInv, StageInv
  <2>2. CASE codec' = [codec EXCEPT !.life = "started", !.buffers = NSlots]
    <3>1. codec'.life = "started" /\ codec'.buffers = NSlots BY <2>2
    <3>2. stage' \notin {"stop", "flush"} OBVIOUS
    <3> QED BY <2>1, <3>1, <3>2 DEF SlotsInv, SlotsConserved, InHand
  <2>3. CASE codec' = codec /\ stage' = "close"
    BY <2>1, <2>3 DEF SlotsInv, StageInv
  <2> QED BY <2>2, <2>3
<1>8. FedInv'
  BY DEF LockInv, StageInv, MatchInv, SlotsInv, SlotsConserved, InHand,
         FedInv, FedEnough, Flushing, InputInOrder, NoCodec, DecoderShouldRun
<1>9. InputInOrder'
  BY DEF LockInv, StageInv, MatchInv, SlotsInv, SlotsConserved, InHand,
         FedInv, FedEnough, Flushing, InputInOrder, NoCodec, DecoderShouldRun
<1> QED BY <1>1, <1>2, <1>3, <1>4, <1>5, <1>6, <1>7, <1>8, <1>9

\* The lifecycle lock is released after an event.
LEMMA FinishEventStep ==
  ASSUME IInv, FinishEvent
  PROVE  IInv'
<1> USE DEF FinishEvent, Release, NoJob
<1>1. FlagsOK'
  BY DEF DecoderShouldRun
<1>2. RecordsOK' /\ PositionsOK' /\ ValuesOK'
  BY DEF SlotsInv, SlotsConserved, InHand, NoCodec, DecoderShouldRun
<1>3. LockInv' /\ StageInv' /\ MatchInv' /\ SlotsInv' /\ FedInv' /\
       InputInOrder'
  BY DEF LockInv, StageInv, MatchInv, SlotsInv, SlotsConserved, InHand,
         FedInv, FedEnough, Flushing, InputInOrder, NoCodec, DecoderShouldRun
<1> QED BY <1>1, <1>2, <1>3

\* FlushDecoder and ReconfigureDecoder end with RequireCodecData.
LEMMA FinishSessionStep ==
  ASSUME IInv, FinishSession
  PROVE  IInv'
<1> USE DEF FinishSession, Release, NoJob, ContractAfterSession
<1>1. FlagsOK'
  BY DEF DecoderShouldRun
<1>2. RecordsOK' /\ PositionsOK' /\ ValuesOK'
  BY DEF SlotsInv, SlotsConserved, InHand, NoCodec, DecoderShouldRun
<1>3. LockInv' /\ StageInv' /\ MatchInv' /\ SlotsInv' /\ FedInv' /\
       InputInOrder'
  BY DEF LockInv, StageInv, MatchInv, SlotsInv, SlotsConserved, InHand,
         FedInv, FedEnough, Flushing, InputInOrder, NoCodec, DecoderShouldRun
<1> QED BY <1>1, <1>2, <1>3

\* The answer, and the rollback of the active contract.
LEMMA AnswerAuthenticationStep ==
  ASSUME IInv, AnswerAuthentication
  PROVE  IInv'
<1> USE DEF AnswerAuthentication
<1>1. FlagsOK'
  BY DEF DecoderShouldRun
<1>2. RecordsOK' /\ PositionsOK' /\ ValuesOK'
  BY DEF SlotsInv, SlotsConserved, InHand, NoCodec, DecoderShouldRun
<1>3. LockInv' /\ StageInv' /\ MatchInv' /\ SlotsInv' /\ FedInv' /\
       InputInOrder'
  BY DEF LockInv, StageInv, MatchInv, SlotsInv, SlotsConserved, InHand,
         FedInv, FedEnough, Flushing, InputInOrder, NoCodec, DecoderShouldRun
<1> QED BY <1>1, <1>2, <1>3

\* The event changes the surface and begins a procedure.
LEMMA OnSurfaceCreatedStep ==
  ASSUME IInv, NEW c \in Components, NEW w \in Windows, OnSurfaceCreated(c, w)
  PROVE  IInv'
<1> USE DEF OnSurfaceCreated, UIEvent, Reconcile, Outdated, NoJob
<1>1. FlagsOK'
  BY DEF DecoderShouldRun
<1>2. RecordsOK'
  <2>1. \E b \in BOOLEAN : job' = [NoJob EXCEPT !.start = b]
    BY DEF DecoderShouldRun
  <2>2. job' \in Job
    <3> HIDE DEF NoJob, Job
    <3> QED BY <2>1, NoJobInJob, JobFields
  <2>3. UNCHANGED <<cur, submitted, codec>> OBVIOUS
  <2> HIDE DEF OnSurfaceCreated, UIEvent, Reconcile, Codec, Job, DecodedInput
  <2> QED BY <2>2, <2>3
<1>3. PositionsOK'
  BY DEF DecoderShouldRun
<1>4. ValuesOK'
  <2>1. component' = c /\ surface' = w OBVIOUS
  <2>2. UNCHANGED <<queueVars, contractVars, faults, sessions>> OBVIOUS
  <2>3. events < MaxEvents /\ events' = events + 1 OBVIOUS
  <2> HIDE DEF OnSurfaceCreated, UIEvent, Reconcile
  <2> QED BY <2>1, <2>2, <2>3
<1>5. LockInv'
  BY DEF LockInv, StageInv, MatchInv, SlotsInv, SlotsConserved, InHand,
         FedInv, FedEnough, Flushing, InputInOrder, NoCodec, DecoderShouldRun
<1>6. StageInv'
  BY DEF LockInv, StageInv, MatchInv, SlotsInv, SlotsConserved, InHand,
         FedInv, FedEnough, Flushing, InputInOrder, NoCodec, DecoderShouldRun
<1>7. MatchInv'
  BY DEF LockInv, StageInv, MatchInv, SlotsInv, SlotsConserved, InHand,
         FedInv, FedEnough, Flushing, InputInOrder, NoCodec, DecoderShouldRun
<1>8. SlotsInv'
  BY DEF LockInv, StageInv, MatchInv, SlotsInv, SlotsConserved, InHand,
         FedInv, FedEnough, Flushing, InputInOrder, NoCodec, DecoderShouldRun
<1>9. FedInv'
  BY DEF LockInv, StageInv, MatchInv, SlotsInv, SlotsConserved, InHand,
         FedInv, FedEnough, Flushing, InputInOrder, NoCodec, DecoderShouldRun
<1>10. InputInOrder'
  BY DEF LockInv, StageInv, MatchInv, SlotsInv, SlotsConserved, InHand,
         FedInv, FedEnough, Flushing, InputInOrder, NoCodec, DecoderShouldRun
<1> QED BY <1>1, <1>2, <1>3, <1>4, <1>5, <1>6, <1>7, <1>8, <1>9, <1>10

\* The event changes the surface and begins a procedure.
LEMMA OnSurfaceChangedStep ==
  ASSUME IInv, NEW c \in Components, NEW w \in Windows, OnSurfaceChanged(c, w)
  PROVE  IInv'
<1> USE DEF OnSurfaceChanged, UIEvent, Reconcile, Outdated, NoJob
<1>1. FlagsOK'
  BY DEF DecoderShouldRun
<1>2. RecordsOK'
  <2>1. \E b \in BOOLEAN : job' = [NoJob EXCEPT !.start = b]
    BY DEF DecoderShouldRun
  <2>2. job' \in Job
    <3> HIDE DEF NoJob, Job
    <3> QED BY <2>1, NoJobInJob, JobFields
  <2>3. UNCHANGED <<cur, submitted, codec>> OBVIOUS
  <2> HIDE DEF OnSurfaceChanged, UIEvent, Reconcile, Codec, Job, DecodedInput
  <2> QED BY <2>2, <2>3
<1>3. PositionsOK'
  BY DEF DecoderShouldRun
<1>4. ValuesOK'
  <2>1. component' = c /\ surface' = w OBVIOUS
  <2>2. UNCHANGED <<queueVars, contractVars, faults, sessions>> OBVIOUS
  <2>3. events < MaxEvents /\ events' = events + 1 OBVIOUS
  <2> HIDE DEF OnSurfaceChanged, UIEvent, Reconcile
  <2> QED BY <2>1, <2>2, <2>3
<1>5. LockInv'
  BY DEF LockInv, StageInv, MatchInv, SlotsInv, SlotsConserved, InHand,
         FedInv, FedEnough, Flushing, InputInOrder, NoCodec, DecoderShouldRun
<1>6. StageInv'
  BY DEF LockInv, StageInv, MatchInv, SlotsInv, SlotsConserved, InHand,
         FedInv, FedEnough, Flushing, InputInOrder, NoCodec, DecoderShouldRun
<1>7. MatchInv'
  BY DEF LockInv, StageInv, MatchInv, SlotsInv, SlotsConserved, InHand,
         FedInv, FedEnough, Flushing, InputInOrder, NoCodec, DecoderShouldRun
<1>8. SlotsInv'
  BY DEF LockInv, StageInv, MatchInv, SlotsInv, SlotsConserved, InHand,
         FedInv, FedEnough, Flushing, InputInOrder, NoCodec, DecoderShouldRun
<1>9. FedInv'
  BY DEF LockInv, StageInv, MatchInv, SlotsInv, SlotsConserved, InHand,
         FedInv, FedEnough, Flushing, InputInOrder, NoCodec, DecoderShouldRun
<1>10. InputInOrder'
  BY DEF LockInv, StageInv, MatchInv, SlotsInv, SlotsConserved, InHand,
         FedInv, FedEnough, Flushing, InputInOrder, NoCodec, DecoderShouldRun
<1> QED BY <1>1, <1>2, <1>3, <1>4, <1>5, <1>6, <1>7, <1>8, <1>9, <1>10

\* The event takes the surface away and begins a teardown.
LEMMA OnSurfaceDestroyedStep ==
  ASSUME IInv, NEW c \in Components, NEW w \in Windows, OnSurfaceDestroyed(c,
         w)
  PROVE  IInv'
<1> USE DEF OnSurfaceDestroyed, UIEvent, Reconcile, Outdated, NoJob
<1>1. FlagsOK'
  BY DEF DecoderShouldRun
<1>2. RecordsOK'
  <2>1. \E b \in BOOLEAN : job' = [NoJob EXCEPT !.start = b]
    BY DEF DecoderShouldRun
  <2>2. job' \in Job
    <3> HIDE DEF NoJob, Job
    <3> QED BY <2>1, NoJobInJob, JobFields
  <2>3. UNCHANGED <<cur, submitted, codec>> OBVIOUS
  <2> HIDE DEF OnSurfaceDestroyed, UIEvent, Reconcile, Codec, Job, DecodedInput
  <2> QED BY <2>2, <2>3
<1>3. PositionsOK'
  BY DEF DecoderShouldRun
<1>4. ValuesOK'
  <2>1. component' = None /\ surface' = None OBVIOUS
  <2>2. UNCHANGED <<queueVars, contractVars, faults, sessions>> OBVIOUS
  <2>3. events < MaxEvents /\ events' = events + 1 OBVIOUS
  <2> HIDE DEF OnSurfaceDestroyed, UIEvent, Reconcile
  <2> QED BY <2>1, <2>2, <2>3
<1>5. LockInv'
  BY DEF LockInv, StageInv, MatchInv, SlotsInv, SlotsConserved, InHand,
         FedInv, FedEnough, Flushing, InputInOrder, NoCodec, DecoderShouldRun
<1>6. StageInv'
  BY DEF LockInv, StageInv, MatchInv, SlotsInv, SlotsConserved, InHand,
         FedInv, FedEnough, Flushing, InputInOrder, NoCodec, DecoderShouldRun
<1>7. MatchInv'
  BY DEF LockInv, StageInv, MatchInv, SlotsInv, SlotsConserved, InHand,
         FedInv, FedEnough, Flushing, InputInOrder, NoCodec, DecoderShouldRun
<1>8. SlotsInv'
  BY DEF LockInv, StageInv, MatchInv, SlotsInv, SlotsConserved, InHand,
         FedInv, FedEnough, Flushing, InputInOrder, NoCodec, DecoderShouldRun
<1>9. FedInv'
  BY DEF LockInv, StageInv, MatchInv, SlotsInv, SlotsConserved, InHand,
         FedInv, FedEnough, Flushing, InputInOrder, NoCodec, DecoderShouldRun
<1>10. InputInOrder'
  BY DEF LockInv, StageInv, MatchInv, SlotsInv, SlotsConserved, InHand,
         FedInv, FedEnough, Flushing, InputInOrder, NoCodec, DecoderShouldRun
<1> QED BY <1>1, <1>2, <1>3, <1>4, <1>5, <1>6, <1>7, <1>8, <1>9, <1>10

\* The event begins a procedure if there is a surface.
LEMMA OnAppForegroundStep ==
  ASSUME IInv, OnAppForeground
  PROVE  IInv'
<1> USE DEF OnAppForeground, UIEvent, Reconcile, Outdated, NoJob
<1>1. FlagsOK'
  BY DEF DecoderShouldRun
<1>2. RecordsOK'
  <2>1. \E b \in BOOLEAN : job' = [NoJob EXCEPT !.start = b]
    BY DEF DecoderShouldRun
  <2>2. job' \in Job
    <3> HIDE DEF NoJob, Job
    <3> QED BY <2>1, NoJobInJob, JobFields
  <2>3. UNCHANGED <<cur, submitted, codec>> OBVIOUS
  <2> HIDE DEF OnAppForeground, UIEvent, Reconcile, Codec, Job, DecodedInput
  <2> QED BY <2>2, <2>3
<1>3. PositionsOK'
  BY DEF DecoderShouldRun
<1>4. ValuesOK'
  <2>1. UNCHANGED <<component, surface>> OBVIOUS
  <2>2. UNCHANGED <<queueVars, contractVars, faults, sessions>> OBVIOUS
  <2>3. events < MaxEvents /\ events' = events + 1 OBVIOUS
  <2> HIDE DEF OnAppForeground, UIEvent, Reconcile
  <2> QED BY <2>1, <2>2, <2>3
<1>5. LockInv'
  BY DEF LockInv, StageInv, MatchInv, SlotsInv, SlotsConserved, InHand,
         FedInv, FedEnough, Flushing, InputInOrder, NoCodec, DecoderShouldRun
<1>6. StageInv'
  BY DEF LockInv, StageInv, MatchInv, SlotsInv, SlotsConserved, InHand,
         FedInv, FedEnough, Flushing, InputInOrder, NoCodec, DecoderShouldRun
<1>7. MatchInv'
  BY DEF LockInv, StageInv, MatchInv, SlotsInv, SlotsConserved, InHand,
         FedInv, FedEnough, Flushing, InputInOrder, NoCodec, DecoderShouldRun
<1>8. SlotsInv'
  BY DEF LockInv, StageInv, MatchInv, SlotsInv, SlotsConserved, InHand,
         FedInv, FedEnough, Flushing, InputInOrder, NoCodec, DecoderShouldRun
<1>9. FedInv'
  BY DEF LockInv, StageInv, MatchInv, SlotsInv, SlotsConserved, InHand,
         FedInv, FedEnough, Flushing, InputInOrder, NoCodec, DecoderShouldRun
<1>10. InputInOrder'
  BY DEF LockInv, StageInv, MatchInv, SlotsInv, SlotsConserved, InHand,
         FedInv, FedEnough, Flushing, InputInOrder, NoCodec, DecoderShouldRun
<1> QED BY <1>1, <1>2, <1>3, <1>4, <1>5, <1>6, <1>7, <1>8, <1>9, <1>10

\* The event begins a teardown.
LEMMA OnAppBackgroundStep ==
  ASSUME IInv, OnAppBackground
  PROVE  IInv'
<1> USE DEF OnAppBackground, UIEvent, Reconcile, Outdated, NoJob
<1>1. FlagsOK'
  BY DEF DecoderShouldRun
<1>2. RecordsOK'
  <2>1. \E b \in BOOLEAN : job' = [NoJob EXCEPT !.start = b]
    BY DEF DecoderShouldRun
  <2>2. job' \in Job
    <3> HIDE DEF NoJob, Job
    <3> QED BY <2>1, NoJobInJob, JobFields
  <2>3. UNCHANGED <<cur, submitted, codec>> OBVIOUS
  <2> HIDE DEF OnAppBackground, UIEvent, Reconcile, Codec, Job, DecodedInput
  <2> QED BY <2>2, <2>3
<1>3. PositionsOK'
  BY DEF DecoderShouldRun
<1>4. ValuesOK'
  <2>1. UNCHANGED <<component, surface>> OBVIOUS
  <2>2. UNCHANGED <<queueVars, contractVars, faults, sessions>> OBVIOUS
  <2>3. events < MaxEvents /\ events' = events + 1 OBVIOUS
  <2> HIDE DEF OnAppBackground, UIEvent, Reconcile
  <2> QED BY <2>1, <2>2, <2>3
<1>5. LockInv'
  BY DEF LockInv, StageInv, MatchInv, SlotsInv, SlotsConserved, InHand,
         FedInv, FedEnough, Flushing, InputInOrder, NoCodec, DecoderShouldRun
<1>6. StageInv'
  BY DEF LockInv, StageInv, MatchInv, SlotsInv, SlotsConserved, InHand,
         FedInv, FedEnough, Flushing, InputInOrder, NoCodec, DecoderShouldRun
<1>7. MatchInv'
  BY DEF LockInv, StageInv, MatchInv, SlotsInv, SlotsConserved, InHand,
         FedInv, FedEnough, Flushing, InputInOrder, NoCodec, DecoderShouldRun
<1>8. SlotsInv'
  BY DEF LockInv, StageInv, MatchInv, SlotsInv, SlotsConserved, InHand,
         FedInv, FedEnough, Flushing, InputInOrder, NoCodec, DecoderShouldRun
<1>9. FedInv'
  BY DEF LockInv, StageInv, MatchInv, SlotsInv, SlotsConserved, InHand,
         FedInv, FedEnough, Flushing, InputInOrder, NoCodec, DecoderShouldRun
<1>10. InputInOrder'
  BY DEF LockInv, StageInv, MatchInv, SlotsInv, SlotsConserved, InHand,
         FedInv, FedEnough, Flushing, InputInOrder, NoCodec, DecoderShouldRun
<1> QED BY <1>1, <1>2, <1>3, <1>4, <1>5, <1>6, <1>7, <1>8, <1>9, <1>10

\* Asking for a keyframe changes no decoder state.
LEMMA RequestKeyframeStep ==
  ASSUME IInv, RequestKeyframe
  PROVE  IInv'
<1> USE DEF RequestKeyframe
<1>1. FlagsOK'
  BY DEF DecoderShouldRun
<1>2. RecordsOK' /\ PositionsOK' /\ ValuesOK'
  BY DEF SlotsInv, SlotsConserved, InHand, NoCodec, DecoderShouldRun
<1>3. LockInv' /\ StageInv' /\ MatchInv' /\ SlotsInv' /\ FedInv' /\
       InputInOrder'
  BY DEF LockInv, StageInv, MatchInv, SlotsInv, SlotsConserved, InHand,
         FedInv, FedEnough, Flushing, InputInOrder, NoCodec, DecoderShouldRun
<1> QED BY <1>1, <1>2, <1>3

HIDE DEF IInv, TypeOK, FlagsOK, RecordsOK, PositionsOK, ValuesOK,
         recoveryVars, queueVars, pumpVars, surfaceVars, contractVars,
         lifecycleVars, counters, CallbacksAllowed, DecoderLifecycleState,
         DecoderRecoveryState, DecoderInputKind, AccessUnit, DecodedInput,
         Codec, Stage, Job

-----------------------------------------------------------------------------
(* The theorems *)

\* A Receiver that has just started satisfies the invariant.
LEMMA InitInv == Init => IInv
<1> SUFFICES ASSUME Init PROVE IInv
  OBVIOUS
<1> USE CapacityAssumption, SlotsAssumption, BoundsAssumption DEF Init
<1>1. FlagsOK
  BY Zenon DEF FlagsOK
<1>2. RecordsOK
  <2>1. cur \in DecodedInput
    BY Zenon DEF NoInput, DecodedInput, DecoderInputKind
  <2>2. submitted \in [state : DecoderRecoveryState, ok : BOOLEAN]
    BY Zenon DEF DecoderRecoveryState
  <2>3. job \in Job BY Zenon, NoJobInJob
  <2>4. codec \in Codec BY DEF NoCodec, Codec
  <2> QED BY <2>1, <2>2, <2>3, <2>4 DEF RecordsOK
<1>3. PositionsOK
  BY DEF PositionsOK, DecoderLifecycleState, DecoderRecoveryState, Stage,
         AccessUnit
<1>4. ValuesOK
  BY EmptyQueue DEF ValuesOK
<1>5. LockInv
  BY DEF LockInv, NoJob
<1>6. StageInv
  BY DEF StageInv, NoCodec
<1>7. MatchInv
  BY DEF MatchInv, NoCodec
<1>8. SlotsInv
  BY DEF SlotsInv, NoCodec
<1>9. FedInv
  BY DEF FedInv, FedEnough, Flushing, NoCodec, NoJob
<1>10. InputInOrder
  BY DEF InputInOrder
<1> QED
  BY <1>1, <1>2, <1>3, <1>4, <1>5, <1>6, <1>7, <1>8, <1>9, <1>10
  DEF IInv, TypeOK

\* The invariant depends on the module's variables only.
LEMMA StutterInv ==
  ASSUME IInv, UNCHANGED vars
  PROVE  IInv'
<1> USE DEF IInv, vars, recoveryVars, queueVars, pumpVars, surfaceVars,
            contractVars, lifecycleVars, counters
<1>1. TypeOK' BY DEF TypeOK, FlagsOK, RecordsOK, PositionsOK, ValuesOK
<1>2. LockInv' BY DEF LockInv
<1>3. StageInv' BY DEF StageInv
<1>4. MatchInv' BY DEF MatchInv, DecoderShouldRun
<1>5. SlotsInv' BY DEF SlotsInv, SlotsConserved, InHand
<1>6. FedInv' BY DEF FedInv, FedEnough, Flushing
<1>7. InputInOrder' BY DEF InputInOrder
<1> QED BY <1>1, <1>2, <1>3, <1>4, <1>5, <1>6, <1>7

\* Every step preserves the invariant: the step lemmas together.
LEMMA NextInv == IInv /\ [Next]_vars => IInv'
<1> SUFFICES ASSUME IInv, [Next]_vars PROVE IInv'
  OBVIOUS
<1>1. CASE HandleVideo
  BY <1>1, ReceiveRequestedStep, ReceiveOtherStep, RouteAUStep,
     SubmitRecoveryStep, SubmitFrameStep
  DEF HandleVideo
<1>2. CASE PumpDecoder
  BY <1>2, PumpTakeStep, PumpPushStep, PumpStoreStep DEF PumpDecoder
<1>3. CASE NeedInput \/ AddInputSlot
  BY <1>3, NeedInputStep, AddInputSlotStep
<1>4. CASE Lifecycle
  BY <1>4, DestroyCloseStep, DestroyClearStep, DestroyCodecStep,
     CreateDecoderStep, ConfigureDecoderStep, StartDecoderStep,
     AbandonDecoderStep, RequireAfterStartStep, FlushClearStep,
     FlushCodecStep, RestartCodecStep, FinishEventStep, FinishSessionStep
  DEF Lifecycle
<1>5. CASE Events
  BY <1>5, OnSurfaceCreatedStep, OnSurfaceChangedStep, OnSurfaceDestroyedStep,
     OnAppForegroundStep, OnAppBackgroundStep
  DEF Events
<1>6. CASE \E contract \in Contracts : Authenticate(contract)
  BY <1>6, AuthenticateStep
<1>7. CASE \/ ConsumeKeyFrameRequest \/ Disconnect \/ ResetRecovery
           \/ AnswerAuthentication \/ RequestKeyframe
  BY <1>7, ConsumeKeyFrameRequestStep, DisconnectStep, ResetRecoveryStep,
     AnswerAuthenticationStep, RequestKeyframeStep
<1>8. CASE UNCHANGED vars
  BY <1>8, StutterInv
<1> QED
  BY <1>1, <1>2, <1>3, <1>4, <1>5, <1>6, <1>7, <1>8 DEF Next

\* The invariant that carries all of the following: the code's critical
\* sections, what CreateDecoderLocked, DestroyDecoderLocked and FlushDecoder
\* have established at each of their steps, where the codec's input buffers
\* are, and how far recovery_ may run ahead of what the codec has received.
THEOREM Invariance == Spec => []IInv
<1>1. Init => IInv BY InitInv
<1>2. IInv /\ [Next]_vars => IInv' BY NextInv
<1> QED BY <1>1, <1>2, PTL DEF Spec

\* decode_queue_ keeps within its bound, input_slots_ within the number of
\* buffers the codec has, and every variable within its type.
THEOREM TypeCorrectness == Spec => []TypeOK
<1>1. IInv => TypeOK BY DEF IInv
<1> QED BY <1>1, Invariance, PTL

\* PumpDecoderLocked feeds a started codec only, parameter sets before an IDR
\* before other pictures, across every flush, restart, surface change and
\* failed push.
THEOREM FeedsInOrder == Spec => []InputInOrder
<1>1. IInv => InputInOrder BY DEF IInv
<1> QED BY <1>1, Invariance, PTL

\* No buffer of the codec is counted twice: one taken back by Flush or
\* Destroy is not still in input_slots_ or in a callback's hands.
THEOREM NoStaleSlot == Spec => []SlotsConserved
<1>1. IInv => SlotsConserved
  <2> SUFFICES ASSUME IInv PROVE SlotsConserved
    OBVIOUS
  <2>1. CASE codec.life = "started"
    BY <2>1 DEF IInv, SlotsInv
  <2>2. CASE codec.life # "started"
    BY <2>2, SlotsAssumption DEF IInv, SlotsInv, SlotsConserved, InHand
  <2> QED BY <2>1, <2>2
<1> QED BY <1>1, Invariance, PTL

\* Between lifecycle procedures decoder_, the gate, the surface, the
\* foreground state and the contract agree, whatever procedure failed where.
THEOREM LifecycleMatches == Spec => []DecoderMatchesLifecycle
<1>1. IInv => DecoderMatchesLifecycle
  BY DEF IInv, LockInv, StageInv, MatchInv, DecoderMatchesLifecycle
<1> QED BY <1>1, Invariance, PTL

-----------------------------------------------------------------------------
(* Keyframes: a broken stream is being repaired *)

USE DEF recoveryVars, queueVars, pumpVars, surfaceVars, contractVars,
        lifecycleVars, counters, CallbacksAllowed

\* In a session, the gate before a decoder is only closed by the procedures
\* that are about to destroy it.
LEMMA GateClosed ==
  ASSUME IInv, PositionInv, InSession, decoder, gate # "running"
  PROVE  Closing
<1>1. lifecycleLock # "net" BY DEF IInv, LockInv, InSession
<1> QED
  BY <1>1 DEF IInv, TypeOK, PositionsOK, RecordsOK, Job, Stage, LockInv,
              StageInv, PositionInv, Closing

\* A step that leaves the queue alone only has to keep a repair under way and
\* to start one when it breaks the stream.
LEMMA QueueUntouched ==
  ASSUME RepairInv, queue' = queue, RecoveryAhead' = RecoveryAhead,
         decoder' => decoder,
         decoder /\ RepairComing => RepairComing',
         decoder /\ ~tailKept' => ~tailKept \/ RepairComing',
         pump' = "push" => pump = "push" /\ cur' = cur,
         pump' = "push" /\ KeyframeComing => KeyframeComing'
  PROVE  RepairInv'
BY DEF RepairInv, StuckIn, Queued

\* An AU that meets a closed gate or no decoder breaks the stream, but only
\* where the decoder is on its way out.
LEMMA EnterHandleVideoKeyframe ==
  ASSUME IInv, KeyframeInv, NEW kind \in AccessUnit, EnterHandleVideo(kind),
         forced => forced' \/ kind = "complete"
  PROVE  KeyframeInv'
<1> USE DEF EnterHandleVideo, DropAU, KeyframeInv, RecoveryAhead, Closing,
            Restarting, PushFailed, InSession
<1>1. QueueInv'
  BY DEF QueueInv, Queued
<1>2. PositionInv'
  BY DEF PositionInv
<1>3. InSession /\ InSession'
  OBVIOUS
<1>4. decoder => net' = "route" \/ Closing
  BY <1>3, GateClosed
<1>5. RepairComing /\ decoder => RepairComing'
  BY <1>4 DEF RepairComing, KeyframeComing, KeyframeInHand, Queued
<1>6. KeyframeComing /\ decoder => KeyframeComing'
  BY <1>4 DEF KeyframeComing, KeyframeInHand
<1>7. decoder /\ ~tailKept' => ~tailKept \/ RepairComing'
  BY <1>4 DEF RepairComing, KeyframeComing
<1>8. pump = "push" => decoder
  BY DEF PositionInv
<1>9. RepairInv'
  BY <1>5, <1>6, <1>7, <1>8, QueueUntouched
<1> QED BY <1>1, <1>2, <1>9

\* The keyframe the sender owed is now in the worker's hands.
LEMMA ReceiveRequestedKeyframe ==
  ASSUME IInv, KeyframeInv, ReceiveRequested
  PROVE  KeyframeInv'
BY EnterHandleVideoKeyframe DEF ReceiveRequested, AccessUnit

\* Any other AU leaves what the sender owes alone.
LEMMA ReceiveOtherKeyframe ==
  ASSUME IInv, KeyframeInv, NEW kind \in AccessUnit, ReceiveOther(kind)
  PROVE  KeyframeInv'
BY EnterHandleVideoKeyframe DEF ReceiveOther

\* HandleVideo acts on a recovery state it may have misread: the lock-free
\* read is taken before or after a store of PumpDecoderLocked.
LEMMA RouteAUKeyframe ==
  ASSUME IInv, KeyframeInv, RouteAU
  PROVE  KeyframeInv'
<1> USE DEF RouteAU, DropAU, RejectAU, KeyframeInv, RecoveryAhead, Closing,
            Restarting, PushFailed, InSession
<1>1. QueueInv'
  BY DEF QueueInv, Queued
<1>2. recovery # "needsCodecData" =>
        /\ pump = "push" => cur.kind # "codecData"
        /\ pump = "store" /\ ~PushFailed =>
             submitted.state \in {recovery, "ready"}
        /\ PushFailed => submitted.state = "needsCodecData"
  BY DEF IInv, FedInv, PositionInv
<1>3. /\ recovery = "ready" => RecoveryAhead # "needsSyncFrame"
      /\ recovery # "needsCodecData" =>
           RecoveryAhead # "needsCodecData" \/ PushFailed
  BY <1>2 DEF AdvanceDecoderRecovery, IInv, TypeOK, PositionsOK,
              DecoderRecoveryState
<1>4. PositionInv'
  BY <1>3 DEF PositionInv, IInv, TypeOK, PositionsOK, DecoderRecoveryState
<1>5. keyframePending' \/ (tailKept' = tailKept /\ net' # "consume")
  OBVIOUS
<1>6. KeyframeComing => KeyframeComing'
  BY <1>5 DEF KeyframeComing, KeyframeInHand
<1>7. RepairComing => RepairComing'
  BY <1>6 DEF RepairComing, Queued
<1>8. keyframePending' => RepairComing'
  BY DEF RepairComing, KeyframeComing
<1>9. pump = "push" => decoder
  BY DEF PositionInv
<1>10. RepairInv'
  BY <1>5, <1>6, <1>7, <1>8, <1>9, QueueUntouched
<1> QED BY <1>1, <1>4, <1>10

\* A pending request becomes the sender's debt, none is lost.
LEMMA ConsumeKeyFrameRequestKeyframe ==
  ASSUME IInv, KeyframeInv, ConsumeKeyFrameRequest
  PROVE  KeyframeInv'
<1> USE DEF ConsumeKeyFrameRequest, KeyframeOwed, KeyframeInv, RecoveryAhead,
            Closing, Restarting, PushFailed, InSession
<1>1. QueueInv'
  BY DEF QueueInv, Queued
<1>2. PositionInv'
  BY DEF PositionInv
<1>3. (KeyframeComing => KeyframeComing') /\ (RepairComing => RepairComing')
  BY DEF RepairComing, KeyframeComing, KeyframeInHand, Queued
<1>4. pump = "push" => decoder
  BY DEF PositionInv
<1>5. RepairInv'
  BY <1>3, <1>4, QueueUntouched
<1> QED BY <1>1, <1>2, <1>5

\* What SubmitFrame decides on: the kind of the AU it was handed.
LEMMA KindInHand ==
  ASSUME FlagsOK
  PROVE  /\ AUInput.kind = IF au = "delta" THEN "frame" ELSE "syncFrame"
         /\ ~AUInput.linked => au = "delta" /\ ~tailKept
BY DEF AUInput, SyncFrame, FlagsOK

\* What Append does to the queue, for the two kinds a sender's AU can have.
LEMMA Appended ==
  ASSUME NEW q \in Seq(DecodedInput), NEW a \in DecodedInput
  PROVE  /\ DOMAIN Append(q, a) = 1..(Len(q) + 1)
         /\ DOMAIN q = 1..Len(q) /\ Len(q) \in Nat
         /\ Len(Append(q, a)) = Len(q) + 1
         /\ \A i \in DOMAIN q : Append(q, a)[i] = q[i]
         /\ Append(q, a)[Len(q) + 1] = a
<1> HIDE DEF DecodedInput
<1> QED OBVIOUS

\* SubmitFrame drops without a request only what a lifecycle procedure or a
\* failed push has already made a keyframe necessary for; what it appends
\* behind a gap is a frame whose keyframe is on the way, or that keyframe.
LEMMA SubmitFrameKeyframe ==
  ASSUME IInv, KeyframeInv, SubmitFrame
  PROVE  KeyframeInv'
<1> USE DEF KeyframeInv, Closing, Restarting, PushFailed
<1>1. /\ FlagsOK /\ queue \in Seq(DecodedInput) /\ recovery \in DecoderRecoveryState
      /\ AUInput \in DecodedInput
      /\ pump = "idle" /\ net = "submitFrame" /\ InSession
      /\ ~Queued("codecData")
  BY InputTypes DEF IInv, TypeOK, ValuesOK, PositionsOK, LockInv, SubmitFrame,
     InSession, QueueInv
<1>2. UNCHANGED <<gate, decoder, stage, job, ui, au, cur, submitted, forced>>
  BY DEF SubmitFrame
<1>3. CASE ~FrameAllowed /\ DropAU /\ UNCHANGED <<recoveryVars, queue, queueLock, pump>>
  <2>1. decoder /\ gate # "running" => Closing
    BY <1>1, GateClosed
  <2>2. decoder /\ gate = "running" => recovery = "needsCodecData"
    BY <1>1, <1>3, KindInHand
    DEF FrameAllowed, DecoderInputAllowed, PositionInv, RecoveryAhead,
        DecoderRecoveryState
  <2>3. decoder => RepairComing'
    BY <1>1, <1>2, <1>3, <2>1, <2>2
    DEF PositionInv, RepairComing, KeyframeComing, RecoveryAhead, Queued
  <2>4. RecoveryAhead' = RecoveryAhead
    BY <1>2, <1>3 DEF RecoveryAhead
  <2>5. RepairInv'
    BY <1>1, <1>2, <1>3, <2>3, <2>4, QueueUntouched
  <2>6. QueueInv' /\ PositionInv'
    BY <1>1, <1>2, <1>3 DEF DropAU, QueueInv, PositionInv, Queued
  <2> QED BY <2>5, <2>6
<1>4. CASE Overflow /\ DropAU /\ UNCHANGED <<queueLock, pump>>
  <2>1. keyframePending' /\ queue' = <<>>
    BY <1>4 DEF Overflow
  <2>2. RepairComing'
    BY <2>1 DEF RepairComing, KeyframeComing
  <2>3. QueueInv' /\ PositionInv'
    BY <1>1, <1>2, <1>4, <2>1 DEF DropAU, QueueInv, PositionInv, Queued
  <2> QED BY <1>1, <1>4, <2>1, <2>2, <2>3 DEF RepairInv
<1>5. CASE /\ FrameAllowed
           /\ queue' = Append(queue, AUInput)
           /\ tailKept' = TRUE /\ net' = "pump"
           /\ BeginPump("net") /\ UNCHANGED recoveryVars
  <2>1. AUInput.kind # "codecData"
    BY <1>1, KindInHand
  <2>2. QueueInv'
    <3>1. ~Queued("codecData")'
      BY <1>1, <1>5, <2>1, Appended DEF Queued
    <3> QED BY <1>2, <1>5, <3>1 DEF QueueInv, Queued, FrameAllowed
  <2>3. PositionInv'
    BY <1>1, <1>2, <1>5 DEF PositionInv, BeginPump
  <2>4. RecoveryAhead' = recovery /\ RecoveryAhead = recovery
    BY <1>1, <1>5 DEF RecoveryAhead, BeginPump
  <2>5. IF au = "delta" THEN recovery = "ready"
                        ELSE Queued("syncFrame")' /\ recovery # "needsCodecData"
    BY <1>1, <1>5, KindInHand, Appended
    DEF FrameAllowed, DecoderInputAllowed, Queued
  <2>6. ~StuckIn(RecoveryAhead)'
    BY <2>4, <2>5 DEF StuckIn, Queued
  <2>7. au = "delta" /\ RepairComing => RepairComing'
    BY <1>1, <1>2, <1>5, <2>4, <2>5
    DEF RepairComing, KeyframeComing, KeyframeInHand, InSession
  <2>8. ASSUME NEW i \in DOMAIN queue',
               decoder, queue'[i].kind = "frame", ~queue'[i].linked
        PROVE  \/ RepairComing'
               \/ \E j \in DOMAIN queue' : j > i /\ queue'[j].kind = "syncFrame"
    <3>1. CASE i = Len(queue) + 1
      BY <1>1, <1>5, <2>7, <2>8, <3>1, KindInHand, Appended DEF RepairInv
    <3>2. CASE i \in DOMAIN queue /\ au # "delta"
      BY <1>1, <1>5, <3>2, KindInHand, Appended
    <3>3. CASE i \in DOMAIN queue /\ au = "delta"
      BY <1>1, <1>5, <2>7, <2>8, <3>3, Appended DEF RepairInv
    <3> QED BY <1>1, <1>5, <3>1, <3>2, <3>3, Appended
  <2>9. RepairInv'
    BY <1>2, <1>5, <2>6, <2>8 DEF RepairInv, BeginPump
  <2> QED BY <2>2, <2>3, <2>9
<1> QED BY <1>3, <1>4, <1>5 DEF SubmitFrame

\* What is behind the head of the queue, and what a lost head does to it.
LEMMA Behind ==
  ASSUME NEW q \in Seq(DecodedInput), q # <<>>
  PROVE  /\ Head(q) = q[1] /\ 1 \in DOMAIN q /\ Len(q) \in Nat \ {0}
         /\ DOMAIN q = 1..Len(q)
         /\ DOMAIN Tail(q) = 1..(Len(q) - 1)
         /\ \A i \in 1..(Len(q) - 1) : Tail(q)[i] = q[i + 1]
         /\ DOMAIN AfterLoss(Tail(q)) = 1..(Len(q) - 1)
         /\ \A i \in 1..(Len(q) - 1) :
              /\ AfterLoss(Tail(q))[i].kind = q[i + 1].kind
              /\ i # 1 => AfterLoss(Tail(q))[i] = q[i + 1]
<1>1. /\ Head(q) = q[1] /\ 1 \in DOMAIN q /\ Len(q) \in Nat \ {0}
      /\ DOMAIN q = 1..Len(q)
      /\ Tail(q) \in Seq(DecodedInput) /\ DOMAIN Tail(q) = 1..(Len(q) - 1)
      /\ \A i \in 1..(Len(q) - 1) : Tail(q)[i] = q[i + 1]
  <2> HIDE DEF DecodedInput
  <2> QED OBVIOUS
<1>2. CASE Tail(q) = <<>>
  BY <1>1, <1>2 DEF AfterLoss
<1>3. CASE Tail(q) # <<>>
  <2> DEFINE t == Tail(q)
             first == [t[1] EXCEPT !.linked = (t[1].kind # "frame")]
  <2>1. AfterLoss(t) = [t EXCEPT ![1] = first]
    BY <1>3 DEF AfterLoss
  <2>2. 1 \in DOMAIN t /\ t[1] \in DecodedInput /\ t \in Seq(DecodedInput)
    <3> HIDE DEF DecodedInput
    <3> QED BY <1>1, <1>3
  <2>3. first.kind = t[1].kind
    BY <2>2 DEF DecodedInput
  <2>4. /\ DOMAIN AfterLoss(t) = DOMAIN t
        /\ AfterLoss(t)[1] = first
        /\ \A i \in DOMAIN t : i # 1 => AfterLoss(t)[i] = t[i]
    <3> HIDE DEF first, t
    <3> QED BY <2>1, <2>2
  <2> HIDE DEF first
  <2> QED BY <1>1, <2>3, <2>4
<1> QED BY <1>1, <1>2, <1>3

\* PumpDecoderLocked drops what it may not push: either the keyframe that can
\* still help is behind it, or one is already on the way.
LEMMA PumpTakeKeyframe ==
  ASSUME IInv, KeyframeInv, PumpTake
  PROVE  KeyframeInv'
<1> USE DEF KeyframeInv, Closing, Restarting, PushFailed
<1>1. /\ queue \in Seq(DecodedInput) /\ recovery \in DecoderRecoveryState
      /\ pump = "take" /\ (queueLock = "net" <=> net = "pump")
      /\ RecoveryAhead = recovery
  BY DEF IInv, TypeOK, ValuesOK, PositionsOK, LockInv, PumpTake, RecoveryAhead
<1>2. UNCHANGED <<gate, decoder, stage, job, ui, au, submitted, forced,
                  keyframePending, recovery>>
  BY DEF PumpTake
<1>3. CASE EndPump /\ UNCHANGED <<slots, queue, cur, tailKept>>
  <2>1. RecoveryAhead' = recovery /\ pump' = "idle"
    BY <1>2, <1>3 DEF RecoveryAhead, EndPump
  <2>2. net' = net \/ (net = "pump" /\ net' = "consume")
    BY <1>1, <1>3 DEF EndPump
  <2>3. (KeyframeComing => KeyframeComing') /\ (RepairComing => RepairComing')
    BY <1>1, <1>2, <1>3, <2>1, <2>2
    DEF RepairComing, KeyframeComing, KeyframeInHand, InSession, Queued
  <2>4. RepairInv'
    BY <1>1, <1>2, <1>3, <2>1, <2>3, QueueUntouched
  <2>5. QueueInv' /\ PositionInv'
    BY <1>1, <1>2, <1>3, <2>1, <2>2 DEF QueueInv, PositionInv, Queued
  <2> QED BY <2>4, <2>5
<1>4. CASE /\ CallbacksAllowed /\ decoder /\ queue # <<>>
           /\ DecoderInputAllowed(recovery, Head(queue).kind)
           /\ cur' = Head(queue) /\ queue' = Tail(queue) /\ pump' = "push"
           /\ UNCHANGED <<tailKept, net>>
  <2>1. /\ Head(queue) = queue[1] /\ 1 \in DOMAIN queue
        /\ DOMAIN queue = 1..Len(queue) /\ Len(queue) \in Nat
        /\ DOMAIN queue' = 1..(Len(queue) - 1)
        /\ \A i \in DOMAIN queue' : queue'[i] = queue[i + 1]
    BY <1>1, <1>4, Behind
  <2>2. RecoveryAhead' = AdvanceDecoderRecovery(recovery, queue[1].kind, TRUE)
    BY <1>2, <1>4, <2>1 DEF RecoveryAhead
  <2>3. \/ /\ recovery = "needsCodecData" /\ queue[1].kind = "codecData"
           /\ RecoveryAhead' = "needsSyncFrame"
        \/ recovery # "needsCodecData" /\ RecoveryAhead' = "ready"
    BY <1>1, <1>4, <2>1, <2>2 DEF DecoderInputAllowed, AdvanceDecoderRecovery
  <2>4. ~Queued("codecData")'
    BY <2>1 DEF QueueInv, Queued
  <2>5. queue[1].kind = "codecData" => Queued("syncFrame")' /\ net # "submitFrame"
    BY <2>1 DEF QueueInv, Queued
  <2>6. RepairComing => KeyframeComing'
    BY <1>1, <1>2, <1>4, <2>1, <2>3
    DEF RepairComing, KeyframeComing, KeyframeInHand, InSession, Queued
  <2>7. QueueInv'
    BY <1>2, <1>4, <2>4 DEF QueueInv, Queued
  <2>8. PositionInv'
    BY <1>1, <1>2, <1>4, <2>3, <2>5 DEF PositionInv
  <2>9. ~StuckIn(RecoveryAhead)'
    BY <2>3, <2>5 DEF StuckIn, Queued
  <2>10. ASSUME NEW i \in DOMAIN queue',
                queue'[i].kind = "frame", ~queue'[i].linked
         PROVE  \/ RepairComing'
                \/ \E j \in DOMAIN queue' : j > i /\ queue'[j].kind = "syncFrame"
    <3>1. i + 1 \in DOMAIN queue /\ queue'[i] = queue[i + 1]
      BY <2>1
    <3>2. \/ RepairComing
          \/ \E j \in DOMAIN queue : j > i + 1 /\ queue[j].kind = "syncFrame"
      BY <1>4, <2>10, <3>1 DEF RepairInv
    <3>3. ASSUME NEW j \in DOMAIN queue, j > i + 1, queue[j].kind = "syncFrame"
          PROVE  \E k \in DOMAIN queue' : k > i /\ queue'[k].kind = "syncFrame"
      <4>1. j - 1 \in DOMAIN queue' /\ j - 1 > i /\ queue'[j - 1] = queue[j]
        BY <2>1, <3>3
      <4> QED BY <3>3, <4>1
    <3> QED BY <2>6, <3>2, <3>3 DEF RepairComing
  <2>11. cur'.kind = "frame" /\ ~cur'.linked =>
           KeyframeComing' \/ Queued("syncFrame")'
    <3>1. SUFFICES ASSUME queue[1].kind = "frame", ~queue[1].linked
                   PROVE  KeyframeComing' \/ Queued("syncFrame")'
      BY <1>4, <2>1
    <3>2. \/ RepairComing
          \/ \E j \in DOMAIN queue : j > 1 /\ queue[j].kind = "syncFrame"
      BY <1>4, <2>1, <3>1 DEF RepairInv
    <3>3. ASSUME NEW j \in DOMAIN queue, j > 1, queue[j].kind = "syncFrame"
          PROVE  Queued("syncFrame")'
      <4>1. j - 1 \in DOMAIN queue' /\ queue'[j - 1] = queue[j]
        BY <2>1, <3>3
      <4> QED BY <3>3, <4>1 DEF Queued
    <3> QED BY <2>6, <3>2, <3>3
  <2>12. ~tailKept' => RepairComing'
    BY <1>4, <2>6 DEF RepairInv, RepairComing
  <2>13. RepairInv'
    BY <2>9, <2>10, <2>11, <2>12 DEF RepairInv
  <2> QED BY <2>7, <2>8, <2>13
<1>5. CASE /\ CallbacksAllowed /\ decoder /\ queue # <<>>
           /\ ~DecoderInputAllowed(recovery, Head(queue).kind)
           /\ queue' = AfterLoss(Tail(queue))
           /\ tailKept' = (tailKept /\ Len(queue) > 1)
           /\ UNCHANGED <<cur, pump, net>>
  <2>1. /\ Head(queue) = queue[1] /\ 1 \in DOMAIN queue
        /\ DOMAIN queue = 1..Len(queue) /\ Len(queue) \in Nat \ {0}
        /\ DOMAIN queue' = 1..(Len(queue) - 1)
        /\ \A i \in DOMAIN queue' :
             /\ queue'[i].kind = queue[i + 1].kind
             /\ i # 1 => queue'[i] = queue[i + 1]
    BY <1>1, <1>5, Behind
  <2>2. RecoveryAhead' = recovery
    BY <1>1, <1>2, <1>5 DEF RecoveryAhead
  <2>3. \/ recovery = "needsCodecData" /\ ~Queued("codecData")
        \/ recovery = "needsSyncFrame" /\ queue[1].kind # "syncFrame"
        \/ /\ recovery = "ready"
           /\ Len(queue) >= 2 /\ queue[2].kind = "syncFrame"
    <3>1. queue[1] \in DecodedInput
      <4> HIDE DEF DecodedInput
      <4> QED BY <1>1, <2>1
    <3> QED
      BY <1>1, <1>5, <2>1, <3>1
      DEF DecoderInputAllowed, QueueInv, Queued, DecoderRecoveryState,
          DecodedInput, DecoderInputKind
  <2>4. ~Queued("codecData")'
    BY <2>1 DEF QueueInv, Queued
  <2>5. RepairComing => RepairComing'
    BY <1>1, <1>2, <1>5, <2>2, <2>4
    DEF RepairComing, KeyframeComing, KeyframeInHand, InSession
  <2>6. recovery = "needsSyncFrame" /\ Queued("syncFrame") =>
          \E j \in DOMAIN queue' : queue'[j].kind = "syncFrame" /\ queue[j + 1].kind = "syncFrame"
    <3>1. SUFFICES ASSUME recovery = "needsSyncFrame",
                          NEW j \in DOMAIN queue, queue[j].kind = "syncFrame"
                   PROVE  \E k \in DOMAIN queue' :
                            queue'[k].kind = "syncFrame" /\ queue[k + 1].kind = "syncFrame"
      BY DEF Queued
    <3>2. j - 1 \in DOMAIN queue' /\ queue'[j - 1].kind = queue[j].kind
          /\ queue[(j - 1) + 1] = queue[j]
      BY <2>1, <2>3, <3>1
    <3> QED BY <3>1, <3>2
  <2>7. StuckIn(recovery) => RepairComing
    BY <1>1, <1>5 DEF RepairInv
  <2>8. StuckIn(RecoveryAhead)' => RepairComing'
    BY <2>2, <2>3, <2>5, <2>6, <2>7 DEF StuckIn, Queued
  <2>9. ~tailKept' => RepairComing'
    <3>1. CASE ~tailKept
      BY <1>5, <2>5, <3>1 DEF RepairInv
    <3>2. CASE Len(queue) = 1
      <4>1. Queued("syncFrame") => queue[1].kind = "syncFrame"
        BY <2>1, <3>2 DEF Queued
      <4>2. StuckIn(recovery)
        BY <2>3, <3>2, <4>1 DEF StuckIn
      <4> QED BY <2>5, <2>7, <4>2
    <3>3. ~tailKept' => ~tailKept \/ ~(Len(queue) > 1)
      BY Zenon, <1>5
    <3> QED BY <2>1, <3>1, <3>2, <3>3
  <2>10. ASSUME NEW i \in DOMAIN queue',
                queue'[i].kind = "frame", ~queue'[i].linked
         PROVE  \/ RepairComing'
                \/ \E j \in DOMAIN queue' : j > i /\ queue'[j].kind = "syncFrame"
    <3>1. CASE i # 1
      <4>1. i + 1 \in DOMAIN queue /\ queue'[i] = queue[i + 1]
        BY <2>1, <3>1
      <4>2. \/ RepairComing
            \/ \E j \in DOMAIN queue : j > i + 1 /\ queue[j].kind = "syncFrame"
        BY <1>5, <2>10, <4>1 DEF RepairInv
      <4>3. ASSUME NEW j \in DOMAIN queue, j > i + 1, queue[j].kind = "syncFrame"
            PROVE  \E k \in DOMAIN queue' : k > i /\ queue'[k].kind = "syncFrame"
        <5>1. /\ j - 1 \in DOMAIN queue' /\ j - 1 > i
              /\ queue'[j - 1].kind = queue[j].kind
          BY <2>1, <4>3
        <5> QED BY <4>3, <5>1
      <4> QED BY <2>5, <4>2, <4>3
    <3>2. CASE i = 1
      <4>1. queue[2].kind = "frame"
        BY <2>1, <2>10, <3>2
      <4>2. CASE StuckIn(recovery)
        BY <2>5, <2>7, <4>2
      <4>3. CASE recovery = "needsSyncFrame" /\ Queued("syncFrame")
        <5>1. PICK j \in DOMAIN queue' :
                queue'[j].kind = "syncFrame" /\ queue[j + 1].kind = "syncFrame"
          BY <2>6, <4>3
        <5>2. j > 1
          BY <2>1, <4>1, <5>1
        <5> QED BY <3>2, <5>1, <5>2
      <4> QED BY <2>3, <4>1, <4>2, <4>3 DEF StuckIn
    <3> QED BY <3>1, <3>2
  <2>11. QueueInv'
    BY <1>2, <1>5, <2>4 DEF QueueInv, Queued
  <2>12. PositionInv'
    BY <1>1, <1>2, <1>5, <2>2 DEF PositionInv
  <2>13. RepairInv'
    BY <1>1, <1>5, <2>8, <2>9, <2>10 DEF RepairInv
  <2> QED BY <2>11, <2>12, <2>13
<1> QED BY <1>3, <1>4, <1>5 DEF PumpTake

\* A recovery AU replaces whatever the queue held, or asks for the next one.
LEMMA SubmitRecoveryKeyframe ==
  ASSUME IInv, KeyframeInv, SubmitRecovery
  PROVE  KeyframeInv'
<1> USE DEF SubmitRecovery, DropAU, RejectAU, BeginPump, CodecData, SyncFrame,
            IInv, TypeOK, KeyframeInv, RecoveryAhead, Closing, Restarting,
            PushFailed, InSession
<1>1. QueueInv'
  BY DEF LockInv, SlotsInv, QueueInv, Queued, ValuesOK
<1>2. PositionInv'
  BY DEF PositionsOK, LockInv, StageInv, FedInv, SlotsInv, QueueInv, Queued,
         PositionInv, AdvanceDecoderRecovery
<1>3. RepairInv'
  BY DEF PositionsOK, LockInv, StageInv, FedInv, SlotsInv, PositionInv,
         QueueInv, RepairInv, RepairComing, KeyframeComing, KeyframeInHand,
         Queued, StuckIn, AdvanceDecoderRecovery
<1> QED BY <1>1, <1>2, <1>3

\* A session that ends is repaired by the next one's request.
LEMMA DisconnectKeyframe ==
  ASSUME IInv, KeyframeInv, Disconnect
  PROVE  KeyframeInv'
<1> USE DEF Disconnect, IInv, TypeOK, KeyframeInv, RecoveryAhead, Closing,
            Restarting, PushFailed, InSession
<1>1. QueueInv'
  BY DEF LockInv, SlotsInv, QueueInv, Queued, ValuesOK
<1>2. PositionInv'
  BY DEF PositionsOK, LockInv, StageInv, FedInv, SlotsInv, QueueInv, Queued,
         PositionInv, AdvanceDecoderRecovery
<1>3. RepairInv'
  BY DEF PositionsOK, LockInv, StageInv, FedInv, SlotsInv, PositionInv,
         QueueInv, RepairInv, RepairComing, KeyframeComing, KeyframeInHand,
         Queued, StuckIn, AdvanceDecoderRecovery
<1> QED BY <1>1, <1>2, <1>3

\* The coordinator is reset between two sessions only.
LEMMA ResetRecoveryKeyframe ==
  ASSUME IInv, KeyframeInv, ResetRecovery
  PROVE  KeyframeInv'
<1> USE DEF ResetRecovery, IInv, TypeOK, KeyframeInv, RecoveryAhead, Closing,
            Restarting, PushFailed, InSession
<1>1. QueueInv'
  BY DEF LockInv, SlotsInv, QueueInv, Queued, ValuesOK
<1>2. PositionInv'
  BY DEF PositionsOK, LockInv, StageInv, FedInv, SlotsInv, QueueInv, Queued,
         PositionInv, AdvanceDecoderRecovery
<1>3. RepairInv'
  BY DEF PositionsOK, LockInv, StageInv, FedInv, SlotsInv, PositionInv,
         QueueInv, RepairInv, RepairComing, KeyframeComing, KeyframeInHand,
         Queued, StuckIn, AdvanceDecoderRecovery
<1> QED BY <1>1, <1>2, <1>3

\* A push advances the codec to where the store will bring recovery_.
LEMMA PumpPushKeyframe ==
  ASSUME IInv, KeyframeInv, PumpPush
  PROVE  KeyframeInv'
<1> USE DEF PumpPush, IInv, TypeOK, KeyframeInv, RecoveryAhead, Closing,
            Restarting, PushFailed, InSession
<1>1. QueueInv'
  BY DEF LockInv, SlotsInv, QueueInv, Queued, ValuesOK
<1>2. PositionInv'
  BY DEF PositionsOK, LockInv, StageInv, FedInv, SlotsInv, QueueInv, Queued,
         PositionInv, AdvanceDecoderRecovery
<1>3. RepairInv'
  BY DEF PositionsOK, LockInv, StageInv, FedInv, SlotsInv, PositionInv,
         QueueInv, RepairInv, RepairComing, KeyframeComing, KeyframeInHand,
         Queued, StuckIn, AdvanceDecoderRecovery
<1> QED BY <1>1, <1>2, <1>3

\* The store of OnInputSubmitted brings recovery_ to where the codec is; after a
\* failed push it asks for a keyframe.
LEMMA PumpStoreKeyframe ==
  ASSUME IInv, KeyframeInv, PumpStore
  PROVE  KeyframeInv'
<1> USE DEF PumpStore, EndPump, IInv, TypeOK, KeyframeInv, RecoveryAhead,
            Closing, Restarting, PushFailed, InSession
<1>1. QueueInv'
  BY DEF LockInv, SlotsInv, QueueInv, Queued, ValuesOK
<1>2. PositionInv'
  BY DEF PositionsOK, LockInv, StageInv, FedInv, SlotsInv, QueueInv, Queued,
         PositionInv, AdvanceDecoderRecovery
<1>3. RepairInv'
  BY DEF PositionsOK, LockInv, StageInv, FedInv, SlotsInv, PositionInv,
         QueueInv, RepairInv, RepairComing, KeyframeComing, KeyframeInHand,
         Queued, StuckIn, AdvanceDecoderRecovery
<1> QED BY <1>1, <1>2, <1>3

\* The callback does not touch the stream before it holds the queue lock.
LEMMA NeedInputKeyframe ==
  ASSUME IInv, KeyframeInv, NeedInput
  PROVE  KeyframeInv'
<1> USE DEF NeedInput, IInv, TypeOK, KeyframeInv, RecoveryAhead, Closing,
            Restarting, PushFailed, InSession
<1>1. QueueInv'
  BY DEF LockInv, SlotsInv, QueueInv, Queued, ValuesOK
<1>2. PositionInv'
  BY DEF PositionsOK, LockInv, StageInv, FedInv, SlotsInv, QueueInv, Queued,
         PositionInv, AdvanceDecoderRecovery
<1>3. RepairInv'
  BY DEF PositionsOK, LockInv, StageInv, FedInv, SlotsInv, PositionInv,
         QueueInv, RepairInv, RepairComing, KeyframeComing, KeyframeInHand,
         Queued, StuckIn, AdvanceDecoderRecovery
<1> QED BY <1>1, <1>2, <1>3

\* A kept slot starts a pump over the queue as it is.
LEMMA AddInputSlotKeyframe ==
  ASSUME IInv, KeyframeInv, AddInputSlot
  PROVE  KeyframeInv'
<1> USE DEF AddInputSlot, BeginPump, IInv, TypeOK, KeyframeInv, RecoveryAhead,
            Closing, Restarting, PushFailed, InSession
<1>1. QueueInv'
  BY DEF LockInv, SlotsInv, QueueInv, Queued, ValuesOK
<1>2. PositionInv'
  BY DEF PositionsOK, LockInv, StageInv, FedInv, SlotsInv, QueueInv, Queued,
         PositionInv, AdvanceDecoderRecovery
<1>3. RepairInv'
  BY DEF PositionsOK, LockInv, StageInv, FedInv, SlotsInv, PositionInv,
         QueueInv, RepairInv, RepairComing, KeyframeComing, KeyframeInHand,
         Queued, StuckIn, AdvanceDecoderRecovery
<1> QED BY <1>1, <1>2, <1>3

\* The gate closes before anything is dropped.
LEMMA DestroyCloseKeyframe ==
  ASSUME IInv, KeyframeInv, DestroyClose
  PROVE  KeyframeInv'
<1> USE DEF DestroyClose, IInv, TypeOK, KeyframeInv, RecoveryAhead, Closing,
            Restarting, PushFailed, InSession
<1>1. QueueInv'
  BY DEF LockInv, SlotsInv, QueueInv, Queued, ValuesOK
<1>2. PositionInv'
  BY DEF PositionsOK, LockInv, StageInv, FedInv, SlotsInv, QueueInv, Queued,
         PositionInv, AdvanceDecoderRecovery
<1>3. RepairInv'
  BY DEF PositionsOK, LockInv, StageInv, FedInv, SlotsInv, PositionInv,
         QueueInv, RepairInv, RepairComing, KeyframeComing, KeyframeInHand,
         Queued, StuckIn, AdvanceDecoderRecovery
<1> QED BY <1>1, <1>2, <1>3

\* Without a decoder there is nothing to repair.
LEMMA DestroyClearKeyframe ==
  ASSUME IInv, KeyframeInv, DestroyClear
  PROVE  KeyframeInv'
<1> USE DEF DestroyClear, ClearDecoderQueues, IInv, TypeOK, KeyframeInv,
            RecoveryAhead, Closing, Restarting, PushFailed, InSession
<1>1. QueueInv'
  BY DEF LockInv, SlotsInv, QueueInv, Queued, ValuesOK
<1>2. PositionInv'
  BY DEF PositionsOK, LockInv, StageInv, FedInv, SlotsInv, QueueInv, Queued,
         PositionInv, AdvanceDecoderRecovery
<1>3. RepairInv'
  BY DEF PositionsOK, LockInv, StageInv, FedInv, SlotsInv, PositionInv,
         QueueInv, RepairInv, RepairComing, KeyframeComing, KeyframeInHand,
         Queued, StuckIn, AdvanceDecoderRecovery
<1> QED BY <1>1, <1>2, <1>3

\* The recovery state is reset while there is no decoder.
LEMMA DestroyCodecKeyframe ==
  ASSUME IInv, KeyframeInv, DestroyCodec
  PROVE  KeyframeInv'
<1> USE DEF DestroyCodec, IInv, TypeOK, KeyframeInv, RecoveryAhead, Closing,
            Restarting, PushFailed, InSession
<1>1. QueueInv'
  BY DEF LockInv, SlotsInv, QueueInv, Queued, ValuesOK
<1>2. PositionInv'
  BY DEF PositionsOK, LockInv, StageInv, FedInv, SlotsInv, QueueInv, Queued,
         PositionInv, AdvanceDecoderRecovery
<1>3. RepairInv'
  BY DEF PositionsOK, LockInv, StageInv, FedInv, SlotsInv, PositionInv,
         QueueInv, RepairInv, RepairComing, KeyframeComing, KeyframeInHand,
         Queued, StuckIn, AdvanceDecoderRecovery
<1> QED BY <1>1, <1>2, <1>3

\* Nothing is queued before there is a decoder.
LEMMA CreateDecoderKeyframe ==
  ASSUME IInv, KeyframeInv, CreateDecoder
  PROVE  KeyframeInv'
<1> USE DEF CreateDecoder, IInv, TypeOK, KeyframeInv, RecoveryAhead, Closing,
            Restarting, PushFailed, InSession
<1>1. QueueInv'
  BY DEF LockInv, SlotsInv, QueueInv, Queued, ValuesOK
<1>2. PositionInv'
  BY DEF PositionsOK, LockInv, StageInv, FedInv, SlotsInv, QueueInv, Queued,
         PositionInv, AdvanceDecoderRecovery
<1>3. RepairInv'
  BY DEF PositionsOK, LockInv, StageInv, FedInv, SlotsInv, PositionInv,
         QueueInv, RepairInv, RepairComing, KeyframeComing, KeyframeInHand,
         Queued, StuckIn, AdvanceDecoderRecovery
<1> QED BY <1>1, <1>2, <1>3

\* A fresh decoder needs parameter sets, and its event will ask for them.
LEMMA ConfigureDecoderKeyframe ==
  ASSUME IInv, KeyframeInv, ConfigureDecoder
  PROVE  KeyframeInv'
<1> USE DEF ConfigureDecoder, IInv, TypeOK, KeyframeInv, RecoveryAhead,
            Closing, Restarting, PushFailed, InSession
<1>1. QueueInv'
  BY DEF LockInv, SlotsInv, QueueInv, Queued, ValuesOK
<1>2. PositionInv'
  BY DEF PositionsOK, LockInv, StageInv, FedInv, SlotsInv, QueueInv, Queued,
         PositionInv, AdvanceDecoderRecovery
<1>3. stage = "configure" /\ ~decoder /\ queue = <<>>
      /\ pump \notin {"push", "store"}
  BY DEF ConfigureDecoder, StageInv, QueueInv, PositionInv
<1>4. UNCHANGED <<queue, pump, cur, recovery, net, au, ui, forced,
                  keyframePending>>
  BY DEF ConfigureDecoder
<1>5. decoder' => stage' = "start"
  BY <1>3 DEF ConfigureDecoder
<1>6. InSession => recovery = "needsCodecData"
  BY <1>3 DEF PositionsOK, DecoderRecoveryState, LockInv, StageInv, FedInv,
              FedEnough, Flushing
<1>7. ~Queued("codecData")'
  BY <1>3, <1>4 DEF Queued
<1>8. decoder' => RepairComing'
  <2> HIDE DEF ConfigureDecoder
  <2> QED BY <1>3, <1>4, <1>5, <1>6, <1>7 DEF RepairComing, KeyframeComing
<1>9. RepairInv'
  <2> HIDE DEF ConfigureDecoder
  <2> QED BY <1>3, <1>4, <1>8 DEF RepairInv
<1> QED BY <1>1, <1>2, <1>9

\* The request is still to come, or the decoder is about to go.
LEMMA StartDecoderKeyframe ==
  ASSUME IInv, KeyframeInv, StartDecoder
  PROVE  KeyframeInv'
<1> USE DEF StartDecoder, IInv, TypeOK, KeyframeInv, RecoveryAhead, Closing,
            Restarting, PushFailed, InSession
<1>1. QueueInv'
  BY DEF LockInv, SlotsInv, QueueInv, Queued, ValuesOK
<1>2. PositionInv'
  BY DEF PositionsOK, LockInv, StageInv, FedInv, SlotsInv, QueueInv, Queued,
         PositionInv, AdvanceDecoderRecovery
<1>3. RepairInv'
  BY DEF PositionsOK, LockInv, StageInv, FedInv, SlotsInv, PositionInv,
         QueueInv, RepairInv, RepairComing, KeyframeComing, KeyframeInHand,
         Queued, StuckIn, AdvanceDecoderRecovery
<1> QED BY <1>1, <1>2, <1>3

\* Without a decoder there is nothing to repair.
LEMMA AbandonDecoderKeyframe ==
  ASSUME IInv, KeyframeInv, AbandonDecoder
  PROVE  KeyframeInv'
<1> USE DEF AbandonDecoder, ClearDecoderQueues, IInv, TypeOK, KeyframeInv,
            RecoveryAhead, Closing, Restarting, PushFailed, InSession
<1>1. QueueInv'
  BY DEF LockInv, SlotsInv, QueueInv, Queued, ValuesOK
<1>2. PositionInv'
  BY DEF PositionsOK, LockInv, StageInv, FedInv, SlotsInv, QueueInv, Queued,
         PositionInv, AdvanceDecoderRecovery
<1>3. RepairInv'
  BY DEF PositionsOK, LockInv, StageInv, FedInv, SlotsInv, PositionInv,
         QueueInv, RepairInv, RepairComing, KeyframeComing, KeyframeInHand,
         Queued, StuckIn, AdvanceDecoderRecovery
<1> QED BY <1>1, <1>2, <1>3

\* The state is reset over a running pump: what may have reached the codec
\* since the gate opened is forgotten, and the request that follows covers it.
LEMMA RequireAfterStartKeyframe ==
  ASSUME IInv, KeyframeInv, RequireAfterStart
  PROVE  KeyframeInv'
<1> USE DEF RequireAfterStart, IInv, TypeOK, KeyframeInv, RecoveryAhead,
            Closing, Restarting, PushFailed, InSession
<1>1. QueueInv'
  BY DEF LockInv, SlotsInv, QueueInv, Queued, ValuesOK
<1>2. PositionInv'
  BY DEF PositionsOK, LockInv, StageInv, FedInv, SlotsInv, QueueInv, Queued,
         PositionInv, AdvanceDecoderRecovery
<1>3. RepairInv'
  BY DEF PositionsOK, LockInv, StageInv, FedInv, SlotsInv, PositionInv,
         QueueInv, RepairInv, RepairComing, KeyframeComing, KeyframeInHand,
         Queued, StuckIn, AdvanceDecoderRecovery
<1> QED BY <1>1, <1>2, <1>3

\* A flush belongs to an authentication, whose answer asks for a keyframe.
LEMMA FlushClearKeyframe ==
  ASSUME IInv, KeyframeInv, FlushClear
  PROVE  KeyframeInv'
<1> USE DEF FlushClear, ClearDecoderQueues, IInv, TypeOK, KeyframeInv,
            RecoveryAhead, Closing, Restarting, PushFailed, InSession
<1>1. QueueInv'
  BY DEF LockInv, SlotsInv, QueueInv, Queued, ValuesOK
<1>2. PositionInv'
  BY DEF PositionsOK, LockInv, StageInv, FedInv, SlotsInv, QueueInv, Queued,
         PositionInv, AdvanceDecoderRecovery
<1>3. RepairInv'
  BY DEF PositionsOK, LockInv, StageInv, FedInv, SlotsInv, PositionInv,
         QueueInv, RepairInv, RepairComing, KeyframeComing, KeyframeInHand,
         Queued, StuckIn, AdvanceDecoderRecovery
<1> QED BY <1>1, <1>2, <1>3

\* A flush belongs to an authentication, whose answer asks for a keyframe.
LEMMA FlushCodecKeyframe ==
  ASSUME IInv, KeyframeInv, FlushCodec
  PROVE  KeyframeInv'
<1> USE DEF FlushCodec, Rebuild, IInv, TypeOK, KeyframeInv, RecoveryAhead,
            Closing, Restarting, PushFailed, InSession
<1>1. QueueInv'
  BY DEF LockInv, SlotsInv, QueueInv, Queued, ValuesOK
<1>2. job'.op = job.op
  BY DEF RecordsOK, Job, FlushCodec, Rebuild
<1>3. PositionInv'
  BY <1>2 DEF LockInv, PositionInv
<1>4. RepairInv'
  BY DEF PositionsOK, LockInv, StageInv, FedInv, SlotsInv, PositionInv,
         QueueInv, RepairInv, RepairComing, KeyframeComing, KeyframeInHand,
         Queued, StuckIn, AdvanceDecoderRecovery
<1> QED BY <1>1, <1>2, <1>3, <1>4

\* A flush belongs to an authentication, whose answer asks for a keyframe.
LEMMA RestartCodecKeyframe ==
  ASSUME IInv, KeyframeInv, RestartCodec
  PROVE  KeyframeInv'
<1> USE DEF RestartCodec, Rebuild, IInv, TypeOK, KeyframeInv, RecoveryAhead,
            Closing, Restarting, PushFailed, InSession
<1>1. QueueInv'
  BY DEF LockInv, SlotsInv, QueueInv, Queued, ValuesOK
<1>2. PositionInv'
  BY DEF PositionsOK, LockInv, StageInv, FedInv, SlotsInv, QueueInv, Queued,
         PositionInv, AdvanceDecoderRecovery
<1>3. RepairInv'
  BY DEF PositionsOK, LockInv, StageInv, FedInv, SlotsInv, PositionInv,
         QueueInv, RepairInv, RepairComing, KeyframeComing, KeyframeInHand,
         Queued, StuckIn, AdvanceDecoderRecovery
<1> QED BY <1>1, <1>2, <1>3

\* An event that created a decoder goes on to ask for a keyframe.
LEMMA FinishEventKeyframe ==
  ASSUME IInv, KeyframeInv, FinishEvent
  PROVE  KeyframeInv'
<1> USE DEF FinishEvent, Release, NoJob, IInv, TypeOK, KeyframeInv,
            RecoveryAhead, Closing, Restarting, PushFailed, InSession
<1>1. QueueInv'
  BY DEF LockInv, SlotsInv, QueueInv, Queued, ValuesOK
<1>2. PositionInv'
  BY DEF PositionsOK, LockInv, StageInv, FedInv, SlotsInv, QueueInv, Queued,
         PositionInv, AdvanceDecoderRecovery
<1>3. RepairInv'
  BY DEF PositionsOK, LockInv, StageInv, FedInv, SlotsInv, PositionInv,
         QueueInv, RepairInv, RepairComing, KeyframeComing, KeyframeInHand,
         Queued, StuckIn, AdvanceDecoderRecovery
<1> QED BY <1>1, <1>2, <1>3

\* The answer is still to be given.
LEMMA FinishSessionKeyframe ==
  ASSUME IInv, KeyframeInv, FinishSession
  PROVE  KeyframeInv'
<1> USE DEF FinishSession, Release, NoJob, IInv, TypeOK, KeyframeInv,
            RecoveryAhead, Closing, Restarting, PushFailed, InSession
<1>1. QueueInv'
  BY DEF LockInv, SlotsInv, QueueInv, Queued, ValuesOK
<1>2. PositionInv'
  BY DEF PositionsOK, LockInv, StageInv, FedInv, SlotsInv, QueueInv, Queued,
         PositionInv, AdvanceDecoderRecovery
<1>3. RepairInv'
  BY DEF PositionsOK, LockInv, StageInv, FedInv, SlotsInv, PositionInv,
         QueueInv, RepairInv, RepairComing, KeyframeComing, KeyframeInHand,
         Queued, StuckIn, AdvanceDecoderRecovery
<1> QED BY <1>1, <1>2, <1>3

\* Between two sessions nothing is asked of the sender.
LEMMA AuthenticateKeyframe ==
  ASSUME IInv, KeyframeInv, NEW contract \in Contracts, Authenticate(contract)
  PROVE  KeyframeInv'
<1> USE DEF Authenticate, NoJob, IInv, TypeOK, KeyframeInv, RecoveryAhead,
            Closing, Restarting, PushFailed, InSession
<1>1. QueueInv'
  BY DEF LockInv, SlotsInv, QueueInv, Queued, ValuesOK
<1>2. PositionInv'
  BY DEF PositionsOK, LockInv, StageInv, FedInv, SlotsInv, QueueInv, Queued,
         PositionInv, AdvanceDecoderRecovery
<1>3. RepairInv'
  BY DEF PositionsOK, LockInv, StageInv, FedInv, SlotsInv, PositionInv,
         QueueInv, RepairInv, RepairComing, KeyframeComing, KeyframeInHand,
         Queued, StuckIn, AdvanceDecoderRecovery
<1> QED BY <1>1, <1>2, <1>3

\* The answer of an authentication asks for a keyframe.
LEMMA AnswerAuthenticationKeyframe ==
  ASSUME IInv, KeyframeInv, AnswerAuthentication
  PROVE  KeyframeInv'
<1> USE DEF AnswerAuthentication, IInv, TypeOK, KeyframeInv, RecoveryAhead,
            Closing, Restarting, PushFailed, InSession
<1>1. QueueInv'
  BY DEF LockInv, SlotsInv, QueueInv, Queued, ValuesOK
<1>2. PositionInv'
  BY DEF PositionsOK, LockInv, StageInv, FedInv, SlotsInv, QueueInv, Queued,
         PositionInv, AdvanceDecoderRecovery
<1>3. RepairInv'
  BY DEF PositionsOK, LockInv, StageInv, FedInv, SlotsInv, PositionInv,
         QueueInv, RepairInv, RepairComing, KeyframeComing, KeyframeInHand,
         Queued, StuckIn, AdvanceDecoderRecovery
<1> QED BY <1>1, <1>2, <1>3

\* An event only decides; what it drops it drops behind a closed gate.
LEMMA OnSurfaceCreatedKeyframe ==
  ASSUME IInv, KeyframeInv, NEW c \in Components, NEW w \in Windows, OnSurfaceCreated(c, w)
  PROVE  KeyframeInv'
<1> USE DEF OnSurfaceCreated, UIEvent, Reconcile, NoJob, IInv, TypeOK,
            KeyframeInv, RecoveryAhead, Closing, Restarting, PushFailed,
            InSession
<1>1. QueueInv'
  BY DEF LockInv, SlotsInv, QueueInv, Queued, ValuesOK
<1>2. PositionInv'
  BY DEF PositionsOK, LockInv, StageInv, FedInv, SlotsInv, QueueInv, Queued,
         PositionInv, AdvanceDecoderRecovery
<1>3. RepairInv'
  BY DEF PositionsOK, LockInv, StageInv, FedInv, SlotsInv, PositionInv,
         QueueInv, RepairInv, RepairComing, KeyframeComing, KeyframeInHand,
         Queued, StuckIn, AdvanceDecoderRecovery
<1> QED BY <1>1, <1>2, <1>3

\* An event only decides; what it drops it drops behind a closed gate.
LEMMA OnSurfaceChangedKeyframe ==
  ASSUME IInv, KeyframeInv, NEW c \in Components, NEW w \in Windows, OnSurfaceChanged(c, w)
  PROVE  KeyframeInv'
<1> USE DEF OnSurfaceChanged, UIEvent, Reconcile, NoJob, IInv, TypeOK,
            KeyframeInv, RecoveryAhead, Closing, Restarting, PushFailed,
            InSession
<1>1. QueueInv'
  BY DEF LockInv, SlotsInv, QueueInv, Queued, ValuesOK
<1>2. PositionInv'
  BY DEF PositionsOK, LockInv, StageInv, FedInv, SlotsInv, QueueInv, Queued,
         PositionInv, AdvanceDecoderRecovery
<1>3. RepairInv'
  BY DEF PositionsOK, LockInv, StageInv, FedInv, SlotsInv, PositionInv,
         QueueInv, RepairInv, RepairComing, KeyframeComing, KeyframeInHand,
         Queued, StuckIn, AdvanceDecoderRecovery
<1> QED BY <1>1, <1>2, <1>3

\* An event only decides; what it drops it drops behind a closed gate.
LEMMA OnSurfaceDestroyedKeyframe ==
  ASSUME IInv, KeyframeInv, NEW c \in Components, NEW w \in Windows, OnSurfaceDestroyed(c, w)
  PROVE  KeyframeInv'
<1> USE DEF OnSurfaceDestroyed, UIEvent, Reconcile, NoJob, IInv, TypeOK,
            KeyframeInv, RecoveryAhead, Closing, Restarting, PushFailed,
            InSession
<1>1. QueueInv'
  BY DEF LockInv, SlotsInv, QueueInv, Queued, ValuesOK
<1>2. PositionInv'
  BY DEF PositionsOK, LockInv, StageInv, FedInv, SlotsInv, QueueInv, Queued,
         PositionInv, AdvanceDecoderRecovery
<1>3. RepairInv'
  BY DEF PositionsOK, LockInv, StageInv, FedInv, SlotsInv, PositionInv,
         QueueInv, RepairInv, RepairComing, KeyframeComing, KeyframeInHand,
         Queued, StuckIn, AdvanceDecoderRecovery
<1> QED BY <1>1, <1>2, <1>3

\* An event only decides; what it drops it drops behind a closed gate.
LEMMA OnAppForegroundKeyframe ==
  ASSUME IInv, KeyframeInv, OnAppForeground
  PROVE  KeyframeInv'
<1> USE DEF OnAppForeground, UIEvent, Reconcile, NoJob, IInv, TypeOK,
            KeyframeInv, RecoveryAhead, Closing, Restarting, PushFailed,
            InSession
<1>1. QueueInv'
  BY DEF LockInv, SlotsInv, QueueInv, Queued, ValuesOK
<1>2. PositionInv'
  BY DEF PositionsOK, LockInv, StageInv, FedInv, SlotsInv, QueueInv, Queued,
         PositionInv, AdvanceDecoderRecovery
<1>3. RepairInv'
  BY DEF PositionsOK, LockInv, StageInv, FedInv, SlotsInv, PositionInv,
         QueueInv, RepairInv, RepairComing, KeyframeComing, KeyframeInHand,
         Queued, StuckIn, AdvanceDecoderRecovery
<1> QED BY <1>1, <1>2, <1>3

\* An event only decides; what it drops it drops behind a closed gate.
LEMMA OnAppBackgroundKeyframe ==
  ASSUME IInv, KeyframeInv, OnAppBackground
  PROVE  KeyframeInv'
<1> USE DEF OnAppBackground, UIEvent, Reconcile, NoJob, IInv, TypeOK,
            KeyframeInv, RecoveryAhead, Closing, Restarting, PushFailed,
            InSession
<1>1. QueueInv'
  BY DEF LockInv, SlotsInv, QueueInv, Queued, ValuesOK
<1>2. PositionInv'
  BY DEF PositionsOK, LockInv, StageInv, FedInv, SlotsInv, QueueInv, Queued,
         PositionInv, AdvanceDecoderRecovery
<1>3. RepairInv'
  BY DEF PositionsOK, LockInv, StageInv, FedInv, SlotsInv, PositionInv,
         QueueInv, RepairInv, RepairComing, KeyframeComing, KeyframeInHand,
         Queued, StuckIn, AdvanceDecoderRecovery
<1> QED BY <1>1, <1>2, <1>3

\* The request of an event is made.
LEMMA RequestKeyframeKeyframe ==
  ASSUME IInv, KeyframeInv, RequestKeyframe
  PROVE  KeyframeInv'
<1> USE DEF RequestKeyframe, IInv, TypeOK, KeyframeInv, RecoveryAhead,
            Closing, Restarting, PushFailed, InSession
<1>1. QueueInv'
  BY DEF LockInv, SlotsInv, QueueInv, Queued, ValuesOK
<1>2. PositionInv'
  BY DEF PositionsOK, LockInv, StageInv, FedInv, SlotsInv, QueueInv, Queued,
         PositionInv, AdvanceDecoderRecovery
<1>3. RepairInv'
  BY DEF PositionsOK, LockInv, StageInv, FedInv, SlotsInv, PositionInv,
         QueueInv, RepairInv, RepairComing, KeyframeComing, KeyframeInHand,
         Queued, StuckIn, AdvanceDecoderRecovery
<1> QED BY <1>1, <1>2, <1>3

\* The requests depend on the module's variables only.
LEMMA StutterKeyframe ==
  ASSUME KeyframeInv, UNCHANGED vars
  PROVE  KeyframeInv'
<1> USE DEF vars, InSession, RecoveryAhead, Closing, Restarting, PushFailed
<1>1. QueueInv' BY DEF KeyframeInv, QueueInv, Queued
<1>2. PositionInv' BY DEF KeyframeInv, PositionInv
<1>3. (KeyframeComing => KeyframeComing') /\ (RepairComing => RepairComing')
  BY DEF RepairComing, KeyframeComing, KeyframeInHand, Queued
<1>4. RecoveryAhead' = RecoveryAhead
  OBVIOUS
<1>5. RepairInv'
  <2> HIDE DEF RecoveryAhead
  <2> QED BY <1>3, <1>4, QueueUntouched DEF KeyframeInv
<1> QED BY <1>1, <1>2, <1>5 DEF KeyframeInv

\* Nothing is broken in a Receiver that has just started.
LEMMA InitKeyframe == Init => KeyframeInv
<1> SUFFICES ASSUME Init PROVE KeyframeInv
  OBVIOUS
<1> QED
  BY DEF Init, KeyframeInv, QueueInv, PositionInv, RepairInv, Queued,
         RecoveryAhead

\* Every step preserves the invariant: the step lemmas together.
LEMMA NextKeyframe == IInv /\ KeyframeInv /\ [Next]_vars => KeyframeInv'
<1> SUFFICES ASSUME IInv, KeyframeInv, [Next]_vars PROVE KeyframeInv'
  OBVIOUS
<1> HIDE DEF KeyframeInv
<1>1. CASE HandleVideo
  BY <1>1, ReceiveRequestedKeyframe, ReceiveOtherKeyframe, RouteAUKeyframe,
     SubmitRecoveryKeyframe, SubmitFrameKeyframe
  DEF HandleVideo
<1>2. CASE PumpDecoder
  BY <1>2, PumpTakeKeyframe, PumpPushKeyframe, PumpStoreKeyframe
  DEF PumpDecoder
<1>3. CASE NeedInput \/ AddInputSlot
  BY <1>3, NeedInputKeyframe, AddInputSlotKeyframe
<1>4. CASE Lifecycle
  BY <1>4, DestroyCloseKeyframe, DestroyClearKeyframe, DestroyCodecKeyframe,
     CreateDecoderKeyframe, ConfigureDecoderKeyframe, StartDecoderKeyframe,
     AbandonDecoderKeyframe, RequireAfterStartKeyframe, FlushClearKeyframe,
     FlushCodecKeyframe, RestartCodecKeyframe, FinishEventKeyframe,
     FinishSessionKeyframe
  DEF Lifecycle
<1>5. CASE Events
  BY <1>5, OnSurfaceCreatedKeyframe, OnSurfaceChangedKeyframe,
     OnSurfaceDestroyedKeyframe, OnAppForegroundKeyframe,
     OnAppBackgroundKeyframe
  DEF Events
<1>6. CASE \E contract \in Contracts : Authenticate(contract)
  BY <1>6, AuthenticateKeyframe
<1>7. CASE \/ ConsumeKeyFrameRequest \/ Disconnect \/ ResetRecovery
           \/ AnswerAuthentication \/ RequestKeyframe
  BY <1>7, ConsumeKeyFrameRequestKeyframe, DisconnectKeyframe,
     ResetRecoveryKeyframe, AnswerAuthenticationKeyframe,
     RequestKeyframeKeyframe
<1>8. CASE UNCHANGED vars
  BY <1>8, StutterKeyframe
<1> QED
  BY <1>1, <1>2, <1>3, <1>4, <1>5, <1>6, <1>7, <1>8 DEF Next

\* Wherever the stream of AUs is broken, a keyframe is coming or is certain to
\* be asked for: the invariant from which the next two theorems follow.
THEOREM RepairInvariance == Spec => []KeyframeInv
<1>1. Init => KeyframeInv BY InitKeyframe
<1>2. IInv /\ KeyframeInv /\ [Next]_vars => KeyframeInv' BY NextKeyframe
<1> QED BY <1>1, <1>2, Invariance, PTL DEF Spec

\* When all threads are between two calls, a decoder that only a keyframe can
\* help has its request pending or sent: no drop, overflow, failed push, flush
\* or restart, in whatever order they meet, forgets it or swallows it.
THEOREM RequestsNotForgotten == Spec => []RequestNotForgotten
<1>1. IInv /\ KeyframeInv => RequestNotForgotten
  <2> SUFFICES ASSUME IInv, KeyframeInv, net = "idle", cb = "idle",
                      ui = "idle", lifecycleLock = "free", decoder, Stuck
               PROVE  keyframePending \/ forced
    BY DEF RequestNotForgotten
  <2>1. stage = "idle" /\ pump = "idle"
    BY DEF IInv, TypeOK, PositionsOK, LockInv
  <2>2. StuckIn(RecoveryAhead)
    BY <2>1 DEF Stuck, RecoveryAhead
  <2>3. RepairComing
    BY <2>2 DEF KeyframeInv, RepairInv
  <2> QED
    BY <2>1, <2>3
    DEF RepairComing, KeyframeComing, KeyframeInHand, InSession, Closing,
        Restarting, PushFailed
<1> QED BY <1>1, Invariance, RepairInvariance, PTL

\* PumpDecoderLocked pushes a picture whose predecessor was dropped only while
\* the keyframe that repairs the damage is asked for, in hand or queued.
THEOREM BrokenChainsUnderRepair == Spec => []BrokenChainUnderRepair
<1>1. IInv /\ KeyframeInv => BrokenChainUnderRepair
  <2> SUFFICES ASSUME IInv, KeyframeInv, pump = "push", cur.kind = "frame",
                      ~cur.linked, CallbacksAllowed, InSession
               PROVE  \/ keyframePending \/ forced
                      \/ KeyframeInHand \/ Queued("syncFrame")
    BY DEF BrokenChainUnderRepair, KeyframeInHand
  <2>1. KeyframeComing \/ Queued("syncFrame")
    BY DEF KeyframeInv, RepairInv
  <2>2. ~Closing
    BY DEF IInv, StageInv, CallbacksAllowed, Closing, SlotsInv
  <2> QED BY <2>1, <2>2 DEF KeyframeComing
<1> QED BY <1>1, Invariance, RepairInvariance, PTL

-----------------------------------------------------------------------------
(* Contracts *)

\* An event's procedure is no authentication's.
LEMMA ReconcileJob ==
  ASSUME NEW shouldRun, NEW identityChanged,
         Reconcile(shouldRun, identityChanged)
  PROVE  job'.op = "event"
BY DEF Reconcile, NoJob

\* Only an authentication, its procedure and its answer touch a contract.
LEMMA NextContract == IInv /\ ContractInv /\ [Next]_vars => ContractInv'
<1> SUFFICES ASSUME IInv, ContractInv, [Next]_vars PROVE ContractInv'
  OBVIOUS
<1> USE DEF ContractInv
<1>1. lifecycleLock = "net" <=> net = "auth"
  BY DEF IInv, LockInv
<1>2. job \in Job /\ (net = "auth" <=> job.op # "event")
  BY DEF IInv, TypeOK, RecordsOK, LockInv
<1>3. CASE /\ UNCHANGED contractVars
           /\ job'.op = job.op /\ job'.previous = job.previous
           /\ (net' = "refused" <=> net = "refused")
  BY <1>3
<1>4. ASSUME NEW contract \in Contracts, Authenticate(contract)
      PROVE  ContractInv'
  <2>1. activeContract' = contract /\ previousContract' = activeContract
        /\ net' = "auth" /\ mediaContract = activeContract
    BY <1>4 DEF Authenticate
  <2>2. CASE activeContract = contract
    <3>1. job'.op = "flush" /\ mediaContract' = mediaContract
      BY <1>4, <2>2 DEF Authenticate, NoJob
    <3> QED BY <2>1, <2>2, <3>1
  <2>3. CASE activeContract # contract
    <3>1. /\ job'.op = "reconfigure" /\ job'.previous = mediaContract
          /\ mediaContract' = contract
      BY <1>4, <2>3 DEF Authenticate, NoJob
    <3> QED BY <2>1, <3>1
  <2> QED BY <2>2, <2>3
<1>5. CASE FinishSession
  <2>1. net = "auth" /\ job'.op = "event"
    BY <1>2, <1>5 DEF FinishSession, NoJob
  <2>2. UNCHANGED <<activeContract, previousContract>>
    BY <1>5 DEF FinishSession
  <2>3. CASE job.ok
    BY <1>5, <2>1, <2>2, <2>3 DEF FinishSession, ContractAfterSession
  <2>4. CASE ~job.ok
    <3>1. net' = "refused" /\ mediaContract' = previousContract
      BY <1>2, <1>5, <2>4
      DEF FinishSession, ContractAfterSession, Job
    <3> QED BY <2>1, <2>2, <3>1
  <2> QED BY <2>3, <2>4
<1>6. CASE AnswerAuthentication
  BY <1>2, <1>6 DEF AnswerAuthentication, lifecycleVars
<1>7. CASE \/ FinishEvent \/ Events
  <2>1. job.op = "event" /\ job'.op = "event"
    <3>1. CASE FinishEvent
      BY <3>1 DEF FinishEvent, NoJob
    <3>2. CASE Events
      <4>1. lifecycleLock = "free"
        BY <3>2 DEF Events, UIEvent, OnSurfaceCreated, OnSurfaceChanged,
                    OnSurfaceDestroyed, OnAppForeground, OnAppBackground
      <4>2. job'.op = "event"
        BY <3>2, ReconcileJob
        DEF Events, OnSurfaceCreated, OnSurfaceChanged, OnSurfaceDestroyed,
            OnAppForeground, OnAppBackground
      <4> QED BY <1>1, <1>2, <4>1, <4>2 DEF Job
    <3> QED BY <1>7, <3>1, <3>2
  <2>2. UNCHANGED <<mediaContract, activeContract, previousContract, net>>
    BY <1>7
    DEF FinishEvent, Events, UIEvent, OnSurfaceCreated, OnSurfaceChanged,
        OnSurfaceDestroyed, OnAppForeground, OnAppBackground
  <2> QED BY <2>1, <2>2
<1>8. CASE RequireAfterStart \/ FlushClear \/ FlushCodec \/ RestartCodec
  <2>1. job'.op = job.op /\ job'.previous = job.previous
    BY <1>2, <1>8
    DEF RequireAfterStart, FlushClear, FlushCodec, RestartCodec, Rebuild, Job
  <2>2. UNCHANGED <<mediaContract, activeContract, previousContract, net>>
    BY <1>8 DEF RequireAfterStart, FlushClear, FlushCodec, RestartCodec
  <2> QED BY <1>3, <2>1, <2>2
<1>9. CASE \/ HandleVideo \/ ConsumeKeyFrameRequest \/ Disconnect
           \/ ResetRecovery \/ PumpDecoder
  <2>1. UNCHANGED <<mediaContract, activeContract, previousContract, job>>
    BY <1>9
    DEF HandleVideo, ReceiveRequested, ReceiveOther, EnterHandleVideo,
        RouteAU, SubmitRecovery, SubmitFrame, ConsumeKeyFrameRequest,
        Disconnect, ResetRecovery, PumpDecoder, PumpTake, PumpPush, PumpStore
  <2>2. CASE PumpDecoder
    <3>1. net' = net \/ (net = "pump" /\ net' = "consume")
      BY <2>2 DEF PumpDecoder, PumpTake, PumpPush, PumpStore, EndPump, IInv,
                  LockInv
    <3> QED BY <1>3, <2>1, <3>1
  <2>3. CASE ~PumpDecoder
    <3>1. net # "refused" /\ net' # "refused"
      BY <1>9, <2>3
      DEF HandleVideo, ReceiveRequested, ReceiveOther, EnterHandleVideo,
          DropAU, RejectAU, RouteAU, SubmitRecovery, SubmitFrame,
          ConsumeKeyFrameRequest, Disconnect, ResetRecovery
    <3> QED BY <1>3, <2>1, <3>1
  <2> QED BY <2>2, <2>3
<1>10. CASE \/ NeedInput \/ AddInputSlot \/ DestroyClose \/ DestroyClear
            \/ DestroyCodec \/ CreateDecoder \/ ConfigureDecoder
            \/ StartDecoder \/ AbandonDecoder \/ RequestKeyframe
            \/ UNCHANGED vars
  <2>1. UNCHANGED <<mediaContract, activeContract, previousContract, job, net>>
    BY <1>10
    DEF NeedInput, AddInputSlot, DestroyClose, DestroyClear, DestroyCodec,
        CreateDecoder, ConfigureDecoder, StartDecoder, AbandonDecoder,
        RequestKeyframe, vars
  <2> QED BY <1>3, <2>1
<1> QED
  BY <1>4, <1>5, <1>6, <1>7, <1>8, <1>9, <1>10 DEF Next, Lifecycle

\* The contract that CreateDecoderLocked configures decoders with is the one
\* the sender was accepted with, also after a refusal was rolled back.
THEOREM ContractsStayInAgreement == Spec => []ContractsAgree
<1>1. Init => ContractInv
  BY DEF Init, ContractInv, NoJob
<1>2. IInv /\ ContractInv /\ [Next]_vars => ContractInv'
  BY NextContract
<1>3. ContractInv => ContractsAgree
  BY DEF ContractInv, ContractsAgree
<1> QED BY <1>1, <1>2, <1>3, Invariance, PTL DEF Spec

-----------------------------------------------------------------------------
(* Flush, Stop and Destroy wait for the codec's callback, which waits for     *)
(* decoder_queue_mutex_: why they do not wait for each other.                 *)

WaitsForCallback == stage \in {"stop", "flush"}

\* The callback in progress gets the mutex, finds the gate closed and returns.
CallbackReturns ==
  WaitsForCallback => queueLock = "free" /\ ~CallbacksAllowed

\* The comment in DestroyDecoderLocked ("Never hold decoder_queue_mutex_ while
\* lifecycle calls wait for callbacks"), of FlushDecoder as well: whoever waits
\* for the callback has closed the gate, and nobody holds the mutex.
THEOREM LifecycleNeverDeadlocks == Spec => []CallbackReturns
<1>1. IInv => CallbackReturns
  <2> SUFFICES ASSUME IInv, WaitsForCallback
               PROVE  queueLock = "free" /\ ~CallbacksAllowed
    BY DEF CallbackReturns
  <2>1. queueLock = "free"
    BY DEF IInv, SlotsInv, LockInv, WaitsForCallback
  <2>2. gate \in {"stopping", "flushing"}
    BY DEF IInv, StageInv, WaitsForCallback
  <2> QED BY <2>1, <2>2 DEF CallbacksAllowed
<1> QED BY <1>1, Invariance, PTL

\* No callback goes on past the gate while one is waited for.
NoCallbackEnters == WaitsForCallback /\ cb = "idle" => cb' = "idle"

\* DecoderNeedInput reads the gate first: the codec may announce one buffer
\* after the other, but what Flush, Stop and Destroy wait for ends once.
THEOREM CallbacksStayOut == Spec => [][NoCallbackEnters]_vars
<1>1. IInv /\ [Next]_vars => NoCallbackEnters
  <2> SUFFICES ASSUME IInv, [Next]_vars, WaitsForCallback, cb = "idle"
               PROVE  cb' = "idle"
    BY DEF NoCallbackEnters
  <2>1. pump = "idle" /\ ~CallbacksAllowed
    <3>1. gate \in {"stopping", "flushing"}
      BY DEF IInv, StageInv, WaitsForCallback
    <3> QED BY <3>1 DEF IInv, SlotsInv, WaitsForCallback, CallbacksAllowed
  <2>2. CASE NeedInput BY <2>1, <2>2 DEF NeedInput
  <2>3. ~PumpDecoder /\ ~AddInputSlot
    BY <2>1 DEF PumpDecoder, PumpTake, PumpPush, PumpStore, AddInputSlot
  <2>4. CASE \/ HandleVideo \/ ConsumeKeyFrameRequest \/ Disconnect
             \/ ResetRecovery
    BY <2>4
    DEF HandleVideo, ReceiveRequested, ReceiveOther, EnterHandleVideo,
        RouteAU, SubmitRecovery, SubmitFrame, ConsumeKeyFrameRequest,
        Disconnect, ResetRecovery
  <2>5. CASE Lifecycle \/ Events \/ RequestKeyframe \/ UNCHANGED vars
    BY <2>5
    DEF Lifecycle, DestroyClose, DestroyClear, DestroyCodec, CreateDecoder,
        ConfigureDecoder, StartDecoder, AbandonDecoder, RequireAfterStart,
        FlushClear, FlushCodec, RestartCodec, FinishEvent, FinishSession,
        Events, UIEvent, OnSurfaceCreated, OnSurfaceChanged,
        OnSurfaceDestroyed, OnAppForeground, OnAppBackground,
        RequestKeyframe, vars
  <2>6. CASE \/ \E contract \in Contracts : Authenticate(contract)
             \/ AnswerAuthentication
    BY <2>6 DEF Authenticate, AnswerAuthentication
  <2> QED BY <2>2, <2>3, <2>4, <2>5, <2>6 DEF Next
<1> QED BY <1>1, Invariance, PTL DEF Spec
=============================================================================
