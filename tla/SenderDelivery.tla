--------------------------- MODULE SenderDelivery ---------------------------
(***************************************************************************)
(* The sending side of a capture: the H.264 encoder, the rules by which    *)
(* its output goes to the Receiver, the connection with its recovery, and  *)
(* the reconfiguration after a change of the source's size (offscreen.js,  *)
(* direct-delivery-orchestrator.js, direct-resync-policy.js, the recovery  *)
(* loop of direct-client.js).                                              *)
(*                                                                         *)
(* JavaScript runs one task at a time.  A step here is what one task does  *)
(* with the microtasks it leaves behind: an await that only waits for a    *)
(* settled promise lets no other task in.  The tasks are captured frames,  *)
(* encoder outputs, messages and close events of the socket, timers, and   *)
(* the ends of chrome and WebCodecs calls.                                 *)
(*                                                                         *)
(* The encoder is external: it emits what it was given in order, the first *)
(* picture and every one asked for as a keyframe.  A closed encoder may    *)
(* still have outputs under way, the case that encoder bindings are for.   *)
(* Overlapping starts and stops are not in this module.                    *)
(***************************************************************************)
EXTENDS Naturals, Sequences

CONSTANTS
  Contracts,    \* media contracts the sources ask for
  MaxInFlight,  \* pictures the encoder may hold
  MaxEpoch,     \* bound: source epochs allocated
  None          \* no encoder, no connection, nothing sent

ASSUME InFlightAssumption == MaxInFlight \in Nat \ {0}
ASSUME EpochAssumption == MaxEpoch \in Nat \ {0}

VARIABLES
  phase,       \* of the capture: the flags running and stopping
  pc,          \* position in startCapture or reconfigureForSource
  nextContract,\* contract of the encoder they are about to create
  allocated,   \* latest source epoch in chrome.storage
  sourceEpoch, contract, generation,  \* sourceEpoch, mediaContract and
                                      \* activeEncoderGeneration
  encoder,     \* the binding of videoEncoder
  inEncoder,   \* chunks the encoders have yet to emit
  required,    \* DirectResyncPolicy.keyFrameRequired
  awaiting,    \* DirectResyncPolicy.awaitingKeyFrameDelivery
  conn,        \* receiverConnection and its socket
  session,     \* epoch and contract receiverConnection was made for
  recovery,    \* the recovery task
  wire,        \* history: epoch and contract of the latest chunk sent
  chain,       \* history: the encoder's latest chunk was sent on conn
  parity       \* history: number of chunks sent, modulo 2

policyVars == <<required, awaiting>>
wireVars == <<wire, chain, parity>>
encoderVars == <<sourceEpoch, contract, generation, encoder>>
connVars == <<conn, session, recovery>>
vars == <<phase, pc, nextContract, allocated, sourceEpoch, contract,
          generation, encoder, inEncoder, required, awaiting, conn, session,
          recovery, wire, chain, parity>>

Epoch == 0..MaxEpoch
Session == [epoch : Epoch, contract : Contracts]
Binding == [generation : Nat, epoch : Epoch, contract : Contracts]
Chunk == [binding : Binding, key : BOOLEAN]

ASSUME NoneAssumption == None \notin Contracts \cup Session \cup Binding

Connected == conn = "up"
Reconfiguring == pc # "idle" /\ phase # "starting"

-----------------------------------------------------------------------------
(* DirectResyncPolicy *)

ResetPolicy == required' = TRUE /\ awaiting' = TRUE

GateWithoutDemand ==  \* mutant of RequireKeyFrame
  awaiting' = TRUE /\ UNCHANGED required

RequireKeyFrame == required' = TRUE /\ awaiting' = TRUE

NothingWhileAwaiting(chunk) == Connected /\ ~awaiting  \* mutant of CanDeliver

CanDeliver(chunk) == Connected /\ (awaiting => chunk.key)

-----------------------------------------------------------------------------
(* Pictures: encodeFrame, and handleEncodedChunk with deliver *)

EncoderHasRoom == Len(inEncoder) < MaxInFlight

\* A frame is encoded, as a keyframe if one is required or the periodic one is
\* due.  A frame that finds the encoder busy is dropped before it is encoded.
EncodeFrame(periodicKeyFrameRequired) ==
  /\ phase = "running" /\ pc = "idle"
  /\ EncoderHasRoom
  /\ LET key == required \/ periodicKeyFrameRequired
     IN  /\ inEncoder' = Append(inEncoder, [binding |-> encoder, key |-> key])
         /\ required' = (required /\ ~key)
  /\ UNCHANGED <<phase, pc, nextContract, allocated, encoderVars, awaiting,
                 connVars, wireVars>>

AnyBinding(binding) == TRUE  \* mutant of IsCurrentEncoderBinding

IsCurrentEncoderBinding(binding) ==
  /\ binding.generation = generation
  /\ binding.epoch = sourceEpoch
  /\ binding.contract = contract

Emit == inEncoder # <<>> /\ inEncoder' = Tail(inEncoder)

\* Output of an encoder that has been replaced.
IgnoreChunk ==
  /\ Emit
  /\ ~IsCurrentEncoderBinding(Head(inEncoder).binding)
  /\ UNCHANGED <<phase, pc, nextContract, allocated, encoderVars, policyVars,
                 connVars, wireVars>>

\* Not connected, gated, or too much is buffered on the socket.
DropChunk ==
  /\ Emit
  /\ IsCurrentEncoderBinding(Head(inEncoder).binding)
  /\ RequireKeyFrame
  /\ chain' = FALSE
  /\ UNCHANGED <<phase, pc, nextContract, allocated, encoderVars, connVars,
                 wire, parity>>

SendChunk ==
  /\ Emit
  /\ LET chunk == Head(inEncoder)
     IN  /\ IsCurrentEncoderBinding(chunk.binding)
         /\ CanDeliver(chunk)
         /\ awaiting' = (awaiting /\ ~chunk.key)
         /\ wire' = [epoch |-> chunk.binding.epoch,
                     contract |-> chunk.binding.contract]
         /\ chain' = (chunk.key \/ chain)
         /\ parity' = 1 - parity
  /\ UNCHANGED <<phase, pc, nextContract, allocated, encoderVars, required,
                 connVars>>

\* applyReceiverControl: the Receiver asks for a keyframe.
ReceiveKeyFrameRequest ==
  /\ Connected
  /\ RequireKeyFrame
  /\ UNCHANGED <<phase, pc, nextContract, allocated, encoderVars, inEncoder,
                 connVars, wireVars>>

-----------------------------------------------------------------------------
(* The connection and its recovery *)

NoSession == session' = None /\ wire' = None /\ chain' = FALSE

OpenSession(s) ==
  conn' = "up" /\ session' = s /\ wire' = None /\ chain' = FALSE

\* The socket leaves the OPEN state; the close event is still to come.
LoseConnection ==
  /\ Connected
  /\ conn' = "lost"
  /\ chain' = FALSE
  /\ UNCHANGED <<phase, pc, nextContract, allocated, encoderVars, inEncoder,
                 policyVars, session, recovery, wire, parity>>

NeverRecovers == FALSE  \* mutant of MayRecover

MayRecover == phase = "running" /\ ~Reconfiguring

\* onClose of the current connection starts the recovery.
CloseEvent ==
  /\ conn = "lost"
  /\ conn' = "down"
  /\ recovery' = IF MayRecover THEN "waiting" ELSE recovery
  /\ UNCHANGED <<phase, pc, nextContract, allocated, encoderVars, inEncoder,
                 policyVars, session, wireVars>>

\* The retry delay ends and recover calls connect.
AttemptRecovery ==
  /\ recovery = "waiting"
  /\ recovery' = "connecting"
  /\ UNCHANGED <<phase, pc, nextContract, allocated, encoderVars, inEncoder,
                 policyVars, conn, session, wireVars>>

\* The attempt fails with an error that recover retries.
RetryRecovery ==
  /\ recovery = "connecting"
  /\ recovery' = "waiting"
  /\ UNCHANGED <<phase, pc, nextContract, allocated, encoderVars, inEncoder,
                 policyVars, conn, session, wireVars>>

ResumeStream == UNCHANGED policyVars  \* mutant of RestartStream

RestartStream == RequireKeyFrame

\* The attempt succeeds: the continuation of recover demands a keyframe.
Reconnect ==
  /\ recovery = "connecting"
  /\ recovery' = "idle"
  /\ OpenSession(session)
  /\ RestartStream
  /\ UNCHANGED <<phase, pc, nextContract, allocated, encoderVars, inEncoder,
                 parity>>

\* recover gives up on an error marked as not recoverable: the Receiver's
\* answer, but also the time-out of the attempt (both ReceiverProtocolError,
\* although PROTOCOL.md 284-289 gives each attempt a time-out of its own).
GiveUp ==
  /\ recovery = "connecting"
  /\ recovery' = "idle"
  /\ phase' = "stopping"
  /\ UNCHANGED <<pc, nextContract, allocated, encoderVars, inEncoder,
                 policyVars, conn, session, wireVars>>

-----------------------------------------------------------------------------
(* startCapture and reconfigureForSource *)

\* The service worker allocates the epoch before it asks for a capture.
StartCapture(newContract) ==
  /\ phase = "stopped"
  /\ allocated < MaxEpoch
  /\ allocated' = allocated + 1
  /\ phase' = "starting" /\ pc' = "creating"
  /\ sourceEpoch' = allocated + 1
  /\ nextContract' = newContract
  /\ ResetPolicy
  /\ UNCHANGED <<contract, generation, encoder, inEncoder, connVars, wireVars>>

\* Three frames of a new size: an epoch is asked for while the old encoder
\* and connection go on.
SourceChanges(newContract) ==
  /\ phase = "running" /\ pc = "idle"
  /\ allocated < MaxEpoch
  /\ pc' = "allocating"
  /\ nextContract' = newContract
  /\ UNCHANGED <<phase, allocated, encoderVars, inEncoder, policyVars,
                 connVars, wireVars>>

\* closeReceiver begins: a recovery is cancelled, what is buffered drains.
EpochAllocated ==
  /\ pc = "allocating"
  /\ allocated' = allocated + 1
  /\ recovery' = "idle"
  /\ pc' = "draining"
  /\ UNCHANGED <<phase, nextContract, encoderVars, inEncoder, policyVars,
                 conn, session, wireVars>>

\* Outputs of the closed encoder may still be on the way.
CloseEncoder ==
  /\ encoder' = None
  /\ generation' = IF encoder = None THEN generation ELSE generation + 1
  /\ inEncoder' \in {<<>>, inEncoder}

CloseConnection == conn' = "none" /\ NoSession

\* closeReceiver ends; the encoder is closed without a flush.
ReplaceSource ==
  /\ pc = "draining"
  /\ CloseConnection
  /\ CloseEncoder
  /\ sourceEpoch' = allocated
  /\ ResetPolicy
  /\ pc' = "creating"
  /\ UNCHANGED <<phase, nextContract, allocated, contract, recovery,
                 parity>>

\* createVideoEncoder, then connectReceiver up to the open socket.
CreateEncoder ==
  /\ pc = "creating"
  /\ generation' = generation + 1
  /\ contract' = nextContract
  /\ encoder' = [generation |-> generation + 1, epoch |-> sourceEpoch,
                 contract |-> nextContract]
  /\ conn' = "connecting"
  /\ session' = [epoch |-> sourceEpoch, contract |-> nextContract]
  /\ pc' = "connecting"
  /\ UNCHANGED <<phase, nextContract, allocated, sourceEpoch, inEncoder,
                 policyVars, recovery, wireVars>>

\* The Receiver answers ready.
Connect ==
  /\ pc = "connecting"
  /\ OpenSession(session)
  /\ pc' = "idle"
  /\ phase' = IF phase = "starting" THEN "running" ELSE phase
  /\ RequireKeyFrame
  /\ UNCHANGED <<nextContract, allocated, encoderVars, inEncoder, recovery,
                 parity>>

\* No encoder, no epoch or no connection: the capture ends.
FailSource ==
  /\ pc \in {"allocating", "creating", "connecting"}
  /\ pc' = "idle"
  /\ phase' = "stopping"
  /\ IF conn = "connecting" THEN CloseConnection
                            ELSE UNCHANGED <<conn, session, wire, chain>>
  /\ recovery' = "idle"
  /\ UNCHANGED <<nextContract, allocated, encoderVars, inEncoder, policyVars,
                 parity>>

-----------------------------------------------------------------------------
(* stopCapture *)

\* The user, the end of the track, an encoder error, an error message.  The
\* recovery is aborted; a reconfiguration under way is waited for.
Stop ==
  /\ phase = "running"
  /\ phase' = "stopping"
  /\ recovery' = "idle"
  /\ UNCHANGED <<pc, nextContract, allocated, encoderVars, inEncoder,
                 policyVars, conn, session, wireVars>>

\* The frame loop has ended and the encoder was flushed, or flush failed.
StopVideoEncoder ==
  /\ phase = "stopping" /\ pc = "idle"
  /\ encoder # None
  /\ CloseEncoder
  /\ UNCHANGED <<phase, pc, nextContract, allocated, sourceEpoch, contract,
                 policyVars, connVars, wireVars>>

CloseReceiver ==
  /\ phase = "stopping" /\ pc = "idle"
  /\ encoder = None
  /\ CloseConnection
  /\ phase' = "stopped"
  /\ contract' = None
  /\ UNCHANGED <<pc, nextContract, allocated, sourceEpoch, generation, encoder,
                 inEncoder, policyVars, recovery, parity>>

-----------------------------------------------------------------------------
(* The specification *)

Init ==
  /\ phase = "stopped" /\ pc = "idle"
  /\ nextContract = None /\ contract = None
  /\ allocated = 0 /\ sourceEpoch = 0 /\ generation = 0
  /\ encoder = None /\ inEncoder = <<>>
  /\ required = TRUE /\ awaiting = TRUE
  /\ conn = "none" /\ session = None /\ recovery = "idle"
  /\ wire = None /\ chain = FALSE /\ parity = 0

Pictures ==
  \/ \E periodic \in BOOLEAN : EncodeFrame(periodic)
  \/ IgnoreChunk \/ DropChunk \/ SendChunk

Recover ==
  \/ AttemptRecovery \/ RetryRecovery \/ Reconnect
  \/ GiveUp

ChangeSource ==
  \/ \E c \in Contracts : StartCapture(c) \/ SourceChanges(c)
  \/ EpochAllocated \/ ReplaceSource \/ CreateEncoder \/ Connect \/ FailSource

Next ==
  \/ Pictures
  \/ ReceiveKeyFrameRequest
  \/ LoseConnection
  \/ CloseEvent
  \/ Recover
  \/ ChangeSource
  \/ Stop
  \/ StopVideoEncoder
  \/ CloseReceiver

Spec == Init /\ [][Next]_vars

SendKeyChunk == SendChunk /\ Head(inEncoder).key

\* Frames keep coming, the encoder emits what it holds, each chrome and
\* WebCodecs call ends, a Receiver that is tried again and again answers, and
\* the socket's buffer is below its limit for one of infinitely many
\* keyframes.  No fairness is assumed of losses, requests, stops and changes.
Fairness ==
  /\ SF_vars(\E periodic \in BOOLEAN : EncodeFrame(periodic))
  /\ WF_vars(IgnoreChunk \/ DropChunk \/ SendChunk)
  /\ SF_vars(SendKeyChunk)
  /\ WF_vars(CloseEvent)
  /\ WF_vars(AttemptRecovery)
  /\ SF_vars(Reconnect)
  /\ WF_vars(EpochAllocated)
  /\ WF_vars(ReplaceSource)
  /\ WF_vars(CreateEncoder)
  /\ WF_vars(Connect)

FairSpec == Spec /\ Fairness

-----------------------------------------------------------------------------
(* Properties *)

FlagsOK ==
  /\ required \in BOOLEAN
  /\ awaiting \in BOOLEAN
  /\ chain \in BOOLEAN
  /\ parity \in {0, 1}

PositionsOK ==
  /\ phase \in {"stopped", "starting", "running", "stopping"}
  /\ pc \in {"idle", "allocating", "draining", "creating", "connecting"}
  /\ conn \in {"none", "connecting", "up", "lost", "down"}
  /\ recovery \in {"idle", "waiting", "connecting"}

ValuesOK ==
  /\ nextContract \in Contracts \cup {None}
  /\ contract \in Contracts \cup {None}
  /\ allocated \in Epoch
  /\ sourceEpoch \in Epoch
  /\ generation \in Nat
  /\ encoder \in Binding \cup {None}
  /\ inEncoder \in Seq(Chunk) /\ Len(inEncoder) <= MaxInFlight
  /\ session \in Session \cup {None}
  /\ wire \in Session \cup {None}

\* Every variable keeps its type, and the encoder never holds more pictures
\* than encodeFrame allows.
TypeOK == FlagsOK /\ PositionsOK /\ ValuesOK

\* What is sent on a connection was encoded for the epoch and the contract the
\* connection was authenticated with: no late output of a replaced encoder is
\* sent under the state of its successor.
OwnSession == wire # None => wire = session

\* While captured frames are encoded and delivery waits for a keyframe, one is
\* on its way: the next frame will be one, or the encoder holds one that is
\* still current.  No order of requests, drops and reconnects loses it.
KeyframeComing ==
  (phase = "running" /\ pc = "idle" /\ awaiting) =>
    \/ required
    \/ \E i \in DOMAIN inEncoder :
         inEncoder[i].key /\ IsCurrentEncoderBinding(inEncoder[i].binding)

\* A capture whose connection is gone is recovering it, and a recovery never
\* runs on a connection that is open.
RecoveryUnderWay ==
  /\ (phase = "running" /\ pc = "idle") =>
       (conn \in {"up", "lost"} <=> recovery = "idle")
  /\ recovery # "idle" => conn = "down" /\ phase = "running"

\* Each connection carries a stream that a decoder starting empty can decode.
Stream == INSTANCE DecodableStream WITH open <- Connected
Decodable == Stream!Spec

\* If the connection stops being lost, a running capture again and again has
\* delivered a keyframe after the latest loss, request or source change.
KeyframeDelivered ==
  <>[](conn # "lost") =>
    []<>(phase # "running" \/ (Connected /\ ~awaiting))

-----------------------------------------------------------------------------
(* The inductive invariant behind the safety properties *)

\* Which positions of the procedures go with which encoder and connection.
ControlInv ==
  /\ phase = "stopped" => conn = "none" /\ encoder = None /\ pc = "idle"
  /\ phase = "starting" => pc \in {"creating", "connecting"}
  /\ pc = "creating" => conn = "none" /\ encoder = None
  /\ pc = "connecting" <=> conn = "connecting"
  /\ pc = "connecting" => encoder # None /\ nextContract # None
  /\ pc \in {"allocating", "draining", "creating"} => nextContract # None
  /\ pc = "allocating" => allocated < MaxEpoch
  /\ phase = "running" /\ pc = "idle" =>
       encoder # None /\ conn \in {"up", "lost", "down"}
  /\ recovery # "idle" => pc \in {"idle", "allocating"}

\* An encoder is current, and a connection was made for the current source.
CurrentInv ==
  /\ encoder # None => IsCurrentEncoderBinding(encoder)
  /\ conn # "none" => session = [epoch |-> sourceEpoch, contract |-> contract]
  /\ conn = "none" => wire = None
  /\ OwnSession

\* Delivery is only open while the stream on the connection is intact.
ChainInv ==
  /\ Connected /\ ~awaiting => chain
  /\ ~Connected => ~chain

IInv ==
  /\ TypeOK
  /\ ControlInv
  /\ RecoveryUnderWay
  /\ CurrentInv
  /\ KeyframeComing
  /\ ChainInv
=============================================================================
