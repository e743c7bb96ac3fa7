-------------------------- MODULE WebSocketFraming --------------------------
(***************************************************************************)
(* The Receiver's side of one WebSocket connection after another           *)
(* (websocket_protocol.cpp and its callers in receiver_session.cpp): the   *)
(* upgrade request with its deadline, the decoder that turns the bytes of  *)
(* each recv into messages, their handling one after the other, and the    *)
(* telemetry that leaves through a bounded queue                           *)
(* (bounded_control_queue.h).                                              *)
(*                                                                         *)
(* A frame is its header fields and the number of its payload; the stream  *)
(* is counted in units: one for the flags and the length, one for the      *)
(* mask, and the payload.  A recv returns any number of units up to Chunk, *)
(* so frames are cut and joined in every way.  What the messages say is in *)
(* ReceiverSession; here the challenge ends with a text message marked     *)
(* "final", and a text marked "bye" makes its handler end the session.     *)
(***************************************************************************)
EXTENDS Integers, SequencesExt

CONSTANTS
  Upgrade,         \* units of an upgrade request
  MaxMessage,      \* kMaxMessageBytes
  MaxControl,      \* 125 bytes
  Chunk,           \* units of a recv
  Capacity,        \* of the telemetry queue
  Lengths,         \* bound: lengths of the peer's data frames
  MaxFrames,       \* bound: frames on a connection, one of them before the
                   \* session
  MaxTelemetry,    \* bound: reports by the decoder's callback
  None             \* no value

ASSUME SizesAssumption ==
  /\ {Upgrade, MaxMessage, Chunk, Capacity, MaxFrames} \subseteq Nat \ {0}
  /\ MaxControl \in 0..MaxMessage
  /\ MaxTelemetry \in Nat
  /\ Lengths \subseteq 0..MaxMessage
  /\ Chunk < MaxMessage

VARIABLES
  stage,       \* of the worker on this connection
  late,        \* the deadline of the stage has passed
  request,     \* units read of the upgrade request
  wire,        \* frames sent and not decoded, the first perhaps in part
  received,    \* units of wire in buffer_
  fragmented,  \* fragmented_opcode_ and fragmented_
  messages,    \* messages decoded by Push, to be handled
  telemetry,   \* telemetry_queue_
  reported,    \* number of reports so far
  sent,        \* whether the Receiver sent last part of a frame, and the last
               \* report it sent
  open,        \* fragmented message of the peer: None or its parts so far
  frames,      \* number of frames the peer has sent
  malformed,   \* the peer has broken RFC 6455 or the limits of PROTOCOL.md
  owed,        \* history: messages the peer completed, not yet handled
  handled      \* history: the message handled last

peerVars == <<wire, open, frames, malformed, owed>>
queueVars == <<telemetry, reported>>
decoderVars == <<received, fragmented, messages>>
vars == <<stage, late, request, wire, received, fragmented,
          messages, telemetry, reported, sent, open, frames, malformed,
          owed, handled>>

Data == {"text", "binary"}
Control == {"close", "ping", "pong"}
Marks == {"none", "final", "bye"}

ASSUME NoneAssumption == None \notin [opcode : Data, parts : Seq(Nat), size : Nat]

SendPart == sent' = [sent EXCEPT !.part = TRUE]

SendWhole == sent' = [sent EXCEPT !.part = FALSE]

\* A message, whole or so far: its first frame's opcode, the numbers of its
\* frames and the length of all of them.
Open(opcode, frame, length) ==
  [opcode |-> opcode, parts |-> <<frame>>, size |-> length]

Extend(message, frame, length) ==
  [message EXCEPT !.parts = Append(@, frame), !.size = @ + length]

Finish(message, mark) ==
  [opcode |-> message.opcode, parts |-> message.parts, mark |-> mark]

-----------------------------------------------------------------------------
(* Connections and the upgrade.                                            *)

\* NetworkLoop accepts the next connection.
AcceptWebSocket ==
  /\ stage = "listening"
  /\ stage' = "upgrade"
  /\ SendWhole
  /\ UNCHANGED <<late, request, peerVars, decoderVars, queueVars, handled>>

\* Decoder::Reset; what was decoded before and not handled is dropped with it.
Reset ==
  /\ received' = 0
  /\ fragmented' = None
  /\ messages' = <<>>

\* Any return from AcceptWebSocket: the socket is closed, with all that was
\* under way on it, and the decoder reset before the next connection.
Close ==
  /\ stage' = "listening"
  /\ Reset
  /\ late' = FALSE
  /\ request' = 0
  /\ wire' = <<>>
  /\ open' = None
  /\ frames' = 0
  /\ malformed' = FALSE
  /\ owed' = <<>>
  /\ handled' = None

\* The 5 s of ReadUpgrade or the 10 s of AuthenticateConnection are over.
DeadlinePasses ==
  /\ stage \in {"upgrade", "challenge"}
  /\ ~late
  /\ late' = TRUE
  /\ UNCHANGED <<stage, request, peerVars, decoderVars, queueVars,
                 sent, handled>>

WaitForRequest == FALSE  \* mutant of TooLate

TooLate == late

\* A call that waits finds the deadline passed.
TimeOut ==
  /\ stage \in {"upgrade", "challenge"}
  /\ messages = <<>>
  /\ TooLate
  /\ Close
  /\ UNCHANGED <<queueVars, sent>>

\* One turn of ReadUpgradeRequest; with the last part of the request, the
\* answer of BuildUpgradeResponse, and 10 s for the challenge.
ReadUpgradeRequest ==
  /\ stage = "upgrade"
  /\ ~late
  /\ \E count \in 1..Chunk :
       /\ request + count <= Upgrade
       /\ request' = request + count
       /\ IF request' < Upgrade
            THEN UNCHANGED <<stage, sent>>
            ELSE stage' = "challenge" /\ SendWhole
  /\ UNCHANGED <<late, peerVars, decoderVars, queueVars, handled>>

\* The request is over 16 KiB, for something else, or cannot be answered.
RefuseUpgrade ==
  /\ stage = "upgrade"
  /\ ~late
  /\ Close
  /\ UNCHANGED <<queueVars, sent>>

\* The peer ends the connection, or the network does.
LoseConnection ==
  /\ stage # "listening"
  /\ messages = <<>>
  /\ Close
  /\ UNCHANGED <<queueVars, sent>>

\* The user stops the Receiver, at any time, and starts it again: only this
\* clears the reports that have not been sent.
Restart ==
  /\ messages = <<>>
  /\ Close
  /\ telemetry' = <<>>
  /\ UNCHANGED <<reported, sent>>

-----------------------------------------------------------------------------
(* The decoder.                                                            *)

Units(frame) == 2 + frame.length

Illegal(frame) ==
  \/ frame.reserved
  \/ frame.length > MaxMessage
  \/ frame.opcode \in Control /\ (~frame.final \/ frame.length > MaxControl)

\* State of Push between two frames: the fragment, the messages so far and
\* whether it has failed.
Decoded(frame, at) ==
  LET deliver(message) ==
        [at EXCEPT !.messages = Append(@, Finish(message, frame.mark)),
                   !.fragmented = IF frame.opcode \in Control THEN @ ELSE None]
      gather(message) == IF frame.final THEN deliver(message)
                                        ELSE [at EXCEPT !.fragmented = message]
      fail == [at EXCEPT !.failed = TRUE]
      first == Open(frame.opcode, frame.id, frame.length)
  IN CASE frame.opcode \in Data ->
            IF at.fragmented # None THEN fail ELSE gather(first)
       [] frame.opcode = "continuation" ->
            IF \/ at.fragmented = None
               \/ at.fragmented.size + frame.length > MaxMessage
              THEN fail
              ELSE gather(Extend(at.fragmented, frame.id, frame.length))
       [] frame.opcode \in Control -> deliver(first)
       [] OTHER -> fail

\* One turn of Push's loop over what is left of the stream; at.units of it are
\* in buffer_.
DecodeFrame(frame, at) ==
  IF at.failed \/ at.units = 0 THEN at
    ELSE IF Illegal(frame) THEN [at EXCEPT !.failed = TRUE]
    ELSE IF at.units < Units(frame) THEN [at EXCEPT !.left = at.units, !.units = 0]
    ELSE Decoded(frame, [at EXCEPT !.units = @ - Units(frame), !.taken = @ + 1])

\* Push's loop over wire[1..n].
DecodeFrames(units) ==
  LET after[n \in 0..Len(wire)] ==
        IF n = 0 THEN [units |-> units, left |-> 0, taken |-> 0, failed |-> FALSE,
                       fragmented |-> fragmented, messages |-> <<>>]
                 ELSE DecodeFrame(wire[n], after[n - 1])
  IN after[Len(wire)]

\* Units of the peer's frames that the worker has not read yet.
Unread ==
  LET upTo[n \in 0..Len(wire)] ==
        IF n = 0 THEN 0 ELSE Units(wire[n]) + upTo[n - 1]
  IN upTo[Len(wire)] - received

OneMessage == MaxMessage  \* mutant of BufferLimit

BufferLimit == 2 * MaxMessage

\* recv and Decoder::Push, in AuthenticateConnection and RunConnectedSession.
Push ==
  /\ stage \in {"challenge", "session"}
  /\ ~(stage = "challenge" /\ late)
  /\ messages = <<>>
  /\ \E count \in 1..Chunk :
       /\ count <= Unread
       /\ LET at == DecodeFrames(received + count)
          IN IF received + count > BufferLimit \/ at.failed
               THEN Close
               ELSE /\ wire' = SubSeq(wire, at.taken + 1, Len(wire))
                    /\ received' = at.left
                    /\ fragmented' = at.fragmented
                    /\ messages' = at.messages
                    /\ UNCHANGED <<stage, late, request, open, frames, malformed,
                                   owed, handled>>
  /\ UNCHANGED <<queueVars, sent>>

-----------------------------------------------------------------------------
(* Handling the messages of one Push.                                      *)

Message == Head(messages)

LastFirst == SubSeq(messages, 1, Len(messages) - 1)  \* mutant of Others

Others == Tail(messages)

Continue ==
  /\ messages' = Others
  /\ handled' = Message
  /\ owed' = Tail(owed)
  /\ UNCHANGED <<request, wire, open, frames, malformed, received, fragmented,
                 queueVars>>

\* AuthenticateConnection takes text only; the message that proves the sender
\* starts the session.  What followed it in the same Push would be dropped; a
\* peer that waits for each answer has sent nothing yet.
HandleChallenge ==
  /\ stage = "challenge"
  /\ messages # <<>>
  /\ Message.opcode = "text"
  /\ Message.mark # "bye"
  /\ Continue
  /\ stage' = IF Message.mark = "final" THEN "session" ELSE stage
  /\ late' = (late /\ Message.mark # "final")
  /\ SendWhole

RefuseChallenge ==
  /\ stage = "challenge"
  /\ messages # <<>>
  /\ Message.opcode # "text" \/ Message.mark = "bye"
  /\ Close
  /\ SendWhole
  /\ UNCHANGED queueVars

\* RunConnectedSession: HandleControl for text, HandleVideo for binary, a pong
\* for a ping; a pong is ignored.
HandleMessage ==
  /\ stage = "session"
  /\ messages # <<>>
  /\ Message.opcode # "close"
  /\ Message.mark # "bye"
  /\ Continue
  /\ IF Message.opcode = "ping" THEN SendWhole ELSE UNCHANGED sent
  /\ UNCHANGED <<stage, late>>

HandleClose ==
  /\ stage = "session"
  /\ messages # <<>>
  /\ Message.opcode = "close" \/ Message.mark = "bye"
  /\ Close
  /\ UNCHANGED <<queueVars, sent>>

\* A reply that cannot be sent whole within 100 ms, or at all, ends the
\* connection; part of its frame may have left.
CannotReply ==
  /\ messages # <<>>
  /\ Message.opcode \in {"text", "ping"}
  /\ UNCHANGED sent \/ SendPart
  /\ Close
  /\ UNCHANGED queueVars

-----------------------------------------------------------------------------
(* Telemetry.                                                              *)

\* BoundedControlQueue::Push
Enqueue(queue, report) ==
  Append(IF Len(queue) < Capacity THEN queue ELSE Tail(queue), report)

\* DecoderOutput, on the codec's thread, whether a connection is open or not.
Report ==
  /\ reported < MaxTelemetry
  /\ reported' = reported + 1
  /\ telemetry' = Enqueue(telemetry, reported')
  /\ UNCHANGED <<stage, late, request, peerVars, decoderVars, sent,
                 handled>>

\* One report at the end of each turn of RunConnectedSession.
SendTelemetry ==
  /\ stage = "session"
  /\ messages = <<>>
  /\ telemetry # <<>>
  /\ telemetry' = Tail(telemetry)
  /\ sent' = [part |-> FALSE, report |-> Head(telemetry)]
  /\ UNCHANGED <<stage, late, request, peerVars, decoderVars,
                 reported, handled>>

\* mutant of EndOnPartialSend
CarryOn == UNCHANGED <<stage, late, request, peerVars, decoderVars, handled>>

EndOnPartialSend == Close

\* SendControl gave up inside the frame of a report, which is lost.
CannotSendTelemetry ==
  /\ stage = "session"
  /\ messages = <<>>
  /\ telemetry # <<>>
  /\ telemetry' = Tail(telemetry)
  /\ UNCHANGED sent \/ SendPart
  /\ EndOnPartialSend
  /\ UNCHANGED reported

-----------------------------------------------------------------------------
(* The peer.                                                               *)

PeerReady ==
  /\ stage \in {"challenge", "session"}
  /\ frames < IF stage = "challenge" THEN 1 ELSE MaxFrames
  /\ ~malformed

PutFrame(opcode, final, length, reserved, mark) ==
  /\ frames' = frames + 1
  /\ wire' = Append(wire, [opcode |-> opcode, final |-> final, length |-> length,
                           reserved |-> reserved, mark |-> mark, id |-> frames'])
  /\ UNCHANGED <<stage, late, request, decoderVars, queueVars, sent,
                 handled>>

Completes(message, mark) == owed' = Append(owed, Finish(message, mark))

\* A message whose frames are legal, in one frame or as the next frame of the
\* open one.  Before the session a peer waits for each answer.
SendData(opcode, length, final, mark) ==
  LET message == IF open = None THEN Open(opcode, frames + 1, length)
                                ELSE Extend(open, frames + 1, length)
  IN /\ PeerReady
     /\ stage = "challenge" => opcode = "text" /\ wire = <<>> /\ messages = <<>>
     /\ open # None => opcode = open.opcode
     /\ message.size <= MaxMessage
     /\ mark # "none" => final /\ opcode = "text"
     /\ mark = "final" => stage = "challenge"
     /\ PutFrame(IF open = None THEN opcode ELSE "continuation",
                 final, length, FALSE, mark)
     /\ IF final THEN Completes(message, mark) /\ open' = None
                 ELSE open' = message /\ UNCHANGED owed
     /\ UNCHANGED malformed

\* A control frame may come between the frames of a message.
SendControlFrame(opcode) ==
  /\ PeerReady
  /\ stage = "session"
  /\ PutFrame(opcode, TRUE, MaxControl, FALSE, "none")
  /\ Completes(Open(opcode, frames + 1, MaxControl), "none")
  /\ UNCHANGED <<open, malformed>>

\* A frame against RFC 6455 or over the limits: reserved bits or no mask, an
\* unknown opcode, a data frame inside an open message, a continuation of
\* nothing, a fragmented or long control frame, a message that is too long.
SendMalformed ==
  /\ PeerReady
  /\ \/ PutFrame("binary", TRUE, 0, TRUE, "none")
     \/ PutFrame("reserved", TRUE, 0, FALSE, "none")
     \/ open # None /\ PutFrame("text", TRUE, 0, FALSE, "none")
     \/ open = None /\ PutFrame("continuation", TRUE, 0, FALSE, "none")
     \/ PutFrame("ping", FALSE, 0, FALSE, "none")
     \/ PutFrame("ping", TRUE, MaxControl + 1, FALSE, "none")
     \/ open = None /\ PutFrame("binary", TRUE, MaxMessage + 1, FALSE, "none")
     \/ /\ open # None
        /\ PutFrame("continuation", TRUE, MaxMessage + 1 - open.size,
                    FALSE, "none")
  /\ malformed' = TRUE
  /\ UNCHANGED <<open, owed>>

-----------------------------------------------------------------------------

Init ==
  /\ stage = "listening"
  /\ late = FALSE
  /\ request = 0
  /\ wire = <<>>
  /\ received = 0
  /\ fragmented = None
  /\ messages = <<>>
  /\ telemetry = <<>>
  /\ reported = 0
  /\ sent = [part |-> FALSE, report |-> 0]
  /\ open = None
  /\ frames = 0
  /\ malformed = FALSE
  /\ owed = <<>>
  /\ handled = None

Peer ==
  \/ \E opcode \in Data, length \in Lengths, final \in BOOLEAN, mark \in Marks :
       SendData(opcode, length, final, mark)
  \/ \E opcode \in Control : SendControlFrame(opcode)
  \/ SendMalformed

Worker ==
  \/ AcceptWebSocket
  \/ TimeOut
  \/ ReadUpgradeRequest
  \/ RefuseUpgrade
  \/ Push
  \/ HandleChallenge
  \/ RefuseChallenge
  \/ HandleMessage
  \/ HandleClose
  \/ CannotReply
  \/ SendTelemetry
  \/ CannotSendTelemetry

Next ==
  \/ Worker
  \/ Peer
  \/ LoseConnection
  \/ Restart
  \/ DeadlinePasses
  \/ Report

Spec == Init /\ [][Next]_vars

\* Time passes, and the worker, which waits at most 100 ms or until the
\* deadline, goes on.
Fairness ==
  /\ WF_vars(DeadlinePasses)
  /\ WF_vars(TimeOut)
  /\ WF_vars(HandleChallenge \/ RefuseChallenge)

FairSpec == Spec /\ Fairness

-----------------------------------------------------------------------------
(* Properties.                                                             *)

PeerMessage == [opcode : Data \cup Control, parts : Seq(1..MaxFrames), mark : Marks]

\* Types: buffer_ holds less than one frame once Push returns, the fragment at
\* most one message, and the telemetry queue at most its capacity.
TypeOK ==
  /\ stage \in {"listening", "upgrade", "challenge", "session"}
  /\ late \in BOOLEAN
  /\ request \in 0..Upgrade
  /\ received \in 0..MaxMessage + 1
  /\ Len(wire) <= MaxFrames
  /\ fragmented # None =>
       /\ fragmented.opcode \in Data
       /\ fragmented.size \in 0..MaxMessage
  /\ messages \in Seq(PeerMessage)
  /\ owed \in Seq(PeerMessage)
  /\ handled \in PeerMessage \cup {None}
  /\ Len(telemetry) <= Capacity

\* Messages are handled whole, once and in order however TCP cuts the stream,
\* and nothing of one connection reaches the next.
Stream == INSTANCE MessageStream

StreamDelivered == Stream!Spec

\* A peer that keeps to the protocol is never cut off by the decoder: Push
\* fails only on a malformed frame, so neither the size of its buffer, nor
\* what a former connection left in it, nor a control frame inside a
\* fragmented message makes it fail.
OnlyMalformedRejected ==
  [][(Push /\ stage' = "listening") => malformed]_vars

\* After part of a frame nothing more is sent on the connection: the peer
\* would read it as the rest of that frame.  Reports are sent in order, each at
\* most once, and an overfull queue loses the oldest: what is sent is among the
\* last Capacity reports.
SendsInOrder ==
  [][sent' # sent =>
       /\ sent.part => AcceptWebSocket
       /\ sent'.report # sent.report =>
            sent'.report > sent.report /\ sent'.report > reported - Capacity]_vars

\* A peer that goes silent before the session, even within its upgrade
\* request, does not hold the Receiver: its 5 s, then its 10 s, pass.
HandshakeEnds == (stage \in {"upgrade", "challenge"}) ~> (stage \in {"listening", "session"})
==============================================================================
