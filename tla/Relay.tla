-------------------------------- MODULE Relay --------------------------------
(***************************************************************************)
(* The legacy Windows relay (src/relay): a process that takes one capture  *)
(* client on a loopback WebSocket (websocket_server.cpp) and forwards its  *)
(* access units as datagrams to a Receiver it has paired with              *)
(* (lan_sender.cpp).  Three threads: main, which reads native messages     *)
(* and configures or stops (main.cpp); the server's worker, which serves   *)
(* the client; and the control thread of the LAN sender.  They share       *)
(* atomics, and session_short_, a plain 32-bit integer that the build      *)
(* reads and writes whole, so a step is one access to what another thread  *)
(* writes, or one blocking call.                                           *)
(*                                                                         *)
(* A frame of the client is its opcode, its FIN bit and the access unit it *)
(* is part of; units are numbered as the client completes them.  Control   *)
(* messages carry the number of the connection they came on.               *)
(***************************************************************************)
EXTENDS Naturals, Sequences

CONSTANTS
  Datagrams,     \* datagrams of an access unit
  MaxSessions,   \* bound: receiver configurations
  MaxUnits,      \* bound: access units of the client
  MaxMessages,   \* bound: control messages on a connection
  MaxWire,       \* bound: frames on their way
  MaxFaults      \* bound: connections lost and sends that fail

ASSUME BoundsAssumption ==
  /\ Datagrams \in Nat \ {0}
  /\ {MaxSessions, MaxUnits, MaxMessages, MaxWire, MaxFaults} \subseteq Nat

VARIABLES
  main,       \* position of the main thread
  stopping,   \* stopping_
  listener,   \* listener_ is open
  client,     \* client_: "none", "open" or "closed"
  accepted,   \* the socket of the client, which client_ holds after a step
  worker,     \* position of the server's worker
  authed,     \* client_authenticated_
  assembling, \* message_opcode and payload in ReceiveMessage
  unit,       \* access unit in SendAccessUnit, and the datagrams of it sent
  socket,     \* the video socket SendAccessUnit has loaded, 0 for none
  telling,    \* ConsumeKeyframeRequest returned true
  connected,  \* connected_
  running,    \* running_
  keyframe,   \* keyframe_requested_
  session,    \* session_short_, the number of the configuration or 0
  video,      \* video_socket_, likewise
  control,    \* control_socket_, likewise
  frames,     \* control_frames_
  thread,     \* position of the control thread: "none", "receive" or "handle"
  taken,      \* the message it handles, as a sequence
  receiver,   \* the Receiver's end of the latest connection is open
  incoming,   \* control messages on their way
  messages,   \* number of control messages on the latest connection
  latest,     \* number of the latest connection
  wire,       \* frames of the client on their way
  units,      \* access units the client has begun
  inUnit,     \* the client is within a fragmented one
  owed,       \* history: a key frame was requested and the client not told
  out,        \* history: the last datagram sent, as unit and position
  faults      \* number of faults so far

serverVars == <<stopping, listener, client, accepted>>
unitVars == <<unit, socket>>
clientVars == <<wire, units, inUnit>>
lanVars == <<connected, running, session, video, control>>
threadVars == <<thread, taken>>
receiverVars == <<frames, receiver, incoming, messages, latest>>
vars == <<main, stopping, listener, client, accepted, worker, authed, assembling,
          unit, socket, telling, connected, running, keyframe, session,
          video, control, frames, thread, taken, receiver, incoming, messages, latest,
          wire, units, inUnit, owed, out, faults>>

Types == {"hello", "session", "error", "keyframe"}
Control == [connection : 1..MaxSessions, type : Types]
Frame == [opcode : {"auth", "wrong", "stats", "bye", "text", "video", "close",
                    "ping", "continuation"},
          final : BOOLEAN, unit : 0..MaxUnits]

Fault == faults < MaxFaults /\ faults' = faults + 1

\* The client's socket works at both ends.
Linked == accepted = "open"

-----------------------------------------------------------------------------
(* WebSocketServer: the worker.                                            *)

\* accept returns in Run.
Accept ==
  /\ worker = "accept"
  /\ listener
  /\ accepted = "waiting"
  /\ accepted' = "open"
  /\ worker' = "accepted"
  /\ UNCHANGED <<main, stopping, listener, client, authed, assembling, unitVars,
                 telling, lanVars, keyframe, receiverVars, threadVars, clientVars,
                 owed, out, faults>>

AcceptFails ==
  /\ worker = "accept"
  /\ ~listener
  /\ worker' = "ended"
  /\ UNCHANGED <<main, serverVars, authed, assembling, unitVars, telling, lanVars,
                 keyframe, receiverVars, threadVars, clientVars, owed, out, faults>>

\* Run looks at stopping_, and then stores the socket where Stop finds it.
SeeStopping ==
  /\ worker = "accepted"
  /\ IF stopping
       THEN worker' = "ended" /\ accepted' = "closed"
       ELSE worker' = "storing" /\ UNCHANGED accepted
  /\ UNCHANGED <<main, stopping, listener, client, authed, assembling, unitVars,
                 telling, lanVars, keyframe, receiverVars, threadVars, clientVars,
                 owed, out, faults>>

StoreClient ==
  /\ worker = "storing"
  /\ client' = "open"
  /\ listener' = FALSE
  /\ worker' = "handshake"
  /\ UNCHANGED <<main, stopping, accepted, authed, assembling, unitVars, telling,
                 lanVars, keyframe, receiverVars, threadVars, clientVars, owed, out,
                 faults>>

\* PerformHandshake; a request it refuses is one of those of ClientFails.
PerformHandshake ==
  /\ worker = "handshake"
  /\ Linked
  /\ worker' = "authenticate"
  /\ UNCHANGED <<main, serverVars, authed, assembling, unitVars, telling, lanVars,
                 keyframe, receiverVars, threadVars, clientVars, owed, out, faults>>

\* ReceiveMessage puts one more frame to what it has: a whole message, none, or
\* "bad" for a frame that makes it throw.
Assembled(frame) ==
  CASE frame.opcode = "ping" -> "none"
    [] frame.opcode = "close" -> "close"
    [] frame.opcode = "continuation" ->
         IF assembling = "none" THEN "bad"
           ELSE IF frame.final THEN assembling ELSE "none"
    [] OTHER ->
         IF assembling # "none" THEN "bad"
           ELSE IF frame.final THEN frame.opcode ELSE "none"

Assembling(frame) ==
  CASE frame.opcode = "ping" -> assembling
    [] frame.opcode = "continuation" /\ ~frame.final -> assembling
    [] frame.opcode \notin {"continuation", "close", "ping"} /\ ~frame.final -> frame.opcode
    [] OTHER -> "none"

Message == Assembled(Head(wire))

TakeFrame ==
  /\ Linked
  /\ wire # <<>>
  /\ wire' = Tail(wire)
  /\ assembling' = Assembling(Head(wire))

Authenticate ==
  /\ worker = "authenticate"
  /\ TakeFrame
  /\ worker' = CASE Message = "none" -> worker
                 [] Message = "auth" -> "take"
                 [] OTHER -> "end"
  /\ authed' = (Message = "auth")
  /\ UNCHANGED <<main, serverVars, unitVars, telling, lanVars, keyframe, receiverVars,
                 threadVars, units, inUnit, owed, out, faults>>

\* A message of the loop of RunClient: video, stats, close, or one that throws.
ReceiveMessage ==
  /\ worker = "receive"
  /\ TakeFrame
  /\ worker' = CASE Message = "none" -> worker
                 [] Message = "stats" -> "loop"
                 [] Message = "video" -> "build"
                 [] Message \in {"close", "bye"} -> "end"
                 [] OTHER -> "end"
  /\ unit' = IF Message = "video" THEN [number |-> Head(wire).unit, sent |-> 0] ELSE unit
  /\ UNCHANGED <<main, serverVars, authed, socket, telling, lanVars, keyframe,
                 receiverVars, threadVars, units, inUnit, owed, out, faults>>

\* The condition of the loop; within ReceiveMessage only a closed socket ends
\* the wait.
TurnLoop ==
  /\ worker = "loop"
  /\ worker' = IF stopping THEN "end" ELSE "receive"
  /\ UNCHANGED <<main, serverVars, authed, assembling, unitVars, telling, lanVars,
                 keyframe, receiverVars, threadVars, clientVars, owed, out, faults>>

\* The client waits for an answer to the first frame of the wire.
Answered == wire # <<>> /\ Head(wire).opcode = "ping"

\* A read or write on the client's socket fails: it was closed at either end,
\* a time-out of 5 s (none while reading in the loop) or a refused request.
\* Written are ready (at "take"), the request ("tell"), telemetry ("loop") and
\* the answer to a ping.
ClientFails ==
  /\ \/ worker \in {"handshake", "authenticate", "take", "tell", "loop"}
     \/ worker = "receive" /\ (Answered \/ ~Linked)
  /\ worker' = "end"
  /\ UNCHANGED <<main, serverVars, authed, assembling, unitVars, telling, lanVars,
                 keyframe, receiverVars, threadVars, clientVars, owed, out, faults>>

\* The end of Run, after an error message to the client if it threw.
EndClient ==
  /\ worker = "end"
  /\ worker' = "ended"
  /\ authed' = FALSE
  /\ client' = "closed"
  /\ accepted' = "closed"
  /\ listener' = FALSE
  /\ wire' = <<>>
  /\ assembling' = "none"
  /\ unit' = [number |-> 0, sent |-> 0]
  /\ socket' = 0
  /\ telling' = FALSE
  /\ UNCHANGED <<main, stopping, lanVars, keyframe, receiverVars, threadVars, units,
                 inUnit, owed, out, faults>>

\* ConsumeKeyframeRequest: an exchange.
ConsumeKeyframeRequest ==
  /\ worker = "take"
  /\ telling' = keyframe
  /\ keyframe' = FALSE
  /\ worker' = "tell"
  /\ UNCHANGED <<main, serverVars, authed, assembling, unitVars, lanVars, receiverVars,
                 threadVars, clientVars, owed, out, faults>>

ClearAgain == keyframe' = FALSE  \* mutant of AfterTelling

AfterTelling == UNCHANGED keyframe

\* SendText of the request, before the next message is received.
TellClient ==
  /\ worker = "tell"
  /\ telling => Linked
  /\ telling' = FALSE
  /\ owed' = (owed /\ (~telling \/ keyframe))
  /\ AfterTelling
  /\ worker' = "loop"
  /\ UNCHANGED <<main, serverVars, authed, assembling, unitVars, lanVars, receiverVars,
                 threadVars, clientVars, out, faults>>

-----------------------------------------------------------------------------
(* LanSender::SendAccessUnit, on the server's worker.                      *)

BuildLanVideoDatagrams ==
  /\ worker = "build"
  /\ worker' = IF connected /\ session # 0 THEN "load" ELSE "end"
  /\ UNCHANGED <<main, serverVars, authed, assembling, unit, socket, telling, lanVars,
                 keyframe, receiverVars, threadVars, clientVars, owed, out, faults>>

LoadSocket ==
  /\ worker = "load"
  /\ socket' = video
  /\ worker' = IF video = 0 THEN "end" ELSE "send"
  /\ UNCHANGED <<main, serverVars, authed, assembling, unit, telling, lanVars,
                 keyframe, receiverVars, threadVars, clientVars, owed, out, faults>>

LastSent == unit'.sent = Datagrams

\* A send on a socket that Stop has closed since fails, unless its handle is that
\* of the next configuration's video socket.  (That of its control socket, which
\* would take the datagram for bytes of its stream, is left out.)
SendDatagram ==
  /\ worker = "send"
  /\ video # 0
  /\ unit' = [unit EXCEPT !.sent = @ + 1]
  /\ out' = [number |-> unit.number, sent |-> unit'.sent]
  /\ IF LastSent THEN worker' = "take" /\ socket' = 0
                 ELSE UNCHANGED <<worker, socket>>
  /\ UNCHANGED <<main, serverVars, authed, assembling, telling, lanVars,
                 keyframe, receiverVars, threadVars, clientVars, owed, faults>>

NextUnit == UNCHANGED connected /\ worker' = "take"  \* mutant of GiveUp

GiveUp == connected' = FALSE /\ worker' = "end"

SendFails ==
  /\ worker = "send"
  /\ IF socket = video THEN Fault ELSE UNCHANGED faults
  /\ GiveUp
  /\ UNCHANGED <<main, serverVars, authed, assembling, unitVars, telling, running,
                 keyframe, session, video, control, receiverVars, threadVars, clientVars,
                 owed, out>>

-----------------------------------------------------------------------------
(* LanSender: the control thread.                                          *)

Received ==
  /\ frames = <<>>
  /\ control # 0
  /\ incoming # <<>>
  /\ frames' = incoming
  /\ incoming' = <<>>
  /\ UNCHANGED <<receiver, messages, latest>>

\* ReceiveControl in ControlLoop: recv, which may return several messages.
ReceiveControl ==
  /\ thread = "receive"
  /\ running
  /\ Received
  /\ UNCHANGED <<main, serverVars, worker, authed, assembling, unitVars, telling,
                 lanVars, keyframe, threadVars, clientVars, owed, out, faults>>

\* ReceiveControl takes the first of them.
TakeControl ==
  /\ thread = "receive"
  /\ running
  /\ frames # <<>>
  /\ thread' = "handle"
  /\ taken' = <<Head(frames)>>
  /\ frames' = Tail(frames)
  /\ UNCHANGED <<main, serverVars, worker, authed, assembling, unitVars, telling,
                 lanVars, keyframe, receiver, incoming, messages, latest, clientVars,
                 owed, out, faults>>

HandleControl ==
  /\ thread = "handle"
  /\ thread' = "receive"
  /\ taken' = <<>>
  /\ CASE Head(taken).type = "keyframe" ->
            keyframe' = TRUE /\ owed' = TRUE /\ UNCHANGED <<connected, running>>
       [] Head(taken).type = "error" ->
            connected' = FALSE /\ running' = FALSE /\ UNCHANGED <<keyframe, owed>>
       [] OTHER -> UNCHANGED <<connected, running, keyframe, owed>>
  /\ UNCHANGED <<main, serverVars, worker, authed, assembling, unitVars, telling,
                 session, video, control, receiverVars, clientVars, out, faults>>

LosePeer ==
  /\ connected' = FALSE
  /\ running' = FALSE
  /\ thread' = "none"
  /\ UNCHANGED taken

\* ReceiveControl takes a closed connection for a time-out; the ping that is
\* sent every second fails.
PingFails ==
  /\ thread = "receive"
  /\ running
  /\ ~receiver \/ control = 0
  /\ LosePeer
  /\ UNCHANGED <<main, serverVars, worker, authed, assembling, unitVars, telling,
                 keyframe, session, video, control, receiverVars, clientVars, owed,
                 out, faults>>

LeaveControlLoop ==
  /\ thread = "receive"
  /\ ~running
  /\ thread' = "none"
  /\ UNCHANGED taken
  /\ UNCHANGED <<main, serverVars, worker, authed, assembling, unitVars, telling,
                 lanVars, keyframe, receiverVars, clientVars, owed, out, faults>>

-----------------------------------------------------------------------------
(* Main: native messages, LanSender::Configure and the two Stops.          *)

\* configure_receiver, refused once the client is authenticated.
ConfigureReceiver ==
  /\ main = "serving"
  /\ latest < MaxSessions
  /\ ~authed
  /\ main' = "halt"
  /\ UNCHANGED <<serverVars, worker, authed, assembling, unitVars, telling, lanVars,
                 keyframe, receiverVars, threadVars, clientVars, owed, out, faults>>

\* LanSender::Stop up to the join, in Configure or in WebSocketServer::Stop.
\* Its stop message ends the connection for the Receiver.
Halt ==
  /\ main \in {"halt", "lastHalt"}
  /\ connected' = FALSE
  /\ running' = FALSE
  /\ control' = 0
  /\ video' = 0
  /\ receiver' = FALSE
  /\ incoming' = <<>>
  /\ main' = IF main = "halt" THEN "join" ELSE "lastJoin"
  /\ UNCHANGED <<serverVars, worker, authed, assembling, unitVars, telling, keyframe,
                 session, frames, messages, latest, threadVars, clientVars, owed, out,
                 faults>>

KeepControl == UNCHANGED frames  \* mutant of ClearControl

ClearControl == frames' = <<>>

\* The control thread is joined, and what it left cleared.
Join ==
  /\ main \in {"join", "lastJoin"}
  /\ thread = "none"
  /\ session' = 0
  /\ keyframe' = FALSE
  /\ owed' = FALSE
  /\ ClearControl
  /\ main' = IF main = "join" THEN "connect" ELSE "stopped"
  /\ UNCHANGED <<serverVars, worker, authed, assembling, unitVars, telling, connected,
                 running, video, control, receiver, incoming, messages, latest, threadVars,
                 clientVars, out, faults>>

\* ConnectControl, and the hello of PerformPairing.
ConnectControl ==
  /\ main = "connect"
  /\ latest' = latest + 1
  /\ control' = latest'
  /\ receiver' = TRUE
  /\ incoming' = <<>>
  /\ messages' = 0
  /\ main' = "hello"
  /\ UNCHANGED <<serverVars, worker, authed, assembling, unitVars, telling, connected,
                 running, keyframe, session, video, frames, threadVars, clientVars, owed,
                 out, faults>>

\* Configure fails at any step, for a refusal, a lost connection or a time-out
\* of 3 s: the sockets are closed.
ConfigureFails ==
  /\ main \in {"connect", "hello", "pair", "open"}
  /\ control' = 0
  /\ session' = 0
  /\ receiver' = FALSE
  /\ incoming' = <<>>
  /\ main' = "serving"
  /\ UNCHANGED <<serverVars, worker, authed, assembling, unitVars, telling, connected,
                 running, keyframe, video, frames, messages, latest, threadVars, clientVars,
                 owed, out, faults>>

ReceiveReply ==
  /\ main \in {"hello", "pair"}
  /\ Received
  /\ UNCHANGED <<main, serverVars, worker, authed, assembling, unitVars, telling,
                 lanVars, keyframe, threadVars, clientVars, owed, out, faults>>

\* The hello of the Receiver, then its session message; for another message
\* Configure fails.
PerformPairing ==
  /\ main \in {"hello", "pair"}
  /\ frames # <<>>
  /\ frames' = Tail(frames)
  /\ CASE main = "hello" /\ Head(frames).type = "hello" ->
            main' = "pair" /\ UNCHANGED <<control, session, receiver, incoming>>
       [] main = "pair" /\ Head(frames).type = "session" ->
            /\ main' = "open"
            /\ session' = latest
            /\ UNCHANGED <<control, receiver, incoming>>
       [] OTHER ->
            /\ main' = "serving"
            /\ control' = 0
            /\ session' = 0
            /\ receiver' = FALSE
            /\ incoming' = <<>>
  /\ UNCHANGED <<serverVars, worker, authed, assembling, unitVars, telling, connected,
                 running, keyframe, video, messages, latest, threadVars, clientVars, owed,
                 out, faults>>

\* OpenVideoSocket and the rest of Configure: the session begins with a request
\* for a key frame, and the control thread starts.
OpenVideoSocket ==
  /\ main = "open"
  /\ video' = latest
  /\ keyframe' = TRUE
  /\ owed' = TRUE
  /\ connected' = TRUE
  /\ running' = TRUE
  /\ thread' = "receive"
  /\ UNCHANGED taken
  /\ main' = "serving"
  /\ UNCHANGED <<serverVars, worker, authed, assembling, unitVars, telling, session,
                 control, receiverVars, clientVars, out, faults>>

\* shutdown or the end of the native messages: WebSocketServer::Stop, which
\* closes the client's socket only if Run has stored it.
ShutDown ==
  /\ main = "serving"
  /\ main' = "close"
  /\ stopping' = TRUE
  /\ UNCHANGED <<listener, client, accepted, worker, authed, assembling, unitVars,
                 telling, lanVars, keyframe, receiverVars, threadVars, clientVars, owed,
                 out, faults>>

LeaveClient == UNCHANGED <<client, accepted>>  \* mutant of CloseClient

CloseClient ==
  IF client = "open" THEN client' = "closed" /\ accepted' = "closed"
                     ELSE UNCHANGED <<client, accepted>>

CloseSockets ==
  /\ main = "close"
  /\ CloseClient
  /\ listener' = FALSE
  /\ main' = "joinWorker"
  /\ UNCHANGED <<stopping, worker, authed, assembling, unitVars, telling, lanVars,
                 keyframe, receiverVars, threadVars, clientVars, owed, out, faults>>

JoinWorker ==
  /\ main = "joinWorker"
  /\ worker = "ended"
  /\ main' = "lastHalt"
  /\ UNCHANGED <<serverVars, worker, authed, assembling, unitVars, telling, lanVars,
                 keyframe, receiverVars, threadVars, clientVars, owed, out, faults>>

-----------------------------------------------------------------------------
(* The capture client and the Receiver.                                    *)

Connect ==
  /\ accepted = "none"
  /\ listener
  /\ accepted' = "waiting"
  /\ UNCHANGED <<main, stopping, listener, client, worker, authed, assembling, unitVars,
                 telling, lanVars, keyframe, receiverVars, threadVars, clientVars, owed,
                 out, faults>>

Disconnect ==
  /\ accepted = "open"
  /\ Fault
  /\ accepted' = "closed"
  /\ UNCHANGED <<main, stopping, listener, client, worker, authed, assembling, unitVars,
                 telling, lanVars, keyframe, receiverVars, threadVars, clientVars, owed,
                 out>>

PutFrame(opcode, final) ==
  /\ accepted = "open"
  /\ Len(wire) < MaxWire
  /\ wire' = Append(wire, [opcode |-> opcode, final |-> final, unit |-> units'])
  /\ UNCHANGED <<main, serverVars, worker, authed, assembling, unitVars, telling,
                 lanVars, keyframe, receiverVars, threadVars, owed, out, faults>>

\* The client authenticates first; for any other message the worker ends. Before
\* it may come any number of frames after which ReceiveMessage reads on: pings,
\* pongs and fragments that are not the last, all of them "ping" here.
SendAuth ==
  /\ worker = "authenticate"
  /\ wire = <<>>
  /\ UNCHANGED <<units, inUnit>>
  /\ \E opcode \in {"auth", "wrong", "ping"} : PutFrame(opcode, TRUE)

\* An access unit, in one frame or in several.
SendVideo ==
  /\ authed
  /\ inUnit \/ units < MaxUnits
  /\ units' = IF inUnit THEN units ELSE units + 1
  /\ \E final \in BOOLEAN :
       /\ PutFrame(IF inUnit THEN "continuation" ELSE "video", final)
       /\ inUnit' = ~final

\* Frames without an access unit; text within a fragmented unit is an error.
SendOther ==
  /\ authed
  /\ UNCHANGED <<units, inUnit>>
  /\ \E opcode \in {"stats", "bye", "text", "ping", "close"} : PutFrame(opcode, TRUE)

\* The Receiver answers, and asks for key frames or gives up, even before its
\* answer has been read.
Sendable == CASE main = "hello" -> {"hello", "error"}
              [] main = "pair" -> {"session", "error", "keyframe"}
              [] OTHER -> {"keyframe", "error"}

ReceiverSends ==
  /\ receiver
  /\ messages < MaxMessages
  /\ messages' = messages + 1
  /\ \E type \in Sendable :
       incoming' = Append(incoming, [connection |-> latest, type |-> type])
  /\ UNCHANGED <<main, serverVars, worker, authed, assembling, unitVars, telling,
                 lanVars, keyframe, frames, receiver, latest, threadVars, clientVars, owed,
                 out, faults>>

ReceiverCloses ==
  /\ receiver
  /\ Fault
  /\ receiver' = FALSE
  /\ UNCHANGED <<main, serverVars, worker, authed, assembling, unitVars, telling,
                 lanVars, keyframe, frames, incoming, messages, latest, threadVars,
                 clientVars, owed, out>>

-----------------------------------------------------------------------------

Init ==
  /\ main = "serving"
  /\ stopping = FALSE
  /\ listener = TRUE
  /\ client = "none"
  /\ accepted = "none"
  /\ worker = "accept"
  /\ authed = FALSE
  /\ assembling = "none"
  /\ unit = [number |-> 0, sent |-> 0]
  /\ socket = 0
  /\ telling = FALSE
  /\ connected = FALSE
  /\ running = FALSE
  /\ keyframe = FALSE
  /\ session = 0
  /\ video = 0
  /\ control = 0
  /\ frames = <<>>
  /\ thread = "none"
  /\ taken = <<>>
  /\ receiver = FALSE
  /\ incoming = <<>>
  /\ messages = 0
  /\ latest = 0
  /\ wire = <<>>
  /\ units = 0
  /\ inUnit = FALSE
  /\ owed = FALSE
  /\ out = [number |-> 0, sent |-> Datagrams]
  /\ faults = 0

Worker ==
  \/ Accept \/ AcceptFails \/ SeeStopping \/ StoreClient
  \/ PerformHandshake \/ Authenticate \/ ReceiveMessage \/ TurnLoop
  \/ ClientFails \/ EndClient
  \/ ConsumeKeyframeRequest \/ TellClient
  \/ BuildLanVideoDatagrams \/ LoadSocket \/ SendDatagram \/ SendFails

ControlThread ==
  \/ ReceiveControl \/ TakeControl \/ HandleControl
  \/ PingFails \/ LeaveControlLoop

Configure ==
  \/ ConfigureReceiver \/ ConnectControl \/ ConfigureFails
  \/ ReceiveReply \/ PerformPairing \/ OpenVideoSocket

StopAll == Halt \/ Join \/ CloseSockets \/ JoinWorker

Environment ==
  \/ ShutDown
  \/ Connect \/ Disconnect \/ SendAuth \/ SendVideo \/ SendOther
  \/ ReceiverSends \/ ReceiverCloses

Next ==
  \/ Worker
  \/ ControlThread
  \/ Configure
  \/ StopAll
  \/ Environment

Spec == Init /\ [][Next]_vars

\* The threads run on; waits with a time-out end, and a ping is due every
\* second whatever ReceiveControl returns.
Fairness ==
  /\ WF_vars(Worker)
  /\ WF_vars(ControlThread)
  /\ WF_vars(PingFails)
  /\ WF_vars(StopAll)
  /\ WF_vars(ConfigureFails)

FairSpec == Spec /\ Fairness

-----------------------------------------------------------------------------
(* Properties.                                                             *)

\* Types: among them, that the control thread is at work only on a connection,
\* and that a socket number is that of a configuration.
TypeOK ==
  /\ main \in {"serving", "halt", "join", "connect", "hello", "pair", "open", "close",
               "joinWorker", "lastHalt", "lastJoin", "stopped"}
  /\ client \in {"none", "open", "closed"}
  /\ accepted \in {"none", "waiting", "open", "closed"}
  /\ worker \in {"accept", "accepted", "storing", "handshake", "authenticate", "take",
                 "tell", "loop", "receive", "build", "load", "send", "end", "ended"}
  /\ stopping \in BOOLEAN /\ listener \in BOOLEAN /\ authed \in BOOLEAN
  /\ telling \in BOOLEAN /\ connected \in BOOLEAN /\ running \in BOOLEAN
  /\ keyframe \in BOOLEAN /\ receiver \in BOOLEAN /\ inUnit \in BOOLEAN /\ owed \in BOOLEAN
  /\ assembling \in {"none", "auth", "wrong", "stats", "bye", "text", "video"}
  /\ unit \in [number : 0..MaxUnits, sent : 0..Datagrams]
  /\ out \in [number : 0..MaxUnits, sent : 0..Datagrams]
  /\ socket \in 0..MaxSessions /\ session \in 0..MaxSessions /\ video \in 0..MaxSessions
  /\ control \in 0..MaxSessions /\ latest \in 0..MaxSessions
  /\ frames \in Seq(Control)
  /\ incoming \in Seq(Control)
  /\ thread \in {"none", "receive", "handle"}
  /\ taken \in Seq(Control) /\ (taken # <<>> <=> thread = "handle")
  /\ wire \in Seq(Frame)

\* The datagrams leave in the order of the client's access units, each unit
\* whole before the next and none twice: a unit that was cut short is the last.
DatagramsInOrder ==
  [][out' # out =>
       \/ out'.number = out.number /\ out'.sent = out.sent + 1
       \/ out'.number = out.number + 1 /\ out'.sent = 1 /\ out.sent = Datagrams]_vars

\* A control message is acted on only while its connection is the latest: a
\* session is never configured or ended by what a former Receiver said.
ControlIsCurrent ==
  /\ thread = "handle" => Head(taken).connection = latest
  /\ main \in {"hello", "pair"} =>
       \A i \in DOMAIN frames : frames[i].connection = latest

\* A request for a key frame, of the session's start or of the Receiver, is
\* not lost between the two threads: until the client is told it is pending.
RequestKept == owed => keyframe \/ telling \/ worker = "ended"

\* Shutdown ends the process (relay_integration_test.mjs 100-102).
ShutdownEnds == stopping ~> (main = "stopped")

\* It does in every interleaving with a client that is being accepted, with
\* a client that says nothing, and with a Receiver that does not answer, unless
\* a client sends frame after frame and never its first message: one that Stop
\* missed, as it was not stored yet, is not interrupted in ReceiveMessage.
StopEnds ==
  \/ ShutdownEnds
  \/ []<><<Authenticate /\ Message = "none">>_vars
==============================================================================
