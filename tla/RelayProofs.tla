----------------------------- MODULE RelayProofs -----------------------------
(***************************************************************************)
(* Proofs about Relay, for any number of configurations, access units and  *)
(* datagrams and any bounds.                                               *)
(***************************************************************************)
EXTENDS Relay, TLAPS

\* TypeOK in parts.
PlaceTypes ==
  /\ main \in {"serving", "halt", "join", "connect", "hello", "pair", "open", "close",
               "joinWorker", "lastHalt", "lastJoin", "stopped"}
  /\ client \in {"none", "open", "closed"}
  /\ accepted \in {"none", "waiting", "open", "closed"}
  /\ worker \in {"accept", "accepted", "storing", "handshake", "authenticate", "take",
                 "tell", "loop", "receive", "build", "load", "send", "end", "ended"}
  /\ thread \in {"none", "receive", "handle"}

FlagTypes ==
  /\ stopping \in BOOLEAN /\ listener \in BOOLEAN /\ authed \in BOOLEAN
  /\ telling \in BOOLEAN /\ connected \in BOOLEAN /\ running \in BOOLEAN
  /\ keyframe \in BOOLEAN /\ receiver \in BOOLEAN /\ inUnit \in BOOLEAN /\ owed \in BOOLEAN

SocketTypes ==
  /\ socket \in 0..MaxSessions /\ session \in 0..MaxSessions /\ video \in 0..MaxSessions
  /\ control \in 0..MaxSessions /\ latest \in 0..MaxSessions

\* A Receiver is there only on a numbered connection, and one is begun only below
\* the bound.
SocketInv ==
  /\ receiver => latest # 0
  /\ main \in {"halt", "join", "connect"} => latest < MaxSessions

\* The units the client has begun number those on the wire and in hand, and a
\* unit that is being sent is not complete.
UnitInv ==
  /\ wire \in Seq(Frame)
  /\ assembling \in {"none", "auth", "wrong", "stats", "bye", "text", "video"}
  /\ units \in 0..MaxUnits
  /\ unit \in [number : 0..MaxUnits, sent : 0..Datagrams]
  /\ out \in [number : 0..MaxUnits, sent : 0..Datagrams]
  /\ worker \in {"build", "load", "send"} => unit.sent < Datagrams

\* Whatever control messages there are came on the latest connection: the next is
\* begun only when no thread reads and nothing is left of the one before.
Messages == [connection : {latest}, type : Types]

ControlInv ==
  /\ incoming \in Seq(Control) /\ incoming \in Seq(Messages)
  /\ frames \in Seq(Control) /\ frames \in Seq(Messages)
  /\ taken \in Seq(Control) /\ taken \in Seq(Messages)
  /\ taken # <<>> <=> thread = "handle"
  /\ main \in {"connect", "hello", "pair", "open"} => thread = "none"
  /\ main = "connect" => frames = <<>>

\* The worker holds a request only between taking it and telling the client.
RequestInv == RequestKept /\ (telling => worker \in {"tell", "end"})

IInv == PlaceTypes /\ FlagTypes /\ SocketTypes /\ SocketInv /\ UnitInv /\ ControlInv /\ RequestInv

USE DEF serverVars, unitVars, clientVars, lanVars, threadVars, receiverVars

\* What BoundsAssumption says of each constant.
LEMMA Bounds ==
  /\ Datagrams \in Nat /\ Datagrams > 0 /\ MaxSessions \in Nat /\ MaxUnits \in Nat
  /\ MaxWire \in Nat
<1>1. \A x \in {MaxSessions, MaxUnits, MaxMessages, MaxWire, MaxFaults} : x \in Nat
  BY BoundsAssumption
<1> QED
  BY <1>1, BoundsAssumption

LEMMA InitIInv == Init => IInv
<1> SUFFICES ASSUME Init PROVE IInv
  OBVIOUS
<1>1. PlaceTypes /\ FlagTypes
  BY Zenon DEF Init, PlaceTypes, FlagTypes
<1>2. SocketTypes /\ SocketInv
  BY Bounds DEF Init, SocketTypes, SocketInv
<1>3. UnitInv
  BY Bounds DEF Init, UnitInv
<1>4. ControlInv
  BY DEF Init, ControlInv
<1>5. RequestInv
  BY DEF Init, RequestInv, RequestKept
<1> QED
  BY <1>1, <1>2, <1>3, <1>4, <1>5 DEF IInv

-----------------------------------------------------------------------------
(* Types.                                                                  *)

\* A frame that ReceiveMessage takes up leaves a known message to be put together.
LEMMA PlacesKept == PlaceTypes /\ Next => PlaceTypes'
<1> SUFFICES ASSUME PlaceTypes, Next PROVE PlaceTypes'
  OBVIOUS
<1> USE DEF PlaceTypes
<1>1. CASE Accept \/ AcceptFails \/ SeeStopping \/ StoreClient \/ PerformHandshake
  BY <1>1, Zenon DEF Accept, AcceptFails, SeeStopping, StoreClient, PerformHandshake
<1>2. CASE Authenticate
  BY <1>2 DEF Authenticate, TakeFrame
<1>3. CASE ReceiveMessage
  BY <1>3 DEF ReceiveMessage, TakeFrame
<1>4. CASE TurnLoop \/ ClientFails \/ EndClient \/ ConsumeKeyframeRequest \/ TellClient
           \/ BuildLanVideoDatagrams
  BY <1>4, Zenon DEF TurnLoop, ClientFails, EndClient, ConsumeKeyframeRequest, TellClient,
     BuildLanVideoDatagrams
<1>5. CASE LoadSocket \/ SendDatagram \/ SendFails
  BY <1>5, Zenon DEF LoadSocket, SendDatagram, SendFails, GiveUp
<1>6. CASE ControlThread
  BY <1>6, Zenon DEF ControlThread, ReceiveControl, TakeControl, HandleControl, PingFails,
     LosePeer, LeaveControlLoop
<1>7. CASE Configure
  <2>1. CASE PerformPairing
    BY <2>1 DEF PerformPairing
  <2> QED
    BY <1>7, <2>1, Zenon DEF Configure, ConfigureReceiver, ConnectControl, ConfigureFails,
       ReceiveReply, OpenVideoSocket
<1>8. CASE StopAll
  BY <1>8, Zenon DEF StopAll, Halt, Join, CloseSockets, CloseClient, JoinWorker
<1>9. CASE Environment
  BY <1>9, Zenon DEF Environment, ShutDown, Connect, Disconnect, SendAuth, SendVideo, SendOther,
     PutFrame, ReceiverSends, ReceiverCloses
<1> QED
  BY <1>1, <1>2, <1>3, <1>4, <1>5, <1>6, <1>7, <1>8, <1>9 DEF Next, Worker

LEMMA FlagsKept == FlagTypes /\ Next => FlagTypes'
<1> SUFFICES ASSUME FlagTypes, Next PROVE FlagTypes'
  OBVIOUS
<1> USE DEF FlagTypes
<1>1. CASE UNCHANGED <<stopping, listener, authed, telling, connected, running, keyframe,
                       receiver, inUnit, owed>>
  BY <1>1, Zenon
<1>2. CASE Accept \/ AcceptFails \/ SeeStopping \/ PerformHandshake \/ ReceiveMessage
  BY <1>1, <1>2, Zenon DEF Accept, AcceptFails, SeeStopping, PerformHandshake, ReceiveMessage
<1>3. CASE TurnLoop \/ ClientFails \/ BuildLanVideoDatagrams \/ LoadSocket \/ SendDatagram
  BY <1>1, <1>3, Zenon DEF TurnLoop, ClientFails, BuildLanVideoDatagrams, LoadSocket, SendDatagram
<1>4. CASE StoreClient \/ Authenticate \/ EndClient
  BY <1>4, Zenon DEF StoreClient, Authenticate, EndClient
<1>5. CASE ConsumeKeyframeRequest \/ TellClient \/ SendFails
  BY <1>5, ZenonT(40) DEF ConsumeKeyframeRequest, TellClient, AfterTelling, SendFails, GiveUp
<1>6. CASE ReceiveControl \/ TakeControl \/ LeaveControlLoop
  BY <1>1, <1>6, Zenon DEF ReceiveControl, Received, TakeControl, LeaveControlLoop
<1>7. CASE HandleControl
  BY <1>7 DEF HandleControl
<1>8. CASE PingFails
  BY <1>8, Zenon DEF PingFails, LosePeer
<1>9. CASE ConfigureReceiver \/ ReceiveReply \/ JoinWorker
  BY <1>1, <1>9, Zenon DEF ConfigureReceiver, ReceiveReply, Received, JoinWorker
<1>10. CASE PerformPairing
  BY <1>10 DEF PerformPairing
<1>11. CASE ConnectControl \/ ConfigureFails
  BY <1>11, ZenonT(40) DEF ConnectControl, ConfigureFails
<1>12. CASE OpenVideoSocket
  BY <1>12, Zenon DEF OpenVideoSocket
<1>13. CASE Halt \/ Join \/ CloseSockets
  BY <1>13, ZenonT(40) DEF Halt, Join, CloseSockets
<1>14. CASE Connect \/ Disconnect \/ SendAuth \/ SendOther \/ ReceiverSends
  BY <1>1, <1>14, Zenon DEF Connect, Disconnect, SendAuth, SendOther, PutFrame, ReceiverSends
<1>15. CASE ShutDown \/ ReceiverCloses
  BY <1>15, ZenonT(40) DEF ShutDown, ReceiverCloses
<1>16. CASE SendVideo
  <2>1. inUnit' \in BOOLEAN
    BY <1>16, Zenon DEF SendVideo
  <2>2. UNCHANGED <<stopping, listener, authed, telling, connected, running, keyframe,
                    receiver, owed>>
    BY <1>16, Zenon DEF SendVideo, PutFrame
  <2> QED
    BY <2>1, <2>2, Zenon
<1> QED
  BY <1>2, <1>3, <1>4, <1>5, <1>6, <1>7, <1>8, <1>9, <1>10, <1>11, <1>12, <1>13, <1>14, <1>15,
     <1>16, Zenon DEF Next, Worker, ControlThread, Configure, StopAll, Environment

LEMMA SocketsKept ==
  SocketTypes /\ SocketInv /\ ControlInv /\ Next => SocketTypes' /\ SocketInv'
<1> SUFFICES ASSUME SocketTypes, SocketInv, Next PROVE SocketTypes' /\ SocketInv'
  OBVIOUS
<1> USE Bounds DEF SocketTypes, SocketInv
<1>1. CASE UNCHANGED <<socket, session, video, control, latest, receiver, main>>
  BY <1>1
<1>2. CASE Worker
  <2>1. CASE LoadSocket \/ EndClient \/ SendDatagram
    BY <2>1 DEF LoadSocket, EndClient, SendDatagram
  <2> QED
    BY <1>1, <1>2, <2>1, Zenon DEF Worker, Accept, AcceptFails, SeeStopping, StoreClient,
       PerformHandshake, Authenticate, ReceiveMessage, TurnLoop, ClientFails,
       ConsumeKeyframeRequest, TellClient, BuildLanVideoDatagrams, SendFails
<1>3. CASE ControlThread
  BY <1>1, <1>3, Zenon DEF ControlThread, ReceiveControl, Received, TakeControl, HandleControl,
     PingFails, LeaveControlLoop
<1>4. CASE ConfigureReceiver \/ ConnectControl
  BY <1>4 DEF ConfigureReceiver, ConnectControl
<1>5. CASE ConfigureFails \/ ReceiveReply \/ OpenVideoSocket
  BY <1>5 DEF ConfigureFails, ReceiveReply, Received, OpenVideoSocket
<1>6. CASE PerformPairing
  BY <1>6 DEF PerformPairing
<1>7. CASE StopAll
  BY <1>7 DEF StopAll, Halt, Join, CloseSockets, JoinWorker
<1>8. CASE Environment
  <2>1. CASE ShutDown \/ ReceiverCloses
    BY <2>1 DEF ShutDown, ReceiverCloses
  <2> QED
    BY <1>1, <1>8, <2>1, Zenon DEF Environment, Connect, Disconnect, SendAuth, SendVideo,
       SendOther, PutFrame, ReceiverSends
<1> QED
  BY <1>2, <1>3, <1>4, <1>5, <1>6, <1>7, <1>8 DEF Next, Configure

\* ReceiveMessage: what is put together is a known message.
LEMMA AssemblingTyped ==
  ASSUME NEW frame \in Frame,
         assembling \in {"none", "auth", "wrong", "stats", "bye", "text", "video"}
  PROVE  Assembling(frame) \in {"none", "auth", "wrong", "stats", "bye", "text", "video"}
  BY DEF Assembling, Frame

\* Only the worker touches what it puts together and sends.
LEMMA UnitFrame ==
  Next => Worker \/ /\ UNCHANGED <<assembling, unit, out, worker>>
                    /\ SendAuth \/ SendVideo \/ SendOther \/ UNCHANGED <<wire, units>>
<1>1. ControlThread \/ StopAll => UNCHANGED <<assembling, unit, out, worker, wire, units>>
  BY Zenon DEF ControlThread, ReceiveControl, TakeControl, HandleControl, PingFails,
     LeaveControlLoop, StopAll, Halt, Join, CloseSockets, JoinWorker
<1>2. Configure => UNCHANGED <<assembling, unit, out, worker, wire, units>>
  BY Zenon DEF Configure, ConfigureReceiver, ConnectControl, ConfigureFails, ReceiveReply,
     PerformPairing, OpenVideoSocket
<1>3. ShutDown \/ Connect \/ Disconnect \/ ReceiverSends \/ ReceiverCloses
        => UNCHANGED <<assembling, unit, out, worker, wire, units>>
  BY Zenon DEF ShutDown, Connect, Disconnect, ReceiverSends, ReceiverCloses
<1>4. SendAuth \/ SendVideo \/ SendOther => UNCHANGED <<assembling, unit, out, worker>>
  BY Zenon DEF SendAuth, SendVideo, SendOther, PutFrame
<1> QED
  BY <1>1, <1>2, <1>3, <1>4, Zenon DEF Next, Environment

LEMMA UnitsKept == UnitInv /\ Next => UnitInv'
<1> SUFFICES ASSUME UnitInv, Next PROVE UnitInv'
  OBVIOUS
<1> USE Bounds DEF UnitInv
<1>1. CASE UNCHANGED <<wire, assembling, units, unit, out>> /\ worker' \notin {"build", "load", "send"}
  BY <1>1
<1>2. CASE UNCHANGED <<wire, assembling, units, unit, out, worker>>
  BY <1>2
<1>3. CASE Accept \/ AcceptFails \/ SeeStopping \/ StoreClient \/ PerformHandshake
  BY <1>1, <1>3 DEF Accept, AcceptFails, SeeStopping, StoreClient, PerformHandshake
<1>4. CASE TurnLoop \/ ClientFails \/ ConsumeKeyframeRequest \/ TellClient \/ SendFails
  BY <1>1, <1>4 DEF TurnLoop, ClientFails, ConsumeKeyframeRequest, TellClient, SendFails, GiveUp
<1>5. ASSUME TakeFrame
      PROVE  /\ wire' \in Seq(Frame) /\ Head(wire) \in Frame
             /\ assembling' \in {"none", "auth", "wrong", "stats", "bye", "text", "video"}
  <2>1. wire \in Seq(Frame) /\ wire # <<>> /\ wire' = Tail(wire)
    BY <1>5, Zenon DEF TakeFrame
  <2>2. wire' \in Seq(Frame) /\ Head(wire) \in Frame
    BY <2>1
  <2> QED
    BY <1>5, <2>2, AssemblingTyped DEF TakeFrame
<1>6. CASE Authenticate
  <2>1. UNCHANGED <<units, unit, out>> /\ worker' \notin {"build", "load", "send"} /\ TakeFrame
    <3>1. worker' \in {"authenticate", "take", "end"}
      BY <1>6 DEF Authenticate
    <3> QED
      BY <1>6, <3>1 DEF Authenticate
  <2> QED
    BY <1>5, <2>1
<1>7. CASE ReceiveMessage
  <2>1. UNCHANGED <<units, out>> /\ TakeFrame
    BY <1>7, Zenon DEF ReceiveMessage
  <2>2. Head(wire).unit \in 0..MaxUnits
    BY <1>5, <2>1 DEF Frame
  <2>3. unit' = IF Message = "video" THEN [number |-> Head(wire).unit, sent |-> 0] ELSE unit
    BY <1>7, Zenon DEF ReceiveMessage
  <2>4. worker' = "build" => Message = "video"
    BY <1>7 DEF ReceiveMessage
  <2>5. worker' \notin {"load", "send"}
    BY <1>7 DEF ReceiveMessage
  <2> QED
    BY <1>5, <2>1, <2>2, <2>3, <2>4, <2>5
<1>8. CASE EndClient
  BY <1>8 DEF EndClient
<1>9. CASE BuildLanVideoDatagrams \/ LoadSocket
  BY <1>9 DEF BuildLanVideoDatagrams, LoadSocket
<1>10. CASE SendDatagram
  BY <1>10 DEF SendDatagram, LastSent
<1>11. ASSUME NEW opcode \in {"auth", "wrong", "stats", "bye", "text", "video", "close",
                              "ping", "continuation"},
              NEW final \in BOOLEAN, units' \in 0..MaxUnits, PutFrame(opcode, final)
       PROVE  wire' \in Seq(Frame)
  <2>1. [opcode |-> opcode, final |-> final, unit |-> units'] \in Frame
    BY <1>11 DEF Frame
  <2> QED
    BY <1>11, <2>1 DEF PutFrame
<1>12. CASE SendAuth \/ SendVideo \/ SendOther
  <2>1. UNCHANGED <<assembling, unit, out, worker>>
    BY <1>12, Zenon DEF SendAuth, SendVideo, SendOther, PutFrame
  <2>2. units' \in 0..MaxUnits
    <3>1. UNCHANGED units \/ (units < MaxUnits /\ units' = units + 1)
      BY <1>12, Zenon DEF SendAuth, SendVideo, SendOther
    <3> QED
      BY <3>1
  <2>3. wire' \in Seq(Frame)
    BY <1>11, <1>12, <2>2 DEF SendAuth, SendVideo, SendOther
  <2> QED
    BY <2>1, <2>2, <2>3
<1> QED
  BY <1>2, <1>3, <1>4, <1>6, <1>7, <1>8, <1>9, <1>10, <1>12, UnitFrame, Zenon DEF Worker

-----------------------------------------------------------------------------
(* Control messages and requests.                                          *)

\* A new connection begins with nothing of the former one, in the buffer or in
\* the hands of a thread.
LEMMA ControlKept == PlaceTypes /\ SocketTypes /\ SocketInv /\ ControlInv /\ Next => ControlInv'
<1> SUFFICES ASSUME PlaceTypes, SocketTypes, SocketInv, ControlInv, Next PROVE ControlInv'
  OBVIOUS
<1> USE DEF ControlInv
<1>1. CASE UNCHANGED <<incoming, frames, taken, thread, latest, main>>
  BY <1>1, Zenon DEF Messages
<1>2. CASE Worker
  BY <1>1, <1>2, Zenon DEF Worker, Accept, AcceptFails, SeeStopping, StoreClient,
     PerformHandshake, Authenticate, ReceiveMessage, TurnLoop, ClientFails, EndClient,
     ConsumeKeyframeRequest, TellClient, BuildLanVideoDatagrams, LoadSocket, SendDatagram,
     SendFails
<1>3. ASSUME Received, UNCHANGED <<taken, thread, main>>, main # "connect" PROVE ControlInv'
  <2>1. UNCHANGED <<latest, taken, thread, main>> /\ frames' = incoming /\ incoming' = <<>>
    BY <1>3, Zenon DEF Received
  <2>2. Messages' = Messages
    BY <2>1, Zenon DEF Messages
  <2> QED
    BY <1>3, <2>1, <2>2
<1>4. CASE ReceiveControl \/ ReceiveReply
  <2>1. Received /\ UNCHANGED <<taken, thread, main>>
    BY <1>4, Zenon DEF ReceiveControl, ReceiveReply
  <2>2. main # "connect"
    BY <1>4 DEF ReceiveControl, ReceiveReply
  <2> QED
    BY <1>3, <2>1, <2>2
<1>5. CASE TakeControl
  <2>1. /\ UNCHANGED <<latest, incoming, main>>
        /\ frames' = Tail(frames) /\ taken' = <<Head(frames)>> /\ frames # <<>>
        /\ thread = "receive" /\ thread' = "handle"
    BY <1>5, Zenon DEF TakeControl
  <2>2. Messages' = Messages
    BY <2>1, Zenon DEF Messages
  <2> QED
    BY <2>1, <2>2
<1>6. ASSUME UNCHANGED <<latest, incoming, main, frames>>, thread # "none",
             \/ thread' = "receive" /\ taken' = <<>>
             \/ thread = "receive" /\ thread' = "none" /\ UNCHANGED taken
      PROVE  ControlInv'
  <2>1. Messages' = Messages
    BY <1>6, Zenon DEF Messages
  <2>2. main' \notin {"connect", "hello", "pair", "open"}
    BY <1>6
  <2>3. taken' = <<>> /\ thread' # "handle"
    BY <1>6
  <2> QED
    BY <1>6, <2>1, <2>2, <2>3
<1>7. CASE HandleControl \/ PingFails \/ LeaveControlLoop
  <2>1. UNCHANGED <<latest, incoming, main, frames>>
    BY <1>7, Zenon DEF HandleControl, PingFails, LeaveControlLoop
  <2>2. /\ thread # "none"
        /\ \/ thread' = "receive" /\ taken' = <<>>
           \/ thread = "receive" /\ thread' = "none" /\ UNCHANGED taken
    BY <1>7 DEF HandleControl, PingFails, LosePeer, LeaveControlLoop
  <2> QED
    BY <1>6, <2>1, <2>2
<1>8. ASSUME UNCHANGED <<latest, taken, thread>>,
             frames' \in Seq(Control), frames' \in Seq(Messages),
             incoming' \in Seq(Control), incoming' \in Seq(Messages),
             main' \in {"connect", "hello", "pair", "open"} => thread = "none",
             main' = "connect" => frames' = <<>>
      PROVE  ControlInv'
  <2>1. Messages' = Messages
    BY <1>8, Zenon DEF Messages
  <2> QED
    BY <1>8, <2>1
<1>9. CASE ConfigureReceiver \/ ShutDown
  BY <1>8, <1>9 DEF ConfigureReceiver, ShutDown
<1>10. CASE Halt \/ Join \/ CloseSockets \/ JoinWorker
  <2>1. CASE Halt
    BY <1>8, <2>1 DEF Halt
  <2>2. CASE Join
    BY <1>8, <2>2 DEF Join, ClearControl
  <2>3. CASE CloseSockets
    BY <1>8, <2>3 DEF CloseSockets
  <2>4. CASE JoinWorker
    BY <1>8, <2>4 DEF JoinWorker
  <2> QED
    BY <1>10, <2>1, <2>2, <2>3, <2>4
<1>11. CASE ConnectControl
  <2>1. /\ latest' = latest + 1 /\ incoming' = <<>> /\ UNCHANGED <<frames, taken, thread>>
        /\ main = "connect" /\ main' = "hello"
    BY <1>11, Zenon DEF ConnectControl
  <2>2. frames = <<>> /\ taken = <<>>
    BY <2>1
  <2> QED
    BY <2>1, <2>2
<1>12. CASE ConfigureFails
  BY <1>8, <1>12 DEF ConfigureFails
<1>13. CASE PerformPairing
  <2>1. UNCHANGED <<latest, taken, thread>>
    BY <1>13, Zenon DEF PerformPairing
  <2>2. frames' \in Seq(Control) /\ frames' \in Seq(Messages)
    BY <1>13 DEF PerformPairing
  <2>3. /\ incoming' = incoming \/ incoming' = <<>>
        /\ main' # "connect" /\ thread = "none"
    BY <1>13 DEF PerformPairing
  <2> QED
    BY <1>8, <2>1, <2>2, <2>3
<1>14. CASE OpenVideoSocket
  <2>1. /\ UNCHANGED <<latest, taken, frames, incoming>> /\ main' = "serving"
        /\ thread' = "receive" /\ main = "open"
    BY <1>14, Zenon DEF OpenVideoSocket
  <2>2. Messages' = Messages
    BY <2>1, Zenon DEF Messages
  <2> QED
    BY <2>1, <2>2
<1>15. CASE Connect \/ Disconnect \/ SendAuth \/ SendVideo \/ SendOther \/ ReceiverCloses
  BY <1>1, <1>15, Zenon DEF Connect, Disconnect, SendAuth, SendVideo, SendOther, PutFrame,
     ReceiverCloses
<1>16. CASE ReceiverSends
  <2>1. receiver /\ UNCHANGED <<latest, taken, thread, frames, main>>
    BY <1>16, Zenon DEF ReceiverSends
  <2>2. PICK type \in Types : incoming' = Append(incoming, [connection |-> latest, type |-> type])
    BY <1>16 DEF ReceiverSends, Sendable, Types
  <2>3. [connection |-> latest, type |-> type] \in Control
    BY <2>1, Bounds DEF Control, SocketInv, SocketTypes
  <2>4. [connection |-> latest, type |-> type] \in Messages
    BY DEF Messages
  <2>5. incoming' \in Seq(Control) /\ incoming' \in Seq(Messages)
    BY <2>2, <2>3, <2>4
  <2> QED
    BY <1>8, <2>1, <2>5
<1> QED
  BY <1>2, <1>4, <1>5, <1>7, <1>9, <1>10, <1>11, <1>12, <1>13, <1>14, <1>15, <1>16, Zenon
     DEF Next, ControlThread, Configure, StopAll, Environment

\* The request passes from keyframe to telling in one exchange, and one that comes
\* while the client is told sets keyframe again.
LEMMA RequestsKept == RequestInv /\ Next => RequestInv'
<1> SUFFICES ASSUME RequestInv, Next PROVE RequestInv'
  OBVIOUS
<1> USE DEF RequestInv, RequestKept
<1>1. CASE UNCHANGED <<owed, keyframe, telling, worker>>
  BY <1>1, Zenon
<1>2. ASSUME UNCHANGED <<owed, keyframe, telling>>, worker # "ended",
             worker \notin {"tell", "end"} \/ worker' = "end"
      PROVE  RequestInv'
  BY <1>2
<1>3. CASE Accept \/ AcceptFails \/ SeeStopping \/ StoreClient \/ PerformHandshake
  BY <1>2, <1>3 DEF Accept, AcceptFails, SeeStopping, StoreClient, PerformHandshake
<1>4. CASE Authenticate \/ ReceiveMessage \/ TurnLoop \/ ClientFails
  BY <1>2, <1>4 DEF Authenticate, ReceiveMessage, TurnLoop, ClientFails
<1>5. CASE BuildLanVideoDatagrams \/ LoadSocket \/ SendDatagram \/ SendFails
  BY <1>2, <1>5 DEF BuildLanVideoDatagrams, LoadSocket, SendDatagram, SendFails
<1>6. CASE EndClient
  BY <1>6 DEF EndClient
<1>7. CASE ConsumeKeyframeRequest
  BY <1>7 DEF ConsumeKeyframeRequest
<1>8. CASE TellClient
  BY <1>8 DEF TellClient, AfterTelling
<1>9. CASE HandleControl
  BY <1>9 DEF HandleControl
<1>10. CASE ReceiveControl \/ TakeControl \/ PingFails \/ LeaveControlLoop
  BY <1>1, <1>10, Zenon DEF ReceiveControl, TakeControl, PingFails, LeaveControlLoop
<1>11. CASE ConfigureReceiver \/ ConnectControl \/ ConfigureFails \/ ReceiveReply \/ PerformPairing
  BY <1>1, <1>11, Zenon DEF ConfigureReceiver, ConnectControl, ConfigureFails, ReceiveReply,
     PerformPairing
<1>12. CASE OpenVideoSocket \/ Join
  <2>1. UNCHANGED <<telling, worker>> /\ (keyframe' \/ ~owed')
    BY <1>12, Zenon DEF OpenVideoSocket, Join
  <2> QED
    BY <2>1, Zenon
<1>13. CASE Halt \/ CloseSockets \/ JoinWorker
  BY <1>1, <1>13, Zenon DEF Halt, CloseSockets, JoinWorker
<1>14. CASE Environment
  BY <1>1, <1>14, Zenon DEF Environment, ShutDown, Connect, Disconnect, SendAuth, SendVideo,
     SendOther, PutFrame, ReceiverSends, ReceiverCloses
<1> QED
  BY <1>3, <1>4, <1>5, <1>6, <1>7, <1>8, <1>9, <1>10, <1>11, <1>12, <1>13, <1>14, Zenon
     DEF Next, Worker, ControlThread, Configure, StopAll

-----------------------------------------------------------------------------

\* A step that changes nothing keeps the invariant, and so does every other.
LEMMA Invariance == Spec => []IInv
<1>1. IInv /\ Next => IInv'
  BY PlacesKept, FlagsKept, SocketsKept, UnitsKept, ControlKept, RequestsKept DEF IInv
<1>2. IInv /\ UNCHANGED vars => IInv'
  <2> SUFFICES ASSUME IInv, UNCHANGED vars PROVE IInv'
    OBVIOUS
  <2> USE DEF vars, IInv
  <2>1. PlaceTypes'
    BY DEF PlaceTypes
  <2>5. FlagTypes'
    <3>1. UNCHANGED <<stopping, listener, authed, telling, connected, running, keyframe,
                      receiver, inUnit, owed>>
      BY Zenon
    <3> QED
      BY <3>1, Zenon DEF FlagTypes
  <2>2. SocketTypes' /\ SocketInv'
    BY Zenon DEF SocketTypes, SocketInv
  <2>3. UnitInv' /\ ControlInv'
    BY Zenon DEF UnitInv, ControlInv, Messages
  <2>4. RequestInv'
    BY Zenon DEF RequestInv, RequestKept
  <2> QED
    BY <2>1, <2>2, <2>3, <2>4, <2>5, Zenon
<1> QED
  BY <1>1, <1>2, InitIInv, PTL DEF Spec

\* Every variable of the relay keeps its type.
THEOREM TypeCorrectness == Spec => []TypeOK
<1>1. IInv => TypeOK
  BY Zenon DEF IInv, TypeOK, PlaceTypes, FlagTypes, SocketTypes, UnitInv, ControlInv
<1> QED
  BY <1>1, Invariance, PTL

\* However configurations follow each other, no thread acts on what a former
\* Receiver said.
THEOREM OnlyTheLatestReceiver == Spec => []ControlIsCurrent
<1>1. IInv => ControlIsCurrent
  <2> SUFFICES ASSUME IInv PROVE ControlIsCurrent
    OBVIOUS
  <2>1. ControlInv
    BY DEF IInv
  <2>2. thread = "handle" => Head(taken).connection = latest
    <3>1. CASE thread = "handle"
      <4>1. taken \in Seq(Messages) /\ taken # <<>>
        BY <2>1, <3>1 DEF ControlInv
      <4>2. Head(taken) \in Messages
        BY <4>1
      <4> QED
        BY <4>2 DEF Messages
    <3> QED
      BY <3>1
  <2>3. \A i \in DOMAIN frames : frames[i].connection = latest
    <3>1. frames \in Seq(Messages)
      BY <2>1 DEF ControlInv
    <3>2. \A i \in DOMAIN frames : frames[i] \in Messages
      BY <3>1
    <3> QED
      BY <3>2 DEF Messages
  <2> QED
    BY <2>2, <2>3 DEF ControlIsCurrent
<1> QED
  BY <1>1, Invariance, PTL

\* The two threads never lose a request for a key frame between them.
THEOREM RequestsAreKept == Spec => []RequestKept
<1>1. IInv => RequestKept
  BY DEF IInv, RequestInv
<1> QED
  BY <1>1, Invariance, PTL

-----------------------------------------------------------------------------
(* The order of the datagrams: what is on the wire, what the worker has in its *)
(* hands and what it has sent are one sequence of units.                       *)

\* The frames that carry access units, and the number of units the worker has
\* taken off the client's connection.
IsVideo(frame) == frame.opcode \in {"video", "continuation"}

UnitsTaken == IF worker \in {"build", "load", "send"} THEN unit.number ELSE out.number

\* While the worker is with the client: the unit in its hands follows the last
\* datagram, before one it takes nothing but the client's authentication, and
\* the frames on the wire hold the units it has yet to take.
SendingInv ==
  /\ worker \in {"build", "load", "send"} =>
       IF unit.sent = 0
         THEN unit.number = out.number + 1 /\ out.sent = Datagrams
         ELSE unit.number = out.number /\ unit.sent = out.sent
  /\ worker \notin {"build", "load", "send"} => out.sent = Datagrams

ClientInv ==
  /\ worker \in {"accept", "accepted", "storing", "handshake", "authenticate"} =>
       ~authed /\ units = 0
  /\ assembling \in {"none", "video"}
  /\ \A i \in DOMAIN wire : wire[i].final \/ IsVideo(wire[i])

\* Units come in order, each ends with its final frame, and none is missing.
WireInv ==
  /\ UnitsTaken <= units /\ (inUnit => UnitsTaken < units)
  /\ \A i \in DOMAIN wire : IsVideo(wire[i]) =>
       /\ UnitsTaken < wire[i].unit /\ wire[i].unit <= units
       /\ wire[i].final /\ inUnit => wire[i].unit < units
  /\ \A i, j \in DOMAIN wire : i < j /\ IsVideo(wire[i]) /\ IsVideo(wire[j]) =>
       /\ wire[i].unit <= wire[j].unit
       /\ wire[i].final => wire[i].unit < wire[j].unit
  /\ \A n \in Nat : UnitsTaken < n /\ (IF inUnit THEN n < units ELSE n <= units) =>
       \E i \in DOMAIN wire : IsVideo(wire[i]) /\ wire[i].final /\ wire[i].unit = n

OrderInv == worker \notin {"end", "ended"} => SendingInv /\ ClientInv /\ WireInv

\* What the worker leaves on the wire when it takes a frame off it.
LEMMA Behind ==
  ASSUME NEW w \in Seq(Frame), w # <<>>
  PROVE  /\ Len(w) \in Nat \ {0} /\ DOMAIN w = 1..Len(w) /\ Head(w) = w[1]
         /\ Head(w) \in Frame
         /\ DOMAIN Tail(w) = 1..(Len(w) - 1)
         /\ \A i \in DOMAIN Tail(w) : i + 1 \in DOMAIN w /\ Tail(w)[i] = w[i + 1]
         /\ \A i \in DOMAIN w : i # 1 => i - 1 \in DOMAIN Tail(w) /\ Tail(w)[i - 1] = w[i]
<1> HIDE DEF Frame
<1> QED OBVIOUS

\* What the client adds to the wire.
LEMMA Added ==
  ASSUME NEW w \in Seq(Frame), NEW frame \in Frame
  PROVE  /\ Len(w) \in Nat /\ DOMAIN w = 1..Len(w)
         /\ DOMAIN Append(w, frame) = 1..(Len(w) + 1)
         /\ \A i \in DOMAIN w : Append(w, frame)[i] = w[i]
         /\ Append(w, frame)[Len(w) + 1] = frame
<1> HIDE DEF Frame
<1> QED OBVIOUS

\* A frame that completes no unit leaves the others on the wire as they were.
LEMMA FrameTaken ==
  ASSUME WireInv, wire \in Seq(Frame), wire # <<>>, wire' = Tail(wire),
         UNCHANGED <<units, inUnit>>, UnitsTaken' = UnitsTaken,
         ~(IsVideo(wire[1]) /\ wire[1].final)
  PROVE  WireInv'
<1> USE DEF WireInv
<1>1. /\ UnitsTaken' <= units' /\ (inUnit' => UnitsTaken' < units')
      /\ \A i \in DOMAIN wire' : i + 1 \in DOMAIN wire /\ wire'[i] = wire[i + 1]
      /\ \A i \in DOMAIN wire : i # 1 => i - 1 \in DOMAIN wire' /\ wire'[i - 1] = wire[i]
      /\ DOMAIN wire' \subseteq Nat
  BY Behind
<1>2. \A i \in DOMAIN wire' : IsVideo(wire'[i]) =>
        /\ UnitsTaken' < wire'[i].unit /\ wire'[i].unit <= units'
        /\ wire'[i].final /\ inUnit' => wire'[i].unit < units'
  BY <1>1
<1>3. \A i, j \in DOMAIN wire' : i < j /\ IsVideo(wire'[i]) /\ IsVideo(wire'[j]) =>
        /\ wire'[i].unit <= wire'[j].unit
        /\ wire'[i].final => wire'[i].unit < wire'[j].unit
  BY <1>1
<1>4. ASSUME NEW n \in Nat, UnitsTaken' < n,
             IF inUnit' THEN n < units' ELSE n <= units'
      PROVE  \E i \in DOMAIN wire' : IsVideo(wire'[i]) /\ wire'[i].final /\ wire'[i].unit = n
  <2>1. PICK i \in DOMAIN wire : IsVideo(wire[i]) /\ wire[i].final /\ wire[i].unit = n
    BY <1>4
  <2>2. i # 1
    BY <2>1
  <2> QED
    BY <1>1, <2>1, <2>2
<1> QED
  BY <1>1, <1>2, <1>3, <1>4, Zenon

\* The frame that completes a unit completes the one that is due.
LEMMA UnitTaken ==
  ASSUME WireInv, wire \in Seq(Frame), wire # <<>>, wire' = Tail(wire),
         UNCHANGED <<units, inUnit>>, UnitsTaken \in Nat, units \in Nat,
         IsVideo(wire[1]), wire[1].final, UnitsTaken' = wire[1].unit
  PROVE  WireInv' /\ UnitsTaken' = UnitsTaken + 1
<1> USE DEF WireInv
<1>1. /\ \A i \in DOMAIN wire' : i + 1 \in DOMAIN wire /\ wire'[i] = wire[i + 1]
      /\ \A i \in DOMAIN wire : i # 1 => i - 1 \in DOMAIN wire' /\ wire'[i - 1] = wire[i]
      /\ DOMAIN wire' \subseteq Nat /\ DOMAIN wire \subseteq Nat \ {0} /\ 1 \in DOMAIN wire
      /\ wire[1].unit \in Nat
  <2>1. wire[1] \in Frame
    BY Behind
  <2>2. wire[1].unit \in Nat
    BY <2>1, Bounds DEF Frame
  <2> QED
    BY <2>2, Behind
<1>2. /\ UnitsTaken < wire[1].unit /\ wire[1].unit <= units
      /\ inUnit => wire[1].unit < units
  BY <1>1
<1>3. wire[1].unit = UnitsTaken + 1
  <2> SUFFICES ASSUME wire[1].unit # UnitsTaken + 1 PROVE FALSE
    OBVIOUS
  <2>1. UnitsTaken + 1 < wire[1].unit
    BY <1>1, <1>2
  <2>2. PICK i \in DOMAIN wire : IsVideo(wire[i]) /\ wire[i].final
                                   /\ wire[i].unit = UnitsTaken + 1
    <3>1. /\ UnitsTaken + 1 \in Nat /\ UnitsTaken < UnitsTaken + 1
          /\ IF inUnit THEN UnitsTaken + 1 < units ELSE UnitsTaken + 1 <= units
      BY <1>1, <1>2, <2>1
    <3> QED
      BY <3>1
  <2>3. 1 < i
    BY <1>1, <2>1, <2>2
  <2>4. wire[1].unit <= wire[i].unit
    BY <1>1, <2>2, <2>3
  <2> QED
    BY <1>1, <2>1, <2>2, <2>4
<1>4. UnitsTaken' <= units' /\ (inUnit' => UnitsTaken' < units')
  BY <1>2
<1>5. \A i \in DOMAIN wire' : IsVideo(wire'[i]) =>
        /\ UnitsTaken' < wire'[i].unit /\ wire'[i].unit <= units'
        /\ wire'[i].final /\ inUnit' => wire'[i].unit < units'
  <2> SUFFICES ASSUME NEW i \in DOMAIN wire', IsVideo(wire'[i])
               PROVE  /\ UnitsTaken' < wire'[i].unit /\ wire'[i].unit <= units'
                      /\ wire'[i].final /\ inUnit' => wire'[i].unit < units'
    OBVIOUS
  <2>1. i + 1 \in DOMAIN wire /\ wire'[i] = wire[i + 1] /\ 1 < i + 1
    BY <1>1
  <2> QED
    BY <1>1, <2>1
<1>6. \A i, j \in DOMAIN wire' : i < j /\ IsVideo(wire'[i]) /\ IsVideo(wire'[j]) =>
        /\ wire'[i].unit <= wire'[j].unit
        /\ wire'[i].final => wire'[i].unit < wire'[j].unit
  BY <1>1
<1>7. ASSUME NEW n \in Nat, UnitsTaken' < n,
             IF inUnit' THEN n < units' ELSE n <= units'
      PROVE  \E i \in DOMAIN wire' : IsVideo(wire'[i]) /\ wire'[i].final /\ wire'[i].unit = n
  <2>1. UnitsTaken < n
    BY <1>1, <1>2, <1>7
  <2>2. PICK i \in DOMAIN wire : IsVideo(wire[i]) /\ wire[i].final /\ wire[i].unit = n
    BY <1>7, <2>1
  <2>3. i # 1
    BY <1>1, <1>7, <2>2
  <2> QED
    BY <1>1, <2>2, <2>3
<1> QED
  BY <1>3, <1>4, <1>5, <1>6, <1>7, Zenon

\* The worker goes on, between units, without touching one.
LEMMA BetweenUnits ==
  ASSUME OrderInv, worker' \notin {"end", "ended", "build", "load", "send"},
         worker \notin {"end", "ended", "build", "load", "send"},
         UNCHANGED <<wire, assembling, units, inUnit, out, authed>>,
         worker' \in {"accept", "accepted", "storing", "handshake", "authenticate"} =>
           worker \in {"accept", "accepted", "storing", "handshake", "authenticate"}
  PROVE  OrderInv'
<1> USE DEF OrderInv
<1>1. UnitsTaken' = UnitsTaken
  BY DEF UnitsTaken
<1>2. SendingInv' /\ ClientInv'
  BY DEF SendingInv, ClientInv
<1>3. WireInv'
  BY <1>1, Zenon DEF WireInv
<1> QED
  BY <1>2, <1>3

\* Of what ReceiveMessage makes of a frame, only a final one completes a unit.
LEMMA Completes ==
  ASSUME ClientInv, wire \in Seq(Frame), wire # <<>>
  PROVE  /\ Message = "video" => IsVideo(wire[1]) /\ wire[1].final
         /\ IsVideo(wire[1]) /\ wire[1].final => Message \in {"video", "bad"}
         /\ Message \notin {"bad", "close", "bye", "text", "auth", "wrong"} =>
              Assembling(wire[1]) \in {"none", "video"}
<1>1. 1 \in DOMAIN wire /\ Head(wire) = wire[1] /\ wire[1] \in Frame
  BY Behind
<1>2. wire[1].final \/ IsVideo(wire[1])
  BY <1>1 DEF ClientInv
<1> QED
  BY <1>1, <1>2 DEF ClientInv, Message, Assembled, Assembling, IsVideo, Frame

\* The client numbers its units, and ends one before it begins the next.
LEMMA FrameSent ==
  ASSUME WireInv, wire \in Seq(Frame), UNCHANGED UnitsTaken,
         UnitsTaken \in Nat, units \in Nat,
         NEW frame \in Frame, wire' = Append(wire, frame), frame.unit = units',
         \/ ~IsVideo(frame) /\ UNCHANGED <<units, inUnit>>
         \/ /\ IsVideo(frame) /\ inUnit' = ~frame.final
            /\ units' = IF inUnit THEN units ELSE units + 1
  PROVE  WireInv'
<1> USE DEF WireInv
<1> DEFINE last == Len(wire) + 1
<1>1. /\ \A i \in DOMAIN wire : i \in DOMAIN wire' /\ wire'[i] = wire[i] /\ i < last
      /\ DOMAIN wire' = DOMAIN wire \cup {last} /\ wire'[last] = frame
      /\ DOMAIN wire' \subseteq Nat
  BY Added
<1> HIDE DEF last
<1>2. IsVideo(frame) => (inUnit' <=> ~frame.final)
  BY Zenon
<1>3. UnitsTaken' <= units' /\ (inUnit' => UnitsTaken' < units')
  OBVIOUS
<1>4. \A i \in DOMAIN wire : wire[i].unit \in Nat
  <2>1. \A i \in DOMAIN wire : wire[i] \in Frame
    BY Added
  <2> QED
    BY <2>1, Bounds DEF Frame
<1>5. \A i \in DOMAIN wire' : IsVideo(wire'[i]) =>
        /\ UnitsTaken' < wire'[i].unit /\ wire'[i].unit <= units'
        /\ wire'[i].final /\ inUnit' => wire'[i].unit < units'
  <2> SUFFICES ASSUME NEW i \in DOMAIN wire', IsVideo(wire'[i])
               PROVE  /\ UnitsTaken' < wire'[i].unit /\ wire'[i].unit <= units'
                      /\ wire'[i].final /\ inUnit' => wire'[i].unit < units'
    OBVIOUS
  <2>1. CASE i = last
    <3>1. IsVideo(frame) /\ wire'[i] = frame
      BY <1>1, <2>1
    <3>2. UnitsTaken < units' /\ units' \in Nat
      BY <3>1
    <3> QED
      BY <1>2, <3>1, <3>2
  <2>2. CASE i \in DOMAIN wire
    BY <1>1, <1>4, <2>2
  <2> QED
    BY <1>1, <2>1, <2>2
<1>6. \A i, j \in DOMAIN wire' : i < j /\ IsVideo(wire'[i]) /\ IsVideo(wire'[j]) =>
        /\ wire'[i].unit <= wire'[j].unit
        /\ wire'[i].final => wire'[i].unit < wire'[j].unit
  <2> SUFFICES ASSUME NEW i \in DOMAIN wire', NEW j \in DOMAIN wire', i < j,
                      IsVideo(wire'[i]), IsVideo(wire'[j])
               PROVE  /\ wire'[i].unit <= wire'[j].unit
                      /\ wire'[i].final => wire'[i].unit < wire'[j].unit
    OBVIOUS
  <2>1. i \in DOMAIN wire
    BY <1>1
  <2>2. CASE j = last
    BY <1>1, <1>4, <2>1, <2>2
  <2>3. CASE j \in DOMAIN wire
    BY <1>1, <2>1, <2>3
  <2> QED
    BY <1>1, <2>2, <2>3
<1>7. ASSUME NEW n \in Nat, UnitsTaken' < n,
             IF inUnit' THEN n < units' ELSE n <= units'
      PROVE  \E i \in DOMAIN wire' : IsVideo(wire'[i]) /\ wire'[i].final /\ wire'[i].unit = n
  <2>1. CASE IF inUnit THEN n < units ELSE n <= units
    BY <1>1, <1>7, <2>1
  <2>2. CASE ~(IF inUnit THEN n < units ELSE n <= units)
    <3>1. IsVideo(frame) /\ frame.final /\ n = units'
      BY <1>7, <1>2, <2>2
    <3> QED
      BY <1>1, <3>1
  <2> QED
    BY <2>1, <2>2
<1> QED
  BY <1>3, <1>5, <1>6, <1>7, Zenon

\* The units leave in order: what the worker has in its hands follows what it
\* sent last, and the wire holds what follows that.
LEMMA OrderKept == IInv /\ OrderInv /\ Next => OrderInv'
<1> SUFFICES ASSUME IInv, OrderInv, Next, worker' \notin {"end", "ended"}
             PROVE  OrderInv'
  BY DEF OrderInv
<1>1. /\ wire \in Seq(Frame) /\ units \in Nat /\ UnitsTaken \in Nat
      /\ unit \in [number : 0..MaxUnits, sent : 0..Datagrams]
      /\ units' \in 0..MaxUnits /\ Datagrams \in Nat
      /\ worker \in {"build", "load", "send"} => unit.sent < Datagrams
  BY UnitsKept, Bounds DEF IInv, UnitInv, UnitsTaken
<1>2. worker \notin {"end", "ended"}
  <2>1. worker \in {"end", "ended"} /\ Worker => worker' = "ended"
    BY DEF Worker, Accept, AcceptFails, SeeStopping, StoreClient, PerformHandshake,
       Authenticate, ReceiveMessage, TurnLoop, ClientFails, EndClient,
       ConsumeKeyframeRequest, TellClient, BuildLanVideoDatagrams, LoadSocket,
       SendDatagram, SendFails
  <2> QED
    BY <2>1, UnitFrame
<1>3. SendingInv /\ ClientInv /\ WireInv
  BY <1>2 DEF OrderInv
<1>4. CASE /\ UNCHANGED <<assembling, unit, out, worker, wire, units, inUnit>>
           /\ authed' = authed
  BY <1>3, <1>4, Zenon DEF OrderInv, SendingInv, ClientInv, WireInv, UnitsTaken
<1>5. CASE ControlThread \/ Configure \/ StopAll \/ ShutDown \/ Connect \/ Disconnect
           \/ ReceiverSends \/ ReceiverCloses
  <2>1. CASE ControlThread
    BY <1>4, <2>1, Zenon DEF ControlThread, ReceiveControl, TakeControl, HandleControl,
       PingFails, LeaveControlLoop
  <2>2. CASE Configure
    BY <1>4, <2>2, Zenon DEF Configure, ConfigureReceiver, ConnectControl, ConfigureFails,
       ReceiveReply, PerformPairing, OpenVideoSocket
  <2>3. CASE StopAll
    BY <1>4, <2>3, Zenon DEF StopAll, Halt, Join, CloseSockets, JoinWorker
  <2> QED
    BY <1>4, <1>5, <2>1, <2>2, <2>3, Zenon DEF ShutDown, Connect, Disconnect,
       ReceiverSends, ReceiverCloses
<1>6. CASE Accept \/ AcceptFails \/ SeeStopping \/ StoreClient \/ PerformHandshake
  BY <1>6, BetweenUnits DEF Accept, AcceptFails, SeeStopping, StoreClient, PerformHandshake
<1>7. CASE TurnLoop \/ ConsumeKeyframeRequest \/ TellClient
  BY <1>7, BetweenUnits DEF TurnLoop, ConsumeKeyframeRequest, TellClient
<1>8. CASE ClientFails \/ EndClient \/ SendFails
  BY <1>8 DEF ClientFails, EndClient, SendFails, GiveUp
<1>9. ASSUME TakeFrame
      PROVE  /\ wire # <<>> /\ wire' = Tail(wire) /\ Head(wire) = wire[1]
             /\ Head(wire) \in Frame /\ assembling' = Assembling(wire[1])
             /\ \A i \in DOMAIN wire' : wire'[i].final \/ IsVideo(wire'[i])
  <2>1. wire # <<>> /\ wire' = Tail(wire) /\ assembling' = Assembling(Head(wire))
    BY <1>9, Zenon DEF TakeFrame
  <2>2. Head(wire) = wire[1] /\ Head(wire) \in Frame
    BY <1>1, <2>1, Behind
  <2>3. \A i \in DOMAIN wire' : i + 1 \in DOMAIN wire /\ wire'[i] = wire[i + 1]
    BY <1>1, <2>1, Behind
  <2> QED
    BY <1>3, <2>1, <2>2, <2>3 DEF ClientInv
<1>10. CASE Authenticate
  <2>1. /\ worker = "authenticate" /\ TakeFrame
        /\ UNCHANGED <<units, inUnit, unit, out>>
        /\ worker' = CASE Message = "none" -> worker
                       [] Message = "auth" -> "take"
                       [] OTHER -> "end"
        /\ authed' = (Message = "auth")
    BY <1>10, Zenon DEF Authenticate
  <2>2. worker' \in {"authenticate", "take"} /\ (worker' = "authenticate" => ~authed')
    BY <2>1
  <2>3. units = 0 /\ ~IsVideo(wire[1])
    <3>1. units = 0
      BY <1>3, <2>1 DEF ClientInv
    <3>2. 1 \in DOMAIN wire
      BY <1>1, <1>9, <2>1, Behind
    <3>3. wire[1].unit \in Nat
      BY <1>9, <2>1, Bounds DEF Frame
    <3> QED
      BY <1>1, <1>3, <3>1, <3>2, <3>3 DEF WireInv
  <2>4. UnitsTaken' = UnitsTaken
    BY <2>1, <2>2 DEF UnitsTaken
  <2>5. WireInv'
    BY <1>1, <1>3, <1>9, <2>1, <2>3, <2>4, FrameTaken
  <2>6. assembling' \in {"none", "video"}
    <3>1. wire[1].final
      BY <1>1, <1>3, <1>9, <2>1, <2>3, Behind DEF ClientInv
    <3> QED
      BY <1>3, <1>9, <2>1, <2>3, <3>1 DEF ClientInv, Assembling, IsVideo, Frame
  <2>7. SendingInv' /\ ClientInv'
    BY <1>3, <1>9, <2>1, <2>2, <2>3, <2>6 DEF SendingInv, ClientInv
  <2> QED
    BY <2>5, <2>7 DEF OrderInv
<1>11. CASE ReceiveMessage
  <2>1. /\ worker = "receive" /\ TakeFrame
        /\ UNCHANGED <<units, inUnit, out, authed>>
        /\ worker' = CASE Message = "none" -> worker
                       [] Message = "stats" -> "loop"
                       [] Message = "video" -> "build"
                       [] Message \in {"close", "bye"} -> "end"
                       [] OTHER -> "end"
        /\ unit' = IF Message = "video" THEN [number |-> Head(wire).unit, sent |-> 0]
                                        ELSE unit
    BY <1>11, Zenon DEF ReceiveMessage
  <2>2. Message \in {"none", "stats", "video"}
    BY <2>1
  <2>3. assembling' \in {"none", "video"}
    BY <1>1, <1>3, <1>9, <2>1, <2>2, Completes
  <2>4. UnitsTaken = out.number /\ out.sent = Datagrams
    BY <1>3, <2>1 DEF UnitsTaken, SendingInv
  <2>5. CASE Message = "video"
    <3>1. worker' = "build" /\ unit' = [number |-> wire[1].unit, sent |-> 0]
      BY <1>9, <2>1, <2>5
    <3>2. IsVideo(wire[1]) /\ wire[1].final
      BY <1>1, <1>3, <1>9, <2>1, <2>5, Completes
    <3>3. UnitsTaken' = wire[1].unit
      BY <3>1 DEF UnitsTaken
    <3>4. WireInv' /\ UnitsTaken' = UnitsTaken + 1
      BY <1>1, <1>3, <1>9, <2>1, <3>2, <3>3, UnitTaken
    <3>5. SendingInv' /\ ClientInv'
      BY <1>9, <2>1, <2>3, <2>4, <3>1, <3>3, <3>4 DEF SendingInv, ClientInv
    <3> QED
      BY <3>4, <3>5 DEF OrderInv
  <2>6. CASE Message # "video"
    <3>1. worker' \in {"receive", "loop"} /\ unit' = unit
      BY <2>1, <2>2, <2>6
    <3>2. ~(IsVideo(wire[1]) /\ wire[1].final)
      BY <1>1, <1>3, <1>9, <2>1, <2>2, <2>6, Completes
    <3>3. UnitsTaken' = UnitsTaken
      BY <2>1, <3>1 DEF UnitsTaken
    <3>4. WireInv'
      BY <1>1, <1>3, <1>9, <2>1, <3>2, <3>3, FrameTaken
    <3>5. SendingInv' /\ ClientInv'
      BY <1>9, <2>1, <2>3, <2>4, <3>1 DEF SendingInv, ClientInv
    <3> QED
      BY <3>4, <3>5 DEF OrderInv
  <2> QED
    BY <2>5, <2>6
<1>12. CASE BuildLanVideoDatagrams \/ LoadSocket
  <2>1. /\ UNCHANGED <<wire, assembling, units, inUnit, unit, out, authed>>
        /\ worker \in {"build", "load"} /\ worker' \in {"load", "send"}
    BY <1>12 DEF BuildLanVideoDatagrams, LoadSocket
  <2>2. UnitsTaken' = UnitsTaken
    BY <2>1 DEF UnitsTaken
  <2>3. SendingInv' /\ ClientInv'
    BY <1>3, <2>1 DEF SendingInv, ClientInv
  <2>4. WireInv'
    BY <1>3, <2>1, <2>2, Zenon DEF WireInv
  <2> QED
    BY <2>3, <2>4 DEF OrderInv
<1>13. CASE SendDatagram
  <2>1. /\ UNCHANGED <<wire, assembling, units, inUnit, authed>>
        /\ worker = "send" /\ unit' = [unit EXCEPT !.sent = @ + 1]
        /\ out' = [number |-> unit.number, sent |-> unit'.sent]
        /\ IF unit'.sent = Datagrams THEN worker' = "take" ELSE worker' = worker
    BY <1>13 DEF SendDatagram, LastSent
  <2>2. /\ unit'.number = unit.number /\ unit'.sent = unit.sent + 1
        /\ out'.number = unit.number /\ out'.sent = unit.sent + 1
    BY <1>1, <2>1
  <2>3. UnitsTaken' = UnitsTaken
    BY <2>1, <2>2 DEF UnitsTaken
  <2>4. unit.sent \in Nat
    BY <1>1
  <2>5. SendingInv' /\ ClientInv'
    BY <1>1, <1>3, <2>1, <2>2, <2>4 DEF SendingInv, ClientInv
  <2>6. WireInv'
    BY <1>3, <2>1, <2>3, Zenon DEF WireInv
  <2> QED
    BY <2>5, <2>6 DEF OrderInv
<1>14. CASE SendAuth \/ SendVideo \/ SendOther
  <2>1. UNCHANGED <<assembling, unit, out, worker, authed>> /\ UNCHANGED UnitsTaken
    BY <1>14, Zenon DEF SendAuth, SendVideo, SendOther, PutFrame, UnitsTaken
  <2>2. PICK frame \in Frame :
          /\ wire' = Append(wire, frame) /\ frame.unit = units'
          /\ \/ ~IsVideo(frame) /\ frame.final /\ UNCHANGED <<units, inUnit>>
             \/ /\ authed /\ IsVideo(frame) /\ inUnit' = ~frame.final
                /\ units' = IF inUnit THEN units ELSE units + 1
    <3>1. ASSUME NEW opcode \in {"auth", "wrong", "stats", "bye", "text", "video", "close",
                                 "ping", "continuation"},
                 NEW final \in BOOLEAN, PutFrame(opcode, final)
          PROVE  \E frame \in Frame :
                   /\ wire' = Append(wire, frame) /\ frame.unit = units'
                   /\ frame.opcode = opcode /\ frame.final = final
      <4> DEFINE frame == [opcode |-> opcode, final |-> final, unit |-> units']
      <4>1. frame \in Frame
        BY <1>1 DEF Frame
      <4>2. wire' = Append(wire, frame)
        BY <3>1, Zenon DEF PutFrame
      <4> QED
        BY <4>1, <4>2
    <3>2. CASE SendVideo
      <4>1. PICK final \in BOOLEAN :
              /\ PutFrame(IF inUnit THEN "continuation" ELSE "video", final)
              /\ inUnit' = ~final
        BY <3>2, Zenon DEF SendVideo
      <4>2. authed /\ units' = IF inUnit THEN units ELSE units + 1
        BY <3>2, Zenon DEF SendVideo
      <4>3. PICK frame \in Frame :
              /\ wire' = Append(wire, frame) /\ frame.unit = units'
              /\ frame.opcode = IF inUnit THEN "continuation" ELSE "video"
              /\ frame.final = final
        BY <3>1, <4>1
      <4>4. IsVideo(frame)
        BY <4>3 DEF IsVideo
      <4> QED
        BY <4>1, <4>2, <4>3, <4>4, Zenon
    <3>3. CASE SendAuth \/ SendOther
      <4>1. UNCHANGED <<units, inUnit>>
        BY <3>3, Zenon DEF SendAuth, SendOther
      <4>2. PICK opcode \in {"auth", "wrong", "stats", "bye", "text", "ping", "close"} :
              PutFrame(opcode, TRUE)
        BY <3>3, Zenon DEF SendAuth, SendOther
      <4>5. opcode \in {"auth", "wrong", "stats", "bye", "text", "video", "close", "ping",
                       "continuation"}
        BY <4>2
      <4>6. \A final \in BOOLEAN : PutFrame(opcode, final) =>
              \E frame \in Frame :
                /\ wire' = Append(wire, frame) /\ frame.unit = units'
                /\ frame.opcode = opcode /\ frame.final = final
        BY <3>1, <4>5, Zenon
      <4>3. PICK frame \in Frame :
              /\ wire' = Append(wire, frame) /\ frame.unit = units'
              /\ frame.opcode = opcode /\ frame.final = TRUE
        BY <4>2, <4>6, Zenon
      <4>4. ~IsVideo(frame)
        BY <4>2, <4>3 DEF IsVideo
      <4> QED
        BY <4>1, <4>3, <4>4, Zenon
    <3> QED
      BY <1>14, <3>2, <3>3
  <2>3. WireInv'
    BY <1>1, <1>3, <2>1, <2>2, FrameSent
  <2>4. \A i \in DOMAIN wire' : wire'[i].final \/ IsVideo(wire'[i])
    <3>1. /\ \A i \in DOMAIN wire : wire'[i] = wire[i]
          /\ DOMAIN wire' = DOMAIN wire \cup {Len(wire) + 1}
          /\ wire'[Len(wire) + 1] = frame
      BY <1>1, <2>2, Added
    <3> QED
      BY <1>3, <2>2, <3>1 DEF ClientInv
  <2>5. SendingInv' /\ ClientInv'
    BY <1>3, <2>1, <2>2, <2>4 DEF SendingInv, ClientInv
  <2> QED
    BY <2>3, <2>5 DEF OrderInv
<1> QED
  BY <1>5, <1>6, <1>7, <1>8, <1>10, <1>11, <1>12, <1>13, <1>14, Zenon
     DEF Next, Worker, Environment

\* The Receiver of the datagrams gets the units the client completed, each whole
\* before the next and none twice; only the last may be cut short.
THEOREM UnitsLeaveInOrder == Spec => DatagramsInOrder
<1> DEFINE Step == out' # out =>
                     \/ out'.number = out.number /\ out'.sent = out.sent + 1
                     \/ out'.number = out.number + 1 /\ out'.sent = 1
                          /\ out.sent = Datagrams
<1>1. Init => OrderInv
  BY Bounds DEF Init, OrderInv, SendingInv, ClientInv, WireInv, UnitsTaken
<1>2. IInv /\ OrderInv /\ [Next]_vars => OrderInv'
  <2>1. ASSUME OrderInv, UNCHANGED vars PROVE OrderInv'
    <3>1. /\ UNCHANGED <<assembling, unit, out, worker, wire, units, inUnit>>
          /\ authed' = authed
      BY <2>1, Zenon DEF vars
    <3>2. UnitsTaken' = UnitsTaken
      BY <3>1, Zenon DEF UnitsTaken
    <3>3. SendingInv' = SendingInv /\ ClientInv' = ClientInv /\ WireInv' = WireInv
      BY <3>1, <3>2 DEF SendingInv, ClientInv, WireInv
    <3> QED
      BY <2>1, <3>1, <3>3 DEF OrderInv
  <2> QED
    BY <2>1, OrderKept
<1>3. IInv /\ OrderInv /\ [Next]_vars => [Step]_vars
  <2> SUFFICES ASSUME IInv, OrderInv, Next, out' # out PROVE Step
    OBVIOUS
  <2>1. SendDatagram
    <3>1. Worker
      BY UnitFrame
    <3> QED
      BY <3>1, Zenon DEF Worker, Accept, AcceptFails, SeeStopping, StoreClient,
         PerformHandshake, Authenticate, ReceiveMessage, TurnLoop, ClientFails, EndClient,
         ConsumeKeyframeRequest, TellClient, BuildLanVideoDatagrams, LoadSocket, SendFails
  <2>2. /\ worker = "send" /\ unit \in [number : 0..MaxUnits, sent : 0..Datagrams]
        /\ unit' = [unit EXCEPT !.sent = @ + 1]
        /\ out' = [number |-> unit.number, sent |-> unit'.sent]
    BY <2>1, Zenon DEF SendDatagram, IInv, UnitInv
  <2>3. out'.number = unit.number /\ out'.sent = unit.sent + 1
    BY <2>2
  <2>4. SendingInv
    BY <2>2 DEF OrderInv
  <2> QED
    BY <2>2, <2>3, <2>4, Bounds DEF SendingInv
<1> QED
  BY <1>1, <1>2, <1>3, Invariance, PTL DEF Spec, DatagramsInOrder

-----------------------------------------------------------------------------
(* Stopping: what main waits for in its joins.                                 *)

Closed == {"joinWorker", "lastHalt", "lastJoin", "stopped"}

WithClient == {"handshake", "authenticate", "take", "tell", "loop", "receive", "build",
               "load", "send"}

\* Within a turn of the loop of RunClient.
Serving == {"receive", "build", "load", "send"}

\* A client that is served is one that Stop finds in client_ or whose socket is
\* closed already, or the worker has yet to look at stopping_ and does not read on.
StoppingInv ==
  /\ main \in Closed \cup {"close"} => stopping
  /\ main \in Closed => ~listener /\ (Linked => worker \notin Serving)
  /\ worker \in WithClient => client = "open" \/ accepted = "closed"
  /\ main \in {"join", "lastJoin"} => ~running

\* After Stop nothing is left of either thread.
StoppedInv ==
  /\ main \in {"lastHalt", "lastJoin", "stopped"} => worker = "ended"
  /\ main \in {"join", "lastJoin", "stopped"} => control = 0 /\ video = 0
  /\ main = "stopped" => thread = "none" /\ ~keyframe

\* The worker's steps keep StoppingInv: none begins to read from a client once
\* stopping_ is set, and an accepted one is stored before it is served.
LEMMA WorkerStops == PlaceTypes /\ StoppingInv /\ Worker => StoppingInv'
<1> SUFFICES ASSUME PlaceTypes, StoppingInv, Worker PROVE StoppingInv'
  OBVIOUS
<1> USE DEF PlaceTypes, StoppingInv, Closed, WithClient, Serving, Linked
<1>1. CASE Accept \/ AcceptFails \/ SeeStopping \/ StoreClient \/ PerformHandshake
  BY <1>1 DEF Accept, AcceptFails, SeeStopping, StoreClient, PerformHandshake
<1>2. CASE Authenticate
  BY <1>2 DEF Authenticate, TakeFrame
<1>3. CASE ReceiveMessage
  BY <1>3 DEF ReceiveMessage, TakeFrame
<1>4. CASE TurnLoop \/ ClientFails \/ EndClient
  BY <1>4 DEF TurnLoop, ClientFails, EndClient
<1>5. CASE ConsumeKeyframeRequest \/ TellClient
  BY <1>5 DEF ConsumeKeyframeRequest, TellClient
<1>6. CASE BuildLanVideoDatagrams \/ LoadSocket \/ SendDatagram \/ SendFails
  BY <1>6 DEF BuildLanVideoDatagrams, LoadSocket, SendDatagram, SendFails, GiveUp
<1> QED
  BY <1>1, <1>2, <1>3, <1>4, <1>5, <1>6 DEF Worker

LEMMA StoppingKept == PlaceTypes /\ StoppingInv /\ Next => StoppingInv'
<1> SUFFICES ASSUME PlaceTypes, StoppingInv, Next PROVE StoppingInv'
  OBVIOUS
<1> USE DEF PlaceTypes, StoppingInv, Closed, WithClient, Serving, Linked
<1>1. CASE Worker
  BY <1>1, WorkerStops
<1>2. CASE ControlThread
  BY <1>2 DEF ControlThread, ReceiveControl, TakeControl, HandleControl, PingFails, LosePeer,
     LeaveControlLoop
<1>3. CASE PerformPairing
  BY <1>3 DEF PerformPairing
<1>4. CASE ConfigureReceiver \/ ConnectControl \/ ConfigureFails \/ ReceiveReply
             \/ OpenVideoSocket
  BY <1>4 DEF ConfigureReceiver, ConnectControl, ConfigureFails, ReceiveReply, OpenVideoSocket
<1>5. CASE Halt \/ Join \/ JoinWorker
  BY <1>5 DEF Halt, Join, JoinWorker
<1>6. CASE CloseSockets
  BY <1>6 DEF CloseSockets, CloseClient
<1>7. CASE ShutDown \/ Connect \/ Disconnect
  BY <1>7 DEF ShutDown, Connect, Disconnect
<1>8. CASE SendAuth \/ SendVideo \/ SendOther \/ ReceiverSends \/ ReceiverCloses
  <2>1. UNCHANGED <<main, stopping, listener, worker, client, accepted, running>>
    BY <1>8, Zenon DEF SendAuth, SendVideo, SendOther, PutFrame, ReceiverSends, ReceiverCloses
  <2> QED
    BY <2>1
<1> QED
  BY <1>1, <1>2, <1>3, <1>4, <1>5, <1>6, <1>7, <1>8 DEF Next, Configure, StopAll, Environment

LEMMA StoppedKept == PlaceTypes /\ StoppedInv /\ Next => StoppedInv'
<1> SUFFICES ASSUME PlaceTypes, StoppedInv, Next PROVE StoppedInv'
  OBVIOUS
<1> USE DEF PlaceTypes, StoppedInv
<1>1. CASE Worker
  <2>1. UNCHANGED <<main, control, video, thread>> /\ (worker = "ended" => worker' = "ended")
    BY <1>1, Zenon DEF Worker, Accept, AcceptFails, SeeStopping, StoreClient,
       PerformHandshake, Authenticate, ReceiveMessage, TurnLoop, ClientFails, EndClient,
       ConsumeKeyframeRequest, TellClient, BuildLanVideoDatagrams, LoadSocket, SendDatagram,
       SendFails
  <2>2. ~keyframe => ~keyframe'
    BY <1>1, Zenon DEF Worker, Accept, AcceptFails, SeeStopping, StoreClient,
       PerformHandshake, Authenticate, ReceiveMessage, TurnLoop, ClientFails, EndClient,
       ConsumeKeyframeRequest, TellClient, AfterTelling, BuildLanVideoDatagrams, LoadSocket,
       SendDatagram, SendFails
  <2> QED
    BY <2>1, <2>2
<1>2. CASE ControlThread
  BY <1>2 DEF ControlThread, ReceiveControl, TakeControl, HandleControl, PingFails, LosePeer,
     LeaveControlLoop
<1>3. CASE PerformPairing
  BY <1>3 DEF PerformPairing
<1>4. CASE ConfigureReceiver \/ ConnectControl \/ ConfigureFails \/ ReceiveReply
             \/ OpenVideoSocket
  BY <1>4 DEF ConfigureReceiver, ConnectControl, ConfigureFails, ReceiveReply, OpenVideoSocket
<1>5. CASE StopAll
  BY <1>5 DEF StopAll, Halt, Join, JoinWorker, CloseSockets
<1>6. CASE ShutDown
  BY <1>6 DEF ShutDown
<1>7. CASE Environment /\ ~ShutDown
  <2>1. UNCHANGED <<main, worker, control, video, thread, keyframe>>
    BY <1>7, Zenon DEF Environment, Connect, Disconnect, SendAuth, SendVideo, SendOther,
       PutFrame, ReceiverSends, ReceiverCloses
  <2> QED
    BY <2>1
<1> QED
  BY <1>1, <1>2, <1>3, <1>4, <1>5, <1>6, <1>7 DEF Next, Configure

\* The safety half of StopEnds. While Stop joins the worker, that one is in no accept
\* of an open listener and, with the client's socket open, in no turn of the loop of
\* RunClient, where reads have no time-out: of a client that was stored after Stop
\* had looked for it, only the handshake and the first message are still read, for
\* which StopEnds has its exception. The control thread is told to leave its loop.
StopServesNobody ==
  /\ main = "joinWorker" => (worker = "accept" => ~listener) /\ (Linked => worker \notin Serving)
  /\ main \in {"join", "lastJoin"} => ~(thread = "receive" /\ running)

\* Stop leaves neither thread, no socket to the Receiver and no request.
NothingLeft ==
  main = "stopped" =>
    worker = "ended" /\ thread = "none" /\ control = 0 /\ video = 0 /\ ~keyframe

\* Whenever WebSocketServer::Stop meets the client that is being accepted, and whatever the
\* Receiver does, neither join waits for a thread that goes on serving.
THEOREM StopsServeNobody == Spec => []StopServesNobody
<1>1. Init => StoppingInv
  BY DEF Init, StoppingInv, Closed, WithClient, Linked
<1>2. IInv /\ StoppingInv /\ [Next]_vars => StoppingInv'
  <2>1. StoppingInv /\ UNCHANGED vars => StoppingInv'
    <3> SUFFICES ASSUME StoppingInv, UNCHANGED vars PROVE StoppingInv'
      OBVIOUS
    <3>1. UNCHANGED <<main, stopping, listener, worker, client, accepted, running>>
      BY Zenon DEF vars
    <3> QED
      BY <3>1 DEF StoppingInv, Linked
  <2> QED
    BY <2>1, StoppingKept DEF IInv
<1>3. StoppingInv => StopServesNobody
  BY DEF StoppingInv, StopServesNobody, Closed
<1> QED
  BY <1>1, <1>2, <1>3, Invariance, PTL DEF Spec

\* What has been stopped stays so: once Stop has returned no thread of the relay runs
\* and no socket of a former configuration is open.
THEOREM StopsLeaveNothing == Spec => []NothingLeft
<1>1. Init => StoppedInv
  BY DEF Init, StoppedInv
<1>2. IInv /\ StoppedInv /\ [Next]_vars => StoppedInv'
  <2>1. StoppedInv /\ UNCHANGED vars => StoppedInv'
    <3> SUFFICES ASSUME StoppedInv, UNCHANGED vars PROVE StoppedInv'
      OBVIOUS
    <3>1. UNCHANGED <<main, worker, control, video, thread, keyframe>>
      BY Zenon DEF vars
    <3> QED
      BY <3>1 DEF StoppedInv
  <2> QED
    BY <2>1, StoppedKept DEF IInv
<1>3. StoppedInv => NothingLeft
  BY DEF StoppedInv, NothingLeft
<1> QED
  BY <1>1, <1>2, <1>3, Invariance, PTL DEF Spec
==============================================================================
