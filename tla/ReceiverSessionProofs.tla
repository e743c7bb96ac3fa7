------------------------ MODULE ReceiverSessionProofs ------------------------
(***************************************************************************)
(* What pairing and authentication guarantee for any extensions, contracts *)
(* and bounds: the inductive invariant IInv of ReceiverSession, and what   *)
(* follows from it.  The frame lemmas say what each part of the system     *)
(* leaves alone, so that a lemma about an invariant looks only at the      *)
(* actions that can disturb it.                                            *)
(***************************************************************************)
EXTENDS ReceiverSession, TLAPS

\* The Receiver starts without trust, authorisation and connection.
LEMMA InitIInv == Init => IInv
<1>. SUFFICES ASSUME Init PROVE IInv
  OBVIOUS
<1>1. TypeOK
  <2>1. ReceiverTypes /\ (trust # None => trust.credential \in 1..version)
    BY BoundsAssumption DEF Init, ReceiverTypes
  <2>2. ControlTypes
    BY DEF Init, ControlTypes
  <2>3. SenderTypes
    BY BoundsAssumption DEF Init, SenderTypes
  <2>4. HistoryTypes
    BY BoundsAssumption DEF Init, HistoryTypes
  <2>. QED
    BY <2>1, <2>2, <2>3, <2>4 DEF TypeOK
<1>2. WorkerInv /\ ExchangeInv /\ RequestInv /\ GrantInv /\ SessionInv /\ SourceInv
  BY BoundsAssumption DEF Init, WorkerInv, ExchangeInv, RequestInv, GrantInv,
     SessionInv, SourceInv
<1>3. OwnerInv
  BY BoundsAssumption DEF Init, OwnerInv, Codes
<1>. QED
  BY <1>1, <1>2, <1>3 DEF IInv

\* An exchange that moves on is still about the same.
LEMMA NextStageKeeps ==
  ASSUME exchange \in [Senders -> Exchange \cup {None}],
         NEW s \in Senders, exchange[s] # None,
         NEW stage \in {"upgrading", "open", "awaiting_proof",
                        "awaiting_result", "up"},
         NextStage(s, stage)
  PROVE  /\ exchange' \in [Senders -> Exchange \cup {None}]
         /\ \A t \in Senders : exchange[t] # None =>
              /\ exchange'[t] # None
              /\ exchange'[t].goal = exchange[t].goal
              /\ exchange'[t].code = exchange[t].code
         /\ \A t \in Senders : exchange'[t] # None => exchange[t] # None
<1>1. exchange[s] \in Exchange
  OBVIOUS
<1>2. DEFINE e == [exchange[s] EXCEPT !.stage = stage]
<1>3. e \in Exchange /\ e.goal = exchange[s].goal /\ e.code = exchange[s].code
  BY <1>1 DEF Exchange
<1>4. e # None
  BY <1>3, NoneAssumption
<1>5. exchange' = [exchange EXCEPT ![s] = e]
  BY DEF NextStage
<1>. QED
  BY <1>3, <1>4, <1>5

-----------------------------------------------------------------------------
\* What the steps of the extensions leave alone.
LEMMA ExtensionFrame ==
  ASSUME NEW s \in Senders, Setup(s) \/ Exchanges(s)
  PROVE  UNCHANGED <<trustVars, mediaVars, desired, ui, worker, socket, peer,
                     challenge, grantVars, served>>
<1>1. CASE Setup(s)
  BY <1>1 DEF Setup, ShowCode, ForgetReceiver, OpenForPairing, StartCapture,
     OpenForCapture, StopCapture, linkVars
<1>2. CASE Exchanges(s)
  BY <1>2 DEF Exchanges, SendChallenge, ReceivePairProof, ReceiveAuthProof,
     ReceivePaired, ReceiveReady, ReceiveError, SeeClose, LoseConnection, linkVars
<1>. QED
  BY <1>1, <1>2

\* What the accept loop leaves alone.
LEMMA ConnectionsFrame ==
  ASSUME Connections
  PROVE  /\ UNCHANGED <<trustVars, latest, contract, author, ui, codeVars,
                        capture, reply, grantVars, served>>
         /\ UNCHANGED <<challenge, previous>> \/ CloseConnection
  BY DEF Connections, AcceptWebSocket, ReadUpgrade, AbandonConnection,
     CloseConnection, StopAccepting, AddressChanged, mediaVars, linkVars,
     senderVars

\* What the authentication leaves alone.
LEMMA AuthenticationFrame ==
  ASSUME Authentication
  PROVE  /\ UNCHANGED <<expired, desired, ui, socket, peer, live, codeVars,
                        capture, exchange, issued, forgotten>>
         /\ HandlePairFinal \/ UNCHANGED <<trust, version, pending, consumed, used>>
         /\ HandleAuthFinal \/ FailDecoder \/ UNCHANGED mediaVars
         /\ SendReady \/ UNCHANGED served
<1>1. CASE \/ HandlePairChallenge \/ HandlePairFinal
           \/ HandleAuthChallenge \/ HandleAuthFinal
  BY <1>1 DEF HandlePairChallenge, HandlePairFinal, HandleAuthChallenge,
     HandleAuthFinal, trustVars, mediaVars, grantVars
<1>2. CASE \/ PrepareDecoder \/ FailDecoder \/ SendReady \/ CannotSendReady
           \/ EndSession \/ FailSession
  BY <1>2 DEF PrepareDecoder, FailDecoder, SendReady, CannotSendReady,
     EndSession, FailSession, trustVars, mediaVars, grantVars, linkVars,
     senderVars
<1>. QED
  BY <1>1, <1>2 DEF Authentication

\* What the user leaves alone.
LEMMA UserFrame ==
  ASSUME User
  PROVE  UNCHANGED <<mediaVars, peer, live, request, challenge, codeVars,
                     senderVars, faults, served>>
  BY DEF User, Authorize, Expire, ForgetDevice, FinishForget, Stop, FinishStop,
     Start, linkVars

-----------------------------------------------------------------------------
\* The Receiver's own records keep their types.
LEMMA ReceiverTypesStep ==
  ASSUME IInv, [Next]_vars
  PROVE  ReceiverTypes' /\ (trust # None => trust.credential \in 1..version)'
<1>. USE DEF ReceiverTypes
<1>0. /\ ReceiverTypes /\ (trust # None => trust.credential \in 1..version)
      /\ request \in Request \cup {None} /\ peer \in Senders \cup {None}
      /\ author \in Senders \cup {None}
  BY DEF IInv, TypeOK, ControlTypes, HistoryTypes
<1>1. CASE Connections
  <2>1. CASE CloseConnection
    BY <1>0, <1>1, <2>1, ConnectionsFrame DEF CloseConnection, trustVars
  <2>2. CASE UNCHANGED previous
    BY <1>0, <1>1, <2>2, ConnectionsFrame DEF trustVars
  <2>. QED
    BY <1>1, <2>1, <2>2, ConnectionsFrame
<1>2. CASE HandlePairFinal
  <2>1. PICK c : c = request.code
    OBVIOUS
  <2>2. request \in PairRequest /\ c \in Codes /\ peer \in Senders
    BY <1>0, <1>2, <2>1 DEF HandlePairFinal, Received, Request, PairRequest, PairTypes,
       AuthChallenge, AuthFinal, IInv, WorkerInv
  <2>3. CASE Authorized(request.code)
    <3>1. pending \in Pending
      BY <1>0, <2>3 DEF Authorized
    <3>2. trust' \in Trust /\ trust'.credential = version + 1 /\ version' = version + 1
      BY <1>0, <1>2, <2>2, <2>3, <3>1 DEF HandlePairFinal, NewVersion, Pending, Trust
    <3>3. pending' = None /\ consumed' \in Codes
      BY <1>2, <2>1, <2>2, <2>3 DEF HandlePairFinal, Consume
    <3>. QED
      BY <1>0, <1>2, <3>2, <3>3 DEF HandlePairFinal, mediaVars
  <2>4. CASE ~Authorized(request.code)
    BY <1>0, <1>2, <2>4 DEF HandlePairFinal, mediaVars
  <2>. QED
    BY <2>3, <2>4
<1>3. CASE HandleAuthFinal
  <2>1. request.media \in Media /\ peer \in Senders
    BY <1>0, <1>3 DEF HandleAuthFinal, Received, Request, PairRequest, PairTypes,
       AuthChallenge, AuthFinal, IInv, WorkerInv
  <2>2. previous' \in Previous \cup {None} /\ latest' \in 0..MaxEpoch
        /\ contract' \in Contracts \cup {None}
    BY <1>0, <1>3, <2>1, BoundsAssumption
       DEF HandleAuthFinal, Media, Previous, mediaVars
  <2>. QED
    BY <1>0, <1>3, <2>2 DEF HandleAuthFinal, trustVars
<1>4. CASE FailDecoder
  <2>1. previous \in Previous
    BY <1>0, <1>4 DEF FailDecoder, IInv, WorkerInv
  <2>. QED
    BY <1>0, <1>4, <2>1 DEF FailDecoder, Previous, trustVars
<1>5. CASE Authentication /\ ~HandlePairFinal /\ ~HandleAuthFinal /\ ~FailDecoder
  BY <1>0, <1>5, AuthenticationFrame DEF mediaVars
<1>6. CASE User
  <2>1. UNCHANGED <<latest, contract, previous>>
    BY <1>6, UserFrame DEF mediaVars
  <2>2. ASSUME NEW s \in Senders, NEW kind \in {"qr", "short"}, Authorize(s, kind)
        PROVE  /\ pending' \in Pending
               /\ UNCHANGED <<trust, version, consumed>> /\ expired' \in BOOLEAN
    <3>1. code[s] \in Codes /\ issued + 1 \in 1..MaxAuthorizations
      BY <2>2, BoundsAssumption
         DEF Authorize, IInv, TypeOK, SenderTypes, HistoryTypes
    <3>. QED
      BY <2>2, <3>1 DEF Authorize, Pending
  <2>3. CASE ForgetDevice
    BY <1>0, <2>1, <2>3 DEF ForgetDevice, DropAuthorization
  <2>4. CASE Expire \/ FinishForget \/ Stop \/ FinishStop \/ Start
    BY <1>0, <2>1, <2>4 DEF Expire, FinishForget, Stop, FinishStop, Start,
       trustVars
  <2>. QED
    BY <1>0, <1>6, <2>1, <2>2, <2>3, <2>4 DEF User
<1>7. ASSUME NEW s \in Senders, Setup(s) \/ Exchanges(s)
      PROVE  ReceiverTypes' /\ (trust # None => trust.credential \in 1..version)'
  BY <1>0, <1>7, ExtensionFrame DEF trustVars, mediaVars
<1>8. CASE UNCHANGED vars
  BY <1>0, <1>8 DEF vars, trustVars, mediaVars
<1>. QED
  BY <1>1, <1>2, <1>3, <1>4, <1>5, <1>6, <1>7, <1>8 DEF Next

\* The positions, the connection and what is on its way to the worker keep
\* their types.
LEMMA ControlTypesStep ==
  ASSUME IInv, [Next]_vars
  PROVE  ControlTypes'
<1>. USE DEF ControlTypes
<1>0. /\ ControlTypes
      /\ \A s \in Senders : capture[s] \in Capture \cup {None}
      /\ \A s \in Senders : exchange[s] \in Exchange \cup {None}
  BY DEF IInv, TypeOK, SenderTypes
<1>1. CASE Connections
  BY <1>0, <1>1 DEF Connections, AcceptWebSocket, ReadUpgrade,
     AbandonConnection, CloseConnection, StopAccepting, AddressChanged, linkVars
<1>2. CASE Authentication
  <2>1. CASE \/ HandlePairChallenge \/ HandlePairFinal
             \/ HandleAuthChallenge \/ HandleAuthFinal
    BY <1>0, <2>1 DEF HandlePairChallenge, HandlePairFinal,
       HandleAuthChallenge, HandleAuthFinal, RefuseSource, Refuse, Received
  <2>2. CASE \/ PrepareDecoder \/ FailDecoder \/ SendReady \/ CannotSendReady
             \/ EndSession \/ FailSession
    BY <1>0, <2>2 DEF PrepareDecoder, FailDecoder, SendReady, CannotSendReady,
       EndSession, FailSession, Refuse, linkVars
  <2>. QED
    BY <1>2, <2>1, <2>2 DEF Authentication
<1>3. CASE User
  BY <1>0, <1>3, ZenonT(30) DEF User, Authorize, Expire, ForgetDevice, FinishForget,
     CloseControlSocket, Stop, FinishStop, Start, linkVars
<1>4. ASSUME NEW s \in Senders, Setup(s) PROVE ControlTypes'
  BY <1>0, <1>4 DEF Setup, ShowCode, ForgetReceiver, OpenForPairing,
     StartCapture, OpenForCapture, StopCapture, EndExchange, LeaveExchange,
     linkVars
<1>5. ASSUME NEW s \in Senders, Exchanges(s) PROVE ControlTypes'
  <2>1. UNCHANGED <<desired, ui, worker, socket, peer, challenge>>
    BY <1>5, ExtensionFrame
  <2>2. live' \in {"none", "open", "ended", "silent"}
    BY <1>0, <1>5 DEF Exchanges, SendChallenge, ReceivePairProof,
       ReceiveAuthProof, ReceivePaired, ReceiveReady, ReceiveError, SeeClose,
       LoseConnection, EndExchange, LeaveExchange, linkVars
  <2>3. request' \in Request \cup {None}
    <3>1. CASE SendChallenge(s)
      <4>1. exchange[s] \in Exchange
        BY <1>0, <3>1 DEF SendChallenge, InStage
      <4>2. CASE exchange[s].goal = "auth"
        <5>1. capture[s] \in Capture
          BY <1>0, <3>1, <4>2 DEF IInv, ExchangeInv, InStage, SendChallenge
        <5>. QED
          BY <1>0, <3>1, <4>2, <5>1 DEF SendChallenge, SendRequest, Request,
             AuthChallenge, Capture
      <4>3. CASE exchange[s].goal # "auth"
        <5>1. exchange[s].code \in Codes
          BY <3>1, <4>1, <4>3 DEF IInv, ExchangeInv, Exchange, InStage, SendChallenge
        <5>. QED
          BY <1>0, <3>1, <4>1, <4>3, <5>1 DEF SendChallenge, SendRequest,
             Request, PairRequest, PairTypes, Exchange
      <4>. QED
        BY <4>2, <4>3
    <3>2. CASE ReceivePairProof(s)
      <4>1. exchange[s] # None /\ exchange[s].goal = "pair"
        BY <3>2 DEF ReceivePairProof, Answered, IInv, ExchangeInv
      <4>2. exchange[s].code \in Codes
        BY <1>0, <4>1 DEF IInv, ExchangeInv, Exchange
      <4>. QED
        BY <1>0, <3>2, <4>2 DEF ReceivePairProof, SendRequest, Request, PairRequest, PairTypes
    <3>3. CASE ReceiveAuthProof(s)
      <4>1. capture[s] \in Capture
        BY <1>0, <3>3 DEF ReceiveAuthProof, Answered, IInv, ExchangeInv
      <4>. QED
        BY <1>0, <3>3, <4>1 DEF ReceiveAuthProof, SendRequest, Request,
           AuthFinal, Capture
    <3>4. CASE \/ ReceivePaired(s) \/ ReceiveReady(s) \/ ReceiveError(s)
               \/ SeeClose(s) \/ LoseConnection(s)
      BY <1>0, <3>4 DEF ReceivePaired, ReceiveReady, ReceiveError, SeeClose,
         LoseConnection, linkVars
    <3>. QED
      BY <1>5, <3>1, <3>2, <3>3, <3>4 DEF Exchanges
  <2>. QED
    BY <1>0, <2>1, <2>2, <2>3
<1>6. CASE UNCHANGED vars
  BY <1>0, <1>6 DEF vars, linkVars
<1>. QED
  BY <1>1, <1>2, <1>3, <1>4, <1>5, <1>6 DEF Next

\* What an extension stores, shows, wants and has received keeps its type.
LEMMA SenderTypesStep ==
  ASSUME IInv, [Next]_vars
  PROVE  SenderTypes'
<1>. USE DEF SenderTypes
<1>0. /\ SenderTypes /\ version \in Nat /\ peer \in Senders \cup {None}
      /\ trust \in Trust \cup {None}
  BY DEF IInv, TypeOK, ReceiverTypes, ControlTypes
<1>1. CASE Connections
  <2>1. ASSUME NEW s \in Senders, AcceptWebSocket(s) PROVE SenderTypes'
    BY <1>0, <2>1, NextStageKeeps DEF AcceptWebSocket, NextStage, codeVars
  <2>2. CASE ReadUpgrade
    BY <1>0, <2>2, NextStageKeeps
       DEF ReadUpgrade, NextStage, codeVars, IInv, WorkerInv
  <2>3. CASE AbandonConnection \/ CloseConnection \/ StopAccepting \/ AddressChanged
    BY <1>0, <2>3 DEF AbandonConnection, CloseConnection, StopAccepting,
       AddressChanged, codeVars, senderVars
  <2>. QED
    BY <1>1, <2>1, <2>2, <2>3 DEF Connections
<1>2. CASE Authentication
  <2>1. UNCHANGED <<codeVars, capture, exchange>>
    BY <1>2, AuthenticationFrame
  <2>2. ASSUME NEW message \in Reply, SendControl(message)
        PROVE  reply' \in [Senders -> Reply \cup {None}]
    BY <1>0, <2>2 DEF SendControl
  <2>3. [type |-> "pair_proof"] \in Reply /\ [type |-> "ready"] \in Reply
    BY DEF Reply
  <2>4. ASSUME NEW c \in Nat
        PROVE  /\ [type |-> "auth_proof", credential |-> c] \in Reply
               /\ [type |-> "paired", credential |-> c] \in Reply
    BY DEF Reply
  <2>5. ASSUME NEW why \in {"refused", "epoch_stale"}
        PROVE  [type |-> "error", why |-> why] \in Reply
    BY DEF Reply
  <2>6. reply' \in [Senders -> Reply \cup {None}]
    <3>1. CASE HandlePairChallenge
      BY <2>2, <2>3, <2>5, <3>1 DEF HandlePairChallenge, Refuse
    <3>2. CASE HandlePairFinal
      <4>1. [type |-> "paired", credential |-> version + 1] \in Reply
        BY <1>0 DEF Reply
      <4>. QED
        BY <2>2, <2>5, <3>2, <4>1 DEF HandlePairFinal, Refuse
    <3>3. CASE HandleAuthChallenge
      <4>1. Identified => trust.credential \in Nat
        BY <1>0 DEF Identified, Trust
      <4>. QED
        BY <2>2, <2>4, <2>5, <3>3, <4>1
           DEF HandleAuthChallenge, RefuseSource, Refuse
    <3>4. CASE HandleAuthFinal
      BY <1>0, <2>2, <2>5, <3>4 DEF HandleAuthFinal, RefuseSource, Refuse
    <3>5. CASE FailDecoder
      BY <2>2, <2>5, <3>5 DEF FailDecoder, Refuse
    <3>6. CASE SendReady
      BY <2>2, <2>3, <3>6 DEF SendReady
    <3>7. CASE PrepareDecoder \/ CannotSendReady \/ EndSession \/ FailSession
      BY <1>0, <3>7 DEF PrepareDecoder, CannotSendReady, EndSession,
         FailSession, senderVars
    <3>. QED
      BY <1>2, <3>1, <3>2, <3>3, <3>4, <3>5, <3>6, <3>7 DEF Authentication
  <2>. QED
    BY <1>0, <2>1, <2>6 DEF codeVars
<1>3. CASE User
  BY <1>0, <1>3, UserFrame DEF codeVars, senderVars
<1>4. ASSUME NEW s \in Senders, Setup(s) PROVE SenderTypes'
  <2>1. CASE ShowCode(s) \/ ForgetReceiver(s)
    <3>1. shown' \in 0..MaxCodes /\ shown + 1 \in Codes
      BY <1>0, <2>1, BoundsAssumption
         DEF ShowCode, ForgetReceiver, RefreshAuthorization, Codes
    <3>2. /\ code' \in [Senders -> Codes \cup {None}]
          /\ owner' \in [Codes -> Senders \cup {None}]
      BY <1>0, <2>1, <3>1 DEF ShowCode, ForgetReceiver, RefreshAuthorization
    <3>. QED
      BY <1>0, <2>1, <3>1, <3>2 DEF ShowCode, ForgetReceiver, senderVars
  <2>2. ASSUME NEW goal \in {"pair", "manual"}, OpenForPairing(s, goal)
        PROVE  SenderTypes'
    <3>1. Opening(goal, code[s]) \in Exchange
      BY <1>0, <2>2 DEF OpenForPairing, Opening, Exchange
    <3>. QED
      BY <1>0, <2>2, <3>1 DEF OpenForPairing, codeVars
  <2>3. ASSUME NEW c \in Contracts, StartCapture(s, c) PROVE SenderTypes'
    <3>1. epoch[s] + 1 \in 1..MaxEpoch /\ stored[s] \in Nat
      BY <1>0, <2>3, BoundsAssumption DEF StartCapture
    <3>2. epoch' \in [Senders -> 0..MaxEpoch]
      BY <1>0, <2>3, <3>1, BoundsAssumption DEF StartCapture
    <3>3. capture' \in [Senders -> Capture \cup {None}]
      BY <1>0, <2>3, <3>1 DEF StartCapture, Capture, Media
    <3>. QED
      BY <1>0, <2>3, <3>2, <3>3 DEF StartCapture
  <2>4. CASE OpenForCapture(s)
    <3>1. Opening("auth", None) \in Exchange
      BY DEF Opening, Exchange
    <3>. QED
      BY <1>0, <2>4, <3>1 DEF OpenForCapture, codeVars
  <2>5. CASE StopCapture(s)
    BY <1>0, <2>5 DEF StopCapture, EndExchange, LeaveExchange, codeVars
  <2>. QED
    BY <1>4, <2>1, <2>2, <2>3, <2>4, <2>5 DEF Setup
<1>5. ASSUME NEW s \in Senders, Exchanges(s) PROVE SenderTypes'
  <2>2. reply[s] # None => exchange[s] # None
    BY DEF IInv, ExchangeInv
  <2>3. ASSUME NEW how, LeaveExchange(s, how)
        PROVE  /\ exchange' \in [Senders -> Exchange \cup {None}]
               /\ reply' \in [Senders -> Reply \cup {None}]
    BY <1>0, <2>3 DEF LeaveExchange
  <2>4. CASE SendChallenge(s)
    BY <1>0, NextStageKeeps, <2>4 DEF SendChallenge, InStage, codeVars
  <2>5. CASE ReceivePairProof(s)
    BY <1>0, NextStageKeeps, <2>2, <2>5 DEF ReceivePairProof, Answered, codeVars
  <2>6. CASE ReceiveAuthProof(s)
    BY <1>0, NextStageKeeps, <2>2, <2>3, <2>6
       DEF ReceiveAuthProof, Answered, EndExchange, codeVars
  <2>7. CASE ReceivePaired(s)
    <3>1. reply[s].credential \in Nat
      BY <1>0, <2>7 DEF ReceivePaired, Answered, Reply
    <3>. QED
      BY <1>0, <2>3, <2>7, <3>1 DEF ReceivePaired, EndExchange
  <2>8. CASE ReceiveReady(s)
    BY <1>0, NextStageKeeps, <2>2, <2>8 DEF ReceiveReady, Answered, codeVars
  <2>9. CASE ReceiveError(s)
    BY <1>0, <2>3, <2>9 DEF ReceiveError, EndExchange, codeVars
  <2>10. CASE SeeClose(s) \/ LoseConnection(s)
    <3>1. capture' \in [Senders -> Capture \cup {None}]
      BY <1>0, <2>10 DEF SeeClose, LoseConnection, RetryOrEnd
    <3>. QED
      BY <1>0, <2>3, <2>10, <3>1 DEF SeeClose, LoseConnection, EndExchange, codeVars
  <2>. QED
    BY <1>5, <2>4, <2>5, <2>6, <2>7, <2>8, <2>9, <2>10 DEF Exchanges
<1>6. CASE UNCHANGED vars
  BY <1>0, <1>6 DEF vars, codeVars, senderVars
<1>. QED
  BY <1>1, <1>2, <1>3, <1>4, <1>5, <1>6 DEF Next

\* Counters stay within their bounds and what is announced is a source.
LEMMA HistoryTypesStep ==
  ASSUME IInv, [Next]_vars
  PROVE  HistoryTypes'
<1>. USE DEF HistoryTypes
<1>0. /\ HistoryTypes /\ peer \in Senders \cup {None}
      /\ pending \in Pending \cup {None} /\ previous \in Previous \cup {None}
  BY DEF IInv, TypeOK, ReceiverTypes, ControlTypes
<1>1. Fault => faults' \in 0..MaxFaults
  BY <1>0, BoundsAssumption DEF Fault
<1>2. CASE Connections
  <2>1. faults' \in 0..MaxFaults
    BY <1>0, <1>1, <1>2 DEF Connections, AcceptWebSocket, ReadUpgrade,
       AbandonConnection, CloseConnection, StopAccepting, AddressChanged
  <2>. QED
    BY <1>0, <1>2, <2>1, ConnectionsFrame DEF grantVars
<1>3. CASE Authentication
  <2>1. faults' \in 0..MaxFaults
    BY <1>0, <1>1, <1>3 DEF Authentication, HandlePairChallenge,
       HandlePairFinal, HandleAuthChallenge, HandleAuthFinal, PrepareDecoder,
       FailDecoder, SendReady, CannotSendReady, EndSession, FailSession
  <2>2. used' \in SUBSET (1..MaxAuthorizations)
    <3>1. CASE HandlePairFinal
      BY <1>0, <3>1 DEF HandlePairFinal, Authorized, Pending
    <3>2. CASE UNCHANGED used
      BY <1>0, <3>2
    <3>. QED
      BY <1>3, <3>1, <3>2, AuthenticationFrame
  <2>3. author' \in Senders \cup {None}
    <3>1. CASE HandleAuthFinal
      BY <1>0, <3>1 DEF HandleAuthFinal, mediaVars
    <3>2. CASE FailDecoder
      BY <1>0, <3>2 DEF FailDecoder, Previous, IInv, WorkerInv
    <3>. QED
      BY <1>0, <1>3, <3>1, <3>2, AuthenticationFrame DEF mediaVars
  <2>4. served' \in Media \cup {None}
    <3>1. CASE SendReady
      BY <3>1 DEF SendReady, IInv, WorkerInv, AuthFinal
    <3>. QED
      BY <1>0, <1>3, <3>1, AuthenticationFrame
  <2>. QED
    BY <1>0, <1>3, <2>1, <2>2, <2>3, <2>4, AuthenticationFrame
<1>4. CASE User
  <2>1. UNCHANGED <<faults, author, served>>
    BY <1>4, UserFrame DEF mediaVars
  <2>2. /\ issued' \in 0..MaxAuthorizations
        /\ forgotten' \in 0..MaxAuthorizations
        /\ UNCHANGED used
    BY <1>0, <1>4, BoundsAssumption DEF User, Authorize, Expire, ForgetDevice,
       FinishForget, Stop, FinishStop, Start, grantVars
  <2>. QED
    BY <1>0, <2>1, <2>2
<1>5. ASSUME NEW s \in Senders, Setup(s) \/ Exchanges(s) PROVE HistoryTypes'
  <2>1. faults' \in 0..MaxFaults
    BY <1>0, <1>1, <1>5 DEF Setup, ShowCode, ForgetReceiver, OpenForPairing,
       StartCapture, OpenForCapture, StopCapture, Exchanges, SendChallenge,
       ReceivePairProof, ReceiveAuthProof, ReceivePaired, ReceiveReady,
       ReceiveError, SeeClose, LoseConnection
  <2>. QED
    BY <1>0, <1>5, <2>1, ExtensionFrame DEF grantVars, mediaVars
<1>6. CASE UNCHANGED vars
  BY <1>0, <1>6 DEF vars, grantVars, mediaVars
<1>. QED
  BY <1>2, <1>3, <1>4, <1>5, <1>6 DEF Next

-----------------------------------------------------------------------------
\* A step leaves the worker with the parts of a connection its position needs.
LEMMA WorkerInvStep ==
  ASSUME IInv, [Next]_vars
  PROVE  WorkerInv'
<1>. USE DEF WorkerInv
<1>0. /\ WorkerInv /\ peer \in Senders \cup {None}
      /\ previous \in Previous \cup {None}
      /\ request \in Request \cup {None}
      /\ latest \in 0..MaxEpoch /\ contract \in Contracts \cup {None}
      /\ author \in Senders \cup {None}
      /\ exchange \in [Senders -> Exchange \cup {None}]
  BY DEF IInv, TypeOK, ReceiverTypes, ControlTypes, HistoryTypes, SenderTypes
<1>1. CASE Connections
  <2>1. ASSUME NEW s \in Senders, AcceptWebSocket(s) PROVE WorkerInv'
    BY <1>0, <2>1, NextStageKeeps DEF AcceptWebSocket, NextStage
  <2>2. CASE ReadUpgrade
    BY <1>0, <2>2, NextStageKeeps DEF ReadUpgrade, NextStage, linkVars, mediaVars
  <2>3. CASE CloseConnection
    BY <1>0, <2>3 DEF CloseConnection
  <2>4. CASE AbandonConnection \/ StopAccepting \/ AddressChanged
    BY <1>0, <2>4 DEF AbandonConnection, StopAccepting, AddressChanged,
       linkVars, mediaVars, senderVars
  <2>. QED
    BY <1>1, <2>1, <2>2, <2>3, <2>4 DEF Connections
<1>2. CASE Authentication
  <2>1. UNCHANGED <<socket, peer, live, exchange>>
    BY <1>2, AuthenticationFrame
  <2>2. CASE HandlePairChallenge \/ HandlePairFinal \/ HandleAuthChallenge
    BY <1>0, <2>1, <2>2 DEF HandlePairChallenge, HandlePairFinal,
       HandleAuthChallenge, RefuseSource, Refuse, Received
  <2>3. CASE HandleAuthFinal
    <3>1. request \in AuthFinal
      BY <1>0, <2>3 DEF HandleAuthFinal, Received, Request, PairRequest, PairTypes,
         AuthChallenge, AuthFinal
    <3>2. [epoch |-> latest, contract |-> contract, author |-> author] \in Previous
      BY <1>0 DEF Previous
    <3>. QED
      BY <1>0, <2>1, <2>3, <3>1, <3>2, NoneAssumption
         DEF HandleAuthFinal, RefuseSource, Refuse, Received
  <2>4. CASE \/ PrepareDecoder \/ FailDecoder \/ SendReady \/ CannotSendReady
             \/ EndSession \/ FailSession
    BY <1>0, <2>1, <2>4 DEF PrepareDecoder, FailDecoder, Refuse, SendReady,
       CannotSendReady, EndSession, FailSession, linkVars, mediaVars
  <2>. QED
    BY <1>2, <2>2, <2>3, <2>4 DEF Authentication
<1>3. CASE User
  BY <1>0, <1>3 DEF User, Authorize, Expire, ForgetDevice, FinishForget,
     CloseControlSocket, Stop, FinishStop, Start, linkVars, mediaVars, senderVars
<1>4. ASSUME NEW s \in Senders, Setup(s) \/ Exchanges(s) PROVE WorkerInv'
  <2>1. UNCHANGED <<previous, worker, socket, peer, challenge>>
    BY <1>4, ExtensionFrame DEF mediaVars
  <2>2. (live = "none" => live' = "none") /\ (live' = "open" => live = "open")
    BY <1>4 DEF Setup, ShowCode, ForgetReceiver, OpenForPairing, StartCapture,
       OpenForCapture, StopCapture, Exchanges, SendChallenge,
       ReceivePairProof, ReceiveAuthProof, ReceivePaired, ReceiveReady,
       ReceiveError, SeeClose, LoseConnection, EndExchange, LeaveExchange,
       Linked, linkVars
  <2>3. live # "open" => UNCHANGED request
    BY <1>4 DEF Setup, ShowCode, ForgetReceiver, OpenForPairing, StartCapture,
       OpenForCapture, StopCapture, Exchanges, SendChallenge, SendRequest,
       ReceivePairProof, ReceiveAuthProof, ReceivePaired, ReceiveReady,
       ReceiveError, SeeClose, LoseConnection, Linked, linkVars
  <2>4. live' = "open" => exchange'[peer] # None
    <3>1. reply[s] # None => exchange[s] # None
      BY DEF IInv, ExchangeInv
    <3>2. CASE \/ SendChallenge(s) \/ ReceivePairProof(s) \/ ReceiveReady(s)
      BY <1>0, <2>2, <3>1, <3>2, NextStageKeeps DEF SendChallenge, InStage,
         ReceivePairProof, ReceiveReady, Answered
    <3>3. CASE \/ ReceivePaired(s) \/ ReceiveError(s) \/ SeeClose(s)
               \/ LoseConnection(s)
      BY <1>0, <2>2, <3>3 DEF ReceivePaired, ReceiveError, SeeClose,
         LoseConnection, EndExchange, LeaveExchange, Linked
    <3>4. CASE ReceiveAuthProof(s)
      BY <1>0, <2>2, <3>1, <3>4, NextStageKeeps DEF ReceiveAuthProof, Answered,
         EndExchange, LeaveExchange, Linked
    <3>5. CASE StopCapture(s)
      BY <1>0, <2>2, <3>5 DEF StopCapture, EndExchange, LeaveExchange, Linked
    <3>6. CASE \/ ShowCode(s) \/ ForgetReceiver(s)
               \/ \E c \in Contracts : StartCapture(s, c)
      BY <1>0, <2>2, <3>6 DEF ShowCode, ForgetReceiver, StartCapture, senderVars
    <3>7. CASE \/ OpenForCapture(s)
               \/ \E goal \in {"pair", "manual"} : OpenForPairing(s, goal)
      BY <1>0, <2>2, <3>7 DEF OpenForCapture, OpenForPairing
    <3>. QED
      BY <1>4, <3>2, <3>3, <3>4, <3>5, <3>6, <3>7 DEF Setup, Exchanges
  <2>. QED
    BY <1>0, <2>1, <2>2, <2>3, <2>4
<1>5. CASE UNCHANGED vars
  BY <1>0, <1>5 DEF vars, linkVars, mediaVars, senderVars
<1>. QED
  BY <1>1, <1>2, <1>3, <1>4, <1>5 DEF Next

\* A step leaves each extension waiting for an answer to what it is about, and
\* a challenge under way with the exchange that sent it.
LEMMA ExchangeInvStep ==
  ASSUME IInv, [Next]_vars
  PROVE  ExchangeInv' /\ RequestInv'
<1>. USE DEF ExchangeInv, RequestInv
<1>0. /\ ExchangeInv /\ RequestInv /\ WorkerInv
      /\ peer \in Senders \cup {None}
      /\ exchange \in [Senders -> Exchange \cup {None}]
      /\ reply \in [Senders -> Reply \cup {None}]
      /\ capture \in [Senders -> Capture \cup {None}]
      /\ code \in [Senders -> Codes \cup {None}]
  BY DEF IInv, TypeOK, ControlTypes, SenderTypes
<1>1. CASE Connections
  <2>1. UNCHANGED <<capture, reply>>
    BY <1>1, ConnectionsFrame
  <2>2. ASSUME NEW s \in Senders, AcceptWebSocket(s)
        PROVE  ExchangeInv' /\ RequestInv'
    <3>1. request' = None
      BY <1>0, <2>2 DEF AcceptWebSocket, WorkerInv
    <3>2. exchange[s] # None /\ NextStage(s, "upgrading")
      BY <2>2 DEF AcceptWebSocket, NextStage
    <3>. QED
      BY <1>0, <2>1, <3>1, <3>2, NextStageKeeps
  <2>3. CASE ReadUpgrade
    <3>1. /\ peer \in Senders /\ exchange[peer] # None
          /\ NextStage(peer, "open")
          /\ UNCHANGED <<peer, live, request>>
      BY <1>0, <2>3 DEF ReadUpgrade, NextStage, WorkerInv, linkVars
    <3>. QED
      BY <1>0, <2>1, <3>1, NextStageKeeps
  <2>4. CASE AbandonConnection \/ CloseConnection \/ StopAccepting \/ AddressChanged
    BY <1>0, <2>4 DEF AbandonConnection, CloseConnection, StopAccepting,
       AddressChanged, linkVars, senderVars
  <2>. QED
    BY <1>1, <2>2, <2>3, <2>4 DEF Connections
<1>2. CASE Authentication
  <2>1. UNCHANGED <<peer, live, capture, exchange>>
    BY <1>2, AuthenticationFrame
  <2>2. RequestInv'
    BY <1>0, <1>2, <2>1 DEF Authentication, HandlePairChallenge,
       HandlePairFinal, HandleAuthChallenge, HandleAuthFinal, PrepareDecoder,
       FailDecoder, SendReady, CannotSendReady, EndSession, FailSession, linkVars
  <2>3. ASSUME NEW message, SendControl(message), peer \in Senders,
               live = "open" /\ message.type = "pair_proof" =>
                 exchange[peer].goal = "pair",
               live = "open" /\ message.type = "auth_proof" =>
                 exchange[peer].goal = "auth"
        PROVE  ExchangeInv'
    BY <1>0, <2>1, <2>3 DEF SendControl, WorkerInv
  <2>4. ASSUME NEW why, Refuse(why), peer \in Senders
        PROVE  ExchangeInv'
    BY <2>3, <2>4 DEF Refuse
  <2>5. CASE HandlePairChallenge
    BY <1>0, <2>3, <2>4, <2>5 DEF HandlePairChallenge, Received, WorkerInv
  <2>6. CASE HandlePairFinal
    BY <1>0, <2>3, <2>4, <2>6 DEF HandlePairFinal, Received, WorkerInv
  <2>7. CASE HandleAuthChallenge
    BY <1>0, <2>3, <2>4, <2>7
       DEF HandleAuthChallenge, Received, RefuseSource, WorkerInv
  <2>8. CASE HandleAuthFinal
    BY <1>0, <2>1, <2>4, <2>8
       DEF HandleAuthFinal, Received, RefuseSource, WorkerInv
  <2>9. CASE FailDecoder
    BY <1>0, <2>2, <2>4, <2>9 DEF FailDecoder, WorkerInv
  <2>10. CASE SendReady
    BY <1>0, <2>2, <2>3, <2>10 DEF SendReady, WorkerInv
  <2>11. CASE PrepareDecoder \/ CannotSendReady \/ EndSession \/ FailSession
    BY <1>0, <2>1, <2>2, <2>11 DEF PrepareDecoder, CannotSendReady,
       EndSession, FailSession, senderVars
  <2>. QED
    BY <1>2, <2>2, <2>5, <2>6, <2>7, <2>8, <2>9, <2>10, <2>11 DEF Authentication
<1>3. CASE User
  BY <1>0, <1>3, UserFrame DEF senderVars
<1>4. ASSUME NEW s \in Senders, Setup(s) PROVE ExchangeInv' /\ RequestInv'
  <2>1. CASE ShowCode(s) \/ ForgetReceiver(s)
    BY <1>0, <2>1 DEF ShowCode, ForgetReceiver, linkVars, senderVars
  <2>2. ASSUME NEW goal \in {"pair", "manual"}, OpenForPairing(s, goal)
        PROVE  ExchangeInv' /\ RequestInv'
    BY <1>0, <2>2 DEF OpenForPairing, Opening, linkVars, WorkerInv
  <2>3. ASSUME NEW c \in Contracts, StartCapture(s, c)
        PROVE  ExchangeInv' /\ RequestInv'
    BY <1>0, <2>3 DEF StartCapture, linkVars
  <2>4. CASE OpenForCapture(s)
    BY <1>0, <2>4 DEF OpenForCapture, Opening, linkVars, WorkerInv
  <2>5. CASE StopCapture(s)
    BY <1>0, <2>5 DEF StopCapture, IsAuth, EndExchange, LeaveExchange, Linked,
       WorkerInv
  <2>. QED
    BY <1>4, <2>1, <2>2, <2>3, <2>4, <2>5 DEF Setup
<1>5. ASSUME NEW s \in Senders, Exchanges(s) PROVE ExchangeInv' /\ RequestInv'
  <2>1. CASE SendChallenge(s)
    BY <1>0, <2>1, NextStageKeeps DEF SendChallenge, InStage, SendRequest,
       Linked, Exchange, WorkerInv
  <2>2. CASE ReceivePairProof(s)
    BY <1>0, <2>2, NextStageKeeps DEF ReceivePairProof, Answered, SendRequest,
       WorkerInv
  <2>3. CASE ReceiveAuthProof(s)
    BY <1>0, <2>3, NextStageKeeps DEF ReceiveAuthProof, Answered, SendRequest,
       EndExchange, LeaveExchange, Linked, WorkerInv
  <2>4. CASE ReceiveReady(s)
    BY <1>0, <2>4, NextStageKeeps DEF ReceiveReady, Answered, WorkerInv, linkVars
  <2>5. CASE ReceivePaired(s)
    BY <1>0, <2>5 DEF ReceivePaired, EndExchange, LeaveExchange, Linked, WorkerInv
  <2>6. CASE ReceiveError(s) \/ SeeClose(s) \/ LoseConnection(s)
    BY <1>0, <2>6 DEF ReceiveError, SeeClose, LoseConnection, RetryOrEnd,
       IsAuth, EndExchange, LeaveExchange, Linked, WorkerInv
  <2>. QED
    BY <1>5, <2>1, <2>2, <2>3, <2>4, <2>5, <2>6 DEF Exchanges
<1>6. CASE UNCHANGED vars
  BY <1>0, <1>6 DEF vars, linkVars, senderVars
<1>. QED
  BY <1>1, <1>2, <1>3, <1>4, <1>5, <1>6 DEF Next

\* Only an authorisation newer than the last forgetting is pending or trusted.
LEMMA GrantInvStep ==
  ASSUME IInv, [Next]_vars
  PROVE  GrantInv'
<1>. USE DEF GrantInv
<1>0. /\ GrantInv /\ issued \in Nat /\ forgotten \in Nat /\ used \subseteq Nat
      /\ pending \in Pending \cup {None}
  BY BoundsAssumption DEF IInv, TypeOK, HistoryTypes, ReceiverTypes
<1>1. CASE Connections
  BY <1>0, <1>1, ConnectionsFrame DEF trustVars, grantVars
<1>2. CASE HandlePairFinal
  <2>1. CASE Authorized(request.code)
    BY <1>0, <1>2, <2>1 DEF HandlePairFinal, Authorized, Consume
  <2>2. CASE ~Authorized(request.code)
    BY <1>0, <1>2, <2>2 DEF HandlePairFinal
  <2>. QED
    BY <2>1, <2>2
<1>3. CASE Authentication /\ ~HandlePairFinal
  BY <1>0, <1>3, AuthenticationFrame
<1>4. ASSUME NEW s \in Senders, NEW kind \in {"qr", "short"}, Authorize(s, kind)
      PROVE  GrantInv'
  BY <1>0, <1>4 DEF Authorize
<1>5. CASE ForgetDevice
  BY <1>0, <1>5 DEF ForgetDevice, DropAuthorization
<1>6. CASE Expire \/ FinishForget \/ Stop \/ FinishStop \/ Start
  BY <1>0, <1>6 DEF Expire, FinishForget, Stop, FinishStop, Start, trustVars,
     grantVars
<1>7. ASSUME NEW s \in Senders, Setup(s) \/ Exchanges(s) PROVE GrantInv'
  <2>1. UNCHANGED <<ui, trust, pending, issued, forgotten, used>>
    BY <1>7, ExtensionFrame DEF trustVars, grantVars
  <2>. QED
    BY <1>0, <2>1
<1>8. CASE UNCHANGED vars
  BY <1>0, <1>8 DEF vars, trustVars, grantVars
<1>. QED
  BY <1>1, <1>2, <1>3, <1>4, <1>5, <1>6, <1>7, <1>8 DEF Next, User

\* Codes are made once, and travel from the exchange of the extension that made them
\* to the worker and, by way of the user, to an authorisation.
LEMMA OwnerInvStep ==
  ASSUME IInv, [Next]_vars
  PROVE  OwnerInv'
<1>. USE DEF OwnerInv
<1>0. /\ OwnerInv /\ WorkerInv /\ ExchangeInv
      /\ peer \in Senders \cup {None} /\ shown \in 0..MaxCodes
      /\ request \in Request \cup {None}
      /\ exchange \in [Senders -> Exchange \cup {None}]
      /\ code \in [Senders -> Codes \cup {None}]
      /\ owner \in [Codes -> Senders \cup {None}]
  BY DEF IInv, TypeOK, ControlTypes, SenderTypes
<1>1. CASE Connections
  <2>1. UNCHANGED <<pending, codeVars>>
    BY <1>1, ConnectionsFrame DEF trustVars
  <2>2. ASSUME NEW s \in Senders, AcceptWebSocket(s) PROVE OwnerInv'
    BY <1>0, <2>1, <2>2, NextStageKeeps
       DEF AcceptWebSocket, NextStage, WorkerInv, codeVars
  <2>3. CASE ReadUpgrade
    BY <1>0, <2>1, <2>3, NextStageKeeps DEF ReadUpgrade, NextStage, WorkerInv,
       linkVars, codeVars
  <2>4. CASE AbandonConnection \/ CloseConnection \/ StopAccepting \/ AddressChanged
    BY <1>0, <2>1, <2>4 DEF AbandonConnection, CloseConnection, StopAccepting,
       AddressChanged, linkVars, senderVars, codeVars
  <2>. QED
    BY <1>1, <2>2, <2>3, <2>4 DEF Connections
<1>2. CASE Authentication
  <2>1. UNCHANGED <<peer, codeVars, exchange>>
    BY <1>2, AuthenticationFrame
  <2>2. request' = None \/ request' = request
    BY <1>2 DEF Authentication, HandlePairChallenge, HandlePairFinal,
       HandleAuthChallenge, HandleAuthFinal, PrepareDecoder, FailDecoder,
       SendReady, CannotSendReady, EndSession, FailSession, linkVars
  <2>3. pending' = None \/ pending' = pending
    BY <1>2, AuthenticationFrame DEF HandlePairFinal, Consume
  <2>. QED
    BY <1>0, <2>1, <2>2, <2>3 DEF codeVars
<1>3. CASE User
  <2>1. UNCHANGED <<peer, request, codeVars, exchange>>
    BY <1>3, UserFrame DEF senderVars
  <2>2. ASSUME NEW s \in Senders, NEW kind \in {"qr", "short"}, Authorize(s, kind)
        PROVE  pending' # None => owner[pending'.code] # None
    BY <1>0, <2>2, NoneAssumption DEF Authorize
  <2>3. pending' # None => owner[pending'.code] # None
    BY <1>0, <1>3, <2>2 DEF User, Expire, ForgetDevice, DropAuthorization,
       FinishForget, Stop, FinishStop, Start, trustVars
  <2>. QED
    BY <1>0, <2>1, <2>3 DEF codeVars
<1>4. ASSUME NEW s \in Senders, Setup(s) PROVE OwnerInv'
  <2>1. UNCHANGED <<peer, pending>>
    BY <1>4, ExtensionFrame DEF trustVars
  <2>2. CASE ShowCode(s) \/ ForgetReceiver(s)
    <3>1. /\ shown' = shown + 1 /\ shown + 1 \in Codes
          /\ owner' = [owner EXCEPT ![shown + 1] = s]
          /\ code' = [code EXCEPT ![s] = shown + 1]
          /\ UNCHANGED <<request, exchange>>
      BY <1>0, <2>2, BoundsAssumption DEF ShowCode, ForgetReceiver,
         RefreshAuthorization, linkVars, senderVars, Codes
    <3>2. \A c \in Codes : owner[c] # None => owner'[c] = owner[c]
      BY <1>0, <3>1, BoundsAssumption DEF Codes
    <3>3. \A c \in Codes : owner'[c] # None <=> c <= shown'
      BY <1>0, <3>1, NoneAssumption, BoundsAssumption DEF Codes
    <3>4. \A t \in Senders : code'[t] # None => owner'[code'[t]] = t
      BY <1>0, <3>1, <3>2, NoneAssumption
    <3>5. \A t \in Senders :
             exchange[t] # None /\ exchange[t].code # None => exchange[t].code \in Codes
      BY <1>0 DEF Exchange
    <3>6. request # None /\ request.type \in PairTypes =>
             request.code \in Codes /\ owner[request.code] # None
      BY <1>0, NoneAssumption DEF Request, PairRequest, PairTypes, AuthChallenge, AuthFinal
    <3>7. pending # None => pending.code \in Codes
      BY DEF IInv, TypeOK, ReceiverTypes, Pending
    <3>. QED
      BY <1>0, <2>1, <3>1, <3>2, <3>3, <3>4, <3>5, <3>6, <3>7, NoneAssumption
  <2>3. ASSUME NEW goal \in {"pair", "manual"}, OpenForPairing(s, goal) PROVE OwnerInv'
    BY <1>0, <2>1, <2>3 DEF OpenForPairing, Opening, linkVars, codeVars
  <2>4. CASE OpenForCapture(s)
    BY <1>0, <2>1, <2>4 DEF OpenForCapture, Opening, linkVars, codeVars
  <2>5. ASSUME NEW c \in Contracts, StartCapture(s, c) PROVE OwnerInv'
    BY <1>0, <2>1, <2>5 DEF StartCapture, linkVars
  <2>6. CASE StopCapture(s)
    BY <1>0, <2>1, <2>6 DEF StopCapture, EndExchange, LeaveExchange, codeVars
  <2>. QED
    BY <1>4, <2>2, <2>3, <2>4, <2>5, <2>6 DEF Setup
<1>5. ASSUME NEW s \in Senders, Exchanges(s) PROVE OwnerInv'
  <2>1. UNCHANGED <<peer, pending>>
    BY <1>5, ExtensionFrame DEF trustVars
  <2>2. UNCHANGED <<shown, owner>> /\ (code' = code \/ code' = [code EXCEPT ![s] = None])
    BY <1>5 DEF Exchanges, SendChallenge, ReceivePairProof, ReceiveAuthProof,
       ReceivePaired, ReceiveReady, ReceiveError, SeeClose, LoseConnection, codeVars
  <2>3. CASE SendChallenge(s)
    BY <1>0, <2>1, <2>2, <2>3, NextStageKeeps DEF SendChallenge, InStage,
       SendRequest, Linked, Exchange, ExchangeInv, PairTypes
  <2>4. CASE ReceivePairProof(s)
    BY <1>0, <2>1, <2>2, <2>4, NextStageKeeps DEF ReceivePairProof, Answered,
       SendRequest, Linked, ExchangeInv
  <2>5. CASE ReceiveAuthProof(s)
    BY <1>0, <2>1, <2>2, <2>5, NextStageKeeps DEF ReceiveAuthProof, Answered,
       SendRequest, EndExchange, LeaveExchange, ExchangeInv, PairTypes
  <2>6. CASE ReceiveReady(s)
    BY <1>0, <2>1, <2>2, <2>6, NextStageKeeps DEF ReceiveReady, Answered,
       ExchangeInv, linkVars
  <2>7. CASE \/ ReceivePaired(s) \/ ReceiveError(s) \/ SeeClose(s) \/ LoseConnection(s)
    BY <1>0, <2>1, <2>2, <2>7 DEF ReceivePaired, ReceiveError, SeeClose,
       LoseConnection, EndExchange, LeaveExchange
  <2>. QED
    BY <1>5, <2>3, <2>4, <2>5, <2>6, <2>7 DEF Exchanges
<1>6. CASE UNCHANGED vars
  BY <1>0, <1>6 DEF vars, trustVars, linkVars, codeVars, senderVars
<1>. QED
  BY <1>1, <1>2, <1>3, <1>4, <1>5, <1>6 DEF Next

\* Trust changes while a session is set up only if its socket is then closed.
LEMMA SessionInvStep ==
  ASSUME IInv, [Next]_vars
  PROVE  SessionInv'
<1>. USE DEF SessionInv, Identified
<1>0. SessionInv /\ WorkerInv
  BY DEF IInv
<1>1. CASE Connections
  BY <1>0, <1>1 DEF Connections, AcceptWebSocket, ReadUpgrade,
     AbandonConnection, CloseConnection, StopAccepting, AddressChanged,
     trustVars, linkVars
<1>2. CASE Authentication
  <2>1. CASE HandleAuthFinal
    BY <1>0, <2>1 DEF HandleAuthFinal, Trusted, RefuseSource, Refuse, trustVars
  <2>2. CASE HandlePairChallenge \/ HandlePairFinal \/ HandleAuthChallenge
    BY <1>0, <2>2 DEF HandlePairChallenge, HandlePairFinal,
       HandleAuthChallenge, Received, RefuseSource, Refuse, trustVars
  <2>3. CASE \/ PrepareDecoder \/ FailDecoder \/ SendReady \/ CannotSendReady
             \/ EndSession \/ FailSession
    BY <1>0, <2>3 DEF PrepareDecoder, FailDecoder, Refuse, SendReady,
       CannotSendReady, EndSession, FailSession, trustVars, linkVars
  <2>. QED
    BY <1>2, <2>1, <2>2, <2>3 DEF Authentication
<1>3. CASE User
  BY <1>0, <1>3 DEF User, Authorize, Expire, ForgetDevice, FinishForget,
     CloseControlSocket, Stop, FinishStop, Start, trustVars, linkVars
<1>4. ASSUME NEW s \in Senders, Setup(s) \/ Exchanges(s) PROVE SessionInv'
  BY <1>0, <1>4, ExtensionFrame DEF trustVars
<1>5. CASE UNCHANGED vars
  BY <1>0, <1>5 DEF vars, trustVars, linkVars
<1>. QED
  BY <1>1, <1>2, <1>3, <1>4, <1>5 DEF Next

\* The active source is set only by a check against the one before, and a roll
\* back goes no further than what was active when it was set.
LEMMA SourceInvStep ==
  ASSUME IInv, [Next]_vars
  PROVE  SourceInv'
<1>. USE DEF SourceInv
<1>0. /\ SourceInv /\ WorkerInv
      /\ latest \in Nat
      /\ served \in Media \cup {None}
      /\ request \in Request \cup {None}
  BY DEF IInv, TypeOK, ReceiverTypes, ControlTypes, HistoryTypes
<1>1. CASE Connections
  BY <1>0, <1>1 DEF Connections, AcceptWebSocket, ReadUpgrade,
     AbandonConnection, CloseConnection, StopAccepting, AddressChanged,
     mediaVars, linkVars
<1>2. CASE HandleAuthFinal
  <2>1. request.media \in Media
    BY <1>0, <1>2 DEF HandleAuthFinal, Received, Request, PairRequest, PairTypes,
       AuthChallenge, AuthFinal
  <2>2. request.media.epoch \in Nat /\ (served # None => served.epoch \in Nat)
    BY <1>0, <2>1 DEF Media
  <2>3. CASE Trusted /\ EvaluateSourceContract(request.media)
    <3>1. /\ latest' = request.media.epoch
          /\ contract' = request.media.contract
          /\ previous'.epoch = latest /\ previous'.contract = contract
          /\ challenge' = request /\ served' = served
          /\ worker' = "preparing"
      BY <1>2, <2>3 DEF HandleAuthFinal
    <3>2. \/ latest' > latest
          \/ latest' = latest /\ contract' = contract
      BY <2>3, <3>1 DEF EvaluateSourceContract
    <3>. QED
      BY <1>0, <2>2, <3>1, <3>2
  <2>4. CASE ~(Trusted /\ EvaluateSourceContract(request.media))
    BY <1>0, <1>2, <2>4
       DEF HandleAuthFinal, RefuseSource, Refuse, Received, mediaVars
  <2>. QED
    BY <2>3, <2>4
<1>3. CASE FailDecoder
  BY <1>0, <1>3 DEF FailDecoder, Refuse, linkVars
<1>4. CASE SendReady
  BY <1>0, <1>4 DEF SendReady, mediaVars, linkVars, WorkerInv, AuthFinal, Media
<1>5. CASE HandlePairChallenge \/ HandlePairFinal \/ HandleAuthChallenge
  BY <1>0, <1>5 DEF HandlePairChallenge, HandlePairFinal, HandleAuthChallenge,
     Received, RefuseSource, Refuse, mediaVars
<1>6. CASE PrepareDecoder \/ CannotSendReady \/ EndSession \/ FailSession
  BY <1>0, <1>6 DEF PrepareDecoder, CannotSendReady, EndSession, FailSession,
     mediaVars, linkVars
<1>7. CASE User
  BY <1>0, <1>7 DEF User, Authorize, Expire, ForgetDevice, FinishForget, Stop,
     FinishStop, Start, mediaVars, linkVars
<1>8. ASSUME NEW s \in Senders, Setup(s) \/ Exchanges(s) PROVE SourceInv'
  BY <1>0, <1>8, ExtensionFrame DEF mediaVars
<1>9. CASE UNCHANGED vars
  BY <1>0, <1>9 DEF vars, mediaVars, linkVars
<1>. QED
  BY <1>1, <1>2, <1>3, <1>4, <1>5, <1>6, <1>7, <1>8, <1>9
     DEF Next, Authentication

-----------------------------------------------------------------------------
\* The inductive invariant of pairing, authentication and sessions.
THEOREM Invariance == Spec => []IInv
<1>1. Init => IInv
  BY InitIInv
<1>2. IInv /\ [Next]_vars => IInv'
  <2>. SUFFICES ASSUME IInv, [Next]_vars PROVE IInv'
    OBVIOUS
  <2>1. TypeOK'
    BY ReceiverTypesStep, ControlTypesStep, SenderTypesStep, HistoryTypesStep
       DEF TypeOK
  <2>. QED
    BY <2>1, WorkerInvStep, ExchangeInvStep, GrantInvStep, OwnerInvStep,
       SessionInvStep, SourceInvStep DEF IInv
<1>. QED
  BY <1>1, <1>2, PTL DEF Spec

\* The Receiver, the connection and the extensions keep their types
\* (AuthenticateConnection, RunConnectedSession, pairReceiver, connect).
THEOREM TypeCorrectness == Spec => []TypeOK
<1>1. IInv => TypeOK
  BY DEF IInv
<1>. QED
  BY Invariance, <1>1, PTL

\* A session whose socket is open is that of the trusted device with the
\* trusted credential, unless ForgetDevice is about to close it.
THEOREM SessionIsTrusted == Spec => []SessionTrusted
<1>1. IInv => SessionTrusted
  BY DEF IInv, SessionInv, SessionTrusted
<1>. QED
  BY Invariance, <1>1, PTL

\* ForgetDevice also takes back an authorisation whose pairing is under way.
THEOREM Forgotten == Spec => []ForgottenStaysForgotten
<1>1. IInv => ForgottenStaysForgotten
  BY DEF IInv, GrantInv, ForgottenStaysForgotten
<1>. QED
  BY Invariance, <1>1, PTL

\* Trust is granted once for an authorisation of the user (the pairing final
\* of AuthenticateConnection).
THEOREM OnePairingPerAuthorization == Spec => AuthorizationUsedOnce
<1>. DEFINE Once == trust' # trust /\ trust' # None => trust'.grant \notin used
<1>1. IInv /\ [Next]_vars => [Once]_vars
  <2>. SUFFICES ASSUME IInv, Next PROVE Once
    OBVIOUS
  <2>1. CASE HandlePairFinal
    BY <2>1 DEF HandlePairFinal, Authorized, IInv, GrantInv
  <2>2. trust' = trust \/ trust' = None \/ HandlePairFinal
    <3>1. CASE Connections
      BY <3>1, ConnectionsFrame DEF trustVars
    <3>2. CASE Authentication
      BY <3>2, AuthenticationFrame
    <3>3. CASE User
      BY <3>3 DEF User, Authorize, Expire, ForgetDevice, FinishForget, Stop,
         FinishStop, Start, trustVars
    <3>4. ASSUME NEW s \in Senders, Setup(s) \/ Exchanges(s) PROVE trust' = trust
      BY <3>4, ExtensionFrame DEF trustVars
    <3>. QED
      BY <3>1, <3>2, <3>3, <3>4 DEF Next
  <2>. QED
    BY <2>1, <2>2
<1>. QED
  BY Invariance, <1>1, PTL DEF Spec, AuthorizationUsedOnce

\* Sources are announced in the order of their epochs, the same epoch only with
\* the same contract (EvaluateSourceContract, with the roll back of a decoder
\* that cannot be prepared).
THEOREM SourcesOnlyAdvance == Spec => SourcesAdvance
<1>. DEFINE Advance ==
       served' # served /\ served # None => served'.epoch > served.epoch
<1>1. IInv /\ [Next]_vars => [Advance]_vars
  <2>. SUFFICES ASSUME IInv, Next PROVE Advance
    OBVIOUS
  <2>1. CASE SendReady
    <3>1. /\ challenge.media \in Media /\ served \in Media \cup {None}
          /\ served' = challenge.media
      BY <2>1 DEF SendReady, IInv, WorkerInv, AuthFinal, TypeOK, HistoryTypes
    <3>2. /\ latest = challenge.media.epoch
          /\ contract = challenge.media.contract
          /\ served # None =>
               /\ latest >= served.epoch
               /\ latest = served.epoch => contract = served.contract
      BY <2>1 DEF SendReady, IInv, SourceInv
    <3>3. served # None /\ served.epoch = challenge.media.epoch =>
            served = challenge.media
      BY <3>1, <3>2 DEF Media
    <3>. QED
      BY <3>1, <3>2, <3>3 DEF Media
  <2>2. served' = served \/ SendReady
    <3>1. CASE Connections
      BY <3>1, ConnectionsFrame
    <3>2. CASE Authentication
      BY <3>2, AuthenticationFrame
    <3>3. CASE User
      BY <3>3, UserFrame
    <3>4. ASSUME NEW s \in Senders, Setup(s) \/ Exchanges(s) PROVE served' = served
      BY <3>4, ExtensionFrame
    <3>. QED
      BY <3>1, <3>2, <3>3, <3>4 DEF Next
  <2>. QED
    BY <2>1, <2>2
<1>. QED
  BY Invariance, <1>1, PTL DEF Spec, SourcesAdvance
\* The code that was authorised stays with the extension that made it.
LEMMA OwnersStay ==
  ASSUME IInv, pending # None, NEW s \in Senders, Setup(s) \/ Exchanges(s)
  PROVE  owner'[pending.code] = owner[pending.code]
<1>1. /\ pending.code \in Codes /\ pending.code <= shown /\ shown \in Nat
      /\ owner \in [Codes -> Senders \cup {None}]
  BY DEF IInv, TypeOK, ReceiverTypes, SenderTypes, Pending, OwnerInv
<1>2. owner' = owner \/ owner' = [owner EXCEPT ![shown + 1] = s]
  BY DEF Setup, ShowCode, ForgetReceiver, RefreshAuthorization, OpenForPairing,
     StartCapture, OpenForCapture, StopCapture, Exchanges, SendChallenge,
     ReceivePairProof, ReceiveAuthProof, ReceivePaired, ReceiveReady, ReceiveError,
     SeeClose, LoseConnection, codeVars
<1>. QED
  BY <1>1, <1>2, BoundsAssumption DEF Codes

\* A step is a promised one, in which the user has had a device forgotten, or nothing is
\* promised and nothing changes.
LEMMA PromisedSteps ==
  /\ UNCHANGED <<AuthorizedSender, TrustedSender, served>>
       /\ ServedSender' \in {ServedSender, None} => [Authority!Next]_(Authority!vars)
  /\ ForgetDevice => Authority!Forget
  /\ Authority!Forget => Authority!Next
<1>1. UNCHANGED <<AuthorizedSender, TrustedSender, served>> /\ ServedSender' = None
        => Authority!Next
  BY DEF Authority!Next, Authority!Leave
<1>2. UNCHANGED <<AuthorizedSender, TrustedSender, ServedSender, served>>
        => UNCHANGED Authority!vars
  BY DEF Authority!vars
<1>3. ForgetDevice => Authority!Forget
  BY DEF ForgetDevice, DropAuthorization, Authority!Forget, AuthorizedSender,
     TrustedSender, ServedSender
<1>. QED
  BY <1>1, <1>2, <1>3 DEF Authority!Next

\* A pairing makes the extension trusted whose code the user authorised: the code in
\* the final message is that of its sender.
LEMMA PairingPromised == IInv /\ HandlePairFinal => [Authority!Next]_(Authority!vars)
<1>. SUFFICES ASSUME IInv, HandlePairFinal PROVE [Authority!Next]_(Authority!vars)
  OBVIOUS
<1>1. ServedSender = None /\ ServedSender' = None
  BY DEF HandlePairFinal, Received, Refuse, ServedSender
<1>2. CASE Authorized(request.code)
  <2>1. /\ pending # None /\ ~expired /\ pending.code = request.code
        /\ pending' = None /\ UNCHANGED <<expired, served>>
        /\ trust' = [sender |-> peer, credential |-> version + 1, grant |-> pending.grant]
    BY <1>2 DEF HandlePairFinal, Authorized, Consume
  <2>2. peer \in Senders /\ owner[request.code] = peer
    BY DEF HandlePairFinal, Received, IInv, OwnerInv, PairTypes
  <2>3. trust' # None
    <3>1. version \in Nat /\ pending.grant \in 1..MaxAuthorizations
      BY <2>1 DEF IInv, TypeOK, ReceiverTypes, Pending
    <3>2. trust' \in Trust
      BY <2>1, <2>2, <3>1 DEF Trust
    <3>. QED
      BY <3>2, NoneAssumption
  <2>4. AuthorizedSender = peer /\ AuthorizedSender' = None /\ TrustedSender' = peer
    BY <2>1, <2>2, <2>3 DEF AuthorizedSender, TrustedSender
  <2>. QED
    BY <1>1, <2>1, <2>2, <2>4, NoneAssumption DEF Authority!Next, Authority!Pair
<1>3. CASE ~Authorized(request.code)
  BY <1>1, <1>3, PromisedSteps DEF HandlePairFinal, AuthorizedSender, TrustedSender, codeVars
<1>. QED
  BY <1>2, <1>3

\* Who is served is the trusted extension, with a source that is not behind.
LEMMA ReadyPromised == IInv /\ SendReady => [Authority!Next]_(Authority!vars)
<1>. SUFFICES ASSUME IInv, SendReady PROVE [Authority!Next]_(Authority!vars)
  OBVIOUS
<1>1. /\ UNCHANGED <<AuthorizedSender, TrustedSender>>
      /\ ServedSender = None /\ served' = challenge.media
      /\ ServedSender' = IF ui # "forgetting" THEN peer ELSE None
  BY DEF SendReady, ServedSender, AuthorizedSender, TrustedSender, trustVars, codeVars, linkVars
<1>2. served' \in Media /\ Authority!Announce(served')
  <2>1. /\ challenge.media \in Media /\ served \in Media \cup {None}
        /\ served' = challenge.media
    BY DEF SendReady, IInv, WorkerInv, AuthFinal, TypeOK, HistoryTypes
  <2>2. /\ latest = challenge.media.epoch
        /\ contract = challenge.media.contract
        /\ served # None =>
             /\ latest >= served.epoch
             /\ latest = served.epoch => contract = served.contract
    BY DEF SendReady, IInv, SourceInv
  <2>. QED
    BY <2>1, <2>2 DEF Media, Authority!Announce
<1>3. CASE ui # "forgetting"
  <2>1. Identified /\ trust.sender = peer
    BY <1>3 DEF SendReady, IInv, SessionInv, Identified
  <2>2. peer \in Senders
    BY DEF SendReady, IInv, WorkerInv
  <2>. QED
    BY <1>1, <1>2, <1>3, <2>1, <2>2, NoneAssumption
       DEF Identified, TrustedSender, Authority!Next, Authority!Serve
<1>4. CASE ui = "forgetting"
  <2>1. trust = None
    BY <1>4 DEF IInv, GrantInv
  <2>. QED
    BY <1>1, <1>2, <1>4, <2>1 DEF TrustedSender, Authority!Next, Authority!AnnounceInVain
<1>. QED
  BY <1>3, <1>4

\* The Receiver implements DeviceTrust: pairing, forgetting and serving are its
\* promised steps, and no other step changes whom it trusts and serves, but to end
\* a session (AuthenticateConnection, ForgetDevice, AuthorizeQr, Stop).
THEOREM ImplementsTrust == Spec => KeepsTrust
<1>1. Init => Authority!Init
  BY DEF Init, Authority!Init, AuthorizedSender, TrustedSender, ServedSender
<1>2. ASSUME IInv, [Next]_vars PROVE [Authority!Next]_(Authority!vars)
  <2>1. CASE Connections
    BY <2>1, ConnectionsFrame, PromisedSteps
       DEF Connections, AcceptWebSocket, ReadUpgrade, AbandonConnection, CloseConnection,
           StopAccepting, AddressChanged, AuthorizedSender, TrustedSender, ServedSender,
           trustVars, codeVars, linkVars
  <2>2. CASE HandlePairFinal
    BY <1>2, <2>2, PairingPromised
  <2>3. CASE SendReady
    BY <1>2, <2>3, ReadyPromised
  <2>4. CASE Authentication /\ ~HandlePairFinal /\ ~SendReady
    <3>1. UNCHANGED <<AuthorizedSender, TrustedSender, served>>
      BY <2>4, AuthenticationFrame DEF AuthorizedSender, TrustedSender, codeVars
    <3>2. ServedSender' \in {ServedSender, None}
      BY <2>4, AuthenticationFrame
         DEF Authentication, HandlePairChallenge, HandleAuthChallenge, HandleAuthFinal,
             PrepareDecoder, FailDecoder, CannotSendReady, EndSession, FailSession,
             RefuseSource, Refuse, Received, ServedSender
    <3>. QED
      BY <3>1, <3>2, PromisedSteps
  <2>5. ASSUME NEW s \in Senders, NEW kind \in {"qr", "short"}, Authorize(s, kind)
        PROVE  [Authority!Next]_(Authority!vars)
    <3>1. code[s] # None /\ owner[code[s]] = s
      BY <1>2, <2>5 DEF Authorize, IInv, OwnerInv
    <3>2. AuthorizedSender' \in {s, None}
      BY <2>5, <3>1 DEF Authorize, AuthorizedSender, codeVars
    <3>3. UNCHANGED <<TrustedSender, ServedSender, served>>
      BY <2>5 DEF Authorize, TrustedSender, ServedSender, linkVars
    <3>. QED
      BY <3>2, <3>3 DEF Authority!Next, Authority!Authorize, Authority!Lapse
  <2>6. CASE Expire
    BY <2>6 DEF Expire, AuthorizedSender, TrustedSender, ServedSender, linkVars,
       Authority!Next, Authority!Lapse
  <2>7. CASE ForgetDevice
    BY <2>7, PromisedSteps
  <2>8. CASE FinishForget \/ Stop \/ FinishStop \/ Start
    BY <2>8, PromisedSteps
       DEF FinishForget, CloseControlSocket, Stop, FinishStop, Start, AuthorizedSender,
           TrustedSender, ServedSender, trustVars, codeVars, linkVars
  <2>9. ASSUME NEW s \in Senders, Setup(s) \/ Exchanges(s)
        PROVE  [Authority!Next]_(Authority!vars)
    <3>1. UNCHANGED <<trustVars, ui, worker, socket, peer, served>>
      BY <2>9, ExtensionFrame
    <3>2. pending # None => owner'[pending.code] = owner[pending.code]
      BY <1>2, <2>9, OwnersStay
    <3>3. UNCHANGED <<AuthorizedSender, TrustedSender, ServedSender>>
      BY <3>1, <3>2 DEF AuthorizedSender, TrustedSender, ServedSender, trustVars
    <3>. QED
      BY <3>1, <3>3, PromisedSteps
  <2>10. CASE UNCHANGED vars
    BY <2>10, PromisedSteps
       DEF vars, trustVars, codeVars, linkVars, AuthorizedSender, TrustedSender, ServedSender
  <2>. QED
    BY <1>2, <2>1, <2>2, <2>3, <2>4, <2>5, <2>6, <2>7, <2>8, <2>9, <2>10 DEF Next, User
<1>. QED
  BY Invariance, <1>1, <1>2, PTL DEF Spec, KeepsTrust, Authority!Spec
=============================================================================
