--------------------------- MODULE ReceiverSession ---------------------------
(***************************************************************************)
(* Pairing, authentication and the accept loop of the Receiver             *)
(* (receiver_session.cpp, native_protocol.cpp), with the extensions that   *)
(* pair and connect (direct-client.js, setup.js, pairing-store.js) and the *)
(* user, who authorises, forgets, stops and starts on the Receiver.        *)
(*                                                                         *)
(* Two threads of the Receiver appear: the network worker, which serves    *)
(* one connection at a time, and the UI.  They share the trust record and  *)
(* the epochs under state_mutex_, and the socket and desired_ as atomics;  *)
(* a worker step is what happens under one hold of the mutex, or between   *)
(* two reads from the socket.  An extension is a sender id; one that has   *)
(* lost its data is another sender.                                        *)
(*                                                                         *)
(* Random secrets are numbers never used before, so a proof is what it was *)
(* computed from.  The accepted contract's effect on the decoder is in     *)
(* DecoderPipeline; what is sent in a session is in SenderDelivery.        *)
(***************************************************************************)
EXTENDS Naturals

CONSTANTS
  Senders,            \* sender ids of the extensions
  Contracts,          \* media contracts
  MaxEpoch,           \* bound: source epochs, the last for one extension only
  MaxCodes,           \* bound: QR codes shown by the extensions
  MaxAuthorizations,  \* bound: authorisations given on the Receiver
  MaxFaults,          \* bound: time-outs, losses, changed addresses
  None                \* no value

ASSUME BoundsAssumption ==
  /\ MaxEpoch \in Nat
  /\ MaxCodes \in Nat
  /\ MaxAuthorizations \in Nat
  /\ MaxFaults \in Nat

VARIABLES
  trust,       \* trusted_sender_id_ and trusted_credential_
  version,     \* pairing_record_version_, also the number of the latest
               \* credential
  pending,     \* pending_session_id_, pending_token_, pending_short_code_
  expired,     \* the clock has passed pairing_expires_at_
  consumed,    \* consumed_session_id_
  latest,      \* latest_source_epoch_, which equals active_source_epoch_
  contract,    \* active_media_contract_
  previous,    \* previousEpoch and previousContract
  desired,     \* desired_
  ui,          \* the UI thread in ForgetDevice or Stop
  worker,      \* position of the network worker
  socket,      \* control_socket_ is open
  peer,        \* the sender at the other end of it
  live,        \* what has become of that end
  request,     \* message on its way to the worker
  challenge,   \* the challenge, then the final message, of the connection
  stored,      \* credential in the extension's storage
  shown,       \* number of codes shown so far
  code,        \* the code an extension shows: session id, token, short code
  owner,       \* history: the extension that made each code
  epoch,       \* source epoch in the extension's storage
  capture,     \* the capture that wants a connection
  exchange,    \* the extension's connection
  reply,       \* message on its way to the extension
  faults,      \* time-outs, losses and failures so far
  issued,      \* history: number of authorisations the user gave
  forgotten,   \* history: their number when a device was last forgotten
  used,        \* history: those that a pairing was granted for
  author,      \* history: the sender whose session set the latest epoch
  served       \* history: what was last announced ready

trustVars == <<trust, version, pending, expired, consumed>>
mediaVars == <<latest, contract, previous, author>>
linkVars == <<socket, peer, live, request, challenge>>
codeVars == <<stored, shown, code, owner, epoch>>
senderVars == <<capture, exchange, reply>>
grantVars == <<issued, forgotten, used>>
vars == <<trustVars, mediaVars, desired, ui, worker, linkVars, codeVars,
          senderVars, faults, grantVars, served>>

Codes == 1..MaxCodes
Media == [epoch : 1..MaxEpoch, contract : Contracts]

\* A device's trust, with the number of the authorisation it was granted for.
Trust == [sender : Senders, credential : Nat, grant : 1..MaxAuthorizations]

\* AuthorizeQr leaves a token a proof can be keyed with, AuthorizeShortCode a
\* short code that only a token can be checked against.
Pending ==
  [kind : {"qr", "short"}, code : Codes, grant : 1..MaxAuthorizations]

PairTypes == {"pair_challenge", "pair", "pair_manual"}

PairRequest == [type : PairTypes, code : Codes]
AuthChallenge == [type : {"auth_challenge"}, media : Media]
AuthFinal == [type : {"auth"}, media : Media, credential : Nat]
Request == PairRequest \cup AuthChallenge \cup AuthFinal

Reply ==
  [type : {"pair_proof", "ready"}]
    \cup [type : {"auth_proof", "paired"}, credential : Nat]
    \cup [type : {"error"}, why : {"refused", "epoch_stale"}]

\* trustedDevice, source epoch and contract of a DirectReceiverConnection.
Capture == [credential : Nat, media : Media]

Exchange ==
  [goal : {"pair", "manual", "auth"}, code : Codes \cup {None},
   stage : {"opening", "upgrading", "open", "awaiting_proof",
            "awaiting_result", "up"}]

\* previousEpoch and previousContract of AuthenticateConnection.
Previous ==
  [epoch : 0..MaxEpoch, contract : Contracts \cup {None},
   author : Senders \cup {None}]

ASSUME NoneAssumption ==
  /\ None \notin Senders /\ None \notin Trust
  /\ None \notin Exchange /\ None \notin Previous

Fault == faults < MaxFaults /\ faults' = faults + 1

-----------------------------------------------------------------------------
(* The network worker: NetworkLoop, AcceptWebSocket, ReadUpgrade *)

\* The listener's backlog holds the extensions that are opening a socket.
\* accept may return just before Stop closes the sockets.
AcceptWebSocket(s) ==
  /\ worker = "accepting"
  /\ exchange[s] # None /\ exchange[s].stage = "opening"
  /\ worker' = "upgrading"
  /\ socket' = TRUE /\ peer' = s /\ live' = "open"
  /\ exchange' = [exchange EXCEPT ![s].stage = "upgrading"]
  /\ UNCHANGED <<trustVars, mediaVars, desired, ui, request, challenge,
                 codeVars, capture, reply, faults, grantVars, served>>

ReadUpgrade ==
  /\ worker = "upgrading"
  /\ socket /\ live = "open"
  /\ worker' = "challenge"
  /\ exchange' = [exchange EXCEPT ![peer].stage = "open"]
  /\ UNCHANGED <<trustVars, mediaVars, desired, ui, linkVars, codeVars,
                 capture, reply, faults, grantVars, served>>

\* The loops in ReadUpgrade and AuthenticateConnection end: no more is to be
\* read, the socket is closed, Stop was called, or their time is over.
AbandonConnection ==
  /\ worker \in {"upgrading", "challenge"}
  /\ \/ Fault
     \/ /\ \/ ~socket
           \/ live # "open" /\ request = None
           \/ worker = "challenge" /\ ~desired
        /\ UNCHANGED faults
  /\ worker' = "closing"
  /\ UNCHANGED <<trustVars, mediaVars, desired, ui, linkVars, codeVars,
                 senderVars, grantVars, served>>

\* End of a round of NetworkLoop, or of the loop itself.
CloseConnection ==
  /\ worker = "closing"
  /\ socket' = FALSE /\ peer' = None /\ live' = "none"
  /\ request' = None /\ challenge' = None /\ previous' = None
  /\ worker' = IF desired THEN "accepting" ELSE "off"
  /\ UNCHANGED <<trustVars, latest, contract, author, desired, ui, codeVars, senderVars,
                 faults, grantVars, served>>

StopAccepting ==
  /\ worker = "accepting" /\ ~desired
  /\ worker' = "off"
  /\ UNCHANGED <<trustVars, mediaVars, desired, ui, linkVars, codeVars,
                 senderVars, faults, grantVars, served>>

\* ContinueWithCurrentAddress: the Wi-Fi address has changed.
AddressChanged ==
  /\ worker \in {"accepting", "session"}
  /\ desired
  /\ Fault
  /\ desired' = FALSE
  /\ worker' = "closing"
  /\ UNCHANGED <<trustVars, mediaVars, ui, linkVars, codeVars, senderVars,
                 grantVars, served>>

-----------------------------------------------------------------------------
(* The network worker: AuthenticateConnection *)

Received(type) ==
  worker = "challenge" /\ socket /\ request # None /\ request.type = type

SendControl(message) ==
  reply' = IF socket /\ live = "open" THEN [reply EXCEPT ![peer] = message]
                                      ELSE reply

Refuse(why) ==
  SendControl([type |-> "error", why |-> why]) /\ worker' = "closing"

CanProve(c) ==
  /\ consumed # c
  /\ ~expired
  /\ pending # None /\ pending.kind = "qr" /\ pending.code = c

HandlePairChallenge ==
  /\ Received("pair_challenge") /\ challenge = None
  /\ request' = None
  /\ IF CanProve(request.code)
     THEN /\ challenge' = request
          /\ SendControl([type |-> "pair_proof"])
          /\ UNCHANGED worker
     ELSE Refuse("refused") /\ UNCHANGED challenge
  /\ UNCHANGED <<trustVars, mediaVars, desired, ui, socket, peer, live,
                 codeVars, capture, exchange, faults, grantVars, served>>

AnyPending(c) == consumed # c /\ ~expired /\ pending # None  \* mutant of Authorized

\* EvaluatePairingAuthorization: the session id and token of the QR code or
\* the short code the token yields.
Authorized(c) ==
  /\ consumed # c
  /\ ~expired
  /\ pending # None /\ pending.code = c

NotConsumed(c) == UNCHANGED <<pending, consumed>>  \* mutant of Consume

Consume(c) == pending' = None /\ consumed' = c

NewVersion == version' = version + 1

\* The final message of a pairing: the device is trusted before the answer is
\* sent, and the connection ends whether it could be sent or not.
HandlePairFinal ==
  /\ \/ Received("pair") /\ challenge # None /\ challenge.code = request.code
     \/ Received("pair_manual") /\ challenge = None
  /\ request' = None
  /\ IF Authorized(request.code)
     THEN /\ trust' = [sender |-> peer, credential |-> version + 1,
                       grant |-> pending.grant]
          /\ used' = used \cup {pending.grant}
          /\ Consume(request.code)
          /\ NewVersion
          /\ SendControl([type |-> "paired", credential |-> version + 1])
          /\ worker' = "closing"
     ELSE Refuse("refused")
          /\ UNCHANGED <<trust, version, pending, consumed, used>>
  /\ UNCHANGED <<expired, mediaVars, desired, ui, socket, peer, live,
                 challenge, codeVars, capture, exchange, faults, issued,
                 forgotten, served>>

\* mutant of EvaluateSourceContract: an older source is taken for a newer one
OtherEpoch(media) == media.epoch # latest \/ media.contract = contract

EvaluateSourceContract(media) ==
  \/ media.epoch > latest
  \/ media.epoch = latest /\ media.contract = contract

Identified == trust # None /\ trust.sender = peer

RefuseSource(trusted, media) ==
  Refuse(IF trusted /\ media.epoch < latest THEN "epoch_stale" ELSE "refused")

HandleAuthChallenge ==
  /\ Received("auth_challenge") /\ challenge = None
  /\ request' = None
  /\ IF Identified /\ EvaluateSourceContract(request.media)
     THEN /\ challenge' = request
          /\ SendControl([type |-> "auth_proof",
                          credential |-> trust.credential])
          /\ UNCHANGED worker
     ELSE RefuseSource(Identified, request.media) /\ UNCHANGED challenge
  /\ UNCHANGED <<trustVars, mediaVars, desired, ui, socket, peer, live,
                 codeVars, capture, exchange, faults, grantVars, served>>

Trusted == Identified /\ request.credential = trust.credential

\* Trust and source are checked again: the UI may have changed the trust since
\* the challenge.
HandleAuthFinal ==
  /\ Received("auth") /\ challenge # None
  /\ challenge.media = request.media
  /\ request' = None
  /\ IF Trusted /\ EvaluateSourceContract(request.media)
     THEN /\ previous' = [epoch |-> latest, contract |-> contract,
                          author |-> author]
          /\ latest' = request.media.epoch
          /\ contract' = request.media.contract
          /\ author' = peer
          /\ challenge' = request
          /\ worker' = "preparing"
          /\ UNCHANGED reply
     ELSE RefuseSource(Trusted, request.media)
          /\ UNCHANGED <<mediaVars, challenge>>
  /\ UNCHANGED <<trustVars, desired, ui, socket, peer, live, codeVars,
                 capture, exchange, faults, grantVars, served>>

\* FlushDecoder or ReconfigureDecoder.
PrepareDecoder ==
  /\ worker = "preparing"
  /\ worker' = "answering"
  /\ UNCHANGED <<trustVars, mediaVars, desired, ui, linkVars, codeVars,
                 senderVars, faults, grantVars, served>>

\* The decoder may fail any number of times: the extension ends its capture.
FailDecoder ==
  /\ worker = "preparing"
  /\ latest' = previous.epoch
  /\ contract' = previous.contract
  /\ author' = previous.author
  /\ Refuse("refused")
  /\ UNCHANGED <<trustVars, previous, desired, ui, linkVars, codeVars,
                 capture, exchange, faults, grantVars, served>>

SendReady ==
  /\ worker = "answering"
  /\ socket
  /\ SendControl([type |-> "ready"])
  /\ served' = challenge.media
  /\ worker' = "session"
  /\ UNCHANGED <<trustVars, mediaVars, desired, ui, linkVars, codeVars,
                 capture, exchange, faults, grantVars>>

\* control_socket_ was closed, or send failed.
CannotSendReady ==
  /\ worker = "answering"
  /\ ~socket \/ live # "open"
  /\ worker' = "closing"
  /\ UNCHANGED <<trustVars, mediaVars, desired, ui, linkVars, codeVars,
                 senderVars, faults, grantVars, served>>

EndIgnored == ~socket \/ ~desired  \* mutant of SessionEnds

SessionEnds == ~socket \/ ~desired \/ live = "ended"

\* RunConnectedSession returns.
EndSession ==
  /\ worker = "session"
  /\ SessionEnds
  /\ worker' = "closing"
  /\ UNCHANGED <<trustVars, mediaVars, desired, ui, linkVars, codeVars,
                 senderVars, faults, grantVars, served>>

\* A send to a peer that has gone silently may fail in the end.
FailSession ==
  /\ worker = "session" /\ live = "silent"
  /\ worker' = "closing"
  /\ UNCHANGED <<trustVars, mediaVars, desired, ui, linkVars, codeVars,
                 senderVars, faults, grantVars, served>>

-----------------------------------------------------------------------------
(* The user of the Receiver *)

\* AuthorizeQr and AuthorizeShortCode, with the code s shows.
Authorize(s, kind) ==
  /\ ui = "idle"
  /\ code[s] # None
  /\ issued < MaxAuthorizations
  /\ issued' = issued + 1
  /\ pending' = [kind |-> kind, code |-> code[s], grant |-> issued + 1]
  /\ expired' = FALSE
  /\ UNCHANGED <<trust, version, consumed, mediaVars, desired, ui, worker,
                 linkVars, codeVars, senderVars, faults, forgotten, used,
                 served>>

Expire ==
  /\ ~expired /\ pending # None
  /\ expired' = TRUE
  /\ UNCHANGED <<trust, version, pending, consumed, mediaVars, desired, ui,
                 worker, linkVars, codeVars, senderVars, faults, grantVars,
                 served>>

KeepAuthorization == UNCHANGED pending  \* mutant of DropAuthorization

DropAuthorization == pending' = None

\* ForgetDevice, up to the release of the mutex.
ForgetDevice ==
  /\ ui = "idle"
  /\ trust # None
  /\ ui' = "forgetting"
  /\ trust' = None
  /\ DropAuthorization
  /\ version' = version + 1
  /\ forgotten' = issued
  /\ UNCHANGED <<expired, consumed, mediaVars, desired, worker, linkVars,
                 codeVars, senderVars, faults, issued, used, served>>

LeaveSocket == UNCHANGED socket  \* mutant of CloseControlSocket

CloseControlSocket == socket' = FALSE

FinishForget ==
  /\ ui = "forgetting"
  /\ ui' = "idle"
  /\ CloseControlSocket
  /\ UNCHANGED <<trustVars, mediaVars, desired, worker, peer, live, request,
                 challenge, codeVars, senderVars, faults, grantVars, served>>

\* Stop, up to the join of the worker.
Stop ==
  /\ ui = "idle" /\ worker # "off"
  /\ ui' = "stopping"
  /\ desired' = FALSE
  /\ socket' = FALSE
  /\ UNCHANGED <<trustVars, mediaVars, worker, peer, live, request, challenge,
                 codeVars, senderVars, faults, grantVars, served>>

FinishStop ==
  /\ ui = "stopping" /\ worker = "off"
  /\ ui' = "idle"
  /\ UNCHANGED <<trustVars, mediaVars, desired, worker, linkVars, codeVars,
                 senderVars, faults, grantVars, served>>

Start ==
  /\ ui = "idle" /\ worker = "off"
  /\ desired' = TRUE
  /\ worker' = "accepting"
  /\ UNCHANGED <<trustVars, mediaVars, ui, linkVars, codeVars, senderVars,
                 faults, grantVars, served>>

-----------------------------------------------------------------------------
(* The extensions: setup.js, pairing-store.js *)

\* refreshAuthorization: a new session id and token.
RefreshAuthorization(s) ==
  /\ shown < MaxCodes
  /\ shown' = shown + 1
  /\ code' = [code EXCEPT ![s] = shown + 1]
  /\ owner' = [owner EXCEPT ![shown + 1] = s]

ShowCode(s) ==
  /\ RefreshAuthorization(s)
  /\ UNCHANGED <<trustVars, mediaVars, desired, ui, worker, linkVars, stored,
                 epoch, senderVars, faults, grantVars, served>>

\* forgetPairing: the stored record goes, a capture keeps the copy it has.
ForgetReceiver(s) ==
  /\ stored[s] # None
  /\ stored' = [stored EXCEPT ![s] = None]
  /\ RefreshAuthorization(s)
  /\ UNCHANGED <<trustVars, mediaVars, desired, ui, worker, linkVars, epoch,
                 senderVars, faults, grantVars, served>>

Opening(goal, c) == [goal |-> goal, code |-> c, stage |-> "opening"]

\* completePairing, to the fixed name or to a typed address.
OpenForPairing(s, goal) ==
  /\ code[s] # None
  /\ exchange[s] = None
  /\ exchange' = [exchange EXCEPT ![s] = Opening(goal, code[s])]
  /\ UNCHANGED <<trustVars, mediaVars, desired, ui, worker, linkVars, codeVars,
                 capture, reply, faults, grantVars, served>>

\* A capture starts, or its source changes: the epoch is allocated first.
StartCapture(s, newContract) ==
  /\ capture[s] = None
  /\ stored[s] # None
  /\ epoch[s] < MaxEpoch
  /\ epoch[s] + 1 = MaxEpoch => \A x \in Senders : epoch[x] < MaxEpoch
  /\ epoch' = [epoch EXCEPT ![s] = epoch[s] + 1]
  /\ capture' = [capture EXCEPT ![s] =
                   [credential |-> stored[s],
                    media |-> [epoch |-> epoch[s] + 1,
                               contract |-> newContract]]]
  /\ UNCHANGED <<trustVars, mediaVars, desired, ui, worker, linkVars, stored,
                 shown, code, owner, exchange, reply, faults, grantVars, served>>

\* connect of a new connection or of one that recovers.
OpenForCapture(s) ==
  /\ capture[s] # None
  /\ exchange[s] = None
  /\ exchange' = [exchange EXCEPT ![s] = Opening("auth", None)]
  /\ UNCHANGED <<trustVars, mediaVars, desired, ui, worker, linkVars, codeVars,
                 capture, reply, faults, grantVars, served>>

-----------------------------------------------------------------------------
(* The extensions: pairReceiver, connect, openProofExchange *)

Linked(s) == peer = s /\ live = "open"

\* The extension closes its end, which the Receiver hears of, or its end goes
\* without a word.
LeaveExchange(s, how) ==
  /\ exchange' = [exchange EXCEPT ![s] = None]
  /\ reply' = [reply EXCEPT ![s] = None]
  /\ live' = IF Linked(s) THEN how ELSE live

EndExchange(s) == LeaveExchange(s, "ended")

InStage(s, stage) == exchange[s] # None /\ exchange[s].stage = stage

Answered(s, type) == reply[s] # None /\ reply[s].type = type

IsAuth(s) == exchange[s].goal = "auth"

SendRequest(s, message) ==
  request' = IF Linked(s) /\ socket THEN message ELSE request

NextStage(s, stage) == exchange' = [exchange EXCEPT ![s].stage = stage]

SendChallenge(s) ==
  /\ InStage(s, "open")
  /\ SendRequest(s,
       CASE exchange[s].goal = "auth" ->
              [type |-> "auth_challenge", media |-> capture[s].media]
         [] exchange[s].goal = "pair" ->
              [type |-> "pair_challenge", code |-> exchange[s].code]
         [] exchange[s].goal = "manual" ->
              [type |-> "pair_manual", code |-> exchange[s].code])
  /\ NextStage(s, IF exchange[s].goal = "manual" THEN "awaiting_result"
                                                 ELSE "awaiting_proof")
  /\ UNCHANGED <<trustVars, mediaVars, desired, ui, worker, socket, peer, live,
                 challenge, codeVars, capture, reply, faults, grantVars,
                 served>>

ReceivePairProof(s) ==
  /\ Answered(s, "pair_proof")
  /\ reply' = [reply EXCEPT ![s] = None]
  /\ SendRequest(s, [type |-> "pair", code |-> exchange[s].code])
  /\ NextStage(s, "awaiting_result")
  /\ UNCHANGED <<trustVars, mediaVars, desired, ui, worker, socket, peer, live,
                 challenge, codeVars, capture, faults, grantVars, served>>

\* The credential is sent only if the proof was computed from it.
ReceiveAuthProof(s) ==
  /\ Answered(s, "auth_proof")
  /\ IF reply[s].credential = capture[s].credential
     THEN /\ reply' = [reply EXCEPT ![s] = None]
          /\ SendRequest(s, [type |-> "auth", media |-> capture[s].media,
                             credential |-> capture[s].credential])
          /\ NextStage(s, "awaiting_result")
          /\ UNCHANGED <<capture, live>>
     ELSE /\ EndExchange(s)
          /\ capture' = [capture EXCEPT ![s] = None]
          /\ UNCHANGED request
  /\ UNCHANGED <<trustVars, mediaVars, desired, ui, worker, socket, peer,
                 challenge, codeVars, faults, grantVars, served>>

ReceivePaired(s) ==
  /\ Answered(s, "paired")
  /\ stored' = [stored EXCEPT ![s] = reply[s].credential]
  /\ code' = [code EXCEPT ![s] = None]
  /\ EndExchange(s)
  /\ UNCHANGED <<trustVars, mediaVars, desired, ui, worker, socket, peer,
                 request, challenge, shown, owner, epoch, capture, faults,
                 grantVars, served>>

ReceiveReady(s) ==
  /\ Answered(s, "ready")
  /\ reply' = [reply EXCEPT ![s] = None]
  /\ NextStage(s, "up")
  /\ UNCHANGED <<trustVars, mediaVars, desired, ui, worker, linkVars, codeVars,
                 capture, faults, grantVars, served>>

\* An error from the Receiver is permanent: the capture ends.
ReceiveError(s) ==
  /\ Answered(s, "error")
  /\ EndExchange(s)
  /\ capture' = IF IsAuth(s) THEN [capture EXCEPT ![s] = None] ELSE capture
  /\ UNCHANGED <<trustVars, mediaVars, desired, ui, worker, socket, peer,
                 request, challenge, codeVars, faults, grantVars, served>>

\* A connection that ends without an answer is tried again if the capture was
\* up before, and ends it otherwise.
RetryOrEnd(s) ==
  capture' \in IF IsAuth(s) THEN {capture, [capture EXCEPT ![s] = None]}
                            ELSE {capture}

\* The close event of a socket the Receiver has closed.
SeeClose(s) ==
  /\ exchange[s] # None /\ exchange[s].stage # "opening"
  /\ ~(peer = s /\ socket)
  /\ reply[s] = None
  /\ RetryOrEnd(s)
  /\ EndExchange(s)
  /\ UNCHANGED <<trustVars, mediaVars, desired, ui, worker, socket, peer,
                 request, challenge, codeVars, faults, grantVars, served>>

\* The time-out of an exchange, or a connection that breaks.
LoseConnection(s) ==
  /\ exchange[s] # None
  /\ Fault
  /\ RetryOrEnd(s)
  /\ \E how \in {"ended", "silent"} : LeaveExchange(s, how)
  /\ UNCHANGED <<trustVars, mediaVars, desired, ui, worker, socket, peer,
                 request, challenge, codeVars, grantVars, served>>

\* The user stops the capture.
StopCapture(s) ==
  /\ capture[s] # None
  /\ capture' = [capture EXCEPT ![s] = None]
  /\ IF exchange[s] # None /\ IsAuth(s) THEN EndExchange(s)
                                        ELSE UNCHANGED <<exchange, reply, live>>
  /\ UNCHANGED <<trustVars, mediaVars, desired, ui, worker, socket, peer,
                 request, challenge, codeVars, faults, grantVars, served>>

-----------------------------------------------------------------------------
(* The specification *)

Init ==
  /\ trust = None /\ version = 0 /\ pending = None
  /\ expired = TRUE /\ consumed = None
  /\ latest = 0 /\ contract = None
  /\ previous = None
  /\ desired = FALSE /\ ui = "idle" /\ worker = "off"
  /\ socket = FALSE /\ peer = None /\ live = "none"
  /\ request = None /\ challenge = None
  /\ stored = [s \in Senders |-> None]
  /\ shown = 0 /\ code = [s \in Senders |-> None]
  /\ owner = [c \in Codes |-> None]
  /\ epoch = [s \in Senders |-> 0]
  /\ capture = [s \in Senders |-> None]
  /\ exchange = [s \in Senders |-> None]
  /\ reply = [s \in Senders |-> None]
  /\ faults = 0
  /\ issued = 0 /\ forgotten = 0 /\ used = {}
  /\ author = None /\ served = None

Connections ==
  \/ \E s \in Senders : AcceptWebSocket(s)
  \/ ReadUpgrade \/ AbandonConnection \/ CloseConnection
  \/ StopAccepting \/ AddressChanged

Authentication ==
  \/ HandlePairChallenge \/ HandlePairFinal
  \/ HandleAuthChallenge \/ HandleAuthFinal
  \/ PrepareDecoder \/ FailDecoder
  \/ SendReady \/ CannotSendReady
  \/ EndSession \/ FailSession

User ==
  \/ \E s \in Senders, kind \in {"qr", "short"} : Authorize(s, kind)
  \/ Expire
  \/ ForgetDevice \/ FinishForget
  \/ Stop \/ FinishStop \/ Start

Setup(s) ==
  \/ ShowCode(s) \/ ForgetReceiver(s)
  \/ \E goal \in {"pair", "manual"} : OpenForPairing(s, goal)
  \/ \E c \in Contracts : StartCapture(s, c)
  \/ OpenForCapture(s) \/ StopCapture(s)

Exchanges(s) ==
  \/ SendChallenge(s)
  \/ ReceivePairProof(s) \/ ReceiveAuthProof(s)
  \/ ReceivePaired(s) \/ ReceiveReady(s) \/ ReceiveError(s)
  \/ SeeClose(s) \/ LoseConnection(s)

Next ==
  \/ Connections
  \/ Authentication
  \/ User
  \/ \E s \in Senders : Setup(s) \/ Exchanges(s)

Spec == Init /\ [][Next]_vars

\* Each thread that can take a step does, one of the senders that wait in the
\* backlog is not passed over for ever, and a capture without a connection
\* opens one.  Nothing is assumed of users, clocks, losses and failures, nor
\* that a connection which vanished silently is ever noticed.
WorkerStep ==
  \/ ReadUpgrade \/ CloseConnection \/ StopAccepting
  \/ (AbandonConnection /\ UNCHANGED faults)
  \/ HandlePairChallenge \/ HandlePairFinal
  \/ HandleAuthChallenge \/ HandleAuthFinal
  \/ PrepareDecoder \/ SendReady \/ CannotSendReady
  \/ EndSession

ExtensionStep(s) ==
  \/ SendChallenge(s)
  \/ ReceivePairProof(s) \/ ReceiveAuthProof(s)
  \/ ReceivePaired(s) \/ ReceiveReady(s) \/ ReceiveError(s)
  \/ SeeClose(s)

Fairness ==
  /\ WF_vars(WorkerStep)
  /\ WF_vars(FinishForget)
  /\ WF_vars(FinishStop)
  /\ \A s \in Senders :
       /\ SF_vars(AcceptWebSocket(s))
       /\ WF_vars(ExtensionStep(s))
       /\ SF_vars(OpenForCapture(s))

FairSpec == Spec /\ Fairness

-----------------------------------------------------------------------------
(* Properties *)

ReceiverTypes ==
  /\ trust \in Trust \cup {None}
  /\ version \in Nat
  /\ pending \in Pending \cup {None}
  /\ expired \in BOOLEAN
  /\ consumed \in Codes \cup {None}
  /\ latest \in 0..MaxEpoch
  /\ contract \in Contracts \cup {None}
  /\ previous \in Previous \cup {None}

ControlTypes ==
  /\ desired \in BOOLEAN
  /\ ui \in {"idle", "forgetting", "stopping"}
  /\ worker \in {"off", "accepting", "upgrading", "challenge", "preparing",
                 "answering", "session", "closing"}
  /\ socket \in BOOLEAN
  /\ peer \in Senders \cup {None}
  /\ live \in {"none", "open", "ended", "silent"}
  /\ request \in Request \cup {None}
  /\ challenge \in Request \cup {None}

SenderTypes ==
  /\ stored \in [Senders -> Nat \cup {None}]
  /\ shown \in 0..MaxCodes
  /\ code \in [Senders -> Codes \cup {None}]
  /\ owner \in [Codes -> Senders \cup {None}]
  /\ epoch \in [Senders -> 0..MaxEpoch]
  /\ capture \in [Senders -> Capture \cup {None}]
  /\ exchange \in [Senders -> Exchange \cup {None}]
  /\ reply \in [Senders -> Reply \cup {None}]

HistoryTypes ==
  /\ faults \in 0..MaxFaults
  /\ issued \in 0..MaxAuthorizations
  /\ forgotten \in 0..MaxAuthorizations
  /\ used \in SUBSET (1..MaxAuthorizations)
  /\ author \in Senders \cup {None}
  /\ served \in Media \cup {None}

\* Every variable keeps its type, and a trusted credential belongs to a pairing
\* record whose version says so: the user interface saves a record only when
\* its version has grown.
TypeOK ==
  /\ ReceiverTypes /\ ControlTypes /\ SenderTypes /\ HistoryTypes
  /\ trust # None => trust.credential \in 1..version

\* A session is that of the trusted device with the trusted credential,
\* whatever the user interface did while it was set up; only while
\* ForgetDevice is between clearing the trust and closing the socket may an
\* untrusted session still have an open socket.
SessionTrusted ==
  worker = "session" /\ socket /\ ui # "forgetting" =>
    /\ Identified
    /\ challenge.credential = trust.credential

\* A device that was forgotten is not trusted again for an authorisation the
\* user gave before, not even if its pairing was under way.
ForgottenStaysForgotten == trust # None => trust.grant > forgotten

\* One authorisation of the user is good for one pairing.
AuthorizationUsedOnce ==
  [][trust' # trust /\ trust' # None => trust'.grant \notin used]_vars

\* The sources announced as ready never go back: each has a greater epoch than
\* the one before, or the same epoch and the same contract.
SourcesAdvance ==
  [][served' # served /\ served # None =>
       served'.epoch > served.epoch]_vars

\* An authorisation is that of the extension whose code it was, and a session counts
\* as closed once its socket is or the user has had its device forgotten.
AuthorizedSender == IF pending = None \/ expired THEN None ELSE owner[pending.code]
TrustedSender    == IF trust = None THEN None ELSE trust.sender
ServedSender     == IF worker = "session" /\ socket /\ ui # "forgetting" THEN peer ELSE None

Authority == INSTANCE DeviceTrust WITH
  Devices <- Senders, Nobody <- None, authorized <- AuthorizedSender,
  trusted <- TrustedSender, serving <- ServedSender, source <- served

\* The whole of it: whoever pairs, connects, forgets and stops in whatever order, the
\* Receiver keeps what DeviceTrust promises its user.
KeepsTrust == Authority!Spec

\* A trusted extension that wants a connection gets one again and again, if
\* the user leaves the trust and the Receiver alone and no connection vanishes
\* silently for ever.
CaptureServed ==
  \A s \in Senders :
    <>[](/\ capture[s] # None /\ desired /\ ui = "idle"
         /\ live # "silent") =>
      []<>(worker = "session" /\ Linked(s))

\* "The tablet has switched to a newer source" (direct-client.js 638) is what
\* the extension says of an epoch that is stale: only a session of its own can
\* have set a greater epoch, the epochs of two extensions do not compare.
StaleMeansNewerSource ==
  \A s \in Senders :
    reply[s] = [type |-> "error", why |-> "epoch_stale"] => author = s

-----------------------------------------------------------------------------
(* The inductive invariant behind the safety properties *)

\* Where the worker is says what it has of a connection.
WorkerInv ==
  /\ worker \in {"off", "accepting"} =>
       /\ peer = None /\ live = "none" /\ ~socket
       /\ request = None /\ challenge = None
  /\ worker \in {"upgrading", "challenge", "preparing", "answering", "session"} =>
       peer \in Senders
  /\ worker \in {"preparing", "answering", "session"} => challenge \in AuthFinal
  /\ worker = "preparing" => previous # None
  /\ socket \/ live = "open" => peer \in Senders
  /\ live = "open" => exchange[peer] # None

\* What an extension awaits fits what it is about.
ExchangeInv ==
  \A s \in Senders :
    /\ reply[s] # None => exchange[s] # None
    /\ reply[s] # None /\ reply[s].type = "pair_proof" => exchange[s].goal = "pair"
    /\ reply[s] # None /\ reply[s].type = "auth_proof" => exchange[s].goal = "auth"
    /\ exchange[s] # None =>
         IF exchange[s].goal = "auth" THEN capture[s] # None
                                      ELSE exchange[s].code # None

\* The proof that answers a challenge goes to the exchange that sent it.
RequestInv ==
  request # None /\ live = "open" =>
    /\ request.type = "pair_challenge" => exchange[peer].goal = "pair"
    /\ request.type = "auth_challenge" => exchange[peer].goal = "auth"

\* An authorisation that is pending was given after the last device was
\* forgotten, and no pairing was granted for it; none can be given meanwhile.
GrantInv ==
  /\ ui = "forgetting" => trust = None /\ pending = None
  /\ trust # None => trust.grant > forgotten
  /\ pending # None =>
       /\ pending.grant > forgotten /\ pending.grant <= issued
       /\ pending.grant \notin used
  /\ forgotten <= issued
  /\ \A grant \in used : grant <= issued

\* A code stays that of the extension that made it, and only its own exchanges
\* present it.
OwnerInv ==
  /\ \A c \in Codes : owner[c] # None <=> c <= shown
  /\ \A s \in Senders :
       /\ code[s] # None => owner[code[s]] = s
       /\ exchange[s] # None /\ exchange[s].code # None => owner[exchange[s].code] = s
  /\ request # None /\ request.type \in PairTypes =>
       peer \in Senders /\ owner[request.code] = peer
  /\ pending # None => owner[pending.code] # None

\* Trust cannot change between the final check and the end of the session
\* without the socket being closed.
SessionInv ==
  worker \in {"preparing", "answering", "session"} /\ socket
    /\ ui # "forgetting" =>
      /\ Identified
      /\ challenge.credential = trust.credential

\* What was announced last is not ahead of what is active, nor of what a
\* decoder that fails to start would roll back to.
SourceInv ==
  /\ worker \in {"preparing", "answering"} =>
       latest = challenge.media.epoch /\ contract = challenge.media.contract
  /\ served # None =>
       /\ latest >= served.epoch
       /\ latest = served.epoch => contract = served.contract
  /\ served # None /\ worker = "preparing" =>
       /\ previous.epoch >= served.epoch
       /\ previous.epoch = served.epoch => previous.contract = served.contract

IInv ==
  /\ TypeOK /\ WorkerInv /\ ExchangeInv /\ RequestInv
  /\ GrantInv /\ OwnerInv /\ SessionInv /\ SourceInv
=============================================================================
