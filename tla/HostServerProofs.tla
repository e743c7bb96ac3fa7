-------------------------- MODULE HostServerProofs --------------------------
(***************************************************************************)
(* Proofs about HostServer, for any clients, lengths and bounds.           *)
(***************************************************************************)
EXTENDS HostServer, TLAPS

\* The gate is open only for a session, and closed from the moment ClearSession
\* has revoked it until Open lets the next session through.
GateInv ==
  /\ allowed => paired /\ control \notin {"revoked", "clear", "rotate", "open"}
  /\ control \in {"sendSession", "open"} => paired

\* An epoch that the pipe thread holds is not ahead of the gate's, so each
\* increment makes it stale.
TokenInv == token <= epoch

\* A code that has paired a client is drawn anew before anyone may pair again.
CodeInv ==
  /\ codes \subseteq 1..pairing_code
  /\ pairing_code \in codes => paired \/ control = "rotate"

IInv == TypeOK /\ GateInv /\ TokenInv /\ NoForeignVideo /\ CodeInv

USE DEF At, Goto

\* What CountsAssumption says of each constant.
LEMMA Counts ==
  /\ ResumeTicks \in Nat /\ ResumeTicks > 0
  /\ Fragments \in Nat /\ Fragments > 0
  /\ MaxSessions \in Nat /\ MaxResumes \in Nat /\ MaxDrops \in Nat
<1>1. \A x \in {ResumeTicks, Fragments, MaxSessions, MaxResumes, MaxDrops} : x \in Nat \ {0}
  BY CountsAssumption
<1> QED
  BY <1>1

\* TypeOK in parts: flags and peer, numbers, the control thread, the pipe thread,
\* the rest.
FlagTypes ==
  /\ allowed \in BOOLEAN /\ paired \in BOOLEAN /\ resume_pending \in BOOLEAN
  /\ video_peer \in Clients \cup {Nobody}

NumberTypes ==
  /\ epoch \in Nat /\ pairing_code \in Nat
  /\ session_short \in 0..MaxSessions /\ left \in 0..ResumeTicks

ThreadTypes ==
  /\ control \in ControlPlaces /\ after \in {"loop", "close"}
  /\ client \in Clients \cup {Nobody} /\ authenticated \in BOOLEAN

PipeTypes ==
  /\ pipe \in {"idle", "token", "check", "read", "sending", "ended"}
  /\ token \in Nat /\ session \in 0..MaxSessions /\ peer \in Clients \cup {Nobody}
  /\ fragment \in 0 .. Fragments - 1

SignalTypes == wifi \in BOOLEAN /\ stop_event \in BOOLEAN

CountTypes ==
  /\ codes \subseteq Nat
  /\ used \in [sessions : 0..MaxSessions, resumes : 0..MaxResumes, drops : 0..MaxDrops]

LEMMA TypeParts ==
  TypeOK <=> FlagTypes /\ NumberTypes /\ ThreadTypes /\ PipeTypes /\ SignalTypes /\ CountTypes
  BY Zenon DEF TypeOK, FlagTypes, NumberTypes, ThreadTypes, PipeTypes, SignalTypes, CountTypes

\* The initial state satisfies the inductive invariant.
LEMMA InitIInv == Init => IInv
<1> SUFFICES ASSUME Init PROVE IInv
  OBVIOUS
<1> USE DEF Init
<1>1. FlagTypes
  BY Zenon DEF FlagTypes
<1>2. NumberTypes
  BY Counts DEF NumberTypes
<1>3. ThreadTypes
  BY Zenon DEF ThreadTypes, ControlPlaces
<1>4. PipeTypes
  BY Counts DEF PipeTypes
<1>5. SignalTypes
  BY Zenon DEF SignalTypes
<1>6. CountTypes
  BY Counts DEF CountTypes
<1>7. GateInv /\ TokenInv /\ NoForeignVideo /\ CodeInv
  BY DEF GateInv, TokenInv, NoForeignVideo, CodeInv
<1> QED
  BY <1>1, <1>2, <1>3, <1>4, <1>5, <1>6, <1>7, TypeParts DEF IInv

-----------------------------------------------------------------------------
(* Types.                                                                  *)

\* No step breaks a type of the session's flags and peer.
LEMMA FlagsTyped == TypeOK /\ Next => FlagTypes'
<1> SUFFICES ASSUME TypeOK, Next PROVE FlagTypes'
  OBVIOUS
<1> USE DEF FlagTypes, gate, state
<1>0. FlagTypes /\ ThreadTypes
  BY TypeParts
<1>1. CASE ControlSteps
  BY <1>0, <1>1, Zenon DEF ControlSteps, RevokeCloses, RevokeDrains, ClearState,
     RotatePairingCode, ExpireResumeWindow, Disconnected, ControlEnds, WifiNotAllowed,
     ClientStopped, SendSession, OpenEpoch
<1>2. CASE Requests
  BY <1>0, <1>2, Zenon DEF Requests, Accept, ClientEnds, Resume, Pair, ThreadTypes
<1>3. CASE PipeLoop \/ Tick \/ WifiChanges \/ Stop
  BY <1>0, <1>3, Zenon DEF PipeLoop, Tick, WifiChanges, Stop
<1> QED
  BY <1>1, <1>2, <1>3 DEF Next

\* Nor of its numbers: the bound on pairings is that of session_short.
LEMMA NumbersTyped == TypeOK /\ Next => NumberTypes'
<1> SUFFICES ASSUME TypeOK, Next PROVE NumberTypes'
  OBVIOUS
<1> USE DEF NumberTypes, gate, state
<1>0. NumberTypes /\ CountTypes
  BY TypeParts
<1>1. CASE RevokeDrains \/ OpenEpoch
  BY <1>0, <1>1 DEF RevokeDrains, OpenEpoch
<1>2. CASE ClearState
  BY <1>0, <1>2, Counts DEF ClearState
<1>3. CASE RotatePairingCode
  BY <1>0, <1>3 DEF RotatePairingCode
<1>4. CASE Disconnected
  BY <1>0, <1>4, Counts DEF Disconnected
<1>5. CASE Tick
  BY <1>0, <1>5, Counts DEF Tick
<1>6. ASSUME NEW c \in 1..pairing_code, Pair(c) PROVE NumberTypes'
  <2>1. used.sessions \in 0..MaxSessions
    BY <1>0 DEF CountTypes
  <2>2. UNCHANGED <<epoch, pairing_code, left>> /\ session_short' = used.sessions + 1
        /\ used.sessions < MaxSessions
    BY <1>6, Zenon DEF Pair
  <2> QED
    BY <1>0, <2>1, <2>2, Counts
<1>7. CASE UNCHANGED <<epoch, session_short, pairing_code, left>>
  BY <1>0, <1>7
<1>8. CASE PipeLoop \/ WifiChanges \/ Stop
  BY <1>7, <1>8, Zenon DEF PipeLoop, WifiChanges, Stop
<1>9. CASE RevokeCloses \/ ExpireResumeWindow \/ ControlEnds \/ WifiNotAllowed
           \/ ClientStopped \/ SendSession
  BY <1>7, <1>9, Zenon DEF RevokeCloses, ExpireResumeWindow, ControlEnds, WifiNotAllowed,
     ClientStopped, SendSession
<1>10. CASE ClientEnds \/ (\E c \in Clients : Accept(c)) \/ \E s \in 1..MaxSessions : Resume(s)
  BY <1>7, <1>10, Zenon DEF ClientEnds, Accept, Resume
<1> QED
  BY <1>1, <1>2, <1>3, <1>4, <1>5, <1>6, <1>8, <1>9, <1>10, Zenon
     DEF Next, ControlSteps, Requests

\* Nor of the control thread's.
LEMMA ThreadTyped == TypeOK /\ Next => ThreadTypes'
<1> SUFFICES ASSUME TypeOK, Next PROVE ThreadTypes'
  OBVIOUS
<1> USE TypeParts DEF ThreadTypes, ControlPlaces, conn
<1>1. CASE RevokeCloses \/ RevokeDrains \/ ClearState \/ RotatePairingCode
  BY <1>1 DEF RevokeCloses, RevokeDrains, ClearState, RotatePairingCode
<1>2. CASE ExpireResumeWindow \/ WifiNotAllowed
  BY <1>2 DEF ExpireResumeWindow, WifiNotAllowed, ClearSession
<1>3. CASE Disconnected \/ ControlEnds \/ ClientStopped
  BY <1>3 DEF Disconnected, ControlEnds, ClientStopped
<1>4. CASE SendSession \/ OpenEpoch
  BY <1>4 DEF SendSession, OpenEpoch
<1>5. CASE Requests
  BY <1>5 DEF Requests, Accept, ClientEnds, Resume, Pair
<1>6. CASE PipeLoop \/ Tick \/ WifiChanges \/ Stop
  BY <1>6 DEF PipeLoop, Tick, WifiChanges, Stop
<1> QED
  BY <1>1, <1>2, <1>3, <1>4, <1>5, <1>6 DEF Next, ControlSteps

\* Only PipeLoop changes what belongs to the pipe thread.
LEMMA SenderFrame == Next => PipeLoop \/ UNCHANGED sender
<1>1. ControlSteps => UNCHANGED sender
  BY DEF ControlSteps, RevokeCloses, RevokeDrains, ClearState, RotatePairingCode,
         ExpireResumeWindow, Disconnected, ControlEnds, WifiNotAllowed, ClientStopped,
         SendSession, OpenEpoch
<1>2. Requests => UNCHANGED sender
  BY DEF Requests, Accept, ClientEnds, Resume, Pair
<1>3. Tick \/ WifiChanges \/ Stop => UNCHANGED sender
  BY DEF Tick, WifiChanges, Stop
<1> QED
  BY <1>1, <1>2, <1>3 DEF Next

\* Nor of the pipe thread's.
LEMMA PipeTyped == TypeOK /\ Next => PipeTypes'
<1> SUFFICES ASSUME TypeOK, Next PROVE PipeTypes'
  OBVIOUS
<1> USE Counts, TypeParts DEF PipeTypes
<1>1. CASE UNCHANGED sender
  BY <1>1 DEF sender
<1>2. CASE CaptureAllowed \/ CaptureToken \/ Capture \/ PipeEnds
  BY <1>2 DEF CaptureAllowed, CaptureToken, Capture, PipeEnds, NumberTypes
<1>3. CASE ReadSession
  BY <1>3 DEF ReadSession, NumberTypes, FlagTypes
<1>4. CASE SendFragment
  BY <1>4 DEF SendFragment
<1> QED
  BY <1>1, <1>2, <1>3, <1>4, SenderFrame DEF PipeLoop

\* Nor of the signals, nor of what is counted.
LEMMA SignalsTyped == TypeOK /\ Next => SignalTypes'
<1> SUFFICES ASSUME TypeOK, Next PROVE SignalTypes'
  OBVIOUS
<1> USE DEF SignalTypes, world
<1>0. SignalTypes
  BY TypeParts
<1>1. CASE ControlSteps
  BY <1>0, <1>1, Zenon DEF ControlSteps, RevokeCloses, RevokeDrains, ClearState,
     RotatePairingCode, ExpireResumeWindow, Disconnected, ControlEnds, WifiNotAllowed,
     ClientStopped, SendSession, OpenEpoch
<1>2. CASE Requests
  BY <1>0, <1>2, Zenon DEF Requests, Accept, ClientEnds, Resume, Pair
<1>3. CASE PipeLoop \/ Tick \/ WifiChanges \/ Stop
  BY <1>0, <1>3, Zenon DEF PipeLoop, Tick, WifiChanges, Stop
<1> QED
  BY <1>1, <1>2, <1>3 DEF Next

LEMMA CountsTyped == TypeOK /\ Next => CountTypes'
<1> SUFFICES ASSUME TypeOK, Next PROVE CountTypes'
  OBVIOUS
<1> USE DEF CountTypes, world
<1>0. CountTypes /\ NumberTypes
  BY TypeParts
<1>1. CASE UNCHANGED <<used, codes>>
  BY <1>0, <1>1
<1>2. CASE ControlSteps
  BY <1>1, <1>2, Zenon DEF ControlSteps, RevokeCloses, RevokeDrains, ClearState,
     RotatePairingCode, ExpireResumeWindow, Disconnected, ControlEnds, WifiNotAllowed,
     ClientStopped, SendSession, OpenEpoch
<1>3. CASE ClientEnds \/ PipeLoop \/ Tick \/ Stop \/ \E c \in Clients : Accept(c)
  BY <1>1, <1>3, Zenon DEF ClientEnds, PipeLoop, Tick, Stop, Accept
<1>4. ASSUME NEW s \in 1..MaxSessions, Resume(s) PROVE CountTypes'
  BY <1>0, <1>4, Counts DEF Resume
<1>5. ASSUME NEW c \in 1..pairing_code, Pair(c) PROVE CountTypes'
  BY <1>0, <1>5, Counts DEF Pair, NumberTypes
<1>6. CASE WifiChanges
  <2>1. \/ used' = [used EXCEPT !.drops = @ + 1] /\ used.drops < MaxDrops /\ UNCHANGED codes
        \/ UNCHANGED <<used, codes>>
    BY <1>0, <1>6 DEF WifiChanges
  <2> QED
    BY <1>0, <2>1, Counts
<1> QED
  BY <1>2, <1>3, <1>4, <1>5, <1>6, Zenon DEF Next, Requests

-----------------------------------------------------------------------------
(* The gate.                                                               *)

\* Whoever opens, closes or uses the gate, it is open only for a session.
LEMMA GateStep == IInv /\ Next => GateInv' /\ TokenInv'
<1> SUFFICES ASSUME IInv, Next PROVE GateInv' /\ TokenInv'
  OBVIOUS
<1> USE DEF IInv, TypeOK, GateInv, TokenInv, gate, state, conn, sender, world
<1>1. CASE ControlSteps
  BY <1>1 DEF ControlSteps, RevokeCloses, RevokeDrains, ClearState, RotatePairingCode,
              ExpireResumeWindow, Disconnected, ControlEnds, WifiNotAllowed, ClearSession,
              ClientStopped, SendSession, OpenEpoch
<1>2. CASE Requests
  BY <1>2 DEF Requests, Accept, ClientEnds, Resume, Pair, Serving, CodeMatches, CanResume
<1>3. CASE PipeLoop
  BY <1>3 DEF PipeLoop, CaptureAllowed, CaptureToken, Capture, ReadSession, SendFragment,
              PipeEnds
<1>4. CASE Tick \/ WifiChanges \/ Stop
  BY <1>4 DEF Tick, WifiChanges, Stop
<1> QED
  BY <1>1, <1>2, <1>3, <1>4 DEF Next

\* What changes the session closes the gate first, what opens it again makes the
\* epoch that the pipe thread holds stale, and a client that resumes is the peer.
LEMMA VideoStep == IInv /\ Next => NoForeignVideo'
<1> SUFFICES ASSUME IInv, Next PROVE NoForeignVideo'
  OBVIOUS
<1> USE DEF IInv, GateInv, NoForeignVideo, RunIfAllowed, gate, state, conn, sender
<1>1. CASE RevokeCloses \/ SendSession
  BY <1>1, Zenon DEF RevokeCloses, SendSession
<1>2. CASE RevokeDrains \/ ClearState \/ RotatePairingCode
  BY <1>2, Zenon DEF RevokeDrains, ClearState, RotatePairingCode
<1>3. CASE OpenEpoch
  <2>1. token' = token /\ epoch' = epoch + 1
    BY <1>3, Zenon DEF OpenEpoch
  <2>2. token' # epoch'
    BY <2>1 DEF TokenInv, TypeOK
  <2> QED
    BY <2>2, Zenon
<1>4. CASE ExpireResumeWindow \/ WifiNotAllowed \/ Disconnected \/ ControlEnds
           \/ ClientStopped
  BY <1>4, Zenon DEF ExpireResumeWindow, WifiNotAllowed, ClearSession, Disconnected,
     ControlEnds, ClientStopped
<1>5. CASE Requests
  BY <1>5 DEF TypeOK, Requests, Accept, ClientEnds, Resume, Pair, Serving, CodeMatches,
     CanResume
<1>6. CASE PipeLoop
  BY <1>6 DEF TypeOK, PipeLoop, CaptureAllowed, CaptureToken, Capture, ReadSession,
     SendFragment, PipeEnds
<1>7. CASE Tick \/ WifiChanges \/ Stop
  BY <1>7, Zenon DEF Tick, WifiChanges, Stop
<1> QED
  BY <1>1, <1>2, <1>3, <1>4, <1>5, <1>6, <1>7, Zenon DEF Next, ControlSteps

\* A code leaves the set of codes that may pair for good.
LEMMA CodeStep == IInv /\ Next => CodeInv'
<1> SUFFICES ASSUME IInv, Next PROVE CodeInv'
  OBVIOUS
<1> USE DEF IInv, CodeInv, gate, state, conn
<1>1. CASE RotatePairingCode
  <2>1. pairing_code' = pairing_code + 1 /\ codes' = codes
    BY <1>1, Zenon DEF RotatePairingCode
  <2>2. codes' \subseteq 1..pairing_code' /\ pairing_code' \notin codes'
    BY <2>1 DEF TypeOK
  <2> QED
    BY <2>2, Zenon
<1>2. CASE RevokeCloses \/ RevokeDrains \/ ClearState
  BY <1>2, Zenon DEF RevokeCloses, RevokeDrains, ClearState
<1>3. CASE ExpireResumeWindow \/ WifiNotAllowed \/ Disconnected \/ ControlEnds
           \/ ClientStopped
  BY <1>3, Zenon DEF ExpireResumeWindow, WifiNotAllowed, ClearSession, Disconnected,
     ControlEnds, ClientStopped
<1>4. CASE SendSession \/ OpenEpoch
  BY <1>4, Zenon DEF SendSession, OpenEpoch
<1>5. CASE Requests
  BY <1>5 DEF Requests, Accept, ClientEnds, Resume, Pair, Serving, CodeMatches, CanResume
<1>6. CASE PipeLoop \/ Tick \/ WifiChanges \/ Stop
  BY <1>6, Zenon DEF PipeLoop, Tick, WifiChanges, Stop
<1> QED
  BY <1>1, <1>2, <1>3, <1>4, <1>5, <1>6, Zenon DEF Next, ControlSteps

-----------------------------------------------------------------------------

\* A step that changes nothing keeps the invariant, and so does every other.
LEMMA Invariance == Spec => []IInv
<1>1. IInv /\ [Next]_vars => IInv'
  <2> SUFFICES ASSUME IInv, [Next]_vars PROVE IInv'
    OBVIOUS
  <2>1. CASE Next
    <3>1. TypeOK'
      BY <2>1, FlagsTyped, NumbersTyped, ThreadTyped, PipeTyped, SignalsTyped,
         CountsTyped, TypeParts, PTL DEF IInv
    <3> QED
      BY <2>1, <3>1, GateStep, VideoStep, CodeStep DEF IInv
  <2>2. CASE UNCHANGED vars
    BY <2>2 DEF IInv, TypeOK, GateInv, TokenInv, NoForeignVideo, RunIfAllowed, CodeInv,
                vars, gate, state, conn, sender, world
  <2> QED
    BY <2>1, <2>2
<1> QED
  BY <1>1, InitIInv, PTL DEF Spec

\* Every variable of the host keeps its type.
THEOREM TypeCorrectness == Spec => []TypeOK
<1>1. IInv => TypeOK
  BY DEF IInv
<1> QED
  BY <1>1, Invariance, PTL

\* However clearing, pairing and resuming fall between the steps of
\* SendVideoFrame, a datagram goes to the client of the session it is from.
THEOREM VideoStaysInSession == Spec => []NoForeignVideo
<1>1. IInv => NoForeignVideo
  BY DEF IInv
<1> QED
  BY <1>1, Invariance, PTL

\* No code of the host pairs two clients, whatever ends the session between.
THEOREM OnePairingPerCode == Spec => []CodeUsedOnce
<1>1. IInv => CodeUsedOnce
  BY DEF IInv, CodeInv, CodeUsedOnce
<1> QED
  BY <1>1, Invariance, PTL
=============================================================================
