---------------------------- MODULE HostServer ----------------------------
(***************************************************************************)
(* The legacy Windows host (host_server.cpp, data_plane_gate.h): a control *)
(* thread that serves one client at a time, a pipe thread that sends the   *)
(* driver's frames to the paired client, and the gate between them.        *)
(*                                                                         *)
(* A client is its IPv4 address; codes and sessions are numbered in the    *)
(* order they are drawn, random collisions and a failing random generator  *)
(* being left out.  A critical section of state_mutex_ or of the gate's    *)
(* send_mutex_ is one action, a read or write of an atomic outside them    *)
(* another.                                                                *)
(***************************************************************************)
EXTENDS Naturals

CONSTANTS Clients,       \* the addresses clients connect from
          Nobody,        \* no client
          ResumeTicks,   \* the length of the resume window
          Fragments,     \* datagrams to a frame
          MaxSessions, MaxResumes, MaxDrops   \* bounds for TLC: pairings,
                         \* resumptions, losses of the allowed Wi-Fi

ASSUME NobodyAssumption == Nobody \notin Clients
ASSUME CountsAssumption ==
  {ResumeTicks, Fragments, MaxSessions, MaxResumes, MaxDrops} \subseteq Nat \ {0}

VARIABLES
  allowed, epoch,                \* DataPlaneGate: allowed_, epoch_
  paired, resume_pending, session_short, video_peer, pairing_code,
  left,                          \* ticks to resume_deadline_
  control, after,                \* the control thread, and where ClearSession returns
  client, authenticated,         \* active_client_'s address; HandleClient's flag
  pipe, token, session, peer, fragment,   \* SendVideoFrame and its locals
  wifi,                          \* whether NetworkGate allows the address
  stop_event,
  codes,                         \* ghost: the codes that paired a client
  used                           \* what is used up of the bounds

gate  == <<allowed, epoch>>
state == <<paired, resume_pending, session_short, video_peer>>
conn  == <<client, authenticated>>
sender == <<pipe, token, session, peer, fragment>>
world == <<wifi, stop_event, used>>
vars  == <<gate, state, pairing_code, left, control, after, conn, sender, world, codes>>

ControlPlaces == {"loop", "revoke", "revoked", "clear", "rotate", "client", "sendSession",
                  "close", "open", "ended"}

TypeOK ==
  /\ allowed \in BOOLEAN /\ epoch \in Nat
  /\ paired \in BOOLEAN /\ resume_pending \in BOOLEAN
  /\ session_short \in 0..MaxSessions
  /\ video_peer \in Clients \cup {Nobody} /\ pairing_code \in Nat
  /\ left \in 0..ResumeTicks
  /\ control \in ControlPlaces /\ after \in {"loop", "close"}
  /\ client \in Clients \cup {Nobody} /\ authenticated \in BOOLEAN
  /\ pipe \in {"idle", "token", "check", "read", "sending", "ended"}
  /\ token \in Nat /\ session \in 0..MaxSessions /\ peer \in Clients \cup {Nobody}
  /\ fragment \in 0 .. Fragments - 1
  /\ wifi \in BOOLEAN /\ stop_event \in BOOLEAN
  /\ codes \subseteq Nat
  /\ used \in [sessions : 0..MaxSessions, resumes : 0..MaxResumes, drops : 0..MaxDrops]

Init ==
  /\ allowed = FALSE /\ epoch = 0
  /\ paired = FALSE /\ resume_pending = FALSE /\ session_short = 0 /\ video_peer = Nobody
  /\ pairing_code = 1 /\ left = 0
  /\ control = "loop" /\ after = "loop" /\ client = Nobody /\ authenticated = FALSE
  /\ pipe = "idle" /\ token = 0 /\ session = 0 /\ peer = Nobody /\ fragment = 0
  /\ wifi = TRUE /\ stop_event = FALSE
  /\ codes = {}
  /\ used = [sessions |-> 0, resumes |-> 0, drops |-> 0]

At(place)  == control = place
Goto(place) == control' = place

-----------------------------------------------------------------------------
(* ClearSession: the gate is revoked, then the session forgotten, then a   *)
(* new code drawn.  Revoke closes the gate before it waits for the datagram *)
(* that is being sent.                                                      *)

RevokeCloses ==
  /\ At("revoke") /\ Goto("revoked")
  /\ allowed' = FALSE
  /\ UNCHANGED <<epoch, state, pairing_code, left, after, conn, sender, world, codes>>

RevokeDrains ==
  /\ At("revoked") /\ Goto("clear")
  /\ epoch' = epoch + 1
  /\ UNCHANGED <<allowed, state, pairing_code, left, after, conn, sender, world, codes>>

ClearState ==
  /\ At("clear") /\ Goto("rotate")
  /\ paired' = FALSE /\ resume_pending' = FALSE
  /\ session_short' = 0 /\ video_peer' = Nobody
  /\ UNCHANGED <<gate, pairing_code, left, after, conn, sender, world, codes>>

\* A mutant: the code survives the session.
KeepCode ==
  /\ At("rotate") /\ Goto(after)
  /\ paired' = FALSE
  /\ UNCHANGED <<gate, resume_pending, session_short, video_peer, pairing_code, left, after,
                 conn, sender, world, codes>>

RotatePairingCode ==
  /\ At("rotate") /\ Goto(after)
  /\ pairing_code' = pairing_code + 1
  /\ paired' = FALSE
  /\ UNCHANGED <<gate, resume_pending, session_short, video_peer, left, after,
                 conn, sender, world, codes>>

ClearSession(return) == Goto("revoke") /\ after' = return

-----------------------------------------------------------------------------
(* ControlLoop.                                                            *)

\* A mutant: only a session that is not paired any more expires.
ExpiredUnpaired == resume_pending /\ left = 0 /\ ~paired

Expired == resume_pending /\ left = 0

ExpireResumeWindow ==
  /\ At("loop") /\ ~stop_event /\ Expired
  /\ ClearSession("loop")
  /\ UNCHANGED <<gate, state, pairing_code, left, conn, sender, world, codes>>

\* The address is allowed, listened on for half a second, checked again and a
\* client accepted; the resume window may have run out meanwhile.
Accept(c) ==
  /\ At("loop") /\ ~stop_event /\ wifi
  /\ Goto("client")
  /\ client' = c /\ authenticated' = FALSE
  /\ UNCHANGED <<gate, state, pairing_code, left, after, sender, world, codes>>

\* HandleClient returns: the socket is closed and MarkDisconnected opens the
\* resume window of whatever session there is.
Disconnected ==
  /\ At("close") /\ Goto("loop")
  /\ client' = Nobody
  /\ resume_pending' = (resume_pending \/ paired)
  /\ left' = IF paired THEN ResumeTicks ELSE left
  /\ UNCHANGED <<gate, paired, session_short, video_peer, pairing_code, after, authenticated,
                 sender, world, codes>>

ControlEnds ==
  /\ At("loop") /\ stop_event
  /\ Goto("ended")
  /\ UNCHANGED <<gate, state, pairing_code, left, after, conn, sender, world, codes>>

-----------------------------------------------------------------------------
(* HandleClient.                                                           *)

\* Each turn first looks at the stop event and at the Wi-Fi.
WifiNotAllowed ==
  /\ At("client") /\ ~stop_event /\ ~wifi
  /\ ClearSession("close")
  /\ UNCHANGED <<gate, state, pairing_code, left, conn, sender, world, codes>>

Serving == At("client") /\ ~stop_event /\ wifi

\* The peer closes, is silent for three seconds or sends a malformed frame, or
\* neither its code nor its session, version and port will do.
ClientEnds ==
  /\ Serving /\ Goto("close")
  /\ UNCHANGED <<gate, state, pairing_code, left, after, conn, sender, world, codes>>

\* A mutant: only a client that has authenticated is let go on Stop.
StopAuthenticated ==
  /\ At("client") /\ stop_event /\ authenticated /\ Goto("close")
  /\ UNCHANGED <<gate, state, pairing_code, left, after, conn, sender, world, codes>>

ClientStopped ==
  /\ At("client") /\ stop_event /\ Goto("close")
  /\ UNCHANGED <<gate, state, pairing_code, left, after, conn, sender, world, codes>>

CanResume(s) == /\ s = session_short /\ s # 0 /\ paired /\ resume_pending /\ left > 0
                /\ client = video_peer

\* A mutant: the code on the screen also opens a session that is taken.
CodeAlone(c) == c = pairing_code

CodeMatches(c) == c = pairing_code /\ ~paired

Resume(s) ==
  /\ Serving /\ ~authenticated /\ CanResume(s)
  /\ used.resumes < MaxResumes /\ used' = [used EXCEPT !.resumes = @ + 1]
  /\ Goto("sendSession")
  /\ resume_pending' = FALSE /\ video_peer' = client
  /\ UNCHANGED <<gate, paired, session_short, pairing_code, left, after, conn, sender,
                 wifi, stop_event, codes>>

Pair(c) ==
  /\ Serving /\ ~authenticated /\ CodeMatches(c)
  /\ used.sessions < MaxSessions /\ used' = [used EXCEPT !.sessions = @ + 1]
  /\ Goto("sendSession")
  /\ paired' = TRUE /\ resume_pending' = FALSE
  /\ session_short' = used.sessions + 1 /\ video_peer' = client
  /\ codes' = codes \cup {c}
  /\ UNCHANGED <<gate, pairing_code, left, after, conn, sender, wifi, stop_event>>

\* SendControl of the session message succeeds, and DataPlaneGate::Open begins,
\* or it fails and HandleClient returns with the session in place.
SendSession ==
  /\ At("sendSession")
  /\ \/ Goto("open") /\ authenticated' = TRUE /\ allowed' = FALSE
     \/ Goto("close") /\ UNCHANGED <<authenticated, allowed>>
  /\ UNCHANGED <<epoch, state, pairing_code, left, after, client, sender, world, codes>>

\* The locked part of Open; Capture sees nothing between its two writes.
OpenEpoch ==
  /\ At("open")
  /\ epoch' = epoch + 1 /\ allowed' = TRUE
  /\ Goto("client")
  /\ UNCHANGED <<state, pairing_code, left, after, conn, sender, world, codes>>

-----------------------------------------------------------------------------
(* The pipe thread: SendVideoFrame for each frame the driver writes.       *)

\* Capture: allowed_, then the epoch, then both again.
CaptureAllowed ==
  /\ pipe = "idle" /\ ~stop_event /\ allowed
  /\ pipe' = "token"
  /\ UNCHANGED <<token, session, peer, fragment>>

CaptureToken ==
  /\ pipe = "token"
  /\ pipe' = "check" /\ token' = epoch
  /\ UNCHANGED <<session, peer, fragment>>

Capture ==
  /\ pipe = "check"
  /\ pipe' = IF allowed /\ epoch = token THEN "read" ELSE "idle"
  /\ UNCHANGED <<token, session, peer, fragment>>

ReadSession ==
  /\ pipe = "read"
  /\ IF paired /\ session_short # 0
     THEN pipe' = "sending" /\ session' = session_short /\ peer' = video_peer /\ fragment' = 0
     ELSE pipe' = "idle" /\ UNCHANGED <<session, peer, fragment>>
  /\ UNCHANGED token

RunIfAllowed == allowed /\ epoch = token

\* One datagram, sent with send_mutex_ held; the frame ends early once the gate
\* has closed or been opened anew.
SendFragment ==
  /\ pipe = "sending"
  /\ IF RunIfAllowed /\ fragment + 1 < Fragments
     THEN pipe' = "sending" /\ fragment' = fragment + 1 /\ UNCHANGED <<session, peer>>
     ELSE pipe' = "idle" /\ fragment' = 0 /\ session' = 0 /\ peer' = Nobody
  /\ UNCHANGED token

PipeEnds ==
  /\ pipe = "idle" /\ stop_event
  /\ pipe' = "ended"
  /\ UNCHANGED <<token, session, peer, fragment>>

PipeLoop ==
  /\ CaptureAllowed \/ CaptureToken \/ Capture \/ ReadSession \/ SendFragment \/ PipeEnds
  /\ UNCHANGED <<gate, state, pairing_code, left, control, after, conn, world, codes>>

-----------------------------------------------------------------------------
(* The clock, the Wi-Fi and the service control.                           *)

Tick ==
  /\ resume_pending /\ left > 0
  /\ left' = left - 1
  /\ UNCHANGED <<gate, state, pairing_code, control, after, conn, sender, world, codes>>

WifiChanges ==
  /\ wifi => used.drops < MaxDrops
  /\ wifi' = ~wifi
  /\ used' = [used EXCEPT !.drops = IF wifi THEN @ + 1 ELSE @]
  /\ UNCHANGED <<gate, state, pairing_code, left, control, after, conn, sender, stop_event, codes>>

\* Stop sets the event; the shutdown of the client's socket ends its recv.
Stop ==
  /\ ~stop_event /\ stop_event' = TRUE
  /\ UNCHANGED <<gate, state, pairing_code, left, control, after, conn, sender, wifi, used, codes>>

ControlSteps ==
  \/ RevokeCloses \/ RevokeDrains \/ ClearState \/ RotatePairingCode
  \/ ExpireResumeWindow \/ Disconnected \/ ControlEnds
  \/ WifiNotAllowed \/ ClientStopped \/ SendSession \/ OpenEpoch

Requests ==
  \/ \E c \in Clients : Accept(c)
  \/ ClientEnds
  \/ \E s \in 1..MaxSessions : Resume(s)
  \/ \E c \in 1..pairing_code : Pair(c)

Next == ControlSteps \/ Requests \/ PipeLoop \/ Tick \/ WifiChanges \/ Stop

Spec == Init /\ [][Next]_vars

\* The threads run and time passes; nobody has to connect, and a client may
\* stay as long as it likes.
FairSpec == Spec /\ WF_vars(ControlSteps) /\ WF_vars(PipeLoop) /\ WF_vars(Tick)

-----------------------------------------------------------------------------
(* Properties.                                                             *)

\* No datagram goes out for a session that has ended, or to another client
\* than the session's: whenever the gate would let the pipe thread send, the
\* session and peer it read are those of the session now. Clearing, pairing
\* anew and resuming may run between any two of its steps.
NoForeignVideo ==
  (pipe = "sending" /\ RunIfAllowed) =>
    paired /\ session = session_short /\ peer = video_peer

\* A pairing code opens one session: whatever disconnects, rejected clients and
\* losses of the Wi-Fi come, no code is offered again once it has paired.
CodeUsedOnce == (At("client") /\ ~paired) => pairing_code \notin codes

\* A session whose client does not come back ends once clients stop connecting.
SessionExpires == <>[](client = Nobody) => []<>(~paired \/ stop_event)

\* Stop ends both threads, with a client connected or not.
StopEnds == stop_event ~> (control = "ended" /\ pipe = "ended")
=============================================================================
