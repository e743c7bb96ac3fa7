--------------------------- MODULE MdnsResponder ---------------------------
(***************************************************************************)
(* The mDNS responders of the Receivers on one LAN: each claims the fixed  *)
(* host name for its address (mdns_responder.cpp), driven by the UI thread *)
(* and the network worker of its session (receiver_session.cpp).           *)
(*                                                                         *)
(* A critical section of lifecycle_mutex_ is one action.  A tablet is      *)
(* named by its address.  The socket is open exactly while desired_ holds: *)
(* every section that changes one changes the other.  A responder's own    *)
(* multicasts come back to it and are ignored; they are left out.          *)
(***************************************************************************)
EXTENDS MdnsMessages, FiniteSets

CONSTANTS Hosts,          \* the addresses of the tablets, ordered like their bytes
          Foreign,        \* the datagrams other machines may multicast
          None,           \* no datagram
          ProbeCount,     \* kProbeCount
          MaxResponses,   \* kMaximumResponsesPerSecond
          Window,         \* kResponseWindowMilliseconds, in ticks
          MaxPresses, MaxEvents   \* bounds for TLC: presses of the user; faults, datagrams
                                  \* of other machines and losses taken together

ASSUME HostsAssumption == Hosts \subseteq Nat
ASSUME CountsAssumption ==
  /\ {ProbeCount, MaxPresses, MaxEvents} \subseteq Nat
  /\ {MaxResponses, Window} \subseteq Nat \ {0}

VARIABLES
  state,          \* state_
  desired,        \* desired_, and whether the socket is open
  goodbye_sent,   \* goodbye_sent_
  worker,         \* where the responder's worker thread stands
  joinable,       \* worker_.joinable()
  probes,         \* probes sent by this worker
  held,           \* the datagram the worker has received and not yet acted on
  inbox,          \* datagrams on their way to the socket, in no order
  window,         \* response_window_started_ms_ as an age, responses_in_window_
  wanted,         \* ReceiverSession::desired_
  net,            \* where ReceiverSession::NetworkLoop stands
  ui,             \* what the UI thread is doing with the session
  call,           \* where each caller stands in MdnsResponder::Stop
  taken,          \* whether that caller took the worker thread to join it
  advertised,     \* ghost: what the LAN has last heard of this host's record
  recent,         \* ghost: query responses of this run that are at most so many ticks old
  used            \* what is used up of the bounds

responder == <<state, desired, goodbye_sent>>
thread    == <<worker, probes, held>>
session   == <<wanted, net, ui>>
calls     == <<call, taken, joinable>>
rate      == <<window, recent>>
vars == <<responder, thread, session, calls, rate, inbox, advertised, used>>

Callers == {"ui", "net"}
Ages    == 0 .. Window - 1

Datagram(p) == [packet |-> p, faults |-> {}, hop |-> 255]

ASSUME NoneAssumption ==
  /\ None \notin Foreign
  /\ \A h \in Hosts : None \notin {Datagram(BuildAProbe(h)), Datagram(BuildARecord(h, Fresh)),
                                   Datagram(BuildARecord(h, Goodbye))}

TypeOK ==
  /\ state \in [Hosts -> {"Stopped", "Probing", "Published", "Conflict", "Error"}]
  /\ desired \in [Hosts -> BOOLEAN] /\ goodbye_sent \in [Hosts -> BOOLEAN]
  /\ worker \in [Hosts -> {"none", "observing", "published", "ended"}]
  /\ joinable \in [Hosts -> BOOLEAN]
  /\ probes \in [Hosts -> 0..ProbeCount]
  /\ window \in [Hosts -> [age : 0..Window, count : 0..MaxResponses]]
  /\ wanted \in [Hosts -> BOOLEAN]
  /\ net \in [Hosts -> {"off", "opening", "starting", "serving", "leaving"}]
  /\ ui \in [Hosts -> {"idle", "restart", "stopping"}]
  /\ call \in [Hosts -> [Callers -> {"none", "lock", "join"}]]
  /\ taken \in [Hosts -> [Callers -> BOOLEAN]]
  /\ advertised \in [Hosts -> {"no", "yes", "lapsed"}]
  /\ recent \in [Hosts -> [Ages -> Nat]]
  /\ used \in [presses : 0..MaxPresses, events : 0..MaxEvents, lost : BOOLEAN]

Init ==
  /\ state = [h \in Hosts |-> "Stopped"]
  /\ desired = [h \in Hosts |-> FALSE] /\ goodbye_sent = [h \in Hosts |-> FALSE]
  /\ worker = [h \in Hosts |-> "none"] /\ joinable = [h \in Hosts |-> FALSE]
  /\ probes = [h \in Hosts |-> 0] /\ held = [h \in Hosts |-> None]
  /\ inbox = [h \in Hosts |-> {}]
  /\ window = [h \in Hosts |-> [age |-> Window, count |-> 0]]
  /\ wanted = [h \in Hosts |-> FALSE]
  /\ net = [h \in Hosts |-> "off"] /\ ui = [h \in Hosts |-> "idle"]
  /\ call = [h \in Hosts |-> [t \in Callers |-> "none"]]
  /\ taken = [h \in Hosts |-> [t \in Callers |-> FALSE]]
  /\ advertised = [h \in Hosts |-> "no"]
  /\ recent = [h \in Hosts |-> [a \in Ages |-> 0]]
  /\ used = [presses |-> 0, events |-> 0, lost |-> FALSE]

-----------------------------------------------------------------------------
(* Sending, failing and yielding, all under lifecycle_mutex_.              *)

\* The inboxes once h has multicast the packets P. With its socket closed
\* (stays = FALSE) h itself loses what it had not read.
Multicast(h, P, stays) ==
  [o \in Hosts |-> IF o = h THEN IF stays THEN inbox[h] ELSE {}
                   ELSE IF desired[o] THEN inbox[o] \cup {Datagram(p) : p \in P}
                   ELSE inbox[o]]

Event == used.events < MaxEvents /\ used' = [used EXCEPT !.events = @ + 1]

\* FailLocked: the socket is closed and nothing withdraws the record.
FailLocked(h) ==
  /\ state' = [state EXCEPT ![h] = "Error"]
  /\ desired' = [desired EXCEPT ![h] = FALSE]
  /\ inbox' = Multicast(h, {}, FALSE)
  /\ advertised' = [advertised EXCEPT ![h] = IF @ = "yes" THEN "lapsed" ELSE @]
  /\ UNCHANGED goodbye_sent

\* SendGoodbyeLocked, when "published", and closing the socket.
Withdraw(h, published, newState) ==
  LET goodbye == published /\ ~goodbye_sent[h]
  IN  /\ state' = [state EXCEPT ![h] = newState]
      /\ desired' = [desired EXCEPT ![h] = FALSE]
      /\ goodbye_sent' = [goodbye_sent EXCEPT ![h] = @ \/ goodbye]
      /\ inbox' = Multicast(h, IF goodbye THEN {BuildARecord(h, Goodbye)} ELSE {}, FALSE)
      /\ advertised' = [advertised EXCEPT ![h] = IF goodbye THEN "no" ELSE @]

\* A mutant: a conflict that withdraws nothing.
SilentConflict(h, wasPublished) == Withdraw(h, FALSE, "Conflict")

ConflictLocked(h, wasPublished) == Withdraw(h, wasPublished, "Conflict")

SendRecord(h) ==
  /\ inbox' = Multicast(h, {BuildARecord(h, Fresh)}, TRUE)
  /\ advertised' = [advertised EXCEPT ![h] = "yes"]

-----------------------------------------------------------------------------
(* MdnsResponder::Stop, entered by the UI thread or by the network worker. *)

\* A mutant: Stop ends the run of a responder that has published only.
StopPublishedOnly(h, t) ==
  /\ call[h][t] = "lock"
  /\ call' = [call EXCEPT ![h][t] = "join"]
  /\ IF state[h] = "Published" THEN Withdraw(h, TRUE, state[h])
     ELSE UNCHANGED <<responder, inbox, advertised>>
  /\ taken' = [taken EXCEPT ![h][t] = joinable[h]]
  /\ joinable' = [joinable EXCEPT ![h] = FALSE]
  /\ UNCHANGED <<thread, session, rate, used>>

StopLocked(h, t) ==
  /\ call[h][t] = "lock"
  /\ call' = [call EXCEPT ![h][t] = "join"]
  /\ Withdraw(h, state[h] = "Published", state[h])
  /\ taken' = [taken EXCEPT ![h][t] = joinable[h]]
  /\ joinable' = [joinable EXCEPT ![h] = FALSE]
  /\ UNCHANGED <<thread, session, rate, used>>

\* Only the caller that took the thread waits for it.
Joined(h, t) == taken[h][t] => worker[h] = "ended"

\* Whether or not it waited, the caller stores kStopped.
StopReturns(h, t) ==
  /\ call[h][t] = "join" /\ Joined(h, t)
  /\ call' = [call EXCEPT ![h][t] = "none"]
  /\ taken' = [taken EXCEPT ![h][t] = FALSE]
  /\ worker' = [worker EXCEPT ![h] = IF taken[h][t] THEN "none" ELSE @]
  /\ state' = [state EXCEPT ![h] = "Stopped"]
  /\ UNCHANGED <<desired, goodbye_sent, probes, held, session, joinable, rate, inbox,
                 advertised, used>>

CallStop(h, t) == call[h][t] = "none" /\ call' = [call EXCEPT ![h][t] = "lock"]

-----------------------------------------------------------------------------
(* The session around the responder (ReceiverSession).                     *)

\* Start and Stop are pressed; either first stops what is running.
UiPress(h, intent) ==
  /\ ui[h] = "idle"
  /\ intent = "stopping" => net[h] # "off"
  /\ used.presses < MaxPresses /\ used' = [used EXCEPT !.presses = @ + 1]
  /\ ui' = [ui EXCEPT ![h] = intent]
  /\ wanted' = [wanted EXCEPT ![h] = FALSE]
  /\ CallStop(h, "ui")
  /\ UNCHANGED <<responder, thread, net, joinable, taken, rate, inbox, advertised>>

NetEnded(h) == net[h] = "off" \/ (net[h] = "leaving" /\ call[h]["net"] = "none")

\* The UI thread joins the network worker; Start creates the next one.
UiJoins(h) ==
  /\ ui[h] # "idle" /\ call[h]["ui"] = "none" /\ NetEnded(h)
  /\ ui' = [ui EXCEPT ![h] = "idle"]
  /\ wanted' = [wanted EXCEPT ![h] = ui[h] = "restart"]
  /\ net' = [net EXCEPT ![h] = IF ui[h] = "restart" THEN "opening" ELSE "off"]
  /\ UNCHANGED <<responder, thread, calls, rate, inbox, advertised, used>>

\* OpenListener, then MdnsResponder::Start, which begins with a Stop.
NetOpens(h) ==
  /\ net[h] = "opening"
  /\ \/ /\ net' = [net EXCEPT ![h] = "starting"]
        /\ CallStop(h, "net")
        /\ UNCHANGED used
     \/ /\ net' = [net EXCEPT ![h] = "leaving"]
        /\ Event
        /\ UNCHANGED call
  /\ UNCHANGED <<responder, thread, wanted, ui, joinable, taken, rate, inbox, advertised>>

\* The locked part of MdnsResponder::Start. NetworkLoop ignores its result.
StartLocked(h) ==
  /\ net[h] = "starting" /\ call[h]["net"] = "none"
  /\ net' = [net EXCEPT ![h] = "serving"]
  /\ \/ /\ state' = [state EXCEPT ![h] = "Probing"]
        /\ desired' = [desired EXCEPT ![h] = TRUE]
        /\ goodbye_sent' = [goodbye_sent EXCEPT ![h] = FALSE]
        /\ window' = [window EXCEPT ![h] = [age |-> Window, count |-> 0]]
        /\ worker' = [worker EXCEPT ![h] = "observing"]
        /\ probes' = [probes EXCEPT ![h] = 0]
        /\ recent' = [recent EXCEPT ![h] = [a \in Ages |-> 0]]
        /\ joinable' = [joinable EXCEPT ![h] = TRUE]
        /\ UNCHANGED used
     \/ /\ state' = [state EXCEPT ![h] = "Error"]
        /\ Event
        /\ UNCHANGED <<desired, goodbye_sent, window, worker, probes, recent, joinable>>
  /\ UNCHANGED <<held, wanted, ui, call, taken, inbox, advertised>>

\* ContinueWithCurrentAddress finds the address gone: a Stop, then the end.
AddressChanged(h) ==
  /\ net[h] = "serving" /\ wanted[h] /\ CallStop(h, "net") /\ Event
  /\ wanted' = [wanted EXCEPT ![h] = FALSE]
  /\ UNCHANGED <<responder, thread, net, ui, joinable, taken, rate, inbox, advertised>>

\* A mutant: the accept loop ends without a Stop of its own.
LeaveAtOnce(h) ==
  /\ net[h] = "serving" /\ ~wanted[h] /\ call[h]["net"] = "none"
  /\ net' = [net EXCEPT ![h] = "leaving"]
  /\ UNCHANGED <<responder, thread, wanted, ui, calls, rate, inbox, advertised, used>>

\* The accept loop ends once desired_ is false ...
AcceptLoopEnds(h) == net[h] = "serving" /\ ~wanted[h]

\* ... and stops the responder.
NetLeaves(h) ==
  /\ AcceptLoopEnds(h) /\ CallStop(h, "net")
  /\ net' = [net EXCEPT ![h] = "leaving"]
  /\ UNCHANGED <<responder, thread, wanted, ui, joinable, taken, rate, inbox, advertised, used>>

-----------------------------------------------------------------------------
(* The worker thread: MdnsResponder::Run.                                  *)

Goto(h, where) == worker' = [worker EXCEPT ![h] = where]

\* Every loop condition and every section under the lock tests desired_.
RunEnds(h) == worker[h] \in {"observing", "published"} /\ ~desired[h]

WorkerEnds(h) ==
  /\ RunEnds(h)
  /\ Goto(h, "ended")
  /\ held' = [held EXCEPT ![h] = None]
  /\ UNCHANGED <<responder, probes, session, calls, rate, inbox, advertised, used>>

\* ObserveFor has reached its deadline; the next probe or the announcement is due.
Due(h) == worker[h] = "observing" /\ desired[h] /\ held[h] = None

SendProbe(h) ==
  /\ Due(h) /\ probes[h] < ProbeCount
  /\ inbox' = Multicast(h, {BuildAProbe(h)}, TRUE)
  /\ probes' = [probes EXCEPT ![h] = @ + 1]
  /\ UNCHANGED <<responder, worker, held, session, calls, rate, advertised, used>>

\* A Stop that began before this worker did not wait for it; the statement
\* it has left is executed long before the probes are through.
NoStopPending(h) == \A t \in Callers : call[h][t] # "join"

Announce(h) ==
  /\ Due(h) /\ probes[h] = ProbeCount /\ NoStopPending(h)
  /\ SendRecord(h)
  /\ state' = [state EXCEPT ![h] = "Published"]
  /\ Goto(h, "published")
  /\ UNCHANGED <<desired, goodbye_sent, probes, held, session, calls, rate, used>>

\* Send or Receive reports an error.
WorkerFails(h) ==
  /\ worker[h] \in {"observing", "published"} /\ desired[h]
  /\ Event
  /\ FailLocked(h)
  /\ Goto(h, "ended")
  /\ held' = [held EXCEPT ![h] = None]
  /\ UNCHANGED <<probes, session, calls, rate>>

AcceptDatagramMetadata(d) == d.faults = {}

AcceptMessageHopLimit(d) ==
  CASE ClassifyMessage(d.packet) = "response" -> d.hop = 255
    [] ClassifyMessage(d.packet) \in {"query", "probe"} -> d.hop \in {1, 255}
    [] OTHER -> FALSE

Accepted(d) == AcceptDatagramMetadata(d) /\ AcceptMessageHopLimit(d)

Others(h, d) == ExtractARecords(d.packet) \ {h}

\* Receive, outside the lock: the worker then holds the datagram.
Receive(h, d) ==
  /\ worker[h] \in {"observing", "published"} /\ desired[h] /\ held[h] = None
  /\ d \in inbox[h]
  /\ inbox' = [inbox EXCEPT ![h] = @ \ {d}]
  /\ held' = [held EXCEPT ![h] = IF Accepted(d) THEN d ELSE None]
  /\ UNCHANGED <<responder, worker, probes, session, calls, rate, advertised, used>>

\* The datagram is done with; the worker stays in its loop or leaves it.
Handled(h, where) ==
  /\ held' = [held EXCEPT ![h] = None]
  /\ Goto(h, where)
  /\ UNCHANGED <<probes, session, calls, used>>

LosesTieBreak(h, d) == \E a \in Others(h, d) : CompareAddresses(a, h) > 0

HandleProbingDatagram(h) ==
  LET d == held[h] kind == ClassifyMessage(held[h].packet)
  IN  /\ worker[h] = "observing" /\ d # None /\ desired[h]
      /\ \/ /\ Others(h, d) = {} \/ kind \notin {"probe", "response"}
            /\ Handled(h, "observing")
            /\ UNCHANGED <<responder, inbox, advertised>>
         \/ /\ Others(h, d) # {} /\ kind = "probe" /\ ~LosesTieBreak(h, d)
            /\ inbox' = Multicast(h, {BuildAProbe(h)}, TRUE)
            /\ Handled(h, "observing")
            /\ UNCHANGED <<responder, advertised>>
         \/ /\ Others(h, d) # {}
            /\ kind = "response" \/ (kind = "probe" /\ LosesTieBreak(h, d))
            /\ ConflictLocked(h, FALSE)
            /\ Handled(h, "ended")
      /\ UNCHANGED rate

\* A mutant: the owner of the name defends it against responses too.
ProbesContest(h, d) == Others(h, d) # {} /\ ClassifyMessage(d.packet) = "probe"

Contested(h, d) == Others(h, d) # {} /\ ClassifyMessage(d.packet) \in {"probe", "response"}

\* A different address: defend against a probe, yield to a response.
HandleContest(h) ==
  LET d == held[h]
  IN  /\ worker[h] = "published" /\ d # None /\ desired[h] /\ Contested(h, d)
      /\ \/ /\ ClassifyMessage(d.packet) = "probe"
            /\ SendRecord(h)
            /\ Handled(h, "published")
            /\ UNCHANGED responder
         \/ /\ ClassifyMessage(d.packet) = "response"
            /\ ConflictLocked(h, TRUE)
            /\ Handled(h, "ended")
      /\ UNCHANGED rate

\* AllowQueryResponse: the window as it is once it has been renewed.
RenewWindow(h) ==
  IF window[h].age >= Window THEN [age |-> 0, count |-> 0] ELSE window[h]

\* A query: answered unless suppressed or over the limit of this window. The
\* slot is taken before the lock; the datagram is sent under it.
HandleQuery(h) ==
  LET d == held[h] w == RenewWindow(h)
  IN  /\ worker[h] = "published" /\ d # None /\ desired[h] /\ ~Contested(h, d)
      /\ Handled(h, "published")
      /\ \/ /\ Answers(d.packet, h) /\ w.count < MaxResponses
            /\ window' = [window EXCEPT ![h] = [w EXCEPT !.count = @ + 1]]
            /\ recent' = [recent EXCEPT ![h] = [a \in Ages |-> recent[h][a] + 1]]
            /\ SendRecord(h)
         \/ /\ Answers(d.packet, h) /\ w.count >= MaxResponses
            /\ window' = [window EXCEPT ![h] = w]
            /\ UNCHANGED <<recent, inbox, advertised>>
         \/ /\ ~Answers(d.packet, h)
            /\ UNCHANGED <<rate, inbox, advertised>>
      /\ UNCHANGED responder

-----------------------------------------------------------------------------
(* The LAN and the clock.                                                  *)

\* Another machine multicasts a datagram. A query means nothing to a responder
\* that is still probing, so it waits for one that is not.
Hear(d) ==
  /\ ClassifyMessage(d.packet) = "query" => \E h \in Hosts : worker[h] = "published"
  /\ \E h \in Hosts : desired[h] /\ d \notin inbox[h]
  /\ Event
  /\ inbox' = [h \in Hosts |-> IF desired[h] THEN inbox[h] \cup {d} ELSE inbox[h]]
  /\ UNCHANGED <<responder, thread, session, calls, rate, advertised>>

Lose(h, d) ==
  /\ used.events < MaxEvents /\ d \in inbox[h]
  /\ used' = [used EXCEPT !.events = @ + 1, !.lost = TRUE]
  /\ inbox' = [inbox EXCEPT ![h] = @ \ {d}]
  /\ UNCHANGED <<responder, thread, session, calls, rate, advertised>>

\* One tick of the clock, where it makes a difference.
Tick ==
  /\ \E h \in Hosts : window[h].age < Window
  /\ window' = [h \in Hosts |->
                  [window[h] EXCEPT !.age = IF @ < Window THEN @ + 1 ELSE @]]
  /\ recent' = [h \in Hosts |-> [a \in Ages |-> IF a = 0 THEN 0 ELSE recent[h][a - 1]]]
  /\ UNCHANGED <<responder, thread, session, calls, inbox, advertised, used>>

-----------------------------------------------------------------------------
Worker(h) ==
  \/ WorkerEnds(h) \/ SendProbe(h) \/ Announce(h)
  \/ \E d \in inbox[h] : Receive(h, d)
  \/ HandleProbingDatagram(h) \/ HandleContest(h) \/ HandleQuery(h)

Session(h) ==
  \/ \E t \in Callers : StopLocked(h, t) \/ StopReturns(h, t)
  \/ UiJoins(h) \/ NetOpens(h) \/ StartLocked(h) \/ NetLeaves(h)

Next ==
  \/ \E h \in Hosts : Worker(h) \/ Session(h) \/ WorkerFails(h) \/ AddressChanged(h)
  \/ \E h \in Hosts, intent \in {"restart", "stopping"} : UiPress(h, intent)
  \/ \E h \in Hosts : \E d \in inbox[h] : Lose(h, d)
  \/ \E d \in Foreign : Hear(d)
  \/ Tick

Spec == Init /\ [][Next]_vars

-----------------------------------------------------------------------------
(* Properties.                                                             *)

Publishing(h) == state[h] = "Published" /\ desired[h]

Pending(h) == inbox[h] \cup ({held[h]} \ {None})

\* Two tablets never both keep the name: while two publish it, a response that
\* makes one of them yield is on its way or was lost by the LAN. Probing,
\* defence and announcement may cross in any order.
SettlingUnderWay ==
  \A a, b \in Hosts :
    (a # b /\ Publishing(a) /\ Publishing(b)) =>
      \/ used.lost
      \/ \E x \in {a, b}, d \in Pending(a) \cup Pending(b) :
           /\ d \in Pending(x)
           /\ Accepted(d) /\ ClassifyMessage(d.packet) = "response" /\ Others(x, d) # {}

\* Whoever stops the responder, a record that was published is withdrawn by a
\* goodbye before the socket closes; only a failed socket leaves it behind.
Withdrawn == \A h \in Hosts : advertised[h] = "yes" => Publishing(h)

\* What each thread needs to take its next step: a caller of Stop,
StopMoves(h, t) == call[h][t] = "lock" \/ (call[h][t] = "join" /\ Joined(h, t))

\* the UI thread, to join the network worker, and the network worker, outside Stop.
UiMoves(h) == StopMoves(h, "ui") \/ (call[h]["ui"] = "none" /\ NetEnded(h))

NetMoves(h) ==
  \/ StopMoves(h, "net")
  \/ /\ call[h]["net"] = "none"
     /\ net[h] \in {"opening", "starting"} \/ AcceptLoopEnds(h)

\* A pressed Start or Stop is never stuck: of the UI thread, the network worker it
\* waits for and the responder's worker that either waits for, one has its next
\* step at hand, and that step needs no datagram, no timer and no user.
StopNeverStuck ==
  \A h \in Hosts : ui[h] # "idle" => UiMoves(h) \/ NetMoves(h) \/ RunEnds(h)

\* Once the session's threads are joined nothing of the responder runs, whichever
\* of the two Stops took its worker, and a worker thread is only ever started
\* when the one before it is gone.
StopIsClean ==
  \A h \in Hosts :
    /\ (ui[h] = "idle" /\ net[h] = "off") =>
         ~desired[h] /\ worker[h] = "none" /\ ~joinable[h] /\ state[h] = "Stopped"
    /\ (net[h] = "starting" /\ call[h]["net"] = "none") => worker[h] = "none"
=============================================================================
