------------------------ MODULE MdnsResponderProofs ------------------------
(***************************************************************************)
(* Proofs about MdnsResponder, for any number of tablets and any bounds.   *)
(***************************************************************************)
EXTENDS MdnsResponder, TLAPS

\* The variables whose contents no type restricts are functions on Hosts, and what
\* is on its way is a datagram.
Shapes ==
  /\ inbox = [h \in Hosts |-> inbox[h]] /\ held = [h \in Hosts |-> held[h]]
  /\ \A h \in Hosts : None \notin inbox[h]

\* Where a worker that publishes stands, and that whoever is inside Stop or about
\* to start again has made it stop publishing.
HostInv(h) ==
  /\ desired[h] => ~goodbye_sent[h]
  /\ Publishing(h) => worker[h] = "published"
  /\ (worker[h] = "published" /\ desired[h]) => state[h] = "Published"
  /\ \A t \in Callers : call[h][t] = "join" => ~(desired[h] /\ worker[h] = "published")
  /\ net[h] = "starting" => call[h]["net"] = "lock" \/ ~desired[h]

LifeInv == \A h \in Hosts : HostInv(h)

IInv == TypeOK /\ Shapes /\ LifeInv /\ Withdrawn /\ SettlingUnderWay

\* What CountsAssumption says of each constant.
LEMMA Counts ==
  /\ ProbeCount \in Nat /\ MaxResponses \in Nat /\ Window \in Nat
  /\ MaxPresses \in Nat /\ MaxEvents \in Nat
  /\ MaxResponses # 0 /\ Window # 0
<1>1. /\ \A x \in {ProbeCount, MaxPresses, MaxEvents} : x \in Nat
      /\ \A x \in {MaxResponses, Window} : x \in Nat \ {0}
  BY CountsAssumption
<1> QED
  BY <1>1

\* TypeOK in parts: the responder and its threads, the session, the counters.
ThreadTypes ==
  /\ state \in [Hosts -> {"Stopped", "Probing", "Published", "Conflict", "Error"}]
  /\ desired \in [Hosts -> BOOLEAN] /\ goodbye_sent \in [Hosts -> BOOLEAN]
  /\ worker \in [Hosts -> {"none", "observing", "published", "ended"}]
  /\ joinable \in [Hosts -> BOOLEAN]
  /\ advertised \in [Hosts -> {"no", "yes", "lapsed"}]

SessionTypes ==
  /\ wanted \in [Hosts -> BOOLEAN]
  /\ net \in [Hosts -> {"off", "opening", "starting", "serving", "leaving"}]
  /\ ui \in [Hosts -> {"idle", "restart", "stopping"}]
  /\ call \in [Hosts -> [Callers -> {"none", "lock", "join"}]]
  /\ taken \in [Hosts -> [Callers -> BOOLEAN]]

CountTypes ==
  /\ probes \in [Hosts -> 0..ProbeCount]
  /\ window \in [Hosts -> [age : 0..Window, count : 0..MaxResponses]]
  /\ recent \in [Hosts -> [Ages -> Nat]]

UsedTypes == used \in [presses : 0..MaxPresses, events : 0..MaxEvents, lost : BOOLEAN]

LEMMA TypeParts == TypeOK <=> ThreadTypes /\ SessionTypes /\ CountTypes /\ UsedTypes
  BY Zenon DEF TypeOK, ThreadTypes, SessionTypes, CountTypes, UsedTypes

LEMMA InitIInv == Init => IInv
<1> SUFFICES ASSUME Init PROVE IInv
  OBVIOUS
<1> USE DEF Init
<1>1. ThreadTypes
  BY DEF ThreadTypes
<1>2. SessionTypes
  BY DEF SessionTypes
<1>3. CountTypes
  BY Counts DEF CountTypes, Ages
<1>6. UsedTypes
  BY Counts DEF UsedTypes
<1>4. Shapes
  BY DEF Shapes
<1>5. LifeInv /\ Withdrawn /\ SettlingUnderWay
  BY DEF LifeInv, HostInv, Publishing, Withdrawn, SettlingUnderWay
<1> QED
  BY <1>1, <1>2, <1>3, <1>4, <1>5, <1>6, TypeParts DEF IInv

-----------------------------------------------------------------------------
(* Types.                                                                  *)

\* No step breaks a type of a tablet's threads, session or counters.
LEMMA ThreadsTyped == TypeOK /\ Next => ThreadTypes'
<1> SUFFICES ASSUME TypeOK, Next PROVE ThreadTypes'
  OBVIOUS
<1>0. ThreadTypes /\ SessionTypes
  BY TypeParts
<1> USE DEF ThreadTypes, responder, thread, session, calls, rate, Goto
<1>1. ASSUME NEW h \in Hosts, NEW t \in Callers, StopLocked(h, t) PROVE ThreadTypes'
  BY <1>0, <1>1 DEF StopLocked, Withdraw
<1>2. ASSUME NEW h \in Hosts, NEW t \in Callers, StopReturns(h, t) PROVE ThreadTypes'
  BY <1>0, <1>2 DEF StopReturns
<1>3. ASSUME NEW h \in Hosts,
             UiJoins(h) \/ NetOpens(h) \/ NetLeaves(h) \/ AddressChanged(h)
      PROVE  ThreadTypes'
  BY <1>0, <1>3 DEF UiJoins, NetOpens, NetLeaves, AddressChanged
<1>4. ASSUME NEW h \in Hosts, StartLocked(h) PROVE ThreadTypes'
  BY <1>0, <1>4 DEF StartLocked
<1>5. ASSUME NEW h \in Hosts, WorkerEnds(h) \/ SendProbe(h) \/ Announce(h) PROVE ThreadTypes'
  BY <1>0, <1>5 DEF WorkerEnds, SendProbe, Announce, SendRecord
<1>6. ASSUME NEW h \in Hosts, NEW d, Receive(h, d) \/ Lose(h, d) PROVE ThreadTypes'
  BY <1>0, <1>6 DEF Receive, Lose
<1>7. ASSUME NEW h \in Hosts, HandleProbingDatagram(h) PROVE ThreadTypes'
  BY <1>0, <1>7 DEF HandleProbingDatagram, Handled, ConflictLocked, Withdraw
<1>8. ASSUME NEW h \in Hosts, HandleContest(h) PROVE ThreadTypes'
  BY <1>0, <1>8 DEF HandleContest, Handled, ConflictLocked, Withdraw, SendRecord
<1>9. ASSUME NEW h \in Hosts, HandleQuery(h) PROVE ThreadTypes'
  BY <1>0, <1>9 DEF HandleQuery, Handled, SendRecord
<1>10. ASSUME NEW h \in Hosts, WorkerFails(h) PROVE ThreadTypes'
  BY <1>0, <1>10 DEF WorkerFails, FailLocked
<1>11. ASSUME NEW h \in Hosts, NEW intent \in {"restart", "stopping"}, UiPress(h, intent)
       PROVE  ThreadTypes'
  BY <1>0, <1>11 DEF UiPress
<1>12. CASE Tick \/ \E d \in Foreign : Hear(d)
  BY <1>0, <1>12 DEF Tick, Hear
<1> QED
  BY <1>1, <1>2, <1>3, <1>4, <1>5, <1>6, <1>7, <1>8, <1>9, <1>10, <1>11, <1>12, Zenon
     DEF Next, Worker, Session

LEMMA SessionsTyped == TypeOK /\ Next => SessionTypes'
<1> SUFFICES ASSUME TypeOK, Next PROVE SessionTypes'
  OBVIOUS
<1>0. SessionTypes /\ ThreadTypes
  BY TypeParts
<1> USE DEF SessionTypes, responder, thread, session, calls, rate, Callers, CallStop
<1>1. ASSUME NEW h \in Hosts, NEW t \in Callers, StopLocked(h, t) PROVE SessionTypes'
  BY <1>0, <1>1 DEF StopLocked, ThreadTypes
<1>2. ASSUME NEW h \in Hosts, NEW t \in Callers, StopReturns(h, t) PROVE SessionTypes'
  BY <1>0, <1>2 DEF StopReturns
<1>3. ASSUME NEW h \in Hosts, UiJoins(h) PROVE SessionTypes'
  BY <1>0, <1>3 DEF UiJoins
<1>4. ASSUME NEW h \in Hosts, NetOpens(h) \/ NetLeaves(h) PROVE SessionTypes'
  <2>1. /\ \/ net' = [net EXCEPT ![h] = "starting"]
           \/ net' = [net EXCEPT ![h] = "leaving"]
        /\ call' = [call EXCEPT ![h]["net"] = "lock"] \/ call' = call
        /\ UNCHANGED <<wanted, ui, taken>>
    BY <1>4, Zenon DEF NetOpens, NetLeaves
  <2>2. call' \in [Hosts -> [Callers -> {"none", "lock", "join"}]]
    <3>1. call[h] \in [Callers -> {"none", "lock", "join"}]
      BY <1>0, Zenon
    <3>2. [call[h] EXCEPT !["net"] = "lock"] \in [Callers -> {"none", "lock", "join"}]
      BY <3>1
    <3>3. call' = [call EXCEPT ![h] = [call[h] EXCEPT !["net"] = "lock"]] \/ call' = call
      BY <2>1, Zenon
    <3> QED
      BY <1>0, <3>2, <3>3, Zenon
  <2>3. net' \in [Hosts -> {"off", "opening", "starting", "serving", "leaving"}]
    BY <1>0, <2>1
  <2> QED
    BY <1>0, <2>1, <2>2, <2>3, Zenon
<1>5. ASSUME NEW h \in Hosts, StartLocked(h) PROVE SessionTypes'
  BY <1>0, <1>5 DEF StartLocked
<1>6. ASSUME NEW h \in Hosts, AddressChanged(h) PROVE SessionTypes'
  BY <1>0, <1>6 DEF AddressChanged
<1>7. ASSUME NEW h \in Hosts, Worker(h) \/ WorkerFails(h) PROVE SessionTypes'
  BY <1>0, <1>7 DEF Worker, WorkerEnds, SendProbe, Announce, Receive, HandleProbingDatagram,
     HandleContest, HandleQuery, Handled, WorkerFails
<1>8. ASSUME NEW h \in Hosts, NEW intent \in {"restart", "stopping"}, UiPress(h, intent)
      PROVE  SessionTypes'
  BY <1>0, <1>8 DEF UiPress
<1>9. CASE Tick \/ (\E d \in Foreign : Hear(d)) \/ \E h \in Hosts : \E d \in inbox[h] : Lose(h, d)
  BY <1>0, <1>9 DEF Tick, Hear, Lose
<1> QED
  BY <1>1, <1>2, <1>3, <1>4, <1>5, <1>6, <1>7, <1>8, <1>9, Zenon DEF Next, Session

LEMMA CountsTyped == TypeOK /\ Next => CountTypes'
<1> SUFFICES ASSUME TypeOK, Next PROVE CountTypes'
  OBVIOUS
<1>0. CountTypes
  BY TypeParts
<1> USE DEF CountTypes, responder, thread, session, calls, rate
<1>1. CASE UNCHANGED <<probes, window, recent>>
  BY <1>0, <1>1
<1>2. ASSUME NEW h \in Hosts,
             UiJoins(h) \/ NetLeaves(h) \/ WorkerEnds(h) \/ Announce(h)
             \/ HandleProbingDatagram(h) \/ HandleContest(h) \/ NetOpens(h)
             \/ AddressChanged(h) \/ WorkerFails(h)
      PROVE  CountTypes'
  BY <1>1, <1>2, Zenon DEF UiJoins, NetLeaves, WorkerEnds, Announce, HandleProbingDatagram,
     HandleContest, Handled, NetOpens, AddressChanged, WorkerFails
<1>3. ASSUME NEW h \in Hosts, NEW t \in Callers, StopLocked(h, t) \/ StopReturns(h, t)
      PROVE  CountTypes'
  BY <1>1, <1>3, Zenon DEF StopLocked, StopReturns
<1>4. ASSUME NEW h \in Hosts, NEW d, Receive(h, d) \/ Lose(h, d) PROVE CountTypes'
  BY <1>1, <1>4, Zenon DEF Receive, Lose
<1>5. ASSUME NEW h \in Hosts, StartLocked(h) PROVE CountTypes'
  <2>1. \/ UNCHANGED <<probes, window, recent>>
        \/ /\ probes' = [probes EXCEPT ![h] = 0]
           /\ window' = [window EXCEPT ![h] = [age |-> Window, count |-> 0]]
           /\ recent' = [recent EXCEPT ![h] = [a \in Ages |-> 0]]
    BY <1>5, Zenon DEF StartLocked
  <2>2. probes' \in [Hosts -> 0..ProbeCount]
    <3>1. 0 \in 0..ProbeCount
      BY Counts
    <3> QED
      BY <1>0, <2>1, <3>1, Zenon
  <2>3. [age |-> Window, count |-> 0] \in [age : 0..Window, count : 0..MaxResponses]
    BY Counts
  <2>4. window' \in [Hosts -> [age : 0..Window, count : 0..MaxResponses]]
    BY <1>0, <2>1, <2>3, Zenon
  <2>5. [a \in Ages |-> 0] \in [Ages -> Nat]
    OBVIOUS
  <2>6. recent' \in [Hosts -> [Ages -> Nat]]
    BY <1>0, <2>1, <2>5, Zenon
  <2> QED
    BY <2>2, <2>4, <2>6, Zenon
<1>6. ASSUME NEW h \in Hosts, SendProbe(h) PROVE CountTypes'
  <2>1. /\ probes[h] < ProbeCount /\ probes' = [probes EXCEPT ![h] = @ + 1]
        /\ UNCHANGED <<window, recent>>
    BY <1>6, Zenon DEF SendProbe
  <2> QED
    BY <1>0, <2>1, Counts
<1>7. ASSUME NEW h \in Hosts, HandleQuery(h) PROVE CountTypes'
  <2> DEFINE w == RenewWindow(h)
  <2>1. w \in [age : 0..Window, count : 0..MaxResponses]
    BY <1>0, Counts DEF RenewWindow
  <2>2. /\ UNCHANGED probes
        /\ \/ /\ w.count < MaxResponses
              /\ window' = [window EXCEPT ![h] = [w EXCEPT !.count = @ + 1]]
              /\ recent' = [recent EXCEPT ![h] = [a \in Ages |-> recent[h][a] + 1]]
           \/ window' = [window EXCEPT ![h] = w] /\ UNCHANGED recent
           \/ UNCHANGED <<window, recent>>
    BY <1>7, Zenon DEF HandleQuery, Handled
  <2> HIDE DEF w
  <2>3. [w EXCEPT !.count = @ + 1] \in [age : 0..Window, count : Nat]
        /\ (w.count < MaxResponses => [w EXCEPT !.count = @ + 1].count \in 0..MaxResponses)
    BY <2>1, Counts
  <2>4. window' \in [Hosts -> [age : 0..Window, count : 0..MaxResponses]]
    BY <1>0, <2>1, <2>2, <2>3, Counts
  <2>5. recent' \in [Hosts -> [Ages -> Nat]]
    <3>1. [a \in Ages |-> recent[h][a] + 1] \in [Ages -> Nat]
      BY <1>0
    <3> QED
      BY <1>0, <2>2, <3>1
  <2> QED
    BY <1>0, <2>2, <2>4, <2>5
<1>8. ASSUME NEW h \in Hosts, NEW intent \in {"restart", "stopping"}, UiPress(h, intent)
      PROVE  CountTypes'
  BY <1>1, <1>8, Zenon DEF UiPress
<1>9. CASE \E d \in Foreign : Hear(d)
  BY <1>1, <1>9, Zenon DEF Hear
<1>10. CASE Tick
  <2>1. UNCHANGED probes
    BY <1>10, Zenon DEF Tick
  <2>2. window' \in [Hosts -> [age : 0..Window, count : 0..MaxResponses]]
    <3>1. ASSUME NEW h \in Hosts
          PROVE  [window[h] EXCEPT !.age = IF @ < Window THEN @ + 1 ELSE @]
                   \in [age : 0..Window, count : 0..MaxResponses]
      <4>1. window[h] \in [age : 0..Window, count : 0..MaxResponses]
        BY <1>0
      <4>2. (IF window[h].age < Window THEN window[h].age + 1 ELSE window[h].age) \in 0..Window
        BY <4>1, Counts
      <4> QED
        BY <4>1, <4>2
    <3> QED
      BY <1>10, <3>1 DEF Tick
  <2>3. \A h \in Hosts : [a \in Ages |-> IF a = 0 THEN 0 ELSE recent[h][a - 1]] \in [Ages -> Nat]
    BY <1>0, Counts DEF Ages
  <2>4. recent' \in [Hosts -> [Ages -> Nat]]
    BY <1>10, <2>3 DEF Tick
  <2> QED
    BY <1>0, <2>1, <2>2, <2>4
<1> QED
  BY <1>2, <1>3, <1>4, <1>5, <1>6, <1>7, <1>8, <1>9, <1>10, Zenon DEF Next, Worker, Session

\* What is used up of the bounds stays within them.
LEMMA UsedTyped == TypeOK /\ Next => UsedTypes'
<1> SUFFICES ASSUME TypeOK, Next PROVE UsedTypes'
  OBVIOUS
<1>0. /\ UsedTypes
      /\ used.presses \in 0..MaxPresses /\ used.events \in 0..MaxEvents
  BY TypeParts DEF UsedTypes
<1>1. CASE Event
  BY <1>0, <1>1, Counts DEF Event, UsedTypes
<1>2. ASSUME NEW h \in Hosts, NEW d, Lose(h, d) PROVE UsedTypes'
  <2>1. used' = [used EXCEPT !.events = used.events + 1, !.lost = TRUE]
        /\ used.events < MaxEvents
    BY <1>2, Zenon DEF Lose
  <2>2. used.events + 1 \in 0..MaxEvents
    BY <1>0, <2>1, Counts
  <2> QED
    BY <1>0, <2>1, <2>2, Zenon DEF UsedTypes
<1>3. ASSUME NEW h \in Hosts, NEW intent \in {"restart", "stopping"}, UiPress(h, intent)
      PROVE  UsedTypes'
  <2>1. used' = [used EXCEPT !.presses = used.presses + 1] /\ used.presses < MaxPresses
    BY <1>3, Zenon DEF UiPress
  <2> QED
    BY <1>0, <2>1, Counts DEF UsedTypes
<1>4. CASE UNCHANGED used
  BY <1>0, <1>4 DEF UsedTypes
<1>5. ASSUME NEW h \in Hosts, Session(h) PROVE UsedTypes'
  BY <1>1, <1>4, <1>5, Zenon DEF Session, StopLocked, StopReturns, UiJoins, NetOpens,
     StartLocked, NetLeaves
<1>6. ASSUME NEW h \in Hosts, Worker(h) PROVE UsedTypes'
  BY <1>4, <1>6, Zenon DEF Worker, WorkerEnds, SendProbe, Announce, Receive,
     HandleProbingDatagram, HandleContest, HandleQuery, Handled
<1>7. ASSUME NEW h \in Hosts, WorkerFails(h) \/ AddressChanged(h) PROVE UsedTypes'
  BY <1>1, <1>7, Zenon DEF WorkerFails, AddressChanged
<1>8. CASE Tick \/ \E d \in Foreign : Hear(d)
  BY <1>1, <1>4, <1>8, Zenon DEF Tick, Hear
<1> QED
  BY <1>2, <1>3, <1>5, <1>6, <1>7, <1>8, Zenon DEF Next

\* The inboxes and the datagrams in hand stay functions on Hosts.
LEMMA ShapesKept == Shapes /\ Next => Shapes'
<1> SUFFICES ASSUME Shapes, Next PROVE Shapes'
  OBVIOUS
<1> USE NoneAssumption DEF Shapes, responder, thread, session, calls, rate
<1>1. ASSUME NEW h \in Hosts, NEW stays, NEW P,
             P \subseteq {BuildAProbe(h), BuildARecord(h, Fresh), BuildARecord(h, Goodbye)},
             inbox' = Multicast(h, P, stays),
             held' = held \/ held' = [held EXCEPT ![h] = None]
      PROVE  Shapes'
  BY <1>1 DEF Multicast
<1>2. ASSUME NEW h \in Hosts, NEW t \in Callers, StopLocked(h, t) \/ StopReturns(h, t)
      PROVE  Shapes'
  BY <1>1, <1>2 DEF StopLocked, StopReturns, Withdraw
<1>3. ASSUME NEW h \in Hosts, Session(h) \/ AddressChanged(h) PROVE Shapes'
  BY <1>2, <1>3 DEF Session, UiJoins, NetOpens, StartLocked, NetLeaves, AddressChanged
<1>4. ASSUME NEW h \in Hosts, WorkerEnds(h) \/ SendProbe(h) \/ Announce(h) PROVE Shapes'
  BY <1>1, <1>4 DEF WorkerEnds, SendProbe, Announce, SendRecord
<1>5. ASSUME NEW h \in Hosts, NEW d, Receive(h, d) \/ Lose(h, d) PROVE Shapes'
  BY <1>5 DEF Receive, Lose
<1>6. ASSUME NEW h \in Hosts, HandleProbingDatagram(h) PROVE Shapes'
  BY <1>1, <1>6 DEF HandleProbingDatagram, Handled, ConflictLocked, Withdraw
<1>7. ASSUME NEW h \in Hosts, HandleContest(h) PROVE Shapes'
  BY <1>1, <1>7 DEF HandleContest, Handled, ConflictLocked, Withdraw, SendRecord
<1>8. ASSUME NEW h \in Hosts, HandleQuery(h) PROVE Shapes'
  BY <1>1, <1>8 DEF HandleQuery, Handled, SendRecord
<1>9. ASSUME NEW h \in Hosts, WorkerFails(h) PROVE Shapes'
  BY <1>1, <1>9 DEF WorkerFails, FailLocked
<1>10. ASSUME NEW h \in Hosts, NEW intent \in {"restart", "stopping"}, UiPress(h, intent)
       PROVE  Shapes'
  BY <1>10 DEF UiPress
<1>11. CASE Tick \/ \E d \in Foreign : Hear(d)
  BY <1>11 DEF Tick, Hear
<1> QED
  BY <1>3, <1>4, <1>5, <1>6, <1>7, <1>8, <1>9, <1>10, <1>11, Zenon DEF Next, Worker

-----------------------------------------------------------------------------
(* Withdrawal.                                                             *)

\* What handling a datagram does to the worker that holds it: nothing to its
\* state, a record sent, or a conflict.
Untouched(h, where) == worker[h] = where /\ desired[h] /\ UNCHANGED <<responder, worker>>

Yields(h, where) ==
  /\ worker[h] = where /\ desired[h]
  /\ state' = [state EXCEPT ![h] = "Conflict"] /\ desired' = [desired EXCEPT ![h] = FALSE]
  /\ worker' = [worker EXCEPT ![h] = "ended"]

LEMMA HandledBy ==
  ASSUME ThreadTypes, NEW h \in Hosts,
         HandleProbingDatagram(h) \/ HandleContest(h) \/ HandleQuery(h)
  PROVE  /\ UNCHANGED <<session, calls>>
         /\ \/ Untouched(h, "observing") /\ UNCHANGED advertised
            \/ /\ Untouched(h, "published")
               /\ UNCHANGED advertised \/ advertised' = [advertised EXCEPT ![h] = "yes"]
            \/ Yields(h, "observing") /\ UNCHANGED <<advertised, goodbye_sent>>
            \/ /\ Yields(h, "published")
               /\ IF goodbye_sent[h] THEN UNCHANGED <<advertised, goodbye_sent>>
                  ELSE /\ advertised' = [advertised EXCEPT ![h] = "no"]
                       /\ goodbye_sent' = [goodbye_sent EXCEPT ![h] = TRUE]
<1> USE DEF ThreadTypes, responder, thread, session, calls, rate, Goto, Handled, Untouched, Yields
<1>1. CASE HandleProbingDatagram(h)
  <2>0. worker[h] = "observing" /\ desired[h]
    BY <1>1, Zenon DEF HandleProbingDatagram
  <2>1. CASE UNCHANGED <<responder, advertised>> /\ Handled(h, "observing")
    BY <2>0, <2>1
  <2>2. CASE Withdraw(h, FALSE, "Conflict") /\ Handled(h, "ended")
    BY <2>0, <2>2 DEF Withdraw
  <2> QED
    BY <1>1, <2>1, <2>2, Zenon DEF HandleProbingDatagram, ConflictLocked
<1>2. CASE HandleContest(h)
  <2>1. CASE SendRecord(h) /\ Handled(h, "published") /\ UNCHANGED responder
    BY <1>2, <2>1 DEF HandleContest, SendRecord
  <2>2. CASE Withdraw(h, TRUE, "Conflict") /\ Handled(h, "ended")
    BY <1>2, <2>2 DEF HandleContest, Withdraw
  <2> QED
    BY <1>2, <2>1, <2>2, Zenon DEF HandleContest, ConflictLocked
<1>3. CASE HandleQuery(h)
  BY <1>3 DEF HandleQuery, SendRecord
<1> QED
  BY <1>1, <1>2, <1>3

\* A step of a tablet's own threads; its section under the lock tests desired_
\* and the states that the others may have left.
LEMMA LifeStep == TypeOK /\ LifeInv /\ Next => LifeInv'
<1> SUFFICES ASSUME TypeOK, LifeInv, Next, NEW o \in Hosts PROVE HostInv(o)'
  BY DEF LifeInv
<1>0. ThreadTypes /\ SessionTypes /\ HostInv(o)
  BY TypeParts DEF LifeInv
<1> USE DEF ThreadTypes, SessionTypes, HostInv, Publishing, Callers,
            responder, thread, session, calls, rate, Goto, CallStop
<1>1. ASSUME NEW h \in Hosts, NEW t \in Callers, StopLocked(h, t) PROVE HostInv(o)'
  BY <1>0, <1>1 DEF StopLocked, Withdraw
<1>2. ASSUME NEW h \in Hosts, NEW t \in Callers, StopReturns(h, t) PROVE HostInv(o)'
  BY <1>0, <1>2 DEF StopReturns
<1>3. ASSUME NEW h \in Hosts, UiJoins(h) \/ NetLeaves(h) \/ AddressChanged(h) PROVE HostInv(o)'
  BY <1>0, <1>3 DEF UiJoins, NetLeaves, AddressChanged
<1>4. ASSUME NEW h \in Hosts, NetOpens(h) PROVE HostInv(o)'
  BY <1>0, <1>4 DEF NetOpens
<1>5. ASSUME NEW h \in Hosts, StartLocked(h) PROVE HostInv(o)'
  BY <1>0, <1>5 DEF StartLocked
<1>6. ASSUME NEW h \in Hosts, WorkerEnds(h) \/ SendProbe(h) PROVE HostInv(o)'
  <2>1. CASE WorkerEnds(h)
    BY <1>0, <2>1 DEF WorkerEnds, RunEnds
  <2>2. CASE SendProbe(h)
    BY <1>0, <2>2 DEF SendProbe
  <2> QED
    BY <1>6, <2>1, <2>2
<1>7. ASSUME NEW h \in Hosts, Announce(h) PROVE HostInv(o)'
  BY <1>0, <1>7 DEF Announce, Due, NoStopPending, SendRecord
<1>8. ASSUME NEW h \in Hosts, NEW d, Receive(h, d) \/ Lose(h, d) PROVE HostInv(o)'
  BY <1>0, <1>8 DEF Receive, Lose
<1>9. ASSUME NEW h \in Hosts,
             HandleProbingDatagram(h) \/ HandleContest(h) \/ HandleQuery(h)
      PROVE  HostInv(o)'
  <2>1. /\ UNCHANGED <<session, calls>>
        /\ \/ Untouched(h, "observing") \/ Untouched(h, "published")
           \/ Yields(h, "observing") \/ Yields(h, "published")
        /\ UNCHANGED goodbye_sent \/ desired' = [desired EXCEPT ![h] = FALSE]
    BY <1>0, <1>9, HandledBy, Zenon DEF Untouched, Yields, responder
  <2>2. CASE UNCHANGED <<responder, worker>>
    BY <1>0, <2>1, <2>2
  <2>3. CASE Yields(h, "observing") \/ Yields(h, "published")
    <3>1. CASE o = h
      BY <1>0, <2>1, <2>3, <3>1 DEF Yields
    <3>2. CASE o # h
      <4>1. goodbye_sent'[o] = goodbye_sent[o]
        BY <1>0, <1>9, <3>2, HandledBy DEF Untouched, Yields
      <4> QED
        BY <1>0, <2>1, <2>3, <3>2, <4>1 DEF Yields
    <3> QED
      BY <3>1, <3>2
  <2> QED
    BY <2>1, <2>2, <2>3 DEF Untouched
<1>10. ASSUME NEW h \in Hosts, WorkerFails(h) PROVE HostInv(o)'
  BY <1>0, <1>10 DEF WorkerFails, FailLocked
<1>11. ASSUME NEW h \in Hosts, NEW intent \in {"restart", "stopping"}, UiPress(h, intent)
       PROVE  HostInv(o)'
  BY <1>0, <1>11 DEF UiPress
<1>12. CASE Tick \/ \E d \in Foreign : Hear(d)
  BY <1>0, <1>12 DEF Tick, Hear
<1> QED
  BY <1>1, <1>2, <1>3, <1>4, <1>5, <1>6, <1>7, <1>8, <1>9, <1>10, <1>11, <1>12, Zenon
     DEF Next, Worker, Session

\* Whatever takes a tablet out of publishing sends the goodbye, or is a failure.
LEMMA WithdrawnStep == TypeOK /\ LifeInv /\ Withdrawn /\ Next => Withdrawn'
<1> SUFFICES ASSUME TypeOK, LifeInv, Withdrawn, Next, NEW o \in Hosts, advertised'[o] = "yes"
             PROVE  Publishing(o)'
  BY DEF Withdrawn
<1>0. ThreadTypes /\ SessionTypes /\ HostInv(o) /\ (advertised[o] = "yes" => Publishing(o))
  BY TypeParts DEF LifeInv, Withdrawn
<1> USE DEF ThreadTypes, SessionTypes, HostInv, Publishing, Callers,
            responder, thread, session, calls, rate, Goto, CallStop
<1>1. ASSUME NEW h \in Hosts, NEW t \in Callers, StopLocked(h, t) PROVE Publishing(o)'
  BY <1>0, <1>1 DEF StopLocked, Withdraw
<1>2. ASSUME NEW h \in Hosts, NEW t \in Callers, StopReturns(h, t) PROVE Publishing(o)'
  BY <1>0, <1>2 DEF StopReturns
<1>3. ASSUME NEW h \in Hosts,
             UiJoins(h) \/ NetOpens(h) \/ NetLeaves(h) \/ AddressChanged(h)
      PROVE  Publishing(o)'
  BY <1>0, <1>3 DEF UiJoins, NetOpens, NetLeaves, AddressChanged
<1>4. ASSUME NEW h \in Hosts, StartLocked(h) PROVE Publishing(o)'
  BY <1>0, <1>4 DEF StartLocked
<1>5. ASSUME NEW h \in Hosts, WorkerEnds(h) \/ SendProbe(h) \/ Announce(h) PROVE Publishing(o)'
  <2>1. CASE WorkerEnds(h)
    BY <1>0, <2>1 DEF WorkerEnds, RunEnds
  <2>2. CASE SendProbe(h) \/ Announce(h)
    BY <1>0, <2>2 DEF SendProbe, Announce, Due, SendRecord
  <2> QED
    BY <1>5, <2>1, <2>2
<1>6. ASSUME NEW h \in Hosts, NEW d, Receive(h, d) \/ Lose(h, d) PROVE Publishing(o)'
  BY <1>0, <1>6 DEF Receive, Lose
<1>7. ASSUME NEW h \in Hosts,
             HandleProbingDatagram(h) \/ HandleContest(h) \/ HandleQuery(h)
      PROVE  Publishing(o)'
  BY <1>0, <1>7, HandledBy DEF Untouched, Yields
<1>8. ASSUME NEW h \in Hosts, WorkerFails(h) PROVE Publishing(o)'
  BY <1>0, <1>8 DEF WorkerFails, FailLocked
<1>9. ASSUME NEW h \in Hosts, NEW intent \in {"restart", "stopping"}, UiPress(h, intent)
       PROVE  Publishing(o)'
  BY <1>0, <1>9 DEF UiPress
<1>10. CASE Tick \/ \E d \in Foreign : Hear(d)
  BY <1>0, <1>10 DEF Tick, Hear
<1> QED
  BY <1>1, <1>2, <1>3, <1>4, <1>5, <1>6, <1>7, <1>8, <1>9, <1>10, Zenon
     DEF Next, Worker, Session

-----------------------------------------------------------------------------
(* Conflicts.                                                              *)

\* What makes a tablet yield, and that it is on its way or in hand.
Response(x, d) == Accepted(d) /\ ClassifyMessage(d.packet) = "response" /\ Others(x, d) # {}
Told(x) == \E d \in Pending(x) : Response(x, d)

\* SettlingUnderWay in these words.
OneIsTold ==
  \A a, b \in Hosts :
    (a # b /\ Publishing(a) /\ Publishing(b)) => used.lost \/ Told(a) \/ Told(b)

LEMMA SettlingIsTold == SettlingUnderWay <=> OneIsTold
<1>1. ASSUME NEW a \in Hosts, NEW b \in Hosts
      PROVE  (\E x \in {a, b}, d \in Pending(a) \cup Pending(b) :
                d \in Pending(x) /\ Accepted(d) /\ ClassifyMessage(d.packet) = "response"
                /\ Others(x, d) # {})
             <=> Told(a) \/ Told(b)
  <2>1. (\E x \in {a, b}, d \in Pending(a) \cup Pending(b) : d \in Pending(x) /\ Response(x, d))
        <=> (\E d \in Pending(a) : Response(a, d)) \/ (\E d \in Pending(b) : Response(b, d))
    OBVIOUS
  <2> QED
    BY <2>1, Zenon DEF Told, Response
<1> QED
  BY <1>1 DEF SettlingUnderWay, OneIsTold

\* An announced or defended record makes every other tablet yield.
LEMMA RecordTells ==
  ASSUME NEW a, NEW x, a # x
  PROVE  Response(x, Datagram(BuildARecord(a, Fresh)))
<1> DEFINE p == BuildARecord(a, Fresh)
<1>1. /\ p = [response |-> TRUE, refused |-> FALSE, questions |-> <<>>,
              answers |-> <<ARecord(a, Fresh)>>, authority |-> <<>>, additional |-> <<>>]
      /\ Records(p) = <<ARecord(a, Fresh)>>
  BY DEF BuildARecord, Packet, Records
<1>2. ClassifyMessage(p) = "response"
  BY <1>1 DEF ClassifyMessage
<1>3. ToSet(Records(p)) = {ARecord(a, Fresh)}
  BY <1>1 DEF ToSet
<1>4. Len(Records(p)) \in 1..MaxRecords
  <2>1. Len(Records(p)) = 1
    BY <1>1
  <2> QED
    BY <2>1, MaxRecordsAssumption
<1>5. {r \in ToSet(Records(p)) : IsOurA(r) /\ r.ttl > Goodbye} = {ARecord(a, Fresh)}
  BY <1>3 DEF IsOurA, ARecord, Fresh, Goodbye
<1>6. ExtractARecords(p) = {a}
  <2>1. p.response /\ ~p.refused
    BY <1>1
  <2>2. ExtractARecords(p) =
          {r.addr : r \in {s \in ToSet(Records(p)) : IsOurA(s) /\ s.ttl > Goodbye}}
    BY <1>4, <2>1, Zenon DEF ExtractARecords
  <2>3. ExtractARecords(p) = {r.addr : r \in {ARecord(a, Fresh)}}
    BY <1>5, <2>2, Zenon
  <2>4. ARecord(a, Fresh).addr = a
    BY DEF ARecord
  <2> QED
    BY <2>3, <2>4
<1> HIDE DEF p
<1>7. Datagram(p).packet = p /\ Datagram(p).faults = {} /\ Datagram(p).hop = 255
  BY DEF Datagram
<1>8. Accepted(Datagram(p))
  BY <1>2, <1>7 DEF Accepted, AcceptDatagramMetadata, AcceptMessageHopLimit
<1>9. Others(x, Datagram(p)) = {a} \ {x}
  BY <1>6, <1>7 DEF Others
<1>10. Response(x, Datagram(p))
  BY <1>2, <1>7, <1>8, <1>9 DEF Response
<1> QED
  BY <1>10 DEF p

\* A publishing tablet that is told to yield is still told after a step in which it
\* goes on publishing, unless the LAN loses a datagram.
LEMMA StaysTold ==
  ASSUME IInv, Next, NEW x \in Hosts, Publishing(x), Publishing(x)', Told(x)
  PROVE  Told(x)' \/ used'.lost
<1>0. /\ ThreadTypes /\ Shapes /\ worker[x] = "published" /\ desired[x] /\ desired'[x]
      /\ UsedTypes
  BY TypeParts DEF IInv, LifeInv, HostInv, Publishing
<1>1. PICK d \in Pending(x) : Response(x, d)
  BY DEF Told
<1>2. d # None /\ (d \in inbox[x] \/ d = held[x])
  BY <1>0, <1>1 DEF Pending, Shapes
<1>3. ASSUME inbox[x] \subseteq inbox'[x], held'[x] = held[x] PROVE Told(x)'
  BY <1>1, <1>3 DEF Told, Pending, Response
<1> USE DEF responder, thread, session, calls, rate, Shapes
<1>4. ASSUME NEW h \in Hosts, NEW P, NEW stays, inbox' = Multicast(h, P, stays),
             stays \/ h # x
      PROVE  inbox[x] \subseteq inbox'[x]
  BY <1>4 DEF Multicast
<1>5. ASSUME NEW h \in Hosts, NEW t \in Callers, StopLocked(h, t) \/ StopReturns(h, t)
      PROVE  Told(x)'
  <2>1. h # x \/ UNCHANGED inbox
    BY <1>0, <1>5 DEF StopLocked, StopReturns, Withdraw, ThreadTypes
  <2>2. UNCHANGED held
    BY <1>5, Zenon DEF StopLocked, StopReturns
  <2> QED
    BY <1>3, <1>4, <1>5, <2>1, <2>2 DEF StopLocked, StopReturns, Withdraw
<1>6. ASSUME NEW h \in Hosts, Session(h) \/ AddressChanged(h) PROVE Told(x)'
  BY <1>3, <1>5, <1>6 DEF Session, UiJoins, NetOpens, StartLocked, NetLeaves, AddressChanged
<1>7. ASSUME NEW h \in Hosts, WorkerEnds(h) \/ SendProbe(h) \/ Announce(h) PROVE Told(x)'
  <2>1. held'[x] = held[x]
    <3>1. CASE WorkerEnds(h)
      BY <1>0, <3>1 DEF WorkerEnds, RunEnds
    <3>2. CASE SendProbe(h)
      BY <1>0, <3>2 DEF SendProbe
    <3>3. CASE Announce(h)
      BY <1>0, <3>3 DEF Announce
    <3> QED
      BY <1>7, <3>1, <3>2, <3>3
  <2>2. inbox[x] \subseteq inbox'[x]
    BY <1>4, <1>7 DEF WorkerEnds, SendProbe, Announce, SendRecord
  <2> QED
    BY <1>3, <2>1, <2>2
<1>8. ASSUME NEW h \in Hosts, NEW e, Receive(h, e) PROVE Told(x)'
  <2>1. CASE h # x
    BY <1>3, <1>8, <2>1 DEF Receive
  <2>2. CASE h = x
    <3>1. held[x] = None /\ d \in inbox[x]
      BY <1>2, <1>8, <2>2 DEF Receive
    <3>2. IF d = e THEN held'[x] = d ELSE d \in inbox'[x]
      <4>1. inbox' = [inbox EXCEPT ![x] = @ \ {e}] /\ (Accepted(e) => held'[x] = e)
        BY <1>0, <1>8, <2>2 DEF Receive
      <4> QED
        BY <1>0, <1>1, <3>1, <4>1 DEF Response
    <3> QED
      BY <1>1, <1>2, <3>2 DEF Told, Pending, Response
  <2> QED
    BY <2>1, <2>2
<1>9. ASSUME NEW h \in Hosts, NEW e, Lose(h, e) PROVE used'.lost
  BY <1>0, <1>9 DEF Lose, UsedTypes
<1>10. ASSUME NEW h \in Hosts,
              HandleProbingDatagram(h) \/ HandleContest(h) \/ HandleQuery(h)
       PROVE  Told(x)'
  <2>1. CASE h = x
    <3>1. ~HandleProbingDatagram(h) /\ held[x] # None
      BY <1>0, <1>10, <2>1, Zenon DEF HandleProbingDatagram, HandleContest, HandleQuery
    <3>2. ~Response(x, held[x]) /\ inbox[x] \subseteq inbox'[x]
      <4>1. CASE HandleContest(h)
        <5>1. SendRecord(h) /\ ClassifyMessage(held[h].packet) = "probe"
          BY <1>0, <2>1, <4>1 DEF HandleContest, ConflictLocked, Withdraw, ThreadTypes
        <5> QED
          BY <1>4, <2>1, <5>1 DEF SendRecord, Response
      <4>2. CASE HandleQuery(h)
        <5>1. ~Contested(h, held[h]) /\ (SendRecord(h) \/ UNCHANGED inbox)
          BY <4>2, Zenon DEF HandleQuery
        <5> QED
          BY <1>4, <2>1, <5>1 DEF SendRecord, Response, Contested
      <4> QED
        BY <1>10, <3>1, <4>1, <4>2
    <3>3. d \in inbox'[x]
      BY <1>1, <1>2, <3>2
    <3> QED
      BY <1>1, <1>2, <3>3 DEF Told, Pending, Response
  <2>2. CASE h # x
    <3>1. held'[x] = held[x]
      <4>1. held' = [held EXCEPT ![h] = None]
        BY <1>10, Zenon DEF HandleProbingDatagram, HandleContest, HandleQuery, Handled
      <4> QED
        BY <1>0, <2>2, <4>1
    <3>2. inbox[x] \subseteq inbox'[x]
      BY <1>4, <1>10, <2>2 DEF HandleProbingDatagram, HandleContest, HandleQuery,
         ConflictLocked, Withdraw, SendRecord
    <3> QED
      BY <1>3, <3>1, <3>2
  <2> QED
    BY <2>1, <2>2
<1>11. ASSUME NEW h \in Hosts, WorkerFails(h) PROVE Told(x)'
  <2>1. h # x
    BY <1>0, <1>11 DEF WorkerFails, FailLocked, ThreadTypes
  <2>2. held'[x] = held[x] /\ inbox[x] \subseteq inbox'[x]
    <3>1. held' = [held EXCEPT ![h] = None] /\ inbox' = Multicast(h, {}, FALSE)
      BY <1>11, Zenon DEF WorkerFails, FailLocked
    <3> QED
      BY <1>0, <1>4, <2>1, <3>1
  <2> QED
    BY <1>3, <2>2
<1>12. ASSUME NEW h \in Hosts, NEW intent \in {"restart", "stopping"}, UiPress(h, intent)
       PROVE  Told(x)'
  BY <1>3, <1>12 DEF UiPress
<1>13. CASE Tick \/ \E e \in Foreign : Hear(e)
  BY <1>3, <1>13 DEF Tick, Hear
<1> QED
  BY <1>6, <1>7, <1>8, <1>9, <1>10, <1>11, <1>12, <1>13, Zenon DEF Next, Worker

\* Only an announcement makes a tablet publish, and it tells all the others.
LEMMA AnnouncementTells ==
  ASSUME IInv, Next, NEW a \in Hosts, ~Publishing(a), Publishing(a)'
  PROVE  \A b \in Hosts : b # a /\ Publishing(b)' => Told(b)'
<1>0. ThreadTypes /\ SessionTypes /\ Shapes
  BY TypeParts DEF IInv
<1> USE DEF ThreadTypes, Publishing, responder, thread, session, calls, rate
<1>1. ASSUME NEW h \in Hosts, Session(h) \/ AddressChanged(h) PROVE FALSE
  <2>1. ASSUME NEW t \in Callers, StopLocked(h, t) PROVE FALSE
    BY <1>0, <2>1 DEF StopLocked, Withdraw
  <2>2. ASSUME NEW t \in Callers, StopReturns(h, t) PROVE FALSE
    BY <1>0, <2>2 DEF StopReturns
  <2>3. CASE StartLocked(h)
    BY <1>0, <2>3 DEF StartLocked
  <2>4. CASE UNCHANGED <<state, desired>>
    BY <2>4
  <2> QED
    BY <1>1, <2>1, <2>2, <2>3, <2>4, Zenon DEF Session, UiJoins, NetOpens, NetLeaves,
       AddressChanged
<1>2. ASSUME NEW h \in Hosts, WorkerEnds(h) \/ SendProbe(h) \/ WorkerFails(h) PROVE FALSE
  BY <1>0, <1>2 DEF WorkerEnds, SendProbe, WorkerFails, FailLocked
<1>3. ASSUME NEW h \in Hosts, Announce(h)
      PROVE  \A b \in Hosts : b # a /\ Publishing(b)' => Told(b)'
  <2> SUFFICES ASSUME NEW b \in Hosts, b # a, Publishing(b)' PROVE Told(b)'
    OBVIOUS
  <2>1. h = a /\ desired[b]
    BY <1>0, <1>3 DEF Announce
  <2>2. Datagram(BuildARecord(a, Fresh)) \in inbox'[b]
    BY <1>3, <2>1 DEF Announce, SendRecord, Multicast
  <2>3. Datagram(BuildARecord(a, Fresh)) \in Pending(b)'
    BY <2>2, Zenon DEF Pending
  <2>4. Response(b, Datagram(BuildARecord(a, Fresh)))
    BY RecordTells
  <2> QED
    BY <2>3, <2>4, Zenon DEF Told, Response
<1>4. ASSUME NEW h \in Hosts, NEW e, Receive(h, e) \/ Lose(h, e) PROVE FALSE
  BY <1>0, <1>4 DEF Receive, Lose
<1>5. ASSUME NEW h \in Hosts,
             HandleProbingDatagram(h) \/ HandleContest(h) \/ HandleQuery(h)
      PROVE  FALSE
  <2>1. \/ UNCHANGED <<state, desired>>
        \/ /\ desired' = [desired EXCEPT ![h] = FALSE]
           /\ state' = [state EXCEPT ![h] = "Conflict"]
    BY <1>0, <1>5, HandledBy, Zenon DEF Untouched, Yields
  <2> QED
    BY <1>0, <2>1
<1>6. ASSUME NEW h \in Hosts, NEW intent \in {"restart", "stopping"}, UiPress(h, intent)
      PROVE  FALSE
  BY <1>6, Zenon DEF UiPress
<1>7. CASE Tick \/ \E e \in Foreign : Hear(e)
  BY <1>7, Zenon DEF Tick, Hear
<1> QED
  BY <1>1, <1>2, <1>3, <1>4, <1>5, <1>6, <1>7, Zenon DEF Next, Worker

\* A datagram that was lost stays lost.
LEMMA LostStays == TypeOK /\ Next /\ used.lost => used'.lost
<1> SUFFICES ASSUME TypeOK, Next, used.lost PROVE used'.lost
  OBVIOUS
<1>0. UsedTypes
  BY TypeParts
<1>1. CASE Event
  BY <1>0, <1>1 DEF Event, UsedTypes
<1>2. ASSUME NEW h \in Hosts, NEW d, Lose(h, d) PROVE used'.lost
  BY <1>0, <1>2 DEF Lose, UsedTypes
<1>3. ASSUME NEW h \in Hosts, NEW intent \in {"restart", "stopping"}, UiPress(h, intent)
      PROVE  used'.lost
  BY <1>0, <1>3 DEF UiPress, UsedTypes
<1>4. CASE UNCHANGED used
  BY <1>4
<1>5. ASSUME NEW h \in Hosts, Session(h) PROVE used'.lost
  BY <1>1, <1>4, <1>5, Zenon DEF Session, StopLocked, StopReturns, UiJoins, NetOpens,
     StartLocked, NetLeaves
<1>6. ASSUME NEW h \in Hosts, Worker(h) PROVE used'.lost
  BY <1>4, <1>6, Zenon DEF Worker, WorkerEnds, SendProbe, Announce, Receive,
     HandleProbingDatagram, HandleContest, HandleQuery, Handled
<1>7. ASSUME NEW h \in Hosts, WorkerFails(h) \/ AddressChanged(h) PROVE used'.lost
  BY <1>1, <1>7, Zenon DEF WorkerFails, AddressChanged
<1>8. CASE Tick \/ \E d \in Foreign : Hear(d)
  BY <1>1, <1>4, <1>8, Zenon DEF Tick, Hear
<1> QED
  BY <1>2, <1>3, <1>5, <1>6, <1>7, <1>8, Zenon DEF Next

\* Of two tablets that publish after a step, either both did before and one was
\* told, or the one that has just announced has told the other.
LEMMA SettlingStep == IInv /\ Next => SettlingUnderWay'
<1> SUFFICES ASSUME IInv, Next, NEW a \in Hosts, NEW b \in Hosts, a # b,
                    Publishing(a)', Publishing(b)', ~used'.lost
             PROVE  Told(a)' \/ Told(b)'
  <2>1. SettlingUnderWay' <=> OneIsTold'
    BY SettlingIsTold, PTL
  <2> QED
    BY <2>1 DEF OneIsTold
<1>1. CASE Publishing(a) /\ Publishing(b)
  <2>1. ~used.lost
    BY LostStays DEF IInv
  <2>2. Told(a) \/ Told(b)
    BY <1>1, <2>1, SettlingIsTold DEF IInv, OneIsTold
  <2> QED
    BY <1>1, <2>2, StaysTold
<1>2. CASE ~Publishing(a)
  BY <1>2, AnnouncementTells
<1>3. CASE ~Publishing(b)
  BY <1>3, AnnouncementTells
<1> QED
  BY <1>1, <1>2, <1>3

-----------------------------------------------------------------------------

\* A step that changes nothing keeps the invariant, and so does every other.
LEMMA Invariance == Spec => []IInv
<1>1. IInv /\ Next => IInv'
  <2> SUFFICES ASSUME IInv, Next PROVE IInv'
    OBVIOUS
  <2>1. TypeOK'
    BY ThreadsTyped, SessionsTyped, CountsTyped, UsedTyped, TypeParts, PTL DEF IInv
  <2>2. Shapes' /\ LifeInv' /\ Withdrawn' /\ SettlingUnderWay'
    BY ShapesKept, LifeStep, WithdrawnStep, SettlingStep DEF IInv
  <2> QED
    BY <2>1, <2>2 DEF IInv
<1>2. IInv /\ UNCHANGED vars => IInv'
  <2> SUFFICES ASSUME IInv, UNCHANGED vars PROVE IInv'
    OBVIOUS
  <2>1. UNCHANGED <<state, desired, goodbye_sent, worker, joinable, probes, held, inbox,
                    window, wanted, net, ui, call, taken, advertised, recent, used>>
    BY Zenon DEF vars, responder, thread, session, calls, rate
  <2>2. TypeOK' /\ Shapes'
    BY <2>1 DEF IInv, TypeOK, Shapes
  <2>3. LifeInv' /\ Withdrawn'
    BY <2>1 DEF IInv, LifeInv, HostInv, Publishing, Withdrawn
  <2>4. SettlingUnderWay'
    BY <2>1 DEF IInv, SettlingUnderWay, Publishing, Pending
  <2> QED
    BY <2>2, <2>3, <2>4 DEF IInv
<1> QED
  BY <1>1, <1>2, InitIInv, PTL DEF Spec

\* Every variable of the responders and of their sessions keeps its type.
THEOREM TypeCorrectness == Spec => []TypeOK
<1>1. IInv => TypeOK
  BY DEF IInv
<1> QED
  BY <1>1, Invariance, PTL

\* Of any number of tablets, two publish the name only while one of them is
\* being told to yield, or the LAN has lost a datagram.
THEOREM ConflictsSettle == Spec => []SettlingUnderWay
<1>1. IInv => SettlingUnderWay
  BY DEF IInv
<1> QED
  BY <1>1, Invariance, PTL

\* Stop, a lost address or a conflict: a published record is withdrawn.
THEOREM RecordsAreWithdrawn == Spec => []Withdrawn
<1>1. IInv => Withdrawn
  BY DEF IInv
<1> QED
  BY <1>1, Invariance, PTL
-----------------------------------------------------------------------------
(* The rate of the answers.                                                *)

\* What is left of the window before, while it can still be within one window of
\* now: all but its first response, which opened it.
HostRate(h) ==
  LET w == window[h]
  IN  /\ w.age = Window => /\ recent[h][0] = 0
                           /\ \A a \in Ages : recent[h][a] <= MaxResponses - 1
      /\ w.age < Window =>
           /\ w.count > 0
           /\ \A a \in Ages :
                /\ a < w.age => recent[h][a] <= w.count - 1
                /\ a = w.age => recent[h][a] <= w.count
                /\ a > w.age => recent[h][a] <= w.count + MaxResponses - 1

RateInv == \A h \in Hosts : HostRate(h)

\* Every step but these three leaves the counters alone.
LEMMA RateSteps ==
  ASSUME TypeOK, [Next]_vars
  PROVE  \/ UNCHANGED <<window, recent>>
         \/ \E h \in Hosts : StartLocked(h) \/ HandleQuery(h)
         \/ Tick
<1> USE DEF responder, thread, session, calls, rate
<1>1. CASE UNCHANGED vars
  BY <1>1, Zenon DEF vars
<1>2. ASSUME NEW h \in Hosts,
             UiJoins(h) \/ NetLeaves(h) \/ WorkerEnds(h) \/ Announce(h)
             \/ HandleProbingDatagram(h) \/ HandleContest(h) \/ NetOpens(h)
             \/ AddressChanged(h) \/ WorkerFails(h) \/ SendProbe(h)
      PROVE  UNCHANGED <<window, recent>>
  BY <1>2, Zenon DEF UiJoins, NetLeaves, WorkerEnds, Announce, HandleProbingDatagram,
     HandleContest, Handled, NetOpens, AddressChanged, WorkerFails, SendProbe
<1>3. ASSUME NEW h \in Hosts, NEW t \in Callers, StopLocked(h, t) \/ StopReturns(h, t)
      PROVE  UNCHANGED <<window, recent>>
  BY <1>3, Zenon DEF StopLocked, StopReturns
<1>4. ASSUME NEW h \in Hosts, NEW d, Receive(h, d) \/ Lose(h, d)
      PROVE  UNCHANGED <<window, recent>>
  BY <1>4, Zenon DEF Receive, Lose
<1>5. ASSUME NEW h \in Hosts, NEW intent \in {"restart", "stopping"}, UiPress(h, intent)
      PROVE  UNCHANGED <<window, recent>>
  BY <1>5, Zenon DEF UiPress
<1>6. ASSUME NEW d \in Foreign, Hear(d) PROVE UNCHANGED <<window, recent>>
  BY <1>6, Zenon DEF Hear
<1> QED
  BY <1>1, <1>2, <1>3, <1>4, <1>5, <1>6, Zenon DEF Next, Worker, Session

\* A run starts with no window and no answers.
LEMMA RunStarts ==
  ASSUME TypeOK, RateInv, NEW h \in Hosts, StartLocked(h)
  PROVE  RateInv'
<1>1. CASE UNCHANGED <<window, recent>>
  BY <1>1, Zenon DEF RateInv, HostRate
<1>2. CASE /\ window' = [window EXCEPT ![h] = [age |-> Window, count |-> 0]]
           /\ recent' = [recent EXCEPT ![h] = [a \in Ages |-> 0]]
  <2>1. window'[h].age = Window /\ \A a \in Ages : recent'[h][a] = 0
    BY <1>2 DEF TypeOK
  <2>2. HostRate(h)'
    BY <2>1, Counts DEF HostRate, Ages
  <2>3. ASSUME NEW o \in Hosts, o # h PROVE window'[o] = window[o] /\ recent'[o] = recent[o]
    BY <1>2, <2>3, Zenon DEF TypeOK
  <2>4. ASSUME NEW o \in Hosts, o # h PROVE HostRate(o)'
    BY <2>3, <2>4, Zenon DEF RateInv, HostRate
  <2> QED
    BY <2>2, <2>4, Zenon DEF RateInv
<1> QED
  BY <1>1, <1>2, Zenon DEF StartLocked

\* An answer opens a window or is counted in the one that is open.
LEMMA QueryCounted ==
  ASSUME TypeOK, RateInv, NEW h \in Hosts, HandleQuery(h)
  PROVE  RateInv'
<1> DEFINE w == RenewWindow(h)
<1>1. /\ window[h] \in [age : 0..Window, count : 0..MaxResponses]
      /\ recent[h] \in [Ages -> Nat] /\ HostRate(h)
  BY DEF TypeOK, RateInv
<1>2. \/ /\ w.count < MaxResponses
         /\ window' = [window EXCEPT ![h] = [w EXCEPT !.count = @ + 1]]
         /\ recent' = [recent EXCEPT ![h] = [a \in Ages |-> recent[h][a] + 1]]
      \/ /\ w.count >= MaxResponses
         /\ window' = [window EXCEPT ![h] = w] /\ UNCHANGED recent
      \/ UNCHANGED <<window, recent>>
  BY Zenon DEF HandleQuery, rate
<1>3. /\ w.age \in 0..Window /\ w.count \in 0..MaxResponses
      /\ w = [age |-> w.age, count |-> w.count]
      /\ (w = window[h] \/ (window[h].age = Window /\ w.age = 0 /\ w.count = 0))
      /\ w.age < Window
  BY <1>1, Counts DEF RenewWindow
<1> HIDE DEF w
<1>4. CASE w.count >= MaxResponses /\ window' = [window EXCEPT ![h] = w] /\ UNCHANGED recent
  <2>1. w = window[h]
    BY <1>3, <1>4, Counts
  <2>2. window' = window
    BY <1>4, <2>1 DEF TypeOK
  <2> QED
    BY <1>4, <2>2, Zenon DEF RateInv, HostRate
<1>5. CASE /\ w.count < MaxResponses
           /\ window' = [window EXCEPT ![h] = [w EXCEPT !.count = @ + 1]]
           /\ recent' = [recent EXCEPT ![h] = [a \in Ages |-> recent[h][a] + 1]]
  <2>1. window'[h].age = w.age /\ window'[h].count = w.count + 1
    BY <1>3, <1>5 DEF TypeOK
  <2>2. \A a \in Ages : recent'[h][a] = recent[h][a] + 1
    BY <1>1, <1>5 DEF TypeOK
  <2>3. ASSUME NEW a \in Ages
        PROVE  /\ a < w.age => recent[h][a] <= w.count - 1
               /\ a = w.age => recent[h][a] <= w.count
               /\ a > w.age => recent[h][a] <= w.count + MaxResponses - 1
    <3>1. a \in Nat /\ recent[h][a] \in Nat
      BY <1>1, Counts DEF Ages
    <3>2. CASE w = window[h]
      BY <1>1, <1>3, <3>2, Zenon DEF HostRate
    <3>3. CASE window[h].age = Window /\ w.age = 0 /\ w.count = 0
      <4>1. recent[h][0] = 0 /\ recent[h][a] <= MaxResponses - 1
        BY <1>1, <3>3, Zenon DEF HostRate
      <4> QED
        BY <3>1, <3>3, <4>1, Counts
    <3> QED
      BY <1>3, <3>2, <3>3
  <2>4. ASSUME NEW a \in Ages
        PROVE  /\ a < window'[h].age => recent'[h][a] <= window'[h].count - 1
               /\ a = window'[h].age => recent'[h][a] <= window'[h].count
               /\ a > window'[h].age =>
                    recent'[h][a] <= window'[h].count + MaxResponses - 1
    <3>1. recent[h][a] \in Nat /\ recent'[h][a] = recent[h][a] + 1
      BY <1>1, <2>2
    <3> QED
      BY <1>3, <2>1, <2>3, <3>1, Counts
  <2>5. HostRate(h)'
    <3>1. window'[h].age < Window /\ window'[h].age # Window /\ window'[h].count > 0
      BY <1>3, <2>1, Counts
    <3> QED
      BY <2>4, <3>1, Zenon DEF HostRate
  <2>6. ASSUME NEW o \in Hosts, o # h PROVE window'[o] = window[o] /\ recent'[o] = recent[o]
    BY <1>5, <2>6, Zenon DEF TypeOK
  <2>7. ASSUME NEW o \in Hosts, o # h PROVE HostRate(o)'
    BY <2>6, <2>7, Zenon DEF RateInv, HostRate
  <2> QED
    BY <2>5, <2>7, Zenon DEF RateInv
<1> QED
  BY <1>2, <1>4, <1>5, Zenon DEF RateInv, HostRate

\* A tick: everything is one older, and what a window may still hold is less.
LEMMA TimePasses ==
  ASSUME TypeOK, RateInv, Tick
  PROVE  RateInv'
<1> SUFFICES ASSUME NEW h \in Hosts PROVE HostRate(h)'
  BY DEF RateInv
<1>1. /\ window[h] \in [age : 0..Window, count : 0..MaxResponses]
      /\ recent[h] \in [Ages -> Nat] /\ HostRate(h)
  BY DEF TypeOK, RateInv
<1>2. /\ window'[h].age = IF window[h].age < Window THEN window[h].age + 1 ELSE window[h].age
      /\ window'[h].count = window[h].count
  BY <1>1 DEF Tick
<1>3. /\ recent'[h][0] = 0
      /\ \A a \in Ages : a # 0 => a - 1 \in Ages /\ recent'[h][a] = recent[h][a - 1]
  BY <1>1, Counts DEF Tick, Ages
<1>4. /\ window[h].age \in 0..Window /\ window[h].count \in 0..MaxResponses
      /\ 0 \in Ages /\ Ages \subseteq Nat
      /\ \A a \in Ages : a < Window /\ recent[h][a] \in Nat
  BY <1>1, Counts DEF Ages
<1>5. CASE window[h].age = Window
  <2>1. \A a \in Ages : recent[h][a] <= MaxResponses - 1
    BY <1>1, <1>5, Zenon DEF HostRate
  <2>2. \A a \in Ages : recent'[h][a] <= MaxResponses - 1
    BY <1>3, <2>1, Counts
  <2> QED
    BY <1>2, <1>3, <1>5, <2>2, Counts DEF HostRate
<1>6. CASE window[h].age < Window
  <2>1. /\ window[h].count > 0
        /\ \A a \in Ages :
             /\ a < window[h].age => recent[h][a] <= window[h].count - 1
             /\ a = window[h].age => recent[h][a] <= window[h].count
             /\ a > window[h].age => recent[h][a] <= window[h].count + MaxResponses - 1
    BY <1>1, <1>6, Zenon DEF HostRate
  <2>2. ASSUME NEW a \in Ages
        PROVE  /\ a < window[h].age + 1 => recent'[h][a] <= window[h].count - 1
               /\ a = window[h].age + 1 => recent'[h][a] <= window[h].count
               /\ a > window[h].age + 1 =>
                    recent'[h][a] <= window[h].count + MaxResponses - 1
    <3>1. CASE a = 0
      BY <1>3, <1>4, <2>1, <3>1
    <3>2. CASE a # 0
      <4>1. a - 1 \in Ages /\ recent'[h][a] = recent[h][a - 1] /\ a \in Nat
        BY <1>3, <1>4, <3>2
      <4> QED
        BY <1>4, <2>1, <4>1
    <3> QED
      BY <3>1, <3>2
  <2>3. CASE window[h].age + 1 = Window
    <3>1. \A a \in Ages : recent'[h][a] <= MaxResponses - 1
      <4>1. \A a \in Ages : recent'[h][a] <= window[h].count - 1 /\ recent'[h][a] \in Nat
        BY <1>3, <1>4, <2>2, <2>3
      <4> QED
        BY <1>4, <4>1, Counts
    <3> QED
      BY <1>2, <1>3, <1>6, <2>3, <3>1, Counts DEF HostRate
  <2>4. CASE window[h].age + 1 # Window
    <3>1. /\ window'[h].age = window[h].age + 1 /\ window'[h].count = window[h].count
          /\ window[h].age + 1 < Window
      BY <1>2, <1>4, <1>6, <2>4, Counts
    <3> QED
      BY <2>1, <2>2, <2>4, <3>1 DEF HostRate
  <2> QED
    BY <2>3, <2>4
<1> QED
  BY <1>4, <1>5, <1>6, Counts

\* What AllowQueryResponse does bound: in any span of one window fewer than twice the
\* limit, since a window opens with its first response and the rest of one and
\* the whole of the next may meet. (PROTOCOL.md 381 promises the limit itself.)
BurstBound == \A h \in Hosts : recent[h][Window - 1] <= 2 * MaxResponses - 1

\* AllowQueryResponse: whenever a run is asked, and however long a window stays
\* open for want of a query, fewer than twice the limit leave within its length.
THEOREM BurstsAreBounded == Spec => []BurstBound
<1>1. Init => RateInv
  BY Counts DEF Init, RateInv, HostRate, Ages
<1>2. IInv /\ RateInv /\ [Next]_vars => RateInv'
  <2> SUFFICES ASSUME TypeOK, RateInv, [Next]_vars PROVE RateInv'
    BY DEF IInv
  <2>1. CASE UNCHANGED <<window, recent>>
    BY <2>1, Zenon DEF RateInv, HostRate
  <2> QED
    BY <2>1, RateSteps, RunStarts, QueryCounted, TimePasses, Zenon
<1>3. IInv /\ RateInv => BurstBound
  <2> SUFFICES ASSUME TypeOK, RateInv, NEW h \in Hosts
               PROVE  recent[h][Window - 1] <= 2 * MaxResponses - 1
    BY DEF IInv, BurstBound
  <2>1. /\ window[h].age \in 0..Window /\ window[h].count \in 0..MaxResponses
        /\ Window - 1 \in Ages /\ recent[h][Window - 1] \in Nat /\ HostRate(h)
    BY Counts DEF TypeOK, RateInv, Ages
  <2>2. CASE window[h].age = Window
    BY <2>1, <2>2, Counts DEF HostRate
  <2>3. CASE window[h].age < Window
    <3>1. \/ recent[h][Window - 1] <= window[h].count
          \/ recent[h][Window - 1] <= window[h].count + MaxResponses - 1
      BY <2>1, <2>3, Counts DEF HostRate
    <3> QED
      BY <2>1, <3>1, Counts
  <2> QED
    BY <2>1, <2>2, <2>3, Counts
<1> QED
  BY <1>1, <1>2, <1>3, Invariance, PTL DEF Spec

-----------------------------------------------------------------------------
(* Stop, entered by two threads.                                           *)

Quiet(h) == worker[h] = "none" /\ ~desired[h] /\ state[h] = "Stopped"

\* Whose the worker thread is: worker_'s, or that of a Stop that waits for it.
OwnerInv(h) ==
  /\ worker[h] # "none" <=> joinable[h] \/ taken[h]["ui"] \/ taken[h]["net"]
  /\ \A t \in Callers : taken[h][t] => ~joinable[h] /\ call[h][t] = "join"
  /\ ~(taken[h]["ui"] /\ taken[h]["net"])

\* What the network worker's own Stop makes sure of: nothing runs before it starts
\* a responder, and whatever it started has been stopped when it ends.
NetInv(h) ==
  /\ net[h] \in {"off", "opening", "starting"} => Quiet(h)
  /\ net[h] \in {"off", "opening"} => call[h]["net"] = "none"
  /\ net[h] = "leaving" =>
       /\ call[h]["net"] # "lock" => ~joinable[h] /\ ~desired[h]
       /\ call[h]["net"] = "none" => state[h] = "Stopped"

\* What a press has asked of the network worker and of the responder's worker before
\* anyone waits for them.
AskedInv(h) ==
  /\ ui[h] # "idle" => ~wanted[h]
  /\ \A t \in Callers : taken[h][t] => ~desired[h]

HostJoins(h) == OwnerInv(h) /\ NetInv(h) /\ AskedInv(h)

JoinInv == \A h \in Hosts : HostJoins(h)

\* A step of one of the threads of a tablet.
LEMMA JoinStep == TypeOK /\ JoinInv /\ Next => JoinInv'
<1> SUFFICES ASSUME TypeOK, JoinInv, Next, NEW o \in Hosts PROVE HostJoins(o)'
  BY DEF JoinInv
<1>0. ThreadTypes /\ SessionTypes /\ HostJoins(o)
  BY TypeParts DEF JoinInv
<1> USE DEF ThreadTypes, SessionTypes, HostJoins, OwnerInv, NetInv, AskedInv, Quiet, Callers,
            responder, thread, session, calls, rate, Goto, CallStop
<1>1. ASSUME NEW h \in Hosts, NEW t \in Callers, StopLocked(h, t)
      PROVE  HostJoins(o)'
  BY <1>0, <1>1 DEF StopLocked, Withdraw
<1>2. ASSUME NEW h \in Hosts, NEW t \in Callers, StopReturns(h, t)
      PROVE  HostJoins(o)'
  BY <1>0, <1>2 DEF StopReturns, Joined
<1>3. ASSUME NEW h \in Hosts, NetLeaves(h) \/ AddressChanged(h)
      PROVE  HostJoins(o)'
  <2>1. CASE NetLeaves(h)
    BY <1>0, <2>1 DEF NetLeaves, AcceptLoopEnds
  <2>2. CASE AddressChanged(h)
    BY <1>0, <2>2 DEF AddressChanged
  <2> QED
    BY <1>3, <2>1, <2>2
<1>4. ASSUME NEW h \in Hosts, UiJoins(h) PROVE HostJoins(o)'
  BY <1>0, <1>4 DEF UiJoins, NetEnded
<1>5. ASSUME NEW h \in Hosts, NetOpens(h) PROVE HostJoins(o)'
  BY <1>0, <1>5 DEF NetOpens
<1>6. ASSUME NEW h \in Hosts, StartLocked(h) PROVE HostJoins(o)'
  BY <1>0, <1>6 DEF StartLocked
<1>7. ASSUME NEW h \in Hosts, WorkerEnds(h) \/ SendProbe(h)
      PROVE  HostJoins(o)'
  <2>1. CASE WorkerEnds(h)
    BY <1>0, <2>1 DEF WorkerEnds, RunEnds
  <2>2. CASE SendProbe(h)
    BY <1>0, <2>2 DEF SendProbe
  <2> QED
    BY <1>7, <2>1, <2>2
<1>8. ASSUME NEW h \in Hosts, Announce(h) PROVE HostJoins(o)'
  BY <1>0, <1>8 DEF Announce, Due, SendRecord
<1>9. ASSUME NEW h \in Hosts, NEW d, Receive(h, d) \/ Lose(h, d)
      PROVE  HostJoins(o)'
  BY <1>0, <1>9 DEF Receive, Lose
<1>10. ASSUME NEW h \in Hosts,
              HandleProbingDatagram(h) \/ HandleContest(h) \/ HandleQuery(h)
       PROVE  HostJoins(o)'
  <2>1. /\ UNCHANGED <<session, calls>>
        /\ \/ Untouched(h, "observing") \/ Untouched(h, "published")
           \/ Yields(h, "observing") \/ Yields(h, "published")
    BY <1>0, <1>10, HandledBy, Zenon
  <2> QED
    BY <1>0, <2>1 DEF Untouched, Yields
<1>11. ASSUME NEW h \in Hosts, WorkerFails(h) PROVE HostJoins(o)'
  BY <1>0, <1>11 DEF WorkerFails, FailLocked
<1>12. ASSUME NEW h \in Hosts, NEW intent \in {"restart", "stopping"}, UiPress(h, intent)
       PROVE  HostJoins(o)'
  BY <1>0, <1>12 DEF UiPress
<1>13. CASE Tick \/ \E d \in Foreign : Hear(d)
  BY <1>0, <1>13 DEF Tick, Hear
<1> QED
  BY <1>1, <1>2, <1>3, <1>4, <1>5, <1>6, <1>7, <1>8, <1>9, <1>10, <1>11, <1>12, <1>13, Zenon
     DEF Next, Worker, Session

LEMMA JoinInvariance == Spec => []JoinInv
<1>1. Init => JoinInv
  BY DEF Init, JoinInv, HostJoins, OwnerInv, NetInv, AskedInv, Quiet, Callers
<1>2. IInv /\ JoinInv /\ [Next]_vars => JoinInv'
  <2> SUFFICES ASSUME TypeOK, JoinInv, [Next]_vars PROVE JoinInv'
    BY DEF IInv
  <2>1. CASE UNCHANGED vars
    BY <2>1 DEF vars, responder, thread, session, calls, JoinInv, HostJoins, OwnerInv, NetInv,
                AskedInv, Quiet
  <2> QED
    BY <2>1, JoinStep
<1> QED
  BY <1>1, <1>2, Invariance, PTL DEF Spec

\* However the Stops of the UI thread and of the network worker overlap, the
\* responder's worker is waited for once, and nothing of it is left.
THEOREM StopsAreClean == Spec => []StopIsClean
<1>1. IInv /\ JoinInv => StopIsClean
  BY DEF IInv, TypeOK, JoinInv, HostJoins, OwnerInv, NetInv, Quiet, StopIsClean
<1> QED
  BY <1>1, Invariance, JoinInvariance, PTL

\* Where the threads stand once a button is pressed: a caller that waits in Stop waits
\* for a worker that has been told to end, the UI thread for a network worker that is
\* about to start, to leave or inside Stop.
LEMMA SomeoneMoves == TypeOK /\ JoinInv => StopNeverStuck
<1> SUFFICES ASSUME TypeOK, JoinInv, NEW h \in Hosts, ui[h] # "idle"
             PROVE  UiMoves(h) \/ NetMoves(h) \/ RunEnds(h)
  BY DEF StopNeverStuck
<1>1. HostJoins(h)
  BY DEF JoinInv
<1>2. /\ worker[h] \in {"none", "observing", "published", "ended"}
      /\ net[h] \in {"off", "opening", "starting", "serving", "leaving"}
      /\ \A t \in Callers : call[h][t] \in {"none", "lock", "join"}
  BY TypeParts DEF ThreadTypes, SessionTypes
<1>3. ASSUME NEW t \in Callers, call[h][t] # "none" PROVE StopMoves(h, t) \/ RunEnds(h)
  BY <1>1, <1>2, <1>3 DEF HostJoins, OwnerInv, AskedInv, Callers, StopMoves, Joined, RunEnds
<1>4. CASE call[h]["ui"] # "none"
  BY <1>3, <1>4 DEF Callers, UiMoves
<1>5. CASE call[h]["ui"] = "none" /\ call[h]["net"] # "none"
  BY <1>3, <1>5 DEF Callers, NetMoves
<1>6. CASE call[h]["ui"] = "none" /\ call[h]["net"] = "none"
  BY <1>1, <1>2, <1>6 DEF HostJoins, AskedInv, UiMoves, NetEnded, NetMoves, AcceptLoopEnds
<1> QED
  BY <1>4, <1>5, <1>6

\* A pressed Start or Stop never hangs on the joins of the three threads.
THEOREM StopsNeverStick == Spec => []StopNeverStuck
<1>1. IInv /\ JoinInv => StopNeverStuck
  BY SomeoneMoves DEF IInv
<1> QED
  BY <1>1, Invariance, JoinInvariance, PTL
=============================================================================
