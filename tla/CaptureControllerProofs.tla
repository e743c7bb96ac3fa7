----------------------- MODULE CaptureControllerProofs -----------------------
(***************************************************************************)
(* Proofs about CaptureController, for any number of calls, faults, losses *)
(* and changes of the source: however starting, stopping, reconfiguring    *)
(* and recovering overlap, a capture that is over leaves nothing behind.   *)
(***************************************************************************)
EXTENDS CaptureController, WellFoundedInduction, TLAPS

CallState ==
  [at : {"none", "begin", "cancel", "loop", "flush", "drain", "recovery"},
   encoder : Nat, connection : Nat, waits : BOOLEAN, for : {"none", "worker", "start"}]

RecoveryState == [at : {"none", "delay", "connect"}, connection : Nat, aborted : BOOLEAN]

Page ==
  [alive : BOOLEAN, running : BOOLEAN, stopping : BOOLEAN, reconfiguring : BOOLEAN,
   trusted : BOOLEAN,
   stream : {"none", "live", "ending", "ended"},
   reader : BOOLEAN,
   encoder : Nat,
   encoders : SUBSET Nat,
   connection : Nat,
   opening : SUBSET Nat, open : SUBSET Nat,
   promise : BOOLEAN,
   recovery : RecoveryState,
   startup : {"none", "media", "first", "encoder", "connect", "catch"},
   loop : {"none", "read", "allocate", "close", "create", "connect", "report"},
   made : Nat,
   calls : [0..MaxCalls -> CallState]]

\* The last word of a capture, and the messages that stopCapture follows.
EndReports == {"ended", "loopEnded", "failed", "loopFailed"}

Acknowledged == {"ended", "loopEnded", "loopFailed"}

StartAnswers == {"started", "startFailed"}

Reports == EndReports \cup StartAnswers \cup {"stopped"}

TypeInv ==
  /\ mode \in {"idle", "starting", "capturing", "stopping", "stopped", "error"}
  /\ starting \in {"none", "ensure", "send", "wait"}
  /\ stopper \in {"none", "pressed", "send", "wait", "close", "finish"}
  /\ closing \in Nat
  /\ reports \in Seq(Reports)
  /\ page \in Page
  /\ sources \in 0..MaxSources

InReports(messages) == \E n \in 1..Len(reports) : reports[n] \in messages

\* A call of the service worker's, or a call of stopCapture there.
Is(positions) == \E i \in Calls : page.calls[i].at \in positions

\* The worker: who waits for what, and when a document may be there.
WorkerInv ==
  /\ stopper # "none" => starting = "none"
  /\ starting # "none" => mode # "capturing"
  /\ mode = "capturing" => closing = 0 /\ stopper \in {"none", "pressed"}
  /\ stopper = "finish" => ~page.alive
  /\ starting \in {"ensure", "send"} => closing = 0 /\ reports = <<>>
  /\ starting = "ensure" => ~page.alive
  /\ starting = "send" => page = Document
  /\ page.alive /\ starting = "none" /\ mode \in {"idle", "stopped", "error"} => closing > 0
  /\ ~page.alive => page = NoDocument

\* STOP_CAPTURE is answered once.
StopInv ==
  /\ \A i \in Calls : page.calls[i].for = "worker" => stopper = "wait"
  /\ \A i, j \in Calls :
       page.calls[i].for = "worker" /\ page.calls[j].for = "worker" => i = j
  /\ \A n \in 1..Len(reports) : reports[n] = "stopped" =>
       /\ stopper = "wait"
       /\ \A i \in Calls : page.calls[i].for # "worker"
       /\ \A m \in 1..Len(reports) : reports[m] = "stopped" => m = n

\* START_CAPTURE is answered once, and before anything else is reported.
StartInv ==
  /\ page.startup # "none" => starting = "wait"
  /\ \A i \in Calls : page.calls[i].for = "start" => page.startup = "catch"
  /\ \A i, j \in Calls :
       page.calls[i].for = "start" /\ page.calls[j].for = "start" => i = j
  /\ \A n \in 1..Len(reports) : reports[n] \in StartAnswers =>
       /\ starting = "wait"
       /\ page.startup = "none"
       /\ \A m \in 1..Len(reports) : reports[m] \in StartAnswers => m = n
       /\ reports[n] = "started" => n = 1 /\ closing = 0
  /\ mode = "capturing" \/ InReports({"started"}) => page.running \/ InReports(EndReports)

\* Calls that have returned, and the one that is a step of the frame loop, whose
\* end is reported once.
CallInv ==
  /\ \A i \in Calls : page.calls[i].at = "none" => page.calls[i] = Idle
  /\ page.calls[0].for = "none"
  /\ page.calls[0].at \in {"none", "drain", "recovery"}
  /\ page.calls[0].at # "none" <=> page.loop = "close"
  /\ page.loop # "none" => page.startup = "none"
  /\ page.loop = "report" <=> page.alive /\ InReports({"loopFailed", "loopEnded"})
  /\ \A m, n \in 1..Len(reports) :
       reports[m] \in {"loopFailed", "loopEnded"} /\ reports[n] \in {"loopFailed", "loopEnded"}
       => m = n

\* Encoders and connections have numbers up to made.
NumberInv ==
  /\ page.made <= 2 * sources + 2
  /\ page.loop \in {"allocate", "close", "create"} => page.made <= 2 * sources
  /\ page.encoder <= page.made
  /\ page.connection <= page.made
  /\ page.recovery.connection <= page.made
  /\ \A n \in page.encoders : 0 < n /\ n <= page.made
  /\ \A n \in page.opening : 0 < n /\ n <= page.made
  /\ \A n \in page.open : 0 < n /\ n <= page.made
  /\ \A i \in 0..MaxCalls : page.calls[i].connection <= page.made

\* A capture that starts: nothing is there before it is made, and nothing that
\* was reported will be forgotten.
StartupInv ==
  /\ page.startup \in {"media", "first", "encoder"} =>
       /\ page.made = 0
       /\ page.encoder = 0 /\ page.connection = 0
       /\ page.encoders = {} /\ page.opening = {} /\ page.open = {}
       /\ ~Is({"flush", "drain", "recovery"})
  /\ page.startup # "none" =>
       page.recovery.at = "none" /\ ~page.promise /\ ~page.reconfiguring
  /\ page.startup = "media" =>
       /\ page.stream = "none" /\ ~page.reader
       /\ \A i \in Calls : page.calls[i].at = "none"
  /\ \/ page.startup = "media"
     \/ page.startup \in {"first", "encoder", "connect"} /\ page.stream \in {"live", "ending"}
     => /\ ~page.stopping
        /\ \A i \in Calls : page.calls[i].at \in {"none", "begin"}
        /\ page.startup # "connect" => \A i \in Calls : page.calls[i].at = "none"
        /\ (\A i \in Calls : page.calls[i].at = "none") => closing = 0 /\ reports = <<>>
  /\ page.startup \in {"encoder", "connect"} => ~page.reader

\* A capture that runs.
RunInv ==
  page.running =>
    /\ page.startup = "none"
    /\ page.stream \in {"live", "ending"}
    /\ ~page.stopping
    /\ ~InReports(EndReports)
    /\ page.loop \in {"read", "allocate", "close", "create", "connect"}
    /\ page.reconfiguring = (page.loop # "read")
    /\ page.loop # "create" => page.connection # 0
    /\ page.loop \in {"close", "create", "connect"} => ~page.promise
    /\ page.promise => page.connection \notin page.open
    /\ page.recovery.at # "none" =>
          IF page.recovery.aborted
            THEN page.loop = "close" /\ page.calls[0].waits
            ELSE page.promise /\ page.recovery.connection = page.connection
    /\ page.promise => page.recovery.at # "none" /\ ~page.recovery.aborted
    /\ page.connection \in page.open \/ page.reconfiguring \/ page.promise
    /\ \A i \in Calls :
         \/ page.calls[i].at = "none"
         \/ page.calls[i].at = "begin" /\ page.calls[i].for = "worker"

\* A capture that runs or starts, or that a call of stopCapture will end.
ToCome == page.running \/ page.startup # "none" \/ InReports(Acknowledged)

\* What stopCapture has done so far: the stream and the frame loop.
StreamInv ==
  /\ page.stream # "none" \/ page.reader => ToCome \/ Is({"begin", "cancel"})
  /\ Is({"loop", "flush", "drain", "recovery"}) => page.stream = "none"
  /\ Is({"cancel", "loop", "flush", "drain", "recovery"}) => ~page.reader
  /\ page.loop \notin {"none", "report"} /\ page.stream = "none" => Is({"loop"})
  /\ Is({"flush", "drain", "recovery"}) => page.loop = "none"

\* The encoder.
EncoderInv ==
  /\ page.encoder # 0 => ToCome \/ Is({"begin", "cancel", "loop"})
  /\ \A i \in Calls : /\ page.calls[i].at \in {"flush", "drain", "recovery"}
                      /\ page.startup = "none" \/ page.calls[i].for = "start"
                      => page.encoder = 0
  /\ \A n \in page.encoders :
       \/ n = page.encoder
       \/ \E i \in Calls : page.calls[i].at = "flush" /\ page.calls[i].encoder = n
  /\ page.loop = "create" => page.encoder = 0

\* The connection and its recovery.
ConnectionInv ==
  /\ page.connection # 0 => ToCome \/ \E i \in Calls : page.calls[i].at # "none"
  /\ \A n \in page.opening \cup page.open :
       \/ n = page.connection
       \/ \E i \in 0..MaxCalls : page.calls[i].at = "drain" /\ page.calls[i].connection = n
  /\ \A i \in 0..MaxCalls :
       page.calls[i].at \in {"drain", "recovery"} =>
         ~page.promise /\ page.connection \in {0, page.calls[i].connection}
  /\ \A i \in 0..MaxCalls :
       page.calls[i].at = "recovery" =>
         page.calls[i].connection \notin page.opening \cup page.open
  /\ page.recovery.at # "none" =>
       \/ page.promise /\ page.connection # 0
       \/ \E i \in 0..MaxCalls :
            page.calls[i].at \in {"drain", "recovery"} /\ page.calls[i].waits
  /\ page.loop \in {"create", "connect"} => page.recovery.at = "none" /\ ~page.promise
  /\ page.loop = "create" => page.connection = 0
  /\ page.promise => page.connection # 0

IInv ==
  /\ TypeInv
  /\ WorkerInv
  /\ StopInv
  /\ StartInv
  /\ CallInv
  /\ NumberInv
  /\ StartupInv
  /\ RunInv
  /\ StreamInv
  /\ EncoderInv
  /\ ConnectionInv


-----------------------------------------------------------------------------
(* What the operators of the model do.                                     *)

\* Calls of stopCapture, and the one that is a step of a reconfiguration.
LEMMA CallNumbers ==
  /\ 0 \in 0..MaxCalls /\ 0 \notin Calls
  /\ \A i \in Calls : i \in 0..MaxCalls
  /\ \A i \in 0..MaxCalls : i = 0 \/ i \in Calls
  BY BoundsAssumption DEF Calls

\* A set of naturals has a least element.
LEMMA Least ==
  ASSUME NEW S \in SUBSET Nat, S # {}
  PROVE  \E m \in S : \A n \in S : m <= n
<1> DEFINE less == OpToRel(<, Nat)
<1>1. IsWellFoundedOn(less, Nat)
  BY NatLessThanWellFounded
<1>2. \A x, y \in Nat : x < y => <<x, y>> \in less
  BY DEF OpToRel
<1> HIDE DEF less
<1>3. PICK m \in S : \A n \in S : ~(<<n, m>> \in less)
  BY <1>1, WFMin
<1>4. \A n \in S : n \in Nat
  OBVIOUS
<1>5. ASSUME NEW n \in S PROVE m <= n
  <2>1. ~(n < m)
    BY <1>2, <1>3, <1>4, Zenon
  <2> QED
    BY <1>4, <2>1
<1> QED
  BY <1>5

\* A call of stopCapture takes a place that is free.
LEMMA CallTaken ==
  ASSUME NEW p \in Page, NEW for \in {"none", "worker", "start"},
         \E i \in Calls : p.calls[i].at = "none"
  PROVE  \E k \in Calls :
           /\ p.calls[k].at = "none"
           /\ Call(p, for) = [p EXCEPT !.calls[k] = [Idle EXCEPT !.at = "begin", !.for = for]]
<1> DEFINE free == {i \in Calls : p.calls[i].at = "none"}
           k == CHOOSE i \in free : \A j \in free : i <= j
<1>1. \E i \in free : \A j \in free : i <= j
  <2>1. free \in SUBSET Nat /\ free # {}
    BY BoundsAssumption DEF Calls
  <2> HIDE DEF free
  <2> QED
    BY <2>1, Least
<1>2. k \in free /\ free # {}
  BY <1>1
<1> QED
  BY <1>2, Zenon DEF Call

\* Abort changes the recovery only.
LEMMA RecoveryAborted ==
  ASSUME NEW p \in Page
  PROVE  \E r \in RecoveryState :
           /\ Abort(p) = [p EXCEPT !.recovery = r]
           /\ r.at = p.recovery.at /\ r.connection = p.recovery.connection
           /\ r.at # "none" => r.aborted
<1>1. p.recovery \in RecoveryState /\ p = [p EXCEPT !.recovery = p.recovery]
  BY DEF Page
<1>2. CASE p.recovery.at = "none"
  BY <1>1, <1>2 DEF Abort
<1>3. CASE p.recovery.at # "none"
  <2> DEFINE r == [p.recovery EXCEPT !.aborted = TRUE]
  <2>1. r \in RecoveryState /\ r.at = p.recovery.at /\ r.connection = p.recovery.connection
        /\ r.aborted
    BY <1>1 DEF RecoveryState
  <2>2. Abort(p) = [p EXCEPT !.recovery = r]
    BY <1>3 DEF Abort, Page
  <2> HIDE DEF r
  <2> QED
    BY <2>1, <2>2
<1> QED
  BY <1>2, <1>3

\* A message is sent to the service worker.
LEMMA Appended ==
  ASSUME TypeInv, NEW message \in Reports, reports' = Append(reports, message)
  PROVE  /\ Len(reports) \in Nat /\ Len(reports') = Len(reports) + 1
         /\ reports' \in Seq(Reports)
         /\ \A n \in 1..Len(reports) : reports'[n] = reports[n] /\ n \in 1..Len(reports')
         /\ reports'[Len(reports) + 1] = message /\ Len(reports) + 1 \in 1..Len(reports')
         /\ \A n \in 1..Len(reports') : n \in 1..Len(reports) \/ n = Len(reports) + 1
  BY DEF TypeInv

\* And what is reported then.
LEMMA Reported ==
  ASSUME TypeInv, NEW message \in Reports, reports' = Append(reports, message), NEW messages
  PROVE  InReports(messages)' <=> InReports(messages) \/ message \in messages
<1>1. /\ Len(reports) \in Nat
      /\ \A n \in 1..Len(reports) : reports'[n] = reports[n] /\ n \in 1..Len(reports')
      /\ reports'[Len(reports) + 1] = message /\ Len(reports) + 1 \in 1..Len(reports')
      /\ \A n \in 1..Len(reports') : n \in 1..Len(reports) \/ n = Len(reports) + 1
  BY Appended
<1> QED
  BY <1>1 DEF InReports

\* The service worker takes one.
LEMMA TakenUp ==
  ASSUME TypeInv, reports # <<>>, reports' = Tail(reports)
  PROVE  /\ Len(reports) \in Nat /\ Len(reports') = Len(reports) - 1
         /\ reports' \in Seq(Reports)
         /\ 1 \in 1..Len(reports) /\ reports[1] = Head(reports)
         /\ \A n \in 1..Len(reports') : reports'[n] = reports[n + 1] /\ n + 1 \in 1..Len(reports)
         /\ \A n \in 1..Len(reports) :
              n # 1 => n - 1 \in 1..Len(reports') /\ reports[n] = reports'[n - 1]
<1>1. /\ Len(reports) \in Nat /\ Len(reports') = Len(reports) - 1
      /\ reports' \in Seq(Reports)
      /\ 1 \in 1..Len(reports) /\ reports[1] = Head(reports)
  BY DEF TypeInv
<1>2. \A n \in 1..Len(reports') : reports'[n] = reports[n + 1] /\ n + 1 \in 1..Len(reports)
  BY <1>1 DEF TypeInv
<1>3. ASSUME NEW n \in 1..Len(reports), n # 1
      PROVE  n - 1 \in 1..Len(reports') /\ reports[n] = reports'[n - 1]
  <2>1. n - 1 \in 1..Len(reports') /\ (n - 1) + 1 = n
    BY <1>1, <1>3
  <2> QED
    BY <1>2, <2>1
<1> QED
  BY <1>1, <1>2, <1>3

\* None were sent.
LEMMA NothingReported ==
  ASSUME reports = <<>>
  PROVE  \A messages : ~InReports(messages)
  BY DEF InReports

\* A call of stopCapture comes to its next await.
LEMMA CallMoved ==
  ASSUME NEW c \in CallState,
         NEW position \in {"none", "begin", "cancel", "loop", "flush", "drain", "recovery"}
  PROVE  \E d \in CallState :
           /\ d = [c EXCEPT !.at = position]
           /\ d.at = position
           /\ d.encoder = c.encoder /\ d.connection = c.connection
           /\ d.waits = c.waits /\ d.for = c.for
<1> DEFINE d == [c EXCEPT !.at = position]
<1>1. d \in CallState /\ d.at = position
      /\ d.encoder = c.encoder /\ d.connection = c.connection
      /\ d.waits = c.waits /\ d.for = c.for
  BY DEF CallState
<1> HIDE DEF d
<1>2. \E e \in CallState : e = d
  BY <1>1
<1> QED
  BY <1>1, <1>2, Zenon DEF d

\* The recovery, too.
LEMMA RecoveryMoved ==
  ASSUME NEW c \in RecoveryState, NEW position \in {"none", "delay", "connect"}
  PROVE  \E d \in RecoveryState :
           /\ d = [c EXCEPT !.at = position]
           /\ d.at = position /\ d.connection = c.connection /\ d.aborted = c.aborted
<1> DEFINE d == [c EXCEPT !.at = position]
<1>1. d \in RecoveryState /\ d.at = position
      /\ d.connection = c.connection /\ d.aborted = c.aborted
  BY DEF RecoveryState
<1> HIDE DEF d
<1> QED
  BY <1>1, Zenon DEF d

\* The types of a document, and of its calls.
LEMMA PageTypes ==
  ASSUME IInv
  PROVE  /\ page \in Page
         /\ page.recovery \in RecoveryState
         /\ \A i \in 0..MaxCalls : page.calls[i] \in CallState
  BY DEF IInv, TypeInv, Page

\* A document in which nothing was started yet, and one that is closed.
LEMMA NewDocument ==
  ASSUME IInv, ~page.alive \/ starting \in {"ensure", "send"}
  PROVE  /\ ~page.running /\ ~page.stopping /\ ~page.reader /\ ~page.promise
         /\ page.stream = "none" /\ page.startup = "none" /\ page.loop = "none"
         /\ page.encoder = 0 /\ page.connection = 0 /\ page.made = 0
         /\ page.encoders = {} /\ page.opening = {} /\ page.open = {}
         /\ page.recovery = NotRecovering
         /\ \A i \in 0..MaxCalls : page.calls[i] = Idle
<1>1. page = NoDocument \/ page = Document
  BY DEF IInv, TypeInv, WorkerInv
<1>2. NoDocument.calls = [i \in 0..MaxCalls |-> Idle]
      /\ Document.calls = [i \in 0..MaxCalls |-> Idle]
  BY Zenon DEF NoDocument, Document
<1>3. \A i \in 0..MaxCalls : page.calls[i] = Idle
  BY <1>1, <1>2
<1>4. CASE page = NoDocument
  BY <1>3, <1>4 DEF NoDocument
<1>5. CASE page = Document
  BY <1>3, <1>5 DEF NoDocument, Document
<1> QED
  BY <1>1, <1>4, <1>5


\* The same document, as far as encoders and connections are not concerned.
Otherwise(p, q) ==
  /\ q.alive = p.alive /\ q.running = p.running /\ q.stopping = p.stopping
  /\ q.reconfiguring = p.reconfiguring /\ q.trusted = p.trusted
  /\ q.stream = p.stream /\ q.reader = p.reader
  /\ q.promise = p.promise /\ q.recovery = p.recovery
  /\ q.startup = p.startup /\ q.loop = p.loop /\ q.calls = p.calls

\* An encoder is made.
LEMMA EncoderOf ==
  ASSUME NEW p \in Page
  PROVE  /\ MakeEncoder(p) \in Page /\ Otherwise(p, MakeEncoder(p))
         /\ MakeEncoder(p).encoder = p.made + 1
         /\ MakeEncoder(p).encoders = p.encoders \cup {p.made + 1}
         /\ MakeEncoder(p).made = p.made + 1
         /\ MakeEncoder(p).connection = p.connection
         /\ MakeEncoder(p).opening = p.opening /\ MakeEncoder(p).open = p.open
<1>1. p.made + 1 \in Nat /\ p.encoders \cup {p.made + 1} \in SUBSET Nat
  BY DEF Page
<1> DEFINE n == p.made + 1
           e == p.encoders \cup {p.made + 1}
<1>2. MakeEncoder(p) = [p EXCEPT !.encoder = n, !.encoders = e, !.made = n]
  BY DEF MakeEncoder, Page
<1>3. n \in Nat /\ e \in SUBSET Nat
  BY <1>1
<1> HIDE DEF n, e
<1>4. /\ MakeEncoder(p) \in Page /\ Otherwise(p, MakeEncoder(p))
      /\ MakeEncoder(p).encoder = n /\ MakeEncoder(p).encoders = e
      /\ MakeEncoder(p).made = n /\ MakeEncoder(p).connection = p.connection
      /\ MakeEncoder(p).opening = p.opening /\ MakeEncoder(p).open = p.open
  BY <1>2, <1>3, ZenonT(40) DEF Page, Otherwise
<1> QED
  BY <1>4, Zenon DEF n, e

\* A connection is made, and begins to open.
LEMMA ConnectionOf ==
  ASSUME NEW p \in Page
  PROVE  /\ MakeConnection(p) \in Page /\ Otherwise(p, MakeConnection(p))
         /\ MakeConnection(p).connection = p.made + 1
         /\ MakeConnection(p).opening = p.opening \cup {p.made + 1}
         /\ MakeConnection(p).made = p.made + 1
         /\ MakeConnection(p).encoder = p.encoder
         /\ MakeConnection(p).encoders = p.encoders /\ MakeConnection(p).open = p.open
<1>1. p.made + 1 \in Nat /\ p.opening \cup {p.made + 1} \in SUBSET Nat
  BY DEF Page
<1> DEFINE n == p.made + 1
           o == p.opening \cup {p.made + 1}
<1>2. MakeConnection(p) = [p EXCEPT !.connection = n, !.opening = o, !.made = n]
  BY DEF MakeConnection, Page
<1>3. n \in Nat /\ o \in SUBSET Nat
  BY <1>1
<1> HIDE DEF n, o
<1>4. /\ MakeConnection(p) \in Page /\ Otherwise(p, MakeConnection(p))
      /\ MakeConnection(p).connection = n /\ MakeConnection(p).opening = o
      /\ MakeConnection(p).made = n /\ MakeConnection(p).encoder = p.encoder
      /\ MakeConnection(p).encoders = p.encoders /\ MakeConnection(p).open = p.open
  BY <1>2, <1>3, ZenonT(40) DEF Page, Otherwise
<1> QED
  BY <1>4, Zenon DEF n, o

\* Both.
LEMMA BothOf ==
  ASSUME NEW p \in Page
  PROVE  \E q \in Page :
           /\ q = MakeConnection(MakeEncoder(p)) /\ Otherwise(p, q)
           /\ q.encoder = p.made + 1 /\ q.encoders = p.encoders \cup {p.made + 1}
           /\ q.connection = p.made + 2 /\ q.opening = p.opening \cup {p.made + 2}
           /\ q.made = p.made + 2 /\ q.open = p.open
<1>1. PICK e \in Page :
        /\ e = MakeEncoder(p) /\ Otherwise(p, e)
        /\ e.encoder = p.made + 1 /\ e.encoders = p.encoders \cup {p.made + 1}
        /\ e.made = p.made + 1 /\ e.connection = p.connection
        /\ e.opening = p.opening /\ e.open = p.open
  BY EncoderOf, Zenon
<1>2. PICK q \in Page :
        /\ q = MakeConnection(e) /\ Otherwise(e, q)
        /\ q.connection = e.made + 1 /\ q.opening = e.opening \cup {e.made + 1}
        /\ q.made = e.made + 1 /\ q.encoder = e.encoder
        /\ q.encoders = e.encoders /\ q.open = e.open
  BY ConnectionOf, Zenon
<1>3. e.made + 1 = p.made + 2
  <2>1. p.made \in Nat
    BY DEF Page
  <2> QED
    BY <1>1, <2>1
<1>4. /\ q.encoder = p.made + 1 /\ q.encoders = p.encoders \cup {p.made + 1}
      /\ q.connection = p.made + 2 /\ q.opening = p.opening \cup {p.made + 2}
      /\ q.made = p.made + 2 /\ q.open = p.open
  BY <1>1, <1>2, <1>3, Zenon
<1>5. q = MakeConnection(MakeEncoder(p)) /\ Otherwise(p, q)
  BY <1>1, <1>2, Zenon DEF Otherwise
<1> QED
  BY <1>4, <1>5, Zenon

\* The same document, but for the calls of stopCapture.
Apart(p, q) ==
  /\ q.alive = p.alive /\ q.running = p.running /\ q.stopping = p.stopping
  /\ q.reconfiguring = p.reconfiguring /\ q.trusted = p.trusted
  /\ q.stream = p.stream /\ q.reader = p.reader
  /\ q.encoder = p.encoder /\ q.encoders = p.encoders
  /\ q.connection = p.connection /\ q.opening = p.opening /\ q.open = p.open
  /\ q.promise = p.promise /\ q.recovery = p.recovery
  /\ q.startup = p.startup /\ q.loop = p.loop /\ q.made = p.made

\* What Call makes of a document that has a place for it.
LEMMA Begins ==
  ASSUME NEW p \in Page, NEW for \in {"none", "worker", "start"},
         \E i \in Calls : p.calls[i].at = "none"
  PROVE  \E k \in Calls : \E q \in Page :
           /\ q = Call(p, for) /\ Apart(p, q)
           /\ p.calls[k].at = "none"
           /\ q.calls[k].at = "begin" /\ q.calls[k].for = for
           /\ q.calls[k].encoder = 0 /\ q.calls[k].connection = 0 /\ q.calls[k].waits = FALSE
           /\ \A j \in 0..MaxCalls : j # k => q.calls[j] = p.calls[j]
<1> DEFINE c == [Idle EXCEPT !.at = "begin", !.for = for]
<1>1. PICK k \in Calls : /\ p.calls[k].at = "none"
                         /\ Call(p, for) = [p EXCEPT !.calls[k] = c]
  BY CallTaken
<1>2. c \in CallState /\ c.at = "begin" /\ c.for = for
      /\ c.encoder = 0 /\ c.connection = 0 /\ c.waits = FALSE
  BY DEF CallState, Idle
<1> HIDE DEF c
<1> DEFINE q == [p EXCEPT !.calls[k] = c]
<1>3. k \in 0..MaxCalls
  BY CallNumbers
<1>4. q \in Page /\ Apart(p, q) /\ q.calls[k] = c
      /\ \A j \in 0..MaxCalls : j # k => q.calls[j] = p.calls[j]
  BY <1>2, <1>3 DEF Page, Apart
<1>5. q = Call(p, for)
  BY <1>1
<1> HIDE DEF q
<1> QED
  BY <1>1, <1>2, <1>4, <1>5

-----------------------------------------------------------------------------
(* What a step does to a document, and that the invariant survives it.     *)

\* The recovery tries to connect.
LEMMA AttemptKept ==
  ASSUME IInv, AttemptRecovery
  PROVE  IInv'
<1> DEFINE r == [page.recovery EXCEPT !.at = "connect"]
<1>1. /\ page \in Page /\ page.recovery \in RecoveryState
  BY PageTypes, CallNumbers
<1>2. /\ r \in RecoveryState /\ r.at = "connect"
      /\ r.connection = page.recovery.connection /\ r.aborted = page.recovery.aborted
  BY <1>1 DEF RecoveryState
<1>3. page' = [page EXCEPT !.recovery = r,
                   !.opening = @ \cup {page.recovery.connection}]
  BY <1>1 DEF AttemptRecovery
<1> HIDE DEF r
<1>4. /\ page' \in Page
      /\ page'.recovery.at = "connect"
      /\ page'.recovery.connection = page.recovery.connection
      /\ page'.recovery.aborted = page.recovery.aborted
      /\ page'.opening = page.opening \cup {page.recovery.connection}
      /\ UNCHANGED <<page.alive, page.running, page.stopping, page.reconfiguring,
                      page.trusted, page.stream, page.reader, page.encoder,
                      page.encoders, page.connection, page.open, page.promise,
                      page.startup, page.loop, page.made, page.calls>>
  BY <1>1, <1>2, <1>3 DEF Page, RecoveryState
<1>5. /\ page.recovery.at = "delay" /\ ~page.recovery.aborted
      /\ page.running /\ page.alive
      /\ UNCHANGED <<mode, starting, stopper, closing, reports, sources>>
  BY DEF AttemptRecovery, NoMicrotask, workerVars, bounds, ShouldContinue
<1>6. starting \notin {"ensure", "send"}
  BY <1>5, CallNumbers, NewDocument DEF Idle, NotRecovering
<1>7. TypeInv'
  BY <1>4, <1>5, <1>6, CallNumbers DEF IInv, TypeInv
<1>8. WorkerInv'
  BY <1>4, <1>5, <1>6, CallNumbers DEF IInv, WorkerInv
<1>9. StopInv'
  BY <1>4, <1>5, <1>6, CallNumbers DEF IInv, StopInv
<1>10. StartInv'
  BY <1>4, <1>5, <1>6, CallNumbers DEF IInv, StartInv, InReports
<1>11. CallInv'
  BY <1>4, <1>5, <1>6, CallNumbers DEF IInv, CallInv, InReports
<1>12. NumberInv'
  <2>1. page.recovery.connection = page.connection /\ page.connection # 0
        /\ page.connection \in Nat
    BY <1>1, <1>5, CallNumbers DEF IInv, RunInv, ConnectionInv, Page
  <2> QED
    BY <1>4, <1>5, <2>1 DEF IInv, NumberInv
<1>13. StartupInv'
  BY <1>4, <1>5, <1>6, CallNumbers DEF IInv, StartupInv, Is
<1>14. RunInv'
  BY <1>4, <1>5, <1>6, CallNumbers DEF IInv, RunInv, InReports
<1>15. StreamInv'
  BY <1>4, <1>5, <1>6, CallNumbers DEF IInv, StreamInv, ToCome, Is, InReports
<1>16. EncoderInv'
  BY <1>4, <1>5, <1>6, CallNumbers DEF IInv, EncoderInv, ToCome, Is, InReports
<1>17. ConnectionInv'
  BY <1>4, <1>5, <1>6, CallNumbers DEF IInv, ConnectionInv, ToCome, InReports, CallInv, RunInv,
     StartupInv, StreamInv, Is
<1> QED
  BY <1>7, <1>8, <1>9, <1>10, <1>11, <1>12, <1>13, <1>14, <1>15, <1>16, <1>17 DEF IInv

\* The reader is cancelled, and the tracks are stopped.
LEMMA CancelReaderKept ==
  ASSUME IInv, NEW i \in Calls, CancelReader(i)
  PROVE  IInv'
<1> DEFINE c == [page.calls[i] EXCEPT !.at = "loop"]
<1>1. /\ page \in Page /\ page.recovery \in RecoveryState
      /\ page.calls[i] \in CallState /\ i \in 0..MaxCalls
  BY PageTypes, CallNumbers
<1>2. /\ c \in CallState /\ c.at = "loop" /\ c.for = page.calls[i].for
      /\ c.encoder = page.calls[i].encoder /\ c.connection = page.calls[i].connection
      /\ c.waits = page.calls[i].waits
  BY <1>1 DEF CallState
<1>3. page' = [page EXCEPT !.stream = "none", !.calls[i] = c]
  BY <1>1 DEF CancelReader, StopTracks
<1> HIDE DEF c
<1>4. /\ page' \in Page
      /\ page'.stream = "none"
      /\ page'.calls[i].at = "loop"
      /\ page'.calls[i].encoder = page.calls[i].encoder
      /\ page'.calls[i].connection = page.calls[i].connection
      /\ page'.calls[i].waits = page.calls[i].waits
      /\ page'.calls[i].for = page.calls[i].for
      /\ \A j \in 0..MaxCalls : j # i => page'.calls[j] = page.calls[j]
      /\ UNCHANGED <<page.alive, page.running, page.stopping, page.reconfiguring,
                      page.trusted, page.reader, page.encoder, page.encoders,
                      page.connection, page.opening, page.open, page.promise,
                      page.recovery, page.startup, page.loop, page.made>>
  BY <1>1, <1>2, <1>3 DEF Page
<1>5. /\ page.calls[i].at = "cancel" /\ page.alive
      /\ UNCHANGED <<mode, starting, stopper, closing, reports, sources>>
  BY DEF CancelReader, NoMicrotask, workerVars, bounds
<1>6. starting \notin {"ensure", "send"}
  BY <1>5, CallNumbers, NewDocument DEF Idle, NotRecovering
<1>7. TypeInv'
  BY <1>4, <1>5, <1>6, CallNumbers DEF IInv, TypeInv
<1>8. WorkerInv'
  BY <1>4, <1>5, <1>6, CallNumbers DEF IInv, WorkerInv
<1>9. StopInv'
  BY <1>4, <1>5, <1>6, CallNumbers DEF IInv, StopInv
<1>10. StartInv'
  BY <1>4, <1>5, <1>6, CallNumbers DEF IInv, StartInv, InReports
<1>11. CallInv'
  BY <1>4, <1>5, <1>6, CallNumbers DEF IInv, CallInv, InReports
<1>12. NumberInv'
  BY <1>4, <1>5, <1>6, CallNumbers DEF IInv, NumberInv
<1>13. StartupInv'
  BY <1>4, <1>5, <1>6, CallNumbers DEF IInv, StartupInv, Is
<1>14. RunInv'
  BY <1>4, <1>5, <1>6, CallNumbers DEF IInv, RunInv, InReports
<1>15. StreamInv'
  BY <1>4, <1>5, <1>6, CallNumbers DEF IInv, StreamInv, ToCome, Is, InReports
<1>16. EncoderInv'
  BY <1>4, <1>5, <1>6, CallNumbers DEF IInv, EncoderInv, ToCome, Is, InReports
<1>17. ConnectionInv'
  BY <1>4, <1>5, <1>6, CallNumbers DEF IInv, ConnectionInv, ToCome, InReports
<1> QED
  BY <1>7, <1>8, <1>9, <1>10, <1>11, <1>12, <1>13, <1>14, <1>15, <1>16, <1>17 DEF IInv

\* A call of stopCapture closes the connection.
LEMMA CloseConnectionKept ==
  ASSUME IInv, NEW i \in 0..MaxCalls, CloseConnection(i)
  PROVE  IInv'
<1> DEFINE c == [page.calls[i] EXCEPT !.at = "recovery"]
<1>1. /\ page \in Page /\ page.recovery \in RecoveryState
      /\ page.calls[i] \in CallState /\ i \in 0..MaxCalls
  BY PageTypes, CallNumbers
<1>2. /\ c \in CallState /\ c.at = "recovery" /\ c.for = page.calls[i].for
      /\ c.encoder = page.calls[i].encoder /\ c.connection = page.calls[i].connection
      /\ c.waits = page.calls[i].waits
  BY <1>1 DEF CallState
<1>3. page' = [page EXCEPT !.opening = @ \ {page.calls[i].connection},
                   !.open = @ \ {page.calls[i].connection},
                   !.calls[i] = c]
  BY <1>1 DEF CloseConnection, WithoutSocket
<1> HIDE DEF c
<1>4. /\ page' \in Page
      /\ page'.opening = page.opening \ {page.calls[i].connection}
      /\ page'.open = page.open \ {page.calls[i].connection}
      /\ page'.calls[i].at = "recovery"
      /\ page'.calls[i].encoder = page.calls[i].encoder
      /\ page'.calls[i].connection = page.calls[i].connection
      /\ page'.calls[i].waits = page.calls[i].waits
      /\ page'.calls[i].for = page.calls[i].for
      /\ \A j \in 0..MaxCalls : j # i => page'.calls[j] = page.calls[j]
      /\ UNCHANGED <<page.alive, page.running, page.stopping, page.reconfiguring,
                      page.trusted, page.stream, page.reader, page.encoder,
                      page.encoders, page.connection, page.promise, page.recovery,
                      page.startup, page.loop, page.made>>
  BY <1>1, <1>2, <1>3 DEF Page
<1>5. /\ page.calls[i].at = "drain" /\ page.alive
      /\ UNCHANGED <<mode, starting, stopper, closing, reports, sources>>
  BY DEF CloseConnection, NoMicrotask, workerVars, bounds
<1>6. starting \notin {"ensure", "send"}
  BY <1>5, CallNumbers, NewDocument DEF Idle, NotRecovering
<1>7. TypeInv'
  BY <1>4, <1>5, <1>6, CallNumbers DEF IInv, TypeInv
<1>8. WorkerInv'
  BY <1>4, <1>5, <1>6, CallNumbers DEF IInv, WorkerInv
<1>9. StopInv'
  BY <1>4, <1>5, <1>6, CallNumbers DEF IInv, StopInv
<1>10. StartInv'
  BY <1>4, <1>5, <1>6, CallNumbers DEF IInv, StartInv, InReports
<1>11. CallInv'
  BY <1>4, <1>5, <1>6, CallNumbers DEF IInv, CallInv, InReports
<1>12. NumberInv'
  BY <1>4, <1>5, <1>6, CallNumbers DEF IInv, NumberInv
<1>13. StartupInv'
  BY <1>4, <1>5, <1>6, CallNumbers DEF IInv, StartupInv, Is
<1>14. RunInv'
  BY <1>4, <1>5, <1>6, CallNumbers DEF IInv, RunInv, InReports, CallInv, StartupInv, StreamInv,
     ConnectionInv, Is, TypeInv, Page
<1>15. StreamInv'
  BY <1>4, <1>5, <1>6, CallNumbers DEF IInv, StreamInv, ToCome, Is, InReports
<1>16. EncoderInv'
  BY <1>4, <1>5, <1>6, CallNumbers DEF IInv, EncoderInv, ToCome, Is, InReports
<1>17. ConnectionInv'
  BY <1>4, <1>5, <1>6, CallNumbers, SMTT(30) DEF IInv, ConnectionInv, ToCome, InReports
<1> QED
  BY <1>7, <1>8, <1>9, <1>10, <1>11, <1>12, <1>13, <1>14, <1>15, <1>16, <1>17 DEF IInv

\* The track ends.
LEMMA TrackEndsKept ==
  ASSUME IInv, TrackEnds
  PROVE  IInv'
<1>1. /\ page \in Page /\ page.recovery \in RecoveryState
  BY PageTypes, CallNumbers
<1>2. page' = [page EXCEPT !.stream = "ending"]
  BY DEF TrackEnds
<1>3. /\ page' \in Page
      /\ page'.stream = "ending"
      /\ UNCHANGED <<page.alive, page.running, page.stopping, page.reconfiguring,
                      page.trusted, page.reader, page.encoder, page.encoders,
                      page.connection, page.opening, page.open, page.promise,
                      page.recovery, page.startup, page.loop, page.made, page.calls>>
  BY <1>1, <1>2 DEF Page
<1>4. /\ page.stream = "live" /\ page.alive
      /\ UNCHANGED <<mode, starting, stopper, closing, reports, sources>>
  BY DEF TrackEnds, NoMicrotask, workerVars, bounds
<1>5. starting \notin {"ensure", "send"}
  BY <1>4, CallNumbers, NewDocument DEF Idle, NotRecovering
<1>6. TypeInv'
  BY <1>3, <1>4, <1>5, CallNumbers DEF IInv, TypeInv
<1>7. WorkerInv'
  BY <1>3, <1>4, <1>5, CallNumbers DEF IInv, WorkerInv
<1>8. StopInv'
  BY <1>3, <1>4, <1>5, CallNumbers DEF IInv, StopInv
<1>9. StartInv'
  BY <1>3, <1>4, <1>5, CallNumbers DEF IInv, StartInv, InReports
<1>10. CallInv'
  BY <1>3, <1>4, <1>5, CallNumbers DEF IInv, CallInv, InReports
<1>11. NumberInv'
  BY <1>3, <1>4, <1>5, CallNumbers DEF IInv, NumberInv
<1>12. StartupInv'
  BY <1>3, <1>4, <1>5, CallNumbers DEF IInv, StartupInv, Is
<1>13. RunInv'
  BY <1>3, <1>4, <1>5, CallNumbers DEF IInv, RunInv, InReports
<1>14. StreamInv'
  BY <1>3, <1>4, <1>5, CallNumbers DEF IInv, StreamInv, ToCome, Is, InReports
<1>15. EncoderInv'
  BY <1>3, <1>4, <1>5, CallNumbers DEF IInv, EncoderInv, ToCome, Is, InReports
<1>16. ConnectionInv'
  BY <1>3, <1>4, <1>5, CallNumbers DEF IInv, ConnectionInv, ToCome, InReports
<1> QED
  BY <1>6, <1>7, <1>8, <1>9, <1>10, <1>11, <1>12, <1>13, <1>14, <1>15, <1>16 DEF IInv

\* startCapture has the stream and its reader.
LEMMA GetUserMediaKept ==
  ASSUME IInv, GetUserMedia
  PROVE  IInv'
<1>1. /\ page \in Page /\ page.recovery \in RecoveryState
  BY PageTypes, CallNumbers
<1>2. page' = [page EXCEPT !.stream = "live", !.reader = TRUE, !.startup = "first"]
  BY DEF GetUserMedia
<1>3. /\ page' \in Page
      /\ page'.stream = "live"
      /\ page'.reader = TRUE
      /\ page'.startup = "first"
      /\ UNCHANGED <<page.alive, page.running, page.stopping, page.reconfiguring,
                      page.trusted, page.encoder, page.encoders, page.connection,
                      page.opening, page.open, page.promise, page.recovery, page.loop,
                      page.made, page.calls>>
  BY <1>1, <1>2 DEF Page
<1>4. /\ page.startup = "media" /\ page.alive
      /\ \A i \in Calls : page.calls[i].at # "begin"
      /\ UNCHANGED <<mode, starting, stopper, closing, reports, sources>>
  BY DEF GetUserMedia, NoMicrotask, workerVars, bounds
<1>5. starting \notin {"ensure", "send"}
  BY <1>4, CallNumbers, NewDocument DEF Idle, NotRecovering
<1>6. TypeInv'
  BY <1>3, <1>4, <1>5, CallNumbers DEF IInv, TypeInv
<1>7. WorkerInv'
  BY <1>3, <1>4, <1>5, CallNumbers DEF IInv, WorkerInv
<1>8. StopInv'
  BY <1>3, <1>4, <1>5, CallNumbers DEF IInv, StopInv
<1>9. StartInv'
  BY <1>3, <1>4, <1>5, CallNumbers DEF IInv, StartInv, InReports
<1>10. CallInv'
  BY <1>3, <1>4, <1>5, CallNumbers DEF IInv, CallInv, InReports
<1>11. NumberInv'
  BY <1>3, <1>4, <1>5, CallNumbers DEF IInv, NumberInv
<1>12. StartupInv'
  BY <1>3, <1>4, <1>5, CallNumbers DEF IInv, StartupInv, Is
<1>13. RunInv'
  BY <1>3, <1>4, <1>5, CallNumbers DEF IInv, RunInv, InReports
<1>14. StreamInv'
  BY <1>3, <1>4, <1>5, CallNumbers DEF IInv, StreamInv, ToCome, Is, InReports, CallInv, RunInv,
     StartupInv, StartInv
<1>15. EncoderInv'
  BY <1>3, <1>4, <1>5, CallNumbers DEF IInv, EncoderInv, ToCome, Is, InReports
<1>16. ConnectionInv'
  BY <1>3, <1>4, <1>5, CallNumbers DEF IInv, ConnectionInv, ToCome, InReports
<1> QED
  BY <1>6, <1>7, <1>8, <1>9, <1>10, <1>11, <1>12, <1>13, <1>14, <1>15, <1>16 DEF IInv

\* startCapture has the first frame.
LEMMA FirstFrameKept ==
  ASSUME IInv, FirstFrame
  PROVE  IInv'
<1>1. /\ page \in Page /\ page.recovery \in RecoveryState
  BY PageTypes, CallNumbers
<1>2. page' = [page EXCEPT !.reader = FALSE, !.startup = "encoder"]
  BY DEF FirstFrame
<1>3. /\ page' \in Page
      /\ page'.reader = FALSE
      /\ page'.startup = "encoder"
      /\ UNCHANGED <<page.alive, page.running, page.stopping, page.reconfiguring,
                      page.trusted, page.stream, page.encoder, page.encoders,
                      page.connection, page.opening, page.open, page.promise,
                      page.recovery, page.loop, page.made, page.calls>>
  BY <1>1, <1>2 DEF Page
<1>4. /\ page.startup = "first" /\ page.reader /\ page.alive
      /\ UNCHANGED <<mode, starting, stopper, closing, reports, sources>>
  BY DEF FirstFrame, NoMicrotask, workerVars, bounds
<1>5. starting \notin {"ensure", "send"}
  BY <1>4, CallNumbers, NewDocument DEF Idle, NotRecovering
<1>6. TypeInv'
  BY <1>3, <1>4, <1>5, CallNumbers DEF IInv, TypeInv
<1>7. WorkerInv'
  BY <1>3, <1>4, <1>5, CallNumbers DEF IInv, WorkerInv
<1>8. StopInv'
  BY <1>3, <1>4, <1>5, CallNumbers DEF IInv, StopInv
<1>9. StartInv'
  BY <1>3, <1>4, <1>5, CallNumbers DEF IInv, StartInv, InReports
<1>10. CallInv'
  BY <1>3, <1>4, <1>5, CallNumbers DEF IInv, CallInv, InReports
<1>11. NumberInv'
  BY <1>3, <1>4, <1>5, CallNumbers DEF IInv, NumberInv
<1>12. StartupInv'
  BY <1>3, <1>4, <1>5, CallNumbers DEF IInv, StartupInv, Is
<1>13. RunInv'
  BY <1>3, <1>4, <1>5, CallNumbers DEF IInv, RunInv, InReports
<1>14. StreamInv'
  BY <1>3, <1>4, <1>5, CallNumbers DEF IInv, StreamInv, ToCome, Is, InReports
<1>15. EncoderInv'
  BY <1>3, <1>4, <1>5, CallNumbers DEF IInv, EncoderInv, ToCome, Is, InReports
<1>16. ConnectionInv'
  BY <1>3, <1>4, <1>5, CallNumbers DEF IInv, ConnectionInv, ToCome, InReports
<1> QED
  BY <1>6, <1>7, <1>8, <1>9, <1>10, <1>11, <1>12, <1>13, <1>14, <1>15, <1>16 DEF IInv

\* The source changes its size.
LEMMA SourceChangesKept ==
  ASSUME IInv, SourceChanges
  PROVE  IInv'
<1>1. /\ page \in Page /\ page.recovery \in RecoveryState
  BY PageTypes, CallNumbers
<1>2. page' = [page EXCEPT !.reconfiguring = TRUE, !.loop = "allocate"]
  BY DEF SourceChanges
<1>3. /\ page' \in Page
      /\ page'.reconfiguring = TRUE
      /\ page'.loop = "allocate"
      /\ UNCHANGED <<page.alive, page.running, page.stopping, page.trusted,
                      page.stream, page.reader, page.encoder, page.encoders,
                      page.connection, page.opening, page.open, page.promise,
                      page.recovery, page.startup, page.made, page.calls>>
  BY <1>1, <1>2 DEF Page
<1>4. /\ page.loop = "read" /\ page.running /\ page.alive
      /\ sources < MaxSources /\ sources' = sources + 1
      /\ UNCHANGED <<mode, starting, stopper, closing, reports>>
  BY DEF SourceChanges, NoMicrotask, workerVars, bounds
<1>5. starting \notin {"ensure", "send"}
  BY <1>4, CallNumbers, NewDocument DEF Idle, NotRecovering
<1>6. TypeInv'
  BY <1>3, <1>4, <1>5, CallNumbers, BoundsAssumption DEF IInv, TypeInv
<1>7. WorkerInv'
  BY <1>3, <1>4, <1>5, CallNumbers DEF IInv, WorkerInv
<1>8. StopInv'
  BY <1>3, <1>4, <1>5, CallNumbers DEF IInv, StopInv
<1>9. StartInv'
  BY <1>3, <1>4, <1>5, CallNumbers DEF IInv, StartInv, InReports
<1>10. CallInv'
  BY <1>3, <1>4, <1>5, CallNumbers DEF IInv, CallInv, InReports
<1>11. NumberInv'
  BY <1>3, <1>4, <1>5, CallNumbers DEF IInv, NumberInv, TypeInv, Page
<1>12. StartupInv'
  BY <1>3, <1>4, <1>5, CallNumbers DEF IInv, StartupInv, Is, CallInv, StartInv, RunInv,
     InReports
<1>13. RunInv'
  BY <1>3, <1>4, <1>5, CallNumbers DEF IInv, RunInv, InReports, TypeInv, Page
<1>14. StreamInv'
  BY <1>3, <1>4, <1>5, CallNumbers DEF IInv, StreamInv, ToCome, Is, InReports
<1>15. EncoderInv'
  BY <1>3, <1>4, <1>5, CallNumbers DEF IInv, EncoderInv, ToCome, Is, InReports
<1>16. ConnectionInv'
  BY <1>3, <1>4, <1>5, CallNumbers DEF IInv, ConnectionInv, ToCome, InReports
<1> QED
  BY <1>6, <1>7, <1>8, <1>9, <1>10, <1>11, <1>12, <1>13, <1>14, <1>15, <1>16 DEF IInv

\* An open connection is lost, and its recovery begins.
LEMMA RecoveryBegins ==
  ASSUME IInv, MayRecover, ConnectionLost
  PROVE  IInv'
<1> DEFINE r == [at |-> "delay", connection |-> page.connection, aborted |-> FALSE]
<1>1. /\ page \in Page /\ page.recovery \in RecoveryState
  BY PageTypes, CallNumbers
<1>2. /\ r \in RecoveryState /\ r.at = "delay"
      /\ r.connection = page.connection /\ r.aborted = FALSE
  BY <1>1 DEF RecoveryState, Page
<1>3. page' = [page EXCEPT !.opening = @ \ {page.connection}, !.open = @ \ {page.connection},
                   !.promise = TRUE, !.recovery = r]
  BY <1>1 DEF ConnectionLost, WithoutSocket
<1> HIDE DEF r
<1>4. /\ page' \in Page
      /\ page'.recovery.at = "delay"
      /\ page'.recovery.connection = page.connection
      /\ page'.recovery.aborted = FALSE
      /\ page'.promise = TRUE
      /\ page'.opening = page.opening \ {page.connection}
      /\ page'.open = page.open \ {page.connection}
      /\ UNCHANGED <<page.alive, page.running, page.stopping, page.reconfiguring,
                      page.trusted, page.stream, page.reader, page.encoder,
                      page.encoders, page.connection, page.startup, page.loop,
                      page.made, page.calls>>
  BY <1>1, <1>2, <1>3 DEF Page, RecoveryState
<1>5. /\ page.connection \in page.open /\ page.alive
      /\ page.running /\ ~page.reconfiguring /\ ~page.promise
      /\ UNCHANGED <<mode, starting, stopper, closing, reports, sources>>
  BY DEF ConnectionLost, NoMicrotask, workerVars, bounds, MayRecover
<1>6. starting \notin {"ensure", "send"}
  BY <1>5, CallNumbers, NewDocument DEF Idle, NotRecovering
<1>7. TypeInv'
  BY <1>4, <1>5, <1>6, CallNumbers DEF IInv, TypeInv
<1>8. WorkerInv'
  BY <1>4, <1>5, <1>6, CallNumbers DEF IInv, WorkerInv
<1>9. StopInv'
  BY <1>4, <1>5, <1>6, CallNumbers DEF IInv, StopInv
<1>10. StartInv'
  BY <1>4, <1>5, <1>6, CallNumbers DEF IInv, StartInv, InReports
<1>11. CallInv'
  BY <1>4, <1>5, <1>6, CallNumbers DEF IInv, CallInv, InReports
<1>12. NumberInv'
  BY <1>4, <1>5, <1>6, CallNumbers DEF IInv, NumberInv
<1>13. StartupInv'
  BY <1>4, <1>5, <1>6, CallNumbers DEF IInv, StartupInv, Is, CallInv, StartInv, RunInv,
     InReports
<1>14. RunInv'
  BY <1>4, <1>5, <1>6, CallNumbers, ZenonT(40) DEF IInv, RunInv, InReports
<1>15. StreamInv'
  BY <1>4, <1>5, <1>6, CallNumbers DEF IInv, StreamInv, ToCome, Is, InReports
<1>16. EncoderInv'
  BY <1>4, <1>5, <1>6, CallNumbers DEF IInv, EncoderInv, ToCome, Is, InReports
<1>17. ConnectionInv'
  BY <1>4, <1>5, <1>6, CallNumbers, ZenonT(40) DEF IInv, ConnectionInv, ToCome, InReports, CallInv, RunInv,
     StartupInv, StreamInv, Is
<1> QED
  BY <1>7, <1>8, <1>9, <1>10, <1>11, <1>12, <1>13, <1>14, <1>15, <1>16, <1>17 DEF IInv

\* A connection is lost that is not to be recovered.
LEMMA ConnectionLostKept ==
  ASSUME IInv, ~MayRecover, ConnectionLost
  PROVE  IInv'
<1>1. /\ page \in Page /\ page.recovery \in RecoveryState
  BY PageTypes, CallNumbers
<1>2. page' = [page EXCEPT !.opening = @ \ {page.connection}, !.open = @ \ {page.connection}]
  BY <1>1 DEF ConnectionLost, WithoutSocket
<1>3. /\ page' \in Page
      /\ page'.opening = page.opening \ {page.connection}
      /\ page'.open = page.open \ {page.connection}
      /\ UNCHANGED <<page.alive, page.running, page.stopping, page.reconfiguring,
                      page.trusted, page.stream, page.reader, page.encoder,
                      page.encoders, page.connection, page.promise, page.recovery,
                      page.startup, page.loop, page.made, page.calls>>
  BY <1>1, <1>2 DEF Page
<1>4. /\ page.connection \in page.open /\ page.alive
      /\ page.stopping \/ page.reconfiguring \/ ~page.running \/ page.promise
      /\ UNCHANGED <<mode, starting, stopper, closing, reports, sources>>
  BY DEF ConnectionLost, NoMicrotask, workerVars, bounds, MayRecover
<1>5. starting \notin {"ensure", "send"}
  BY <1>4, CallNumbers, NewDocument DEF Idle, NotRecovering
<1>6. TypeInv'
  BY <1>3, <1>4, <1>5, CallNumbers DEF IInv, TypeInv
<1>7. WorkerInv'
  BY <1>3, <1>4, <1>5, CallNumbers DEF IInv, WorkerInv
<1>8. StopInv'
  BY <1>3, <1>4, <1>5, CallNumbers DEF IInv, StopInv
<1>9. StartInv'
  BY <1>3, <1>4, <1>5, CallNumbers DEF IInv, StartInv, InReports
<1>10. CallInv'
  BY <1>3, <1>4, <1>5, CallNumbers DEF IInv, CallInv, InReports
<1>11. NumberInv'
  BY <1>3, <1>4, <1>5, CallNumbers DEF IInv, NumberInv
<1>12. StartupInv'
  BY <1>3, <1>4, <1>5, CallNumbers DEF IInv, StartupInv, Is
<1>13. RunInv'
  BY <1>3, <1>4, <1>5, CallNumbers DEF IInv, RunInv, InReports
<1>14. StreamInv'
  BY <1>3, <1>4, <1>5, CallNumbers DEF IInv, StreamInv, ToCome, Is, InReports
<1>15. EncoderInv'
  BY <1>3, <1>4, <1>5, CallNumbers DEF IInv, EncoderInv, ToCome, Is, InReports
<1>16. ConnectionInv'
  BY <1>3, <1>4, <1>5, CallNumbers DEF IInv, ConnectionInv, ToCome, InReports
<1> QED
  BY <1>6, <1>7, <1>8, <1>9, <1>10, <1>11, <1>12, <1>13, <1>14, <1>15, <1>16 DEF IInv

\* The recovery was aborted, or is no longer wanted.
LEMMA CancelRecoveryKept ==
  ASSUME IInv, CancelRecovery
  PROVE  IInv'
<1>1. /\ page \in Page /\ page.recovery \in RecoveryState
  BY PageTypes, CallNumbers
<1>2. page' = [page EXCEPT !.opening = @ \ {page.recovery.connection},
                   !.open = @ \ {page.recovery.connection},
                   !.recovery = NotRecovering,
                   !.promise = IF page.recovery.aborted THEN page.promise ELSE FALSE]
  BY <1>1 DEF CancelRecovery, WithoutSocket, Settle, Page
<1>3. /\ page' \in Page
      /\ page'.recovery.at = "none"
      /\ page'.recovery.connection = 0
      /\ page'.promise = (page.recovery.aborted /\ page.promise)
      /\ page'.opening = page.opening \ {page.recovery.connection}
      /\ page'.open = page.open \ {page.recovery.connection}
      /\ UNCHANGED <<page.alive, page.running, page.stopping, page.reconfiguring,
                      page.trusted, page.stream, page.reader, page.encoder,
                      page.encoders, page.connection, page.startup, page.loop,
                      page.made, page.calls>>
  BY <1>1, <1>2, ZenonT(40) DEF Page, RecoveryState, NotRecovering
<1>4. /\ page.recovery.at # "none" /\ page.alive
      /\ page.recovery.aborted \/ ~page.running \/ page.stopping
      /\ UNCHANGED <<mode, starting, stopper, closing, reports, sources>>
  BY DEF CancelRecovery, NoMicrotask, workerVars, bounds, ShouldContinue
<1>5. starting \notin {"ensure", "send"}
  BY <1>4, CallNumbers, NewDocument DEF Idle, NotRecovering
<1>6. TypeInv'
  BY <1>3, <1>4, <1>5, CallNumbers DEF IInv, TypeInv
<1>7. WorkerInv'
  BY <1>3, <1>4, <1>5, CallNumbers DEF IInv, WorkerInv
<1>8. StopInv'
  BY <1>3, <1>4, <1>5, CallNumbers DEF IInv, StopInv
<1>9. StartInv'
  BY <1>3, <1>4, <1>5, CallNumbers DEF IInv, StartInv, InReports
<1>10. CallInv'
  BY <1>3, <1>4, <1>5, CallNumbers DEF IInv, CallInv, InReports
<1>11. NumberInv'
  BY <1>3, <1>4, <1>5, CallNumbers DEF IInv, NumberInv, TypeInv, Page
<1>12. StartupInv'
  BY <1>3, <1>4, <1>5, CallNumbers DEF IInv, StartupInv, Is
<1>13. RunInv'
  BY <1>3, <1>4, <1>5, CallNumbers DEF IInv, RunInv, InReports, TypeInv, Page
<1>14. StreamInv'
  BY <1>3, <1>4, <1>5, CallNumbers DEF IInv, StreamInv, ToCome, Is, InReports
<1>15. EncoderInv'
  BY <1>3, <1>4, <1>5, CallNumbers DEF IInv, EncoderInv, ToCome, Is, InReports
<1>16. ConnectionInv'
  BY <1>3, <1>4, <1>5, CallNumbers DEF IInv, ConnectionInv, ToCome, InReports, TypeInv, Page
<1> QED
  BY <1>6, <1>7, <1>8, <1>9, <1>10, <1>11, <1>12, <1>13, <1>14, <1>15, <1>16 DEF IInv

\* An attempt fails, and the next will follow.
LEMMA RetryRecoveryKept ==
  ASSUME IInv, RetryRecovery
  PROVE  IInv'
<1> DEFINE r == [page.recovery EXCEPT !.at = "delay"]
<1>1. /\ page \in Page /\ page.recovery \in RecoveryState
  BY PageTypes, CallNumbers
<1>2. /\ r \in RecoveryState /\ r.at = "delay"
      /\ r.connection = page.recovery.connection /\ r.aborted = page.recovery.aborted
  BY <1>1 DEF RecoveryState
<1>3. page' = [page EXCEPT !.opening = @ \ {page.recovery.connection},
                   !.open = @ \ {page.recovery.connection},
                   !.recovery = r]
  BY <1>1 DEF RetryRecovery, WithoutSocket
<1> HIDE DEF r
<1>4. /\ page' \in Page
      /\ page'.recovery.at = "delay"
      /\ page'.recovery.connection = page.recovery.connection
      /\ page'.recovery.aborted = page.recovery.aborted
      /\ page'.opening = page.opening \ {page.recovery.connection}
      /\ page'.open = page.open \ {page.recovery.connection}
      /\ UNCHANGED <<page.alive, page.running, page.stopping, page.reconfiguring,
                      page.trusted, page.stream, page.reader, page.encoder,
                      page.encoders, page.connection, page.promise, page.startup,
                      page.loop, page.made, page.calls>>
  BY <1>1, <1>2, <1>3 DEF Page, RecoveryState
<1>5. /\ page.recovery.at = "connect" /\ ~page.recovery.aborted
      /\ page.running /\ page.alive
      /\ UNCHANGED <<mode, starting, stopper, closing, reports, sources>>
  BY DEF RetryRecovery, NoMicrotask, workerVars, bounds, ShouldContinue
<1>6. starting \notin {"ensure", "send"}
  BY <1>5, CallNumbers, NewDocument DEF Idle, NotRecovering
<1>7. TypeInv'
  BY <1>4, <1>5, <1>6, CallNumbers DEF IInv, TypeInv
<1>8. WorkerInv'
  BY <1>4, <1>5, <1>6, CallNumbers DEF IInv, WorkerInv
<1>9. StopInv'
  BY <1>4, <1>5, <1>6, CallNumbers DEF IInv, StopInv
<1>10. StartInv'
  BY <1>4, <1>5, <1>6, CallNumbers DEF IInv, StartInv, InReports
<1>11. CallInv'
  BY <1>4, <1>5, <1>6, CallNumbers DEF IInv, CallInv, InReports
<1>12. NumberInv'
  BY <1>4, <1>5, <1>6, CallNumbers DEF IInv, NumberInv
<1>13. StartupInv'
  BY <1>4, <1>5, <1>6, CallNumbers DEF IInv, StartupInv, Is
<1>14. RunInv'
  BY <1>4, <1>5, <1>6, CallNumbers DEF IInv, RunInv, InReports
<1>15. StreamInv'
  BY <1>4, <1>5, <1>6, CallNumbers DEF IInv, StreamInv, ToCome, Is, InReports
<1>16. EncoderInv'
  BY <1>4, <1>5, <1>6, CallNumbers DEF IInv, EncoderInv, ToCome, Is, InReports
<1>17. ConnectionInv'
  BY <1>4, <1>5, <1>6, CallNumbers DEF IInv, ConnectionInv, ToCome, InReports
<1> QED
  BY <1>7, <1>8, <1>9, <1>10, <1>11, <1>12, <1>13, <1>14, <1>15, <1>16, <1>17 DEF IInv

\* The recovery has connected again.
LEMMA RecoverKept ==
  ASSUME IInv, Recover
  PROVE  IInv'
<1>1. /\ page \in Page /\ page.recovery \in RecoveryState
  BY PageTypes, CallNumbers
<1>2. page' = [page EXCEPT !.opening = @ \ {page.recovery.connection},
                   !.open = (@ \ {page.recovery.connection})
                              \cup IF ShouldContinue THEN {page.recovery.connection} ELSE {},
                   !.recovery = NotRecovering,
                   !.promise = FALSE]
  BY <1>1 DEF Recover, WithoutSocket, Settle, Page
<1>3. /\ page' \in Page
      /\ page'.recovery.at = "none"
      /\ page'.recovery.connection = 0
      /\ page'.promise = FALSE
      /\ page'.opening = page.opening \ {page.recovery.connection}
      /\ page'.open = (page.open \ {page.recovery.connection})
                             \cup IF ShouldContinue THEN {page.recovery.connection} ELSE {}
      /\ UNCHANGED <<page.alive, page.running, page.stopping, page.reconfiguring,
                      page.trusted, page.stream, page.reader, page.encoder,
                      page.encoders, page.connection, page.startup, page.loop,
                      page.made, page.calls>>
  BY <1>1, <1>2 DEF Page, RecoveryState, NotRecovering
<1>4. /\ page.recovery.at = "connect" /\ ~page.recovery.aborted
      /\ page.recovery.connection \in page.opening /\ page.alive
      /\ ShouldContinue <=> page.running /\ ~page.stopping
      /\ UNCHANGED <<mode, starting, stopper, closing, reports, sources>>
  BY DEF Recover, NoMicrotask, workerVars, bounds, ShouldContinue
<1>5. starting \notin {"ensure", "send"}
  BY <1>4, CallNumbers, NewDocument DEF Idle, NotRecovering
<1>6. TypeInv'
  BY <1>3, <1>4, <1>5, CallNumbers DEF IInv, TypeInv
<1>7. WorkerInv'
  BY <1>3, <1>4, <1>5, CallNumbers DEF IInv, WorkerInv
<1>8. StopInv'
  BY <1>3, <1>4, <1>5, CallNumbers DEF IInv, StopInv
<1>9. StartInv'
  BY <1>3, <1>4, <1>5, CallNumbers DEF IInv, StartInv, InReports
<1>10. CallInv'
  BY <1>3, <1>4, <1>5, CallNumbers DEF IInv, CallInv, InReports
<1>11. NumberInv'
  BY <1>3, <1>4, <1>5, CallNumbers DEF IInv, NumberInv, TypeInv, Page
<1>12. StartupInv'
  BY <1>3, <1>4, <1>5, CallNumbers DEF IInv, StartupInv, Is
<1>13. RunInv'
  BY <1>3, <1>4, <1>5, CallNumbers DEF IInv, RunInv, InReports
<1>14. StreamInv'
  BY <1>3, <1>4, <1>5, CallNumbers DEF IInv, StreamInv, ToCome, Is, InReports
<1>15. EncoderInv'
  BY <1>3, <1>4, <1>5, CallNumbers DEF IInv, EncoderInv, ToCome, Is, InReports
<1>16. ConnectionInv'
  BY <1>3, <1>4, <1>5, CallNumbers DEF IInv, ConnectionInv, ToCome, InReports
<1> QED
  BY <1>6, <1>7, <1>8, <1>9, <1>10, <1>11, <1>12, <1>13, <1>14, <1>15, <1>16 DEF IInv

\* startCapture makes its encoder and its connection.
LEMMA EncoderMade ==
  ASSUME IInv, CreateEncoder, page.trusted
  PROVE  IInv'
<1>1. /\ page \in Page /\ page.recovery \in RecoveryState
  BY PageTypes, CallNumbers
<1>2. PICK q \in Page :
         /\ q = MakeConnection(MakeEncoder(page)) /\ Otherwise(page, q)
         /\ q.encoder = page.made + 1 /\ q.encoders = page.encoders \cup {page.made + 1}
         /\ q.connection = page.made + 2 /\ q.opening = page.opening \cup {page.made + 2}
         /\ q.made = page.made + 2 /\ q.open = page.open
  BY <1>1, BothOf, Zenon
<1>3. page' = [q EXCEPT !.startup = "connect"]
  BY <1>2 DEF CreateEncoder
<1>4. /\ page' \in Page
      /\ page'.alive = q.alive /\ page'.running = q.running /\ page'.stopping = q.stopping
      /\ page'.reconfiguring = q.reconfiguring /\ page'.trusted = q.trusted
      /\ page'.stream = q.stream
      /\ page'.reader = q.reader /\ page'.encoder = q.encoder /\ page'.encoders = q.encoders
      /\ page'.connection = q.connection /\ page'.opening = q.opening /\ page'.open = q.open
      /\ page'.promise = q.promise /\ page'.recovery = q.recovery /\ page'.loop = q.loop
      /\ page'.made = q.made /\ page'.calls = q.calls
      /\ page'.startup = "connect"
  BY <1>2, <1>3 DEF Page
<1>5. /\ page' \in Page
      /\ page'.encoder = page.made + 1
      /\ page'.encoders = page.encoders \cup {page.made + 1}
      /\ page'.connection = page.made + 2
      /\ page'.opening = page.opening \cup {page.made + 2}
      /\ page'.made = page.made + 2
      /\ page'.startup = "connect"
      /\ UNCHANGED <<page.alive, page.running, page.stopping, page.reconfiguring,
                      page.trusted, page.stream, page.reader, page.open, page.promise,
                      page.recovery, page.loop, page.calls>>
  BY <1>2, <1>4, Zenon DEF Otherwise
<1>6. /\ page.startup = "encoder" /\ page.alive /\ page.made = 0
      /\ \A i \in Calls : page.calls[i].at # "begin"
      /\ UNCHANGED <<mode, starting, stopper, closing, reports, sources>>
  BY DEF IInv, StartupInv, CreateEncoder, NoMicrotask, workerVars, bounds
<1>7. starting \notin {"ensure", "send"}
  BY <1>6, CallNumbers, NewDocument DEF Idle, NotRecovering
<1>8. TypeInv'
  BY <1>5, <1>6, <1>7, CallNumbers DEF IInv, TypeInv
<1>9. WorkerInv'
  BY <1>5, <1>6, <1>7, CallNumbers DEF IInv, WorkerInv
<1>10. StopInv'
  BY <1>5, <1>6, <1>7, CallNumbers DEF IInv, StopInv
<1>11. StartInv'
  BY <1>5, <1>6, <1>7, CallNumbers DEF IInv, StartInv, InReports
<1>12. CallInv'
  BY <1>5, <1>6, <1>7, CallNumbers DEF IInv, CallInv, InReports
<1>13. NumberInv'
  <2>1. page.made = 0 /\ sources \in Nat /\ page.loop = "none"
       /\ page.encoders = {} /\ page.opening = {} /\ page.open = {}
       /\ page.recovery.connection <= 0
       /\ \A i \in 0..MaxCalls : page.calls[i].connection <= 0
    BY <1>6 DEF IInv, TypeInv, StartupInv, CallInv, NumberInv
  <2>2. page'.made = 2 /\ page'.encoder = 1 /\ page'.connection = 2
       /\ page'.encoders = {1} /\ page'.opening = {2}
    BY <2>1, <1>5
  <2>3. page'.made <= 2 * sources' + 2
    BY <2>1, <2>2, <1>5, <1>6
  <2>4. page'.loop \in {"allocate", "close", "create"} => page'.made <= 2 * sources'
    BY <2>1, <2>2, <1>5, <1>6
  <2>5. page'.encoder <= page'.made
    BY <2>1, <2>2, <1>5, <1>6
  <2>6. page'.connection <= page'.made
    BY <2>1, <2>2, <1>5, <1>6
  <2>7. page'.recovery.connection <= page'.made
    BY <2>1, <2>2, <1>5, <1>6, PageTypes DEF RecoveryState, CallState
  <2>8. \A n \in page'.encoders : 0 < n /\ n <= page'.made
    BY <2>1, <2>2, <1>5, <1>6
  <2>9. \A n \in page'.opening : 0 < n /\ n <= page'.made
    BY <2>1, <2>2, <1>5, <1>6
  <2>10. \A n \in page'.open : 0 < n /\ n <= page'.made
    BY <2>1, <2>2, <1>5, <1>6
  <2>11. \A i \in 0..MaxCalls : page'.calls[i].connection <= page'.made
    BY <2>1, <2>2, <1>5, <1>6, PageTypes DEF RecoveryState, CallState
  <2> QED
    BY <2>3, <2>4, <2>5, <2>6, <2>7, <2>8, <2>9, <2>10, <2>11, Zenon DEF NumberInv
<1>14. StartupInv'
  BY <1>5, <1>6, <1>7, CallNumbers DEF IInv, StartupInv, Is
<1>15. RunInv'
  BY <1>5, <1>6, <1>7, CallNumbers DEF IInv, RunInv, InReports
<1>16. StreamInv'
  BY <1>5, <1>6, <1>7, CallNumbers DEF IInv, StreamInv, ToCome, Is, InReports
<1>17. EncoderInv'
  BY <1>5, <1>6, <1>7, CallNumbers DEF IInv, EncoderInv, ToCome, Is, InReports, CallInv, RunInv,
     StartupInv, StreamInv
<1>18. ConnectionInv'
  BY <1>5, <1>6, <1>7, CallNumbers DEF IInv, ConnectionInv, ToCome, InReports, CallInv, RunInv,
     StartupInv, StreamInv, Is
<1> QED
  BY <1>8, <1>9, <1>10, <1>11, <1>12, <1>13, <1>14, <1>15, <1>16, <1>17, <1>18 DEF IInv

\* A reconfiguration makes another encoder, and another connection.
LEMMA EncoderReplaced ==
  ASSUME IInv,
         /\ page' \in Page
         /\ page'.encoder = page.made + 1
         /\ page'.encoders = page.encoders \cup {page.made + 1}
         /\ page'.connection = page.made + 2
         /\ page'.opening = page.opening \cup {page.made + 2}
         /\ page'.made = page.made + 2
         /\ page'.loop = "connect"
         /\ UNCHANGED <<page.alive, page.running, page.stopping, page.reconfiguring,
                         page.trusted, page.stream, page.reader, page.open, page.promise,
                         page.recovery, page.startup, page.calls>>,
         page.loop = "create" /\ page.alive,
         UNCHANGED <<mode, starting, stopper, closing, reports, sources>>
  PROVE  IInv'
<1>1. page.made \in Nat /\ page.encoder \in Nat /\ page.connection \in Nat
  BY PageTypes DEF Page
<1>2. starting \notin {"ensure", "send"}
  BY CallNumbers, NewDocument DEF Idle, NotRecovering
<1>3. TypeInv'
  BY <1>1, <1>2, CallNumbers DEF IInv, TypeInv
<1>4. WorkerInv'
  BY <1>1, <1>2, CallNumbers DEF IInv, WorkerInv
<1>5. StopInv'
  BY <1>1, <1>2, CallNumbers DEF IInv, StopInv
<1>6. StartInv'
  BY <1>1, <1>2, CallNumbers DEF IInv, StartInv, InReports
<1>7. CallInv'
  BY <1>1, <1>2, CallNumbers DEF IInv, CallInv, InReports
<1>8. NumberInv'
  <2>1. /\ page.made \in Nat /\ sources \in Nat /\ page.made <= 2 * sources
        /\ \A n \in page.encoders \cup page.opening \cup page.open : n \in Nat
    BY PageTypes DEF Page, IInv, TypeInv, NumberInv
  <2>2. /\ page.recovery.connection <= page.made
        /\ \A n \in page.encoders : 0 < n /\ n <= page.made
        /\ \A n \in page.opening : 0 < n /\ n <= page.made
        /\ \A n \in page.open : 0 < n /\ n <= page.made
        /\ \A i \in 0..MaxCalls : page.calls[i].connection <= page.made
    BY DEF IInv, NumberInv
  <2>3. /\ page'.made <= 2 * sources' + 2
        /\ page'.loop \in {"allocate", "close", "create"} => page'.made <= 2 * sources'
    BY <2>1, <2>2
  <2>4. page'.encoder <= page'.made
    BY <2>1, <2>2
  <2>5. page'.connection <= page'.made
    BY <2>1, <2>2
  <2>6. page'.recovery.connection <= page'.made
    BY <2>1, <2>2, PageTypes DEF RecoveryState
  <2>7. ASSUME NEW n \in page'.encoders PROVE 0 < n /\ n <= page'.made
    <3>1. n \in page.encoders \/ n = page.made + 1
      OBVIOUS
    <3> QED
      BY <2>1, <2>2, <3>1
  <2>8. ASSUME NEW n \in page'.opening PROVE 0 < n /\ n <= page'.made
    <3>1. n \in page.opening \/ n = page.made + 2
      OBVIOUS
    <3> QED
      BY <2>1, <2>2, <3>1
  <2>9. ASSUME NEW n \in page'.open PROVE 0 < n /\ n <= page'.made
    <3>1. n \in page.open
      OBVIOUS
    <3> QED
      BY <2>1, <2>2, <3>1
  <2>10. ASSUME NEW i \in 0..MaxCalls PROVE page'.calls[i].connection <= page'.made
    <3>1. /\ page'.calls[i].connection = page.calls[i].connection
          /\ page.calls[i].connection \in Nat
      BY PageTypes DEF CallState
    <3>2. page.calls[i].connection <= page.made
      BY <2>2
    <3> QED
      BY <2>1, <3>1, <3>2
  <2> QED
    BY <2>3, <2>4, <2>5, <2>6, <2>7, <2>8, <2>9, <2>10, Zenon DEF NumberInv
<1>9. StartupInv'
  BY <1>1, <1>2, CallNumbers DEF IInv, StartupInv, Is, CallInv, StartInv, RunInv, InReports
<1>10. RunInv'
  BY <1>1, <1>2, CallNumbers DEF IInv, RunInv, InReports, TypeInv, Page
<1>11. StreamInv'
  BY <1>1, <1>2, CallNumbers DEF IInv, StreamInv, ToCome, Is, InReports
<1>12. EncoderInv'
  <2>1. \A i \in 0..MaxCalls : page.calls[i].at \notin {"flush", "drain", "recovery"}
    BY CallNumbers DEF IInv, StreamInv, CallInv, Is
  <2>2. ToCome \/ Is({"begin", "cancel", "loop"})
    BY DEF IInv, StreamInv, Is
  <2>3. ToCome' = ToCome /\ page'.calls = page.calls
    BY DEF ToCome, InReports
  <2>4. page.encoder = 0 /\ page.connection = 0 /\ page.recovery.at = "none" /\ ~page.promise
        /\ (\A n \in page.encoders \cup page.opening \cup page.open : n # 0)
    BY DEF IInv, EncoderInv, ConnectionInv, NumberInv
  <2>5. page.encoders = {}
    BY <2>1, <2>4, CallNumbers DEF IInv, EncoderInv
  <2> QED
    BY <2>1, <2>2, <2>3, <2>5, CallNumbers DEF EncoderInv, Is
<1>13. ConnectionInv'
  <2>1. \A i \in 0..MaxCalls : page.calls[i].at \notin {"flush", "drain", "recovery"}
    BY CallNumbers DEF IInv, StreamInv, CallInv, Is
  <2>2. ToCome \/ Is({"begin", "cancel", "loop"})
    BY DEF IInv, StreamInv, Is
  <2>3. ToCome' = ToCome /\ page'.calls = page.calls
    BY DEF ToCome, InReports
  <2>4. page.encoder = 0 /\ page.connection = 0 /\ page.recovery.at = "none" /\ ~page.promise
        /\ (\A n \in page.encoders \cup page.opening \cup page.open : n # 0)
    BY DEF IInv, EncoderInv, ConnectionInv, NumberInv
  <2>5. page.opening = {} /\ page.open = {}
    BY <2>1, <2>4, CallNumbers DEF IInv, ConnectionInv
  <2> QED
    BY <2>1, <2>2, <2>3, <2>4, <2>5, CallNumbers DEF ConnectionInv, Is
<1> QED
  BY <1>3, <1>4, <1>5, <1>6, <1>7, <1>8, <1>9, <1>10, <1>11, <1>12, <1>13 DEF IInv

\* A reconfiguration has its connection.
LEMMA Reconnected ==
  ASSUME IInv,
         /\ page' \in Page
         /\ page'.opening = page.opening \ {page.connection}
         /\ page'.open = page.open \cup {page.connection}
         /\ page'.reconfiguring = FALSE
         /\ page'.loop = "read"
         /\ UNCHANGED <<page.alive, page.running, page.stopping, page.trusted,
                         page.stream, page.reader, page.encoder, page.encoders,
                         page.connection, page.promise, page.recovery, page.startup,
                         page.made, page.calls>>,
         page.loop = "connect" /\ page.alive,
         page.connection \in page.opening,
         UNCHANGED <<mode, starting, stopper, closing, reports, sources>>
  PROVE  IInv'
<1>1. starting \notin {"ensure", "send"}
  BY CallNumbers, NewDocument DEF Idle, NotRecovering
<1>2. TypeInv'
  BY <1>1, CallNumbers DEF IInv, TypeInv
<1>3. WorkerInv'
  BY <1>1, CallNumbers DEF IInv, WorkerInv
<1>4. StopInv'
  BY <1>1, CallNumbers DEF IInv, StopInv
<1>5. StartInv'
  BY <1>1, CallNumbers DEF IInv, StartInv, InReports
<1>6. CallInv'
  BY <1>1, CallNumbers DEF IInv, CallInv, InReports
<1>7. NumberInv'
  BY <1>1, CallNumbers DEF IInv, NumberInv
<1>8. StartupInv'
  BY <1>1, CallNumbers DEF IInv, StartupInv, Is
<1>9. RunInv'
  BY <1>1, CallNumbers DEF IInv, RunInv, InReports, TypeInv, Page
<1>10. StreamInv'
  BY <1>1, CallNumbers DEF IInv, StreamInv, ToCome, Is, InReports
<1>11. EncoderInv'
  BY <1>1, CallNumbers DEF IInv, EncoderInv, ToCome, Is, InReports
<1>12. ConnectionInv'
  BY <1>1, CallNumbers DEF IInv, ConnectionInv, ToCome, InReports
<1> QED
  BY <1>2, <1>3, <1>4, <1>5, <1>6, <1>7, <1>8, <1>9, <1>10, <1>11, <1>12 DEF IInv

\* The frame loop ends, while the capture is being stopped.
LEMMA LoopOver ==
  ASSUME IInv,
         /\ page' \in Page
         /\ page'.loop = "none"
         /\ UNCHANGED <<page.alive, page.running, page.stopping, page.trusted,
                         page.stream, page.reader, page.encoder, page.encoders,
                         page.promise, page.recovery, page.startup, page.made,
                         page.calls>>,
         page.alive /\ page.loop \in {"read", "allocate", "create", "connect"},
         page'.opening \subseteq page.opening /\ page'.open \subseteq page.open,
         page'.connection = page.connection \/ (page'.connection = 0 /\ page.loop = "connect"),
         page'.connection # page.connection => page.connection \notin page'.opening \cup page'.open,
         ~page.running,
         UNCHANGED <<mode, starting, stopper, closing, reports, sources>>
  PROVE  IInv'
<1>1. starting \notin {"ensure", "send"}
  BY CallNumbers, NewDocument DEF Idle, NotRecovering
<1>2. TypeInv'
  BY <1>1, CallNumbers DEF IInv, TypeInv
<1>3. WorkerInv'
  BY <1>1, CallNumbers DEF IInv, WorkerInv
<1>4. StopInv'
  BY <1>1, CallNumbers DEF IInv, StopInv
<1>5. StartInv'
  BY <1>1, CallNumbers DEF IInv, StartInv, InReports
<1>6. CallInv'
  BY <1>1, CallNumbers DEF IInv, CallInv, InReports
<1>7. NumberInv'
  BY <1>1, CallNumbers DEF IInv, NumberInv, TypeInv, Page
<1>8. StartupInv'
  BY <1>1, CallNumbers DEF IInv, StartupInv, Is, CallInv, StartInv, RunInv, InReports
<1>9. RunInv'
  BY <1>1, CallNumbers DEF IInv, RunInv, InReports
<1>10. StreamInv'
  BY <1>1, CallNumbers DEF IInv, StreamInv, ToCome, Is, InReports
<1>11. EncoderInv'
  BY <1>1, CallNumbers DEF IInv, EncoderInv, ToCome, Is, InReports
<1>12. ConnectionInv'
  BY <1>1, CallNumbers DEF IInv, ConnectionInv, ToCome, InReports
<1> QED
  BY <1>2, <1>3, <1>4, <1>5, <1>6, <1>7, <1>8, <1>9, <1>10, <1>11, <1>12 DEF IInv

\* The frame loop ends, and the document reports it.
LEMMA LoopReported ==
  ASSUME IInv, NEW message \in {"loopFailed", "loopEnded"},
         /\ page' \in Page
         /\ page'.loop = "report"
         /\ page'.running = FALSE
         /\ UNCHANGED <<page.alive, page.stopping, page.trusted, page.stream,
                         page.reader, page.encoder, page.encoders, page.promise,
                         page.recovery, page.startup, page.made, page.calls>>,
         page.alive /\ page.loop \in {"read", "allocate", "create", "connect"},
         page'.opening \subseteq page.opening /\ page'.open \subseteq page.open,
         page'.connection = page.connection \/ (page'.connection = 0 /\ page.loop = "connect"),
         page'.connection # page.connection => page.connection \notin page'.opening \cup page'.open,
         UNCHANGED <<mode, starting, stopper, closing, sources>>,
         reports' = Append(reports, message)
  PROVE  IInv'
<1>1. starting \notin {"ensure", "send"}
  BY CallNumbers, NewDocument DEF Idle, NotRecovering
<1>2. /\ reports' \in Seq(Reports) /\ Len(reports) \in Nat /\ Len(reports') = Len(reports) + 1
      /\ \A n \in 1..Len(reports) : reports'[n] = reports[n] /\ n \in 1..Len(reports')
      /\ reports'[Len(reports) + 1] = message /\ Len(reports) + 1 \in 1..Len(reports')
      /\ \A n \in 1..Len(reports') : n \in 1..Len(reports) \/ n = Len(reports) + 1
  BY Appended DEF IInv, Reports, EndReports, StartAnswers
<1>3. TypeInv'
  BY <1>1, <1>2, CallNumbers DEF IInv, TypeInv
<1>4. WorkerInv'
  BY <1>1, <1>2, CallNumbers DEF IInv, WorkerInv
<1>5. StopInv'
  BY <1>1, <1>2, CallNumbers DEF IInv, StopInv, EndReports, StartAnswers, Acknowledged
<1>6. StartInv'
  BY <1>1, <1>2, CallNumbers DEF IInv, StartInv, InReports, EndReports, StartAnswers,
     Acknowledged
<1>7. CallInv'
  BY <1>1, <1>2, CallNumbers DEF IInv, CallInv, InReports, EndReports, StartAnswers,
     Acknowledged
<1>8. NumberInv'
  BY <1>1, <1>2, CallNumbers DEF IInv, NumberInv, TypeInv, Page
<1>9. StartupInv'
  BY <1>1, <1>2, CallNumbers DEF IInv, StartupInv, Is, CallInv, StartInv, RunInv, InReports
<1>10. RunInv'
  BY <1>1, <1>2, CallNumbers DEF IInv, RunInv, InReports, EndReports, StartAnswers, Acknowledged
<1>11. StreamInv'
  BY <1>1, <1>2, CallNumbers DEF IInv, StreamInv, ToCome, Is, InReports, EndReports,
     StartAnswers, Acknowledged
<1>12. EncoderInv'
  BY <1>1, <1>2, CallNumbers DEF IInv, EncoderInv, ToCome, Is, InReports, EndReports,
     StartAnswers, Acknowledged
<1>13. ConnectionInv'
  BY <1>1, <1>2, CallNumbers DEF IInv, ConnectionInv, ToCome, InReports, EndReports,
     StartAnswers, Acknowledged
<1> QED
  BY <1>3, <1>4, <1>5, <1>6, <1>7, <1>8, <1>9, <1>10, <1>11, <1>12, <1>13 DEF IInv

\* The end of the track is no news while the capture is being stopped.
LEMMA TrackEndedWhileStopping ==
  ASSUME IInv,
         /\ page' \in Page
         /\ page'.stream = "ended"
         /\ UNCHANGED <<page.alive, page.running, page.stopping, page.reconfiguring,
                         page.trusted, page.reader, page.encoder, page.encoders,
                         page.connection, page.opening, page.open, page.promise,
                         page.recovery, page.startup, page.loop, page.made, page.calls>>,
         page.stream = "ending" /\ page.alive /\ page.stopping,
         UNCHANGED <<mode, starting, stopper, closing, reports, sources>>
  PROVE  IInv'
<1>1. starting \notin {"ensure", "send"}
  BY CallNumbers, NewDocument DEF Idle, NotRecovering
<1>2. TypeInv'
  BY <1>1, CallNumbers DEF IInv, TypeInv
<1>3. WorkerInv'
  BY <1>1, CallNumbers DEF IInv, WorkerInv
<1>4. StopInv'
  BY <1>1, CallNumbers DEF IInv, StopInv
<1>5. StartInv'
  BY <1>1, CallNumbers DEF IInv, StartInv, InReports
<1>6. CallInv'
  BY <1>1, CallNumbers DEF IInv, CallInv, InReports
<1>7. NumberInv'
  BY <1>1, CallNumbers DEF IInv, NumberInv
<1>8. StartupInv'
  BY <1>1, CallNumbers DEF IInv, StartupInv, Is
<1>9. RunInv'
  BY <1>1, CallNumbers DEF IInv, RunInv, InReports
<1>10. StreamInv'
  BY <1>1, CallNumbers DEF IInv, StreamInv, ToCome, Is, InReports
<1>11. EncoderInv'
  BY <1>1, CallNumbers DEF IInv, EncoderInv, ToCome, Is, InReports
<1>12. ConnectionInv'
  BY <1>1, CallNumbers DEF IInv, ConnectionInv, ToCome, InReports
<1> QED
  BY <1>2, <1>3, <1>4, <1>5, <1>6, <1>7, <1>8, <1>9, <1>10, <1>11, <1>12 DEF IInv

\* The end of the track is reported.
LEMMA TrackEndReported ==
  ASSUME IInv,
         /\ page' \in Page
         /\ page'.stream = "ended"
         /\ page'.running = FALSE
         /\ UNCHANGED <<page.alive, page.stopping, page.reconfiguring, page.trusted,
                         page.reader, page.encoder, page.encoders, page.connection,
                         page.opening, page.open, page.promise, page.recovery,
                         page.startup, page.loop, page.made, page.calls>>,
         page.stream = "ending" /\ page.alive /\ ~page.stopping,
         UNCHANGED <<mode, starting, stopper, closing, sources>>,
         reports' = Append(reports, "ended")
  PROVE  IInv'
<1>1. starting \notin {"ensure", "send"}
  BY CallNumbers, NewDocument DEF Idle, NotRecovering
<1>2. /\ reports' \in Seq(Reports) /\ Len(reports) \in Nat /\ Len(reports') = Len(reports) + 1
      /\ \A n \in 1..Len(reports) : reports'[n] = reports[n] /\ n \in 1..Len(reports')
      /\ reports'[Len(reports) + 1] = "ended" /\ Len(reports) + 1 \in 1..Len(reports')
      /\ \A n \in 1..Len(reports') : n \in 1..Len(reports) \/ n = Len(reports) + 1
  BY Appended DEF IInv, Reports, EndReports, StartAnswers
<1>3. TypeInv'
  BY <1>1, <1>2, CallNumbers DEF IInv, TypeInv
<1>4. WorkerInv'
  BY <1>1, <1>2, CallNumbers DEF IInv, WorkerInv
<1>5. StopInv'
  BY <1>1, <1>2, CallNumbers DEF IInv, StopInv, EndReports, StartAnswers, Acknowledged
<1>6. StartInv'
  BY <1>1, <1>2, CallNumbers DEF IInv, StartInv, InReports, EndReports, StartAnswers,
     Acknowledged
<1>7. CallInv'
  BY <1>1, <1>2, CallNumbers DEF IInv, CallInv, InReports, EndReports, StartAnswers,
     Acknowledged
<1>8. NumberInv'
  BY <1>1, <1>2, CallNumbers DEF IInv, NumberInv
<1>9. StartupInv'
  BY <1>1, <1>2, CallNumbers DEF IInv, StartupInv, Is
<1>10. RunInv'
  BY <1>1, <1>2, CallNumbers DEF IInv, RunInv, InReports, EndReports, StartAnswers, Acknowledged
<1>11. StreamInv'
  BY <1>1, <1>2, CallNumbers DEF IInv, StreamInv, ToCome, Is, InReports, EndReports,
     StartAnswers, Acknowledged
<1>12. EncoderInv'
  BY <1>1, <1>2, CallNumbers DEF IInv, EncoderInv, ToCome, Is, InReports, EndReports,
     StartAnswers, Acknowledged
<1>13. ConnectionInv'
  BY <1>1, <1>2, CallNumbers DEF IInv, ConnectionInv, ToCome, InReports, EndReports,
     StartAnswers, Acknowledged
<1> QED
  BY <1>3, <1>4, <1>5, <1>6, <1>7, <1>8, <1>9, <1>10, <1>11, <1>12, <1>13 DEF IInv

\* A failure is reported, and stopCapture begins.
LEMMA CaptureFails ==
  ASSUME IInv, NEW k \in Calls,
         /\ page' \in Page
         /\ page'.running = FALSE
         /\ page'.calls[k].at = "begin"
         /\ page'.calls[k].for = "none"
         /\ page'.calls[k].encoder = 0 /\ page'.calls[k].connection = 0
         /\ page'.calls[k].waits = FALSE
         /\ \A j \in 0..MaxCalls : j # k => page'.calls[j] = page.calls[j]
         /\ UNCHANGED <<page.alive, page.stopping, page.reconfiguring, page.trusted,
                         page.stream, page.reader, page.encoder, page.connection,
                         page.startup, page.loop, page.made>>,
         page.alive /\ page.calls[k].at = "none",
         page.encoders # {} \/ page.open # {} \/ page.recovery.at # "none",
         page'.encoders \subseteq page.encoders,
         page'.opening \subseteq page.opening /\ page'.open \subseteq page.open,
         \/ page'.recovery = page.recovery /\ page'.promise = page.promise
         \/ page'.recovery = NotRecovering /\ page'.promise = FALSE /\ page.running,
         UNCHANGED <<mode, starting, stopper, closing, sources>>,
         reports' = Append(reports, "failed")
  PROVE  IInv'
<1>1. starting \notin {"ensure", "send"}
  BY CallNumbers, NewDocument DEF Idle, NotRecovering
<1>2. /\ reports' \in Seq(Reports) /\ Len(reports) \in Nat /\ Len(reports') = Len(reports) + 1
      /\ \A n \in 1..Len(reports) : reports'[n] = reports[n] /\ n \in 1..Len(reports')
      /\ reports'[Len(reports) + 1] = "failed" /\ Len(reports) + 1 \in 1..Len(reports')
      /\ \A n \in 1..Len(reports') : n \in 1..Len(reports) \/ n = Len(reports) + 1
  BY Appended DEF IInv, Reports, EndReports, StartAnswers
<1>3. TypeInv'
  BY <1>1, <1>2, CallNumbers DEF IInv, TypeInv, NotRecovering
<1>4. WorkerInv'
  BY <1>1, <1>2, CallNumbers DEF IInv, WorkerInv, NotRecovering
<1>5. StopInv'
  BY <1>1, <1>2, CallNumbers, SMTT(30) DEF IInv, StopInv, NotRecovering, EndReports,
     StartAnswers, Acknowledged
<1>6. /\ InReports({"started"})' <=> InReports({"started"})
      /\ InReports({"loopFailed", "loopEnded"})' <=> InReports({"loopFailed", "loopEnded"})
      /\ InReports(Acknowledged)' <=> InReports(Acknowledged)
      /\ InReports(EndReports)'
  BY Reported DEF IInv, Reports, EndReports, Acknowledged
<1>7. /\ \A i \in Calls : page'.calls[i].for = "start" =>
           i # k /\ page'.calls[i] = page.calls[i]
      /\ \A n \in 1..Len(reports') : reports'[n] # "failed" => n \in 1..Len(reports)
  BY <1>2, CallNumbers
<1>8. StartInv'
  <2>1. \A n \in 1..Len(reports') : reports'[n] \in StartAnswers =>
          n \in 1..Len(reports) /\ reports[n] = reports'[n]
    BY <1>2, <1>7 DEF StartAnswers
  <2>2. \A n \in 1..Len(reports') : reports'[n] \in StartAnswers =>
          /\ starting' = "wait" /\ page'.startup = "none"
          /\ \A m \in 1..Len(reports') : reports'[m] \in StartAnswers => m = n
          /\ reports'[n] = "started" => n = 1 /\ closing' = 0
    BY <2>1 DEF IInv, StartInv
  <2>3. /\ page'.startup # "none" => starting' = "wait"
        /\ \A i \in Calls : page'.calls[i].for = "start" => page'.startup = "catch"
        /\ \A i, j \in Calls :
             page'.calls[i].for = "start" /\ page'.calls[j].for = "start" => i = j
    BY <1>7 DEF IInv, StartInv
  <2> QED
    BY <1>6, <2>2, <2>3 DEF StartInv
<1>9. CallInv'
  <2>1. \A m \in 1..Len(reports') : reports'[m] \in {"loopFailed", "loopEnded"} =>
          m \in 1..Len(reports) /\ reports[m] = reports'[m]
    BY <1>2, <1>7
  <2>2. \A m, n \in 1..Len(reports') :
          reports'[m] \in {"loopFailed", "loopEnded"}
            /\ reports'[n] \in {"loopFailed", "loopEnded"} => m = n
    BY <2>1 DEF IInv, CallInv
  <2>3. /\ \A i \in Calls : page'.calls[i].at = "none" => page'.calls[i] = Idle
        /\ page'.calls[0] = page.calls[0]
    BY CallNumbers DEF IInv, CallInv
  <2> QED
    BY <1>6, <2>2, <2>3 DEF IInv, CallInv
<1>10. NumberInv'
  <2>1. /\ page.made \in Nat
        /\ \/ page'.recovery.connection = page.recovery.connection
           \/ page'.recovery.connection = 0
        /\ \A i \in 0..MaxCalls :
             \/ page'.calls[i].connection = page.calls[i].connection
             \/ page'.calls[i].connection = 0
    BY PageTypes, CallNumbers, SMTT(30) DEF Page, NotRecovering
  <2> QED
    BY <2>1 DEF IInv, NumberInv
<1>11. StartupInv'
  BY <1>1, <1>2, CallNumbers DEF IInv, StartupInv, Is, NotRecovering
<1>12. RunInv'
  BY DEF RunInv
<1>13. /\ Is({"begin"})'
       /\ \A positions \in SUBSET {"cancel", "loop", "flush", "drain", "recovery"} :
            Is(positions)' <=> Is(positions)
  BY CallNumbers DEF Is
<1>14. StreamInv'
  <2>1. page'.stream # "none" \/ page'.reader =>
          page'.running \/ page'.startup # "none" \/ InReports(Acknowledged)'
            \/ Is({"begin", "cancel"})'
    BY CallNumbers DEF Is
  <2> QED
    BY <1>13, <2>1 DEF IInv, StreamInv, ToCome
<1>15. EncoderInv'
  <2>1. page'.encoder # 0 => Is({"begin", "cancel", "loop"})'
    BY CallNumbers DEF Is
  <2>2. \A n \in page'.encoders :
          \/ n = page'.encoder
          \/ \E i \in Calls : page'.calls[i].at = "flush" /\ page'.calls[i].encoder = n
    <3> SUFFICES ASSUME NEW n \in page.encoders
                 PROVE  \/ n = page.encoder
                        \/ \E i \in Calls : page'.calls[i].at = "flush"
                                            /\ page'.calls[i].encoder = n
      OBVIOUS
    <3> QED
      BY CallNumbers DEF IInv, EncoderInv
  <2>3. \A i \in Calls : /\ page'.calls[i].at \in {"flush", "drain", "recovery"}
                         /\ page'.startup = "none" \/ page'.calls[i].for = "start"
                         => page'.encoder = 0
    BY CallNumbers DEF IInv, EncoderInv
  <2> QED
    BY <2>1, <2>2, <2>3 DEF IInv, EncoderInv
<1>16. ConnectionInv'
  <2>1. \A i \in 0..MaxCalls :
          page'.calls[i].at \in {"drain", "recovery"} => i # k /\ page'.calls[i] = page.calls[i]
    BY CallNumbers
  <2>2. \A i \in 0..MaxCalls :
          page.calls[i].at \in {"drain", "recovery"} => i # k /\ page'.calls[i] = page.calls[i]
    BY CallNumbers
  <2>3. \A n \in page'.opening \cup page'.open :
          \/ n = page'.connection
          \/ \E i \in 0..MaxCalls :
               page'.calls[i].at = "drain" /\ page'.calls[i].connection = n
    <3> SUFFICES ASSUME NEW n \in page.opening \cup page.open
                 PROVE  \/ n = page.connection
                        \/ \E i \in 0..MaxCalls :
                             page'.calls[i].at = "drain" /\ page'.calls[i].connection = n
      OBVIOUS
    <3> QED
      BY <2>2 DEF IInv, ConnectionInv
  <2>4. page'.promise => page.promise
    OBVIOUS
  <2>5. /\ \A i \in 0..MaxCalls :
             page'.calls[i].at \in {"drain", "recovery"} =>
               ~page'.promise /\ page'.connection \in {0, page'.calls[i].connection}
        /\ \A i \in 0..MaxCalls :
             page'.calls[i].at = "recovery" =>
               page'.calls[i].connection \notin page'.opening \cup page'.open
    BY <2>1, <2>4 DEF IInv, ConnectionInv
  <2>6. page'.recovery.at # "none" =>
          \/ page'.promise /\ page'.connection # 0
          \/ \E i \in 0..MaxCalls :
               page'.calls[i].at \in {"drain", "recovery"} /\ page'.calls[i].waits
    BY <2>2 DEF IInv, ConnectionInv, NotRecovering
  <2>7. page'.loop \in {"create", "connect"} => page'.recovery.at = "none" /\ ~page'.promise
    BY <2>4 DEF IInv, ConnectionInv, NotRecovering
  <2> QED
    BY <2>3, <2>4, <2>5, <2>6, <2>7 DEF IInv, ConnectionInv
<1> QED
  BY <1>3, <1>4, <1>5, <1>8, <1>9, <1>10, <1>11, <1>12, <1>14, <1>15, <1>16 DEF IInv

\* The encoder fails while the capture is being stopped.
LEMMA EncoderClosed ==
  ASSUME IInv,
         /\ page' \in Page
         /\ UNCHANGED <<page.alive, page.running, page.stopping, page.reconfiguring,
                         page.trusted, page.stream, page.reader, page.encoder,
                         page.connection, page.opening, page.open, page.promise,
                         page.recovery, page.startup, page.loop, page.made, page.calls>>,
         page.alive /\ page.encoders # {},
         page'.encoders \subseteq page.encoders,
         UNCHANGED <<mode, starting, stopper, closing, reports, sources>>
  PROVE  IInv'
<1>1. starting \notin {"ensure", "send"}
  BY CallNumbers, NewDocument DEF Idle, NotRecovering
<1>2. TypeInv'
  BY <1>1, CallNumbers DEF IInv, TypeInv
<1>3. WorkerInv'
  BY <1>1, CallNumbers DEF IInv, WorkerInv
<1>4. StopInv'
  BY <1>1, CallNumbers DEF IInv, StopInv
<1>5. StartInv'
  BY <1>1, CallNumbers DEF IInv, StartInv, InReports
<1>6. CallInv'
  BY <1>1, CallNumbers DEF IInv, CallInv, InReports
<1>7. NumberInv'
  BY <1>1, CallNumbers DEF IInv, NumberInv
<1>8. StartupInv'
  BY <1>1, CallNumbers DEF IInv, StartupInv, Is
<1>9. RunInv'
  BY <1>1, CallNumbers DEF IInv, RunInv, InReports
<1>10. StreamInv'
  BY <1>1, CallNumbers DEF IInv, StreamInv, ToCome, Is, InReports
<1>11. EncoderInv'
  BY <1>1, CallNumbers DEF IInv, EncoderInv, ToCome, Is, InReports
<1>12. ConnectionInv'
  BY <1>1, CallNumbers DEF IInv, ConnectionInv, ToCome, InReports
<1> QED
  BY <1>2, <1>3, <1>4, <1>5, <1>6, <1>7, <1>8, <1>9, <1>10, <1>11, <1>12 DEF IInv

\* startCapture fails before it has an encoder or a connection.
LEMMA StartFailsEarly ==
  ASSUME IInv, NEW k \in Calls,
         /\ page' \in Page
         /\ page'.startup = "catch"
         /\ page'.calls[k].at = "begin"
         /\ page'.calls[k].for = "start"
         /\ page'.calls[k].encoder = 0 /\ page'.calls[k].connection = 0
         /\ page'.calls[k].waits = FALSE
         /\ \A j \in 0..MaxCalls : j # k => page'.calls[j] = page.calls[j]
         /\ UNCHANGED <<page.alive, page.running, page.stopping, page.reconfiguring,
                         page.trusted, page.stream, page.reader, page.encoder,
                         page.encoders, page.connection, page.opening, page.open,
                         page.promise, page.recovery, page.loop, page.made>>,
         page.alive /\ page.calls[k].at = "none",
         page.startup \in {"media", "first", "encoder"},
         UNCHANGED <<mode, starting, stopper, closing, reports, sources>>
  PROVE  IInv'
<1>1. starting \notin {"ensure", "send"}
  BY CallNumbers, NewDocument DEF Idle, NotRecovering
<1>2. TypeInv'
  BY <1>1, CallNumbers DEF IInv, TypeInv
<1>3. WorkerInv'
  BY <1>1, CallNumbers DEF IInv, WorkerInv
<1>4. StopInv'
  BY <1>1, CallNumbers DEF IInv, StopInv
<1>5. StartInv'
  BY <1>1, CallNumbers DEF IInv, StartInv, InReports
<1>6. CallInv'
  BY <1>1, CallNumbers DEF IInv, CallInv, InReports
<1>7. NumberInv'
  BY <1>1, CallNumbers DEF IInv, NumberInv, TypeInv, Page
<1>8. StartupInv'
  BY <1>1, CallNumbers DEF IInv, StartupInv, Is
<1>9. RunInv'
  BY <1>1, CallNumbers DEF IInv, RunInv, InReports
<1>10. StreamInv'
  BY <1>1, CallNumbers DEF IInv, StreamInv, ToCome, Is, InReports
<1>11. EncoderInv'
  BY <1>1, CallNumbers DEF IInv, EncoderInv, ToCome, Is, InReports
<1>12. ConnectionInv'
  BY <1>1, CallNumbers DEF IInv, ConnectionInv, ToCome, InReports
<1> QED
  BY <1>2, <1>3, <1>4, <1>5, <1>6, <1>7, <1>8, <1>9, <1>10, <1>11, <1>12 DEF IInv

\* startCapture fails with an encoder, for want of a device.
LEMMA StartFailsUntrusted ==
  ASSUME IInv, NEW k \in Calls,
         /\ page' \in Page
         /\ page'.startup = "catch"
         /\ page'.encoder = page.made + 1
         /\ page'.encoders = page.encoders \cup {page.made + 1}
         /\ page'.made = page.made + 1
         /\ page'.calls[k].at = "begin"
         /\ page'.calls[k].for = "start"
         /\ page'.calls[k].encoder = 0 /\ page'.calls[k].connection = 0
         /\ page'.calls[k].waits = FALSE
         /\ \A j \in 0..MaxCalls : j # k => page'.calls[j] = page.calls[j]
         /\ UNCHANGED <<page.alive, page.running, page.stopping, page.reconfiguring,
                         page.trusted, page.stream, page.reader, page.connection,
                         page.opening, page.open, page.promise, page.recovery, page.loop>>,
         page.alive /\ page.calls[k].at = "none",
         page.startup = "encoder",
         UNCHANGED <<mode, starting, stopper, closing, reports, sources>>
  PROVE  IInv'
<1>1. starting \notin {"ensure", "send"}
  BY CallNumbers, NewDocument DEF Idle, NotRecovering
<1>2. TypeInv'
  BY <1>1, CallNumbers DEF IInv, TypeInv
<1>3. WorkerInv'
  BY <1>1, CallNumbers DEF IInv, WorkerInv
<1>4. StopInv'
  BY <1>1, CallNumbers DEF IInv, StopInv
<1>5. StartInv'
  BY <1>1, CallNumbers DEF IInv, StartInv, InReports
<1>6. CallInv'
  BY <1>1, CallNumbers DEF IInv, CallInv, InReports
<1>7. NumberInv'
  <2>1. /\ page.made = 0 /\ page.connection = 0 /\ sources \in Nat
        /\ page.encoders = {} /\ page.opening = {} /\ page.open = {}
    BY DEF IInv, TypeInv, StartupInv
  <2>2. page.recovery.connection = 0 /\ \A i \in 0..MaxCalls : page.calls[i].connection = 0
    BY <2>1, PageTypes DEF IInv, NumberInv, RecoveryState, CallState
  <2>3. page'.made = 1 /\ page'.encoder = 1 /\ page'.encoders = {1} /\ page'.loop = "none"
    BY <2>1 DEF IInv, CallInv
  <2>4. \A i \in 0..MaxCalls : page'.calls[i].connection = 0
    BY <2>2
  <2> QED
    BY <2>1, <2>2, <2>3, <2>4 DEF NumberInv
<1>8. StartupInv'
  BY <1>1, CallNumbers DEF IInv, StartupInv, Is
<1>9. RunInv'
  BY <1>1, CallNumbers DEF IInv, RunInv, InReports
<1>10. StreamInv'
  BY <1>1, CallNumbers DEF IInv, StreamInv, ToCome, Is, InReports
<1>11. EncoderInv'
  BY <1>1, CallNumbers DEF IInv, EncoderInv, ToCome, Is, InReports, CallInv, RunInv, StartupInv,
     StreamInv
<1>12. ConnectionInv'
  BY <1>1, CallNumbers DEF IInv, ConnectionInv, ToCome, InReports
<1> QED
  BY <1>2, <1>3, <1>4, <1>5, <1>6, <1>7, <1>8, <1>9, <1>10, <1>11, <1>12 DEF IInv

\* startCapture fails when its connection was to open.
LEMMA StartFailsLate ==
  ASSUME IInv, NEW k \in Calls,
         /\ page' \in Page
         /\ page'.startup = "catch"
         /\ page'.calls[k].at = "begin"
         /\ page'.calls[k].for = "start"
         /\ page'.calls[k].encoder = 0 /\ page'.calls[k].connection = 0
         /\ page'.calls[k].waits = FALSE
         /\ \A j \in 0..MaxCalls : j # k => page'.calls[j] = page.calls[j]
         /\ UNCHANGED <<page.alive, page.running, page.stopping, page.reconfiguring,
                         page.trusted, page.stream, page.reader, page.encoder,
                         page.encoders, page.promise, page.recovery, page.loop,
                         page.made>>,
         page.alive /\ page.calls[k].at = "none",
         page.startup = "connect",
         page'.opening \cup page'.open \subseteq page.opening \cup page.open,
         page'.connection \in {0, page.connection},
         page'.connection # page.connection => page.connection \notin page'.opening \cup page'.open,
         UNCHANGED <<mode, starting, stopper, closing, reports, sources>>
  PROVE  IInv'
<1>1. starting \notin {"ensure", "send"}
  BY CallNumbers, NewDocument DEF Idle, NotRecovering
<1>2. TypeInv'
  BY <1>1, CallNumbers DEF IInv, TypeInv
<1>3. WorkerInv'
  BY <1>1, CallNumbers DEF IInv, WorkerInv
<1>4. StopInv'
  BY <1>1, CallNumbers DEF IInv, StopInv
<1>5. StartInv'
  BY <1>1, CallNumbers DEF IInv, StartInv, InReports
<1>6. CallInv'
  BY <1>1, CallNumbers DEF IInv, CallInv, InReports
<1>7. NumberInv'
  BY <1>1, CallNumbers, SMTT(30) DEF IInv, NumberInv, TypeInv, Page
<1>8. StartupInv'
  BY <1>1, CallNumbers DEF IInv, StartupInv, Is
<1>9. RunInv'
  BY <1>1, CallNumbers DEF IInv, RunInv, InReports
<1>10. StreamInv'
  BY <1>1, CallNumbers DEF IInv, StreamInv, ToCome, Is, InReports
<1>11. EncoderInv'
  BY <1>1, CallNumbers DEF IInv, EncoderInv, ToCome, Is, InReports
<1>12. ConnectionInv'
  BY <1>1, CallNumbers DEF IInv, ConnectionInv, ToCome, InReports, CallInv, RunInv, StartupInv,
     StreamInv, Is
<1> QED
  BY <1>2, <1>3, <1>4, <1>5, <1>6, <1>7, <1>8, <1>9, <1>10, <1>11, <1>12 DEF IInv

\* The capture begins.
LEMMA Started ==
  ASSUME IInv,
         /\ page' \in Page
         /\ page'.running = TRUE
         /\ page'.reader = TRUE
         /\ page'.loop = "read"
         /\ page'.startup = "none"
         /\ page'.opening = page.opening \ {page.connection}
         /\ page'.open = page.open \cup {page.connection}
         /\ UNCHANGED <<page.alive, page.stopping, page.reconfiguring, page.trusted,
                         page.stream, page.encoder, page.encoders, page.connection,
                         page.promise, page.recovery, page.made, page.calls>>,
         page.alive /\ page.startup = "connect" /\ page.stream = "live",
         page.connection \in page.opening,
         \A i \in Calls : page.calls[i].at # "begin",
         UNCHANGED <<mode, starting, stopper, closing, sources>>,
         reports' = Append(reports, "started")
  PROVE  IInv'
<1>1. starting \notin {"ensure", "send"}
  BY CallNumbers, NewDocument DEF Idle, NotRecovering
<1>2. /\ reports' \in Seq(Reports) /\ Len(reports) \in Nat /\ Len(reports') = Len(reports) + 1
      /\ \A n \in 1..Len(reports) : reports'[n] = reports[n] /\ n \in 1..Len(reports')
      /\ reports'[Len(reports) + 1] = "started" /\ Len(reports) + 1 \in 1..Len(reports')
      /\ \A n \in 1..Len(reports') : n \in 1..Len(reports) \/ n = Len(reports) + 1
  BY Appended DEF IInv, Reports, EndReports, StartAnswers
<1>3. TypeInv'
  BY <1>1, <1>2, CallNumbers DEF IInv, TypeInv
<1>4. WorkerInv'
  BY <1>1, <1>2, CallNumbers DEF IInv, WorkerInv
<1>5. StopInv'
  BY <1>1, <1>2, CallNumbers DEF IInv, StopInv, EndReports, StartAnswers, Acknowledged
<1>6. StartInv'
  BY <1>1, <1>2, CallNumbers DEF IInv, StartInv, InReports, EndReports, StartAnswers,
     Acknowledged, CallInv, StartupInv, RunInv, Is
<1>7. CallInv'
  BY <1>1, <1>2, CallNumbers DEF IInv, CallInv, InReports, EndReports, StartAnswers,
     Acknowledged
<1>8. NumberInv'
  BY <1>1, <1>2, CallNumbers DEF IInv, NumberInv
<1>9. StartupInv'
  BY <1>1, <1>2, CallNumbers DEF IInv, StartupInv, Is
<1>10. RunInv'
  <2>1. (\A i \in Calls : page.calls[i].at = "none") /\ reports = <<>> /\ ~page.stopping
    BY CallNumbers DEF IInv, StartupInv
  <2>2. ~InReports(EndReports)'
    BY <1>2, <2>1 DEF InReports, EndReports
  <2>3. page.connection # 0 /\ page.recovery.at = "none" /\ ~page.promise /\ ~page.reconfiguring
    BY DEF IInv, NumberInv, StartupInv
  <2> QED
    BY <2>1, <2>2, <2>3, CallNumbers, PageTypes DEF RunInv, Page
<1>11. StreamInv'
  BY <1>1, <1>2, CallNumbers DEF IInv, StreamInv, ToCome, Is, InReports, EndReports,
     StartAnswers, Acknowledged, CallInv, RunInv, StartupInv, StartInv
<1>12. EncoderInv'
  BY <1>1, <1>2, CallNumbers DEF IInv, EncoderInv, ToCome, Is, InReports, EndReports,
     StartAnswers, Acknowledged, CallInv, RunInv, StartupInv, StreamInv
<1>13. ConnectionInv'
  BY <1>1, <1>2, CallNumbers DEF IInv, ConnectionInv, ToCome, InReports, EndReports,
     StartAnswers, Acknowledged
<1> QED
  BY <1>3, <1>4, <1>5, <1>6, <1>7, <1>8, <1>9, <1>10, <1>11, <1>12, <1>13 DEF IInv

\* A call of stopCapture begins by cancelling the reader.
LEMMA StopCaptureCancels ==
  ASSUME IInv, NEW i \in Calls,
         /\ page' \in Page
         /\ page'.running = FALSE
         /\ page'.stopping = TRUE
         /\ page'.recovery.at = page.recovery.at
         /\ page'.recovery.connection = page.recovery.connection
         /\ page'.reader = FALSE
         /\ page'.calls[i].at = "cancel"
         /\ page'.calls[i].encoder = page.calls[i].encoder
         /\ page'.calls[i].connection = page.calls[i].connection
         /\ page'.calls[i].waits = page.calls[i].waits
         /\ page'.calls[i].for = page.calls[i].for
         /\ \A j \in 0..MaxCalls : j # i => page'.calls[j] = page.calls[j]
         /\ UNCHANGED <<page.alive, page.reconfiguring, page.trusted, page.stream,
                         page.encoder, page.encoders, page.connection, page.opening,
                         page.open, page.promise, page.startup, page.loop, page.made>>,
         page.alive /\ page.calls[i].at = "begin",
         page'.recovery.at # "none" => page'.recovery.aborted,
         page.reader,
         UNCHANGED <<mode, starting, stopper, closing, reports, sources>>
  PROVE  IInv'
<1>1. starting \notin {"ensure", "send"}
  BY CallNumbers, NewDocument DEF Idle, NotRecovering
<1>2. TypeInv'
  BY <1>1, CallNumbers DEF IInv, TypeInv
<1>3. WorkerInv'
  BY <1>1, CallNumbers DEF IInv, WorkerInv
<1>4. StopInv'
  BY <1>1, CallNumbers DEF IInv, StopInv
<1>5. StartInv'
  <2>1. page.running => page.calls[i].for = "worker"
    BY CallNumbers DEF IInv, RunInv
  <2>2. page.running => stopper = "wait" /\ starting = "none" /\ mode # "capturing"
    BY <2>1 DEF IInv, StopInv, WorkerInv
  <2>3. page.running => ~InReports({"started"})
    BY <2>2 DEF IInv, StartInv, InReports, StartAnswers
  <2> QED
    BY <1>1, <2>2, <2>3, CallNumbers DEF IInv, StartInv, InReports
<1>6. CallInv'
  BY <1>1, CallNumbers DEF IInv, CallInv, InReports
<1>7. NumberInv'
  BY <1>1, CallNumbers DEF IInv, NumberInv
<1>8. StartupInv'
  BY <1>1, CallNumbers DEF IInv, StartupInv, Is
<1>9. RunInv'
  BY <1>1, CallNumbers DEF IInv, RunInv, InReports
<1>10. StreamInv'
  BY <1>1, CallNumbers DEF IInv, StreamInv, ToCome, Is, InReports
<1>11. EncoderInv'
  BY <1>1, CallNumbers DEF IInv, EncoderInv, ToCome, Is, InReports
<1>12. ConnectionInv'
  BY <1>1, CallNumbers DEF IInv, ConnectionInv, ToCome, InReports
<1> QED
  BY <1>2, <1>3, <1>4, <1>5, <1>6, <1>7, <1>8, <1>9, <1>10, <1>11, <1>12 DEF IInv

\* A call of stopCapture begins by stopping the tracks.
LEMMA StopCaptureStops ==
  ASSUME IInv, NEW i \in Calls,
         /\ page' \in Page
         /\ page'.running = FALSE
         /\ page'.stopping = TRUE
         /\ page'.recovery.at = page.recovery.at
         /\ page'.recovery.connection = page.recovery.connection
         /\ page'.stream = "none"
         /\ page'.calls[i].at = "loop"
         /\ page'.calls[i].encoder = page.calls[i].encoder
         /\ page'.calls[i].connection = page.calls[i].connection
         /\ page'.calls[i].waits = page.calls[i].waits
         /\ page'.calls[i].for = page.calls[i].for
         /\ \A j \in 0..MaxCalls : j # i => page'.calls[j] = page.calls[j]
         /\ UNCHANGED <<page.alive, page.reconfiguring, page.trusted, page.reader,
                         page.encoder, page.encoders, page.connection, page.opening,
                         page.open, page.promise, page.startup, page.loop, page.made>>,
         page.alive /\ page.calls[i].at = "begin",
         page'.recovery.at # "none" => page'.recovery.aborted,
         ~page.reader,
         UNCHANGED <<mode, starting, stopper, closing, reports, sources>>
  PROVE  IInv'
<1>1. starting \notin {"ensure", "send"}
  BY CallNumbers, NewDocument DEF Idle, NotRecovering
<1>2. TypeInv'
  BY <1>1, CallNumbers DEF IInv, TypeInv
<1>3. WorkerInv'
  BY <1>1, CallNumbers DEF IInv, WorkerInv
<1>4. StopInv'
  BY <1>1, CallNumbers DEF IInv, StopInv
<1>5. StartInv'
  <2>1. page.running => page.calls[i].for = "worker"
    BY CallNumbers DEF IInv, RunInv
  <2>2. page.running => stopper = "wait" /\ starting = "none" /\ mode # "capturing"
    BY <2>1 DEF IInv, StopInv, WorkerInv
  <2>3. page.running => ~InReports({"started"})
    BY <2>2 DEF IInv, StartInv, InReports, StartAnswers
  <2> QED
    BY <1>1, <2>2, <2>3, CallNumbers DEF IInv, StartInv, InReports
<1>6. CallInv'
  BY <1>1, CallNumbers DEF IInv, CallInv, InReports
<1>7. NumberInv'
  BY <1>1, CallNumbers DEF IInv, NumberInv
<1>8. StartupInv'
  BY <1>1, CallNumbers DEF IInv, StartupInv, Is
<1>9. RunInv'
  BY <1>1, CallNumbers DEF IInv, RunInv, InReports
<1>10. StreamInv'
  BY <1>1, CallNumbers DEF IInv, StreamInv, ToCome, Is, InReports
<1>11. EncoderInv'
  BY <1>1, CallNumbers DEF IInv, EncoderInv, ToCome, Is, InReports
<1>12. ConnectionInv'
  BY <1>1, CallNumbers DEF IInv, ConnectionInv, ToCome, InReports
<1> QED
  BY <1>2, <1>3, <1>4, <1>5, <1>6, <1>7, <1>8, <1>9, <1>10, <1>11, <1>12 DEF IInv

\* A call of stopCapture flushes the encoder.
LEMMA EncoderFlushes ==
  ASSUME IInv, NEW i \in Calls,
         /\ page' \in Page
         /\ page'.encoder = 0
         /\ page'.calls[i].at = "flush"
         /\ page'.calls[i].encoder = page.encoder
         /\ page'.calls[i].connection = page.calls[i].connection
         /\ page'.calls[i].waits = page.calls[i].waits
         /\ page'.calls[i].for = page.calls[i].for
         /\ \A j \in 0..MaxCalls : j # i => page'.calls[j] = page.calls[j]
         /\ UNCHANGED <<page.alive, page.running, page.stopping, page.reconfiguring,
                         page.trusted, page.stream, page.reader, page.encoders,
                         page.connection, page.opening, page.open, page.promise,
                         page.recovery, page.startup, page.loop, page.made>>,
         page.alive /\ page.calls[i].at = "loop" /\ page.loop = "none",
         page.encoder # 0,
         UNCHANGED <<mode, starting, stopper, closing, reports, sources>>
  PROVE  IInv'
<1>1. starting \notin {"ensure", "send"}
  BY CallNumbers, NewDocument DEF Idle, NotRecovering
<1>2. TypeInv'
  BY <1>1, CallNumbers DEF IInv, TypeInv
<1>3. WorkerInv'
  BY <1>1, CallNumbers DEF IInv, WorkerInv
<1>4. StopInv'
  BY <1>1, CallNumbers DEF IInv, StopInv
<1>5. StartInv'
  BY <1>1, CallNumbers DEF IInv, StartInv, InReports
<1>6. CallInv'
  BY <1>1, CallNumbers DEF IInv, CallInv, InReports
<1>7. NumberInv'
  BY <1>1, CallNumbers DEF IInv, NumberInv, TypeInv, Page
<1>8. StartupInv'
  BY <1>1, CallNumbers DEF IInv, StartupInv, Is
<1>9. RunInv'
  BY <1>1, CallNumbers DEF IInv, RunInv, InReports
<1>10. StreamInv'
  BY <1>1, CallNumbers DEF IInv, StreamInv, ToCome, Is, InReports
<1>11. EncoderInv'
  BY <1>1, CallNumbers DEF IInv, EncoderInv, ToCome, Is, InReports
<1>12. ConnectionInv'
  BY <1>1, CallNumbers, SMTT(30) DEF IInv, ConnectionInv, ToCome, InReports
<1> QED
  BY <1>2, <1>3, <1>4, <1>5, <1>6, <1>7, <1>8, <1>9, <1>10, <1>11, <1>12 DEF IInv

\* A call of stopCapture waits for the buffered data.
LEMMA ConnectionDrains ==
  ASSUME IInv, NEW i \in Calls,
         /\ page' \in Page
         /\ page'.promise = FALSE
         /\ page'.recovery.at = page.recovery.at
         /\ page'.recovery.connection = page.recovery.connection
         /\ page'.calls[i].at = "drain"
         /\ page'.calls[i].connection = page.connection
         /\ page'.calls[i].waits = page.promise
         /\ page'.calls[i].encoder = page.calls[i].encoder
         /\ page'.calls[i].for = page.calls[i].for
         /\ \A j \in 0..MaxCalls : j # i => page'.calls[j] = page.calls[j]
         /\ UNCHANGED <<page.alive, page.running, page.stopping, page.reconfiguring,
                         page.trusted, page.stream, page.reader, page.encoder,
                         page.connection, page.opening, page.open, page.startup,
                         page.loop, page.made>>,
         page'.recovery.at # "none" => page'.recovery.aborted,
         page.alive /\ page.calls[i].at \in {"loop", "flush"} /\ page.loop = "none",
         page.connection # 0,
         page.calls[i].at = "loop" => page.encoder = 0,
         page'.encoders \subseteq page.encoders,
         page.calls[i].at = "flush" => page.calls[i].encoder \notin page'.encoders,
         UNCHANGED <<mode, starting, stopper, closing, reports, sources>>
  PROVE  IInv'
<1>1. starting \notin {"ensure", "send"}
  BY CallNumbers, NewDocument DEF Idle, NotRecovering
<1>2. TypeInv'
  BY <1>1, CallNumbers DEF IInv, TypeInv
<1>3. WorkerInv'
  BY <1>1, CallNumbers DEF IInv, WorkerInv
<1>4. StopInv'
  BY <1>1, CallNumbers DEF IInv, StopInv
<1>5. StartInv'
  BY <1>1, CallNumbers DEF IInv, StartInv, InReports
<1>6. CallInv'
  BY <1>1, CallNumbers DEF IInv, CallInv, InReports
<1>7. NumberInv'
  BY <1>1, CallNumbers DEF IInv, NumberInv
<1>8. StartupInv'
  BY <1>1, CallNumbers DEF IInv, StartupInv, Is
<1>9. RunInv'
  BY <1>1, CallNumbers DEF IInv, RunInv, InReports
<1>10. StreamInv'
  BY <1>1, CallNumbers DEF IInv, StreamInv, ToCome, Is, InReports
<1>11. EncoderInv'
  BY <1>1, CallNumbers DEF IInv, EncoderInv, ToCome, Is, InReports
<1>12. ConnectionInv'
  BY <1>1, CallNumbers DEF IInv, ConnectionInv, ToCome, InReports
<1> QED
  BY <1>2, <1>3, <1>4, <1>5, <1>6, <1>7, <1>8, <1>9, <1>10, <1>11, <1>12 DEF IInv

\* The service worker's call of stopCapture returns, and answers it.
LEMMA StopReturns ==
  ASSUME IInv, NEW i \in Calls,
         /\ page' \in Page
         /\ page'.startup = page.startup
         /\ page'.connection = 0
         /\ page'.recovery.at = page.recovery.at
         /\ page'.recovery.connection = page.recovery.connection
         /\ page'.calls[i] = Idle
         /\ \A j \in 0..MaxCalls : j # i => page'.calls[j] = page.calls[j]
         /\ UNCHANGED <<page.alive, page.running, page.stream, page.reader, page.encoder,
                         page.opening, page.open, page.promise, page.loop, page.made>>,
         page.alive /\ page.calls[i].for = "worker",
         page.calls[i].at \in {"begin", "loop", "flush", "recovery"},
         page'.recovery.at # "none" => page'.recovery.aborted \/ page'.recovery = page.recovery,
         page'.reconfiguring => page.reconfiguring,
         page'.stopping => page.stopping,
         page'.encoders \subseteq page.encoders,
         ~page.running /\ page.stream = "none" /\ ~page.reader,
         page.calls[i].at # "begin" => page.loop = "none",
         page.startup = "none" \/ page.calls[i].for = "start" => page.encoder = 0,
         page.calls[i].at = "loop" => page.encoder = 0,
         page.calls[i].at = "begin" => page.encoder = 0,
         page.calls[i].at = "flush" => page.calls[i].encoder \notin page'.encoders,
         page.connection = 0 \/ page.calls[i].at = "recovery",
         page.calls[i].at = "recovery" /\ page.calls[i].waits => page.recovery.at = "none",
         UNCHANGED <<mode, starting, stopper, closing, sources>>,
         reports' = Append(reports, "stopped")
  PROVE  IInv'
<1>1. starting \notin {"ensure", "send"}
  BY CallNumbers, NewDocument DEF Idle, NotRecovering
<1>2. /\ reports' \in Seq(Reports) /\ Len(reports) \in Nat /\ Len(reports') = Len(reports) + 1
      /\ \A n \in 1..Len(reports) : reports'[n] = reports[n] /\ n \in 1..Len(reports')
      /\ reports'[Len(reports) + 1] = "stopped" /\ Len(reports) + 1 \in 1..Len(reports')
      /\ \A n \in 1..Len(reports') : n \in 1..Len(reports) \/ n = Len(reports) + 1
  BY Appended DEF IInv, Reports, EndReports, StartAnswers
<1>3. TypeInv'
  BY <1>1, <1>2, CallNumbers DEF IInv, TypeInv, Idle
<1>4. WorkerInv'
  BY <1>1, <1>2, CallNumbers DEF IInv, WorkerInv, Idle
<1>5. StopInv'
  BY <1>1, <1>2, CallNumbers DEF IInv, StopInv, Idle, EndReports, StartAnswers, Acknowledged
<1>6. StartInv'
  BY <1>1, <1>2, CallNumbers, SMTT(30) DEF IInv, StartInv, InReports, Idle, EndReports,
     StartAnswers, Acknowledged
<1>7. CallInv'
  BY <1>1, <1>2, CallNumbers, SMTT(30) DEF IInv, CallInv, InReports, Idle, EndReports, StartAnswers,
     Acknowledged
<1>8. NumberInv'
  BY <1>1, <1>2, CallNumbers DEF IInv, NumberInv, Idle, TypeInv, Page
<1>9. StartupInv'
  BY <1>1, <1>2, CallNumbers, SMTT(30) DEF IInv, StartupInv, Is, Idle
<1>10. RunInv'
  BY <1>1, <1>2, CallNumbers DEF IInv, RunInv, InReports, Idle, EndReports, StartAnswers,
     Acknowledged
<1>11. StreamInv'
  <2>1. \A messages : "stopped" \notin messages => InReports(messages)' = InReports(messages)
    BY <1>2 DEF InReports
  <2>2. ToCome' = ToCome
    BY <2>1 DEF ToCome, Acknowledged
  <2>3. page.calls[i].at \notin {"none", "cancel"}
    OBVIOUS
  <2> QED
    BY <1>1, <2>2, <2>3, CallNumbers DEF IInv, StreamInv, Is, Idle
<1>12. EncoderInv'
  <2>1. page'.encoder # 0 => ToCome'
    BY DEF ToCome
  <2> QED
    BY <1>1, <2>1, CallNumbers, SMTT(30) DEF IInv, EncoderInv, Idle
<1>13. ConnectionInv'
  BY <1>1, <1>2, CallNumbers, SMTT(30) DEF IInv, ConnectionInv, ToCome, InReports, Idle,
     EndReports, StartAnswers, Acknowledged
<1> QED
  BY <1>3, <1>4, <1>5, <1>6, <1>7, <1>8, <1>9, <1>10, <1>11, <1>12, <1>13 DEF IInv

\* startCapture's call of stopCapture returns, and answers the service worker.
LEMMA StartReturns ==
  ASSUME IInv, NEW i \in Calls,
         /\ page' \in Page
         /\ page'.startup = "none"
         /\ page'.connection = 0
         /\ page'.recovery.at = page.recovery.at
         /\ page'.recovery.connection = page.recovery.connection
         /\ page'.calls[i] = Idle
         /\ \A j \in 0..MaxCalls : j # i => page'.calls[j] = page.calls[j]
         /\ UNCHANGED <<page.alive, page.running, page.stream, page.reader, page.encoder,
                         page.opening, page.open, page.promise, page.loop, page.made>>,
         page.alive /\ page.calls[i].for = "start",
         page.calls[i].at \in {"begin", "loop", "flush", "recovery"},
         page'.recovery.at # "none" => page'.recovery.aborted \/ page'.recovery = page.recovery,
         page'.reconfiguring => page.reconfiguring,
         page'.stopping => page.stopping,
         page'.encoders \subseteq page.encoders,
         ~page.running /\ page.stream = "none" /\ ~page.reader,
         page.calls[i].at # "begin" => page.loop = "none",
         page.startup = "none" \/ page.calls[i].for = "start" => page.encoder = 0,
         page.calls[i].at = "loop" => page.encoder = 0,
         page.calls[i].at = "begin" => page.encoder = 0,
         page.calls[i].at = "flush" => page.calls[i].encoder \notin page'.encoders,
         page.connection = 0 \/ page.calls[i].at = "recovery",
         page.calls[i].at = "recovery" /\ page.calls[i].waits => page.recovery.at = "none",
         UNCHANGED <<mode, starting, stopper, closing, sources>>,
         reports' = Append(reports, "startFailed")
  PROVE  IInv'
<1>1. starting \notin {"ensure", "send"}
  BY CallNumbers, NewDocument DEF Idle, NotRecovering
<1>2. /\ reports' \in Seq(Reports) /\ Len(reports) \in Nat /\ Len(reports') = Len(reports) + 1
      /\ \A n \in 1..Len(reports) : reports'[n] = reports[n] /\ n \in 1..Len(reports')
      /\ reports'[Len(reports) + 1] = "startFailed" /\ Len(reports) + 1 \in 1..Len(reports')
      /\ \A n \in 1..Len(reports') : n \in 1..Len(reports) \/ n = Len(reports) + 1
  BY Appended DEF IInv, Reports, EndReports, StartAnswers
<1>3. TypeInv'
  BY <1>1, <1>2, CallNumbers DEF IInv, TypeInv, Idle
<1>4. WorkerInv'
  BY <1>1, <1>2, CallNumbers DEF IInv, WorkerInv, Idle
<1>5. StopInv'
  BY <1>1, <1>2, CallNumbers, SMTT(30) DEF IInv, StopInv, Idle, EndReports, StartAnswers, Acknowledged
<1>6. StartInv'
  BY <1>1, <1>2, CallNumbers DEF IInv, StartInv, InReports, Idle, EndReports, StartAnswers,
     Acknowledged
<1>7. CallInv'
  BY <1>1, <1>2, CallNumbers DEF IInv, CallInv, InReports, Idle, EndReports, StartAnswers,
     Acknowledged
<1>8. NumberInv'
  BY <1>1, <1>2, CallNumbers DEF IInv, NumberInv, Idle
<1>9. StartupInv'
  BY <1>1, <1>2, CallNumbers DEF IInv, StartupInv, Is, Idle
<1>10. RunInv'
  BY <1>1, <1>2, CallNumbers DEF IInv, RunInv, InReports, Idle, EndReports, StartAnswers,
     Acknowledged
<1>11. StreamInv'
  BY <1>1, <1>2, CallNumbers DEF IInv, StreamInv, ToCome, Is, InReports, Idle, EndReports,
     StartAnswers, Acknowledged
<1>12. EncoderInv'
  BY <1>1, <1>2, CallNumbers, SMTT(30) DEF IInv, EncoderInv, ToCome, Is, InReports, Idle, EndReports,
     StartAnswers, Acknowledged, TypeInv, Page
<1>13. ConnectionInv'
  BY <1>1, <1>2, CallNumbers, SMTT(30) DEF IInv, ConnectionInv, ToCome, InReports, Idle,
     EndReports, StartAnswers, Acknowledged
<1> QED
  BY <1>3, <1>4, <1>5, <1>6, <1>7, <1>8, <1>9, <1>10, <1>11, <1>12, <1>13 DEF IInv

\* Another call of stopCapture returns.
LEMMA CallReturns ==
  ASSUME IInv, NEW i \in Calls,
         /\ page' \in Page
         /\ page'.startup = page.startup
         /\ page'.connection = 0
         /\ page'.recovery.at = page.recovery.at
         /\ page'.recovery.connection = page.recovery.connection
         /\ page'.calls[i] = Idle
         /\ \A j \in 0..MaxCalls : j # i => page'.calls[j] = page.calls[j]
         /\ UNCHANGED <<page.alive, page.running, page.stream, page.reader, page.encoder,
                         page.opening, page.open, page.promise, page.loop, page.made>>,
         page.alive /\ page.calls[i].for = "none",
         page.calls[i].at \in {"begin", "loop", "flush", "recovery"},
         page'.recovery.at # "none" => page'.recovery.aborted \/ page'.recovery = page.recovery,
         page'.reconfiguring => page.reconfiguring,
         page'.stopping => page.stopping,
         page'.encoders \subseteq page.encoders,
         ~page.running /\ page.stream = "none" /\ ~page.reader,
         page.calls[i].at # "begin" => page.loop = "none",
         page.startup = "none" \/ page.calls[i].for = "start" => page.encoder = 0,
         page.calls[i].at = "loop" => page.encoder = 0,
         page.calls[i].at = "begin" => page.encoder = 0,
         page.calls[i].at = "flush" => page.calls[i].encoder \notin page'.encoders,
         page.connection = 0 \/ page.calls[i].at = "recovery",
         page.calls[i].at = "recovery" /\ page.calls[i].waits => page.recovery.at = "none",
         UNCHANGED <<mode, starting, stopper, closing, reports, sources>>
  PROVE  IInv'
<1>1. starting \notin {"ensure", "send"}
  BY CallNumbers, NewDocument DEF Idle, NotRecovering
<1>2. TypeInv'
  BY <1>1, CallNumbers DEF IInv, TypeInv, Idle
<1>3. WorkerInv'
  BY <1>1, CallNumbers DEF IInv, WorkerInv, Idle
<1>4. StopInv'
  BY <1>1, CallNumbers DEF IInv, StopInv, Idle
<1>5. StartInv'
  BY <1>1, CallNumbers DEF IInv, StartInv, InReports, Idle
<1>6. CallInv'
  BY <1>1, CallNumbers DEF IInv, CallInv, InReports, Idle
<1>7. NumberInv'
  BY <1>1, CallNumbers DEF IInv, NumberInv, Idle, TypeInv, Page
<1>8. StartupInv'
  BY <1>1, CallNumbers DEF IInv, StartupInv, Is, Idle
<1>9. RunInv'
  BY <1>1, CallNumbers DEF IInv, RunInv, InReports, Idle
<1>10. StreamInv'
  BY <1>1, CallNumbers DEF IInv, StreamInv, ToCome, Is, InReports, Idle
<1>11. EncoderInv'
  BY <1>1, CallNumbers DEF IInv, EncoderInv, ToCome, Is, InReports, Idle
<1>12. ConnectionInv'
  BY <1>1, CallNumbers DEF IInv, ConnectionInv, ToCome, InReports, Idle
<1> QED
  BY <1>2, <1>3, <1>4, <1>5, <1>6, <1>7, <1>8, <1>9, <1>10, <1>11, <1>12 DEF IInv

\* A reconfiguration waits for the buffered data.
LEMMA ReconfigurationDrains ==
  ASSUME IInv,
         /\ page' \in Page
         /\ page'.loop = "close"
         /\ page'.promise = FALSE
         /\ page'.recovery.at = page.recovery.at
         /\ page'.recovery.connection = page.recovery.connection
         /\ page'.calls[0].at = "drain"
         /\ page'.calls[0].connection = page.connection
         /\ page'.calls[0].waits = page.promise
         /\ page'.calls[0].encoder = page.calls[0].encoder
         /\ page'.calls[0].for = page.calls[0].for
         /\ \A j \in 0..MaxCalls : j # 0 => page'.calls[j] = page.calls[j]
         /\ UNCHANGED <<page.alive, page.running, page.stopping, page.reconfiguring,
                         page.trusted, page.stream, page.reader, page.encoder,
                         page.encoders, page.connection, page.opening, page.open,
                         page.startup, page.made>>,
         page'.recovery.at # "none" => page'.recovery.aborted,
         page.alive /\ page.loop = "allocate" /\ page.connection # 0,
         UNCHANGED <<mode, starting, stopper, closing, reports, sources>>
  PROVE  IInv'
<1>1. starting \notin {"ensure", "send"}
  BY CallNumbers, NewDocument DEF Idle, NotRecovering
<1>2. TypeInv'
  BY <1>1, CallNumbers DEF IInv, TypeInv
<1>3. WorkerInv'
  BY <1>1, CallNumbers DEF IInv, WorkerInv
<1>4. StopInv'
  BY <1>1, CallNumbers DEF IInv, StopInv
<1>5. StartInv'
  BY <1>1, CallNumbers DEF IInv, StartInv, InReports
<1>6. CallInv'
  BY <1>1, CallNumbers DEF IInv, CallInv, InReports
<1>7. NumberInv'
  BY <1>1, CallNumbers DEF IInv, NumberInv
<1>8. StartupInv'
  BY <1>1, CallNumbers DEF IInv, StartupInv, Is
<1>9. RunInv'
  BY <1>1, CallNumbers DEF IInv, RunInv, InReports, TypeInv, Page
<1>10. StreamInv'
  BY <1>1, CallNumbers DEF IInv, StreamInv, ToCome, Is, InReports
<1>11. EncoderInv'
  BY <1>1, CallNumbers DEF IInv, EncoderInv, ToCome, Is, InReports
<1>12. ConnectionInv'
  BY <1>1, CallNumbers, SMTT(30) DEF IInv, ConnectionInv, ToCome, InReports, CallInv, RunInv, StartupInv,
     StreamInv, Is
<1> QED
  BY <1>2, <1>3, <1>4, <1>5, <1>6, <1>7, <1>8, <1>9, <1>10, <1>11, <1>12 DEF IInv

\* A reconfiguration has closed the connection, and closes the encoder.
LEMMA ReconfigurationCloses ==
  ASSUME IInv,
         /\ page' \in Page
         /\ page'.loop = "create"
         /\ page'.encoder = 0
         /\ page'.encoders = page.encoders \ {page.encoder}
         /\ page'.connection = 0
         /\ page'.calls[0] = Idle
         /\ \A j \in 0..MaxCalls : j # 0 => page'.calls[j] = page.calls[j]
         /\ UNCHANGED <<page.alive, page.running, page.stopping, page.reconfiguring,
                         page.trusted, page.stream, page.reader, page.opening, page.open,
                         page.promise, page.recovery, page.startup, page.made>>,
         page.alive /\ page.loop \in {"allocate", "close"},
         page.recovery.at = "none" /\ ~page.promise,
         page.opening = {} /\ page.open = {},
         UNCHANGED <<mode, starting, stopper, closing, reports, sources>>
  PROVE  IInv'
<1>1. starting \notin {"ensure", "send"}
  BY CallNumbers, NewDocument DEF Idle, NotRecovering
<1>2. TypeInv'
  BY <1>1, CallNumbers DEF IInv, TypeInv, Idle
<1>3. WorkerInv'
  BY <1>1, CallNumbers DEF IInv, WorkerInv, Idle
<1>4. StopInv'
  BY <1>1, CallNumbers DEF IInv, StopInv, Idle
<1>5. StartInv'
  BY <1>1, CallNumbers DEF IInv, StartInv, InReports, Idle
<1>6. CallInv'
  BY <1>1, CallNumbers DEF IInv, CallInv, InReports, Idle
<1>7. NumberInv'
  BY <1>1, CallNumbers DEF IInv, NumberInv, Idle, TypeInv, Page
<1>8. StartupInv'
  BY <1>1, CallNumbers DEF IInv, StartupInv, Is, Idle
<1>9. RunInv'
  BY <1>1, CallNumbers DEF IInv, RunInv, InReports, Idle
<1>10. StreamInv'
  BY <1>1, CallNumbers DEF IInv, StreamInv, ToCome, Is, InReports, Idle
<1>11. EncoderInv'
  BY <1>1, CallNumbers DEF IInv, EncoderInv, ToCome, Is, InReports, Idle
<1>12. ConnectionInv'
  BY <1>1, CallNumbers DEF IInv, ConnectionInv, ToCome, InReports, Idle
<1> QED
  BY <1>2, <1>3, <1>4, <1>5, <1>6, <1>7, <1>8, <1>9, <1>10, <1>11, <1>12 DEF IInv

-----------------------------------------------------------------------------
(* startCapture.                                                           *)

\* startCapture fails: stopCapture begins, from the catch clause.
LEMMA FailStartKept == IInv /\ FailStart => IInv'
<1> SUFFICES ASSUME IInv, FailStart PROVE IInv'
  OBVIOUS
<1> DEFINE p == [page EXCEPT !.startup = "catch"]
<1>1. /\ p \in Page /\ p.startup = "catch"
      /\ p.alive = page.alive /\ p.running = page.running /\ p.stopping = page.stopping
      /\ p.reconfiguring = page.reconfiguring /\ p.trusted = page.trusted
      /\ p.stream = page.stream /\ p.reader = page.reader /\ p.encoder = page.encoder
      /\ p.encoders = page.encoders /\ p.connection = page.connection
      /\ p.opening = page.opening /\ p.open = page.open /\ p.promise = page.promise
      /\ p.recovery = page.recovery /\ p.loop = page.loop /\ p.made = page.made
      /\ p.calls = page.calls
  BY PageTypes DEF Page
<1>2. page' = Call(p, "start")
  BY DEF FailStart, StartFails
<1> HIDE DEF p
<1>3. /\ page.alive /\ page.startup \in {"media", "first", "encoder"}
      /\ \E i \in Calls : p.calls[i].at = "none"
      /\ UNCHANGED <<mode, starting, stopper, closing, reports, sources>>
  BY <1>1 DEF FailStart, NoMicrotask, CanCall, workerVars, bounds
<1>4. PICK k \in Calls : \E q \in Page :
        /\ q = Call(p, "start") /\ Apart(p, q)
        /\ p.calls[k].at = "none"
        /\ q.calls[k].at = "begin" /\ q.calls[k].for = "start"
        /\ q.calls[k].encoder = 0 /\ q.calls[k].connection = 0 /\ q.calls[k].waits = FALSE
        /\ \A j \in 0..MaxCalls : j # k => q.calls[j] = p.calls[j]
  BY <1>1, <1>3, Begins, ZenonT(40)
<1>5. /\ page' \in Page
      /\ page'.startup = "catch"
      /\ page'.calls[k].at = "begin"
      /\ page'.calls[k].for = "start"
      /\ page'.calls[k].encoder = 0 /\ page'.calls[k].connection = 0
      /\ page'.calls[k].waits = FALSE
      /\ \A j \in 0..MaxCalls : j # k => page'.calls[j] = page.calls[j]
      /\ UNCHANGED <<page.alive, page.running, page.stopping, page.reconfiguring,
                      page.trusted, page.stream, page.reader, page.encoder,
                      page.encoders, page.connection, page.opening, page.open,
                      page.promise, page.recovery, page.loop, page.made>>
  BY <1>1, <1>2, <1>4 DEF Apart
<1>6. page.alive /\ page.calls[k].at = "none"
  BY <1>1, <1>3, <1>4
<1> QED
  BY <1>3, <1>5, <1>6, StartFailsEarly, Zenon

\* startCapture makes its encoder, and then its connection if it has a device.
LEMMA CreateEncoderKept == IInv /\ CreateEncoder => IInv'
<1> SUFFICES ASSUME IInv, CreateEncoder, ~page.trusted PROVE IInv'
  BY EncoderMade
<1>1. PICK e \in Page :
        /\ e = MakeEncoder(page) /\ Otherwise(page, e)
        /\ e.encoder = page.made + 1 /\ e.encoders = page.encoders \cup {page.made + 1}
        /\ e.made = page.made + 1 /\ e.connection = page.connection
        /\ e.opening = page.opening /\ e.open = page.open
  BY PageTypes, EncoderOf, Zenon
<1> DEFINE p == [e EXCEPT !.startup = "catch"]
<1>2. /\ p \in Page /\ p.startup = "catch"
      /\ p.alive = e.alive /\ p.running = e.running /\ p.stopping = e.stopping
      /\ p.reconfiguring = e.reconfiguring /\ p.trusted = e.trusted
      /\ p.stream = e.stream /\ p.reader = e.reader /\ p.encoder = e.encoder
      /\ p.encoders = e.encoders /\ p.connection = e.connection /\ p.opening = e.opening
      /\ p.open = e.open /\ p.promise = e.promise /\ p.recovery = e.recovery
      /\ p.loop = e.loop /\ p.made = e.made /\ p.calls = e.calls
  BY DEF Page
<1>3. page' = Call(p, "start")
  BY <1>1 DEF CreateEncoder, StartFails
<1> HIDE DEF p
<1>4. /\ page.alive /\ page.startup = "encoder"
      /\ \E i \in Calls : p.calls[i].at = "none"
      /\ UNCHANGED <<mode, starting, stopper, closing, reports, sources>>
  BY <1>1, <1>2 DEF CreateEncoder, NoMicrotask, CanCall, workerVars, bounds, Otherwise
<1>5. PICK k \in Calls : \E q \in Page :
        /\ q = Call(p, "start") /\ Apart(p, q)
        /\ p.calls[k].at = "none"
        /\ q.calls[k].at = "begin" /\ q.calls[k].for = "start"
        /\ q.calls[k].encoder = 0 /\ q.calls[k].connection = 0 /\ q.calls[k].waits = FALSE
        /\ \A j \in 0..MaxCalls : j # k => q.calls[j] = p.calls[j]
  BY <1>2, <1>4, Begins, ZenonT(40)
<1>6. /\ page' \in Page
      /\ page'.startup = "catch"
      /\ page'.encoder = page.made + 1
      /\ page'.encoders = page.encoders \cup {page.made + 1}
      /\ page'.made = page.made + 1
      /\ page'.calls[k].at = "begin"
      /\ page'.calls[k].for = "start"
      /\ page'.calls[k].encoder = 0 /\ page'.calls[k].connection = 0
      /\ page'.calls[k].waits = FALSE
      /\ \A j \in 0..MaxCalls : j # k => page'.calls[j] = page.calls[j]
      /\ UNCHANGED <<page.alive, page.running, page.stopping, page.reconfiguring,
                      page.trusted, page.stream, page.reader, page.connection,
                      page.opening, page.open, page.promise, page.recovery, page.loop>>
  BY <1>1, <1>2, <1>3, <1>5 DEF Apart, Otherwise
<1>7. page.alive /\ page.calls[k].at = "none"
  BY <1>1, <1>2, <1>4, <1>5 DEF Otherwise
<1> QED
  BY <1>4, <1>6, <1>7, StartFailsUntrusted, Zenon

\* startCapture fails with the connection that it waited for, or without it.
LEMMA ConnectFails ==
  ASSUME IInv, NEW c \in Page, StartFails(c),
         NoMicrotask, CanCall, page.startup = "connect",
         UNCHANGED <<workerVars, reports, bounds>>,
         /\ c.alive = page.alive /\ c.running = page.running
         /\ c.stopping = page.stopping /\ c.reconfiguring = page.reconfiguring
         /\ c.trusted = page.trusted /\ c.stream = page.stream /\ c.reader = page.reader
         /\ c.encoder = page.encoder /\ c.encoders = page.encoders
         /\ c.promise = page.promise /\ c.recovery = page.recovery
         /\ c.startup = page.startup /\ c.loop = page.loop /\ c.made = page.made
         /\ c.calls = page.calls,
         c.opening \cup c.open \subseteq page.opening \cup page.open,
         c.connection \in {0, page.connection},
         c.connection # page.connection => page.connection \notin c.opening \cup c.open
  PROVE  IInv'
<1> DEFINE p == [c EXCEPT !.startup = "catch"]
<1>1. /\ p \in Page /\ p.startup = "catch"
      /\ p.alive = c.alive /\ p.running = c.running /\ p.stopping = c.stopping
      /\ p.reconfiguring = c.reconfiguring /\ p.trusted = c.trusted
      /\ p.stream = c.stream /\ p.reader = c.reader /\ p.encoder = c.encoder
      /\ p.encoders = c.encoders /\ p.connection = c.connection /\ p.opening = c.opening
      /\ p.open = c.open /\ p.promise = c.promise /\ p.recovery = c.recovery
      /\ p.loop = c.loop /\ p.made = c.made /\ p.calls = c.calls
  BY DEF Page
<1>2. page' = Call(p, "start")
  BY DEF StartFails
<1> HIDE DEF p
<1>3. /\ page.alive /\ \E i \in Calls : p.calls[i].at = "none"
      /\ UNCHANGED <<mode, starting, stopper, closing, reports, sources>>
  BY <1>1 DEF NoMicrotask, CanCall, workerVars, bounds
<1>4. PICK k \in Calls : \E q \in Page :
        /\ q = Call(p, "start") /\ Apart(p, q)
        /\ p.calls[k].at = "none"
        /\ q.calls[k].at = "begin" /\ q.calls[k].for = "start"
        /\ q.calls[k].encoder = 0 /\ q.calls[k].connection = 0 /\ q.calls[k].waits = FALSE
        /\ \A j \in 0..MaxCalls : j # k => q.calls[j] = p.calls[j]
  BY <1>1, <1>3, Begins, ZenonT(40)
<1>5. /\ page' \in Page
      /\ page'.startup = "catch"
      /\ page'.calls[k].at = "begin"
      /\ page'.calls[k].for = "start"
      /\ page'.calls[k].encoder = 0 /\ page'.calls[k].connection = 0
      /\ page'.calls[k].waits = FALSE
      /\ \A j \in 0..MaxCalls : j # k => page'.calls[j] = page.calls[j]
      /\ UNCHANGED <<page.alive, page.running, page.stopping, page.reconfiguring,
                      page.trusted, page.stream, page.reader, page.encoder,
                      page.encoders, page.promise, page.recovery, page.loop,
                      page.made>>
  BY <1>1, <1>2, <1>4 DEF Apart
<1>6. page.alive /\ page.calls[k].at = "none"
  BY <1>1, <1>3, <1>4
<1>7. /\ page'.opening \cup page'.open \subseteq page.opening \cup page.open
      /\ page'.connection \in {0, page.connection}
      /\ page'.connection # page.connection =>
           page.connection \notin page'.opening \cup page'.open
  BY <1>1, <1>2, <1>4 DEF Apart
<1> QED
  BY <1>3, <1>5, <1>6, <1>7, StartFailsLate, Zenon

\* The documents that hold an open connection, and none.
LEMMA ConnectedTypes ==
  ASSUME IInv
  PROVE  /\ Connected \in Page /\ NotConnected \in Page
         /\ Connected.alive = page.alive /\ Connected.running = page.running
         /\ Connected.stopping = page.stopping
         /\ Connected.reconfiguring = page.reconfiguring
         /\ Connected.trusted = page.trusted /\ Connected.stream = page.stream
         /\ Connected.reader = page.reader /\ Connected.encoder = page.encoder
         /\ Connected.encoders = page.encoders /\ Connected.connection = page.connection
         /\ Connected.promise = page.promise /\ Connected.recovery = page.recovery
         /\ Connected.startup = page.startup /\ Connected.loop = page.loop
         /\ Connected.made = page.made /\ Connected.calls = page.calls
         /\ Connected.opening = page.opening \ {page.connection}
         /\ Connected.open = page.open \cup {page.connection}
         /\ NotConnected.alive = page.alive /\ NotConnected.running = page.running
         /\ NotConnected.stopping = page.stopping
         /\ NotConnected.reconfiguring = page.reconfiguring
         /\ NotConnected.trusted = page.trusted /\ NotConnected.stream = page.stream
         /\ NotConnected.reader = page.reader /\ NotConnected.encoder = page.encoder
         /\ NotConnected.encoders = page.encoders /\ NotConnected.promise = page.promise
         /\ NotConnected.recovery = page.recovery /\ NotConnected.startup = page.startup
         /\ NotConnected.loop = page.loop /\ NotConnected.made = page.made
         /\ NotConnected.calls = page.calls
         /\ NotConnected.connection = 0
         /\ NotConnected.opening = page.opening \ {page.connection}
         /\ NotConnected.open = page.open \ {page.connection}
<1> DEFINE opening == page.opening \ {page.connection}
           open == page.open \cup {page.connection}
           closed == page.open \ {page.connection}
<1>1. page \in Page /\ opening \in SUBSET Nat /\ open \in SUBSET Nat /\ closed \in SUBSET Nat
  BY PageTypes DEF Page
<1>2. /\ Connected = [page EXCEPT !.opening = opening, !.open = open]
      /\ NotConnected = [page EXCEPT !.opening = opening, !.open = closed, !.connection = 0]
  BY <1>1 DEF Connected, NotConnected, WithoutSocket, Page
<1> HIDE DEF opening, open, closed
<1>3. /\ Connected \in Page /\ Connected.opening = opening /\ Connected.open = open
      /\ Connected.alive = page.alive /\ Connected.running = page.running
      /\ Connected.stopping = page.stopping
      /\ Connected.reconfiguring = page.reconfiguring
      /\ Connected.trusted = page.trusted /\ Connected.stream = page.stream
      /\ Connected.reader = page.reader /\ Connected.encoder = page.encoder
      /\ Connected.encoders = page.encoders /\ Connected.connection = page.connection
      /\ Connected.promise = page.promise /\ Connected.recovery = page.recovery
      /\ Connected.startup = page.startup /\ Connected.loop = page.loop
      /\ Connected.made = page.made /\ Connected.calls = page.calls
  BY <1>1, <1>2 DEF Page
<1>4. /\ NotConnected \in Page /\ NotConnected.connection = 0
      /\ NotConnected.opening = opening /\ NotConnected.open = closed
      /\ NotConnected.alive = page.alive /\ NotConnected.running = page.running
      /\ NotConnected.stopping = page.stopping
      /\ NotConnected.reconfiguring = page.reconfiguring
      /\ NotConnected.trusted = page.trusted /\ NotConnected.stream = page.stream
      /\ NotConnected.reader = page.reader /\ NotConnected.encoder = page.encoder
      /\ NotConnected.encoders = page.encoders /\ NotConnected.promise = page.promise
      /\ NotConnected.recovery = page.recovery /\ NotConnected.startup = page.startup
      /\ NotConnected.loop = page.loop /\ NotConnected.made = page.made
      /\ NotConnected.calls = page.calls
  BY <1>1, <1>2 DEF Page
<1> QED
  BY <1>3, <1>4, Zenon DEF opening, open, closed

\* The connection of startCapture opens.
LEMMA ConnectStartKept == IInv /\ ConnectStart => IInv'
<1> SUFFICES ASSUME IInv, ConnectStart PROVE IInv'
  OBVIOUS
<1>1. page.connection \in page.opening /\ page.startup = "connect"
      /\ page.alive /\ (\A i \in Calls : page.calls[i].at # "begin")
      /\ UNCHANGED <<mode, starting, stopper, closing, sources>>
  BY DEF ConnectStart, Connects, NoMicrotask, workerVars, bounds
<1>2. CASE page.stream = "live"
  <2>1. /\ page' = [Connected EXCEPT !.running = TRUE, !.reader = TRUE,
                                     !.loop = "read", !.startup = "none"]
        /\ reports' = Append(reports, "started")
    BY <1>2 DEF ConnectStart
  <2> DEFINE c == Connected
  <2>2. c \in Page
    BY ConnectedTypes
  <2>3. page' \in Page /\ page'.running = TRUE /\ page'.reader = TRUE
        /\ page'.loop = "read" /\ page'.startup = "none"
        /\ page'.alive = c.alive /\ page'.stopping = c.stopping
        /\ page'.reconfiguring = c.reconfiguring /\ page'.trusted = c.trusted
        /\ page'.stream = c.stream /\ page'.encoder = c.encoder
        /\ page'.encoders = c.encoders /\ page'.connection = c.connection
        /\ page'.opening = c.opening /\ page'.open = c.open /\ page'.promise = c.promise
        /\ page'.recovery = c.recovery /\ page'.made = c.made /\ page'.calls = c.calls
    <3> HIDE DEF c
    <3>1. page' = [c EXCEPT !.running = TRUE, !.reader = TRUE,
                            !.loop = "read", !.startup = "none"]
      BY <2>1 DEF c
    <3> QED
      BY <2>2, <3>1 DEF Page
  <2>4. /\ page' \in Page
        /\ page'.running = TRUE
        /\ page'.reader = TRUE
        /\ page'.loop = "read"
        /\ page'.startup = "none"
        /\ page'.opening = page.opening \ {page.connection}
        /\ page'.open = page.open \cup {page.connection}
        /\ UNCHANGED <<page.alive, page.stopping, page.reconfiguring, page.trusted,
                        page.stream, page.encoder, page.encoders, page.connection,
                        page.promise, page.recovery, page.made, page.calls>>
    BY <2>3, ConnectedTypes
  <2> QED
    BY <1>1, <1>2, <2>1, <2>4, Started, Zenon
<1>3. CASE page.stream # "live"
  <2>1. /\ StartFails(Connected) /\ UNCHANGED reports /\ NoMicrotask /\ CanCall
        /\ UNCHANGED <<workerVars, bounds>>
    BY <1>3 DEF ConnectStart
  <2>2. UNCHANGED <<workerVars, reports, bounds>>
    BY <2>1
  <2>3. /\ Connected \in Page
        /\ Connected.opening \cup Connected.open \subseteq page.opening \cup page.open
        /\ Connected.connection = page.connection
    BY <1>1, ConnectedTypes
  <2> QED
    BY <1>1, <2>1, <2>2, <2>3, ConnectedTypes, ConnectFails
<1> QED
  BY <1>2, <1>3

\* It does not.
LEMMA FailConnectStartKept == IInv /\ FailConnectStart => IInv'
<1> SUFFICES ASSUME IInv, FailConnectStart PROVE IInv'
  OBVIOUS
<1>1. /\ NotConnected.opening \cup NotConnected.open \subseteq page.opening \cup page.open
      /\ NotConnected.connection \in {0, page.connection}
      /\ page.connection \notin NotConnected.opening \cup NotConnected.open
  BY ConnectedTypes
<1> QED
  BY <1>1, ConnectedTypes, ConnectFails DEF FailConnectStart

-----------------------------------------------------------------------------
(* stopCapture, from its last step to its first.                           *)

\* A call of stopCapture returns: nothing of the capture is left but what
\* others will close, and what it answers is awaited.
LEMMA ReturnKept ==
  ASSUME IInv, NEW i \in Calls, NEW p \in Page, Return(i, p),
         UNCHANGED <<workerVars, bounds>>,
         /\ p.alive = page.alive /\ p.running = page.running /\ p.stream = page.stream
         /\ p.reader = page.reader /\ p.encoder = page.encoder
         /\ p.opening = page.opening /\ p.open = page.open /\ p.promise = page.promise
         /\ p.startup = page.startup /\ p.loop = page.loop /\ p.made = page.made
         /\ p.calls = page.calls,
         p.connection = 0,
         /\ p.recovery.at = page.recovery.at
         /\ p.recovery.connection = page.recovery.connection
         /\ p.recovery.at # "none" => p.recovery.aborted \/ p.recovery = page.recovery,
         p.reconfiguring => page.reconfiguring,
         p.stopping => page.stopping,
         p.encoders \subseteq page.encoders,
         page.alive /\ page.calls[i].at \in {"begin", "loop", "flush", "recovery"},
         ~page.running /\ page.stream = "none" /\ ~page.reader,
         page.calls[i].at # "begin" => page.loop = "none",
         page.startup = "none" \/ page.calls[i].for = "start" => page.encoder = 0,
         page.calls[i].at = "loop" => page.encoder = 0,
         page.calls[i].at = "begin" => page.encoder = 0,
         page.calls[i].at = "flush" => page.calls[i].encoder \notin p.encoders,
         page.connection = 0 \/ page.calls[i].at = "recovery",
         page.calls[i].at = "recovery" /\ page.calls[i].waits => page.recovery.at = "none"
  PROVE  IInv'
<1> DEFINE startup == IF page.calls[i].for = "start" THEN "none" ELSE page.startup
<1>1. /\ Idle \in CallState /\ i \in 0..MaxCalls
      /\ page.calls[i] \in CallState
  BY PageTypes, CallNumbers DEF CallState, Idle
<1>2. startup \in {"none", "media", "first", "encoder", "connect", "catch"}
  BY PageTypes DEF Page
<1>3. page' = [p EXCEPT !.calls[i] = Idle, !.startup = startup]
  BY <1>1 DEF Return, Page
<1> HIDE DEF startup
<1>4. /\ page' \in Page /\ page'.startup = startup /\ page'.calls[i] = Idle
      /\ \A j \in 0..MaxCalls : j # i => page'.calls[j] = page.calls[j]
      /\ page'.alive = p.alive /\ page'.running = p.running
      /\ page'.stopping = p.stopping /\ page'.reconfiguring = p.reconfiguring
      /\ page'.trusted = p.trusted /\ page'.stream = p.stream /\ page'.reader = p.reader
      /\ page'.encoder = p.encoder /\ page'.encoders = p.encoders
      /\ page'.connection = p.connection /\ page'.opening = p.opening
      /\ page'.open = p.open /\ page'.promise = p.promise /\ page'.recovery = p.recovery
      /\ page'.loop = p.loop /\ page'.made = p.made
  BY <1>1, <1>2, <1>3, ZenonT(40) DEF Page
<1>5. /\ page'.recovery.at = page.recovery.at
      /\ page'.recovery.connection = page.recovery.connection
      /\ page'.recovery.at # "none" => page'.recovery.aborted \/ page'.recovery = page.recovery
      /\ page'.reconfiguring => page.reconfiguring
      /\ page'.stopping => page.stopping
      /\ page'.encoders \subseteq page.encoders
      /\ page.calls[i].at = "flush" => page.calls[i].encoder \notin page'.encoders
      /\ page'.connection = 0
  BY <1>4, ZenonT(40)
<1>6. /\ page' \in Page /\ page'.calls[i] = Idle
      /\ \A j \in 0..MaxCalls : j # i => page'.calls[j] = page.calls[j]
      /\ UNCHANGED <<page.alive, page.running, page.stream, page.reader, page.encoder,
                     page.opening, page.open, page.promise, page.loop, page.made>>
  BY <1>4, ZenonT(40)
<1>7. UNCHANGED <<mode, starting, stopper, closing, sources>>
  BY DEF workerVars, bounds
<1>8. CASE page.calls[i].for = "worker"
  <2>1. startup = page.startup /\ reports' = Append(reports, "stopped")
    BY <1>8 DEF startup, Return
  <2>2. /\ page' \in Page
        /\ page'.startup = page.startup
        /\ page'.connection = 0
        /\ page'.recovery.at = page.recovery.at
        /\ page'.recovery.connection = page.recovery.connection
        /\ page'.calls[i] = Idle
        /\ \A j \in 0..MaxCalls : j # i => page'.calls[j] = page.calls[j]
        /\ UNCHANGED <<page.alive, page.running, page.stream, page.reader, page.encoder,
                        page.opening, page.open, page.promise, page.loop, page.made>>
    BY <1>4, <1>5, <1>6, <2>1
  <2> QED
    BY <1>5, <1>7, <1>8, <2>1, <2>2, StopReturns, Zenon
<1>9. CASE page.calls[i].for = "start"
  <2>1. startup = "none" /\ reports' = Append(reports, "startFailed")
    BY <1>9 DEF startup, Return
  <2>2. /\ page' \in Page
        /\ page'.startup = "none"
        /\ page'.connection = 0
        /\ page'.recovery.at = page.recovery.at
        /\ page'.recovery.connection = page.recovery.connection
        /\ page'.calls[i] = Idle
        /\ \A j \in 0..MaxCalls : j # i => page'.calls[j] = page.calls[j]
        /\ UNCHANGED <<page.alive, page.running, page.stream, page.reader, page.encoder,
                        page.opening, page.open, page.promise, page.loop, page.made>>
    BY <1>4, <1>5, <1>6, <2>1
  <2> QED
    BY <1>5, <1>7, <1>9, <2>1, <2>2, StartReturns, Zenon
<1>10. CASE page.calls[i].for = "none"
  <2>1. startup = page.startup /\ reports' = reports
    BY <1>10 DEF startup, Return
  <2>2. /\ page' \in Page
        /\ page'.startup = page.startup
        /\ page'.connection = 0
        /\ page'.recovery.at = page.recovery.at
        /\ page'.recovery.connection = page.recovery.connection
        /\ page'.calls[i] = Idle
        /\ \A j \in 0..MaxCalls : j # i => page'.calls[j] = page.calls[j]
        /\ UNCHANGED <<page.alive, page.running, page.stream, page.reader, page.encoder,
                        page.opening, page.open, page.promise, page.loop, page.made>>
    BY <1>4, <1>5, <1>6, <2>1
  <2>3. UNCHANGED <<mode, starting, stopper, closing, reports, sources>>
    BY <1>7, <2>1
  <2> QED
    BY <1>5, <1>10, <2>2, <2>3, CallReturns, Zenon
<1> QED
  BY <1>1, <1>8, <1>9, <1>10 DEF CallState

\* The last statements of stopCapture.
LEMMA FinishKept ==
  ASSUME IInv, NEW i \in Calls, NEW p \in Page, Finish(i, p),
         UNCHANGED <<workerVars, bounds>>,
         /\ p.alive = page.alive /\ p.running = page.running
         /\ p.stopping = page.stopping /\ p.reconfiguring = page.reconfiguring
         /\ p.trusted = page.trusted /\ p.stream = page.stream /\ p.reader = page.reader
         /\ p.encoder = page.encoder /\ p.opening = page.opening /\ p.open = page.open
         /\ p.promise = page.promise /\ p.startup = page.startup /\ p.loop = page.loop
         /\ p.made = page.made /\ p.calls = page.calls,
         p.connection = 0,
         /\ p.recovery.at = page.recovery.at
         /\ p.recovery.connection = page.recovery.connection
         /\ p.recovery.at # "none" => p.recovery.aborted \/ p.recovery = page.recovery,
         p.encoders \subseteq page.encoders,
         page.alive /\ page.calls[i].at \in {"loop", "flush", "recovery"},
         page.calls[i].at = "loop" => page.loop = "none" /\ page.encoder = 0,
         page.calls[i].at = "flush" => page.calls[i].encoder \notin p.encoders,
         page.connection = 0 \/ page.calls[i].at = "recovery",
         page.calls[i].at = "recovery" /\ page.calls[i].waits => page.recovery.at = "none"
  PROVE  IInv'
<1> DEFINE q == [p EXCEPT !.trusted = FALSE, !.reconfiguring = FALSE, !.stopping = FALSE]
<1>1. /\ q \in Page /\ q.trusted = FALSE /\ q.reconfiguring = FALSE /\ q.stopping = FALSE
      /\ q.alive = p.alive /\ q.running = p.running /\ q.stream = p.stream
      /\ q.reader = p.reader /\ q.encoder = p.encoder /\ q.encoders = p.encoders
      /\ q.connection = p.connection /\ q.opening = p.opening /\ q.open = p.open
      /\ q.promise = p.promise /\ q.recovery = p.recovery /\ q.startup = p.startup
      /\ q.loop = p.loop /\ q.made = p.made /\ q.calls = p.calls
  BY DEF Page
<1>2. Return(i, q)
  BY DEF Finish
<1> HIDE DEF q
<1>3. /\ ~page.running /\ page.stream = "none" /\ ~page.reader
      /\ page.loop = "none"
  BY CallNumbers DEF IInv, RunInv, StreamInv, Is
<1>4. page.startup = "none" \/ page.calls[i].for = "start" => page.encoder = 0
  BY CallNumbers DEF IInv, EncoderInv
<1>5. /\ q.alive = page.alive /\ q.running = page.running /\ q.stream = page.stream
      /\ q.reader = page.reader /\ q.encoder = page.encoder /\ q.opening = page.opening
      /\ q.open = page.open /\ q.promise = page.promise /\ q.startup = page.startup
      /\ q.loop = page.loop /\ q.made = page.made /\ q.calls = page.calls
  <2>1. /\ q.stream = page.stream /\ q.encoder = page.encoder
        /\ q.opening = page.opening /\ q.open = page.open /\ q.startup = page.startup
        /\ q.loop = page.loop /\ q.made = page.made /\ q.calls = page.calls
    BY <1>1
  <2>2. q.alive = page.alive /\ q.running = page.running
    BY <1>1, Zenon
  <2>3. q.reader = page.reader /\ q.promise = page.promise
    BY <1>1, Zenon
  <2> QED
    BY <2>1, <2>2, <2>3, Zenon
<1>6. /\ q.connection = 0 /\ q.recovery = p.recovery /\ q.encoders = p.encoders
      /\ ~q.reconfiguring /\ ~q.stopping
  BY <1>1
<1>7. /\ q.recovery.at = page.recovery.at
      /\ q.recovery.connection = page.recovery.connection
      /\ q.recovery.at # "none" => q.recovery.aborted \/ q.recovery = page.recovery
  BY <1>6
<1>8. /\ page.calls[i].at \in {"begin", "loop", "flush", "recovery"}
      /\ page.calls[i].at # "begin"
      /\ page.calls[i].at = "flush" => page.calls[i].encoder \notin q.encoders
      /\ q.encoders \subseteq page.encoders
  BY <1>6
<1> QED
  BY <1>1, <1>2, <1>3, <1>4, <1>5, <1>6, <1>7, <1>8, ReturnKept, Zenon

\* A call of stopCapture closes the connection, if there is one.
LEMMA CloseReceiverKept ==
  ASSUME IInv, NEW i \in Calls, NEW q \in Page, CloseReceiver(i, q),
         UNCHANGED <<workerVars, bounds>>,
         /\ q.alive = page.alive /\ q.running = page.running
         /\ q.stopping = page.stopping /\ q.reconfiguring = page.reconfiguring
         /\ q.trusted = page.trusted /\ q.stream = page.stream /\ q.reader = page.reader
         /\ q.encoder = page.encoder /\ q.connection = page.connection
         /\ q.opening = page.opening /\ q.open = page.open /\ q.promise = page.promise
         /\ q.recovery = page.recovery /\ q.startup = page.startup /\ q.loop = page.loop
         /\ q.made = page.made /\ q.calls = page.calls,
         q.encoders \subseteq page.encoders,
         page.alive /\ page.calls[i].at \in {"loop", "flush"},
         page.calls[i].at = "loop" => page.loop = "none" /\ page.encoder = 0,
         page.calls[i].at = "flush" => page.calls[i].encoder \notin q.encoders
  PROVE  IInv'
<1>1. PICK r \in RecoveryState :
        /\ Abort(q) = [q EXCEPT !.recovery = r]
        /\ r.at = q.recovery.at /\ r.connection = q.recovery.connection
        /\ r.at # "none" => r.aborted
  BY RecoveryAborted
<1> DEFINE p == [q EXCEPT !.recovery = r]
<1>2. /\ p \in Page /\ p.recovery = r
      /\ p.alive = q.alive /\ p.running = q.running /\ p.stopping = q.stopping
      /\ p.reconfiguring = q.reconfiguring /\ p.trusted = q.trusted
      /\ p.stream = q.stream /\ p.reader = q.reader /\ p.encoder = q.encoder
      /\ p.encoders = q.encoders /\ p.connection = q.connection /\ p.opening = q.opening
      /\ p.open = q.open /\ p.promise = q.promise /\ p.startup = q.startup
      /\ p.loop = q.loop /\ p.made = q.made /\ p.calls = q.calls
  BY DEF Page
<1>3. Abort(q) = p
  BY <1>1
<1> HIDE DEF p
<1>4. CASE q.connection = 0
  <2>1. Finish(i, p)
    BY <1>2, <1>3, <1>4, CallNumbers DEF CloseReceiver, AfterReceiver
  <2>2. /\ p.alive = page.alive /\ p.running = page.running
        /\ p.reader = page.reader /\ p.promise = page.promise
    BY <1>2, Zenon
  <2>3. /\ p.stopping = page.stopping
        /\ p.reconfiguring = page.reconfiguring /\ p.trusted = page.trusted
    BY <1>2, Zenon
  <2>4. /\ p.stream = page.stream /\ p.encoder = page.encoder
        /\ p.opening = page.opening /\ p.open = page.open /\ p.startup = page.startup
        /\ p.loop = page.loop /\ p.made = page.made /\ p.calls = page.calls
    BY <1>2
  <2>5. /\ p.connection = 0 /\ page.connection = 0
        /\ p.recovery.at = page.recovery.at
        /\ p.recovery.connection = page.recovery.connection
        /\ p.recovery.at # "none" => p.recovery.aborted
        /\ p.encoders \subseteq page.encoders
        /\ page.calls[i].at = "flush" => page.calls[i].encoder \notin p.encoders
        /\ page.calls[i].at # "recovery"
    BY <1>1, <1>2, <1>4
  <2> QED
    BY <1>2, <2>1, <2>2, <2>3, <2>4, <2>5, FinishKept, Zenon
<1>5. CASE q.connection # 0
  <2> DEFINE c == [p.calls[i] EXCEPT !.at = "drain", !.connection = p.connection,
                                    !.waits = p.promise]
  <2>1. /\ c \in CallState /\ c.at = "drain" /\ c.connection = p.connection
        /\ c.waits = p.promise /\ c.encoder = p.calls[i].encoder /\ c.for = p.calls[i].for
    <3>1. p.calls[i] \in CallState /\ p.connection \in Nat /\ p.promise \in BOOLEAN
      BY <1>2, CallNumbers DEF Page
    <3> QED
      BY <3>1 DEF CallState
  <2>2. /\ page' = [p EXCEPT !.calls[i] = c, !.promise = FALSE]
        /\ UNCHANGED reports
    BY <1>2, <1>3, <1>5 DEF CloseReceiver
  <2> HIDE DEF c
  <2>3. /\ page' \in Page /\ page'.promise = FALSE /\ page'.calls[i] = c
        /\ \A j \in 0..MaxCalls : j # i => page'.calls[j] = p.calls[j]
        /\ page'.alive = p.alive /\ page'.running = p.running
        /\ page'.stopping = p.stopping /\ page'.reconfiguring = p.reconfiguring
        /\ page'.trusted = p.trusted /\ page'.stream = p.stream
        /\ page'.reader = p.reader /\ page'.encoder = p.encoder
        /\ page'.encoders = p.encoders /\ page'.connection = p.connection
        /\ page'.opening = p.opening /\ page'.open = p.open
        /\ page'.recovery = p.recovery /\ page'.startup = p.startup
        /\ page'.loop = p.loop /\ page'.made = p.made
    BY <1>2, <2>1, <2>2, CallNumbers, ZenonT(40) DEF Page
  <2>4. p.calls = page.calls /\ p.connection = page.connection /\ p.promise = page.promise
        /\ p.recovery = r /\ q.recovery = page.recovery
    BY <1>2
  <2>5. /\ page'.calls[i].at = "drain"
        /\ page'.calls[i].connection = page.connection
        /\ page'.calls[i].waits = page.promise
        /\ page'.calls[i].encoder = page.calls[i].encoder
        /\ page'.calls[i].for = page.calls[i].for
        /\ \A j \in 0..MaxCalls : j # i => page'.calls[j] = page.calls[j]
        /\ page'.recovery.at = page.recovery.at
        /\ page'.recovery.connection = page.recovery.connection
        /\ page'.recovery.at # "none" => page'.recovery.aborted
    BY <1>1, <2>1, <2>3, <2>4
  <2>6. /\ page'.alive = page.alive /\ page'.running = page.running
        /\ page'.reader = page.reader /\ page'.stopping = page.stopping
    BY <1>2, <2>3, Zenon
  <2>7. /\ page'.reconfiguring = page.reconfiguring /\ page'.trusted = page.trusted
    BY <1>2, <2>3, Zenon
  <2>8. /\ page'.stream = page.stream /\ page'.encoder = page.encoder
        /\ page'.connection = page.connection /\ page'.opening = page.opening
        /\ page'.open = page.open /\ page'.startup = page.startup
        /\ page'.loop = page.loop /\ page'.made = page.made
    BY <1>2, <2>3
  <2>9. /\ page' \in Page
        /\ page'.promise = FALSE
        /\ page'.recovery.at = page.recovery.at
        /\ page'.recovery.connection = page.recovery.connection
        /\ page'.calls[i].at = "drain"
        /\ page'.calls[i].connection = page.connection
        /\ page'.calls[i].waits = page.promise
        /\ page'.calls[i].encoder = page.calls[i].encoder
        /\ page'.calls[i].for = page.calls[i].for
        /\ \A j \in 0..MaxCalls : j # i => page'.calls[j] = page.calls[j]
        /\ UNCHANGED <<page.alive, page.running, page.stopping, page.reconfiguring,
                        page.trusted, page.stream, page.reader, page.encoder,
                        page.connection, page.opening, page.open, page.startup,
                        page.loop, page.made>>
    BY <2>3, <2>5, <2>6, <2>7, <2>8
  <2>10. /\ page'.encoders \subseteq page.encoders
         /\ page.calls[i].at = "flush" => page.calls[i].encoder \notin page'.encoders
         /\ page.connection # 0 /\ page.loop = "none"
         /\ UNCHANGED <<mode, starting, stopper, closing, reports, sources>>
         /\ page.calls[i].at = "loop" => page.encoder = 0
    <3>1. page'.encoders = q.encoders /\ page.connection # 0
      BY <1>2, <1>5, <2>3
    <3>2. page.loop = "none"
      BY CallNumbers DEF IInv, StreamInv, Is
    <3> QED
      BY <2>2, <3>1, <3>2 DEF workerVars, bounds
  <2> QED
    BY <2>5, <2>9, <2>10, ConnectionDrains, Zenon
<1> QED
  BY <1>4, <1>5

\* After the frame loop, the encoder is flushed.
LEMMA StopVideoEncoderKept ==
  ASSUME IInv, NEW i \in Calls, StopVideoEncoder(i)
  PROVE  IInv'
<1>1. /\ page.alive /\ page.calls[i].at = "loop" /\ page.loop = "none"
      /\ UNCHANGED <<workerVars, bounds>>
      /\ UNCHANGED <<mode, starting, stopper, closing, sources>>
  BY DEF StopVideoEncoder, NoMicrotask, LoopEnded, workerVars, bounds
<1>2. CASE page.encoder = 0
  <2>1. CloseReceiver(i, page)
    BY <1>2 DEF StopVideoEncoder
  <2> QED
    BY <1>1, <1>2, <2>1, PageTypes, CloseReceiverKept
<1>3. CASE page.encoder # 0
  <2> DEFINE c == [page.calls[i] EXCEPT !.at = "flush", !.encoder = page.encoder]
  <2>1. /\ page \in Page /\ c \in CallState /\ c.at = "flush" /\ c.encoder = page.encoder
        /\ c.connection = page.calls[i].connection /\ c.waits = page.calls[i].waits
        /\ c.for = page.calls[i].for
    BY PageTypes, CallNumbers, ZenonT(40) DEF CallState, Page
  <2>2. /\ page' = [page EXCEPT !.encoder = 0, !.calls[i] = c]
        /\ UNCHANGED reports
    BY <1>3, <2>1 DEF StopVideoEncoder
  <2> HIDE DEF c
  <2>3. /\ page' \in Page
        /\ page'.encoder = 0
        /\ page'.calls[i].at = "flush"
        /\ page'.calls[i].encoder = page.encoder
        /\ page'.calls[i].connection = page.calls[i].connection
        /\ page'.calls[i].waits = page.calls[i].waits
        /\ page'.calls[i].for = page.calls[i].for
        /\ \A j \in 0..MaxCalls : j # i => page'.calls[j] = page.calls[j]
        /\ UNCHANGED <<page.alive, page.running, page.stopping, page.reconfiguring,
                        page.trusted, page.stream, page.reader, page.encoders,
                        page.connection, page.opening, page.open, page.promise,
                        page.recovery, page.startup, page.loop, page.made>>
    BY <2>1, <2>2, CallNumbers DEF Page
  <2> QED
    BY <1>1, <1>3, <2>2, <2>3, EncoderFlushes
<1> QED
  BY <1>2, <1>3

\* The encoder was flushed, and is closed.
LEMMA FlushEncoderKept ==
  ASSUME IInv, NEW i \in Calls, FlushEncoder(i)
  PROVE  IInv'
<1> DEFINE encoders == page.encoders \ {page.calls[i].encoder}
           q == [page EXCEPT !.encoders = encoders]
<1>1. page \in Page /\ encoders \in SUBSET Nat
  BY PageTypes DEF Page
<1>2. /\ page.alive /\ page.calls[i].at = "flush"
      /\ UNCHANGED <<workerVars, bounds>>
      /\ CloseReceiver(i, q)
      /\ encoders \subseteq page.encoders /\ page.calls[i].encoder \notin encoders
  BY DEF FlushEncoder, NoMicrotask
<1> HIDE DEF encoders
<1>3. /\ q \in Page /\ q.encoders = encoders
      /\ q.alive = page.alive /\ q.running = page.running /\ q.stopping = page.stopping
      /\ q.reconfiguring = page.reconfiguring /\ q.trusted = page.trusted
      /\ q.stream = page.stream /\ q.reader = page.reader /\ q.encoder = page.encoder
      /\ q.connection = page.connection /\ q.opening = page.opening
      /\ q.open = page.open /\ q.promise = page.promise /\ q.recovery = page.recovery
      /\ q.startup = page.startup /\ q.loop = page.loop /\ q.made = page.made
      /\ q.calls = page.calls
  BY <1>1 DEF Page
<1> HIDE DEF q
<1> QED
  BY <1>2, <1>3, CloseReceiverKept

\* The recovery has settled: the call returns.
LEMMA AwaitRecoveryKept ==
  ASSUME IInv, NEW i \in Calls, AwaitRecovery(i)
  PROVE  IInv'
<1> DEFINE p == [page EXCEPT !.connection = 0]
<1>1. /\ p \in Page /\ p.connection = 0
      /\ p.alive = page.alive /\ p.running = page.running /\ p.stopping = page.stopping
      /\ p.reconfiguring = page.reconfiguring /\ p.trusted = page.trusted
      /\ p.stream = page.stream /\ p.reader = page.reader /\ p.encoder = page.encoder
      /\ p.encoders = page.encoders /\ p.opening = page.opening /\ p.open = page.open
      /\ p.promise = page.promise /\ p.recovery = page.recovery
      /\ p.startup = page.startup /\ p.loop = page.loop /\ p.made = page.made
      /\ p.calls = page.calls
  BY PageTypes DEF Page
<1>2. Finish(i, p)
  BY CallNumbers DEF AwaitRecovery, AfterReceiver
<1> HIDE DEF p
<1>3. /\ page.alive /\ page.calls[i].at = "recovery"
      /\ page.calls[i].waits => page.recovery.at = "none"
      /\ UNCHANGED <<workerVars, bounds>>
  BY DEF AwaitRecovery, NoMicrotask
<1> QED
  BY <1>1, <1>2, <1>3, FinishKept

\* A reconfiguration waits for it, too.
LEMMA ReconfigurationAwaits == IInv /\ AwaitRecovery(0) => IInv'
<1> SUFFICES ASSUME IInv, AwaitRecovery(0) PROVE IInv'
  OBVIOUS
<1> DEFINE encoders == page.encoders \ {page.encoder}
<1>1. page \in Page /\ encoders \in SUBSET Nat /\ Idle \in CallState /\ 0 \in 0..MaxCalls
  BY PageTypes, CallNumbers DEF Page, CallState, Idle
<1>2. page' = [page EXCEPT !.connection = 0, !.calls[0] = Idle, !.loop = "create",
                           !.encoder = 0, !.encoders = encoders]
  BY <1>1 DEF AwaitRecovery, AfterReceiver, Page
<1>3. /\ page.alive /\ page.calls[0].at = "recovery"
      /\ page.calls[0].waits => page.recovery.at = "none"
      /\ UNCHANGED <<mode, starting, stopper, closing, reports, sources>>
  BY DEF AwaitRecovery, AfterReceiver, NoMicrotask, workerVars, bounds
<1> HIDE DEF encoders
<1>4. /\ page'.connection = 0 /\ page'.calls[0] = Idle /\ page'.loop = "create"
      /\ page'.encoder = 0 /\ page'.encoders = encoders /\ page' \in Page
      /\ \A j \in 0..MaxCalls : j # 0 => page'.calls[j] = page.calls[j]
      /\ page'.alive = page.alive /\ page'.running = page.running
      /\ page'.stopping = page.stopping /\ page'.reconfiguring = page.reconfiguring
      /\ page'.trusted = page.trusted /\ page'.stream = page.stream
      /\ page'.reader = page.reader /\ page'.opening = page.opening
      /\ page'.open = page.open /\ page'.promise = page.promise
      /\ page'.recovery = page.recovery /\ page'.startup = page.startup
      /\ page'.made = page.made
  BY <1>1, <1>2, ZenonT(40) DEF Page
<1>5. /\ page' \in Page
      /\ page'.loop = "create"
      /\ page'.encoder = 0
      /\ page'.encoders = page.encoders \ {page.encoder}
      /\ page'.connection = 0
      /\ page'.calls[0] = Idle
      /\ \A j \in 0..MaxCalls : j # 0 => page'.calls[j] = page.calls[j]
      /\ UNCHANGED <<page.alive, page.running, page.stopping, page.reconfiguring,
                      page.trusted, page.stream, page.reader, page.opening, page.open,
                      page.promise, page.recovery, page.startup, page.made>>
  BY <1>4 DEF encoders
<1>6. page.loop = "close" /\ ~page.promise
      /\ page.calls[0].connection \notin page.opening \cup page.open
      /\ page.connection \in {0, page.calls[0].connection}
  BY <1>3, CallNumbers DEF IInv, CallInv, ConnectionInv
<1>7. \A i \in Calls : page.calls[i].at \notin {"flush", "drain", "recovery"}
  BY <1>6 DEF IInv, StreamInv, Is
<1>8. page.recovery.at = "none"
  BY <1>3, <1>6, <1>7, CallNumbers DEF IInv, ConnectionInv
<1>9. page.opening = {} /\ page.open = {}
  <2>1. \A n \in page.opening \cup page.open : n = page.connection
    BY <1>3, <1>7, CallNumbers DEF IInv, ConnectionInv
  <2>2. \A n \in page.opening \cup page.open : n # 0
    BY DEF IInv, NumberInv
  <2> QED
    BY <1>6, <2>1, <2>2
<1> QED
  BY <1>3, <1>5, <1>6, <1>8, <1>9, ReconfigurationCloses

\* A call of stopCapture begins: with nothing to stop, it is over.
LEMMA StopCaptureKept ==
  ASSUME IInv, NEW i \in Calls, StopCapture(i)
  PROVE  IInv'
<1>1. /\ page \in Page /\ page.calls[i].at = "begin" /\ page.alive
      /\ i \in 0..MaxCalls /\ page.calls[i] \in CallState
      /\ UNCHANGED <<workerVars, bounds>>
      /\ UNCHANGED <<mode, starting, stopper, closing, sources>>
  <2>1. page.calls[i].at = "begin" => page.alive
    BY CallNumbers, NewDocument DEF Idle
  <2> QED
    BY <2>1, PageTypes, CallNumbers DEF StopCapture, workerVars, bounds
<1>2. CASE ~Holding
  <2>1. Return(i, page)
    BY <1>2 DEF StopCapture
  <2>2. /\ ~page.running /\ ~page.reader
        /\ page.stream = "none" /\ page.connection = 0 /\ page.encoder = 0
    BY <1>2 DEF Holding
  <2>3. /\ page.calls[i].at \in {"begin", "loop", "flush", "recovery"}
        /\ page.calls[i].at # "loop" /\ page.calls[i].at # "flush"
        /\ page.calls[i].at # "recovery"
    BY <1>1
  <2> QED
    BY <1>1, <2>1, <2>2, <2>3, ReturnKept
<1>3. CASE Holding
  <2> DEFINE q == [page EXCEPT !.stopping = TRUE, !.running = FALSE]
  <2>1. /\ q \in Page /\ q.stopping = TRUE /\ q.running = FALSE
        /\ q.alive = page.alive /\ q.reconfiguring = page.reconfiguring
        /\ q.trusted = page.trusted /\ q.stream = page.stream /\ q.reader = page.reader
        /\ q.encoder = page.encoder /\ q.encoders = page.encoders
        /\ q.connection = page.connection /\ q.opening = page.opening
        /\ q.open = page.open /\ q.promise = page.promise /\ q.recovery = page.recovery
        /\ q.startup = page.startup /\ q.loop = page.loop /\ q.made = page.made
        /\ q.calls = page.calls
    BY <1>1 DEF Page
  <2>2. PICK r \in RecoveryState :
          /\ Abort(q) = [q EXCEPT !.recovery = r]
          /\ r.at = q.recovery.at /\ r.connection = q.recovery.connection
          /\ r.at # "none" => r.aborted
    BY <2>1, RecoveryAborted
  <2> DEFINE p == [q EXCEPT !.recovery = r]
  <2>3. /\ page' = IF p.reader
                     THEN [p EXCEPT !.reader = FALSE, !.calls[i].at = "cancel"]
                     ELSE StopTracks(i, p)
        /\ UNCHANGED reports
    BY <1>3, <2>2 DEF StopCapture
  <2> HIDE DEF q
  <2>4. /\ p \in Page /\ p.recovery = r
        /\ p.alive = q.alive /\ p.running = q.running /\ p.stopping = q.stopping
        /\ p.reconfiguring = q.reconfiguring /\ p.trusted = q.trusted
        /\ p.stream = q.stream /\ p.reader = q.reader /\ p.encoder = q.encoder
        /\ p.encoders = q.encoders /\ p.connection = q.connection
        /\ p.opening = q.opening /\ p.open = q.open /\ p.promise = q.promise
        /\ p.startup = q.startup /\ p.loop = q.loop /\ p.made = q.made
        /\ p.calls = q.calls
    BY <2>1 DEF Page
  <2> HIDE DEF p
  <2>5. UNCHANGED <<mode, starting, stopper, closing, reports, sources>>
    BY <1>1, <2>3
  <2>6. /\ r.at = page.recovery.at /\ r.connection = page.recovery.connection
        /\ p.calls = page.calls /\ p.reader = page.reader
    BY <2>1, <2>2, <2>4, Zenon
  <2>7. CASE page.reader
    <3>1. PICK c \in CallState :
            /\ c = [page.calls[i] EXCEPT !.at = "cancel"]
            /\ c.at = "cancel"
            /\ c.encoder = page.calls[i].encoder /\ c.connection = page.calls[i].connection
            /\ c.waits = page.calls[i].waits /\ c.for = page.calls[i].for
      BY <1>1, CallMoved
    <3>2. page' = [p EXCEPT !.reader = FALSE, !.calls[i] = c]
      BY <2>3, <2>4, <2>6, <2>7, <3>1 DEF Page
    <3>3. /\ page' \in Page /\ page'.reader = FALSE /\ page'.calls[i] = c
          /\ \A j \in 0..MaxCalls : j # i => page'.calls[j] = p.calls[j]
          /\ page'.alive = p.alive /\ page'.running = p.running
          /\ page'.stopping = p.stopping /\ page'.reconfiguring = p.reconfiguring
          /\ page'.trusted = p.trusted /\ page'.stream = p.stream
          /\ page'.encoder = p.encoder /\ page'.encoders = p.encoders
          /\ page'.connection = p.connection /\ page'.opening = p.opening
          /\ page'.open = p.open /\ page'.promise = p.promise
          /\ page'.recovery = p.recovery /\ page'.startup = p.startup
          /\ page'.loop = p.loop /\ page'.made = p.made
      BY <1>1, <2>4, <3>2, ZenonT(40) DEF Page
    <3>4. /\ page'.alive = page.alive /\ page'.reconfiguring = page.reconfiguring
          /\ page'.trusted = page.trusted /\ page'.promise = page.promise
      BY <2>1, <2>4, <3>3, Zenon
    <3>5. page'.running = FALSE /\ page'.stopping = TRUE
      BY <2>1, <2>4, <3>3, Zenon
    <3>6. /\ page'.stream = page.stream /\ page'.encoder = page.encoder
          /\ page'.encoders = page.encoders /\ page'.connection = page.connection
          /\ page'.opening = page.opening /\ page'.open = page.open
          /\ page'.startup = page.startup /\ page'.loop = page.loop
          /\ page'.made = page.made
      BY <2>1, <2>4, <3>3
    <3>7. /\ page' \in Page
          /\ page'.running = FALSE
          /\ page'.stopping = TRUE
          /\ page'.recovery.at = page.recovery.at
          /\ page'.recovery.connection = page.recovery.connection
          /\ page'.reader = FALSE
          /\ page'.calls[i].at = "cancel"
          /\ page'.calls[i].encoder = page.calls[i].encoder
          /\ page'.calls[i].connection = page.calls[i].connection
          /\ page'.calls[i].waits = page.calls[i].waits
          /\ page'.calls[i].for = page.calls[i].for
          /\ \A j \in 0..MaxCalls : j # i => page'.calls[j] = page.calls[j]
          /\ UNCHANGED <<page.alive, page.reconfiguring, page.trusted, page.stream,
                          page.encoder, page.encoders, page.connection, page.opening,
                          page.open, page.promise, page.startup, page.loop, page.made>>
      BY <2>4, <2>6, <3>1, <3>3, <3>4, <3>5, <3>6
    <3>8. page'.recovery.at # "none" => page'.recovery.aborted
      BY <2>2, <2>4, <3>3
    <3> QED
      BY <1>1, <2>5, <2>7, <3>7, <3>8, StopCaptureCancels, Zenon
  <2>8. CASE ~page.reader
    <3>1. PICK c \in CallState :
            /\ c = [page.calls[i] EXCEPT !.at = "loop"]
            /\ c.at = "loop"
            /\ c.encoder = page.calls[i].encoder /\ c.connection = page.calls[i].connection
            /\ c.waits = page.calls[i].waits /\ c.for = page.calls[i].for
      BY <1>1, CallMoved
    <3>2. page' = [p EXCEPT !.stream = "none", !.calls[i] = c]
      BY <2>3, <2>4, <2>6, <2>8, <3>1 DEF Page, StopTracks
    <3>3. /\ page' \in Page /\ page'.stream = "none" /\ page'.calls[i] = c
          /\ \A j \in 0..MaxCalls : j # i => page'.calls[j] = p.calls[j]
          /\ page'.alive = p.alive /\ page'.running = p.running
          /\ page'.stopping = p.stopping /\ page'.reconfiguring = p.reconfiguring
          /\ page'.trusted = p.trusted /\ page'.reader = p.reader
          /\ page'.encoder = p.encoder /\ page'.encoders = p.encoders
          /\ page'.connection = p.connection /\ page'.opening = p.opening
          /\ page'.open = p.open /\ page'.promise = p.promise
          /\ page'.recovery = p.recovery /\ page'.startup = p.startup
          /\ page'.loop = p.loop /\ page'.made = p.made
      BY <1>1, <2>4, <3>2, ZenonT(40) DEF Page
    <3>4. /\ page'.alive = page.alive /\ page'.reconfiguring = page.reconfiguring
          /\ page'.trusted = page.trusted /\ page'.promise = page.promise
      BY <2>1, <2>4, <3>3, Zenon
    <3>5. page'.running = FALSE /\ page'.stopping = TRUE /\ page'.reader = page.reader
      BY <2>1, <2>4, <3>3, Zenon
    <3>6. /\ page'.encoder = page.encoder /\ page'.encoders = page.encoders
          /\ page'.connection = page.connection /\ page'.opening = page.opening
          /\ page'.open = page.open /\ page'.startup = page.startup
          /\ page'.loop = page.loop /\ page'.made = page.made
      BY <2>1, <2>4, <3>3
    <3>7. /\ page' \in Page
          /\ page'.running = FALSE
          /\ page'.stopping = TRUE
          /\ page'.recovery.at = page.recovery.at
          /\ page'.recovery.connection = page.recovery.connection
          /\ page'.stream = "none"
          /\ page'.calls[i].at = "loop"
          /\ page'.calls[i].encoder = page.calls[i].encoder
          /\ page'.calls[i].connection = page.calls[i].connection
          /\ page'.calls[i].waits = page.calls[i].waits
          /\ page'.calls[i].for = page.calls[i].for
          /\ \A j \in 0..MaxCalls : j # i => page'.calls[j] = page.calls[j]
          /\ UNCHANGED <<page.alive, page.reconfiguring, page.trusted, page.reader,
                          page.encoder, page.encoders, page.connection, page.opening,
                          page.open, page.promise, page.startup, page.loop, page.made>>
      BY <2>4, <2>6, <3>1, <3>3, <3>4, <3>5, <3>6
    <3>8. page'.recovery.at # "none" => page'.recovery.aborted
      BY <2>2, <2>4, <3>3
    <3> QED
      BY <1>1, <2>5, <2>8, <3>7, <3>8, StopCaptureStops, Zenon
  <2> QED
    BY <2>7, <2>8
<1> QED
  BY <1>2, <1>3

-----------------------------------------------------------------------------
(* consumeFrames and reconfigureForSource.                                 *)

\* The frame loop ends by an error.
LEMMA LoopFailsKept ==
  ASSUME IInv, NEW p \in Page, LoopFails(p),
         UNCHANGED <<mode, starting, stopper, closing, sources>>,
         /\ p.alive = page.alive /\ p.running = page.running
         /\ p.stopping = page.stopping /\ p.reconfiguring = page.reconfiguring
         /\ p.trusted = page.trusted /\ p.stream = page.stream /\ p.reader = page.reader
         /\ p.encoder = page.encoder /\ p.encoders = page.encoders
         /\ p.promise = page.promise /\ p.recovery = page.recovery
         /\ p.startup = page.startup /\ p.loop = page.loop /\ p.made = page.made
         /\ p.calls = page.calls,
         page.alive /\ page.loop \in {"read", "allocate", "create", "connect"},
         p.opening \subseteq page.opening /\ p.open \subseteq page.open,
         p.connection = page.connection \/ (p.connection = 0 /\ page.loop = "connect"),
         p.connection # page.connection => page.connection \notin p.opening \cup p.open
  PROVE  IInv'
<1>1. CASE page.stopping
  <2>1. /\ page' = [p EXCEPT !.reconfiguring = FALSE, !.loop = "none"]
        /\ UNCHANGED reports
    BY <1>1 DEF LoopFails
  <2>2. /\ page' \in Page /\ page'.reconfiguring = FALSE /\ page'.loop = "none"
        /\ page'.alive = p.alive /\ page'.running = p.running
        /\ page'.stopping = p.stopping /\ page'.trusted = p.trusted
        /\ page'.stream = p.stream /\ page'.reader = p.reader
        /\ page'.encoder = p.encoder /\ page'.encoders = p.encoders
        /\ page'.connection = p.connection /\ page'.opening = p.opening
        /\ page'.open = p.open /\ page'.promise = p.promise
        /\ page'.recovery = p.recovery /\ page'.startup = p.startup
        /\ page'.made = p.made /\ page'.calls = p.calls
    BY <2>1 DEF Page
  <2>3. ~page.running
    BY <1>1 DEF IInv, RunInv
  <2>4. /\ page' \in Page
        /\ page'.loop = "none"
        /\ UNCHANGED <<page.alive, page.running, page.stopping, page.trusted,
                        page.stream, page.reader, page.encoder, page.encoders,
                        page.promise, page.recovery, page.startup, page.made,
                        page.calls>>
    BY <2>2, ZenonT(40)
  <2>5. /\ page'.opening \subseteq page.opening /\ page'.open \subseteq page.open
        /\ page'.connection = page.connection \/ (page'.connection = 0 /\ page.loop = "connect")
        /\ page'.connection # page.connection =>
             page.connection \notin page'.opening \cup page'.open
    BY <2>2
  <2>6. UNCHANGED <<mode, starting, stopper, closing, reports, sources>>
    BY <2>1
  <2> QED
    BY <2>3, <2>4, <2>5, <2>6, LoopOver, Zenon
<1>2. CASE ~page.stopping
  <2>1. /\ page' = [p EXCEPT !.reconfiguring = FALSE, !.running = FALSE, !.loop = "report"]
        /\ reports' = Append(reports, "loopFailed")
    BY <1>2 DEF LoopFails
  <2>2. /\ page' \in Page /\ page'.reconfiguring = FALSE /\ page'.running = FALSE
        /\ page'.loop = "report"
        /\ page'.alive = p.alive /\ page'.stopping = p.stopping
        /\ page'.trusted = p.trusted /\ page'.stream = p.stream
        /\ page'.reader = p.reader /\ page'.encoder = p.encoder
        /\ page'.encoders = p.encoders /\ page'.connection = p.connection
        /\ page'.opening = p.opening /\ page'.open = p.open /\ page'.promise = p.promise
        /\ page'.recovery = p.recovery /\ page'.startup = p.startup
        /\ page'.made = p.made /\ page'.calls = p.calls
    BY <2>1 DEF Page
  <2>3. /\ page' \in Page
        /\ page'.loop = "report"
        /\ page'.running = FALSE
        /\ UNCHANGED <<page.alive, page.stopping, page.trusted, page.stream,
                        page.reader, page.encoder, page.encoders, page.promise,
                        page.recovery, page.startup, page.made, page.calls>>
    BY <2>2, ZenonT(40)
  <2>4. /\ page'.opening \subseteq page.opening /\ page'.open \subseteq page.open
        /\ page'.connection = page.connection \/ (page'.connection = 0 /\ page.loop = "connect")
        /\ page'.connection # page.connection =>
             page.connection \notin page'.opening \cup page'.open
    BY <2>2
  <2>5. "loopFailed" \in {"loopFailed", "loopEnded"}
    OBVIOUS
  <2> QED
    BY <2>1, <2>3, <2>4, <2>5, LoopReported, Zenon
<1> QED
  BY <1>1, <1>2

\* A frame fails.
LEMMA FrameFailsKept == IInv /\ FrameFails => IInv'
<1> SUFFICES ASSUME IInv, FrameFails PROVE IInv'
  OBVIOUS
<1>1. /\ LoopFails(page) /\ page.alive /\ page.loop = "read"
      /\ UNCHANGED <<mode, starting, stopper, closing, sources>>
  BY DEF FrameFails, NoMicrotask, workerVars
<1> QED
  BY <1>1, PageTypes, LoopFailsKept

\* The frame loop ends.
LEMMA LoopEndsKept == IInv /\ LoopEnds => IInv'
<1> SUFFICES ASSUME IInv, LoopEnds PROVE IInv'
  OBVIOUS
<1>1. /\ page \in Page /\ page.alive /\ page.loop = "read"
      /\ UNCHANGED <<mode, starting, stopper, closing, sources>>
  BY PageTypes DEF LoopEnds, NoMicrotask, workerVars, bounds
<1>2. CASE page.running /\ ~page.stopping
  <2>1. /\ page' = [page EXCEPT !.running = FALSE, !.loop = "report"]
        /\ reports' = Append(reports, "loopEnded")
    BY <1>2 DEF LoopEnds
  <2>2. /\ page' \in Page /\ page'.running = FALSE /\ page'.loop = "report"
        /\ page'.alive = page.alive /\ page'.stopping = page.stopping
        /\ page'.reconfiguring = page.reconfiguring /\ page'.trusted = page.trusted
        /\ page'.stream = page.stream /\ page'.reader = page.reader
        /\ page'.encoder = page.encoder /\ page'.encoders = page.encoders
        /\ page'.connection = page.connection /\ page'.opening = page.opening
        /\ page'.open = page.open /\ page'.promise = page.promise
        /\ page'.recovery = page.recovery /\ page'.startup = page.startup
        /\ page'.made = page.made /\ page'.calls = page.calls
    BY <1>1, <2>1 DEF Page
  <2>3. /\ page' \in Page
        /\ page'.loop = "report"
        /\ page'.running = FALSE
        /\ UNCHANGED <<page.alive, page.stopping, page.trusted, page.stream,
                        page.reader, page.encoder, page.encoders, page.promise,
                        page.recovery, page.startup, page.made, page.calls>>
    BY <2>2
  <2>4. /\ page'.opening \subseteq page.opening /\ page'.open \subseteq page.open
        /\ page'.connection = page.connection
    BY <2>2
  <2>5. "loopEnded" \in {"loopFailed", "loopEnded"}
        /\ page.loop \in {"read", "allocate", "create", "connect"}
    BY <1>1
  <2> QED
    BY <1>1, <2>1, <2>3, <2>4, <2>5, LoopReported, Zenon
<1>3. CASE ~(page.running /\ ~page.stopping)
  <2>1. /\ page' = [page EXCEPT !.loop = "none"]
        /\ UNCHANGED reports
    BY <1>3 DEF LoopEnds
  <2>2. /\ page' \in Page /\ page'.loop = "none"
        /\ page'.alive = page.alive /\ page'.running = page.running
        /\ page'.stopping = page.stopping /\ page'.reconfiguring = page.reconfiguring
        /\ page'.trusted = page.trusted /\ page'.stream = page.stream
        /\ page'.reader = page.reader /\ page'.encoder = page.encoder
        /\ page'.encoders = page.encoders /\ page'.connection = page.connection
        /\ page'.opening = page.opening /\ page'.open = page.open
        /\ page'.promise = page.promise /\ page'.recovery = page.recovery
        /\ page'.startup = page.startup /\ page'.made = page.made
        /\ page'.calls = page.calls
    BY <1>1, <2>1 DEF Page
  <2>3. ~page.running
    BY <1>3 DEF IInv, RunInv
  <2>4. /\ page' \in Page
        /\ page'.loop = "none"
        /\ UNCHANGED <<page.alive, page.running, page.stopping, page.trusted,
                        page.stream, page.reader, page.encoder, page.encoders,
                        page.promise, page.recovery, page.startup, page.made,
                        page.calls>>
    BY <2>2
  <2>5. /\ page'.opening \subseteq page.opening /\ page'.open \subseteq page.open
        /\ page'.connection = page.connection
        /\ page.loop \in {"read", "allocate", "create", "connect"}
    BY <1>1, <2>2
  <2>6. UNCHANGED <<mode, starting, stopper, closing, reports, sources>>
    BY <1>1, <2>1
  <2> QED
    BY <1>1, <2>3, <2>4, <2>5, <2>6, LoopOver, Zenon
<1> QED
  BY <1>2, <1>3

\* A reconfiguration makes another encoder, or fails.
LEMMA ReplaceEncoderKept == IInv /\ ReplaceEncoder => IInv'
<1> SUFFICES ASSUME IInv, ReplaceEncoder PROVE IInv'
  OBVIOUS
<1>1. /\ page \in Page /\ page.alive /\ page.loop = "create"
      /\ UNCHANGED <<mode, starting, stopper, closing, sources>>
  BY PageTypes DEF ReplaceEncoder, NoMicrotask, workerVars, bounds
<1>2. CASE LoopFails(page)
  BY <1>1, <1>2, LoopFailsKept
<1>3. CASE /\ page' = [MakeConnection(MakeEncoder(page)) EXCEPT !.loop = "connect"]
           /\ UNCHANGED reports
  <2>1. PICK q \in Page :
          /\ q = MakeConnection(MakeEncoder(page)) /\ Otherwise(page, q)
          /\ q.encoder = page.made + 1 /\ q.encoders = page.encoders \cup {page.made + 1}
          /\ q.connection = page.made + 2 /\ q.opening = page.opening \cup {page.made + 2}
          /\ q.made = page.made + 2 /\ q.open = page.open
    BY <1>1, BothOf, Zenon
  <2>2. page' = [q EXCEPT !.loop = "connect"]
    BY <1>3, <2>1
  <2>3. /\ page' \in Page /\ page'.loop = "connect"
        /\ page'.alive = q.alive /\ page'.running = q.running
        /\ page'.stopping = q.stopping /\ page'.reconfiguring = q.reconfiguring
        /\ page'.trusted = q.trusted /\ page'.stream = q.stream
        /\ page'.reader = q.reader /\ page'.encoder = q.encoder
        /\ page'.encoders = q.encoders /\ page'.connection = q.connection
        /\ page'.opening = q.opening /\ page'.open = q.open /\ page'.promise = q.promise
        /\ page'.recovery = q.recovery /\ page'.startup = q.startup
        /\ page'.made = q.made /\ page'.calls = q.calls
    BY <2>1, <2>2 DEF Page
  <2>4. /\ page' \in Page
        /\ page'.encoder = page.made + 1
        /\ page'.encoders = page.encoders \cup {page.made + 1}
        /\ page'.connection = page.made + 2
        /\ page'.opening = page.opening \cup {page.made + 2}
        /\ page'.made = page.made + 2
        /\ page'.loop = "connect"
        /\ UNCHANGED <<page.alive, page.running, page.stopping, page.reconfiguring,
                        page.trusted, page.stream, page.reader, page.open, page.promise,
                        page.recovery, page.startup, page.calls>>
    BY <2>1, <2>3, Zenon DEF Otherwise
  <2> QED
    BY <1>1, <1>3, <2>4, EncoderReplaced
<1> QED
  BY <1>2, <1>3 DEF ReplaceEncoder

\* A reconfiguration has its connection, or fails.
LEMMA ReconnectKept == IInv /\ Reconnect => IInv'
<1> SUFFICES ASSUME IInv, Reconnect PROVE IInv'
  OBVIOUS
<1>1. /\ page.alive /\ page.loop = "connect"
      /\ UNCHANGED <<mode, starting, stopper, closing, sources>>
  BY DEF Reconnect, NoMicrotask, workerVars, bounds
<1>2. CASE LoopFails(NotConnected)
  <2>1. /\ NotConnected.opening \subseteq page.opening /\ NotConnected.open \subseteq page.open
        /\ NotConnected.connection = 0 /\ page.loop = "connect"
        /\ page.connection \notin NotConnected.opening \cup NotConnected.open
    BY <1>1, ConnectedTypes
  <2> QED
    BY <1>1, <1>2, <2>1, ConnectedTypes, LoopFailsKept
<1>3. CASE /\ Connects
           /\ page' = [Connected EXCEPT !.reconfiguring = FALSE, !.loop = "read"]
           /\ UNCHANGED reports
  <2> DEFINE c == Connected
  <2>1. c \in Page
    BY ConnectedTypes
  <2>2. page' = [c EXCEPT !.reconfiguring = FALSE, !.loop = "read"]
    BY <1>3
  <2> HIDE DEF c
  <2>3. /\ page' \in Page /\ page'.reconfiguring = FALSE /\ page'.loop = "read"
        /\ page'.alive = c.alive /\ page'.running = c.running
        /\ page'.stopping = c.stopping /\ page'.trusted = c.trusted
        /\ page'.stream = c.stream /\ page'.reader = c.reader
        /\ page'.encoder = c.encoder /\ page'.encoders = c.encoders
        /\ page'.connection = c.connection /\ page'.opening = c.opening
        /\ page'.open = c.open /\ page'.promise = c.promise
        /\ page'.recovery = c.recovery /\ page'.startup = c.startup
        /\ page'.made = c.made /\ page'.calls = c.calls
    BY <2>1, <2>2 DEF Page
  <2>4. /\ page' \in Page
        /\ page'.opening = page.opening \ {page.connection}
        /\ page'.open = page.open \cup {page.connection}
        /\ page'.reconfiguring = FALSE
        /\ page'.loop = "read"
        /\ UNCHANGED <<page.alive, page.running, page.stopping, page.trusted,
                        page.stream, page.reader, page.encoder, page.encoders,
                        page.connection, page.promise, page.recovery, page.startup,
                        page.made, page.calls>>
    BY <2>3, ConnectedTypes DEF c
  <2>5. page.connection \in page.opening
        /\ UNCHANGED <<mode, starting, stopper, closing, reports, sources>>
    BY <1>1, <1>3 DEF Connects
  <2> QED
    BY <1>1, <2>4, <2>5, Reconnected, Zenon
<1> QED
  BY <1>2, <1>3 DEF Reconnect

\* A reconfiguration has its epoch and closes the connection, or fails.
LEMMA AllocateEpochKept == IInv /\ AllocateEpoch => IInv'
<1> SUFFICES ASSUME IInv, AllocateEpoch PROVE IInv'
  OBVIOUS
<1>1. /\ page \in Page /\ page.alive /\ page.loop = "allocate"
      /\ UNCHANGED <<mode, starting, stopper, closing, sources>>
  BY PageTypes DEF AllocateEpoch, NoMicrotask, workerVars, bounds
<1>2. CASE LoopFails(page)
  BY <1>1, <1>2, LoopFailsKept
<1> DEFINE q == [page EXCEPT !.loop = "close"]
<1>3. CASE CloseReceiver(0, q)
  <2>1. /\ q \in Page /\ q.loop = "close"
        /\ q.alive = page.alive /\ q.running = page.running
        /\ q.stopping = page.stopping /\ q.reconfiguring = page.reconfiguring
        /\ q.trusted = page.trusted /\ q.stream = page.stream /\ q.reader = page.reader
        /\ q.encoder = page.encoder /\ q.encoders = page.encoders
        /\ q.connection = page.connection /\ q.opening = page.opening
        /\ q.open = page.open /\ q.promise = page.promise /\ q.recovery = page.recovery
        /\ q.startup = page.startup /\ q.made = page.made /\ q.calls = page.calls
    BY <1>1 DEF Page
  <2>2. CloseReceiver(0, q)
    BY <1>3
  <2> HIDE DEF q
  <2>3. PICK r \in RecoveryState :
          /\ Abort(q) = [q EXCEPT !.recovery = r]
          /\ r.at = q.recovery.at /\ r.connection = q.recovery.connection
          /\ r.at # "none" => r.aborted
    BY <2>1, RecoveryAborted
  <2> DEFINE p == [q EXCEPT !.recovery = r]
  <2>4. /\ p \in Page /\ p.recovery = r
        /\ p.alive = q.alive /\ p.running = q.running /\ p.stopping = q.stopping
        /\ p.reconfiguring = q.reconfiguring /\ p.trusted = q.trusted
        /\ p.stream = q.stream /\ p.reader = q.reader /\ p.encoder = q.encoder
        /\ p.encoders = q.encoders /\ p.connection = q.connection
        /\ p.opening = q.opening /\ p.open = q.open /\ p.promise = q.promise
        /\ p.startup = q.startup /\ p.loop = q.loop /\ p.made = q.made
        /\ p.calls = q.calls
    BY <2>1 DEF Page
  <2>5. Abort(q) = p
    BY <2>3
  <2> HIDE DEF p
  <2>6. /\ p.alive = page.alive /\ p.running = page.running
        /\ p.reader = page.reader /\ p.promise = page.promise
    BY <2>1, <2>4, Zenon
  <2>7. /\ p.stopping = page.stopping
        /\ p.reconfiguring = page.reconfiguring /\ p.trusted = page.trusted
    BY <2>1, <2>4, Zenon
  <2>8. /\ p.stream = page.stream /\ p.encoder = page.encoder
        /\ p.encoders = page.encoders /\ p.connection = page.connection
        /\ p.opening = page.opening /\ p.open = page.open /\ p.startup = page.startup
        /\ p.made = page.made /\ p.calls = page.calls
    BY <2>1, <2>4
  <2>9. CASE page.connection = 0
    <3> DEFINE encoders == page.encoders \ {page.encoder}
    <3>1. encoders \in SUBSET Nat /\ Idle \in CallState /\ 0 \in 0..MaxCalls
      BY <1>1, CallNumbers DEF Page, CallState, Idle
    <3>2. AfterReceiver(0, p)
      BY <2>2, <2>4, <2>5, <2>8, <2>9 DEF CloseReceiver
    <3>3. /\ page' = [p EXCEPT !.calls[0] = Idle, !.loop = "create", !.encoder = 0,
                               !.encoders = encoders]
          /\ UNCHANGED reports
      BY <2>4, <2>8, <3>2 DEF AfterReceiver, Page
    <3> HIDE DEF encoders
    <3>4. /\ page' \in Page /\ page'.calls[0] = Idle /\ page'.loop = "create"
          /\ page'.encoder = 0 /\ page'.encoders = encoders
          /\ \A j \in 0..MaxCalls : j # 0 => page'.calls[j] = p.calls[j]
          /\ page'.alive = p.alive /\ page'.running = p.running
          /\ page'.stopping = p.stopping /\ page'.reconfiguring = p.reconfiguring
          /\ page'.trusted = p.trusted /\ page'.stream = p.stream
          /\ page'.reader = p.reader /\ page'.connection = p.connection
          /\ page'.opening = p.opening /\ page'.open = p.open
          /\ page'.promise = p.promise /\ page'.recovery = p.recovery
          /\ page'.startup = p.startup /\ page'.made = p.made
      BY <2>4, <3>1, <3>3 DEF Page
    <3>5. \A i \in 0..MaxCalls : page.calls[i].at \notin {"flush", "drain", "recovery"}
      BY <1>1, CallNumbers DEF IInv, StreamInv, CallInv, Is
    <3>6. page.recovery.at = "none" /\ ~page.promise
      BY <2>9, <3>5 DEF IInv, ConnectionInv
    <3>7. page.opening = {} /\ page.open = {}
      <4>1. \A n \in page.opening \cup page.open : n = page.connection
        BY <3>5 DEF IInv, ConnectionInv
      <4>2. \A n \in page.opening \cup page.open : n # 0
        BY DEF IInv, NumberInv
      <4> QED
        BY <2>9, <4>1, <4>2
    <3>8. p.recovery = page.recovery
      BY <2>1, <2>4, <2>5, <3>6 DEF Abort
    <3>9. /\ page'.alive = page.alive /\ page'.running = page.running
          /\ page'.reader = page.reader /\ page'.promise = page.promise
      BY <2>6, <3>4, Zenon
    <3>10. /\ page'.stopping = page.stopping
           /\ page'.reconfiguring = page.reconfiguring /\ page'.trusted = page.trusted
      BY <2>7, <3>4, Zenon
    <3>11. /\ \A j \in 0..MaxCalls : j # 0 => page'.calls[j] = page.calls[j]
           /\ page'.stream = page.stream /\ page'.connection = page.connection
           /\ page'.opening = page.opening /\ page'.open = page.open
           /\ page'.recovery = page.recovery /\ page'.startup = page.startup
           /\ page'.made = page.made
      BY <2>8, <3>4, <3>8
    <3>12. /\ page' \in Page
           /\ page'.loop = "create"
           /\ page'.encoder = 0
           /\ page'.encoders = page.encoders \ {page.encoder}
           /\ page'.connection = 0
           /\ page'.calls[0] = Idle
           /\ \A j \in 0..MaxCalls : j # 0 => page'.calls[j] = page.calls[j]
           /\ UNCHANGED <<page.alive, page.running, page.stopping, page.reconfiguring,
                           page.trusted, page.stream, page.reader, page.opening, page.open,
                           page.promise, page.recovery, page.startup, page.made>>
      BY <2>9, <3>4, <3>9, <3>10, <3>11 DEF encoders
    <3>13. UNCHANGED <<mode, starting, stopper, closing, reports, sources>>
      BY <1>1, <3>3
    <3> QED
      BY <1>1, <3>6, <3>7, <3>12, <3>13, ReconfigurationCloses
  <2>10. CASE page.connection # 0
    <3> DEFINE c == [p.calls[0] EXCEPT !.at = "drain", !.connection = p.connection,
                                      !.waits = p.promise]
    <3>1. /\ c \in CallState /\ c.at = "drain" /\ c.connection = p.connection
          /\ c.waits = p.promise /\ c.encoder = p.calls[0].encoder /\ c.for = p.calls[0].for
      <4>1. p.calls[0] \in CallState /\ p.connection \in Nat /\ p.promise \in BOOLEAN
        BY <2>4, CallNumbers DEF Page
      <4> QED
        BY <4>1 DEF CallState
    <3>2. /\ page' = [p EXCEPT !.calls[0] = c, !.promise = FALSE]
          /\ UNCHANGED reports
      BY <2>2, <2>4, <2>5, <2>8, <2>10 DEF CloseReceiver
    <3> HIDE DEF c
    <3>3. /\ page' \in Page /\ page'.promise = FALSE /\ page'.calls[0] = c
          /\ \A j \in 0..MaxCalls : j # 0 => page'.calls[j] = p.calls[j]
          /\ page'.alive = p.alive /\ page'.running = p.running
          /\ page'.stopping = p.stopping /\ page'.reconfiguring = p.reconfiguring
          /\ page'.trusted = p.trusted /\ page'.stream = p.stream
          /\ page'.reader = p.reader /\ page'.encoder = p.encoder
          /\ page'.encoders = p.encoders /\ page'.connection = p.connection
          /\ page'.opening = p.opening /\ page'.open = p.open
          /\ page'.recovery = p.recovery /\ page'.startup = p.startup
          /\ page'.loop = p.loop /\ page'.made = p.made
      BY <2>4, <3>1, <3>2, CallNumbers DEF Page
    <3>4. /\ page'.calls[0].at = "drain"
          /\ page'.calls[0].connection = page.connection
          /\ page'.calls[0].waits = page.promise
          /\ page'.calls[0].encoder = page.calls[0].encoder
          /\ page'.calls[0].for = page.calls[0].for
          /\ \A j \in 0..MaxCalls : j # 0 => page'.calls[j] = page.calls[j]
      BY <2>6, <2>8, <3>1, <3>3
    <3>5. /\ page'.recovery.at = page.recovery.at
          /\ page'.recovery.connection = page.recovery.connection
          /\ page'.recovery.at # "none" => page'.recovery.aborted
      BY <2>1, <2>3, <2>4, <3>3
    <3>6. /\ page'.alive = page.alive /\ page'.running = page.running
          /\ page'.reader = page.reader
      BY <2>6, <3>3, Zenon
    <3>7. /\ page'.stopping = page.stopping
          /\ page'.reconfiguring = page.reconfiguring /\ page'.trusted = page.trusted
      BY <2>7, <3>3, Zenon
    <3>8. page'.loop = "close"
          /\ page'.stream = page.stream /\ page'.encoder = page.encoder
          /\ page'.encoders = page.encoders /\ page'.connection = page.connection
          /\ page'.opening = page.opening /\ page'.open = page.open
          /\ page'.startup = page.startup /\ page'.made = page.made
      BY <2>1, <2>4, <2>8, <3>3
    <3>9. /\ page' \in Page
          /\ page'.loop = "close"
          /\ page'.promise = FALSE
          /\ page'.recovery.at = page.recovery.at
          /\ page'.recovery.connection = page.recovery.connection
          /\ page'.calls[0].at = "drain"
          /\ page'.calls[0].connection = page.connection
          /\ page'.calls[0].waits = page.promise
          /\ page'.calls[0].encoder = page.calls[0].encoder
          /\ page'.calls[0].for = page.calls[0].for
          /\ \A j \in 0..MaxCalls : j # 0 => page'.calls[j] = page.calls[j]
          /\ UNCHANGED <<page.alive, page.running, page.stopping, page.reconfiguring,
                          page.trusted, page.stream, page.reader, page.encoder,
                          page.encoders, page.connection, page.opening, page.open,
                          page.startup, page.made>>
      BY <3>3, <3>4, <3>5, <3>6, <3>7, <3>8
    <3>10. UNCHANGED <<mode, starting, stopper, closing, reports, sources>>
      BY <1>1, <3>2
    <3> QED
      BY <1>1, <2>10, <3>5, <3>9, <3>10, ReconfigurationDrains, Zenon
  <2> QED
    BY <2>9, <2>10
<1> QED
  BY <1>2, <1>3 DEF AllocateEpoch

-----------------------------------------------------------------------------
(* What goes wrong.                                                        *)

\* A failure is reported, unless the capture is being stopped.
LEMMA FailureReported ==
  ASSUME IInv, NEW p \in Page, NoMicrotask, CanCall, ~page.stopping,
         page' = Fail(p), Report("failed"),
         UNCHANGED <<mode, starting, stopper, closing, sources>>,
         /\ p.alive = page.alive /\ p.running = page.running
         /\ p.stopping = page.stopping /\ p.reconfiguring = page.reconfiguring
         /\ p.trusted = page.trusted /\ p.stream = page.stream /\ p.reader = page.reader
         /\ p.encoder = page.encoder /\ p.connection = page.connection
         /\ p.startup = page.startup /\ p.loop = page.loop /\ p.made = page.made
         /\ p.calls = page.calls,
         page.encoders # {} \/ page.open # {} \/ page.recovery.at # "none",
         p.encoders \subseteq page.encoders,
         p.opening \subseteq page.opening /\ p.open \subseteq page.open,
         \/ p.recovery = page.recovery /\ p.promise = page.promise
         \/ p.recovery = NotRecovering /\ p.promise = FALSE /\ page.running
  PROVE  IInv'
<1> DEFINE s == [p EXCEPT !.running = FALSE]
<1>1. /\ s \in Page /\ s.running = FALSE
      /\ s.alive = p.alive /\ s.stopping = p.stopping
      /\ s.reconfiguring = p.reconfiguring /\ s.trusted = p.trusted
      /\ s.stream = p.stream /\ s.reader = p.reader /\ s.encoder = p.encoder
      /\ s.encoders = p.encoders /\ s.connection = p.connection /\ s.opening = p.opening
      /\ s.open = p.open /\ s.promise = p.promise /\ s.recovery = p.recovery
      /\ s.startup = p.startup /\ s.loop = p.loop /\ s.made = p.made
      /\ s.calls = p.calls
  BY DEF Page
<1>2. page' = Call(s, "none")
  BY DEF Fail
<1> HIDE DEF s
<1>3. /\ page.alive /\ \E i \in Calls : s.calls[i].at = "none"
      /\ reports' = Append(reports, "failed")
  BY <1>1 DEF NoMicrotask, CanCall, Report
<1>4. PICK k \in Calls : \E q \in Page :
        /\ q = Call(s, "none") /\ Apart(s, q)
        /\ s.calls[k].at = "none"
        /\ q.calls[k].at = "begin" /\ q.calls[k].for = "none"
        /\ q.calls[k].encoder = 0 /\ q.calls[k].connection = 0 /\ q.calls[k].waits = FALSE
        /\ \A j \in 0..MaxCalls : j # k => q.calls[j] = s.calls[j]
  BY <1>1, <1>3, Begins, ZenonT(40)
<1>5. PICK q \in Page :
        /\ q = page' /\ Apart(s, q)
        /\ q.calls[k].at = "begin" /\ q.calls[k].for = "none"
        /\ q.calls[k].encoder = 0 /\ q.calls[k].connection = 0 /\ q.calls[k].waits = FALSE
        /\ \A j \in 0..MaxCalls : j # k => q.calls[j] = s.calls[j]
  BY <1>2, <1>4, Zenon
<1>6. /\ q.alive = s.alive /\ q.running = s.running /\ q.stopping = s.stopping
      /\ q.reconfiguring = s.reconfiguring /\ q.trusted = s.trusted
      /\ q.stream = s.stream /\ q.reader = s.reader /\ q.encoder = s.encoder
      /\ q.encoders = s.encoders /\ q.connection = s.connection /\ q.opening = s.opening
      /\ q.open = s.open /\ q.promise = s.promise /\ q.recovery = s.recovery
      /\ q.startup = s.startup /\ q.loop = s.loop /\ q.made = s.made
  BY <1>5, Zenon DEF Apart
<1>7. /\ page'.alive = page.alive /\ page'.stopping = page.stopping
      /\ page'.reconfiguring = page.reconfiguring
  BY <1>1, <1>5, <1>6, ZenonT(40)
<1>8. /\ page'.trusted = page.trusted /\ page'.reader = page.reader /\ page'.running = FALSE
      /\ page'.promise = p.promise
  BY <1>1, <1>5, <1>6, ZenonT(40)
<1>9. /\ page'.stream = p.stream /\ page'.encoder = p.encoder
      /\ page'.encoders = p.encoders /\ page'.connection = p.connection
      /\ page'.opening = p.opening /\ page'.open = p.open /\ page'.recovery = p.recovery
      /\ page'.startup = p.startup /\ page'.loop = p.loop /\ page'.made = p.made
  BY <1>1, <1>5, <1>6
<1>10. page'.calls[k].at = "begin" /\ page'.calls[k].for = "none"
       /\ page'.calls[k].encoder = 0 /\ page'.calls[k].connection = 0
       /\ page'.calls[k].waits = FALSE
       /\ \A j \in 0..MaxCalls : j # k => page'.calls[j] = page.calls[j]
  BY <1>1, <1>5
<1>11. /\ page' \in Page
       /\ page'.running = FALSE
       /\ page'.calls[k].at = "begin"
       /\ page'.calls[k].for = "none"
       /\ page'.calls[k].encoder = 0 /\ page'.calls[k].connection = 0
       /\ page'.calls[k].waits = FALSE
       /\ \A j \in 0..MaxCalls : j # k => page'.calls[j] = page.calls[j]
       /\ UNCHANGED <<page.alive, page.stopping, page.reconfiguring, page.trusted,
                       page.stream, page.reader, page.encoder, page.connection,
                       page.startup, page.loop, page.made>>
  BY <1>5, <1>7, <1>8, <1>9, <1>10
<1>12. /\ page'.encoders \subseteq page.encoders
       /\ page'.opening \subseteq page.opening /\ page'.open \subseteq page.open
  BY <1>9
<1>13. \/ page'.recovery = page.recovery /\ page'.promise = page.promise
       \/ page'.recovery = NotRecovering /\ page'.promise = FALSE /\ page.running
  BY <1>8, <1>9, Zenon
<1>14. page.alive /\ page.calls[k].at = "none"
  BY <1>1, <1>3, <1>4
<1> QED
  BY <1>3, <1>11, <1>12, <1>13, <1>14, CaptureFails, Zenon

\* The encoder fails.
LEMMA EncoderFailsKept == IInv /\ EncoderFails => IInv'
<1> SUFFICES ASSUME IInv, EncoderFails PROVE IInv'
  OBVIOUS
<1> DEFINE encoders == page.encoders \ {page.encoder}
           p == [page EXCEPT !.encoders = encoders]
<1>1. encoders \in SUBSET Nat /\ page \in Page
  BY PageTypes DEF Page
<1>2. /\ page' = Fail(p) /\ page.encoders # {}
      /\ UNCHANGED <<mode, starting, stopper, closing, sources>>
  BY <1>1 DEF EncoderFails, workerVars, Page
<1> HIDE DEF encoders
<1>3. /\ p \in Page /\ p.encoders = encoders
      /\ p.alive = page.alive /\ p.running = page.running /\ p.stopping = page.stopping
      /\ p.reconfiguring = page.reconfiguring /\ p.trusted = page.trusted
      /\ p.stream = page.stream /\ p.reader = page.reader /\ p.encoder = page.encoder
      /\ p.connection = page.connection /\ p.opening = page.opening
      /\ p.open = page.open /\ p.promise = page.promise /\ p.recovery = page.recovery
      /\ p.startup = page.startup /\ p.loop = page.loop /\ p.made = page.made
      /\ p.calls = page.calls
  BY <1>1 DEF Page
<1> HIDE DEF p
<1>4. p.encoders \subseteq page.encoders
  BY <1>3 DEF encoders
<1>5. CASE page.stopping
  <2>1. page' = p /\ UNCHANGED reports
    BY <1>2, <1>3, <1>5 DEF Fail, EncoderFails, Report
  <2>2. /\ page' \in Page
        /\ UNCHANGED <<page.alive, page.running, page.stopping, page.reconfiguring,
                        page.trusted, page.stream, page.reader, page.encoder,
                        page.connection, page.opening, page.open, page.promise,
                        page.recovery, page.startup, page.loop, page.made, page.calls>>
    BY <1>3, <2>1
  <2>3. page.alive /\ page'.encoders \subseteq page.encoders
    BY <1>4, <2>1 DEF EncoderFails, NoMicrotask
  <2> QED
    BY <1>2, <2>1, <2>2, <2>3, EncoderClosed
<1>6. CASE ~page.stopping
  <2>1. NoMicrotask /\ CanCall /\ Report("failed")
    BY DEF EncoderFails
  <2>2. p.opening \subseteq page.opening /\ p.open \subseteq page.open
    BY <1>3
  <2> QED
    BY <1>2, <1>3, <1>4, <1>6, <2>1, <2>2, FailureReported
<1> QED
  BY <1>5, <1>6

\* Nothing of what the invariant is about changes.
LEMMA NothingChanges ==
  ASSUME IInv, UNCHANGED <<workerVars, reports, page, sources>>
  PROVE  IInv'
<1>1. TypeInv'
  BY DEF IInv, TypeInv, workerVars
<1>2. WorkerInv'
  BY DEF IInv, WorkerInv, workerVars
<1>3. StopInv'
  BY DEF IInv, StopInv, workerVars
<1>4. StartInv' /\ CallInv'
  BY DEF IInv, StartInv, CallInv, InReports, workerVars
<1>5. NumberInv'
  BY DEF IInv, NumberInv
<1>6. StartupInv'
  BY DEF IInv, StartupInv, Is, workerVars
<1>7. RunInv'
  BY DEF IInv, RunInv, InReports
<1>8. StreamInv' /\ EncoderInv' /\ ConnectionInv'
  BY DEF IInv, StreamInv, EncoderInv, ConnectionInv, ToCome, Is, InReports
<1> QED
  BY <1>1, <1>2, <1>3, <1>4, <1>5, <1>6, <1>7, <1>8 DEF IInv

\* The Receiver refuses what it was sent.
LEMMA ReceiverRefusesKept == IInv /\ ReceiverRefuses => IInv'
<1> SUFFICES ASSUME IInv, ReceiverRefuses PROVE IInv'
  OBVIOUS
<1>1. /\ page \in Page /\ page' = Fail(page) /\ page.open # {}
      /\ NoMicrotask /\ CanCall /\ Report("failed")
      /\ UNCHANGED <<mode, starting, stopper, closing, sources>>
  BY PageTypes DEF ReceiverRefuses, workerVars
<1>2. CASE page.stopping
  <2>1. UNCHANGED <<workerVars, reports, page, sources>>
    BY <1>1, <1>2 DEF Fail, Report, workerVars
  <2> QED
    BY <2>1, NothingChanges
<1>3. CASE ~page.stopping
  BY <1>1, <1>3, FailureReported
<1> QED
  BY <1>2, <1>3

\* A recovery is given up.
LEMMA GiveUpKept == IInv /\ GiveUp => IInv'
<1> SUFFICES ASSUME IInv, GiveUp PROVE IInv'
  OBVIOUS
<1>1. /\ page \in Page /\ page.recovery.at = "connect" /\ ~page.recovery.aborted
      /\ page.running /\ ~page.stopping
      /\ NoMicrotask /\ CanCall /\ Report("failed")
      /\ UNCHANGED <<mode, starting, stopper, closing, sources>>
  BY PageTypes DEF GiveUp, ShouldContinue, workerVars, bounds
<1> DEFINE opening == page.opening \ {page.recovery.connection}
           open == page.open \ {page.recovery.connection}
           w == [page EXCEPT !.opening = opening, !.open = open]
<1>2. opening \in SUBSET Nat /\ open \in SUBSET Nat
  BY <1>1 DEF Page
<1>3. WithoutSocket(page, page.recovery.connection) = w
  BY <1>1 DEF WithoutSocket, Page
<1>4. opening \subseteq page.opening /\ open \subseteq page.open
  OBVIOUS
<1> HIDE DEF opening, open
<1>5. /\ w \in Page /\ w.opening = opening /\ w.open = open
      /\ w.alive = page.alive /\ w.running = page.running /\ w.stopping = page.stopping
      /\ w.reconfiguring = page.reconfiguring /\ w.trusted = page.trusted
      /\ w.stream = page.stream /\ w.reader = page.reader /\ w.encoder = page.encoder
      /\ w.encoders = page.encoders /\ w.connection = page.connection
      /\ w.promise = page.promise /\ w.recovery = page.recovery
      /\ w.startup = page.startup /\ w.loop = page.loop /\ w.made = page.made
      /\ w.calls = page.calls
  BY <1>1, <1>2 DEF Page
<1> HIDE DEF w
<1> DEFINE p == [w EXCEPT !.recovery = NotRecovering, !.promise = FALSE]
<1>6. /\ p \in Page /\ p.recovery = NotRecovering /\ p.promise = FALSE
      /\ p.alive = w.alive /\ p.running = w.running /\ p.stopping = w.stopping
      /\ p.reconfiguring = w.reconfiguring /\ p.trusted = w.trusted
      /\ p.stream = w.stream /\ p.reader = w.reader /\ p.encoder = w.encoder
      /\ p.encoders = w.encoders /\ p.connection = w.connection /\ p.opening = w.opening
      /\ p.open = w.open /\ p.startup = w.startup /\ p.loop = w.loop /\ p.made = w.made
      /\ p.calls = w.calls
  BY <1>5 DEF Page, RecoveryState, NotRecovering
<1>7. Settle(w) = p
  BY <1>1, <1>5 DEF Settle
<1>8. page' = Fail(p)
  BY <1>3, <1>7 DEF GiveUp
<1> HIDE DEF p
<1>9. /\ p.alive = page.alive /\ p.running = page.running
      /\ p.stopping = page.stopping /\ p.reconfiguring = page.reconfiguring
  BY <1>5, <1>6, Zenon
<1>10. p.trusted = page.trusted /\ p.reader = page.reader
  BY <1>5, <1>6, Zenon
<1>11. /\ p.stream = page.stream /\ p.encoder = page.encoder
       /\ p.encoders = page.encoders /\ p.connection = page.connection
       /\ p.startup = page.startup /\ p.loop = page.loop /\ p.made = page.made
       /\ p.calls = page.calls
  BY <1>5, <1>6
<1>12. /\ p.encoders \subseteq page.encoders
       /\ p.opening \subseteq page.opening /\ p.open \subseteq page.open
       /\ page.recovery.at # "none"
  BY <1>1, <1>4, <1>5, <1>6
<1> QED
  BY <1>1, <1>6, <1>8, <1>9, <1>10, <1>11, <1>12, FailureReported, Zenon

\* The event of the track's end.
LEMMA HandleTrackEndedKept == IInv /\ HandleTrackEnded => IInv'
<1> SUFFICES ASSUME IInv, HandleTrackEnded PROVE IInv'
  OBVIOUS
<1>1. /\ page \in Page /\ page.alive /\ page.stream = "ending"
      /\ UNCHANGED <<mode, starting, stopper, closing, sources>>
  BY PageTypes DEF HandleTrackEnded, NoMicrotask, workerVars, bounds
<1>2. CASE page.stopping
  <2>1. page' = [page EXCEPT !.stream = "ended"] /\ UNCHANGED reports
    BY <1>2 DEF HandleTrackEnded
  <2>2. /\ page' \in Page
        /\ page'.stream = "ended"
        /\ UNCHANGED <<page.alive, page.running, page.stopping, page.reconfiguring,
                        page.trusted, page.reader, page.encoder, page.encoders,
                        page.connection, page.opening, page.open, page.promise,
                        page.recovery, page.startup, page.loop, page.made, page.calls>>
    BY <1>1, <2>1 DEF Page
  <2> QED
    BY <1>1, <1>2, <2>1, <2>2, TrackEndedWhileStopping
<1>3. CASE ~page.stopping
  <2>1. page' = [page EXCEPT !.stream = "ended", !.running = FALSE]
        /\ reports' = Append(reports, "ended")
    BY <1>3 DEF HandleTrackEnded
  <2>2. /\ page' \in Page
        /\ page'.stream = "ended"
        /\ page'.running = FALSE
        /\ UNCHANGED <<page.alive, page.stopping, page.reconfiguring, page.trusted,
                        page.reader, page.encoder, page.encoders, page.connection,
                        page.opening, page.open, page.promise, page.recovery,
                        page.startup, page.loop, page.made, page.calls>>
    BY <1>1, <2>1 DEF Page
  <2> QED
    BY <1>1, <1>3, <2>1, <2>2, TrackEndReported
<1> QED
  BY <1>2, <1>3

-----------------------------------------------------------------------------
(* The service worker.                                                     *)

\* Nothing is in a document that is new, or that is closed.
LEMMA EmptyDocument ==
  ASSUME NEW q, q = NoDocument \/ q = Document
  PROVE  /\ q \in Page
         /\ ~q.running /\ ~q.stopping /\ ~q.reconfiguring /\ ~q.reader /\ ~q.promise
         /\ q.stream = "none" /\ q.startup = "none" /\ q.loop = "none"
         /\ q.encoder = 0 /\ q.connection = 0 /\ q.made = 0
         /\ q.encoders = {} /\ q.opening = {} /\ q.open = {}
         /\ q.recovery = NotRecovering
         /\ \A i \in 0..MaxCalls : q.calls[i] = Idle
         /\ q.alive <=> q = Document
<1> DEFINE calls == [i \in 0..MaxCalls |-> Idle]
<1>1. calls \in [0..MaxCalls -> CallState] /\ \A i \in 0..MaxCalls : calls[i] = Idle
  BY DEF CallState, Idle
<1>2. NoDocument =
        [alive |-> FALSE, running |-> FALSE, stopping |-> FALSE, reconfiguring |-> FALSE,
         trusted |-> FALSE, stream |-> "none", reader |-> FALSE, encoder |-> 0,
         encoders |-> {}, connection |-> 0, opening |-> {}, open |-> {},
         promise |-> FALSE, recovery |-> NotRecovering, startup |-> "none",
         loop |-> "none", made |-> 0, calls |-> calls]
  BY Zenon DEF NoDocument
<1>3. NotRecovering \in RecoveryState
  BY DEF NotRecovering, RecoveryState
<1> HIDE DEF calls
<1>4. CASE q = NoDocument
  BY <1>1, <1>2, <1>3, <1>4 DEF Page, Document
<1>5. CASE q = Document
  BY <1>1, <1>2, <1>3, <1>5 DEF Page, Document
<1> QED
  BY <1>4, <1>5

\* A document is made or closed: in it nothing contradicts the invariant.
LEMMA EmptyKept ==
  ASSUME IInv, page' = NoDocument \/ page' = Document,
         page'.alive => reports = <<>>, UNCHANGED reports, sources' \in Nat
  PROVE  /\ CallInv' /\ NumberInv' /\ StartupInv' /\ RunInv'
         /\ StreamInv' /\ EncoderInv' /\ ConnectionInv'
<1>1. /\ page' \in Page
      /\ ~page'.running /\ ~page'.stopping /\ ~page'.reconfiguring /\ ~page'.reader
      /\ ~page'.promise
      /\ page'.stream = "none" /\ page'.startup = "none" /\ page'.loop = "none"
      /\ page'.encoder = 0 /\ page'.connection = 0 /\ page'.made = 0
      /\ page'.encoders = {} /\ page'.opening = {} /\ page'.open = {}
      /\ page'.recovery = NotRecovering
      /\ \A i \in 0..MaxCalls : page'.calls[i] = Idle
  BY EmptyDocument
<1>2. CallInv'
  BY <1>1, CallNumbers DEF IInv, CallInv, InReports, Idle
<1>3. NumberInv'
  <2>1. PICK n \in Nat : sources' = n
    OBVIOUS
  <2>2. page'.recovery.connection = 0 /\ \A i \in 0..MaxCalls : page'.calls[i].connection = 0
    BY <1>1 DEF NotRecovering, Idle
  <2>3. 0 <= 2 * n + 2 /\ 0 <= 2 * n
    OBVIOUS
  <2> QED
    BY <1>1, <2>1, <2>2, <2>3, CallNumbers DEF NumberInv
<1>4. StartupInv' /\ RunInv'
  BY <1>1, CallNumbers DEF StartupInv, RunInv
<1>5. StreamInv' /\ EncoderInv' /\ ConnectionInv'
  BY <1>1, CallNumbers DEF StreamInv, EncoderInv, ConnectionInv, Is, NotRecovering, Idle
<1> QED
  BY <1>2, <1>3, <1>4, <1>5

\* The document stays as it is.
LEMMA PageKept ==
  ASSUME IInv, UNCHANGED <<reports, page, sources>>,
         page.startup # "none" => UNCHANGED closing
  PROVE  /\ CallInv' /\ NumberInv' /\ StartupInv' /\ RunInv'
         /\ StreamInv' /\ EncoderInv' /\ ConnectionInv'
<1>1. CallInv' /\ NumberInv'
  BY DEF IInv, CallInv, NumberInv, InReports
<1>2. StartupInv'
  BY DEF IInv, StartupInv, Is
<1>3. RunInv'
  BY DEF IInv, RunInv, InReports
<1>4. StreamInv' /\ EncoderInv' /\ ConnectionInv'
  BY DEF IInv, StreamInv, EncoderInv, ConnectionInv, ToCome, Is, InReports
<1> QED
  BY <1>1, <1>2, <1>3, <1>4

\* And the service worker takes a message that the document does not wait for.
LEMMA MessageTaken ==
  ASSUME IInv, UNCHANGED <<page, sources>>,
         reports # <<>>, reports' = Tail(reports), Head(reports) \notin Acknowledged,
         page.running => Head(reports) \notin EndReports
  PROVE  /\ CallInv' /\ NumberInv' /\ StartupInv' /\ RunInv'
         /\ StreamInv' /\ EncoderInv' /\ ConnectionInv'
<1>1. /\ Len(reports) \in Nat
      /\ 1 \in 1..Len(reports) /\ reports[1] = Head(reports)
      /\ \A n \in 1..Len(reports') : reports'[n] = reports[n + 1] /\ n + 1 \in 1..Len(reports)
      /\ \A n \in 1..Len(reports) :
           n # 1 => n - 1 \in 1..Len(reports') /\ reports[n] = reports'[n - 1]
      /\ Len(reports') = Len(reports) - 1
  BY TakenUp DEF IInv
<1>2. ASSUME NEW messages, Head(reports) \notin messages
      PROVE  InReports(messages)' <=> InReports(messages)
  BY <1>1, <1>2 DEF InReports
<1>3. /\ InReports({"loopFailed", "loopEnded"})' <=> InReports({"loopFailed", "loopEnded"})
      /\ page.running => (InReports(EndReports)' <=> InReports(EndReports))
      /\ InReports(Acknowledged)' <=> InReports(Acknowledged)
  BY <1>2 DEF Acknowledged
<1>4. CallInv'
  <2>1. ASSUME NEW m \in 1..Len(reports'), NEW n \in 1..Len(reports'),
               reports'[m] \in {"loopFailed", "loopEnded"},
               reports'[n] \in {"loopFailed", "loopEnded"}
        PROVE  m = n
    <3>1. m + 1 = n + 1
      BY <1>1, <2>1 DEF IInv, CallInv
    <3> QED
      BY <1>1, <3>1
  <2> QED
    BY <1>3, <2>1 DEF IInv, CallInv
<1>5. NumberInv' /\ StartupInv'
  BY DEF IInv, NumberInv, StartupInv, Is
<1>6. RunInv'
  BY <1>3 DEF IInv, RunInv
<1>7. StreamInv' /\ EncoderInv' /\ ConnectionInv'
  BY <1>3 DEF IInv, StreamInv, EncoderInv, ConnectionInv, ToCome, Is
<1> QED
  BY <1>4, <1>5, <1>6, <1>7

\* The user starts a capture.
LEMMA StartProbeKept == IInv /\ StartProbe => IInv'
<1> SUFFICES ASSUME IInv, StartProbe PROVE IInv'
  OBVIOUS
<1>1. /\ mode = "idle" /\ starting = "none" /\ stopper = "none" /\ closing = 0
      /\ reports = <<>> /\ sources' = 0
      /\ UNCHANGED <<stopper, reports, page>>
      /\ \/ mode' = "error" /\ closing' = 1 /\ starting' = "none"
         \/ mode' = "starting" /\ closing' = 0 /\ starting' = "ensure"
  BY DEF StartProbe, Settled, EndWith
<1>2. page = NoDocument /\ ~page.alive
  BY <1>1 DEF IInv, WorkerInv
<1>3. /\ CallInv' /\ NumberInv' /\ StartupInv' /\ RunInv'
      /\ StreamInv' /\ EncoderInv' /\ ConnectionInv'
  BY <1>1, <1>2, EmptyKept
<1>4. /\ page' \in Page /\ ~page'.alive /\ ~page'.running /\ page'.startup = "none"
      /\ \A i \in 0..MaxCalls : page'.calls[i] = Idle
  BY <1>1, <1>2, EmptyDocument
<1>5. TypeInv'
  BY <1>1, <1>4, BoundsAssumption DEF IInv, TypeInv
<1>6. WorkerInv'
  BY <1>1, <1>2, <1>4 DEF WorkerInv
<1>7. StopInv' /\ StartInv'
  BY <1>1, <1>4, CallNumbers DEF StopInv, StartInv, InReports, Idle
<1> QED
  BY <1>3, <1>5, <1>6, <1>7 DEF IInv

\* The service worker makes the document.
LEMMA EnsureDocumentKept == IInv /\ EnsureDocument => IInv'
<1> SUFFICES ASSUME IInv, EnsureDocument PROVE IInv'
  OBVIOUS
<1>1. /\ starting = "ensure" /\ starting' = "send" /\ page' = Document
      /\ UNCHANGED <<mode, stopper, closing, reports, sources>>
  BY DEF EnsureDocument, bounds
<1>2. closing = 0 /\ reports = <<>> /\ mode # "capturing" /\ stopper = "none"
  BY <1>1 DEF IInv, WorkerInv
<1>3. /\ CallInv' /\ NumberInv' /\ StartupInv' /\ RunInv'
      /\ StreamInv' /\ EncoderInv' /\ ConnectionInv'
  BY <1>1, <1>2, EmptyKept DEF IInv, TypeInv
<1>4. /\ page' \in Page /\ page'.alive /\ ~page'.running /\ page'.startup = "none"
      /\ \A i \in 0..MaxCalls : page'.calls[i] = Idle
  BY <1>1, EmptyDocument
<1>5. TypeInv'
  BY <1>1, <1>4 DEF IInv, TypeInv
<1>6. WorkerInv'
  BY <1>1, <1>2, <1>4 DEF IInv, WorkerInv
<1>7. StopInv' /\ StartInv'
  BY <1>1, <1>2, <1>4, CallNumbers DEF StopInv, StartInv, InReports, Idle
<1> QED
  BY <1>3, <1>5, <1>6, <1>7 DEF IInv

\* The document begins with startCapture.
LEMMA SendStartKept == IInv /\ SendStart => IInv'
<1> SUFFICES ASSUME IInv, SendStart PROVE IInv'
  OBVIOUS
<1>1. /\ starting = "send" /\ starting' = "wait"
      /\ page' = [page EXCEPT !.startup = "media", !.trusted = TRUE]
      /\ UNCHANGED <<mode, stopper, closing, reports, sources>>
  BY DEF SendStart, bounds
<1>2. /\ closing = 0 /\ reports = <<>> /\ mode # "capturing" /\ stopper = "none"
      /\ page = Document /\ page \in Page
  BY <1>1 DEF IInv, WorkerInv, TypeInv
<1>3. /\ page.alive
      /\ ~page.running /\ ~page.stopping /\ ~page.reconfiguring /\ ~page.reader
      /\ ~page.promise
      /\ page.stream = "none" /\ page.startup = "none" /\ page.loop = "none"
      /\ page.encoder = 0 /\ page.connection = 0 /\ page.made = 0
      /\ page.encoders = {} /\ page.opening = {} /\ page.open = {}
      /\ page.recovery = NotRecovering
      /\ \A i \in 0..MaxCalls : page.calls[i] = Idle
  BY <1>2, EmptyDocument
<1>4. /\ page' \in Page /\ page'.startup = "media"
      /\ page'.alive = page.alive /\ page'.running = page.running
      /\ page'.stopping = page.stopping /\ page'.reconfiguring = page.reconfiguring
      /\ page'.stream = page.stream /\ page'.reader = page.reader
      /\ page'.encoder = page.encoder /\ page'.encoders = page.encoders
      /\ page'.connection = page.connection /\ page'.opening = page.opening
      /\ page'.open = page.open /\ page'.promise = page.promise
      /\ page'.recovery = page.recovery /\ page'.loop = page.loop
      /\ page'.made = page.made /\ page'.calls = page.calls
  BY <1>1, <1>2, ZenonT(40) DEF Page
<1>5. /\ page'.alive
      /\ ~page'.running /\ ~page'.stopping /\ ~page'.reconfiguring /\ ~page'.reader
      /\ ~page'.promise
  BY <1>3, <1>4, Zenon
<1>6. /\ page'.stream = "none" /\ page'.loop = "none"
      /\ page'.encoder = 0 /\ page'.connection = 0 /\ page'.made = 0
      /\ page'.encoders = {} /\ page'.opening = {} /\ page'.open = {}
      /\ page'.recovery = NotRecovering
      /\ \A i \in 0..MaxCalls : page'.calls[i] = Idle
  BY <1>3, <1>4
<1>7. TypeInv'
  BY <1>1, <1>4 DEF IInv, TypeInv
<1>8. WorkerInv'
  BY <1>1, <1>2, <1>5 DEF IInv, WorkerInv
<1>9. StopInv' /\ StartInv' /\ CallInv'
  BY <1>1, <1>2, <1>4, <1>5, <1>6, CallNumbers DEF StopInv, StartInv, CallInv, InReports, Idle
<1>10. NumberInv'
  BY <1>1, <1>6, CallNumbers DEF IInv, TypeInv, NumberInv, NotRecovering, Idle
<1>11. StartupInv' /\ RunInv'
  BY <1>1, <1>2, <1>4, <1>5, <1>6, CallNumbers
  DEF StartupInv, RunInv, Is, NotRecovering, Idle
<1>12. StreamInv' /\ EncoderInv' /\ ConnectionInv'
  BY <1>5, <1>6, CallNumbers DEF StreamInv, EncoderInv, ConnectionInv, Is, NotRecovering, Idle
<1> QED
  BY <1>7, <1>8, <1>9, <1>10, <1>11, <1>12 DEF IInv

\* startProbe has its answer.
LEMMA StartAnsweredKept == IInv /\ StartAnswered => IInv'
<1> SUFFICES ASSUME IInv, StartAnswered PROVE IInv'
  OBVIOUS
<1>1. /\ reports # <<>> /\ Head(reports) \in StartAnswers
      /\ reports' = Tail(reports) /\ starting' = "none"
      /\ UNCHANGED <<stopper, page, sources>>
      /\ \/ Head(reports) = "started" /\ mode' = "capturing" /\ UNCHANGED closing
         \/ Head(reports) # "started" /\ mode' = "error" /\ closing' = closing + 1
  BY DEF StartAnswered, StartAnswers, EndWith, bounds
<1>2. /\ Len(reports) \in Nat /\ Len(reports') = Len(reports) - 1
      /\ reports' \in Seq(Reports)
      /\ 1 \in 1..Len(reports) /\ reports[1] = Head(reports)
      /\ \A n \in 1..Len(reports') : reports'[n] = reports[n + 1] /\ n + 1 \in 1..Len(reports)
      /\ \A n \in 1..Len(reports) :
           n # 1 => n - 1 \in 1..Len(reports') /\ reports[n] = reports'[n - 1]
  BY <1>1, TakenUp DEF IInv
<1>3. /\ starting = "wait" /\ page.startup = "none"
      /\ \A m \in 1..Len(reports) : reports[m] \in StartAnswers => m = 1
      /\ reports[1] = "started" => closing = 0
  BY <1>1, <1>2 DEF IInv, StartInv
<1>4. /\ stopper = "none" /\ closing \in Nat
  BY <1>3 DEF IInv, WorkerInv, TypeInv
<1>5. /\ CallInv' /\ NumberInv' /\ StartupInv' /\ RunInv'
      /\ StreamInv' /\ EncoderInv' /\ ConnectionInv'
  BY <1>1, <1>3, MessageTaken DEF StartAnswers, Acknowledged, EndReports
<1>6. TypeInv'
  BY <1>1, <1>2, <1>4 DEF IInv, TypeInv
<1>7. WorkerInv'
  BY <1>1, <1>2, <1>3, <1>4 DEF IInv, WorkerInv
<1>8. StopInv'
  <2>1. \A n \in 1..Len(reports) : reports[n] # "stopped"
    BY <1>4 DEF IInv, StopInv
  <2>2. \A n \in 1..Len(reports') : reports'[n] # "stopped"
    BY <1>2, <2>1
  <2> QED
    BY <1>1, <2>2 DEF IInv, StopInv
<1>9. StartInv'
  <2>1. \A n \in 1..Len(reports') : reports'[n] \notin StartAnswers
    <3>1. ASSUME NEW n \in 1..Len(reports'), reports'[n] \in StartAnswers PROVE FALSE
      <4>1. n + 1 = 1
        BY <1>2, <1>3, <3>1
      <4> QED
        BY <1>2, <4>1
    <3> QED
      BY <3>1
  <2>2. \A i \in Calls : page.calls[i].for # "start"
    BY <1>3 DEF IInv, StartInv
  <2>3. ~InReports({"started"})'
    BY <2>1 DEF InReports, StartAnswers
  <2>4. mode' = "capturing" => page.running \/ InReports(EndReports)
    BY <1>1, <1>2 DEF IInv, StartInv, InReports
  <2>5. InReports(EndReports) => InReports(EndReports)'
    BY <1>1, <1>2 DEF InReports, EndReports, StartAnswers
  <2> QED
    BY <1>1, <1>3, <2>1, <2>2, <2>3, <2>4, <2>5 DEF StartInv
<1> QED
  BY <1>5, <1>6, <1>7, <1>8, <1>9 DEF IInv

\* A document that is closed, or was: nothing of it remains.
LEMMA DocumentClosed ==
  ASSUME IInv, page' = NoDocument, UNCHANGED <<reports, sources>>
  PROVE  /\ CallInv' /\ NumberInv' /\ StartupInv' /\ RunInv'
         /\ StreamInv' /\ EncoderInv' /\ ConnectionInv'
         /\ page' \in Page /\ ~page'.alive /\ ~page'.running /\ page'.startup = "none"
         /\ \A i \in 0..MaxCalls : page'.calls[i].for = "none"
<1>1. /\ page' \in Page /\ ~page'.running /\ page'.startup = "none"
      /\ \A i \in 0..MaxCalls : page'.calls[i] = Idle
  BY EmptyDocument
<1>2. ~page'.alive
  BY DEF NoDocument
<1>3. sources' \in Nat
  BY BoundsAssumption DEF IInv, TypeInv
<1>4. /\ CallInv' /\ NumberInv' /\ StartupInv' /\ RunInv'
      /\ StreamInv' /\ EncoderInv' /\ ConnectionInv'
  BY <1>2, <1>3, EmptyKept
<1> QED
  BY <1>1, <1>2, <1>4 DEF Idle

\* A document that is not there.
LEMMA DocumentGone ==
  ASSUME IInv, ~page.alive, UNCHANGED <<reports, page, sources>>
  PROVE  page' = NoDocument
  BY DEF IInv, WorkerInv

\* The document is gone before it has answered startProbe.
LEMMA StartUnansweredKept == IInv /\ StartUnanswered => IInv'
<1> SUFFICES ASSUME IInv, StartUnanswered PROVE IInv'
  OBVIOUS
<1>1. /\ starting = "wait" /\ ~page.alive /\ starting' = "none"
      /\ mode' = "error" /\ closing' = closing + 1
      /\ ~Answered({"started", "startFailed"})
      /\ UNCHANGED <<stopper, reports, page, sources>>
  BY DEF StartUnanswered, EndWith, bounds
<1>2. \A n \in 1..Len(reports) : reports[n] \notin StartAnswers
  BY <1>1 DEF Answered, StartAnswers, IInv, TypeInv
<1>3. /\ CallInv' /\ NumberInv' /\ StartupInv' /\ RunInv'
      /\ StreamInv' /\ EncoderInv' /\ ConnectionInv'
      /\ page' \in Page /\ ~page'.alive /\ ~page'.running /\ page'.startup = "none"
      /\ \A i \in 0..MaxCalls : page'.calls[i].for = "none"
      /\ page' = NoDocument
  BY <1>1, DocumentClosed, DocumentGone
<1>4. TypeInv'
  BY <1>1, <1>3 DEF IInv, TypeInv
<1>5. WorkerInv'
  BY <1>1, <1>3 DEF IInv, WorkerInv
<1>6. StopInv'
  BY <1>1, <1>3, CallNumbers DEF IInv, StopInv
<1>7. StartInv'
  BY <1>1, <1>2, <1>3, CallNumbers DEF StartInv, InReports, StartAnswers
<1> QED
  BY <1>3, <1>4, <1>5, <1>6, <1>7 DEF IInv

\* The user stops a capture.
LEMMA PressStopKept == IInv /\ PressStop => IInv'
<1> SUFFICES ASSUME IInv, PressStop PROVE IInv'
  OBVIOUS
<1>1. /\ mode = "capturing" /\ stopper = "none" /\ stopper' = "pressed"
      /\ UNCHANGED <<mode, starting, closing, reports, page, sources>>
  BY DEF PressStop, bounds
<1>2. /\ CallInv' /\ NumberInv' /\ StartupInv' /\ RunInv'
      /\ StreamInv' /\ EncoderInv' /\ ConnectionInv'
  BY <1>1, PageKept
<1>3. TypeInv' /\ WorkerInv'
  BY <1>1 DEF IInv, TypeInv, WorkerInv
<1>4. StopInv' /\ StartInv'
  BY <1>1 DEF IInv, StopInv, StartInv, InReports
<1> QED
  BY <1>2, <1>3, <1>4 DEF IInv

\* stopProbe begins.
LEMMA StopProbeKept == IInv /\ StopProbe => IInv'
<1> SUFFICES ASSUME IInv, StopProbe PROVE IInv'
  OBVIOUS
<1>1. /\ stopper = "pressed" /\ stopper' = IF page.alive THEN "send" ELSE "finish"
      /\ mode' = "stopping"
      /\ UNCHANGED <<starting, closing, reports, page, sources>>
  BY DEF StopProbe, bounds
<1>2. /\ CallInv' /\ NumberInv' /\ StartupInv' /\ RunInv'
      /\ StreamInv' /\ EncoderInv' /\ ConnectionInv'
  BY <1>1, PageKept
<1>3. TypeInv' /\ WorkerInv'
  BY <1>1 DEF IInv, TypeInv, WorkerInv
<1>4. StopInv' /\ StartInv'
  BY <1>1 DEF IInv, StopInv, StartInv, InReports
<1> QED
  BY <1>2, <1>3, <1>4 DEF IInv

\* stopProbe has its answer.
LEMMA StopAnsweredKept == IInv /\ StopAnswered => IInv'
<1> SUFFICES ASSUME IInv, StopAnswered PROVE IInv'
  OBVIOUS
<1>1. /\ reports # <<>> /\ Head(reports) = "stopped"
      /\ reports' = Tail(reports) /\ stopper' = "close"
      /\ UNCHANGED <<mode, starting, closing, page, sources>>
  BY DEF StopAnswered, bounds
<1>2. /\ Len(reports) \in Nat /\ Len(reports') = Len(reports) - 1
      /\ reports' \in Seq(Reports)
      /\ 1 \in 1..Len(reports) /\ reports[1] = Head(reports)
      /\ \A n \in 1..Len(reports') : reports'[n] = reports[n + 1] /\ n + 1 \in 1..Len(reports)
      /\ \A n \in 1..Len(reports) :
           n # 1 => n - 1 \in 1..Len(reports') /\ reports[n] = reports'[n - 1]
  BY <1>1, TakenUp DEF IInv
<1>3. /\ stopper = "wait" /\ \A i \in Calls : page.calls[i].for # "worker"
      /\ \A m \in 1..Len(reports) : reports[m] = "stopped" => m = 1
  BY <1>1, <1>2 DEF IInv, StopInv
<1>4. starting = "none" /\ mode # "capturing"
  BY <1>3 DEF IInv, WorkerInv
<1>5. page.startup = "none" /\ \A n \in 1..Len(reports) : reports[n] \notin StartAnswers
  BY <1>4 DEF IInv, StartInv
<1>6. /\ CallInv' /\ NumberInv' /\ StartupInv' /\ RunInv'
      /\ StreamInv' /\ EncoderInv' /\ ConnectionInv'
  BY <1>1, <1>5, MessageTaken DEF Acknowledged, EndReports
<1>7. TypeInv'
  BY <1>1, <1>2 DEF IInv, TypeInv
<1>8. WorkerInv'
  BY <1>1, <1>4 DEF IInv, WorkerInv
<1>9. StopInv'
  <2>1. ASSUME NEW n \in 1..Len(reports'), reports'[n] = "stopped" PROVE FALSE
    <3>1. n + 1 = 1
      BY <1>2, <1>3, <2>1
    <3> QED
      BY <1>2, <3>1
  <2> QED
    BY <1>1, <1>3, <2>1 DEF StopInv
<1>10. StartInv'
  <2>1. \A n \in 1..Len(reports') : reports'[n] \notin StartAnswers
    BY <1>2, <1>5
  <2> QED
    BY <1>1, <1>4, <1>5, <2>1 DEF IInv, StartInv, InReports, StartAnswers
<1> QED
  BY <1>6, <1>7, <1>8, <1>9, <1>10 DEF IInv

\* The document is gone before it has answered stopProbe.
LEMMA StopUnansweredKept == IInv /\ StopUnanswered => IInv'
<1> SUFFICES ASSUME IInv, StopUnanswered PROVE IInv'
  OBVIOUS
<1>1. /\ stopper = "wait" /\ ~page.alive /\ stopper' = "none" /\ ~Answered({"stopped"})
      /\ UNCHANGED <<mode, starting, closing, reports, page, sources>>
  BY DEF StopUnanswered, bounds
<1>2. \A n \in 1..Len(reports) : reports[n] # "stopped"
  BY <1>1 DEF Answered, IInv, TypeInv
<1>3. /\ CallInv' /\ NumberInv' /\ StartupInv' /\ RunInv'
      /\ StreamInv' /\ EncoderInv' /\ ConnectionInv'
      /\ page' \in Page /\ ~page'.alive /\ ~page'.running /\ page'.startup = "none"
      /\ \A i \in 0..MaxCalls : page'.calls[i].for = "none"
      /\ page' = NoDocument
  BY <1>1, DocumentClosed, DocumentGone
<1>4. TypeInv' /\ WorkerInv'
  BY <1>1, <1>3 DEF IInv, TypeInv, WorkerInv
<1>5. StopInv'
  BY <1>1, <1>2, <1>3, CallNumbers DEF StopInv
<1>6. StartInv'
  BY <1>1, <1>3, CallNumbers DEF IInv, StartInv, InReports
<1> QED
  BY <1>3, <1>4, <1>5, <1>6 DEF IInv

\* stopProbe closes the document.
LEMMA CloseAfterStopKept == IInv /\ CloseAfterStop => IInv'
<1> SUFFICES ASSUME IInv, CloseAfterStop PROVE IInv'
  OBVIOUS
<1>1. /\ stopper = "close"
      /\ UNCHANGED <<mode, starting, closing, reports, sources>>
      /\ \/ page' = NoDocument /\ stopper' = "finish"
         \/ ~page.alive /\ page' = page /\ stopper' = "none"
  BY DEF CloseAfterStop, CloseDocument, bounds
<1>2. starting = "none" /\ mode # "capturing"
  BY <1>1 DEF IInv, WorkerInv
<1>3. page' = NoDocument
  BY <1>1, DocumentGone
<1>4. /\ CallInv' /\ NumberInv' /\ StartupInv' /\ RunInv'
      /\ StreamInv' /\ EncoderInv' /\ ConnectionInv'
      /\ page' \in Page /\ ~page'.alive /\ ~page'.running /\ page'.startup = "none"
      /\ \A i \in 0..MaxCalls : page'.calls[i].for = "none"
  BY <1>1, <1>3, DocumentClosed
<1>5. TypeInv' /\ WorkerInv'
  BY <1>1, <1>2, <1>3, <1>4 DEF IInv, TypeInv, WorkerInv
<1>6. StopInv'
  BY <1>1, <1>4, CallNumbers DEF IInv, StopInv
<1>7. StartInv'
  <2>1. \A n \in 1..Len(reports) : reports[n] \notin StartAnswers
    BY <1>2 DEF IInv, StartInv
  <2> QED
    BY <1>1, <1>2, <1>4, <2>1, CallNumbers DEF StartInv, InReports, StartAnswers
<1> QED
  BY <1>4, <1>5, <1>6, <1>7 DEF IInv

\* stopProbe ends.
LEMMA FinishStopKept == IInv /\ FinishStop => IInv'
<1> SUFFICES ASSUME IInv, FinishStop PROVE IInv'
  OBVIOUS
<1>1. /\ stopper = "finish" /\ stopper' = "none" /\ mode' = "stopped"
      /\ UNCHANGED <<starting, closing, reports, page, sources>>
  BY DEF FinishStop, bounds
<1>2. starting = "none" /\ ~page.alive
  BY <1>1 DEF IInv, WorkerInv
<1>3. /\ CallInv' /\ NumberInv' /\ StartupInv' /\ RunInv'
      /\ StreamInv' /\ EncoderInv' /\ ConnectionInv'
  BY <1>1, PageKept
<1>4. TypeInv' /\ WorkerInv'
  BY <1>1, <1>2 DEF IInv, TypeInv, WorkerInv
<1>5. StopInv' /\ StartInv'
  BY <1>1 DEF IInv, StopInv, StartInv, InReports
<1> QED
  BY <1>3, <1>4, <1>5 DEF IInv

\* failProbe or finishUnexpectedCapture closes the document.
LEMMA CloseDocumentAfterEndKept == IInv /\ CloseDocumentAfterEnd => IInv'
<1> SUFFICES ASSUME IInv, CloseDocumentAfterEnd PROVE IInv'
  OBVIOUS
<1>1. /\ closing > 0 /\ closing' = closing - 1
      /\ UNCHANGED <<mode, starting, stopper, reports, sources>>
      /\ page' = NoDocument \/ (~page.alive /\ page' = page)
  BY DEF CloseDocumentAfterEnd, CloseDocument, bounds
<1>2. closing \in Nat /\ mode # "capturing" /\ starting \notin {"ensure", "send"}
  BY <1>1 DEF IInv, TypeInv, WorkerInv
<1>3. page' = NoDocument
  BY <1>1, DocumentGone
<1>4. /\ CallInv' /\ NumberInv' /\ StartupInv' /\ RunInv'
      /\ StreamInv' /\ EncoderInv' /\ ConnectionInv'
      /\ page' \in Page /\ ~page'.alive /\ ~page'.running /\ page'.startup = "none"
      /\ \A i \in 0..MaxCalls : page'.calls[i].for = "none"
  BY <1>1, <1>3, DocumentClosed
<1>5. TypeInv' /\ WorkerInv'
  BY <1>1, <1>2, <1>3, <1>4 DEF IInv, TypeInv, WorkerInv
<1>6. StopInv'
  BY <1>1, <1>4, CallNumbers DEF IInv, StopInv
<1>7. StartInv'
  <2>1. \A n \in 1..Len(reports) : reports[n] # "started"
    BY <1>1, <1>2 DEF IInv, StartInv, StartAnswers
  <2> QED
    BY <1>1, <1>2, <1>4, <2>1, CallNumbers DEF IInv, StartInv, InReports, StartAnswers
<1> QED
  BY <1>4, <1>5, <1>6, <1>7 DEF IInv

\* The user leaves the result.
LEMMA ResetProbeKept == IInv /\ ResetProbe => IInv'
<1> SUFFICES ASSUME IInv, ResetProbe PROVE IInv'
  OBVIOUS
<1>1. /\ starting = "none" /\ stopper = "none" /\ reports = <<>>
      /\ mode' = "idle" /\ page' = NoDocument
      /\ UNCHANGED <<starting, stopper, closing, reports, sources>>
  BY DEF ResetProbe, Settled, bounds
<1>2. /\ CallInv' /\ NumberInv' /\ StartupInv' /\ RunInv'
      /\ StreamInv' /\ EncoderInv' /\ ConnectionInv'
      /\ page' \in Page /\ ~page'.alive /\ ~page'.running /\ page'.startup = "none"
      /\ \A i \in 0..MaxCalls : page'.calls[i].for = "none"
  BY <1>1, DocumentClosed
<1>3. TypeInv' /\ WorkerInv'
  BY <1>1, <1>2 DEF IInv, TypeInv, WorkerInv
<1>4. StopInv' /\ StartInv'
  BY <1>1, <1>2, CallNumbers DEF StopInv, StartInv, InReports
<1> QED
  BY <1>2, <1>3, <1>4 DEF IInv

\* The service worker tells the document to stop.
LEMMA SendStopKept == IInv /\ SendStop => IInv'
<1> SUFFICES ASSUME IInv, SendStop PROVE IInv'
  OBVIOUS
<1>1. /\ stopper = "send"
      /\ UNCHANGED <<mode, starting, closing, reports, sources>>
  BY DEF SendStop, bounds
<1>2. starting = "none" /\ mode # "capturing"
  BY <1>1 DEF IInv, WorkerInv
<1>3. /\ page.startup = "none"
      /\ \A i \in Calls : page.calls[i].for \notin {"worker", "start"}
      /\ \A n \in 1..Len(reports) : reports[n] \notin StartAnswers \cup {"stopped"}
  <2>1. /\ page.startup = "none" /\ \A i \in Calls : page.calls[i].for # "start"
        /\ \A n \in 1..Len(reports) : reports[n] \notin StartAnswers
    BY <1>2 DEF IInv, StartInv
  <2>2. /\ \A i \in Calls : page.calls[i].for # "worker"
        /\ \A n \in 1..Len(reports) : reports[n] # "stopped"
    BY <1>1 DEF IInv, StopInv
  <2> QED
    BY <2>1, <2>2
<1>4. CASE ~page.alive
  <2>1. stopper' = "none" /\ UNCHANGED page
    BY <1>4 DEF SendStop
  <2>2. /\ CallInv' /\ NumberInv' /\ StartupInv' /\ RunInv'
        /\ StreamInv' /\ EncoderInv' /\ ConnectionInv'
    BY <1>1, <2>1, PageKept
  <2>3. TypeInv' /\ WorkerInv'
    BY <1>1, <1>2, <1>4, <2>1 DEF IInv, TypeInv, WorkerInv
  <2>4. StopInv' /\ StartInv'
    BY <1>1, <1>3, <2>1 DEF IInv, StopInv, StartInv, InReports
  <2> QED
    BY <2>2, <2>3, <2>4 DEF IInv
<1>5. CASE page.alive
  <2>1. /\ page \in Page /\ page' = Call(page, "worker") /\ stopper' = "wait"
        /\ \E i \in Calls : page.calls[i].at = "none"
    BY <1>5, PageTypes DEF SendStop, CanCall
  <2>2. PICK k \in Calls : \E q \in Page :
          /\ q = Call(page, "worker") /\ Apart(page, q)
          /\ page.calls[k].at = "none"
          /\ q.calls[k].at = "begin" /\ q.calls[k].for = "worker"
          /\ q.calls[k].encoder = 0 /\ q.calls[k].connection = 0 /\ q.calls[k].waits = FALSE
          /\ \A j \in 0..MaxCalls : j # k => q.calls[j] = page.calls[j]
    BY <2>1, Begins, ZenonT(40)
  <2>3. /\ page' \in Page
        /\ page.calls[k].at = "none"
        /\ page'.calls[k].at = "begin" /\ page'.calls[k].for = "worker"
        /\ page'.calls[k].encoder = 0 /\ page'.calls[k].connection = 0
        /\ page'.calls[k].waits = FALSE
        /\ \A j \in 0..MaxCalls : j # k => page'.calls[j] = page.calls[j]
        /\ page'.alive = page.alive /\ page'.running = page.running
        /\ page'.stopping = page.stopping /\ page'.reconfiguring = page.reconfiguring
        /\ page'.trusted = page.trusted /\ page'.stream = page.stream
        /\ page'.reader = page.reader /\ page'.encoder = page.encoder
        /\ page'.encoders = page.encoders /\ page'.connection = page.connection
        /\ page'.opening = page.opening /\ page'.open = page.open
        /\ page'.promise = page.promise /\ page'.recovery = page.recovery
        /\ page'.startup = page.startup /\ page'.loop = page.loop
        /\ page'.made = page.made
    BY <2>1, <2>2 DEF Apart
  <2>4. TypeInv' /\ WorkerInv'
    BY <1>1, <1>2, <1>5, <2>1, <2>3 DEF IInv, TypeInv, WorkerInv
  <2>5. StopInv'
    BY <1>1, <1>3, <2>1, <2>3, CallNumbers DEF StopInv
  <2>6. StartInv'
    BY <1>1, <1>3, <2>3, CallNumbers DEF IInv, StartInv, InReports, StartAnswers
  <2>7. CallInv' /\ NumberInv'
    BY <1>1, <2>3, CallNumbers DEF IInv, CallInv, NumberInv, InReports, TypeInv, Page
  <2>8. StartupInv'
    BY <1>3, <2>3, CallNumbers DEF StartupInv
  <2>9. RunInv'
    BY <1>1, <2>3, CallNumbers DEF IInv, RunInv, InReports
  <2>10. StreamInv'
    BY <1>1, <2>3, CallNumbers DEF IInv, StreamInv, ToCome, Is, InReports
  <2>11. EncoderInv'
    BY <1>1, <2>3, CallNumbers DEF IInv, EncoderInv, ToCome, Is, InReports
  <2>12. ConnectionInv'
    BY <1>1, <2>3, CallNumbers, SMTT(30) DEF IInv, ConnectionInv, ToCome, InReports
  <2> QED
    BY <2>4, <2>5, <2>6, <2>7, <2>8, <2>9, <2>10, <2>11, <2>12 DEF IInv
<1> QED
  BY <1>4, <1>5

\* The end of a capture is acknowledged, and stopCapture follows it.
LEMMA StopFollows ==
  ASSUME IInv, NEW k \in Calls,
         /\ page.calls[k].at = "none"
         /\ page'.calls[k].at = "begin" /\ page'.calls[k].for = "none"
         /\ page'.calls[k].encoder = 0 /\ page'.calls[k].connection = 0
         /\ page'.calls[k].waits = FALSE
         /\ \A j \in 0..MaxCalls : j # k => page'.calls[j] = page.calls[j]
         /\ page'.alive = page.alive /\ page'.running = page.running
         /\ page'.stopping = page.stopping /\ page'.reconfiguring = page.reconfiguring
         /\ page'.trusted = page.trusted /\ page'.stream = page.stream
         /\ page'.reader = page.reader /\ page'.encoder = page.encoder
         /\ page'.encoders = page.encoders /\ page'.connection = page.connection
         /\ page'.opening = page.opening /\ page'.open = page.open
         /\ page'.promise = page.promise /\ page'.recovery = page.recovery
         /\ page'.startup = page.startup /\ page'.made = page.made,
         page.alive /\ ~page.running, UNCHANGED sources,
         reports # <<>>, reports' = Tail(reports), Head(reports) \in Acknowledged,
         page'.loop = IF Head(reports) = "ended" THEN page.loop ELSE "none"
  PROVE  /\ CallInv' /\ NumberInv' /\ StartupInv' /\ RunInv'
         /\ StreamInv' /\ EncoderInv' /\ ConnectionInv'
<1>1. /\ Len(reports) \in Nat
      /\ 1 \in 1..Len(reports) /\ reports[1] = Head(reports)
      /\ \A n \in 1..Len(reports') : reports'[n] = reports[n + 1] /\ n + 1 \in 1..Len(reports)
      /\ \A n \in 1..Len(reports) :
           n # 1 => n - 1 \in 1..Len(reports') /\ reports[n] = reports'[n - 1]
      /\ Len(reports') = Len(reports) - 1
  BY TakenUp DEF IInv
<1>2. ASSUME NEW m \in 1..Len(reports'), NEW n \in 1..Len(reports'),
             reports'[m] \in {"loopFailed", "loopEnded"},
             reports'[n] \in {"loopFailed", "loopEnded"}
      PROVE  m = n
  <2>1. m + 1 = n + 1
    BY <1>1, <1>2 DEF IInv, CallInv
  <2> QED
    BY <1>1, <2>1
<1>3. page'.loop = "report" <=> page'.alive /\ InReports({"loopFailed", "loopEnded"})'
  <2>1. CASE Head(reports) = "ended"
    <3>1. InReports({"loopFailed", "loopEnded"})' <=> InReports({"loopFailed", "loopEnded"})
      BY <1>1, <2>1 DEF InReports
    <3> QED
      BY <2>1, <3>1 DEF IInv, CallInv
  <2>2. CASE Head(reports) # "ended"
    <3>1. Head(reports) \in {"loopFailed", "loopEnded"}
      BY <2>2 DEF Acknowledged
    <3>2. ASSUME NEW n \in 1..Len(reports'), reports'[n] \in {"loopFailed", "loopEnded"}
          PROVE  FALSE
      <4>1. n + 1 = 1
        BY <1>1, <3>1, <3>2 DEF IInv, CallInv
      <4> QED
        BY <1>1, <4>1
    <3> QED
      BY <2>2, <3>2 DEF InReports
  <2> QED
    BY <2>1, <2>2
<1>4. page.loop # "none" => page.startup = "none"
  BY DEF IInv, CallInv
<1>5. CallInv'
  <2>1. Head(reports) = "ended" \/ page.loop = "report"
    BY <1>1 DEF IInv, CallInv, Acknowledged, InReports
  <2>2. page'.loop = page.loop \/ (page.loop = "report" /\ page'.loop = "none")
    BY <2>1
  <2>3. /\ \A i \in Calls : page'.calls[i].at = "none" => page'.calls[i] = Idle
        /\ page'.calls[0] = page.calls[0] /\ page'.startup = page.startup
    BY CallNumbers DEF IInv, CallInv
  <2>4. /\ page'.calls[0].for = "none" /\ page'.calls[0].at \in {"none", "drain", "recovery"}
        /\ page'.calls[0].at # "none" <=> page'.loop = "close"
        /\ page'.loop # "none" => page'.startup = "none"
    BY <2>2, <2>3 DEF IInv, CallInv
  <2> QED
    BY <1>2, <1>3, <2>3, <2>4 DEF CallInv
<1>6. NumberInv'
  BY CallNumbers, SMTT(30) DEF IInv, NumberInv, TypeInv, Page
<1>7. StartupInv'
  BY CallNumbers DEF IInv, StartupInv, Is
<1>8. RunInv'
  BY DEF RunInv
<1>9. StreamInv'
  BY CallNumbers DEF IInv, StreamInv, ToCome, Is
<1>10. EncoderInv'
  BY CallNumbers DEF IInv, EncoderInv, ToCome, Is
<1>11. ConnectionInv'
  BY CallNumbers, SMTT(30) DEF IInv, ConnectionInv, ToCome
<1> QED
  BY <1>5, <1>6, <1>7, <1>8, <1>9, <1>10, <1>11

\* The service worker learns that a capture has ended.
LEMMA CaptureReportedKept == IInv /\ CaptureReported => IInv'
<1> SUFFICES ASSUME IInv, CaptureReported PROVE IInv'
  OBVIOUS
<1>1. /\ reports # <<>> /\ Head(reports) \in EndReports /\ reports' = Tail(reports)
      /\ mode' \in {"stopped", "error"} /\ closing' = closing + 1
      /\ Acknowledge(Head(reports)) /\ \E i \in Calls : page.calls[i].at = "none"
      /\ UNCHANGED <<starting, stopper, sources>>
  BY DEF CaptureReported, EndWith, EndReports, CanCall, bounds
<1>2. /\ Len(reports) \in Nat /\ Len(reports') = Len(reports) - 1
      /\ reports' \in Seq(Reports)
      /\ 1 \in 1..Len(reports) /\ reports[1] = Head(reports)
      /\ \A n \in 1..Len(reports') : reports'[n] = reports[n + 1] /\ n + 1 \in 1..Len(reports)
      /\ \A n \in 1..Len(reports) :
           n # 1 => n - 1 \in 1..Len(reports') /\ reports[n] = reports'[n - 1]
  BY <1>1, TakenUp DEF IInv
<1>3. /\ closing \in Nat /\ page \in Page
      /\ starting \notin {"ensure", "send"}
      /\ ~page.running
      /\ \A n \in 1..Len(reports) : reports[n] # "started"
  <2>1. InReports(EndReports) /\ reports[1] # "started"
    BY <1>1, <1>2 DEF InReports, EndReports
  <2>2. \A n \in 1..Len(reports) : reports[n] # "started"
    BY <2>1 DEF IInv, StartInv, StartAnswers
  <2> QED
    BY <1>1, <2>1, <2>2 DEF IInv, TypeInv, WorkerInv, RunInv
\* What matters to the service worker.
<1>4. ASSUME /\ page' \in Page
             /\ page' = page \/ (page'.alive /\ page.alive)
             /\ page'.startup = page.startup
             /\ \A i \in Calls : page'.calls[i].for \in {page.calls[i].for, "none"}
      PROVE  TypeInv' /\ WorkerInv' /\ StopInv' /\ StartInv'
  <2>1. TypeInv'
    BY <1>1, <1>2, <1>3, <1>4 DEF IInv, TypeInv
  <2>2. WorkerInv'
    BY <1>1, <1>3, <1>4 DEF IInv, WorkerInv
  <2>3. StopInv'
    <3>1. ASSUME NEW n \in 1..Len(reports'), reports'[n] = "stopped"
          PROVE  /\ stopper = "wait"
                 /\ \A i \in Calls : page.calls[i].for # "worker"
                 /\ \A m \in 1..Len(reports') : reports'[m] = "stopped" => m = n
      <4>1. /\ stopper = "wait"
            /\ \A i \in Calls : page.calls[i].for # "worker"
            /\ \A m \in 1..Len(reports) : reports[m] = "stopped" => m = n + 1
        BY <1>2, <3>1 DEF IInv, StopInv
      <4>2. ASSUME NEW m \in 1..Len(reports'), reports'[m] = "stopped" PROVE m = n
        <5>1. m + 1 = n + 1
          BY <1>2, <4>1, <4>2
        <5> QED
          BY <1>2, <5>1
      <4> QED
        BY <4>1, <4>2
    <3> QED
      BY <1>1, <1>4, <3>1 DEF IInv, StopInv
  <2>4. StartInv'
    <3>1. ASSUME NEW n \in 1..Len(reports'), reports'[n] \in StartAnswers
          PROVE  /\ starting = "wait" /\ page.startup = "none" /\ reports'[n] # "started"
                 /\ \A m \in 1..Len(reports') : reports'[m] \in StartAnswers => m = n
      <4>1. /\ starting = "wait" /\ page.startup = "none" /\ reports'[n] # "started"
            /\ \A m \in 1..Len(reports) : reports[m] \in StartAnswers => m = n + 1
        BY <1>2, <1>3, <3>1 DEF IInv, StartInv
      <4>2. ASSUME NEW m \in 1..Len(reports'), reports'[m] \in StartAnswers PROVE m = n
        <5>1. m + 1 = n + 1
          BY <1>2, <4>1, <4>2
        <5> QED
          BY <1>2, <5>1
      <4> QED
        BY <4>1, <4>2
    <3>2. ~InReports({"started"})' /\ mode' # "capturing"
      BY <1>1, <1>2, <1>3 DEF InReports
    <3> QED
      BY <1>1, <1>4, <3>1, <3>2 DEF IInv, StartInv
  <2> QED
    BY <2>1, <2>2, <2>3, <2>4
<1>5. CASE page.alive /\ Head(reports) = "failed"
  <2>1. page' = page
    BY <1>5, Zenon DEF CaptureReported, Acknowledge
  <2>2. /\ CallInv' /\ NumberInv' /\ StartupInv' /\ RunInv'
        /\ StreamInv' /\ EncoderInv' /\ ConnectionInv'
    BY <1>1, <1>3, <1>5, <2>1, MessageTaken DEF Acknowledged
  <2>3. TypeInv' /\ WorkerInv' /\ StopInv' /\ StartInv'
    <3>1. /\ page' \in Page /\ page'.startup = page.startup
          /\ \A i \in Calls : page'.calls[i].for \in {page.calls[i].for, "none"}
      BY <1>3, <2>1
    <3> QED
      BY <1>4, <2>1, <3>1, Zenon
  <2> QED
    BY <2>2, <2>3 DEF IInv
<1>6. CASE ~page.alive
  <2>1. page' = page /\ page = NoDocument
    <3>1. page' = page
      BY <1>1, <1>6 DEF Acknowledge
    <3> QED
      BY <1>6, <3>1 DEF IInv, WorkerInv
  <2>2. /\ ~page'.alive /\ ~page'.running /\ ~page'.reconfiguring /\ ~page'.reader
        /\ ~page'.promise
        /\ page'.stream = "none" /\ page'.startup = "none" /\ page'.loop = "none"
        /\ page'.encoder = 0 /\ page'.connection = 0
        /\ page'.encoders = {} /\ page'.opening = {} /\ page'.open = {}
        /\ page'.recovery = NotRecovering
        /\ \A i \in 0..MaxCalls : page'.calls[i] = Idle
    BY <1>6, <2>1, EmptyDocument
  <2>3. CallInv'
    <3>1. ASSUME NEW m \in 1..Len(reports'), NEW n \in 1..Len(reports'),
                 reports'[m] \in {"loopFailed", "loopEnded"},
                 reports'[n] \in {"loopFailed", "loopEnded"}
          PROVE  m = n
      <4>1. m + 1 = n + 1
        BY <1>2, <3>1 DEF IInv, CallInv
      <4> QED
        BY <1>2, <4>1
    <3> QED
      BY <2>2, <3>1, CallNumbers DEF CallInv, Idle
  <2>4. NumberInv'
    BY <1>1, <2>1 DEF IInv, NumberInv
  <2>5. StartupInv' /\ RunInv'
    BY <2>2 DEF StartupInv, RunInv
  <2>6. StreamInv' /\ EncoderInv' /\ ConnectionInv'
    BY <2>2, CallNumbers DEF StreamInv, EncoderInv, ConnectionInv, Is, NotRecovering, Idle
  <2>7. TypeInv' /\ WorkerInv' /\ StopInv' /\ StartInv'
    <3>1. /\ page' \in Page /\ page'.startup = page.startup
          /\ \A i \in Calls : page'.calls[i].for \in {page.calls[i].for, "none"}
      BY <1>3, <2>1
    <3> QED
      BY <1>4, <2>1, <3>1, Zenon
  <2> QED
    BY <2>3, <2>4, <2>5, <2>6, <2>7 DEF IInv
<1>7. CASE page.alive /\ Head(reports) # "failed"
  <2> DEFINE loop == IF Head(reports) = "ended" THEN page.loop ELSE "none"
             p == [page EXCEPT !.loop = loop]
  <2>1. /\ p \in Page /\ p.loop = loop
        /\ p.alive = page.alive /\ p.running = page.running
        /\ p.stopping = page.stopping /\ p.reconfiguring = page.reconfiguring
        /\ p.trusted = page.trusted /\ p.stream = page.stream /\ p.reader = page.reader
        /\ p.encoder = page.encoder /\ p.encoders = page.encoders
        /\ p.connection = page.connection /\ p.opening = page.opening
        /\ p.open = page.open /\ p.promise = page.promise /\ p.recovery = page.recovery
        /\ p.startup = page.startup /\ p.made = page.made /\ p.calls = page.calls
    BY <1>3 DEF Page
  <2>2. page' = Call(p, "none")
    BY <1>1, <1>7 DEF Acknowledge
  <2> HIDE DEF p
  <2>3. PICK k \in Calls : \E q \in Page :
          /\ q = Call(p, "none") /\ Apart(p, q)
          /\ p.calls[k].at = "none"
          /\ q.calls[k].at = "begin" /\ q.calls[k].for = "none"
          /\ q.calls[k].encoder = 0 /\ q.calls[k].connection = 0 /\ q.calls[k].waits = FALSE
          /\ \A j \in 0..MaxCalls : j # k => q.calls[j] = p.calls[j]
    <3>1. \E i \in Calls : p.calls[i].at = "none"
      BY <1>1, <2>1
    <3> QED
      BY <2>1, <3>1, Begins, ZenonT(40)
  <2>4. /\ page' \in Page
        /\ page.calls[k].at = "none"
        /\ page'.calls[k].at = "begin" /\ page'.calls[k].for = "none"
        /\ page'.calls[k].encoder = 0 /\ page'.calls[k].connection = 0
        /\ page'.calls[k].waits = FALSE
        /\ \A j \in 0..MaxCalls : j # k => page'.calls[j] = page.calls[j]
    BY <2>1, <2>2, <2>3
  <2>5. /\ page'.alive = p.alive /\ page'.running = p.running
        /\ page'.stopping = p.stopping /\ page'.reconfiguring = p.reconfiguring
        /\ page'.trusted = p.trusted /\ page'.stream = p.stream
        /\ page'.reader = p.reader /\ page'.encoder = p.encoder
        /\ page'.encoders = p.encoders /\ page'.connection = p.connection
        /\ page'.opening = p.opening /\ page'.open = p.open /\ page'.promise = p.promise
        /\ page'.recovery = p.recovery /\ page'.startup = p.startup
        /\ page'.loop = p.loop /\ page'.made = p.made
    BY <2>2, <2>3, ZenonT(40) DEF Apart
  <2>6. page'.alive = page.alive /\ page'.running = page.running
    BY <2>1, <2>5, Zenon
  <2>7. page'.stopping = page.stopping /\ page'.reconfiguring = page.reconfiguring
    BY <2>1, <2>5, Zenon
  <2>8. page'.trusted = page.trusted /\ page'.reader = page.reader
        /\ page'.promise = page.promise
    BY <2>1, <2>5, Zenon
  <2>9. /\ page'.loop = loop
        /\ page'.stream = page.stream /\ page'.encoder = page.encoder
        /\ page'.encoders = page.encoders /\ page'.connection = page.connection
        /\ page'.opening = page.opening /\ page'.open = page.open
        /\ page'.recovery = page.recovery /\ page'.startup = page.startup
        /\ page'.made = page.made
    BY <2>1, <2>5
  <2>10. /\ CallInv' /\ NumberInv' /\ StartupInv' /\ RunInv'
         /\ StreamInv' /\ EncoderInv' /\ ConnectionInv'
    <3>1. Head(reports) \in Acknowledged
      BY <1>1, <1>7 DEF EndReports, Acknowledged
    <3> QED
      BY <1>1, <1>3, <2>4, <2>6, <2>7, <2>8, <2>9, <3>1, <1>7, StopFollows, Zenon
  <2>11. TypeInv' /\ WorkerInv' /\ StopInv' /\ StartInv'
    <3>1. \A i \in Calls : page'.calls[i].for \in {page.calls[i].for, "none"}
      BY <2>4, CallNumbers
    <3> QED
      BY <1>4, <1>7, <2>4, <2>6, <2>9, <3>1
  <2> QED
    BY <2>10, <2>11 DEF IInv
<1> QED
  BY <1>5, <1>6, <1>7

-----------------------------------------------------------------------------
(* The invariant, and what follows from it.                                *)

\* The invariant holds before a capture was started.
LEMMA Initially == Init => IInv
<1> SUFFICES ASSUME Init PROVE IInv
  OBVIOUS
<1>1. /\ mode = "idle" /\ starting = "none" /\ stopper = "none" /\ closing = 0
      /\ reports = <<>> /\ page = NoDocument /\ sources = 0
  BY DEF Init
<1>2. /\ page \in Page
      /\ ~page.alive /\ ~page.running /\ ~page.reconfiguring /\ ~page.reader /\ ~page.promise
      /\ page.stream = "none" /\ page.startup = "none" /\ page.loop = "none"
      /\ page.encoder = 0 /\ page.connection = 0 /\ page.made = 0
      /\ page.encoders = {} /\ page.opening = {} /\ page.open = {}
      /\ page.recovery = NotRecovering
      /\ \A i \in 0..MaxCalls : page.calls[i] = Idle
  <2>1. /\ page \in Page
        /\ ~page.running /\ ~page.reconfiguring /\ ~page.reader /\ ~page.promise
        /\ page.stream = "none" /\ page.startup = "none" /\ page.loop = "none"
        /\ page.encoder = 0 /\ page.connection = 0 /\ page.made = 0
        /\ page.encoders = {} /\ page.opening = {} /\ page.open = {}
        /\ page.recovery = NotRecovering
        /\ \A i \in 0..MaxCalls : page.calls[i] = Idle
    BY <1>1, EmptyDocument
  <2>2. ~page.alive
    BY <1>1 DEF NoDocument
  <2> QED
    BY <2>1, <2>2
<1>3. TypeInv
  BY <1>1, <1>2, BoundsAssumption DEF TypeInv
<1>4. WorkerInv
  BY <1>1, <1>2 DEF WorkerInv
<1>5. StopInv /\ StartInv /\ CallInv
  BY <1>1, <1>2, CallNumbers DEF StopInv, StartInv, CallInv, InReports, Idle
<1>6. NumberInv
  BY <1>1, <1>2, CallNumbers DEF NumberInv, NotRecovering, Idle
<1>7. StartupInv /\ RunInv
  BY <1>2 DEF StartupInv, RunInv
<1>8. StreamInv /\ EncoderInv /\ ConnectionInv
  BY <1>2, CallNumbers DEF StreamInv, EncoderInv, ConnectionInv, Is, NotRecovering, Idle
<1> QED
  BY <1>3, <1>4, <1>5, <1>6, <1>7, <1>8 DEF IInv

\* Every step keeps it.
LEMMA Step == IInv /\ [Next]_vars => IInv'
<1> SUFFICES ASSUME IInv, [Next]_vars PROVE IInv'
  OBVIOUS
<1>1. CASE Stopping
  <2>1. ASSUME NEW i \in Calls, StopCapture(i) PROVE IInv'
    BY <2>1, StopCaptureKept
  <2>2. ASSUME NEW i \in Calls, CancelReader(i) PROVE IInv'
    BY <2>2, CancelReaderKept
  <2>3. ASSUME NEW i \in Calls, StopVideoEncoder(i) PROVE IInv'
    BY <2>3, StopVideoEncoderKept
  <2>4. ASSUME NEW i \in Calls, FlushEncoder(i) PROVE IInv'
    BY <2>4, FlushEncoderKept
  <2>5. ASSUME NEW i \in 0..MaxCalls, CloseConnection(i) PROVE IInv'
    BY <2>5, CloseConnectionKept
  <2>6. ASSUME NEW i \in 0..MaxCalls, AwaitRecovery(i) PROVE IInv'
    <3>1. CASE i = 0
      BY <2>6, <3>1, ReconfigurationAwaits
    <3>2. CASE i \in Calls
      BY <2>6, <3>2, AwaitRecoveryKept
    <3> QED
      BY <3>1, <3>2, CallNumbers
  <2> QED
    BY <1>1, <2>1, <2>2, <2>3, <2>4, <2>5, <2>6 DEF Stopping
<1>2. CASE Recovery
  BY <1>2, AttemptKept, CancelRecoveryKept, RetryRecoveryKept, RecoverKept, GiveUpKept
  DEF Recovery
<1>3. CASE Startup
  BY <1>3, FailStartKept, GetUserMediaKept, FirstFrameKept, CreateEncoderKept,
     ConnectStartKept, FailConnectStartKept
  DEF Startup
<1>4. CASE Frames
  BY <1>4, LoopEndsKept, AllocateEpochKept, ReplaceEncoderKept, ReconnectKept DEF Frames
<1>5. CASE Worker
  BY <1>5, EnsureDocumentKept, SendStartKept, StartAnsweredKept, StartUnansweredKept,
     StopProbeKept, SendStopKept, StopAnsweredKept, StopUnansweredKept, CloseAfterStopKept,
     FinishStopKept, CaptureReportedKept, CloseDocumentAfterEndKept
  DEF Worker
<1>6. CASE Environment
  BY <1>6, StartProbeKept, PressStopKept, ResetProbeKept, EncoderFailsKept,
     ReceiverRefusesKept, TrackEndsKept, HandleTrackEndedKept, RecoveryBegins,
     ConnectionLostKept, SourceChangesKept, FrameFailsKept
  DEF Environment
<1>7. CASE UNCHANGED vars
  BY <1>7, NothingChanges DEF vars, bounds
<1> QED
  BY <1>1, <1>2, <1>3, <1>4, <1>5, <1>6, <1>7 DEF Next

\* How service worker and document stand to each other, at all times: among it,
\* what is still to come of a capture that has ended.
THEOREM Invariance == Spec => []IInv
  BY Initially, Step, PTL DEF Spec

\* The types of all variables; a capture makes no more encoders and connections
\* than its changes of the source account for.
THEOREM TypeCorrectness == Spec => []TypeOK
<1>1. IInv => TypeOK
  <2> SUFFICES ASSUME IInv PROVE TypeOK
    OBVIOUS
  <2>1. /\ page \in Page /\ page.recovery \in RecoveryState
        /\ reports \in Seq(Reports) /\ sources \in 0..MaxSources /\ MaxSources \in Nat
    BY PageTypes, BoundsAssumption DEF IInv, TypeInv
  <2>2. page.made \in Nat /\ page.made <= 2 * (MaxSources + 1)
    BY <2>1 DEF IInv, NumberInv, Page
  <2>3. /\ {page.encoder, page.connection, page.made} \subseteq Numbers
        /\ page.encoders \cup page.opening \cup page.open \subseteq Numbers \ {0}
        /\ page.recovery.connection \in Numbers
    BY <2>1, <2>2 DEF IInv, NumberInv, Page, RecoveryState, Numbers
  <2>4. page.recovery \in [at : {"none", "delay", "connect"}, connection : Numbers,
                           aborted : BOOLEAN]
    BY <2>1, <2>3 DEF RecoveryState
  <2>5. DOMAIN page = DOMAIN NoDocument
    BY <2>1, Zenon DEF Page, NoDocument
  <2>6. {page.alive, page.running, page.stopping, page.reconfiguring, page.trusted,
         page.reader, page.promise} \subseteq BOOLEAN
    BY <2>1 DEF Page
  <2>7. /\ page.stream \in {"none", "live", "ending", "ended"}
        /\ page.startup \in {"none", "media", "first", "encoder", "connect", "catch"}
        /\ page.loop \in {"none", "read", "allocate", "close", "create", "connect", "report"}
    BY <2>1 DEF Page
  <2>8. Reports = {"started", "startFailed", "stopped", "ended", "loopEnded", "failed",
                   "loopFailed"}
    BY DEF Reports, EndReports, StartAnswers
  <2> QED
    BY <2>1, <2>3, <2>4, <2>5, <2>6, <2>7, <2>8 DEF TypeOK, IInv, TypeInv
<1> QED
  BY <1>1, Invariance, PTL

\* finishUnexpectedCapture, failProbe and stopProbe: when the popup says that a
\* capture is over and nothing is pending, its document is closed.
THEOREM DocumentsAreClosed == Spec => []NoDocumentLeft
<1>1. IInv => NoDocumentLeft
  BY DEF IInv, WorkerInv, NoDocumentLeft, Settled
<1> QED
  BY <1>1, Invariance, PTL

\* CAPTURE_ENDED, CAPTURE_FAILURE and beginReceiverRecovery: while the popup
\* shows a capture and nothing is pending, the capture goes on.
THEOREM ShownCapturesAreLive == Spec => []CapturingIsLive
<1>1. IInv => CapturingIsLive
  <2> SUFFICES ASSUME IInv, Settled, mode = "capturing"
               PROVE  /\ page.running /\ page.stream \in {"live", "ending"}
                      /\ page.loop # "none"
                      /\ \/ page.connection \in page.open
                         \/ page.reconfiguring
                         \/ page.recovery.at # "none" /\ page.promise
    BY DEF CapturingIsLive
  <2>1. ~InReports(EndReports)
    BY NothingReported DEF Settled
  <2>2. page.running
    BY <2>1 DEF IInv, StartInv
  <2> QED
    BY <2>2 DEF IInv, RunInv
<1> QED
  BY <1>1, Invariance, PTL

\* stopCapture, however often it is called and whatever it meets: when the last
\* call has returned, the stream, the encoders and the connections are closed.
THEOREM StoppedCapturesAreReleased == Spec => []ReleasedAfterStop
<1>1. IInv => ReleasedAfterStop
  <2> SUFFICES ASSUME IInv, page.alive, ~page.running, page.startup = "none",
                      starting # "send", \A i \in Calls : page.calls[i].at = "none",
                      ~\E i \in DOMAIN reports :
                          reports[i] \in {"ended", "loopEnded", "loopFailed"}
               PROVE  /\ page.stream = "none" /\ ~page.reader /\ page.loop = "none"
                      /\ page.encoders = {} /\ page.opening = {} /\ page.open = {}
                      /\ page.recovery.at = "none"
    BY DEF ReleasedAfterStop
  <2>1. ~InReports(Acknowledged) /\ ~InReports({"loopFailed", "loopEnded"})
    BY DEF InReports, Acknowledged, IInv, TypeInv
  <2>2. ~ToCome
    BY <2>1 DEF ToCome
  <2>3. /\ page.stream = "none" /\ ~page.reader
        /\ page.loop \in {"none", "report"}
    BY <2>2 DEF IInv, StreamInv, Is
  <2>4. page.loop = "none"
    BY <2>1, <2>3 DEF IInv, CallInv
  <2>5. \A i \in 0..MaxCalls : page.calls[i].at = "none"
    BY <2>4, CallNumbers DEF IInv, CallInv
  <2>6. page.encoders = {}
    BY <2>2, <2>5 DEF IInv, EncoderInv, NumberInv, Is
  <2>7. page.connection = 0
    BY <2>2 DEF IInv, ConnectionInv
  <2>8. page.opening = {} /\ page.open = {}
    <3>1. \A n \in page.opening \cup page.open : n = page.connection
      BY <2>5 DEF IInv, ConnectionInv
    <3>2. \A n \in page.opening \cup page.open : n # 0
      BY DEF IInv, NumberInv
    <3> QED
      BY <2>7, <3>1, <3>2
  <2>9. page.recovery.at = "none"
    BY <2>5, <2>7 DEF IInv, ConnectionInv
  <2> QED
    BY <2>3, <2>4, <2>6, <2>8, <2>9
<1> QED
  BY <1>1, Invariance, PTL

-----------------------------------------------------------------------------
(* Nobody waits in a circle: stopCapture waits for the frame loop and for   *)
(* the recovery, and the loop in a reconfiguration for the recovery.        *)

\* This call of stopCapture, or of closeReceiver, goes on by itself.
CallMoves(i) ==
  \/ page.calls[i].at \in {"begin", "cancel", "flush", "drain"}
  \/ page.calls[i].at = "loop" /\ LoopEnded
  \/ page.calls[i].at = "recovery" /\ (page.calls[i].waits => page.recovery.at = "none")

\* The frame loop goes on, or ends as the capture no longer runs.
LoopMoves ==
  \/ page.loop \in {"allocate", "create", "connect"}
  \/ page.loop = "read" /\ (~page.running \/ ~page.reader \/ page.stream # "live")

RecoveryEnds == page.recovery.at # "none" /\ ~ShouldContinue

\* The frame loop waits for the service worker to take its report.
ReportWaits == page.loop = "report" /\ InReports({"loopEnded", "loopFailed"})

\* While stopCapture is being executed, what it waits for can happen: without
\* another frame, another event of the browser or another wish of the user.
StopNeverStuck ==
  (\E i \in Calls : page.calls[i].at # "none") =>
    \/ \E i \in 0..MaxCalls : CallMoves(i)
    \/ LoopMoves
    \/ RecoveryEnds
    \/ ReportWaits

\* A capture does not run any more once stopCapture has begun to stop it, and
\* so a recovery that is waited for ends.
LEMMA WaitsEnd ==
  ASSUME IInv, NEW i \in 0..MaxCalls, page.calls[i].at = "recovery", ~page.running
  PROVE  CallMoves(i) \/ RecoveryEnds
<1>1. CASE page.recovery.at = "none"
  BY <1>1 DEF CallMoves
<1>2. CASE page.recovery.at # "none"
  BY <1>2 DEF RecoveryEnds, ShouldContinue
<1> QED
  BY <1>1, <1>2

\* stopCapture, closeReceiver and reconfigureForSource never wait for each
\* other in a circle, however many calls meet: one of them has its next step.
THEOREM StopsNeverStick == Spec => []StopNeverStuck
<1>1. IInv => StopNeverStuck
  <2> SUFFICES ASSUME IInv, NEW i \in Calls, page.calls[i].at # "none",
                      \A j \in 0..MaxCalls : ~CallMoves(j)
               PROVE  LoopMoves \/ RecoveryEnds \/ ReportWaits
    BY DEF StopNeverStuck
  <2>1. i \in 0..MaxCalls /\ 0 \in 0..MaxCalls
    BY CallNumbers
  <2>2. page.calls[i].at \in {"loop", "recovery"}
    <3>1. page.calls[i].at \in {"none", "begin", "cancel", "loop", "flush", "drain",
                                "recovery"}
      BY <2>1 DEF IInv, TypeInv, Page, CallState
    <3> QED
      BY <2>1, <3>1 DEF CallMoves
  <2>3. ~page.running
    BY <2>2 DEF IInv, RunInv
  <2>4. CASE page.calls[i].at = "recovery"
    BY <2>1, <2>3, <2>4, WaitsEnd
  <2>5. CASE page.calls[i].at = "loop"
    <3>1. page.loop # "none"
      BY <2>1, <2>5 DEF CallMoves, LoopEnded
    <3>2. CASE page.loop = "close"
      <4>1. page.calls[0].at \in {"drain", "recovery"}
        BY <3>2 DEF IInv, CallInv
      <4> QED
        BY <2>1, <2>3, <4>1, WaitsEnd DEF CallMoves
    <3>3. CASE page.loop = "report"
      BY <3>3 DEF IInv, CallInv, ReportWaits, InReports
    <3>4. page.loop \in {"none", "read", "allocate", "close", "create", "connect", "report"}
      BY DEF IInv, TypeInv, Page
    <3> QED
      BY <2>3, <3>1, <3>2, <3>3, <3>4 DEF LoopMoves
  <2> QED
    BY <2>2, <2>4, <2>5
<1> QED
  BY <1>1, Invariance, PTL

-----------------------------------------------------------------------------
(* Nobody waits for an answer that does not come.                          *)

Asked(for) == \E i \in Calls : page.calls[i].for = for

\* While the document is there, STOP_CAPTURE is answered or a call of stopCapture
\* will; START_CAPTURE is answered or startCapture has yet to end, and from its
\* catch clause it goes on when a call of stopCapture returns.
AnswerComing ==
  /\ stopper = "wait" /\ page.alive => Asked("worker") \/ InReports({"stopped"})
  /\ starting = "wait" /\ page.alive => page.startup # "none" \/ InReports(StartAnswers)
  /\ page.startup = "catch" => Asked("start")

\* No call forgets whom it answers.
Remembers(p, q) ==
  \A i \in Calls : p.calls[i].for # "none" => q.calls[i].for = p.calls[i].for

\* A step in a document that starts and answers nothing.
Answering(p, q) == q.alive = p.alive /\ q.startup = p.startup /\ Remembers(p, q)

\* A step that leaves the calls of stopCapture alone, too.
Beside(p, q) == q.alive = p.alive /\ q.startup = p.startup /\ q.calls = p.calls

\* At most a message more on its way.
Tells == reports' = reports \/ \E m \in Reports : reports' = Append(reports, m)

LEMMA ToldBefore ==
  ASSUME TypeInv, Tells, NEW messages, InReports(messages)
  PROVE  InReports(messages)'
<1>1. CASE reports' = reports
  BY <1>1 DEF InReports
<1>2. CASE \E m \in Reports : reports' = Append(reports, m)
  BY <1>2, Reported
<1> QED
  BY <1>1, <1>2 DEF Tells

\* The service worker takes a message, and the others stay.
LEMMA OthersStay ==
  ASSUME TypeInv, reports # <<>>, reports' = Tail(reports),
         NEW messages, Head(reports) \notin messages, InReports(messages)
  PROVE  InReports(messages)'
<1>1. PICK n \in 1..Len(reports) : reports[n] \in messages
  BY DEF InReports
<1>2. /\ reports[1] = Head(reports)
      /\ n # 1 => n - 1 \in 1..Len(reports') /\ reports[n] = reports'[n - 1]
  BY TakenUp
<1> QED
  BY <1>1, <1>2 DEF InReports

LEMMA AskedBefore ==
  ASSUME Remembers(page, page'), NEW for \in {"worker", "start"}, Asked(for)
  PROVE  Asked(for)'
BY DEF Remembers, Asked

LEMMA AnswersStay ==
  ASSUME TypeInv, AnswerComing, Answering(page, page'), Tells,
         UNCHANGED <<starting, stopper>>
  PROVE  AnswerComing'
BY ToldBefore, AskedBefore DEF AnswerComing, Answering

\* startCapture comes to its next await, to its catch clause or to its answer.
LEMMA StartsAnswer ==
  ASSUME TypeInv, AnswerComing, page'.alive = page.alive, Remembers(page, page'), Tells,
         UNCHANGED <<starting, stopper>>,
         page'.startup # "none" \/ InReports(StartAnswers)',
         page'.startup = "catch" => Asked("start")'
  PROVE  AnswerComing'
BY ToldBefore, AskedBefore DEF AnswerComing

\* A call begins in a free place, and so takes nobody's.
LEMMA CallRemembers ==
  ASSUME IInv, NEW p \in Page, p.calls = page.calls,
         NEW for \in {"none", "worker", "start"},
         \E i \in Calls : page.calls[i].at = "none"
  PROVE  /\ Answering(p, Call(p, for))
         /\ \E i \in Calls : Call(p, for).calls[i].for = for
<1> DEFINE c == [Idle EXCEPT !.at = "begin", !.for = for]
<1>0. \E i \in Calls : p.calls[i].at = "none"
  OBVIOUS
<1>1. PICK k \in Calls : /\ p.calls[k].at = "none"
                         /\ Call(p, for) = [p EXCEPT !.calls[k] = c]
  BY <1>0, CallTaken, Zenon
<1>2. p.calls[k].for = "none" /\ c.for = for /\ k \in 0..MaxCalls
  BY <1>1, CallNumbers DEF IInv, CallInv, Idle
<1> DEFINE q == [p EXCEPT !.calls[k] = c]
<1> HIDE DEF c
<1>3. /\ q.alive = p.alive /\ q.startup = p.startup
      /\ q.calls[k] = c
      /\ \A i \in Calls : i # k => q.calls[i] = p.calls[i]
  BY <1>2, CallNumbers DEF Page
<1> HIDE DEF q
<1>4. Answering(p, q) /\ q.calls[k].for = for
  BY <1>2, <1>3 DEF Answering, Remembers
<1> QED
  BY <1>1, <1>4 DEF q

\* What a call does when it returns.
LEMMA ReturnAnswers ==
  ASSUME IInv, AnswerComing, NEW i \in Calls, NEW p \in Page, Answering(page, p),
         p.calls[i].for = page.calls[i].for,
         Return(i, p), UNCHANGED <<starting, stopper>>
  PROVE  AnswerComing'
<1>1. i \in 0..MaxCalls
  BY CallNumbers
<1>2. /\ page'.alive = page.alive
      /\ page'.startup = IF page.calls[i].for = "start" THEN "none" ELSE page.startup
      /\ \A j \in Calls : j # i => page'.calls[j] = p.calls[j]
  BY <1>1 DEF Return, Page, Answering
<1>3. page.calls[i].for \in {"none", "worker", "start"}
  BY <1>1, PageTypes DEF CallState
<1>4. TypeInv
  BY DEF IInv
<1>5. Tells
  BY <1>3 DEF Return, Tells, Reports, StartAnswers
<1>6. \A for \in {"worker", "start"} : Asked(for) /\ page.calls[i].for # for => Asked(for)'
  BY <1>2 DEF Asked, Answering, Remembers
<1>7. page.calls[i].for = "worker" => InReports({"stopped"})'
  <2> SUFFICES ASSUME page.calls[i].for = "worker" PROVE InReports({"stopped"})'
    OBVIOUS
  <2>1. reports' = Append(reports, "stopped") /\ "stopped" \in Reports
    BY DEF Return, Reports
  <2> QED
    BY <1>4, <2>1, Reported
<1>8. page.calls[i].for = "start" => InReports(StartAnswers)'
  <2> SUFFICES ASSUME page.calls[i].for = "start" PROVE InReports(StartAnswers)'
    OBVIOUS
  <2>1. reports' = Append(reports, "startFailed") /\ "startFailed" \in Reports
    BY DEF Return, Reports, StartAnswers
  <2>2. "startFailed" \in StartAnswers
    BY DEF StartAnswers
  <2> QED
    BY <1>4, <2>1, <2>2, Reported
<1> QED
  BY <1>2, <1>3, <1>4, <1>5, <1>6, <1>7, <1>8, ToldBefore DEF AnswerComing

LEMMA FinishAnswers ==
  ASSUME IInv, AnswerComing, NEW i \in Calls, NEW p \in Page, Beside(page, p),
         Finish(i, p), UNCHANGED <<starting, stopper>>
  PROVE  AnswerComing'
<1> DEFINE q == [p EXCEPT !.trusted = FALSE, !.reconfiguring = FALSE, !.stopping = FALSE]
<1>1. q \in Page /\ Beside(page, q)
  BY ZenonT(40) DEF Page, Beside
<1>2. Return(i, q)
  BY DEF Finish
<1> HIDE DEF q
<1>3. Answering(page, q) /\ q.calls[i].for = page.calls[i].for
  BY <1>1 DEF Beside, Answering, Remembers
<1> QED
  BY <1>1, <1>2, <1>3, ReturnAnswers

\* The connection is closed, in a call of stopCapture or in a reconfiguration.
LEMMA AfterReceiverAnswers ==
  ASSUME IInv, AnswerComing, NEW i \in 0..MaxCalls, NEW p \in Page, Beside(page, p),
         AfterReceiver(i, p), UNCHANGED <<starting, stopper>>
  PROVE  AnswerComing'
<1>1. CASE i = 0
  <2>1. /\ page' = [p EXCEPT !.calls[0] = Idle, !.loop = "create", !.encoder = 0,
                             !.encoders = @ \ {p.encoder}]
        /\ UNCHANGED reports
    BY <1>1 DEF AfterReceiver
  <2>2. Answering(page, page')
    BY <2>1, CallNumbers DEF Beside, Answering, Remembers, Page
  <2> QED
    BY <2>1, <2>2, AnswersStay DEF Tells, IInv
<1>2. CASE i # 0
  <2>1. i \in Calls /\ Finish(i, p)
    BY <1>2, CallNumbers DEF AfterReceiver
  <2> QED
    BY <2>1, FinishAnswers
<1> QED
  BY <1>1, <1>2

LEMMA CloseReceiverAnswers ==
  ASSUME IInv, AnswerComing, NEW i \in 0..MaxCalls, NEW q \in Page, Beside(page, q),
         CloseReceiver(i, q), UNCHANGED <<starting, stopper>>
  PROVE  AnswerComing'
<1>1. PICK r \in RecoveryState : Abort(q) = [q EXCEPT !.recovery = r]
  BY RecoveryAborted
<1> DEFINE p == Abort(q)
<1>2. p \in Page /\ Beside(page, p)
  BY <1>1, ZenonT(40) DEF Page, Beside
<1>3. CASE p.connection = 0
  BY <1>2, <1>3, AfterReceiverAnswers DEF CloseReceiver
<1>4. CASE p.connection # 0
  <2>1. /\ page' = [p EXCEPT !.calls[i] = [@ EXCEPT !.at = "drain",
                                                    !.connection = p.connection,
                                                    !.waits = p.promise],
                             !.promise = FALSE]
        /\ UNCHANGED reports
    BY <1>4 DEF CloseReceiver
  <2> HIDE DEF p
  <2>2. p.calls[i] \in CallState
    BY <1>2 DEF Page
  <2>3. page'.calls[i].for = p.calls[i].for
    BY <1>2, <2>1, <2>2 DEF Page, CallState
  <2>4. /\ page'.alive = p.alive /\ page'.startup = p.startup
        /\ \A j \in 0..MaxCalls : j # i => page'.calls[j] = p.calls[j]
    BY <1>2, <2>1 DEF Page
  <2>5. Answering(page, page')
    BY <1>2, <2>3, <2>4, CallNumbers DEF Beside, Answering, Remembers
  <2> QED
    BY <2>1, <2>5, AnswersStay DEF Tells, IInv
<1> QED
  BY <1>3, <1>4, Zenon

\* A call of stopCapture goes on.
LEMMA StoppingAnswers ==
  ASSUME IInv, AnswerComing, Stopping PROVE AnswerComing'
<1> USE PageTypes, CallNumbers
<1>0. UNCHANGED <<starting, stopper>>
  BY DEF Stopping, StopCapture, CancelReader, StopVideoEncoder, FlushEncoder, CloseConnection,
     AwaitRecovery, workerVars
<1>1. ASSUME NEW i \in Calls, StopCapture(i) PROVE AnswerComing'
  <2>1. CASE ~Holding
    <3>1. Return(i, page)
      BY <1>1, <2>1 DEF StopCapture
    <3> QED
      BY <1>0, <3>1, ReturnAnswers DEF Answering, Remembers
  <2>2. CASE Holding
    <3> DEFINE q == [page EXCEPT !.stopping = TRUE, !.running = FALSE]
    <3>1. q \in Page /\ Beside(page, q)
      BY ZenonT(40) DEF Page, Beside
    <3> DEFINE p == Abort(q)
    <3>2. /\ page' = IF p.reader THEN [p EXCEPT !.reader = FALSE, !.calls[i].at = "cancel"]
                                 ELSE StopTracks(i, p)
          /\ UNCHANGED reports
      BY <1>1, <2>2 DEF StopCapture
    <3> HIDE DEF q
    <3>3. PICK r \in RecoveryState : p = [q EXCEPT !.recovery = r]
      BY <3>1, RecoveryAborted
    <3>4. p \in Page /\ Beside(page, p)
      BY <3>1, <3>3, ZenonT(40) DEF Page, Beside
    <3> HIDE DEF p
    <3>5. p.calls[i] \in CallState
      BY <3>4 DEF Page
    <3>6. /\ page'.alive = p.alive /\ page'.startup = p.startup
          /\ \A j \in 0..MaxCalls : j # i => page'.calls[j] = p.calls[j]
          /\ page'.calls[i].for = p.calls[i].for
      BY <3>2, <3>4, <3>5 DEF Page, CallState, StopTracks
    <3>7. Answering(page, page')
      BY <3>4, <3>6 DEF Beside, Answering, Remembers
    <3> QED
      BY <1>0, <3>2, <3>7, AnswersStay DEF Tells, IInv
  <2> QED
    BY <2>1, <2>2
<1>2. ASSUME NEW i \in Calls, CancelReader(i) PROVE AnswerComing'
  <2>1. page' = [page EXCEPT !.stream = "none", !.calls[i].at = "loop"] /\ UNCHANGED reports
    BY <1>2 DEF CancelReader, StopTracks
  <2>2. Answering(page, page')
    BY <2>1 DEF Answering, Remembers, Page, CallState
  <2> QED
    BY <1>0, <2>1, <2>2, AnswersStay DEF Tells, IInv
<1>3. ASSUME NEW i \in Calls, StopVideoEncoder(i) PROVE AnswerComing'
  <2>1. CASE page.encoder = 0
    BY <1>0, <1>3, <2>1, CloseReceiverAnswers DEF StopVideoEncoder, Beside
  <2>2. CASE page.encoder # 0
    <3>1. /\ page' = [page EXCEPT !.encoder = 0,
                        !.calls[i] = [@ EXCEPT !.at = "flush", !.encoder = page.encoder]]
          /\ UNCHANGED reports
      BY <1>3, <2>2 DEF StopVideoEncoder
    <3>2. Answering(page, page')
      BY <3>1 DEF Answering, Remembers, Page, CallState
    <3> QED
      BY <1>0, <3>1, <3>2, AnswersStay DEF Tells, IInv
  <2> QED
    BY <2>1, <2>2
<1>4. ASSUME NEW i \in Calls, FlushEncoder(i) PROVE AnswerComing'
  <2> DEFINE q == [page EXCEPT !.encoders = @ \ {page.calls[i].encoder}]
  <2>1. q \in Page /\ Beside(page, q)
    BY DEF Page, Beside
  <2>2. CloseReceiver(i, q)
    BY <1>4 DEF FlushEncoder
  <2> HIDE DEF q
  <2> QED
    BY <1>0, <2>1, <2>2, CloseReceiverAnswers
<1>5. ASSUME NEW i \in 0..MaxCalls, CloseConnection(i) PROVE AnswerComing'
  <2>1. /\ page' = [page EXCEPT !.opening = @ \ {page.calls[i].connection},
                                !.open = @ \ {page.calls[i].connection},
                                !.calls[i].at = "recovery"]
        /\ UNCHANGED reports
    BY <1>5 DEF CloseConnection, WithoutSocket, Page
  <2>2. Answering(page, page')
    BY <2>1 DEF Answering, Remembers, Page, CallState
  <2> QED
    BY <1>0, <2>1, <2>2, AnswersStay DEF Tells, IInv
<1>6. ASSUME NEW i \in 0..MaxCalls, AwaitRecovery(i) PROVE AnswerComing'
  <2> DEFINE q == [page EXCEPT !.connection = 0]
  <2>1. q \in Page /\ Beside(page, q)
    BY DEF Page, Beside
  <2>2. AfterReceiver(i, q)
    BY <1>6 DEF AwaitRecovery
  <2> HIDE DEF q
  <2> QED
    BY <1>0, <2>1, <2>2, AfterReceiverAnswers
<1> QED
  BY <1>1, <1>2, <1>3, <1>4, <1>5, <1>6 DEF Stopping

\* Sockets, the recovery and encoders leave the calls of stopCapture alone.
LEMMA BesideCalls ==
  ASSUME NEW p \in Page
  PROVE  /\ \A n \in Nat : WithoutSocket(p, n) \in Page /\ Beside(p, WithoutSocket(p, n))
         /\ Settle(p) \in Page /\ Beside(p, Settle(p))
         /\ MakeEncoder(p) \in Page /\ Beside(p, MakeEncoder(p))
         /\ MakeConnection(MakeEncoder(p)) \in Page
         /\ Beside(p, MakeConnection(MakeEncoder(p)))
<1>1. ASSUME NEW n \in Nat
      PROVE  WithoutSocket(p, n) \in Page /\ Beside(p, WithoutSocket(p, n))
  BY DEF WithoutSocket, Page, Beside
<1>2. Settle(p) \in Page /\ Beside(p, Settle(p))
  BY DEF Settle, Page, Beside, NotRecovering, RecoveryState
<1>3. MakeEncoder(p) \in Page /\ Beside(p, MakeEncoder(p))
  BY EncoderOf DEF Otherwise, Beside
<1>4. /\ MakeConnection(MakeEncoder(p)) \in Page
      /\ Beside(p, MakeConnection(MakeEncoder(p)))
  <2>1. PICK q \in Page : q = MakeConnection(MakeEncoder(p)) /\ Otherwise(p, q)
    BY BothOf, Zenon
  <2> QED
    BY <2>1, Zenon DEF Otherwise, Beside
<1> QED
  BY <1>1, <1>2, <1>3, <1>4, Zenon

LEMMA BesideTwice ==
  ASSUME NEW p, NEW q, NEW r, Beside(p, q), Beside(q, r)
  PROVE  Beside(p, r)
BY DEF Beside

LEMMA BesideAnswers ==
  ASSUME IInv, AnswerComing, Beside(page, page'), Tells, UNCHANGED <<starting, stopper>>
  PROVE  AnswerComing'
BY AnswersStay DEF Beside, Answering, Remembers, IInv

\* A failure, which begins a call of stopCapture that answers nobody.
LEMMA FailAnswers ==
  ASSUME IInv, AnswerComing, CanCall, NEW p \in Page, Beside(page, p), page' = Fail(p), Tells,
         UNCHANGED <<starting, stopper>>
  PROVE  AnswerComing'
<1>1. CASE p.stopping
  BY <1>1, BesideAnswers DEF Fail
<1>2. CASE ~p.stopping
  <2> DEFINE q == [p EXCEPT !.running = FALSE]
  <2>1. q \in Page /\ Beside(p, q)
    BY DEF Page, Beside
  <2>2. page' = Call(q, "none")
    BY <1>2 DEF Fail
  <2> HIDE DEF q
  <2>3. q.calls = page.calls /\ q.alive = page.alive /\ q.startup = page.startup
    BY <2>1 DEF Beside
  <2>4. Answering(q, page')
    BY <2>1, <2>2, <2>3, CallRemembers DEF CanCall
  <2>5. Answering(page, page')
    BY <2>3, <2>4 DEF Answering, Remembers
  <2> QED
    BY <2>5, AnswersStay DEF IInv
<1> QED
  BY <1>1, <1>2

\* The frame loop ends by an error.
LEMMA LoopFailsAnswers ==
  ASSUME IInv, AnswerComing, NEW p \in Page, Beside(page, p), LoopFails(p),
         UNCHANGED <<starting, stopper>>
  PROVE  AnswerComing'
<1>1. Beside(p, page')
  <2>1. CASE p.stopping
    BY <2>1 DEF LoopFails, Page, Beside
  <2>2. CASE ~p.stopping
    BY <2>2 DEF LoopFails, Page, Beside
  <2> QED
    BY <2>1, <2>2
<1>2. Tells
  BY DEF LoopFails, Tells, Reports, EndReports
<1> QED
  BY <1>1, <1>2, BesideTwice, BesideAnswers

\* The catch clause of startCapture calls stopCapture, and goes on when it returns.
LEMMA StartFailsAnswers ==
  ASSUME IInv, AnswerComing, CanCall, NEW p \in Page, Beside(page, p), StartFails(p),
         UNCHANGED <<starting, stopper, reports>>
  PROVE  AnswerComing'
<1> DEFINE q == [p EXCEPT !.startup = "catch"]
<1>1. q \in Page /\ q.startup = "catch" /\ q.alive = p.alive /\ q.calls = p.calls
  BY DEF Page
<1>2. page' = Call(q, "start")
  BY DEF StartFails
<1> HIDE DEF q
<1>3. q.calls = page.calls /\ q.alive = page.alive
  BY <1>1 DEF Beside
<1>4. /\ Answering(q, page')
      /\ \E i \in Calls : page'.calls[i].for = "start"
  BY <1>1, <1>2, <1>3, CallRemembers DEF CanCall
<1>5. /\ page'.alive = page.alive /\ Remembers(page, page')
      /\ page'.startup = "catch" /\ Asked("start")'
  BY <1>1, <1>3, <1>4 DEF Answering, Remembers, Asked
<1> QED
  BY <1>5, StartsAnswer DEF Tells, IInv

LEMMA RecoveryAnswers ==
  ASSUME IInv, AnswerComing, Recovery PROVE AnswerComing'
<1>0. UNCHANGED <<starting, stopper>>
  BY DEF Recovery, AttemptRecovery, CancelRecovery, RetryRecovery, Recover, GiveUp, workerVars
<1>1. page \in Page /\ page.recovery \in RecoveryState /\ page.recovery.connection \in Nat
  BY PageTypes DEF RecoveryState
<1> DEFINE p == WithoutSocket(page, page.recovery.connection)
<1>2. p \in Page /\ Beside(page, p) /\ Settle(p) \in Page /\ Beside(page, Settle(p))
  <2>1. p \in Page /\ Beside(page, p)
    BY <1>1, BesideCalls
  <2>2. Settle(p) \in Page /\ Beside(p, Settle(p))
    BY <2>1, BesideCalls
  <2> QED
    BY <2>1, <2>2, BesideTwice
<1>3. CASE AttemptRecovery
  <2>1. Beside(page, page') /\ UNCHANGED reports
    BY <1>1, <1>3 DEF AttemptRecovery, Page, Beside
  <2> QED
    BY <1>0, <2>1, BesideAnswers DEF Tells
<1>4. CASE CancelRecovery
  BY <1>0, <1>2, <1>4, BesideAnswers DEF CancelRecovery, Tells
<1>5. CASE RetryRecovery
  <2>1. page' = [p EXCEPT !.recovery.at = "delay"] /\ UNCHANGED reports
    BY <1>5 DEF RetryRecovery
  <2> HIDE DEF p
  <2>2. Beside(p, page')
    BY <1>2, <2>1 DEF Page, Beside
  <2> QED
    BY <1>0, <1>2, <2>1, <2>2, BesideTwice, BesideAnswers DEF Tells
<1>6. CASE Recover
  <2> DEFINE q == Settle(p)
  <2>1. /\ page' = IF ShouldContinue
                     THEN [q EXCEPT !.open = @ \cup {page.recovery.connection}] ELSE q
        /\ UNCHANGED reports
    BY <1>6 DEF Recover
  <2>2. q \in Page /\ Beside(page, q)
    BY <1>2
  <2> HIDE DEF q, p
  <2>3. Beside(q, page')
    BY <2>1, <2>2 DEF Page, Beside
  <2> QED
    BY <1>0, <2>1, <2>2, <2>3, BesideTwice, BesideAnswers DEF Tells
<1>7. CASE GiveUp
  <2>1. CanCall /\ page' = Fail(Settle(p)) /\ Tells
    BY <1>7 DEF GiveUp, Report, Tells, Reports, EndReports
  <2> QED
    BY <1>0, <1>2, <2>1, FailAnswers
<1> QED
  BY <1>3, <1>4, <1>5, <1>6, <1>7 DEF Recovery

\* startCapture.
LEMMA StartupAnswers ==
  ASSUME IInv, AnswerComing, Startup PROVE AnswerComing'
<1>0. UNCHANGED <<starting, stopper>>
  BY DEF Startup, FailStart, GetUserMedia, FirstFrame, CreateEncoder, ConnectStart,
     FailConnectStart, workerVars
<1>1. page \in Page /\ page.connection \in Nat
  BY PageTypes DEF Page
<1> DEFINE c == [page EXCEPT !.opening = @ \ {page.connection},
                             !.open = @ \cup {page.connection}]
<1>2. c \in Page /\ Beside(page, c)
  BY <1>1 DEF Page, Beside
<1>3. CASE FailStart
  BY <1>0, <1>1, <1>3, StartFailsAnswers DEF FailStart, Beside
<1>4. CASE GetUserMedia \/ FirstFrame
  <2>1. /\ page'.alive = page.alive /\ page'.calls = page.calls
        /\ page'.startup \in {"first", "encoder"} /\ UNCHANGED reports
    BY <1>1, <1>4 DEF GetUserMedia, FirstFrame, Page
  <2> QED
    BY <1>0, <2>1, StartsAnswer DEF Tells, Remembers, IInv
<1>5. CASE CreateEncoder
  <2>1. CASE page.trusted
    <3> DEFINE q == MakeConnection(MakeEncoder(page))
    <3>1. q \in Page /\ Beside(page, q)
      BY <1>1, BesideCalls
    <3>2. page' = [q EXCEPT !.startup = "connect"] /\ UNCHANGED reports
      BY <1>5, <2>1 DEF CreateEncoder
    <3> HIDE DEF q
    <3>3. /\ page'.alive = page.alive /\ page'.calls = page.calls
          /\ page'.startup = "connect"
      BY <3>1, <3>2 DEF Page, Beside
    <3> QED
      BY <1>0, <3>2, <3>3, StartsAnswer DEF Tells, Remembers, IInv
  <2>2. CASE ~page.trusted
    <3>1. CanCall /\ StartFails(MakeEncoder(page)) /\ UNCHANGED reports
      BY <1>5, <2>2 DEF CreateEncoder
    <3>2. MakeEncoder(page) \in Page /\ Beside(page, MakeEncoder(page))
      BY <1>1, BesideCalls
    <3> QED
      BY <1>0, <3>1, <3>2, StartFailsAnswers
  <2> QED
    BY <2>1, <2>2
<1>6. CASE ConnectStart
  <2>1. CASE page.stream = "live"
    <3>1. /\ page' = [c EXCEPT !.running = TRUE, !.reader = TRUE, !.loop = "read",
                               !.startup = "none"]
          /\ reports' = Append(reports, "started")
      BY <1>6, <2>1 DEF ConnectStart, Connected
    <3> HIDE DEF c
    <3>2. page'.alive = page.alive /\ page'.calls = page.calls /\ page'.startup = "none"
      BY <1>2, <3>1 DEF Page, Beside
    <3>3. Tells /\ InReports(StartAnswers)'
      BY <3>1, Reported DEF Tells, Reports, StartAnswers, IInv
    <3> QED
      BY <1>0, <3>2, <3>3, StartsAnswer DEF Remembers, IInv
  <2>2. CASE page.stream # "live"
    <3>1. CanCall /\ StartFails(c) /\ UNCHANGED reports
      BY <1>6, <2>2 DEF ConnectStart, Connected
    <3> QED
      BY <1>0, <1>2, <3>1, StartFailsAnswers
  <2> QED
    BY <2>1, <2>2
<1>7. CASE FailConnectStart
  <2> DEFINE p == WithoutSocket(page, page.connection)
             q == [p EXCEPT !.connection = 0]
  <2>1. p \in Page /\ Beside(page, p)
    BY <1>1, BesideCalls
  <2>2. CanCall /\ StartFails(q) /\ UNCHANGED reports
    BY <1>7 DEF FailConnectStart, NotConnected
  <2> HIDE DEF p
  <2>3. q \in Page /\ Beside(p, q)
    BY <2>1 DEF Page, Beside
  <2> HIDE DEF q
  <2> QED
    BY <1>0, <2>1, <2>2, <2>3, BesideTwice, StartFailsAnswers
<1> QED
  BY <1>3, <1>4, <1>5, <1>6, <1>7 DEF Startup

\* The frame loop, and a reconfiguration.
LEMMA FramesAnswer ==
  ASSUME IInv, AnswerComing, Frames PROVE AnswerComing'
<1>0. UNCHANGED <<starting, stopper>>
  BY DEF Frames, LoopEnds, AllocateEpoch, ReplaceEncoder, Reconnect, workerVars
<1>1. page \in Page /\ page.connection \in Nat /\ Beside(page, page)
  BY PageTypes DEF Page, Beside
<1>2. CASE LoopEnds
  <2>1. Beside(page, page')
    <3>1. CASE page.running /\ ~page.stopping
      BY <1>1, <1>2, <3>1 DEF LoopEnds, Page, Beside
    <3>2. CASE ~(page.running /\ ~page.stopping)
      BY <1>1, <1>2, <3>2 DEF LoopEnds, Page, Beside
    <3> QED
      BY <3>1, <3>2
  <2>2. Tells
    BY <1>2 DEF LoopEnds, Tells, Reports, EndReports
  <2> QED
    BY <1>0, <2>1, <2>2, BesideAnswers
<1>3. CASE AllocateEpoch
  <2>1. CASE LoopFails(page)
    BY <1>0, <1>1, <2>1, LoopFailsAnswers
  <2>2. CASE CloseReceiver(0, [page EXCEPT !.loop = "close"])
    <3> DEFINE q == [page EXCEPT !.loop = "close"]
    <3>1. q \in Page /\ Beside(page, q)
      BY <1>1 DEF Page, Beside
    <3> HIDE DEF q
    <3> QED
      BY <1>0, <2>2, <3>1, CallNumbers, CloseReceiverAnswers DEF q
  <2> QED
    BY <1>3, <2>1, <2>2 DEF AllocateEpoch
<1>4. CASE ReplaceEncoder
  <2>1. CASE LoopFails(page)
    BY <1>0, <1>1, <2>1, LoopFailsAnswers
  <2>2. CASE ~LoopFails(page)
    <3> DEFINE q == MakeConnection(MakeEncoder(page))
    <3>1. q \in Page /\ Beside(page, q)
      BY <1>1, BesideCalls
    <3>2. page' = [q EXCEPT !.loop = "connect"] /\ UNCHANGED reports
      BY <1>4, <2>2 DEF ReplaceEncoder
    <3> HIDE DEF q
    <3>3. Beside(q, page')
      BY <3>1, <3>2 DEF Page, Beside
    <3> QED
      BY <1>0, <3>1, <3>2, <3>3, BesideTwice, BesideAnswers DEF Tells
  <2> QED
    BY <2>1, <2>2
<1>5. CASE Reconnect
  <2>1. CASE LoopFails(NotConnected)
    <3> DEFINE p == WithoutSocket(page, page.connection)
               q == [p EXCEPT !.connection = 0]
    <3>1. p \in Page /\ Beside(page, p)
      BY <1>1, BesideCalls
    <3>2. LoopFails(q)
      BY <2>1 DEF NotConnected
    <3> HIDE DEF p
    <3>3. q \in Page /\ Beside(p, q)
      BY <3>1 DEF Page, Beside
    <3> HIDE DEF q
    <3> QED
      BY <1>0, <3>1, <3>2, <3>3, BesideTwice, LoopFailsAnswers
  <2>2. CASE ~LoopFails(NotConnected)
    <3> DEFINE c == [page EXCEPT !.opening = @ \ {page.connection},
                                 !.open = @ \cup {page.connection}]
    <3>1. c \in Page /\ Beside(page, c)
      BY <1>1 DEF Page, Beside
    <3>2. page' = [c EXCEPT !.reconfiguring = FALSE, !.loop = "read"] /\ UNCHANGED reports
      BY <1>5, <2>2 DEF Reconnect, Connected
    <3> HIDE DEF c
    <3>3. Beside(c, page')
      BY <3>1, <3>2 DEF Page, Beside
    <3> QED
      BY <1>0, <3>1, <3>2, <3>3, BesideTwice, BesideAnswers DEF Tells
  <2> QED
    BY <2>1, <2>2
<1> QED
  BY <1>2, <1>3, <1>4, <1>5 DEF Frames

\* What goes wrong in the document, and a change of the source.
LEMMA DocumentAnswers ==
  ASSUME IInv, AnswerComing,
         \/ EncoderFails \/ ReceiverRefuses \/ TrackEnds \/ HandleTrackEnded
         \/ ConnectionLost \/ SourceChanges \/ FrameFails
  PROVE  AnswerComing'
<1>0. UNCHANGED <<starting, stopper>>
  BY DEF EncoderFails, ReceiverRefuses, TrackEnds, HandleTrackEnded, ConnectionLost,
     SourceChanges, FrameFails, workerVars
<1>1. page \in Page /\ page.connection \in Nat /\ Beside(page, page)
  BY PageTypes DEF Page, Beside
<1>2. CASE EncoderFails
  <2> DEFINE q == [page EXCEPT !.encoders = @ \ {page.encoder}]
  <2>1. q \in Page /\ Beside(page, q)
    BY <1>1 DEF Page, Beside
  <2>2. CanCall /\ page' = Fail(q) /\ Tells
    BY <1>2 DEF EncoderFails, Report, Tells, Reports, EndReports
  <2> HIDE DEF q
  <2> QED
    BY <1>0, <2>1, <2>2, FailAnswers
<1>3. CASE ReceiverRefuses
  <2>1. CanCall /\ page' = Fail(page) /\ Tells
    BY <1>3 DEF ReceiverRefuses, Report, Tells, Reports, EndReports
  <2> QED
    BY <1>0, <1>1, <2>1, FailAnswers
<1>4. CASE TrackEnds \/ SourceChanges
  <2>1. Beside(page, page') /\ UNCHANGED reports
    BY <1>1, <1>4 DEF TrackEnds, SourceChanges, Page, Beside
  <2> QED
    BY <1>0, <2>1, BesideAnswers DEF Tells
<1>5. CASE HandleTrackEnded
  <2>1. Beside(page, page')
    <3>1. CASE page.stopping
      BY <1>1, <1>5, <3>1 DEF HandleTrackEnded, Page, Beside
    <3>2. CASE ~page.stopping
      BY <1>1, <1>5, <3>2 DEF HandleTrackEnded, Page, Beside
    <3> QED
      BY <3>1, <3>2
  <2>2. Tells
    BY <1>5 DEF HandleTrackEnded, Tells, Reports, EndReports
  <2> QED
    BY <1>0, <2>1, <2>2, BesideAnswers
<1>6. CASE ConnectionLost
  <2> DEFINE p == WithoutSocket(page, page.connection)
  <2>1. p \in Page /\ Beside(page, p)
    BY <1>1, BesideCalls
  <2>2. UNCHANGED reports
        /\ \/ page' = p
           \/ page' = [p EXCEPT !.promise = TRUE,
                                !.recovery = [at |-> "delay", connection |-> p.connection,
                                              aborted |-> FALSE]]
    BY <1>6 DEF ConnectionLost
  <2> HIDE DEF p
  <2>3. Beside(p, page')
    BY <2>1, <2>2 DEF Page, Beside
  <2> QED
    BY <1>0, <2>1, <2>2, <2>3, BesideTwice, BesideAnswers DEF Tells
<1>7. CASE FrameFails
  BY <1>0, <1>1, <1>7, LoopFailsAnswers DEF FrameFails
<1> QED
  BY <1>2, <1>3, <1>4, <1>5, <1>6, <1>7

\* A document that is new or gone, or a service worker that waits for nothing.
LEMMA NothingToAnswer ==
  ASSUME \/ ~page'.alive /\ page'.startup = "none"
         \/ /\ stopper' # "wait" /\ starting' # "wait"
            /\ page'.startup = "catch" => Asked("start")'
  PROVE  AnswerComing'
BY DEF AnswerComing

\* The service worker takes an answer, or the end of a capture.
LEMMA ReportTaken ==
  ASSUME IInv, AnswerComing, StartAnswered \/ StopAnswered \/ CaptureReported
  PROVE  AnswerComing'
<1>0. TypeInv
  BY DEF IInv
<1>1. CASE StartAnswered
  <2>1. /\ reports # <<>> /\ reports' = Tail(reports) /\ Head(reports) # "stopped"
        /\ starting' = "none" /\ UNCHANGED <<stopper, page>>
    BY <1>1 DEF StartAnswered
  <2>2. InReports({"stopped"}) => InReports({"stopped"})'
    BY <1>0, <2>1, OthersStay
  <2> QED
    BY <2>1, <2>2 DEF AnswerComing, Asked
<1>2. CASE StopAnswered
  <2>1. /\ reports # <<>> /\ reports' = Tail(reports) /\ Head(reports) \notin StartAnswers
        /\ stopper' = "close" /\ UNCHANGED <<starting, page>>
    BY <1>2 DEF StopAnswered, StartAnswers
  <2>2. InReports(StartAnswers) => InReports(StartAnswers)'
    BY <1>0, <2>1, OthersStay
  <2> QED
    BY <2>1, <2>2 DEF AnswerComing, Asked
<1>3. CASE CaptureReported
  <2>1. /\ reports # <<>> /\ reports' = Tail(reports) /\ CanCall
        /\ Head(reports) \notin StartAnswers \cup {"stopped"}
        /\ Acknowledge(Head(reports)) /\ UNCHANGED <<starting, stopper>>
    BY <1>3 DEF CaptureReported, StartAnswers
  <2>2. /\ InReports(StartAnswers) => InReports(StartAnswers)'
        /\ InReports({"stopped"}) => InReports({"stopped"})'
    BY <1>0, <2>1, OthersStay
  <2>3. Answering(page, page')
    <3>1. CASE page' = page
      BY <3>1 DEF Answering, Remembers
    <3>2. CASE page' # page
      <4> DEFINE q == [page EXCEPT !.loop = IF Head(reports) = "ended" THEN @ ELSE "none"]
      <4>1. q \in Page /\ Beside(page, q)
        BY PageTypes DEF Page, Beside
      <4>2. page' = Call(q, "none")
        BY <2>1, <3>2 DEF Acknowledge
      <4> HIDE DEF q
      <4>3. Answering(q, page')
        BY <2>1, <4>1, <4>2, CallRemembers DEF CanCall, Beside
      <4> QED
        BY <4>1, <4>3 DEF Answering, Remembers, Beside
    <3> QED
      BY <3>1, <3>2
  <2> QED
    BY <2>1, <2>2, <2>3, AskedBefore DEF AnswerComing, Answering
<1> QED
  BY <1>1, <1>2, <1>3

\* Both sides of a start and of a stop as the service worker sees them.
LEMMA WorkerAnswers ==
  ASSUME IInv, AnswerComing, Worker PROVE AnswerComing'
<1>1. CASE StartAnswered \/ StopAnswered \/ CaptureReported
  BY <1>1, ReportTaken
<1>2. CASE EnsureDocument
  <2>1. page'.startup = "none"
    BY <1>2 DEF EnsureDocument, Document, NoDocument
  <2>2. stopper' # "wait" /\ starting' # "wait"
    BY <1>2 DEF EnsureDocument, IInv, WorkerInv
  <2> QED
    BY <2>1, <2>2, NothingToAnswer
<1>3. CASE SendStart
  <2>1. page'.startup = "media"
    BY <1>3, PageTypes DEF SendStart, Page
  <2>2. stopper' # "wait"
    BY <1>3 DEF SendStart, IInv, WorkerInv
  <2> QED
    BY <2>1, <2>2 DEF AnswerComing
<1>4. CASE SendStop
  <2>1. CASE page.alive
    <3>1. /\ page' = Call(page, "worker") /\ CanCall
          /\ UNCHANGED <<starting, reports>>
      BY <1>4, <2>1 DEF SendStop
    <3>2. Answering(page, page') /\ Asked("worker")'
      BY <3>1, PageTypes, CallRemembers DEF CanCall, Asked
    <3> QED
      BY <3>1, <3>2, AskedBefore DEF AnswerComing, Answering, InReports
  <2>2. CASE ~page.alive
    BY <1>4, <2>2 DEF SendStop, AnswerComing, InReports, Asked
  <2> QED
    BY <2>1, <2>2
<1>5. CASE StartUnanswered \/ StopProbe \/ StopUnanswered \/ FinishStop
  BY <1>5 DEF StartUnanswered, StopProbe, StopUnanswered, FinishStop, AnswerComing, Asked,
     InReports
<1>6. CASE CloseAfterStop \/ CloseDocumentAfterEnd
  <2>1. CASE CloseDocument
    BY <2>1, NothingToAnswer DEF CloseDocument, NoDocument
  <2>2. CASE ~CloseDocument
    BY <1>6, <2>2
    DEF CloseAfterStop, CloseDocumentAfterEnd, AnswerComing, Asked, InReports
  <2> QED
    BY <2>1, <2>2
<1> QED
  BY <1>1, <1>2, <1>3, <1>4, <1>5, <1>6 DEF Worker

\* The user.
LEMMA UserAnswers ==
  ASSUME IInv, AnswerComing, StartProbe \/ PressStop \/ ResetProbe PROVE AnswerComing'
<1>1. CASE StartProbe \/ PressStop
  BY <1>1 DEF StartProbe, PressStop, Settled, AnswerComing, Asked, InReports
<1>2. CASE ResetProbe
  BY <1>2, NothingToAnswer DEF ResetProbe, NoDocument
<1> QED
  BY <1>1, <1>2

\* START_CAPTURE and STOP_CAPTURE, whose senders wait without a time-out: as long as the
\* document is there, something in it has yet to give the answer, however the start,
\* the calls of stopCapture and the end of the capture overlap.
THEOREM AnswersCome == Spec => []AnswerComing
<1>1. Init => AnswerComing
  BY DEF Init, AnswerComing, NoDocument
<1>2. IInv /\ AnswerComing /\ [Next]_vars => AnswerComing'
  <2> SUFFICES ASSUME IInv, AnswerComing, [Next]_vars PROVE AnswerComing'
    OBVIOUS
  <2>1. CASE UNCHANGED vars
    BY <2>1 DEF vars, workerVars, AnswerComing, Asked, InReports
  <2>2. CASE Environment
    BY <2>2, DocumentAnswers, UserAnswers DEF Environment
  <2> QED
    BY <2>1, <2>2, StoppingAnswers, RecoveryAnswers, StartupAnswers, FramesAnswer,
       WorkerAnswers DEF Next
<1> QED
  BY <1>1, <1>2, Invariance, PTL DEF Spec

=============================================================================
