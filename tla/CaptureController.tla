-------------------------- MODULE CaptureController --------------------------
(***************************************************************************)
(* Start and stop of a capture in the extension: the service worker        *)
(* (service-worker.js), which holds the mode that the user sees, and the   *)
(* offscreen document (offscreen.js), which holds the stream, the encoder  *)
(* and the connection (direct-client.js).  Both are asynchronous functions *)
(* that overlap wherever they await; an action is what a function does     *)
(* between two awaits.  Of what a document owns the model keeps whether it *)
(* is there and whether it was closed; encoders and connections have       *)
(* numbers, as a function may hold one that a variable no longer does.     *)
(*                                                                         *)
(* The user starts a capture, or resets a finished one, when whatever ended *)
(* the last one is over; stop is pressed at any time the page offers it.   *)
(***************************************************************************)
EXTENDS Naturals, FiniteSets, Sequences

CONSTANTS
  MaxSources,   \* bound: changes of the source's size in a capture
  MaxLosses,    \* bound: connections lost
  MaxCalls,     \* bound: calls of stopCapture at the same time
  MaxFaults     \* bound: encoder errors, frames that fail and refusals of the Receiver

ASSUME BoundsAssumption ==
  {MaxSources, MaxLosses, MaxCalls, MaxFaults} \subseteq Nat

VARIABLES
  mode,      \* mode of the stored state
  starting,  \* position of startProbe, "none" while startInFlight is false
  stopper,   \* position of stopProbe
  closing,   \* calls of failProbe and finishUnexpectedCapture before closeDocument
  reports,   \* messages and answers on their way to the service worker
  page,      \* the offscreen document
  sources, losses, faults  \* what happened in the capture so far

workerVars == <<mode, starting, stopper, closing>>
bounds == <<sources, losses, faults>>
vars == <<workerVars, reports, page, bounds>>

Calls == 1..MaxCalls

\* A call of stopCapture, with its local variables; number 0 is closeReceiver
\* as reconfigureForSource calls it.
Idle == [at |-> "none", encoder |-> 0, connection |-> 0, waits |-> FALSE, for |-> "none"]

NotRecovering == [at |-> "none", connection |-> 0, aborted |-> FALSE]

\* The variables of offscreen.js in a new document.
NoDocument ==
  [alive |-> FALSE, running |-> FALSE, stopping |-> FALSE, reconfiguring |-> FALSE,
   trusted |-> FALSE,            \* trustedDevice
   stream |-> "none",            \* mediaStream, and whether its track has ended
   reader |-> FALSE,             \* frameReader
   encoder |-> 0,                \* videoEncoder
   encoders |-> {},              \* encoders that are not closed
   connection |-> 0,             \* receiverConnection
   opening |-> {}, open |-> {},  \* connections with a socket
   promise |-> FALSE,            \* receiverRecoveryPromise
   recovery |-> NotRecovering,   \* connection.recover
   startup |-> "none",           \* position of startCapture
   loop |-> "none",              \* position of consumeFrames
   made |-> 0,                   \* encoders and connections made
   calls |-> [i \in 0..MaxCalls |-> Idle]]

Document == [NoDocument EXCEPT !.alive = TRUE]

-----------------------------------------------------------------------------
(* The offscreen document: stopCapture.                                    *)

\* A call of stopCapture that begins with the next microtask.
Call(p, for) ==
  LET free == {i \in Calls : p.calls[i].at = "none"}
      i == CHOOSE i \in free : \A j \in free : i <= j
  IN  IF free = {} THEN p ELSE [p EXCEPT !.calls[i] = [Idle EXCEPT !.at = "begin", !.for = for]]

CanCall == \E i \in Calls : page.calls[i].at = "none"

\* Nothing runs between a task and its microtasks.
NoMicrotask == page.alive /\ \A i \in Calls : page.calls[i].at # "begin"

\* abort of the recovery's signal; its generation is no longer the current one.
Abort(p) ==
  IF p.recovery.at = "none" THEN p ELSE [p EXCEPT !.recovery.aborted = TRUE]

Holding ==
  \/ page.running \/ page.reader
  \/ page.stream # "none" \/ page.connection # 0 \/ page.encoder # 0

\* What a call does when it returns: it answers the service worker, or
\* startCapture goes on from its catch clause.
Return(i, p) ==
  /\ page' = [p EXCEPT !.calls[i] = Idle,
                       !.startup = IF p.calls[i].for = "start" THEN "none" ELSE @]
  /\ reports' = CASE p.calls[i].for = "worker" -> Append(reports, "stopped")
                  [] p.calls[i].for = "start" -> Append(reports, "startFailed")
                  [] OTHER -> reports

\* The last statements of stopCapture.
Finish(i, p) ==
  Return(i, [p EXCEPT !.trusted = FALSE, !.reconfiguring = FALSE, !.stopping = FALSE])

\* A reconfiguration closes the encoder without flushing it.
AfterReceiver(i, p) ==
  IF i = 0
    THEN /\ page' = [p EXCEPT !.calls[0] = Idle, !.loop = "create", !.encoder = 0,
                              !.encoders = @ \ {p.encoder}]
         /\ UNCHANGED reports
    ELSE Finish(i, p)

StopTracks(i, p) ==
  [p EXCEPT !.stream = "none", !.calls[i].at = "loop"]

StopCapture(i) ==
  /\ page.calls[i].at = "begin"
  /\ IF ~Holding
       THEN Return(i, page)
       ELSE LET p == Abort([page EXCEPT !.stopping = TRUE, !.running = FALSE])
            IN  /\ page' = IF p.reader
                             THEN [p EXCEPT !.reader = FALSE, !.calls[i].at = "cancel"]
                             ELSE StopTracks(i, p)
                /\ UNCHANGED reports
  /\ UNCHANGED <<workerVars, bounds>>

CancelReader(i) ==
  /\ NoMicrotask
  /\ page.calls[i].at = "cancel"
  /\ page' = StopTracks(i, page)
  /\ UNCHANGED <<workerVars, reports, bounds>>

\* closeReceiver as far as its wait for the buffered data, and what follows at
\* once if there is no connection.
CloseReceiver(i, q) ==
  LET p == Abort(q)
  IN  IF p.connection = 0
        THEN AfterReceiver(i, p)
        ELSE /\ page' = [p EXCEPT
                  !.calls[i] = [@ EXCEPT !.at = "drain", !.connection = p.connection,
                                         !.waits = p.promise],
                  !.promise = FALSE]
             /\ UNCHANGED reports

DoNotWait == TRUE  \* mutant of LoopEnded

LoopEnded == page.loop = "none"

\* After the frame loop, and with it a reconfiguration, has ended.
StopVideoEncoder(i) ==
  /\ NoMicrotask
  /\ page.calls[i].at = "loop"
  /\ LoopEnded
  /\ IF page.encoder = 0
       THEN CloseReceiver(i, page)
       ELSE /\ page' = [page EXCEPT !.encoder = 0,
                                    !.calls[i] = [@ EXCEPT !.at = "flush", !.encoder = page.encoder]]
            /\ UNCHANGED reports
  /\ UNCHANGED <<workerVars, bounds>>

FlushEncoder(i) ==
  /\ NoMicrotask
  /\ page.calls[i].at = "flush"
  /\ CloseReceiver(i, [page EXCEPT !.encoders = @ \ {page.calls[i].encoder}])
  /\ UNCHANGED <<workerVars, bounds>>

\* close of the connection, whose attempt to connect then fails.
WithoutSocket(p, connection) ==
  [p EXCEPT !.opening = @ \ {connection}, !.open = @ \ {connection}]

CloseConnection(i) ==
  /\ NoMicrotask
  /\ page.calls[i].at = "drain"
  /\ page' = [WithoutSocket(page, page.calls[i].connection) EXCEPT
                !.calls[i].at = "recovery"]
  /\ UNCHANGED <<workerVars, reports, bounds>>

AwaitRecovery(i) ==
  /\ NoMicrotask
  /\ page.calls[i].at = "recovery"
  /\ page.calls[i].waits => page.recovery.at = "none"
  /\ AfterReceiver(i, [page EXCEPT !.connection = 0])
  /\ UNCHANGED <<workerVars, bounds>>

-----------------------------------------------------------------------------
(* The offscreen document: what goes wrong.                                *)

\* CAPTURE_FAILURE or CAPTURE_ENDED, unless the capture is being stopped.
Fail(p) == IF p.stopping THEN p ELSE Call([p EXCEPT !.running = FALSE], "none")

Report(message) == reports' = IF page.stopping THEN reports ELSE Append(reports, message)

EncoderFails ==
  /\ NoMicrotask /\ CanCall
  /\ page.encoder \in page.encoders
  /\ faults < MaxFaults /\ faults' = faults + 1
  /\ page' = Fail([page EXCEPT !.encoders = @ \ {page.encoder}])
  /\ Report("failed")
  /\ UNCHANGED <<workerVars, sources, losses>>

\* An error message of the Receiver.
ReceiverRefuses ==
  /\ NoMicrotask /\ CanCall
  /\ page.connection \in page.open
  /\ faults < MaxFaults /\ faults' = faults + 1
  /\ page' = Fail(page)
  /\ Report("failed")
  /\ UNCHANGED <<workerVars, sources, losses>>

\* The track ends, of which the frame loop or the event may tell first.
TrackEnds ==
  /\ NoMicrotask
  /\ page.stream = "live"
  /\ page' = [page EXCEPT !.stream = "ending"]
  /\ UNCHANGED <<workerVars, reports, bounds>>

\* stopCapture follows when the service worker has answered.
HandleTrackEnded ==
  /\ NoMicrotask
  /\ page.stream = "ending"
  /\ IF page.stopping
       THEN page' = [page EXCEPT !.stream = "ended"] /\ UNCHANGED reports
       ELSE /\ page' = [page EXCEPT !.stream = "ended", !.running = FALSE]
            /\ reports' = Append(reports, "ended")
  /\ UNCHANGED <<workerVars, bounds>>

NeverRecovers == FALSE  \* mutant of MayRecover

MayRecover == ~page.stopping /\ ~page.reconfiguring /\ page.running /\ ~page.promise

\* The close event of an open connection, and beginReceiverRecovery.
ConnectionLost ==
  /\ NoMicrotask
  /\ page.connection \in page.open
  /\ losses < MaxLosses /\ losses' = losses + 1
  /\ LET p == WithoutSocket(page, page.connection)
     IN  page' = IF MayRecover
                   THEN [p EXCEPT !.promise = TRUE,
                                  !.recovery = [at |-> "delay", connection |-> p.connection,
                                                aborted |-> FALSE]]
                   ELSE p
  /\ UNCHANGED <<workerVars, reports, sources, faults>>

AlwaysContinue == TRUE  \* mutant of ShouldContinue

\* shouldContinue; the recovery's generation is current until it is aborted.
ShouldContinue == ~page.recovery.aborted /\ page.running /\ ~page.stopping

\* The recovery settles: its promise is forgotten if the generation is current.
Settle(p) ==
  [p EXCEPT !.recovery = NotRecovering,
            !.promise = IF p.recovery.aborted THEN @ ELSE FALSE]

AttemptRecovery ==
  /\ NoMicrotask
  /\ page.recovery.at = "delay" /\ ShouldContinue
  /\ page' = [page EXCEPT !.recovery.at = "connect",
                          !.opening = @ \cup {page.recovery.connection}]
  /\ UNCHANGED <<workerVars, reports, bounds>>

\* Aborted or no longer wanted, in the delay or when the attempt has failed.
CancelRecovery ==
  /\ NoMicrotask
  /\ page.recovery.at # "none" /\ ~ShouldContinue
  /\ page' = Settle(WithoutSocket(page, page.recovery.connection))
  /\ UNCHANGED <<workerVars, reports, bounds>>

\* An attempt fails; the next follows after the delay.
RetryRecovery ==
  /\ NoMicrotask
  /\ page.recovery.at = "connect" /\ ShouldContinue
  /\ page' = [WithoutSocket(page, page.recovery.connection) EXCEPT !.recovery.at = "delay"]
  /\ UNCHANGED <<workerVars, reports, bounds>>

\* A capture that was to end meanwhile closes the connection at once.
Recover ==
  /\ NoMicrotask
  /\ page.recovery.at = "connect" /\ ~page.recovery.aborted
  /\ page.recovery.connection \in page.opening
  /\ LET p == Settle(WithoutSocket(page, page.recovery.connection))
     IN  page' = IF ShouldContinue
                   THEN [p EXCEPT !.open = @ \cup {page.recovery.connection}] ELSE p
  /\ UNCHANGED <<workerVars, reports, bounds>>

\* A permanent error.
GiveUp ==
  /\ NoMicrotask /\ CanCall
  /\ page.recovery.at = "connect" /\ ShouldContinue
  /\ page' = Fail(Settle(WithoutSocket(page, page.recovery.connection)))
  /\ Report("failed")
  /\ UNCHANGED <<workerVars, bounds>>

-----------------------------------------------------------------------------
(* The offscreen document: startCapture.                                   *)

\* The catch clause of startCapture.
StartFails(p) == page' = Call([p EXCEPT !.startup = "catch"], "start")

\* Any await of startCapture may throw, for reasons of the browser's.
FailStart ==
  /\ NoMicrotask /\ CanCall
  /\ page.startup \in {"media", "first", "encoder"}
  /\ StartFails(page)
  /\ UNCHANGED <<workerVars, reports, bounds>>

\* With its constraints and the reader of the first frame: in between nothing
\* can stop the capture, and a track that has ended fails it.
GetUserMedia ==
  /\ NoMicrotask
  /\ page.startup = "media"
  /\ page' = [page EXCEPT !.stream = "live", !.reader = TRUE, !.startup = "first"]
  /\ UNCHANGED <<workerVars, reports, bounds>>

FirstFrame ==
  /\ NoMicrotask
  /\ page.startup = "first" /\ page.reader
  /\ page' = [page EXCEPT !.reader = FALSE, !.startup = "encoder"]
  /\ UNCHANGED <<workerVars, reports, bounds>>

\* createVideoEncoder and then connectReceiver up to its await, in startCapture
\* or in reconfigureForSource.  A DirectReceiverConnection needs a device.
MakeEncoder(p) ==
  [p EXCEPT !.encoder = p.made + 1, !.encoders = @ \cup {p.made + 1}, !.made = @ + 1]

MakeConnection(p) ==
  [p EXCEPT !.connection = p.made + 1, !.opening = @ \cup {p.made + 1}, !.made = @ + 1]

CreateEncoder ==
  /\ NoMicrotask /\ CanCall
  /\ page.startup = "encoder"
  /\ IF page.trusted
       THEN page' = [MakeConnection(MakeEncoder(page)) EXCEPT !.startup = "connect"]
       ELSE StartFails(MakeEncoder(page))
  /\ UNCHANGED <<workerVars, reports, bounds>>

\* The attempt of connectReceiver succeeds, or fails for a refusal, a time-out
\* or because the connection was closed.
Connects == page.connection \in page.opening

Connected ==
  [page EXCEPT !.opening = @ \ {page.connection}, !.open = @ \cup {page.connection}]

NotConnected == [WithoutSocket(page, page.connection) EXCEPT !.connection = 0]

\* The capture begins, if the track is still there for a second processor.
ConnectStart ==
  /\ NoMicrotask /\ CanCall
  /\ page.startup = "connect" /\ Connects
  /\ IF page.stream = "live"
       THEN /\ page' = [Connected EXCEPT !.running = TRUE, !.reader = TRUE,
                                         !.loop = "read", !.startup = "none"]
            /\ reports' = Append(reports, "started")
       ELSE StartFails(Connected) /\ UNCHANGED reports
  /\ UNCHANGED <<workerVars, bounds>>

FailConnectStart ==
  /\ NoMicrotask /\ CanCall
  /\ page.startup = "connect"
  /\ StartFails(NotConnected)
  /\ UNCHANGED <<workerVars, reports, bounds>>

-----------------------------------------------------------------------------
(* The offscreen document: consumeFrames and reconfigureForSource.         *)

\* A size that is stable; a reconfiguration ends the capture if it fails.
SourceChanges ==
  /\ NoMicrotask
  /\ page.loop = "read" /\ page.running /\ page.reader
  /\ sources < MaxSources /\ sources' = sources + 1
  /\ page' = [page EXCEPT !.reconfiguring = TRUE, !.loop = "allocate"]
  /\ UNCHANGED <<workerVars, reports, losses, faults>>

\* The loop ends by an error, which it reports; stopCapture follows when the
\* service worker has answered.
Swallow(p) ==  \* mutant of LoopFails
  /\ page' = [p EXCEPT !.reconfiguring = FALSE, !.loop = "read"]
  /\ UNCHANGED reports

LoopFails(p) ==
  IF p.stopping
    THEN page' = [p EXCEPT !.reconfiguring = FALSE, !.loop = "none"] /\ UNCHANGED reports
    ELSE /\ page' = [p EXCEPT !.reconfiguring = FALSE, !.running = FALSE, !.loop = "report"]
         /\ reports' = Append(reports, "loopFailed")

\* The frame cannot be read, drawn or encoded.
FrameFails ==
  /\ NoMicrotask
  /\ page.loop = "read" /\ page.reader /\ page.stream = "live"
  /\ faults < MaxFaults /\ faults' = faults + 1
  /\ LoopFails(page)
  /\ UNCHANGED <<workerVars, sources, losses>>

\* The last read is done, or the loop's condition is false.
LoopEnds ==
  /\ NoMicrotask
  /\ page.loop = "read"
  /\ ~page.running \/ ~page.reader \/ page.stream # "live"
  /\ IF page.running /\ ~page.stopping
       THEN /\ page' = [page EXCEPT !.running = FALSE, !.loop = "report"]
            /\ reports' = Append(reports, "loopEnded")
       ELSE page' = [page EXCEPT !.loop = "none"] /\ UNCHANGED reports
  /\ UNCHANGED <<workerVars, bounds>>

AllocateEpoch ==
  /\ NoMicrotask
  /\ page.loop = "allocate"
  /\ \/ LoopFails(page)
     \/ CloseReceiver(0, [page EXCEPT !.loop = "close"])
  /\ UNCHANGED <<workerVars, bounds>>

ReplaceEncoder ==
  /\ NoMicrotask
  /\ page.loop = "create"
  /\ \/ LoopFails(page)
     \/ /\ page' = [MakeConnection(MakeEncoder(page)) EXCEPT !.loop = "connect"]
        /\ UNCHANGED reports
  /\ UNCHANGED <<workerVars, bounds>>

Reconnect ==
  /\ NoMicrotask
  /\ page.loop = "connect"
  /\ \/ LoopFails(NotConnected)
     \/ /\ Connects
        /\ page' = [Connected EXCEPT !.reconfiguring = FALSE, !.loop = "read"]
        /\ UNCHANGED reports
  /\ UNCHANGED <<workerVars, bounds>>

-----------------------------------------------------------------------------
(* The service worker.                                                     *)

Settled ==
  /\ starting = "none" /\ stopper = "none"
  /\ closing = 0
  /\ reports = <<>>

\* failProbe and finishUnexpectedCapture: the mode at once, then the document.
EndWith(newMode) == mode' = newMode /\ closing' = closing + 1

\* START_CAPTURE of the popup.  The tab, the pairing or the epoch may fail it.
StartProbe ==
  /\ Settled /\ mode = "idle"
  /\ \/ EndWith("error") /\ UNCHANGED starting
     \/ mode' = "starting" /\ starting' = "ensure" /\ UNCHANGED closing
  /\ sources' = 0 /\ losses' = 0 /\ faults' = 0
  /\ UNCHANGED <<stopper, reports, page>>

EnsureDocument ==
  /\ starting = "ensure"
  /\ starting' = "send"
  /\ page' = Document
  /\ UNCHANGED <<mode, stopper, closing, reports, bounds>>

\* START_CAPTURE of the document, whose stopCapture finds nothing to stop.
SendStart ==
  /\ starting = "send"
  /\ ~Holding
  /\ starting' = "wait"
  /\ page' = [page EXCEPT !.startup = "media", !.trusted = TRUE]
  /\ UNCHANGED <<mode, stopper, closing, reports, bounds>>

StartAnswered ==
  /\ reports # <<>> /\ Head(reports) \in {"started", "startFailed"}
  /\ reports' = Tail(reports)
  /\ starting' = "none"
  /\ IF Head(reports) = "started"
       THEN mode' = "capturing" /\ UNCHANGED closing
       ELSE EndWith("error")
  /\ UNCHANGED <<stopper, page, bounds>>

\* A message whose receiver is gone is never answered: the promise rejects.
Answered(answers) == \E i \in DOMAIN reports : reports[i] \in answers

StartUnanswered ==
  /\ starting = "wait" /\ ~page.alive
  /\ ~Answered({"started", "startFailed"})
  /\ starting' = "none"
  /\ EndWith("error")
  /\ UNCHANGED <<stopper, reports, page, bounds>>

\* STOP_CAPTURE of the page, which is offered in this mode and once.
PressStop ==
  /\ mode = "capturing" /\ stopper = "none"
  /\ stopper' = "pressed"
  /\ UNCHANGED <<mode, starting, closing, reports, page, bounds>>

StopProbe ==
  /\ stopper = "pressed"
  /\ stopper' = IF page.alive THEN "send" ELSE "finish"
  /\ mode' = "stopping"
  /\ UNCHANGED <<starting, closing, reports, page, bounds>>

\* STOP_CAPTURE of the document; without one, stopProbe throws here and below
\* and leaves the mode as it is.
SendStop ==
  /\ stopper = "send"
  /\ IF page.alive
       THEN CanCall /\ page' = Call(page, "worker") /\ stopper' = "wait"
       ELSE stopper' = "none" /\ UNCHANGED page
  /\ UNCHANGED <<mode, starting, closing, reports, bounds>>

StopAnswered ==
  /\ reports # <<>> /\ Head(reports) = "stopped"
  /\ reports' = Tail(reports)
  /\ stopper' = "close"
  /\ UNCHANGED <<mode, starting, closing, page, bounds>>

StopUnanswered ==
  /\ stopper = "wait" /\ ~page.alive
  /\ ~Answered({"stopped"})
  /\ stopper' = "none"
  /\ UNCHANGED <<mode, starting, closing, reports, page, bounds>>

KeepDocument == page' = page  \* mutant of CloseDocument

\* closeDocument: all that the document had ends with it.
CloseDocument == page' = NoDocument

CloseAfterStop ==
  /\ stopper = "close"
  /\ IF page.alive THEN CloseDocument /\ stopper' = "finish"
                   ELSE stopper' = "none" /\ UNCHANGED page
  /\ UNCHANGED <<mode, starting, closing, reports, bounds>>

FinishStop ==
  /\ stopper = "finish"
  /\ stopper' = "none"
  /\ mode' = "stopped"
  /\ UNCHANGED <<starting, closing, reports, page, bounds>>

\* The answer to the document, which goes on with stopCapture.
Acknowledge(message) ==
  page' = IF ~page.alive \/ message = "failed"
            THEN page
            ELSE Call([page EXCEPT !.loop = IF message = "ended" THEN @ ELSE "none"], "none")

\* CAPTURE_ENDED and CAPTURE_FAILURE.
CaptureReported ==
  /\ reports # <<>> /\ Head(reports) \in {"ended", "loopEnded", "failed", "loopFailed"}
  /\ CanCall
  /\ reports' = Tail(reports)
  /\ EndWith(IF Head(reports) \in {"ended", "loopEnded"} THEN "stopped" ELSE "error")
  /\ Acknowledge(Head(reports))
  /\ UNCHANGED <<starting, stopper, bounds>>

CloseDocumentAfterEnd ==
  /\ closing > 0
  /\ closing' = closing - 1
  /\ IF page.alive THEN CloseDocument ELSE UNCHANGED page
  /\ UNCHANGED <<mode, starting, stopper, reports, bounds>>

\* The user leaves the result for the setup page, or the browser restarts.
ResetProbe ==
  /\ Settled /\ mode \in {"stopped", "error", "stopping"}
  /\ mode' = "idle"
  /\ page' = NoDocument
  /\ UNCHANGED <<starting, stopper, closing, reports, bounds>>

-----------------------------------------------------------------------------

Init ==
  /\ mode = "idle"
  /\ starting = "none" /\ stopper = "none"
  /\ closing = 0
  /\ reports = <<>>
  /\ page = NoDocument
  /\ sources = 0 /\ losses = 0 /\ faults = 0

Stopping ==
  \/ \E i \in Calls :
       \/ StopCapture(i) \/ CancelReader(i) \/ StopVideoEncoder(i) \/ FlushEncoder(i)
  \/ \E i \in 0..MaxCalls :
       CloseConnection(i) \/ AwaitRecovery(i)

Recovery ==
  AttemptRecovery \/ CancelRecovery \/ RetryRecovery \/ Recover \/ GiveUp

Startup ==
  \/ FailStart \/ GetUserMedia \/ FirstFrame
  \/ CreateEncoder \/ ConnectStart \/ FailConnectStart

Frames ==
  LoopEnds \/ AllocateEpoch \/ ReplaceEncoder \/ Reconnect

Worker ==
  \/ EnsureDocument \/ SendStart \/ StartAnswered \/ StartUnanswered
  \/ StopProbe \/ SendStop \/ StopAnswered \/ StopUnanswered
  \/ CloseAfterStop \/ FinishStop
  \/ CaptureReported \/ CloseDocumentAfterEnd

Environment ==
  \/ StartProbe \/ PressStop \/ ResetProbe
  \/ EncoderFails \/ ReceiverRefuses \/ TrackEnds \/ HandleTrackEnded
  \/ ConnectionLost \/ SourceChanges \/ FrameFails

Next ==
  \/ Stopping
  \/ Recovery
  \/ Startup
  \/ Frames
  \/ Worker
  \/ Environment

Spec == Init /\ [][Next]_vars

\* The event loops run on, and every wait for the browser or the Receiver ends:
\* by an answer, an error or a time-out.
Fairness ==
  /\ WF_vars(Stopping)
  /\ WF_vars(Startup)
  /\ WF_vars(Frames)
  /\ WF_vars(Worker)
  /\ WF_vars(CancelRecovery)

FairSpec == Spec /\ Fairness

-----------------------------------------------------------------------------
(* Properties.                                                             *)

Numbers == 0..(2 * (MaxSources + 1))

\* Types: among them, that no two calls wait for more than the page has.
TypeOK ==
  /\ mode \in {"idle", "starting", "capturing", "stopping", "stopped", "error"}
  /\ starting \in {"none", "ensure", "send", "wait"}
  /\ stopper \in {"none", "pressed", "send", "wait", "close", "finish"}
  /\ closing \in Nat
  /\ reports \in Seq({"started", "startFailed", "stopped", "ended", "loopEnded", "failed",
                    "loopFailed"})
  /\ DOMAIN page = DOMAIN NoDocument
  /\ {page.alive, page.running, page.stopping, page.reconfiguring, page.trusted,
      page.reader, page.promise} \subseteq BOOLEAN
  /\ page.stream \in {"none", "live", "ending", "ended"}
  /\ {page.encoder, page.connection, page.made} \subseteq Numbers
  /\ page.encoders \cup page.opening \cup page.open \subseteq Numbers \ {0}
  /\ page.startup \in {"none", "media", "first", "encoder", "connect", "catch"}
  /\ page.loop \in {"none", "read", "allocate", "close", "create", "connect", "report"}
  /\ page.recovery \in [at : {"none", "delay", "connect"}, connection : Numbers,
                        aborted : BOOLEAN]

\* A capture that is over leaves no document behind, and so no stream that the
\* browser shows as being captured.
NoDocumentLeft ==
  Settled /\ mode \in {"idle", "stopped", "error"} => ~page.alive

\* While the page shows a capture, frames are sent, the source is changing, or
\* the connection is being recovered; what ends the capture is reported.
CapturingIsLive ==
  Settled /\ mode = "capturing" =>
    /\ page.running /\ page.stream \in {"live", "ending"} /\ page.loop # "none"
    /\ \/ page.connection \in page.open
       \/ page.reconfiguring
       \/ page.recovery.at # "none" /\ page.promise

\* However stopCapture overlaps itself, startCapture, a change of the source
\* and a recovery: when the last call has returned, all is closed.
ReleasedAfterStop ==
  (/\ page.alive /\ ~page.running
   /\ page.startup = "none" /\ starting # "send"
   /\ \A i \in Calls : page.calls[i].at = "none"
   /\ ~\E i \in DOMAIN reports : reports[i] \in {"ended", "loopEnded", "loopFailed"}) =>
     /\ page.stream = "none" /\ ~page.reader /\ page.loop = "none"
     /\ page.encoders = {} /\ page.opening = {} /\ page.open = {}
     /\ page.recovery.at = "none"

\* A start ends, and so does every stopCapture, though it waits for the frame
\* loop, which may wait for a connection or a recovery.
CallsEnd ==
  /\ (mode = "starting") ~> (mode # "starting")
  /\ page.stopping ~> ~page.stopping
==============================================================================
