------------------------------ MODULE Recorder -------------------------------
(***************************************************************************)
(* RecorderService.run_capture (daybreak_recorder/orchestration/service.py)*)
(* and the services it supervises, around the batch writer: it stores the  *)
(* subscription manifest, starts the streams and the SEC pollers, waits for*)
(* the stop time or for the first service that ends, and then shuts down   *)
(* streams, pollers and writer in that order, each with a timeout.         *)
(*                                                                         *)
(* A stream's handlers run in a worker thread (adapters/alpaca_streams.py):*)
(* cancelling its task does not stop the thread, which may go on           *)
(* submitting.  A handler whose submit raises records the failure and      *)
(* raises into the SDK, which may carry on with the next message.          *)
(***************************************************************************)
EXTENDS BatchWriter

CONSTANTS
    Main,    \* run_capture itself, which submits the manifest
    Stream,  \* the stream adapters
    Poller,  \* the SEC pollers, one for each CIK
    Aged     \* for each poller, the filings older than bootstrap_lookback_hours

(***************************************************************************)
(* The sources are the recorder's, and the manifest is a single event.     *)
(***************************************************************************)
ASSUME RecorderAssumption ==
    /\ Main \notin Stream \cup Poller /\ Stream \cap Poller = {}
    /\ Source = {Main} \cup Stream \cup Poller
    /\ Durable = {Main} \cup Poller
    /\ MaxEvents[Main] = 1
    /\ Aged \in [Poller -> Nat]

VARIABLES
    stage,     \* where run_capture is
    status,    \* ingest_sessions.status
    errors,    \* whether the errors list is non-empty
    task,      \* the asyncio task of each stream and poller
    failures,  \* raw_ingest_failures
    marked     \* sec_seen_accessions, as the events of the filings

captureVars == <<stage, status, errors>>
serviceVars == <<task, failures, marked>>
recorderVars == <<writerVars, captureVars, serviceVars>>

Service == Stream \cup Poller
Running == {s \in Service : task[s] = "running"}
StopRequested == stage \notin {"open", "manifest", "watch"}

(* Every filing in the SEC's answer: the recent ones have events, behind    *)
(* the snapshot's, and the aged ones are numbered after them.               *)
FilingsOf(p) == {<<p, i>> : i \in 2 .. MaxEvents[p]}
AgedOf(p) == {<<p, MaxEvents[p] + i>> : i \in 1 .. Aged[p]}
AllAged == UNION {AgedOf(p) : p \in Poller}

(* The first poll of a CIK emits no filing that is older than the lookback, *)
(* but seeds the checkpoint with the whole answer; later polls mark what    *)
(* they emitted.                                                            *)
FirstPoll(p) == \A f \in marked : f[1] # p
ToMark(p) == FilingsOf(p) \cup IF FirstPoll(p) THEN AgedOf(p) ELSE {}

(* Some of the CIKs were polled in earlier sessions.                        *)
RecorderInit ==
    /\ WriterInit
    /\ stage = "open" /\ status = "running" /\ errors = FALSE
    /\ task = [s \in Service |-> "none"]
    /\ failures = {}
    /\ \E known \in SUBSET Poller : marked = UNION {AgedOf(p) : p \in known}

-----------------------------------------------------------------------------
(* run_capture up to the end of its try block.                              *)
Advance(next, failed) ==
    /\ stage' = next /\ errors' = (errors \/ failed) /\ UNCHANGED status

SaveManifest ==
    /\ stage = "open" /\ Start /\ Advance("manifest", FALSE)
    /\ UNCHANGED serviceVars

SaveManifestRaises ==
    /\ stage = "open" /\ Advance("stopStreams", TRUE)
    /\ UNCHANGED <<writerVars, serviceVars>>

SubmitManifest ==
    /\ stage = "manifest"
    /\ SourceCalls(Main) \/ Enqueue(Main) \/ EnqueueRaises(Main)
       \/ WaitReturns(Main) \/ WaitRaises(Main)
    /\ UNCHANGED <<captureVars, serviceVars>>

LaunchEarly ==   \* mutant: the streams do not wait for the manifest
    /\ stage = "manifest"
    /\ Advance("watch", FALSE)
    /\ task' = [s \in Service |-> "running"]
    /\ UNCHANGED <<writerVars, failures, marked>>

Launch ==
    /\ stage = "manifest" /\ call[Main] = "ok"
    /\ Advance("watch", FALSE)
    /\ task' = [s \in Service |-> "running"]
    /\ UNCHANGED <<writerVars, failures, marked>>

(* The manifest was not stored, or a factory raised, or gave no stream.     *)
LaunchRaises ==
    /\ stage = "manifest" /\ call[Main] \in {"ok", "raised"}
    /\ Advance("stopStreams", TRUE)
    /\ UNCHANGED <<writerVars, serviceVars>>

CaptureCancelled ==
    /\ \/ stage = "manifest" /\ SourceCancelled(Main)
       \/ stage = "watch" /\ UNCHANGED writerVars
    /\ Advance("stopStreams", TRUE)
    /\ UNCHANGED serviceVars

(* asyncio.wait returns: the timer, an external stop, or a service that     *)
(* ended; the last is an error, also if it returned and raised nothing.     *)
WatchEnds ==
    /\ stage = "watch" /\ Advance("stopStreams", Running # Service)
    /\ UNCHANGED <<writerVars, serviceVars>>

-----------------------------------------------------------------------------
(* The finally block.                                                       *)
StopStreams ==
    /\ stage = "stopStreams"
    /\ \E failed \in BOOLEAN : Advance("settleStreams", failed)
    /\ UNCHANGED <<writerVars, serviceVars>>

StreamsSettled ==
    /\ stage = "settleStreams" /\ Stream \cap Running = {}
    /\ Advance("settlePollers", \E s \in Stream : task[s] = "raised")
    /\ UNCHANGED <<writerVars, serviceVars>>

StreamsTimeOutQuietly ==   \* mutant: a shutdown timeout is not an error
    /\ stage = "settleStreams" /\ Stream \cap Running # {}
    /\ Advance("settlePollers", FALSE)
    /\ task' = [s \in Service |-> IF s \in Stream \cap Running THEN "cancelled" ELSE task[s]]
    /\ UNCHANGED <<writerVars, failures, marked>>

StreamsTimeOut ==
    /\ stage = "settleStreams" /\ Stream \cap Running # {}
    /\ Advance("settlePollers", TRUE)
    /\ task' = [s \in Service |-> IF s \in Stream \cap Running THEN "cancelled" ELSE task[s]]
    /\ UNCHANGED <<writerVars, failures, marked>>

PollersSettled ==
    /\ stage = "settlePollers" /\ Poller \cap Running = {}
    /\ Advance("stopWriter", \E p \in Poller : task[p] = "raised")
    /\ UNCHANGED <<writerVars, serviceVars>>

(* The pollers that are still running are cancelled, one after the other.   *)
PollerTimesOutNot ==   \* mutant: the pollers are waited for without a timeout
    FALSE /\ UNCHANGED recorderVars

PollerTimesOut ==
    /\ stage = "settlePollers"
    /\ \E p \in Poller \cap Running :
          /\ task' = [task EXCEPT ![p] = "cancelled"]
          /\ IF call[p] \in {"ready", "putting", "waiting"}
             THEN SourceCancelled(p) ELSE UNCHANGED writerVars
    /\ Advance("settlePollers", TRUE)
    /\ UNCHANGED <<failures, marked>>

StopWriter ==
    /\ stage = "stopWriter"
    /\ Stop \/ PutStop \/ Joined \/ StopTimesOut \/ Aborted
    /\ UNCHANGED <<captureVars, serviceVars>>

(* finish_session stores the status, or raises and leaves the row running.  *)
FinishSession ==
    /\ stage = "stopWriter" /\ owner \in {"none", "stopped", "stopFailed", "aborted"}
    /\ stage' = "done"
    /\ errors' = (errors \/ owner \in {"stopFailed", "aborted"})
    /\ status' \in {"running", IF errors' THEN "failed" ELSE "completed"}
    /\ UNCHANGED <<writerVars, serviceVars>>

-----------------------------------------------------------------------------
(* The handlers of a stream; Handling also holds of a thread whose task     *)
(* was cancelled.                                                           *)
Handling(s) == task[s] \in {"running", "cancelled"}

HandleMessage(s) ==
    /\ Handling(s) \/ call[s] = "putting"
    /\ \/ SourceCalls(s) \/ Enqueue(s) \/ EnqueueBlocks(s) \/ PutResumes(s)
       \/ EnqueueRaises(s)
    /\ UNCHANGED <<captureVars, serviceVars>>

(* build_and_submit tries to record the event it could not submit, which    *)
(* raises too if the writer has failed or the insert does; the SDK logs the *)
(* exception and goes on with the next message.                             *)
HandlerRaises(s) ==
    /\ SourceSkips(s)
    /\ failures' \in IF fatal THEN {failures} ELSE {failures, failures \cup {Coming(s)}}
    /\ UNCHANGED <<captureVars, task, marked>>

(* A task that returns has "ended" if nobody had asked it to stop.          *)
Returns(s) ==
    task' = [task EXCEPT ![s] = IF StopRequested THEN "returned" ELSE "ended"]

StreamReturns(s) ==
    /\ task[s] = "running" /\ call[s] \in {"off", "ready"} /\ Returns(s)
    /\ UNCHANGED <<writerVars, captureVars, failures, marked>>

StreamRaises(s) ==
    /\ task[s] = "running" /\ task' = [task EXCEPT ![s] = "raised"]
    /\ UNCHANGED <<writerVars, captureVars, failures, marked>>

(* _poll_cik: store the snapshot and the new filings, wait, and mark them.  *)
Poll(p) ==
    /\ task[p] = "running"
    /\ \/ ~StopRequested /\ SourceCalls(p)
       \/ Enqueue(p) \/ EnqueueBlocks(p) \/ PutResumes(p) \/ EnqueueRaises(p)
       \/ WaitReturns(p) \/ WaitRaises(p)
    /\ UNCHANGED <<captureVars, serviceVars>>

MarkSeenEarly(p) ==   \* mutant: the checkpoint does not wait for durability
    /\ task[p] = "running" /\ call[p] = "waiting"
    /\ marked' = marked \cup ToMark(p)
    /\ UNCHANGED <<writerVars, captureVars, task, failures>>

MarkSeen(p) ==
    /\ task[p] = "running" /\ call[p] = "ok"
    /\ marked' = marked \cup ToMark(p)
    /\ UNCHANGED <<writerVars, captureVars, task, failures>>

(* After the stop is requested, or at once where there is no CIK to poll.   *)
PollerReturns(p) ==
    /\ task[p] = "running" /\ Returns(p)
    /\ call[p] = "off" \/ (StopRequested /\ call[p] = "ok" /\ ToMark(p) \subseteq marked)
    /\ UNCHANGED <<writerVars, captureVars, failures, marked>>

(* The request, the submit or the checkpoint raises.                        *)
PollerRaises(p) ==
    /\ task[p] = "running" /\ call[p] \in {"off", "raised", "ok"}
    /\ task' = [task EXCEPT ![p] = "raised"]
    /\ UNCHANGED <<writerVars, captureVars, failures, marked>>

-----------------------------------------------------------------------------
CaptureStep ==
    \/ SaveManifest \/ SaveManifestRaises \/ SubmitManifest \/ Launch \/ LaunchRaises
    \/ CaptureCancelled \/ WatchEnds \/ StopStreams \/ StreamsSettled \/ StreamsTimeOut
    \/ PollersSettled \/ PollerTimesOut \/ StopWriter \/ FinishSession

WriterStep == TaskStep /\ UNCHANGED <<captureVars, serviceVars>>

ServiceStep ==
    \/ \E s \in Stream : HandleMessage(s) \/ HandlerRaises(s) \/ StreamReturns(s)
                         \/ StreamRaises(s)
    \/ \E p \in Poller : Poll(p) \/ MarkSeen(p) \/ PollerReturns(p) \/ PollerRaises(p)

RecorderNext == CaptureStep \/ WriterStep \/ ServiceStep

RecorderSpec == RecorderInit /\ [][RecorderNext]_recorderVars

(***************************************************************************)
(* The event loop runs run_capture and the writer task, their timers fire, *)
(* and append_batch returns or raises.  The streams and pollers owe        *)
(* nothing: the shutdown timeouts are there for them.                      *)
(***************************************************************************)
RecorderFairSpec ==
    RecorderSpec /\ WF_recorderVars(CaptureStep) /\ WF_recorderVars(WriterStep)

-----------------------------------------------------------------------------
(* The recorder's own variables stay in their types, and the writer's too.  *)
RecorderTypeOK ==
    /\ WriterTypeOK
    /\ stage \in {"open", "manifest", "watch", "stopStreams", "settleStreams",
                  "settlePollers", "stopWriter", "done"}
    /\ status \in {"running", "completed", "failed"} /\ errors \in BOOLEAN
    /\ task \in [Service -> {"none", "running", "returned", "ended", "raised", "cancelled"}]
    /\ failures \subseteq Event /\ marked \subseteq Event \cup AllAged

(***************************************************************************)
(* The manifest event is the first replayable event of every session.      *)
(***************************************************************************)
ManifestFirst == table # <<>> => Head(table) = <<Main, 1>>

(***************************************************************************)
(* A session that is reported complete has stored every event that its     *)
(* queue accepted: no shutdown path drops one without an error.            *)
(***************************************************************************)
CompletedIsWhole == status = "completed" => table = accepted

(***************************************************************************)
(* An accession marked as seen has its event in the table, so a restart    *)
(* that skips it loses nothing, unless it was older than the lookback when *)
(* its CIK was first polled: those are marked and never stored.            *)
(***************************************************************************)
CheckpointDurable == marked \subseteq Elements(table) \cup AllAged

(***************************************************************************)
(* A session that lost a required service, or the writer, is not reported  *)
(* complete, and neither is one whose service returned before the stop.    *)
(***************************************************************************)
FailureIsReported ==
    status = "completed" =>
        writer = "ended" /\ \A s \in Service : task[s] = "returned"

(***************************************************************************)
(* run_capture ends, whichever service hangs and whatever fails, also when *)
(* a poller waits for an acknowledgement that will never come.             *)
(***************************************************************************)
CaptureEnds == <>(stage = "done")

(***************************************************************************)
(* The status run_capture stores: "completed" only if nothing accepted is  *)
(* missing, and a failure of any part is not hidden behind it.             *)
(***************************************************************************)
StatusIsTrue == CompletedIsWhole /\ FailureIsReported

(***************************************************************************)
(* Nothing runs ahead of the table: neither the events of the manifest     *)
(* that explains them nor the checkpoint of the filings within the         *)
(* lookback.                                                               *)
(***************************************************************************)
StoredFirst == ManifestFirst /\ CheckpointDurable
=============================================================================
