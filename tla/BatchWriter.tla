----------------------------- MODULE BatchWriter -----------------------------
(***************************************************************************)
(* AsyncBatchWriter (daybreak_recorder/persistence/batch_writer.py): the   *)
(* one writer through which every source of the recorder stores its events.*)
(* Sources put events on a bounded asyncio.Queue; the writer task collects *)
(* them into batches and appends each batch in one transaction; a source   *)
(* that asked for durability waits on a future per event.                  *)
(*                                                                         *)
(* All tasks run on one event loop, so a step is what a task does between  *)
(* two awaits.  A put on a queue with room does not suspend; a put on a    *)
(* full queue does, and when it resumes nothing is checked again.          *)
(***************************************************************************)
EXTENDS Integers, Sequences

CONSTANTS
    Source,     \* the tasks that submit events
    Durable,    \* those that use submit_and_wait or submit_many_and_wait
    MaxEvents,  \* how many events each source submits (bound)
    QueueMax,   \* queue_maxsize
    BatchSize,  \* batch_size
    STOP        \* the _STOP sentinel

(***************************************************************************)
(* RecorderSettings requires positive sizes; the sentinel is no event.     *)
(***************************************************************************)
ASSUME WriterAssumption ==
    /\ Durable \subseteq Source
    /\ MaxEvents \in [Source -> Nat \ {0}]
    /\ QueueMax \in Nat \ {0} /\ BatchSize \in Nat \ {0}
    /\ STOP \notin Source \X Nat

VARIABLES
    queue,     \* _queue: events and perhaps STOP
    batch,     \* the batch _run is collecting
    writer,    \* where the writer task is
    owner,     \* where the owner of the writer is in start, stop and abort
    hasTask,   \* whether _task is set
    fatal,     \* whether _fatal_error is set
    table,     \* raw_events in the order of ingest_seq
    accepted,  \* history: the events in the order the queue took them
    future,    \* durable_future of each event
    call,      \* what each source is doing
    sent       \* how many events each source has handed over

queueVars == <<queue, batch, writer, fatal, table, future>>
ownerVars == <<owner, hasTask>>
sourceVars == <<accepted, call, sent>>
writerVars == <<queueVars, ownerVars, sourceVars>>

Event == Source \X (Nat \ {0})
Elements(s) == {s[i] : i \in 1..Len(s)}
EventsOf(s) == {<<s, i>> : i \in 1..MaxEvents[s]}
Coming(s) == <<s, sent[s] + 1>>
Full == Len(queue) >= QueueMax
Alive == writer \in {"get", "flush", "last"}
Cancelling == owner = "aborting"   \* the task takes no step but the cancellation

WriterInit ==
    /\ queue = <<>> /\ batch = <<>> /\ table = <<>> /\ accepted = <<>>
    /\ writer = "none" /\ owner = "none" /\ hasTask = FALSE /\ fatal = FALSE
    /\ future = [e \in UNION {EventsOf(s) : s \in Source} |-> "none"]
    /\ call = [s \in Source |-> "off"]
    /\ sent = [s \in Source |-> 0]

-----------------------------------------------------------------------------
(***************************************************************************)
(* Sources.  The queue takes the event; the last event of a durable call   *)
(* is followed by the wait for all its futures.                            *)
(***************************************************************************)
Accept(s) ==
    /\ ~Full
    /\ queue' = Append(queue, Coming(s))
    /\ accepted' = Append(accepted, Coming(s))
    /\ sent' = [sent EXCEPT ![s] = sent[s] + 1]
    /\ future' = IF s \in Durable THEN [future EXCEPT ![Coming(s)] = "pending"] ELSE future
    /\ call' = [call EXCEPT ![s] =
                    IF s \in Durable /\ sent[s] + 1 = MaxEvents[s] THEN "waiting" ELSE "ready"]
    /\ UNCHANGED <<batch, writer, fatal, table, ownerVars>>

(* _enqueue: refuse when the writer has failed or is not running, else put. *)
Enqueue(s) ==
    /\ call[s] = "ready" /\ sent[s] < MaxEvents[s]
    /\ ~fatal /\ hasTask
    /\ Accept(s)

EnqueueBlocks(s) ==
    /\ call[s] = "ready" /\ sent[s] < MaxEvents[s]
    /\ ~fatal /\ hasTask /\ Full
    /\ call' = [call EXCEPT ![s] = "putting"]
    /\ UNCHANGED <<queueVars, ownerVars, accepted, sent>>

PutResumes(s) == call[s] = "putting" /\ Accept(s)

(* The two ways _enqueue raises: the writer is gone, or the put timed out.  *)
EnqueueRaises(s) ==
    /\ sent[s] < MaxEvents[s]
    /\ \/ call[s] = "ready" /\ (fatal \/ ~hasTask)
       \/ call[s] = "putting"
    /\ call' = [call EXCEPT ![s] = "raised"]
    /\ UNCHANGED <<queueVars, ownerVars, accepted, sent>>

(* gather: the call returns when every future has a result, and raises as   *)
(* soon as one has an exception.                                            *)
WaitReturns(s) ==
    /\ call[s] = "waiting" /\ \A e \in EventsOf(s) : future[e] = "ok"
    /\ call' = [call EXCEPT ![s] = "ok"]
    /\ UNCHANGED <<queueVars, ownerVars, accepted, sent>>

WaitRaises(s) ==
    /\ call[s] = "waiting" /\ \E e \in EventsOf(s) : future[e] = "error"
    /\ call' = [call EXCEPT ![s] = "raised"]
    /\ UNCHANGED <<queueVars, ownerVars, accepted, sent>>

-----------------------------------------------------------------------------
(***************************************************************************)
(* The writer task, _run and _flush.  Its timer may fire although an event *)
(* has just arrived.                                                       *)
(***************************************************************************)
Get ==
    /\ writer = "get" /\ ~Cancelling /\ queue # <<>> /\ Head(queue) # STOP
    /\ batch' = Append(batch, Head(queue)) /\ queue' = Tail(queue)
    /\ writer' = IF Len(batch) + 1 >= BatchSize THEN "flush" ELSE "get"
    /\ UNCHANGED <<fatal, table, future, ownerVars, sourceVars>>

FlushTimer ==
    /\ writer = "get" /\ ~Cancelling /\ batch # <<>> /\ writer' = "flush"
    /\ UNCHANGED <<queue, batch, fatal, table, future, ownerVars, sourceVars>>

GetStopUnflushed ==   \* mutant: _STOP ends the task at once
    /\ writer = "get" /\ ~Cancelling /\ queue # <<>> /\ Head(queue) = STOP
    /\ queue' = <<>> /\ batch' = <<>> /\ writer' = "ended"
    /\ UNCHANGED <<fatal, table, future, ownerVars, sourceVars>>

(* What the drain loop of _run keeps of the queue, item by item.            *)
WithoutStop(s) ==
    LET kept[i \in 0..Len(s)] ==
            IF i = 0 THEN <<>>
            ELSE IF s[i] = STOP THEN kept[i - 1] ELSE Append(kept[i - 1], s[i])
    IN  kept[Len(s)]

(* _STOP: take what is queued behind it, flush once more and return.        *)
GetStop ==
    /\ writer = "get" /\ ~Cancelling /\ queue # <<>> /\ Head(queue) = STOP
    /\ batch' = batch \o WithoutStop(queue)
    /\ queue' = <<>> /\ writer' = "last"
    /\ UNCHANGED <<fatal, table, future, ownerVars, sourceVars>>

(* A get wakes one blocked put, which runs before the database can answer.  *)
Settled == Full \/ \A s \in Source : call[s] # "putting"

Resolve(events, result) ==
    [e \in DOMAIN future |->
        IF e \in events /\ future[e] = "pending" THEN result ELSE future[e]]

FlushAcksQueue ==   \* mutant: acknowledges what is still queued as well
    /\ writer \in {"flush", "last"} /\ ~Cancelling /\ Settled
    /\ table' = table \o batch
    /\ future' = Resolve(Elements(batch) \cup Elements(queue), "ok")
    /\ batch' = <<>>
    /\ writer' = IF writer = "last" THEN "ended" ELSE "get"
    /\ UNCHANGED <<queue, fatal, ownerVars, sourceVars>>

Flush ==
    /\ writer \in {"flush", "last"} /\ ~Cancelling /\ Settled
    /\ table' = table \o batch
    /\ future' = Resolve(Elements(batch), "ok")
    /\ batch' = <<>>
    /\ writer' = IF writer = "last" THEN "ended" ELSE "get"
    /\ UNCHANGED <<queue, fatal, ownerVars, sourceVars>>

(* The except clause of _run: remember the error, fail every future in the  *)
(* batch and in the queue, and empty both.                                  *)
Dies ==
    /\ future' = Resolve(Elements(batch) \cup Elements(queue), "error")
    /\ batch' = <<>> /\ queue' = <<>>
    /\ fatal' = TRUE /\ writer' = "failed"

(* append_batch raises.  Its transaction may have been committed.           *)
FlushRaisesGoesOn ==   \* mutant: the writer drops the batch and carries on
    /\ writer = "flush" /\ Settled
    /\ future' = Resolve(Elements(batch), "error")
    /\ batch' = <<>> /\ writer' = "get"
    /\ UNCHANGED <<queue, fatal, table, ownerVars, sourceVars>>

FlushRaises ==
    /\ writer \in {"flush", "last"} /\ Settled /\ Dies
    /\ table' \in {table, table \o batch}
    /\ UNCHANGED <<ownerVars, sourceVars>>

-----------------------------------------------------------------------------
(***************************************************************************)
(* The owner: start, stop, and abort after a stop that timed out.          *)
(***************************************************************************)
Start ==
    /\ owner = "none" /\ owner' = "running"
    /\ hasTask' = TRUE /\ writer' = "get"
    /\ UNCHANGED <<queue, batch, fatal, table, future, sourceVars>>

Stop ==
    /\ owner = "running"
    /\ IF Alive
       THEN owner' = "stopping" /\ UNCHANGED hasTask
       ELSE owner' = "stopFailed" /\ hasTask' = FALSE
    /\ UNCHANGED <<queueVars, sourceVars>>

PutStop ==
    /\ owner = "stopping" /\ ~Full
    /\ queue' = Append(queue, STOP) /\ owner' = "joining"
    /\ UNCHANGED <<batch, writer, fatal, table, future, hasTask, sourceVars>>

Joined ==
    /\ owner = "joining" /\ ~Alive
    /\ owner' = IF writer = "ended" THEN "stopped" ELSE "stopFailed"
    /\ hasTask' = FALSE
    /\ UNCHANGED <<queueVars, sourceVars>>

(* wait_for(writer.stop()) gives up.  Cancelling the await of the task      *)
(* cancels the task; abort sets the error before it cancels.                *)
StopTimesOut ==
    /\ owner \in {"stopping", "joining"} /\ owner' = "aborting"
    /\ fatal' = (fatal \/ owner = "stopping")
    /\ UNCHANGED <<queue, batch, writer, table, future, hasTask, sourceVars>>

Cancelled ==
    /\ owner = "aborting" /\ Alive /\ Dies
    /\ table' \in IF writer = "get" THEN {table} ELSE {table, table \o batch}
    /\ UNCHANGED <<ownerVars, sourceVars>>

Aborted ==
    /\ owner = "aborting" /\ ~Alive
    /\ owner' = "aborted" /\ hasTask' = FALSE /\ fatal' = TRUE
    /\ UNCHANGED <<queue, batch, writer, table, future, sourceVars>>

-----------------------------------------------------------------------------
(* A task that has nothing to do with the writer starts or gives up a call. *)
SourceCalls(s) ==
    /\ call[s] = "off" /\ call' = [call EXCEPT ![s] = "ready"]
    /\ UNCHANGED <<queueVars, ownerVars, accepted, sent>>

SourceCancelled(s) ==
    /\ call[s] \in {"ready", "putting", "waiting"}
    /\ call' = [call EXCEPT ![s] = "cancelled"]
    /\ UNCHANGED <<queueVars, ownerVars, accepted, sent>>

(* A handler that gave up on an event goes on to the next one.              *)
SourceSkips(s) ==
    /\ call[s] = "raised" /\ s \notin Durable
    /\ call' = [call EXCEPT ![s] = "ready"]
    /\ sent' = [sent EXCEPT ![s] = sent[s] + 1]
    /\ UNCHANGED <<queueVars, ownerVars, accepted>>

TaskStep == Get \/ FlushTimer \/ GetStop \/ Flush \/ FlushRaises \/ Cancelled
OwnerStep == Start \/ Stop \/ PutStop \/ Joined \/ StopTimesOut \/ Aborted
SourceStep(s) ==
    \/ SourceCalls(s) \/ Enqueue(s) \/ EnqueueBlocks(s) \/ PutResumes(s)
    \/ EnqueueRaises(s) \/ WaitReturns(s) \/ WaitRaises(s)
    \/ SourceCancelled(s) \/ SourceSkips(s)

WriterNext == TaskStep \/ OwnerStep \/ \E s \in Source : SourceStep(s)

WriterSpec == WriterInit /\ [][WriterNext]_writerVars

-----------------------------------------------------------------------------
(* Every variable stays in its type, and the queue within its bound.        *)
WriterTypeOK ==
    /\ queue \in Seq(Event \cup {STOP}) /\ Len(queue) <= QueueMax
    /\ batch \in Seq(Event) /\ table \in Seq(Event) /\ accepted \in Seq(Event)
    /\ writer \in {"none", "get", "flush", "last", "ended", "failed"}
    /\ owner \in {"none", "running", "stopping", "joining", "stopped", "stopFailed",
                  "aborting", "aborted"}
    /\ hasTask \in BOOLEAN /\ fatal \in BOOLEAN
    /\ \A e \in DOMAIN future : future[e] \in {"none", "pending", "ok", "error"}
    /\ call \in [Source -> {"off", "ready", "putting", "waiting", "ok", "raised",
                            "cancelled"}]
    /\ sent \in [Source -> Nat]

(***************************************************************************)
(* A durability acknowledgement is never given for an event that is not in *)
(* the table: the SEC poller moves its checkpoint on the strength of it.   *)
(***************************************************************************)
AckMeansPersisted ==
    \A e \in DOMAIN future : future[e] = "ok" => e \in Elements(table)

(***************************************************************************)
(* ingest_seq reflects one process-wide acceptance order: the table is an  *)
(* initial part of what the queue took, with no gap and no exchange,       *)
(* whatever fails and whoever is waiting for room.                         *)
(***************************************************************************)
AcceptanceOrder ==
    \E n \in 0..Len(accepted) : table = SubSeq(accepted, 1, n)

(***************************************************************************)
(* abort fails every pending durability acknowledgement: nobody waits for  *)
(* a writer that has failed.  Not claimed by a run: with QueueMax = 1, two *)
(* stream events and two poller events TLC refutes it, see the README,     *)
(* "Divergences".                                                          *)
(***************************************************************************)
PendingAcksFailed ==
    writer = "failed" => \A e \in DOMAIN future : future[e] # "pending"

=============================================================================
