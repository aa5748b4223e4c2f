------------------------------ MODULE Session ------------------------------
(***************************************************************************)
(* SessionOrchestrator.run (daybreak_orchestration/service.py): several    *)
(* orchestrator processes may be started for one session.  They share the  *)
(* lease row (module Leadership) and the kill-switch table; an operator    *)
(* may run paper-emergency-flatten (daybreak/cli.py) at any time.  Every   *)
(* call whose effect the model keeps - a statement on the lease row, its   *)
(* audit event, the switch, the hook, the alert, the flatten - is a step   *)
(* of its own, so time and the other processes move between any two; the   *)
(* probe and the phase records, which leave no trace here, are a step with *)
(* the branch that follows them.  The collaborators in Faulty may raise.   *)
(*                                                                         *)
(* What a hook or the flatten service does is not modelled here: a hook    *)
(* takes any time and returns any result its contract allows, a flatten    *)
(* is complete, incomplete or raises (module Flatten).                     *)
(***************************************************************************)
EXTENDS Leadership

CONSTANTS PlanAt,        \* SessionPlan: the time at which each stage may start
          EvalCutoff,    \* evaluator_cutoff_at
          EntryCutoff,   \* new_entry_cutoff_at
          MaxRuns,       \* bound of the model: calls of run
          Faulty         \* the collaborators that may raise

Collaborator == {"hook", "health", "database", "alert", "flatten"}
Timed == {"RECORDER_WARMUP", "RECORDING", "FEATURE_FREEZE", "EVALUATION",
          "ELIGIBILITY_LOCK", "EXECUTION", "FLATTENING"}

ASSUME SessionAssumption ==
  /\ PlanAt \in [Timed -> Nat]
  /\ EvalCutoff \in Nat /\ EntryCutoff \in Nat
  /\ MaxRuns \in Nat
  /\ Faulty \subseteq Collaborator

\* SessionPlan.chronological puts the evaluator cutoff before the open; the
\* clocks of two processes differ by less than the gap.
ASSUME CutoffMargin == EvalCutoff + MaxSkew < PlanAt["EXECUTION"]

VARIABLES run,          \* the locals of run in each process
          latest,       \* active flag of the newest kill-switch event
          inactiveRow,  \* the hash of the inactive state is in the table
          runs,         \* calls of run so far
          entries       \* history: how often a run has begun to enter positions

sessionVars == <<run, latest, inactiveRow, runs, entries>>
vars == <<leaseVars, sessionVars>>

Stage == Timed \cup {"PREFLIGHT", "MONITORING"}
Hooks == {"RECORDER_WARMUP", "RECORDING", "FEATURE_FREEZE", "EVALUATION",
          "EXECUTION", "MONITORING"}
Steps == {"idle", "read", "init", "acquire", "granted", "acquired", "renew", "renewed",
          "probe", "wait", "cutoff", "call", "hook", "ended",
          "kill", "alert", "flatten", "finish", "done"}
Returns == {"none", "probe", "wait", "call", "ended"}
Paths == {"normal", "denied", "persistent", "error", "incomplete"}
Outcomes == {"FAILED", "BLOCKED", "NO_SETUPS", "COMPLETED", "KILLED",
             "FLATTEN_INCOMPLETE"}
Switch == {"none", "inactive", "active"}
Run == [pc : Steps, then : Returns, stage : Stage, started : Nat, seen : Switch,
        path : Paths, outcome : Outcomes, flat : {"none", "raised", "complete", "incomplete"},
        stopped : BOOLEAN, unheard : BOOLEAN]

\* then is where _renew_leadership returns to, started the local of _run_phase;
\* flat tells how the last call of the flatten service ended, "raised" when it
\* left no result.  History: stopped, the switch was active at the call of run and
\* the session's first state was stored; unheard, an alert raised in a handler.
NoRun == [pc |-> "idle", then |-> "none", stage |-> "PREFLIGHT", started |-> 0,
          seen |-> "none", path |-> "normal", outcome |-> "FAILED", flat |-> "none",
          stopped |-> FALSE, unheard |-> FALSE]

\* The order of the stages in run; the branch after EVALUATION is in EndPhase.
Following == [PREFLIGHT        |-> "RECORDER_WARMUP",
              RECORDER_WARMUP  |-> "RECORDING",
              RECORDING        |-> "FEATURE_FREEZE",
              FEATURE_FREEZE   |-> "EVALUATION",
              EVALUATION       |-> "ELIGIBILITY_LOCK",
              ELIGIBILITY_LOCK |-> "EXECUTION",
              EXECUTION        |-> "MONITORING",
              MONITORING       |-> "FLATTENING"]

At(h, pc) == run[h].pc = pc
Goto(h, pc) == run' = [run EXCEPT ![h].pc = pc]

\* A call of _renew_leadership that returns to back.
CallRenew(h, back) == run' = [run EXCEPT ![h].pc = "renew", ![h].then = back]

\* It returns; the reading ts it confirmed is the started of _run_phase.
RenewReturns(h, ts) ==
  run' = [run EXCEPT ![h].pc = run[h].then, ![h].then = "none",
                     ![h].started = IF run[h].then = "call" THEN ts ELSE 0]

\* An exception inside the try block: it is left, the handlers start from "kill".
Raise(h) == run' = [run EXCEPT ![h].pc = "kill", ![h].then = "none",
                               ![h].stage = "PREFLIGHT", ![h].path = "error"]

SessionInit ==
  /\ LeaseInit
  /\ run = [h \in Holder |-> NoRun]
  /\ latest = "none"
  /\ inactiveRow = FALSE
  /\ runs = 0
  /\ entries = 0

-----------------------------------------------------------------------------
(* The kill-switch table: rows are keyed by the hash of the state and read *)
(* by descending insertion time.                                           *)

\* Broken variant: the inactive state is saved under a new key every time.
SaveInactiveAnew == latest' = "inactive" /\ inactiveRow' = TRUE

\* Saving the inactive state, whose hash is the same every time: on conflict
\* nothing is done.
SaveInactive ==
  /\ latest' = IF inactiveRow THEN latest ELSE "inactive"
  /\ inactiveRow' = TRUE

\* Saving an active state; its hash covers the time and is always new.
SaveActive == latest' = "active" /\ UNCHANGED inactiveRow

-----------------------------------------------------------------------------
(* _renew_leadership, called from four places of run.                      *)

\* Recent enough: no round trip.
RenewCached(h, ts) ==
  /\ At(h, "renew")
  /\ CachedCheck(h, ts)
  /\ RenewReturns(h, ts)
  /\ UNCHANGED <<leaseVars, latest, inactiveRow, runs, entries>>

\* The update of the row is committed; its audit event comes next.
RenewRow(h, ts) ==
  /\ At(h, "renew")
  /\ Renew(h, ts)
  /\ Goto(h, "renewed")
  /\ UNCHANGED <<latest, inactiveRow, runs, entries>>

RenewAudited(h) ==
  /\ At(h, "renewed")
  /\ Audit(h)
  /\ RenewReturns(h, asked[h].renewed)
  /\ UNCHANGED <<latest, inactiveRow, runs, entries>>

\* The update matched no row ("leadership lost"), or the database fails.
RenewRaises(h, ts) ==
  /\ At(h, "renew")
  /\ ~ CachedCheck(h, ts)
  /\ ~ MayRenew(h, ts) \/ "database" \in Faulty
  /\ Raise(h)
  /\ UNCHANGED <<leaseVars, latest, inactiveRow, runs, entries>>

\* The audit event of acquire or renew cannot be written.
AuditFails(h) ==
  /\ run[h].pc \in {"granted", "renewed"}
  /\ "database" \in Faulty
  /\ AuditRaises(h)
  /\ Raise(h)
  /\ UNCHANGED <<latest, inactiveRow, runs, entries>>

-----------------------------------------------------------------------------
(* run, up to the leadership decision.                                     *)

Begin(h) ==
  /\ run[h].pc \in {"idle", "done"}
  /\ runs < MaxRuns
  /\ runs' = runs + 1
  /\ run' = [run EXCEPT ![h] = [NoRun EXCEPT !.pc = "read",
                                           !.stopped = latest = "active" /\ inactiveRow]]
  /\ UNCHANGED <<leaseVars, latest, inactiveRow, entries>>

\* Broken variant: keeps the flag of the state instead of the state.
ReadSwitchFlag(h) ==
  /\ At(h, "read")
  /\ run' = [run EXCEPT ![h].seen = IF latest = "active" THEN "on" ELSE "off",
                        ![h].pc = IF latest = "none" THEN "init" ELSE "acquire"]
  /\ UNCHANGED <<leaseVars, latest, inactiveRow, runs, entries>>

\* get_latest_kill_switch
ReadSwitch(h) ==
  /\ At(h, "read")
  /\ run' = [run EXCEPT ![h].seen = latest,
                        ![h].pc = IF latest = "none" THEN "init" ELSE "acquire"]
  /\ UNCHANGED <<leaseVars, latest, inactiveRow, runs, entries>>

\* The switch read above was None: save the inactive state.
InitSwitch(h) ==
  /\ At(h, "init")
  /\ SaveInactive
  /\ run' = [run EXCEPT ![h].seen = "inactive", ![h].pc = "acquire"]
  /\ UNCHANGED <<leaseVars, runs, entries>>

AcquireLeadership(h, ts) ==
  /\ At(h, "acquire")
  /\ Acquire(h, ts)
  /\ Goto(h, "granted")
  /\ UNCHANGED <<latest, inactiveRow, runs, entries>>

AcquireAudited(h) ==
  /\ At(h, "granted")
  /\ Audit(h)
  /\ Goto(h, "acquired")
  /\ UNCHANGED <<latest, inactiveRow, runs, entries>>

\* LeadershipUnavailable
AcquireDenied(h, ts) ==
  /\ At(h, "acquire")
  /\ ~ MayAcquire(ts)
  /\ run' = [run EXCEPT ![h].pc = "alert", ![h].path = "denied", ![h].outcome = "BLOCKED"]
  /\ UNCHANGED <<leaseVars, latest, inactiveRow, runs, entries>>

AcquireRaises(h) ==
  /\ At(h, "acquire")
  /\ "database" \in Faulty
  /\ Raise(h)
  /\ UNCHANGED <<leaseVars, latest, inactiveRow, runs, entries>>

\* Broken variant: the lease is enough.
CheckSwitchIgnored(h) ==
  /\ At(h, "acquired")
  /\ CallRenew(h, "probe")
  /\ UNCHANGED <<leaseVars, latest, inactiveRow, runs, entries>>

\* The phase record LEADERSHIP_ACQUIRED, then the check of the switch that was
\* read before the lease was acquired; _preflight begins with the renewal.
CheckSwitch(h) ==
  /\ At(h, "acquired")
  /\ IF run[h].seen = "active"
       THEN run' = [run EXCEPT ![h].pc = "alert", ![h].path = "persistent",
                               ![h].outcome = "KILLED"]
       ELSE CallRenew(h, "probe")
  /\ UNCHANGED <<leaseVars, latest, inactiveRow, runs, entries>>

CheckSwitchRaises(h) ==
  /\ At(h, "acquired")
  /\ "database" \in Faulty
  /\ Raise(h)
  /\ UNCHANGED <<leaseVars, latest, inactiveRow, runs, entries>>

-----------------------------------------------------------------------------
(* The timed stages.                                                       *)

\* _preflight after the renewal: probe, phase record.
Preflight(h) ==
  /\ At(h, "probe")
  /\ run' = [run EXCEPT ![h].pc = "wait", ![h].stage = Following[run[h].stage]]
  /\ UNCHANGED <<leaseVars, latest, inactiveRow, runs, entries>>

\* The probe reports a kill reason or raises, or the phase record cannot be written.
PreflightRaises(h) ==
  /\ At(h, "probe")
  /\ Faulty \cap {"health", "database"} # {}
  /\ Raise(h)
  /\ UNCHANGED <<leaseVars, latest, inactiveRow, runs, entries>>

\* _wait_until: the time has come.  MONITORING follows EXECUTION at once; the
\* lock stage is a second preflight, FLATTENING no hook at all.
WaitOver(h) ==
  /\ At(h, "wait")
  /\ run[h].stage # "MONITORING" => Clock(h) >= PlanAt[run[h].stage]
  /\ CASE run[h].stage = "ELIGIBILITY_LOCK" -> CallRenew(h, "probe")
       [] run[h].stage = "EXECUTION" -> Goto(h, "cutoff")
       [] run[h].stage = "FLATTENING" -> Goto(h, "flatten")
       [] OTHER -> CallRenew(h, "call")
  /\ UNCHANGED <<leaseVars, latest, inactiveRow, runs, entries>>

\* _wait_until: not yet.  Sleep, then renew.
WaitSleep(h) ==
  /\ At(h, "wait")
  /\ run[h].stage # "MONITORING"
  /\ Clock(h) < PlanAt[run[h].stage]
  /\ CallRenew(h, "wait")
  /\ UNCHANGED <<leaseVars, latest, inactiveRow, runs, entries>>

\* New entries have a cutoff, looked at before _run_phase.
CheckEntryCutoff(h) ==
  /\ At(h, "cutoff")
  /\ IF Clock(h) > EntryCutoff THEN Raise(h) ELSE CallRenew(h, "call")
  /\ UNCHANGED <<leaseVars, latest, inactiveRow, runs, entries>>

\* _run_phase calls the hook.
StartHook(h) ==
  /\ At(h, "call")
  /\ run' = [run EXCEPT ![h].pc = "hook", ![h].started = 0]
  /\ entries' = IF run[h].stage = "EXECUTION" THEN entries + 1 ELSE entries
  /\ UNCHANGED <<leaseVars, latest, inactiveRow, runs>>

\* The hook returned: renew again.
HookReturns(h) ==
  /\ At(h, "hook")
  /\ CallRenew(h, "ended")
  /\ UNCHANGED <<leaseVars, latest, inactiveRow, runs, entries>>

HookRaises(h) ==
  /\ At(h, "hook")
  /\ "hook" \in Faulty
  /\ Raise(h)
  /\ UNCHANGED <<leaseVars, latest, inactiveRow, runs, entries>>

\* Broken variant: only the entry cutoff is enforced.
CutoffMissedEntryOnly(h) == run[h].stage = "EXECUTION" /\ Clock(h) > EntryCutoff

\* The cutoff that is checked after the hook of a stage returned.
CutoffMissed(h) ==
  \/ run[h].stage = "EVALUATION" /\ Clock(h) > EvalCutoff
  \/ run[h].stage = "EXECUTION" /\ Clock(h) > EntryCutoff

\* The phase record, the cutoff, the next stage.  After MONITORING the outcome is
\* set first, then kill_switch_required of the execution raises.
EndPhase(h) ==
  /\ At(h, "ended")
  /\ ~ CutoffMissed(h)
  /\ \/ run' = [run EXCEPT ![h].pc = "wait", ![h].stage = Following[run[h].stage],
                           ![h].outcome = IF run[h].stage = "MONITORING"
                                          THEN "COMPLETED" ELSE @]
     \/ /\ run[h].stage = "EVALUATION"
        /\ \E o \in {"BLOCKED", "NO_SETUPS"} :
             run' = [run EXCEPT ![h].pc = "wait", ![h].stage = "FLATTENING", ![h].outcome = o]
     \/ /\ run[h].stage = "MONITORING"
        /\ run' = [run EXCEPT ![h].pc = "kill", ![h].stage = "PREFLIGHT",
                              ![h].path = "error", ![h].outcome = "COMPLETED"]
  /\ UNCHANGED <<leaseVars, latest, inactiveRow, runs, entries>>

\* The record cannot be written, the cutoff has passed, or what the hook returned
\* does not validate.
EndPhaseRaises(h) ==
  /\ At(h, "ended")
  /\ Faulty \cap {"hook", "database"} # {} \/ CutoffMissed(h)
  /\ Raise(h)
  /\ UNCHANGED <<leaseVars, latest, inactiveRow, runs, entries>>

-----------------------------------------------------------------------------
(* The handlers, the flatten and the end.                                  *)

\* Broken variant: the activated state is reported and not saved.
ActivateSwitchUnsaved(h) ==
  /\ At(h, "kill")
  /\ Goto(h, "alert")
  /\ UNCHANGED <<leaseVars, latest, inactiveRow, runs, entries>>

\* except Exception: activate and save the kill switch.
ActivateSwitch(h) ==
  /\ At(h, "kill")
  /\ SaveActive
  /\ Goto(h, "alert")
  /\ UNCHANGED <<leaseVars, runs, entries>>

\* Saving fails inside the handler: the finally block runs, nothing else does.
ActivateSwitchRaises(h) ==
  /\ At(h, "kill")
  /\ "database" \in Faulty
  /\ Goto(h, "finish")
  /\ UNCHANGED <<leaseVars, latest, inactiveRow, runs, entries>>

\* Broken variant: a run that was refused its start is over after the alert.
AlertSentThenStop(h) ==
  /\ At(h, "alert")
  /\ run' = [run EXCEPT ![h].pc = IF run[h].path = "error" THEN "flatten" ELSE "finish",
                        ![h].outcome = CASE run[h].path = "error" -> "KILLED"
                                         [] run[h].path = "incomplete" -> "FLATTEN_INCOMPLETE"
                                         [] OTHER -> @]
  /\ UNCHANGED <<leaseVars, latest, inactiveRow, runs, entries>>

\* _emit_critical returns.
AlertSent(h) ==
  /\ At(h, "alert")
  /\ run' = [run EXCEPT ![h].pc = IF run[h].path \in {"error", "persistent"}
                                  THEN "flatten" ELSE "finish",
                        ![h].outcome = IF run[h].path = "error" THEN "KILLED"
                                       ELSE IF run[h].path = "incomplete"
                                            THEN "FLATTEN_INCOMPLETE" ELSE run[h].outcome]
  /\ UNCHANGED <<leaseVars, latest, inactiveRow, runs, entries>>

\* Broken variant: the general handler also handles the failure of its own alert.
AlertRaisesAgain(h) ==
  /\ At(h, "alert")
  /\ Faulty \cap {"alert", "database"} # {}
  /\ Raise(h)
  /\ UNCHANGED <<leaseVars, latest, inactiveRow, runs, entries>>

\* _emit_critical raises.  In a handler nothing catches it; in the try block
\* (the alert about an incomplete flatten) the general handler does.
AlertRaises(h) ==
  /\ At(h, "alert")
  /\ Faulty \cap {"alert", "database"} # {}
  /\ IF run[h].path = "incomplete" THEN Raise(h)
     ELSE run' = [run EXCEPT ![h].pc = "finish", ![h].unheard = TRUE]
  /\ UNCHANGED <<leaseVars, latest, inactiveRow, runs, entries>>

\* Broken variant: an incomplete mandatory flatten ends the run like a complete one.
FlattenEndsUnchecked(h, complete) ==
  /\ At(h, "flatten")
  /\ run' = [run EXCEPT ![h].pc = "finish",
                        ![h].flat = IF complete THEN "complete" ELSE "incomplete"]
  /\ UNCHANGED <<leaseVars, latest, inactiveRow, runs, entries>>

\* _run_flatten returns.  Only the mandatory flatten looks at the result: when
\* it is incomplete, the switch is activated and an alert is due.
FlattenEnds(h, complete) ==
  /\ At(h, "flatten")
  /\ IF run[h].path = "normal" /\ ~ complete
       THEN /\ SaveActive
            /\ run' = [run EXCEPT ![h].pc = "alert", ![h].path = "incomplete",
                                  ![h].flat = "incomplete"]
       ELSE /\ run' = [run EXCEPT ![h].pc = "finish",
                                  ![h].flat = IF complete THEN "complete" ELSE "incomplete"]
            /\ UNCHANGED <<latest, inactiveRow>>
  /\ UNCHANGED <<leaseVars, runs, entries>>

\* _run_flatten raises: caught in the handlers, an error in the try block.
\* There the result may be known already, when the record that follows fails.
FlattenRaises(h) ==
  /\ At(h, "flatten")
  /\ Faulty \cap {"flatten", "database"} # {}
  /\ \E f \in (IF run[h].flat = "none" THEN {"raised"} ELSE {run[h].flat}) \cup
            (IF run[h].path = "normal" /\ "database" \in Faulty
             THEN {"complete", "incomplete"} ELSE {}) :
       run' = [run EXCEPT ![h].pc = IF run[h].path = "normal" THEN "kill" ELSE "finish",
                          ![h].stage = "PREFLIGHT",
                          ![h].path = IF run[h].path = "normal" THEN "error" ELSE run[h].path,
                          ![h].flat = f]
  /\ UNCHANGED <<leaseVars, latest, inactiveRow, runs, entries>>

\* finally: release the lease if there is one and save the result.  Of the locals
\* only what the result says is left.
Finish(h, ts) ==
  /\ At(h, "finish")
  /\ IF HasLease(h) THEN Release(h, ts) ELSE UNCHANGED leaseVars
  /\ run' = [run EXCEPT ![h].pc = "done", ![h].stage = "PREFLIGHT", ![h].seen = "none"]
  /\ UNCHANGED <<latest, inactiveRow, runs, entries>>

\* The process dies, or a call outside the try block raises (the first reads of
\* run, the release and the saving of the result in finally): no result is saved.
Crash(h) ==
  /\ run[h].pc \notin {"idle", "done"}
  /\ run' = [run EXCEPT ![h] = NoRun]
  /\ \/ LeaseCrash(h)
     \/ ~ HasLease(h) /\ ~ Asking(h) /\ UNCHANGED leaseVars
     \/ At(h, "finish") /\ \E ts \in Readings(h) : Release(h, ts)
  /\ UNCHANGED <<latest, inactiveRow, runs, entries>>

\* paper-emergency-flatten: an operator activates the switch by hand.
OperatorKill ==
  /\ latest # "active"
  /\ SaveActive
  /\ UNCHANGED <<leaseVars, run, runs, entries>>

SessionTick == Tick /\ UNCHANGED sessionVars

\* The steps of a process that it takes on its own.
ProcessStep(h) ==
  \/ ReadSwitch(h) \/ InitSwitch(h) \/ AcquireAudited(h) \/ AcquireRaises(h)
  \/ CheckSwitch(h) \/ CheckSwitchRaises(h)
  \/ RenewAudited(h) \/ AuditFails(h)
  \/ Preflight(h) \/ PreflightRaises(h) \/ WaitOver(h) \/ WaitSleep(h)
  \/ CheckEntryCutoff(h) \/ StartHook(h) \/ HookReturns(h) \/ HookRaises(h)
  \/ EndPhase(h) \/ EndPhaseRaises(h)
  \/ ActivateSwitch(h) \/ ActivateSwitchRaises(h)
  \/ AlertSent(h) \/ AlertRaises(h) \/ FlattenRaises(h)
  \/ \E complete \in BOOLEAN : FlattenEnds(h, complete)
  \/ \E ts \in Readings(h) :
       \/ AcquireLeadership(h, ts) \/ AcquireDenied(h, ts)
       \/ RenewCached(h, ts) \/ RenewRow(h, ts) \/ RenewRaises(h, ts)
       \/ Finish(h, ts)

SessionNext ==
  \/ SessionTick
  \/ OperatorKill
  \/ \E h \in Holder : Begin(h) \/ Crash(h) \/ ProcessStep(h)

SessionSpec == SessionInit /\ [][SessionNext]_vars

\* Time passes, and a process that is scheduled makes progress: every call of
\* run is synchronous and its collaborators return or raise.
SessionFairSpec ==
  SessionSpec /\ WF_vars(SessionTick) /\ \A h \in Holder : WF_vars(ProcessStep(h))

-----------------------------------------------------------------------------
(* Properties.                                                             *)

\* Types of the locals of run and of the kill-switch table.
SessionTypeOK ==
  /\ LeaseTypeOK
  /\ run \in [Holder -> Run]
  /\ latest \in Switch
  /\ inactiveRow \in BOOLEAN
  /\ runs \in 0 .. MaxRuns
  /\ entries \in Nat

\* The durable stop: once an active kill-switch state is the latest one, no run
\* makes an inactive state the latest again ("It never resets automatically").
\* Not claimed by a run, TLC refutes it: an operator's activation between the two
\* transactions of a session's first run is overlaid, see the README, "Divergences".
KillSwitchSticky == [][latest = "active" => latest' = "active"]_vars

\* How long the check of the lease stays good: a hook that is called within
\* HookSlack of the reading started that was checked starts in the process whose
\* lease the row carries at that moment, also when _renew_leadership answered from
\* memory.  Later than that - the audit event took long, the process was suspended
\* - another process may have taken over, and nothing in run notices.
HookSlack == Ttl - RenewInterval - MaxSkew

HookStartsAsLeader ==
  [][\A h \in Holder :
       (run[h].pc # "hook" /\ run'[h].pc = "hook" /\ Clock(h) - run[h].started =< HookSlack)
         => row.holder = h /\ row.token = held[h].token /\ row.active]_vars

\* Once a session has its first kill-switch state, an activation stops every run
\* that begins later, although an older run may have read the empty table before
\* and save the inactive state only now: no hook starts in a run so stopped.
NoHookInStoppedRun == \A h \in Holder : run[h].stopped => ~ At(h, "hook")

\* A run that ends KILLED has tried to flatten, unless its own alert raised.
KilledRunFlattens ==
  \A h \in Holder :
    (At(h, "done") /\ run[h].outcome = "KILLED" /\ ~ run[h].unheard) => run[h].flat # "none"

\* A saved result that says COMPLETED or NO_SETUPS belongs to a run whose
\* flatten was complete: an exception on the way never leaves the outcome that
\* was set before it, unless the alert about it raised.
CleanResultIsFlat ==
  \A h \in Holder :
    (At(h, "done") /\ run[h].outcome \in {"COMPLETED", "NO_SETUPS"} /\ ~ run[h].unheard)
      => run[h].flat = "complete"

\* A run that had the session and ends without a complete flatten leaves the
\* kill switch active, so that the next run cannot trade on top of it, and that
\* holds when its alert raised, too.  (A run that only found the switch active
\* leaves it so if it began with the first state stored.)
UnsafeEndLeavesSwitch ==
  \A h \in Holder :
    (/\ At(h, "done") /\ run[h].flat # "complete"
     /\ run[h].path # "denied"
     /\ run[h].path = "persistent" => run[h].stopped)
      => latest = "active"

\* New entries are begun at most once in a session, however many processes are
\* started and whichever of them crash, lose the lease or call the hook long after
\* the check of it: a run that takes over after the entries began has to evaluate
\* again and misses evaluator_cutoff_at.
EntriesOnce == entries =< 1

\* Every call of run ends: it returns a result or its process dies.
RunsEnd ==
  \A h \in Holder : (run[h].pc \notin {"idle", "done"}) ~> (run[h].pc \in {"idle", "done"})

\* How a run ends, whichever call raised on the way: a killed run has flattened, a
\* clean result is flat, and whatever else happened leaves the switch active.
EndIsSafe == KilledRunFlattens /\ CleanResultIsFlat /\ UnsafeEndLeavesSwitch
=============================================================================
