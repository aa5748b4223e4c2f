----------------------------- MODULE Evaluator ------------------------------
(***************************************************************************)
(* One evaluation run: EvaluatorService (daybreak_evaluator/service.py),   *)
(* its provider call (transport.py) and its append-only tables             *)
(* (persistence.py and the constraints of migration 0003).  The primary    *)
(* path asks the provider at most MaxAttempts times before the cutoff; the *)
(* shadow path runs beside it once the primary result is there and         *)
(* authorizes nothing.  Several callers, in one process or in two, may     *)
(* evaluate the same run at the same time, each may die at any point, and  *)
(* each may then evaluate the run again.                                   *)
(*                                                                         *)
(* What the provider says is reduced to what becomes of it.  A call is     *)
(* cancelled at its deadline, but an answer that is already being handled  *)
(* may still complete up to Slack ticks later.                             *)
(***************************************************************************)
EXTENDS Integers, Sequences, FiniteSets

CONSTANTS Callers,         \* who evaluates the run
          MaxAttempts,     \* EvaluatorPolicy.max_attempts
          Cutoff,          \* response_cutoff_timestamp
          RequestTimeout,  \* request_timeout_seconds
          ShadowTimeout,   \* shadow_timeout_seconds
          Outputs,         \* the valid outputs a model may give
          Kinds,           \* what may become of an answer (a subset of Kind)
          Slack,           \* how late a completed answer may be after its deadline
          MaxTime,         \* bound of the model: the last tick
          MaxCalls         \* bound of the model: how often the run is evaluated

VARIABLES now,
          calls,        \* how many calls of evaluate_primary there were
          tooMany,      \* the request has more candidates than the hard maximum
          pc,           \* where the coroutine of each caller and of the shadow is
          callId,       \* which call of the service it is in
          number,       \* attempt_number of its request
          deadline,     \* when that request times out
          pending,      \* the attempt it has built and not yet saved
          answers,      \* the results the callers got
          attempts,     \* evaluator_attempts
          result,       \* the row of evaluator_results, or NoResult
          comparison    \* the row of evaluator_shadow_comparisons, or NoComparison

evaluatorVars == <<now, calls, tooMany, pc, callId, number, deadline, pending, answers,
                   attempts, result, comparison>>
tables == <<attempts, result, comparison>>

Role == {"primary", "shadow"}

\* The coroutines: evaluate_primary of each caller, and evaluate_shadow.
Task == Callers \cup {"shadow"}
RoleOf(t) == IF t = "shadow" THEN "shadow" ELSE "primary"

\* AttemptStatus, without the one nothing sets.
Failure == {"deadline_exceeded", "transport_error", "refused", "incomplete",
            "empty_output", "invalid_json", "schema_invalid", "invariant_invalid"}
Kind == Failure \cup {"succeeded"}
NoOutput == "no output"

EvaluatorPolicy ==
  /\ MaxAttempts \in 1 .. 2
  /\ RequestTimeout \in Nat \ {0} /\ ShadowTimeout \in Nat \ {0}

ASSUME EvaluatorAssumption ==
  /\ EvaluatorPolicy
  /\ "shadow" \notin Callers
  /\ Cutoff \in Nat \ {0}
  /\ Slack \in Nat /\ MaxTime \in Nat /\ MaxCalls \in Nat
  /\ Kinds \subseteq Kind

\* EvaluationAttempt.  The call a fresh attempt_id was made in tells it from the
\* attempts of other calls.
Attempt == [role : Role, number : 1 .. MaxAttempts, call : 1 .. MaxCalls,
            status : Failure \cup {"succeeded"}, received : Nat,
            output : Outputs \cup {NoOutput}]

\* EvaluationRunResult; selected is the call and number of the selected attempt.
Result == [status : {"primary_valid", "primary_invalid", "cutoff_missed", "input_rejected"},
           selected : {<<0, 0>>} \cup ((1 .. MaxCalls) \X (1 .. MaxAttempts)),
           output : Outputs \cup {NoOutput}, ready : Int]
NoResult == [status |-> "none"]

Unready(status) == [status |-> status, selected |-> <<0, 0>>, output |-> NoOutput, ready |-> -1]

NoComparison == [match |-> "none"]
NoPending    == [status |-> "none"]

EvaluatorInit ==
  /\ now = 0 /\ calls = 0 /\ tooMany \in BOOLEAN
  /\ pc = [t \in Task |-> "idle"]
  /\ callId = [t \in Task |-> 0] /\ number = [t \in Task |-> 0]
  /\ deadline = [t \in Task |-> 0] /\ pending = [t \in Task |-> NoPending]
  /\ answers = {}
  /\ attempts = {} /\ result = NoResult /\ comparison = NoComparison

-----------------------------------------------------------------------------
(* The tables.                                                             *)

\* Broken variant: only the caller's own attempts count.
AttemptConflictsOwn(a) ==
  \E b \in attempts : b.role = a.role /\ b.number = a.number /\ b.call = a.call

\* UNIQUE (run_id, role, attempt_number): the INSERT only forgives a conflict of
\* the attempt_id.
AttemptConflicts(a) == \E b \in attempts : b.role = a.role /\ b.number = a.number

\* ON CONFLICT (run_id) DO NOTHING.
ResultRow(r)     == IF result = NoResult THEN r ELSE result
ComparisonRow(c) == IF comparison = NoComparison THEN c ELSE comparison

-----------------------------------------------------------------------------
(* _call_once                                                              *)

\* response_received_at is only used of a primary attempt that succeeded.
Built(t, status, output) ==
  [role |-> RoleOf(t), number |-> number[t], call |-> callId[t], status |-> status,
   received |-> IF RoleOf(t) = "primary" /\ status = "succeeded" THEN now ELSE 0,
   output |-> output]

Go(t, place) == pc' = [pc EXCEPT ![t] = place]

\* The request is over and its attempt is to be saved.
Hand(t, attempt) ==
  /\ pending' = [pending EXCEPT ![t] = attempt]
  /\ deadline' = [deadline EXCEPT ![t] = 0]
  /\ Go(t, "saving")
  /\ UNCHANGED <<now, calls, tooMany, callId, number, answers, tables>>

\* The cutoff has passed before the call is made.
TooLateToAsk(t) ==
  /\ pc[t] = "asking" /\ RoleOf(t) = "primary" /\ Cutoff - now =< 0
  /\ Hand(t, Built(t, "deadline_exceeded", NoOutput))

TimeoutFor(t) ==
  IF RoleOf(t) = "primary"
  THEN IF Cutoff - now < RequestTimeout THEN Cutoff - now ELSE RequestTimeout
  ELSE ShadowTimeout

Ask(t) ==
  /\ pc[t] = "asking" /\ (RoleOf(t) = "primary" => Cutoff - now > 0)
  /\ deadline' = [deadline EXCEPT ![t] = now + TimeoutFor(t)]
  /\ Go(t, "waiting")
  /\ UNCHANGED <<now, calls, tooMany, callId, number, pending, answers, tables>>

\* Broken variant: only the primary call has a timeout.
TimesOutPrimary(t) ==
  /\ RoleOf(t) = "primary" /\ pc[t] = "waiting" /\ now >= deadline[t]
  /\ Hand(t, Built(t, "deadline_exceeded", NoOutput))

\* asyncio.timeout at the deadline of the call.
TimesOut(t) ==
  /\ pc[t] = "waiting" /\ now >= deadline[t]
  /\ Hand(t, Built(t, "deadline_exceeded", NoOutput))

\* Broken variant: does not look at the time a primary answer was completed at.
StatusOfAnswerAnyTime(t, kind) == kind

\* The checks on an answer, in their order; that of the cutoff comes first.
StatusOfAnswer(t, kind) ==
  IF RoleOf(t) = "primary" /\ now > Cutoff /\ kind # "transport_error"
  THEN "deadline_exceeded" ELSE kind

\* The provider answers, or the request to it fails; a TimeoutError that it raises by
\* itself, at any time, is kept apart from the other errors of a transport.
Answered(t, kind) ==
  /\ pc[t] = "waiting" /\ now =< deadline[t] + Slack
  /\ LET status == StatusOfAnswer(t, kind)
     IN  \E out \in IF status = "succeeded" THEN Outputs ELSE {NoOutput} :
           Hand(t, Built(t, status, out))

-----------------------------------------------------------------------------
(* _evaluate_role                                                          *)

\* Broken variant: any attempt that failed is repeated.
MayRetryAlways(t, a) == a.status # "succeeded" /\ a.number < MaxAttempts

\* Only a transport error is retried, and on the primary path only in time.
MayRetry(t, a) ==
  /\ a.status = "transport_error"
  /\ RoleOf(t) = "primary" => now < Cutoff
  /\ a.number < MaxAttempts

SaveAttempt(t) ==
  /\ pc[t] = "saving" /\ ~ AttemptConflicts(pending[t])
  /\ attempts' = attempts \cup {pending[t]}
  /\ IF MayRetry(t, pending[t])
     THEN /\ number' = [number EXCEPT ![t] = number[t] + 1]
          /\ pending' = [pending EXCEPT ![t] = NoPending]
          /\ Go(t, "asking")
     ELSE /\ Go(t, "concluding")
          /\ UNCHANGED <<number, pending>>
  /\ UNCHANGED <<now, calls, tooMany, callId, deadline, answers, result, comparison>>

Left(t) ==
  /\ pc' = [pc EXCEPT ![t] = "idle"]
  /\ callId' = [callId EXCEPT ![t] = 0]
  /\ number' = [number EXCEPT ![t] = 0]
  /\ deadline' = [deadline EXCEPT ![t] = 0]
  /\ pending' = [pending EXCEPT ![t] = NoPending]

\* The INSERT violates the constraint, or the database is lost: the exception
\* leaves the coroutine.
SaveRaises(t) ==
  /\ pc[t] \in {"saving", "concluding"}
  /\ Left(t)
  /\ UNCHANGED <<now, calls, tooMany, answers, tables>>

-----------------------------------------------------------------------------
(* evaluate_primary *)

\* save_request; whoever evaluates the run hands in the same request.
EvaluatePrimary(c) ==
  /\ pc[c] = "idle" /\ calls < MaxCalls
  /\ calls' = calls + 1
  /\ callId' = [callId EXCEPT ![c] = calls + 1]
  /\ number' = [number EXCEPT ![c] = 1]
  /\ Go(c, IF tooMany THEN "rejecting" ELSE "asking")
  /\ UNCHANGED <<now, tooMany, deadline, pending, answers, tables>>

\* Broken variant: only a valid result is stored.
ConcludeValidOnly(c, res) ==
  /\ result' = IF res.status = "primary_valid" THEN ResultRow(res) ELSE result
  /\ answers' = answers \cup {res}
  /\ Left(c)
  /\ UNCHANGED <<now, calls, tooMany, attempts, comparison>>

\* save_result, and the result is returned as it was built.
Conclude(c, res) ==
  /\ result' = ResultRow(res)
  /\ answers' = answers \cup {res}
  /\ Left(c)
  /\ UNCHANGED <<now, calls, tooMany, attempts, comparison>>

RejectInput(c) ==
  /\ pc[c] = "rejecting"
  /\ Conclude(c, Unready("input_rejected"))

\* The last attempt decides: an earlier one was a transport error.
ConcludePrimary(c) ==
  /\ pc[c] = "concluding"
  /\ LET a == pending[c]
     IN  Conclude(c, CASE a.status = "succeeded" ->
                         [status |-> "primary_valid", selected |-> <<a.call, a.number>>,
                          output |-> a.output, ready |-> a.received]
                    [] a.status = "deadline_exceeded" -> Unready("cutoff_missed")
                    [] OTHER -> Unready("primary_invalid"))

-----------------------------------------------------------------------------
(* evaluate_shadow *)

\* Scheduled with a primary result that has an output (evaluate_with_shadow,
\* spawn_shadow), or with the stored one of an earlier call.
EvaluateShadow ==
  /\ pc["shadow"] = "idle" /\ now < MaxTime
  /\ result # NoResult /\ result.output # NoOutput
  /\ callId' = [callId EXCEPT !["shadow"] = calls]
  /\ number' = [number EXCEPT !["shadow"] = 1]
  /\ Go("shadow", "asking")
  /\ UNCHANGED <<now, calls, tooMany, deadline, pending, answers, tables>>

\* Broken variant: compares whatever the shadow model came back with.
ConcludeShadowAnyway ==
  /\ pc["shadow"] = "concluding"
  /\ LET a == pending["shadow"]
     IN  comparison' = ComparisonRow([match |-> IF a.output = result.output
                                                THEN "exact" ELSE "different",
                                      primary |-> result.selected,
                                      shadow |-> <<a.call, a.number>>])
  /\ Left("shadow")
  /\ UNCHANGED <<now, calls, tooMany, answers, attempts, result>>

\* compare_outputs and save_comparison, if the shadow model gave a valid output.
ConcludeShadow ==
  /\ pc["shadow"] = "concluding"
  /\ LET a == pending["shadow"]
     IN  comparison' = IF a.status = "succeeded"
                       THEN ComparisonRow([match |-> IF a.output = result.output
                                                     THEN "exact" ELSE "different",
                                           primary |-> result.selected,
                                           shadow |-> <<a.call, a.number>>])
                       ELSE comparison
  /\ Left("shadow")
  /\ UNCHANGED <<now, calls, tooMany, answers, attempts, result>>

-----------------------------------------------------------------------------
\* The model's clock stops at MaxTime, but never before the deadline of a call.
Tick ==
  /\ now < MaxTime \/ \E t \in Task : pc[t] = "waiting" /\ now < deadline[t]
  /\ now' = now + 1
  /\ UNCHANGED <<calls, tooMany, pc, callId, number, deadline, pending, answers, tables>>

\* A process dies, and some or all of the coroutines with it.
Crash ==
  \E S \in SUBSET {t \in Task : pc[t] # "idle"} :
    /\ S # {}
    /\ pc' = [t \in Task |-> IF t \in S THEN "idle" ELSE pc[t]]
    /\ callId' = [t \in Task |-> IF t \in S THEN 0 ELSE callId[t]]
    /\ number' = [t \in Task |-> IF t \in S THEN 0 ELSE number[t]]
    /\ deadline' = [t \in Task |-> IF t \in S THEN 0 ELSE deadline[t]]
    /\ pending' = [t \in Task |-> IF t \in S THEN NoPending ELSE pending[t]]
    /\ UNCHANGED <<now, calls, tooMany, answers, tables>>

Conclusion(t) ==
  \/ t \in Callers /\ (RejectInput(t) \/ ConcludePrimary(t))
  \/ t = "shadow" /\ ConcludeShadow

Serve(t) == \/ TooLateToAsk(t) \/ Ask(t) \/ TimesOut(t)
            \/ SaveAttempt(t) \/ SaveRaises(t) \/ Conclusion(t)

EvaluatorNext ==
  \/ \E t \in Task : Serve(t)
  \/ \E t \in Task, kind \in Kinds : Answered(t, kind)
  \/ \E c \in Callers : EvaluatePrimary(c)
  \/ EvaluateShadow
  \/ Tick \/ Crash

EvaluatorSpec == EvaluatorInit /\ [][EvaluatorNext]_evaluatorVars

\* The event loop runs what is ready, the timeout of a call is armed with it,
\* and time passes.
EvaluatorFairSpec ==
  /\ EvaluatorSpec
  /\ WF_evaluatorVars(Tick)
  /\ \A t \in Task : WF_evaluatorVars(Serve(t))

-----------------------------------------------------------------------------
(* Properties.                                                             *)

\* The variables have their types.
EvaluatorTypeOK ==
  /\ now \in Nat /\ calls \in 0 .. MaxCalls
  /\ pc \in [Task -> {"idle", "rejecting", "asking", "waiting", "saving", "concluding"}]
  /\ attempts \subseteq Attempt
  /\ result # NoResult => result \in Result

\* A valid result rests on a stored primary attempt that succeeded, and its answer
\* was complete by the cutoff, although a retry may start just before the cutoff
\* and an answer may complete after the timeout that should have stopped it
\* (_call_once, evaluate_primary).
DecisionInTime ==
  \A res \in answers \cup (IF result = NoResult THEN {} ELSE {result}) :
    res.status = "primary_valid" =>
      /\ res.ready =< Cutoff
      /\ \E a \in attempts : /\ a.role = "primary" /\ a.status = "succeeded"
                             /\ <<a.call, a.number>> = res.selected
                             /\ a.output = res.output /\ a.received = res.ready

\* Whoever evaluates the run gets the result that is stored, even if another caller
\* is at it at the same time, or died half-way, and the provider answers differently
\* (save_result keeps the first row without comparing).
AnswersAgree == \A res \in answers : res = result

\* A stored semantic or timing failure is final: no other call of the run turns it
\* into a valid decision (_evaluate_role, "Semantic or timing failures fail closed").
FailuresAreFinal ==
  (\E a \in attempts : a.role = "primary" /\ a.status \in Failure \ {"transport_error"})
     => result.status # "primary_valid"

\* A stored comparison names two stored attempts that succeeded, the primary one
\* being the selected one, and says exact only if their outputs are the same
\* (evaluate_shadow).
ComparisonIsBacked ==
  comparison # NoComparison =>
    /\ comparison.primary = result.selected
    /\ \E p, s \in attempts :
         /\ p.role = "primary" /\ <<p.call, p.number>> = comparison.primary
         /\ s.role = "shadow" /\ <<s.call, s.number>> = comparison.shadow
         /\ p.status = "succeeded" /\ s.status = "succeeded"
         /\ (comparison.match = "exact") <=> (p.output = s.output)

\* A call of evaluate_primary or evaluate_shadow always comes to an end, whatever
\* the provider and the other callers do, so that its coroutine is idle again and
\* again: its timeout is bounded by the cutoff or the policy.
EvaluationEnds == \A t \in Task : []<>(pc[t] = "idle")

\* A run has one outcome: every caller gets the stored result, and a failure that
\* was stored is not evaluated away by a later call.
OutcomeIsFinal == AnswersAgree /\ FailuresAreFinal
=============================================================================
