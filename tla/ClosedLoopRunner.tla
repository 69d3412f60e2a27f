-------------------------- MODULE ClosedLoopRunner --------------------------
(***************************************************************************)
(* One closed-loop trial (closed_loop/runner.py): preflight, reset, the    *)
(* observe - infer - execute - deliver - commit loop, validation, the      *)
(* crash path and the teardown, with the delivery session it feeds and the *)
(* result it builds.                                                       *)
(*                                                                         *)
(* Backend, policy and clock are the environment: each call returns what   *)
(* the interface allows or raises.  Records are counted, not looked into:  *)
(* a trace is its length, an action entry its source step and its length.  *)
(***************************************************************************)
EXTENDS Integers, FiniteSetsExt, SequencesExt

CONSTANTS
  MaxCycles, MaxObs, ExecSteps,  \* the ClosedLoopRunSpec budgets
  PlanLen,                       \* longest action plan a policy returns
  StopIndex,                     \* fault stop index = restoration index
  LastErasure                    \* last index an A2 manifest erases

ASSUME RunSpecAssumption ==
  /\ {MaxCycles, MaxObs, ExecSteps, PlanLen} \subseteq Nat \ {0}
  /\ ExecSteps =< MaxObs /\ MaxCycles =< MaxObs
  /\ StopIndex \in Nat /\ LastErasure \in Nat

VARIABLES
  trial,             \* what the manifests and the identities say
  pc, stage,         \* where the runner is; its local `stage`
  resetAttempted, policyEntered, primaryCrash, propagating,
  initialState,      \* a reset receipt was taken
  observationCount, cycleCount, entries, signal, current,
  plan, batch,       \* the plan in hand, the batch just executed
  session, final,    \* the delivery session and its finalization
  result, evidence,  \* the trial result and the captured snapshots
  backend, policy    \* the two components

flags    == <<resetAttempted, policyEntered, primaryCrash, propagating>>
progress == <<observationCount, cycleCount, entries, signal, current>>
outcome  == <<final, result, evidence>>
vars     == <<trial, pc, stage, flags, initialState, progress, plan, batch,
              session, outcome, backend, policy>>

-----------------------------------------------------------------------------
Signals    == {"running", "success", "task_failure", "early_stop", "timeout"}
Conditions == {"clean", "no_touch", "faulted", "restored"}
Operators  == {"none", "A1", "A2", "other"}
Verdicts   == {"none", "passed", "failed"}

Trials == [condition : Conditions, operator : Operators,
           absenceOK : BOOLEAN, identityOK : BOOLEAN, restOK : BOOLEAN]

\* preflight: a fault manifest exactly for the faulted conditions, and every
\* declared identity equal to the manifest's.
PreflightOK(t) ==
  t.identityOK /\ (t.operator # "none" <=> t.condition \in {"faulted", "restored"})

NoFinal  == [records |-> 0, verdict |-> "none"]
NoResult == [terminal |-> "none", execution |-> "none", eligible |-> FALSE,
             success |-> FALSE, verdict |-> "none", initial |-> FALSE,
             observations |-> 0, cycles |-> 0, actions |-> <<>>,
             stage |-> "none"]
NoPlan   == [source |-> 0, len |-> 0]
NoBatch  == [count |-> 0, signal |-> "running"]

Init ==
  /\ trial \in Trials
  /\ pc = "preflight" /\ stage = "preflight"
  /\ resetAttempted = FALSE /\ policyEntered = FALSE
  /\ primaryCrash = FALSE /\ propagating = FALSE /\ initialState = FALSE
  /\ observationCount = 0 /\ cycleCount = 0 /\ entries = <<>>
  /\ signal = "running" /\ current = 0
  /\ plan = NoPlan /\ batch = NoBatch
  /\ session = [clean |-> 0, delivered |-> 0, finalized |-> FALSE]
  /\ final = NoFinal /\ result = NoResult /\ evidence = <<>>
  /\ backend = [applied |-> 0, close |-> "open"]
  /\ policy = [state |-> "new", seen |-> 0, close |-> "open"]

-----------------------------------------------------------------------------
(* Building a result (result_hashes.py).                                   *)

Eligible(terminal) == terminal \notin {"unsupported_contract",
                                       "validator_rejected"}

Build(terminal, execution, verdict, failureStage) ==
  [terminal |-> terminal, execution |-> execution,
   eligible |-> Eligible(terminal), success |-> terminal = "success",
   verdict |-> verdict, initial |-> initialState,
   observations |-> observationCount, cycles |-> cycleCount,
   actions |-> entries, stage |-> failureStage]

\* Mutant of Raise: a preflight error becomes a crash result, too.
RaiseAlwaysCrashes(at) ==
  stage' = at /\ pc' = "crash" /\ UNCHANGED propagating

\* An exception in the try block.  Before the backend's reset is called it
\* leaves the runner, afterwards it becomes a crash result.
Raise(at) ==
  /\ stage' = at
  /\ IF resetAttempted \/ at = "reset"
     THEN pc' = "crash" /\ UNCHANGED propagating
     ELSE pc' = "close" /\ propagating' = TRUE

-----------------------------------------------------------------------------
Preflight ==
  /\ pc = "preflight"
  /\ PreflightOK(trial)
  /\ ~(trial.operator \in {"A1", "A2"} /\ ~trial.absenceOK)
  /\ pc' = "open"
  /\ UNCHANGED <<trial, stage, flags, initialState, progress, plan, batch,
                 session, outcome, backend, policy>>

PreflightRefuses ==
  /\ pc = "preflight"
  /\ ~PreflightOK(trial)
  /\ Raise("preflight")
  /\ UNCHANGED <<trial, resetAttempted, policyEntered, primaryCrash,
                 initialState, progress, plan, batch, session, outcome,
                 backend, policy>>

\* A structural absence the policy cannot take ends the trial unexecuted.
Unsupported ==
  /\ pc = "preflight"
  /\ PreflightOK(trial)
  /\ trial.operator \in {"A1", "A2"} /\ ~trial.absenceOK
  /\ result' = Build("unsupported_contract", "none", "none", "preflight")
  /\ evidence' = Append(evidence, result')
  /\ pc' = "close"
  /\ UNCHANGED <<trial, stage, flags, initialState, progress, plan, batch,
                 session, final, backend, policy>>

\* The fault session refuses missing or foreign rest references.
OpenSession ==
  /\ pc = "open"
  /\ IF trial.operator = "other" /\ ~trial.restOK
     THEN Raise("preflight")
     ELSE pc' = "reset" /\ UNCHANGED <<stage, propagating>>
  /\ UNCHANGED <<trial, resetAttempted, policyEntered, primaryCrash,
                 initialState, progress, plan, batch, session, outcome,
                 backend, policy>>

\* A receipt is kept even when validate_reset then refuses it.
BackendReset ==
  /\ pc = "reset"
  /\ resetAttempted' = TRUE
  /\ \/ initialState' = TRUE /\ stage' = "reset" /\ pc' = "policy_reset"
        /\ UNCHANGED propagating
     \/ initialState' \in BOOLEAN /\ Raise("reset")
  /\ UNCHANGED <<trial, policyEntered, primaryCrash, progress, plan, batch,
                 session, outcome, backend, policy>>

PolicyReset ==
  /\ pc = "policy_reset"
  /\ policyEntered' = TRUE
  /\ \/ policy' = [policy EXCEPT !.state = "ready"]
        /\ stage' = "policy_reset" /\ pc' = "observe" /\ UNCHANGED propagating
     \/ Raise("policy_reset") /\ UNCHANGED policy
  /\ UNCHANGED <<trial, resetAttempted, primaryCrash, initialState, progress,
                 plan, batch, session, outcome, backend>>

\* backend.observe and validate_clean_record
Observe ==
  /\ pc = "observe"
  /\ \/ stage' = "observe" /\ pc' = "first_delivery" /\ UNCHANGED propagating
     \/ Raise("observe")
  /\ UNCHANGED <<trial, resetAttempted, policyEntered, primaryCrash,
                 initialState, progress, plan, batch, session, outcome,
                 backend, policy>>

\* What n deliveries leave in the session when one of them fails: the failing
\* record was refused, or, with an operator, appended to the clean trace only.
PartialDelivery(n) ==
  {[clean     |-> session.clean + k + half,
    delivered |-> session.delivered + k,
    finalized |-> session.finalized] :
     k \in 0 .. n - 1, half \in IF trial.operator = "none" THEN {0} ELSE 0 .. 1}

FullDelivery(n) ==
  [clean     |-> session.clean + n,
   delivered |-> session.delivered + n,
   finalized |-> session.finalized]

DeliverFirst ==
  /\ pc = "first_delivery"
  /\ \/ /\ session' = FullDelivery(1)
        /\ observationCount' = 1
        /\ current' = 0
        /\ stage' = "delivery" /\ pc' = "loop"
        /\ UNCHANGED propagating
     \/ /\ session' \in PartialDelivery(1)
        /\ Raise("delivery")
        /\ UNCHANGED <<observationCount, current>>
  /\ UNCHANGED <<trial, resetAttempted, policyEntered, primaryCrash,
                 initialState, cycleCount, entries, signal, plan, batch,
                 outcome, backend, policy>>

-----------------------------------------------------------------------------
(* The loop.                                                               *)

BudgetSpent == cycleCount >= MaxCycles \/ observationCount >= MaxObs

\* The wall clock is read here and nowhere else, so it may end any cycle.
TimeUp ==
  /\ pc = "loop"
  /\ signal' = "timeout"
  /\ pc' = "validation"
  /\ UNCHANGED <<trial, stage, flags, initialState, observationCount,
                 cycleCount, entries, current, plan, batch, session, outcome,
                 backend, policy>>

NextCycle ==
  /\ pc = "loop"
  /\ IF BudgetSpent THEN signal' = "timeout" /\ pc' = "validation"
                    ELSE pc' = "infer" /\ UNCHANGED signal
  /\ UNCHANGED <<trial, stage, flags, initialState, observationCount,
                 cycleCount, entries, current, plan, batch, session, outcome,
                 backend, policy>>

\* A plan for another step than the current observation's is a violation.
Infer ==
  /\ pc = "infer"
  /\ \E len \in 1 .. PlanLen :
       /\ plan' = [source |-> current, len |-> len]
       /\ policy' = [policy EXCEPT !.state = "pending"]
  /\ stage' = "infer" /\ pc' = "execute"
  /\ UNCHANGED <<trial, flags, initialState, progress, batch, session,
                 outcome, backend>>

\* Mutant of InferFails: a failed inference is tried again.
InferRetried ==
  /\ pc = "infer"
  /\ stage' = "infer" /\ pc' = "loop"
  /\ UNCHANGED <<trial, flags, initialState, progress, plan, batch, session,
                 outcome, backend, policy>>

InferFails ==
  /\ pc = "infer"
  /\ policy' \in {[policy EXCEPT !.state = s] : s \in {"pending", "failed"}}
  /\ Raise("infer")
  /\ UNCHANGED <<trial, resetAttempted, policyEntered, primaryCrash,
                 initialState, progress, plan, batch, session, outcome,
                 backend>>

\* At least 1: the budgets were checked at the top of the cycle.
Requested == Min({ExecSteps, MaxObs - observationCount, plan.len})

\* The cycle is counted before the backend is called.  validate_batch takes a
\* whole running batch or one that its terminal transition ends.
Execute ==
  /\ pc = "execute"
  /\ cycleCount' = cycleCount + 1
  /\ \E n \in 1 .. Requested, s \in Signals :
       /\ n < Requested => s # "running"
       /\ batch' = [count |-> n, signal |-> s]
       /\ backend' = [backend EXCEPT !.applied = @ + n]
  /\ stage' = "execute" /\ pc' = "delivery"
  /\ UNCHANGED <<trial, flags, initialState, observationCount, entries,
                 signal, current, plan, session, outcome, policy>>

\* The backend raises in the middle of its batch, or validate_batch refuses.
ExecuteFails ==
  /\ pc = "execute"
  /\ cycleCount' = cycleCount + 1
  /\ \E n \in 0 .. Requested : backend' = [backend EXCEPT !.applied = @ + n]
  /\ Raise("execute")
  /\ UNCHANGED <<trial, resetAttempted, policyEntered, primaryCrash,
                 initialState, observationCount, entries, signal, current,
                 plan, batch, session, outcome, policy>>

\* Mutant of Deliver: the entry holds the whole plan, not its executed prefix.
DeliverWholePlan ==
  /\ pc = "delivery"
  /\ session' = FullDelivery(batch.count)
  /\ entries' = Append(entries, [source |-> plan.source, count |-> plan.len])
  /\ signal' = batch.signal
  /\ observationCount' = observationCount + batch.count
  /\ current' = session'.delivered - 1
  /\ stage' = "delivery" /\ pc' = "commit"
  /\ UNCHANGED <<trial, flags, initialState, cycleCount, plan, batch, outcome,
                 backend, policy>>

\* The action entry, the counts and the signal follow a complete delivery.
Deliver ==
  /\ pc = "delivery"
  /\ session' = FullDelivery(batch.count)
  /\ entries' = Append(entries, [source |-> plan.source, count |-> batch.count])
  /\ signal' = batch.signal
  /\ observationCount' = observationCount + batch.count
  /\ current' = session'.delivered - 1
  /\ stage' = "delivery" /\ pc' = "commit"
  /\ UNCHANGED <<trial, flags, initialState, cycleCount, plan, batch, outcome,
                 backend, policy>>

DeliverFails ==
  /\ pc = "delivery"
  /\ session' \in PartialDelivery(batch.count)
  /\ Raise("delivery")
  /\ UNCHANGED <<trial, resetAttempted, policyEntered, primaryCrash,
                 initialState, progress, plan, batch, outcome, backend,
                 policy>>

\* The policy receives the executed prefix and what was delivered after it.
Commit ==
  /\ pc = "commit"
  /\ policy' = [policy EXCEPT !.state = "ready", !.seen = @ + batch.count]
  /\ stage' = "commit"
  /\ pc' = IF signal = "running" THEN "loop" ELSE "validation"
  /\ UNCHANGED <<trial, flags, initialState, progress, plan, batch, session,
                 outcome, backend>>

CommitFails ==
  /\ pc = "commit"
  /\ Raise("commit")
  /\ UNCHANGED <<trial, resetAttempted, policyEntered, primaryCrash,
                 initialState, progress, plan, batch, session, outcome,
                 backend, policy>>

-----------------------------------------------------------------------------
(* Finalization, validation, the crash path and the teardown.              *)

\* session.finalize(): refused when already finalized, empty, or with traces
\* of different lengths.
Finalizable == ~session.finalized /\ session.clean > 0
               /\ session.clean = session.delivered

\* The validator's verdict on a trace.  An A2 trace must outlast its last
\* erasure; any other finding of validate_delivery is a free choice.
Verdict(records) ==
  IF trial.operator = "none" THEN {"passed"}
  ELSE IF trial.operator = "A2" /\ LastErasure >= records - 1 THEN {"failed"}
  ELSE {"passed", "failed"}

Finalizations == {[records |-> session.clean, verdict |-> v] :
                    v \in Verdict(session.clean)}

\* Mutant of RestorationUnseen: off by one at the restoration index.
RestorationAlmostUnseen(f) ==
  trial.condition = "restored" /\ StopIndex > f.records

RestorationUnseen(f) == trial.condition = "restored" /\ StopIndex >= f.records

Validate ==
  /\ pc = "validation"
  /\ Finalizable
  /\ final' \in Finalizations
  /\ session' = [session EXCEPT !.finalized = TRUE]
  /\ result' = IF final'.verdict = "failed" \/ RestorationUnseen(final')
               THEN Build("validator_rejected", signal, "failed", "validation")
               ELSE Build(signal, signal, final'.verdict, "none")
  /\ stage' = "validation" /\ pc' = "close"
  /\ UNCHANGED <<trial, flags, initialState, progress, plan, batch, evidence,
                 backend, policy>>

\* finalize or validate_delivery raises; or the result cannot be built once
\* the session is finalized.
ValidateFails ==
  /\ pc = "validation"
  /\ session' \in {[session EXCEPT !.finalized = f] : f \in BOOLEAN}
  /\ final' \in IF session'.finalized THEN Finalizations ELSE {final}
  /\ Raise("validation")
  /\ UNCHANGED <<trial, resetAttempted, policyEntered, primaryCrash,
                 initialState, progress, plan, batch, result, evidence,
                 backend, policy>>

\* except Exception: abort the policy, finalize what there is, record a crash.
Crash ==
  /\ pc = "crash"
  /\ primaryCrash' = TRUE
  /\ policy' = IF policyEntered THEN [policy EXCEPT !.state = "aborted"]
                                ELSE policy
  /\ \/ Finalizable /\ final' \in Finalizations
        /\ session' = [session EXCEPT !.finalized = TRUE]
     \/ final' = NoFinal /\ UNCHANGED session
  /\ result' = Build("crash", "crash", final'.verdict, stage)
  /\ evidence' = Append(evidence, result')
  /\ pc' = "close"
  /\ UNCHANGED <<trial, stage, resetAttempted, policyEntered, propagating,
                 initialState, progress, plan, batch, backend>>

\* KeyboardInterrupt is no Exception: no crash result, the teardown still runs.
Interrupt ==
  /\ pc \notin {"close", "done", "raised"}
  /\ propagating' = TRUE
  /\ pc' = "close"
  /\ UNCHANGED <<trial, stage, resetAttempted, policyEntered, primaryCrash,
                 initialState, progress, plan, batch, session, outcome,
                 backend, policy>>

\* Mutant of Completed: a close failure replaces a crash result, too.
ResultExists == resetAttempted /\ ~propagating

\* There is a normal_result: the trial was run to its validation.
Completed == ~primaryCrash /\ resetAttempted /\ ~propagating

\* finally: both are closed, whatever either raises.  A close failure turns a
\* completed trial into a crash that keeps its execution and its verdict.
Close ==
  /\ pc = "close"
  /\ \E b, p \in {"closed", "failed"} :
       /\ backend' = [backend EXCEPT !.close = b]
       /\ policy' = [policy EXCEPT !.close = p, !.state = "closed"]
       /\ result' = IF Completed /\ "failed" \in {b, p}
                    THEN Build("crash", result.execution, result.verdict,
                               "close")
                    ELSE result
  /\ evidence' = IF Completed THEN Append(evidence, result') ELSE evidence
  /\ pc' = IF propagating THEN "raised" ELSE "done"
  /\ UNCHANGED <<trial, stage, flags, initialState, progress, plan, batch,
                 session, final>>

-----------------------------------------------------------------------------
Setup    == Preflight \/ PreflightRefuses \/ Unsupported \/ OpenSession
            \/ BackendReset \/ PolicyReset \/ Observe \/ DeliverFirst
Cycle    == TimeUp \/ NextCycle \/ Infer \/ InferFails \/ Execute
            \/ ExecuteFails \/ Deliver \/ DeliverFails \/ Commit \/ CommitFails
Teardown == Validate \/ ValidateFails \/ Crash \/ Close

Step == Setup \/ Cycle \/ Teardown
Next == Step \/ Interrupt

Spec     == Init /\ [][Next]_vars
FairSpec == Spec /\ WF_vars(Step)

-----------------------------------------------------------------------------
(* Properties.                                                             *)

Ended == pc \in {"done", "raised"}

\* results.py (_validate_semantics, _validate_reset_state) refuses a result
\* whose fields do not fit together.  The runner assembles results in four
\* places, two of them where a refusal would escape the crash path.
Coherent(r) ==
  /\ r.terminal \in Signals =>
       r.execution = r.terminal /\ r.verdict = "passed" /\ r.stage = "none"
  /\ r.terminal = "unsupported_contract" =>
       r.execution = "none" /\ r.verdict = "none" /\ ~r.initial
       /\ r.stage = "preflight"
  /\ r.terminal = "validator_rejected" =>
       r.execution # "none" /\ r.verdict = "failed" /\ r.stage = "validation"
  /\ r.terminal = "crash" =>
       /\ r.execution # "none"
       /\ r.stage \notin {"none", "preflight"}
       /\ r.stage # "reset" => r.initial
  /\ r.terminal \in Signals \cup {"validator_rejected"} => r.initial

\* No result the runner builds is refused by the result type: running is not
\* a terminal status, and every crash has a stage and, past the reset, the
\* state the trial started from.
ResultsCoherent ==
  result # NoResult => Coherent(result) /\ result.terminal # "running"

\* Steps executed by the first n entries: the exporter's cumulative_executed,
\* which equals the source of entry n when it gets past that entry.
Executed(actions, n) ==
  IF n = 0 THEN 0 ELSE actions[n].source + actions[n].count

\* artifact_semantics.py: what the exporter requires of a result whose trace
\* was finalized.
Exportable(r, f) ==
  f # NoFinal =>
    /\ r.cycles =< MaxCycles /\ r.observations =< MaxObs
    /\ r.cycles = Len(r.actions)
    /\ r.observations = f.records
    /\ \A i \in DOMAIN r.actions :
         /\ r.actions[i].count =< ExecSteps
         /\ Executed(r.actions, i - 1) < f.records
         /\ r.actions[i].source = Executed(r.actions, i - 1)
    /\ r.observations = Executed(r.actions, Len(r.actions)) + 1

\* Counts, action trace and finalized trace tell one story, so the result can
\* be exported, unless the trial crashed while a cycle was being executed or
\* delivered.
CompleteCyclesExport ==
  result # NoResult /\ result.stage \notin {"execute", "delivery"} =>
    Exportable(result, final)

\* docs/benchmark_workflow.md:364: the production executor exports each trace.
EveryTrialExports == result # NoResult => Exportable(result, final)

\* A scored success was signalled by the backend, its trace passed the
\* validators, a restored trial saw its restoration, and the teardown worked.
SuccessIsEarned ==
  Ended /\ result.success =>
    /\ signal = "success" /\ entries # <<>>
    /\ final.verdict = "passed"
    /\ trial.condition = "restored" => final.records > StopIndex
    /\ {backend.close, policy.close} = {"closed"}

\* A close failure replaces a completed result once, by a crash that keeps
\* what was executed and how it was judged; it never masks a primary crash
\* (tests/test_closed_loop_runner.py:462).
CloseKeepsVerdict ==
  [][result # NoResult /\ result' # result =>
       /\ result.terminal \in Signals \cup {"validator_rejected"}
       /\ result' = [result EXCEPT !.terminal = "crash", !.stage = "close",
                                   !.eligible = TRUE, !.success = FALSE]]_vars

\* Every trial ends when every call returns or raises: each cycle spends
\* budget, and no failure path leads back into the loop.
TrialEnds == <>Ended
=============================================================================
