-------------------------- MODULE ClosedLoopTrial --------------------------
(***************************************************************************)
(* A closed-loop trial with the real components: the loop of               *)
(* closed_loop/runner.py drives the Isaac backend and one of the policies  *)
(* under the budgets a live request may have.  ClosedLoopRunner has the    *)
(* runner in full with free components; here the question is whether the   *)
(* components accept each other's calls.                                   *)
(*                                                                         *)
(* With caller "anyone" the backend alone is called in any order, as its   *)
(* qualification and its tests do.                                         *)
(***************************************************************************)
EXTENDS IsaacBackend, Policies

VARIABLES
  caller,    \* "runner" or "anyone"
  spec,      \* the budgets of the run, whether the operator removes payloads
  pc,        \* where the runner is
  observed,  \* observation_count
  cycles,    \* control_cycle_count
  current,   \* the observation the next inference uses
  signal,    \* backend_signal
  cut,       \* requested_count: the actions taken of the plan
  outcome,   \* terminal status
  failed,    \* history: a component of this trial failed by itself
  entries    \* action_entries: the batches delivered

trialVars == <<caller, spec, pc, observed, cycles, current, signal, cut,
               outcome, failed, entries>>
vars == <<backendVars, policy, trialVars>>

Smaller(a, b) == IF a < b THEN a ELSE b

\* execution/contracts.py fixes the actions of a cycle per policy, loading.py
\* bounds the observations by the task horizon.
ExecSteps == PlanLen(policy.kind)
Specs(kind) ==
  {s \in [maxObs : 2..Horizon + 1, maxCycles : 1..Horizon + 1,
          absence : BOOLEAN] :
     s.maxCycles =< s.maxObs /\ PlanLen(kind) =< s.maxObs}

Init ==
  /\ BackendInit
  /\ \/ /\ caller = "runner"
        /\ \E kind \in Kinds : PolicyInit(kind) /\ spec \in Specs(kind)
     \/ /\ caller = "anyone"
        /\ PolicyInit("n0")
        /\ spec = [maxObs |-> Horizon + 1, maxCycles |-> 1, absence |-> FALSE]
  /\ pc = IF caller = "runner" THEN "preflight" ELSE "free"
  /\ observed = 0 /\ cycles = 0 /\ signal = "running" /\ cut = 0
  /\ current = [step |-> 0, present |-> TRUE]
  /\ outcome = "none" /\ failed = FALSE /\ entries = 0

At(here) == caller = "runner" /\ pc = here
Goto(there) == pc' = there

\* The delivery session removes payloads under a structural absence operator.
Present == IF spec.absence THEN BOOLEAN ELSE {TRUE}
Delivered(step) == {[step |-> step, present |-> p] : p \in Present}

Crash == pc' = "abort" /\ outcome' = "crash"

\* Mutant of Preflight: the operator is not held against the policy.
PreflightPasses ==
  /\ At("preflight")
  /\ Goto("reset") /\ UNCHANGED outcome
  /\ UNCHANGED <<backendVars, policy, caller, spec, observed, cycles, current,
                 signal, cut, failed, entries>>

\* Only a no-touch trial, which has no fault, runs a policy without tactile
\* input; a structural absence operator needs a policy that can do without.
Preflight ==
  /\ At("preflight")
  /\ \/ spec.absence /\ ~ConsumesTactile(policy.kind)
        /\ Goto("close") /\ outcome' = "raised"
     \/ spec.absence /\ ConsumesTactile(policy.kind)
        /\ ~SupportsAbsence(policy.kind)
        /\ Goto("close") /\ outcome' = "unsupported_contract"
     \/ ~spec.absence /\ Goto("reset") /\ UNCHANGED outcome
  /\ UNCHANGED <<backendVars, policy, caller, spec, observed, cycles, current,
                 signal, cut, failed, entries>>

\* The context is of the request that configured the backend, so it matches.
ResetBackend ==
  /\ At("reset")
  /\ \/ ResetReturns /\ Goto("policy_reset") /\ UNCHANGED <<outcome, failed>>
     \/ (ResetRefused(TRUE) \/ ResetFails)
        /\ Goto("close") /\ outcome' = "crash"
        /\ failed' = (failed \/ ~backend.attempted)
  /\ UNCHANGED <<policy, caller, spec, observed, cycles, current, signal, cut,
                 entries>>

ResetPolicy ==
  /\ At("policy_reset")
  /\ \/ PolicyResets /\ Goto("observe") /\ UNCHANGED <<outcome, failed>>
     \/ PolicyResetFails /\ Crash /\ failed' = TRUE
  /\ UNCHANGED <<backendVars, caller, spec, observed, cycles, current, signal,
                 cut, entries>>

Observe ==
  /\ At("observe")
  /\ \/ /\ ObserveReturns
        /\ Goto("loop") /\ observed' = 1 /\ current' \in Delivered(0)
        /\ UNCHANGED outcome
     \/ ObserveRefused /\ Crash /\ UNCHANGED <<observed, current>>
  /\ UNCHANGED <<policy, caller, spec, cycles, signal, cut, failed,
                 entries>>

\* The wall clock may run out before any cycle.
BudgetEnds ==
  /\ At("loop")
  /\ signal' = "timeout"
  /\ Goto("close") /\ outcome' = "timeout"
  /\ UNCHANGED <<backendVars, policy, caller, spec, observed, cycles, current,
                 cut, failed, entries>>

Infer ==
  /\ At("loop")
  /\ cycles < spec.maxCycles /\ observed < spec.maxObs
  /\ \/ PolicyInfers(current) /\ Goto("execute") /\ UNCHANGED <<outcome, failed>>
     \/ PolicyRefuses(current) /\ Crash /\ UNCHANGED failed
     \/ PolicyInferFails(current) /\ Crash /\ failed' = TRUE
  /\ UNCHANGED <<backendVars, caller, spec, observed, cycles, current, signal,
                 cut, entries>>

\* Mutant of Requested: the initial observation is not counted.
RequestedOneMore ==
  Smaller(ExecSteps, Smaller(spec.maxObs - observed + 1, policy.plan.len))

Requested ==
  Smaller(ExecSteps, Smaller(spec.maxObs - observed, policy.plan.len))

Execute ==
  /\ At("execute")
  /\ cycles' = cycles + 1
  /\ cut' = Requested
  /\ \/ ExecuteBegins(Requested) /\ Goto("rows") /\ UNCHANGED outcome
     \/ ExecuteRefused /\ Crash
  /\ UNCHANGED <<policy, caller, spec, observed, current, signal, failed,
                 entries>>

RunRow ==
  /\ At("rows")
  /\ \/ /\ RowReturns
        /\ Goto(IF rows' = 0 THEN "deliver" ELSE "rows")
        /\ UNCHANGED <<outcome, failed>>
     \/ RowRaises /\ Crash /\ failed' = TRUE
  /\ UNCHANGED <<policy, caller, spec, observed, cycles, current, signal, cut,
                 entries>>

\* validate_batch
BatchOK ==
  /\ Len(transitions) > 0 /\ Len(transitions) =< cut
  /\ Len(transitions) < cut => Last(transitions).signal # "running"
  /\ \A i \in DOMAIN transitions :
       /\ transitions[i].step = observed + i - 1
       /\ i < Len(transitions) => transitions[i].signal = "running"

\* A batch that passed is delivered, and committed as one execution.
Validated ==
  /\ observed' = observed + Len(transitions)
  /\ entries' = entries + 1
  /\ signal' = Last(transitions).signal
  /\ \E next \in Delivered(observed + Len(transitions) - 1) :
       LET execution == [plan |-> policy.plan, count |-> Len(transitions),
                         present |-> next.present, signal |-> signal']
       IN /\ current' = next
          /\ \/ /\ PolicyCommits(execution)
                /\ Goto(IF signal' = "running" THEN "loop" ELSE "close")
                /\ outcome' = IF signal' = "running" THEN outcome ELSE signal'
                /\ UNCHANGED failed
             \/ PolicyCommitRefused(execution) /\ Crash /\ UNCHANGED failed
             \/ N0CommitFails(execution) /\ Crash /\ failed' = TRUE

\* Validation, delivery and commit of one batch.
Commit ==
  /\ At("deliver")
  /\ IF BatchOK THEN Validated
     ELSE Crash /\ UNCHANGED <<policy, observed, current, signal, failed,
                               entries>>
  /\ UNCHANGED <<backendVars, caller, spec, cycles, cut>>

\* The crash path aborts the policy once its reset was entered.
AbortPolicy ==
  /\ At("abort")
  /\ PolicyAborts
  /\ Goto("close")
  /\ UNCHANGED <<backendVars, caller, spec, observed, cycles, current, signal,
                 cut, outcome, failed, entries>>

\* A failing close makes a crash of a normal result, and of no other.
AfterFailedClose ==
  IF outcome \in {"raised", "unsupported_contract"} THEN outcome ELSE "crash"

\* Mutant of Close: a backend that raises in close() keeps the policy open.
CloseInOrder ==
  /\ At("close")
  /\ BackendCloses
  /\ \/ PolicyCloses /\ UNCHANGED <<outcome, failed>>
     \/ UNCHANGED policy /\ outcome' = AfterFailedClose /\ failed' = TRUE
  /\ Goto("done")
  /\ UNCHANGED <<caller, spec, observed, cycles, current, signal, cut,
                 entries>>

\* _close_resources closes both whatever the first one does.  Only a policy
\* whose own close raises stays open.
Close ==
  /\ At("close")
  /\ BackendCloses
  /\ \/ PolicyCloses /\ Goto("done") /\ UNCHANGED <<outcome, failed>>
     \/ PolicyCloses /\ Goto("done")
        /\ outcome' = AfterFailedClose /\ failed' = TRUE
     \/ UNCHANGED policy /\ Goto("open_policy")
        /\ outcome' = AfterFailedClose /\ failed' = TRUE
  /\ UNCHANGED <<caller, spec, observed, cycles, current, signal, cut,
                 entries>>

\* Anyone may call the backend in any order.
CallBackend ==
  /\ caller = "anyone"
  /\ \/ rows = 0 /\ (ResetReturns \/ ResetFails
                     \/ (\E matches \in BOOLEAN : ResetRefused(matches))
                     \/ ObserveReturns \/ ObserveRefused \/ BackendCloses
                     \/ (\E n \in 1..ChunkLen : ExecuteBegins(n))
                     \/ ExecuteRefused)
     \/ RowReturns \/ RowRaises
  /\ UNCHANGED <<policy, trialVars>>

Next ==
  \/ Preflight \/ ResetBackend \/ ResetPolicy \/ Observe \/ BudgetEnds
  \/ Infer \/ Execute \/ RunRow \/ Commit
  \/ AbortPolicy \/ Close \/ CallBackend

Spec == Init /\ [][Next]_vars
-----------------------------------------------------------------------------
\* The budgets cut the last chunk of an N0 plan before the task's own horizon.
Unaligned == spec.maxObs =< Horizon /\ (spec.maxObs - 1) % ChunkLen # 0

\* The runner's calls are ones its components accept: as long as none of them
\* fails by itself, a trial crashes only when an N0 budget below the horizon
\* cuts a chunk (n0.py:220); the registered budget, horizon + 1, never does.
CrashHasCause ==
  outcome = "crash" => failed \/ (policy.kind = "n0" /\ Unaligned)

\* Between two cycles the policy has nothing pending, the N0 client expects the
\* step of the observation it will be given, and every action of the trial was
\* one step of the backend.
CycleBoundary ==
  At("loop") =>
    /\ policy.plan = NoPlan
    /\ policy.kind = "n0" => policy.client = "ready" /\ policy.next = current.step
    /\ current.step = observed - 1 /\ observed = Len(records)
    /\ backend.step = backend.count /\ observed =< spec.maxObs

\* After the trial the simulator was released exactly once, and neither a plan
\* nor the lease of an N0 server is held, whatever failed before; the one
\* exception is a policy whose own close raised.
NothingHeld ==
  /\ pc \in {"done", "open_policy"} => simulator.released = 1
  /\ At("done") => /\ policy.closed /\ policy.plan = NoPlan
                    /\ policy.client \in {"none", "closed"}
=============================================================================
