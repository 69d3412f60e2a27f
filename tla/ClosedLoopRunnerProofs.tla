----------------------- MODULE ClosedLoopRunnerProofs -----------------------
(**************************************************************************)
(* Proofs about ClosedLoopRunner, for every budget, plan length, stop     *)
(* index and erasure: every result the runner builds fits together, a     *)
(* scored success was earned, a failing teardown only downgrades, and the *)
(* counts of a result explain its trace unless a cycle was cut short.     *)
(*                                                                        *)
(* None of the four is inductive. Whether a result fits depends on what   *)
(* the program counter says of the reset, of the initial state and of the *)
(* signal long before the result is built, which Phases keeps; whether a  *)
(* success was earned depends on the signal having come with an executed  *)
(* batch and on a result existing only where no exception is on its way;  *)
(* whether the counts explain the trace depends on each entry having      *)
(* started where the entries before it ended.                             *)
(**************************************************************************)
EXTENDS ClosedLoopRunner, TLAPS

Entries  == [source : Int, count : Int]
Sessions == [clean : Nat, delivered : Nat, finalized : BOOLEAN]
Finals   == [records : Nat, verdict : Verdicts]
Closes   == {"open", "closed", "failed"}
PolicyStates == {"new", "ready", "pending", "failed", "aborted", "closed"}
Backends == [applied : Int, close : Closes]
Servers  == [state : PolicyStates, seen : Int, close : Closes]

Typed ==
  /\ trial \in Trials
  /\ resetAttempted \in BOOLEAN /\ policyEntered \in BOOLEAN
  /\ primaryCrash \in BOOLEAN /\ propagating \in BOOLEAN
  /\ initialState \in BOOLEAN
  /\ observationCount \in Nat /\ current \in Int
  /\ entries \in Seq(Entries)
  /\ signal \in Signals
  /\ plan \in [source : Int, len : Int]
  /\ batch \in [count : Nat, signal : Signals]
  /\ session \in Sessions
  /\ final \in Finals
  /\ backend \in Backends /\ policy \in Servers

Before == {"preflight", "open", "reset"}
Within == {"policy_reset", "observe", "first_delivery", "loop", "infer",
           "execute", "delivery", "commit", "validation"}
After  == {"close", "done", "raised"}

\* What being at a program counter says of the trial's past.
Phases ==
  /\ pc \in Before \cup Within \cup After \cup {"crash"}
  /\ pc \in Before => ~resetAttempted /\ ~initialState
  /\ pc \in Within => resetAttempted /\ initialState
  /\ pc = "crash" =>
       /\ resetAttempted
       /\ stage \notin {"none", "preflight"}
       /\ stage # "reset" => initialState
  /\ pc \notin After => ~primaryCrash /\ ~propagating /\ result = NoResult
  /\ pc = "validation" => signal # "running"
  /\ pc = "raised" => propagating
  /\ signal \notin {"running", "timeout"} => entries # <<>>

\* The result in hand is one the runner's present counts build.
Built ==
  result # NoResult =>
    /\ pc \in After /\ ~propagating
    /\ result = Build(result.terminal, result.execution, result.verdict,
                      result.stage)
    /\ Coherent(result) /\ result.terminal # "running"

\* Where the teardown may replace the result, there is a completed one.
Replaceable ==
  pc = "close" /\ Completed =>
    /\ result # NoResult
    /\ result.terminal \in Signals \cup {"validator_rejected"}

\* What a success stands on, before and after the teardown.
Earned ==
  result # NoResult /\ result.terminal = "success" =>
    /\ ~primaryCrash /\ resetAttempted
    /\ signal = "success"
    /\ final.verdict = "passed"
    /\ trial.condition = "restored" => final.records > StopIndex
    /\ pc # "close" => {backend.close, policy.close} = {"closed"}

IInv == Typed /\ Phases /\ Built /\ Replaceable /\ Earned

-----------------------------------------------------------------------------
\* The requested batch length is a number, one of the three it is the least of.
LEMMA RequestedIsInt == ASSUME Typed PROVE Requested \in Int
<1> DEFINE a == ExecSteps
           b == MaxObs - observationCount
           c == plan.len
<1>1. a \in Int /\ b \in Int /\ c \in Int
  BY RunSpecAssumption DEF Typed
<1> HIDE DEF a, b, c
<1>2. \E m \in {a, b, c} : \A y \in {a, b, c} : m =< y
  BY <1>1
<1>3. Min({a, b, c}) \in {a, b, c}
  BY <1>2 DEF Min
<1> QED BY <1>1, <1>3 DEF Requested, a, b, c

\* What a failed delivery leaves is a session.
LEMMA PartialIsSession ==
  ASSUME Typed, NEW n \in Nat, NEW s \in PartialDelivery(n)
  PROVE s \in Sessions
<1> DEFINE Halves == IF trial.operator = "none" THEN {0} ELSE 0 .. 1
<1>1. Halves \subseteq Nat
  OBVIOUS
<1>2. PICK k \in 0 .. n - 1, half \in Halves :
        s = [clean     |-> session.clean + k + half,
             delivered |-> session.delivered + k,
             finalized |-> session.finalized]
  BY DEF PartialDelivery
<1> HIDE DEF Halves
<1> QED BY <1>1, <1>2 DEF Typed, Sessions

\* What a delivery of a batch leaves is a session.
LEMMA FullIsSession ==
  ASSUME Typed, NEW n \in Nat PROVE FullDelivery(n) \in Sessions
BY DEF FullDelivery, Typed, Sessions

\* A finalization counts the clean records and passes or fails.
LEMMA FinalizationIsFinal ==
  ASSUME Typed, NEW f \in Finalizations
  PROVE /\ f \in Finals
        /\ f.verdict \in {"passed", "failed"}
<1>1. Verdict(session.clean) \subseteq {"passed", "failed"}
  BY DEF Verdict
<1>2. PICK v \in Verdict(session.clean) :
        f = [records |-> session.clean, verdict |-> v]
  BY DEF Finalizations
<1> QED BY <1>1, <1>2 DEF Typed, Sessions, Finals, Verdicts

-----------------------------------------------------------------------------
\* A trial starts inside the invariant.
LEMMA InitInv == Init => IInv
<1> SUFFICES ASSUME Init PROVE IInv
  OBVIOUS
<1>1. Typed
  <2>1. entries \in Seq(Entries)
    BY DEF Init
  <2>2. /\ plan \in [source : Int, len : Int]
        /\ batch \in [count : Nat, signal : Signals]
        /\ session \in Sessions
        /\ final \in Finals
        /\ backend \in Backends /\ policy \in Servers
    BY DEF Init, NoPlan, NoBatch, NoFinal, Signals, Verdicts, Sessions, Finals,
           Closes, PolicyStates, Backends, Servers
  <2>3. signal \in Signals /\ observationCount \in Nat /\ current \in Int
    BY DEF Init, Signals
  <2> QED BY <2>1, <2>2, <2>3 DEF Init, Typed
<1>2. Phases /\ Built /\ Earned
  BY DEF Init, Phases, Built, Earned, Before, Within, After
<1>3. Replaceable
  BY DEF Init, Replaceable
<1> QED BY <1>1, <1>2, <1>3 DEF IInv

\* While the trial has no result, its types and its phase are the invariant.
LEMMA Unfinished ==
  ASSUME Typed', Phases', result' = NoResult, pc' = "close" => propagating'
  PROVE  IInv'
BY DEF IInv, Built, Replaceable, Earned, Completed

-----------------------------------------------------------------------------
(* Every action keeps the invariant.                                       *)

\* The preflight passes: nothing but the program counter moves.
LEMMA PreflightInv == ASSUME IInv, Preflight PROVE IInv'
<1>1. Typed'
  BY DEF IInv, Typed, Preflight, flags, progress, outcome
<1>2. Phases' /\ result' = NoResult /\ (pc' = "close" => propagating')
  BY DEF IInv, Phases, Before, Within, After, Preflight, flags, progress, outcome
<1> QED BY <1>1, <1>2, Unfinished

\* A refused preflight leaves the runner: no reset was attempted.
LEMMA PreflightRefusesInv == ASSUME IInv, PreflightRefuses PROVE IInv'
<1>1. Typed'
  BY DEF IInv, Typed, PreflightRefuses, Raise, flags, progress, outcome
<1>2. Phases' /\ result' = NoResult /\ (pc' = "close" => propagating')
  BY DEF IInv, Phases, Before, Within, After, PreflightRefuses, Raise, flags, progress, outcome
<1> QED BY <1>1, <1>2, Unfinished

\* So does a refused session.
LEMMA OpenSessionInv == ASSUME IInv, OpenSession PROVE IInv'
<1>1. Typed'
  BY DEF IInv, Typed, OpenSession, Raise, flags, progress, outcome
<1>2. Phases' /\ result' = NoResult /\ (pc' = "close" => propagating')
  BY DEF IInv, Phases, Before, Within, After, OpenSession, Raise, flags, progress, outcome
<1> QED BY <1>1, <1>2, Unfinished

\* The reset is attempted; without a receipt the crash stage is the reset's.
LEMMA BackendResetInv == ASSUME IInv, BackendReset PROVE IInv'
<1>1. Typed'
  BY DEF IInv, Typed, BackendReset, Raise, flags, progress, outcome
<1>2. Phases' /\ result' = NoResult /\ (pc' = "close" => propagating')
  BY DEF IInv, Phases, Before, Within, After, BackendReset, Raise, flags, progress, outcome
<1> QED BY <1>1, <1>2, Unfinished

\* The policy is ready, or the trial crashes past its reset.
LEMMA PolicyResetInv == ASSUME IInv, PolicyReset PROVE IInv'
<1>1. Typed'
  BY DEF IInv, Typed, PolicyReset, Raise, Servers, PolicyStates, flags, progress, outcome
<1>2. Phases' /\ result' = NoResult /\ (pc' = "close" => propagating')
  BY DEF IInv, Phases, Before, Within, After, PolicyReset, Raise, Servers, PolicyStates,
         flags, progress, outcome
<1> QED BY <1>1, <1>2, Unfinished

\* Observing moves nothing but the stage.
LEMMA ObserveInv == ASSUME IInv, Observe PROVE IInv'
<1>1. Typed'
  BY DEF IInv, Typed, Observe, Raise, flags, progress, outcome
<1>2. Phases' /\ result' = NoResult /\ (pc' = "close" => propagating')
  BY DEF IInv, Phases, Before, Within, After, Observe, Raise, flags, progress, outcome
<1> QED BY <1>1, <1>2, Unfinished

\* The first delivery opens the loop or crashes with what it left.
LEMMA DeliverFirstInv == ASSUME IInv, DeliverFirst PROVE IInv'
<1>1. Typed'
  <2>1. Typed /\ 1 \in Nat
    BY DEF IInv
  <2>2. session' \in Sessions /\ observationCount' \in Nat /\ current' \in Int
    <3>1. FullDelivery(1) \in Sessions
      BY <2>1, FullIsSession
    <3>2. \A s \in PartialDelivery(1) : s \in Sessions
      BY <2>1, PartialIsSession
    <3>3. observationCount \in Nat /\ current \in Int
      BY <2>1 DEF Typed
    <3> QED BY <3>1, <3>2, <3>3 DEF DeliverFirst
  <2> QED BY <2>1, <2>2 DEF Typed, DeliverFirst, Raise, outcome
<1>2. Phases' /\ result' = NoResult /\ (pc' = "close" => propagating')
  BY DEF IInv, Phases, Before, Within, After, DeliverFirst, Raise, flags, progress, outcome
<1> QED BY <1>1, <1>2, Unfinished

\* The clock ends the loop with a signal that is not running.
LEMMA TimeUpInv == ASSUME IInv, TimeUp PROVE IInv'
<1>1. Typed'
  BY DEF IInv, Typed, TimeUp, Signals, flags, progress, outcome
<1>2. Phases' /\ result' = NoResult /\ (pc' = "close" => propagating')
  BY DEF IInv, Phases, Before, Within, After, TimeUp, Signals, flags, progress, outcome
<1> QED BY <1>1, <1>2, Unfinished

\* So does a spent budget; otherwise the cycle starts.
LEMMA NextCycleInv == ASSUME IInv, NextCycle PROVE IInv'
<1>1. Typed'
  BY DEF IInv, Typed, NextCycle, Signals, flags, progress, outcome
<1>2. Phases' /\ result' = NoResult /\ (pc' = "close" => propagating')
  BY DEF IInv, Phases, Before, Within, After, NextCycle, Signals, flags, progress, outcome
<1> QED BY <1>1, <1>2, Unfinished

\* The plan in hand is one of the policy's.
LEMMA InferInv == ASSUME IInv, Infer PROVE IInv'
<1>1. Typed'
  <2>1. Typed
    BY DEF IInv
  <2>2. policy' \in Servers
    <3>1. policy' = [policy EXCEPT !.state = "pending"]
      BY DEF Infer
    <3> QED BY <2>1, <3>1 DEF Typed, Servers, PolicyStates
  <2>3. plan' \in [source : Int, len : Int]
    <3>1. PICK len \in 1 .. PlanLen : plan' = [source |-> current, len |-> len]
      BY DEF Infer
    <3> QED BY <2>1, <3>1 DEF Typed
  <2> QED BY <2>1, <2>2, <2>3 DEF Typed, Infer, flags, progress, outcome
<1>2. Phases' /\ result' = NoResult /\ (pc' = "close" => propagating')
  BY DEF IInv, Phases, Before, Within, After, Infer, Servers, PolicyStates, flags,
         progress, outcome
<1> QED BY <1>1, <1>2, Unfinished

\* A failed inference crashes.
LEMMA InferFailsInv == ASSUME IInv, InferFails PROVE IInv'
<1>1. Typed'
  <2>1. Typed
    BY DEF IInv
  <2>2. policy' \in Servers
    <3>1. PICK s \in {"pending", "failed"} : policy' = [policy EXCEPT !.state = s]
      BY DEF InferFails
    <3> QED BY <2>1, <3>1 DEF Typed, Servers, PolicyStates
  <2>3. propagating' \in BOOLEAN
    BY <2>1 DEF Typed, InferFails, Raise
  <2> QED BY <2>1, <2>2, <2>3 DEF Typed, InferFails, progress, outcome
<1>2. Phases' /\ result' = NoResult /\ (pc' = "close" => propagating')
  BY DEF IInv, Phases, Before, Within, After, InferFails, Raise, Servers, PolicyStates,
         flags, progress, outcome
<1> QED BY <1>1, <1>2, Unfinished

\* The executed batch is no longer than requested.
LEMMA ExecuteInv == ASSUME IInv, Execute PROVE IInv'
<1>1. Typed'
  <2>1. Typed /\ Requested \in Int
    BY RequestedIsInt DEF IInv
  <2>2. PICK n \in 1 .. Requested, s \in Signals :
          /\ batch' = [count |-> n, signal |-> s]
          /\ backend' = [backend EXCEPT !.applied = @ + n]
    BY DEF Execute
  <2>3. batch' \in [count : Nat, signal : Signals]
    BY <2>1, <2>2
  <2>4. backend' \in Backends
    BY <2>1, <2>2 DEF Typed, Backends
  <2> QED BY <2>1, <2>3, <2>4 DEF Typed, Execute, flags, outcome
<1>2. Phases' /\ result' = NoResult /\ (pc' = "close" => propagating')
  BY DEF IInv, Phases, Before, Within, After, Execute, Backends, flags, progress, outcome
<1> QED BY <1>1, <1>2, Unfinished

\* A failed execution has moved the backend only.
LEMMA ExecuteFailsInv == ASSUME IInv, ExecuteFails PROVE IInv'
<1>1. Typed'
  <2>1. Typed /\ Requested \in Int
    BY RequestedIsInt DEF IInv
  <2>2. backend' \in Backends
    <3>1. PICK n \in 0 .. Requested :
            backend' = [backend EXCEPT !.applied = @ + n]
      BY DEF ExecuteFails
    <3> QED BY <2>1, <3>1 DEF Typed, Backends
  <2> QED BY <2>1, <2>2 DEF Typed, ExecuteFails, Raise, outcome
<1>2. Phases' /\ result' = NoResult /\ (pc' = "close" => propagating')
  BY DEF IInv, Phases, Before, Within, After, ExecuteFails, Raise, Backends, flags,
         progress, outcome
<1> QED BY <1>1, <1>2, Unfinished

\* The signal becomes the batch's together with its action entry.
LEMMA DeliverInv == ASSUME IInv, Deliver PROVE IInv'
<1>1. Typed'
  <2>1. Typed /\ batch.count \in Nat /\ plan.source \in Int /\ batch.signal \in Signals
    BY DEF IInv, Typed
  <2>2. session' \in Sessions
    BY <2>1, FullIsSession DEF Deliver
  <2>3. current' \in Int
    BY <2>2 DEF Deliver, Sessions
  <2>4. entries' \in Seq(Entries)
    BY <2>1 DEF Typed, Deliver, Entries
  <2>5. observationCount' \in Nat /\ signal' \in Signals
    BY <2>1 DEF Typed, Deliver
  <2> QED BY <2>1, <2>2, <2>3, <2>4, <2>5 DEF Typed, Deliver, flags, outcome
<1>2. Phases' /\ result' = NoResult /\ (pc' = "close" => propagating')
  BY DEF IInv, Phases, Before, Within, After, Deliver, Sessions, Entries, flags, progress, outcome
<1> QED BY <1>1, <1>2, Unfinished

\* A failed delivery leaves neither entry nor signal.
LEMMA DeliverFailsInv == ASSUME IInv, DeliverFails PROVE IInv'
<1>1. Typed'
  BY PartialIsSession DEF IInv, Typed, DeliverFails, Raise, flags, progress, outcome
<1>2. Phases' /\ result' = NoResult /\ (pc' = "close" => propagating')
  BY DEF IInv, Phases, Before, Within, After, DeliverFails, Raise, flags, progress, outcome
<1> QED BY <1>1, <1>2, Unfinished

\* Only a signal that is not running leads to the validation.
LEMMA CommitInv == ASSUME IInv, Commit PROVE IInv'
<1>1. Typed'
  <2>1. policy' \in Servers
    <3> DEFINE ready == [policy EXCEPT !.state = "ready"]
    <3>1. policy \in Servers /\ batch.count \in Nat
      BY DEF IInv, Typed
    <3>2. ready \in Servers
      BY <3>1 DEF Servers, PolicyStates
    <3>3. policy' = [ready EXCEPT !.seen = @ + batch.count]
      BY <3>1 DEF Commit, Servers
    <3> HIDE DEF ready
    <3> QED BY <3>1, <3>2, <3>3 DEF Servers
  <2> QED BY <2>1 DEF IInv, Typed, Commit, flags, progress, outcome
<1>2. Phases' /\ result' = NoResult /\ (pc' = "close" => propagating')
  BY DEF IInv, Phases, Before, Within, After, Commit, Servers, PolicyStates, flags,
         progress, outcome
<1> QED BY <1>1, <1>2, Unfinished

\* A failed commit crashes.
LEMMA CommitFailsInv == ASSUME IInv, CommitFails PROVE IInv'
<1>1. Typed'
  BY DEF IInv, Typed, CommitFails, Raise, flags, progress, outcome
<1>2. Phases' /\ result' = NoResult /\ (pc' = "close" => propagating')
  BY DEF IInv, Phases, Before, Within, After, CommitFails, Raise, flags, progress, outcome
<1> QED BY <1>1, <1>2, Unfinished

\* A failed validation crashes, whatever it finalized.
LEMMA ValidateFailsInv == ASSUME IInv, ValidateFails PROVE IInv'
<1>1. Typed'
  <2>1. Typed
    BY DEF IInv
  <2>2. session' \in Sessions
    <3>1. PICK f \in BOOLEAN : session' = [session EXCEPT !.finalized = f]
      BY DEF ValidateFails
    <3> QED BY <2>1, <3>1 DEF Typed, Sessions
  <2>3. final' \in Finals
    <3>1. final' \in Finalizations \/ final' = final
      BY DEF ValidateFails
    <3> QED BY <2>1, <3>1, FinalizationIsFinal DEF Typed
  <2>4. propagating' \in BOOLEAN
    BY <2>1 DEF Typed, ValidateFails, Raise
  <2> QED BY <2>1, <2>2, <2>3, <2>4 DEF Typed, ValidateFails, progress
<1>2. Phases' /\ result' = NoResult /\ (pc' = "close" => propagating')
  BY DEF IInv, Phases, Before, Within, After, ValidateFails, Raise, Sessions, flags,
         progress, outcome
<1> QED BY <1>1, <1>2, Unfinished

\* An interrupt is on its way out and leaves no result.
LEMMA InterruptInv == ASSUME IInv, Interrupt PROVE IInv'
<1>1. Typed'
  BY DEF IInv, Typed, Interrupt, flags, progress, outcome
<1>2. Phases' /\ result' = NoResult /\ (pc' = "close" => propagating')
  BY DEF IInv, Phases, Before, Within, After, Interrupt, flags, progress, outcome
<1> QED BY <1>1, <1>2, Unfinished

\* An unsupported trial has its unexecuted result before any reset.
LEMMA UnsupportedInv == ASSUME IInv, Unsupported PROVE IInv'
<1>1. Typed' /\ Phases'
  BY DEF IInv, Typed, Phases, Before, Within, After, Unsupported, flags, progress
<1>2. /\ result' = Build("unsupported_contract", "none", "none", "preflight")
      /\ pc' = "close" /\ ~initialState /\ ~propagating /\ ~resetAttempted
      /\ UNCHANGED <<initialState, propagating, resetAttempted, observationCount,
                     cycleCount, entries>>
  BY DEF IInv, Phases, Before, After, Unsupported, flags, progress
<1>3. Built'
  BY <1>2 DEF Built, Build, Coherent, Signals, After
<1>4. Replaceable' /\ Earned'
  BY <1>2 DEF Replaceable, Completed, Earned, Build
<1> QED BY <1>1, <1>3, <1>4 DEF IInv

\* Validation ends a trial with the backend's signal or with a rejection.
LEMMA ValidateInv == ASSUME IInv, Validate PROVE IInv'
<1>1. /\ final' \in Finals /\ final'.verdict \in {"passed", "failed"}
  BY FinalizationIsFinal DEF IInv, Validate
<1>2. /\ UNCHANGED <<trial, initialState, propagating, resetAttempted,
                     primaryCrash, observationCount, cycleCount, entries, signal,
                     plan, batch, current, policyEntered, backend, policy>>
      /\ pc' = "close" /\ initialState /\ ~propagating /\ ~primaryCrash
      /\ resetAttempted /\ signal \in Signals /\ signal # "running"
  BY DEF IInv, Typed, Phases, Within, After, Validate, flags, progress
<1>3. Typed'
  <2>1. session' \in Sessions
    BY DEF IInv, Typed, Validate, Sessions
  <2> QED BY <1>1, <1>2, <2>1 DEF IInv, Typed
<1>4. Phases'
  BY <1>2 DEF IInv, Phases, Before, Within, After
<1>5. CASE final'.verdict = "failed" \/ RestorationUnseen(final')
  <2>1. result' = Build("validator_rejected", signal, "failed", "validation")
    BY <1>5 DEF Validate
  <2>2. Built'
    BY <1>2, <2>1 DEF Built, Build, Coherent, Signals, After, NoResult
  <2>3. Replaceable' /\ Earned'
    BY <1>2, <2>1 DEF Replaceable, Earned, Build, NoResult
  <2> QED BY <1>3, <1>4, <2>2, <2>3 DEF IInv
<1>6. CASE ~(final'.verdict = "failed" \/ RestorationUnseen(final'))
  <2>1. result' = Build(signal, signal, final'.verdict, "none")
    BY <1>6 DEF Validate
  <2>2. final'.verdict = "passed"
    BY <1>1, <1>6
  <2>3. trial.condition = "restored" => final'.records > StopIndex
    BY <1>1, <1>6, RunSpecAssumption DEF RestorationUnseen, Finals
  <2>4. Built'
    BY <1>2, <2>1, <2>2 DEF Built, Build, Coherent, Signals, After, NoResult
  <2>5. Replaceable'
    BY <1>2, <2>1 DEF Replaceable, Build, NoResult, Signals
  <2>6. Earned'
    BY <1>2, <2>1, <2>2, <2>3 DEF Earned, Build
  <2> QED BY <1>3, <1>4, <2>4, <2>5, <2>6 DEF IInv
<1> QED BY <1>5, <1>6

\* A crash result names its stage and, past the reset, has the initial state.
LEMMA CrashInv == ASSUME IInv, Crash PROVE IInv'
<1>1. final' \in Finals
  BY FinalizationIsFinal DEF IInv, Crash, NoFinal, Finals, Verdicts
<1>2. /\ UNCHANGED <<trial, initialState, propagating, resetAttempted,
                     observationCount, cycleCount, entries, signal, plan, batch,
                     current, policyEntered, backend, stage>>
      /\ pc' = "close" /\ primaryCrash' = TRUE /\ ~propagating /\ resetAttempted
      /\ stage \notin {"none", "preflight"}
      /\ stage # "reset" => initialState
      /\ result' = Build("crash", "crash", final'.verdict, stage)
  BY DEF IInv, Typed, Phases, After, Crash, progress
<1>3. Typed'
  <2>1. session' \in Sessions /\ policy' \in Servers
    BY DEF IInv, Typed, Crash, Sessions, Servers, PolicyStates
  <2> QED BY <1>1, <1>2, <2>1 DEF IInv, Typed
<1>4. Phases'
  BY <1>2 DEF IInv, Phases, Before, Within, After
<1>5. Built'
  BY <1>2 DEF Built, Build, Coherent, Signals, After
<1>6. Replaceable' /\ Earned'
  BY <1>2 DEF Replaceable, Completed, Earned, Build
<1> QED BY <1>3, <1>4, <1>5, <1>6 DEF IInv

-----------------------------------------------------------------------------
\* What the teardown does to the result, and to nothing else of the trial.
LEMMA CloseEffect ==
  ASSUME IInv, Close
  PROVE  /\ pc = "close" /\ pc' = IF propagating THEN "raised" ELSE "done"
         /\ UNCHANGED <<trial, initialState, propagating, resetAttempted,
                        primaryCrash, policyEntered, observationCount, cycleCount,
                        entries, signal, plan, batch, current, session, final,
                        stage>>
         /\ backend' \in Backends /\ policy' \in Servers
         /\ \/ /\ Completed
               /\ result' = Build("crash", result.execution, result.verdict,
                                  "close")
            \/ /\ result' = result
               /\ Completed => {backend'.close, policy'.close} = {"closed"}
<1>1. PICK b \in {"closed", "failed"}, p \in {"closed", "failed"} :
        /\ backend' = [backend EXCEPT !.close = b]
        /\ policy' = [policy EXCEPT !.close = p, !.state = "closed"]
        /\ result' = IF Completed /\ "failed" \in {b, p}
                     THEN Build("crash", result.execution, result.verdict,
                                "close")
                     ELSE result
  BY DEF Close
<1>2. backend' \in Backends /\ backend'.close = b
  BY <1>1 DEF IInv, Typed, Backends, Closes
<1>3. policy' \in Servers /\ policy'.close = p
  BY <1>1 DEF IInv, Typed, Servers, Closes, PolicyStates
<1>4. CASE Completed /\ "failed" \in {b, p}
  BY <1>1, <1>2, <1>3, <1>4 DEF Close, flags, progress
<1>5. CASE ~(Completed /\ "failed" \in {b, p})
  <2>1. result' = result
    BY <1>1, <1>5
  <2>2. Completed => b = "closed" /\ p = "closed"
    BY <1>5
  <2> QED BY <2>1, <2>2, <1>2, <1>3 DEF Close, flags, progress
<1> QED BY <1>4, <1>5

\* The teardown keeps a result or turns a completed one into a crash.
LEMMA CloseInv == ASSUME IInv, Close PROVE IInv'
<1>1. Typed'
  BY CloseEffect DEF IInv, Typed
<1>2. Phases'
  BY CloseEffect DEF IInv, Phases, Before, Within, After
<1>3. Replaceable'
  BY CloseEffect DEF Replaceable
<1>4. CASE /\ Completed
           /\ result' = Build("crash", result.execution, result.verdict, "close")
  <2>1. /\ result.terminal \in Signals \cup {"validator_rejected"}
        /\ Coherent(result) /\ initialState /\ ~propagating
    BY <1>4, CloseEffect DEF IInv, Replaceable, Built, Build, Coherent
  <2>2. result.execution # "none"
    BY <2>1 DEF Coherent, Signals
  <2>3. Built'
    BY <1>4, <2>1, <2>2, CloseEffect DEF Built, Build, Coherent, Signals, After
  <2>4. Earned'
    BY <1>4 DEF Earned, Build
  <2> QED BY <1>1, <1>2, <1>3, <2>3, <2>4 DEF IInv
<1>5. CASE /\ result' = result
           /\ Completed => {backend'.close, policy'.close} = {"closed"}
  <2>1. Built'
    BY <1>5, CloseEffect DEF IInv, Built, Build, After
  <2>2. Earned'
    BY <1>5, CloseEffect DEF IInv, Earned, Built, Completed
  <2> QED BY <1>1, <1>2, <1>3, <2>1, <2>2 DEF IInv
<1> QED BY <1>4, <1>5, CloseEffect

\* A stuttering step keeps everything the invariant reads.
LEMMA StutterInv == ASSUME IInv, UNCHANGED vars PROVE IInv'
<1>1. Typed' /\ Phases'
  BY DEF IInv, Typed, Phases, vars, flags, progress, outcome
<1>2. Built' /\ Replaceable' /\ Earned'
  BY DEF IInv, Built, Build, Replaceable, Earned, Completed, vars, flags,
         progress, outcome
<1> QED BY <1>1, <1>2 DEF IInv

\* Every step keeps the invariant.
LEMMA NextInv == IInv /\ [Next]_vars => IInv'
<1> SUFFICES ASSUME IInv, [Next]_vars PROVE IInv'
  OBVIOUS
<1>1. CASE Setup
  BY <1>1, PreflightInv, PreflightRefusesInv, UnsupportedInv, OpenSessionInv,
     BackendResetInv, PolicyResetInv, ObserveInv, DeliverFirstInv DEF Setup
<1>2. CASE Cycle
  BY <1>2, TimeUpInv, NextCycleInv, InferInv, InferFailsInv, ExecuteInv,
     ExecuteFailsInv, DeliverInv, DeliverFailsInv, CommitInv, CommitFailsInv
     DEF Cycle
<1>3. CASE Teardown
  BY <1>3, ValidateInv, ValidateFailsInv, CrashInv, CloseInv DEF Teardown
<1>4. CASE Interrupt
  BY <1>4, InterruptInv
<1>5. CASE UNCHANGED vars
  BY <1>5, StutterInv
<1> QED BY <1>1, <1>2, <1>3, <1>4, <1>5 DEF Next, Step

-----------------------------------------------------------------------------
\* A result by its fields, the two that Build derives from the status included.
Filled(terminal, execution, verdict, failureStage, eligible, success) ==
  [terminal |-> terminal, execution |-> execution,
   eligible |-> eligible, success |-> success,
   verdict |-> verdict, initial |-> initialState,
   observations |-> observationCount, cycles |-> cycleCount,
   actions |-> entries, stage |-> failureStage]

\* A result turned into a crash of the teardown.
Downgrade(r) == [r EXCEPT !.terminal = "crash", !.stage = "close",
                          !.eligible = TRUE, !.success = FALSE]

\* A crash built from a result's execution and verdict is that result with
\* its status, stage, eligibility and success replaced.
LEMMA Downgraded ==
  ASSUME NEW t, NEW x, NEW v, NEW s, NEW q, q = Build(t, x, v, s)
  PROVE  Build("crash", x, v, "close") = Downgrade(q)
<1> DEFINE a == Eligible(t)
           b == (t = "success")
           r == Filled(t, x, v, s, a, b)
<1>1. q = r
  BY DEF Build, Filled
<1>2. Build("crash", x, v, "close") = Filled("crash", x, v, "close", TRUE, FALSE)
  <2>1. Eligible("crash") = TRUE /\ ("crash" = "success") = FALSE
    BY DEF Eligible
  <2> QED BY <2>1 DEF Build, Filled
<1> HIDE DEF a, b
<1>3. ASSUME NEW y, NEW z
      PROVE  [r EXCEPT !.terminal = "crash", !.stage = "close", !.eligible = y,
                       !.success = z]
               = Filled("crash", x, v, "close", y, z)
  <2>1. [r EXCEPT !.terminal = "crash"] = Filled("crash", x, v, s, a, b)
    BY DEF Filled
  <2>2. [Filled("crash", x, v, s, a, b) EXCEPT !.stage = "close"]
          = Filled("crash", x, v, "close", a, b)
    BY DEF Filled
  <2>3. [Filled("crash", x, v, "close", a, b) EXCEPT !.eligible = y]
          = Filled("crash", x, v, "close", y, b)
    BY DEF Filled
  <2>4. [Filled("crash", x, v, "close", y, b) EXCEPT !.success = z]
          = Filled("crash", x, v, "close", y, z)
    BY DEF Filled
  <2>5. [r EXCEPT !.terminal = "crash", !.stage = "close", !.eligible = y,
                  !.success = z]
          = [[[[r EXCEPT !.terminal = "crash"] EXCEPT !.stage = "close"]
                EXCEPT !.eligible = y] EXCEPT !.success = z]
    BY DEF Filled
  <2> QED BY <2>1, <2>2, <2>3, <2>4, <2>5
<1> QED BY <1>1, <1>2, <1>3 DEF Downgrade

-----------------------------------------------------------------------------
\* The inductive invariant holds in every reachable state.
THEOREM Invariance == Spec => []IInv
<1> QED BY InitInv, NextInv, PTL DEF Spec

\* No result any of the runner's four places builds is refused by the result
\* type (results.py, _validate_semantics and _validate_reset_state).
THEOREM ResultsFit == Spec => []ResultsCoherent
<1>1. IInv => ResultsCoherent
  BY DEF IInv, Built, ResultsCoherent
<1> QED BY <1>1, Invariance, PTL

\* A scored success was signalled with an executed batch, passed the
\* validators, saw its restoration when it had to, and closed cleanly.
THEOREM SuccessStands == Spec => []SuccessIsEarned
<1>1. IInv => SuccessIsEarned
  <2> SUFFICES ASSUME IInv, Ended, result.success PROVE SuccessIsEarned
    BY DEF SuccessIsEarned
  <2>1. result # NoResult
    BY DEF NoResult
  <2>2. result.terminal = "success"
    <3>1. result = Build(result.terminal, result.execution, result.verdict,
                         result.stage)
      BY <2>1 DEF IInv, Built
    <3>2. Build(result.terminal, result.execution, result.verdict,
                result.stage).success = (result.terminal = "success")
      BY DEF Build
    <3> QED BY <3>1, <3>2
  <2>3. Earned /\ pc # "close" /\ (signal = "success" => entries # <<>>)
    BY DEF IInv, Ended, Phases
  <2> QED BY <2>1, <2>2, <2>3 DEF Earned, SuccessIsEarned
<1> QED BY <1>1, Invariance, PTL

\* A close failure only downgrades a completed result; no other step replaces
\* a result at all (closed_loop/runner.py, the finally block).
THEOREM TeardownOnlyDowngrades == Spec => CloseKeepsVerdict
<1> DEFINE Kept == result # NoResult /\ result' # result =>
       /\ result.terminal \in Signals \cup {"validator_rejected"}
       /\ result' = [result EXCEPT !.terminal = "crash", !.stage = "close",
                                   !.eligible = TRUE, !.success = FALSE]
<1>1. ASSUME IInv, [Next]_vars, result # NoResult, result' # result PROVE Kept
  <2>1. pc \in After
    BY <1>1 DEF IInv, Built
  <2>2. Close
    BY <1>1, <2>1 DEF After, Next, Step, Setup, Cycle, Teardown, Preflight,
       PreflightRefuses, Unsupported, OpenSession, BackendReset, PolicyReset,
       Observe, DeliverFirst, TimeUp, NextCycle, Infer, InferFails, Execute,
       ExecuteFails, Deliver, DeliverFails, Commit, CommitFails, Validate,
       ValidateFails, Crash, Interrupt, vars, outcome
  <2>3. /\ Completed
        /\ result' = Build("crash", result.execution, result.verdict, "close")
        /\ pc = "close"
    BY <1>1, <2>2, CloseEffect
  <2>4. result.terminal \in Signals \cup {"validator_rejected"}
    BY <1>1, <2>3 DEF IInv, Replaceable
  <2>5. result = Build(result.terminal, result.execution, result.verdict,
                       result.stage)
    BY <1>1 DEF IInv, Built
  <2>6. Build("crash", result.execution, result.verdict, "close")
          = Downgrade(result)
    BY <2>5, Downgraded
  <2> QED BY <2>3, <2>4, <2>6 DEF Downgrade
<1>2. IInv /\ [Next]_vars => [Kept]_vars
  BY <1>1
<1>3. IInv /\ [Next]_vars => [result # NoResult /\ result' # result =>
       /\ result.terminal \in Signals \cup {"validator_rejected"}
       /\ result' = [result EXCEPT !.terminal = "crash", !.stage = "close",
                                   !.eligible = TRUE, !.success = FALSE]]_vars
  BY <1>2
<1> QED BY <1>3, Invariance, PTL DEF Spec, CloseKeepsVerdict

-----------------------------------------------------------------------------
(* The counts of the result, its action entries and its finalized trace.   *)

Looping    == {"loop", "infer", "execute", "delivery", "commit"}
Unbalanced == {"execute", "delivery"}

\* Each entry starts where the one before it ended, at a record that was
\* delivered before, and together they explain every record but the first.
Chained ==
  /\ \A i \in DOMAIN entries :
       /\ entries[i].count =< ExecSteps
       /\ entries[i].source = Executed(entries, i - 1)
       /\ entries[i].source < observationCount
  /\ observationCount = 0 => entries = <<>>
  /\ observationCount # 0 =>
       observationCount = Executed(entries, Len(entries)) + 1

\* No budget is overdrawn, and neither is spent where a cycle has started.
Bounded ==
  /\ cycleCount \in Nat
  /\ cycleCount =< MaxCycles /\ observationCount =< MaxObs
  /\ pc \in {"infer", "execute"} =>
       cycleCount < MaxCycles /\ observationCount < MaxObs

\* The session has what was counted.
Level == session.clean = observationCount /\ session.delivered = observationCount

\* The session and the cycles are counted together everywhere but between the
\* call of the backend and the end of its delivery.
Counted ==
  /\ pc \in Before \cup Within => Level /\ final = NoFinal
  /\ pc \in (Before \cup Within) \ {"delivery"} => cycleCount = Len(entries)
  /\ pc = "crash" /\ stage \notin Unbalanced => Level /\ cycleCount = Len(entries)
  /\ pc = "delivery" => cycleCount = Len(entries) + 1
  /\ pc \in Before \cup {"policy_reset", "observe", "first_delivery"} =>
       observationCount = 0
  /\ pc \in Looping => observationCount > 0 /\ current = observationCount - 1
  /\ pc \in {"execute", "delivery"} => plan.source = current
  /\ pc = "delivery" =>
       batch.count \in 1 .. ExecSteps /\ observationCount + batch.count =< MaxObs

Told == Chained /\ Bounded /\ Counted /\ CompleteCyclesExport

\* What is requested fits the budgets.
LEMMA RequestedFits ==
  ASSUME Typed PROVE Requested =< ExecSteps /\ Requested =< MaxObs - observationCount
<1> DEFINE a == ExecSteps
           b == MaxObs - observationCount
           c == plan.len
<1>1. a \in Int /\ b \in Int /\ c \in Int
  BY RunSpecAssumption DEF Typed
<1> HIDE DEF a, b, c
<1>2. \E m \in {a, b, c} : \A y \in {a, b, c} : m =< y
  BY <1>1
<1>3. \A y \in {a, b, c} : Min({a, b, c}) =< y
  BY <1>2 DEF Min
<1> QED BY <1>3 DEF Requested, a, b, c

\* A trial starts with nothing to tell.
LEMMA InitTold == Init => Told
<1> SUFFICES ASSUME Init PROVE Told
  OBVIOUS
<1>1. Chained
  BY DEF Init, Chained
<1>2. Bounded
  BY RunSpecAssumption DEF Init, Bounded
<1>3. Counted
  BY DEF Init, Counted, Level, Looping, Unbalanced, Before, Within
<1>4. CompleteCyclesExport
  BY DEF Init, CompleteCyclesExport
<1> QED BY <1>1, <1>2, <1>3, <1>4 DEF Told

\* Where neither the counts nor the entries move and there is no result yet,
\* only what the program counter claims is left to show.
LEMMA Uncounted ==
  ASSUME Told, UNCHANGED <<observationCount, entries, cycleCount>>,
         result' = NoResult, Counted',
         pc' \in {"infer", "execute"} => cycleCount < MaxCycles /\ observationCount < MaxObs
  PROVE  Told'
<1>1. Chained' /\ Bounded'
  BY DEF Told, Chained, Bounded
<1>2. CompleteCyclesExport'
  BY DEF CompleteCyclesExport
<1> QED BY <1>1, <1>2 DEF Told

\* The stages before the loop, with nothing counted yet.
LEMMA SetupTold ==
  ASSUME IInv, Told,
         Preflight \/ PreflightRefuses \/ OpenSession \/ BackendReset \/ PolicyReset
           \/ Observe
  PROVE  Told'
<1>1. UNCHANGED <<observationCount, entries, cycleCount, session, final>>
      /\ result' = NoResult /\ pc' \notin {"infer", "execute"}
  BY DEF IInv, Phases, After, Preflight, PreflightRefuses, OpenSession, BackendReset,
     PolicyReset, Observe, Raise, progress, outcome
<1>2. Counted'
  <2>1. pc \in Before \cup {"policy_reset", "observe"}
    BY DEF Before, Preflight, PreflightRefuses, OpenSession, BackendReset, PolicyReset,
       Observe
  <2>2. pc' \in Before \cup {"policy_reset", "observe", "first_delivery", "crash", "close"}
    BY DEF Before, Preflight, PreflightRefuses, OpenSession, BackendReset, PolicyReset,
       Observe, Raise
  <2>3. Level /\ final = NoFinal /\ cycleCount = Len(entries) /\ observationCount = 0
    BY <2>1 DEF Told, Counted, Before, Within
  <2> QED BY <1>1, <2>2, <2>3 DEF Counted, Level, Before, Within, Looping
<1> QED BY <1>1, <1>2, Uncounted

\* An unsupported contract has no finalized trace.
LEMMA UnsupportedTold == ASSUME IInv, Told, Unsupported PROVE Told'
<1>1. UNCHANGED <<observationCount, entries, cycleCount, session, final>>
      /\ pc = "preflight" /\ pc' = "close"
  BY DEF Unsupported, progress
<1>2. Chained' /\ Bounded' /\ Counted'
  BY <1>1 DEF Told, Chained, Bounded, Counted, Before, Within, Looping
<1>3. final' = NoFinal
  BY <1>1 DEF Told, Counted, Before
<1> QED BY <1>2, <1>3 DEF Told, CompleteCyclesExport, Exportable

\* The first delivery is counted with its record; a crash in it is excluded.
LEMMA DeliverFirstTold == ASSUME IInv, Told, DeliverFirst PROVE Told'
<1>1. /\ UNCHANGED <<entries, cycleCount, final>> /\ result' = NoResult
      /\ entries = <<>> /\ observationCount = 0 /\ Level /\ cycleCount = Len(entries)
      /\ final = NoFinal
  BY DEF IInv, Phases, After, Told, Chained, Counted, Within, DeliverFirst, outcome
<1>2. CASE pc' = "loop"
  <2>1. observationCount' = 1 /\ current' = 0 /\ session' = FullDelivery(1)
    BY <1>2, <1>1 DEF DeliverFirst, Raise
  <2>2. Chained'
    BY <1>1, <2>1 DEF Chained, Executed
  <2>3. Bounded'
    BY <1>1, <1>2, <2>1, RunSpecAssumption DEF Told, Bounded
  <2>4. Level'
    BY <1>1, <2>1 DEF Level, FullDelivery
  <2>5. Counted'
    BY <1>1, <1>2, <2>1, <2>4 DEF Counted, Before, Within, Looping
  <2>6. CompleteCyclesExport'
    BY <1>1 DEF CompleteCyclesExport
  <2> QED BY <2>2, <2>3, <2>5, <2>6 DEF Told
<1>3. CASE pc' # "loop"
  <2>1. Raise("delivery") /\ UNCHANGED observationCount
    BY <1>3 DEF DeliverFirst
  <2>2. Counted'
    BY <2>1 DEF Raise, Counted, Before, Within, Looping, Unbalanced
  <2> QED BY <1>1, <2>1, <2>2, Uncounted DEF Raise
<1> QED BY <1>2, <1>3

\* The clock and the budgets are looked at between two cycles.
LEMMA TurnTold == ASSUME IInv, Told, TimeUp \/ NextCycle PROVE Told'
<1>1. /\ UNCHANGED <<observationCount, entries, cycleCount, session, final, current>>
      /\ result' = NoResult /\ pc = "loop" /\ pc' \in {"infer", "validation"}
      /\ pc' = "infer" => ~BudgetSpent
  BY DEF IInv, Phases, After, TimeUp, NextCycle, outcome
<1>2. Counted'
  BY <1>1 DEF Told, Counted, Level, Before, Within, Looping
<1>3. pc' = "infer" => cycleCount < MaxCycles /\ observationCount < MaxObs
  BY <1>1, RunSpecAssumption DEF BudgetSpent, Told, Bounded, IInv, Typed
<1> QED BY <1>1, <1>2, <1>3, Uncounted

\* A plan is for the step of the current observation.
LEMMA InferTold == ASSUME IInv, Told, Infer \/ InferFails PROVE Told'
<1>1. /\ UNCHANGED <<observationCount, entries, cycleCount, session, final, current>>
      /\ result' = NoResult /\ pc = "infer" /\ pc' \in {"execute", "crash", "close"}
      /\ pc' = "execute" => plan'.source = current
      /\ stage' = "infer"
  BY DEF IInv, Phases, After, Infer, InferFails, Raise, progress, outcome
<1>2. Counted'
  BY <1>1 DEF Told, Counted, Level, Before, Within, Looping
<1>3. cycleCount < MaxCycles /\ observationCount < MaxObs
  BY <1>1 DEF Told, Bounded
<1> QED BY <1>1, <1>2, <1>3, Uncounted

\* From here to the end of the delivery one cycle is counted without an entry.
LEMMA ExecuteTold == ASSUME IInv, Told, Execute \/ ExecuteFails PROVE Told'
<1>1. /\ UNCHANGED <<observationCount, entries, session, final, current, plan>>
      /\ result' = NoResult /\ pc = "execute" /\ cycleCount' = cycleCount + 1
      /\ pc' \in {"delivery", "crash", "close"} /\ stage' = "execute"
  BY DEF IInv, Phases, After, Execute, ExecuteFails, Raise, progress, outcome
<1>2. /\ cycleCount = Len(entries) /\ Level /\ final = NoFinal
      /\ observationCount > 0 /\ current = observationCount - 1
      /\ plan.source = current
  BY <1>1 DEF Told, Counted, Within, Looping
<1>3. pc' = "delivery" => /\ batch'.count \in 1 .. ExecSteps
                          /\ observationCount + batch'.count =< MaxObs
  <2> SUFFICES ASSUME pc' = "delivery" PROVE /\ batch'.count \in 1 .. ExecSteps
                                             /\ observationCount + batch'.count =< MaxObs
    OBVIOUS
  <2>1. Execute
    BY DEF ExecuteFails, Raise
  <2>2. PICK n \in 1 .. Requested : batch'.count = n
    BY <2>1 DEF Execute
  <2>3. /\ Requested \in Int /\ Requested =< ExecSteps
        /\ Requested =< MaxObs - observationCount
        /\ observationCount \in Nat /\ ExecSteps \in Nat /\ MaxObs \in Nat
    BY RequestedIsInt, RequestedFits, RunSpecAssumption DEF IInv, Typed
  <2> QED BY <2>2, <2>3
<1>4. Counted'
  BY <1>1, <1>2, <1>3 DEF Counted, Level, Before, Within, Looping, Unbalanced
<1>5. Chained'
  BY <1>1 DEF Told, Chained
<1>6. Bounded'
  BY <1>1, RunSpecAssumption DEF Told, Bounded
<1>7. CompleteCyclesExport'
  BY <1>1 DEF CompleteCyclesExport
<1> QED BY <1>4, <1>5, <1>6, <1>7 DEF Told

\* A complete delivery appends the entry that explains its records.
LEMMA DeliverTold == ASSUME IInv, Told, Deliver PROVE Told'
<1>1. /\ pc = "delivery" /\ pc' = "commit" /\ result' = NoResult
      /\ UNCHANGED <<cycleCount, final>>
      /\ session' = FullDelivery(batch.count)
      /\ entries' = Append(entries, [source |-> plan.source, count |-> batch.count])
      /\ observationCount' = observationCount + batch.count
      /\ current' = session'.delivered - 1
  BY DEF IInv, Phases, After, Deliver, outcome
<1>2. /\ cycleCount = Len(entries) + 1 /\ Level /\ final = NoFinal
      /\ observationCount > 0 /\ plan.source = observationCount - 1
      /\ batch.count \in 1 .. ExecSteps /\ observationCount + batch.count =< MaxObs
  BY <1>1 DEF Told, Counted, Within, Looping
<1>3. entries \in Seq(Entries) /\ observationCount \in Nat /\ ExecSteps \in Nat
      /\ batch.count \in Nat /\ MaxObs \in Nat
  BY RunSpecAssumption DEF IInv, Typed
<1>4. /\ Len(entries') = Len(entries) + 1
      /\ DOMAIN entries' = 1 .. Len(entries) + 1
      /\ \A i \in 1 .. Len(entries) : entries'[i] = entries[i]
      /\ entries'[Len(entries) + 1] = [source |-> plan.source, count |-> batch.count]
  BY <1>1, <1>3
<1>5. \A i \in 0 .. Len(entries) : Executed(entries', i) = Executed(entries, i)
  BY <1>3, <1>4 DEF Executed
<1>6. observationCount = Executed(entries, Len(entries)) + 1
  BY <1>2 DEF Told, Chained
<1>7. /\ entries'[Len(entries) + 1].count = batch.count
      /\ entries'[Len(entries) + 1].source = observationCount - 1
  BY <1>2, <1>4
<1>8. Executed(entries', Len(entries) + 1) = observationCount - 1 + batch.count
  BY <1>3, <1>7 DEF Executed
<1> DEFINE IntEntry(e) == e.source \in Int /\ e.count \in Int
<1>0. \A i \in 1 .. Len(entries) : IntEntry(entries[i])
  <2>1. \A e \in Entries : IntEntry(e)
    BY DEF Entries
  <2>2. \A i \in 1 .. Len(entries) : entries[i] \in Entries
    BY <1>3
  <2> QED BY <2>1, <2>2
<1>9. Executed(entries, Len(entries)) = observationCount - 1
  <2>1. Executed(entries, Len(entries)) \in Int
    BY <1>0, <1>3 DEF Executed
  <2> QED BY <1>6, <2>1
<1>10. ASSUME NEW i \in DOMAIN entries'
       PROVE  /\ entries'[i].count =< ExecSteps
              /\ entries'[i].source = Executed(entries', i - 1)
              /\ entries'[i].source < observationCount'
  <2>1. CASE i \in 1 .. Len(entries)
    <3>1. entries'[i] = entries[i] /\ i - 1 \in 0 .. Len(entries)
      BY <1>3, <1>4, <2>1
    <3>2. /\ entries[i].count =< ExecSteps
          /\ entries[i].source = Executed(entries, i - 1)
          /\ entries[i].source < observationCount
      BY <2>1, <1>3 DEF Told, Chained
    <3>3. entries[i].source \in Int
      BY <2>1, <1>0
    <3>4. entries[i].source < observationCount'
      BY <3>2, <3>3, <1>1, <1>3
    <3> QED BY <3>1, <3>2, <3>4, <1>5
  <2>2. CASE i = Len(entries) + 1
    <3>1. Executed(entries', i - 1) = observationCount - 1
      BY <2>2, <1>3, <1>5, <1>9
    <3> QED BY <3>1, <2>2, <1>1, <1>2, <1>3, <1>7
  <2> QED BY <1>3, <1>4, <2>1, <2>2
<1>11. Chained'
  <2>1. observationCount' # 0
    BY <1>1, <1>2, <1>3
  <2>2. observationCount' = Executed(entries', Len(entries')) + 1
    BY <1>1, <1>3, <1>4, <1>8
  <2> QED BY <1>10, <2>1, <2>2 DEF Chained
<1>12. Bounded'
  BY <1>1, <1>2 DEF Told, Bounded
<1>13. Level' /\ current' = observationCount' - 1
  BY <1>1, <1>2 DEF Level, FullDelivery
<1>14. Counted'
  <2>1. observationCount' > 0
    BY <1>1, <1>2, <1>3
  <2> QED BY <2>1, <1>1, <1>2, <1>4, <1>13 DEF Counted, Before, Within, Looping
<1>15. CompleteCyclesExport'
  BY <1>1 DEF CompleteCyclesExport
<1> QED BY <1>11, <1>12, <1>14, <1>15 DEF Told

\* A failed delivery is excluded by its stage.
LEMMA DeliverFailsTold == ASSUME IInv, Told, DeliverFails PROVE Told'
<1>1. /\ UNCHANGED <<observationCount, entries, cycleCount>> /\ result' = NoResult
      /\ pc' \in {"crash", "close"} /\ stage' = "delivery"
  BY DEF IInv, Phases, After, DeliverFails, Raise, progress, outcome
<1>2. Counted'
  BY <1>1 DEF Counted, Before, Within, Looping, Unbalanced
<1> QED BY <1>1, <1>2, Uncounted

\* The commit moves no count.
LEMMA CommitTold == ASSUME IInv, Told, Commit \/ CommitFails PROVE Told'
<1>1. /\ UNCHANGED <<observationCount, entries, cycleCount, session, final, current>>
      /\ result' = NoResult /\ pc = "commit"
      /\ pc' \in {"loop", "validation", "crash", "close"}
  BY DEF IInv, Phases, After, Commit, CommitFails, Raise, progress, outcome
<1>2. Counted'
  BY <1>1 DEF Told, Counted, Level, Before, Within, Looping
<1> QED BY <1>1, <1>2, Uncounted

\* A finalization has every clean record.
LEMMA FinalizationCounts ==
  ASSUME NEW f \in Finalizations PROVE f.records = session.clean
BY DEF Finalizations

\* What is counted together can be exported: a result built from counts that
\* agree, with the finalization of the records that were counted.
LEMMA CountsExport ==
  ASSUME Told, Level, cycleCount = Len(entries), session.clean > 0,
         NEW f \in Finalizations, NEW t, NEW x, NEW v, NEW s
  PROVE  Exportable(Build(t, x, v, s), f)
<1>1. f.records = observationCount
  BY FinalizationCounts DEF Level
<1>2. PICK r : r = Build(t, x, v, s)
  OBVIOUS
<1>3. /\ r.observations = observationCount /\ r.cycles = cycleCount
      /\ r.actions = entries
  BY <1>2 DEF Build
<1>4. observationCount # 0
  BY DEF Level
<1>5. Exportable(r, f)
  BY <1>1, <1>3, <1>4 DEF Exportable, Told, Chained, Bounded
<1> QED BY <1>2, <1>5

\* Validation finalizes what was counted.
LEMMA ValidateTold == ASSUME IInv, Told, Validate PROVE Told'
<1>1. /\ UNCHANGED <<observationCount, entries, cycleCount, initialState>>
      /\ pc = "validation" /\ pc' = "close" /\ final' \in Finalizations
      /\ session.clean > 0
  BY DEF Validate, Finalizable, progress
<1>2. Level /\ cycleCount = Len(entries)
  BY <1>1 DEF Told, Counted, Within
<1>3. \E t, x, v, s : result' = Build(t, x, v, s)
  BY DEF Validate
<1>4. CompleteCyclesExport'
  <2>1. Exportable(result', final')
    BY <1>1, <1>2, <1>3, CountsExport
  <2> QED BY <2>1 DEF CompleteCyclesExport, Exportable
<1>5. Chained' /\ Bounded' /\ Counted'
  BY <1>1 DEF Told, Chained, Bounded, Counted, Before, Within, Looping
<1> QED BY <1>4, <1>5 DEF Told

\* A failed validation leaves the counts to the crash.
LEMMA ValidateFailsTold == ASSUME IInv, Told, ValidateFails PROVE Told'
<1>1. /\ UNCHANGED <<observationCount, entries, cycleCount>> /\ result' = NoResult
      /\ pc = "validation" /\ pc' \in {"crash", "close"}
      /\ UNCHANGED <<session.clean, session.delivered>>
  BY DEF IInv, Typed, Sessions, Phases, After, ValidateFails, Raise, progress
<1>2. Counted'
  BY <1>1 DEF Told, Counted, Level, Before, Within, Looping
<1> QED BY <1>1, <1>2, Uncounted

\* A crash outside a cycle finalizes what was counted, or nothing.
LEMMA CrashTold == ASSUME IInv, Told, Crash PROVE Told'
<1>1. /\ UNCHANGED <<observationCount, entries, cycleCount, initialState, stage>>
      /\ pc = "crash" /\ pc' = "close"
      /\ \/ session.clean > 0 /\ final' \in Finalizations
         \/ final' = NoFinal
      /\ result' = Build("crash", "crash", final'.verdict, stage)
  BY DEF Crash, Finalizable, progress
<1>2. CompleteCyclesExport'
  <2> SUFFICES ASSUME result'.stage \notin Unbalanced PROVE Exportable(result', final')
    BY DEF CompleteCyclesExport, Unbalanced
  <2>1. stage \notin Unbalanced
    BY <1>1 DEF Build
  <2>2. Level /\ cycleCount = Len(entries)
    BY <1>1, <2>1 DEF Told, Counted
  <2>3. CASE final' = NoFinal
    BY <2>3 DEF Exportable
  <2>4. CASE final' # NoFinal
    BY <2>4, <1>1, <2>2, CountsExport
  <2> QED BY <2>3, <2>4
<1>3. Chained' /\ Bounded' /\ Counted'
  BY <1>1 DEF Told, Chained, Bounded, Counted, Before, Within, Looping
<1> QED BY <1>2, <1>3 DEF Told

\* An interrupt leaves without a result.
LEMMA InterruptTold == ASSUME IInv, Told, Interrupt PROVE Told'
<1>1. /\ UNCHANGED <<observationCount, entries, cycleCount>> /\ result' = NoResult
      /\ pc' = "close"
  BY DEF IInv, Phases, Before, Within, After, Interrupt, progress, outcome
<1>2. Counted'
  BY <1>1 DEF Counted, Before, Within, Looping
<1> QED BY <1>1, <1>2, Uncounted

\* The teardown replaces a completed result by one of the same counts; a
\* completed one did not end in a cycle.
LEMMA CloseTold == ASSUME IInv, Told, Close PROVE Told'
<1>1. /\ pc' \in {"done", "raised"} /\ pc = "close"
      /\ UNCHANGED <<observationCount, entries, cycleCount, final>>
  BY CloseEffect
<1>2. CompleteCyclesExport'
  <2>1. CASE result' = result
    BY <2>1, <1>1 DEF Told, CompleteCyclesExport
  <2>2. CASE /\ Completed
             /\ result' = Build("crash", result.execution, result.verdict, "close")
    <3>1. /\ result # NoResult
          /\ result.terminal \in Signals \cup {"validator_rejected"}
      BY <1>1, <2>2 DEF IInv, Replaceable
    <3>2. /\ Coherent(result)
          /\ result = Build(result.terminal, result.execution, result.verdict,
                            result.stage)
      BY <3>1 DEF IInv, Built
    <3>3. result.stage \notin Unbalanced
      BY <3>1, <3>2 DEF Coherent, Unbalanced
    <3>4. Exportable(result, final)
      BY <3>1, <3>3 DEF Told, CompleteCyclesExport, Unbalanced
    <3>5. /\ result.cycles = cycleCount /\ result.observations = observationCount
          /\ result.actions = entries
      BY <3>2 DEF Build
    <3>6. /\ result'.cycles = cycleCount /\ result'.observations = observationCount
          /\ result'.actions = entries
      BY <2>2 DEF Build
    <3>7. Exportable(result', final)
      BY <3>4, <3>5, <3>6 DEF Exportable
    <3> QED BY <3>7, <1>1 DEF CompleteCyclesExport, Exportable
  <2> QED BY <2>1, <2>2, CloseEffect
<1>3. Chained' /\ Bounded' /\ Counted'
  BY <1>1 DEF Told, Chained, Bounded, Counted, Before, Within, Looping
<1> QED BY <1>2, <1>3 DEF Told

\* Every step keeps the counts telling one story.
LEMMA NextTold == IInv /\ Told /\ [Next]_vars => Told'
<1> SUFFICES ASSUME IInv, Told, [Next]_vars PROVE Told'
  OBVIOUS
<1>1. CASE Setup
  BY <1>1, SetupTold, UnsupportedTold, DeliverFirstTold DEF Setup
<1>2. CASE Cycle
  BY <1>2, TurnTold, InferTold, ExecuteTold, DeliverTold, DeliverFailsTold, CommitTold
     DEF Cycle
<1>3. CASE Teardown
  BY <1>3, ValidateTold, ValidateFailsTold, CrashTold, CloseTold DEF Teardown
<1>4. CASE Interrupt
  BY <1>4, InterruptTold
<1>5. CASE UNCHANGED vars
  BY <1>5 DEF vars, flags, progress, outcome, Told, Chained, Bounded, Counted, Level,
     CompleteCyclesExport
<1> QED BY <1>1, <1>2, <1>3, <1>4, <1>5 DEF Next, Step

\* Counts, action entries and finalized trace agree in every result, so the
\* exporter takes it (artifact_semantics.py:42-66), unless the trial crashed
\* between counting a cycle and delivering its batch.
THEOREM ResultsExport == Spec => []CompleteCyclesExport
<1>1. IInv /\ Told /\ [Next]_vars => (IInv /\ Told)'
  BY NextInv, NextTold
<1>2. Init => IInv /\ Told
  BY InitInv, InitTold
<1>3. Told => CompleteCyclesExport
  BY DEF Told
<1> QED BY <1>1, <1>2, <1>3, PTL DEF Spec

-----------------------------------------------------------------------------
(* How long a trial is: a bound on the steps it still has in it.           *)

\* The longest way from each program counter to the end of the trial, without
\* the cycles that the budget still allows.
Ahead ==
  [preflight |-> 14, open |-> 13, reset |-> 12, policy_reset |-> 11,
   observe |-> 10, first_delivery |-> 9, delivery |-> 8, commit |-> 7,
   loop |-> 6, infer |-> 5, execute |-> 4, validation |-> 3, crash |-> 2,
   close |-> 1, done |-> 0, raised |-> 0]

\* Where another cycle may still follow. Each is five steps.
CyclesAhead == pc \notin {"validation", "crash"} \cup After

StepsLeft == Ahead[pc] + IF CyclesAhead THEN 5 * (MaxCycles - cycleCount) ELSE 0

\* Every program counter has its bound, and only an ended trial has none left.
LEMMA StepsLeftIsCount ==
  ASSUME IInv, Told
  PROVE  StepsLeft \in Nat /\ (StepsLeft = 0 <=> Ended)
<1>1. pc \in Before \cup Within \cup After \cup {"crash"}
  BY DEF IInv, Phases
<1>2. Ahead[pc] \in Nat /\ (Ahead[pc] = 0 <=> Ended)
  BY <1>1 DEF Ahead, Before, Within, After, Ended
<1>3. MaxCycles - cycleCount \in Nat
  BY RunSpecAssumption DEF Told, Bounded
<1>4. CASE CyclesAhead
  <2>1. ~Ended
    BY <1>4 DEF CyclesAhead, After, Ended
  <2>2. StepsLeft = Ahead[pc] + 5 * (MaxCycles - cycleCount)
    BY <1>4 DEF StepsLeft
  <2> QED BY <1>2, <1>3, <2>1, <2>2
<1>5. CASE ~CyclesAhead
  <2>1. StepsLeft = Ahead[pc] + 0
    BY <1>5 DEF StepsLeft
  <2> QED BY <1>2, <2>1
<1> QED BY <1>4, <1>5

\* A step to a place nearer the end, which may have counted a cycle.
Closer ==
  /\ Ahead[pc'] < Ahead[pc]
  /\ cycleCount' \in {cycleCount, cycleCount + 1}
  /\ CyclesAhead' => CyclesAhead

\* A step to a place nearer the end takes from the bound, the cycle counted or
\* not.
LEMMA Nearer ==
  ASSUME IInv, Told, IInv', Told', Closer
  PROVE  StepsLeft' < StepsLeft
<1> DEFINE a == Ahead[pc]
           b == Ahead[pc']
           x == 5 * (MaxCycles - cycleCount)
           y == 5 * (MaxCycles - cycleCount')
<1>1. a \in Nat
  BY DEF IInv, Phases, Ahead, Before, Within, After
<1>2. b \in Nat
  BY DEF IInv, Phases, Ahead, Before, Within, After
<1>3. b < a /\ (CyclesAhead' => CyclesAhead)
  BY DEF Closer
<1>4. x \in Nat /\ y \in Nat /\ y =< x
  BY RunSpecAssumption DEF Told, Bounded, Closer
<1>5. StepsLeft = a + (IF CyclesAhead THEN x ELSE 0)
  BY DEF StepsLeft
<1>6. StepsLeft' = b + (IF CyclesAhead' THEN y ELSE 0)
  BY DEF StepsLeft
<1> HIDE DEF a, b, x, y
<1>7. CASE CyclesAhead'
  BY <1>1, <1>2, <1>3, <1>4, <1>5, <1>6, <1>7
<1>8. CASE ~CyclesAhead' /\ CyclesAhead
  BY <1>1, <1>2, <1>3, <1>4, <1>5, <1>6, <1>8
<1>9. CASE ~CyclesAhead' /\ ~CyclesAhead
  BY <1>1, <1>2, <1>3, <1>5, <1>6, <1>9
<1> QED BY <1>7, <1>8, <1>9

\* A stage goes on to the next one or, when it raises, to the crash path or the
\* teardown.
LEMMA SetupCloser == ASSUME Setup PROVE Closer
<1>1. CASE Preflight
  BY <1>1 DEF Preflight, Closer, Ahead, CyclesAhead, After, progress
<1>2. CASE PreflightRefuses
  BY <1>2 DEF PreflightRefuses, Raise, Closer, Ahead, CyclesAhead, After, progress
<1>3. CASE Unsupported
  BY <1>3 DEF Unsupported, Closer, Ahead, CyclesAhead, After, progress
<1>4. CASE OpenSession
  BY <1>4 DEF OpenSession, Raise, Closer, Ahead, CyclesAhead, After, progress
<1>5. CASE BackendReset
  BY <1>5 DEF BackendReset, Raise, Closer, Ahead, CyclesAhead, After, progress
<1>6. CASE PolicyReset
  BY <1>6 DEF PolicyReset, Raise, Closer, Ahead, CyclesAhead, After, progress
<1>7. CASE Observe
  BY <1>7 DEF Observe, Raise, Closer, Ahead, CyclesAhead, After, progress
<1>8. CASE DeliverFirst
  BY <1>8 DEF DeliverFirst, Raise, Closer, Ahead, CyclesAhead, After
<1> QED BY <1>1, <1>2, <1>3, <1>4, <1>5, <1>6, <1>7, <1>8 DEF Setup

\* So does every step of a cycle but the one that counts it.
LEMMA CycleCloser == ASSUME Cycle, ~Execute PROVE Closer
<1>1. CASE TimeUp
  BY <1>1 DEF TimeUp, Closer, Ahead, CyclesAhead, After
<1>2. CASE NextCycle
  BY <1>2 DEF NextCycle, Closer, Ahead, CyclesAhead, After
<1>3. CASE Infer
  BY <1>3 DEF Infer, Closer, Ahead, CyclesAhead, After, progress
<1>4. CASE InferFails
  BY <1>4 DEF InferFails, Raise, Closer, Ahead, CyclesAhead, After, progress
<1>5. CASE ExecuteFails
  BY <1>5 DEF ExecuteFails, Raise, Closer, Ahead, CyclesAhead, After
<1>6. CASE Deliver
  BY <1>6 DEF Deliver, Closer, Ahead, CyclesAhead, After
<1>7. CASE DeliverFails
  BY <1>7 DEF DeliverFails, Raise, Closer, Ahead, CyclesAhead, After, progress
<1>8. CASE Commit
  BY <1>8 DEF Commit, Closer, Ahead, CyclesAhead, After, progress
<1>9. CASE CommitFails
  BY <1>9 DEF CommitFails, Raise, Closer, Ahead, CyclesAhead, After, progress
<1> QED BY <1>1, <1>2, <1>3, <1>4, <1>5, <1>6, <1>7, <1>8, <1>9 DEF Cycle

\* And every step of the teardown, and an interrupt wherever it strikes.
LEMMA TeardownCloser ==
  ASSUME IInv, Teardown \/ Interrupt
  PROVE  Closer
<1>1. CASE Validate
  BY <1>1 DEF Validate, Closer, Ahead, CyclesAhead, After, progress
<1>2. CASE ValidateFails
  BY <1>2 DEF ValidateFails, Raise, Closer, Ahead, CyclesAhead, After, progress
<1>3. CASE Crash
  BY <1>3 DEF Crash, Closer, Ahead, CyclesAhead, After, progress
<1>4. CASE Close
  BY <1>4 DEF Close, Closer, Ahead, CyclesAhead, After, progress
<1>5. CASE Interrupt
  <2>1. pc \in (Before \cup Within \cup {"crash"})
    BY <1>5 DEF IInv, Phases, Interrupt, After
  <2>2. pc' = "close" /\ cycleCount' = cycleCount
    BY <1>5 DEF Interrupt, progress
  <2> QED BY <2>1, <2>2 DEF Closer, Ahead, CyclesAhead, After, Before, Within
<1> QED BY <1>1, <1>2, <1>3, <1>4, <1>5 DEF Teardown

\* A cycle is counted before its batch is delivered: what it leads back to is
\* four places farther, what it spends is worth five.
LEMMA ExecuteSpends ==
  ASSUME IInv, Told, Told', Execute
  PROVE  StepsLeft' < StepsLeft
<1>1. pc = "execute" /\ pc' = "delivery" /\ cycleCount' = cycleCount + 1
  BY DEF Execute
<1>2. CyclesAhead /\ CyclesAhead' /\ Ahead[pc] = 4 /\ Ahead[pc'] = 8
  BY <1>1 DEF CyclesAhead, Ahead, After
<1>3. cycleCount \in Nat /\ MaxCycles \in Nat
  BY RunSpecAssumption DEF Told, Bounded
<1>4. StepsLeft = 4 + 5 * (MaxCycles - cycleCount)
  BY <1>2 DEF StepsLeft
<1>5. StepsLeft' = 8 + 5 * (MaxCycles - (cycleCount + 1))
  BY <1>1, <1>2 DEF StepsLeft
<1> QED BY <1>3, <1>4, <1>5

\* A trial is over after at most five steps for each cycle of its budget and
\* fourteen more, however its calls turn out: each step takes from what is
\* left, and what is left is nothing exactly where the trial has ended. No
\* failure path of closed_loop/runner.py leads back into the loop.
THEOREM TrialIsBounded ==
  Spec => /\ StepsLeft = 5 * MaxCycles + 14
          /\ [](StepsLeft \in Nat /\ (StepsLeft = 0 <=> Ended))
          /\ [][StepsLeft' < StepsLeft]_vars
<1> DEFINE I == IInv /\ Told
           Shrinks == StepsLeft' < StepsLeft
           Whole == StepsLeft = 5 * MaxCycles + 14
           Exact == StepsLeft \in Nat /\ (StepsLeft = 0 <=> Ended)
<1>1. Init => Whole
  BY RunSpecAssumption DEF Init, StepsLeft, Ahead, CyclesAhead, After
<1>2. Init => I
  BY InitInv, InitTold
<1>3. I /\ [Next]_vars => I'
  BY NextInv, NextTold
<1>4. I => Exact
  BY StepsLeftIsCount
<1>5. I /\ I' /\ [Next]_vars => [Shrinks]_vars
  <2> SUFFICES ASSUME I, I', Next PROVE Shrinks
    OBVIOUS
  <2>1. CASE Execute
    BY <2>1, ExecuteSpends
  <2>2. CASE ~Execute
    BY <2>2, SetupCloser, CycleCloser, TeardownCloser, Nearer DEF Next, Step
  <2> QED BY <2>1, <2>2
<1> HIDE DEF I, Shrinks, Whole, Exact
<1>6. Spec => Whole /\ []Exact /\ [][Shrinks]_vars
  BY <1>1, <1>2, <1>3, <1>4, <1>5, PTL DEF Spec
<1> QED BY <1>6 DEF Whole, Exact, Shrinks

=============================================================================
