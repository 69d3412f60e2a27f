------------------------ MODULE LiveExecutionProofs ------------------------
(***************************************************************************)
(* What holds of a live cell for any number of runs, traces and kills.     *)
(***************************************************************************)
EXTENDS LiveExecution, TLAPS

-----------------------------------------------------------------------------
(* The inductive invariant.                                                *)

BeforeLaunch == {"idle", "resolve", "launch"}
Driving == {"task", "backend", "policy", "trial"}
AfterTrial == {"export", "publish"}
Ended == {"record", "done", "refused"}
Labels == BeforeLaunch \cup Driving \cup AfterTrial \cup Ended

OutcomeSet == [status : TraceStatuses \cup {"none"}, root : Roots \cup {NoRoot}]

Typed ==
  /\ pc \in [Runs -> Labels]
  /\ app \in [Runs -> {"none", "open", "closed"}]
  /\ closes \in [Runs -> Nat]
  /\ staged \in [Runs -> OutcomeSet]
  /\ outcome \in [Runs -> OutcomeSet]

\* Where a run stands tells what became of its simulator; a run that was
\* interrupted or killed is never heard of again.
SimulatorFollows ==
  \A r \in Runs :
    /\ pc[r] \in BeforeLaunch => app[r] = "none" /\ closes[r] = 0
    /\ pc[r] \in Driving => app[r] = "open" /\ closes[r] = 0
    /\ pc[r] \in AfterTrial => app[r] = "closed" /\ closes[r] = 1
    /\ pc[r] \in Ended /\ r \notin gone =>
         app[r] # "open" /\ closes[r] = (IF app[r] = "closed" THEN 1 ELSE 0)

\* A trial has not reset the simulator before it was run, and not at all if it
\* ended as unsupported.
NotStepped ==
  \A r \in Runs :
    /\ pc[r] \in BeforeLaunch \cup Driving =>
         r \notin stepped /\ outcome[r].status = "none"
    /\ pc[r] \in AfterTrial =>
         staged[r].root \in Roots /\ outcome[r].status = "none"

\* The outcome that a run is about to record rests on a published trace.
OutcomeBacked ==
  \A r \in Runs : pc[r] = "record" /\ outcome[r].root # NoRoot =>
                    outcome[r].root \in artifacts

IInv ==
  /\ Typed
  /\ SimulatorFollows
  /\ NotStepped
  /\ OutcomeBacked
  /\ ReceiptBacked
  /\ UnsupportedBeforeReset

-----------------------------------------------------------------------------
USE LiveExecutionAssumption

\* The outcomes that do not come from a trial.
LEMMA Refusals ==
  /\ {Crash, Unsupported, NoOutcome} \subseteq OutcomeSet
  /\ \A refusal \in {Crash, Unsupported} : refusal.root = NoRoot
  /\ NoOutcome.status = "none" /\ Crash # Unsupported /\ NoOutcome # Unsupported
  BY DEF OutcomeSet, TraceStatuses, Outcome, Crash, Unsupported, NoOutcome

\* An empty directory and idle runs satisfy the invariant.
LEMMA InitInv == Init => IInv
  <1> SUFFICES ASSUME Init PROVE IInv
    OBVIOUS
  <1>1. Typed
    BY Refusals DEF Init, Typed, Labels, BeforeLaunch
  <1>2. SimulatorFollows
    BY DEF Init, SimulatorFollows, BeforeLaunch, Driving, AfterTrial, Ended
  <1>3. NotStepped /\ UnsupportedBeforeReset
    BY Refusals DEF Init, NotStepped, UnsupportedBeforeReset, BeforeLaunch, Driving,
                    AfterTrial
  <1>4. OutcomeBacked /\ ReceiptBacked
    BY DEF Init, OutcomeBacked, ReceiptBacked
  <1> QED
    BY <1>1, <1>2, <1>3, <1>4 DEF IInv

\* One run at a time, or none.
LEMMA StepCases ==
  ASSUME [Next]_vars
  PROVE  \/ \E r \in Runs :
              \/ Begin(r) \/ Resolve(r) \/ LaunchRefused(r) \/ Launch(r)
              \/ BuildTask(r) \/ BuildBackend(r) \/ LoadPolicy(r) \/ Trial(r)
              \/ Export(r) \/ Publish(r) \/ Record(r) \/ Interrupt(r) \/ Kill(r)
         \/ UNCHANGED vars
  BY DEF Next, Step

\* A run that leaves the executor hands an outcome to the runner.
LEMMA LeaveTyped ==
  ASSUME Typed, NEW r \in Runs, NEW result \in OutcomeSet, Leave(r, result)
  PROVE  pc' \in [Runs -> Labels] /\ outcome' \in [Runs -> OutcomeSet]
  BY DEF Typed, Leave, Goto, Labels, Ended

\* A labelled process counter is one.
LEMMA GotoTyped ==
  ASSUME Typed, NEW r \in Runs, NEW label \in Labels, Goto(r, label)
  PROVE  pc' \in [Runs -> Labels]
  BY DEF Typed, Goto

\* Closing a simulator leaves the simulators typed.
LEMMA CloseTyped ==
  ASSUME Typed, NEW r \in Runs, Close(r)
  PROVE  app' \in [Runs -> {"none", "open", "closed"}] /\ closes' \in [Runs -> Nat]
  BY DEF Typed, Close

\* What a trial stages is an outcome.
LEMMA StagedTyped ==
  ASSUME Typed, NEW r \in Runs, NEW root \in Roots, NEW status \in TraceStatuses,
         staged' = [staged EXCEPT ![r] = Outcome(status, root)]
  PROVE  staged' \in [Runs -> OutcomeSet]
  <1>1. Outcome(status, root) \in OutcomeSet
    BY DEF Outcome, OutcomeSet
  <1> QED
    BY <1>1 DEF Typed

\* Every step keeps the types.
LEMMA TypedStep == Typed /\ [Next]_vars => Typed'
  <1> SUFFICES ASSUME Typed, [Next]_vars PROVE Typed'
    OBVIOUS
  <1> USE GotoTyped, LeaveTyped, CloseTyped, Refusals
  <1>a. Labels = {"idle", "resolve", "launch", "task", "backend", "policy", "trial",
                  "export", "publish", "record", "done", "refused"}
    BY DEF Labels, BeforeLaunch, Driving, AfterTrial, Ended
  <1>0. CASE UNCHANGED vars
    BY <1>0 DEF vars, Typed
  <1>1. ASSUME NEW r \in Runs, Begin(r) PROVE Typed'
    BY <1>1, <1>a DEF Begin, Typed
  <1>2. ASSUME NEW r \in Runs, Resolve(r) PROVE Typed'
    BY <1>2, <1>a DEF Resolve, Typed
  <1>3. ASSUME NEW r \in Runs, LaunchRefused(r) PROVE Typed'
    BY <1>3, <1>a DEF LaunchRefused, Typed
  <1>4. ASSUME NEW r \in Runs, Launch(r) PROVE Typed'
    BY <1>4, <1>a DEF Launch, Typed, Open
  <1>5. ASSUME NEW r \in Runs, BuildTask(r) PROVE Typed'
    BY <1>5, <1>a DEF BuildTask, Typed
  <1>6. ASSUME NEW r \in Runs, BuildBackend(r) PROVE Typed'
    BY <1>6, <1>a DEF BuildBackend, Typed
  <1>7. ASSUME NEW r \in Runs, LoadPolicy(r) PROVE Typed'
    BY <1>7, <1>a DEF LoadPolicy, Typed
  <1>8. ASSUME NEW r \in Runs, Trial(r) PROVE Typed'
    <2>1. CASE \E root \in Roots, status \in TraceStatuses :
                 /\ staged' = [staged EXCEPT ![r] = Outcome(status, root)]
                 /\ Goto(r, "export") /\ UNCHANGED outcome
      BY <1>8, <2>1, <1>a, StagedTyped DEF Trial, Typed
    <2>2. CASE Leave(r, Crash) /\ UNCHANGED staged
      BY <1>8, <2>2 DEF Trial, Typed
    <2> QED
      BY <1>8, <2>1, <2>2 DEF Trial
  <1>9. ASSUME NEW r \in Runs, Export(r) PROVE Typed'
    BY <1>9, <1>a DEF Export, Typed
  <1>10. ASSUME NEW r \in Runs, Publish(r) PROVE Typed'
    <2>1. staged[r] \in OutcomeSet
      BY DEF Typed
    <2> QED
      BY <1>10, <2>1 DEF Publish, Typed
  <1>11. ASSUME NEW r \in Runs, Record(r) PROVE Typed'
    BY <1>11, <1>a DEF Record, Typed
  <1>12. ASSUME NEW r \in Runs, Interrupt(r) PROVE Typed'
    BY <1>12, <1>a DEF Interrupt, Typed
  <1>13. ASSUME NEW r \in Runs, Kill(r) PROVE Typed'
    BY <1>13, <1>a DEF Kill, Typed
  <1> QED
    BY <1>0, <1>1, <1>2, <1>3, <1>4, <1>5, <1>6, <1>7, <1>8, <1>9, <1>10, <1>11,
       <1>12, <1>13, StepCases

\* A step is one run's: the others stand where they stood, and what is published
\* stays published.
LEMMA OthersKeep ==
  ASSUME Typed, NEW r \in Runs,
         Step(r) \/ Interrupt(r) \/ Kill(r)
  PROVE  /\ \A q \in Runs \ {r} :
              /\ pc'[q] = pc[q] /\ app'[q] = app[q] /\ closes'[q] = closes[q]
              /\ staged'[q] = staged[q] /\ outcome'[q] = outcome[q]
              /\ q \in stepped' <=> q \in stepped
              /\ q \in gone' <=> q \in gone
         /\ artifacts \subseteq artifacts'
  BY DEF Typed, Step, Begin, Resolve, LaunchRefused, Launch, BuildTask, BuildBackend,
         LoadPolicy, Trial, Export, Publish, Record, Interrupt, Kill, Goto, Leave,
         Open, Close

\* A simulator is live only while its run is between launch and close.
LEMMA SimulatorFollowsStep == Typed /\ SimulatorFollows /\ [Next]_vars => SimulatorFollows'
  <1> SUFFICES ASSUME Typed, SimulatorFollows, [Next]_vars PROVE SimulatorFollows'
    OBVIOUS
  <1>0. CASE UNCHANGED vars
    BY <1>0 DEF vars, SimulatorFollows
  <1>1. ASSUME NEW r \in Runs, Step(r) \/ Interrupt(r) \/ Kill(r)
        PROVE  SimulatorFollows'
    <2> DEFINE Follows(q) ==
          /\ pc[q] \in BeforeLaunch => app[q] = "none" /\ closes[q] = 0
          /\ pc[q] \in Driving => app[q] = "open" /\ closes[q] = 0
          /\ pc[q] \in AfterTrial => app[q] = "closed" /\ closes[q] = 1
          /\ pc[q] \in Ended /\ q \notin gone =>
               app[q] # "open" /\ closes[q] = (IF app[q] = "closed" THEN 1 ELSE 0)
    <2>1. Follows(r)
      BY DEF SimulatorFollows
    <2>2. Follows(r)'
      <3> USE <2>1 DEF Typed, BeforeLaunch, Driving, AfterTrial, Ended, Goto, Leave,
                       Open, Close
      <3>1. CASE Begin(r) \/ Resolve(r) \/ LaunchRefused(r) \/ Launch(r)
        BY <3>1 DEF Begin, Resolve, LaunchRefused, Launch
      <3>2. CASE BuildTask(r) \/ BuildBackend(r) \/ LoadPolicy(r)
        BY <3>2 DEF BuildTask, BuildBackend, LoadPolicy
      <3>3. CASE Trial(r) \/ Export(r)
        BY <3>3 DEF Trial, Export
      <3>4. CASE Publish(r) \/ Record(r)
        BY <3>4 DEF Publish, Record
      <3>5. CASE Interrupt(r) \/ Kill(r)
        BY <3>5 DEF Interrupt, Kill, Running
      <3> QED
        BY <1>1, <3>1, <3>2, <3>3, <3>4, <3>5 DEF Step
    <2>3. \A q \in Runs \ {r} : Follows(q)'
      BY <1>1, OthersKeep DEF SimulatorFollows
    <2> QED
      BY <2>2, <2>3 DEF SimulatorFollows
  <1> QED
    BY <1>0, <1>1 DEF Next

\* Before its trial a run has not stepped its simulator.
LEMMA NotSteppedStep == Typed /\ NotStepped /\ [Next]_vars => NotStepped'
  <1> SUFFICES ASSUME Typed, NotStepped, [Next]_vars PROVE NotStepped'
    OBVIOUS
  <1>0. CASE UNCHANGED vars
    BY <1>0 DEF vars, NotStepped
  <1>1. ASSUME NEW r \in Runs, Step(r) \/ Interrupt(r) \/ Kill(r)
        PROVE  NotStepped'
    <2> DEFINE Quiet(q) ==
          /\ pc[q] \in BeforeLaunch \cup Driving =>
               q \notin stepped /\ outcome[q].status = "none"
          /\ pc[q] \in AfterTrial =>
               staged[q].root \in Roots /\ outcome[q].status = "none"
    <2>1. Quiet(r)
      BY DEF NotStepped
    <2>2. Quiet(r)'
      <3> USE <2>1 DEF Typed, BeforeLaunch, Driving, AfterTrial, Goto, Leave
      <3>1. CASE Begin(r) \/ Resolve(r) \/ LaunchRefused(r) \/ Launch(r)
        BY <3>1 DEF Begin, Resolve, LaunchRefused, Launch
      <3>2. CASE BuildTask(r) \/ BuildBackend(r) \/ LoadPolicy(r)
        BY <3>2 DEF BuildTask, BuildBackend, LoadPolicy
      <3>3. CASE Trial(r)
        BY <3>3 DEF Trial, Outcome
      <3>4. CASE Export(r) \/ Publish(r) \/ Record(r)
        BY <3>4 DEF Export, Publish, Record
      <3>5. CASE Interrupt(r) \/ Kill(r)
        BY <3>5 DEF Interrupt, Kill
      <3> QED
        BY <1>1, <3>1, <3>2, <3>3, <3>4, <3>5 DEF Step
    <2>3. \A q \in Runs \ {r} : Quiet(q)'
      BY <1>1, OthersKeep DEF NotStepped
    <2> QED
      BY <2>2, <2>3 DEF NotStepped
  <1> QED
    BY <1>0, <1>1 DEF Next

\* A completed outcome in hand has its trace at the published path.
LEMMA OutcomeBackedStep == Typed /\ OutcomeBacked /\ [Next]_vars => OutcomeBacked'
  <1> SUFFICES ASSUME Typed, OutcomeBacked, [Next]_vars PROVE OutcomeBacked'
    OBVIOUS
  <1>0. CASE UNCHANGED vars
    BY <1>0 DEF vars, OutcomeBacked
  <1>1. ASSUME NEW r \in Runs, Step(r) \/ Interrupt(r) \/ Kill(r)
        PROVE  OutcomeBacked'
    <2>1. ASSUME pc'[r] = "record", outcome'[r].root # NoRoot
          PROVE  outcome'[r].root \in artifacts'
      <3> USE <2>1, Refusals DEF Typed, Goto, Leave
      <3>1. CASE Begin(r) \/ Resolve(r) \/ LaunchRefused(r) \/ Launch(r)
        BY <3>1 DEF Begin, Resolve, LaunchRefused, Launch
      <3>2. CASE BuildTask(r) \/ BuildBackend(r) \/ LoadPolicy(r)
        BY <3>2 DEF BuildTask, BuildBackend, LoadPolicy
      <3>3. CASE Trial(r) \/ Export(r)
        BY <3>3 DEF Trial, Export
      <3>4. CASE Publish(r)
        BY <3>4 DEF Publish
      <3>5. CASE Record(r) \/ Interrupt(r) \/ Kill(r)
        BY <3>5 DEF Record, Interrupt, Kill
      <3> QED
        BY <1>1, <3>1, <3>2, <3>3, <3>4, <3>5 DEF Step
    <2> QED
      BY <1>1, <2>1, OthersKeep DEF OutcomeBacked
  <1> QED
    BY <1>0, <1>1 DEF Next

\* So has a published receipt.
LEMMA ReceiptBackedStep ==
  Typed /\ OutcomeBacked /\ ReceiptBacked /\ [Next]_vars => ReceiptBacked'
  <1> SUFFICES ASSUME Typed, OutcomeBacked, ReceiptBacked, [Next]_vars
               PROVE  ReceiptBacked'
    OBVIOUS
  <1>0. CASE UNCHANGED vars
    BY <1>0 DEF vars, ReceiptBacked
  <1>1. ASSUME NEW r \in Runs, Step(r) \/ Interrupt(r) \/ Kill(r)
        PROVE  ReceiptBacked'
    <2>1. CASE Record(r)
      BY <2>1 DEF Record, OutcomeBacked, ReceiptBacked
    <2>2. CASE ~Record(r)
      <3>1. receipt' = receipt
        BY <1>1, <2>2 DEF Step, Begin, Resolve, LaunchRefused, Launch, BuildTask,
                          BuildBackend, LoadPolicy, Trial, Export, Publish,
                          Interrupt, Kill
      <3> QED
        BY <1>1, <3>1, OthersKeep DEF ReceiptBacked
    <2> QED
      BY <2>1, <2>2
  <1> QED
    BY <1>0, <1>1 DEF Next

\* An unsupported outcome is decided before the trial.
LEMMA UnsupportedStep ==
  Typed /\ NotStepped /\ UnsupportedBeforeReset /\ [Next]_vars => UnsupportedBeforeReset'
  <1> SUFFICES ASSUME Typed, NotStepped, UnsupportedBeforeReset, [Next]_vars
               PROVE  UnsupportedBeforeReset'
    OBVIOUS
  <1>0. CASE UNCHANGED vars
    BY <1>0 DEF vars, UnsupportedBeforeReset
  <1>1. ASSUME NEW r \in Runs, Step(r) \/ Interrupt(r) \/ Kill(r)
        PROVE  UnsupportedBeforeReset'
    <2>1. ASSUME outcome'[r] = Unsupported
          PROVE  r \notin stepped'
      <3> USE <2>1 DEF NotStepped, UnsupportedBeforeReset, BeforeLaunch, Driving,
                       AfterTrial
      <3>1. CASE \/ Begin(r) \/ Resolve(r) \/ LaunchRefused(r) \/ Launch(r)
                 \/ BuildTask(r) \/ BuildBackend(r) \/ LoadPolicy(r)
        BY <3>1 DEF Begin, Resolve, LaunchRefused, Launch, BuildTask, BuildBackend,
                    LoadPolicy
      <3>2. CASE Trial(r)
        <4>1. outcome[r].status = "none" /\ outcome \in [Runs -> OutcomeSet]
          BY <3>2 DEF Trial, Typed
        <4>2. outcome'[r] = outcome[r] \/ outcome'[r] = Crash
          BY <3>2, <4>1 DEF Trial, Leave
        <4> QED
          BY <4>1, <4>2, Refusals DEF Unsupported, Outcome
      <3>3. CASE Export(r)
        <4>1. outcome[r].status = "none" /\ outcome \in [Runs -> OutcomeSet]
          BY <3>3 DEF Export, Typed
        <4>2. outcome'[r] = outcome[r] \/ outcome'[r] = Crash
          BY <3>3, <4>1 DEF Export, Leave
        <4> QED
          BY <4>1, <4>2, Refusals DEF Unsupported, Outcome
      <3>4. CASE Publish(r)
        <4>1. staged[r].root \in Roots /\ outcome \in [Runs -> OutcomeSet]
          BY <3>4 DEF Publish, Typed
        <4>2. outcome'[r] = staged[r] \/ outcome'[r] = Crash
          BY <3>4, <4>1 DEF Publish, Leave
        <4> QED
          BY <4>1, <4>2, Refusals DEF Unsupported, Outcome, LiveExecutionAssumption
      <3>5. CASE Record(r) \/ Interrupt(r) \/ Kill(r)
        BY <3>5 DEF Record, Interrupt, Kill
      <3> QED
        BY <1>1, <3>1, <3>2, <3>3, <3>4, <3>5 DEF Step
    <2> QED
      BY <1>1, <2>1, OthersKeep DEF UnsupportedBeforeReset
  <1> QED
    BY <1>0, <1>1 DEF Next

\* The invariant holds in every reachable state.
THEOREM Invariance == Spec => []IInv
  <1>1. IInv /\ [Next]_vars => IInv'
    BY TypedStep, SimulatorFollowsStep, NotSteppedStep, OutcomeBackedStep,
       ReceiptBackedStep, UnsupportedStep DEF IInv
  <1> QED
    BY <1>1, InitInv, PTL DEF Spec

\* A receipt names a published trace only, however many runs come to the cell
\* and wherever they are killed (live_executor.py:104).
THEOREM ReceiptsAreBacked == Spec => []ReceiptBacked
  <1>1. IInv => ReceiptBacked
    BY DEF IInv
  <1> QED
    BY <1>1, Invariance, PTL

\* A run that leaves the executor by itself has closed the simulator it launched,
\* and only once (live_univtac.py:253).
THEOREM SimulatorsAreReleased == Spec => []SimulatorReleased
  <1>1. IInv => SimulatorReleased
    BY DEF IInv, SimulatorFollows, SimulatorReleased, Ended
  <1> QED
    BY <1>1, Invariance, PTL

\* "unsupported" without a trace is the answer of runs only whose simulator was
\* not reset (live_executor.py:87).
THEOREM UnsupportedRunsNothing == Spec => []UnsupportedBeforeReset
  <1>1. IInv => UnsupportedBeforeReset
    BY DEF IInv
  <1> QED
    BY <1>1, Invariance, PTL
=============================================================================
