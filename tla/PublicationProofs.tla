------------------------- MODULE PublicationProofs -------------------------
(***************************************************************************)
(* Every exporter writes its path once, for any number of processes, and   *)
(* leaves nothing beside it.                                               *)
(***************************************************************************)
EXTENDS Publication, TLAPS

-----------------------------------------------------------------------------
(* The inductive invariant.                                                *)

Labels == {"idle", "check", "stage", "verify", "lock", "recheck", "remove",
           "install", "unlock", "reload"}
Answers == {"nothing", "created", "reused", "refused"}

Typed ==
  /\ target \in Contents \cup {Missing, Empty}
  /\ lock \in Writers \cup {Missing, Orphan}
  /\ temps \subseteq Writers \cup {Orphan}
  /\ pc \in [Writers -> Labels]
  /\ content \in [Writers -> Contents]
  /\ told \in [Writers -> Answers]

\* A run that goes on has told nothing yet.
Untold == \A w \in Writers : Running(w) => told[w] = "nothing"

IInv == Typed /\ Untold /\ NothingLeft

-----------------------------------------------------------------------------
USE PublicationAssumption

\* The start satisfies the invariant.
LEMMA InitInv == Init => IInv
  BY DEF Init, IInv, Typed, Untold, NothingLeft, Labels, Answers, Running

\* The abstract and the concrete session begin alike.
LEMMA InitRefines == Init => Once!Init
  BY DEF Init, Once!Init, Present

\* What the end of a run changes.
LEMMA FinishTyped ==
  ASSUME Typed, NEW w \in Writers, NEW answer \in Answers, Finish(w, answer)
  PROVE  /\ pc' \in [Writers -> Labels] /\ told' \in [Writers -> Answers]
         /\ lock' \in Writers \cup {Missing, Orphan}
         /\ temps' \subseteq Writers \cup {Orphan}
  BY DEF Typed, Finish, Goto, Labels

\* A labelled process counter is one.
LEMMA GotoTyped ==
  ASSUME Typed, NEW w \in Writers, NEW label \in Labels, Goto(w, label)
  PROVE  pc' \in [Writers -> Labels]
  BY DEF Typed, Goto

\* A run answers for the content it finds, or goes on.
Reused(w) == target = content[w] /\ Finish(w, "reused")
GoesOn(w) == \E label \in Labels \ {"idle"} : Goto(w, label) /\ UNCHANGED told

\* The steps of a run, by what they do to the path.
LEMMA StepKinds ==
  ASSUME Typed, NEW w \in Writers, Step(w)
  PROVE  /\ Running(w) /\ UNCHANGED content
         /\ \/ UNCHANGED target /\ (Reused(w) \/ Refuse(w))
            \/ UNCHANGED target /\ target = content[w] /\ Finish(w, "created")
            \/ /\ GoesOn(w) /\ temps' \subseteq temps \cup {w}
               /\ UNCHANGED lock \/ (lock = Missing /\ lock' = w) \/ lock' = Missing
               /\ \/ UNCHANGED target
                  \/ target = Empty /\ target' = Missing
                  \/ ~Present /\ target' = content[w]
  <1> USE DEF Refuse, Compare, Goto, GoesOn, Reused, Running, Labels
  <1>1. CASE CheckFirst(w)
    BY <1>1 DEF CheckFirst
  <1>2. CASE Stage(w)
    BY <1>2 DEF Stage
  <1>3. CASE Verify(w)
    BY <1>3 DEF Verify
  <1>4. CASE TakeLock(w)
    BY <1>4 DEF TakeLock
  <1>5. CASE CheckStaged(w)
    BY <1>5 DEF CheckStaged
  <1>6. CASE RemoveEmpty(w)
    BY <1>6 DEF RemoveEmpty
  <1>7. CASE Install(w)
    BY <1>7 DEF Install, InstallFails
  <1>8. CASE Unlock(w)
    BY <1>8 DEF Unlock
  <1>9. CASE Reload(w)
    BY <1>9 DEF Reload, Answer
  <1> QED
    BY <1>1, <1>2, <1>3, <1>4, <1>5, <1>6, <1>7, <1>8, <1>9 DEF Step

\* Every step ends a run, goes on, starts a run, kills one, or does nothing.
LEMMA TypedStep == Typed /\ [Next]_vars => Typed'
  <1> SUFFICES ASSUME Typed, [Next]_vars PROVE Typed'
    OBVIOUS
  <1>0. CASE UNCHANGED vars
    BY <1>0 DEF vars, Typed
  <1>1. ASSUME NEW w \in Writers, Start(w) PROVE Typed'
    BY <1>1 DEF Start, Goto, Typed, Labels, Answers
  <1>2. ASSUME NEW w \in Writers, Step(w) PROVE Typed'
    <2>1. content[w] \in Contents /\ {"reused", "refused", "created"} \subseteq Answers
      BY DEF Typed, Answers
    <2>2. CASE Reused(w) \/ Refuse(w) \/ Finish(w, "created")
      <3>1. target' = target
        BY <1>2, <2>2, StepKinds DEF Finish, Reused, Refuse, GoesOn, Goto, Typed, Labels
      <3>2. content' = content
        BY <1>2, StepKinds
      <3> QED
        BY <2>1, <2>2, <3>1, <3>2, FinishTyped DEF Reused, Refuse, Typed
    <2>3. CASE ~(Reused(w) \/ Refuse(w) \/ Finish(w, "created"))
      <3>1. /\ GoesOn(w) /\ temps' \subseteq temps \cup {w} /\ UNCHANGED content
            /\ lock' \in {lock, w, Missing}
            /\ target' \in {target, Missing, content[w]}
        BY <1>2, <2>3, StepKinds
      <3> QED
        BY <2>1, <3>1, GotoTyped DEF GoesOn, Typed
    <2> QED
      BY <2>2, <2>3
  <1>3. ASSUME NEW w \in Writers, Kill(w) PROVE Typed'
    BY <1>3 DEF Kill, Goto, Typed, Labels
  <1> QED
    BY <1>0, <1>1, <1>2, <1>3 DEF Next

\* A writer that has not ended has told nobody a result.
LEMMA UntoldStep == Typed /\ Untold /\ [Next]_vars => Untold'
  <1> SUFFICES ASSUME Typed, Untold, [Next]_vars PROVE Untold'
    OBVIOUS
  <1> USE DEF Untold, Running
  <1>0. CASE UNCHANGED vars
    BY <1>0 DEF vars
  <1>1. ASSUME NEW w \in Writers, Start(w) PROVE Untold'
    BY <1>1 DEF Start, Goto, Typed
  <1>2. ASSUME NEW w \in Writers, Step(w) PROVE Untold'
    BY <1>2, StepKinds DEF Reused, Refuse, Finish, GoesOn, Goto, Typed
  <1>3. ASSUME NEW w \in Writers, Kill(w) PROVE Untold'
    BY <1>3 DEF Kill, Goto, Typed
  <1> QED
    BY <1>0, <1>1, <1>2, <1>3 DEF Next

\* A writer that is not running has nothing beside the target.
LEMMA NothingLeftStep == Typed /\ NothingLeft /\ [Next]_vars => NothingLeft'
  <1> SUFFICES ASSUME Typed, NothingLeft, [Next]_vars PROVE NothingLeft'
    OBVIOUS
  <1> USE DEF NothingLeft, Running
  <1>0. CASE UNCHANGED vars
    BY <1>0 DEF vars
  <1>1. ASSUME NEW w \in Writers, Start(w) PROVE NothingLeft'
    BY <1>1 DEF Start, Goto, Typed
  <1>2. ASSUME NEW w \in Writers, Step(w) PROVE NothingLeft'
    BY <1>2, StepKinds DEF Reused, Refuse, Finish, GoesOn, Goto, Typed
  <1>3. ASSUME NEW w \in Writers, Kill(w) PROVE NothingLeft'
    BY <1>3 DEF Kill, Goto, Typed
  <1> QED
    BY <1>0, <1>1, <1>2, <1>3 DEF Next

-----------------------------------------------------------------------------
(* The refinement.                                                         *)

\* One step of an exporter is one step of the abstract path, or none.
LEMMA StepRefines == IInv /\ [Next]_vars => [Once!Next]_Once!vars
  <1> SUFFICES ASSUME IInv, [Next]_vars PROVE [Once!Next]_Once!vars
    OBVIOUS
  <1> DEFINE stored == IF Present THEN target ELSE Missing
  <1>0. CASE UNCHANGED vars
    BY <1>0 DEF vars, Once!vars, Present
  <1>1. ASSUME NEW w \in Writers, Start(w) PROVE Once!Next
    BY <1>1 DEF Start, Once!Next, Once!Ask, Present
  <1>2. ASSUME NEW w \in Writers, Step(w) PROVE [Once!Next]_Once!vars
    <2>1. told[w] = "nothing" /\ content[w] \in Contents /\ UNCHANGED content
      BY <1>2, StepKinds DEF IInv, Typed, Untold
    <2>2. CASE UNCHANGED target /\ Refuse(w)
      <3>1. Once!Refuse(w)
        BY <2>1, <2>2 DEF Refuse, Finish, Once!Refuse, Present
      <3> QED
        BY <3>1 DEF Once!Next
    <2>3. CASE /\ UNCHANGED target /\ target = content[w]
               /\ Finish(w, "reused") \/ Finish(w, "created")
      <3>1. Once!Succeed(w)
        BY <2>1, <2>3 DEF Finish, Once!Succeed, Present
      <3> QED
        BY <3>1 DEF Once!Next
    <2>4. CASE UNCHANGED told /\ (UNCHANGED target \/ (target = Empty /\ target' = Missing))
      BY <2>1, <2>4 DEF Once!vars, Present
    <2>5. CASE UNCHANGED told /\ ~Present /\ target' = content[w]
      <3>1. Once!Store(w)
        BY <2>1, <2>5 DEF Once!Store, Present
      <3> QED
        BY <3>1 DEF Once!Next
    <2> QED
      BY <1>2, <2>2, <2>3, <2>4, <2>5, StepKinds DEF IInv, Reused, GoesOn
  <1>3. ASSUME NEW w \in Writers, Kill(w) PROVE UNCHANGED Once!vars
    BY <1>3 DEF Kill, Once!vars, Present
  <1> QED
    BY <1>0, <1>1, <1>2, <1>3 DEF Next

-----------------------------------------------------------------------------
\* The invariant holds in every reachable state.
THEOREM Invariance == Spec => []IInv
  <1>1. IInv /\ [Next]_vars => IInv'
    BY TypedStep, UntoldStep, NothingLeftStep DEF IInv
  <1> QED
    BY <1>1, InitInv, PTL DEF Spec

\* A run that ends by itself leaves no staging directory, temporary or lock file
\* of its own (live_artifacts.py:108).
THEOREM NothingIsLeft == Spec => []NothingLeft
  <1>1. IInv => NothingLeft
    BY DEF IInv
  <1> QED
    BY <1>1, Invariance, PTL

\* Whatever exporters share a path, and wherever their processes are killed, the
\* path is written once (live_artifacts.py:96).
THEOREM WrittenOnce == Spec => RefinesWriteOnce
  <1> QED
    BY InitRefines, StepRefines, Invariance, PTL DEF Spec, RefinesWriteOnce

-----------------------------------------------------------------------------
(* The lock.                                                               *)

\* Between the lock and its release, the lock file is the run's own.
Guarded == {"recheck", "remove", "install", "unlock"}

LockHeld ==
  \A w \in Writers :
    /\ pc[w] = "unlock" => exporter.locks
    /\ exporter.locks /\ pc[w] \in Guarded => lock = w

\* The lock file is made by the run that goes on to look again, and only it, once
\* it is done, and a killed one take it from there.
LEMMA LockHeldStep == Typed /\ LockHeld /\ [Next]_vars => LockHeld'
  <1> SUFFICES ASSUME Typed, LockHeld, [Next]_vars PROVE LockHeld'
    OBVIOUS
  <1> USE DEF LockHeld, Guarded
  <1>0. CASE UNCHANGED vars
    BY <1>0 DEF vars
  <1>1. ASSUME NEW w \in Writers, Start(w) PROVE LockHeld'
    BY <1>1 DEF Start, Goto, Typed
  <1>2. ASSUME NEW w \in Writers, Step(w) PROVE LockHeld'
    <2> USE DEF Finish, Refuse, Compare, Goto, Typed
    <2>1. CASE CheckFirst(w)
      BY <2>1 DEF CheckFirst
    <2>2. CASE Stage(w)
      BY <2>2 DEF Stage
    <2>3. CASE Verify(w)
      BY <2>3 DEF Verify
    <2>4. CASE TakeLock(w)
      BY <2>4 DEF TakeLock
    <2>5. CASE CheckStaged(w)
      BY <2>5 DEF CheckStaged
    <2>6. CASE RemoveEmpty(w)
      BY <2>6 DEF RemoveEmpty
    <2>7. CASE Install(w)
      BY <2>7 DEF Install, InstallFails
    <2>8. CASE Unlock(w)
      BY <2>8 DEF Unlock
    <2>9. CASE Reload(w)
      BY <2>9 DEF Reload
    <2> QED
      BY <1>2, <2>1, <2>2, <2>3, <2>4, <2>5, <2>6, <2>7, <2>8, <2>9 DEF Step
  <1>3. ASSUME NEW w \in Writers, Kill(w) PROVE LockHeld'
    BY <1>3 DEF Kill, Goto, Typed
  <1> QED
    BY <1>0, <1>1, <1>2, <1>3 DEF Next

\* At most one run is between the lock and its release.
OneHolder ==
  exporter.locks => \A v, w \in Writers : pc[v] \in Guarded /\ pc[w] \in Guarded => v = w

\* What the unlink of the finally clause removes is the run's own lock file.
UnlocksItsOwn == \A w \in Writers : Unlock(w) => lock = w

\* Two generators of one bundle are never both between the lock and its release,
\* and none unlinks the lock file of another, or of a killed run, although the
\* unlink names no owner (primary_generation_io.py:140).
THEOREM LockIsOwn == Spec => []OneHolder /\ [][UnlocksItsOwn]_vars
  <1>1. Init => LockHeld
    BY Zenon DEF Init, LockHeld, Guarded
  <1>2. LockHeld => OneHolder
    BY DEF LockHeld, OneHolder
  <1>3. LockHeld => UnlocksItsOwn
    BY DEF LockHeld, UnlocksItsOwn, Unlock, Guarded
  <1>4. IInv => Typed
    BY DEF IInv
  <1> QED
    BY <1>1, <1>2, <1>3, <1>4, LockHeldStep, Invariance, PTL DEF Spec

-----------------------------------------------------------------------------
(* How long a run is: a bound on the system calls it still has to make.    *)

\* The longest way from each label to the end of the run.
Ahead == [check |-> 9, stage |-> 8, verify |-> 7, lock |-> 6, recheck |-> 5,
          remove |-> 4, install |-> 3, unlock |-> 2, reload |-> 1, idle |-> 0]

CallsLeft(w) == Ahead[pc[w]]

\* A step of a run leaves every other run where it is.
LEMMA StepIsOwn ==
  ASSUME Typed, NEW w \in Writers, Step(w)
  PROVE  \E label \in Labels : Goto(w, label) /\ Ahead[label] < Ahead[pc[w]]
  <1> USE DEF Finish, Refuse, Compare, Labels, Ahead
  <1>1. CASE CheckFirst(w)
    BY <1>1 DEF CheckFirst
  <1>2. CASE Stage(w)
    BY <1>2 DEF Stage
  <1>3. CASE Verify(w)
    BY <1>3 DEF Verify
  <1>4. CASE TakeLock(w)
    BY <1>4 DEF TakeLock
  <1>5. CASE CheckStaged(w)
    BY <1>5 DEF CheckStaged
  <1>6. CASE RemoveEmpty(w)
    BY <1>6 DEF RemoveEmpty
  <1>7. CASE Install(w)
    BY <1>7 DEF Install, InstallFails
  <1>8. CASE Unlock(w)
    BY <1>8 DEF Unlock
  <1>9. CASE Reload(w)
    BY <1>9 DEF Reload
  <1> QED
    BY <1>1, <1>2, <1>3, <1>4, <1>5, <1>6, <1>7, <1>8, <1>9 DEF Step

\* Every label has its bound, and only a run that has ended has no call left.
LEMMA CallsLeftIsCount ==
  Typed => \A w \in Writers : CallsLeft(w) \in 0 .. 9 /\ (CallsLeft(w) = 0 <=> ~Running(w))
  <1> SUFFICES ASSUME Typed, NEW w \in Writers
               PROVE  CallsLeft(w) \in 0 .. 9 /\ (CallsLeft(w) = 0 <=> ~Running(w))
    OBVIOUS
  <1>1. pc[w] \in Labels
    BY DEF Typed
  <1> QED
    BY <1>1 DEF CallsLeft, Ahead, Labels, Running

\* What a step of any kind does to the calls a run has left.
Advances ==
  \A w \in Writers :
    /\ Step(w) => CallsLeft(w)' < CallsLeft(w)
    /\ Running(w) => CallsLeft(w)' =< CallsLeft(w)

\* A run's own step takes from its calls, another's leaves them.
LEMMA NextAdvances == Typed /\ Next => Advances
  <1> SUFFICES ASSUME Typed, Next, NEW w \in Writers
               PROVE  /\ Step(w) => CallsLeft(w)' < CallsLeft(w)
                      /\ Running(w) => CallsLeft(w)' =< CallsLeft(w)
    BY DEF Advances
  <1>1. pc \in [Writers -> Labels] /\ CallsLeft(w) \in 0 .. 9
    BY CallsLeftIsCount DEF Typed
  <1>2. ASSUME Step(w) PROVE CallsLeft(w)' < CallsLeft(w)
    <2>1. PICK label \in Labels : Goto(w, label) /\ Ahead[label] < Ahead[pc[w]]
      BY <1>2, StepIsOwn
    <2> QED
      BY <2>1, <1>1 DEF Goto, CallsLeft
  <1>3. ASSUME NEW v \in Writers, Start(v) \/ Step(v) \/ Kill(v), Running(w)
        PROVE  CallsLeft(w)' =< CallsLeft(w)
    <2>1. CASE Step(v)
      <3>1. PICK label \in Labels : Goto(v, label) /\ Ahead[label] < Ahead[pc[v]]
        BY <2>1, StepIsOwn
      <3>2. Ahead[label] \in Nat /\ Ahead[pc[v]] \in Nat
        BY <1>1 DEF Labels, Ahead
      <3>3. CASE v = w
        BY <3>1, <3>2, <3>3, <1>1 DEF Goto, CallsLeft
      <3>4. CASE v # w
        BY <3>1, <3>4, <1>1 DEF Goto, CallsLeft
      <3> QED
        BY <3>3, <3>4
    <2>2. CASE Start(v)
      BY <2>2, <1>1, <1>3 DEF Start, Running, Goto, CallsLeft
    <2>3. CASE Kill(v)
      BY <2>3, <1>1 DEF Kill, Goto, CallsLeft, Ahead, Labels
    <2> QED
      BY <1>3, <2>1, <2>2, <2>3
  <1> QED
    BY <1>2, <1>3 DEF Next

\* No run waits for another: whatever the others do, and wherever they are
\* killed, each of its own steps takes from the at most nine a run has left, and
\* it is over exactly when it has none left (at the lock it is refused instead of
\* waiting, primary_generation_io.py:122).
THEOREM RunIsBounded ==
  Spec => /\ []\A w \in Writers : CallsLeft(w) \in 0 .. 9 /\ (CallsLeft(w) = 0 <=> ~Running(w))
          /\ [][Advances]_vars
  <1> DEFINE Exact == \A w \in Writers :
                        CallsLeft(w) \in 0 .. 9 /\ (CallsLeft(w) = 0 <=> ~Running(w))
  <1>1. Typed => Exact
    BY CallsLeftIsCount
  <1>2. IInv => Typed
    BY DEF IInv
  <1>3. Typed /\ [Next]_vars => [Advances]_vars
    BY NextAdvances
  <1> HIDE DEF Exact
  <1>4. Spec => []Exact /\ [][Advances]_vars
    BY <1>1, <1>2, <1>3, Invariance, PTL DEF Spec
  <1> QED
    BY <1>4 DEF Exact

=============================================================================
