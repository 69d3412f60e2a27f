---------------------------- MODULE IsaacBackend ----------------------------
(***************************************************************************)
(* The UniVTAC backend (backends/univtac_isaac.py): one simulator task,    *)
(* reset once, observed once, driven by batches of actions whose rows are  *)
(* executed and converted one by one.  The simulator is external: every    *)
(* call may raise, a frame may be unusable, its step counter may be off.   *)
(*                                                                         *)
(* A frame is its native step and the indentation at each tactile slot;    *)
(* images and joints are left out.                                         *)
(***************************************************************************)
EXTENDS Integers, SequencesExt

CONSTANTS
  Horizon,            \* the task's action_horizon
  PhysicsSteps,       \* physics_steps_per_action
  OnThreshold, OffThreshold,  \* of the depth phase tracker
  DepthFrames,        \* the indentations a frame may show, by slot
  InitialSteps,       \* native steps a reset may leave the simulator at
  EarlyStopCapable,   \* the task has a check_early_stop
  MaxNative           \* bound: native steps a failing simulator goes on for

ASSUME BackendAssumption ==
  /\ {Horizon, PhysicsSteps} \subseteq Nat \ {0}
  /\ OffThreshold \in Nat /\ OnThreshold \in Nat /\ OffThreshold < OnThreshold
  /\ DepthFrames # {} /\ DepthFrames \subseteq [{"left", "right"} -> Nat]
  /\ InitialSteps # {} /\ InitialSteps \subseteq Nat
  /\ EarlyStopCapable \in BOOLEAN /\ MaxNative \in Nat

VARIABLES
  backend,     \* the backend's own fields
  simulator,   \* its native step, the calls that released it
  rows,        \* rows of the batch execute() still has to run
  transitions, \* transitions of that batch
  records      \* history: every record accepted

backendVars == <<backend, simulator, rows, transitions, records>>

NoStep == -1
Slots  == {"left", "right"}

NewBackend ==
  [attempted |-> FALSE, context |-> FALSE, cached |-> FALSE, delivered |-> FALSE,
   closed |-> FALSE, terminal |-> FALSE, step |-> 0, count |-> 0,
   native |-> NoStep, touching |-> [s \in Slots |-> FALSE]]

NewSimulator == [native |-> 0, released |-> 0]

BackendInit ==
  /\ backend = NewBackend /\ simulator = NewSimulator
  /\ rows = 0 /\ transitions = <<>> /\ records = <<>>

-----------------------------------------------------------------------------
(* Contact phases (DepthPhaseTracker).                                     *)

Touching(depth, before) ==
  IF before THEN depth > OffThreshold ELSE depth >= OnThreshold

Phase(depth, before) ==
  CASE  before /\  Touching(depth, before) -> "sustained"
    []  before /\ ~Touching(depth, before) -> "release"
    [] ~before /\  Touching(depth, before) -> "onset"
    [] OTHER -> "free"

\* convert_raw_observation: the record of a frame, and the contact after it.
Converted(step, native, depths) ==
  [step |-> step, native |-> native, depths |-> depths,
   phases |-> [s \in Slots |-> Phase(depths[s], backend.touching[s])]]

TouchingAfter(depths) ==
  [s \in Slots |-> Touching(depths[s], backend.touching[s])]

-----------------------------------------------------------------------------
\* reset: the return of the task's reset is dropped, a fresh frame is step 0.
ResetReturns ==
  /\ ~backend.closed /\ ~backend.attempted
  /\ \E depths \in DepthFrames, native \in InitialSteps :
       /\ simulator' = [simulator EXCEPT !.native = native]
       /\ records' = <<Converted(0, native, depths)>>
       /\ backend' = [backend EXCEPT
            !.attempted = TRUE, !.context = TRUE, !.cached = TRUE,
            !.native = native, !.touching = TouchingAfter(depths)]
  /\ UNCHANGED <<rows, transitions>>

\* `matches`: the task, prompt and action space are the configured ones.
ResetRefused(matches) ==
  /\ backend.closed \/ backend.attempted \/ ~matches
  /\ UNCHANGED backendVars

\* The task raises, or its first frame is unusable.
ResetFails ==
  /\ ~backend.closed /\ ~backend.attempted
  /\ \E converting \in BOOLEAN :
       backend' = [backend EXCEPT !.attempted = TRUE, !.context = converting]
  /\ UNCHANGED <<simulator, rows, transitions, records>>

\* observe() does not ask whether the backend was closed.
ObserveReturns ==
  /\ backend.cached /\ backend.context /\ ~backend.delivered
  /\ backend' = [backend EXCEPT !.delivered = TRUE]
  /\ UNCHANGED <<simulator, rows, transitions, records>>

ObserveRefused ==
  /\ ~(backend.cached /\ backend.context) \/ backend.delivered
  /\ UNCHANGED backendVars

-----------------------------------------------------------------------------
MayExecute ==
  backend.context /\ backend.delivered /\ ~backend.closed /\ ~backend.terminal

\* validate_action_batch looks at the whole batch before the first row.
ExecuteBegins(n) ==
  /\ MayExecute
  /\ rows' = n /\ transitions' = <<>>
  /\ UNCHANGED <<backend, simulator, records>>

ExecuteRefused ==
  /\ ~MayExecute
  /\ UNCHANGED backendVars

\* resolve_backend_signal
Signal(success, failure, stop, reached) ==
  CASE success -> "success"
    [] ~success /\ failure -> "task_failure"
    [] ~success /\ ~failure /\ stop -> "early_stop"
    [] ~success /\ ~failure /\ ~stop /\ reached -> "timeout"
    [] OTHER -> "running"

\* The frame after an action is exactly one action later.
Continuous(native) == native = backend.native + PhysicsSteps

\* How far the simulator's counter moves in one call: not at all, by an
\* action, or by something else.
Advances == {0, PhysicsSteps, 2 * PhysicsSteps}

\* One row: take_action, a fresh frame, the continuity check, the task's
\* predicates, and only then the new state.
RowReturns ==
  /\ rows > 0
  /\ \E moved \in Advances, depths \in DepthFrames,
        success, failure \in BOOLEAN,
        stop \in IF EarlyStopCapable THEN BOOLEAN ELSE {FALSE} :
       LET native == simulator.native + moved
           step   == backend.step + 1
           count  == backend.count + 1
           signal == Signal(success, failure, stop, count >= Horizon)
           record == Converted(step, native, depths)
       IN /\ Continuous(native)
          /\ simulator' = [simulator EXCEPT !.native = native]
          /\ backend' = [backend EXCEPT
               !.step = step, !.count = count, !.native = native,
               !.touching = TouchingAfter(depths),
               !.terminal = signal # "running"]
          /\ transitions' = Append(transitions,
               [step |-> step, native |-> native, signal |-> signal])
          /\ records' = Append(records, record)
          /\ rows' = IF signal = "running" THEN rows - 1 ELSE 0

\* Bound: how often a caller goes on with a simulator that keeps failing.
MayFail(moved) == simulator.native + moved =< MaxNative /\ backend.count =< Horizon

\* Mutant of RowRaises: what the frame showed is taken over before the checks.
RowRaisesLate ==
  /\ rows > 0
  /\ \E moved \in Advances, counted \in {0, 1}, depths \in DepthFrames :
       /\ MayFail(moved)
       /\ simulator' = [simulator EXCEPT !.native = @ + moved]
       /\ backend' = [backend EXCEPT !.count = @ + counted,
            !.native = @ + moved, !.touching = TouchingAfter(depths)]
  /\ rows' = 0 /\ transitions' = <<>>
  /\ UNCHANGED records

\* take_action raises, and counts or not; the frame is unusable or not the
\* next one; a predicate is no Boolean.  The transitions so far are lost.
RowRaises ==
  /\ rows > 0
  /\ \E moved \in Advances, counted \in {0, 1} :
       /\ MayFail(moved)
       /\ simulator' = [simulator EXCEPT !.native = @ + moved]
       /\ backend' = [backend EXCEPT !.count = @ + counted]
  /\ rows' = 0 /\ transitions' = <<>>
  /\ UNCHANGED records

\* close() marks itself closed before it calls the runtime, so a second call
\* releases nothing even when the first one raised.
BackendCloses ==
  /\ IF backend.closed THEN UNCHANGED <<backend, simulator>>
     ELSE /\ backend' = [backend EXCEPT !.closed = TRUE]
          /\ simulator' = [simulator EXCEPT !.released = @ + 1]
  /\ UNCHANGED <<rows, transitions, records>>

-----------------------------------------------------------------------------
\* Contact at record n, said without the tracker: some record reached the
\* upper threshold and none since fell to the lower one.
InContact(s, n) ==
  \E i \in 1..n :
    /\ records[i].depths[s] >= OnThreshold
    /\ \A j \in i..n : records[j].depths[s] > OffThreshold

Reference(s, n) ==
  CASE  InContact(s, n) /\  (n > 1 /\ InContact(s, n - 1)) -> "sustained"
    []  InContact(s, n) /\ ~(n > 1 /\ InContact(s, n - 1)) -> "onset"
    [] ~InContact(s, n) /\  (n > 1 /\ InContact(s, n - 1)) -> "release"
    [] OTHER -> "free"

\* The records the backend accepts number the steps without a gap, lie one
\* action apart in the simulator, and carry the contact phases that the whole
\* sequence of indentations has, however many batches failed in between
\* (univtac_isaac.py:259-296, adapters/univtac.py:83-93).
RecordsFollowTheSimulator ==
  \A n \in DOMAIN records :
    /\ records[n].step = n - 1
    /\ records[n].native = records[1].native + (n - 1) * PhysicsSteps
    /\ \A s \in Slots : records[n].phases[s] = Reference(s, n)
=============================================================================
