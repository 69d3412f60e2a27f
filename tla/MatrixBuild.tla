---------------------------- MODULE MatrixBuild ----------------------------
(***************************************************************************)
(* The construction of a matrix manifest (matrix/builders.py) from grid    *)
(* points, the four-condition pairing of trials.py, the checks of          *)
(* MatrixManifest (matrix/manifest.py), and the resources of its cells     *)
(* (matrix/primary_generation.py, matrix/live_run_config.py).              *)
(*                                                                         *)
(* A content address is the content: a cell is a trial's condition, its    *)
(* restoration index and its fault manifest.                               *)
(***************************************************************************)
EXTENDS FaultOperators

CONSTANTS
  GridOperators,  \* CORE_OPERATOR_IDS
  GridLevels,     \* the registered severities
  Horizon,        \* action_horizon of the frozen task
  FocusedBudgets, \* the observation budgets a focused matrix is run with
  Specs,          \* the fault windows a primary matrix is generated for
  PointSets       \* the sets of points a focused matrix is built from

NoFault   == [operator |-> "none", level |-> 0, start |-> 0, stop |-> 0,
              slots |-> <<>>, declared |-> FALSE, supplied |-> <<>>]
NoRestore == -1
NoSpec    == [start |-> 0, restore |-> 0, stop |-> 0, cycles |-> 0, steps |-> 0]

ASSUME MatrixBuildAssumption ==
  /\ GridOperators \subseteq OperatorIds /\ GridLevels \subseteq 1 .. 5
  /\ Horizon \in Nat \ {0} /\ FocusedBudgets \subseteq Nat \ {0}
  /\ \A s \in Specs :
       s \in [start : Nat, restore : Nat, stop : Nat, cycles : Nat, steps : Nat]
  /\ \A set \in PointSets : \A p \in set :
       /\ p = [focus |-> p.focus, fault |-> p.fault, restore |-> p.restore]
       /\ p.restore \in Int
       /\ p.fault \in [operator : OperatorIds, level : 1 .. 5, start : Nat, stop : Nat,
                      slots : Seq(Slots), declared : BOOLEAN, supplied : Seq(Nat)]

VARIABLES
  stage,    \* "faults", "points", "manifest", "resources", "done", "refused"
  kind,     \* "primary" or "focused"
  spec,     \* the window of a primary matrix, or NoSpec
  points,   \* the grid points not built yet
  cells,    \* cells_by_address
  rows,     \* the comparisons
  resources \* the resource entry of each cell, once written

vars == <<stage, kind, spec, points, cells, rows, resources>>

-----------------------------------------------------------------------------
(* Points.                                                                 *)

Fault(operator, level, start, stop) ==
  [operator |-> operator, level |-> level, start |-> start, stop |-> stop,
   slots |-> <<"left", "right">>, declared |-> FALSE, supplied |-> <<>>]

Point(focus, fault, restore) == [focus |-> focus, fault |-> fault, restore |-> restore]

\* What MatrixGridPoint accepts, and of it what a matrix is built from.
PointOK(point) ==
  /\ Registered(point.fault)
  /\ point.fault.start < point.restore /\ point.restore < point.fault.stop

Buildable(point) == PointOK(point) /\ ~point.fault.declared

\* PrimaryMatrixGenerationSpec: start < restoration < stop =< observations, one
\* observation more than control cycles.
SpecOK(s) ==
  /\ s.start < s.restore /\ s.restore < s.stop /\ s.stop =< s.steps
  /\ s.steps = s.cycles + 1

GridFaults(s) ==
  {Fault(operator, level, s.start, s.stop) : operator \in GridOperators,
                                             level \in GridLevels}

GridPoints(s) == {Point(<<f.operator, f.level>>, f, s.restore) : f \in GridFaults(s)}

-----------------------------------------------------------------------------
(* Trials and cells.                                                       *)

Cell(condition, fault, restore) ==
  [condition |-> condition, fault |-> fault, restore |-> restore]

CleanCell   == Cell("clean", NoFault, NoRestore)
NoTouchCell == Cell("no_touch", NoFault, NoRestore)

Restored(point) == Reparameterized(point.fault, point.fault.level, point.restore)

\* The fields build_paired_trial_grid wants equal in both manifests.
Invariants(m) == <<m.operator, m.level, m.start, m.slots, m.declared>>

\* Mutant of SameInstance: the static parameters are not compared.
SameInvariants(fault, restored) == Invariants(fault) = Invariants(restored)

SameInstance(fault, restored) ==
  /\ Invariants(fault) = Invariants(restored)
  /\ StaticParameters(fault) = StaticParameters(restored)

Pairable(point) ==
  /\ SameInstance(point.fault, Restored(point))
  /\ Restored(point).stop = point.restore
  /\ point.fault.stop > point.restore

\* Mutant of Row: the restored cell is addressed by the faulted manifest.
RowOfFaulted(point) ==
  [point |-> point, operator |-> point.fault.operator, level |-> point.fault.level,
   restore |-> point.restore, clean |-> CleanCell, no_touch |-> NoTouchCell,
   faulted  |-> Cell("faulted", point.fault, NoRestore),
   restored |-> Cell("restored", point.fault, point.restore)]

Row(point) ==
  [point |-> point, operator |-> point.fault.operator, level |-> point.fault.level,
   restore |-> point.restore, clean |-> CleanCell, no_touch |-> NoTouchCell,
   faulted  |-> Cell("faulted", point.fault, NoRestore),
   restored |-> Cell("restored", Restored(point), point.restore)]

RowCells(row) == {row.clean, row.no_touch, row.faulted, row.restored}

-----------------------------------------------------------------------------
(* What MatrixManifest accepts.                                            *)

RowAccepted(row, inventory) ==
  /\ RowCells(row) \subseteq inventory
  /\ row.clean.condition = "clean"     /\ row.no_touch.condition = "no_touch"
  /\ row.faulted.condition = "faulted" /\ row.restored.condition = "restored"
  /\ \A cell \in {row.faulted, row.restored} :
       cell.fault.operator = row.operator /\ cell.fault.level = row.level
  /\ SameInstance(row.faulted.fault, row.restored.fault)
  /\ row.restored.fault.stop = row.restore /\ row.faulted.fault.stop > row.restore
  /\ row.restored.restore = row.restore
  /\ row.point = Point(row.point.focus, row.faulted.fault, row.restore)

Accepted(inventory, comparisons, shape) ==
  /\ comparisons # {}
  /\ \A cell \in inventory : cell.fault = NoFault \/ ~cell.fault.declared
  /\ Cardinality({cell \in inventory : cell.condition = "clean"}) = 1
  /\ Cardinality({cell \in inventory : cell.condition = "no_touch"}) = 1
  /\ \A a, b \in comparisons : a.point = b.point => a = b
  /\ \A row \in comparisons : RowAccepted(row, inventory)
  /\ UNION {RowCells(row) : row \in comparisons} = inventory
  /\ shape = "primary" =>
       /\ Cardinality(comparisons) = Cardinality(GridOperators \X GridLevels)
       /\ {<<row.operator, row.level>> : row \in comparisons}
            = GridOperators \X GridLevels

-----------------------------------------------------------------------------
(* Construction.                                                           *)

Init ==
  /\ cells = {} /\ rows = {} /\ resources = <<>>
  /\ \/ /\ kind = "primary" /\ spec \in {s \in Specs : SpecOK(s)}
        /\ stage = "faults" /\ points = {}
     \/ /\ kind = "focused" /\ spec = NoSpec /\ stage = "points"
        /\ points \in {set \in PointSets : set # {} /\ \A p \in set : Buildable(p)}

\* _write_bundle up to the builder: the control budget is the task's horizon, and
\* _fault_manifests makes every operator at every severity, or one is refused.
MakeFaults ==
  /\ stage = "faults"
  /\ IF spec.cycles = Horizon /\ \A f \in GridFaults(spec) : Registered(f)
     THEN stage' = "points" /\ points' = GridPoints(spec)
     ELSE stage' = "refused" /\ UNCHANGED points
  /\ UNCHANGED <<kind, spec, cells, rows, resources>>

\* One iteration of the loop over the points. They are sorted by operator and
\* severity; nothing but the order of the file depends on it.
BuildPoint(point) ==
  /\ stage = "points" /\ point \in points
  /\ Pairable(point)
  /\ points' = points \ {point}
  /\ cells' = cells \cup RowCells(Row(point))
  /\ rows' = rows \cup {Row(point)}
  /\ stage' = IF points' = {} THEN "manifest" ELSE stage
  /\ UNCHANGED <<kind, spec, resources>>

\* "faulted/restored manifests must share one operator instance"
RefusePoint(point) ==
  /\ stage = "points" /\ point \in points
  /\ ~Pairable(point)
  /\ stage' = "refused"
  /\ UNCHANGED <<kind, spec, points, cells, rows, resources>>

MakeManifest ==
  /\ stage = "manifest"
  /\ Accepted(cells, rows, kind)
  /\ stage' = "resources"
  /\ UNCHANGED <<kind, spec, points, cells, rows, resources>>

\* Mutant of Resource: the rest reference is taken from any fault.
ResourceAnyFault(cell) ==
  [fault    |-> cell.fault,
   rest     |-> cell.fault # NoFault,
   no_touch |-> cell.condition = "no_touch"]

\* _resource_paths: which files each cell's request will name.
Resource(cell) ==
  [fault    |-> cell.fault,
   rest     |-> cell.fault # NoFault /\ cell.fault.operator \in RestReferenced,
   no_touch |-> cell.condition = "no_touch"]

WriteResources ==
  /\ stage = "resources"
  /\ resources' = [cell \in cells |-> Resource(cell)]
  /\ stage' = "done"
  /\ UNCHANGED <<kind, spec, points, cells, rows>>

-----------------------------------------------------------------------------
(* The request of a cell (matrix/live_executor_contracts.py) and what loads  *)
(* it (execution/contracts.py, execution/loading.py). A path is the file it  *)
(* names, or NoFault.                                                          *)

Request(cell, resource) ==
  [condition |-> cell.condition, restore |-> cell.restore,
   fault     |-> resource.fault,
   rest      |-> resource.rest,
   control   |-> cell.condition = "no_touch",                   \* the matched system id
   no_touch  |-> cell.condition = "no_touch" /\ resource.no_touch] \* and its artifact

Tactile(condition) == condition \in {"faulted", "restored"}

\* _validate_resources
ResourceFits(condition, resource) ==
  /\ Tactile(condition) <=> resource.fault # NoFault
  /\ resource.no_touch <=> condition = "no_touch"
  /\ resource.rest => Tactile(condition)

\* _validate_condition
RequestOK(request) ==
  /\ Tactile(request.condition) <=> request.fault # NoFault
  /\ request.rest => Tactile(request.condition)
  /\ request.control = request.no_touch
  /\ request.control => request.condition = "no_touch"
  /\ request.condition = "restored" <=> request.restore # NoRestore

\* load_live_univtac_run, _validate_fault_links
Loadable(request, steps) ==
  /\ request.condition = "no_touch" => request.control
  /\ steps =< Horizon + 1
  /\ request.fault # NoFault =>
       /\ request.rest <=> request.fault.operator \in RestReferenced
       /\ request.fault.start < steps
       /\ request.condition = "restored" => request.restore = request.fault.stop

\* The trial and the fault that the loaded request stands for.
LoadedCell(request) == Cell(request.condition, request.fault, request.restore)

\* materialize_live_matrix_request returns.
Materializes(cell, resource, steps) ==
  LET request == Request(cell, resource)
  IN /\ ResourceFits(cell.condition, resource)
     /\ RequestOK(request) /\ Loadable(request, steps)
     /\ LoadedCell(request) = cell

Next ==
  \/ MakeFaults \/ MakeManifest \/ WriteResources
  \/ \E point \in points : BuildPoint(point) \/ RefusePoint(point)

Spec == Init /\ [][Next]_vars

-----------------------------------------------------------------------------
(* Properties.                                                             *)

\* The window decides: a primary matrix is refused exactly when its budget is not
\* the task's horizon or some severity does not fit the window, T1 before its
\* warm-up or T2 with a hold that the restored window cuts
\* (primary_generation.py:211, operator_parameters.py:149, trials.py:321).
LongestDose(operator) ==
  Max({0} \cup {Lags[operator][level] : level \in
                  IF operator \in GridOperators THEN GridLevels ELSE {}})

WindowDecides ==
  kind = "primary" /\ stage \in {"done", "refused"} =>
    (stage = "done" <=> /\ spec.cycles = Horizon
                        /\ spec.start >= LongestDose("T1")
                        /\ spec.restore - spec.start >= LongestDose("T2"))

\* What the builder makes of points is what MatrixManifest accepts: the two
\* are written separately, and a matrix must not die on its own manifest
\* (matrix/builders.py:215 against matrix/manifest.py:60).
ManifestAcceptsBuilder == stage = "manifest" => Accepted(cells, rows, kind)

\* Every cell of a generated matrix can be run: its resources make a request
\* that is accepted, loads, and loads as exactly this cell. A primary matrix
\* brings its own budget; a cell of a focused one is refused for no other reason
\* than that the budget exceeds the task's horizon or ends before the cell's fault
\* starts (matrix/live_executor_contracts.py:107, execution/loading.py:302).
InBudget(cell, budget) ==
  budget =< Horizon + 1 /\ (cell.fault # NoFault => cell.fault.start < budget)

EveryCellMaterializes ==
  stage = "done" =>
    \A cell \in cells :
      IF kind = "primary" THEN Materializes(cell, resources[cell], spec.steps)
      ELSE \A budget \in FocusedBudgets :
             Materializes(cell, resources[cell], budget) <=> InBudget(cell, budget)

\* What static_parameter_view's comment says: "Remove window-dependent schedules
\* for faulted/restored pairing" (operator_parameters.py:235). Two instances that
\* differ in their stop index only should then always pair.
PointsAlwaysPair == stage # "refused" \/ points = {}
=============================================================================
