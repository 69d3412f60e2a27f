--------------------------- MODULE MCMatrixBuild ---------------------------
(* MatrixReport for TLC: windows around the longest doses of a small grid,   *)
(* and the matrices of one of them run over one or two pairs.                *)
EXTENDS MatrixReport

Budgeted(start, restore, stop, cycles) ==
  [start |-> start, restore |-> restore, stop |-> stop,
   cycles |-> cycles, steps |-> cycles + 1]

Win(start, restore, stop) == Budgeted(start, restore, stop, Horizon)

\* And two windows with a budget beside the task's horizon.
MCSpecs ==
  {Win(start, restore, stop) : start \in 0 .. 5, restore \in 1 .. 11, stop \in 7 .. 14}
    \cup {Budgeted(start, 6, 7, cycles) : start \in 1 .. 2, cycles \in {12, 14}}

\* Points of three faults and two restorations; the held frames of T2 fit into
\* the window restored at 5 and not into the one restored at 3.
MCPoints ==
  {Point(focus, Fault(operator, 1, 2, 6), restore) :
     focus \in {"a", "b"}, operator \in {"T2", "F2", "A2"}, restore \in {3, 5}}

MCPointSets == UNION {kSubset(k, MCPoints) : k \in 1 .. 3}

MCReportedSpecs == {Win(2, 6, 7)}

MCLayouts ==
  {{<<"t1", "p1">>}, {<<"t1", "p1">>, <<"t1", "p2">>}, {<<"t1", "p1">>, <<"t2", "p2">>}}

\* Each pair runs uniformly by condition, but for a few cells.
Uniform == {[clean |-> "success", no_touch |-> "task_failure", faulted |-> "task_failure",
             restored |-> "success"],
            [clean |-> "task_failure", no_touch |-> "task_failure", faulted |-> "success",
             restored |-> "timeout"]}

Completed(base, pairs, inventory) ==
  [key \in pairs \X inventory |-> State("completed", base[key[1]][key[2].condition])]

\* One pair: one cell deviates, or two that count for a score; two pairs: one, or
\* two of the baselines and of the cells of two operators, in ways that change a
\* score.
Deviations(pairs, inventory) ==
  LET keys   == pairs \X inventory
      scored == {key \in keys : key[2].condition # "restored"}
      few    == {key \in scored : key[2] = CleanCell \/ key[2] = NoTouchCell \/
                                  (key[2].fault.operator # "T1" /\ key[2].fault.level = 2)}
      scores == {State("completed", "success"), State("crash", NoArtifact),
                 State("unsupported", NoArtifact)}
  IN UNION {[one -> CellStates] : one \in kSubset(1, keys)} \cup
     IF Cardinality(pairs) = 1
     THEN UNION {[two -> CellStates] : two \in kSubset(2, scored)}
     ELSE UNION {[two -> scores] : two \in kSubset(2, few)}

Sidecars == [inside : [1 .. 3 -> BOOLEAN], run : 1 .. 3]

\* One sidecar, of a restored cell that may have crashed as the clean one may.
WithEvidence(pairs, run) ==
  LET restored == Row(Point(<<"T2", 1>>, Fault("T2", 1, 2, 7), 6)).restored
  IN {[states   |-> [key \in {<<pair, cell>>} |-> state] @@ run,
       evidence |-> [key \in {<<pair, restored>>} |-> sidecar]] :
        pair \in pairs, cell \in {CleanCell, restored}, sidecar \in Sidecars,
        state \in {State("crash", NoArtifact), State("crash", "crash")}}

MCInputs(pairs, inventory) ==
  LET runs == {Completed(base, pairs, inventory) : base \in [pairs -> Uniform]}
  IN {[states |-> deviation @@ run, evidence |-> <<>>] :
        run \in runs, deviation \in Deviations(pairs, inventory)} \cup
     UNION {WithEvidence(pairs, run) : run \in runs}

MCReportingSpecs ==
  {[operators |-> {"T1", "T2", "F2"}, levels |-> {1, 2}, qualified |-> TRUE,  gain |-> 1],
   [operators |-> {"T2"},             levels |-> {2},    qualified |-> FALSE, gain |-> 1],
   [operators |-> {"T2", "A2"},       levels |-> {1, 2}, qualified |-> TRUE,  gain |-> 1]}
=============================================================================
