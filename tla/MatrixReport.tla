---------------------------- MODULE MatrixReport ----------------------------
(***************************************************************************)
(* From the receipts of primary matrices to a report: the outcome of each  *)
(* cell (reporting/matrix_adapter.py, recovery_evidence_matrix.py), the    *)
(* aggregation (reporting/aggregation.py, cells.py, coverage.py) and the   *)
(* checks of the summary's own contracts (reporting/summary_contracts.py). *)
(*                                                                         *)
(* Several matrices of one grid, one for each pair of a task and an        *)
(* initial state, are aggregated together. A rate is a number of Units, an *)
(* optional value a set of at most one.                                    *)
(***************************************************************************)
EXTENDS MatrixBuild

CONSTANTS
  ReportedSpecs,   \* the primary windows whose matrices are run and reported
  Layouts,         \* sets of pairs <<task, pair key>>
  Inputs(_, _),    \* what the runs of a layout's cells may have left
  ReportingSpecs,  \* [operators, levels, qualified, gain]
  Unit             \* the rate of certain success

ASSUME MatrixReportAssumption ==
  /\ ReportedSpecs \subseteq Specs
  /\ \A layout \in Layouts : layout # {} /\ IsFiniteSet(layout)
  /\ \A rs \in ReportingSpecs :
       rs.operators # {} /\ rs.levels \in SUBSET (1 .. 5) \ {{}} /\ rs.gain > 0
  /\ Unit \in Nat \ {0}

VARIABLES
  results,   \* [states, evidence]: the cell states and the recovery sidecars
  reporting, \* the reporting spec
  report     \* the summary, once one is made

reportVars == <<results, reporting, report>>

NoResults == [states |-> <<>>, evidence |-> <<>>]
NoReport  == <<>>

-----------------------------------------------------------------------------
(* Outcomes.                                                               *)

\* A cell's state: its status and the terminal status of its artifact's result.
State(status, artifact) == [status |-> status, artifact |-> artifact]

Normal     == {"success", "task_failure", "early_stop", "timeout"}
NoArtifact == "none"

\* What from_closed_loop and the constructors of MatrixCellExecution leave.
CellStates ==
  {State("completed", terminal) : terminal \in Normal} \cup
  {State("crash", "crash"), State("crash", NoArtifact),
   State("unsupported", "unsupported_contract"), State("unsupported", NoArtifact),
   State("validator_rejected", "validator_rejected")}

ScoreIneligible == {"unsupported_contract", "validator_rejected"}

\* metrics.recovery_lag: the first of `run` consecutive samples inside the clean
\* envelope, counted from the restoration; inside[1] is the restored sample.
RecoveryLag(inside, run) ==
  LET starts == {i \in 1 .. Len(inside) - run + 1 :
                   \A j \in i .. i + run - 1 : inside[j]}
  IN IF starts = {} THEN {} ELSE {Min(starts) - 1}

CleanRoot(states, pair) == states[<<pair, CleanCell>>].artifact # NoArtifact

\* Evidence that the report may not use: its binding needs the root of the
\* clean artifact.
EvidenceUsable(input) ==
  \A key \in DOMAIN input.evidence :
    input.states[key].artifact # NoArtifact => CleanRoot(input.states, key[1])

\* Mutant of TerminalStatus: an unsupported cell without a trace is a crash.
TerminalAnyReceipt(state) ==
  IF state.artifact # NoArtifact THEN state.artifact ELSE "crash"

\* _receipt_only_outcome, and the result of the loaded artifact.
TerminalStatus(state) ==
  IF state.artifact # NoArtifact THEN state.artifact
  ELSE IF state.status = "unsupported" THEN "unsupported_contract" ELSE "crash"

\* _outcome_from_cell: sidecars are read for restored artifacts only.
OutcomeRecord(input, key) ==
  LET state    == input.states[key]
      terminal == TerminalStatus(state)
      sidecar  == key \in DOMAIN input.evidence /\ state.artifact # NoArtifact
  IN [terminal |-> terminal,
      eligible |-> terminal \notin ScoreIneligible,
      success  |-> terminal = "success",
      recovery |-> sidecar,
      lag      |-> IF sidecar THEN RecoveryLag(input.evidence[key].inside,
                                               input.evidence[key].run)
                              ELSE {}]

Outcomes(input) == [key \in DOMAIN input.states |-> OutcomeRecord(input, key)]

-----------------------------------------------------------------------------
(* Means.                                                                  *)

Mean(F) == SumFunction(F) \div Cardinality(DOMAIN F)

Rate(record) == IF record.success THEN Unit ELSE 0

The(optional) == CHOOSE value \in optional : TRUE

\* The mean of optional values if there are all of them.
MeanIfAll(F) ==
  IF \A x \in DOMAIN F : F[x] # {} THEN {Mean([x \in DOMAIN F |-> The(F[x])])} ELSE {}

Axis(operator) ==
  CASE operator \in Availability -> "availability" [] operator \in Fidelity -> "fidelity"
    [] operator \in Temporal -> "temporal"         [] OTHER -> "context"

Axes(operators) == {Axis(o) : o \in operators}

-----------------------------------------------------------------------------
(* Aggregation. `out` is Outcomes, `pairs` its layout, `rs` the spec.      *)

FaultedCells  == {cell \in cells : cell.condition = "faulted"}
Primary(rs)   == {cell \in FaultedCells : /\ cell.fault.operator \in rs.operators
                                          /\ cell.fault.level \in rs.levels}

Clean(out, pair)   == out[<<pair, CleanCell>>]
NoTouch(out, pair) == out[<<pair, NoTouchCell>>]
NoTouchRate(out, pair) ==
  IF NoTouch(out, pair).eligible THEN {Rate(NoTouch(out, pair))} ELSE {}

\* _pair_fault_scores: severities within an operator, operators within an axis,
\* axes within the pair.
PairScore(out, pair, rs) ==
  LET scored    == {cell \in Primary(rs) : out[<<pair, cell>>].eligible}
      operators == {cell.fault.operator : cell \in scored}
      OperatorRate(o) == Mean([cell \in {c \in scored : c.fault.operator = o} |->
                                 Rate(out[<<pair, cell>>])])
      AxisRate(a) == Mean([o \in {x \in operators : Axis(x) = a} |-> OperatorRate(o)])
  IN IF scored = {} THEN {} ELSE {Mean([a \in Axes(operators) |-> AxisRate(a)])}

\* paired_values
Paired(out, pairs, cell) ==
  {pair \in pairs : out[<<pair, cell>>].eligible /\ Clean(out, pair).eligible}

\* exact_mcnemar over at most two pairs: both discordant the same way is 1/2.
McNemar(out, paired, cell) ==
  LET lost   == {p \in paired : Clean(out, p).success /\ ~out[<<p, cell>>].success}
      gained == {p \in paired : ~Clean(out, p).success /\ out[<<p, cell>>].success}
  IN IF Cardinality(lost \cup gained) = 2 /\ {} \in {lost, gained}
     THEN Unit \div 2 ELSE Unit

\* build_operator_cells, before the Holm adjustment.
OperatorCell(out, pairs, cell) ==
  LET paired == Paired(out, pairs, cell)
      FaultRate(p)  == Rate(out[<<p, cell>>])
      Delta(p)      == FaultRate(p) - Rate(Clean(out, p))
      TouchDelta(p) == IF NoTouch(out, p).eligible
                       THEN {FaultRate(p) - Rate(NoTouch(out, p))} ELSE {}
  IN [requested |-> Cardinality(pairs), eligible |-> Cardinality(paired),
      rate  |-> IF paired = {} THEN {} ELSE {Mean([p \in paired |-> FaultRate(p)])},
      delta |-> IF paired = {} THEN {} ELSE {Mean([p \in paired |-> Delta(p)])},
      touch |-> IF paired = {} THEN {} ELSE MeanIfAll([p \in paired |-> TouchDelta(p)]),
      p     |-> IF paired = {} THEN {} ELSE {McNemar(out, paired, cell)}]

\* holm_bonferroni over the tested cells: of equal p-values the first has the
\* greatest factor, and the running maximum carries it to the others.
Holm(table) ==
  LET tested == {cell \in DOMAIN table : table[cell].p # {}}
      P(cell) == The(table[cell].p)
      Raised(cell) == Min({Unit, Cardinality({c \in tested : P(cell) =< P(c)}) * P(cell)})
  IN [cell \in tested |-> Max({Raised(c) : c \in {x \in tested : P(x) =< P(cell)}})]

\* Mutant of TaskComplete: the clean baseline may be ineligible.
TaskCompleteAnyClean(out, pairs, rs) ==
  {key \in pairs \X Primary(rs) : out[key].eligible} = pairs \X Primary(rs)

\* primary_task_score_complete over the pairs of one task.
TaskComplete(out, pairs, rs) ==
  {slot \in pairs \X rs.operators \X rs.levels :
     \E cell \in Primary(rs) :
       /\ cell.fault.operator = slot[2] /\ cell.fault.level = slot[3]
       /\ out[<<slot[1], cell>>].eligible /\ Clean(out, slot[1]).eligible}
  = pairs \X rs.operators \X rs.levels

Scoreable(out, pairs, rs) ==
  {pair \in pairs : /\ Clean(out, pair).eligible
                    /\ \E cell \in Primary(rs) : out[<<pair, cell>>].eligible}

\* Why a task has no tactile gain retention, in the order the code asks.
Withheld(out, pairs, rs, gain) ==
  IF ~rs.qualified THEN "matched_control_not_qualified"
  ELSE IF gain = {} THEN "matched_control_outcomes_ineligible"
  ELSE IF ~TaskComplete(out, pairs, rs) THEN "incomplete_or_ineligible_primary_grid"
  ELSE IF The(gain) =< rs.gain THEN "small_or_nonpositive_clean_gain"
  ELSE "none"

\* _task_summaries, for the pairs of one task of which some are scoreable.
TaskSummary(out, pairs, rs) ==
  LET scoreable == Scoreable(out, pairs, rs)
      CleanRate(p)  == Rate(Clean(out, p))
      score  == [p \in scoreable |-> The(PairScore(out, p, rs))]
      touch  == MeanIfAll([p \in scoreable |-> NoTouchRate(out, p)])
      clean  == Mean([p \in scoreable |-> CleanRate(p)])
      gain   == {clean - value : value \in touch}
      scored == {cell \in Primary(rs) : Paired(out, pairs, cell) # {}}
      operators == {cell.fault.operator : cell \in scored}
      CellRate(cell) == Mean([p \in Paired(out, pairs, cell) |-> Rate(out[<<p, cell>>])])
      OperatorRate(o) == Mean([cell \in {c \in scored : c.fault.operator = o} |->
                                 CellRate(cell)])
      AxisRate(a) == Mean([o \in {x \in operators : Axis(x) = a} |-> OperatorRate(o)])
  IN [pairs |-> Cardinality(scoreable),
      clean |-> clean, touch |-> touch, gain |-> gain,
      fault |-> Mean(score),
      delta |-> Mean([p \in scoreable |-> score[p] - CleanRate(p)]),
      touchDelta |-> IF touch = {} THEN {}
                     ELSE {Mean([p \in scoreable |-> score[p] - The(NoTouchRate(out, p))])},
      reason |-> Withheld(out, pairs, rs, gain),
      axis   |-> [a \in Axes(operators) |-> AxisRate(a)]]

\* build_coverage_summary
Coverage(out, pairs, rs) ==
  LET expected == Cardinality(pairs) * Cardinality(rs.operators) * Cardinality(rs.levels)
      observed == pairs \X Primary(rs)
      scored   == {key \in observed : out[key].eligible /\ Clean(out, key[1]).eligible}
      eligible == {key \in DOMAIN out : out[key].eligible}
  IN [requested |-> Cardinality(DOMAIN out), eligible |-> Cardinality(eligible),
      ineligible |-> Cardinality(DOMAIN out \ eligible),
      expected |-> expected, observed |-> Cardinality(observed),
      scored |-> Cardinality(scored),
      gridComplete  |-> Cardinality(observed) = expected,
      scoreComplete |-> Cardinality(scored) = expected]

\* build_recovery_summary; the lags stand for their mean and median.
Recovery(out) ==
  LET eligible  == {key \in DOMAIN out : out[key].recovery}
      recovered == {key \in eligible : out[key].lag # {}}
  IN [eligible |-> Cardinality(eligible), recovered |-> Cardinality(recovered),
      lags |-> UNION {out[key].lag : key \in recovered}]

Tasks(pairs) == {pair[1] : pair \in pairs}
PairsOf(task, pairs) == {pair \in pairs : pair[1] = task}

Aggregate(out, pairs, rs) ==
  LET table == [cell \in FaultedCells |-> OperatorCell(out, pairs, cell)]
      tasks == [task \in Tasks(pairs) |-> TaskSummary(out, PairsOf(task, pairs), rs)]
      scored == {cell \in Primary(rs) : table[cell].rate # {}}
  IN [tasks |-> tasks, cells |-> table, holm |-> Holm(table),
      worst |-> CHOOSE cell \in scored :
                  \A other \in scored : The(table[cell].rate) =< The(table[other].rate),
      recovery |-> Recovery(out), coverage |-> Coverage(out, pairs, rs),
      clean |-> Mean([t \in DOMAIN tasks |-> tasks[t].clean]),
      fault |-> Mean([t \in DOMAIN tasks |-> tasks[t].fault]),
      delta |-> Mean([t \in DOMAIN tasks |-> tasks[t].delta]),
      touch |-> MeanIfAll([t \in DOMAIN tasks |-> tasks[t].touch]),
      tgr   |-> \A t \in DOMAIN tasks : tasks[t].reason = "none"]

\* What aggregate_benchmark refuses: an operator of the spec that the grid does
\* not have, no scored cell, a task without a scoreable pair.
Aggregates(out, pairs, rs) ==
  /\ rs.operators \subseteq {cell.fault.operator : cell \in FaultedCells}
  /\ \E cell \in Primary(rs) : Paired(out, pairs, cell) # {}
  /\ \A task \in Tasks(pairs) : Scoreable(out, PairsOf(task, pairs), rs) # {}

IsRate(value) == value \in 0 .. Unit

\* The constructors of summary_contracts.py: CoverageSummary, RecoverySummary,
\* TaskSummary, OperatorCellSummary and the BenchmarkSummary of them.
CoverageAccepted(coverage) ==
  /\ coverage.eligible + coverage.ineligible = coverage.requested
  /\ coverage.scored =< coverage.observed /\ coverage.observed =< coverage.expected

RecoveryAccepted(recovery) == recovery.recovered =< recovery.eligible

TaskAccepted(task) ==
  /\ task.pairs > 0 /\ IsRate(task.clean) /\ IsRate(task.fault)
  /\ \A a \in DOMAIN task.axis : IsRate(task.axis[a])

CellAccepted(cell) ==
  /\ cell.eligible =< cell.requested
  /\ \A value \in cell.rate : IsRate(value)
  /\ (cell.rate = {}) = (cell.p = {})
  /\ cell.rate = {} => cell.touch = {}

SummaryAccepted(s) ==
  /\ CoverageAccepted(s.coverage) /\ RecoveryAccepted(s.recovery)
  /\ \A t \in DOMAIN s.tasks : TaskAccepted(s.tasks[t])
  /\ \A c \in DOMAIN s.cells : CellAccepted(s.cells[c])
  /\ \A c \in DOMAIN s.holm : IsRate(s.holm[c])
  /\ s.cells[s.worst].rate # {}
  /\ IsRate(s.clean) /\ IsRate(s.fault) /\ \A value \in s.touch : IsRate(value)

-----------------------------------------------------------------------------

ReportInit == Init /\ results = NoResults /\ reporting = NoReport /\ report = NoReport

Build == Next /\ UNCHANGED reportVars

\* A state for every cell of every pair, and sidecars of cells.
Complete(input, keys) ==
  /\ DOMAIN input.states = keys /\ DOMAIN input.evidence \subseteq keys
  /\ \A key \in keys : input.states[key] \in CellStates

\* The matrices of a layout are run to their end, one for each pair
\* (MatrixRun models how); a partial matrix is refused by load_matrix_summary.
RunMatrices ==
  /\ stage = "done" /\ kind = "primary" /\ spec \in ReportedSpecs
  /\ \E layout \in Layouts :
       results' \in {input \in Inputs(layout, cells) : Complete(input, layout \X cells)}
  /\ stage' = "run"
  /\ UNCHANGED <<kind, spec, points, cells, rows, resources, reporting, report>>

ReportedPairs == {key[1] : key \in DOMAIN results.states}

\* load_matrix_outcomes of each matrix, then aggregate_benchmark.
MakeReport(rs) ==
  LET out     == Outcomes(results)
      summary == Aggregate(out, ReportedPairs, rs)
      made    == /\ EvidenceUsable(results)
                 /\ Aggregates(out, ReportedPairs, rs)
                 /\ SummaryAccepted(summary)
  IN /\ stage = "run"
     /\ stage' = IF made THEN "reported" ELSE "unreported"
     /\ report' = IF made THEN summary ELSE NoReport
     /\ reporting' = rs
     /\ UNCHANGED <<kind, spec, points, cells, rows, resources, results>>

ReportNext == Build \/ RunMatrices \/ \E rs \in ReportingSpecs : MakeReport(rs)

ReportSpec == ReportInit /\ [][ReportNext]_<<vars, reportVars>>

-----------------------------------------------------------------------------
(* Properties.                                                             *)

ScorableState(state) ==
  state.status # "unsupported" /\ state.status # "validator_rejected"

\* A report is made whenever it can be: the grid has the operators of the spec,
\* every task has a pair whose clean trial and one primary fault were scored, and
\* a recovery sidecar has its clean artifact. One task without such a pair refuses
\* the report of all, and nothing else does: no summary that is computed dies in
\* the constructors that check it (aggregation.py:131, summary_contracts.py:82).
ReportDecides ==
  stage \in {"reported", "unreported"} =>
    (stage = "reported" <=>
       /\ reporting.operators \subseteq GridOperators
       /\ \A task \in Tasks(ReportedPairs) : \E pair \in PairsOf(task, ReportedPairs) :
            /\ ScorableState(results.states[<<pair, CleanCell>>])
            /\ \E cell \in Primary(reporting) : ScorableState(results.states[<<pair, cell>>])
       /\ \A key \in DOMAIN results.evidence :
            \/ results.states[key].artifact = NoArtifact
            \/ results.states[<<key[1], CleanCell>>].artifact # NoArtifact)

\* The coverage calls the primary score complete exactly when every primary trial
\* and every clean baseline was scored (coverage.py:30).
CoverageAgrees(s, rs) ==
  s.coverage.scoreComplete <=>
    \A pair \in ReportedPairs :
      /\ ScorableState(results.states[<<pair, CleanCell>>])
      /\ \A cell \in Primary(rs) : ScorableState(results.states[<<pair, cell>>])

\* A task's gain is withheld for an incomplete grid only if the coverage is
\* incomplete (coverage.py:95), and one that is not withheld, or for its size only,
\* compares baselines and faults of which all were scored.
GainsAgree(s, rs) ==
  \A t \in DOMAIN s.tasks :
    LET reason == s.tasks[t].reason
    IN /\ s.coverage.scoreComplete => reason # "incomplete_or_ineligible_primary_grid"
       /\ reason \in {"none", "small_or_nonpositive_clean_gain"} =>
            \A pair \in PairsOf(t, ReportedPairs) :
              /\ ScorableState(results.states[<<pair, CleanCell>>])
              /\ ScorableState(results.states[<<pair, NoTouchCell>>])
              /\ \A cell \in Primary(rs) :
                   ScorableState(results.states[<<pair, cell>>])

\* The worst cell of one matrix is no better than its macro rate.
WorstAgrees(s) ==
  Cardinality(ReportedPairs) = 1 => The(s.cells[s.worst].rate) =< s.fault

\* The adjusted p-values keep the order of the raw ones and are no smaller.
AdjustmentAgrees(s) ==
  \A a, b \in DOMAIN s.holm :
    /\ The(s.cells[a].p) =< s.holm[a]
    /\ The(s.cells[a].p) =< The(s.cells[b].p) => s.holm[a] =< s.holm[b]

\* A paired difference is the difference of the rates it is reported beside, over
\* the same pairs; a complete task's fault rate is the mean of its axis rates, which
\* are averaged in another order (aggregation.py:82 and :162).
MeansAgree(s) ==
  /\ s.delta = s.fault - s.clean
  /\ \A t \in DOMAIN s.tasks :
       LET task == s.tasks[t]
       IN /\ task.delta = task.fault - task.clean
          /\ s.coverage.scoreComplete => task.fault = Mean(task.axis)

\* The parts of a report that are computed apart agree.
ReportAgrees ==
  stage = "reported" =>
    /\ CoverageAgrees(report, reporting) /\ GainsAgree(report, reporting)
    /\ WorstAgrees(report) /\ AdjustmentAgrees(report) /\ MeansAgree(report)
=============================================================================
