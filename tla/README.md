# RoboTactile benchmark: TLA+ verification

RoboTactile runs a robot policy in a tactile simulator under injected tactile
faults, one trial per cell of an experiment matrix, and scores the outcomes.
This directory holds TLA+ models of its core, the TLC configurations that check
them, and TLAPS proofs. Paths below are relative to
`src/robotactile_benchmark/`.

## 1. Inventory

| Component | State | Operations | Hard behaviour | What makes it correct |
|---|---|---|---|---|
| `transport/` N0 client | client state, server/cache epoch, generation, position, pending inference | handshake, reset, infer, commit (prepare + finalize), terminal, abort, close | acknowledgement lost or malformed after the gateway acted; request served after its timeout; gateway restart | an inference is committed at most once, on the cache it was inferred on; the client's view of the cache is right whenever it infers |
| `matrix/` runner and io | files of the output directory; loop state of a run | run_matrix: prepare, verify, reuse, defer, execute, publish, summarise, load | runs killed, interrupted, overlapping; check-then-publish | nothing published is replaced; summary and reports agree with receipts; bounded runs resume and finish |
| `closed_loop/` runner, delivery, results | stage, counts, action entries, traces, result, evidence | run_closed_loop_trial and its calls to backend, policy, session | any call may raise; budgets cut a batch; failures inside the crash path and the teardown | one coherent result and one evidence snapshot; success is earned; inference only on committed observations |
| `closed_loop/` gate: validators, `signature_validators.py` | none (pure) | validate_delivery, finalize | rules written apart from the operators; first, last and equal records of a schedule | a trace passes exactly when the operator did what its manifest says |
| `policies/` ACT, official ACT, N0 | pending plan, context, closed flag, client lease | reset, infer, commit, abort, close | chunk rules against budgets; abort after a half-done commit | a plan is committed or dropped exactly once; no lease outlives the trial |
| `streaming/`, `operators/` | source records, histories, processed count | deliver_one | cache trimming, window and schedule boundaries, history over skipped records | streaming equals the operator applied to the whole trace |
| `backends/` Isaac | open/reset/closed, step, native step, contact phases | reset, observe, execute, close | failure in a batch, terminal signal in a batch, calls after a failure | dense indices and exact native steps; phases with hysteresis; released once |
| `matrix/` builders, `manifest.py`, primary generation | generated bundle | build_primary_cells, build_focused_rows, materialize | pairing recomputed in three modules; windows at the doses | what is built is accepted, and every cell can be run |
| `execution/`, `matrix/live_*` | temporary directory, simulator, published artifact, receipt | load, launch, execute, export, publish, record | kill between any two steps, interrupts during construction, two publishers | receipts rest on published traces; simulators are released |
| exporters (`live_artifacts.py`, `matrix/primary_generation_io.py`, `calibration/request_artifacts.py`, ...) | target path, staging, lock file | stage, verify, lock, install, reload | two processes at one path, kills, leftovers | written once, nothing left behind |
| `reporting/` | none (pure), report | coverage, aggregate, recovery evidence | incomplete grids, missing receipts, means taken in three orders | a report is made exactly when it can be, and its parts agree |
| `calibration/`, `qualification/` | receipts | build_rest_reference, qualify | empty and boundary inputs, order of steps, revised registries | the selected rest frame is free of contact; a receipt is only issued for a refusal before any effect |
| codecs, adapters, deployment, integrations, CLI, field validation | none | convert, validate, print | field formats | assumed by the models, except where section 2 says otherwise |

How they interact: `run_matrix` calls the executor once per missing cell; the
live executor loads the cell's request, builds backend and policy, and calls
`run_closed_loop_trial_with_evidence`; the runner drives backend, policy and
delivery session in turn; the N0 policy turns `infer`/`commit` into calls of
`N0Client`, which talks to a gateway in another process; the evidence is
exported and its receipt returned to `run_matrix`. Everything is synchronous
calls inside one process, except the gateway (messages) and other matrix runs on
the same directory (shared files). The concurrency is therefore at these two
boundaries, and the rest of the difficulty is partial failure: any call may
raise half-way.

`PROJECT.json` lists every component with its status, and the hazards with the
line where each bites and the properties that cover it.

## 2. Modules

| Module | Models |
|---|---|
| `N0Client` | `transport/n0_client.py` with the checks of `n0_commit.py`, `n0_contracts.py`; the RPC boundary; the gateway |
| `N0CacheSession`, `MCN0Client` | abstract: a cache whose commits are atomic; the refinement mapping of N0Client to it |
| `MatrixRun`, `MCMatrixRun` | `matrix/runner.py`, `matrix/io.py`, `matrix/summary.py`; its symmetry |
| `ClosedLoopRunner` | `closed_loop/runner.py`, `runner_checks.py`, `delivery.py`, `result_hashes.py`, `results.py`, counting rules of `artifact_semantics.py` |
| `FaultOperators` | manifests, doses and schedules, and `operators/` as functions of a whole trace |
| `StreamingFaults`, `MCStreamingFaults` | `streaming/` record by record; EXTENDS FaultOperators |
| `DeliveryGate`, `MCDeliveryGate` | `validators.py`, `operator_validators.py`, `signature_validators.py`, `reference_signatures.py`, the export checks of a trace; EXTENDS FaultOperators |
| `MatrixBuild` | `matrix/builders.py`, `trials.py`, `matrix/manifest.py`, the resources of `primary_generation.py`, the request links; EXTENDS FaultOperators |
| `MatrixReport`, `MCMatrixBuild` | `reporting/matrix_adapter.py`, `aggregation.py`, `cells.py`, `coverage.py`, `summary_contracts.py`, `recovery_evidence*.py`; EXTENDS MatrixBuild |
| `WriteOnce` | abstract: a path whose first content stays |
| `Publication`, `MCPublication` | the fourteen exporters and the system calls they publish with; refines WriteOnce |
| `LiveExecution` | `matrix/live_executor.py` around `execution/live_univtac.py` and `backends/univtac_factory.py` |
| `IsaacBackend` | `backends/univtac_isaac.py` and `adapters/` depth phase tracker; the simulator |
| `Policies` | `policies/act.py`, `univtac_official_act.py`, `n0.py` |
| `ClosedLoopTrial` | the runner's loop over IsaacBackend and Policies (EXTENDS both) |
| `PolicyQualification` | `qualification/` around ClosedLoopTrial |
| `RestCalibration`, `MCClosedLoopTrial` | `calibration/` after a trial of ClosedLoopTrial; its instances |
| `N0ClientProofs`, `MatrixRunProofs`, `ClosedLoopRunnerProofs`, `ClosedLoopTrialProofs`, `FaultProofs`, `MatrixReportProofs`, `LiveExecutionProofs`, `PublicationProofs` | invariants and theorems, section 5 |

Definitions named as mutants in a comment (`FinalizeOneStep`, `LinkReplaces`,
...) are deliberately wrong variants of the definition they name; no
specification uses them. `PROJECT.json` pairs each property with one that
breaks it.

### N0Client

`state` is `N0Client.state`; `generation`, `epoch`, `position`, `pendingTx`,
`pendingStep`, `nextStep`, `counter` are its fields, 0 standing for `None` or the
empty epoch. Request id and transaction id advance together in `_identity` and
are one number. A call is three steps: the client sends (`Reset`, `Infer`,
`Commit`, `Abort`, `PrepareSucceeds`), the gateway handles it or the transport
fails (`Serve`, `ServeGarbled`, `LoseReply`, `LoseRequest`, `TimeOut`), the
client validates and returns (`...Succeeds`, `...Fails`). `HANDSHAKEN` lasts
between two assignments and is not observable; the handshake is one step. A call
refused before it changes anything (wrong state, wrong step, bad payload) is a
stutter.

Digests and arrays are abstracted: `_require_echo` and `validate_rpc_ack`
compare an acknowledgement with its request, so a reply either echoes the
request's id or does not. `Garbled` injects what the contract tests inject
(`tests/test_n0_transport_support.py`, `WrongFieldTransport`).

The gateway is not in the repository. Its operations are those of the test
double `FakeTransport`. Two constants say what the double leaves open:

- `LateDelivery`: a call may time out and be served later. The double is
  synchronous: FALSE.
- `CheckAuthority`: the gateway refuses a request whose `server_epoch`,
  `reset_generation`, `cache_epoch` or `cache_position` is not its own. The double
  ignores them; the client sends them, and calls its payload "exact authority
  fields consumed by the N0 gateway" (`transport/n0_commit.py:110`).

`N0Assumption` requires `CheckAuthority` as soon as requests may be late or the
gateway may restart. Without it the protocol is not safe: a late
finalize_commit would be applied to a later cache. This is an obligation on
the gateway that the models make explicit.

### MatrixRun

`manifest`, `receipts`, `summary` are the published files, `stray` a temporary
file of a killed process in `cells/`. Each process has the locals of `run_matrix`
(`cursor`, `states`, `executed`, `reused`, `execution`) and a program counter
with a step for each access to shared files: existence check, load, `mkstemp`,
`os.link`, `unlink`. File contents are compared, never looked into; a receipt is
its outcome and may differ between two executions of a cell. `Interrupt` is an
exception outside `Exception` (the `finally` still unlinks), `Kill` stops a
process where it stands. `MayChangeDuringRead` models the `st_ctime` comparison of
`_read_regular_file`: a reader may refuse a file whose temporary name is being
unlinked.

### ClosedLoopRunner

One action per stage of `_run_closed_loop_trial`, and one for its failure.
`Raise` is the `except` clause's case distinction on `reset_attempted`, `Crash` its
body, `Close` the `finally`. Backend, policy and clock may answer anything their
interfaces and `validate_batch` let pass, or raise after part of their work. A
trace is its length; an action entry is its source step and its number of actions.
`PartialDelivery` is what `deliver` leaves behind when one record of a batch
fails: with an operator, the record may be in the clean trace only
(`closed_loop/delivery.py:300-302`).

### FaultOperators and StreamingFaults

A trace is a sequence of records, a record its scene and a reading for each of two
slots: payload, hash, validity, contact phase, the source step and the faults marked
on it. Pixels are terms: a camera's frame at a step, or an operator applied to a frame
with what else the result depends on (level, step, history). Two payloads are equal
exactly when the code computes them from the same inputs, so a source taken from the
wrong step, slot or history shows as a different term. The doses are the registered
tables; Python's `round` (half to even) is modelled by what it does.

`FaultOperators!Batch(trace, manifest)` is what `FaultOperator.apply` makes of the
whole trace. `StreamingFaults` has one action per family of `deliver_one`, with
`_source_records` (`sources`), its insertion before and its trimming after the
operator, and F6's `_histories`. A source that is no longer there raises: the clean
record was received and nothing was delivered, and the session takes no further
record. `RequiredAge` is computed at the constructor as in `maximum_source_age`.

### DeliveryGate

The episode is a script of contact phases; the delivered trace is `Batch` of it, and
`Defect` alters a reading, a scene or the length, the way a faulty operator, session
or stored artifact could. `Validate` runs `Gate`: `validate_delivery` as sets of
failure codes, one operator per rule of `operator_validators.py` and
`signature_validators.py`, and the A2 resume rule of `delivery.py:328`, which only
the session applies. `atRest` is the episode whose frames all equal the rest frame:
there most transforms change no pixel. `TraceExports` is the exporter's record rules.

### MatrixBuild and MatrixReport

A content address is the content, so a cell is its condition, restoration index and
fault manifest. `stage` follows a matrix from fault manifests over grid points, rows
and manifest to the resources of its cells (`MakeFaults`, `BuildPoint`, `RefusePoint`,
`MakeManifest`, `WriteResources`); `Accepted` is `MatrixManifest`'s own recomputation
of the pairing, `Materializes` the link checks of `live_executor_contracts.py` and the
request loader. `Horizon` is the task's action horizon: generation refuses a primary
spec with another control budget (`primary_generation.py:211`), the loader refuses an
observation budget above the horizon and one (`execution/loading.py:302`). Nothing looks
at the budget when a focused matrix is built, so its cells are asked for under every
budget of `FocusedBudgets`, and `EveryCellMaterializes` says which of them load.

`MatrixReport` runs the generated matrices (`RunMatrices` picks a terminal state for
every cell and a recovery sidecar) and aggregates (`MakeReport`).
Rates are multiples of 1/32, which represents every mean that occurs exactly, where
the code compares floats; the p-value is the exact one for at most two discordant pairs,
as many as a run has, and properties use only that it is a rate;
`SummaryAccepted` is the constructors' cross-checks of the summary types.

### Publication and LiveExecution

Each exporter of the repository is a record of what tells it apart: whether it looks
first, locks, compares or refuses what it finds after staging, takes over an empty
directory, links or renames, and which errors of that call it handles. A process has a
step for each system call; `Kill` is possible before every one. What a killed run
leaves behind belongs to `Orphan`: no later run cleans it up. `Install` distinguishes
EEXIST from the ENOTEMPTY that `os.rename` gives on a directory that has content. The
lock of the primary matrix is a file: `Unlock` removes it after the rename and before
the published bundle is read again, as the `finally` clause of `publish_staging` does.

`LiveExecution` is one cell from `Begin` to `Record`. `owner` tells which of
launcher, factory and backend has to close the simulator, `stepped` the runs whose
trial has reset it. `Interrupt` unwinds as `KeyboardInterrupt` does: the clauses
that release a simulator during construction catch `Exception` only, so the model
leaves it open there. The publication of the trace is one step with the outcomes
`Publication` has for it, among them that the rename succeeds, the reload fails and
the cell is a crash although its trace is published.

### IsaacBackend, Policies, ClosedLoopTrial

`IsaacBackend` executes a batch row by row: `RowReturns` checks the step counter
(`Continuous`), updates the phases and appends a record, `RowRaises` stops with the
simulator moved or not. A frame is its native step and one indentation per slot;
the tracker has its two thresholds. `Policies` has the guards and field updates of each
method for strict ACT, the two official profiles and N0; a call of the N0 client is
one step here and is what `N0Client` specifies in detail. A failing call leaves the
client where its own `except` clauses do: reset and abort make it indeterminate once the
request was made, and an abort that fails keeps the policy's plan. `ClosedLoopTrial` drives
both under the budgets a request may have. When a component fails to close, a finished
trial becomes a crash, and an exception that leaves the runner stays what it was. The
caller `anyone` calls the backend in any order instead, as its tests do, also with a
context of another task, which `reset` refuses.

### PolicyQualification and RestCalibration

`PolicyQualification` rehashes reviewed sources, exercises the protocol once, and runs
one trial per structural absence operator through the real runner loop: the trial is
that of `ClosedLoopTrial`. `RestCalibration` takes a finished clean trial, selects the
middle of the longest contact-free run, and writes, loads and uses the reference in
separate processes. `ReviseRegistry` is an upgrade of the packaged registry between
two of them; which parts each process compares follows the code.

## 3. Runs

| Run | Module | Shows |
|---|---|---|
| `n0_late` | MCN0Client | at-most-once commit, cache agreement and the refinement of N0CacheSession with late requests and a restart |
| `matrix_resume` | MatrixRun | one run at a time, bounded and interrupted: never refused, nothing twice, completes |
| `matrix_overlap` | MCMatrixRun | two runs at a time, one of which may be killed, on equal or different manifests: nothing replaced, summary and reports true |
| `matrix_kill` | MatrixRun | a counterexample: a kill makes the directory unusable |
| `runner` | ClosedLoopRunner | all properties of one trial, over all conditions, operators and failures |
| `runner_export` | ClosedLoopRunner | a counterexample: a trial whose trace cannot be exported |
| `streaming` | MCStreamingFaults | every registered operator streams exactly its batch version from a bounded cache, inside its footprint |
| `gate` | MCDeliveryGate | a faithful delivery passes exactly when its fault is exposed; whatever passes is what the operator does; its records export |
| `build` | MCMatrixBuild | builders, manifest, resources and requests agree on every cell; the report is made exactly when it can be and agrees with itself |
| `publish` | MCPublication | all exporters, killed anywhere, write once, leave nothing when not killed, and end |
| `live` | LiveExecution | receipts rest on published traces, simulators are released, `unsupported` means nothing ran |
| `trial` | MCClosedLoopTrial | runner, backend and policies accept each other's calls; a crash has a cause; nothing stays held; qualification and calibration decide rightly |

Further configurations are kept for counterexamples to claims of comments and
documents, and for the smoke matrix; section 4 describes them: `gate_visible.cfg`,
`gate_export.cfg`, `smoke.cfg` (MCDeliveryGate), `build_pairs.cfg` (MCMatrixBuild),
`publish_equal.cfg`, `publish_lock.cfg` (MCPublication).

### Bounds

- `n0_late`: `MaxRpc` 7 is a reset and two chunks (infer, prepare, finalize), or a
  chunk, a failure, a reset and the late arrival of any of the requests.
  `MaxRestarts` 1: the client cannot tell a second restart from the first.
  `ChunkLen` 2 instead of 8 only scales decision steps; the proofs hold for all.
- Matrix: three cells give a reused, an executed and a deferred cell in one call;
  limits 1 and 3 are a bound that bites and one that equals the rest;
  `matrix_overlap` has two cells and limits 0, 1 and 2, so that one of two publishers
  may have nothing left to run. Two processes, manifests and outcomes suffice for
  every disagreement between two publishers. One kill and two interrupts are
  enough to leave and meet leftovers. Symmetry is used in the run without liveness.
  8,172 and 226,574 states.
- Runner: three cycles of up to two actions against four observations make the
  observation budget cut a batch and either budget end the loop; stop index 2 and
  last erasure 1 lie inside and at the end of traces of that length. 116,888 states.
- Streaming: episodes of up to five records with every window that starts inside and
  ends inside or one after, levels 1, 2 and 5 (lags below, at and beyond the
  episode), every order of slots. 308,826 states. The theorems lift the bounds.
- Gate: four scripts of four records hold every order of phases the signatures
  tell apart; one defect at level 1. A second defect would only add ways of not
  passing to a trace that one defect already made different.
- Build: operators T1, T2 and F2 (the two whose dose limits the window, and one
  without limit) at two levels; windows around the longest doses; task horizon 13, and
  focused budgets 2 (a fault starts after it), 7, 14 and 15 (one above the horizon
  allows); sets of up to three focused points; one pair, two pairs of a task, two pairs of two tasks. With
  one pair two cells deviate freely, with two pairs the cells that enter a score.
  48,996 states.
- Publish: three processes and four runs, so that one meets both a kill's leftover
  and a second publisher; two contents, equal or not. 289,346 states.
- Live: two runs, two traces, one kill or interrupt. 14,031 states.
- Trial: horizon 4, chunks of 2 and budgets around both, so that a budget cuts a chunk
  or not; three depth frames that are free, touch one side, and lie in the hysteresis
  band; `Minimums` 1 and 3; `MaxNative` bounds a simulator that goes on after a
  failed row. 1.7 million states.

`CHECK_DEADLOCK FALSE` is set where the program stops: the request bound of the
client is reached or it is closed, a trial, an episode, a matrix or a cell has ended,
all runs of the bound were made.

### Fairness

- `MatrixRun!FairSpec`: a process that runs takes its next step, and someone calls
  `run_matrix` again. That is the usage the documentation describes (repeated calls
  with `max_new_cells`). Interrupts are not fair and bounded. With
  a limit of 0 nothing would ever run, so `EventuallyComplete` is stated for limits
  of at least 1.
- `ClosedLoopRunner!FairSpec`: weak fairness of the runner's own step. Every call to
  backend, policy or clock returns or raises. The code has no means to interrupt a
  call that does not: the wall clock is read between cycles only.
- `Publication!Spec`: a process that is not killed makes its next system call. No
  exporter waits for another, so `RunsEnd` needs nothing of the others. `Start` is
  not fair: nobody has to publish.
- The other modules have no liveness property: N0Client never retries by itself,
  streaming, gate, build and trial are driven by their callers, and a live cell's
  progress is that of the trial and the publication.

## 4. Disagreements with the documentation

- `matrix_kill`: `docs/benchmark_workflow.md:368-369` says that after a partial run
  "subsequent calls resume without re-executing valid cells". A run killed between
  `mkstemp` and `unlink` (`matrix/io.py:253-270`) leaves `.<name>.*.tmp` in `cells/`,
  and `_reject_unknown_cell_members` (`matrix/io.py:288`) then refuses every call
  until someone removes the file by hand.
- `runner_export`: `docs/benchmark_workflow.md:364` says "The production executor
  exports each trace". `control_cycle_count` is incremented before
  `backend.execute` (`closed_loop/runner.py:174`), the action entry is added after
  a complete delivery (189). After a crash in between, the result has a cycle
  without an entry, `artifact_semantics.py:46` refuses it, and `run_matrix` records
  the exporter's exception instead of the trial's crash, without its trace.

The other counterexamples are not runs of `PROJECT.json`; each configuration shows one
when TLC is given it with the module named:

- `gate_export.cfg` (MCDeliveryGate, `FinalizedTraceExports`): the session adds
  `MISSING_RESUME` for A2 (`closed_loop/delivery.py:328`), the exporter recomputes the
  report without that rule and demands equality
  (`execution/live_artifacts_semantics.py:127-132`). An A2 trial that ends before a
  record after its last erasure is not exported, against
  `docs/benchmark_workflow.md:364`.
- `gate_visible.cfg` (MCDeliveryGate, `PassedChangedPixels`): a fidelity fault passes on
  its diagnostic dose (`operator_validators.py:94`) although the delivered pixels are
  the clean ones: F1 whose window is one record long has drifted by nothing. The
  message of line 97 speaks of an observable signature.
- `build_pairs.cfg` (MCMatrixBuild, `PointsAlwaysPair`): the hold of T2 is cut by the
  window (`operator_parameters.py:152`) and stays in the static view (:235), whose comment
  says that window-dependent schedules are removed. A point whose restoration cuts
  the hold is refused by the builder.
- `publish_equal.cfg` (MCPublication, `EqualContentReused`): two runs publish equal
  calibration requests; the rename of the second fails with ENOTEMPTY, which is not the
  FileExistsError handled at `calibration/request_artifacts.py:125`, while line 93
  promises to "reuse exact existing bytes".
- `publish_lock.cfg` (MCPublication, `RefusedOnlyWhileLocked`): a lock file left by a
  killed generation (`matrix/primary_generation_io.py:122`) refuses every later one,
  while `matrix/primary_generation.py:294` says "generate atomically or reuse".

`smoke.cfg` (MCDeliveryGate) has no counterexample: all seventy cells of the smoke
matrix pass. Three more observations have no property here. The tactile gain is
withheld when it equals the minimum (`reporting/aggregation.py:151`), where
`docs/benchmark_workflow.md:428` says smaller. An operator cell's paired difference
pools pairs, its interval weights tasks equally. A rest frame qualified under an
older phase tracker is not noticed when a single request is loaded
(`execution/loading.py:223`, `closed_loop/delivery.py:291`), only when a matrix is
generated.

## 5. Proofs

`N0ClientProofs` proves for every `ChunkLen`, `MaxRpc`, `MaxRestarts` and for
both kinds of gateway, under `N0Assumption` alone:

- `TypeCorrect`: `Spec => []TypeOK`
- `CommitsAtMostOnce`: `Spec => []CommitAtMostOnce`
- `CommitsOnInferredCache`: `Spec => []CommitOnInferredCache`
- `CacheAgrees`: `Spec => []CacheAgreement`

None of the last three is inductive. The invariant `IInv` adds, one named part
each:

- `CallShape`, `StepShape`: which call runs in which client state, and what it
  carries; decision steps are `ChunkLen` times the position.
- `Spent`, `OneFinalize`: a committed inference, or one whose finalize request is
  still under way, is older than the last request, and has one finalize request
  only. This is why nothing is committed twice: after a failed finalize the client
  is `indeterminate` and its next inference has a new identity.
- `InferRecorded`: what a finalize request names was really inferred, on the epoch
  and position it names.
- `Epochs`, `InSync`, `Lockstep`: the client's epoch is the gateway's or an older
  one, and while it is the gateway's, the positions agree up to the finalize under
  way. For a gateway that checks nothing, it always is the gateway's inside a
  session.
- `Known`, `Unknown`, `FreshReset`: what was acknowledged, what may have been applied
  without an acknowledgement, and that an acknowledged reset opens an empty epoch.

There is one lemma `<Part>Step` per part, from the parts it needs; each splits
`[Next]_vars` into the actions that disturb the part and one step for the others.
`Invariance` combines them. `IInv` was checked by TLC before it was proved.

It also proves `ImplementsCacheSession`: `Spec => RefinesCacheSession`. The mapping of
`MCN0Client` counts the commits applied to the client's epoch, so the proof needs
their number: `Count` derives it from the client's position, using `Tracked` (what may
still be applied is at the position after the last acknowledged entry).

`MatrixRunProofs`, for any number of processes, cells, manifests, limits, interrupts
and kills: `SummariesMatch`, `ReportsMatch`, `PublishedStays`, `ResultsAccount`. A summary
matches because it is written from states that match, after every cell has a receipt,
and receipts stay: `IInv` adds what the locals hold at each label (`Locals`), that a
process that found its receipt published finds its own outcome in it (`Found`), and
`SummaryLast`. `ResultsAccount` needs `Accounts`: the cells executed, reused and deferred
so far add up to the cursor, a cell is deferred only once the limit is used up, and
no cell at or after the cursor has a state yet.

Two theorems of it, `Resumable` and `CellsExecuteOnce`, hold under `Alone(p, m)`: one
process at a time, one manifest, no kill. Both claims are false without it
(`matrix_kill` for the first). `Undisturbed` says what one caller finds of its own earlier
calls, `Counted` that a run of a cell was lost to an interrupt, published, or is in hand.

`ClosedLoopRunnerProofs`, for every budget, plan length, stop index and last erasure:
`ResultsFit`, `SuccessStands`, `TeardownOnlyDowngrades`, `ResultsExport`. Whether a
result fits depends on what happened long before it is built; `Phases` keeps what each stage says of the reset,
the initial state and the signal, `Built` that the result is what the present counts
build, `Replaceable` that the teardown replaces a completed result only, `Earned` what
a success rests on before and after the teardown. `ResultsExport` needs `Told`: each
entry starts at the number of actions before it, and all together explain every
observation but the first (`Chained`); no budget is overdrawn, and neither is used up where
a cycle has started (`Bounded`); entries and cycles are counted together, except between
the backend's call and the end of its delivery (`Counted`). The exporter sums the actions
before each entry; since each source step was that sum, it is read off the entries.

`ClosedLoopTrialProofs` is about the five modules from `IsaacBackend` to `RestCalibration`
together, for every horizon, chunk length, budget, threshold and sequence of depth
frames: `RecordsFollowSimulator`, `CrashesHaveCauses`, `CycleBoundaries`, `NothingIsHeld`,
`ReceiptsAreEarned`, `ReferencesDecided`. None is inductive; one invariant carries all
(`TrialInvariant`), with a part for each component:

- `BackendInv`: the accepted records number the steps, the backend's native step is the
  one of the last record, and the phase tracker's contact is the one of the whole
  sequence of depths (the hysteresis decided at the last frame outside the band).
- `TrialInv`: which component calls are possible at each label, what the policy has
  pending when the batch is cut, who holds the plan and the lease, and how every
  way out reaches the teardown.
- `QualInv`: what the flags of a qualification say of the calls already made.
- `CalibrationInv`: what was calibrated is a trial that is over; a reference was made from
  a stretch of free records of a clean trial, and a refusal means none was long enough.

A statement about every earlier record of an unbounded sequence is proved by a least
counterexample (`LeastElement`, which rests on the library's well-founded order of Nat):
the first record that breaks it is excluded by its predecessor.

`FaultProofs`, for every registered manifest and any length of episode, is first about
the session: `StreamsTheBatch`, `CacheStaysBounded`, `FootprintsRespected`. Two facts carry the first
two. `Causal`: the batch delivery of a step depends on the clean records up to it, so a
longer trace leaves the earlier deliveries alone. `AgeRegistered`: no delivery asks for a
source older than `MaximumSourceAge`; the maximum exists because each temporal operator
has a delivery where its age is largest (`OldestExists`). The invariant says exactly
which records the cache holds (`Kept`) and that F6's histories are complete
(`Remembered`). The footprint is a fact of the batch operators (one lemma for each
family), carried to the session by `StreamingMatchesBatch`; it also needs that the clean
records are numbered densely (`InOrder`) and that a schedule stays in its window
(`AffectedInWindow`, from the bound of Python's rounding in `RoundBounded`).

Then about the gate, for every script of contact phases and any number of defects:
`FaithfulDeliveryPasses`, `PassedTraceShowsTheFault`, `DeliveredRecordsPassTheExport`. The
invariant (`GateInvariant`) is the first two and the types, and says that before any
defect the trace is the operators' delivery. The work is in comparing two programs
that were written apart, and goes in three steps. Every operator family is brought to one
form, `Reading`: whether the fault strikes a slot at a step (`Struck`) and what the
reading then is (`New`). Every set of failure codes is turned into the condition
under which it is empty. Then the two meet, operator by operator: from the conditions
every record shows what `Reading` gives, and `Reading` satisfies the conditions exactly
when the episode exposes the fault, which only the signatures that need a change in
the frames, a phase or a later record can deny.

`MatrixReportProofs`, for every grid, window, set of focused points and budget:
`BuildInvariant`, `TheWindowDecides`, `BuilderAccepted`, `EveryCellRuns`, stated of
`ReportSpec`, which extends the build by runs and reports. The invariant has four parts:
`Shape` says what is built from what; `RowsStand`, that every row is the row of a point
that pairs and the cells are those of the rows; `GridStands`, that the points left and
the points of the rows are the grid of the window; `StagesStand`, what each stage has
already established. `EveryCellRuns` has no hypothesis about budgets: the cells of a primary
matrix load, because its spec's own validation ties window, budget and horizon
together; those of a focused matrix load with exactly the budgets that the horizon has
and their fault starts within (`InBudget`), which nothing checks when it is built.

The reports made of such matrices: `ReportsDecided`, `ReportPartsAgree`, `ReportsAgree`,
for every layout of pairs, outcome of the cells and reporting spec. `RunStands` says that
what was run is a layout over a whole grid, and stays true. `ReportsDecided` needs that no
check of the summary types can fail: every rate of a summary is a mean of rates, and
lies between the least and the greatest of them, every count is the size of a subset
of what it is compared with. `ReportPartsAgree` has the hypothesis that the severities of a
reporting spec are of the grid, as registered ones are: with others the expected number
of trials is never reached. It leaves out `MeansAgree`, where the order of means matters:
`MeanSwap` exchanges two means over a table, `OperatorSwap`, `AxisSwap` and `ScoreSwap`
carry it through operators, axes and pairs. Such means are equal as fractions but not
as quotients rounded down, so `ReportsAgree` has one more hypothesis, `FineUnit`: the unit is
a multiple of the fifth power of a number that the size of every averaged group divides
(five means are nested). The run's constants satisfy both hypotheses, the second with
the number 2 and the unit 32.

Sums are the library's fold over a finite set. `SumIs` shows that the recursive function
in it exists, by extending one for smaller subsets (`SumExtends`), and `PickInduction`
is induction over the subsets of a finite set; both rest on a least counterexample.

`LiveExecutionProofs`, for any number of runs, traces and kills: `ReceiptsAreBacked`,
`SimulatorsAreReleased`, `UnsupportedRunsNothing`. The invariant ties the program
counter to the simulator's state (`SimulatorFollows`), to what was reset (`NotStepped`) and
to what is published before it is recorded (`OutcomeBacked`).

`PublicationProofs`, for any number of processes, any contents and every subset of the
fourteen exporters: `NothingIsLeft`, `WrittenOnce`: every step is a step of
`WriteOnce` or a stutter, and `LockIsOwn`: no two runs are between the lock and its release,
and the `unlink`, which names no owner, removes only the run's own lock file.

The assumptions are those the modules declare on their constants, and where said
`Alone`, severities of the grid, and `FineUnit`. `MatrixAssumption` keeps `pending`, which
marks a cell without a receipt, apart from the outcomes a receipt can have
(`results.py:88`, `:192`). Every inductive invariant
was checked by TLC on the run of its module before it was proved.

Every safety invariant and action property that a passing run checks is stated by one of
these theorems, and so are both refinements. Only model-checked is the liveness,
`EventuallyComplete`, `TrialEnds` and `RunsEnd`, which is out of the prover's reach. What
is proved of `matrix_resume` under `Alone` is under what its configuration satisfies.

The part of the liveness that needs no fairness is proved, as a bound on the steps: a
number is left at every label, each step of the program takes from it, no step of
another process adds to it, and it is 0 exactly where the program has ended.

| theorem | about | bound |
|---|---|---|
| `TrialIsBounded` | a trial of `ClosedLoopRunner` | 5 for each cycle of the budget, and 14 |
| `CallIsBounded` | a call of `run_matrix`, beside any others | 5 for each cell, and 12 |
| `RunIsBounded` | a run of an exporter, beside any others | 9 |

Counting a cycle leads four places back and spends the five the cycle is worth; that the
number never falls below 0 in `TrialIsBounded` needs `Told`, by which a cycle is counted
only while the budget allows one. `CallIsBounded` needs
`Locals`: the cell a receipt is published for is the one at the cursor, so that each of
the five steps is taken once. What these theorems leave to TLC is that a next step is
always enabled, that fairness takes it and, for `EventuallyComplete`, that calls follow
each other until no cell is pending.

## 6. Not modelled, and what is left

Not modelled, because there is no behaviour beyond data conversion or I/O to state
properties of: N0 codec and modality arrays, field adapters and the N0 TWAM adapter,
artifact and simulator primitives, serialisation and field parsing of trials, requests
and receipts, replay beyond the smoke matrix, bootstrap intervals,
rendering of reports, request generation commands,
configuration of external model repositories, argument parsing, image arithmetic,
configuration data and installation scripts. Of the deployment commands only the
publication of the layout receipt is modelled (`Publication`), not the layout checks
and the migration.

What would extend the project most:

1. `N0Client` composed with `Policies` call by call, in place of one step per call.
2. The codec's array layout as operators checked against a reference definition.
3. `LiveExecution` composed with `MatrixRun`, several cells sharing one artifact store.
