--------------------------- MODULE LiveExecution ---------------------------
(***************************************************************************)
(* One cell of a live matrix: matrix/live_executor.py around               *)
(* execution/live_univtac.py and backends/univtac_factory.py, called by    *)
(* matrix/runner.py. Several runs of the matrix may come to the same cell; *)
(* each launches its own simulator, and each may be interrupted or killed. *)
(***************************************************************************)
EXTENDS Integers, FiniteSets

CONSTANTS
  Runs,      \* the runs of the matrix, each of which comes to the cell once
  Roots,     \* root receipt hashes of the traces an execution may produce
  NoRoot,
  NoReceipt,
  MaxKills   \* bound on the runs killed or interrupted

ASSUME LiveExecutionAssumption ==
  NoRoot \notin Roots /\ Roots # {} /\ MaxKills \in Nat /\ IsFiniteSet(Runs)

\* What an executor hands to the runner: a status, and the trace it rests on.
TraceStatuses == {"completed", "crash", "unsupported", "validator_rejected"}
Outcome(status, root) == [status |-> status, root |-> root]
Crash == Outcome("crash", NoRoot)
Unsupported == Outcome("unsupported", NoRoot)
NoOutcome == Outcome("none", NoRoot)

VARIABLES
  pc,
  app,        \* the simulator of each run: "none", "open" or "closed"
  closes,     \* how often each run closed it
  owner,      \* who must close it: "nobody", "launch", "factory", "backend"
  stepped,    \* the runs whose trial has reset the simulator
  staged,     \* the trace in the temporary directory of each run
  outcome,
  dirs,       \* the runs whose temporary directory exists
  artifacts,  \* the traces under artifacts/
  receipt,    \* the receipt of the cell
  gone        \* the runs killed or interrupted

vars == <<pc, app, closes, owner, stepped, staged, outcome, dirs, artifacts, receipt, gone>>

Init ==
  /\ pc = [r \in Runs |-> "idle"]
  /\ app = [r \in Runs |-> "none"] /\ closes = [r \in Runs |-> 0]
  /\ owner = [r \in Runs |-> "nobody"]
  /\ stepped = {} /\ dirs = {} /\ gone = {}
  /\ staged = [r \in Runs |-> NoOutcome]
  /\ outcome = [r \in Runs |-> NoOutcome]
  /\ artifacts = {} /\ receipt = NoReceipt

Goto(r, label) == pc' = [pc EXCEPT ![r] = label]

\* The temporary directory is left with every return and every exception.
Leave(r, result) ==
  /\ outcome' = [outcome EXCEPT ![r] = result]
  /\ dirs' = dirs \ {r}
  /\ Goto(r, "record")

Open(r, by) ==
  /\ app' = [app EXCEPT ![r] = "open"]
  /\ owner' = [owner EXCEPT ![r] = by]

\* close_runtime closes the application even when the task fails to close.
Close(r) ==
  /\ app' = [app EXCEPT ![r] = "closed"]
  /\ closes' = [closes EXCEPT ![r] = @ + 1]
  /\ owner' = [owner EXCEPT ![r] = "nobody"]

-----------------------------------------------------------------------------
\* The runner executes a cell without a receipt only.
Begin(r) ==
  /\ pc[r] = "idle"
  /\ IF receipt = NoReceipt
     THEN Goto(r, "resolve") /\ dirs' = dirs \cup {r}
     ELSE Goto(r, "done") /\ UNCHANGED dirs
  /\ UNCHANGED <<app, closes, owner, stepped, staged, outcome, artifacts, receipt, gone>>

\* Resources, the request and its strict load; then the capabilities and the
\* load once more. Nothing is running yet.
Resolve(r) ==
  /\ pc[r] = "resolve"
  /\ \/ Goto(r, "launch") /\ UNCHANGED <<outcome, dirs>>
     \/ \E refusal \in {Crash, Unsupported} : Leave(r, refusal)
  /\ UNCHANGED <<app, closes, owner, stepped, staged, artifacts, receipt, gone>>

\* Before the application exists: a missing dependency is unsupported, a
\* checkout that does not verify is a crash.
LaunchRefused(r) ==
  /\ pc[r] = "launch"
  /\ \E refusal \in {Crash, Unsupported} : Leave(r, refusal)
  /\ UNCHANGED <<app, closes, owner, stepped, staged, artifacts, receipt, gone>>

Launch(r) ==
  /\ pc[r] = "launch"
  /\ Open(r, "launch") /\ Goto(r, "task")
  /\ UNCHANGED <<closes, stepped, staged, outcome, dirs, artifacts, receipt, gone>>

\* Import, construct and verify the task inside the application.
BuildTask(r) ==
  /\ pc[r] = "task"
  /\ \/ Goto(r, "backend") /\ owner' = [owner EXCEPT ![r] = "factory"]
        /\ UNCHANGED <<app, closes, outcome, dirs>>
     \/ Close(r) /\ Leave(r, Crash)
  /\ UNCHANGED <<stepped, staged, artifacts, receipt, gone>>

\* Mutant of BuildBackend: the handshake fails and the runtime stays.
BuildBackendLeaking(r) ==
  /\ pc[r] = "backend"
  /\ \/ Goto(r, "policy") /\ owner' = [owner EXCEPT ![r] = "backend"]
        /\ UNCHANGED <<outcome, dirs>>
     \/ Leave(r, Crash) /\ UNCHANGED owner
  /\ UNCHANGED <<app, closes, stepped, staged, artifacts, receipt, gone>>

BuildBackend(r) ==
  /\ pc[r] = "backend"
  /\ \/ Goto(r, "policy") /\ owner' = [owner EXCEPT ![r] = "backend"]
        /\ UNCHANGED <<app, closes, outcome, dirs>>
     \/ Close(r) /\ Leave(r, Crash)
  /\ UNCHANGED <<stepped, staged, artifacts, receipt, gone>>

\* A policy that cannot be loaded closes the backend, whose own failure takes
\* the place of the policy's.
LoadPolicy(r) ==
  /\ pc[r] = "policy"
  /\ \/ Goto(r, "trial") /\ UNCHANGED <<app, closes, owner, outcome, dirs>>
     \/ Close(r) /\ \E refusal \in {Crash, Unsupported} : Leave(r, refusal)
  /\ UNCHANGED <<stepped, staged, artifacts, receipt, gone>>

\* Mutant of Trial: an unavailable transport, met when the policy resets, leaves
\* the runner as it is.
TrialUnavailable(r) ==
  /\ pc[r] = "trial"
  /\ Close(r)
  /\ stepped' = stepped \cup {r}
  /\ Leave(r, Unsupported)
  /\ UNCHANGED <<staged, artifacts, receipt, gone>>

\* The runner closes the backend whatever happens. Before the reset it raises;
\* a contract it does not support is a result, and so is every later failure.
Trial(r) ==
  /\ pc[r] = "trial"
  /\ Close(r)
  /\ \/ \E root \in Roots, status \in TraceStatuses :
          /\ staged' = [staged EXCEPT ![r] = Outcome(status, root)]
          /\ stepped' = IF status = "unsupported" THEN stepped ELSE stepped \cup {r}
          /\ Goto(r, "export") /\ UNCHANGED <<outcome, dirs>>
     \/ Leave(r, Crash) /\ UNCHANGED <<staged, stepped>>
  /\ UNCHANGED <<artifacts, receipt, gone>>

\* Stage, verify, reload and link the trace to the cell, inside the temporary
\* directory.
Export(r) ==
  /\ pc[r] = "export"
  /\ \/ Goto(r, "publish") /\ UNCHANGED <<outcome, dirs>>
     \/ Leave(r, Crash)
  /\ UNCHANGED <<app, closes, owner, stepped, staged, artifacts, receipt, gone>>

\* Mutant of Publish: the path returned is the one inside the temporary directory.
PublishNothing(r) ==
  /\ pc[r] = "publish"
  /\ Leave(r, staged[r])
  /\ UNCHANGED <<app, closes, owner, stepped, staged, artifacts, receipt, gone>>

\* Rename the trace to its hash and load it from there. The look at the target and
\* the rename are two steps; between them another run may publish the same trace,
\* which rename(2) reports as EEXIST, and the trace is compared, or as ENOTEMPTY,
\* and is raised. A load that fails, after the rename too, is raised.
Publish(r) ==
  /\ pc[r] = "publish"
  /\ artifacts' \in {artifacts, artifacts \cup {staged[r].root}}
  /\ \/ staged[r].root \in artifacts' /\ Leave(r, staged[r])
     \/ Leave(r, Crash)
  /\ UNCHANGED <<app, closes, owner, stepped, staged, receipt, gone>>

\* The receipt is published once; another run's receipt with other content
\* refuses this run.
Record(r) ==
  /\ pc[r] = "record"
  /\ receipt' = IF receipt = NoReceipt THEN outcome[r] ELSE receipt
  /\ Goto(r, IF receipt' = outcome[r] THEN "done" ELSE "refused")
  /\ UNCHANGED <<app, closes, owner, stepped, staged, outcome, dirs, artifacts, gone>>

Running(r) == pc[r] \notin {"idle", "done", "refused"}

\* KeyboardInterrupt unwinds the context managers and the finally clauses, but
\* the clauses that close a simulator nobody uses yet catch Exception only.
Interrupt(r) ==
  /\ Running(r) /\ Cardinality(gone) < MaxKills
  /\ gone' = gone \cup {r} /\ dirs' = dirs \ {r} /\ Goto(r, "done")
  /\ IF pc[r] = "trial" THEN Close(r) ELSE UNCHANGED <<app, closes, owner>>
  /\ UNCHANGED <<stepped, staged, outcome, artifacts, receipt>>

Kill(r) ==
  /\ Running(r) /\ Cardinality(gone) < MaxKills
  /\ gone' = gone \cup {r} /\ Goto(r, "done")
  /\ UNCHANGED <<app, closes, owner, stepped, staged, outcome, dirs, artifacts, receipt>>

Step(r) ==
  \/ Begin(r) \/ Resolve(r) \/ LaunchRefused(r) \/ Launch(r) \/ BuildTask(r)
  \/ BuildBackend(r) \/ LoadPolicy(r) \/ Trial(r) \/ Export(r) \/ Publish(r) \/ Record(r)

Next == \E r \in Runs : Step(r) \/ Interrupt(r) \/ Kill(r)

Spec == Init /\ [][Next]_vars

-----------------------------------------------------------------------------
(* Properties.                                                             *)

\* A receipt never names a trace that is not published under its hash, wherever
\* the runs were killed (live_executor.py:104).
ReceiptBacked ==
  receipt # NoReceipt /\ receipt.root # NoRoot => receipt.root \in artifacts

\* A run that leaves the executor by itself has closed the simulator it launched,
\* exactly once, whichever of the five owners failed (live_univtac.py:253,
\* univtac_factory.py:183).
SimulatorReleased ==
  \A r \in Runs \ gone :
    pc[r] \in {"record", "done", "refused"} =>
      app[r] # "open" /\ closes[r] = (IF app[r] = "closed" THEN 1 ELSE 0)

\* "unsupported" without a trace is never the answer of a run that has already
\* driven the simulator (live_executor.py:87-92 catches two exception types around
\* the whole execution).
UnsupportedBeforeReset ==
  \A r \in Runs : outcome[r] = Unsupported => r \notin stepped
=============================================================================
