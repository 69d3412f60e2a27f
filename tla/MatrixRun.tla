------------------------------ MODULE MatrixRun ------------------------------
(***************************************************************************)
(* Resumable execution of one matrix (matrix/runner.py) over the files of  *)
(* its output directory (matrix/io.py).                                    *)
(*                                                                         *)
(* Every process runs run_matrix on the same directory; it may be the only *)
(* one, may be started again after it ended, was interrupted or killed, or *)
(* may overlap with another.  A file is published by writing a temporary   *)
(* file beside it, hard-linking the temporary to the final name (which     *)
(* never replaces a file) and unlinking the temporary.                     *)
(***************************************************************************)
EXTENDS Integers, FiniteSets

CONSTANTS
  Procs,          \* processes that may call run_matrix
  Manifests,      \* the manifests they may ask for
  N,              \* cells of a manifest, run in the order 1 .. N
  Outcomes,       \* contents a cell receipt can have (crash is one of them)
  Limits,         \* values of max_new_cells; N stands for None
  None,
  MaxInterrupts,  \* bound: exceptions outside Exception (KeyboardInterrupt)
  MaxKills        \* bound: processes that stop without running a finally

Cells == 1 .. N
Pending == "pending"

ASSUME MatrixAssumption ==
  /\ N \in Nat \ {0}
  /\ Limits \subseteq Nat
  /\ None \notin Outcomes /\ None \notin Manifests /\ None # Pending
  /\ Pending \notin Outcomes
  /\ MaxInterrupts \in Nat /\ MaxKills \in Nat

VARIABLES
  \* the output directory
  manifest,    \* the published manifest, or None
  receipts,    \* the published receipt of each cell, or None
  summary,     \* the published summary: its state of each cell, or None
  stray,       \* cells/ holds a temporary file of a killed process
  \* the processes
  pc, request, limit, cursor, target, execution, states, executed, reused,
  result,
  \* history
  runs,        \* how often each cell was handed to the executor
  lost,        \* how many of these runs ended without a published receipt
  interrupts, kills

files   == <<manifest, receipts, summary>>
locals  == <<request, limit, cursor, target, execution, states, executed,
             reused, result>>
history == <<runs, lost, interrupts, kills>>
vars    == <<files, stray, pc, locals, history>>

-----------------------------------------------------------------------------
\* A process between two calls: never started, returned, raised
\* MatrixResumeError, or was stopped.
Idle == {"idle", "returned", "refused", "stopped"}
\* The files a publication writes: the manifest, the receipt of cell c under
\* the number c, the summary.
ManifestFile == 0
SummaryFile  == N + 1
Targets == 0 .. N + 1

NoStates == [c \in Cells |-> None]

Init ==
  /\ manifest = None /\ receipts = NoStates /\ summary = None /\ stray = FALSE
  /\ pc = [p \in Procs |-> "idle"]
  /\ request \in [Procs -> Manifests]
  /\ limit = [p \in Procs |-> N]
  /\ cursor = [p \in Procs |-> 1]
  /\ target = [p \in Procs |-> ManifestFile]
  /\ execution = [p \in Procs |-> None]
  /\ states = [p \in Procs |-> NoStates]
  /\ executed = [p \in Procs |-> 0] /\ reused = [p \in Procs |-> 0]
  /\ result = [p \in Procs |-> None]
  /\ runs = [c \in Cells |-> 0] /\ lost = [c \in Cells |-> 0]
  /\ interrupts = 0 /\ kills = 0

HasTemporary(p) == pc[p] \in {"temp", "linked", "present", "clobbered"}

\* A temporary file in cells/: of a process writing a receipt, or a stray one.
CellsHaveTemporary ==
  stray \/ \E p \in Procs : HasTemporary(p) /\ target[p] \in Cells

\* _read_regular_file compares st_ctime before and after the read.  Unlinking
\* the temporary, which is another name of the same inode, changes it.
MayChangeDuringRead(f) == \E p \in Procs : pc[p] = "linked" /\ target[p] = f

Goto(p, label) == pc' = [pc EXCEPT ![p] = label]

\* The locals of a call that ends without a result.
Forget(p) ==
  /\ limit' = [limit EXCEPT ![p] = N]
  /\ cursor' = [cursor EXCEPT ![p] = 1]
  /\ target' = [target EXCEPT ![p] = ManifestFile]
  /\ execution' = [execution EXCEPT ![p] = None]
  /\ states' = [states EXCEPT ![p] = NoStates]
  /\ executed' = [executed EXCEPT ![p] = 0]
  /\ reused' = [reused EXCEPT ![p] = 0]
  /\ UNCHANGED <<request, result>>

\* MatrixResumeError leaves run_matrix.
Refuse(p) == Goto(p, "refused") /\ Forget(p) /\ UNCHANGED <<files, stray, history>>

Publish(p, t) == target' = [target EXCEPT ![p] = t] /\ Goto(p, "publish")

-----------------------------------------------------------------------------
(* run_matrix and prepare_matrix_output                                    *)

Call(p) ==
  /\ pc[p] \in Idle
  /\ \E l \in Limits : limit' = [limit EXCEPT ![p] = l]
  /\ cursor' = [cursor EXCEPT ![p] = 1]
  /\ target' = [target EXCEPT ![p] = ManifestFile]
  /\ states' = [states EXCEPT ![p] = NoStates]
  /\ executed' = [executed EXCEPT ![p] = 0]
  /\ reused' = [reused EXCEPT ![p] = 0]
  /\ result' = [result EXCEPT ![p] = None]
  /\ Goto(p, "prepare")
  /\ UNCHANGED <<files, stray, request, execution, history>>

\* An existing manifest must be the requested one; a missing one is published.
Prepare(p) ==
  /\ pc[p] = "prepare"
  /\ \/ /\ manifest = None
        /\ Publish(p, ManifestFile)
        /\ UNCHANGED <<request, limit, cursor, execution, states, executed,
                       reused, result>>
     \/ /\ manifest = request[p]
        /\ Goto(p, "verify")
        /\ UNCHANGED locals
  /\ UNCHANGED <<files, stray, history>>

PrepareRefuses(p) ==
  /\ pc[p] = "prepare"
  /\ manifest \notin {None, request[p]} \/ MayChangeDuringRead(ManifestFile)
  /\ Refuse(p)

\* _verify_matrix_output: the manifest again, and no unknown name in cells/.
OutputVerified(p) == manifest = request[p] /\ ~CellsHaveTemporary

Verify(p) ==
  /\ pc[p] = "verify"
  /\ OutputVerified(p)
  /\ Goto(p, "look")
  /\ UNCHANGED <<files, stray, locals, history>>

VerifyRefuses(p) ==
  /\ pc[p] = "verify"
  /\ ~OutputVerified(p) \/ MayChangeDuringRead(ManifestFile)
  /\ Refuse(p)

\* With a summary there is nothing to run: it is loaded and returned.
Look(p) ==
  /\ pc[p] = "look"
  /\ Goto(p, IF summary = None THEN "cell" ELSE "load")
  /\ UNCHANGED <<files, stray, locals, history>>

-----------------------------------------------------------------------------
(* The loop over the cells, in manifest order                              *)

Visiting(p, c) == pc[p] = "cell" /\ cursor[p] = c

ReuseCell(p) ==
  \E c \in Cells :
    /\ Visiting(p, c)
    /\ receipts[c] # None
    /\ states' = [states EXCEPT ![p][c] = receipts[c]]
    /\ reused' = [reused EXCEPT ![p] = @ + 1]
    /\ cursor' = [cursor EXCEPT ![p] = @ + 1]
    /\ UNCHANGED <<files, stray, pc, request, limit, target, execution,
                   executed, result, history>>

ReuseRefuses(p) ==
  \E c \in Cells :
    /\ Visiting(p, c)
    /\ receipts[c] # None
    /\ MayChangeDuringRead(c)
    /\ Refuse(p)

\* Mutant of DeferCell: the cell limit is off by one.
DeferCellEarly(p) ==
  \E c \in Cells :
    /\ Visiting(p, c)
    /\ receipts[c] = None
    /\ executed[p] + 1 >= limit[p]
    /\ states' = [states EXCEPT ![p][c] = Pending]
    /\ cursor' = [cursor EXCEPT ![p] = @ + 1]
    /\ UNCHANGED <<files, stray, pc, request, limit, target, execution,
                   executed, reused, result, history>>

\* Mutant of DeferCell: reused cells count against the limit.
DeferCellReused(p) ==
  \E c \in Cells :
    /\ Visiting(p, c)
    /\ receipts[c] = None
    /\ executed[p] + reused[p] >= limit[p]
    /\ states' = [states EXCEPT ![p][c] = Pending]
    /\ cursor' = [cursor EXCEPT ![p] = @ + 1]
    /\ UNCHANGED <<files, stray, pc, request, limit, target, execution,
                   executed, reused, result, history>>

\* max_new_cells is used up.
DeferCell(p) ==
  \E c \in Cells :
    /\ Visiting(p, c)
    /\ receipts[c] = None
    /\ executed[p] >= limit[p]
    /\ states' = [states EXCEPT ![p][c] = Pending]
    /\ cursor' = [cursor EXCEPT ![p] = @ + 1]
    /\ UNCHANGED <<files, stray, pc, request, limit, target, execution,
                   executed, reused, result, history>>

\* Mutant of ExecuteCell: a receipt does not keep a cell from running.
ExecuteCellAgain(p) ==
  \E c \in Cells :
    /\ Visiting(p, c)
    /\ executed[p] < limit[p]
    /\ \E o \in Outcomes : execution' = [execution EXCEPT ![p] = o]
    /\ runs' = [runs EXCEPT ![c] = @ + 1]
    /\ Goto(p, "write")
    /\ UNCHANGED <<files, stray, request, limit, cursor, target, states,
                   executed, reused, result, lost, interrupts, kills>>

\* The executor returns an outcome; an Exception of its own becomes a crash.
ExecuteCell(p) ==
  \E c \in Cells :
    /\ Visiting(p, c)
    /\ receipts[c] = None
    /\ executed[p] < limit[p]
    /\ \E o \in Outcomes : execution' = [execution EXCEPT ![p] = o]
    /\ runs' = [runs EXCEPT ![c] = @ + 1]
    /\ Goto(p, "write")
    /\ UNCHANGED <<files, stray, request, limit, cursor, target, states,
                   executed, reused, result, lost, interrupts, kills>>

\* The cell's receipt exists now, for this process.
RecordCell(p) ==
  LET c == cursor[p] IN
  /\ states' = [states EXCEPT ![p][c] = execution[p]]
  /\ executed' = [executed EXCEPT ![p] = @ + 1]
  /\ cursor' = [cursor EXCEPT ![p] = @ + 1]
  /\ execution' = [execution EXCEPT ![p] = None]
  /\ Goto(p, "cell")

\* Mutant of WriteReceipt: any receipt found is taken for the own one.
WriteReceiptUnread(p) ==
  /\ pc[p] = "write"
  /\ \/ /\ receipts[cursor[p]] = None
        /\ Publish(p, cursor[p])
        /\ UNCHANGED <<request, limit, cursor, execution, states, executed,
                       reused, result>>
     \/ /\ receipts[cursor[p]] # None
        /\ RecordCell(p)
        /\ UNCHANGED <<request, limit, target, reused, result>>
  /\ UNCHANGED <<files, stray, history>>

\* write_cell_receipt: another process may have published one meanwhile.
WriteReceipt(p) ==
  /\ pc[p] = "write"
  /\ \/ /\ receipts[cursor[p]] = None
        /\ Publish(p, cursor[p])
        /\ UNCHANGED <<request, limit, cursor, execution, states, executed,
                       reused, result>>
     \/ /\ receipts[cursor[p]] = execution[p]
        /\ RecordCell(p)
        /\ UNCHANGED <<request, limit, target, reused, result>>
  /\ UNCHANGED <<files, stray, history>>

\* A run whose receipt will not be published.
LoseRun(p) == lost' = [lost EXCEPT ![cursor[p]] = @ + 1]

WriteReceiptRefuses(p) ==
  /\ pc[p] = "write"
  /\ \/ receipts[cursor[p]] \notin {None, execution[p]}
     \/ MayChangeDuringRead(cursor[p])
  /\ Goto(p, "refused")
  /\ Forget(p)
  /\ LoseRun(p)
  /\ UNCHANGED <<files, stray, runs, interrupts, kills>>

\* After the last cell.  A summary needs every cell; an equal one may exist.
Finish(p) ==
  /\ pc[p] = "cell" /\ cursor[p] = N + 1
  /\ IF \E c \in Cells : states[p][c] = Pending
     THEN /\ result' = [result EXCEPT ![p] = states[p]]
          /\ Goto(p, "returned")
          /\ UNCHANGED target
     ELSE /\ Goto(p, "finish")
          /\ UNCHANGED <<result, target>>
  /\ UNCHANGED <<files, stray, request, limit, cursor, execution, states,
                 executed, reused, history>>

WriteSummary(p) ==
  /\ pc[p] = "finish"
  /\ \/ summary = None /\ Publish(p, SummaryFile)
     \/ summary = states[p] /\ Goto(p, "load") /\ UNCHANGED target
  /\ UNCHANGED <<files, stray, request, limit, cursor, execution, states,
                 executed, reused, result, history>>

WriteSummaryRefuses(p) ==
  /\ pc[p] = "finish"
  /\ summary \notin {None, states[p]} \/ MayChangeDuringRead(SummaryFile)
  /\ Refuse(p)

\* load_matrix_summary verifies the directory again, reads the summary and
\* every receipt, and demands that they agree.
SummaryVerified(p) == OutputVerified(p) /\ summary = receipts

LoadSummary(p) ==
  /\ pc[p] = "load"
  /\ SummaryVerified(p)
  /\ result' = [result EXCEPT ![p] = IF cursor[p] = 1 THEN summary
                                      ELSE states[p]]
  /\ reused' = [reused EXCEPT ![p] = IF cursor[p] = 1 THEN N ELSE @]
  /\ Goto(p, "returned")
  /\ UNCHANGED <<files, stray, request, limit, cursor, target, execution,
                 states, executed, history>>

LoadSummaryRefuses(p) ==
  /\ pc[p] = "load"
  /\ \/ ~SummaryVerified(p)
     \/ \E f \in Targets : MayChangeDuringRead(f)
  /\ Refuse(p)

-----------------------------------------------------------------------------
(* _publish_no_clobber                                                     *)

Existing(t) == CASE t = ManifestFile -> manifest
                 [] t = SummaryFile  -> summary
                 [] OTHER            -> receipts[t]

Content(p) == CASE target[p] = ManifestFile -> request[p]
                [] target[p] = SummaryFile  -> states[p]
                [] OTHER                    -> execution[p]

MakeTemporary(p) ==
  /\ pc[p] = "publish"
  /\ Goto(p, "temp")
  /\ UNCHANGED <<files, stray, locals, history>>

\* Mutant of Link: os.replace, which does not mind an existing file.
LinkReplaces(p) ==
  /\ pc[p] = "temp"
  /\ manifest' = IF target[p] = ManifestFile THEN Content(p) ELSE manifest
  /\ summary' = IF target[p] = SummaryFile THEN Content(p) ELSE summary
  /\ receipts' = [c \in Cells |-> IF target[p] = c THEN Content(p)
                                  ELSE receipts[c]]
  /\ Goto(p, "linked")
  /\ UNCHANGED <<stray, locals, history>>

\* os.link creates the name, or finds it taken.
Link(p) ==
  /\ pc[p] = "temp"
  /\ Existing(target[p]) = None
  /\ manifest' = IF target[p] = ManifestFile THEN Content(p) ELSE manifest
  /\ summary' = IF target[p] = SummaryFile THEN Content(p) ELSE summary
  /\ receipts' = [c \in Cells |-> IF target[p] = c THEN Content(p)
                                  ELSE receipts[c]]
  /\ Goto(p, "linked")
  /\ UNCHANGED <<stray, locals, history>>

\* Mutant of LinkFindsFile: the file found is not compared.
LinkTrustsFile(p) ==
  /\ pc[p] = "temp"
  /\ Existing(target[p]) # None
  /\ Goto(p, "present")
  /\ UNCHANGED <<files, stray, locals, history>>

LinkFindsFile(p) ==
  /\ pc[p] = "temp"
  /\ Existing(target[p]) # None
  /\ Goto(p, IF Existing(target[p]) = Content(p) THEN "present" ELSE "clobbered")
  /\ UNCHANGED <<files, stray, locals, history>>

\* The finally clause, and what the caller does next.
Unlink(p) ==
  /\ pc[p] \in {"linked", "present"}
  /\ IF target[p] \in Cells
     THEN RecordCell(p)
     ELSE /\ Goto(p, IF target[p] = ManifestFile THEN "verify" ELSE "load")
          /\ UNCHANGED <<cursor, execution, states, executed>>
  /\ UNCHANGED <<files, stray, request, limit, target, reused, result, history>>

UnlinkAndRefuse(p) ==
  /\ pc[p] = "clobbered"
  /\ Goto(p, "refused")
  /\ Forget(p)
  /\ IF target[p] \in Cells THEN LoseRun(p) ELSE UNCHANGED lost
  /\ UNCHANGED <<files, stray, runs, interrupts, kills>>

-----------------------------------------------------------------------------
(* The ways a process stops early                                          *)

\* A receipt was computed and is not published yet.
Unpublished(p) == pc[p] = "write"
                  \/ (pc[p] \in {"publish", "temp", "clobbered"} /\ target[p] \in Cells)

Stop(p) ==
  /\ pc[p] \notin Idle
  /\ Goto(p, "stopped")
  /\ Forget(p)
  /\ IF Unpublished(p) THEN LoseRun(p) ELSE UNCHANGED lost
  /\ UNCHANGED <<files, runs>>

\* Mutant of Interrupt: the temporary file is not removed on the way out.
InterruptLeavesTemporary(p) ==
  /\ interrupts < MaxInterrupts
  /\ interrupts' = interrupts + 1
  /\ Stop(p)
  /\ stray' = (stray \/ (HasTemporary(p) /\ target[p] \in Cells))
  /\ UNCHANGED kills

\* An exception the code does not catch: the finally clause still unlinks.
Interrupt(p) ==
  /\ interrupts < MaxInterrupts
  /\ interrupts' = interrupts + 1
  /\ Stop(p)
  /\ UNCHANGED <<stray, kills>>

\* A kill or a power loss: a temporary file stays behind.
Kill(p) ==
  /\ kills < MaxKills
  /\ kills' = kills + 1
  /\ Stop(p)
  /\ stray' = (stray \/ (HasTemporary(p) /\ target[p] \in Cells))
  /\ UNCHANGED interrupts

-----------------------------------------------------------------------------
RunStep(p) ==
  \/ Prepare(p) \/ PrepareRefuses(p) \/ Verify(p) \/ VerifyRefuses(p) \/ Look(p)
  \/ ReuseCell(p) \/ ReuseRefuses(p) \/ DeferCell(p) \/ ExecuteCell(p)
  \/ WriteReceipt(p) \/ WriteReceiptRefuses(p)
  \/ Finish(p) \/ WriteSummary(p) \/ WriteSummaryRefuses(p)
  \/ LoadSummary(p) \/ LoadSummaryRefuses(p)
  \/ MakeTemporary(p) \/ Link(p) \/ LinkFindsFile(p)
  \/ Unlink(p) \/ UnlinkAndRefuse(p)

Next == \E p \in Procs : Call(p) \/ RunStep(p) \/ Interrupt(p) \/ Kill(p)

Spec == Init /\ [][Next]_vars

\* A process that runs keeps running, and someone calls run_matrix again.
FairSpec == Spec /\ \A p \in Procs : WF_vars(RunStep(p)) /\ WF_vars(Call(p))

-----------------------------------------------------------------------------
States == [Cells -> Outcomes \cup {None, Pending}]

\* The final summary and the receipts it is derived from never disagree,
\* whoever published which of them.
SummaryMatchesReceipts == summary # None => summary = receipts

\* What a run reports of a cell is what the cell's receipt says, also when
\* another run published that receipt.
ReportsMatchReceipts ==
  \A p \in Procs, c \in Cells :
    states[p][c] \notin {None, Pending} => states[p][c] = receipts[c]

\* A published manifest, receipt or summary is never replaced or removed.
NeverReplaced ==
  [][/\ manifest # None => manifest' = manifest
     /\ summary # None => summary' = summary
     /\ \A c \in Cells : receipts[c] # None => receipts'[c] = receipts[c]]_vars

\* A run that returns accounts for every cell: executed, reused or pending, no
\* more executed than allowed, and complete only with a published summary.
ResultAccountsForEveryCell ==
  \A p \in Procs :
    pc[p] = "returned" =>
      LET pending == {c \in Cells : result[p][c] = Pending} IN
      /\ executed[p] + reused[p] + Cardinality(pending) = N
      /\ executed[p] =< limit[p]
      /\ pending # {} => executed[p] = limit[p]
      /\ pending = {} => summary = result[p]

\* One invocation after the other never runs a cell again whose receipt was
\* published (docs/benchmark_workflow.md:369).
ExecutedOnce == \A c \in Cells : runs[c] =< lost[c] + 1

\* One invocation after the other on one manifest is never refused: the
\* directory can always be resumed (README.md:103, docs/benchmark_workflow.md:369).
AlwaysResumable == \A p \in Procs : pc[p] # "refused"

\* Repeated bounded invocations complete the matrix.
EventuallyComplete == <>(summary # None)
=============================================================================
