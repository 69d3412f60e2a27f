-------------------------- MODULE MatrixRunProofs ---------------------------
(***************************************************************************)
(* What holds of a matrix directory for any number of processes, cells,    *)
(* outcomes, interrupts and kills; then, what only holds of a directory    *)
(* that one process after the other uses for one manifest.                 *)
(***************************************************************************)
EXTENDS MatrixRun, FiniteSetTheorems, TLAPS

-----------------------------------------------------------------------------
(* The inductive invariant.                                                *)

Publishing == {"publish", "temp", "linked", "present", "clobbered"}
Labels == Idle \cup Publishing \cup
          {"prepare", "verify", "look", "cell", "write", "finish", "load"}

Typed ==
  /\ pc \in [Procs -> Labels]
  /\ cursor \in [Procs -> 1 .. N + 1]
  /\ target \in [Procs -> Targets]
  /\ execution \in [Procs -> Outcomes \cup {None}]
  /\ states \in [Procs -> States]
  /\ receipts \in [Cells -> Outcomes \cup {None}]

\* The loop has decided every cell before the cursor.
Decided(p) == \A c \in Cells : c < cursor[p] => states[p][c] # None

\* The loop is done and left no cell pending.
Complete(p) == \A c \in Cells : states[p][c] \notin {None, Pending}

\* Where a process stands tells what its locals hold.
Locals ==
  \A p \in Procs :
    /\ pc[p] \in {"cell", "write"} => Decided(p)
    /\ pc[p] = "write" => cursor[p] \in Cells /\ execution[p] \in Outcomes
    /\ pc[p] = "look" => cursor[p] = 1
    /\ pc[p] \in {"prepare", "verify"} => cursor[p] = 1
    /\ pc[p] \in Publishing /\ target[p] = ManifestFile => cursor[p] = 1
    /\ pc[p] \in Publishing /\ target[p] \in Cells =>
         target[p] = cursor[p] /\ execution[p] \in Outcomes /\ Decided(p)
    /\ pc[p] = "finish" \/ (pc[p] \in Publishing /\ target[p] = SummaryFile) =>
         Complete(p)

\* A process that found its receipt published, by itself or another, records it.
Found ==
  \A p \in Procs :
    pc[p] \in {"linked", "present"} /\ target[p] \in Cells =>
      receipts[target[p]] = execution[p]

\* Nothing is summarised before every receipt is there.
SummaryLast == summary # None => \A c \in Cells : receipts[c] # None

IInv ==
  /\ Typed
  /\ Locals
  /\ Found
  /\ ReportsMatchReceipts
  /\ SummaryLast
  /\ SummaryMatchesReceipts

-----------------------------------------------------------------------------
USE MatrixAssumption

\* The empty directory satisfies the invariant.
LEMMA InitInv == Init => IInv
  BY DEF Init, IInv, Typed, Locals, Found, ReportsMatchReceipts, SummaryLast,
         SummaryMatchesReceipts, Labels, Idle, Publishing, Targets, ManifestFile,
         NoStates, States, Cells

\* A step of another process leaves the locals of this one alone.
LEMMA OthersKeep ==
  ASSUME Typed, NEW p \in Procs, Call(p) \/ RunStep(p) \/ Interrupt(p) \/ Kill(p)
  PROVE  \A q \in Procs \ {p} :
           /\ pc'[q] = pc[q] /\ cursor'[q] = cursor[q] /\ target'[q] = target[q]
           /\ execution'[q] = execution[q] /\ states'[q] = states[q]
  BY DEF Typed, RunStep, Call, Prepare, PrepareRefuses, Verify, VerifyRefuses, Look,
         ReuseCell, ReuseRefuses, DeferCell, ExecuteCell, WriteReceipt,
         WriteReceiptRefuses, Finish, WriteSummary, WriteSummaryRefuses, LoadSummary,
         LoadSummaryRefuses, MakeTemporary, Link, LinkFindsFile, Unlink,
         UnlinkAndRefuse, Interrupt, Kill, Stop, Forget, Refuse, Goto, Publish,
         RecordCell, locals

\* Files change in Link only, and only where there was none.
LEMMA LinkOnly ==
  ASSUME Typed, NEW p \in Procs, Call(p) \/ RunStep(p) \/ Interrupt(p) \/ Kill(p)
  PROVE  \/ UNCHANGED files
         \/ /\ Link(p) /\ pc'[p] = "linked" /\ UNCHANGED locals
            /\ \/ /\ target[p] = ManifestFile /\ manifest = None
                  /\ UNCHANGED <<receipts, summary>>
               \/ /\ target[p] = SummaryFile /\ summary = None
                  /\ summary' = states[p] /\ UNCHANGED <<receipts, manifest>>
               \/ /\ target[p] \in Cells /\ receipts[target[p]] = None
                  /\ receipts' = [receipts EXCEPT ![target[p]] = execution[p]]
                  /\ UNCHANGED <<manifest, summary>>
  <1>1. CASE Link(p)
    <2>1. target[p] \in Targets /\ target[p] \in {ManifestFile, SummaryFile} \cup Cells
      BY DEF Typed, Targets, ManifestFile, SummaryFile, Cells
    <2>2. ManifestFile # SummaryFile /\ {ManifestFile, SummaryFile} \cap Cells = {}
      BY DEF ManifestFile, SummaryFile, Cells
    <2>3. CASE target[p] = ManifestFile
      BY <1>1, <2>2, <2>3 DEF Link, Existing, Typed, Goto
    <2>4. CASE target[p] = SummaryFile
      BY <1>1, <2>2, <2>4 DEF Link, Existing, Content, Typed, Goto
    <2>5. CASE target[p] \in Cells
      BY <1>1, <2>2, <2>5 DEF Link, Existing, Content, Typed, Goto
    <2> QED
      BY <2>1, <2>3, <2>4, <2>5
  <1>2. CASE ~Link(p)
    BY <1>2 DEF RunStep, Call, Prepare, PrepareRefuses, Verify, VerifyRefuses, Look,
         ReuseCell, ReuseRefuses, DeferCell, ExecuteCell, WriteReceipt,
         WriteReceiptRefuses, Finish, WriteSummary, WriteSummaryRefuses, LoadSummary,
         LoadSummaryRefuses, MakeTemporary, LinkFindsFile, Unlink, UnlinkAndRefuse,
         Interrupt, Kill, Stop, Refuse
  <1> QED
    BY <1>1, <1>2

\* Every step keeps the types.
LEMMA TypedStep ==
  ASSUME Typed, Locals, [Next]_vars
  PROVE  Typed'
  <1>0. CASE UNCHANGED vars
    BY <1>0 DEF vars, files, locals, Typed
  <1>1. ASSUME NEW p \in Procs, Call(p) \/ RunStep(p) \/ Interrupt(p) \/ Kill(p)
        PROVE  Typed'
    <2> USE DEF Typed, Goto, Labels, Publishing, Idle, Targets
    <2>0. /\ NoStates \in States /\ ManifestFile \in Targets /\ SummaryFile \in Targets
          /\ 1 \in 1 .. N + 1 /\ Cells \subseteq Targets
      BY DEF NoStates, States, ManifestFile, SummaryFile, Cells
    <2>1. CASE Forget(p) /\ UNCHANGED files /\ \E l \in Labels : Goto(p, l)
      BY <2>0, <2>1 DEF Forget, files
    <2>2. CASE Call(p)
      BY <2>0, <2>2 DEF Call, files
    <2>3. CASE Prepare(p) \/ Verify(p) \/ Look(p)
      BY <2>0, <2>3 DEF Prepare, Publish, Verify, Look, files, locals
    <2>4. CASE ReuseCell(p) \/ DeferCell(p)
      <3>1. PICK c \in Cells : /\ cursor[p] = c /\ cursor' = [cursor EXCEPT ![p] = @ + 1]
                               /\ \/ states' = [states EXCEPT ![p][c] = receipts[c]]
                                  \/ states' = [states EXCEPT ![p][c] = Pending]
                               /\ UNCHANGED <<files, pc, target, execution>>
        BY <2>4 DEF ReuseCell, DeferCell, Visiting
      <3>2. cursor' \in [Procs -> 1 .. N + 1]
        BY <3>1 DEF Cells
      <3>3. PICK entry \in Outcomes \cup {None, Pending} :
              states' = [states EXCEPT ![p][c] = entry]
        BY <3>1
      <3>4. states' \in [Procs -> States]
        BY <3>3 DEF States
      <3> QED
        BY <3>1, <3>2, <3>4 DEF files
    <2>5. CASE ExecuteCell(p)
      BY <2>5 DEF ExecuteCell, files
    <2>6. CASE WriteReceipt(p) \/ Unlink(p)
      <3>1. CASE RecordCell(p) /\ UNCHANGED <<files, target>> /\ cursor[p] \in Cells
        <4>1. cursor' \in [Procs -> 1 .. N + 1]
          BY <3>1 DEF RecordCell, Cells
        <4>2. states' \in [Procs -> States]
          BY <3>1 DEF RecordCell, States
        <4> QED
          BY <3>1, <4>1, <4>2 DEF RecordCell, files
      <3>2. CASE WriteReceipt(p) /\ ~RecordCell(p)
        BY <2>0, <3>2 DEF WriteReceipt, Publish, files
      <3>3. CASE Unlink(p) /\ ~RecordCell(p)
        BY <2>0, <3>3 DEF Unlink, files
      <3>4. RecordCell(p) /\ (WriteReceipt(p) \/ Unlink(p)) =>
              UNCHANGED <<files, target>> /\ cursor[p] \in Cells
        BY DEF WriteReceipt, Unlink, RecordCell, Locals, Cells, ManifestFile
      <3> QED
        BY <2>6, <3>1, <3>2, <3>3, <3>4
    <2>7. CASE Finish(p) \/ WriteSummary(p) \/ LoadSummary(p)
      BY <2>0, <2>7 DEF Finish, WriteSummary, LoadSummary, Publish, files
    <2>8. CASE MakeTemporary(p) \/ LinkFindsFile(p)
      BY <2>8 DEF MakeTemporary, LinkFindsFile, files, locals
    <2>9. CASE Link(p)
      <3>1. UNCHANGED <<cursor, target, execution, states>>
        BY <2>9 DEF Link, locals
      <3>2. pc' \in [Procs -> Labels]
        BY <2>9 DEF Link
      <3>3. receipts' \in [Cells -> Outcomes \cup {None}]
        BY <1>1, LinkOnly DEF files
      <3> QED
        BY <3>1, <3>2, <3>3
    <2> QED
      BY <1>1, <2>1, <2>2, <2>3, <2>4, <2>5, <2>6, <2>7, <2>8, <2>9
      DEF RunStep, PrepareRefuses, VerifyRefuses, ReuseRefuses, WriteReceiptRefuses,
          WriteSummaryRefuses, LoadSummaryRefuses, UnlinkAndRefuse, Interrupt, Kill,
          Stop, Refuse
  <1> QED
    BY <1>0, <1>1 DEF Next

\* Every step keeps what the locals of its process hold.
LEMMA LocalsStep ==
  ASSUME Typed, Locals, [Next]_vars
  PROVE  Locals'
  <1>0. CASE UNCHANGED vars
    BY <1>0 DEF vars, files, locals, Locals, Decided, Complete
  <1>1. ASSUME NEW p \in Procs, Call(p) \/ RunStep(p) \/ Interrupt(p) \/ Kill(p)
        PROVE  Locals'
    <2> DEFINE L(q) ==
          /\ pc[q] \in {"cell", "write"} => Decided(q)
          /\ pc[q] = "write" => cursor[q] \in Cells /\ execution[q] \in Outcomes
          /\ pc[q] = "look" => cursor[q] = 1
          /\ pc[q] \in {"prepare", "verify"} => cursor[q] = 1
          /\ pc[q] \in Publishing /\ target[q] = ManifestFile => cursor[q] = 1
          /\ pc[q] \in Publishing /\ target[q] \in Cells =>
               target[q] = cursor[q] /\ execution[q] \in Outcomes /\ Decided(q)
          /\ pc[q] = "finish" \/ (pc[q] \in Publishing /\ target[q] = SummaryFile) =>
               Complete(q)
    <2>0. /\ ManifestFile # SummaryFile /\ {ManifestFile, SummaryFile} \cap Cells = {}
          /\ \A c \in Cells : ~(c < 1)
      BY DEF ManifestFile, SummaryFile, Cells
    <2>1. L(p)
      BY DEF Locals
    <2>2. L(p)'
      <3> USE <2>0, <2>1 DEF Typed, Goto, Publishing, Idle
      <3>1. CASE Forget(p) /\ \E l \in Idle : Goto(p, l)
        BY <3>1
      <3>2. CASE Call(p)
        BY <3>2 DEF Call
      <3>3. CASE Prepare(p) \/ Verify(p)
        BY <3>3 DEF Prepare, Publish, Verify, locals
      <3>4. CASE Look(p)
        BY <3>4 DEF Look, locals, Decided
      <3>5. CASE ReuseCell(p) \/ DeferCell(p)
        <4>1. PICK c \in Cells, entry \in (Outcomes \cup {Pending}) \ {None} :
                   /\ cursor[p] = c /\ cursor' = [cursor EXCEPT ![p] = @ + 1]
                   /\ states' = [states EXCEPT ![p][c] = entry]
                   /\ pc[p] = "cell" /\ UNCHANGED <<pc, target, execution>>
          BY <3>5 DEF ReuseCell, DeferCell, Visiting
        <4>2. Decided(p)'
          BY <4>1 DEF Decided, States, Cells
        <4> QED
          BY <4>1, <4>2
      <3>6. CASE ExecuteCell(p)
        BY <3>6 DEF ExecuteCell, Visiting, Decided
      <3>7. CASE WriteReceipt(p) \/ Unlink(p)
        <4>1. CASE RecordCell(p)
          <5>1. cursor[p] \in Cells /\ execution[p] \in Outcomes /\ Decided(p)
            BY <3>7, <4>1 DEF WriteReceipt, Unlink, RecordCell, Locals
          <5>2. Decided(p)'
            BY <4>1, <5>1 DEF RecordCell, Decided, States, Cells
          <5> QED
            BY <4>1, <5>2 DEF RecordCell
        <4>2. CASE WriteReceipt(p) /\ ~RecordCell(p)
          BY <4>2 DEF WriteReceipt, Publish, Decided
        <4>3. CASE Unlink(p) /\ ~RecordCell(p)
          BY <4>3 DEF Unlink
        <4> QED
          BY <3>7, <4>1, <4>2, <4>3
      <3>8. CASE Finish(p)
        <4>1. Decided(p) /\ cursor[p] = N + 1
          BY <3>8 DEF Finish
        <4>2. \A c \in Cells : states[p][c] # None
          BY <4>1 DEF Decided, Cells
        <4> QED
          BY <3>8, <4>2 DEF Finish, Complete
      <3>9. CASE WriteSummary(p) \/ LoadSummary(p)
        BY <3>9 DEF WriteSummary, LoadSummary, Publish, Complete
      <3>10. CASE MakeTemporary(p) \/ LinkFindsFile(p) \/ Link(p)
        BY <3>10 DEF MakeTemporary, LinkFindsFile, Link, locals, Decided, Complete
      <3> QED
        BY <1>1, <3>1, <3>2, <3>3, <3>4, <3>5, <3>6, <3>7, <3>8, <3>9, <3>10
        DEF RunStep, PrepareRefuses, VerifyRefuses, ReuseRefuses, WriteReceiptRefuses,
            WriteSummaryRefuses, LoadSummaryRefuses, UnlinkAndRefuse, Interrupt, Kill,
            Stop, Refuse
    <2>3. \A q \in Procs \ {p} : L(q)'
      <3> SUFFICES ASSUME NEW q \in Procs \ {p} PROVE L(q)'
        OBVIOUS
      <3>1. L(q)
        BY DEF Locals
      <3> QED
        BY <1>1, <3>1, OthersKeep DEF Decided, Complete
    <2> QED
      BY <2>2, <2>3 DEF Locals
  <1> QED
    BY <1>0, <1>1 DEF Next

\* A published file stays as it is.
LEMMA FilesStay ==
  ASSUME Typed, [Next]_vars
  PROVE  /\ manifest # None => manifest' = manifest
         /\ summary # None => summary' = summary
         /\ \A c \in Cells : receipts[c] # None => receipts'[c] = receipts[c]
  <1>0. CASE UNCHANGED vars
    BY <1>0 DEF vars, files
  <1>1. ASSUME NEW p \in Procs, Call(p) \/ RunStep(p) \/ Interrupt(p) \/ Kill(p)
        PROVE  /\ manifest # None => manifest' = manifest
               /\ summary # None => summary' = summary
               /\ \A c \in Cells : receipts[c] # None => receipts'[c] = receipts[c]
    BY <1>1, LinkOnly DEF files, Typed
  <1> QED
    BY <1>0, <1>1 DEF Next

\* A process is at its receipt only when the receipt is its own outcome.
LEMMA FoundStep ==
  ASSUME Typed, Locals, Found, [Next]_vars
  PROVE  Found'
  <1>0. CASE UNCHANGED vars
    BY <1>0 DEF vars, files, locals, Found
  <1>1. ASSUME NEW p \in Procs, Call(p) \/ RunStep(p) \/ Interrupt(p) \/ Kill(p)
        PROVE  Found'
    <2>0. /\ ManifestFile # SummaryFile /\ {ManifestFile, SummaryFile} \cap Cells = {}
      BY DEF ManifestFile, SummaryFile, Cells
    <2>1. ASSUME pc'[p] \in {"linked", "present"}, target'[p] \in Cells
          PROVE  receipts'[target'[p]] = execution'[p]
      <3>1. CASE Link(p)
        BY <1>1, <2>0, <2>1, <3>1, LinkOnly DEF Typed, Link, locals, Existing, Content
      <3>2. CASE LinkFindsFile(p)
        BY <2>0, <2>1, <3>2
        DEF LinkFindsFile, Existing, Content, Typed, Goto, locals, files
      <3>3. CASE ~Link(p) /\ ~LinkFindsFile(p)
        <4>1. pc'[p] \notin {"linked", "present"}
          BY <1>1, <3>3
          DEF RunStep, Call, Prepare, PrepareRefuses, Verify, VerifyRefuses, Look,
              ReuseCell, ReuseRefuses, DeferCell, ExecuteCell, WriteReceipt,
              WriteReceiptRefuses, Finish, WriteSummary, WriteSummaryRefuses,
              LoadSummary, LoadSummaryRefuses, MakeTemporary, Unlink, UnlinkAndRefuse,
              Interrupt, Kill, Stop, Refuse, Goto, Publish, RecordCell, Typed, Visiting
        <4> QED
          BY <2>1, <4>1
      <3> QED
        BY <3>1, <3>2, <3>3
    <2>2. ASSUME NEW q \in Procs \ {p}, pc'[q] \in {"linked", "present"},
                 target'[q] \in Cells
          PROVE  receipts'[target'[q]] = execution'[q]
      <3>1. /\ pc[q] \in {"linked", "present"} /\ target[q] \in Cells
            /\ target'[q] = target[q] /\ execution'[q] = execution[q]
        BY <1>1, <2>2, OthersKeep
      <3>2. receipts[target[q]] = execution[q] /\ execution[q] \in Outcomes
        BY <3>1 DEF Found, Locals, Publishing
      <3> QED
        BY <3>1, <3>2, FilesStay
    <2> QED
      BY <2>1, <2>2 DEF Found
  <1> QED
    BY <1>0, <1>1 DEF Next

\* A cell is recorded with what its receipt says.
LEMMA ReportsStep ==
  ASSUME Typed, Locals, Found, ReportsMatchReceipts, [Next]_vars
  PROVE  ReportsMatchReceipts'
  <1>0. CASE UNCHANGED vars
    BY <1>0 DEF vars, files, locals, ReportsMatchReceipts
  <1>1. ASSUME NEW p \in Procs, Call(p) \/ RunStep(p) \/ Interrupt(p) \/ Kill(p)
        PROVE  ReportsMatchReceipts'
    <2>1. ASSUME NEW q \in Procs, NEW c \in Cells,
                 states'[q][c] \notin {None, Pending}, states'[q][c] = states[q][c]
          PROVE  states'[q][c] = receipts'[c]
      BY <2>1, FilesStay DEF ReportsMatchReceipts
    <2>2. ASSUME NEW c \in Cells, states'[p][c] \notin {None, Pending},
                 states'[p][c] # states[p][c]
          PROVE  states'[p][c] = receipts'[c]
      <3>1. receipts[c] # None /\ states'[p][c] = receipts[c]
        <4>1. CASE ReuseCell(p) \/ DeferCell(p)
          BY <2>2, <4>1 DEF ReuseCell, DeferCell, Typed, States
        <4>2. CASE WriteReceipt(p) \/ Unlink(p)
          <5>1. /\ RecordCell(p) /\ cursor[p] \in Cells /\ execution[p] \in Outcomes
                /\ receipts[cursor[p]] = execution[p]
            BY <2>2, <4>2 DEF WriteReceipt, Unlink, Locals, Found, Publishing
          <5> QED
            BY <2>2, <5>1 DEF RecordCell, Typed, States
        <4>3. CASE ~(ReuseCell(p) \/ DeferCell(p) \/ WriteReceipt(p) \/ Unlink(p))
          <5>1. UNCHANGED states \/ states' = [states EXCEPT ![p] = NoStates]
            BY <1>1, <4>3
            DEF RunStep, Call, Prepare, PrepareRefuses, Verify, VerifyRefuses, Look,
                ReuseRefuses, ExecuteCell, WriteReceiptRefuses, Finish, WriteSummary,
                WriteSummaryRefuses, LoadSummary, LoadSummaryRefuses, MakeTemporary,
                Link, LinkFindsFile, UnlinkAndRefuse, Interrupt, Kill, Stop, Forget,
                Refuse, locals
          <5> QED
            BY <2>2, <5>1 DEF Typed, NoStates
        <4> QED
          BY <4>1, <4>2, <4>3
      <3> QED
        BY <3>1, FilesStay
    <2>3. \A q \in Procs \ {p} : states'[q] = states[q]
      BY <1>1, OthersKeep
    <2> QED
      BY <2>1, <2>2, <2>3 DEF ReportsMatchReceipts
  <1> QED
    BY <1>0, <1>1 DEF Next

\* The summary is published after the receipts, and is what they say.
LEMMA SummaryStep ==
  ASSUME Typed, Locals, ReportsMatchReceipts, SummaryLast, SummaryMatchesReceipts,
         [Next]_vars
  PROVE  SummaryLast' /\ SummaryMatchesReceipts'
  <1>0. CASE UNCHANGED vars
    BY <1>0 DEF vars, files, SummaryLast, SummaryMatchesReceipts
  <1>1. ASSUME NEW p \in Procs, Call(p) \/ RunStep(p) \/ Interrupt(p) \/ Kill(p)
        PROVE  SummaryLast' /\ SummaryMatchesReceipts'
    <2>1. CASE UNCHANGED files
      BY <2>1 DEF files, SummaryLast, SummaryMatchesReceipts
    <2>2. CASE target[p] = ManifestFile /\ UNCHANGED <<receipts, summary>>
      BY <2>2 DEF SummaryLast, SummaryMatchesReceipts
    <2>3. CASE /\ Link(p) /\ target[p] = SummaryFile
               /\ summary' = states[p] /\ UNCHANGED receipts
      <3>1. Complete(p)
        BY <2>3 DEF Link, Locals, Publishing
      <3>2. \A c \in Cells : states[p][c] = receipts[c] /\ receipts[c] # None
        BY <3>1 DEF Complete, ReportsMatchReceipts
      <3>3. states[p] = receipts
        BY <3>2 DEF Typed, States
      <3> QED
        BY <2>3, <3>2, <3>3 DEF SummaryLast, SummaryMatchesReceipts
    <2>4. CASE target[p] \in Cells /\ receipts[target[p]] = None /\ UNCHANGED summary
      BY <2>4 DEF SummaryLast, SummaryMatchesReceipts
    <2> QED
      BY <1>1, <2>1, <2>2, <2>3, <2>4, LinkOnly
  <1> QED
    BY <1>0, <1>1 DEF Next

-----------------------------------------------------------------------------
\* The invariant holds in every reachable state.
THEOREM Invariance == Spec => []IInv
  <1>1. IInv /\ [Next]_vars => IInv'
    BY TypedStep, LocalsStep, FoundStep, ReportsStep, SummaryStep DEF IInv
  <1> QED
    BY <1>1, InitInv, PTL DEF Spec

\* However many runs share a directory and wherever they are interrupted or killed,
\* the summary is what the receipts say (matrix/summary.py against matrix/io.py).
THEOREM SummariesMatch == Spec => []SummaryMatchesReceipts
  <1>1. IInv => SummaryMatchesReceipts
    BY DEF IInv
  <1> QED
    BY <1>1, Invariance, PTL

\* What a run reports of a cell is what the published receipt of the cell says,
\* whichever run published it (matrix/runner.py:98).
THEOREM ReportsMatch == Spec => []ReportsMatchReceipts
  <1>1. IInv => ReportsMatchReceipts
    BY DEF IInv
  <1> QED
    BY <1>1, Invariance, PTL

\* No published file of a matrix is ever replaced or removed
\* (matrix/io.py:243, _publish_no_clobber).
THEOREM PublishedStays == Spec => NeverReplaced
  <1>1. IInv /\ [Next]_vars =>
          [/\ manifest # None => manifest' = manifest
           /\ summary # None => summary' = summary
           /\ \A c \in Cells : receipts[c] # None => receipts'[c] = receipts[c]]_vars
    BY FilesStay DEF IInv
  <1> QED
    BY <1>1, Invariance, PTL DEF Spec, NeverReplaced

-----------------------------------------------------------------------------
(* How long a call of run_matrix is: a bound on the steps it has left.     *)

\* The longest way from each label to the next part of the call.
Ahead ==
  [prepare |-> 5, verify |-> 1, look |-> 0, cell |-> 6, write |-> 5, finish |-> 5,
   publish |-> 4, temp |-> 3, linked |-> 2, present |-> 2, clobbered |-> 2, load |-> 1,
   idle |-> 0, returned |-> 0, refused |-> 0, stopped |-> 0]

\* The parts: until the loop is reached, and in it. What follows is the summary.
Preparing(p) == pc[p] \in {"prepare", "verify", "look"}
                \/ (pc[p] \in Publishing /\ target[p] = ManifestFile)
Looping(p)   == pc[p] \in {"cell", "write"}
                \/ (pc[p] \in Publishing /\ target[p] \in Cells)

\* What the parts after the present one take: five steps a cell, six in the end.
PartsAhead(p) ==
  IF Preparing(p) THEN 5 * N + 7
  ELSE IF Looping(p) THEN 5 * (N + 1 - cursor[p]) ELSE 0

StepsLeft(p) == Ahead[pc[p]] + PartsAhead(p)

\* A process has a number of steps left, and none exactly between two calls.
Measured ==
  \A p \in Procs : /\ StepsLeft(p) \in 0 .. 5 * N + 12
                   /\ StepsLeft(p) = 0 <=> pc[p] \in Idle

\* Wherever a call stands, what it has left is such a number.
LEMMA StepsLeftIsCount ==
  ASSUME Typed, NEW p \in Procs
  PROVE  StepsLeft(p) \in 0 .. 5 * N + 12 /\ (StepsLeft(p) = 0 <=> pc[p] \in Idle)
  <1>1. pc[p] \in Labels /\ cursor[p] \in 1 .. N + 1 /\ N \in Nat
    BY DEF Typed
  <1>2. Ahead[pc[p]] \in 0 .. 6
    BY <1>1 DEF Ahead, Labels, Idle, Publishing
  <1>3. CASE Preparing(p)
    <2>1. Ahead[pc[p]] \in 0 .. 5 /\ pc[p] \notin Idle
      BY <1>1, <1>3 DEF Preparing, Ahead, Publishing, Idle
    <2>2. StepsLeft(p) = Ahead[pc[p]] + (5 * N + 7)
      BY <1>3 DEF StepsLeft, PartsAhead
    <2> QED
      BY <1>1, <2>1, <2>2
  <1>4. CASE ~Preparing(p) /\ Looping(p)
    <2>1. Ahead[pc[p]] \in 1 .. 6 /\ pc[p] \notin Idle
      BY <1>1, <1>4 DEF Looping, Ahead, Publishing, Idle
    <2>2. StepsLeft(p) = Ahead[pc[p]] + 5 * (N + 1 - cursor[p])
      BY <1>4 DEF StepsLeft, PartsAhead
    <2> QED
      BY <1>1, <2>1, <2>2
  <1>5. CASE ~Preparing(p) /\ ~Looping(p)
    <2>1. Ahead[pc[p]] = 0 <=> pc[p] \in Idle
      BY <1>1, <1>5 DEF Preparing, Labels, Ahead, Publishing, Idle
    <2>2. StepsLeft(p) = Ahead[pc[p]] + 0
      BY <1>5 DEF StepsLeft, PartsAhead
    <2> QED
      BY <1>1, <1>2, <2>1, <2>2
  <1> QED
    BY <1>3, <1>4, <1>5

\* A publication is of the manifest, of the cell at the cursor or of the summary.
LEMMA PublishingLeft ==
  ASSUME Typed, NEW p \in Procs, pc[p] \in Publishing
  PROVE  StepsLeft(p) = Ahead[pc[p]] + IF target[p] = ManifestFile THEN 5 * N + 7
                                       ELSE IF target[p] \in Cells
                                            THEN 5 * (N + 1 - cursor[p]) ELSE 0
  BY DEF StepsLeft, PartsAhead, Preparing, Looping, Publishing

\* Each step of a call takes from the steps it has left.
LEMMA RunStepAdvances ==
  ASSUME Typed, Locals, NEW p \in Procs, RunStep(p)
  PROVE  StepsLeft(p)' < StepsLeft(p)
  <1> USE DEF Typed, Goto
  <1>0. /\ N \in Nat /\ cursor[p] \in 1 .. N + 1
        /\ ManifestFile # SummaryFile /\ {ManifestFile, SummaryFile} \cap Cells = {}
    BY DEF ManifestFile, SummaryFile, Cells
  <1>1. CASE pc'[p] \in Idle /\ pc[p] \notin Idle
    <2>1. StepsLeft(p)' = 0
      BY <1>1 DEF StepsLeft, PartsAhead, Preparing, Looping, Ahead, Idle, Publishing
    <2> QED
      BY <2>1, <1>1, StepsLeftIsCount
  <1>2. CASE Prepare(p)
    BY <1>0, <1>2 DEF Prepare, Publish, locals, StepsLeft, PartsAhead, Preparing, Looping, Ahead,
       Publishing
  <1>3. CASE Verify(p) \/ Look(p)
    BY <1>0, <1>3 DEF Verify, Look, Locals, locals, StepsLeft, PartsAhead, Preparing, Looping,
       Ahead, Publishing
  <1>4. CASE ReuseCell(p) \/ DeferCell(p)
    <2>1. /\ pc[p] = "cell" /\ cursor[p] \in Cells
          /\ pc'[p] = "cell" /\ cursor'[p] = cursor[p] + 1
      BY <1>4 DEF ReuseCell, DeferCell, Visiting
    <2>2. StepsLeft(p) = 6 + 5 * (N + 1 - cursor[p])
      BY <2>1 DEF StepsLeft, PartsAhead, Preparing, Looping, Publishing, Ahead
    <2>3. StepsLeft(p)' = 6 + 5 * (N + 1 - (cursor[p] + 1))
      BY <2>1 DEF StepsLeft, PartsAhead, Preparing, Looping, Publishing, Ahead
    <2> QED
      BY <1>0, <2>2, <2>3
  <1>5. CASE ExecuteCell(p)
    BY <1>0, <1>5 DEF ExecuteCell, Visiting, StepsLeft, PartsAhead, Preparing, Looping, Ahead,
       Publishing
  <1>6. CASE WriteReceipt(p)
    <2>1. pc[p] = "write" /\ cursor[p] \in Cells
      BY <1>6 DEF WriteReceipt, Locals
    <2>2. StepsLeft(p) = 5 + 5 * (N + 1 - cursor[p])
      BY <2>1 DEF StepsLeft, PartsAhead, Preparing, Looping, Ahead, Publishing
    <2>3. CASE RecordCell(p)
      BY <1>0, <2>1, <2>2, <2>3 DEF RecordCell, StepsLeft, PartsAhead, Preparing, Looping, Ahead,
         Publishing
    <2>4. CASE Publish(p, cursor[p]) /\ UNCHANGED cursor
      BY <1>0, <2>1, <2>2, <2>4 DEF Publish, StepsLeft, PartsAhead, Preparing, Looping, Ahead,
         Publishing
    <2> QED
      BY <1>6, <2>3, <2>4 DEF WriteReceipt
  <1>7. CASE Finish(p)
    BY <1>0, <1>1, <1>7 DEF Finish, StepsLeft, PartsAhead, Preparing, Looping, Ahead, Publishing,
       Idle
  <1>8. CASE WriteSummary(p)
    BY <1>0, <1>8 DEF WriteSummary, Publish, StepsLeft, PartsAhead, Preparing, Looping, Ahead,
       Publishing
  <1>9. CASE MakeTemporary(p) \/ Link(p) \/ LinkFindsFile(p)
    BY <1>0, <1>9 DEF MakeTemporary, Link, LinkFindsFile, locals, StepsLeft, PartsAhead,
       Preparing, Looping, Ahead, Publishing
  <1>10. CASE Unlink(p)
    <2>1. /\ pc[p] \in Publishing /\ Ahead[pc[p]] = 2
          /\ target[p] \in {ManifestFile, SummaryFile} \cup Cells
      BY <1>10 DEF Unlink, Publishing, Ahead, Targets, ManifestFile, SummaryFile, Cells
    <2>2. CASE target[p] \in Cells
      <3>1. cursor[p] \in Cells /\ pc'[p] = "cell" /\ cursor'[p] = cursor[p] + 1
        BY <1>10, <2>1, <2>2 DEF Unlink, RecordCell, Locals
      <3>2. StepsLeft(p) = 2 + 5 * (N + 1 - cursor[p])
        BY <1>0, <2>1, <2>2, PublishingLeft
      <3>3. StepsLeft(p)' = 6 + 5 * (N + 1 - (cursor[p] + 1))
        BY <3>1 DEF StepsLeft, PartsAhead, Preparing, Looping, Publishing, Ahead
      <3> QED
        BY <1>0, <3>2, <3>3
    <2>3. CASE target[p] = ManifestFile
      <3>1. pc'[p] = "verify"
        BY <1>0, <1>10, <2>3 DEF Unlink
      <3>2. StepsLeft(p) = 2 + (5 * N + 7)
        BY <2>1, <2>3, PublishingLeft
      <3>3. StepsLeft(p)' = 1 + (5 * N + 7)
        BY <3>1 DEF StepsLeft, PartsAhead, Preparing, Ahead
      <3> QED
        BY <1>0, <3>2, <3>3
    <2>4. CASE target[p] = SummaryFile
      <3>1. pc'[p] = "load"
        BY <1>0, <1>10, <2>4 DEF Unlink
      <3>2. StepsLeft(p) = 2 + 0
        BY <1>0, <2>1, <2>4, PublishingLeft
      <3>3. StepsLeft(p)' = 1 + 0
        BY <3>1 DEF StepsLeft, PartsAhead, Preparing, Looping, Publishing, Ahead
      <3> QED
        BY <3>2, <3>3
    <2> QED
      BY <2>1, <2>2, <2>3, <2>4
  <1>11. CASE LoadSummary(p) \/ PrepareRefuses(p) \/ VerifyRefuses(p) \/ ReuseRefuses(p)
              \/ WriteReceiptRefuses(p) \/ WriteSummaryRefuses(p) \/ LoadSummaryRefuses(p)
              \/ UnlinkAndRefuse(p)
    <2>1. pc'[p] \in Idle /\ pc[p] \notin Idle
      BY <1>11 DEF LoadSummary, PrepareRefuses, VerifyRefuses, ReuseRefuses,
         WriteReceiptRefuses, WriteSummaryRefuses, LoadSummaryRefuses, UnlinkAndRefuse,
         Visiting, Refuse, Idle
    <2> QED
      BY <1>1, <2>1
  <1> QED
    BY <1>2, <1>3, <1>4, <1>5, <1>6, <1>7, <1>8, <1>9, <1>10, <1>11 DEF RunStep

\* What a step of any kind does to the steps a call has left.
Advances ==
  \A p \in Procs :
    /\ RunStep(p) => StepsLeft(p)' < StepsLeft(p)
    /\ pc[p] \notin Idle => StepsLeft(p)' =< StepsLeft(p)

\* A call's own steps take from what it has left, and nobody else's add to it.
LEMMA NextAdvances ==
  ASSUME Typed, Locals, Measured, Measured', Next
  PROVE  Advances
  <1> SUFFICES ASSUME NEW p \in Procs
               PROVE  /\ RunStep(p) => StepsLeft(p)' < StepsLeft(p)
                      /\ pc[p] \notin Idle => StepsLeft(p)' =< StepsLeft(p)
    BY DEF Advances
  <1>1. RunStep(p) => StepsLeft(p)' < StepsLeft(p)
    BY RunStepAdvances
  <1>2. StepsLeft(p) \in Nat /\ StepsLeft(p)' \in Nat
    BY DEF Measured
  <1>3. PICK q \in Procs : Call(q) \/ RunStep(q) \/ Interrupt(q) \/ Kill(q)
    BY DEF Next
  <1>4. CASE q # p
    <2>1. pc'[p] = pc[p] /\ cursor'[p] = cursor[p] /\ target'[p] = target[p]
      BY <1>3, <1>4, OthersKeep
    <2>2. StepsLeft(p)' = StepsLeft(p)
      BY <2>1 DEF StepsLeft, PartsAhead, Preparing, Looping
    <2> QED
      BY <1>1, <1>2, <2>2
  <1>5. CASE q = p /\ (Interrupt(p) \/ Kill(p))
    <2>1. pc'[p] \in Idle
      BY <1>5 DEF Interrupt, Kill, Stop, Goto, Idle, Typed
    <2>2. StepsLeft(p)' = 0
      BY <2>1 DEF Measured
    <2> QED
      BY <1>1, <1>2, <2>2
  <1>6. CASE q = p /\ Call(p)
    BY <1>1, <1>6 DEF Call
  <1>7. CASE q = p /\ RunStep(p)
    BY <1>1, <1>2, <1>7
  <1> QED
    BY <1>3, <1>4, <1>5, <1>6, <1>7

\* A call of run_matrix is over after at most five steps for each cell and twelve
\* more, however many others run on the directory: each of its steps takes from
\* what it has left, no step of another call adds to it, and nothing is left
\* exactly where it returned, was refused or was stopped (matrix/runner.py:69, the
\* loop visits each cell once).
THEOREM CallIsBounded == Spec => []Measured /\ [][Advances]_vars
  <1>1. IInv => Measured
    BY StepsLeftIsCount DEF IInv, Measured
  <1>2. IInv /\ Measured /\ Measured' /\ [Next]_vars => [Advances]_vars
    BY NextAdvances DEF IInv
  <1> QED
    BY <1>1, <1>2, Invariance, PTL DEF Spec

-----------------------------------------------------------------------------
(* Every cell is accounted for: of the cells the loop passed each one is   *)
(* executed, reused or pending, and the ones ahead of it are untouched.    *)

\* A receipt is in hand, so the limit left room for one more.
InHand(p) == pc[p] = "write" \/ (pc[p] \in Publishing /\ target[p] \in Cells)

\* The loop is behind, or was never entered because of a summary.
AtEnd(p) ==
  \/ pc[p] = "finish"
  \/ pc[p] \in Publishing /\ target[p] = SummaryFile
  \/ pc[p] = "load" /\ cursor[p] # 1

Deferred(p) == {c \in Cells : states[p][c] = Pending}

Counts ==
  /\ executed \in [Procs -> Nat] /\ reused \in [Procs -> Nat] /\ limit \in [Procs -> Nat]
  /\ DOMAIN result = Procs

\* The tally of a call that is under way.
Tally(p) ==
  /\ executed[p] + reused[p] + Cardinality(Deferred(p)) = cursor[p] - 1
  /\ executed[p] =< limit[p]
  /\ Deferred(p) # {} => executed[p] = limit[p]
  /\ \A c \in Cells : c >= cursor[p] => states[p][c] = None

\* The tally of a call that returned; a complete result is what the receipts say.
Returned(p) ==
  LET pending == {c \in Cells : result[p][c] = Pending} IN
  /\ executed[p] + reused[p] + Cardinality(pending) = N
  /\ executed[p] =< limit[p]
  /\ pending # {} => executed[p] = limit[p]
  /\ pending = {} => /\ summary = result[p] /\ receipts = result[p]
                     /\ \A c \in Cells : receipts[c] # None

Accounted(p) ==
  /\ pc[p] \notin Idle => Tally(p)
  /\ InHand(p) => executed[p] < limit[p]
  /\ AtEnd(p) => cursor[p] = N + 1 /\ Complete(p)
  /\ pc[p] = "load" /\ cursor[p] = 1 => summary # None
  /\ pc[p] = "returned" => Returned(p)

Accounts == Counts /\ \A p \in Procs : Accounted(p)

-----------------------------------------------------------------------------
\* No call is under way at first.
LEMMA InitAccounts == Init => Accounts
  <1> SUFFICES ASSUME Init PROVE Accounts
    OBVIOUS
  <1>1. \A p \in Procs : pc[p] = "idle"
    BY DEF Init
  <1>2. Counts
    BY DEF Init, Counts
  <1> QED
    BY <1>1, <1>2 DEF Accounts, Accounted, InHand, AtEnd, Idle, Publishing

\* What a step of another process leaves alone here.
LEMMA OthersKeepCounts ==
  ASSUME Counts, NEW p \in Procs, Call(p) \/ RunStep(p) \/ Interrupt(p) \/ Kill(p)
  PROVE  /\ \A q \in Procs \ {p} :
              /\ executed'[q] = executed[q] /\ reused'[q] = reused[q]
              /\ limit'[q] = limit[q] /\ result'[q] = result[q]
         /\ Counts'
  BY DEF Counts, RunStep, Call, Prepare, PrepareRefuses, Verify, VerifyRefuses, Look,
         ReuseCell, ReuseRefuses, DeferCell, ExecuteCell, WriteReceipt,
         WriteReceiptRefuses, Finish, WriteSummary, WriteSummaryRefuses, LoadSummary,
         LoadSummaryRefuses, MakeTemporary, Link, LinkFindsFile, Unlink,
         UnlinkAndRefuse, Interrupt, Kill, Stop, Forget, Refuse, Goto, Publish,
         RecordCell, locals

\* The cells put off are finitely many.
LEMMA DeferredFinite ==
  ASSUME NEW p \in Procs
  PROVE  IsFiniteSet(Deferred(p)) /\ Cardinality(Deferred(p)) \in Nat
  <1>1. IsFiniteSet(Cells) /\ Deferred(p) \in SUBSET Cells
    BY FS_Interval DEF Cells, Deferred
  <1> QED
    BY <1>1, FS_Subset, FS_CardinalityType

\* A returned result stays what it was: the receipts and the summary do.
LEMMA ReturnedStays ==
  ASSUME IInv, IInv', Counts, NEW q \in Procs, Returned(q), [Next]_vars,
         executed'[q] = executed[q], reused'[q] = reused[q], limit'[q] = limit[q],
         result'[q] = result[q]
  PROVE  Returned(q)'
  <1> DEFINE pending == {c \in Cells : result[q][c] = Pending}
  <1>1. CASE pending # {}
    BY <1>1 DEF Returned
  <1>2. CASE pending = {}
    <2>1. /\ summary = result[q] /\ receipts = result[q]
          /\ \A c \in Cells : receipts[c] # None
      BY <1>2 DEF Returned
    <2>2. receipts' = receipts
      BY <2>1, FilesStay DEF IInv, Typed
    <2>3. summary' = summary
      <3>1. CASE summary # None
        BY <3>1, FilesStay DEF IInv
      <3>2. CASE summary = None
        BY <2>1, <2>2, <3>2 DEF IInv, SummaryMatchesReceipts
      <3> QED
        BY <3>1, <3>2
    <2> QED
      BY <2>1, <2>2, <2>3 DEF Returned
  <1> QED
    BY <1>1, <1>2

\* The steps of other processes.
LEMMA OthersAccounted ==
  ASSUME IInv, IInv', Accounts, NEW p \in Procs,
         Call(p) \/ RunStep(p) \/ Interrupt(p) \/ Kill(p), NEW q \in Procs \ {p}
  PROVE  Accounted(q)'
  <1>1. /\ pc'[q] = pc[q] /\ cursor'[q] = cursor[q] /\ target'[q] = target[q]
        /\ states'[q] = states[q]
        /\ executed'[q] = executed[q] /\ reused'[q] = reused[q]
        /\ limit'[q] = limit[q] /\ result'[q] = result[q]
    BY OthersKeep, OthersKeepCounts DEF IInv, Accounts
  <1>2. Deferred(q)' = Deferred(q)
    BY <1>1 DEF Deferred
  <1>3. Accounted(q) /\ [Next]_vars
    BY DEF Accounts, Next
  <1>4. pc[q] = "returned" => Returned(q)'
    BY <1>1, <1>3, ReturnedStays DEF Accounts, Accounted
  <1>5. summary # None => summary' # None
    BY <1>3, FilesStay DEF IInv
  <1>6. Tally(q) => Tally(q)'
    BY <1>1, <1>2 DEF Tally
  <1>7. /\ InHand(q)' => InHand(q)
        /\ AtEnd(q)' => AtEnd(q)
        /\ Complete(q) => Complete(q)'
    BY <1>1 DEF InHand, AtEnd, Complete
  <1> QED
    BY <1>1, <1>3, <1>4, <1>5, <1>6, <1>7 DEF Accounted

\* A cell that gets its state moves the tally by one.
LEMMA OneMore ==
  ASSUME IInv, Accounts, NEW p \in Procs, Tally(p), cursor[p] \in Cells,
         NEW entry \in Outcomes \cup {Pending},
         states' = [states EXCEPT ![p][cursor[p]] = entry],
         cursor' = [cursor EXCEPT ![p] = @ + 1]
  PROVE  /\ entry = Pending =>
              /\ Cardinality(Deferred(p)') = Cardinality(Deferred(p)) + 1
         /\ entry # Pending => Deferred(p)' = Deferred(p)
         /\ Deferred(p) # {} => Deferred(p)' # {}
         /\ \A c \in Cells : c >= cursor'[p] => states'[p][c] = None
  <1> DEFINE c == cursor[p]
  <1>1. /\ states[p] \in [Cells -> Outcomes \cup {None, Pending}] /\ states[p][c] = None
        /\ \A d \in Cells : states'[p][d] = IF d = c THEN entry ELSE states[p][d]
        /\ cursor'[p] = c + 1 /\ c \in Int
    BY DEF IInv, Typed, States, Tally, Cells
  <1>2. c \notin Deferred(p) /\ Pending # None
    BY <1>1 DEF Deferred
  <1>3. entry = Pending => Deferred(p)' = Deferred(p) \cup {c}
    BY <1>1 DEF Deferred
  <1>4. entry # Pending => Deferred(p)' = Deferred(p)
    BY <1>1, <1>2 DEF Deferred
  <1>5. \A d \in Cells : d >= c + 1 => states'[p][d] = None
    BY <1>1 DEF Tally, Cells
  <1> HIDE DEF c
  <1>6. entry = Pending => Cardinality(Deferred(p)') = Cardinality(Deferred(p)) + 1
    BY <1>2, <1>3, DeferredFinite, FS_AddElement
  <1> QED
    BY <1>1, <1>3, <1>4, <1>5, <1>6

\* The receipt in hand is recorded as executed.
LEMMA RecordTally ==
  ASSUME IInv, Accounts, NEW p \in Procs, InHand(p), RecordCell(p),
         UNCHANGED <<limit, reused>>
  PROVE  Accounted(p)'
  <1>1. cursor[p] \in Cells /\ execution[p] \in Outcomes /\ Tally(p) /\ executed[p] < limit[p]
    <2>1. pc[p] \notin Idle
      BY DEF InHand, Idle, Publishing
    <2> QED
      BY <2>1 DEF IInv, Locals, Accounts, Accounted, InHand
  <1>2. /\ states' = [states EXCEPT ![p][cursor[p]] = execution[p]]
        /\ cursor' = [cursor EXCEPT ![p] = @ + 1]
        /\ executed'[p] = executed[p] + 1 /\ pc'[p] = "cell"
        /\ reused'[p] = reused[p] /\ limit'[p] = limit[p] /\ cursor'[p] = cursor[p] + 1
    BY DEF RecordCell, Goto, IInv, Typed, Accounts, Counts
  <1>3. /\ Deferred(p)' = Deferred(p)
        /\ \A c \in Cells : c >= cursor'[p] => states'[p][c] = None
    BY <1>1, <1>2, OneMore
  <1>4. /\ executed[p] \in Nat /\ reused[p] \in Nat /\ limit[p] \in Nat /\ cursor[p] \in Nat
        /\ Cardinality(Deferred(p)) \in Nat
    BY DeferredFinite DEF Accounts, Counts, IInv, Typed
  <1>5. Tally(p)'
    BY <1>1, <1>2, <1>3, <1>4 DEF Tally
  <1> QED
    BY <1>2, <1>5 DEF Accounted, InHand, AtEnd, Publishing

\* A step that leaves the tally of its own process alone.
LEMMA TallyStays ==
  ASSUME IInv, Accounts, NEW p \in Procs, pc[p] \notin Idle,
         UNCHANGED <<limit, cursor, states, executed, reused>>
  PROVE  Tally(p)'
  <1>1. Deferred(p)' = Deferred(p)
    BY DEF Deferred
  <1> QED
    BY <1>1 DEF Tally, Accounts, Accounted

\* Every step keeps the account of its process.
LEMMA OwnAccount ==
  ASSUME IInv, IInv', Accounts, NEW p \in Procs,
         Call(p) \/ RunStep(p) \/ Interrupt(p) \/ Kill(p)
  PROVE  Accounted(p)'
  <1>0. /\ ManifestFile # SummaryFile /\ {ManifestFile, SummaryFile} \cap Cells = {}
        /\ target[p] \in {ManifestFile, SummaryFile} \cup Cells
    BY DEF ManifestFile, SummaryFile, Cells, IInv, Typed, Targets
  <1>1. /\ pc \in [Procs -> Labels] /\ cursor \in [Procs -> 1 .. N + 1]
        /\ target \in [Procs -> Targets] /\ states \in [Procs -> States] /\ Counts
        /\ Accounted(p) /\ (pc[p] \notin Idle => Tally(p)) /\ N \in Nat \ {0}
    BY DEF IInv, Typed, Accounts, Accounted
  <1>2. CASE Forget(p) /\ \E l \in Idle \ {"returned"} : Goto(p, l)
    BY <1>2, <1>1 DEF Goto, Accounted, InHand, AtEnd, Idle, Publishing
  <1>3. CASE Call(p)
    <2>1. /\ pc'[p] = "prepare" /\ executed'[p] = 0 /\ reused'[p] = 0 /\ cursor'[p] = 1
          /\ limit'[p] \in Nat /\ states'[p] = NoStates
      BY <1>3, <1>1 DEF Call, Goto, Counts
    <2>2. Deferred(p)' = {}
      BY <2>1 DEF Deferred, NoStates
    <2>3. Tally(p)'
      BY <2>1, <2>2, FS_EmptySet DEF Tally, NoStates
    <2> QED
      BY <2>1, <2>3 DEF Accounted, InHand, AtEnd, Publishing
  <1>4. CASE Prepare(p) \/ Verify(p)
    <2>1. /\ Tally(p)' /\ pc'[p] \in {"publish", "verify", "look"}
          /\ pc'[p] = "publish" => target'[p] = ManifestFile
      BY <1>4, <1>1, TallyStays DEF Prepare, Verify, Publish, Goto, locals, Idle
    <2> QED
      BY <1>0, <2>1 DEF Accounted, InHand, AtEnd, Publishing
  <1>5. CASE Look(p)
    <2>1. /\ Tally(p)' /\ pc'[p] \in {"cell", "load"} /\ cursor'[p] = 1
          /\ pc'[p] = "load" => summary' # None
      BY <1>5, <1>1, TallyStays DEF Look, Goto, locals, files, Idle, IInv, Locals
    <2> QED
      BY <2>1 DEF Accounted, InHand, AtEnd, Publishing
  <1>6. CASE ReuseCell(p)
    <2>1. PICK c \in Cells :
            /\ cursor[p] = c /\ receipts[c] \in Outcomes
            /\ states' = [states EXCEPT ![p][c] = receipts[c]]
            /\ cursor' = [cursor EXCEPT ![p] = @ + 1]
            /\ reused' = [reused EXCEPT ![p] = @ + 1]
            /\ pc[p] = "cell" /\ UNCHANGED <<pc, limit, executed>>
      BY <1>6 DEF ReuseCell, Visiting, IInv, Typed
    <2>2. /\ Deferred(p)' = Deferred(p)
          /\ \A d \in Cells : d >= cursor'[p] => states'[p][d] = None
      BY <1>1, <2>1, OneMore DEF Idle
    <2>3. Tally(p) /\ Cardinality(Deferred(p)) \in Nat
      BY <1>1, <2>1, DeferredFinite DEF Idle
    <2>4. /\ reused'[p] = reused[p] + 1 /\ cursor'[p] = cursor[p] + 1
          /\ executed[p] \in Nat /\ reused[p] \in Nat /\ cursor[p] \in Nat
      BY <1>1, <2>1 DEF Counts
    <2>5. Tally(p)'
      BY <2>1, <2>2, <2>3, <2>4 DEF Tally
    <2> QED
      BY <2>1, <2>5 DEF Accounted, InHand, AtEnd, Publishing
  <1>7. CASE DeferCell(p)
    <2>1. PICK c \in Cells :
            /\ cursor[p] = c /\ executed[p] >= limit[p]
            /\ states' = [states EXCEPT ![p][c] = Pending]
            /\ cursor' = [cursor EXCEPT ![p] = @ + 1]
            /\ pc[p] = "cell" /\ UNCHANGED <<pc, limit, executed, reused>>
      BY <1>7 DEF DeferCell, Visiting
    <2>2. /\ Cardinality(Deferred(p)') = Cardinality(Deferred(p)) + 1
          /\ \A d \in Cells : d >= cursor'[p] => states'[p][d] = None
      BY <1>1, <2>1, OneMore DEF Idle
    <2>3. Tally(p) /\ Cardinality(Deferred(p)) \in Nat
      BY <1>1, <2>1, DeferredFinite DEF Idle
    <2>4. /\ cursor'[p] = cursor[p] + 1 /\ limit[p] \in Nat
          /\ executed[p] \in Nat /\ reused[p] \in Nat /\ cursor[p] \in Nat
      BY <1>1, <2>1 DEF Counts
    <2>5. Tally(p)'
      BY <2>1, <2>2, <2>3, <2>4 DEF Tally
    <2> QED
      BY <2>1, <2>5 DEF Accounted, InHand, AtEnd, Publishing
  <1>8. CASE ExecuteCell(p)
    <2>1. /\ pc[p] = "cell" /\ pc'[p] = "write" /\ executed[p] < limit[p]
          /\ UNCHANGED <<limit, cursor, states, executed, reused>>
      BY <1>8, <1>1 DEF ExecuteCell, Visiting, Goto
    <2>2. Tally(p)'
      BY <2>1, TallyStays DEF Idle
    <2> QED
      BY <2>1, <2>2 DEF Accounted, InHand, AtEnd, Publishing
  <1>9. CASE WriteReceipt(p)
    <2>1. CASE RecordCell(p) /\ UNCHANGED <<limit, reused>>
      BY <1>9, <2>1, RecordTally DEF WriteReceipt, InHand
    <2>2. CASE Publish(p, cursor[p]) /\ UNCHANGED <<limit, cursor, states, executed, reused>>
      <3>1. /\ pc[p] = "write" /\ pc'[p] = "publish" /\ target'[p] = cursor[p]
            /\ cursor[p] \in Cells
        BY <1>9, <1>1, <2>2 DEF WriteReceipt, Publish, Goto, IInv, Locals
      <3>2. Tally(p)' /\ executed'[p] < limit'[p]
        BY <1>1, <2>2, <3>1, TallyStays DEF Idle, Accounted, InHand
      <3> QED
        BY <1>0, <3>1, <3>2 DEF Accounted, InHand, AtEnd, Publishing
    <2> QED
      BY <1>9, <2>1, <2>2 DEF WriteReceipt
  <1>10. CASE Finish(p)
    <2>1. /\ pc[p] = "cell" /\ cursor[p] = N + 1 /\ Tally(p)
          /\ UNCHANGED <<limit, cursor, states, executed, reused, files>>
      BY <1>10, <1>1 DEF Finish, Idle
    <2>2. Decided(p)
      BY <2>1 DEF IInv, Locals
    <2>3. CASE \E c \in Cells : states[p][c] = Pending
      <3>1. pc'[p] = "returned" /\ result'[p] = states[p]
        BY <1>10, <1>1, <2>3 DEF Finish, Goto, Counts
      <3>2. Deferred(p) = {c \in Cells : result'[p][c] = Pending} /\ Deferred(p) # {}
        BY <2>3, <3>1 DEF Deferred
      <3>3. /\ executed[p] \in Nat /\ reused[p] \in Nat /\ Cardinality(Deferred(p)) \in Nat
        BY <1>1, DeferredFinite DEF Counts
      <3>4. executed[p] + reused[p] + Cardinality(Deferred(p)) = N
        BY <1>1, <2>1, <3>3 DEF Tally
      <3>5. Returned(p)'
        BY <2>1, <3>2, <3>4 DEF Returned, Tally
      <3> QED
        BY <3>1, <3>5 DEF Accounted, InHand, AtEnd, Publishing, Idle
    <2>4. CASE ~\E c \in Cells : states[p][c] = Pending
      <3>1. pc'[p] = "finish"
        BY <1>10, <1>1, <2>4 DEF Finish, Goto
      <3>2. Tally(p)'
        BY <2>1, TallyStays DEF Idle
      <3>3. Complete(p)'
        <4>1. \A c \in Cells : c < N + 1
          BY DEF Cells
        <4> QED
          BY <2>1, <2>2, <2>4, <4>1 DEF Decided, Complete
      <3> QED
        BY <2>1, <3>1, <3>2, <3>3 DEF Accounted, InHand, AtEnd, Publishing
    <2> QED
      BY <2>3, <2>4
  <1>11. CASE WriteSummary(p)
    <2>1. /\ pc[p] = "finish" /\ pc'[p] \in {"publish", "load"}
          /\ pc'[p] = "publish" => target'[p] = SummaryFile
          /\ UNCHANGED <<limit, cursor, states, executed, reused>>
      BY <1>11, <1>1 DEF WriteSummary, Publish, Goto
    <2>2. Tally(p)' /\ cursor'[p] = N + 1 /\ Complete(p)' /\ N + 1 # 1
      BY <1>1, <2>1, TallyStays DEF Idle, Accounted, AtEnd, Complete
    <2> QED
      BY <1>0, <2>1, <2>2 DEF Accounted, InHand, AtEnd, Publishing
  <1>12. CASE LoadSummary(p)
    <2>1. /\ pc[p] = "load" /\ summary = receipts /\ Tally(p) /\ pc'[p] = "returned"
          /\ UNCHANGED <<limit, executed, files>>
          /\ result'[p] = IF cursor[p] = 1 THEN summary ELSE states[p]
          /\ reused'[p] = IF cursor[p] = 1 THEN N ELSE reused[p]
          /\ receipts \in [Cells -> Outcomes \cup {None}]
      BY <1>12, <1>1 DEF LoadSummary, SummaryVerified, Goto, Idle, Counts, IInv, Typed
    <2>2. /\ executed[p] \in Nat /\ reused[p] \in Nat /\ Cardinality(Deferred(p)) \in Nat
      BY <1>1, DeferredFinite DEF Counts
    <2>3. result'[p] = receipts /\ executed[p] + reused'[p] = N
          /\ \A c \in Cells : receipts[c] \in Outcomes
      <3>1. CASE cursor[p] = 1
        <4>1. executed[p] = 0
          <5>1. executed[p] + reused[p] + Cardinality(Deferred(p)) = 0
            BY <2>1, <3>1 DEF Tally
          <5>2. \A a, b, c \in Nat : a + b + c = 0 => a = 0
            OBVIOUS
          <5> QED
            BY <2>2, <5>1, <5>2
        <4>2. summary # None
          BY <1>1, <2>1, <3>1 DEF Accounted
        <4> QED
          BY <1>1, <2>1, <3>1, <4>1, <4>2 DEF IInv, SummaryLast
      <3>2. CASE cursor[p] # 1
        <4>1. cursor[p] = N + 1 /\ Complete(p)
          BY <1>1, <2>1, <3>2 DEF Accounted, AtEnd
        <4>2. \A c \in Cells : states[p][c] = receipts[c] /\ receipts[c] # None
          BY <4>1 DEF Complete, IInv, ReportsMatchReceipts
        <4>3. states[p] = receipts
          BY <1>1, <2>1, <4>2 DEF States
        <4>4. Deferred(p) = {}
          BY <4>1 DEF Deferred, Complete
        <4>5. executed[p] + reused[p] = N
          BY <1>1, <2>1, <2>2, <4>1, <4>4, FS_EmptySet DEF Tally
        <4> QED
          BY <2>1, <3>2, <4>2, <4>3, <4>5
      <3> QED
        BY <3>1, <3>2
    <2>4. {c \in Cells : result'[p][c] = Pending} = {}
      BY <2>3
    <2>5. executed[p] =< limit[p]
      BY <2>1 DEF Tally
    <2>6. Returned(p)'
      <3>1. /\ receipts' = receipts /\ summary' = summary /\ executed' = executed
            /\ limit' = limit
        BY <2>1 DEF files
      <3>2. executed[p] + reused'[p] + Cardinality({}) = N
        BY <1>1, <2>3, FS_EmptySet
      <3> QED
        BY <2>1, <2>3, <2>4, <2>5, <3>1, <3>2 DEF Returned
    <2> QED
      BY <2>1, <2>6 DEF Accounted, InHand, AtEnd, Publishing, Idle
  <1>13. CASE MakeTemporary(p) \/ LinkFindsFile(p) \/ Link(p)
    <2>1. /\ pc[p] \in Publishing /\ pc'[p] \in Publishing
          /\ UNCHANGED <<target, limit, cursor, states, executed, reused>>
      BY <1>13, <1>1 DEF MakeTemporary, LinkFindsFile, Link, Goto, locals, Publishing
    <2>2. Tally(p)'
      BY <2>1, TallyStays DEF Idle, Publishing
    <2>3. (InHand(p)' => InHand(p)) /\ (AtEnd(p)' => AtEnd(p)) /\ (Complete(p) => Complete(p)')
      BY <2>1 DEF InHand, AtEnd, Publishing, Complete
    <2> QED
      BY <1>1, <2>1, <2>2, <2>3 DEF Accounted, Publishing
  <1>14. CASE Unlink(p)
    <2>1. CASE target[p] \in Cells
      BY <1>14, <2>1, RecordTally DEF Unlink, InHand, Publishing
    <2>2. CASE target[p] \notin Cells
      <3>1. /\ pc[p] \in Publishing
            /\ pc'[p] = IF target[p] = ManifestFile THEN "verify" ELSE "load"
            /\ UNCHANGED <<limit, cursor, states, executed, reused>>
        BY <1>14, <1>1, <2>2 DEF Unlink, Goto, Publishing
      <3>2. Tally(p)'
        BY <3>1, TallyStays DEF Idle, Publishing
      <3>3. pc'[p] = "load" => cursor'[p] = N + 1 /\ Complete(p)' /\ N + 1 # 1
        BY <1>0, <1>1, <2>2, <3>1 DEF Accounted, AtEnd, Complete
      <3> QED
        BY <3>1, <3>2, <3>3 DEF Accounted, InHand, AtEnd, Publishing
    <2> QED
      BY <2>1, <2>2
  <1> QED
    BY <1>2, <1>3, <1>4, <1>5, <1>6, <1>7, <1>8, <1>9, <1>10, <1>11, <1>12, <1>13, <1>14
    DEF RunStep, PrepareRefuses, VerifyRefuses, ReuseRefuses, WriteReceiptRefuses,
        WriteSummaryRefuses, LoadSummaryRefuses, UnlinkAndRefuse, Interrupt, Kill,
        Stop, Refuse, Idle

\* A run that returns has executed, reused or left pending every cell, executed no
\* more than it was allowed, and is complete exactly with the published summary
\* (matrix/runner.py:86, matrix/summary.py:143).
THEOREM ResultsAccount == Spec => []ResultAccountsForEveryCell
  <1>1. ASSUME IInv, IInv', Accounts, [Next]_vars PROVE Accounts'
    <2>1. CASE UNCHANGED vars
      <3>1. /\ UNCHANGED <<pc, request, limit, cursor, target, states, executed, reused, result>>
            /\ UNCHANGED <<summary, receipts>>
        BY <2>1 DEF vars, locals, files
      <3>2. \A p \in Procs : Accounted(p) <=> Accounted(p)'
        BY <3>1 DEF Accounted, Tally, Deferred, InHand, AtEnd, Complete, Returned
      <3> QED
        BY <1>1, <3>1, <3>2 DEF Accounts, Counts
    <2>2. ASSUME NEW p \in Procs, Call(p) \/ RunStep(p) \/ Interrupt(p) \/ Kill(p)
          PROVE  Accounts'
      <3>1. Counts'
        BY <1>1, <2>2, OthersKeepCounts DEF Accounts
      <3>2. \A q \in Procs : Accounted(q)'
        BY <1>1, <2>2, OwnAccount, OthersAccounted
      <3> QED
        BY <3>1, <3>2 DEF Accounts
    <2> QED
      BY <1>1, <2>1, <2>2 DEF Next
  <1>2. Accounts => ResultAccountsForEveryCell
    BY DEF Accounts, Accounted, Returned, ResultAccountsForEveryCell
  <1> QED
    BY <1>1, <1>2, InitAccounts, Invariance, PTL DEF Spec

-----------------------------------------------------------------------------
(* What holds of a matrix directory that one process after the other uses  *)
(* for one manifest, interrupted any number of times and never killed: it  *)
(* can always be resumed, and no cell is run again once its receipt is     *)
(* published.  Both fail for overlapping runs, and the first one after a   *)
(* kill: the hypothesis Alone is what the documentation promises them for. *)

\* One caller, one manifest, no kill.
Alone(p, m) == Procs = {p} /\ Manifests = {m} /\ MaxKills = 0

\* Nothing of another run is ever found in the directory.
Undisturbed(p, m) ==
  /\ stray = FALSE /\ kills = 0 /\ request[p] = m
  /\ manifest \in {None, m}
  /\ pc[p] \notin {"refused", "present", "clobbered"}
  /\ pc[p] \in {"verify", "look", "cell", "write", "finish", "load"} => manifest = m
  /\ pc[p] \in Publishing /\ target[p] # ManifestFile => manifest = m
  /\ pc[p] = "linked" /\ target[p] = ManifestFile => manifest = m
  /\ pc[p] \in {"publish", "temp"} => Existing(target[p]) = None
  /\ pc[p] = "write" => receipts[cursor[p]] = None
  /\ pc[p] \in {"cell", "write", "finish"} => summary = None
  /\ pc[p] \in Publishing /\ target[p] \in Cells => summary = None
  /\ pc[p] = "load" => summary = receipts
  /\ pc[p] = "linked" /\ target[p] = SummaryFile => summary = receipts

\* A run of a cell is lost, published, or in the hands of the process.
Counted(p) ==
  /\ runs \in [Cells -> Nat] /\ lost \in [Cells -> Nat]
  /\ \A c \in Cells :
       runs[c] = lost[c] + (IF receipts[c] # None THEN 1 ELSE 0)
                         + (IF Unpublished(p) /\ cursor[p] = c THEN 1 ELSE 0)

-----------------------------------------------------------------------------
\* The manifest, the receipts and the summary are different files.
LEMMA Apart ==
  /\ ManifestFile # SummaryFile /\ {ManifestFile, SummaryFile} \cap Cells = {}
  /\ Targets = {ManifestFile, SummaryFile} \cup Cells
BY DEF ManifestFile, SummaryFile, Cells, Targets

\* The empty directory is undisturbed, and nothing was run.
LEMMA AloneInit ==
  ASSUME NEW p, NEW m, Alone(p, m), Init
  PROVE  Undisturbed(p, m) /\ Counted(p)
BY DEF Alone, Init, Undisturbed, Counted, Unpublished, Publishing, NoStates

\* A single process never meets a reason to refuse.
LEMMA UndisturbedStep ==
  ASSUME NEW p, NEW m, Alone(p, m), IInv, Undisturbed(p, m), [Next]_vars
  PROVE  Undisturbed(p, m)'
<1>0. CASE UNCHANGED vars
  BY <1>0 DEF vars, files, locals, history, Undisturbed, Existing
<1>1. ASSUME Call(p) \/ RunStep(p) \/ Interrupt(p) \/ Kill(p)
      PROVE  Undisturbed(p, m)'
  <2> USE Apart DEF Alone, Goto, Undisturbed, IInv, Typed
  <2>1. CASE Call(p)
    BY <2>1 DEF Call, Idle, Publishing, files, history
  <2>2. CASE Prepare(p)
    BY <2>2 DEF Prepare, Publish, Existing, Publishing, files, history, locals
  <2>3. CASE Verify(p) \/ Look(p)
    BY <2>3 DEF Verify, Look, OutputVerified, SummaryMatchesReceipts, Publishing,
       files, history, locals
  <2>4. CASE ReuseCell(p) \/ DeferCell(p)
    BY <2>4 DEF ReuseCell, DeferCell, Visiting, Publishing, files, history
  <2>5. CASE ExecuteCell(p)
    BY <2>5 DEF ExecuteCell, Visiting, Publishing, files
  <2>6. CASE WriteReceipt(p)
    <3>1. receipts[cursor[p]] = None /\ execution[p] # None /\ cursor[p] \in Cells
      BY <2>6 DEF WriteReceipt, Locals
    <3>2. Publish(p, cursor[p]) /\ UNCHANGED <<files, stray, history, request, cursor>>
      BY <2>6, <3>1 DEF WriteReceipt
    <3> QED BY <3>1, <3>2, <2>6 DEF WriteReceipt, Publish, Publishing, Existing, files, history
  <2>7. CASE Finish(p)
    BY <2>7 DEF Finish, Publishing, files, history
  <2>8. CASE WriteSummary(p)
    <3>1. \A c \in Cells : states[p][c] = receipts[c]
      BY <2>8 DEF WriteSummary, Locals, Complete, ReportsMatchReceipts
    <3>2. states[p] = receipts
      BY <3>1 DEF States
    <3> QED BY <2>8, <3>2 DEF WriteSummary, Publish, Publishing, Existing, files, history
  <2>9. CASE LoadSummary(p)
    BY <2>9 DEF LoadSummary, Publishing, files, history
  <2>10. CASE MakeTemporary(p)
    BY <2>10 DEF MakeTemporary, Publishing, Existing, files, history, locals
  <2>11. CASE Link(p)
    <3>0. /\ pc'[p] = "linked" /\ UNCHANGED <<stray, history, locals>>
          /\ pc[p] = "temp" /\ p \in Procs /\ target[p] \in Targets
      BY <2>11 DEF Link
    <3>1. CASE target[p] = ManifestFile
      <4>1. manifest' = m
        BY <2>11, <3>1 DEF Link, Content
      <4> QED BY <3>0, <3>1, <4>1 DEF Publishing, locals, history
    <3>2. CASE target[p] = SummaryFile
      <4>1. summary' = states[p] /\ UNCHANGED <<receipts, manifest>>
        BY <2>11, <3>2 DEF Link, Content
      <4>2. \A c \in Cells : states[p][c] = receipts[c]
        BY <3>0, <3>2 DEF Locals, Publishing, Complete, ReportsMatchReceipts
      <4>3. states[p] = receipts
        BY <3>0, <4>2 DEF States
      <4> QED BY <3>0, <3>2, <4>1, <4>3 DEF Publishing, locals, history
    <3>3. CASE target[p] \in Cells
      <4>1. UNCHANGED <<manifest, summary>>
        BY <1>1, <2>11, <3>0, <3>3, LinkOnly DEF files
      <4> QED BY <3>0, <3>3, <4>1 DEF Publishing, locals, history
    <3> QED BY <3>0, <3>1, <3>2, <3>3
  <2>12. CASE Unlink(p)
    BY <2>12 DEF Unlink, RecordCell, Publishing, files, history
  <2>13. CASE Interrupt(p)
    BY <2>13 DEF Interrupt, Stop, Forget, Idle, Publishing, files
  <2>14. ~Kill(p) /\ ~LinkFindsFile(p) /\ ~UnlinkAndRefuse(p)
    BY DEF Kill, LinkFindsFile, UnlinkAndRefuse
  <2>15. /\ ~PrepareRefuses(p) /\ ~VerifyRefuses(p) /\ ~ReuseRefuses(p)
         /\ ~WriteReceiptRefuses(p) /\ ~WriteSummaryRefuses(p)
         /\ ~LoadSummaryRefuses(p)
    BY DEF PrepareRefuses, VerifyRefuses, ReuseRefuses, WriteReceiptRefuses,
       WriteSummaryRefuses, LoadSummaryRefuses, MayChangeDuringRead, OutputVerified,
       SummaryVerified, CellsHaveTemporary, HasTemporary, Visiting
  <2> QED
    BY <1>1, <2>1, <2>2, <2>3, <2>4, <2>5, <2>6, <2>7, <2>8, <2>9, <2>10, <2>11,
       <2>12, <2>13, <2>14, <2>15 DEF RunStep
<1> QED BY <1>0, <1>1 DEF Next, Alone

\* Every run of a cell stays accounted for.
LEMMA CountedStep ==
  ASSUME NEW p, NEW m, Alone(p, m), IInv, Undisturbed(p, m), Counted(p), [Next]_vars
  PROVE  Counted(p)'
<1>0. CASE UNCHANGED vars
  BY <1>0 DEF vars, files, locals, history, Counted, Unpublished
<1>1. ASSUME Call(p) \/ RunStep(p) \/ Interrupt(p) \/ Kill(p)
      PROVE  Counted(p)'
  <2> USE Apart DEF Alone, Goto, Counted, Unpublished, IInv, Typed
  <2>1. CASE Call(p) \/ Prepare(p) \/ Verify(p) \/ Look(p)
    BY <2>1 DEF Call, Prepare, Publish, Verify, Look, Idle, files, history, locals
  <2>2. CASE ReuseCell(p) \/ DeferCell(p)
    BY <2>2 DEF ReuseCell, DeferCell, Visiting, files, history
  <2>3. CASE ExecuteCell(p)
    BY <2>3 DEF ExecuteCell, Visiting, files
  <2>4. CASE WriteReceipt(p)
    <3>1. receipts[cursor[p]] = None /\ execution[p] # None /\ cursor[p] \in Cells
      BY <2>4 DEF WriteReceipt, Locals, Undisturbed
    <3>2. Publish(p, cursor[p]) /\ UNCHANGED <<files, history, cursor>>
      BY <2>4, <3>1 DEF WriteReceipt
    <3> QED BY <2>4, <3>1, <3>2 DEF WriteReceipt, Publish, files, history
  <2>5. CASE Finish(p) \/ WriteSummary(p) \/ LoadSummary(p)
    BY <2>5 DEF Finish, WriteSummary, LoadSummary, Publish, files, history
  <2>6. CASE MakeTemporary(p)
    BY <2>6 DEF MakeTemporary, files, history, locals
  <2>7. CASE Link(p)
    <3>0. /\ pc'[p] = "linked" /\ UNCHANGED <<history, locals>>
          /\ pc[p] = "temp" /\ p \in Procs /\ target[p] \in Targets
      BY <2>7 DEF Link
    <3>1. CASE target[p] \notin Cells
      <4>1. receipts' = receipts
        BY <2>7, <3>1 DEF Link
      <4> QED BY <3>0, <3>1, <4>1 DEF locals, history
    <3>2. CASE target[p] \in Cells
      <4>1. /\ cursor[p] = target[p] /\ execution[p] # None
            /\ receipts[target[p]] = None
        BY <3>0, <3>2 DEF Locals, Publishing, Undisturbed, Existing
      <4>2. receipts' = [c \in Cells |-> IF target[p] = c THEN execution[p]
                                         ELSE receipts[c]]
        BY <2>7, <3>2 DEF Link, Content
      <4> QED BY <3>0, <3>2, <4>1, <4>2 DEF locals, history
    <3> QED BY <3>1, <3>2
  <2>8. CASE Unlink(p)
    BY <2>8 DEF Unlink, RecordCell, Locals, Publishing, files, history
  <2>9. CASE Interrupt(p)
    BY <2>9 DEF Interrupt, Stop, LoseRun, Forget, Idle, Locals, Publishing, files
  <2>10. CASE pc'[p] = "refused"
    BY <2>10, UndisturbedStep DEF Undisturbed
  <2> QED
    BY <1>1, <2>1, <2>2, <2>3, <2>4, <2>5, <2>6, <2>7, <2>8, <2>9, <2>10
    DEF RunStep, PrepareRefuses, VerifyRefuses, ReuseRefuses, WriteReceiptRefuses,
        WriteSummaryRefuses, LoadSummaryRefuses, UnlinkAndRefuse, LinkFindsFile,
        Refuse, Kill, Undisturbed
<1> QED BY <1>0, <1>1 DEF Next, Alone

-----------------------------------------------------------------------------
\* One invocation after the other is never refused: the directory can always be
\* resumed, wherever the one before was interrupted (README.md:103).
THEOREM Resumable ==
  ASSUME NEW p, NEW m, Alone(p, m)
  PROVE  Spec => []AlwaysResumable
<1>1. Init => Undisturbed(p, m)
  BY AloneInit
<1>2. IInv /\ Undisturbed(p, m) /\ [Next]_vars => Undisturbed(p, m)'
  BY UndisturbedStep
<1>3. Undisturbed(p, m) => AlwaysResumable
  BY DEF Alone, Undisturbed, AlwaysResumable
<1> QED BY <1>1, <1>2, <1>3, Invariance, PTL DEF Spec

\* One invocation after the other never runs a cell again whose receipt was
\* published (docs/benchmark_workflow.md:369).
THEOREM CellsExecuteOnce ==
  ASSUME NEW p, NEW m, Alone(p, m)
  PROVE  Spec => []ExecutedOnce
<1>1. Init => Undisturbed(p, m) /\ Counted(p)
  BY AloneInit
<1>2. IInv /\ Undisturbed(p, m) /\ Counted(p) /\ [Next]_vars
        => Undisturbed(p, m)' /\ Counted(p)'
  BY UndisturbedStep, CountedStep
<1>3. IInv /\ Undisturbed(p, m) /\ Counted(p) => ExecutedOnce
  <2> SUFFICES ASSUME IInv, Undisturbed(p, m), Counted(p), NEW c \in Cells
               PROVE  runs[c] =< lost[c] + 1
    BY DEF ExecutedOnce
  <2>1. Unpublished(p) /\ cursor[p] = c => receipts[c] = None
    BY Apart DEF Undisturbed, Unpublished, IInv, Locals, Publishing, Existing, Alone
  <2> QED BY <2>1 DEF Counted
<1> QED BY <1>1, <1>2, <1>3, Invariance, PTL DEF Spec
=============================================================================
