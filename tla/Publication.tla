---------------------------- MODULE Publication ----------------------------
(***************************************************************************)
(* How the repository's exporters publish one output: the receipts written *)
(* through a hard link, the directories renamed into place, and the bundle *)
(* generators that take a lock file. Several processes may publish to one  *)
(* path, and each may be killed between any two system calls.              *)
(***************************************************************************)
EXTENDS Integers

CONSTANTS
  Writers,    \* the processes
  Contents,   \* what they may publish
  Missing,    \* there is nothing at the path
  Orphan,     \* whose the files are that a killed run left
  Empty,      \* there is an empty directory at the path
  Exporters,  \* the exporters one of which publishes there
  MaxRuns     \* bound on the runs of all processes

(***************************************************************************)
(* What tells the exporters apart:                                         *)
(*   looks    whether the path is looked at before anything is written     *)
(*   locks    whether a lock file is taken once the content is staged      *)
(*   again    what content found there after staging means: "ignored" (no  *)
(*            look), "compared", "refused"                                 *)
(*   takes    whether an empty directory at the path is replaced           *)
(*   call     the system call that installs the content                    *)
(*   catches  the errors of that call after which the path is compared     *)
(*   watched  whether a read notices a change of st_ctime                  *)
(***************************************************************************)
Receipt ==
  [looks |-> TRUE, locks |-> FALSE, again |-> "ignored", takes |-> FALSE,
   call |-> "link", catches |-> {"EEXIST"}, watched |-> FALSE]

PolicyQualificationReceipt == Receipt
UniVTACQualificationReceipt == Receipt
LivePreflightReceipt == Receipt
DeploymentLayoutReceipt == Receipt
IntegrationConfiguration == [Receipt EXCEPT !.catches = {}]
RecoveryEvidence == [Receipt EXCEPT !.watched = TRUE]

Directory ==
  [Receipt EXCEPT !.looks = FALSE, !.again = "compared", !.takes = TRUE,
                  !.call = "rename", !.catches = {}]

LiveTrace == Directory
RestReference == Directory
TrialBundle == [Directory EXCEPT !.looks = TRUE, !.again = "refused"]
Report == [Directory EXCEPT !.looks = TRUE, !.again = "ignored"]
CellArtifact == [Directory EXCEPT !.takes = FALSE, !.catches = {"EEXIST"}]
CalibrationRequest == [CellArtifact EXCEPT !.looks = TRUE, !.again = "ignored"]
PrimaryMatrix == [Directory EXCEPT !.takes = FALSE, !.locks = TRUE]
PullOutKeyMatrix == PrimaryMatrix

AllExporters ==
  {PolicyQualificationReceipt, UniVTACQualificationReceipt, LivePreflightReceipt,
   DeploymentLayoutReceipt, IntegrationConfiguration, RecoveryEvidence, LiveTrace,
   RestReference, TrialBundle, Report, CellArtifact, CalibrationRequest,
   PrimaryMatrix, PullOutKeyMatrix}

ASSUME PublicationAssumption ==
  /\ Exporters \subseteq AllExporters
  /\ Contents # {} /\ Missing \notin Contents /\ Empty \notin Contents /\ Missing # Empty
  /\ Missing \notin Writers /\ Orphan \notin Writers \cup {Missing}
  /\ MaxRuns \in Nat

VARIABLES
  exporter,
  target,   \* the content at the path, Missing or Empty
  lock,     \* whose lock file there is, or Missing
  temps,    \* whose temporary files or staging directories there are
  pc, content, told,
  runs

vars == <<exporter, target, lock, temps, pc, content, told, runs>>

Present == target \in Contents

Init ==
  /\ exporter \in Exporters
  /\ target \in Contents \cup {Missing} \cup IF exporter.takes THEN {Empty} ELSE {}
  /\ lock = Missing /\ temps = {}
  /\ pc = [w \in Writers |-> "idle"]
  /\ content = [w \in Writers |-> CHOOSE c \in Contents : TRUE]
  /\ told = [w \in Writers |-> "nothing"]
  /\ runs = 0

Goto(w, label) == pc' = [pc EXCEPT ![w] = label]

Running(w) == pc[w] # "idle"

-----------------------------------------------------------------------------
Start(w) ==
  /\ pc[w] = "idle" /\ runs < MaxRuns
  /\ \E c \in Contents : content' = [content EXCEPT ![w] = c]
  /\ told' = [told EXCEPT ![w] = "nothing"]
  /\ runs' = runs + 1
  /\ Goto(w, IF exporter.looks THEN "check" ELSE "stage")
  /\ UNCHANGED <<exporter, target, lock, temps>>

\* The end of the run, after the finally clauses.
Finish(w, answer) ==
  /\ told' = [told EXCEPT ![w] = answer]
  /\ temps' = temps \ {w}
  /\ lock' = IF lock = w THEN Missing ELSE lock
  /\ Goto(w, "idle")

\* Mutant of Refuse: the error leaves the staged files behind.
RefuseDirty(w) ==
  /\ told' = [told EXCEPT ![w] = "refused"]
  /\ Goto(w, "idle")
  /\ UNCHANGED <<temps, lock>>

Refuse(w) == Finish(w, "refused")

\* Another process is about to unlink the temporary file that it linked to the
\* path, which changes the st_ctime of both.
MayChangeDuringRead(w) ==
  exporter.watched /\ \E v \in Writers \ {w} : pc[v] = "reload" /\ v \in temps

\* Existing content is reused when it is the content to publish.
Compare(w) ==
  \/ IF target = content[w] THEN Finish(w, "reused") ELSE Refuse(w)
  \/ MayChangeDuringRead(w) /\ Refuse(w)

CheckFirst(w) ==
  /\ pc[w] = "check"
  /\ IF Present THEN Compare(w)
     ELSE Goto(w, "stage") /\ UNCHANGED <<told, temps, lock>>
  /\ UNCHANGED <<exporter, target, content, runs>>

\* Write the temporary file or the staging directory ...
Stage(w) ==
  /\ pc[w] = "stage"
  /\ temps' = temps \cup {w}
  /\ Goto(w, "verify")
  /\ UNCHANGED <<exporter, target, lock, content, told, runs>>

\* ... and read it back, which a full disk or a size cap may fail.
Verify(w) ==
  /\ pc[w] = "verify"
  /\ \/ /\ Goto(w, IF exporter.locks THEN "lock"
                   ELSE IF exporter.again # "ignored" THEN "recheck"
                   ELSE IF target = Empty THEN "remove" ELSE "install")
        /\ UNCHANGED <<told, temps, lock>>
     \/ Refuse(w)
  /\ UNCHANGED <<exporter, target, content, runs>>

\* Mutant of TakeLock: wait for the lock file to go away.
TakeLockWaiting(w) ==
  /\ pc[w] = "lock" /\ lock = Missing
  /\ lock' = w /\ Goto(w, "recheck")
  /\ UNCHANGED <<exporter, target, content, runs, told, temps>>

TakeLock(w) ==
  /\ pc[w] = "lock"
  /\ IF lock = Missing
     THEN lock' = w /\ Goto(w, "recheck") /\ UNCHANGED <<told, temps>>
     ELSE Refuse(w)
  /\ UNCHANGED <<exporter, target, content, runs>>

\* A trial bundle found at the second look is refused, whatever it holds; equal
\* content found under the lock is read again once the lock is released.
CheckStaged(w) ==
  /\ pc[w] = "recheck"
  /\ IF Present
     THEN IF exporter.again = "refused" THEN Refuse(w)
          ELSE IF exporter.locks /\ target = content[w]
          THEN Goto(w, "unlock") /\ UNCHANGED <<told, temps, lock>>
          ELSE Compare(w)
     ELSE /\ Goto(w, IF target = Empty THEN "remove" ELSE "install")
          /\ UNCHANGED <<told, temps, lock>>
  /\ UNCHANGED <<exporter, target, content, runs>>

\* rmdir fails unless the directory is still there and still empty.
RemoveEmpty(w) ==
  /\ pc[w] = "remove"
  /\ IF target = Empty
     THEN target' = Missing /\ Goto(w, "install") /\ UNCHANGED <<told, temps, lock>>
     ELSE Refuse(w) /\ UNCHANGED target
  /\ UNCHANGED <<exporter, content, runs>>

\* Python raises FileExistsError for EEXIST only, and rename(2) reports a
\* directory that is not empty with either error.
Errors == IF exporter.call = "link" THEN {"EEXIST"} ELSE {"EEXIST", "ENOTEMPTY"}

\* Mutant of InstallFails: what exists counts as the content to publish.
InstallFailsTrusting(w) ==
  IF "EEXIST" \in exporter.catches THEN Finish(w, "reused") ELSE Refuse(w)

InstallFails(w) ==
  \E error \in Errors : IF error \in exporter.catches THEN Compare(w) ELSE Refuse(w)

\* link(2), or rename(2), which replaces an empty directory. The staging
\* directory is gone with it; the temporary file of a link is not.
Install(w) ==
  /\ pc[w] = "install"
  /\ IF Present THEN InstallFails(w) /\ UNCHANGED target
     ELSE /\ target' = content[w]
          /\ temps' = IF exporter.call = "link" THEN temps ELSE temps \ {w}
          /\ Goto(w, IF exporter.locks THEN "unlock" ELSE "reload")
          /\ UNCHANGED <<told, lock>>
  /\ UNCHANGED <<exporter, content, runs>>

\* The finally clause of publish_staging and publish_tree, which an error in them
\* reaches with Finish.
Unlock(w) ==
  /\ pc[w] = "unlock"
  /\ lock' = Missing /\ Goto(w, "reload")
  /\ UNCHANGED <<exporter, target, temps, content, told, runs>>

\* Only a renamed directory is no longer beside the path.
Answer(w) == IF exporter.call = "rename" /\ w \in temps THEN "reused" ELSE "created"

\* The published content is read again (not that of a link, of a report or of the
\* pull-out-key matrix).
Reload(w) ==
  /\ pc[w] = "reload"
  /\ \/ IF target = content[w] THEN Finish(w, Answer(w)) ELSE Refuse(w)
     \/ MayChangeDuringRead(w) /\ Refuse(w)
  /\ UNCHANGED <<exporter, target, content, runs>>

\* No finally clause runs, and no later run tidies up: a temporary name is random,
\* and a lock file is removed by the run only that created it.
Kill(w) ==
  /\ Running(w)
  /\ Goto(w, "idle")
  /\ temps' = IF w \in temps THEN (temps \ {w}) \cup {Orphan} ELSE temps
  /\ lock' = IF lock = w THEN Orphan ELSE lock
  /\ UNCHANGED <<exporter, target, content, told, runs>>

Step(w) ==
  \/ CheckFirst(w) \/ Stage(w) \/ Verify(w) \/ TakeLock(w)
  \/ CheckStaged(w) \/ RemoveEmpty(w) \/ Install(w) \/ Unlock(w) \/ Reload(w)

Next == \E w \in Writers : Start(w) \/ Step(w) \/ Kill(w)

\* A process that is not killed makes its next system call.
Fairness == \A w \in Writers : WF_vars(Step(w))

Spec == Init /\ [][Next]_vars /\ Fairness

-----------------------------------------------------------------------------
(* Properties.                                                             *)

Once == INSTANCE WriteOnce WITH
          stored <- IF Present THEN target ELSE Missing,
          asked  <- content

\* However many processes publish to a path, by whichever protocol, and wherever
\* they are killed, the first whole content stays and nobody is told of success
\* with other content (live_artifacts.py:96, primary_generation_io.py:114).
RefinesWriteOnce == Once!Init /\ [][Once!Next]_Once!vars

\* A run that ends by itself leaves no staging directory, no temporary file and
\* no lock file, whichever error ends it (live_artifacts.py:108).
NothingLeft ==
  \A w \in Writers : ~Running(w) => w \notin temps /\ lock # w

\* Every run that is not killed returns: nobody waits for another process
\* (primary_generation_io.py:122).
RunsEnd == \A w \in Writers : Running(w) ~> ~Running(w)

\* "Write an atomic two-file request bundle, or reuse exact existing bytes."
\* (calibration/request_artifacts.py:93): a run that finds its own content at the
\* path when it ends is not refused.
EqualContentReused ==
  [][\A w \in Writers : told'[w] = "refused" /\ told[w] = "nothing" /\ pc[w] # "verify"
                          => target # content[w]]_vars

\* "Generate atomically or reuse an exact existing primary request bundle."
\* (matrix/primary_generation.py:294): a publication is refused at the lock only
\* while another one is under way, not for a lock file that a killed one left.
RefusedOnlyWhileLocked ==
  [][\A w \in Writers : pc[w] = "lock" /\ told'[w] = "refused"
                          => \E v \in Writers \ {w} : Running(v)]_vars
=============================================================================
