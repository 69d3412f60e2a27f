--------------------------- MODULE RestCalibration ---------------------------
(***************************************************************************)
(* The rest frame of a faulted run (calibration/): a clean trial is        *)
(* exported, the longest stretch of it with no contact on either side is   *)
(* found, its middle record becomes the rest reference, the reference is   *)
(* published, loaded when a matrix is generated, and held against the      *)
(* first record of the trial that uses it.  Each of these is a process of  *)
(* its own and reads the packaged registry anew; the package may be        *)
(* upgraded between two of them.                                           *)
(***************************************************************************)
EXTENDS PolicyQualification

CONSTANT Minimums   \* minimum_consecutive_free_records a user may ask for

ASSUME MinimumsAssumption == Minimums # {} /\ Minimums \subseteq Nat

VARIABLES
  registry,    \* its aliases and phase tracker, against those of the trial
  calibration  \* the reference, and how far it has come

calibrationVars == <<qualVars, registry, calibration>>

\* The parts of the backend configuration a reference is bound to.
Parts == {"aliases", "phase_tracker"}

NoCalibration == [stage |-> "none", minimum |-> 0, start |-> 0, stop |-> 0,
                  selected |-> 0]

CalibrationInit ==
  /\ QualificationInit
  /\ registry = [p \in Parts |-> "recorded"]
  /\ calibration = NoCalibration

Unrevised(parts) == \A p \in parts : registry[p] = "recorded"
TrialOver ==
  caller = "runner" /\ Stage("off") /\ pc \in {"done", "open_policy"}

\* validate_trial_execution_semantics: every cycle has its actions.
CyclesExplained == entries = cycles

\* validate_live_request_identity: the backend configuration in the identity is
\* the packaged one.
SourceUnrevised == Unrevised(Parts)

ArtifactLoads == observed > 0 /\ CyclesExplained /\ SourceUnrevised

\* A clean run: no fault, and a policy that is not the matched no-touch one.
CleanSource == ~spec.absence /\ ConsumesTactile(policy.kind)

Delivery == SubSeq(records, 1, observed)

\* _validate_clean_record, and the steps dense from zero.
CleanRecords == \A n \in DOMAIN Delivery : Delivery[n].step = n - 1

\* Mutant of FreeAt: one side without contact is enough.
FreeAtOneSide(n) == \E s \in Slots : Delivery[n].phases[s] = "free"

FreeAt(n) == \A s \in Slots : Delivery[n].phases[s] = "free"

\* _longest_free_run: positions from start up to, not including, stop; the
\* first of the longest ones.
FreeRuns == {run \in (1..observed) \X (2..observed + 1) :
               run[1] < run[2] /\ \A n \in run[1]..(run[2] - 1) : FreeAt(n)}
LongestFreeRun ==
  IF FreeRuns = {} THEN <<1, 1>>
  ELSE CHOOSE run \in FreeRuns : \A other \in FreeRuns :
         \/ other[2] - other[1] < run[2] - run[1]
         \/ other[2] - other[1] = run[2] - run[1] /\ run[1] =< other[1]

Middle(start, stop) == start + (stop - start - 1) \div 2

\* build_rest_reference_from_live_artifact and the publication of its result.
Calibrate(minimum) ==
  /\ TrialOver /\ calibration.stage = "none"
  /\ LET start == LongestFreeRun[1]
         stop  == LongestFreeRun[2]
         accepted == /\ ArtifactLoads /\ CleanSource /\ CleanRecords
                     /\ minimum >= 1 /\ stop - start >= minimum
     IN calibration' =
          IF accepted
          THEN [stage |-> "written", minimum |-> minimum, start |-> start,
                stop |-> stop, selected |-> Middle(start, stop)]
          ELSE [NoCalibration EXCEPT !.stage = "refused", !.minimum = minimum]
  /\ UNCHANGED <<qualVars, registry>>

\* The package is upgraded to a registry with another part.
ReviseRegistry(part) ==
  /\ TrialOver /\ registry[part] = "recorded"
  /\ registry' = [registry EXCEPT ![part] = "revised"]
  /\ UNCHANGED <<qualVars, calibration>>

\* _validate_links: both parts of the registry are held against the receipt.
LinksHold == Unrevised(Parts)

\* load_rest_reference_artifact, when a matrix is generated.
LoadArtifact ==
  /\ calibration.stage = "written"
  /\ calibration' = [calibration EXCEPT !.stage =
                       IF LinksHold THEN "loaded" ELSE "unloadable"]
  /\ UNCHANGED <<qualVars, registry>>

\* The delivery session compares calibration hashes at the first record; the
\* phase tracker is not in the bundle.
CalibrationMatches == Unrevised({"aliases"})

\* A faulted run reads the bundle by its path, with or without a matrix.
UseReference ==
  /\ calibration.stage \in {"written", "loaded"}
  /\ calibration' = [calibration EXCEPT !.stage =
                       IF CalibrationMatches THEN "used" ELSE "mismatch"]
  /\ UNCHANGED <<qualVars, registry>>

CalibrationNext ==
  \/ QualificationNext /\ UNCHANGED <<registry, calibration>>
  \/ \E minimum \in Minimums : Calibrate(minimum)
  \/ \E part \in Parts : ReviseRegistry(part)
  \/ LoadArtifact
  \/ UseReference

CalibrationSpec == CalibrationInit /\ [][CalibrationNext]_calibrationVars
-----------------------------------------------------------------------------
(* Properties.                                                             *)

\* No contact on either side at record n, and none that ends there.
Untouched(n) ==
  \A s \in Slots : ~InContact(s, n) /\ (n > 1 => ~InContact(s, n - 1))

Accepted == calibration.stage \notin {"none", "refused"}

\* How far the minimum keeps contact away from the selected record.
Around == (calibration.minimum - 1) \div 2

\* A rest frame comes out of every complete clean trial that holds a long
\* enough stretch without contact, and out of no other; the stretch is judged
\* from the indentations, not from the tracker's phases
\* (calibration/selection.py:70-160).  The frame is one without contact, and so
\* are its neighbours as far as the minimum promises, before and after it.
RestReferenceDecides ==
  /\ Accepted =>
       /\ CleanSource /\ CyclesExplained
       /\ \A n \in (calibration.selected - Around)..(calibration.selected + Around) :
            /\ n \in 1..observed /\ Untouched(n)
            /\ \A s \in Slots : records[n].depths[s] < OnThreshold
  /\ calibration.stage = "refused" /\ CleanSource /\ observed > 0
       /\ CyclesExplained /\ SourceUnrevised /\ calibration.minimum >= 1 =>
     ~\E first \in 1..(observed - calibration.minimum + 1) :
        \A n \in first..(first + calibration.minimum - 1) : Untouched(n)
=============================================================================
