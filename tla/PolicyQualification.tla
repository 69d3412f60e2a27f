------------------------ MODULE PolicyQualification ------------------------
(***************************************************************************)
(* The CPU qualification of a policy (qualification/): reviewed sources    *)
(* are rehashed, the policy's protocol is exercised once, and a trial of   *)
(* each structural absence operator is run through the real runner, which  *)
(* has to refuse it before anything happens.  The runner's trial is        *)
(* ClosedLoopTrial; with stage "off" that trial is a run of its own.       *)
(***************************************************************************)
EXTENDS ClosedLoopTrial

VARIABLE qualification

qualVars == <<vars, qualification>>

SourceSets == {"task6a", "task6b", "act_runtime"}
Reviewed(kind) == {"task6a", IF kind = "n0" THEN "task6b" ELSE "act_runtime"}

\* What StrictACTPolicy, N0Policy and the receipt want of an identity.
Capable == [tactile |-> TRUE, absence |-> FALSE]

ACTCalls == <<"reset", "infer", "commit">>
N0Calls  == <<"reset", "infer", "prepare_commit", "finalize_commit">>
Calls(kind) == IF kind = "n0" THEN N0Calls ELSE ACTCalls

\* The absence trial of qualification/absence.py.
AbsenceSpec == [maxObs |-> Horizon + 1, maxCycles |-> 2, absence |-> TRUE]

Off == [stage |-> "off", kind |-> "n0", identity |-> Capable, drift |-> {},
        calls |-> <<>>, prepared |-> 0, committed |-> 0, left |-> {}, effects |-> FALSE]

QualificationInit ==
  \/ Init /\ qualification = Off
  \/ /\ BackendInit /\ caller = "runner" /\ pc = "idle"
     /\ spec = AbsenceSpec
     /\ observed = 0 /\ cycles = 0 /\ signal = "running" /\ cut = 0
     /\ current = [step |-> 0, present |-> TRUE]
     /\ outcome = "none" /\ failed = FALSE /\ entries = 0
     /\ \E kind \in {"strict_act", "n0"} :
          /\ PolicyInit(kind)
          /\ \E identity \in [tactile : BOOLEAN, absence : BOOLEAN],
                drift \in SUBSET SourceSets :
               qualification =
                 [Off EXCEPT !.stage = "sources", !.kind = kind, !.identity = identity,
                             !.drift = drift, !.left = {"A1", "A2"}]

Stage(here) == qualification.stage = here

\* collect_reviewed_sources, collect_act_runtime_source
CollectSources ==
  /\ Stage("sources")
  /\ qualification' = [qualification EXCEPT !.stage =
       IF Reviewed(qualification.kind) \cap qualification.drift = {}
       THEN "protocol" ELSE "refused"]
  /\ UNCHANGED vars

NextCall == Calls(qualification.kind)[Len(qualification.calls) + 1]

Called ==
  LET calls == Append(qualification.calls, NextCall)
  IN [qualification EXCEPT !.calls = calls,
        !.stage = IF calls = Calls(qualification.kind) THEN "absence" ELSE "protocol"]

\* run_act_protocol on a recording runtime: a constructor that refuses the
\* identity, then each of the policy's own handlers once.
ACTProtocol ==
  /\ Stage("protocol") /\ qualification.kind = "strict_act"
  /\ \/ /\ qualification.identity # Capable
        /\ qualification' = [qualification EXCEPT !.stage = "refused"]
        /\ UNCHANGED policy
     \/ /\ qualification.identity = Capable
        /\ qualification' = Called
        /\ \/ NextCall = "reset" /\ ACTReset
           \/ NextCall = "infer" /\ ACTInfer([step |-> 0, present |-> TRUE])
           \/ NextCall = "commit" /\ ACTCommit([plan |-> policy.plan, count |-> 1,
                                         present |-> TRUE, signal |-> "running"])
  /\ UNCHANGED <<backendVars, trialVars>>

\* run_n0_protocol: the client's calls on the gateway, which is external and may
\* commit in its engine at either phase; any call may raise.
N0Protocol ==
  /\ Stage("protocol") /\ qualification.kind = "n0"
  /\ \/ qualification' = [qualification EXCEPT !.stage = "refused"]
     \/ \E commits \in IF NextCall \in {"prepare_commit", "finalize_commit"}
                       THEN {0, 1} ELSE {0} :
          qualification' =
            [Called EXCEPT !.committed = @ + commits,
               !.prepared = IF NextCall = "prepare_commit" THEN commits ELSE @]
  /\ UNCHANGED vars

\* A fresh policy and a fresh backend for one operator.
StartAbsence ==
  /\ Stage("absence")
  /\ IF qualification.identity = Capable
     THEN /\ backend' = NewBackend /\ simulator' = NewSimulator
          /\ rows' = 0 /\ transitions' = <<>> /\ records' = <<>>
          /\ policy' = NewPolicy(qualification.kind)
          /\ pc' = "preflight" /\ outcome' = "none"
          /\ observed' = 0 /\ cycles' = 0 /\ signal' = "running" /\ cut' = 0
          /\ entries' = 0
          /\ current' = [step |-> 0, present |-> TRUE]
          /\ failed' = FALSE
          /\ UNCHANGED <<caller, spec>>
          /\ \E operator \in qualification.left :
               qualification' = [qualification EXCEPT !.stage = "trial",
                                   !.left = @ \ {operator}]
     ELSE /\ qualification' = [qualification EXCEPT !.stage = "refused"]
          /\ UNCHANGED vars

\* A step of the trial, and whether it is the first thing asked of the policy.
TrialStep ==
  /\ Stage("off") \/ Stage("trial")
  /\ Next
  /\ qualification' = [qualification EXCEPT
       !.effects = @ \/ (Stage("trial") /\ pc = "policy_reset")]

Qualified ==
  \/ qualification.kind = "strict_act"
  \/ qualification.prepared = 0 /\ qualification.committed = 1

\* The result and the probes of one trial; after the last one the receipt, whose
\* constructor checks the protocol's witness.
JudgeAbsence ==
  /\ Stage("trial") /\ pc \in {"done", "open_policy"}
  /\ qualification' = [qualification EXCEPT !.stage =
       IF \/ outcome # "unsupported_contract"
          \/ backend.attempted \/ qualification.effects \/ policy.client # "none"
       THEN "refused"
       ELSE IF qualification.left # {} THEN "absence"
       ELSE IF Qualified THEN "qualified" ELSE "refused"]
  /\ UNCHANGED vars

QualificationNext ==
  \/ CollectSources \/ ACTProtocol \/ N0Protocol \/ StartAbsence \/ JudgeAbsence
  \/ TrialStep

QualificationSpec == QualificationInit /\ [][QualificationNext]_qualVars
-----------------------------------------------------------------------------
(* Properties.                                                             *)

\* A receipt is given exactly when it is earned: the reviewed sources are the
\* ones on disk, the identity has the capabilities, an N0 engine committed once
\* and at the second phase, every call returned, and both absence trials were
\* refused by the runner with nothing reset, inferred or connected, whether or
\* not their backends and policies let themselves be closed
\* (qualification/absence.py:84, receipt.py:113, runner.py:282).
QualificationDecides ==
  qualification.stage \in {"qualified", "refused"} =>
    (qualification.stage = "qualified" <=>
       /\ Reviewed(qualification.kind) \cap qualification.drift = {}
       /\ qualification.identity = Capable
       /\ qualification.calls = Calls(qualification.kind)
       /\ qualification.kind = "n0" =>
            qualification.prepared = 0 /\ qualification.committed = 1)
=============================================================================
