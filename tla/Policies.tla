------------------------------ MODULE Policies ------------------------------
(***************************************************************************)
(* The policies of a closed-loop trial: StrictACTPolicy (policies/act.py), *)
(* OfficialUniVTACACTPolicy (policies/univtac_official_act.py) in its two  *)
(* profiles, and N0Policy (policies/n0.py) over the client that N0Client   *)
(* specifies call by call; here a call of the client is one step.          *)
(*                                                                         *)
(* An observation is its step and whether its tactile payloads are there;  *)
(* a plan is the step it was made for and its length.                      *)
(***************************************************************************)
EXTENDS Integers

CONSTANT ChunkLen   \* actions of an N0 plan (8 in the code)

ASSUME ChunkAssumption == ChunkLen \in Nat \ {0}

VARIABLE policy

Kinds    == {"strict_act", "official_univtac", "official_vision", "n0"}
ACTKinds == Kinds \ {"n0"}

ConsumesTactile(kind) == kind # "official_vision"
\* Only the profile that does not read the tactile stream can do without it.
SupportsAbsence(kind) == kind = "official_vision"

NoPlan == [source |-> 0, len |-> 0]
PlanLen(kind) == IF kind = "n0" THEN ChunkLen ELSE 1

\* What a policy does with an observation that lacks a payload it reads.
Readable(observation) == observation.present \/ ~ConsumesTactile(policy.kind)

NewPolicy(kind) ==
  [kind |-> kind, state |-> "new", plan |-> NoPlan,
   client |-> "none", next |-> 0, closed |-> FALSE]

PolicyInit(kind) == policy = NewPolicy(kind)

-----------------------------------------------------------------------------
(* ACT: ready, one pending plan, ready again.                              *)

ACTReset ==
  /\ policy.kind \in ACTKinds
  /\ policy.state # "closed"
  /\ policy' = [policy EXCEPT !.state = "ready", !.plan = NoPlan]

\* A runtime that raises leaves the state as it was.
ACTResetFails == policy.kind \in ACTKinds /\ UNCHANGED policy

ACTInfer(observation) ==
  /\ policy.kind \in ACTKinds
  /\ policy.state = "ready" /\ Readable(observation)
  /\ policy' = [policy EXCEPT !.state = "awaiting_commit",
                  !.plan = [source |-> observation.step, len |-> 1]]

\* Refused before the model advances, or failed after: then only a reset helps.
ACTInferRefused(observation) ==
  /\ policy.kind \in ACTKinds
  /\ policy.state # "ready" \/ ~Readable(observation)
  /\ UNCHANGED policy

ACTInferFails(observation) ==
  /\ policy.kind \in ACTKinds
  /\ policy.state = "ready" /\ Readable(observation)
  /\ policy' = [policy EXCEPT !.state = "aborted"]

ACTCommitOK(execution) ==
  policy.state = "awaiting_commit" /\ execution.plan = policy.plan

ACTCommit(execution) ==
  /\ policy.kind \in ACTKinds
  /\ ACTCommitOK(execution)
  /\ policy' = [policy EXCEPT !.state = "ready", !.plan = NoPlan]

ACTCommitRefused(execution) ==
  /\ policy.kind \in ACTKinds
  /\ ~ACTCommitOK(execution)
  /\ UNCHANGED policy

ACTAbort ==
  /\ policy.kind \in ACTKinds
  /\ policy' = IF policy.state = "closed" THEN policy
               ELSE [policy EXCEPT !.state = "aborted", !.plan = NoPlan]

ACTClose ==
  /\ policy.kind \in ACTKinds
  /\ policy' = [policy EXCEPT !.state = "closed", !.plan = NoPlan,
                  !.closed = TRUE]

-----------------------------------------------------------------------------
(* N0: the lease is taken at the first reset; `client` is the state of its *)
(* client, `next` the client's next decision step.                         *)

\* `state` is "ready" while N0Policy has a context.
N0Reset ==
  /\ policy.kind = "n0"
  /\ ~policy.closed
  /\ policy.client \in {"none", "reset_required", "indeterminate"}
  /\ policy' = [policy EXCEPT !.state = "ready", !.plan = NoPlan,
                  !.client = "ready", !.next = 0]

\* What a failing reset leaves of the client: the factory raised, the handshake
\* did, the server is another one, or the reset call failed.  A client that does
\* not wait for a reset refuses it.
AfterFailedReset(client) ==
  CASE client = "none" -> {"none", "closed", "reset_required", "indeterminate"}
    [] client \in {"reset_required", "indeterminate"} -> {client, "indeterminate"}
    [] OTHER -> {client}

N0ResetFails ==
  /\ policy.kind = "n0"
  /\ ~policy.closed
  /\ \E client \in AfterFailedReset(policy.client) :
       policy' = [policy EXCEPT !.client = client]

N0InferOK(observation) ==
  /\ policy.plan = NoPlan
  /\ policy.state = "ready" /\ Readable(observation)
  /\ policy.client = "ready" /\ observation.step = policy.next

N0Infer(observation) ==
  /\ policy.kind = "n0"
  /\ N0InferOK(observation)
  /\ policy' = [policy EXCEPT !.client = "awaiting_execution",
                  !.plan = [source |-> observation.step, len |-> ChunkLen]]

N0InferRefused(observation) ==
  /\ policy.kind = "n0"
  /\ ~N0InferOK(observation)
  /\ UNCHANGED policy

\* The client refuses the frame, the call fails, or its answer is no action.
N0InferFails(observation) ==
  /\ policy.kind = "n0"
  /\ N0InferOK(observation)
  /\ \E client \in {"ready", "reset_required", "awaiting_execution"} :
       policy' = [policy EXCEPT !.client = client]

\* A running execution is committed only when it is the whole chunk and every
\* observation it delivered can be read.
N0CommitOK(execution) ==
  /\ policy.plan # NoPlan /\ execution.plan = policy.plan
  /\ execution.signal = "running" =>
       /\ execution.count = ChunkLen
       /\ execution.present \/ ~ConsumesTactile(policy.kind)

N0Commit(execution) ==
  /\ policy.kind = "n0"
  /\ N0CommitOK(execution)
  /\ policy' = IF execution.signal # "running"
               THEN [policy EXCEPT !.plan = NoPlan,
                       !.client = "reset_required", !.next = 0]
               ELSE [policy EXCEPT !.plan = NoPlan, !.client = "ready",
                       !.next = policy.plan.source + ChunkLen]

N0CommitRefused(execution) ==
  /\ policy.kind = "n0"
  /\ ~N0CommitOK(execution)
  /\ UNCHANGED policy

\* The client refuses the batch, or one of its two calls fails.
N0CommitFails(execution) ==
  /\ policy.kind = "n0"
  /\ N0CommitOK(execution) /\ execution.signal = "running"
  /\ \E client \in {"awaiting_execution", "reset_required", "indeterminate"} :
       policy' = [policy EXCEPT !.client = client]

\* The client's abort returns at once when there is nothing to abort.
NothingToAbort == policy.client \in {"none", "closed", "indeterminate"}

N0Abort ==
  /\ policy.kind = "n0"
  /\ policy' = [policy EXCEPT !.state = "new", !.plan = NoPlan,
                  !.client = IF NothingToAbort THEN @ ELSE "reset_required"]

\* A client whose abort call fails is indeterminate; the policy keeps its plan.
N0AbortFails ==
  /\ policy.kind = "n0"
  /\ ~NothingToAbort
  /\ policy' = [policy EXCEPT !.client = "indeterminate"]

N0Close ==
  /\ policy.kind = "n0"
  /\ policy' = [policy EXCEPT !.state = "new", !.plan = NoPlan,
                  !.client = IF @ = "none" THEN @ ELSE "closed",
                  !.closed = TRUE]
-----------------------------------------------------------------------------
PolicyResets       == ACTReset \/ N0Reset
PolicyResetFails   == ACTResetFails \/ N0ResetFails
PolicyInfers(o)    == ACTInfer(o) \/ N0Infer(o)
PolicyRefuses(o)   == ACTInferRefused(o) \/ N0InferRefused(o)
PolicyInferFails(o) == ACTInferFails(o) \/ N0InferFails(o)
PolicyCommits(e)   == ACTCommit(e) \/ N0Commit(e)
PolicyCommitRefused(e) == ACTCommitRefused(e) \/ N0CommitRefused(e)
PolicyAborts       == ACTAbort \/ N0Abort \/ N0AbortFails
PolicyCloses       == ACTClose \/ N0Close
=============================================================================
