------------------------------ MODULE N0Client ------------------------------
(***************************************************************************)
(* The N0 policy client (transport/n0_client.py), the RPC boundary it      *)
(* calls through and the gateway that owns the action cache.               *)
(*                                                                         *)
(* The client runs one synchronous RPC at a time.  A call is three steps   *)
(* here: the client sends, the gateway handles (or the transport fails),   *)
(* the client validates the acknowledgement.  Between the last two the     *)
(* gateway may already have applied what the client does not know of.      *)
(*                                                                         *)
(* The gateway is external.  It is modelled from the test double           *)
(* tests/test_n0_transport_support.py (FakeTransport): every reset-like    *)
(* operation starts a new generation, whose number also names the cache    *)
(* epoch; finalize_commit applies the staged token once.  CheckAuthority   *)
(* says whether it also refuses requests whose server_epoch,               *)
(* reset_generation, cache_epoch or cache_position are not its own: the    *)
(* double does not, though the client sends those fields for that purpose. *)
(***************************************************************************)
EXTENDS Integers

CONSTANTS
  ChunkLen,        \* actions per committed chunk (8 in the code)
  MaxRpc,          \* bound: requests one client sends
  MaxRestarts,     \* bound: gateway restarts
  CheckAuthority,  \* the gateway refuses foreign authority fields
  LateDelivery     \* a call may time out and still be served afterwards

ASSUME N0Assumption ==
  /\ ChunkLen \in Nat \ {0}
  /\ MaxRpc \in Nat
  /\ MaxRestarts \in Nat
  /\ CheckAuthority \in BOOLEAN
  /\ LateDelivery \in BOOLEAN
  /\ (LateDelivery \/ MaxRestarts > 0) => CheckAuthority

VARIABLES
  \* the client; 0 stands for Python's None and for the empty cache epoch
  state, server, generation, epoch, position,
  pendingTx, pendingStep, nextStep, counter,
  \* the call in progress, and timed-out requests that may still arrive
  phase, request, reply, late,
  \* the gateway
  gwServer, gwGen, gwPosition, gwStaged,
  \* history: inferences run, engine commits applied, commits acknowledged
  inferred, commits, acked

clientVars  == <<state, server, generation, epoch, position,
                 pendingTx, pendingStep, nextStep, counter>>
callVars    == <<phase, request, reply, late>>
gatewayVars == <<gwServer, gwGen, gwPosition, gwStaged, inferred, commits>>
vars        == <<clientVars, callVars, gatewayVars, acked>>

-----------------------------------------------------------------------------
States == {"connected", "reset_required", "reset_pending", "ready",
           "infer_pending", "awaiting_execution", "prepare_commit_pending",
           "finalize_commit_pending", "indeterminate", "closed"}

ResetOps  == {"reset", "hard_reset", "abort"}
CacheOps  == {"infer", "prepare_commit", "finalize_commit"}
Ops       == ResetOps \cup CacheOps \cup {"none"}

\* The fields of a bound request that a decision depends on.  id stands for
\* request_id and transaction_id, which advance together.
Requests == [op : Ops, id : Nat, step : Nat, server : Nat, gen : Nat,
             epoch : Nat, pos : Nat, infer : Nat, token : Nat]
NoRequest == [op |-> "none", id |-> 0, step |-> 0, server |-> 0, gen |-> 0,
              epoch |-> 0, pos |-> 0, infer |-> 0, token |-> 0]

\* An acknowledgement echoes id when every common field matches the request.
Replies == [id : Nat, gen : Nat, epoch : Nat, pos : Nat, token : Nat]
NoReply == [id |-> 0, gen |-> 0, epoch |-> 0, pos |-> 0, token |-> 0]

Inferences == [tx : Nat, epoch : Nat, pos : Nat]
Commits    == [infer : Nat, epoch : Nat, pos : Nat, step : Nat]

Init ==
  /\ state = "connected" /\ server = 0
  /\ generation = 0 /\ epoch = 0 /\ position = 0
  /\ pendingTx = 0 /\ pendingStep = 0 /\ nextStep = 0 /\ counter = 0
  /\ phase = "idle" /\ request = NoRequest /\ reply = NoReply /\ late = {}
  /\ gwServer = 1 /\ gwGen = 1 /\ gwPosition = 0 /\ gwStaged = 0
  /\ inferred = {} /\ commits = {} /\ acked = {}

-----------------------------------------------------------------------------
(* The client sends.                                                       *)

\* Mutant of NewRequest: the position of the last entry, not of the next one.
NewRequestLastEntry(op, step, infer, token) ==
  [op |-> op, id |-> counter + 1, step |-> step, server |-> server,
   gen |-> generation, epoch |-> epoch, pos |-> position - 1,
   infer |-> infer, token |-> token]

\* _identity and _binding: every request takes a fresh identity.
NewRequest(op, step, infer, token) ==
  [op |-> op, id |-> counter + 1, step |-> step, server |-> server,
   gen |-> generation, epoch |-> epoch, pos |-> position,
   infer |-> infer, token |-> token]

Send(op, step, infer, token) ==
  /\ request' = NewRequest(op, step, infer, token)
  /\ counter' = counter + 1
  /\ phase' = "sent"
  /\ reply' = NoReply
  /\ UNCHANGED late

\* Bound: the calls a model run makes.  A commit makes two.
MaySend(n) == phase = "idle" /\ counter + n =< MaxRpc

HandshakeSucceeds ==
  /\ state = "connected"
  /\ state' = "reset_required"
  /\ server' = gwServer
  /\ UNCHANGED <<generation, epoch, position, pendingTx, pendingStep,
                 nextStep, counter, callVars, gatewayVars, acked>>

HandshakeFails ==
  /\ state = "connected"
  /\ state' = "closed"
  /\ UNCHANGED <<server, generation, epoch, position, pendingTx, pendingStep,
                 nextStep, counter, callVars, gatewayVars, acked>>

Reset ==
  /\ MaySend(1)
  /\ state \in {"reset_required", "indeterminate"}
  /\ Send(IF state = "indeterminate" THEN "hard_reset" ELSE "reset", 0, 0, 0)
  /\ state' = "reset_pending"
  /\ UNCHANGED <<server, generation, epoch, position, pendingTx, pendingStep,
                 nextStep, gatewayVars, acked>>

\* A step other than the next decision step is refused before any change.
Infer ==
  /\ MaySend(1)
  /\ state = "ready"
  /\ Send("infer", nextStep, 0, 0)
  /\ state' = "infer_pending"
  /\ UNCHANGED <<server, generation, epoch, position, pendingTx, pendingStep,
                 nextStep, gatewayVars, acked>>

\* The authority checks before the first RPC raise and change nothing.
Commit ==
  /\ MaySend(2)
  /\ state = "awaiting_execution"
  /\ Send("prepare_commit", pendingStep, pendingTx, 0)
  /\ state' = "prepare_commit_pending"
  /\ UNCHANGED <<server, generation, epoch, position, pendingTx, pendingStep,
                 nextStep, gatewayVars, acked>>

ClearPending == pendingTx' = 0 /\ pendingStep' = 0

\* A terminal execution discards the inference without telling the gateway.
Terminal ==
  /\ phase = "idle"
  /\ state = "awaiting_execution"
  /\ ClearPending
  /\ nextStep' = 0
  /\ state' = "reset_required"
  /\ UNCHANGED <<server, generation, epoch, position, counter,
                 callVars, gatewayVars, acked>>

\* abort() returns at once when connected, closed or indeterminate.  Its RPC
\* runs without a pending state of its own.
Abort ==
  /\ MaySend(1)
  /\ state \notin {"connected", "closed", "indeterminate"}
  /\ Send("abort", pendingStep, 0, 0)
  /\ UNCHANGED <<state, server, generation, epoch, position, pendingTx,
                 pendingStep, nextStep, gatewayVars, acked>>

\* A transport whose close() raises leaves the client as it was.
Close ==
  /\ phase = "idle"
  /\ state # "closed"
  /\ ClearPending
  /\ state' = "closed"
  /\ UNCHANGED <<server, generation, epoch, position, nextStep, counter,
                 callVars, gatewayVars, acked>>

-----------------------------------------------------------------------------
(* The gateway (external) and the transport.                               *)

Authorised(r) ==
  CheckAuthority =>
    /\ r.server = gwServer
    /\ r.op \in CacheOps =>
         r.gen = gwGen /\ r.epoch = gwGen /\ r.pos = gwPosition

GatewayReset(r) ==
  /\ r.op \in ResetOps
  /\ gwGen' = gwGen + 1
  /\ gwPosition' = 0
  /\ gwStaged' = 0
  /\ UNCHANGED <<gwServer, inferred, commits>>

GatewayInfer(r) ==
  /\ r.op = "infer"
  /\ inferred' = inferred \cup
       {[tx |-> r.id, epoch |-> gwGen, pos |-> gwPosition]}
  /\ UNCHANGED <<gwServer, gwGen, gwPosition, gwStaged, commits>>

GatewayPrepare(r) ==
  /\ r.op = "prepare_commit"
  /\ gwStaged' = r.id
  /\ UNCHANGED <<gwServer, gwGen, gwPosition, inferred, commits>>

GatewayFinalize(r) ==
  /\ r.op = "finalize_commit"
  /\ r.token = gwStaged
  /\ gwPosition' = gwPosition + 1
  /\ gwStaged' = 0
  /\ commits' = commits \cup {[infer |-> r.infer, epoch |-> gwGen,
                               pos |-> gwPosition, step |-> r.step]}
  /\ UNCHANGED <<gwServer, gwGen, inferred>>

Handle(r) ==
  /\ Authorised(r)
  /\ \/ GatewayReset(r)
     \/ GatewayInfer(r)
     \/ GatewayPrepare(r)
     \/ GatewayFinalize(r)

\* The acknowledgement of r by a gateway that has just handled it.  The
\* prepare token is derived from the prepare request.
Acknowledgement(r) ==
  [id |-> r.id, gen |-> gwGen', epoch |-> gwGen', pos |-> gwPosition',
   token |-> IF r.op = "prepare_commit" THEN r.id ELSE r.token]

\* The wrong fields the contract tests inject: a foreign identity, a
\* generation or an epoch that was not renewed, a shifted position, a token
\* of another request.
Garbled(a) ==
  {[a EXCEPT !.id = 0], [a EXCEPT !.pos = a.pos + 1]}
  \cup (IF request.op \in {"prepare_commit", "finalize_commit"}
        THEN {[a EXCEPT !.token = a.token + 1]} ELSE {})
  \cup (IF request.op \in ResetOps /\ generation # 0
        THEN {[a EXCEPT !.gen = generation], [a EXCEPT !.epoch = epoch]}
        ELSE {})

Serve ==
  /\ phase = "sent"
  /\ Handle(request)
  /\ phase' = "replied"
  /\ reply' = Acknowledgement(request)
  /\ UNCHANGED <<request, late, clientVars, acked>>

ServeGarbled ==
  /\ phase = "sent"
  /\ Handle(request)
  /\ phase' = "replied"
  /\ reply' \in Garbled(Acknowledgement(request))
  /\ UNCHANGED <<request, late, clientVars, acked>>

\* Handled, and the acknowledgement is lost: the call raises.
LoseReply ==
  /\ phase = "sent"
  /\ Handle(request)
  /\ phase' = "raised"
  /\ UNCHANGED <<request, reply, late, clientVars, acked>>

\* Lost before the gateway, or refused by it: the call raises.
LoseRequest ==
  /\ phase = "sent"
  /\ phase' = "raised"
  /\ UNCHANGED <<request, reply, late, clientVars, gatewayVars, acked>>

TimeOut ==
  /\ LateDelivery
  /\ phase = "sent"
  /\ phase' = "raised"
  /\ late' = late \cup {request}
  /\ UNCHANGED <<request, reply, clientVars, gatewayVars, acked>>

\* Nobody waits for the acknowledgement of a timed-out request.
ServeLate ==
  \E r \in late :
    /\ Handle(r)
    /\ late' = late \ {r}
    /\ UNCHANGED <<phase, request, reply, clientVars, acked>>

\* A restarted gateway has another server_epoch and an empty cache.
GatewayRestart ==
  /\ gwServer =< MaxRestarts
  /\ gwServer' = gwServer + 1
  /\ gwGen' = gwGen + 1
  /\ gwPosition' = 0
  /\ gwStaged' = 0
  /\ UNCHANGED <<inferred, commits, callVars, clientVars, acked>>

-----------------------------------------------------------------------------
(* The client validates the acknowledgement and returns to its caller.     *)

\* validate_rpc_ack: every common field echoes the bound request.
Bound == phase = "replied" /\ reply.id = request.id

\* _accept_reset_ack
ResetAckOK ==
  /\ Bound
  /\ reply.pos = 0
  /\ epoch # 0 => reply.epoch # epoch
  /\ generation # 0 => reply.gen > generation

InferAckOK    == Bound /\ reply.pos = position
\* N0PreparedCommit.accept and accept_finalize
PrepareAckOK  == Bound /\ reply.token = request.id /\ reply.pos = position
FinalizeAckOK == Bound /\ reply.token = request.token
                       /\ reply.pos = position + 1

Returned == phase \in {"replied", "raised"}

EndCall == phase' = "idle" /\ request' = NoRequest /\ reply' = NoReply
           /\ UNCHANGED late

\* Mutant of AdoptReset: the cache position survives the reset.
AdoptResetOldPosition ==
  /\ generation' = reply.gen
  /\ epoch' = reply.epoch
  /\ ClearPending
  /\ nextStep' = 0
  /\ UNCHANGED position

\* What reset and abort take over from an accepted acknowledgement.
AdoptReset ==
  /\ generation' = reply.gen
  /\ epoch' = reply.epoch
  /\ position' = 0
  /\ ClearPending
  /\ nextStep' = 0

\* Mutant of ResetSucceeds: an inference pending before the reset is resumed.
ResetResumes ==
  /\ request.op \in {"reset", "hard_reset"}
  /\ ResetAckOK
  /\ generation' = reply.gen
  /\ epoch' = reply.epoch
  /\ position' = 0
  /\ state' = IF pendingTx = 0 THEN "ready" ELSE "awaiting_execution"
  /\ EndCall
  /\ UNCHANGED <<server, pendingTx, pendingStep, nextStep, counter,
                 gatewayVars, acked>>

ResetSucceeds ==
  /\ request.op \in {"reset", "hard_reset"}
  /\ ResetAckOK
  /\ AdoptReset
  /\ state' = "ready"
  /\ EndCall
  /\ UNCHANGED <<server, counter, gatewayVars, acked>>

ResetFails ==
  /\ request.op \in {"reset", "hard_reset"}
  /\ Returned /\ ~ResetAckOK
  /\ state' = "indeterminate"
  /\ EndCall
  /\ UNCHANGED <<server, generation, epoch, position, pendingTx, pendingStep,
                 nextStep, counter, gatewayVars, acked>>

InferSucceeds ==
  /\ request.op = "infer"
  /\ InferAckOK
  /\ pendingTx' = request.id
  /\ pendingStep' = request.step
  /\ state' = "awaiting_execution"
  /\ EndCall
  /\ UNCHANGED <<server, generation, epoch, position, nextStep, counter,
                 gatewayVars, acked>>

\* Mutant of InferFails: the inference is taken to have happened.
InferAssumed ==
  /\ request.op = "infer"
  /\ Returned /\ ~InferAckOK
  /\ pendingTx' = request.id
  /\ pendingStep' = request.step
  /\ state' = "awaiting_execution"
  /\ EndCall
  /\ UNCHANGED <<server, generation, epoch, position, nextStep, counter,
                 gatewayVars, acked>>

InferFails ==
  /\ request.op = "infer"
  /\ Returned /\ ~InferAckOK
  /\ state' = "reset_required"
  /\ EndCall
  /\ UNCHANGED <<server, generation, epoch, position, pendingTx, pendingStep,
                 nextStep, counter, gatewayVars, acked>>

\* The finalize request goes out within the same commit() call.
PrepareSucceeds ==
  /\ request.op = "prepare_commit"
  /\ PrepareAckOK
  /\ Send("finalize_commit", pendingStep, pendingTx, request.id)
  /\ state' = "finalize_commit_pending"
  /\ UNCHANGED <<server, generation, epoch, position, pendingTx, pendingStep,
                 nextStep, gatewayVars, acked>>

PrepareFails ==
  /\ request.op = "prepare_commit"
  /\ Returned /\ ~PrepareAckOK
  /\ state' = "reset_required"
  /\ EndCall
  /\ UNCHANGED <<server, generation, epoch, position, pendingTx, pendingStep,
                 nextStep, counter, gatewayVars, acked>>

\* Mutant of FinalizeSucceeds: the next decision is one step on, not a chunk.
FinalizeOneStep ==
  /\ request.op = "finalize_commit"
  /\ FinalizeAckOK
  /\ position' = reply.pos
  /\ nextStep' = pendingStep + 1
  /\ ClearPending
  /\ state' = "ready"
  /\ acked' = acked \cup {[infer |-> request.infer, epoch |-> epoch,
                           pos |-> position, step |-> request.step]}
  /\ EndCall
  /\ UNCHANGED <<server, generation, epoch, counter, gatewayVars>>

FinalizeSucceeds ==
  /\ request.op = "finalize_commit"
  /\ FinalizeAckOK
  /\ position' = reply.pos
  /\ nextStep' = pendingStep + ChunkLen
  /\ ClearPending
  /\ state' = "ready"
  /\ acked' = acked \cup {[infer |-> request.infer, epoch |-> epoch,
                           pos |-> position, step |-> request.step]}
  /\ EndCall
  /\ UNCHANGED <<server, generation, epoch, counter, gatewayVars>>

FinalizeFails ==
  /\ request.op = "finalize_commit"
  /\ Returned /\ ~FinalizeAckOK
  /\ state' = "indeterminate"
  /\ EndCall
  /\ UNCHANGED <<server, generation, epoch, position, pendingTx, pendingStep,
                 nextStep, counter, gatewayVars, acked>>

AbortSucceeds ==
  /\ request.op = "abort"
  /\ ResetAckOK
  /\ AdoptReset
  /\ state' = "reset_required"
  /\ EndCall
  /\ UNCHANGED <<server, counter, gatewayVars, acked>>

AbortFails ==
  /\ request.op = "abort"
  /\ Returned /\ ~ResetAckOK
  /\ state' = "indeterminate"
  /\ EndCall
  /\ UNCHANGED <<server, generation, epoch, position, pendingTx, pendingStep,
                 nextStep, counter, gatewayVars, acked>>

-----------------------------------------------------------------------------
ClientStep ==
  \/ HandshakeSucceeds \/ HandshakeFails
  \/ Reset \/ Infer \/ Commit \/ Terminal \/ Abort \/ Close

ReturnStep ==
  \/ ResetSucceeds \/ ResetFails
  \/ InferSucceeds \/ InferFails
  \/ PrepareSucceeds \/ PrepareFails
  \/ FinalizeSucceeds \/ FinalizeFails
  \/ AbortSucceeds \/ AbortFails

CallStep == Serve \/ ServeGarbled \/ LoseReply \/ LoseRequest \/ TimeOut

Next == ClientStep \/ ReturnStep \/ CallStep \/ ServeLate \/ GatewayRestart

Spec == Init /\ [][Next]_vars

-----------------------------------------------------------------------------
TypeOK ==
  /\ state \in States
  /\ server \in Nat /\ generation \in Nat /\ epoch \in Nat
  /\ position \in Nat /\ pendingTx \in Nat /\ pendingStep \in Nat
  /\ nextStep \in Nat /\ counter \in Nat
  /\ phase \in {"idle", "sent", "replied", "raised"}
  /\ request \in Requests /\ reply \in Replies /\ late \subseteq Requests
  /\ gwServer \in Nat /\ gwGen \in Nat /\ gwPosition \in Nat
  /\ gwStaged \in Nat
  /\ inferred \subseteq Inferences
  /\ commits \subseteq Commits /\ acked \subseteq Commits

\* The engine applies one inference at most once and fills one cache position
\* at most once, whatever is lost, garbled or late: the client's docstring
\* promises commit-at-most-once (n0_client.py:59).
CommitAtMostOnce ==
  \A c, d \in commits :
    (c.infer = d.infer \/ (c.epoch = d.epoch /\ c.pos = d.pos)) => c = d

Recorded(tx, e, p) == [tx |-> tx, epoch |-> e, pos |-> p] \in inferred

\* A chunk is only ever applied to the cache it was inferred on: same epoch,
\* same position.  No reset, abort, restart or late request gets in between.
CommitOnInferredCache ==
  \A c \in commits : Recorded(c.infer, c.epoch, c.pos)

Settled == {"ready", "infer_pending", "awaiting_execution",
            "prepare_commit_pending"}

\* While the client may go on inferring in its epoch, the engine's cache of
\* that epoch is exactly what the client was told: every applied commit is
\* acknowledged, they fill the positions below the client's, each at its own
\* decision step.
CacheAgreement ==
  state \in Settled =>
    /\ \A c \in commits : c.epoch = epoch => c \in acked
    /\ \A c \in acked : c.epoch = epoch =>
         /\ c \in commits
         /\ c.pos < position
         /\ c.step = ChunkLen * c.pos
    /\ \A p \in 0 .. position - 1 : \E c \in acked : c.epoch = epoch /\ c.pos = p
=============================================================================
