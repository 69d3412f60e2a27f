--------------------------- MODULE N0ClientProofs ---------------------------
(***************************************************************************)
(* The inductive invariant of N0Client, and what follows from it; then,    *)
(* that client, transport and gateway implement the atomic cache session.  *)
(***************************************************************************)
EXTENDS MCN0Client, FiniteSetTheorems, FunctionTheorems, TLAPS

-----------------------------------------------------------------------------
(* The inductive invariant.                                                *)

\* Which call is in progress in which client state, and what it carries.
CallShape ==
  /\ phase = "idle" <=> request.op = "none"
  /\ request.op = "infer" <=> state = "infer_pending"
  /\ request.op = "prepare_commit" <=> state = "prepare_commit_pending"
  /\ request.op = "finalize_commit" <=> state = "finalize_commit_pending"
  /\ request.op \in {"reset", "hard_reset"} <=> state = "reset_pending"
  /\ phase # "idle" =>
       /\ request.id = counter /\ counter > 0
       /\ request.epoch = epoch /\ request.pos = position
       /\ request.gen = generation
  /\ request.op \in {"prepare_commit", "finalize_commit"} =>
       request.infer = pendingTx /\ request.step = pendingStep
  /\ request.op = "infer" => request.step = nextStep

\* Decision steps follow the committed positions.
StepShape ==
  /\ state \in {"ready", "infer_pending"} => nextStep = ChunkLen * position
  /\ state \in {"awaiting_execution", "prepare_commit_pending",
                "finalize_commit_pending"} =>
       pendingStep = ChunkLen * position /\ pendingTx > 0

IsFinalize(r) == r.op = "finalize_commit"

\* An inference that was committed, or whose finalize request is still under
\* way, is older than the last request.
Spent ==
  /\ \A c \in commits : c.infer < counter
  /\ \A r \in late : IsFinalize(r) => r.infer < counter
  /\ pendingTx =< counter
  /\ state \in {"prepare_commit_pending", "finalize_commit_pending"} =>
       pendingTx < counter

Epochs ==
  /\ gwServer > 0 /\ gwGen > 0
  /\ generation = 0 <=> epoch = 0
  /\ epoch =< gwGen
  /\ \A c \in commits :
       c.epoch =< gwGen /\ (c.epoch = gwGen => c.pos < gwPosition)
  /\ \A r \in late : r.epoch =< gwGen
  /\ phase = "replied" => reply.epoch =< gwGen

\* No inference has two finalize requests, none of which was served.
Undecided == state \in {"awaiting_execution", "prepare_commit_pending"}
             \/ (state = "finalize_commit_pending" /\ phase = "sent")

OneFinalize ==
  /\ \A r \in late, c \in commits : IsFinalize(r) => r.infer # c.infer
  /\ \A r, s \in late : IsFinalize(r) /\ IsFinalize(s) /\ r.infer = s.infer
                          => r = s
  /\ Undecided =>
       /\ \A c \in commits : c.infer # pendingTx
       /\ \A r \in late : IsFinalize(r) => r.infer # pendingTx

InferRecorded ==
  /\ state = "infer_pending" /\ phase = "replied" =>
       Recorded(request.id, epoch, position)
  /\ state \in {"awaiting_execution", "prepare_commit_pending",
                "finalize_commit_pending"} =>
       Recorded(pendingTx, epoch, position)
  /\ \A r \in late : IsFinalize(r) => Recorded(r.infer, r.epoch, r.pos)

\* The finalize request is under way and the transport has not failed it.
Finalizing == state = "finalize_commit_pending" /\ phase # "raised"

\* While the client holds the current epoch, the engine's cache is where the
\* client believes it to be, or one entry ahead once finalize was served.
InSync ==
  epoch = gwGen =>
    /\ state \in Settled => position = gwPosition
    /\ Finalizing =>
         gwPosition = IF phase = "replied" THEN position + 1 ELSE position

\* A gateway that checks nothing is never reached by a late request, so its
\* epoch moves only under the client's own resets.
Lockstep ==
  ~CheckAuthority =>
    /\ late = {}
    /\ (/\ state \in Settled \cup {"finalize_commit_pending"}
        /\ ~(request.op = "abort" /\ phase # "sent"))
         => epoch = gwGen

Pending == [infer |-> pendingTx, epoch |-> epoch, pos |-> position,
            step |-> pendingStep]

\* What was acknowledged to the client in its epoch.
Known ==
  /\ acked \subseteq commits
  /\ \A c \in acked : c.epoch = epoch =>
       c.pos < position /\ c.step = ChunkLen * c.pos
  /\ \A p \in 0 .. position - 1 : \E c \in acked : c.epoch = epoch /\ c.pos = p

\* What may have been applied in its epoch without an acknowledgement:
\* nothing inside a session, the pending chunk while finalize is under way.
Unknown ==
  /\ state \in Settled \/ (Finalizing /\ phase = "sent") =>
       \A c \in commits : c.epoch = epoch => c \in acked
  /\ state \in Settled \/ Finalizing =>
       \A r \in late : IsFinalize(r) => r.epoch # epoch
  /\ state = "finalize_commit_pending" =>
       /\ phase = "replied" => Pending \in commits
       /\ \A c \in commits : c.epoch = epoch => c \in acked \/ c = Pending
       /\ \A r \in late : IsFinalize(r) /\ r.epoch = epoch =>
            r.infer = pendingTx /\ r.pos = position /\ r.step = pendingStep

\* An acknowledged reset names an epoch that is empty and stays empty.
FreshReset ==
  phase = "replied" /\ request.op \in ResetOps /\ ResetAckOK =>
    /\ reply.gen > 0 /\ reply.epoch > 0
    /\ reply.epoch = gwGen => gwPosition = 0
    /\ ~CheckAuthority => reply.epoch = gwGen
    /\ \A c \in commits : c.epoch # reply.epoch
    /\ \A r \in late : IsFinalize(r) => r.epoch # reply.epoch

IInv ==
  /\ TypeOK
  /\ CallShape /\ StepShape /\ Spent /\ Epochs /\ OneFinalize
  /\ InferRecorded /\ InSync /\ Lockstep /\ Known /\ Unknown /\ FreshReset
  /\ CommitAtMostOnce /\ CommitOnInferredCache

-----------------------------------------------------------------------------
(* Every part of the invariant is kept by every step.                      *)

\* Every step keeps the types.
LEMMA TypeOKStep ==
  ASSUME TypeOK, [Next]_vars
  PROVE  TypeOK'
  <1>1. CASE Reset
      BY <1>1 DEF Reset, TypeOK, Send, gatewayVars, States, Requests,
          Replies, NewRequest, NoReply, Ops, ResetOps
  <1>2. CASE Infer
      BY <1>2 DEF Infer, TypeOK, Send, gatewayVars, States, Requests,
          Replies, NewRequest, NoReply, Ops, CacheOps
  <1>3. CASE Commit
      BY <1>3 DEF Commit, TypeOK, Send, gatewayVars, States, Requests,
          Replies, NewRequest, NoReply, Ops, CacheOps
  <1>4. CASE Terminal
      BY <1>4 DEF Terminal, TypeOK, ClearPending, callVars, gatewayVars,
          States
  <1>5. CASE Abort
      BY <1>5 DEF Abort, TypeOK, Send, gatewayVars, Requests, Replies,
          NewRequest, NoReply, Ops, ResetOps
  <1>6. CASE ResetSucceeds
      BY <1>6 DEF ResetSucceeds, TypeOK, AdoptReset, EndCall, gatewayVars,
          States, Requests, Replies, ClearPending, NoRequest, NoReply, Ops
  <1>7. CASE InferSucceeds
      BY <1>7 DEF InferSucceeds, TypeOK, EndCall, gatewayVars, States,
          Requests, Replies, NoRequest, NoReply, Ops
  <1>8. CASE PrepareSucceeds
      BY <1>8 DEF PrepareSucceeds, TypeOK, Send, gatewayVars, States,
          Requests, Replies, NewRequest, NoReply, Ops, CacheOps
  <1>9. CASE FinalizeSucceeds
      BY <1>9, N0Assumption DEF FinalizeSucceeds, TypeOK, ClearPending,
          EndCall, gatewayVars, States, Requests, Replies, Commits,
          NoRequest, NoReply, Ops
  <1>10. CASE AbortSucceeds
      BY <1>10 DEF AbortSucceeds, TypeOK, AdoptReset, EndCall, gatewayVars,
          States, Requests, Replies, ClearPending, NoRequest, NoReply, Ops
  <1>11. CASE Serve
      BY <1>11 DEF Serve, TypeOK, Handle, Acknowledgement, clientVars,
          Requests, Replies, Inferences, Commits, GatewayReset, GatewayInfer,
          GatewayPrepare, GatewayFinalize
  <1>12. CASE ServeGarbled
      BY <1>12 DEF ServeGarbled, TypeOK, Handle, Garbled, Acknowledgement,
          clientVars, Requests, Replies, Inferences, Commits, GatewayReset,
          GatewayInfer, GatewayPrepare, GatewayFinalize
  <1>13. CASE LoseReply
      BY <1>13 DEF LoseReply, TypeOK, Handle, clientVars, Requests,
          Inferences, Commits, GatewayReset, GatewayInfer, GatewayPrepare,
          GatewayFinalize
  <1>14. CASE TimeOut
      BY <1>14 DEF TimeOut, TypeOK, clientVars, gatewayVars
  <1>15. CASE ServeLate
      BY <1>15 DEF ServeLate, TypeOK, Handle, clientVars, Requests,
          Inferences, Commits, GatewayReset, GatewayInfer, GatewayPrepare,
          GatewayFinalize
  <1>16. CASE GatewayRestart
      BY <1>16 DEF GatewayRestart, TypeOK, callVars, clientVars
  <1>17. CASE HandshakeSucceeds \/ HandshakeFails \/ Close \/ ResetFails \/
      InferFails \/ PrepareFails \/ FinalizeFails \/ AbortFails \/
      LoseRequest
      BY <1>17 DEF HandshakeSucceeds, HandshakeFails, Close, ResetFails,
          InferFails, PrepareFails, FinalizeFails, AbortFails, LoseRequest,
          TypeOK, callVars, gatewayVars, ClearPending, EndCall, clientVars,
          States, Requests, Replies, NoRequest, NoReply, Ops
  <1>18. CASE UNCHANGED vars
      BY <1>18 DEF vars, TypeOK, clientVars, callVars, gatewayVars
  <1> QED BY <1>1, <1>2, <1>3, <1>4, <1>5, <1>6, <1>7, <1>8, <1>9, <1>10,
      <1>11, <1>12, <1>13, <1>14, <1>15, <1>16, <1>17, <1>18 DEF Next,
      ClientStep, ReturnStep, CallStep

\* Every step keeps the client state and the call in progress in accord.
LEMMA CallShapeStep ==
  ASSUME TypeOK, CallShape, [Next]_vars
  PROVE  CallShape'
  <1>1. CASE Reset
      BY <1>1 DEF Reset, CallShape, TypeOK, Send, NewRequest
  <1>2. CASE Infer
      BY <1>2 DEF Infer, CallShape, TypeOK, Send, NewRequest
  <1>3. CASE Commit
      BY <1>3 DEF Commit, CallShape, TypeOK, Send, NewRequest
  <1>4. CASE Abort
      BY <1>4 DEF Abort, CallShape, TypeOK, MaySend, Send, NewRequest
  <1>5. CASE PrepareSucceeds
      BY <1>5 DEF PrepareSucceeds, CallShape, TypeOK, Send, NewRequest
  <1>6. CASE HandshakeSucceeds \/ HandshakeFails \/ Terminal \/ Close \/
      ResetSucceeds \/ ResetFails \/ InferSucceeds \/ InferFails \/
      PrepareFails \/ FinalizeSucceeds \/ FinalizeFails \/ AbortSucceeds \/
      AbortFails \/ Serve \/ ServeGarbled \/ LoseReply \/ LoseRequest \/
      TimeOut \/ ServeLate \/ GatewayRestart
      BY <1>6 DEF HandshakeSucceeds, HandshakeFails, Terminal, Close,
          ResetSucceeds, ResetFails, InferSucceeds, InferFails, PrepareFails,
          FinalizeSucceeds, FinalizeFails, AbortSucceeds, AbortFails, Serve,
          ServeGarbled, LoseReply, LoseRequest, TimeOut, ServeLate,
          GatewayRestart, CallShape, callVars, EndCall, clientVars, NoRequest
  <1>7. CASE UNCHANGED vars
      BY <1>7 DEF vars, CallShape, clientVars, callVars
  <1> QED BY <1>1, <1>2, <1>3, <1>4, <1>5, <1>6, <1>7 DEF Next, ClientStep,
      ReturnStep, CallStep

\* Every step keeps the decision steps in line with the committed positions.
LEMMA StepShapeStep ==
  ASSUME TypeOK, CallShape, StepShape, [Next]_vars
  PROVE  StepShape'
  <1>1. CASE Infer
      BY <1>1 DEF Infer, StepShape
  <1>2. CASE Commit
      BY <1>2 DEF Commit, StepShape
  <1>3. CASE ResetSucceeds
      BY <1>3, N0Assumption DEF ResetSucceeds, StepShape, AdoptReset
  <1>4. CASE InferSucceeds
      BY <1>4 DEF InferSucceeds, StepShape, CallShape
  <1>5. CASE FinalizeSucceeds
      BY <1>5, N0Assumption DEF FinalizeSucceeds, StepShape, TypeOK,
          CallShape, FinalizeAckOK
  <1>6. CASE AbortSucceeds
      BY <1>6 DEF AbortSucceeds, StepShape
  <1>7. CASE HandshakeSucceeds \/ HandshakeFails \/ Reset \/ Terminal \/
      Abort \/ Close \/ ResetFails \/ InferFails \/ PrepareSucceeds \/
      PrepareFails \/ FinalizeFails \/ AbortFails \/ Serve \/ ServeGarbled \/
      LoseReply \/ LoseRequest \/ TimeOut \/ ServeLate \/ GatewayRestart
      BY <1>7 DEF HandshakeSucceeds, HandshakeFails, Reset, Terminal, Abort,
          Close, ResetFails, InferFails, PrepareSucceeds, PrepareFails,
          FinalizeFails, AbortFails, Serve, ServeGarbled, LoseReply,
          LoseRequest, TimeOut, ServeLate, GatewayRestart, StepShape,
          CallShape, clientVars
  <1>8. CASE UNCHANGED vars
      BY <1>8 DEF vars, StepShape, clientVars
  <1> QED BY <1>1, <1>2, <1>3, <1>4, <1>5, <1>6, <1>7, <1>8 DEF Next,
      ClientStep, ReturnStep, CallStep

\* Committed inferences stay older than the last request.
LEMMA SpentStep ==
  ASSUME TypeOK, CallShape, Spent, [Next]_vars
  PROVE  Spent'
  <1>1. CASE Infer
      BY <1>1 DEF Infer, Spent, TypeOK, Send, gatewayVars, Requests, Commits
  <1>2. CASE Commit
      BY <1>2 DEF Commit, Spent, TypeOK, Send, gatewayVars, Requests, Commits
  <1>3. CASE InferSucceeds
      BY <1>3 DEF InferSucceeds, Spent, TypeOK, CallShape, EndCall,
          gatewayVars
  <1>4. CASE PrepareSucceeds
      BY <1>4 DEF PrepareSucceeds, Spent, TypeOK, Send, gatewayVars,
          Requests, Commits
  <1>5. CASE TimeOut
      BY <1>5 DEF TimeOut, Spent, CallShape, clientVars, gatewayVars,
          IsFinalize
  <1>6. CASE Serve
      BY <1>6 DEF Serve, Spent, CallShape, Handle, clientVars, GatewayReset,
          GatewayInfer, GatewayPrepare, GatewayFinalize
  <1>7. CASE ServeGarbled
      BY <1>7 DEF ServeGarbled, Spent, CallShape, Handle, clientVars,
          GatewayReset, GatewayInfer, GatewayPrepare, GatewayFinalize
  <1>8. CASE LoseReply
      BY <1>8 DEF LoseReply, Spent, CallShape, Handle, clientVars,
          GatewayReset, GatewayInfer, GatewayPrepare, GatewayFinalize
  <1>9. CASE ServeLate
      BY <1>9 DEF ServeLate, Spent, Handle, clientVars, IsFinalize,
          GatewayReset, GatewayInfer, GatewayPrepare, GatewayFinalize
  <1>10. CASE HandshakeSucceeds \/ HandshakeFails \/ Reset \/ Terminal \/
      Abort \/ Close \/ ResetSucceeds \/ ResetFails \/ InferFails \/
      PrepareFails \/ FinalizeSucceeds \/ FinalizeFails \/ AbortSucceeds \/
      AbortFails \/ LoseRequest \/ GatewayRestart
      BY <1>10 DEF HandshakeSucceeds, HandshakeFails, Reset, Terminal, Abort,
          Close, ResetSucceeds, ResetFails, InferFails, PrepareFails,
          FinalizeSucceeds, FinalizeFails, AbortSucceeds, AbortFails,
          LoseRequest, GatewayRestart, Spent, TypeOK, callVars, gatewayVars,
          MaySend, Send, ClearPending, ResetAckOK, AdoptReset, EndCall,
          Returned, InferAckOK, PrepareAckOK, FinalizeAckOK, clientVars,
          IsFinalize, States, Requests, Replies, Inferences, Commits
  <1>11. CASE UNCHANGED vars
      BY <1>11 DEF vars, Spent, clientVars, callVars, gatewayVars
  <1> QED BY <1>1, <1>2, <1>3, <1>4, <1>5, <1>6, <1>7, <1>8, <1>9, <1>10,
      <1>11 DEF Next, ClientStep, ReturnStep, CallStep

\* No step makes anything newer than the gateway's epoch.
LEMMA EpochsStep ==
  ASSUME TypeOK, CallShape, Epochs, FreshReset, [Next]_vars
  PROVE  Epochs'
  <1>1. CASE ResetSucceeds
      BY <1>1 DEF ResetSucceeds, Epochs, FreshReset, ResetAckOK, AdoptReset,
          EndCall, gatewayVars, ResetOps, Bound
  <1>2. CASE AbortSucceeds
      BY <1>2, N0Assumption DEF AbortSucceeds, Epochs, FreshReset,
          ResetAckOK, AdoptReset, EndCall, gatewayVars, ResetOps, IsFinalize,
          Bound, ClearPending, NoRequest, NoReply
  <1>3. CASE TimeOut
      BY <1>3 DEF TimeOut, Epochs, CallShape, clientVars, gatewayVars
  <1>4. CASE Serve
      BY <1>4 DEF Serve, Epochs, TypeOK, Handle, Acknowledgement, clientVars,
          Requests, Commits, GatewayReset, GatewayInfer, GatewayPrepare,
          GatewayFinalize
  <1>5. CASE ServeGarbled
      BY <1>5 DEF ServeGarbled, Epochs, TypeOK, Handle, Garbled,
          Acknowledgement, clientVars, Requests, Commits, GatewayReset,
          GatewayInfer, GatewayPrepare, GatewayFinalize
  <1>6. CASE LoseReply
      BY <1>6 DEF LoseReply, Epochs, TypeOK, Handle, clientVars, Requests,
          Commits, GatewayReset, GatewayInfer, GatewayPrepare,
          GatewayFinalize
  <1>7. CASE ServeLate
      BY <1>7 DEF ServeLate, Epochs, TypeOK, Handle, clientVars, Requests,
          Replies, Commits, GatewayReset, GatewayInfer, GatewayPrepare,
          GatewayFinalize
  <1>8. CASE GatewayRestart
      BY <1>8 DEF GatewayRestart, Epochs, TypeOK, callVars, clientVars,
          Requests, Replies, Commits
  <1>9. CASE HandshakeSucceeds \/ HandshakeFails \/ Reset \/ Infer \/ Commit
      \/ Terminal \/ Abort \/ Close \/ ResetFails \/ InferSucceeds \/
      InferFails \/ PrepareSucceeds \/ PrepareFails \/ FinalizeSucceeds \/
      FinalizeFails \/ AbortFails \/ LoseRequest
      BY <1>9 DEF HandshakeSucceeds, HandshakeFails, Reset, Infer, Commit,
          Terminal, Abort, Close, ResetFails, InferSucceeds, InferFails,
          PrepareSucceeds, PrepareFails, FinalizeSucceeds, FinalizeFails,
          AbortFails, LoseRequest, Epochs, callVars, gatewayVars, Send,
          EndCall, clientVars
  <1>10. CASE UNCHANGED vars
      BY <1>10 DEF vars, Epochs, clientVars, callVars, gatewayVars
  <1> QED BY <1>1, <1>2, <1>3, <1>4, <1>5, <1>6, <1>7, <1>8, <1>9, <1>10 DEF
      Next, ClientStep, ReturnStep, CallStep

\* No step gives an inference a second finalize request.
LEMMA OneFinalizeStep ==
  ASSUME TypeOK, CallShape, Spent, OneFinalize, [Next]_vars
  PROVE  OneFinalize'
  <1>1. CASE InferSucceeds
      BY <1>1 DEF InferSucceeds, TypeOK, CallShape, Spent, OneFinalize,
          EndCall, gatewayVars
  <1>2. CASE PrepareSucceeds
      BY <1>2 DEF PrepareSucceeds, OneFinalize, CallShape, Send, gatewayVars,
          Undecided
  <1>3. CASE TimeOut
      BY <1>3 DEF TimeOut, OneFinalize, CallShape, clientVars, gatewayVars,
          IsFinalize, Undecided
  <1>4. CASE Serve
      BY <1>4 DEF Serve, OneFinalize, CallShape, Handle, clientVars,
          Undecided, GatewayReset, GatewayInfer, GatewayPrepare,
          GatewayFinalize
  <1>5. CASE ServeGarbled
      BY <1>5 DEF ServeGarbled, OneFinalize, CallShape, Handle, clientVars,
          Undecided, GatewayReset, GatewayInfer, GatewayPrepare,
          GatewayFinalize
  <1>6. CASE LoseReply
      BY <1>6 DEF LoseReply, OneFinalize, CallShape, Handle, clientVars,
          Undecided, GatewayReset, GatewayInfer, GatewayPrepare,
          GatewayFinalize
  <1>7. CASE ServeLate
      BY <1>7 DEF ServeLate, OneFinalize, Handle, clientVars, IsFinalize,
          Undecided, GatewayReset, GatewayInfer, GatewayPrepare,
          GatewayFinalize
  <1>8. CASE HandshakeSucceeds \/ HandshakeFails \/ Reset \/ Infer \/ Commit
      \/ Terminal \/ Abort \/ Close \/ ResetSucceeds \/ ResetFails \/
      InferFails \/ PrepareFails \/ FinalizeSucceeds \/ FinalizeFails \/
      AbortSucceeds \/ AbortFails \/ LoseRequest \/ GatewayRestart
      BY <1>8 DEF HandshakeSucceeds, HandshakeFails, Reset, Infer, Commit,
          Terminal, Abort, Close, ResetSucceeds, ResetFails, InferFails,
          PrepareFails, FinalizeSucceeds, FinalizeFails, AbortSucceeds,
          AbortFails, LoseRequest, GatewayRestart, OneFinalize, CallShape,
          callVars, gatewayVars, MaySend, Send, EndCall, clientVars,
          Undecided
  <1>9. CASE UNCHANGED vars
      BY <1>9 DEF vars, OneFinalize, clientVars, callVars, gatewayVars,
          Undecided
  <1> QED BY <1>1, <1>2, <1>3, <1>4, <1>5, <1>6, <1>7, <1>8, <1>9 DEF Next,
      ClientStep, ReturnStep, CallStep

\* Whatever asks for a commit was inferred on the cache it names.
LEMMA InferRecordedStep ==
  ASSUME CallShape, InferRecorded, InSync, Lockstep, [Next]_vars
  PROVE  InferRecorded'
  <1>1. CASE InferSucceeds
      BY <1>1 DEF InferSucceeds, InferRecorded, CallShape, InferAckOK,
          EndCall, gatewayVars, Recorded, Bound
  <1>2. CASE TimeOut
      BY <1>2 DEF TimeOut, InferRecorded, CallShape, clientVars, gatewayVars,
          Recorded, IsFinalize
  <1>3. CASE Serve
      BY <1>3 DEF Serve, CallShape, InferRecorded, InSync, Lockstep, Handle,
          clientVars, Recorded, Settled, Authorised, GatewayReset,
          GatewayInfer, GatewayPrepare, GatewayFinalize, CacheOps, ResetOps
  <1>4. CASE ServeGarbled
      BY <1>4 DEF ServeGarbled, CallShape, InferRecorded, InSync, Lockstep,
          Handle, clientVars, Recorded, Settled, Authorised, GatewayReset,
          GatewayInfer, GatewayPrepare, GatewayFinalize, ResetOps, CacheOps
  <1>5. CASE LoseReply
      BY <1>5 DEF LoseReply, InferRecorded, Handle, clientVars, Recorded,
          GatewayReset, GatewayInfer, GatewayPrepare, GatewayFinalize
  <1>6. CASE ServeLate
      BY <1>6 DEF ServeLate, InferRecorded, Handle, clientVars, Recorded,
          GatewayReset, GatewayInfer, GatewayPrepare, GatewayFinalize
  <1>7. CASE HandshakeSucceeds \/ HandshakeFails \/ Reset \/ Infer \/ Commit
      \/ Terminal \/ Abort \/ Close \/ ResetSucceeds \/ ResetFails \/
      InferFails \/ PrepareSucceeds \/ PrepareFails \/ FinalizeSucceeds \/
      FinalizeFails \/ AbortSucceeds \/ AbortFails \/ LoseRequest \/
      GatewayRestart
      BY <1>7 DEF HandshakeSucceeds, HandshakeFails, Reset, Infer, Commit,
          Terminal, Abort, Close, ResetSucceeds, ResetFails, InferFails,
          PrepareSucceeds, PrepareFails, FinalizeSucceeds, FinalizeFails,
          AbortSucceeds, AbortFails, LoseRequest, GatewayRestart,
          InferRecorded, CallShape, callVars, gatewayVars, Send, EndCall,
          clientVars, Recorded
  <1>8. CASE UNCHANGED vars
      BY <1>8 DEF vars, InferRecorded, clientVars, callVars, gatewayVars,
          Recorded
  <1> QED BY <1>1, <1>2, <1>3, <1>4, <1>5, <1>6, <1>7, <1>8 DEF Next,
      ClientStep, ReturnStep, CallStep

\* Client and gateway positions stay together within an epoch.
LEMMA InSyncStep ==
  ASSUME TypeOK, CallShape, Epochs, InSync, Lockstep, Unknown, FreshReset,
      [Next]_vars
  PROVE  InSync'
  <1>1. CASE ResetSucceeds
      BY <1>1 DEF ResetSucceeds, InSync, FreshReset, ResetAckOK, AdoptReset,
          gatewayVars, Finalizing, ResetOps, Bound
  <1>2. CASE FinalizeSucceeds
      BY <1>2 DEF FinalizeSucceeds, InSync, CallShape, FinalizeAckOK,
          gatewayVars, Finalizing, Bound
  <1>3. CASE AbortSucceeds
      BY <1>3 DEF AbortSucceeds, InSync, Settled, Finalizing
  <1>4. CASE Serve
      BY <1>4 DEF Serve, TypeOK, CallShape, Epochs, InSync, Handle,
          clientVars, Settled, Finalizing, GatewayReset, GatewayInfer,
          GatewayPrepare, GatewayFinalize
  <1>5. CASE ServeGarbled
      BY <1>5 DEF ServeGarbled, TypeOK, CallShape, Epochs, InSync, Handle,
          clientVars, Settled, Finalizing, GatewayReset, GatewayInfer,
          GatewayPrepare, GatewayFinalize
  <1>6. CASE LoseReply
      BY <1>6 DEF LoseReply, TypeOK, CallShape, Epochs, InSync, Handle,
          clientVars, Settled, Finalizing, GatewayReset, GatewayInfer,
          GatewayPrepare, GatewayFinalize
  <1>7. CASE ServeLate
      BY <1>7 DEF ServeLate, TypeOK, Epochs, InSync, Lockstep, Unknown,
          Handle, clientVars, Finalizing, IsFinalize, Authorised,
          GatewayReset, GatewayInfer, GatewayPrepare, GatewayFinalize,
          CacheOps
  <1>8. CASE GatewayRestart
      BY <1>8 DEF GatewayRestart, TypeOK, Epochs, InSync, clientVars
  <1>9. CASE HandshakeSucceeds \/ HandshakeFails \/ Reset \/ Infer \/ Commit
      \/ Terminal \/ Abort \/ Close \/ ResetFails \/ InferSucceeds \/
      InferFails \/ PrepareSucceeds \/ PrepareFails \/ FinalizeFails \/
      AbortFails \/ LoseRequest \/ TimeOut
      BY <1>9 DEF HandshakeSucceeds, HandshakeFails, Reset, Infer, Commit,
          Terminal, Abort, Close, ResetFails, InferSucceeds, InferFails,
          PrepareSucceeds, PrepareFails, FinalizeFails, AbortFails,
          LoseRequest, TimeOut, InSync, CallShape, gatewayVars, MaySend,
          Send, clientVars, Settled, Finalizing
  <1>10. CASE UNCHANGED vars
      BY <1>10 DEF vars, InSync, clientVars, callVars, gatewayVars,
          Finalizing
  <1> QED BY <1>1, <1>2, <1>3, <1>4, <1>5, <1>6, <1>7, <1>8, <1>9, <1>10 DEF
      Next, ClientStep, ReturnStep, CallStep

\* A gateway that checks nothing stays in the client's epoch.
LEMMA LockstepStep ==
  ASSUME TypeOK, CallShape, Epochs, Lockstep, FreshReset, [Next]_vars
  PROVE  Lockstep'
  <1>1. CASE ResetSucceeds
      BY <1>1 DEF ResetSucceeds, Lockstep, FreshReset, ResetAckOK,
          AdoptReset, EndCall, gatewayVars, ResetOps, Bound
  <1>2. CASE AbortSucceeds
      BY <1>2 DEF AbortSucceeds, Lockstep, EndCall, Settled
  <1>3. CASE TimeOut
      BY <1>3, N0Assumption DEF TimeOut, Lockstep
  <1>4. CASE Serve
      BY <1>4 DEF Serve, Lockstep, CallShape, Handle, clientVars, Settled,
          GatewayReset, GatewayInfer, GatewayPrepare, GatewayFinalize,
          ResetOps
  <1>5. CASE ServeGarbled
      BY <1>5 DEF ServeGarbled, Lockstep, CallShape, Handle, clientVars,
          Settled, GatewayReset, GatewayInfer, GatewayPrepare,
          GatewayFinalize, ResetOps
  <1>6. CASE LoseReply
      BY <1>6 DEF LoseReply, Lockstep, CallShape, Handle, clientVars,
          Settled, GatewayReset, GatewayInfer, GatewayPrepare,
          GatewayFinalize, ResetOps
  <1>7. CASE ServeLate
      BY <1>7 DEF ServeLate, Lockstep
  <1>8. CASE GatewayRestart
      BY <1>8, N0Assumption DEF GatewayRestart, TypeOK, Epochs, Lockstep
  <1>9. CASE HandshakeSucceeds \/ HandshakeFails \/ Reset \/ Infer \/ Commit
      \/ Terminal \/ Abort \/ Close \/ ResetFails \/ InferSucceeds \/
      InferFails \/ PrepareSucceeds \/ PrepareFails \/ FinalizeSucceeds \/
      FinalizeFails \/ AbortFails \/ LoseRequest
      BY <1>9 DEF HandshakeSucceeds, HandshakeFails, Reset, Infer, Commit,
          Terminal, Abort, Close, ResetFails, InferSucceeds, InferFails,
          PrepareSucceeds, PrepareFails, FinalizeSucceeds, FinalizeFails,
          AbortFails, LoseRequest, Lockstep, CallShape, callVars,
          gatewayVars, MaySend, Send, EndCall, clientVars, Settled
  <1>10. CASE UNCHANGED vars
      BY <1>10 DEF vars, Lockstep, clientVars, callVars, gatewayVars
  <1> QED BY <1>1, <1>2, <1>3, <1>4, <1>5, <1>6, <1>7, <1>8, <1>9, <1>10 DEF
      Next, ClientStep, ReturnStep, CallStep

\* Acknowledged commits stay applied and fill the positions below.
LEMMA KnownStep ==
  ASSUME TypeOK, CallShape, StepShape, Known, Unknown, FreshReset,
      [Next]_vars
  PROVE  Known'
  <1>1. CASE ResetSucceeds
      BY <1>1 DEF ResetSucceeds, Known, FreshReset, ResetAckOK, AdoptReset,
          gatewayVars, ResetOps, Bound
  <1>2. CASE FinalizeSucceeds
      BY <1>2 DEF FinalizeSucceeds, TypeOK, CallShape, StepShape, Known,
          Unknown, FinalizeAckOK, gatewayVars, Commits, Pending, Bound
  <1>3. CASE AbortSucceeds
      BY <1>3 DEF AbortSucceeds, Known, FreshReset, ResetAckOK, AdoptReset,
          gatewayVars, ResetOps, Bound
  <1>4. CASE Serve
      BY <1>4 DEF Serve, Known, Handle, clientVars, GatewayReset,
          GatewayInfer, GatewayPrepare, GatewayFinalize
  <1>5. CASE ServeGarbled
      BY <1>5 DEF ServeGarbled, Known, Handle, clientVars, GatewayReset,
          GatewayInfer, GatewayPrepare, GatewayFinalize
  <1>6. CASE LoseReply
      BY <1>6 DEF LoseReply, Known, Handle, clientVars, GatewayReset,
          GatewayInfer, GatewayPrepare, GatewayFinalize
  <1>7. CASE ServeLate
      BY <1>7 DEF ServeLate, Known, Handle, clientVars, GatewayReset,
          GatewayInfer, GatewayPrepare, GatewayFinalize
  <1>8. CASE HandshakeSucceeds \/ HandshakeFails \/ Reset \/ Infer \/ Commit
      \/ Terminal \/ Abort \/ Close \/ ResetFails \/ InferSucceeds \/
      InferFails \/ PrepareSucceeds \/ PrepareFails \/ FinalizeFails \/
      AbortFails \/ LoseRequest \/ TimeOut \/ GatewayRestart
      BY <1>8 DEF HandshakeSucceeds, HandshakeFails, Reset, Infer, Commit,
          Terminal, Abort, Close, ResetFails, InferSucceeds, InferFails,
          PrepareSucceeds, PrepareFails, FinalizeFails, AbortFails,
          LoseRequest, TimeOut, GatewayRestart, Known, gatewayVars,
          clientVars
  <1>9. CASE UNCHANGED vars
      BY <1>9 DEF vars, Known, clientVars, gatewayVars
  <1> QED BY <1>1, <1>2, <1>3, <1>4, <1>5, <1>6, <1>7, <1>8, <1>9 DEF Next,
      ClientStep, ReturnStep, CallStep

\* Only the chunk under way may be applied without acknowledgement.
LEMMA UnknownStep ==
  ASSUME CallShape, InSync, Lockstep, Unknown, FreshReset, [Next]_vars
  PROVE  Unknown'
  <1>1. CASE ResetSucceeds
      BY <1>1 DEF ResetSucceeds, Unknown, FreshReset, ResetAckOK, AdoptReset,
          EndCall, gatewayVars, ResetOps, Bound
  <1>2. CASE FinalizeSucceeds
      BY <1>2 DEF FinalizeSucceeds, Unknown, CallShape, FinalizeAckOK,
          EndCall, gatewayVars, Finalizing, Pending, Bound
  <1>3. CASE AbortSucceeds
      BY <1>3 DEF AbortSucceeds, Unknown, Settled, Finalizing
  <1>4. CASE PrepareSucceeds
      BY <1>4 DEF PrepareSucceeds, Unknown, CallShape, Send, gatewayVars,
          Settled
  <1>5. CASE TimeOut
      BY <1>5 DEF TimeOut, Unknown, CallShape, clientVars, gatewayVars,
          Settled, Finalizing, IsFinalize
  <1>6. CASE Serve
      BY <1>6 DEF Serve, CallShape, InSync, Lockstep, Unknown, Handle,
          clientVars, Settled, Finalizing, Pending, Authorised, GatewayReset,
          GatewayInfer, GatewayPrepare, GatewayFinalize, CacheOps, ResetOps
  <1>7. CASE ServeGarbled
      BY <1>7 DEF ServeGarbled, CallShape, InSync, Lockstep, Unknown, Handle,
          clientVars, Settled, Finalizing, Pending, Authorised, GatewayReset,
          GatewayInfer, GatewayPrepare, GatewayFinalize, ResetOps, CacheOps
  <1>8. CASE LoseReply
      BY <1>8 DEF LoseReply, CallShape, InSync, Unknown, Handle, clientVars,
          Settled, Finalizing, Pending, GatewayReset, GatewayInfer,
          GatewayPrepare, GatewayFinalize
  <1>9. CASE ServeLate
      BY <1>9 DEF ServeLate, Lockstep, Unknown, Handle, clientVars,
          Finalizing, IsFinalize, Pending, Authorised, GatewayReset,
          GatewayInfer, GatewayPrepare, GatewayFinalize, CacheOps
  <1>10. CASE HandshakeSucceeds \/ HandshakeFails \/ Reset \/ Infer \/ Commit
      \/ Terminal \/ Abort \/ Close \/ ResetFails \/ InferSucceeds \/
      InferFails \/ PrepareFails \/ FinalizeFails \/ AbortFails \/
      LoseRequest \/ GatewayRestart
      BY <1>10 DEF HandshakeSucceeds, HandshakeFails, Reset, Infer, Commit,
          Terminal, Abort, Close, ResetFails, InferSucceeds, InferFails,
          PrepareFails, FinalizeFails, AbortFails, LoseRequest,
          GatewayRestart, Unknown, CallShape, callVars, gatewayVars, MaySend,
          Send, EndCall, clientVars, Settled, Finalizing, Pending
  <1>11. CASE UNCHANGED vars
      BY <1>11 DEF vars, Unknown, clientVars, callVars, gatewayVars,
          Finalizing, Pending
  <1> QED BY <1>1, <1>2, <1>3, <1>4, <1>5, <1>6, <1>7, <1>8, <1>9, <1>10,
      <1>11 DEF Next, ClientStep, ReturnStep, CallStep

\* An acknowledged reset stays empty until the client takes it over.
LEMMA FreshResetStep ==
  ASSUME TypeOK, Epochs, Lockstep, FreshReset, [Next]_vars
  PROVE  FreshReset'
  <1>1. CASE Serve
      BY <1>1 DEF Serve, TypeOK, Epochs, FreshReset, Handle, Acknowledgement,
          ResetOps, GatewayReset, GatewayInfer, GatewayPrepare,
          GatewayFinalize
  <1>2. CASE ServeGarbled
      BY <1>2 DEF ServeGarbled, TypeOK, Epochs, FreshReset, Handle, Garbled,
          Acknowledgement, clientVars, ResetOps, ResetAckOK, GatewayReset,
          GatewayInfer, GatewayPrepare, GatewayFinalize
  <1>3. CASE LoseReply
      BY <1>3 DEF LoseReply, FreshReset
  <1>4. CASE ServeLate
      BY <1>4 DEF ServeLate, Lockstep, FreshReset, Handle, clientVars,
          ResetAckOK, IsFinalize, Authorised, GatewayReset, GatewayInfer,
          GatewayPrepare, GatewayFinalize, Bound, CacheOps
  <1>5. CASE GatewayRestart
      BY <1>5, N0Assumption DEF GatewayRestart, TypeOK, Epochs, FreshReset,
          callVars, clientVars, ResetAckOK, Bound
  <1>6. CASE HandshakeSucceeds \/ HandshakeFails \/ Reset \/ Infer \/ Commit
      \/ Terminal \/ Abort \/ Close \/ ResetSucceeds \/ ResetFails \/
      InferSucceeds \/ InferFails \/ PrepareSucceeds \/ PrepareFails \/
      FinalizeSucceeds \/ FinalizeFails \/ AbortSucceeds \/ AbortFails \/
      LoseRequest \/ TimeOut
      BY <1>6 DEF HandshakeSucceeds, HandshakeFails, Reset, Infer, Commit,
          Terminal, Abort, Close, ResetSucceeds, ResetFails, InferSucceeds,
          InferFails, PrepareSucceeds, PrepareFails, FinalizeSucceeds,
          FinalizeFails, AbortSucceeds, AbortFails, LoseRequest, TimeOut,
          FreshReset, callVars, gatewayVars, Send, ResetAckOK, EndCall, Bound
  <1>7. CASE UNCHANGED vars
      BY <1>7 DEF vars, FreshReset, clientVars, callVars, gatewayVars,
          ResetAckOK, Bound
  <1> QED BY <1>1, <1>2, <1>3, <1>4, <1>5, <1>6, <1>7 DEF Next, ClientStep,
      ReturnStep, CallStep

\* No step commits an inference or fills a position twice.
LEMMA CommitAtMostOnceStep ==
  ASSUME TypeOK, CallShape, Epochs, OneFinalize, InSync, Lockstep, Known,
      Unknown, CommitAtMostOnce, [Next]_vars
  PROVE  CommitAtMostOnce'
  <1>1. CASE Serve
      BY <1>1 DEF Serve, TypeOK, CallShape, OneFinalize, InSync, Lockstep,
          Known, Unknown, CommitAtMostOnce, Handle, Undecided, Finalizing,
          Authorised, GatewayReset, GatewayInfer, GatewayPrepare,
          GatewayFinalize, CacheOps
  <1>2. CASE ServeGarbled
      BY <1>2 DEF ServeGarbled, TypeOK, CallShape, OneFinalize, InSync,
          Lockstep, Known, Unknown, CommitAtMostOnce, Handle, Undecided,
          Finalizing, Authorised, GatewayReset, GatewayInfer, GatewayPrepare,
          GatewayFinalize, CacheOps
  <1>3. CASE LoseReply
      BY <1>3 DEF LoseReply, TypeOK, CallShape, OneFinalize, InSync,
          Lockstep, Known, Unknown, CommitAtMostOnce, Handle, Undecided,
          Finalizing, Authorised, GatewayReset, GatewayInfer, GatewayPrepare,
          GatewayFinalize, CacheOps
  <1>4. CASE ServeLate
      BY <1>4 DEF ServeLate, TypeOK, Epochs, OneFinalize, CommitAtMostOnce,
          Handle, IsFinalize, GatewayReset, GatewayInfer, GatewayPrepare,
          GatewayFinalize
  <1>5. CASE HandshakeSucceeds \/ HandshakeFails \/ Reset \/ Infer \/ Commit
      \/ Terminal \/ Abort \/ Close \/ ResetSucceeds \/ ResetFails \/
      InferSucceeds \/ InferFails \/ PrepareSucceeds \/ PrepareFails \/
      FinalizeSucceeds \/ FinalizeFails \/ AbortSucceeds \/ AbortFails \/
      LoseRequest \/ TimeOut \/ GatewayRestart
      BY <1>5 DEF HandshakeSucceeds, HandshakeFails, Reset, Infer, Commit,
          Terminal, Abort, Close, ResetSucceeds, ResetFails, InferSucceeds,
          InferFails, PrepareSucceeds, PrepareFails, FinalizeSucceeds,
          FinalizeFails, AbortSucceeds, AbortFails, LoseRequest, TimeOut,
          GatewayRestart, CommitAtMostOnce, gatewayVars
  <1>6. CASE UNCHANGED vars
      BY <1>6 DEF vars, CommitAtMostOnce, gatewayVars
  <1> QED BY <1>1, <1>2, <1>3, <1>4, <1>5, <1>6 DEF Next, ClientStep,
      ReturnStep, CallStep

\* A handled request keeps CommitOnInferredCache when the commit it applies, if
\* any, names an inference recorded for the cache it is applied to.
LEMMA HandleRecorded ==
  ASSUME NEW r, Handle(r), CommitOnInferredCache,
         IsFinalize(r) => Recorded(r.infer, gwGen, gwPosition)
  PROVE  CommitOnInferredCache'
  <1>1. SUFFICES ASSUME NEW c \in commits'
                 PROVE  Recorded(c.infer, c.epoch, c.pos)'
    BY DEF CommitOnInferredCache
  <1>2. inferred \subseteq inferred'
    BY DEF Handle, GatewayReset, GatewayInfer, GatewayPrepare, GatewayFinalize
  <1>3. CASE c \in commits
    BY <1>2, <1>3 DEF CommitOnInferredCache, Recorded
  <1>4. CASE c \notin commits
    <2>1. GatewayFinalize(r)
      BY <1>4 DEF Handle, GatewayReset, GatewayInfer, GatewayPrepare
    <2>2. c = [infer |-> r.infer, epoch |-> gwGen,
               pos |-> gwPosition, step |-> r.step]
      BY <1>4, <2>1 DEF GatewayFinalize
    <2>3. Recorded(r.infer, gwGen, gwPosition)
      BY <2>1 DEF GatewayFinalize, IsFinalize
    <2>4. c.infer = r.infer /\ c.epoch = gwGen /\ c.pos = gwPosition
      BY <2>2
    <2> QED
      BY <1>2, <2>3, <2>4 DEF Recorded
  <1> QED
    BY <1>3, <1>4

\* The client's finalize request, when the gateway serves it.
LEMMA RequestRecorded ==
  ASSUME TypeOK, CallShape, InferRecorded, InSync, Lockstep, phase = "sent",
         Authorised(request), IsFinalize(request)
  PROVE  Recorded(request.infer, gwGen, gwPosition)
  <1>1. /\ state = "finalize_commit_pending"
        /\ request.infer = pendingTx
        /\ request.epoch = epoch /\ request.pos = position
    BY DEF CallShape, IsFinalize
  <1>2. epoch = gwGen /\ position = gwPosition
    BY <1>1 DEF Authorised, IsFinalize, CacheOps, Lockstep, Settled, InSync,
               Finalizing
  <1> QED
    BY <1>1, <1>2 DEF InferRecorded

\* A finalize request that arrives late: only an authorised one is served.
LEMMA LateRecorded ==
  ASSUME TypeOK, InferRecorded, Lockstep, NEW r \in late,
         Authorised(r), IsFinalize(r)
  PROVE  Recorded(r.infer, gwGen, gwPosition)
  <1>1. r.epoch = gwGen /\ r.pos = gwPosition
    BY DEF Authorised, IsFinalize, CacheOps, Lockstep
  <1> QED
    BY <1>1 DEF InferRecorded

\* Every commit is applied to the cache its inference was run on.
LEMMA CommitOnInferredCacheStep ==
  ASSUME TypeOK, CallShape, InferRecorded, InSync, Lockstep,
         CommitOnInferredCache, [Next]_vars
  PROVE  CommitOnInferredCache'
  <1>1. CASE Serve \/ ServeGarbled \/ LoseReply
    BY <1>1, HandleRecorded, RequestRecorded
       DEF Serve, ServeGarbled, LoseReply, Handle
  <1>2. CASE ServeLate
    BY <1>2, HandleRecorded, LateRecorded DEF ServeLate, Handle
  <1>3. CASE UNCHANGED gatewayVars \/ GatewayRestart
    BY <1>3 DEF CommitOnInferredCache, Recorded, gatewayVars, GatewayRestart
  <1>4. ClientStep \/ ReturnStep \/ LoseRequest \/ TimeOut => UNCHANGED gatewayVars
    BY DEF ClientStep, HandshakeSucceeds, HandshakeFails, Reset, Infer, Commit,
         Terminal, Abort, Close, ReturnStep, ResetSucceeds, ResetFails,
         InferSucceeds, InferFails, PrepareSucceeds, PrepareFails,
         FinalizeSucceeds, FinalizeFails, AbortSucceeds, AbortFails,
         LoseRequest, TimeOut
  <1> QED
    BY <1>1, <1>2, <1>3, <1>4 DEF Next, CallStep, vars

-----------------------------------------------------------------------------
(* The theorems.                                                           *)

\* A client that has just been created satisfies the invariant.
LEMMA InitInv == Init => IInv
  <1> SUFFICES ASSUME Init PROVE IInv
    OBVIOUS
  <1>1. TypeOK
    BY N0Assumption DEF Init, TypeOK, States, Requests, NoRequest, Ops, Replies, NoReply
  <1>2. CallShape /\ StepShape /\ Spent /\ Epochs /\ OneFinalize
    BY N0Assumption DEF Init, CallShape, NoRequest, ResetOps, StepShape, Spent,
       Epochs, OneFinalize, Undecided
  <1>3. InferRecorded /\ InSync /\ Lockstep
    BY DEF Init, InferRecorded, InSync, Lockstep, Settled, Finalizing
  <1>4. Known /\ Unknown /\ FreshReset
    BY DEF Init, Known, Unknown, Settled, Finalizing, FreshReset
  <1>5. CommitAtMostOnce /\ CommitOnInferredCache
    BY DEF Init, CommitAtMostOnce, CommitOnInferredCache
  <1> QED
    BY <1>1, <1>2, <1>3, <1>4, <1>5 DEF IInv

\* The invariant holds in every reachable state.
THEOREM Invariance == Spec => []IInv
  <1>1. IInv /\ [Next]_vars => IInv'
    BY TypeOKStep, CallShapeStep, StepShapeStep, SpentStep, EpochsStep,
       OneFinalizeStep, InferRecordedStep, InSyncStep, LockstepStep, KnownStep,
       UnknownStep, FreshResetStep, CommitAtMostOnceStep,
       CommitOnInferredCacheStep DEF IInv
  <1> QED
    BY <1>1, InitInv, PTL DEF Spec

\* Client, call and gateway are well typed in every reachable state.
THEOREM TypeCorrect == Spec => []TypeOK
  <1>1. IInv => TypeOK
    BY DEF IInv
  <1> QED
    BY <1>1, Invariance, PTL

\* The engine commits an inference at most once and fills a position at most
\* once (the promise of N0Client's docstring, n0_client.py:59).
THEOREM CommitsAtMostOnce == Spec => []CommitAtMostOnce
  <1>1. IInv => CommitAtMostOnce
    BY DEF IInv
  <1> QED
    BY <1>1, Invariance, PTL

\* A chunk is applied only to the cache epoch and position it was inferred on.
THEOREM CommitsOnInferredCache == Spec => []CommitOnInferredCache
  <1>1. IInv => CommitOnInferredCache
    BY DEF IInv
  <1> QED
    BY <1>1, Invariance, PTL

\* While the client may go on inferring, the engine's cache is what the client
\* was told.
THEOREM CacheAgrees == Spec => []CacheAgreement
  <1>1. IInv => CacheAgreement
    <2> SUFFICES ASSUME IInv, state \in Settled
                 PROVE  /\ \A c \in commits : c.epoch = epoch => c \in acked
                        /\ \A c \in acked : c.epoch = epoch =>
                             /\ c \in commits
                             /\ c.pos < position
                             /\ c.step = ChunkLen * c.pos
                        /\ \A p \in 0 .. position - 1 :
                             \E c \in acked : c.epoch = epoch /\ c.pos = p
      BY DEF CacheAgreement
    <2>1. \A c \in commits : c.epoch = epoch => c \in acked
      BY DEF IInv, Unknown
    <2> QED
      BY <2>1 DEF IInv, Known
  <1> QED
    BY <1>1, Invariance, PTL

-----------------------------------------------------------------------------
(* The client, the transport and the gateway together implement the cache  *)
(* session whose commit is atomic.                                         *)

\* The engine is one entry ahead of what the client knows of its epoch.
Ahead == \E c \in AppliedHere : c.pos = position

\* What may still be applied to the epoch that the client holds is the entry
\* after the last one that it knows, and nothing while the client is inside.
Tracked ==
  /\ \A r \in late : IsFinalize(r) /\ r.epoch = epoch =>
       r.pos = position /\ state \notin Settled
  /\ \A c \in AppliedHere : c \in acked \/ c.pos = position

-----------------------------------------------------------------------------
\* The commits of the epoch fill the positions the client knows, and perhaps one
\* more, each exactly once: so their number follows from the position.
Count == Cardinality(AppliedHere) = IF Ahead THEN position + 1 ELSE position

\* The positions up to a length, counted.
LEMMA Counted ==
  ASSUME IInv, Tracked
  PROVE  Count
  <1> DEFINE size == IF Ahead THEN position + 1 ELSE position
             at == [p \in 0 .. size - 1 |-> CHOOSE c \in AppliedHere : c.pos = p]
  <1>1. position \in Nat /\ size \in Nat
    BY DEF IInv, TypeOK
  <1>2. \A p \in 0 .. size - 1 : \E c \in AppliedHere : c.pos = p
    BY <1>1 DEF IInv, Known, Ahead, AppliedHere
  <1>3. \A c \in AppliedHere : c.pos \in 0 .. size - 1
    BY <1>1 DEF IInv, TypeOK, Known, Tracked, Ahead, AppliedHere, Commits
  <1>4. \A c, d \in AppliedHere : c.pos = d.pos => c = d
    BY DEF IInv, CommitAtMostOnce, AppliedHere
  <1>5. \A p \in 0 .. size - 1 : at[p] \in AppliedHere /\ at[p].pos = p
    BY <1>2
  <1>6. at \in Bijection(0 .. size - 1, AppliedHere)
    <2>1. at \in [0 .. size - 1 -> AppliedHere]
      BY <1>5
    <2>2. \A p, q \in 0 .. size - 1 : at[p] = at[q] => p = q
      BY <1>5
    <2>3. \A c \in AppliedHere : \E p \in 0 .. size - 1 : at[p] = c
      BY <1>3, <1>4, <1>5
    <2> HIDE DEF at
    <2> QED
      BY <2>1, <2>2, <2>3, Fun_IsBij
  <1>7. IsFiniteSet(0 .. size - 1) /\ Cardinality(0 .. size - 1) = size
    BY <1>1, FS_Interval
  <1> HIDE DEF at, size
  <1>8. Cardinality(AppliedHere) = size
    BY <1>6, <1>7, FS_Bijection DEF ExistsBijection
  <1> QED
    BY <1>8 DEF size, Count

\* What a request served now or late does to the epoch that the client holds:
\* nothing, or it adds the entry after the last known one, once, and not while
\* the client is inside.
LEMMA HandleAdds ==
  ASSUME IInv, Tracked, NEW r, Handle(r), UNCHANGED clientVars,
         r \in late \/ (phase = "sent" /\ r = request)
  PROVE  \/ AppliedHere' = AppliedHere
         \/ /\ state \notin Settled /\ ~Ahead
            /\ \E c : AppliedHere' = AppliedHere \cup {c} /\ c.pos = position
  <1>1. CASE r.op # "finalize_commit"
    BY <1>1 DEF Handle, GatewayReset, GatewayInfer, GatewayPrepare, GatewayFinalize,
                AppliedHere, clientVars
  <1>2. CASE r.op = "finalize_commit" /\ gwGen # epoch
    BY <1>2 DEF Handle, GatewayReset, GatewayInfer, GatewayPrepare, GatewayFinalize,
                AppliedHere, clientVars, ResetOps
  <1>3. CASE r.op = "finalize_commit" /\ gwGen = epoch
    <2>1. /\ GatewayFinalize(r) /\ UNCHANGED <<epoch, position>>
          /\ CheckAuthority => r.epoch = gwGen /\ r.pos = gwPosition
      BY <1>3 DEF Handle, Authorised, GatewayReset, GatewayInfer, GatewayPrepare,
                  clientVars, ResetOps, CacheOps
    <2>2. state \notin Settled /\ gwPosition = position
      <3>1. CASE r \in late
        BY <1>3, <2>1, <3>1 DEF IInv, Lockstep, Tracked, IsFinalize
      <3>2. CASE phase = "sent" /\ r = request
        BY <1>3, <3>2 DEF IInv, CallShape, InSync, Finalizing, Settled
      <3> QED
        BY <3>1, <3>2
    <2>3. ~Ahead
      BY <1>3, <2>2 DEF IInv, Epochs, Ahead, AppliedHere, TypeOK, Commits
    <2> DEFINE c == [infer |-> r.infer, epoch |-> gwGen, pos |-> gwPosition,
                     step |-> r.step]
    <2>4. AppliedHere' = AppliedHere \cup {c} /\ c.pos = position
      BY <1>3, <2>1, <2>2 DEF GatewayFinalize, AppliedHere
    <2> QED
      BY <2>2, <2>3, <2>4
  <1> QED
    BY <1>1, <1>2, <1>3

\* Every step keeps track of what may still be applied.
LEMMA TrackedStep ==
  ASSUME IInv, Tracked, [Next]_vars
  PROVE  Tracked'
  <1>1. CASE Serve \/ ServeGarbled \/ LoseReply
    <2>1. Handle(request) /\ phase = "sent" /\ UNCHANGED <<late, clientVars, acked>>
      BY <1>1 DEF Serve, ServeGarbled, LoseReply
    <2> QED
      BY <2>1, HandleAdds DEF Tracked, clientVars
  <1>2. CASE ServeLate
    <2>1. PICK r \in late : Handle(r) /\ late' = late \ {r} /\ UNCHANGED <<clientVars, acked>>
      BY <1>2 DEF ServeLate
    <2> QED
      BY <2>1, HandleAdds DEF Tracked, clientVars
  <1>3. CASE TimeOut
    BY <1>3 DEF TimeOut, Tracked, AppliedHere, IInv, CallShape, IsFinalize, Settled,
                clientVars, gatewayVars
  <1>4. CASE ResetSucceeds \/ AbortSucceeds
    <2>1. /\ phase = "replied" /\ request.op \in ResetOps /\ ResetAckOK
          /\ epoch' = reply.epoch /\ UNCHANGED <<late, commits>>
      BY <1>4 DEF ResetSucceeds, AbortSucceeds, ResetOps, AdoptReset, EndCall,
                  gatewayVars, ResetAckOK, Bound
    <2> QED
      BY <2>1 DEF IInv, FreshReset, Tracked, AppliedHere
  <1>5. CASE InferSucceeds
    BY <1>5 DEF InferSucceeds, Tracked, AppliedHere, IInv, CallShape, EndCall, Settled,
                gatewayVars
  <1>6. CASE FinalizeSucceeds
    <2>1. /\ state = "finalize_commit_pending" /\ phase = "replied"
          /\ UNCHANGED <<late, commits, epoch>>
          /\ request.infer = pendingTx /\ request.step = pendingStep
          /\ acked' = acked \cup {Pending}
      BY <1>6 DEF FinalizeSucceeds, IInv, CallShape, FinalizeAckOK, Bound, EndCall,
                  gatewayVars, Pending
    <2>2. \A r \in late : IsFinalize(r) => r.epoch # epoch
      BY <2>1 DEF IInv, Unknown, Finalizing
    <2>3. \A c \in commits : c.epoch = epoch => c \in acked \/ c = Pending
      BY <2>1 DEF IInv, Unknown
    <2> QED
      BY <2>1, <2>2, <2>3 DEF Tracked, AppliedHere, IsFinalize
  <1>7. CASE \/ HandshakeSucceeds \/ HandshakeFails \/ Reset \/ Infer \/ Commit
             \/ Terminal \/ Abort \/ Close \/ ResetFails \/ InferFails
             \/ PrepareSucceeds \/ PrepareFails \/ FinalizeFails \/ AbortFails
             \/ LoseRequest \/ GatewayRestart \/ UNCHANGED vars
    <2>1. /\ UNCHANGED <<late, commits, acked, epoch, position>>
          /\ state' \in Settled => state \in Settled
      BY <1>7 DEF HandshakeSucceeds, HandshakeFails, Reset, Infer, Commit, Terminal,
             Abort, Close, ResetFails, InferFails, PrepareSucceeds, PrepareFails,
             FinalizeFails, AbortFails, LoseRequest, GatewayRestart, Send, EndCall,
             Settled, vars, clientVars, callVars, gatewayVars
    <2> QED
      BY <2>1 DEF Tracked, AppliedHere
  <1> QED
    BY <1>1, <1>2, <1>3, <1>4, <1>5, <1>6, <1>7 DEF Next, ClientStep, ReturnStep,
       CallStep

-----------------------------------------------------------------------------
\* Only a refused or a finished call takes the client out of the session or into
\* it, and only the last step of a commit tells it of an entry.
LEMMA StepRefines ==
  ASSUME IInv, IInv', Tracked, Count, Count', [Next]_vars
  PROVE  [Session!Next]_Session!vars
  <1> DEFINE applied == Cardinality(AppliedHere)
  <1>0. /\ applied = IF Ahead THEN position + 1 ELSE position
        /\ applied' = (IF Ahead THEN position + 1 ELSE position)'
        /\ position \in Nat /\ position' \in Nat
    BY DEF Count, IInv, TypeOK
  <1>1. ASSUME NEW r, Handle(r), UNCHANGED clientVars,
               r \in late \/ (phase = "sent" /\ r = request)
        PROVE  [Session!Next]_Session!vars
    <2>1. UNCHANGED <<state, position>>
      BY <1>1 DEF clientVars
    <2>2. CASE AppliedHere' = AppliedHere
      BY <2>1, <2>2 DEF Session!vars
    <2>3. CASE state \notin Settled /\ ~Ahead /\ Ahead'
      <3>1. Session!Apply
        BY <1>0, <2>1, <2>3 DEF Session!Apply
      <3> QED
        BY <3>1 DEF Session!Next
    <2> QED
      BY <1>1, <2>1, <2>2, <2>3, HandleAdds DEF Ahead
  <1>2. CASE Serve \/ ServeGarbled \/ LoseReply \/ ServeLate
    BY <1>1, <1>2 DEF Serve, ServeGarbled, LoseReply, ServeLate
  <1>3. CASE ResetSucceeds \/ AbortSucceeds
    <2>1. /\ phase = "replied" /\ request.op \in ResetOps /\ ResetAckOK
          /\ epoch' = reply.epoch /\ UNCHANGED commits /\ position' = 0
      BY <1>3 DEF ResetSucceeds, AbortSucceeds, ResetOps, AdoptReset, EndCall,
                  gatewayVars, ResetAckOK, Bound
    <2>2. AppliedHere' = {}
      BY <2>1 DEF IInv, FreshReset, AppliedHere
    <2>3. Session!Renew
      BY <1>0, <2>1, <2>2 DEF Session!Renew, Ahead
    <2> QED
      BY <2>3 DEF Session!Next
  <1>4. CASE FinalizeSucceeds
    <2>1. /\ state = "finalize_commit_pending" /\ phase = "replied" /\ state' = "ready"
          /\ UNCHANGED <<commits, epoch>> /\ position' = position + 1
      BY <1>4 DEF FinalizeSucceeds, IInv, CallShape, FinalizeAckOK, Bound, gatewayVars
    <2>2. Ahead /\ AppliedHere' = AppliedHere
      BY <2>1 DEF IInv, Unknown, Pending, Ahead, AppliedHere
    <2>3. Session!Confirm
      BY <1>0, <2>1, <2>2 DEF Session!Confirm, Settled
    <2> QED
      BY <2>3 DEF Session!Next
  <1>5. CASE \/ HandshakeSucceeds \/ HandshakeFails \/ Reset \/ Infer \/ Commit
             \/ Terminal \/ Abort \/ Close \/ ResetFails \/ InferSucceeds \/ InferFails
             \/ PrepareSucceeds \/ PrepareFails \/ FinalizeFails \/ AbortFails
             \/ LoseRequest \/ TimeOut \/ GatewayRestart \/ UNCHANGED vars
    <2>1. /\ UNCHANGED <<commits, epoch, position>>
          /\ state' \in Settled => state \in Settled
      BY <1>5 DEF HandshakeSucceeds, HandshakeFails, Reset, Infer, Commit, Terminal,
             Abort, Close, ResetFails, InferSucceeds, InferFails, PrepareSucceeds,
             PrepareFails, FinalizeFails, AbortFails, LoseRequest, TimeOut,
             GatewayRestart, IInv, CallShape, Settled, vars, clientVars, gatewayVars
    <2>2. AppliedHere' = AppliedHere
      BY <2>1 DEF AppliedHere
    <2>3. Session!Leave \/ UNCHANGED Session!vars
      BY <2>1, <2>2 DEF Session!Leave, Session!vars
    <2> QED
      BY <2>3 DEF Session!Next
  <1> QED
    BY <1>2, <1>3, <1>4, <1>5 DEF Next, ClientStep, ReturnStep, CallStep

\* The client starts where the abstract session starts.
LEMMA InitRefines == Init => Session!Init /\ Tracked
  BY FS_EmptySet DEF Init, Session!Init, Tracked, AppliedHere, Settled

\* Client, transport and gateway implement a cache session whose commit is atomic,
\* whatever is lost, garbled, late or restarted (the contract of N0Client's
\* docstring, n0_client.py:59).
THEOREM ImplementsCacheSession == Spec => RefinesCacheSession
  <1>1. IInv /\ Tracked /\ [Next]_vars => Tracked'
    BY TrackedStep
  <1>2. IInv /\ Tracked => Count
    BY Counted
  <1>3. IInv /\ IInv' /\ Tracked /\ Count /\ Count' /\ [Next]_vars =>
          [Session!Next]_Session!vars
    BY StepRefines
  <1> QED
    BY <1>1, <1>2, <1>3, InitRefines, Invariance, PTL
    DEF Spec, RefinesCacheSession, Session!Spec
=============================================================================
