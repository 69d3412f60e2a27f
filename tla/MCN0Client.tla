----------------------------- MODULE MCN0Client -----------------------------
(* The N0 client and its gateway for TLC, and its refinement of the atomic *)
(* cache session.                                                          *)
EXTENDS N0Client, FiniteSets

\* The engine's commits in the epoch the client holds.
AppliedHere == {c \in commits : c.epoch = epoch}

Session == INSTANCE N0CacheSession WITH
  inside  <- state \in Settled,
  known   <- position,
  applied <- Cardinality(AppliedHere)

\* Client, transport and gateway together behave as one cache session whose
\* commit is atomic: the engine moves by one entry at a time, only while the
\* client is outside the session, and the client re-enters the session either
\* knowing that entry or in an empty epoch.
RefinesCacheSession == Session!Spec
=============================================================================
