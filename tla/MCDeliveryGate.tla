--------------------------- MODULE MCDeliveryGate ---------------------------
(* DeliveryGate for TLC: short episodes with every order of phases that       *)
(* matters, and the manifests of the smoke matrix (replay.py:207).            *)
EXTENDS DeliveryGate

CONSTANT Levels

MCScripts ==
  {<<"free", "free", "free", "free">>, <<"sustained", "free", "release", "free">>,
   <<"free", "onset", "sustained", "release">>, <<"release", "free", "free", "onset">>}

MCManifests ==
  {m \in [operator : OperatorIds, level : Levels, start : 0 .. 3, stop : {1, 3, 4, 5},
          slots : {<<"left">>, <<"right", "left">>}, declared : BOOLEAN,
          supplied : {<<>>}] : Registered(m)}

\* fixtures._phase over the twenty-four records of the smoke matrix.
SmokeScript ==
  [k \in 1 .. 24 |-> CASE k = 4 -> "onset" [] k \in 5 .. 8 -> "sustained"
                       [] k = 9 -> "release" [] OTHER -> "free"]

SmokeScripts == {SmokeScript}

SmokeManifests ==
  {[operator |-> operator, level |-> level, start |-> IF operator = "T1" THEN 17 ELSE 4,
    stop |-> 22, slots |-> IF operator \in {"T3", "C1"} THEN <<"left", "right">> ELSE <<"left">>,
    declared |-> FALSE, supplied |-> <<>>] : operator \in OperatorIds, level \in 1 .. 5}

\* run_smoke_matrix never raises: all of its seventy cells pass.
SmokeMatrixPasses ==
  report # Unvalidated /\ ~atRest /\ defects = 0 => Passed
=============================================================================
