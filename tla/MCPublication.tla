--------------------------- MODULE MCPublication ---------------------------
(***************************************************************************)
(* Instances of Publication for TLC: which exporters share the path.       *)
(***************************************************************************)
EXTENDS Publication

Requests == {CalibrationRequest}
Generators == {PrimaryMatrix, PullOutKeyMatrix}
=============================================================================
