------------------------ MODULE MCClosedLoopTrial ------------------------
(* Indentations for TLC: free, both thresholds, and the band in between,   *)
(* different on the two sides.                                             *)
EXTENDS RestCalibration

Frame(left, right) == [s \in {"left", "right"} |-> IF s = "left" THEN left ELSE right]

MCDepthFrames == {Frame(0, 3), Frame(3, 2), Frame(2, 1)}
=============================================================================
