------------------------- MODULE MCStreamingFaults -------------------------
(* StreamingFaults for TLC: every registered manifest whose window starts   *)
(* inside the episode and ends inside it or one record after it.            *)
EXTENDS StreamingFaults

CONSTANT Levels

MCSlotLists == {<<"left">>, <<"left", "right">>, <<"right", "left">>}

MCManifests ==
  {m \in [operator : OperatorIds, level : Levels, start : 0 .. MaxLength - 1,
          stop : 1 .. MaxLength + 1, slots : MCSlotLists,
          declared : BOOLEAN, supplied : {<<>>, <<1>>, <<0, 2>>}] : Registered(m)}
=============================================================================
