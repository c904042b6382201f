---------------------------- MODULE MCSettlement ----------------------------
(* Price paths for the model checker: the hour confirms the quarter, or    *)
(* contradicts it.                                                         *)
EXTENDS Settlement

MCPaths == {[w \in Windows |-> "up"], [w \in Windows |-> IF w = "1h" THEN "down" ELSE "up"]}
=============================================================================
