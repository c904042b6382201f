--------------------------- MODULE MCPaperControl ---------------------------
(* For the model checker: the trade journaled before checkpoints lost, won *)
(* or came out even.                                                       *)
EXTENDS PaperControl

MCLegacy == PnL
=============================================================================
