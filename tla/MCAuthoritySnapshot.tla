------------------------- MODULE MCAuthoritySnapshot -------------------------
(* A bound for the model checker: the second handler counts only while the *)
(* monitor has no capture under way or behind it, at first and after each  *)
(* of its restarts.                                                        *)
EXTENDS AuthoritySnapshot

Extra == Handlers \ {"h1"}
MCNext == Next /\ \A h \in Extra : call'[h] # Quiet => phase' = "start"
MCSpec == Init /\ [][MCNext]_vars /\ Fairness
=============================================================================
