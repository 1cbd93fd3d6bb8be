-------------------------- MODULE MC_AgentCombiner --------------------------
(* Two writers, one combine_agents() and one reset_all_agents() reader,  *)
(* one call each.  One writer makes two updates, so its second            *)
(* compare-exchange can meet a reset that zeroed the value it loaded.     *)
EXTENDS AgentCombiner

MCMaxModify == [w \in Writers |-> IF w = CHOOSE x \in Writers : TRUE THEN 2 ELSE 1]

=============================================================================
