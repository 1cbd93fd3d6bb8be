------------------------- MODULE MC_WorkStealingQueue -------------------------
(* Model-checking instance: one owner, two stealers, a queue of capacity *)
(* 2 and 3 pushes, so the buffer wraps around and the last item is       *)
(* contested by pop() and two steal()s at once.                           *)
EXTENDS WorkStealingQueue

MCCapacity == 2
MCMaxPush  == 3

=============================================================================
