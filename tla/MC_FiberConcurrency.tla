------------------------- MODULE MC_FiberConcurrency -------------------------
(* Two pthreads, two tags, a default concurrency of 2 and a range of 1..3 *)
(* (setconcurrency(3) reaches FIBER_MAX_CONCURRENCY): each thread makes   *)
(* two calls chosen from fiber_start (which creates the TaskControl),     *)
(* fiber_setconcurrency with an invalid, a lower, an equal and a higher   *)
(* value, fiber_concurrency set to 2 through gflags (its validator calls  *)
(* fiber_setconcurrency), fiber_min_concurrency set to 0 (laziness off),  *)
(* 1 and 3 (above the default until setconcurrency(3) raises it), and     *)
(* fiber_setconcurrency_by_tag, whose first call is swallowed, and the    *)
(* flags fiber_current_tag (1, and the invalid 2) and                     *)
(* fiber_concurrency_by_tag (2, for the current tag), and the readers     *)
(* fiber_getconcurrency and fiber_getconcurrency_by_tag(0).               *)
EXTENDS FiberConcurrency

Calls == {[op |-> "start"]}
         \cup {[op |-> "set", num |-> n] : n \in {0, 1, 2, 3}}
         \cup {[op |-> "setconc", num |-> 2]}
         \cup {[op |-> "setmin", num |-> n] : n \in {0, 1, 3}}
         \cup {[op |-> "bytag", num |-> n, tag |-> 0] : n \in {1, 3}}
         \cup {[op |-> "settag", num |-> n] : n \in {1, 2}}
         \cup {[op |-> "setbytag", num |-> 2]}
         \cup {[op |-> "get"], [op |-> "getbytag", tag |-> 0]}

MCPrograms == [Threads -> {<<a, b>> : a, b \in Calls}]

=============================================================================
