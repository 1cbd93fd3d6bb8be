-------------------------- MODULE MC_CountdownEvent --------------------------
(* Two waiters (one of them timed), two signalers subtracting 1 and 2    *)
(* from an initial count of 2, and one add_count(1) before the waits:     *)
(* the count ends at 0 or below, and can be over-decreased.  One reset() *)
(* and a fiber_stop() of the untimed waiter w1.  The timed waiter shares  *)
(* two timer slots with a fiber that calls fiber_timer_add once and      *)
(* fiber_timer_del once.  The timed waiter's butex_wait schedules at most *)
(* 3 entries (two wakes and the final wait) and the user one, so 2 slots *)
(* with 3 generations each suffice: an entry that holds a slot is fired  *)
(* or dropped in the end, and frees it.                                  *)
EXTENDS CountdownEvent

CONSTANTS s1, s2

MCSig == [s \in Signalers |-> IF s = s1 THEN 1 ELSE 2]

=============================================================================
