------------------------ MODULE MC_ConditionVariable ------------------------
(* Two waiters (one timed), the notifier and one pinger: broadcast has a *)
(* waiter to wake and one to requeue onto the mutex.                      *)
EXTENDS ConditionVariable

=============================================================================
