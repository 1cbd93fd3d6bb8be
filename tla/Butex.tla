-------------------------------- MODULE Butex --------------------------------
(***************************************************************************)
(* The butex: a 32-bit value plus a FIFO list of waiting fibers, guarded  *)
(* by the butex's spin lock (spec section 4.3; butex.cc is not part of     *)
(* the sources, so this module follows the spec).  Every operation runs   *)
(* under the butex lock and is therefore one atomic step.                 *)
(*                                                                         *)
(* wres[f] is the state of f's current butex_wait():                       *)
(*   "none"        f is not inside butex_wait,                             *)
(*   "waiting"     f is on exactly one waiter list, suspended,             *)
(*   "woken", "EWOULDBLOCK", "ETIMEDOUT", "EINTR"                          *)
(*                 butex_wait has decided its outcome; f is runnable and   *)
(*                 its caller reads the outcome on its next step.          *)
(* The modules of the primitives built on the butex EXTEND this module    *)
(* and keep the value of each of their butexes in bval.                   *)
(***************************************************************************)
EXTENDS Integers, Sequences, FiniteSets

CONSTANTS Butexes,   \* the butexes of the model
          Fibers     \* the fibers that may wait on them

VARIABLES bval,      \* bval[b]: the user-visible value of butex b
          waitq,     \* waitq[b]: waiters of b, oldest first
          wres       \* wres[f]: state of f's butex_wait

butexVars == <<bval, waitq, wres>>

WaitResults == {"none", "waiting", "woken", "EWOULDBLOCK", "ETIMEDOUT", "EINTR"}

ButexInit(initValue) ==
    /\ bval = initValue
    /\ waitq = [b \in Butexes |-> << >>]
    /\ wres = [f \in Fibers |-> "none"]

Waiting(b) == {waitq[b][i] : i \in DOMAIN waitq[b]}

RemoveFrom(s, f) == SelectSeq(s, LAMBDA x : x /= f)

(* butex_wait(b, expected): under the lock, compare the value and either  *)
(* fail with EWOULDBLOCK or append the caller to the waiter list.         *)
ButexWait(f, b, expected) ==
    /\ wres[f] = "none"
    /\ IF bval[b] /= expected
         THEN /\ wres' = [wres EXCEPT ![f] = "EWOULDBLOCK"]
              /\ UNCHANGED waitq
         ELSE /\ waitq' = [waitq EXCEPT ![b] = Append(@, f)]
              /\ wres' = [wres EXCEPT ![f] = "waiting"]
    /\ UNCHANGED bval

(* butex_wait entered by a stopped fiber returns EINTR at once (spec 4.6).*)
ButexWaitStopped(f) ==
    /\ wres[f] = "none"
    /\ wres' = [wres EXCEPT ![f] = "EINTR"]
    /\ UNCHANGED <<bval, waitq>>

(* butex_wake(b): make the oldest waiter runnable.                        *)
ButexWake(b) ==
    IF waitq[b] = << >>
      THEN UNCHANGED <<waitq, wres>>
      ELSE /\ wres' = [wres EXCEPT ![Head(waitq[b])] = "woken"]
           /\ waitq' = [waitq EXCEPT ![b] = Tail(@)]

(* butex_wake_all(b): make every waiter runnable.                         *)
ButexWakeAll(b) ==
    /\ wres' = [f \in Fibers |-> IF f \in Waiting(b) THEN "woken" ELSE wres[f]]
    /\ waitq' = [waitq EXCEPT ![b] = << >>]

(* butex_requeue(b, dst): wake the oldest waiter of b and move the others *)
(* to the tail of dst's list without waking them.                         *)
ButexRequeue(b, dst) ==
    IF waitq[b] = << >>
      THEN UNCHANGED <<waitq, wres>>
      ELSE /\ wres' = [wres EXCEPT ![Head(waitq[b])] = "woken"]
           /\ waitq' = [waitq EXCEPT ![b] = << >>,
                                     ![dst] = @ \o Tail(waitq[b])]

(* The timer of a timed wait fires, or the fiber is interrupted: the      *)
(* waiter is unlinked from whichever list holds it, under that lock.      *)
ButexUnlink(f, why) ==
    /\ wres[f] = "waiting"
    /\ waitq' = [b \in Butexes |-> RemoveFrom(waitq[b], f)]
    /\ wres' = [wres EXCEPT ![f] = why]
    /\ UNCHANGED bval

(* The resumed fiber consumes the outcome of its butex_wait.              *)
ButexReturn(f) == wres' = [wres EXCEPT ![f] = "none"]

=============================================================================
