------------------------------- MODULE TimerThread -------------------------------
(***************************************************************************)
(* The global TimerThread (spec 4.9; timer_thread.cc is not part of the   *)
(* sources, so the thread itself follows the spec) and the public calls   *)
(* fiber_timer_add and fiber_timer_del of src/eabase/fiber/fiber.cc.      *)
(*                                                                         *)
(* An entry lives in a slot; its token is <<slot, generation>>.  A slot   *)
(* is "free", "pending" (in the heap), "cancelled" (unscheduled but still *)
(* in the heap until the thread drops it) or "running" (its callback is   *)
(* executing on the timer thread).  Deadlines are abstracted away: any    *)
(* entry of the heap may fall due, so the heap order is over-approximated.*)
(* Freeing a slot bumps its generation, which is what makes a stale token *)
(* "not found".                                                            *)
(*                                                                         *)
(* fires[t] and cancels[t] are history kept for the ids fiber_timer_add   *)
(* hands out: how often t's callback was started, and how often           *)
(* fiber_timer_del(t) answered 0 ("found and cancelled").                  *)
(***************************************************************************)
EXTENDS Integers, FiniteSets

CONSTANTS Slots,      \* slots of the timer heap
          MaxGen,     \* bound on the generations a slot goes through
          Owners,     \* who schedules: timed waiters and timer users
          TimerUsers, \* fibers calling fiber_timer_add / fiber_timer_del
          MaxTimerAdd,\* bound on fiber_timer_add calls of a user
          MaxTimerDel \* bound on fiber_timer_del calls of a user

ASSUME TimerUsers \subseteq Owners

VARIABLES tgen,      \* tgen[s]: generation of slot s
          tstate,    \* tstate[s]: "free", "pending", "cancelled", "running"
          towner,    \* towner[s]: whose callback slot s holds
          fires,     \* fires[t]: times token t's callback started
          cancels,   \* cancels[t]: times unschedule(t) returned 0
          handles,   \* handles[u]: the ids fiber_timer_add gave user u
          nadd,      \* nadd[u]: fiber_timer_add calls of u
          ndel       \* ndel[u]: fiber_timer_del calls of u

timerVars == <<tgen, tstate, towner, fires, cancels>>
userVars  == <<handles, nadd, ndel>>

Tokens == Slots \X (0 .. MaxGen - 1)

TokenOf(s) == <<s, tgen[s]>>

(* A slot schedule() may take: free, and not yet at the generation bound. *)
FreeSlots == {s \in Slots : tstate[s] = "free" /\ tgen[s] < MaxGen}

(* The slot the allocator hands out next.                                *)
NextSlot == CHOOSE s \in FreeSlots : TRUE

TimerInit ==
    /\ tgen = [s \in Slots |-> 0]
    /\ tstate = [s \in Slots |-> "free"]
    /\ towner = [s \in Slots |-> "none"]
    /\ fires = [t \in Tokens |-> 0]
    /\ cancels = [t \in Tokens |-> 0]
    /\ handles = [u \in TimerUsers |-> {}]
    /\ nadd = [u \in TimerUsers |-> 0]
    /\ ndel = [u \in TimerUsers |-> 0]

-----------------------------------------------------------------------------
(* schedule(fn, arg, abstime) under the heap lock: the entry takes free   *)
(* slot s; the caller keeps TokenOf(s).                                    *)
Schedule(o, s) ==
    /\ s \in FreeSlots
    /\ tstate' = [tstate EXCEPT ![s] = "pending"]
    /\ towner' = [towner EXCEPT ![s] = o]
    /\ UNCHANGED tgen

(* Mutant: the generation of the token is not compared with the slot's.  *)
UnscheduleResultAnyGen(t) ==
    CASE tstate[t[1]] = "pending" -> 0
      [] tstate[t[1]] = "running" -> 1
      [] OTHER                    -> -1

(* What unschedule(t) answers: 0 found and cancelled, 1 the callback is   *)
(* running, -1 not found (stale generation, already cancelled or done).   *)
UnscheduleResult(t) ==
    IF tgen[t[1]] /= t[2] THEN -1
    ELSE CASE tstate[t[1]] = "pending" -> 0
           [] tstate[t[1]] = "running" -> 1
           [] OTHER                    -> -1

(* unschedule(t) under the heap lock: a pending entry of t's generation   *)
(* is marked cancelled and stays in the heap; anything else is left as is.*)
Unschedule(t) ==
    IF UnscheduleResult(t) = 0
      THEN /\ tstate' = [tstate EXCEPT ![t[1]] = "cancelled"]
           /\ UNCHANGED <<tgen, towner>>
      ELSE UNCHANGED <<tgen, tstate, towner>>

(* The single timer thread runs one callback at a time.                   *)
TimerIdle == \A s \in Slots : tstate[s] /= "running"

(* The run loop takes a due entry out of the heap: a cancelled one is     *)
(* dropped and its slot freed, a pending one starts running.              *)
TimerDrop(s) ==
    /\ TimerIdle
    /\ tstate[s] = "cancelled"
    /\ tstate' = [tstate EXCEPT ![s] = "free"]
    /\ tgen' = [tgen EXCEPT ![s] = @ + 1]
    /\ towner' = [towner EXCEPT ![s] = "none"]
    /\ UNCHANGED <<fires, cancels>>

TimerStart(s) ==
    /\ TimerIdle
    /\ tstate[s] = "pending"
    /\ tstate' = [tstate EXCEPT ![s] = "running"]
    /\ fires' = IF towner[s] \in TimerUsers
                  THEN [fires EXCEPT ![TokenOf(s)] = @ + 1] ELSE fires
    /\ UNCHANGED <<tgen, towner, cancels>>

(* The callback has returned: the slot is freed under a new generation.   *)
TimerFinish(s) ==
    /\ tstate[s] = "running"
    /\ tstate' = [tstate EXCEPT ![s] = "free"]
    /\ tgen' = [tgen EXCEPT ![s] = @ + 1]
    /\ towner' = [towner EXCEPT ![s] = "none"]
    /\ UNCHANGED <<fires, cancels>>

-----------------------------------------------------------------------------
(* fiber_timer_add(&id, abstime, on_timer, arg) on a worker: the task     *)
(* control and the global timer thread exist, so it returns 0 with the    *)
(* token schedule() gave.  Its callback only records that it ran.         *)
TimerAdd(u) ==
    /\ nadd[u] < MaxTimerAdd
    /\ FreeSlots /= {} /\ LET s == NextSlot IN
          /\ Schedule(u, s)
          /\ handles' = [handles EXCEPT ![u] = @ \cup {TokenOf(s)}]
    /\ nadd' = [nadd EXCEPT ![u] = @ + 1]
    /\ UNCHANGED <<fires, cancels, ndel>>

(* fiber_timer_del(id): unschedule's answer if it is >= 0, else EINVAL.   *)
TimerDel(u) ==
    /\ ndel[u] < MaxTimerDel
    /\ \E t \in handles[u] :
          /\ Unschedule(t)
          /\ cancels' = IF UnscheduleResult(t) = 0
                          THEN [cancels EXCEPT ![t] = @ + 1] ELSE cancels
    /\ ndel' = [ndel EXCEPT ![u] = @ + 1]
    /\ UNCHANGED <<fires, handles, nadd>>

=============================================================================
