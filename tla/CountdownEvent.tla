---------------------------- MODULE CountdownEvent ----------------------------
(***************************************************************************)
(* CountdownEvent of src/eabase/fiber/countdown_event.cc: the counter is  *)
(* the value of its butex.  Waiter fibers call wait() or timed_wait()     *)
(* once; signaler fibers call signal(Sig[s]) once; add_count() may be     *)
(* called before the first wait(), as its contract requires (the code     *)
(* only logs a violation), and reset() while no wait() is in progress, as *)
(* spec 4.8 requires.  The owner destroys the event once every wait()    *)
(* has returned and the count has reached zero, while a signal() may      *)
(* still be finishing.                                                     *)
(*                                                                         *)
(* The deadline of timed_wait() is an entry of the global TimerThread,    *)
(* which it shares with fibers calling fiber_timer_add / fiber_timer_del: *)
(* the butex_wait of a timed waiter schedules the entry, its callback     *)
(* unlinks the waiter with ETIMEDOUT (spec 4.3), and the resumed waiter   *)
(* unschedules it (spec 5).                                                *)
(***************************************************************************)
EXTENDS Butex, TimerThread

CONSTANTS Event,      \* the butex of the event
          Waiters,    \* fibers calling wait() or timed_wait()
          Timed,      \* those of them calling timed_wait()
          Signalers,  \* fibers calling signal()
          Sig,        \* Sig[s]: the amount signal() subtracts
          InitCount,  \* initial_count given to the constructor
          MaxAdd,     \* bound on add_count(1) calls
          ResetTo,    \* the count reset() restores
          MaxReset,   \* bound on reset() calls
          StopTargets \* waiters some fiber calls fiber_stop() on, once

ASSUME /\ Butexes = {Event}
       /\ Fibers = Waiters
       /\ Timed \subseteq Waiters
       /\ StopTargets \subseteq Waiters
       /\ Sig \in [Signalers -> Nat \ {0}]
       /\ InitCount \in Nat
       /\ Owners = Timed \cup TimerUsers

VARIABLES waitInvoked,  \* _wait_was_invoked
          added,        \* add_count() calls so far
          pc,           \* pc[w]: where waiter w is in wait()
          seen,         \* seen[w]: w's seen_counter
          ret,          \* ret[w]: what w's wait() returned
          spc,          \* spc[s]: where signaler s is in signal()
          resets,       \* reset() calls so far
          wtok,         \* wtok[w]: token of the timer of w's butex_wait
          stopPc,       \* stopPc[w]: where fiber_stop(w) is
          destroyed,    \* ~CountdownEvent has run
          lateRead      \* auxiliary: a signal() read *this after it

waitVars == <<waitInvoked, added, pc, seen, ret, spc, resets, stopPc>>
lifeVars == <<destroyed, lateRead>>
vars == <<bval, waitq, wres, waitVars, timerVars, userVars, wtok, lifeVars>>

NoToken == <<>>

Counter == bval[Event]

Init == /\ ButexInit([b \in Butexes |-> InitCount])
        /\ waitInvoked = FALSE
        /\ added = 0
        /\ pc = [w \in Waiters |-> "idle"]
        /\ seen = [w \in Waiters |-> 0]
        /\ ret = [w \in Waiters |-> "none"]
        /\ spc = [s \in Signalers |-> "idle"]
        /\ resets = 0
        /\ stopPc = [w \in StopTargets |-> "idle"]
        /\ TimerInit
        /\ wtok = [w \in Waiters |-> NoToken]
        /\ destroyed = FALSE
        /\ lateRead = FALSE

-----------------------------------------------------------------------------
(* One turn of wait()'s loop: set _wait_was_invoked on entry, load the    *)
(* counter, return 0 once it is <= 0.                                      *)
WaitLoad(w) ==
    /\ pc[w] \in {"idle", "load"}
    /\ waitInvoked' = TRUE
    /\ seen' = [seen EXCEPT ![w] = Counter]
    /\ IF Counter <= 0
         THEN /\ pc' = [pc EXCEPT ![w] = "done"]
              /\ ret' = [ret EXCEPT ![w] = "ok"]
         ELSE /\ pc' = [pc EXCEPT ![w] = "wait"]
              /\ UNCHANGED ret
    /\ UNCHANGED <<stopPc, butexVars, added, spc, resets, timerVars, userVars, wtok>>
    /\ UNCHANGED lifeVars

(* timed_wait() is wait() with &duetime passed to butex_wait.             *)
Deadline(w) == w \in Timed

(* TaskGroup::is_stopped(w): fiber_stop(w) has set the flag.              *)
Stopped(w) == w \in StopTargets /\ stopPc[w] /= "idle"

(* Mutant: butex_wait does not consult the stop flag.                     *)
WaitBlockIgnoresStop(w) ==
    /\ pc[w] = "wait"
    /\ ButexWait(w, Event, seen[w])
    /\ pc' = [pc EXCEPT ![w] = "blocked"]
    /\ IF Deadline(w) /\ Counter = seen[w]
         THEN FreeSlots /= {} /\ LET s == NextSlot IN
                 /\ Schedule(w, s)
                 /\ UNCHANGED <<fires, cancels>>
                 /\ wtok' = [wtok EXCEPT ![w] = TokenOf(s)]
         ELSE UNCHANGED <<timerVars, wtok>>
    /\ UNCHANGED <<stopPc, waitInvoked, added, seen, ret, spc, resets, userVars>>
    /\ UNCHANGED lifeVars

(* butex_wait(_butex, seen_counter, deadline): a stopped fiber returns    *)
(* EINTR at once; otherwise a waiter that is queued with a deadline also  *)
(* schedules its timer entry.                                              *)
WaitBlock(w) ==
    /\ pc[w] = "wait"
    /\ IF Stopped(w) THEN ButexWaitStopped(w) ELSE ButexWait(w, Event, seen[w])
    /\ pc' = [pc EXCEPT ![w] = "blocked"]
    /\ IF Deadline(w) /\ ~Stopped(w) /\ Counter = seen[w]
         THEN FreeSlots /= {} /\ LET s == NextSlot IN
                 /\ Schedule(w, s)
                 /\ UNCHANGED <<fires, cancels>>
                 /\ wtok' = [wtok EXCEPT ![w] = TokenOf(s)]
         ELSE UNCHANGED <<timerVars, wtok>>
    /\ UNCHANGED <<stopPc, waitInvoked, added, seen, ret, spc, resets, userVars>>
    /\ UNCHANGED lifeVars

(* Before butex_wait returns, the timer entry of a timed wait is          *)
(* unscheduled, whatever unschedule() answers.                            *)
CancelTimer(w) ==
    IF wtok[w] /= NoToken
      THEN /\ Unschedule(wtok[w])
           /\ wtok' = [wtok EXCEPT ![w] = NoToken]
           /\ UNCHANGED <<fires, cancels>>
      ELSE UNCHANGED <<timerVars, wtok>>

(* Mutant: EINTR is handed to the caller instead of looping.             *)
WaitResumeReturnsEintr(w) ==
    /\ pc[w] = "blocked"
    /\ wres[w] \notin {"none", "waiting"}
    /\ ButexReturn(w)
    /\ CancelTimer(w)
    /\ IF wres[w] \in {"woken", "EWOULDBLOCK"}
         THEN /\ pc' = [pc EXCEPT ![w] = "load"]
              /\ UNCHANGED ret
         ELSE /\ pc' = [pc EXCEPT ![w] = "done"]
              /\ ret' = [ret EXCEPT ![w] = wres[w]]
    /\ UNCHANGED <<stopPc, bval, waitq, waitInvoked, added, seen, spc, resets, userVars>>
    /\ UNCHANGED lifeVars

(* butex_wait returned: EWOULDBLOCK, EINTR and a wake-up loop again, any  *)
(* other error (ETIMEDOUT) is returned.                                    *)
WaitResume(w) ==
    /\ pc[w] = "blocked"
    /\ wres[w] \notin {"none", "waiting"}
    /\ ButexReturn(w)
    /\ CancelTimer(w)
    /\ IF wres[w] \in {"woken", "EWOULDBLOCK", "EINTR"}
         THEN /\ pc' = [pc EXCEPT ![w] = "load"]
              /\ UNCHANGED ret
         ELSE /\ pc' = [pc EXCEPT ![w] = "done"]
              /\ ret' = [ret EXCEPT ![w] = wres[w]]
    /\ UNCHANGED <<stopPc, bval, waitq, waitInvoked, added, seen, spc, resets, userVars>>
    /\ UNCHANGED lifeVars

(* Mutant: `prev >= sig' skips the wake when the count reaches exactly 0.*)
SignalSubNoWakeAtZero(s) ==
    /\ spc[s] = "idle"
    /\ bval' = [bval EXCEPT ![Event] = @ - Sig[s]]
    /\ spc' = [spc EXCEPT ![s] = IF Counter >= Sig[s] THEN "done" ELSE "wake"]
    /\ lateRead' = (lateRead \/ destroyed)
    /\ UNCHANGED <<stopPc, waitq, wres, waitInvoked, added, pc, seen, ret, resets,
                   timerVars, userVars, wtok, destroyed>>

(* signal(sig): save _butex and fetch_sub through it, both reads of      *)
(* *this; if the counter stays positive return, else go on to wake.       *)
SignalSub(s) ==
    /\ spc[s] = "idle"
    /\ bval' = [bval EXCEPT ![Event] = @ - Sig[s]]
    /\ spc' = [spc EXCEPT ![s] = IF Counter > Sig[s] THEN "done" ELSE "wake"]
    /\ lateRead' = (lateRead \/ destroyed)
    /\ UNCHANGED <<stopPc, waitq, wres, waitInvoked, added, pc, seen, ret, resets,
                   timerVars, userVars, wtok, destroyed>>

(* Mutant: the wake goes through this->_butex instead of saved_butex.    *)
SignalWakeRereadsThis(s) ==
    /\ spc[s] = "wake"
    /\ ButexWakeAll(Event)
    /\ spc' = [spc EXCEPT ![s] = "done"]
    /\ lateRead' = (lateRead \/ destroyed)
    /\ UNCHANGED <<stopPc, bval, waitInvoked, added, pc, seen, ret, resets,
                   timerVars, userVars, wtok, destroyed>>

(* butex_wake_all(saved_butex): *this is not touched after the fetch_sub. *)
(* After the destructor the butex has no waiters and the wake is a no-op. *)
SignalWake(s) ==
    /\ spc[s] = "wake"
    /\ ButexWakeAll(Event)
    /\ spc' = [spc EXCEPT ![s] = "done"]
    /\ UNCHANGED <<stopPc, bval, waitInvoked, added, pc, seen, ret, resets,
                   timerVars, userVars, wtok, lifeVars>>

(* add_count(1), called before any wait() as documented.                  *)
AddCount ==
    /\ ~destroyed
    /\ ~waitInvoked
    /\ added < MaxAdd
    /\ bval' = [bval EXCEPT ![Event] = @ + 1]
    /\ added' = added + 1
    /\ UNCHANGED <<stopPc, waitq, wres, waitInvoked, pc, seen, ret, spc, resets,
                   timerVars, userVars, wtok>>
    /\ UNCHANGED lifeVars

(* reset(v): exchange the count and clear _wait_was_invoked.              *)
Reset ==
    /\ ~destroyed
    /\ resets < MaxReset
    /\ \A w \in Waiters : pc[w] \in {"idle", "done"}
    /\ bval' = [bval EXCEPT ![Event] = ResetTo]
    /\ waitInvoked' = FALSE
    /\ resets' = resets + 1
    /\ UNCHANGED <<stopPc, waitq, wres, added, pc, seen, ret, spc,
                   timerVars, userVars, wtok>>
    /\ UNCHANGED lifeVars

(* Mutant: the callback takes every firing for a late one and leaves the *)
(* waiter on the list.                                                     *)
TimerCallbackAlwaysLate(s) ==
    /\ TimerFinish(s)
    /\ UNCHANGED <<butexVars, waitVars, userVars, wtok, lifeVars>>

(* The callback of slot s returns on the timer thread.  The callback of a *)
(* timed butex_wait unlinks its waiter with ETIMEDOUT if it is still on   *)
(* the list (else it is a no-op); a fiber_timer_add callback has no       *)
(* effect on this model.                                                   *)
TimerCallback(s) ==
    /\ TimerFinish(s)
    /\ IF towner[s] \in Timed /\ wres[towner[s]] = "waiting"
         THEN ButexUnlink(towner[s], "ETIMEDOUT")
         ELSE UNCHANGED butexVars
    /\ UNCHANGED <<waitVars, userVars, wtok, lifeVars>>

(* fiber_stop(w): TaskGroup::set_stopped(w), then fiber_interrupt(w).     *)
StopSet(w) ==
    /\ stopPc[w] = "idle"
    /\ stopPc' = [stopPc EXCEPT ![w] = "interrupt"]
    /\ UNCHANGED <<butexVars, waitInvoked, added, pc, seen, ret, spc, resets,
                   timerVars, userVars, wtok>>
    /\ UNCHANGED lifeVars

(* fiber_interrupt(w): a waiter suspended in butex_wait is unlinked with  *)
(* EINTR; a fiber that is not waiting is left alone.                       *)
Interrupt(w) ==
    /\ stopPc[w] = "interrupt"
    /\ IF wres[w] = "waiting" THEN ButexUnlink(w, "EINTR") ELSE UNCHANGED butexVars
    /\ stopPc' = [stopPc EXCEPT ![w] = "done"]
    /\ UNCHANGED <<waitInvoked, added, pc, seen, ret, spc, resets,
                   timerVars, userVars, wtok>>
    /\ UNCHANGED lifeVars

(* ~CountdownEvent: butex_destroy(_butex).  The owner destroys the event  *)
(* once every wait() has returned and the count has reached zero, and     *)
(* calls no add_count() or reset() after it; a signal() may still be on   *)
(* its way out.                                                            *)
Destroy ==
    /\ ~destroyed
    /\ \A w \in Waiters : pc[w] = "done"
    /\ Counter <= 0
    /\ destroyed' = TRUE
    /\ UNCHANGED <<butexVars, waitVars, timerVars, userVars, wtok, lateRead>>

TimerUserStep(u) ==
    /\ TimerAdd(u) \/ TimerDel(u)
    /\ UNCHANGED <<butexVars, waitVars, wtok, lifeVars>>

TimerThreadStep(s) ==
    \/ TimerDrop(s) /\ UNCHANGED <<butexVars, waitVars, userVars, wtok, lifeVars>>
    \/ TimerStart(s) /\ UNCHANGED <<butexVars, waitVars, userVars, wtok, lifeVars>>
    \/ TimerCallback(s)

-----------------------------------------------------------------------------
Next == \/ \E w \in Waiters : WaitLoad(w) \/ WaitBlock(w) \/ WaitResume(w)
        \/ \E w \in StopTargets : StopSet(w) \/ Interrupt(w)
        \/ \E s \in Signalers : SignalSub(s) \/ SignalWake(s)
        \/ AddCount \/ Reset \/ Destroy
        \/ \E s \in Slots : TimerThreadStep(s)
        \/ \E u \in TimerUsers : TimerUserStep(u)

(* The steps of waiter w inside wait(); their guards are disjoint values *)
(* of pc[w], which only w's own steps change.                             *)
WaiterStep(w) ==
    \/ pc[w] /= "idle" /\ WaitLoad(w)
    \/ WaitBlock(w)
    \/ WaitResume(w)

(* A fiber that has begun a call keeps running once runnable.  The timer  *)
(* thread keeps servicing its heap while an entry is in it: every         *)
(* deadline passes.  Its steps are disabled while the heap is empty, so   *)
(* the fairness is strong; with finitely many entries no slot starves.    *)
(* A fiber_stop() that has set the flag goes on to interrupt.  Starting a *)
(* call, stopping and the timer users' calls are up to the user: not fair.*)
Fairness ==
    /\ \A w \in Waiters : WF_vars(WaiterStep(w))
    /\ \A s \in Signalers : WF_vars(SignalWake(s))
    /\ \A w \in StopTargets : WF_vars(Interrupt(w))
    /\ SF_vars(\E s \in Slots : TimerThreadStep(s))

Spec == Init /\ [][Next]_vars /\ Fairness

-----------------------------------------------------------------------------
(* Type invariant.  wait() never hands EWOULDBLOCK or EINTR to its caller:*)
(* it returns 0 ("ok") or the error of a timed-out butex_wait.             *)
TypeOK ==
    /\ bval \in [Butexes -> Int]
    /\ wres \in [Fibers -> WaitResults]
    /\ waitInvoked \in BOOLEAN
    /\ added \in 0 .. MaxAdd
    /\ pc \in [Waiters -> {"idle", "load", "wait", "blocked", "done"}]
    /\ ret \in [Waiters -> {"none", "ok", "ETIMEDOUT"}]
    /\ spc \in [Signalers -> {"idle", "wake", "done"}]
    /\ resets \in 0 .. MaxReset
    /\ stopPc \in [StopTargets -> {"idle", "interrupt", "done"}]
    /\ tgen \in [Slots -> 0 .. MaxGen]
    /\ tstate \in [Slots -> {"free", "pending", "cancelled", "running"}]
    /\ wtok \in [Waiters -> Tokens \cup {NoToken}]
    /\ handles \in [TimerUsers -> SUBSET Tokens]
    /\ destroyed \in BOOLEAN
    /\ lateRead \in BOOLEAN

(* Spec 8: once the count has reached zero, every wait() in progress      *)
(* returns.  A waiter that loaded a positive count and is about to sleep  *)
(* when the last signal() lands must not miss its wake_all().  A timed    *)
(* waiter returns in any case (TimedWaitReturns), so this is stated for   *)
(* the untimed ones.                                                       *)
WaitersReturn ==
    \A w \in Waiters \ Timed :
        (Counter <= 0 /\ pc[w] \notin {"idle", "done"}) ~> pc[w] = "done"

(* Spec 4.3 and 8: timed_wait() returns even if the count never reaches   *)
(* zero: the timer entry its butex_wait scheduled fires, unlinks it with  *)
(* ETIMEDOUT, and wait()'s loop hands that error back instead of waiting  *)
(* again.                                                                  *)
TimedWaitReturns ==
    \A w \in Timed : pc[w] \notin {"idle", "done"} ~> pc[w] = "done"

(* Spec 8, timer cancel race: fiber_timer_del answers "found and          *)
(* cancelled" (0) for an id at most once, and never for a timer whose     *)
(* callback started: not while the callback runs on the timer thread, and *)
(* not after the slot was freed and reused, under a newer generation, by  *)
(* the timer of a timed butex_wait.                                        *)
CancelXorFire ==
    \A t \in Tokens : fires[t] + cancels[t] <= 1

(* Spec 4.6 and 7: once fiber_stop(w) has returned, w is not suspended in  *)
(* butex_wait: fiber_stop sets the stopped flag before it interrupts, so a *)
(* waiter the interrupt unlinks, or one that loops back into butex_wait    *)
(* after it, meets the flag and returns EINTR instead of sleeping again.   *)
StopCutsWait ==
    \A w \in StopTargets : stopPc[w] = "done" => wres[w] /= "waiting"

(* countdown_event.cc:37-42 ("DON'T touch *this ever after"): a waiter    *)
(* that sees the count reach zero may destroy the event while the last    *)
(* signal() is still between its fetch_sub and its wake.  A signal()      *)
(* reads the destroyed *this only if it starts after the count was        *)
(* already spent, i.e. it over-decreases the counter; a signal() that     *)
(* brought the count to zero never does.                                   *)
NoReadAfterDestroy ==
    lateRead => Counter < 0

=============================================================================
