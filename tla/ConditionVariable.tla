-------------------------- MODULE ConditionVariable --------------------------
(***************************************************************************)
(* fiber_cond_t of src/eabase/fiber/condition_variable.cc with the mutex  *)
(* it is bound to.  The seq butex holds the sequence counter; bound is    *)
(* the pointer m (NULL until the first wait binds it; the model has one   *)
(* mutex, so the EINVAL branch of a mismatched mutex is unreachable).     *)
(*                                                                         *)
(* Each waiter runs the documented usage through the std::unique_lock    *)
(* specialisation of mutex.h:                                              *)
(*     unique_lock lk(M); while (!flag && rc != ETIMEDOUT)                 *)
(*         rc = cond_[timed]wait(C, lk.mutex());   } // ~unique_lock       *)
(* the notifier runs  lock_guard g(M); flag = true; broadcast(C); }        *)
(* or  unique_lock lk(M); flag = true; lk.unlock(); broadcast(C); }        *)
(* or  unique_lock lk(M, defer_lock);                                  *)
(*     if (!lk.try_lock()) {                                               *)
(*         while (fiber_mutex_timedlock(&M, &abstime) != 0) {}             *)
(*         unique_lock tmp(M, adopt_lock); lk.swap(tmp);                   *)
(*     }   flag = true; lk.unlock(); broadcast(C); }                       *)
(* and pingers call signal(C) once, without the mutex, which for the      *)
(* waiters is a spurious wake-up.                                          *)
(***************************************************************************)
EXTENDS Mutex

CONSTANTS CondSeq,    \* the seq butex of the condition
          Waiters,    \* fibers waiting for flag
          Timed,      \* those of them using cond_timedwait
          Notifier,   \* the fiber setting flag and broadcasting
          Pingers,    \* fibers calling cond_signal
          MaxInterrupts  \* bound on the fiber_interrupt calls of a behaviour

ASSUME /\ Butexes = {CondSeq, Mtx}
       /\ Fibers = Waiters \cup {Notifier} \cup Pingers
       /\ Timed \subseteq Waiters
       /\ NoFiber \notin Fibers

VARIABLES bound,     \* ic->m /= NULL
          flag,      \* the waiters' predicate, written under the mutex
          expected,  \* expected[w]: expected_seq of w's cond_wait
          rc,        \* rc[w]: what w's last cond_wait returned
          owns,      \* owns[f]: _owns_lock of f's unique_lock<fiber_mutex_t>
          interrupts \* the fiber_interrupt calls made so far

Lockers == Waiters \cup {Notifier}

vars == <<bval, waitq, wres, pc, after, holder, lockVars, bound, flag, expected, rc, owns, interrupts>>

Init == /\ ButexInit([b \in Butexes |-> 0])
        /\ pc = [f \in Fibers |-> "idle"]
        /\ after = [f \in Fibers |-> "done"]
        /\ holder = NoFiber
        /\ timed = [f \in Fibers |-> FALSE]
        /\ lockRet = [f \in Fibers |-> "ok"]
        /\ bound = FALSE
        /\ flag = FALSE
        /\ expected = [w \in Waiters |-> 0]
        /\ rc = [w \in Waiters |-> "ok"]
        /\ owns = [f \in Lockers |-> FALSE]
        /\ interrupts = 0

Call(f, entry, ret) == /\ pc' = [pc EXCEPT ![f] = entry]
                       /\ after' = [after EXCEPT ![f] = ret]

cvVars == <<bound, flag, expected, rc, owns>>

-----------------------------------------------------------------------------
(* unique_lock<fiber_mutex_t>::lock() (lines 166-177): a second lock is  *)
(* a CHECK failure; fiber_mutex_lock, then _owns_lock = true (ul_own).    *)
UniqueLockLock(f) ==
    /\ ~owns[f]
    /\ Call(f, "lock", "ul_own")
    /\ UNCHANGED <<butexVars, holder, cvVars>>

(* The third notifier: unique_lock lk(M, defer_lock) (lines 151-152)    *)
(* owns nothing yet; lk.try_lock() (lines 179-190): a CHECK failure      *)
(* without a mutex or with the lock owned, else                           *)
(* _owns_lock = !fiber_mutex_trylock(_mutex).                             *)
UniqueLockTryLock(f) ==
    /\ ~owns[f]
    /\ Call(f, "trylock", "try_own")
    /\ UNCHANGED <<butexVars, holder, cvVars>>

UniqueLockOwn(f) ==
    /\ pc[f] = "ul_own"
    /\ owns' = [owns EXCEPT ![f] = TRUE]
    /\ pc' = [pc EXCEPT ![f] = IF f = Notifier THEN "cs_unique" ELSE "check"]
    /\ UNCHANGED <<butexVars, after, holder, bound, flag, expected, rc>>

(* Mutant: unlock() leaves _owns_lock set.                               *)
UniqueLockUnlockKeepsOwns(f, ret) ==
    /\ owns[f]
    /\ Call(f, "unlock", ret)
    /\ UNCHANGED owns

(* unlock() (lines 192-201): without the lock a CHECK failure; else      *)
(* fiber_mutex_unlock and _owns_lock = false, which only f reads.         *)
UniqueLockUnlock(f, ret) ==
    /\ owns[f]
    /\ Call(f, "unlock", ret)
    /\ owns' = [owns EXCEPT ![f] = FALSE]

(* ~unique_lock (lines 160-164): unlock only if the lock is owned.        *)
UniqueLockDtor(f) ==
    /\ pc[f] = "ul_dtor"
    /\ IF owns[f]
         THEN UniqueLockUnlock(f, "done")
         ELSE /\ pc' = [pc EXCEPT ![f] = "done"]
              /\ UNCHANGED <<after, owns>>
    /\ UNCHANGED <<butexVars, holder, bound, flag, expected, rc>>

-----------------------------------------------------------------------------
(* The waiters' loop around cond_wait.                                     *)
(* unique_lock lk(M): _mutex = &M, then lock() (lines 146-149).          *)
WaiterStart(w) ==
    /\ pc[w] = "idle"
    /\ UniqueLockLock(w)

(* Leaving the loop runs ~unique_lock.                                     *)
WaiterCheck(w) ==
    /\ pc[w] = "check"
    /\ pc' = [pc EXCEPT ![w] = IF flag \/ rc[w] = "ETIMEDOUT" THEN "ul_dtor" ELSE "cw_snap"]
    /\ UNCHANGED <<butexVars, after, holder, cvVars>>

(* cond_wait: snapshot seq (line 84).                                      *)
CondWaitSnapshot(w) ==
    /\ pc[w] = "cw_snap"
    /\ expected' = [expected EXCEPT ![w] = bval[CondSeq]]
    /\ pc' = [pc EXCEPT ![w] = "cw_bind"]
    /\ UNCHANGED <<butexVars, after, holder, bound, flag, rc, owns>>

(* Bind the mutex by compare-exchange NULL -> m, then unlock it.           *)
CondWaitBind(w) ==
    /\ pc[w] = "cw_bind"
    /\ bound' = TRUE
    /\ Call(w, "unlock", "cw_wait")
    /\ UNCHANGED <<butexVars, holder, flag, expected, rc, owns>>

CondWaitSleep(w) ==
    /\ pc[w] = "cw_wait"
    /\ ButexWait(w, CondSeq, expected[w])
    /\ pc' = [pc EXCEPT ![w] = "cw_resume"]
    /\ UNCHANGED <<after, holder, cvVars>>

(* Mutant: EINTR from butex_wait is returned (the filter of line 96 lost). *)
CondWaitResumeKeepsEintr(w) ==
    /\ pc[w] = "cw_resume"
    /\ wres[w] \notin {"none", "waiting"}
    /\ ButexReturn(w)
    /\ rc' = [rc EXCEPT ![w] = IF wres[w] \in {"woken", "EWOULDBLOCK"} THEN "ok" ELSE wres[w]]
    /\ Call(w, "lc", "check")
    /\ UNCHANGED <<bval, waitq, holder, bound, flag, expected, owns>>

(* Mutant: the waiter re-acquires with the fast-path lock().              *)
CondWaitResumeFastLock(w) ==
    /\ pc[w] = "cw_resume"
    /\ wres[w] \notin {"none", "waiting"}
    /\ ButexReturn(w)
    /\ rc' = [rc EXCEPT ![w] = IF wres[w] = "ETIMEDOUT" THEN "ETIMEDOUT" ELSE "ok"]
    /\ Call(w, "lock", "check")
    /\ UNCHANGED <<bval, waitq, holder, bound, flag, expected, owns>>

(* butex_wait returned: EWOULDBLOCK and EINTR count as success; then     *)
(* fiber_mutex_lock_contended(m) (line 110).                               *)
CondWaitResume(w) ==
    /\ pc[w] = "cw_resume"
    /\ wres[w] \notin {"none", "waiting"}
    /\ ButexReturn(w)
    /\ rc' = [rc EXCEPT ![w] = IF wres[w] = "ETIMEDOUT" THEN "ETIMEDOUT" ELSE "ok"]
    /\ Call(w, "lc", "check")
    /\ UNCHANGED <<bval, waitq, holder, bound, flag, expected, owns>>

-----------------------------------------------------------------------------
(* lock_guard<fiber_mutex_t> g(M) locks in its constructor (lines        *)
(* 109-119; fiber_mutex_lock does not fail, so _pmutex stays set), or a *)
(* unique_lock lk(M) is constructed.                                       *)
NotifierStart ==
    /\ pc[Notifier] = "idle"
    /\ \/ /\ Call(Notifier, "lock", "cs_guard")
          /\ UNCHANGED <<butexVars, holder, cvVars>>
       \/ UniqueLockLock(Notifier)
       \/ UniqueLockTryLock(Notifier)

(* flag = true, then broadcast and ~lock_guard unlocks (lines 121-129).  *)
NotifierSetFlagGuard ==
    /\ pc[Notifier] = "cs_guard"
    /\ flag' = TRUE
    /\ Call(Notifier, "bc_load", "unlock")
    /\ UNCHANGED <<butexVars, holder, bound, expected, rc, owns>>

(* flag = true, lk.unlock(), broadcast, then ~unique_lock.               *)
NotifierSetFlagUnique ==
    /\ pc[Notifier] = "cs_unique"
    /\ flag' = TRUE
    /\ UniqueLockUnlock(Notifier, "bc_call")
    /\ UNCHANGED <<butexVars, holder, bound, expected, rc>>

NotifierBroadcast ==
    /\ pc[Notifier] = "bc_call"
    /\ Call(Notifier, "bc_load", "ul_dtor")
    /\ UNCHANGED <<butexVars, holder, cvVars>>

(* broadcast: load m; without a bound mutex return at once (line 71).     *)
BroadcastLoad ==
    /\ pc[Notifier] = "bc_load"
    /\ IF bound
         THEN /\ pc' = [pc EXCEPT ![Notifier] = "bc_inc"]
              /\ UNCHANGED after
         ELSE Finish(Notifier)
    /\ UNCHANGED <<butexVars, holder, cvVars>>

BroadcastInc ==
    /\ pc[Notifier] = "bc_inc"
    /\ bval' = [bval EXCEPT ![CondSeq] = @ + 1]
    /\ pc' = [pc EXCEPT ![Notifier] = "bc_requeue"]
    /\ UNCHANGED <<waitq, wres, after, holder, cvVars>>

(* butex_requeue(seq, m->butex): wake one, move the rest to the mutex.   *)
BroadcastRequeue ==
    /\ pc[Notifier] = "bc_requeue"
    /\ ButexRequeue(CondSeq, Mtx)
    /\ Finish(Notifier)
    /\ UNCHANGED <<bval, holder, cvVars>>

(* signal: fetch_add on seq, then butex_wake(seq).                         *)
SignalInc(p) ==
    /\ pc[p] = "idle"
    /\ bval' = [bval EXCEPT ![CondSeq] = @ + 1]
    /\ pc' = [pc EXCEPT ![p] = "sig_wake"]
    /\ UNCHANGED <<waitq, wres, after, holder, cvVars>>

SignalWake(p) ==
    /\ pc[p] = "sig_wake"
    /\ ButexWake(CondSeq)
    /\ pc' = [pc EXCEPT ![p] = "done"]
    /\ UNCHANGED <<bval, after, holder, cvVars>>

-----------------------------------------------------------------------------
NotifierTryOwn ==
    /\ pc[Notifier] = "try_own"
    /\ owns' = [owns EXCEPT ![Notifier] = (lockRet[Notifier] = "ok")]
    /\ pc' = [pc EXCEPT ![Notifier] = IF lockRet[Notifier] = "ok" THEN "cs_unique"
                                                                  ELSE "tl_call"]
    /\ UNCHANGED <<butexVars, after, holder, bound, flag, expected, rc>>

(* try_lock failed: fiber_mutex_timedlock(&M, &abstime), retried until   *)
(* it returns 0.                                                          *)
NotifierTimedLock ==
    /\ pc[Notifier] = "tl_call"
    /\ Call(Notifier, "timedlock", "tl_ret")
    /\ UNCHANGED <<butexVars, holder, cvVars>>

(* On 0, unique_lock tmp(M, adopt_lock) owns the mutex and lk.swap(tmp)  *)
(* (lines 157-158, 203-206) hands it to lk; tmp, owning nothing, is then *)
(* destroyed.  On ETIMEDOUT the loop calls timedlock again.               *)
NotifierAdopt ==
    /\ pc[Notifier] = "tl_ret"
    /\ IF lockRet[Notifier] = "ok"
         THEN /\ owns' = [owns EXCEPT ![Notifier] = TRUE]
              /\ pc' = [pc EXCEPT ![Notifier] = "cs_unique"]
         ELSE /\ pc' = [pc EXCEPT ![Notifier] = "tl_call"]
              /\ UNCHANGED owns
    /\ UNCHANGED <<butexVars, after, holder, bound, flag, expected, rc>>

-----------------------------------------------------------------------------
(* The deadline of a cond_timedwait passes, or a fiber is interrupted     *)
(* (at most MaxInterrupts times in a behaviour).                          *)
Timeout(w) ==
    /\ w \in Timed
    /\ pc[w] = "cw_resume"
    /\ ButexUnlink(w, "ETIMEDOUT")
    /\ UNCHANGED <<pc, after, holder, cvVars>>

Interrupt(f) ==
    /\ interrupts < MaxInterrupts
    /\ ButexUnlink(f, "EINTR")
    /\ interrupts' = interrupts + 1
    /\ UNCHANGED <<pc, after, holder, cvVars>>

WaiterStep(w) == \/ UniqueLockOwn(w) \/ WaiterCheck(w) \/ CondWaitSnapshot(w)
                 \/ CondWaitBind(w) \/ CondWaitSleep(w) \/ CondWaitResume(w)
                 \/ UniqueLockDtor(w)

NotifierStep == \/ UniqueLockOwn(Notifier) \/ NotifierSetFlagGuard
                \/ NotifierSetFlagUnique \/ NotifierBroadcast \/ BroadcastLoad
                \/ BroadcastInc \/ BroadcastRequeue \/ UniqueLockDtor(Notifier)
                \/ NotifierTryOwn \/ NotifierTimedLock \/ NotifierAdopt

(* The steps of the callers; only the mutex calls change lockVars.       *)
CallerStep ==
    \/ \E w \in Waiters : WaiterStart(w) \/ WaiterStep(w) \/ Timeout(w)
    \/ NotifierStart \/ NotifierStep
    \/ \E p \in Pingers : SignalInc(p) \/ SignalWake(p)

(* What a step of a caller or of the mutex leaves alone.                 *)
NotMutex == <<lockVars, interrupts>>
NotCaller == <<cvVars, interrupts>>

Next == \/ CallerStep /\ UNCHANGED NotMutex
        \/ \E f \in Fibers : Interrupt(f) /\ UNCHANGED lockVars
        \/ \E f \in Fibers : (MutexStep(f) \/ LockTimeout(f)) /\ UNCHANGED NotCaller

(* A fiber inside a call keeps running once runnable; deadlines fire.     *)
(* Starting a call and interrupting are the user's choice, so not fair.  *)
Fairness ==
    /\ \A w \in Waiters : /\ WF_vars(WaiterStep(w) /\ UNCHANGED NotMutex)
                         /\ WF_vars(Timeout(w) /\ UNCHANGED NotMutex)
    /\ WF_vars(NotifierStep /\ UNCHANGED NotMutex)
    /\ \A p \in Pingers : WF_vars(SignalWake(p) /\ UNCHANGED NotMutex)
    /\ \A f \in Fibers : /\ WF_vars(MutexStep(f) /\ UNCHANGED NotCaller)
                         /\ WF_vars(LockTimeout(f) /\ UNCHANGED NotCaller)

Spec == Init /\ [][Next]_vars /\ Fairness

-----------------------------------------------------------------------------
Holding == {f \in Fibers : pc[f] \in {"check", "cs_guard", "cs_unique", "cw_snap",
                                      "cw_bind", "ul_own"}
                           \/ (pc[f] \in {"try_own", "tl_ret"} /\ lockRet[f] = "ok")
                           \/ (pc[f] = "ul_dtor" /\ owns[f])
                           \/ (pc[f] = "unlock" /\ holder = f)
                           \/ (f = Notifier /\ after[f] = "unlock")}

TypeOK ==
    /\ bval \in [Butexes -> Nat]
    /\ wres \in [Fibers -> WaitResults]
    /\ holder \in Fibers \cup {NoFiber}
    /\ bound \in BOOLEAN /\ flag \in BOOLEAN
    /\ rc \in [Waiters -> {"ok", "ETIMEDOUT"}]
    /\ owns \in [Lockers -> BOOLEAN]
    /\ interrupts \in 0..MaxInterrupts
    /\ timed \in [Fibers -> BOOLEAN]
    /\ lockRet \in [Fibers -> LockRets]

(* Spec 8: the mutex is exclusive.  A fiber runs its critical section     *)
(* only while it is the one holder, and the mutex word is UNLOCKED        *)
(* exactly when nobody holds it.                                           *)
MutualExclusion ==
    /\ \A f \in Holding : holder = f
    /\ (bval[Mtx] = UNLOCKED) = (holder = NoFiber)

(* Spec 8, scenario 2: once flag is set every waiter leaves its loop.     *)
(* Waiters requeued by broadcast onto the mutex's butex are woken one by *)
(* one only as the mutex is released, which relies on every relock       *)
(* after cond_wait marking the mutex CONTENDED.                            *)
WaitersReturn ==
    \A w \in Waiters : (flag /\ pc[w] /= "idle") ~> pc[w] = "done"

(* Spec 4.7: no fiber stays inside a mutex lock call for ever.  Every     *)
(* lock, trylock, timedlock and relock after cond_wait returns, even when *)
(* a timedlock gave up after it had marked the word CONTENDED and the     *)
(* other sleepers on the mutex depend on that mark for their wake-up.     *)
LockPcs == {"lock", "lc", "lc_wait", "lc_resume", "trylock", "timedlock"}

LockCallsReturn ==
    \A f \in Fibers : pc[f] \in LockPcs ~> pc[f] \notin LockPcs

=============================================================================
