-------------------------------- MODULE Mutex --------------------------------
(***************************************************************************)
(* fiber_mutex_t (spec section 4.7; mutex.cc is not among the sources):   *)
(* a three-state word kept in a butex.  lock() tries one compare-exchange *)
(* UNLOCKED -> LOCKED; on failure it enters fiber_mutex_lock_contended(), *)
(* which swaps in CONTENDED and sleeps on the butex until the swap returns *)
(* UNLOCKED.  unlock() swaps in UNLOCKED and wakes one waiter if the word *)
(* was CONTENDED.  condition_variable.cc calls unlock() and                *)
(* fiber_mutex_lock_contended() directly.                                  *)
(*                                                                         *)
(* The mutex steps move a fiber through pc; when a call completes the      *)
(* fiber continues at after[f] (its return address).  holder is a ghost:  *)
(* the fiber that acquired the mutex and has not yet released it.         *)
(*                                                                         *)
(* trylock() is the fast-path exchange alone and answers EBUSY when it    *)
(* fails.  timedlock() is lock() whose contended loop passes the deadline *)
(* to butex_wait and returns ETIMEDOUT when that wait times out; the word *)
(* it left CONTENDED stays so.                                             *)
(***************************************************************************)
EXTENDS Butex

CONSTANTS Mtx,      \* the butex of the mutex
          NoFiber   \* holder when nobody holds the mutex

UNLOCKED  == 0
LOCKED    == 1
CONTENDED == 2

VARIABLES pc,       \* pc[f]: the step f executes next
          after,    \* after[f]: where f resumes when its current call ends
          holder,   \* ghost: the fiber holding the mutex, or NoFiber
          timed,    \* timed[f]: f's lock call carries a deadline (timedlock)
          lockRet   \* lockRet[f]: what f's last lock call returned

lockVars == <<timed, lockRet>>

LockRets == {"ok", "EBUSY", "ETIMEDOUT"}

(* The call in progress returns to its caller.                            *)
Finish(f) == /\ pc' = [pc EXCEPT ![f] = after[f]]
             /\ after' = [after EXCEPT ![f] = "done"]

(* A lock call returns r; the deadline goes with it.                      *)
LockReturn(f, r) == /\ Finish(f)
                    /\ timed' = [timed EXCEPT ![f] = FALSE]
                    /\ lockRet' = [lockRet EXCEPT ![f] = r]

(* lock(): the fast-path compare-exchange.                                 *)
MutexLock(f) ==
    /\ pc[f] = "lock"
    /\ IF bval[Mtx] = UNLOCKED
         THEN /\ bval' = [bval EXCEPT ![Mtx] = LOCKED]
              /\ holder' = f
              /\ LockReturn(f, "ok")
         ELSE /\ pc' = [pc EXCEPT ![f] = "lc"]
              /\ UNCHANGED <<bval, after, holder, lockVars>>
    /\ UNCHANGED <<waitq, wres>>

(* timedlock(abstime): the same fast path; the contended loop that        *)
(* follows carries the deadline.                                           *)
MutexTimedLock(f) ==
    /\ pc[f] = "timedlock"
    /\ IF bval[Mtx] = UNLOCKED
         THEN /\ bval' = [bval EXCEPT ![Mtx] = LOCKED]
              /\ holder' = f
              /\ LockReturn(f, "ok")
         ELSE /\ pc' = [pc EXCEPT ![f] = "lc"]
              /\ timed' = [timed EXCEPT ![f] = TRUE]
              /\ UNCHANGED <<bval, after, holder, lockRet>>
    /\ UNCHANGED <<waitq, wres>>

(* trylock(): one attempt; EBUSY if the mutex is held.                     *)
MutexTrylock(f) ==
    /\ pc[f] = "trylock"
    /\ IF bval[Mtx] = UNLOCKED
         THEN /\ bval' = [bval EXCEPT ![Mtx] = LOCKED]
              /\ holder' = f
              /\ LockReturn(f, "ok")
         ELSE /\ LockReturn(f, "EBUSY")
              /\ UNCHANGED <<bval, holder>>
    /\ UNCHANGED <<waitq, wres>>

(* Mutant: the swap counts LOCKED (not only UNLOCKED) as acquired.       *)
LockContendedAcceptsLocked(f) ==
    /\ pc[f] = "lc"
    /\ bval' = [bval EXCEPT ![Mtx] = CONTENDED]
    /\ IF bval[Mtx] /= CONTENDED
         THEN /\ holder' = f
              /\ LockReturn(f, "ok")
         ELSE /\ pc' = [pc EXCEPT ![f] = "lc_wait"]
              /\ UNCHANGED <<after, holder, lockVars>>
    /\ UNCHANGED <<waitq, wres>>

(* fiber_mutex_lock_contended(): exchange(CONTENDED); the mutex is ours   *)
(* if it was UNLOCKED, else sleep while the word stays CONTENDED.          *)
LockContended(f) ==
    /\ pc[f] = "lc"
    /\ bval' = [bval EXCEPT ![Mtx] = CONTENDED]
    /\ IF bval[Mtx] = UNLOCKED
         THEN /\ holder' = f
              /\ LockReturn(f, "ok")
         ELSE /\ pc' = [pc EXCEPT ![f] = "lc_wait"]
              /\ UNCHANGED <<after, holder, lockVars>>
    /\ UNCHANGED <<waitq, wres>>

LockContendedWait(f) ==
    /\ pc[f] = "lc_wait"
    /\ ButexWait(f, Mtx, CONTENDED)
    /\ pc' = [pc EXCEPT ![f] = "lc_resume"]
    /\ UNCHANGED <<after, holder, lockVars>>

(* Mutant: giving up, the timed locker takes back its CONTENDED mark.    *)
LockContendedResumeRestoresLocked(f) ==
    /\ pc[f] = "lc_resume"
    /\ wres[f] \notin {"none", "waiting"}
    /\ ButexReturn(f)
    /\ IF timed[f] /\ wres[f] = "ETIMEDOUT"
         THEN /\ LockReturn(f, "ETIMEDOUT")
              /\ bval' = [bval EXCEPT ![Mtx] = IF @ = CONTENDED THEN LOCKED ELSE @]
         ELSE /\ pc' = [pc EXCEPT ![f] = "lc"]
              /\ UNCHANGED <<bval, after, lockVars>>
    /\ UNCHANGED <<waitq, holder>>

(* Woken, EWOULDBLOCK or EINTR: try the exchange again.  A timed-out wait *)
(* of timedlock returns ETIMEDOUT, leaving the word as it is.             *)
LockContendedResume(f) ==
    /\ pc[f] = "lc_resume"
    /\ wres[f] \notin {"none", "waiting"}
    /\ ButexReturn(f)
    /\ IF timed[f] /\ wres[f] = "ETIMEDOUT"
         THEN LockReturn(f, "ETIMEDOUT")
         ELSE /\ pc' = [pc EXCEPT ![f] = "lc"]
              /\ UNCHANGED <<after, lockVars>>
    /\ UNCHANGED <<bval, waitq, holder>>

(* The deadline of a timedlock passes while it sleeps on the mutex.       *)
LockTimeout(f) ==
    /\ timed[f]
    /\ pc[f] = "lc_resume"
    /\ ButexUnlink(f, "ETIMEDOUT")
    /\ UNCHANGED <<pc, after, holder, lockVars>>

(* unlock(): exchange(UNLOCKED), then wake one if it was CONTENDED.       *)
MutexUnlock(f) ==
    /\ pc[f] = "unlock"
    /\ bval' = [bval EXCEPT ![Mtx] = UNLOCKED]
    /\ holder' = NoFiber
    /\ IF bval[Mtx] = CONTENDED
         THEN /\ pc' = [pc EXCEPT ![f] = "unlock_wake"]
              /\ UNCHANGED after
         ELSE Finish(f)
    /\ UNCHANGED <<waitq, wres, lockVars>>

MutexUnlockWake(f) ==
    /\ pc[f] = "unlock_wake"
    /\ ButexWake(Mtx)
    /\ Finish(f)
    /\ UNCHANGED <<bval, holder, lockVars>>

MutexStep(f) == \/ MutexLock(f) \/ MutexTimedLock(f) \/ MutexTrylock(f) \/ LockContended(f) \/ LockContendedWait(f)
                \/ LockContendedResume(f) \/ MutexUnlock(f) \/ MutexUnlockWake(f)

=============================================================================
