------------------------------ MODULE RemoteStart ------------------------------
(***************************************************************************)
(* Fibers started by pthreads that are not workers (fiber.cc:             *)
(* start_from_non_worker, fiber_flush) travel through the remote task     *)
(* queue of a TaskGroup (remote_task_queue.h) to the worker that runs     *)
(* them.  TaskGroup's ready_to_run_remote, flush_nosignal_tasks_remote,   *)
(* its main loop and TaskControl's parking lot are not among the sources: *)
(* they follow the spec (sections 3 and 4.4):                              *)
(*   - a non-worker start pushes to the chosen group's remote queue and   *)
(*     wakes a parked worker; with NOSIGNAL it only counts the task among *)
(*     the group's nosignal tasks, which fiber_flush later signals;       *)
(*   - a worker pops its own remote queue, then steals partners' local    *)
(*     deques, then parks: futex-wait on the parking-lot counter it read  *)
(*     before looking for work; signalers bump the counter and wake.      *)
(* Fibers started here never block and run to completion, so local deques *)
(* stay empty and a worker's steal finds nothing.  Every fiber is started *)
(* in the one default tag.                                                 *)
(***************************************************************************)
EXTENDS Integers, Sequences, FiniteSets

CONSTANTS Producers,  \* non-worker pthreads calling fiber_start / fiber_flush
          Groups,     \* TaskGroups of the tag, one worker each
          Programs,   \* possible programs: [Producers -> Seq of calls]
          MaxCalls,   \* bound on the length of a program
          Cap,        \* capacity of each remote queue
          NoGroup

ASSUME \A P \in Programs : \A p \in Producers : Len(P[p]) <= MaxCalls

Fiber(p, i) == <<p, i>>

VARIABLES prog,     \* prog[p]: the calls p makes
          ppc,      \* ppc[p]: step of p's current call
          done,     \* done[p]: number of p's calls that returned
          tlsNs,    \* tls_task_group_nosignal of p
          target,   \* target[p]: the group p is pushing to
          rq,       \* rq[g]: g's RemoteTaskQueue, oldest first
          nosig,    \* nosig[g]: fibers counted as g's unsignalled tasks
          toSignal, \* toSignal[p]: tasks p signals after unlocking
          covered,  \* fibers some signal was sent for
          plState,  \* the parking lot's counter
          wpc,      \* wpc[g]: where g's worker is in its main loop
          seen,     \* seen[g]: counter value g's worker read
          ran       \* fibers a worker has run

prodVars   == <<prog, ppc, done, tlsNs, target, toSignal>>
workerVars == <<wpc, seen, ran>>
vars == <<prog, ppc, done, tlsNs, target, rq, nosig, toSignal, covered, plState,
          wpc, seen, ran>>

Cur(p) == prog[p][done[p] + 1]
CurFiber(p) == Fiber(p, done[p] + 1)

Init ==
    /\ prog \in Programs
    /\ ppc = [p \in Producers |-> "idle"]
    /\ done = [p \in Producers |-> 0]
    /\ tlsNs = [p \in Producers |-> NoGroup]
    /\ target = [p \in Producers |-> NoGroup]
    /\ rq = [g \in Groups |-> << >>]
    /\ nosig = [g \in Groups |-> {}]
    /\ toSignal = [p \in Producers |-> {}]
    /\ covered = {}
    /\ plState = 0
    /\ wpc = [g \in Groups |-> "get"]
    /\ seen = [g \in Groups |-> 0]
    /\ ran = {}

Finish(p) == /\ ppc' = [ppc EXCEPT ![p] = "idle"]
             /\ done' = [done EXCEPT ![p] = @ + 1]

-----------------------------------------------------------------------------
(* The producers: fiber.cc                                                 *)

\* start_from_non_worker picks the group.  With NOSIGNAL it sticks to
\* tls_task_group_nosignal, choosing and remembering one when there is none.
StartChoose(p) ==
    /\ \E g \in Groups :
         IF Cur(p) = "startns"
           THEN LET h == IF tlsNs[p] = NoGroup THEN g ELSE tlsNs[p] IN
                /\ tlsNs' = [tlsNs EXCEPT ![p] = h]
                /\ target' = [target EXCEPT ![p] = h]
           ELSE /\ target' = [target EXCEPT ![p] = g]
                /\ UNCHANGED tlsNs
    /\ ppc' = [ppc EXCEPT ![p] = "push"]
    /\ UNCHANGED <<prog, done, rq, nosig, toSignal, covered, plState>>
    /\ UNCHANGED workerVars

\* fiber_start and fiber_start_lazy: tls_task_group is NULL on a pthread
\* that is not a worker, so both go to start_from_non_worker.
FiberStart(p) ==
    /\ ppc[p] = "idle"
    /\ done[p] < Len(prog[p])
    /\ Cur(p) \in {"start", "startns"}
    /\ StartChoose(p)

\* Mutant: push_locked does not check the queue's capacity.
PushLockedNoCap(p) ==
    LET g == target[p]
        f == CurFiber(p)
    IN
    /\ ppc[p] = "push"
    /\ rq' = [rq EXCEPT ![g] = Append(@, f)]
    /\ IF Cur(p) = "startns"
         THEN /\ nosig' = [nosig EXCEPT ![g] = @ \cup {f}]
              /\ Finish(p)
              /\ UNCHANGED toSignal
         ELSE /\ nosig' = [nosig EXCEPT ![g] = {}]
              /\ toSignal' = [toSignal EXCEPT ![p] = nosig[g] \cup {f}]
              /\ ppc' = [ppc EXCEPT ![p] = "signal"]
              /\ UNCHANGED done
    /\ UNCHANGED <<prog, tlsNs, target, covered, plState>>
    /\ UNCHANGED workerVars

\* ready_to_run_remote: under the queue's mutex, RemoteTaskQueue::
\* push_locked.  A NOSIGNAL task is only counted; any other takes the
\* group's counted tasks along into the signal sent after unlocking.
PushLocked(p) ==
    LET g == target[p]
        f == CurFiber(p)
    IN
    /\ ppc[p] = "push"
    /\ Len(rq[g]) < Cap
    /\ rq' = [rq EXCEPT ![g] = Append(@, f)]
    /\ IF Cur(p) = "startns"
         THEN /\ nosig' = [nosig EXCEPT ![g] = @ \cup {f}]
              /\ Finish(p)
              /\ UNCHANGED toSignal
         ELSE /\ nosig' = [nosig EXCEPT ![g] = {}]
              /\ toSignal' = [toSignal EXCEPT ![p] = nosig[g] \cup {f}]
              /\ ppc' = [ppc EXCEPT ![p] = "signal"]
              /\ UNCHANGED done
    /\ UNCHANGED <<prog, tlsNs, target, covered, plState>>
    /\ UNCHANGED workerVars

\* The queue is full: push_locked fails; the group's counted tasks are
\* signalled, and the producer sleeps and tries again.
PushFull(p) ==
    LET g == target[p] IN
    /\ ppc[p] = "push"
    /\ Len(rq[g]) >= Cap
    /\ nosig' = [nosig EXCEPT ![g] = {}]
    /\ toSignal' = [toSignal EXCEPT ![p] = nosig[g]]
    /\ ppc' = [ppc EXCEPT ![p] = "retry"]
    /\ UNCHANGED <<prog, done, tlsNs, target, rq, covered, plState>>
    /\ UNCHANGED workerVars

\* fiber_flush on a non-worker: forget tls_task_group_nosignal and
\* signal that group's counted tasks (flush_nosignal_tasks_remote).
Flush(p) ==
    /\ ppc[p] = "idle"
    /\ done[p] < Len(prog[p])
    /\ Cur(p) = "flush"
    /\ IF tlsNs[p] = NoGroup
         THEN /\ Finish(p)
              /\ UNCHANGED <<nosig, toSignal>>
         ELSE /\ nosig' = [nosig EXCEPT ![tlsNs[p]] = {}]
              /\ toSignal' = [toSignal EXCEPT ![p] = nosig[tlsNs[p]]]
              /\ ppc' = [ppc EXCEPT ![p] = "signal"]
              /\ UNCHANGED done
    /\ tlsNs' = [tlsNs EXCEPT ![p] = NoGroup]
    /\ UNCHANGED <<prog, target, rq, covered, plState>>
    /\ UNCHANGED workerVars

\* signal_task(n), after the queue's mutex is released: bump the parking
\* lot's counter and wake up to n parked workers.  Nothing is sent for
\* n = 0.  A producer coming from PushFull then retries the push.
Signal(p) ==
    LET n == Cardinality(toSignal[p])
        asleep == {g \in Groups : wpc[g] = "asleep"}
    IN
    /\ ppc[p] \in {"signal", "retry"}
    /\ IF n = 0
         THEN UNCHANGED <<plState, wpc>>
         ELSE /\ plState' = plState + 1
              /\ \E W \in SUBSET asleep :
                   /\ Cardinality(W) = IF n < Cardinality(asleep) THEN n ELSE Cardinality(asleep)
                   /\ wpc' = [g \in Groups |-> IF g \in W THEN "get" ELSE wpc[g]]
    /\ covered' = covered \cup toSignal[p]
    /\ toSignal' = [toSignal EXCEPT ![p] = {}]
    /\ IF ppc[p] = "retry"
         THEN /\ ppc' = [ppc EXCEPT ![p] = "push"]
              /\ UNCHANGED done
         ELSE Finish(p)
    /\ UNCHANGED <<prog, tlsNs, target, rq, nosig, seen, ran>>

-----------------------------------------------------------------------------
(* The workers: TaskGroup's main loop and the parking lot (spec 4.4)       *)

\* Read the parking lot's counter before looking for work.
GetState(g) ==
    /\ wpc[g] = "get"
    /\ seen' = [seen EXCEPT ![g] = plState]
    /\ wpc' = [wpc EXCEPT ![g] = "peek"]
    /\ UNCHANGED <<prodVars, rq, nosig, covered, plState, ran>>

\* RemoteTaskQueue::pop: the unlocked _tasks.empty() test.
PopPeek(g) ==
    /\ wpc[g] = "peek"
    /\ wpc' = [wpc EXCEPT ![g] = IF rq[g] = << >> THEN "park" ELSE "pop"]
    /\ UNCHANGED <<prodVars, rq, nosig, covered, plState, seen, ran>>

\* Mutant: the head is read but left in the queue.
PopLockedKeepsHead(g) ==
    /\ wpc[g] = "pop"
    /\ IF rq[g] = << >>
         THEN /\ wpc' = [wpc EXCEPT ![g] = "park"]
              /\ UNCHANGED ran
         ELSE /\ ran' = ran \cup {Head(rq[g])}
              /\ wpc' = [wpc EXCEPT ![g] = "get"]
    /\ UNCHANGED <<prodVars, rq, nosig, covered, plState, seen>>

\* ... then _tasks.pop under the mutex; the worker runs the fiber to its
\* end and loops.  pop fails when the queue emptied in between.
PopLocked(g) ==
    /\ wpc[g] = "pop"
    /\ IF rq[g] = << >>
         THEN /\ wpc' = [wpc EXCEPT ![g] = "park"]
              /\ UNCHANGED <<rq, ran>>
         ELSE /\ ran' = ran \cup {Head(rq[g])}
              /\ rq' = [rq EXCEPT ![g] = Tail(@)]
              /\ wpc' = [wpc EXCEPT ![g] = "get"]
    /\ UNCHANGED <<prodVars, nosig, covered, plState, seen>>

\* Mutant: the worker parks without comparing the counter.
ParkIgnoresCounter(g) ==
    /\ wpc[g] = "park"
    /\ wpc' = [wpc EXCEPT ![g] = "asleep"]
    /\ UNCHANGED <<prodVars, rq, nosig, covered, plState, seen, ran>>

\* Partners' deques are empty: park.  The futex-wait returns at once if
\* the counter has moved since it was read.
Park(g) ==
    /\ wpc[g] = "park"
    /\ wpc' = [wpc EXCEPT ![g] = IF plState = seen[g] THEN "asleep" ELSE "get"]
    /\ UNCHANGED <<prodVars, rq, nosig, covered, plState, seen, ran>>

-----------------------------------------------------------------------------
ProducerStep(p) == FiberStart(p) \/ PushLocked(p) \/ PushFull(p) \/ Flush(p) \/ Signal(p)
WorkerStep(g) == GetState(g) \/ PopPeek(g) \/ PopLocked(g) \/ Park(g)

Next == \/ \E p \in Producers : ProducerStep(p)
        \/ \E g \in Groups : WorkerStep(g)

\* A producer inside fiber_start or fiber_flush runs on (a full queue is
\* retried), and a worker that is not asleep keeps looping.  Making the
\* next call is the producer's choice and not fair.
Fairness ==
    /\ \A p \in Producers : WF_vars(PushLocked(p) \/ PushFull(p) \/ Signal(p))
    /\ \A g \in Groups : WF_vars(WorkerStep(g))

Spec == Init /\ [][Next]_vars /\ Fairness

-----------------------------------------------------------------------------
(* Properties                                                              *)

Queued(g) == {rq[g][i] : i \in DOMAIN rq[g]}

TypeOK ==
    /\ ppc \in [Producers -> {"idle", "push", "retry", "signal"}]
    /\ wpc \in [Groups -> {"get", "peek", "pop", "park", "asleep"}]
    /\ \A g \in Groups : Len(rq[g]) <= Cap /\ nosig[g] \subseteq Queued(g) \cup ran
    /\ plState \in Nat /\ seen \in [Groups -> Nat]

\* Spec 3: a started fiber is in at most one ready location -- at most
\* once in one remote queue -- and a fiber that ran is in none: no start
\* is lost between producers racing on a queue, and none is run twice.
OneReadyLocation ==
    \A p \in Producers : \A i \in 1 .. done[p] + 1 :
        LET f == Fiber(p, i)
            places == {<<g, k>> \in Groups \X (1 .. Cap) : k <= Len(rq[g]) /\ rq[g][k] = f}
        IN /\ Cardinality(places) <= 1
           /\ f \in ran => places = {}
           /\ (i <= done[p] /\ prog[p][i] \in {"start", "startns"}) => (places /= {} \/ f \in ran)

\* A fiber whose start was signalled -- by its own start, by a later
\* signalled start or full queue on the same group, or by fiber_flush --
\* eventually runs, however the parked workers and the signals meet.
SignalledRun ==
    \A p \in Producers : \A i \in 1 .. MaxCalls :
        Fiber(p, i) \in covered ~> Fiber(p, i) \in ran

=============================================================================
