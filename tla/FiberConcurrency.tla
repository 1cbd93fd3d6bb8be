--------------------------- MODULE FiberConcurrency ---------------------------
(***************************************************************************)
(* The worker-pool control of src/eabase/fiber/fiber.cc: the lazily       *)
(* created global TaskControl (get_or_new_task_control), and              *)
(* fiber_setconcurrency / fiber_setconcurrency_by_tag and the gflags      *)
(* validator of fiber_min_concurrency racing with it on several pthreads. *)
(*                                                                         *)
(* Every region under g_task_control_mutex is one step: the regions       *)
(* exclude each other, and the only unlocked writers they can meet are    *)
(* the other callers and the new worker threads.  Those come from         *)
(* TaskControl (task_control.cc is not among the sources; task_control.h):*)
(* add_workers() and init() count a worker in _concurrency when they      *)
(* create it, while the worker adds its TaskGroup, and so to               *)
(* _tagged_ngroup[tag] (concurrency(tag)), later on its own thread.       *)
(* pthread_create may fail for any worker.  gflags runs a validator and    *)
(* then stores the flag under its registry lock, so flag setters exclude  *)
(* each other but not the direct API calls.  FLAGS_fiber_concurrency's   *)
(* validator calls fiber_setconcurrency itself, and gflags stores the    *)
(* value after it returned 0.  FLAGS_fiber_current_tag and                *)
(* FLAGS_fiber_concurrency_by_tag are set the same way: their validators *)
(* read concurrency(tag) or call the by-tag setter.                       *)
(***************************************************************************)
EXTENDS Integers, Sequences, FiniteSets, Functions

CONSTANTS Threads,       \* pthreads calling into fiber.cc
          Programs,      \* Programs[t]: the calls t makes, in order
          NTags,         \* FLAGS_task_group_ntags
          InitFlag,      \* initial FLAGS_fiber_concurrency
          MinConc,       \* FIBER_MIN_CONCURRENCY
          MaxConc        \* FIBER_MAX_CONCURRENCY

Tags == 0 .. NTags - 1

(* The calls return ints: 0 or an errno value (Linux), or a count.        *)
OK == 0
EPERM == 1
ENOMEM == 12
EINVAL == 22

VARIABLES tc,            \* g_task_control /= NULL
          flag,          \* FLAGS_fiber_concurrency
          minFlag,       \* FLAGS_fiber_min_concurrency
          neverSet,      \* never_set_fiber_concurrency
          neverSetByTag, \* never_set_fiber_concurrency_by_tag
          lazyOnce,      \* history: fiber_min_concurrency has been positive
          pending,       \* pending[g]: workers of tag g created, group not yet added
          ngroup,        \* ngroup[g]: _tagged_ngroup[g]
          prog,          \* prog[t]: t's calls
          pc,            \* pc[t]: step of t's current call
          results,       \* results[t]: what t's finished calls returned
          curTag,        \* FLAGS_fiber_current_tag
          byTagFlag,     \* FLAGS_fiber_concurrency_by_tag
          lowered        \* history: <<t, i>> for t's i-th call, a successful
                         \* set that a later gflags store went below

vars == <<tc, flag, minFlag, neverSet, neverSetByTag, lazyOnce, pending,
          ngroup, prog, pc, results, curTag, byTagFlag, lowered>>
tagFlags == <<curTag, byTagFlag, lowered>>

(* TaskControl::concurrency(): every worker created so far.               *)
Concurrency == SumFunction(pending) + SumFunction(ngroup)

Cur(t) == prog[t][Len(results[t]) + 1]

(* <<t, i>>: t's i-th call has returned.                                   *)
Finished == UNION {{<<t, i>> : i \in 1 .. Len(results[t])} : t \in Threads}

Init == /\ tc = FALSE
        /\ flag = InitFlag
        /\ minFlag = 0
        /\ neverSet = TRUE
        /\ neverSetByTag = TRUE
        /\ lazyOnce = FALSE
        /\ pending = [g \in Tags |-> 0]
        /\ ngroup = [g \in Tags |-> 0]
        /\ prog \in Programs
        /\ pc = [t \in Threads |-> "idle"]
        /\ results = [t \in Threads |-> << >>]
        /\ curTag = 0
        /\ byTagFlag = 0
        /\ lowered = {}

Return(t, r) == /\ results' = [results EXCEPT ![t] = Append(@, r)]
                /\ pc' = [pc EXCEPT ![t] = "idle"]

Goto(t, l) == /\ pc' = [pc EXCEPT ![t] = l]
              /\ UNCHANGED results

(* Workers number i = 0 .. n-1 of a batch whose successful creations are  *)
(* S get tags i % NTags: the new pending counts.                           *)
Spawn(S) == [g \in Tags |-> pending[g] + Cardinality({i \in S : i % NTags = g})]

(* A thread inside SetCommandLineOption for one of the flags.            *)
GflagsOps == {"setconc", "setmin", "settag", "setbytag"}
InGflags(u) == \/ pc[u] \in {"setmin", "setmin_locked", "setmin_store", "settag",
                             "settag_store", "bytag_store", "conc_store"}
               \/ pc[u] \in {"bytag", "bytag_first", "bytag_locked"} /\ Cur(u).op = "setbytag"
               \/ pc[u] \in {"set", "set_locked"} /\ Cur(u).op = "setconc"

(* The tag of a by-tag call: the direct call's argument, or              *)
(* FLAGS_fiber_current_tag for validate_fiber_concurrency_by_tag.         *)
Tag(t) == IF Cur(t).op = "bytag" THEN Cur(t).tag ELSE curTag

(* validate_fiber_concurrency_by_tag succeeds when the setter returns 0, *)
(* and gflags then stores the value.                                       *)
ByTagReturn(t, code) == IF Cur(t).op = "setbytag" /\ code = OK
                          THEN Goto(t, "bytag_store") ELSE Return(t, code)

(* validate_fiber_concurrency succeeds when fiber_setconcurrency returns *)
(* 0, and gflags then stores the value.                                    *)
SetReturn(t, code) == IF Cur(t).op = "setconc" /\ code = OK
                        THEN Goto(t, "conc_store") ELSE Return(t, code)

-----------------------------------------------------------------------------
(* A call starts; fiber_setconcurrency first validates its argument, and  *)
(* a flag setter first takes the gflags registry lock.                    *)
Begin(t) ==
    /\ pc[t] = "idle"
    /\ Len(results[t]) < Len(prog[t])
    /\ LET c == Cur(t) IN
         /\ c.op \in GflagsOps => \A u \in Threads : ~InGflags(u)
         /\ IF c.op \in {"set", "setconc"} /\ (c.num < MinConc \/ c.num > MaxConc)
              THEN Return(t, EINVAL)
              ELSE Goto(t, CASE c.op = "setbytag" -> "bytag"
                             [] c.op = "setconc" -> "set"
                             [] OTHER -> c.op)
    /\ UNCHANGED <<tc, flag, minFlag, neverSet, neverSetByTag, lazyOnce,
                   pending, ngroup, prog, tagFlags>>

(* get_or_new_task_control: the unlocked check of g_task_control.         *)
GetOrNewPeek(t) ==
    /\ pc[t] = "start"
    /\ IF tc THEN Return(t, OK) ELSE Goto(t, "start_locked")
    /\ UNCHANGED <<tc, flag, minFlag, neverSet, neverSetByTag, lazyOnce,
                   pending, ngroup, prog, tagFlags>>

(* Under the mutex: check again, else new TaskControl and init() with    *)
(* fiber_min_concurrency workers when it is positive, else with           *)
(* fiber_concurrency.  init() fails when a worker cannot be created; the  *)
(* control is deleted.                                                     *)
GetOrNewLocked(t) ==
    /\ pc[t] = "start_locked"
    /\ IF tc
         THEN /\ Return(t, OK)
              /\ UNCHANGED <<tc, pending>>
         ELSE \/ /\ tc' = TRUE
                 /\ pending' = Spawn(0 .. (IF minFlag > 0 THEN minFlag ELSE flag) - 1)
                 /\ Return(t, OK)
              \/ /\ Return(t, ENOMEM)
                 /\ UNCHANGED <<tc, pending>>
    /\ UNCHANGED <<flag, minFlag, neverSet, neverSetByTag, lazyOnce, ngroup, prog, tagFlags>>

(* fiber_setconcurrency in lazy mode (fiber_min_concurrency > 0): a       *)
(* request below the minimum is refused, any other one only sets the flag;*)
(* workers are added on demand later.                                      *)
SetConcurrencyLazy(t) ==
    /\ pc[t] = "set"
    /\ minFlag > 0
    /\ LET num == Cur(t).num IN
         IF num < minFlag
           THEN /\ Return(t, EINVAL)
                /\ UNCHANGED <<flag, neverSet>>
           ELSE /\ neverSet' = FALSE
                /\ flag' = num
                /\ SetReturn(t, OK)
    /\ UNCHANGED <<tc, minFlag, neverSetByTag, lazyOnce, pending, ngroup, prog, tagFlags>>

(* fiber_setconcurrency, eager mode: the unlocked look at the TaskControl.*)
SetConcurrencyPeek(t) ==
    /\ pc[t] = "set"
    /\ minFlag <= 0
    /\ LET num == Cur(t).num IN
         IF tc /\ num < Concurrency THEN Return(t, EPERM)
         ELSE IF tc /\ num = Concurrency THEN SetReturn(t, OK)
         ELSE Goto(t, "set_locked")
    /\ UNCHANGED <<tc, flag, minFlag, neverSet, neverSetByTag, lazyOnce,
                   pending, ngroup, prog, tagFlags>>

(* Mutant: the flag is set to the request, whatever add_workers added.   *)
SetResultFlagToNum(num, base, added) ==
    [flag |-> IF num > base THEN num ELSE base,
     code |-> IF num = base + added THEN OK ELSE EPERM]

(* Mutant: 0 is returned without comparing num with what was added.     *)
SetResultIgnoreAdded(num, base, added) == [flag |-> base + added, code |-> OK]

(* The flag, repaired to the base concurrency(), grows by the workers    *)
(* added_workers_for_each_tag created; 0 only when num was reached.       *)
SetResult(num, base, added) ==
    [flag |-> base + added, code |-> IF num = base + added THEN OK ELSE EPERM]

(* Under the mutex.  Without a TaskControl only the flag changes (the     *)
(* first call sets it, later ones only raise it).  Otherwise repair a     *)
(* flag that differs from concurrency(), and add_workers(1, i % ntags)    *)
(* for each missing worker; each of these may fail on its own.            *)
SetConcurrencyLocked(t) ==
    /\ pc[t] = "set_locked"
    /\ LET num == Cur(t).num IN
       IF ~tc
         THEN /\ neverSet' = FALSE
              /\ flag' = IF neverSet \/ num > flag THEN num ELSE flag
              /\ SetReturn(t, OK)
              /\ UNCHANGED pending
         ELSE LET base == Concurrency
                  need == IF num > base THEN num - base ELSE 0
              IN \E S \in SUBSET (0 .. need - 1) :
                   LET r == SetResult(num, base, Cardinality(S)) IN
                   /\ pending' = Spawn(S)
                   /\ flag' = r.flag
                   /\ SetReturn(t, r.code)
                   /\ UNCHANGED neverSet
    /\ UNCHANGED <<tc, minFlag, neverSetByTag, lazyOnce, ngroup, prog, tagFlags>>

(* validate_fiber_concurrency succeeded: gflags stores the value over    *)
(* whatever fiber_setconcurrency, or another thread since, left there.   *)
SetConcStore(t) ==
    /\ pc[t] = "conc_store"
    /\ flag' = Cur(t).num
    /\ Return(t, OK)
    /\ lowered' = lowered \cup
                  {<<u, i>> \in Finished : /\ prog[u][i].op = "set"
                                          /\ results[u][i] = OK
                                          /\ prog[u][i].num > Cur(t).num}
    /\ UNCHANGED <<tc, minFlag, neverSet, neverSetByTag, lazyOnce, pending, ngroup,
                   prog, curTag, byTagFlag>>

(* validate_fiber_min_concurrency, its unlocked part: a non-positive      *)
(* value turns laziness off; one outside [FIBER_MIN_CONCURRENCY,          *)
(* fiber_concurrency] is refused; without a TaskControl it is accepted.   *)
SetMinCheck(t) ==
    /\ pc[t] = "setmin"
    /\ LET val == Cur(t).num IN
         IF val <= 0 THEN Goto(t, "setmin_store")
         ELSE IF val < MinConc \/ val > flag THEN Return(t, EINVAL)
         ELSE IF ~tc THEN Goto(t, "setmin_store")
         ELSE Goto(t, "setmin_locked")
    /\ UNCHANGED <<tc, flag, minFlag, neverSet, neverSetByTag, lazyOnce,
                   pending, ngroup, prog, tagFlags>>

(* Under the mutex: add the workers missing up to val, one per tag in     *)
(* turn; the value is accepted only if all of them were created.          *)
SetMinLocked(t) ==
    /\ pc[t] = "setmin_locked"
    /\ LET val == Cur(t).num
           need == IF val > Concurrency THEN val - Concurrency ELSE 0
       IN \E S \in SUBSET (0 .. need - 1) :
            /\ pending' = Spawn(S)
            /\ IF Cardinality(S) = need THEN Goto(t, "setmin_store")
                                        ELSE Return(t, EINVAL)
    /\ UNCHANGED <<tc, flag, minFlag, neverSet, neverSetByTag, lazyOnce, ngroup, prog, tagFlags>>

(* gflags stores the validated value and releases its registry lock.     *)
SetMinStore(t) ==
    /\ pc[t] = "setmin_store"
    /\ minFlag' = Cur(t).num
    /\ lazyOnce' = (lazyOnce \/ Cur(t).num > 0)
    /\ Return(t, OK)
    /\ UNCHANGED <<tc, flag, neverSet, neverSetByTag, pending, ngroup, prog, tagFlags>>

(* fiber_setconcurrency_by_tag reads the plain never_set flag...          *)
ByTagBegin(t) ==
    /\ pc[t] = "bytag"
    /\ Goto(t, IF neverSetByTag THEN "bytag_first" ELSE "bytag_locked")
    /\ UNCHANGED <<tc, flag, minFlag, neverSet, neverSetByTag, lazyOnce,
                   pending, ngroup, prog, tagFlags>>

(* ... and, when it was set, clears it and returns 0 doing nothing.       *)
ByTagFirst(t) ==
    /\ pc[t] = "bytag_first"
    /\ neverSetByTag' = FALSE
    /\ ByTagReturn(t, OK)
    /\ UNCHANGED <<tc, flag, minFlag, neverSet, lazyOnce, pending, ngroup, prog, tagFlags>>

(* Under the mutex: add num - concurrency(tag) workers to the tag unless  *)
(* the total would pass FLAGS_fiber_concurrency; add_workers(add, tag)    *)
(* stops at its first failure.                                             *)
ByTagLocked(t) ==
    /\ pc[t] = "bytag_locked"
    /\ LET num == Cur(t).num
           add == num - ngroup[Tag(t)]
       IN IF ~tc \/ Concurrency + add > flag
            THEN /\ Return(t, EPERM)
                 /\ UNCHANGED pending
          ELSE IF add > 0
            THEN \E added \in 0 .. add :
                   /\ pending' = [pending EXCEPT ![Tag(t)] = @ + added]
                   /\ ByTagReturn(t, IF added = add THEN OK ELSE EPERM)
            ELSE /\ ByTagReturn(t, IF add = 0 THEN OK ELSE EPERM)
                 /\ UNCHANGED pending
    /\ UNCHANGED <<tc, flag, minFlag, neverSet, neverSetByTag, lazyOnce, ngroup, prog, tagFlags>>

(* validate_fiber_concurrency_by_tag succeeded: gflags stores the value. *)
ByTagStore(t) ==
    /\ pc[t] = "bytag_store"
    /\ byTagFlag' = Cur(t).num
    /\ Return(t, OK)
    /\ UNCHANGED <<tc, flag, minFlag, neverSet, neverSetByTag, lazyOnce, pending,
                   ngroup, prog, curTag, lowered>>

(* validate_fiber_current_tag: a tag outside [0, ntags) is refused; under *)
(* the mutex, FLAGS_fiber_concurrency_by_tag becomes concurrency(val), or *)
(* 0 without a TaskControl.                                                *)
SetTagValidate(t) ==
    /\ pc[t] = "settag"
    /\ LET val == Cur(t).num IN
         IF val < 0 \/ val >= NTags
           THEN /\ Return(t, EINVAL)
                /\ UNCHANGED byTagFlag
           ELSE /\ byTagFlag' = IF tc THEN ngroup[val] ELSE 0
                /\ Goto(t, "settag_store")
    /\ UNCHANGED <<tc, flag, minFlag, neverSet, neverSetByTag, lazyOnce, pending,
                   ngroup, prog, curTag, lowered>>

(* gflags stores the validated tag.                                        *)
SetTagStore(t) ==
    /\ pc[t] = "settag_store"
    /\ curTag' = Cur(t).num
    /\ Return(t, OK)
    /\ UNCHANGED <<tc, flag, minFlag, neverSet, neverSetByTag, lazyOnce, pending,
                   ngroup, prog, byTagFlag, lowered>>

(* fiber_getconcurrency: FLAGS_fiber_concurrency, read without the lock. *)
GetConcurrency(t) ==
    /\ pc[t] = "get"
    /\ Return(t, flag)
    /\ UNCHANGED <<tc, flag, minFlag, neverSet, neverSetByTag, lazyOnce, pending,
                   ngroup, prog, tagFlags>>

(* fiber_getconcurrency_by_tag, under the mutex: EPERM without a          *)
(* TaskControl, else concurrency(tag), the groups its workers have added. *)
GetConcurrencyByTag(t) ==
    /\ pc[t] = "getbytag"
    /\ Return(t, IF tc THEN ngroup[Cur(t).tag] ELSE EPERM)
    /\ UNCHANGED <<tc, flag, minFlag, neverSet, neverSetByTag, lazyOnce, pending,
                   ngroup, prog, tagFlags>>

(* Mutant: a group is added without a worker having been created.       *)
WorkerAddGroupUnguarded(g) ==
    /\ pending' = [pending EXCEPT ![g] = @ - 1]
    /\ ngroup' = [ngroup EXCEPT ![g] = @ + 1]
    /\ UNCHANGED <<tc, flag, minFlag, neverSet, neverSetByTag, lazyOnce, prog, tagFlags, pc, results>>

(* A new worker thread adds its TaskGroup: concurrency(tag) catches up.   *)
WorkerAddGroup(g) ==
    /\ pending[g] > 0
    /\ pending' = [pending EXCEPT ![g] = @ - 1]
    /\ ngroup' = [ngroup EXCEPT ![g] = @ + 1]
    /\ UNCHANGED <<tc, flag, minFlag, neverSet, neverSetByTag, lazyOnce, prog, tagFlags, pc, results>>

(* Mutant: the worker is added without comparing with the flag.        *)
LazyAddWorkerUnbounded(g) ==
    /\ tc /\ minFlag > 0
    /\ pending' = [pending EXCEPT ![g] = @ + 1]
    /\ UNCHANGED <<tc, flag, minFlag, neverSet, neverSetByTag, lazyOnce, ngroup, prog, tagFlags, pc, results>>

(* In lazy mode a task signal adds one worker while fewer than            *)
(* fiber_concurrency exist ("workers ... added on-demand").               *)
LazyAddWorker(g) ==
    /\ tc /\ minFlag > 0 /\ Concurrency < flag
    /\ pending' = [pending EXCEPT ![g] = @ + 1]
    /\ UNCHANGED <<tc, flag, minFlag, neverSet, neverSetByTag, lazyOnce, ngroup, prog, tagFlags, pc, results>>

-----------------------------------------------------------------------------
ThreadStep(t) == \/ Begin(t) \/ GetOrNewPeek(t) \/ GetOrNewLocked(t)
                 \/ SetConcurrencyLazy(t) \/ SetConcurrencyPeek(t)
                 \/ SetConcurrencyLocked(t) \/ SetConcStore(t)
                 \/ SetMinCheck(t) \/ SetMinLocked(t) \/ SetMinStore(t)
                 \/ ByTagBegin(t) \/ ByTagFirst(t) \/ ByTagLocked(t)
                 \/ ByTagStore(t) \/ SetTagValidate(t) \/ SetTagStore(t)
                 \/ GetConcurrency(t) \/ GetConcurrencyByTag(t)

Next == \/ \E t \in Threads : ThreadStep(t)
        \/ \E g \in Tags : WorkerAddGroup(g) \/ LazyAddWorker(g)

Spec == Init /\ [][Next]_vars /\ \A g \in Tags : WF_vars(WorkerAddGroup(g))

-----------------------------------------------------------------------------

TypeOK ==
    /\ tc \in BOOLEAN /\ neverSet \in BOOLEAN /\ neverSetByTag \in BOOLEAN
    /\ flag \in Nat /\ minFlag \in Int /\ lazyOnce \in BOOLEAN
    /\ pending \in [Tags -> Nat] /\ ngroup \in [Tags -> Nat]
    /\ \A t \in Threads : results[t] \in Seq(Nat)
    /\ curTag \in Tags /\ byTagFlag \in Nat
    /\ lowered \subseteq Threads \X Nat

(* fiber_getconcurrency never reports workers that do not exist: once    *)
(* the TaskControl exists and lazy mode has never been on, the flag is at *)
(* most the number of workers, whatever mix of init, partial              *)
(* add_workers, by-tag additions and gflags stores after the validator    *)
(* led there.  It may fall below: a validator's store can overwrite the   *)
(* flag a concurrent fiber_setconcurrency raised, which is why line 357   *)
(* CHECKs and repairs it rather than relying on equality.                 *)
FlagNotAboveWorkers == (tc /\ ~lazyOnce) => flag <= Concurrency

(* Spec 4.5: in eager mode a fiber_setconcurrency(num) that returned 0   *)
(* leaves at least num workers, once the TaskControl exists, even when it *)
(* returned before the TaskControl was created by another thread.  A      *)
(* later fiber_concurrency store through gflags below num is a later      *)
(* request, and before the TaskControl exists it may lower the flag.      *)
SuccessfulSetHolds ==
    \A t \in Threads : \A i \in 1 .. Len(results[t]) :
        (/\ prog[t][i].op = "set" /\ results[t][i] = OK /\ tc /\ ~lazyOnce
         /\ <<t, i>> \notin lowered)
            => Concurrency >= prog[t][i].num

(* Every path that creates workers (init with the minimum or the flag,    *)
(* the eager and by-tag setters, the min validator and the on-demand      *)
(* additions of lazy mode) stays within FIBER_MAX_CONCURRENCY, however    *)
(* the flag is changed under it by the unlocked lazy setter.              *)
WorkersWithinMax == Concurrency <= MaxConc

(* Spec 4.5: a fiber_setconcurrency(num) below the current worker count  *)
(* is refused with EPERM; no step returns 0 to such a request.            *)
SetBelowCountRefused ==
    [][\A t \in Threads :
         (Len(results'[t]) > Len(results[t]) /\ Cur(t).op = "set"
          /\ results'[t][Len(results'[t])] = OK /\ tc)
            => Cur(t).num >= Concurrency]_vars

=============================================================================
