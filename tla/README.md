# TLA+ models of eabase's fiber runtime and var combiners

This directory holds TLA+ models of the concurrent parts of `src/eabase`, the
TLC configurations that check them, and `PROJECT.json`. That file maps every
model definition to the source lines it translates, and lists the runs, the
mutants and the hazards.

## 1. The system and its parts

`eabase` is an M:N fiber runtime with a metrics library beside it.

| Part | Source | State | Operations | Interacts with |
|---|---|---|---|---|
| Work-stealing run queue | `fiber/work_stealing_queue.h` | `_bottom`, `_top`, ring `_buffer` | owner `push`, `pop`; any worker `steal` | TaskGroup scheduling, other workers' steals |
| Remote task queue | `fiber/remote_task_queue.h` | bounded queue and its mutex | `push`, `pop` (unlocked `empty()` test first) | non-worker `fiber_start` |
| Butex | spec 4.3 (butex.cc not in src) | 32-bit value, FIFO list of waiters | `wait`, `wake`, `wake_all`, `requeue`, timeout, interrupt | every primitive below |
| Mutex | spec 4.7, `fiber/mutex.h` | three-state word in a butex | `lock`, `trylock`, `timedlock`, `lock_contended`, `unlock` | condition variable |
| Condition variable | `fiber/condition_variable.cc` | bound mutex `m`, butex `seq` | `wait`, `timedwait`, `signal`, `broadcast` | mutex, butex |
| CountdownEvent | `fiber/countdown_event.cc` | butex counter, `_wait_was_invoked` | `wait`, `timed_wait`, `signal`, `add_count`, `reset`, destructor | butex |
| Concurrency control | `fiber/fiber.cc`, `fiber/task_control.h` | `g_task_control`, `FLAGS_fiber_concurrency`, `never_set_*`, worker counts | `get_or_new_task_control`, `fiber_setconcurrency[_by_tag]` | worker threads adding their groups |
| Start/stop/flush | `fiber/fiber.cc` | thread-local NOSIGNAL group | `fiber_start[_lazy]`, `fiber_flush`, `fiber_stop` | TaskGroup (not in src) |
| Timers | `fiber/fiber.cc`, spec 4.9 (timer_thread.cc not in src) | heap slots with a generation each | `fiber_timer_add/del`, `schedule`, `unschedule`, the timer thread's run loop | timed butex waits, timer users |
| AgentCombiner | `var/detail/combiner.h` | global result, list of thread agents | `modify`, `combine_agents`, `reset_all_agents`, `commit_and_erase`, `commit_and_clear`, `clear_all_agents` | every Reducer |
| SamplerCollector | `var/detail/sampler.cc` | list of samplers, `_used` flags | collector loop, `Sampler::destroy` | every Window/PerSecond |
| Context switch | `fiber/context.cc` (assembly per platform) | registers, stack pointer, the frame on each stack | `fiber_make_fcontext`, `fiber_jump_fcontext` | stack factory, TaskGroup |
| Stack factory | `fiber/stack_inl.h` | pooled `Wrapper`s and their `context` | `get_stack`, `return_stack`, `jump_stack` | ObjectPool (not in src), context switch |

### What is hard in each part, and the properties it needs

* **Work-stealing queue.** The owner and the stealers race for the last item.
  `steal()` reads a slot before its CAS on `_top` and retries after a failure.
  It needs exactly-once delivery, refinement of an atomic LIFO/FIFO deque, and
  termination of every call.
* **Butex-based primitives.** A lost wake-up is possible in the window between
  loading a value and sleeping on it. Requeue moves waiters between butexes.
  Timeouts and interrupts unlink waiters from whichever list holds them.
  These need "waiters return once the condition holds" (liveness), mutual
  exclusion, and no EINTR leaking out.
* **Concurrency control.** It uses unlocked pre-checks, double-checked
  creation, and workers that are created but not yet counted per tag. Lazy
  mode and the gflags validators write the flags without the mutex. It needs
  "the flag is never above the worker count" (the direction the code's CHECK
  at line 357 cannot repair), "a successful call delivers the workers it
  promised", and a bound on the pool.
* **Context switch.** Each platform's assembly stores registers at fixed
  offsets, and `make_fcontext` must lay out a frame the first jump can load.
  A wrong offset or pop order, or a frame that needs room above the stack
  top, breaks only the fibers that resume after another fiber changed their
  registers. It needs "a jump returns into its caller with its registers,
  sp and vp" and "a fresh stack enters its function as a call would".
* **Combiner / sampler.** A CAS loop races a reset exchange, and a sampler can
  be deleted while another thread still uses it. These need conservation of
  updates and no use after delete.

## 2. Plan

Modules, in order (done ✔):

1. ✔ `WorkStealingQueue` refines `StealDeque` (abstract atomic deque).
2. ✔ `Butex` (spec) + `CountdownEvent`.
3. ✔ `Mutex` (spec) + `ConditionVariable`, composed over one `Butex`, used
   through `unique_lock` and `lock_guard`.
4. ✔ `FiberConcurrency` (fiber.cc concurrency control), eager and lazy.
5. ✔ `TimerThread` (spec) + `fiber_timer_add/del`, shared by the timed waits
   of `CountdownEvent`: schedule, unschedule and fire; "del never reports
   found for a timer that fired", and timed waits return.
6. (partly ✔: `RemoteStart` covers non-worker starts, NOSIGNAL, `fiber_flush`,
   the remote queue and parking) `TaskGroup` scheduling: the run queue (instance of `WorkStealingQueue`'s
   abstract `StealDeque`), `RemoteTaskQueue`, the parking lot, NOSIGNAL plus
   `fiber_flush`, and `fiber_stop`/interrupt. Liveness: every ready fiber
   eventually runs.
7. ✔ `AgentCombiner` (atomic and lock-based elements): modify, reset, commit,
   merge_global, combine, and destruction with reuse of the id.
   Conservation: every update is in exactly one of the agents, the global
   result, a reset's accumulator, or a value already returned.
8. ✔ `SamplerCollector` against `Sampler::destroy`, owned by `StatusVar`s,
   with the collector created lazily; still to add: fork.
9. ✔ `FiberContext`: make/jump fcontext of the non-Windows platforms, and the
   stack factory.

Each module gets an MC module and a cfg. Bounds are kept small enough for a
few minutes of TLC: 2–3 actors, and 2–4 values per counter.

## 3. Modules

### `StealDeque`, `WorkStealingQueue`, `MC_WorkStealingQueue`

`WorkStealingQueue` keeps `bottom`, `top` and `buffer` as in the header. The
memory orders are modelled as sequentially consistent; the code fences at
exactly the places where this matters. `pc`, `lb`, `lt` and `lval` hold each
thread's progress and locals.

Every load, store and CAS of `push`, `pop` and `steal` is its own action
(`PushBegin` … `StealCas`). Actions are split at the code's atomic accesses,
so any interleaving of one owner and several stealers is explored. `pushed`
and `taken` are history variables: items are numbered in push order, and each
return of an item is counted.

The refinement mapping `Contents` reads the items between `top` and `bottom`.
While the owner is inside `pop()` between its store of `bottom - 1` and its
decision, `bottom` is read as the old value. The pop takes effect at its load
of `top` or at its CAS, the linearisation points of the algorithm.

### `Butex` (written from the spec: butex.cc is not part of the sources)

State per butex: the value `bval` and the FIFO list of waiters `waitq`. Each
fiber has a `wres`, the state of its current `butex_wait`. Each operation runs
under the butex's lock and is one operator; timeouts and interrupts are
`ButexUnlink`. The module is EXTENDED by the modules of the primitives and
has no behaviour of its own.

### `CountdownEvent`, `MC_CountdownEvent`

The counter is the value of the event's butex.

* Each waiter runs `wait()` / `timed_wait()` as three steps: `WaitLoad`
  (load, return 0 when ≤ 0), `WaitBlock` (`butex_wait`) and `WaitResume`
  (loop on woken, EWOULDBLOCK or EINTR, return ETIMEDOUT).
* Each signaler runs `signal()` as two steps: `SignalSub` (the `fetch_sub`
  and the `prev > sig` test) and `SignalWake` (`wake_all` through the saved
  butex).
* `add_count` and `reset` run only as their contracts allow.
* `fiber_stop` of a waiter in `StopTargets` is two steps: `StopSet` (the
  task group's `set_stopped`) and `Interrupt` (`fiber_interrupt`: unlink with
  EINTR if the fiber is on the list). Once the flag is set, `WaitBlock` of
  that fiber returns EINTR at once (`ButexWaitStopped`, spec 4.6) instead of
  queueing.
* The deadline of a timed waiter (`Deadline(w)`) is a `TimerThread` entry:
  `WaitBlock` schedules it when the waiter is queued, `TimerCallback` is its
  callback (unlink with ETIMEDOUT if the waiter is still on the list, else a
  no-op), and `CancelTimer`, in `WaitResume`, unschedules it whatever the
  answer.
* `Destroy` is `~CountdownEvent` (`butex_destroy`). The owner runs it once
  every `wait()` has returned and the count has reached zero, and makes no
  `add_count` or `reset` after it. A signaler may still be between its
  `fetch_sub` and its wake. `lateRead` is an auxiliary flag: it records that
  a step read a member of the destroyed `*this`. `SignalSub` reads `_butex`
  twice; `SignalWake` uses only `saved_butex`, on a butex that has no waiters
  left.

### `TimerThread` (the thread from spec 4.9; `fiber_timer_add/del` from fiber.cc)

A timer entry occupies a slot. `tstate[s]` is free, pending, cancelled (still
in the heap) or running, and `tgen[s]` is the slot's generation. The id handed
out is `<<slot, generation>>` (`TokenOf`).

* `Schedule` takes `NextSlot`, the slot the allocator hands out.
* `Unschedule` marks a pending entry of the id's generation cancelled.
  `UnscheduleResult` is the answer: 0 found, 1 running, -1 not found.
* The single thread (`TimerIdle`) either drops a cancelled entry
  (`TimerDrop`) or starts a pending one (`TimerStart`); `TimerFinish` frees
  the slot under the next generation.
* `TimerAdd` and `TimerDel` are `fiber_timer_add` and `fiber_timer_del` of a
  user fiber. `fires` and `cancels` record, for each id they handed out, the
  callback starts and the del calls that answered 0.

Deadlines are abstract: any entry of the heap may fall due, which
over-approximates the heap's order.

### `Mutex` (written from the spec: mutex.cc is not part of the sources)

The three-state word UNLOCKED / LOCKED / CONTENDED:

* `MutexLock` is the fast CAS.
* `LockContended` swaps in CONTENDED and sleeps while the swap did not
  return UNLOCKED.
* `MutexUnlock` swaps in UNLOCKED and wakes one waiter if the word was
  CONTENDED.
* `MutexTrylock` is the same CAS, returning EBUSY when it fails.
* `MutexTimedLock` is the fast CAS, then `lock_contended` with `timed` set.
  Its sleep can end with `LockTimeout` (the deadline passes). The call then
  returns ETIMEDOUT and leaves the word CONTENDED, as the spec's loop does.
  `lockRet` records what each lock call returned.

A call returns to `after[f]`. `holder` is a ghost variable naming the fiber
that acquired the mutex.

### `ConditionVariable`, `MC_ConditionVariable`

`fiber_cond_wait` is split at its atomic accesses:

* the `seq` snapshot;
* bind plus `fiber_mutex_unlock`;
* `butex_wait`;
* `fiber_mutex_lock_contended`.

`broadcast` is split into the `m` load with its early return, the `seq`
increment, and `butex_requeue`. `signal` is split into the increment and the
wake.

The waiters run the documented loop `lock; while (!flag) cond_wait; unlock`.
They hold the mutex through `std::unique_lock<fiber_mutex_t>` from `mutex.h`.
Its `lock()` is `UniqueLockLock` then `UniqueLockOwn`, its `unlock()` is
`UniqueLockUnlock`, and its destructor is `UniqueLockDtor`. `owns` is
`_owns_lock`. `cond_wait` unlocks and relocks the mutex behind the lock's
back, so `owns` stays set across the wait. The notifier sets `flag` under the
mutex. It either uses `lock_guard` and broadcasts inside the critical section,
or uses `unique_lock` and calls `lk.unlock()` before broadcasting, leaving the
destructor with nothing to do. The third notifier constructs the lock with
`defer_lock` and calls `lk.try_lock()` (`UniqueLockTryLock`, then
`NotifierTryOwn`). When that fails it calls `fiber_mutex_timedlock` until it
returns 0 (`NotifierTimedLock`). It then hands the mutex to `lk` through
`adopt_lock` and `swap` (`NotifierAdopt`). All three are explored. A pinger calls `signal`
without the mutex, which gives spurious wake-ups.

`Holding` counts a fiber at the destructor as holding when its lock still
owns the mutex. The mutant `UniqueLockUnlockKeepsOwns` forgets
`_owns_lock = false`. It is checked by hand and kills `MutualExclusion`: the
notifier's destructor unlocks a second time while a waiter holds the mutex.
The recorded mutant of that property is `LockContendedAcceptsLocked`.

`LockCallsReturn` says that every lock call returns. Its mutant
`LockContendedResumeRestoresLocked` lets a timed-out timedlock put LOCKED
back over CONTENDED. The holder's unlock then wakes nobody, and a waiter
sleeping on the mutex sleeps for ever.

### `FiberConcurrency`, `MC_FiberConcurrency`

Each pthread runs a program of calls (`prog`, chosen in `Init`).

* `get_or_new_task_control`: the unlocked peek, then the locked creation.
* `fiber_setconcurrency`: validation, the unlocked look at the control, then
  the locked body.
* `fiber_setconcurrency` in lazy mode (`fiber_min_concurrency > 0`): the
  minimum check and the unlocked store of the flag (`SetConcurrencyLazy`).
* `validate_fiber_min_concurrency` run by gflags: the unlocked checks
  (`SetMinCheck`), the locked addition of missing workers (`SetMinLocked`),
  and the store gflags makes after a successful validation (`SetMinStore`).
  Flag setters exclude each other through the gflags registry lock
  (`InGflags`), but not the API calls.
* `validate_fiber_concurrency` run by gflags (op `setconc`): the validator is
  `fiber_setconcurrency(val)` itself (the same steps as a direct call), and
  when it returns 0 (`SetReturn`) gflags stores `val` (`SetConcStore`).
* `fiber_setconcurrency_by_tag`: the test of the plain
  `never_set_fiber_concurrency_by_tag` (`ByTagBegin`) and its clear
  (`ByTagFirst`) are separate steps, since nothing orders them between
  threads; then the locked body.
* `validate_fiber_current_tag` (`SetTagValidate`) refuses a tag outside
  `[0, ntags)`. Under the mutex it copies `concurrency(tag)` into
  `FLAGS_fiber_concurrency_by_tag` (`byTagFlag`), and gflags then stores the
  tag (`SetTagStore`, `curTag`). `validate_fiber_concurrency_by_tag` runs
  the by-tag setter on `FLAGS_fiber_current_tag` (`Tag`), and gflags stores
  the value only if the setter returned 0 (`ByTagReturn`, `ByTagStore`).
* The readers `fiber_getconcurrency` (`GetConcurrency`, the flag read
  without the mutex) and `fiber_getconcurrency_by_tag`
  (`GetConcurrencyByTag`: under the mutex, EPERM without a control, else
  `concurrency(tag)`). Calls return ints, as in C: 0, an errno value
  (`OK`, `EPERM`, `ENOMEM`, `EINVAL`) or a count.
* `LazyAddWorker` (from the flag's help text; `task_control.cc` is not in
  the sources): in lazy mode a task signal adds one worker while fewer than
  `fiber_concurrency` exist. It is not fair: it happens only when tasks are
  started.

`lazyOnce` is a history variable: laziness has been on at some point. The
code's CHECK at line 357 and the "successful set delivers its workers" rule
hold only for eager mode, so the two properties are stated for behaviours
where `lazyOnce` is still false.

The gflags store of `fiber_concurrency` can overwrite a concurrent direct
`fiber_setconcurrency`: the validator's call returns 0 (say, on the equality
path), another thread's direct call adds a worker and raises the flag, and
gflags then stores the lower value. The flag is then below the worker count,
which the model reaches; the code expects this drift (the comment at line 45
and the CHECK at line 357, which repairs it on the next locked set). What it
cannot repair is a flag above the workers, so `FlagNotAboveWorkers` states that
direction. The same store lowers the flag below what an earlier successful
set asked for; `lowered` is a history variable recording the finished sets a
store lowered in this way, and `SuccessfulSetHolds` exempts them.

Each region under `g_task_control_mutex` is one step, because those regions
exclude each other. Worker creation may fail at any worker. This is why
`Spawn(S)` chooses the set `S` of successful creations.

Workers are counted in `concurrency()` when created (`pending`), but in
`concurrency(tag)` (`ngroup`) only after their thread has added its group
(`WorkerAddGroup`). This follows `task_control.h`: `_concurrency` and
`_tagged_ngroup` are separate counters, the latter filled in by
`worker_thread` via `_add_group`.

### `AgentCombiner`, `MC_AgentCombiner`

This models `AgentCombiner<int, int, AddTo>`. The constant `Atomicals`
chooses `is_atomical<ElementTp>` in `Init` (`atomical`), so one run covers the
atomic `ElementContainer` (the combiner behind `Adder`) and the lock-based one
(non-atomic element types).

* **Writers** (`wpc`). A writer creates its thread-local agent, then appends
  it under `_lock`. It runs `modify`'s CAS loop: `ModifyLoad` takes the
  snapshot and `ModifyCas` does the compare-exchange. A failed CAS refreshes
  `expected`. A thread may exit at any point outside `modify`, and
  `commit_and_erase` then folds its element into `_global_result` and unlinks
  the agent, both in one locked region. `CommitAndClear` is
  `commit_and_clear`. With the lock-based element, `ModifyLocked` is `modify`
  under the element lock, and `merge_global` is four steps. `MergeBegin`
  takes the element lock (`elock`) and the op tests the value (`local`).
  `MergeRelease` is line 52 of `GlobalValue::lock()`, which drops the element
  lock. `MergeAcquire` takes `_lock` and merges the element into
  `_global_result`; a reset may have exchanged the element in between.
  `MergeUnlock` is `GlobalValue::unlock()` and the end of `merge_global`.
  Readers load or exchange a lock-based element only while its lock is free
  (`ElementUnlocked`). The atomic element's load and exchange are single
  relaxed atomic operations that never wait (`ElementAccess`).
* **Readers** (`rpc`, `idx`, `acc`). `combine_agents` and `reset_all_agents`
  take `_lock` and walk the list one agent per step. The reset exchanges each
  element with the identity. Between those steps, writers keep modifying
  without the lock.
* **Bookkeeping.** `updates` counts every value added, and `returned` counts
  what resets handed back. These are history variables for `Conservation`.
  `lastCombine` records the last combine's result and the bounds it must lie
  in.

* **Lifetime** (`gen`, `alive`, `acomb`). `acomb[w]` is `Agent::combiner`
  (0 is NULL; otherwise the generation of the combiner it points to).
  `DestroyCombiner` is `~AgentCombiner`: `ClearAllAgents` resets every linked
  agent to (identity, NULL) with `AgentReset` and unlinks it, and the id is
  given back. It is enabled only when no thread is inside a call, since
  anything else is a use after free. `NewCombiner` is a new combiner that gets
  the same id, and therefore the same thread-local agents (`MaxGen` bounds
  the combiners). `CreateAgent` keeps an agent whose `combiner` is still set
  and skips the append (lines 300-302). `Conservation` is checked for the
  live combiner. The mutant `ClearAllAgentsKeepCombiner` leaves `combiner`
  set, which is what the comment at line 314 warns about. TLC then finds a
  thread of the second combiner updating an unlinked agent, which breaks
  `Conservation`. The recorded mutant of `Conservation` is `MergeStaleValue`.

### `SamplerCollector`, `MC_SamplerCollector`

`SamplerCollector` is a `Reducer<Sampler*, CombineSampler>`. The module
models the collector together with the part of `AgentCombiner` it uses. The
element type `Sampler*` is not atomical, so each element operation runs under
the element's lock and is one step. Lists of samplers are abstracted to sets.

* **Owners** (`opc`, `used`, `mtx`). Each sampler is the `SeriesSampler` of
  a `StatusVar<T>` with an atomical `T` (`status_var.h`). Its
  `expose_impl` either creates no sampler (`ExposeNoSeries`: the name is
  taken or `FLAGS_save_series` is off; `~StatusVar` is then `DestroyPlain`), or
  creates one and calls `schedule()`. `schedule()` has three paths:
  * the flag is off, and it does nothing;
  * the thread already has an agent;
  * the agent is created, then appended under `_lock`. The first such call
    constructs the collector singleton, which starts the sampling thread
    (`GetCollector`, `CreateSamplingThread`, `created`).

  Each path is followed by `modify` inserting the sampler (`CombineSampler`).
  `~StatusVar` calls `destroy()`, which locks `_mutex`, clears `_used` and
  unlocks; the StatusVar then goes away (`"freed"`).
* **Thread exit.** `~Agent` runs `commit_and_erase` into `_global_result`.
* **Collector** (`cpc`, `todo`, `tmp`, `root`, `walk`, `cur`).
  * `reset_all_agents` holds `_lock` while it exchanges each agent's element
    (one step per agent).
  * The result is merged into `root`.
  * The walk locks each sampler's mutex. An unused sampler is unlinked and
    deleted. A used one is sampled under the mutex.
  * The thread starts with `run()`'s start-up delay (`CollectorBoot`).
  * The loop never ends, because the collector is a leaky singleton.

  Runs do not check deadlock. Without a scheduled sampler no collector thread
  exists, and the StatusVars and threads have finite lives, so the program
  may stop.

### `RemoteStart`, `MC_RemoteStart`

This module models non-worker `fiber_start`/`fiber_start_lazy` and
`fiber_flush` (`fiber.cc`), feeding `RemoteTaskQueue` (`remote_task_queue.h`).
`TaskGroup::ready_to_run_remote`, `flush_nosignal_tasks_remote`,
`TaskControl::signal_task`, the parking lot and the worker's main loop are not
in the sources. They follow spec §4.4 and are marked `spec_modelled` in the
map.

* **Producers** (`ppc`, `tlsNs`, `target`, `toSignal`).
  * `FiberStart` is `fiber_start` and `fiber_start_lazy`. On these pthreads
    `tls_task_group` is NULL, so both call `start_from_non_worker`. The
    worker branch (`start_foreground`, `start_background<false>`) is not
    modelled.
  * `StartChoose` is `start_from_non_worker`: it chooses a group, and
    NOSIGNAL sticks to `tls_task_group_nosignal`.
  * It pushes under the queue mutex. A NOSIGNAL task is only counted
    (`nosig[g]`). A signalled one takes the counted tasks along.
  * It signals after unlocking.
  * When the queue is full, the producer signals the counted tasks and
    retries.
* **Workers** (`wpc`, `seen`).
  * A worker reads the parking-lot counter, then makes `pop`'s unlocked
    `empty()` test, then takes the locked pop.
  * It parks with futex semantics: it sleeps only if the counter is
    unchanged.
  * A signal bumps the counter and wakes up to *n* sleeping workers.
* **Bookkeeping.** `covered` collects the fibers some signal was sent for.
  `ran` collects those a worker ran.

### `FiberContext`, `MC_FiberContext`

One worker's CPU: `regs`, `sp`, the code it runs (`pc`), and a byte-addressed
memory `mem` holding what the assembly has written. `ctx` is each stack's
`ContextualStack::context`, and `stage` tracks the pooled `Wrapper`s.

* Each platform's `fiber_jump_fcontext` is a record (`Linux_x86_64Jump`,
  `Linux_arm64Jump`, ...). It gives the offsets at which the code stores
  (`gpSave`) and loads (`gpLoad`) the general registers, and the FPU area and
  whether it is saved always or only when `preserve_fpu` is set. It also
  gives where the return address sits, how many bytes the return releases,
  and where vp goes: registers, plus `4(%esp)` on i386. The Apple x86
  variants are the same code as Linux. apple_arm64 differs from linux_arm64
  only in testing `preserve_fpu`.
* Each `fiber_make_fcontext` is a record too: the bytes reserved above the
  frame (`pre`, 8 on i386), the rounding (16, or none on loongarch64, whose
  `andi` is commented out), the frame size and the slots of `fn` and `finish`.
* `JumpFcontext` runs a jump record. It puts the return address on the stack
  or in `lr`, stores the frame below `sp`, writes `sp` to `*from`, loads the
  frame at `to`, releases it and hands vp over. `MakeFcontext` runs a make
  record.
* `GetStack` is `get_stack`, which dispatches to its class's
  `StackFactory::get_stack`. That is `get_object<Wrapper>` (`GetObject`). It
  reuses a pooled Wrapper, or constructs one: the allocation fails (context
  NULL) or `make_fcontext` formats the stack, and the validator keeps it only
  if the context is not NULL. `ReturnStack` is `return_stack`, and
  `ReturnObject` is `StackFactory::return_stack` (`return_object`). `JumpStack` is
  `jump_stack`, which always passes `preserve_fpu = 0`.
* `FiberCode` stands for the fiber's own code. It writes its own values into
  every register the ABI says a call preserves. The history variables
  `callRegs`, `callSp` and `vpIn` record each fiber's registers and sp at its
  last jump, and the vp passed.

`Abi(p)` lists what each processor supplement promises: the callee-saved
integer and FPU registers, the argument and result registers, and the stack
alignment at a function's entry. It is stated from the ABIs, not from the
code. The properties hold the code to it.

## 4. Runs

| Run | cfg | Checks | Shows |
|---|---|---|---|
| `wsq_exactly_once` | `MC_WorkStealingQueue.cfg` | `TypeOK`, `ExactlyOnce`, `CallsReturn`, `AbsSpec` | every pushed item is returned by exactly one pop/steal, every call returns, and the queue implements `StealDeque` |
| `countdown_wakeup` | `MC_CountdownEvent.cfg` | `TypeOK`, `CancelXorFire`, `StopCutsWait`, `NoReadAfterDestroy`, `WaitersReturn`, `TimedWaitReturns` | no untimed waiter misses the final `wake_all` (for the timed one, `TimedWaitReturns` is stronger); `wait()` returns only 0 or ETIMEDOUT; a timed waiter returns through its timer even if the count stays positive; `fiber_timer_del` never reports cancelled a timer whose callback started, also after its slot was reused by a timed wait; once `fiber_stop` returns, its target is not asleep in `butex_wait`; a `signal()` reads the destroyed event only if it over-decreases the counter, never the one that brought it to zero |
| `cond_requeue` | `MC_ConditionVariable.cfg` | `TypeOK`, `MutualExclusion`, `WaitersReturn`, `LockCallsReturn` | requeue plus `lock_contended` wakes every waiter, one unlock at a time; every lock, trylock and timedlock returns, also when a timedlock gives up after marking the word CONTENDED |
| `concurrency_control` | `MC_FiberConcurrency.cfg` | `TypeOK`, `FlagNotAboveWorkers`, `SuccessfulSetHolds`, `WorkersWithinMax` | in eager mode the flag is never above the workers (it may fall below them through the gflags store, which line 357 repairs) and a successful set delivers its workers unless a later gflags store lowered the flag; in both modes the pool stays within `FIBER_MAX_CONCURRENCY`, which is reached |
| `concurrency_lazy_eperm` | `MC_FiberConcurrency_eperm.cfg` | `SetBelowCountRefused` (expected violation) | in lazy mode a request below the worker count returns 0, not EPERM |
| `combiner_conservation` | `MC_AgentCombiner.cfg` | `TypeOK`, `Conservation`, `CombineWithinUpdates`, `ModifyReturns` | no update is lost or counted twice across modify, commit, merge, reset and thread exit, for atomic and lock-based elements; a combine lies between the totals at its start and end; every CAS loop and every merge_global returns |
| `sampler_collector` | `MC_SamplerCollector.cfg` | `TypeOK`, `OnOneList`, `SamplingExcludesFree`, `Reclaimed` | every scheduled sampler is on exactly one list until deleted; `take_sample` never runs after its owner's `destroy`; with sampling on, destroyed samplers are deleted |
| `sampler_disabled_leak` | `MC_SamplerCollector_disabled.cfg` | `DestroyedAreDeleted` (expected violation) | with `FLAGS_var_enable_sampling` off, destroyed samplers are never deleted |
| `remote_start` | `MC_RemoteStart.cfg` | `TypeOK`, `OneReadyLocation`, `SignalledRun` | with one group, every start is in one ready place until run, and every signalled start runs despite full queues and parking |
| `remote_start_two_groups` | `MC_RemoteStart_groups.cfg` | `SignalledRun` (expected violation) | with two groups and the spec's main loop, a signal can wake a worker that cannot reach the fiber |
| `context_switch` | `MC_FiberContext.cfg` | `TypeOK`, `EntryContract`, `IntRegsRestored`, `FramesInsideStacks`, `InUseHasContext` | on all eight platforms a fresh stack enters its function aligned, with vp and a return to `finish`; every jump returns to its caller with sp, vp and the callee-saved integer registers; nothing is written outside a stack; no NULL context is handed out |
| `context_switch_fpu` | `MC_FiberContext_fpu.cfg` | `FpuRegsRestored` (expected violation) | with `preserve_fpu = 0`, linux_arm32 and apple_arm64 lose d8-d15 across a switch |

Every property of a passing run has a mutant in `PROJECT.json`: a plausible
bug in one mapped definition, which TLC must find. Examples:

* a wrong-slot read in `steal`;
* a pop without its CAS;
* a CAS retry with a stale `top`;
* `prev >= sig` in `signal`;
* EINTR not filtered out;
* a `butex_wait` that queues a stopped fiber;
* a wake through `this->_butex` instead of `saved_butex`;
* the fast-path relock after `cond_wait`;
* a contended lock that takes LOCKED for free;
* a timed-out timedlock that restores LOCKED over CONTENDED;
* the flag set to the request instead of what was added;
* an on-demand worker added without comparing with the flag;
* a `merge_global` op that merges the value it tested before
  `GlobalValue::lock()` rather than the element once the combiner is locked;
* a `GlobalValue::lock()` that keeps the element lock while it waits;
* an exiting thread whose agent stays linked;
* a combine that leaves out `_global_result`;
* a reset that loads an element without clearing it;
* take_sample without the sampler's mutex;
* a collector that skips an unused sampler instead of deleting it;
* a push without the capacity check;
* a pop that leaves the head in place;
* a worker that parks without comparing the counter;
* `fn` stored at 0x30 instead of 0x38 by the x86_64 make;
* an x86_64 make frame 8 bytes too large;
* two pops swapped in the x86_64 jump;
* an i386 make without the 8 bytes it reserves for vp;
* a stack validator that accepts a NULL context.
* an `unschedule` that does not compare the id's generation with the slot's;
* a timed-wait callback that takes every firing for a late one.

**Finding.** `concurrency_lazy_eperm`: with `fiber_min_concurrency > 0`,
`fiber_setconcurrency(num)` checks only `num >= fiber_min_concurrency`, then
sets the flag and returns 0 (`fiber.cc:328-336`). It never looks at the
TaskControl. TLC's trace: `fiber_start` creates the control with 2 workers,
the minimum is set to 1, and `fiber_setconcurrency(1)` returns 0 with 2
workers running. Spec 4.5 says requests below the current count are refused
with EPERM. The flag is then below `concurrency()`. If laziness is later
turned off, the next eager call logs the "CHECK failed" of line 358.

**Observed, not checked as properties.** Three more interleavings show up in
the model's state space (see the hazards at `fiber.cc:129` and `fiber.cc:381`):

* The min validator accepts a value while no TaskControl exists. gflags stores
  it only after the validator returns. A `fiber_start` in between creates the
  control with the old minimum, so fewer workers run than the new minimum.
* Two first `fiber_setconcurrency_by_tag` calls on different threads both
  find the plain `never_set` flag true, and both return 0 having done nothing.
* `fiber_setconcurrency_unittest.cc:222` asserts that `by_tag(con + 1)`
  succeeds after `setconcurrency(con + 1)`. The test runs after
  `min_concurrency` has left `fiber_min_concurrency` above 0, so it is in
  lazy mode and line 221 only raises the flag. A worker enters
  `_tagged_ngroup` only once its thread has run, while it counts in
  `concurrency()` at once. An on-demand worker created before line 222, or a
  worker adding its group after the read at line 218, makes the call return
  EPERM; the model reaches this in lazy mode (hazard at `fiber.cc:391`). The
  test depends on thread timing.
  The same holds at line 218-219: `fiber_getconcurrency_by_tag(0)` counts
  only the groups added so far. A worker that adds its group afterwards
  makes `by_tag(con)` find `num < tag_ngroup`, and it returns EPERM.

**Finding.** `sampler_disabled_leak`: `Sampler::schedule()` returns without
doing anything when `FLAGS_var_enable_sampling` is false (`sampler.cc:205`).
`Sampler::destroy()` still only clears `_used` and leaves the `delete` to the
collector (the comment at `sampler.cc:58`). `~StatusVar` calls `destroy()`, so
with sampling off every `SeriesSampler` leaks. TLC shows a sampler destroyed
and never deleted. In the model the collector loop still runs with nothing to
do. In the program the collector singleton is never created.

**Finding.** `context_switch_fpu`: `jump_stack` (`stack_inl.h:127`) always
passes `preserve_fpu = 0`. The linux_arm32 (`context.cc:553-556`) and
apple_arm64 (`context.cc:728-735`) jumps then neither store nor load d8-d15,
which AAPCS makes callee-saved. TLC's trace: MAIN jumps to a fresh stack, that
fiber sets its d8-d15 and jumps back, and MAIN resumes with the other fiber's
values. The linux_arm64 variant saves them always, and its comment
(`context.cc:624-629`) gives the reason: gcc keeps values in those registers
across calls. Spec 4.1 says a jump saves the FPU registers. On x86 the same
flag skips the MXCSR and x87 control words, which the SysV ABI also makes
callee-saved, so a rounding mode set by one fiber leaks into the next.

**Finding.** `remote_start_two_groups`: `start_from_non_worker` puts the fiber
on one group's remote queue. The spec's "wake a parked worker" may wake a
different worker. That worker pops only its own remote queue and steals only
local deques (spec §4.4), so it parks again, and the owning worker sleeps on.
This is a gap in the spec: it should say that steals also drain partners'
remote queues, or that the signal targets the owning group.

## 5. Bounds and why they suffice

* **WSQ:** capacity 2 with 3 pushes. This covers wrap-around of the ring, a
  full queue, and the last item contested by pop and two steals.
* **CountdownEvent:** two waiters (one timed) and two signalers with amounts 1
  and 2 on a count of 2. Both an exact reach of 0 and an over-decrease happen.
  There is also one add_count, one reset to 1 and a `fiber_stop` of the
  untimed waiter. A user fiber
  makes one `fiber_timer_add` and one `fiber_timer_del`, on two timer slots
  shared with the timed waiter. The del can come while the timer is pending,
  running, or done with its slot reused by the waiter. The timed waiter
  schedules at most three entries (two wakes, the final wait),
  so two slots of three generations each are never exhausted for good. A
  second del per user doubles the run time (over 6 minutes).
* **Condition variable:** two waiters, so broadcast has one to wake and one to
  requeue. The timed waiter can time out while requeued on the mutex. One
  interrupt (`MaxInterrupts`) reaches each EINTR path. A waiter woken by
  interrupts without end could retake the mutex ahead of a sleeper for ever,
  because `fiber_mutex_t` is not fair. A bound on interrupts is therefore
  needed for `LockCallsReturn`. The timedlock notifier is a third notifier,
  not a fifth fiber: a fifth fiber made the run 20 times larger.
* **Concurrency:** two threads, two calls each. The calls cover every return
  path: invalid, lower, equal and higher values, a swallowed and a real by-tag
  call, and the creation of the control from either thread. The minimum is
  set to 0, 1 and 3. With the default flag of 2, 3 is refused until a
  `setconcurrency(3)` raises the flag; with a control running it makes the
  validator add workers. `fiber_concurrency` is set to 2 through gflags, so
  its store can undo a concurrent direct set. `FIBER_MAX_CONCURRENCY` is 3, so
  `setconcurrency(3)` reaches the limit and `WorkersWithinMax` is checked at
  its boundary: no by-tag, lazy or min-validator addition goes past it.

* **AgentCombiner:** both element kinds and two combiners on one id. Two
  writers make one `commit_and_clear` or `merge_global` each, over both
  combiners; one writer makes one modify and the other two (`MaxModify`). A
  reset can land between a writer's snapshot and its CAS, and the writer with
  two updates then fails its compare-exchange and goes round the retry loop
  of line 141 with the value the reset left; a reset can also land in the
  window of `GlobalValue::lock()`. A writer can exit in the middle of a
  combine or reset walk. There is one combiner and one resetter, with one
  pass each; a second reader pass adds no new case, since one pass already
  meets every window. Two modifies for both writers take over 4 minutes.

* **SamplerCollector:** two threads and three samplers, two of them on `t1`.
  This covers the first schedule creating the agent and a later one finding
  it, a reset catching one element before and one after a schedule, a thread
  exiting with scheduled samplers, and an owner destroying while its sampler
  is being sampled. The flag takes both values in `Init`. A StatusVar may
  skip its sampler, so the collector may be created by any sampler or by
  none.

* **FiberContext:** MAIN plus two pooled stacks, on each of the eight
  platforms. Either stack can fail its allocation, be returned and reused,
  and any fiber can jump to any other. So a fiber resumes after each of the
  others has changed the registers, and a reused stack is resumed where it
  stopped. Stack tops are page aligned, as `allocate_stack_storage` returns
  them, and the frames use the code's real offsets. One value of vp is
  enough, because each jump records the vp it passed.

* **RemoteStart:** two producers and remote queues of capacity 1, so a push
  finds the queue full. The programs mix signalled and NOSIGNAL starts with
  and without `fiber_flush`. The passing run has one group, where the spec's
  loop reaches every queue. The violation run has two.

## 6. Fairness

A fiber or thread that is inside a call keeps running once it is runnable.
Workers are never descheduled forever, so steps inside a call are weakly fair.
The timer thread services its heap while an entry is in it, because every
deadline passes. Its steps are disabled while the heap is empty, or while a
callback runs, so they are strongly fair. There are finitely many entries,
so no entry waits for ever behind others. Once `fiber_stop` has set the flag, its `fiber_interrupt` follows
(weakly fair). A timedlock's deadline passes (`LockTimeout` is weakly fair).
Starting a call, stopping a fiber and resetting are the
caller's choice, so they are not fair.

In the countdown model, the three steps a waiter takes inside `wait()` are
guarded by different values of its own `pc`, so one weak fairness condition
on their disjunction (`WaiterStep`) is the same as one on each.

In the combiner, each writer thread as a whole (`WriterStep`) and a reader
walking the list are weakly fair. A writer runs a finite program: creating
its agent, its calls and its exit at the end of its program are steps of a
thread that keeps running, so they are fair too. Destroying the combiner and creating a new one are the owner's choice
and are not fair.

In the sampler model, the collector thread runs for ever (weakly fair), and
an owner inside `schedule()` or `destroy()` runs on. When to destroy is the
owner's choice.

In `RemoteStart`, producers inside a call and workers that are not asleep
are weakly fair. A sleeping worker runs again only when a signal wakes it.

The concurrency and context models have no liveness property. Its only fair action is the
worker adding its group.

Runs whose callers make a bounded number of calls say `CHECK_DEADLOCK FALSE`.
The model stops when all calls have returned. Lost wake-ups are caught by the
liveness properties, not by deadlock detection.

## 7. Not modelled, and why

* The Windows i386 and x86_64 variants of `context.cc`. They also save NT_TIB
  fields, pad the frame with a flag word, and walk the SEH chain in
  `make_fcontext`.
* In `stack_inl.h`: the PTHREAD class, which never switches stacks, and the
  ObjectPool block and free-chunk sizes, whose pool code is not in the sources.
* The var metric wrappers and utility helpers: no concurrency of their own,
  or pure I/O and formatting.
* `ExecutionQueue` and `Session`: only declarations are in the sources.
* Butex, mutex, TaskGroup and TimerThread implementations are not in the
  sources. Butex, mutex and TimerThread are modelled from the spec. TaskGroup
  is modelled only as far as `RemoteStart` needs it.
* Of the timer thread: deadline order, and the wake-up of the sleeping thread
  when a schedule moves the heap head earlier. Deadlines are abstract, so any
  pending entry may fall due. Also left out: the ENOMEM and ESTOP returns of
  `fiber_timer_add`. On a worker the task control exists, and the global
  timer thread is never stopped.
* Calls the owner of a CountdownEvent makes after destroying it (`add_count`,
  `reset`, `wait`). Freed memory is tracked only as reads of `*this` by a
  `signal` that is already running.
* The 32-bit wrap of the condition's `seq`. It needs 2^32 increments inside
  one waiter's window.
