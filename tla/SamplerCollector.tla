--------------------------- MODULE SamplerCollector ---------------------------
(***************************************************************************)
(* The var sampler collector (src/eabase/var/detail/sampler.cc) together  *)
(* with the part of AgentCombiner (src/eabase/var/detail/combiner.h) it   *)
(* runs on.  SamplerCollector is a Reducer<Sampler*, CombineSampler>:      *)
(* Sampler::schedule() adds the sampler to the element of its thread's    *)
(* agent, and the collector thread takes all of them with reset(), moves  *)
(* them onto its own `root' list and walks that list once a second,       *)
(* sampling the used samplers and deleting the ones Sampler::destroy()    *)
(* marked unused.  Sampler* is not atomical, so every element operation   *)
(* runs under the element's own lock and is one step here.                *)
(*                                                                         *)
(* A list of samplers is abstracted to the set of its samplers: the       *)
(* properties do not depend on the order of the walk.                     *)
(*                                                                         *)
(* Each sampler's owner is a StatusVar<T> of an atomical T                *)
(* (src/eabase/var/status_var.h): exposing it creates and schedules its   *)
(* SeriesSampler, unless the name is taken or FLAGS_save_series is off,   *)
(* and ~StatusVar destroys the sampler.  The collector is a leaky         *)
(* singleton: the first schedule() with sampling on constructs it, and   *)
(* the constructor starts the sampling thread.                            *)
(***************************************************************************)
EXTENDS Integers, FiniteSets

CONSTANTS Threads,       \* threads that create and schedule samplers
          Samplers,      \* the samplers (e.g. StatusVar's SeriesSampler)
          Creator,       \* Creator[s]: the thread that schedules s
          SamplingFlags, \* possible values of FLAGS_var_enable_sampling
          NoSampler

ASSUME Creator \in [Samplers -> Threads]

VARIABLES enableSampling, \* FLAGS_var_enable_sampling, fixed at start-up
          created, \* SamplerCollector::_created (the singleton exists)
          opc,     \* opc[s]: where the StatusVar owning s is in its life
          used,    \* used[s]: Sampler::_used
          mtx,     \* mtx[s]: holder of Sampler::_mutex
          deleted, \* samplers the collector has deleted
          agent,   \* agent[t]: state of t's thread-local agent
          elem,    \* elem[t]: the samplers in the element of t's agent
          global,  \* AgentCombiner::_global_result
          cpc,     \* the collector thread's place in SamplerCollector::run
          todo,    \* agents reset_all_agents has still to visit
          tmp,     \* reset_all_agents' local `tmp'
          root,    \* run()'s local list `root'
          walk,    \* samplers of root the current walk has still to visit
          cur      \* the sampler whose take_sample() is running

vars == <<enableSampling, created, opc, used, mtx, deleted, agent, elem, global,
          cpc, todo, tmp, root, walk, cur>>
ownerVars     == <<opc, used, mtx>>
collectorVars == <<cpc, todo, tmp, root, walk, cur>>

\* Agents on the combiner's _agents list.
Linked == {t \in Threads : agent[t] = "linked"}

\* The combiner's _lock is held across the collector's walk of the agents
\* in reset_all_agents; every other holder takes it inside one step.
CombinerLocked == cpc = "reset"

Init ==
    /\ enableSampling \in SamplingFlags
    /\ created = FALSE
    /\ opc = [s \in Samplers |-> "init"]
    /\ used = [s \in Samplers |-> TRUE]
    /\ mtx = [s \in Samplers |-> "free"]
    /\ deleted = {}
    /\ agent = [t \in Threads |-> "none"]
    /\ elem = [t \in Threads |-> {}]
    /\ global = {}
    /\ cpc = "none"
    /\ todo = {}
    /\ tmp = {}
    /\ root = {}
    /\ walk = {}
    /\ cur = NoSampler

\* CombineSampler: s1->InsertBeforeAsList(s2) joins two circular lists,
\* a NULL list being empty.
CombineSampler(s1, s2) == s1 \cup s2

\* pthread_create(sampling_thread): run() starts; _created = true.
CreateSamplingThread == /\ created' = TRUE
                        /\ cpc' = "boot"

\* get_leaky_singleton<SamplerCollector>(): the first call constructs the
\* collector, whose constructor creates the sampling thread.
GetCollector == IF created THEN UNCHANGED <<created, cpc>>
                           ELSE CreateSamplingThread

-----------------------------------------------------------------------------
(* StatusVar: expose, Sampler::schedule(), ~StatusVar                      *)

\* expose_impl: Variable::expose_impl fails (the name is taken) or
\* FLAGS_save_series is off: no SeriesSampler is created.
ExposeNoSeries(s) ==
    /\ opc[s] = "init"
    /\ opc' = [opc EXCEPT ![s] = "plain"]
    /\ UNCHANGED <<enableSampling, created, used, mtx, deleted, agent, elem, global>>
    /\ UNCHANGED collectorVars

\* ~StatusVar with _series_sampler == NULL: only hide().
DestroyPlain(s) ==
    /\ opc[s] = "plain"
    /\ opc' = [opc EXCEPT ![s] = "gone"]
    /\ UNCHANGED <<enableSampling, created, used, mtx, deleted, agent, elem, global>>
    /\ UNCHANGED collectorVars

\* A thread makes one schedule() call at a time.
InSchedule(t) == \E s \in Samplers : Creator[s] = t /\ opc[s] \in {"append", "modify"}

\* expose_impl succeeded: new SeriesSampler (_used = true) and schedule().
\* schedule() with FLAGS_var_enable_sampling off does nothing.
ScheduleDisabled(s) ==
    /\ opc[s] = "init"
    /\ ~InSchedule(Creator[s])
    /\ ~enableSampling
    /\ agent[Creator[s]] /= "gone"
    /\ opc' = [opc EXCEPT ![s] = "scheduled"]
    /\ UNCHANGED <<enableSampling, created, used, mtx, deleted, agent, elem, global>>
    /\ UNCHANGED collectorVars

\* With sampling on, schedule() gets the collector singleton, then
\* get_or_create_tls_agent(): the thread has no agent for this combiner
\* yet; Agent::reset sets its combiner and the identity element.
ScheduleCreateAgent(s) ==
    /\ opc[s] = "init"
    /\ ~InSchedule(Creator[s])
    /\ enableSampling
    /\ agent[Creator[s]] = "none"
    /\ agent' = [agent EXCEPT ![Creator[s]] = "created"]
    /\ elem' = [elem EXCEPT ![Creator[s]] = {}]
    /\ opc' = [opc EXCEPT ![s] = "append"]
    /\ GetCollector
    /\ UNCHANGED <<enableSampling, used, mtx, deleted, global>>
    /\ UNCHANGED <<todo, tmp, root, walk, cur>>

\* ... then appends the agent to _agents under the combiner's _lock.
ScheduleAppend(s) ==
    /\ opc[s] = "append"
    /\ ~CombinerLocked
    /\ agent' = [agent EXCEPT ![Creator[s]] = "linked"]
    /\ opc' = [opc EXCEPT ![s] = "modify"]
    /\ UNCHANGED <<enableSampling, created, used, mtx, deleted, elem, global>>
    /\ UNCHANGED collectorVars

\* The thread's agent exists already.
ScheduleHasAgent(s) ==
    /\ opc[s] = "init"
    /\ ~InSchedule(Creator[s])
    /\ enableSampling
    /\ agent[Creator[s]] = "linked"
    /\ opc' = [opc EXCEPT ![s] = "modify"]
    /\ UNCHANGED <<enableSampling, created, used, mtx, deleted, agent, elem, global>>
    /\ UNCHANGED collectorVars

\* ElementContainer::modify: CombineSampler inserts s into the element's
\* list under the element lock.
ScheduleModify(s) ==
    /\ opc[s] = "modify"
    /\ elem' = [elem EXCEPT ![Creator[s]] = CombineSampler(@, {s})]
    /\ opc' = [opc EXCEPT ![s] = "scheduled"]
    /\ UNCHANGED <<enableSampling, created, used, mtx, deleted, agent, global>>
    /\ UNCHANGED collectorVars

\* destroy(): _mutex.lock() ...
DestroyLock(s) ==
    /\ opc[s] = "scheduled"
    /\ mtx[s] = "free"
    /\ mtx' = [mtx EXCEPT ![s] = "owner"]
    /\ opc' = [opc EXCEPT ![s] = "destroying"]
    /\ UNCHANGED <<enableSampling, created, used, deleted, agent, elem, global>>
    /\ UNCHANGED collectorVars

\* ... _used = false; _mutex.unlock().  ~StatusVar then sets
\* _series_sampler = NULL and the StatusVar goes away: nothing the
\* sampler points to may be used any more.
DestroyUnlock(s) ==
    /\ opc[s] = "destroying"
    /\ used' = [used EXCEPT ![s] = FALSE]
    /\ mtx' = [mtx EXCEPT ![s] = "free"]
    /\ opc' = [opc EXCEPT ![s] = "freed"]
    /\ UNCHANGED <<enableSampling, created, deleted, agent, elem, global>>
    /\ UNCHANGED collectorVars

\* The thread exits: ~Agent calls commit_and_erase, which under _lock
\* merges the element into _global_result and unlinks the agent.  A
\* thread exits only between calls, so its samplers are scheduled.
ThreadExit(t) ==
    /\ agent[t] \in {"none", "linked"}
    /\ \A s \in Samplers : Creator[s] = t => opc[s] \notin {"init", "append", "modify"}
    /\ ~CombinerLocked
    /\ global' = CombineSampler(global, IF agent[t] = "linked" THEN elem[t] ELSE {})
    /\ agent' = [agent EXCEPT ![t] = "gone"]
    /\ UNCHANGED <<enableSampling, created, ownerVars, deleted, elem>>
    /\ UNCHANGED collectorVars

-----------------------------------------------------------------------------
(* The collector thread: SamplerCollector::run()                          *)

\* run(): sleep FLAGS_var_sampler_thread_start_delay_us, create the
\* usage vars once, then enter the loop with an empty root.
CollectorBoot ==
    /\ cpc = "boot"
    /\ cpc' = "start"
    /\ UNCHANGED <<enableSampling, created, ownerVars, deleted, agent, elem, global,
                   todo, tmp, root, walk, cur>>

\* reset() = reset_all_agents(): take _lock, tmp = _global_result,
\* _global_result = identity, then visit the agents one by one.
ResetBegin ==
    /\ cpc = "start"
    /\ tmp' = global
    /\ global' = {}
    /\ todo' = Linked
    /\ cpc' = "reset"
    /\ UNCHANGED <<enableSampling, created, ownerVars, deleted, agent, elem, root, walk, cur>>

\* Mutant: the element is read (load) but not reset to the identity.
ResetStepKeepElement(t) ==
    /\ cpc = "reset"
    /\ t \in todo
    /\ tmp' = tmp \cup elem[t]
    /\ todo' = todo \ {t}
    /\ UNCHANGED <<enableSampling, created, ownerVars, deleted, agent, elem, global, cpc, root, walk, cur>>

\* element.exchange(&prev, identity) under the element lock; merge prev.
ResetStep(t) ==
    /\ cpc = "reset"
    /\ t \in todo
    /\ tmp' = CombineSampler(tmp, elem[t])
    /\ elem' = [elem EXCEPT ![t] = {}]
    /\ todo' = todo \ {t}
    /\ UNCHANGED <<enableSampling, created, ownerVars, deleted, agent, global, cpc, root, walk, cur>>

\* Release _lock; s->InsertBeforeAsList(&root); start the walk of root.
ResetEnd ==
    /\ cpc = "reset"
    /\ todo = {}
    /\ root' = root \cup tmp
    /\ tmp' = {}
    /\ walk' = root \cup tmp
    /\ cpc' = "walk"
    /\ UNCHANGED <<enableSampling, created, ownerVars, deleted, agent, elem, global, todo, cur>>

\* Mutant: an unused sampler is skipped but neither unlinked nor deleted.
CollectDeleteKeep(s) ==
    /\ cpc = "walk"
    /\ s \in walk
    /\ mtx[s] = "free"
    /\ ~used[s]
    /\ walk' = walk \ {s}
    /\ UNCHANGED <<enableSampling, created, ownerVars, agent, elem, global, cpc, todo, tmp, root, cur, deleted>>

\* s->_mutex.lock(); !s->_used: unlock, RemoveFromList, delete s.
CollectDelete(s) ==
    /\ cpc = "walk"
    /\ s \in walk
    /\ mtx[s] = "free"
    /\ ~used[s]
    /\ walk' = walk \ {s}
    /\ root' = root \ {s}
    /\ deleted' = deleted \cup {s}
    /\ UNCHANGED <<enableSampling, created, ownerVars, agent, elem, global, cpc, todo, tmp, cur>>

\* Mutant: _used is tested and take_sample() run without _mutex.
CollectSampleUnlocked(s) ==
    /\ cpc = "walk"
    /\ s \in walk
    /\ used[s]
    /\ walk' = walk \ {s}
    /\ cur' = s
    /\ cpc' = "sampling"
    /\ UNCHANGED <<enableSampling, created, opc, used, mtx, deleted, agent, elem, global, todo, tmp, root>>

\* s->_mutex.lock(); s->_used: take_sample() runs under the mutex.
CollectSample(s) ==
    /\ cpc = "walk"
    /\ s \in walk
    /\ mtx[s] = "free"
    /\ used[s]
    /\ mtx' = [mtx EXCEPT ![s] = "collector"]
    /\ walk' = walk \ {s}
    /\ cur' = s
    /\ cpc' = "sampling"
    /\ UNCHANGED <<enableSampling, created, opc, used, deleted, agent, elem, global, todo, tmp, root>>

\* Mutant: the mutex is not released after take_sample().
CollectSampleDoneKeepsLock ==
    /\ cpc = "sampling"
    /\ cur' = NoSampler
    /\ cpc' = "walk"
    /\ UNCHANGED <<enableSampling, created, opc, used, mtx, deleted, agent, elem, global, todo, tmp, root, walk>>

\* take_sample() returns; s->_mutex.unlock().
CollectSampleDone ==
    /\ cpc = "sampling"
    /\ mtx' = [mtx EXCEPT ![cur] = "free"]
    /\ cur' = NoSampler
    /\ cpc' = "walk"
    /\ UNCHANGED <<enableSampling, created, opc, used, deleted, agent, elem, global, todo, tmp, root, walk>>

\* The walk is over; sleep until the next second (the loop never stops:
\* the collector is a leaky singleton and _stop is never set).
CollectSleep ==
    /\ cpc = "walk"
    /\ walk = {}
    /\ cpc' = "start"
    /\ UNCHANGED <<enableSampling, created, ownerVars, deleted, agent, elem, global, todo, tmp, root, walk, cur>>

-----------------------------------------------------------------------------

OwnerStep(s) ==
    \/ ExposeNoSeries(s) \/ ScheduleDisabled(s) \/ ScheduleCreateAgent(s)
    \/ ScheduleAppend(s) \/ ScheduleHasAgent(s) \/ ScheduleModify(s)
    \/ DestroyUnlock(s)

CollectorStep ==
    \/ CollectorBoot \/ ResetBegin \/ ResetEnd \/ CollectSampleDone \/ CollectSleep
    \/ \E t \in Threads : ResetStep(t)
    \/ \E s \in Samplers : CollectDelete(s) \/ CollectSample(s)

Next ==
    \/ CollectorStep
    \/ \E s \in Samplers : OwnerStep(s) \/ DestroyLock(s) \/ DestroyPlain(s)
    \/ \E t \in Threads : ThreadExit(t)

\* A StatusVar inside expose(), schedule() or destroy() runs on; the
\* collector thread, once created, runs forever.  Destroying a StatusVar
\* and exiting a thread are the program's choice and not fair.
Fairness ==
    /\ \A s \in Samplers : WF_vars(OwnerStep(s))
    /\ WF_vars(CollectorStep)

Spec == Init /\ [][Next]_vars /\ Fairness

-----------------------------------------------------------------------------
(* Properties                                                              *)

TypeOK ==
    /\ enableSampling \in BOOLEAN
    /\ created \in BOOLEAN
    /\ opc \in [Samplers -> {"init", "plain", "gone", "append", "modify", "scheduled",
                            "destroying", "freed"}]
    /\ used \in [Samplers -> BOOLEAN]
    /\ mtx \in [Samplers -> {"free", "owner", "collector"}]
    /\ deleted \subseteq Samplers
    /\ agent \in [Threads -> {"none", "created", "linked", "gone"}]
    /\ elem \in [Threads -> SUBSET Samplers]
    /\ {global, tmp, root, walk} \subseteq SUBSET Samplers
    /\ cpc \in {"none", "boot", "start", "reset", "walk", "sampling"}
    /\ todo \subseteq Linked
    /\ walk \subseteq root
    \* a mutex is held by the collector only inside take_sample()
    /\ \A s \in Samplers : mtx[s] = "collector" => (cpc = "sampling" /\ cur = s)

\* Every scheduled sampler that is not deleted is on exactly one list the
\* collector will reach (a linked agent's element, _global_result, reset's
\* tmp or run()'s root), and a deleted one on none: no sampler is lost
\* (never sampled nor freed) and none is reachable twice (deleted twice) as
\* it moves through schedule, commit_and_erase, reset_all_agents and run.
Homes(s) ==
    Cardinality({t \in Linked : s \in elem[t]})
      + (IF s \in global THEN 1 ELSE 0)
      + (IF s \in tmp THEN 1 ELSE 0)
      + (IF s \in root THEN 1 ELSE 0)

OnOneList ==
    \A s \in Samplers :
        Homes(s) = IF enableSampling /\ opc[s] \in {"scheduled", "destroying", "freed"}
                                    /\ s \notin deleted
                     THEN 1 ELSE 0

\* take_sample() never runs after its owner's destroy() has returned and
\* the owner has gone: destroy() and the collector exclude each other
\* through Sampler::_mutex and the collector tests _used under it.
SamplingExcludesFree ==
    cpc = "sampling" => opc[cur] /= "freed"

\* With sampling enabled, a sampler whose owner has destroyed it is
\* eventually deleted by the collector thread.
Reclaimed ==
    \A s \in Samplers : (opc[s] = "freed" /\ enableSampling) ~> s \in deleted

\* The comment on SamplerCollector: a sampler to be deleted is marked
\* unused and "the deletion is taken place in the thread" -- whatever the
\* value of FLAGS_var_enable_sampling.
DestroyedAreDeleted ==
    \A s \in Samplers : opc[s] = "freed" ~> s \in deleted

=============================================================================
