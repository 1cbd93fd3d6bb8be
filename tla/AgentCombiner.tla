---------------------------- MODULE AgentCombiner ----------------------------
(***************************************************************************)
(* AgentCombiner of src/eabase/var/detail/combiner.h with op = + (how an  *)
(* Adder uses it), for both ElementContainers: the atomic one (relaxed    *)
(* atomics, modify is a compare-exchange loop) and the generic one (every *)
(* operation under the element's own _lock, plus merge_global through     *)
(* GlobalValue).  Writer threads create their thread-local agent          *)
(* (get_or_create_tls_agent), add 1 to it, commit it with                 *)
(* commit_and_clear, merge it with merge_global (generic element only),   *)
(* and on thread exit commit it (Agent::~Agent -> commit_and_erase).      *)
(* Reader threads call combine_agents() or reset_all_agents(), which walk *)
(* the agent list under _lock one agent at a time while the writers keep  *)
(* modifying.  A combiner can be destroyed (clear_all_agents) and a new *)
(* one get the same AgentId, and with it the same thread-local agents.    *)
(*                                                                         *)
(* Ghosts: updates counts the modify() calls that took effect, returned   *)
(* sums what reset_all_agents() returned, both for the current combiner. *)
(***************************************************************************)
EXTENDS Integers, Sequences, FiniteSets, Functions

CONSTANTS Writers,     \* threads updating through their agent
          Combiners,   \* threads calling combine_agents()
          Resetters,   \* threads calling reset_all_agents()
          MaxModify,   \* MaxModify[w]: modify() calls of writer w
          MaxRead,     \* calls per reader
          MaxCalls,    \* commit_and_clear / merge_global calls per writer
          Atomicals,   \* is_atomical<ElementTp>: the element kinds to check
          MaxGen,      \* combiners constructed, one after the other, on one id
          NoThread

Readers == Combiners \cup Resetters

VARIABLES atomical,    \* which ElementContainer the combiner uses
          gen,         \* the combiner now holding the AgentId (1, 2, ...)
          alive,       \* it is constructed and not yet destroyed
          acomb,       \* acomb[w]: Agent::combiner of w's agent (0 = NULL)
          lock,        \* holder of _lock, or NoThread
          globalResult,\* _global_result
          agents,      \* _agents: the linked agents, in list order
          elem,        \* elem[w]: the element of w's agent
          elock,       \* elock[w]: w holds its element's _lock (generic)
          local,       \* local[w]: the element merge_global's op first saw
          calls,       \* calls[w]: commit_and_clear / merge_global calls
          wpc,         \* wpc[w]: where writer w is
          expected,    \* expected[w]: old_value of w's modify loop
          mods,        \* mods[w]: modify() calls w completed
          rpc,         \* rpc[r]: where reader r is
          idx,         \* idx[r]: next list position r visits
          acc,         \* acc[r]: ret / tmp being accumulated
          reads,       \* reads[r]: calls r completed
          updates,     \* ghost
          returned,    \* ghost
          lastCombine  \* ghost: [ret, lo, hi] of the last combine_agents()

vars == <<atomical, gen, alive, acomb, lock, globalResult, agents, elem, elock, local, calls, wpc, expected, mods, rpc, idx,
          acc, reads, updates, returned, lastCombine>>

Linked == {agents[i] : i \in DOMAIN agents}

Init == /\ atomical \in Atomicals
        /\ gen = 1
        /\ alive = TRUE
        /\ acomb = [w \in Writers |-> 0]
        /\ lock = NoThread
        /\ globalResult = 0
        /\ agents = << >>
        /\ elem = [w \in Writers |-> 0]
        /\ elock = [w \in Writers |-> FALSE]
        /\ local = [w \in Writers |-> 0]
        /\ calls = [w \in Writers |-> 0]
        /\ wpc = [w \in Writers |-> "idle"]
        /\ expected = [w \in Writers |-> 0]
        /\ mods = [w \in Writers |-> 0]
        /\ rpc = [r \in Readers |-> "idle"]
        /\ idx = [r \in Readers |-> 1]
        /\ acc = [r \in Readers |-> 0]
        /\ reads = [r \in Readers |-> 0]
        /\ updates = 0
        /\ returned = 0
        /\ lastCombine = [ret |-> 0, lo |-> 0, hi |-> 0]

readerVars == <<rpc, idx, acc, reads, returned, lastCombine>>
lifeVars == <<gen, alive, acomb>>
agentVars == <<atomical, elock, local, calls, lifeVars>>

\* The generic ElementContainer's load/store/exchange/modify each take the
\* element's _lock (AutoLock) around one access: they wait while the
\* owner holds it inside merge_global.  The atomic one never locks.
ElementUnlocked(a) == ~elock[a]

\* The atomic ElementContainer's load and exchange are one relaxed atomic
\* operation each: they never wait.
ElementAccess(a) == atomical \/ ElementUnlocked(a)

\* Agent::reset(val, c) on the agents ws: combiner = c; element = val.
AgentReset(ws, val, c) ==
    /\ acomb' = [w \in Writers |-> IF w \in ws THEN c ELSE acomb[w]]
    /\ elem' = [w \in Writers |-> IF w \in ws THEN val ELSE elem[w]]

-----------------------------------------------------------------------------
(* get_or_create_tls_agent: an agent still pointing at a combiner is used *)
(* as is (lines 300-302); else agent->reset(identity, this) outside the   *)
(* lock (line 303) ...                                                     *)
CreateAgent(w) ==
    /\ alive
    /\ wpc[w] = "idle"
    /\ IF acomb[w] /= 0
         THEN /\ wpc' = [wpc EXCEPT ![w] = "load"]
              /\ UNCHANGED <<acomb, elem>>
         ELSE /\ AgentReset({w}, 0, gen)
              /\ wpc' = [wpc EXCEPT ![w] = "append"]
    /\ UNCHANGED <<lock, globalResult, agents, expected, mods, updates, readerVars,
                   atomical, elock, local, calls, gen, alive>>

(* ... then _agents.Append(agent) under _lock (lines 305-308).            *)
AppendAgent(w) ==
    /\ wpc[w] = "append"
    /\ lock = NoThread
    /\ agents' = Append(agents, w)
    /\ wpc' = [wpc EXCEPT ![w] = "load"]
    /\ UNCHANGED <<lock, globalResult, elem, expected, mods, updates, readerVars, agentVars>>

(* modify: old_value = _value.load() (line 134).                          *)
ModifyLoad(w) ==
    /\ atomical
    /\ wpc[w] = "load"
    /\ mods[w] < MaxModify[w]
    /\ expected' = [expected EXCEPT ![w] = elem[w]]
    /\ wpc' = [wpc EXCEPT ![w] = "cas"]
    /\ UNCHANGED <<lock, globalResult, agents, elem, mods, updates, readerVars, agentVars>>

(* while (!compare_exchange_weak(old_value, old_value + 1)) recompute     *)
(* (lines 141-145): success publishes the update; failure reloads         *)
(* old_value, which a concurrent reset_all_agents() may have zeroed.  A   *)
(* spurious failure of the weak CAS reloads the value old_value already  *)
(* holds: a stuttering step.                                               *)
ModifyCas(w) ==
    /\ wpc[w] = "cas"
    /\ IF elem[w] = expected[w]
         THEN /\ elem' = [elem EXCEPT ![w] = expected[w] + 1]
              /\ mods' = [mods EXCEPT ![w] = @ + 1]
              /\ updates' = updates + 1
              /\ wpc' = [wpc EXCEPT ![w] = "load"]
              /\ UNCHANGED expected
         ELSE /\ expected' = [expected EXCEPT ![w] = elem[w]]
              /\ UNCHANGED <<elem, mods, updates, wpc>>
    /\ UNCHANGED <<lock, globalResult, agents, readerVars, agentVars>>

(* Mutant: the agent is committed but not unlinked (line 275 lost).     *)
CommitAndEraseKeepsLink(w) ==
    /\ wpc[w] = "load"
    /\ lock = NoThread
    /\ globalResult' = globalResult + elem[w]
    /\ wpc' = [wpc EXCEPT ![w] = "exited"]
    /\ UNCHANGED <<lock, agents, elem, expected, mods, updates, readerVars, agentVars>>

(* Thread exit: ~Agent -> commit_and_erase under _lock (lines 265-276):  *)
(* fold the element into _global_result and unlink the agent; then       *)
(* combiner = NULL (lines 163-167).                                       *)
CommitAndErase(w) ==
    /\ wpc[w] = "load"
    /\ lock = NoThread
    /\ globalResult' = globalResult + elem[w]
    /\ agents' = SelectSeq(agents, LAMBDA a : a /= w)
    /\ acomb' = [acomb EXCEPT ![w] = 0]
    /\ wpc' = [wpc EXCEPT ![w] = "exited"]
    /\ UNCHANGED <<lock, elem, expected, mods, updates, readerVars,
                   atomical, elock, local, calls, gen, alive>>

(* Generic element: modify(op, 1) under the element's AutoLock (89-93).  *)
ModifyLocked(w) ==
    /\ ~atomical
    /\ wpc[w] = "load"
    /\ mods[w] < MaxModify[w]
    /\ elem' = [elem EXCEPT ![w] = @ + 1]
    /\ mods' = [mods EXCEPT ![w] = @ + 1]
    /\ updates' = updates + 1
    /\ UNCHANGED <<lock, globalResult, agents, wpc, expected, agentVars, readerVars>>

(* commit_and_clear under _lock: exchange the element with identity and  *)
(* fold the previous value into _global_result (lines 279-287).          *)
CommitAndClear(w) ==
    /\ wpc[w] = "load"
    /\ calls[w] < MaxCalls
    /\ lock = NoThread
    /\ globalResult' = globalResult + elem[w]
    /\ elem' = [elem EXCEPT ![w] = 0]
    /\ calls' = [calls EXCEPT ![w] = @ + 1]
    /\ UNCHANGED <<atomical, elock, local, lock, agents, wpc, expected, mods,
                   updates, readerVars, lifeVars>>

(* Agent::merge_global -> ElementContainer::merge_global (202-206, 97-99):*)
(* take the element lock and call op(global_value, _value); the op, as   *)
(* the comment at 177-198 writes it, first tests local_value ...          *)
MergeBegin(w) ==
    /\ ~atomical
    /\ wpc[w] = "load"
    /\ calls[w] < MaxCalls
    /\ elock' = [elock EXCEPT ![w] = TRUE]
    /\ local' = [local EXCEPT ![w] = elem[w]]
    /\ calls' = [calls EXCEPT ![w] = @ + 1]
    /\ wpc' = [wpc EXCEPT ![w] = "release"]
    /\ UNCHANGED <<atomical, lock, globalResult, agents, elem, expected, mods,
                   updates, readerVars, lifeVars>>

(* Mutant: GlobalValue::lock() keeps the element lock while it waits for *)
(* the combiner's.                                                        *)
MergeKeepsElementLock(w) ==
    /\ wpc[w] = "release"
    /\ wpc' = [wpc EXCEPT ![w] = "acquire"]
    /\ UNCHANGED <<atomical, elock, local, calls, lock, globalResult, agents,
                   elem, expected, mods, updates, readerVars, lifeVars>>

(* ... then GlobalValue::lock(): _a->element._lock.Release() (line 52) ...*)
MergeRelease(w) ==
    /\ wpc[w] = "release"
    /\ elock' = [elock EXCEPT ![w] = FALSE]
    /\ wpc' = [wpc EXCEPT ![w] = "acquire"]
    /\ UNCHANGED <<atomical, local, calls, lock, globalResult, agents, elem,
                   expected, mods, updates, readerVars, lifeVars>>

(* Mutant: the op merges the value it tested before lock(), not the      *)
(* element as it is once the combiner lock is held.                       *)
MergeStaleValue(w) ==
    /\ wpc[w] = "acquire"
    /\ lock = NoThread
    /\ lock' = w
    /\ globalResult' = globalResult + local[w]
    /\ elem' = [elem EXCEPT ![w] = 0]
    /\ wpc' = [wpc EXCEPT ![w] = "unlock"]
    /\ UNCHANGED <<atomical, elock, local, calls, agents, expected, mods,
                   updates, readerVars, lifeVars>>

(* ... _c->_lock.Acquire() (53-54); with the combiner locked the op     *)
(* merges local_value into the result g points to and resets it (lines  *)
(* 184-197).  The element may have been reset in the window after 52.    *)
MergeAcquire(w) ==
    /\ wpc[w] = "acquire"
    /\ lock = NoThread
    /\ lock' = w
    /\ globalResult' = globalResult + elem[w]
    /\ elem' = [elem EXCEPT ![w] = 0]
    /\ wpc' = [wpc EXCEPT ![w] = "unlock"]
    /\ UNCHANGED <<atomical, elock, local, calls, agents, expected, mods,
                   updates, readerVars, lifeVars>>

(* GlobalValue::unlock(): release _lock, re-take the element lock (58-61);*)
(* the op returns and merge_global releases the element lock (line 100). *)
MergeUnlock(w) ==
    /\ wpc[w] = "unlock"
    /\ lock' = NoThread
    /\ wpc' = [wpc EXCEPT ![w] = "load"]
    /\ UNCHANGED <<atomical, elock, local, calls, globalResult, agents, elem,
                   expected, mods, updates, readerVars, lifeVars>>

-----------------------------------------------------------------------------
(* Mutant: ret starts from identity instead of _global_result.          *)
CombineBeginNoGlobal(r) ==
    /\ alive
    /\ r \in Combiners
    /\ rpc[r] = "idle"
    /\ reads[r] < MaxRead
    /\ lock = NoThread
    /\ lock' = r
    /\ acc' = [acc EXCEPT ![r] = 0]
    /\ idx' = [idx EXCEPT ![r] = 1]
    /\ rpc' = [rpc EXCEPT ![r] = "combine"]
    /\ lastCombine' = [lastCombine EXCEPT !.lo = updates - returned]
    /\ UNCHANGED <<globalResult, agents, elem, wpc, expected, mods, reads,
                   updates, returned, agentVars>>

(* combine_agents: ret = _global_result under _lock (lines 233-236).      *)
CombineBegin(r) ==
    /\ alive
    /\ r \in Combiners
    /\ rpc[r] = "idle"
    /\ reads[r] < MaxRead
    /\ lock = NoThread
    /\ lock' = r
    /\ acc' = [acc EXCEPT ![r] = globalResult]
    /\ idx' = [idx EXCEPT ![r] = 1]
    /\ rpc' = [rpc EXCEPT ![r] = "combine"]
    /\ lastCombine' = [lastCombine EXCEPT !.lo = updates - returned]
    /\ UNCHANGED <<globalResult, agents, elem, wpc, expected, mods, reads,
                   updates, returned, agentVars>>

(* Load one agent's element into ret; unlock after the last (237-242).   *)
CombineStep(r) ==
    /\ rpc[r] = "combine"
    /\ IF idx[r] <= Len(agents)
         THEN /\ ElementAccess(agents[idx[r]])
              /\ acc' = [acc EXCEPT ![r] = @ + elem[agents[idx[r]]]]
              /\ idx' = [idx EXCEPT ![r] = @ + 1]
              /\ UNCHANGED <<lock, rpc, reads, lastCombine>>
         ELSE /\ lock' = NoThread
              /\ rpc' = [rpc EXCEPT ![r] = "idle"]
              /\ reads' = [reads EXCEPT ![r] = @ + 1]
              /\ lastCombine' = [lastCombine EXCEPT !.ret = acc[r],
                                                    !.hi = updates - returned]
              /\ UNCHANGED <<acc, idx>>
    /\ UNCHANGED <<globalResult, agents, elem, wpc, expected, mods, updates, returned, agentVars>>

(* reset_all_agents: tmp = _global_result; _global_result = identity      *)
(* under _lock (lines 251-255).                                            *)
ResetBegin(r) ==
    /\ alive
    /\ r \in Resetters
    /\ rpc[r] = "idle"
    /\ reads[r] < MaxRead
    /\ lock = NoThread
    /\ lock' = r
    /\ acc' = [acc EXCEPT ![r] = globalResult]
    /\ globalResult' = 0
    /\ idx' = [idx EXCEPT ![r] = 1]
    /\ rpc' = [rpc EXCEPT ![r] = "reset"]
    /\ UNCHANGED <<agents, elem, wpc, expected, mods, reads, updates, returned, lastCombine, agentVars>>

(* Exchange one agent's element with identity and add it to tmp; after   *)
(* the last, unlock and return tmp (lines 256-261).                       *)
ResetStep(r) ==
    /\ rpc[r] = "reset"
    /\ IF idx[r] <= Len(agents)
         THEN LET a == agents[idx[r]] IN
              /\ ElementAccess(a)
              /\ elem' = [elem EXCEPT ![a] = 0]
              /\ acc' = [acc EXCEPT ![r] = @ + elem[a]]
              /\ idx' = [idx EXCEPT ![r] = @ + 1]
              /\ UNCHANGED <<lock, rpc, reads, returned>>
         ELSE /\ lock' = NoThread
              /\ rpc' = [rpc EXCEPT ![r] = "idle"]
              /\ reads' = [reads EXCEPT ![r] = @ + 1]
              /\ returned' = returned + acc[r]
              /\ UNCHANGED <<elem, acc, idx>>
    /\ UNCHANGED <<globalResult, agents, wpc, expected, mods, updates, lastCombine, agentVars>>

-----------------------------------------------------------------------------
(* Mutant: clear_all_agents unlinks and clears the agents but leaves     *)
(* their combiner pointers set.                                           *)
ClearAllAgentsKeepCombiner ==
    /\ elem' = [w \in Writers |-> IF w \in Linked THEN 0 ELSE elem[w]]
    /\ agents' = << >>
    /\ UNCHANGED acomb

(* clear_all_agents under _lock: reset(ElementTp(), NULL) and unlink     *)
(* every agent on the list (lines 312-324).                               *)
ClearAllAgents ==
    /\ AgentReset(Linked, 0, 0)
    /\ agents' = << >>

(* ~AgentCombiner: clear_all_agents, then give the AgentId back (lines   *)
(* 224-230).  Destroying a combiner that a thread is inside is a use     *)
(* after free, so no reader and no writer is in a call.  A thread whose  *)
(* agent was cleared finds combiner NULL on its next call: it is idle.   *)
DestroyCombiner ==
    /\ alive
    /\ lock = NoThread
    /\ \A r \in Readers : rpc[r] = "idle"
    /\ \A w \in Writers : wpc[w] \in {"idle", "load", "exited"}
    /\ ClearAllAgents
    /\ alive' = FALSE
    /\ wpc' = [w \in Writers |-> IF wpc[w] = "load" THEN "idle" ELSE wpc[w]]
    /\ UNCHANGED <<lock, globalResult, expected, mods, updates, readerVars,
                   atomical, elock, local, calls, gen>>

(* A new AgentCombiner gets the freed AgentId from create_new_agent and  *)
(* starts with _global_result = identity (lines 214-222); the ghosts     *)
(* count for the new combiner.                                            *)
NewCombiner ==
    /\ ~alive
    /\ gen < MaxGen
    /\ gen' = gen + 1
    /\ alive' = TRUE
    /\ globalResult' = 0
    /\ updates' = 0
    /\ returned' = 0
    /\ lastCombine' = [ret |-> 0, lo |-> 0, hi |-> 0]
    /\ UNCHANGED <<lock, agents, elem, wpc, expected, mods, rpc, idx, acc, reads,
                   atomical, elock, local, calls, acomb>>

-----------------------------------------------------------------------------
WriterStep(w) == \/ CreateAgent(w) \/ AppendAgent(w) \/ ModifyLoad(w)
                 \/ ModifyCas(w) \/ ModifyLocked(w) \/ CommitAndClear(w)
                 \/ MergeBegin(w) \/ MergeRelease(w) \/ MergeAcquire(w)
                 \/ MergeUnlock(w) \/ CommitAndErase(w)

Next == \/ \E w \in Writers : WriterStep(w)
        \/ \E r \in Readers : CombineBegin(r) \/ CombineStep(r)
                              \/ ResetBegin(r) \/ ResetStep(r)
        \/ DestroyCombiner \/ NewCombiner

(* Threads keep running; a reader inside a call finishes it.             *)
Fairness == /\ \A w \in Writers : WF_vars(WriterStep(w))
            /\ \A r \in Readers : WF_vars(CombineStep(r)) /\ WF_vars(ResetStep(r))

Spec == Init /\ [][Next]_vars /\ Fairness

-----------------------------------------------------------------------------
(* Type invariant; the list links each agent once, and only agents of    *)
(* threads that have not exited.                                           *)
TypeOK ==
    /\ atomical \in BOOLEAN
    /\ lock \in Readers \cup Writers \cup {NoThread}
    /\ globalResult \in Nat
    /\ elem \in [Writers -> Nat]
    /\ wpc \in [Writers -> {"idle", "append", "load", "cas", "release",
                            "acquire", "unlock", "exited"}]
    /\ elock \in [Writers -> BOOLEAN]
    /\ acomb \in [Writers -> 0..MaxGen]
    /\ rpc \in [Readers -> {"idle", "combine", "reset"}]
    /\ agents \in Seq(Writers) /\ IsInjective(agents)
    /\ \A w \in Linked : wpc[w] \notin {"idle", "append", "exited"}

(* Every update is counted exactly once: the modify() calls that took    *)
(* effect equal what reset_all_agents() returned, plus _global_result,   *)
(* plus the linked elements, plus what a reset in progress has gathered, *)
(* whatever the interleaving of the CAS loops with the resets' exchanges,*)
(* also for a combiner that reuses the AgentId of a destroyed one.        *)
Conservation ==
    alive => updates = returned + globalResult + SumFunctionOnSet(elem, Linked)
                         + SumFunctionOnSet(acc, {r \in Resetters : rpc[r] = "reset"})

(* A completed combine_agents() returns a value between the number of    *)
(* updates since the last reset when it started and when it ended.        *)
CombineWithinUpdates ==
    (\A r \in Combiners : rpc[r] /= "combine")
        => lastCombine.lo <= lastCombine.ret /\ lastCombine.ret <= lastCombine.hi

(* Every modify() and merge_global() returns: the CAS loop cannot be     *)
(* starved by resets, and merge_global, which holds the element lock and *)
(* needs the combiner lock while readers hold the combiner lock and need *)
(* element locks, cannot deadlock with them.                              *)
ModifyReturns == \A w \in Writers : wpc[w] \in {"cas", "release", "acquire", "unlock"}
                                      ~> wpc[w] = "load"

=============================================================================
