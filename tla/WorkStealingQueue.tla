-------------------------- MODULE WorkStealingQueue --------------------------
(***************************************************************************)
(* The Chase-Lev deque WorkStealingQueue<fiber_t> of                      *)
(* src/eabase/fiber/work_stealing_queue.h, one per TaskGroup.  The owner  *)
(* worker calls push() and pop(); any other worker calls steal().         *)
(*                                                                         *)
(* Every load, store and CAS of _top/_bottom is one atomic step; the      *)
(* seq_cst fences and CASes of the code make sequential consistency the   *)
(* right memory model for the indices.  A step may merge an owner-only    *)
(* access (its own _bottom) with the shared access next to it.  Indices   *)
(* are size_t starting at 1 and never come near 2^64, so they are Nat.    *)
(***************************************************************************)
EXTENDS Integers, Sequences

CONSTANTS Owner, Thieves, Capacity, MaxPush

ASSUME /\ Owner \notin Thieves
       /\ Capacity \in {1, 2, 4, 8}
       /\ MaxPush \in Nat

Items    == 1 .. MaxPush
NoItem   == 0          \* the value of a default-constructed fiber_t slot
RetTrue  == -2
RetFalse == -1
Threads  == {Owner} \cup Thieves

VARIABLES bottom,   \* _bottom
          top,      \* _top
          buffer,   \* _buffer[0 .. Capacity-1]
          pushed,   \* items pushed so far (the next push writes pushed+1)
          pc,       \* where each thread is inside its current call
          lb,       \* the local `b' of the call in progress
          lt,       \* the local `t' of the call in progress
          lval,     \* the item a call has read from the buffer, before its CAS
          ret,      \* ret[th]: what th's last call returned
          taken     \* taken[i]: how many calls returned item i (history)

vars == <<bottom, top, buffer, pushed, pc, lb, lt, lval, ret, taken>>

Slot(i) == i % Capacity            \* i & (_capacity - 1)

Init == /\ bottom = 1
        /\ top = 1
        /\ buffer = [s \in 0 .. Capacity - 1 |-> NoItem]
        /\ pushed = 0
        /\ pc = [th \in Threads |-> "idle"]
        /\ lb = [th \in Threads |-> 0]
        /\ lt = [th \in Threads |-> 0]
        /\ lval = [th \in Threads |-> NoItem]
        /\ ret = [th \in Threads |-> RetTrue]
        /\ taken = [i \in Items |-> 0]

Return(th, r) == /\ pc' = [pc EXCEPT ![th] = "idle"]
                 /\ ret' = [ret EXCEPT ![th] = r]

Took(i) == taken' = [taken EXCEPT ![i] = @ + 1]

-----------------------------------------------------------------------------
(* push(x): load b and t; full queue returns false; else write the slot   *)
(* and publish it by storing b+1.                                          *)
PushBegin ==
    /\ pc[Owner] = "idle"
    /\ pushed < MaxPush
    /\ IF bottom >= top + Capacity
         THEN /\ Return(Owner, RetFalse)
              /\ UNCHANGED <<lb, bottom>>
         ELSE /\ lb' = [lb EXCEPT ![Owner] = bottom]
              /\ pc' = [pc EXCEPT ![Owner] = "push"]
              /\ UNCHANGED <<ret, bottom>>
    /\ UNCHANGED <<top, buffer, pushed, lt, lval, taken>>

PushStore ==
    /\ pc[Owner] = "push"
    /\ buffer' = [buffer EXCEPT ![Slot(lb[Owner])] = pushed + 1]
    /\ bottom' = lb[Owner] + 1
    /\ pushed' = pushed + 1
    /\ Return(Owner, RetTrue)
    /\ UNCHANGED <<top, lb, lt, lval, taken>>

(* pop(val): fast emptiness check, then claim the bottom slot by storing  *)
(* b-1, fence, reload t.  A single remaining item is contested with the   *)
(* stealers by a CAS on _top; _bottom is restored whatever its outcome.   *)
\* Bug variant: the fast check treats a one-item queue as empty
PopBeginOffByOne ==
    /\ pc[Owner] = "idle"
    /\ IF top + 1 >= bottom
         THEN /\ Return(Owner, RetFalse)
              /\ UNCHANGED lb
         ELSE /\ lb' = [lb EXCEPT ![Owner] = bottom]
              /\ pc' = [pc EXCEPT ![Owner] = "pop_store"]
              /\ UNCHANGED ret
    /\ UNCHANGED <<bottom, top, buffer, pushed, lt, lval, taken>>

PopBegin ==
    /\ pc[Owner] = "idle"
    /\ IF top >= bottom
         THEN /\ Return(Owner, RetFalse)
              /\ UNCHANGED lb
         ELSE /\ lb' = [lb EXCEPT ![Owner] = bottom]
              /\ pc' = [pc EXCEPT ![Owner] = "pop_store"]
              /\ UNCHANGED ret
    /\ UNCHANGED <<bottom, top, buffer, pushed, lt, lval, taken>>

PopStore ==
    /\ pc[Owner] = "pop_store"
    /\ bottom' = lb[Owner] - 1
    /\ pc' = [pc EXCEPT ![Owner] = "pop_load"]
    /\ UNCHANGED <<top, buffer, pushed, lb, lt, lval, ret, taken>>

\* Bug variant: the last item is taken without the CAS against stealers
PopLoadNoCas ==
    LET newb == lb[Owner] - 1
        val  == buffer[Slot(newb)]
    IN /\ pc[Owner] = "pop_load"
       /\ lt' = [lt EXCEPT ![Owner] = top]
       /\ IF top > newb
            THEN /\ bottom' = lb[Owner]
                 /\ Return(Owner, RetFalse)
                 /\ UNCHANGED taken
            ELSE /\ Return(Owner, val)
                 /\ Took(val)
                 /\ UNCHANGED bottom
       /\ UNCHANGED <<top, buffer, pushed, lb, lval>>

PopLoad ==
    LET newb == lb[Owner] - 1
        val  == buffer[Slot(newb)]
    IN /\ pc[Owner] = "pop_load"
       /\ lt' = [lt EXCEPT ![Owner] = top]
       /\ CASE top > newb ->
                 /\ bottom' = lb[Owner]
                 /\ Return(Owner, RetFalse)
                 /\ UNCHANGED <<lval, taken>>
            [] top < newb ->
                 /\ Return(Owner, val)
                 /\ Took(val)
                 /\ UNCHANGED <<bottom, lval>>
            [] top = newb ->
                 /\ lval' = [lval EXCEPT ![Owner] = val]
                 /\ pc' = [pc EXCEPT ![Owner] = "pop_cas"]
                 /\ UNCHANGED <<bottom, ret, taken>>
       /\ UNCHANGED <<top, buffer, pushed, lb>>

PopCas ==
    LET t == lt[Owner]
    IN /\ pc[Owner] = "pop_cas"
       /\ bottom' = lb[Owner]
       /\ IF top = t
            THEN /\ top' = t + 1
                 /\ Return(Owner, lval[Owner])
                 /\ Took(lval[Owner])
            ELSE /\ Return(Owner, RetFalse)
                 /\ UNCHANGED <<top, taken>>
       /\ UNCHANGED <<buffer, pushed, lb, lt, lval>>

(* steal(val): load t, load b (may fail falsely), then loop: fence, load  *)
(* b, read slot t, CAS _top from t to t+1; a failed CAS refreshes t.      *)
StealBegin(th) ==
    /\ pc[th] = "idle"
    /\ lt' = [lt EXCEPT ![th] = top]
    /\ pc' = [pc EXCEPT ![th] = "steal_b"]
    /\ UNCHANGED <<bottom, top, buffer, pushed, lb, lval, ret, taken>>

StealCheck(th) ==
    /\ pc[th] = "steal_b"
    /\ IF lt[th] >= bottom
         THEN Return(th, RetFalse)
         ELSE /\ pc' = [pc EXCEPT ![th] = "steal_loop"]
              /\ UNCHANGED ret
    /\ UNCHANGED <<bottom, top, buffer, pushed, lb, lt, lval, taken>>

\* Bug variant: the stealer reads the slot at b instead of t
StealReadBottomSlot(th) ==
    /\ pc[th] = "steal_loop"
    /\ IF lt[th] >= bottom
         THEN /\ Return(th, RetFalse)
              /\ UNCHANGED lval
         ELSE /\ lval' = [lval EXCEPT ![th] = buffer[Slot(bottom)]]
              /\ pc' = [pc EXCEPT ![th] = "steal_cas"]
              /\ UNCHANGED ret
    /\ UNCHANGED <<bottom, top, buffer, pushed, lb, lt, taken>>

StealRead(th) ==
    /\ pc[th] = "steal_loop"
    /\ IF lt[th] >= bottom
         THEN /\ Return(th, RetFalse)
              /\ UNCHANGED lval
         ELSE /\ lval' = [lval EXCEPT ![th] = buffer[Slot(lt[th])]]
              /\ pc' = [pc EXCEPT ![th] = "steal_cas"]
              /\ UNCHANGED ret
    /\ UNCHANGED <<bottom, top, buffer, pushed, lb, lt, taken>>

\* Bug variant: a failed CAS does not refresh the local t
StealCasStaleT(th) ==
    /\ pc[th] = "steal_cas"
    /\ IF top = lt[th]
         THEN /\ top' = lt[th] + 1
              /\ Return(th, lval[th])
              /\ Took(lval[th])
         ELSE /\ pc' = [pc EXCEPT ![th] = "steal_loop"]
              /\ UNCHANGED <<top, ret, taken>>
    /\ UNCHANGED <<bottom, buffer, pushed, lb, lt, lval>>

StealCas(th) ==
    /\ pc[th] = "steal_cas"
    /\ IF top = lt[th]
         THEN /\ top' = lt[th] + 1
              /\ Return(th, lval[th])
              /\ Took(lval[th])
              /\ UNCHANGED lt
         ELSE /\ lt' = [lt EXCEPT ![th] = top]
              /\ pc' = [pc EXCEPT ![th] = "steal_loop"]
              /\ UNCHANGED <<top, ret, taken>>
    /\ UNCHANGED <<bottom, buffer, pushed, lb, lval>>

-----------------------------------------------------------------------------
OwnerStep == PushBegin \/ PushStore \/ PopBegin \/ PopStore \/ PopLoad \/ PopCas

ThiefStep(th) == StealBegin(th) \/ StealCheck(th) \/ StealRead(th) \/ StealCas(th)

Next == OwnerStep \/ \E th \in Thieves : ThiefStep(th)

(* Workers are OS threads: one that is inside a call keeps being         *)
(* scheduled.  Starting a new call is up to the caller, so not fair.      *)
Fairness ==
    /\ WF_vars(PushStore \/ PopStore \/ PopLoad \/ PopCas)
    /\ \A th \in Thieves : WF_vars(StealCheck(th) \/ StealRead(th) \/ StealCas(th))

Spec == Init /\ [][Next]_vars /\ Fairness

-----------------------------------------------------------------------------
(* The bottom of the abstract deque.  Between pop()'s store of b-1 and    *)
(* its decision, the bottom item is still in the deque: stealers may take *)
(* it, and the owner only owns it once it has seen t < b-1 or won the CAS.*)
AbsBottom == IF pc[Owner] \in {"pop_load", "pop_cas"} THEN bottom + 1 ELSE bottom

Contents == [k \in 1 .. (AbsBottom - top) |-> buffer[Slot(top + k - 1)]]

(* Type invariant.  Note that ret excludes NoItem: a pop() or steal()    *)
(* that returns true has written a pushed fiber id to *val, never the    *)
(* content of a slot no push() has written.                               *)
TypeOK ==
    /\ bottom \in Nat /\ top \in Nat
    /\ buffer \in [0 .. Capacity - 1 -> Items \cup {NoItem}]
    /\ pushed \in 0 .. MaxPush
    /\ pc \in [Threads -> {"idle", "push", "pop_store", "pop_load", "pop_cas",
                           "steal_b", "steal_loop", "steal_cas"}]
    /\ lb \in [Threads -> Nat] /\ lt \in [Threads -> Nat]
    /\ lval \in [Threads -> Items \cup {NoItem}]
    /\ ret \in [Threads -> Items \cup {RetTrue, RetFalse}]
    /\ taken \in [Items -> Nat]

(* Every pushed fiber is handed out exactly once: either it is still in   *)
(* the deque, or exactly one pop()/steal() has returned it.  Catches the  *)
(* owner and a stealer both taking the last task, and a push that         *)
(* overwrites a slot a stealer has not yet claimed.                       *)
ExactlyOnce ==
    \A i \in 1 .. pushed :
        taken[i] + Len(SelectSeq(Contents, LAMBDA x : x = i)) = 1

(* The queue implements the atomic deque StealDeque: every call takes     *)
(* effect at one instant in between its invocation and its return, pop()  *)
(* fails only when the deque is empty and push() only when it is full.    *)
Abs == INSTANCE StealDeque WITH deq <- Contents

AbsSpec == Abs!Spec

(* Every steal() and every pop() that has begun returns (lock-freedom of  *)
(* the CAS retry loop: a failed CAS means another call took an item).     *)
CallsReturn == \A th \in Threads : pc[th] /= "idle" ~> pc[th] = "idle"

=============================================================================
