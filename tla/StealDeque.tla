----------------------------- MODULE StealDeque -----------------------------
(***************************************************************************)
(* What WorkStealingQueue<T> (src/eabase/fiber/work_stealing_queue.h)     *)
(* promises, as an atomic deque.  The owner worker pushes and pops at the  *)
(* bottom (LIFO), every other worker steals at the top (FIFO).  Each call  *)
(* takes effect at one instant; `ret' records what the call returned:     *)
(*   RetTrue   push() returned true,                                       *)
(*   RetFalse  push()/pop()/steal() returned false,                        *)
(*   an item   pop()/steal() returned true and wrote that item to *val.    *)
(* push() may fail only on a full queue, pop() only on an empty one;      *)
(* steal() may fail at any time ("Permit false negative").                *)
(***************************************************************************)
EXTENDS Integers, Sequences

CONSTANTS Owner,     \* the worker owning the queue (its TaskGroup)
          Thieves,   \* the other workers, which only steal
          Capacity,  \* capacity given to init(), a power of 2
          MaxPush    \* bound on the number of items ever pushed

Items    == 1 .. MaxPush
RetTrue  == -2
RetFalse == -1
Threads  == {Owner} \cup Thieves

VARIABLES deq,     \* the items in the queue, top first, bottom last
          ret,     \* ret[th]: what th's last call returned
          pushed   \* number of items pushed so far; item k is the k-th

vars == <<deq, ret, pushed>>

Init == /\ deq = << >>
        /\ ret = [th \in Threads |-> RetTrue]
        /\ pushed = 0

\* push(x) with x the next fresh item
Push == /\ pushed < MaxPush
        /\ Len(deq) < Capacity
        /\ deq' = Append(deq, pushed + 1)
        /\ pushed' = pushed + 1
        /\ ret' = [ret EXCEPT ![Owner] = RetTrue]

PushFull == /\ Len(deq) >= Capacity
            /\ ret' = [ret EXCEPT ![Owner] = RetFalse]
            /\ UNCHANGED <<deq, pushed>>

\* pop() takes the bottom, i.e. the item pushed last
Pop == /\ deq /= << >>
       /\ ret' = [ret EXCEPT ![Owner] = deq[Len(deq)]]
       /\ deq' = SubSeq(deq, 1, Len(deq) - 1)
       /\ UNCHANGED pushed

PopEmpty == /\ deq = << >>
            /\ ret' = [ret EXCEPT ![Owner] = RetFalse]
            /\ UNCHANGED <<deq, pushed>>

\* steal() takes the top, i.e. the oldest item
Steal(th) == /\ deq /= << >>
             /\ ret' = [ret EXCEPT ![th] = Head(deq)]
             /\ deq' = Tail(deq)
             /\ UNCHANGED pushed

StealFail(th) == /\ ret' = [ret EXCEPT ![th] = RetFalse]
                 /\ UNCHANGED <<deq, pushed>>

Next == \/ Push \/ PushFull \/ Pop \/ PopEmpty
        \/ \E th \in Thieves : Steal(th) \/ StealFail(th)

Spec == Init /\ [][Next]_vars

=============================================================================
