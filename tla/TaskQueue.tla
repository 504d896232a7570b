------------------------------ MODULE TaskQueue ------------------------------
(***************************************************************************)
(* TaskQueue (src/src/xrCore/Threading/TaskManager.cpp): the ring of       *)
(* TASK_STORAGE_SIZE slots every worker keeps its pushed tasks in.  Only   *)
(* the worker it belongs to pushes (PushTask takes the thread-local one);  *)
(* the worker itself and every thief pop.  Each access to shared memory is *)
(* a step: a pop clears its slot only after it has moved the head past it, *)
(* and in between the slot still shows the task that was taken.            *)
(*                                                                         *)
(* The k-th task pushed is the number k, counted from zero.                *)
(***************************************************************************)
EXTENDS Integers

CONSTANTS
    Threads,    \* the worker the queue belongs to, and the thieves
    Owner,      \* that worker
    None,       \* nullptr
    Size,       \* TASK_STORAGE_SIZE: 4096
    Reach,      \* pushed tasks are at most this far ahead of the oldest slot in use
    MaxPushes   \* bound: tasks pushed

ASSUME TaskQueueAssumption ==
    /\ Owner \in Threads
    /\ Size \in Nat \ {0}
    /\ Reach \in Nat /\ MaxPushes \in Nat
    /\ None \notin Nat

VARIABLES
    m_head_pos, \* position of the oldest task
    m_tail_pos, \* positions given to pushes
    m_storage,  \* slot -> task
    pusher,     \* where push stands: idle, or store
    pc,         \* thread -> where its pop stands
    head_pos,   \* thread -> the local of pop
    task,       \* thread -> the local of pop, afterwards the task it returned
    times       \* task -> how often a pop returned it

vars == <<m_head_pos, m_tail_pos, m_storage, pusher, pc, head_pos, task, times>>

Slots == 0..(Size - 1)
Tasks == 0..(MaxPushes - 1)

Init ==
    /\ m_head_pos = 0 /\ m_tail_pos = 0
    /\ m_storage = [s \in Slots |-> None]
    /\ pusher = "idle"
    /\ pc = [t \in Threads |-> "idle"]
    /\ head_pos = [t \in Threads |-> 0]
    /\ task = [t \in Threads |-> None]
    /\ times = [k \in Tasks |-> 0]

-----------------------------------------------------------------------------

\* Positions whose slot is in use: the tasks in the queue, and the slots that
\* a pop has still to clear.
InUse == m_head_pos..(m_tail_pos - 1) \cup {head_pos[t] : t \in {u \in Threads : pc[u] = "clear"}}

\* push: a position first.  Nothing but the callers' moderation keeps the ring
\* from overflowing (VERIFY2 is empty outside DEBUG): Reach says how far it goes.
PushReserve ==
    /\ pusher = "idle" /\ pc[Owner] = "idle" /\ m_tail_pos < MaxPushes
    /\ \A p \in InUse : m_tail_pos - p < Reach
    /\ m_tail_pos' = m_tail_pos + 1
    /\ pusher' = "store"
    /\ UNCHANGED <<m_head_pos, m_storage, pc, head_pos, task, times>>

PushStore ==
    /\ pusher = "store"
    /\ m_storage' = [m_storage EXCEPT ![(m_tail_pos - 1) % Size] = m_tail_pos - 1]
    /\ pusher' = "idle"
    /\ UNCHANGED <<m_head_pos, m_tail_pos, pc, head_pos, task, times>>

\* pop.
LoadHead(t) ==
    /\ pc[t] = "idle" /\ (t = Owner => pusher = "idle")
    /\ pc' = [pc EXCEPT ![t] = "read"]
    /\ head_pos' = [head_pos EXCEPT ![t] = m_head_pos]
    /\ task' = [task EXCEPT ![t] = None]
    /\ UNCHANGED <<m_head_pos, m_tail_pos, m_storage, pusher, times>>

\* Mutant: an empty slot is taken for a task.
ReadSlotBlindly(t) ==
    /\ pc[t] = "read"
    /\ task' = [task EXCEPT ![t] = m_storage[head_pos[t] % Size]]
    /\ pc' = [pc EXCEPT ![t] = "cas"]
    /\ UNCHANGED <<m_head_pos, m_tail_pos, m_storage, pusher, head_pos, times>>

ReadSlot(t) ==
    /\ pc[t] = "read"
    /\ task' = [task EXCEPT ![t] = m_storage[head_pos[t] % Size]]
    /\ pc' = [pc EXCEPT ![t] = IF task'[t] = None THEN "idle" ELSE "cas"]
    /\ UNCHANGED <<m_head_pos, m_tail_pos, m_storage, pusher, head_pos, times>>

\* Mutant: the head is moved without looking whether it still is the same.
MoveHeadBlindly(t) ==
    /\ pc[t] = "cas"
    /\ m_head_pos' = head_pos[t] + 1
    /\ times' = [times EXCEPT ![task[t]] = @ + 1]
    /\ pc' = [pc EXCEPT ![t] = "clear"]
    /\ UNCHANGED <<m_tail_pos, m_storage, pusher, head_pos, task>>

\* compare_exchange_weak: it may fail with the head where it was.
MoveHead(t) ==
    /\ pc[t] = "cas" /\ m_head_pos = head_pos[t]
    /\ m_head_pos' = m_head_pos + 1
    /\ times' = [times EXCEPT ![task[t]] = @ + 1]
    /\ pc' = [pc EXCEPT ![t] = "clear"]
    /\ UNCHANGED <<m_tail_pos, m_storage, pusher, head_pos, task>>

MissHead(t) ==
    /\ pc[t] = "cas"
    /\ task' = [task EXCEPT ![t] = None]
    /\ pc' = [pc EXCEPT ![t] = "idle"]
    /\ UNCHANGED <<m_head_pos, m_tail_pos, m_storage, pusher, head_pos, times>>

\* Mutant: the slot at the head is cleared, which by now is the next one.
ClearNextSlot(t) ==
    /\ pc[t] = "clear"
    /\ m_storage' = [m_storage EXCEPT ![m_head_pos % Size] = None]
    /\ pc' = [pc EXCEPT ![t] = "idle"]
    /\ UNCHANGED <<m_head_pos, m_tail_pos, pusher, head_pos, task, times>>

\* m_storage[head_pos & TASK_STORAGE_MASK] = nullptr, whatever is there by now.
ClearSlot(t) ==
    /\ pc[t] = "clear"
    /\ m_storage' = [m_storage EXCEPT ![head_pos[t] % Size] = None]
    /\ pc' = [pc EXCEPT ![t] = "idle"]
    /\ UNCHANGED <<m_head_pos, m_tail_pos, pusher, head_pos, task, times>>

push == PushReserve \/ PushStore
pop(t) == LoadHead(t) \/ ReadSlot(t) \/ MoveHead(t) \/ MissHead(t) \/ ClearSlot(t)

Next == push \/ \E t \in Threads : pop(t)

Spec == Init /\ [][Next]_vars

\* The threads keep running, and each keeps asking the queue for work; a weak
\* compare-and-exchange does not fail spuriously for ever.
FairSpec ==
    /\ Spec
    /\ WF_vars(PushStore)
    /\ \A t \in Threads : /\ WF_vars(pop(t))
                          /\ SF_vars(MoveHead(t))
-----------------------------------------------------------------------------
(* Properties. *)

TypeOK ==
    /\ m_head_pos \in 0..m_tail_pos
    /\ m_tail_pos \in 0..MaxPushes
    /\ m_storage \in [Slots -> Tasks \cup {None}]
    /\ pusher \in {"idle", "store"}
    /\ pc \in [Threads -> {"idle", "read", "cas", "clear"}]
    /\ head_pos \in [Threads -> Nat]
    /\ task \in [Threads -> Tasks \cup {None}]
    /\ times \in [Tasks -> Nat]

\* How many tasks have been pushed: the slots of those below are written.
Written == IF pusher = "store" THEN m_tail_pos - 1 ELSE m_tail_pos

\* Tasks in the queue.
Stored == m_head_pos..(Written - 1)

\* No task is ever handed to two threads, however the pops and pushes overlap
\* ("The same task was executed two times").
TakenOnce == \A k \in Tasks : times[k] <= 1

\* The ring is a first-in first-out queue that every pop looks at atomically.
Promise == INSTANCE TaskQueuePromise
           WITH queue <- [i \in 1..(Written - m_head_pos) |-> m_head_pos + i - 1],
                given <- [t \in Threads |-> IF pc[t] = "clear" THEN task[t] ELSE None],
                next <- Written
KeepsPromise == Promise!Spec

\* A pushed task does not stay in the queue for ever.
Drained == \A k \in Tasks : k \in Stored ~> times[k] > 0
=============================================================================
