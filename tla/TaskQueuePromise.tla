--------------------------- MODULE TaskQueuePromise ---------------------------
(***************************************************************************)
(* What a worker's TaskQueue promises: a first-in first-out queue.  A push *)
(* takes effect at once, a pop hands the oldest task to one thread or      *)
(* nothing to it; no task is handed out twice and none disappears.         *)
(***************************************************************************)
EXTENDS Naturals, Sequences

CONSTANTS Threads, None

VARIABLES
    queue,  \* tasks pushed and not handed out
    given,  \* thread -> the task its pop returns, or None
    next    \* the task to be pushed next

Init == queue = <<>> /\ given = [t \in Threads |-> None] /\ next = 0

Push ==
    /\ queue' = Append(queue, next)
    /\ next' = next + 1
    /\ UNCHANGED given

Take(t) ==
    /\ queue # <<>> /\ given[t] = None
    /\ given' = [given EXCEPT ![t] = Head(queue)]
    /\ queue' = Tail(queue)
    /\ UNCHANGED next

Return(t) ==
    /\ given[t] # None
    /\ given' = [given EXCEPT ![t] = None]
    /\ UNCHANGED <<queue, next>>

Next == Push \/ \E t \in Threads : Take(t) \/ Return(t)

Spec == Init /\ [][Next]_<<queue, given, next>>
=============================================================================
