--------------------------- MODULE SchedulerPromise ---------------------------
(***************************************************************************)
(* What CSheduler promises its clients, with no lists, queue or deadlines: *)
(* Register and Unregister take effect at once as far as a client can      *)
(* tell, shedule_Update runs for objects that are registered only, one at  *)
(* a time, and an object that needs no more updates may be dropped without *)
(* its client knowing.                                                     *)
(***************************************************************************)
CONSTANTS Objects, None

VARIABLES
    owned,      \* objects whose clients hold a registration
    scheduled,  \* objects the scheduler will update
    running     \* the object being updated, or None

Init == owned = {} /\ scheduled = {} /\ running = None

Register(o) ==
    /\ o \notin owned
    /\ owned' = owned \cup {o} /\ scheduled' = scheduled \cup {o}
    /\ UNCHANGED running

Unregister(o) ==
    /\ o \in owned
    /\ owned' = owned \ {o} /\ scheduled' = scheduled \ {o}
    /\ UNCHANGED running

Drop(o) ==
    /\ o \in scheduled
    /\ scheduled' = scheduled \ {o}
    /\ UNCHANGED <<owned, running>>

Call(o) ==
    /\ running = None /\ o \in scheduled
    /\ running' = o
    /\ UNCHANGED <<owned, scheduled>>

Return ==
    /\ running # None
    /\ running' = None
    /\ UNCHANGED <<owned, scheduled>>

Next == Return \/ \E o \in Objects : Register(o) \/ Unregister(o) \/ Drop(o) \/ Call(o)

Spec == Init /\ [][Next]_<<owned, scheduled, running>>
=============================================================================
