------------------------------ MODULE Scheduler ------------------------------
(***************************************************************************)
(* CSheduler (src/src/xrEngine/xrSheduler.cpp): the engine's one scheduler *)
(* of object updates.  Realtime objects are updated in every pass, the     *)
(* others when the deadline in their heap item has passed and the time     *)
(* budget of the frame allows it.  It runs on the main thread, but every   *)
(* shedule_Update is a callback out of the scheduler's own loops, and the  *)
(* code it runs may register and unregister any object, itself included.   *)
(*                                                                         *)
(* Times are relative to Device.dwTimeGlobal: a new frame lowers every     *)
(* deadline by one tick.  An object stands for its address: Delete frees   *)
(* it, Create allocates a new object there.                                *)
(***************************************************************************)
EXTENDS Integers, Sequences, SequencesExt, FiniteSets

CONSTANTS
    Objects,        \* addresses of ISheduled objects
    None,           \* nullptr
    RTModes,        \* object -> the values its client passes for Register's RT
    SelfUnregister, \* RT objects that unregister themselves while updated
    Debug,          \* a DEBUG build: ~ScheduledBase does not call Unregister
    MaxInterval,    \* dwUpdate, in ticks, is at most this and at least one
    BudgetEvery,    \* ProcessStep asks for the time budget every so many items: 3
    MaxPasses,      \* calls of Update in one frame: 1, or more while warming up
    RTCapacity,     \* bound: slots of the ItemsRT vector
    MaxRegistration,\* bound: entries of the Registration queue
    MaxLag          \* bound: how many ticks a deadline may be missed by

ASSUME SchedulerAssumption ==
    /\ None \notin Objects
    /\ RTModes \in [Objects -> SUBSET BOOLEAN]
    /\ SelfUnregister \subseteq Objects
    /\ Debug \in BOOLEAN
    /\ MaxInterval \in Nat \ {0}
    /\ RTCapacity \in Nat /\ MaxRegistration \in Nat
    /\ MaxLag \in Nat /\ MaxPasses \in Nat /\ BudgetEvery \in Nat \ {0}

VARIABLES
    client,         \* object -> its owner's view: free, out, in, doomed
    b_RT,           \* object -> SchedulerData::b_RT
    ItemsRT,        \* slots of the vector, those past its end included
    rtSize,         \* ItemsRT.size()
    Items,          \* objects with an item in the heap
    ItemsProcessed, \* objects updated in this ProcessStep
    deadline,       \* object -> dwTimeForExecute of its item, relative
    nulls,          \* deadline -> number of heap items whose Object is null
    Registration,   \* queue of [OP, RT, Object]
    m_current_step_obj,
    phase,          \* where Update stands
    running,        \* the object whose shedule_Update is on the stack
    rtPos, rtEnd,   \* the range-for over ItemsRT
    iter,           \* i % BudgetEvery in ProcessStep
    passes,         \* calls of Update in this frame
    startframe      \* objects whose dbg_startframe is the current frame

lists == <<ItemsRT, rtSize, Items, deadline, nulls>>
control == <<phase, running, rtPos, rtEnd, iter, passes, startframe>>
clients == <<client, b_RT>>
vars == <<clients, lists, ItemsProcessed, Registration, m_current_step_obj, control>>

Deadlines == (-MaxLag)..MaxInterval
ItemReg == [OP : BOOLEAN, RT : BOOLEAN, Object : Objects]

\* m_processing_now: set by Update around the realtime loop and ProcessStep.
m_processing_now == phase \in {"rt", "rtCall", "nt", "ntCall", "push"}

Init ==
    /\ client = [o \in Objects |-> "free"]
    /\ b_RT = [o \in Objects |-> FALSE]
    /\ ItemsRT = [i \in 1..RTCapacity |-> None]
    /\ rtSize = 0
    /\ Items = {} /\ ItemsProcessed = {}
    /\ deadline = [o \in Objects |-> 0]
    /\ nulls = [d \in Deadlines |-> 0]
    /\ Registration = <<>>
    /\ m_current_step_obj = None
    /\ phase = "idle" /\ running = None
    /\ rtPos = 1 /\ rtEnd = 0 /\ iter = 0 /\ passes = 0
    /\ startframe = {}

-----------------------------------------------------------------------------
(* The work lists. *)

SlotsOf(o) == {i \in 1..rtSize : ItemsRT[i] = o}

\* internal_Unregister returns true.
Found(o, RT) ==
    \/ RT /\ SlotsOf(o) # {}
    \/ ~RT /\ o \in Items
    \/ m_current_step_obj = o

\* ItemsRT.erase: the tail moves down one slot; the slot that was the last one
\* keeps its bytes, which matters to a realtime loop that holds the old end.
EraseRT(o) ==
    \E at \in SlotsOf(o) :
        /\ \A i \in SlotsOf(o) : at <= i
        /\ ItemsRT' = [i \in 1..RTCapacity |->
                IF i = rtSize THEN (IF phase = "rtCall" THEN ItemsRT[i] ELSE None)
                ELSE IF at <= i /\ i < rtSize THEN ItemsRT[i + 1] ELSE ItemsRT[i]]
        /\ rtSize' = rtSize - 1

\* Mutant: the item is found, and left as it is.
NullItemForgotten(o) == o \in Items /\ UNCHANGED <<Items, nulls, deadline>>

\* item.Object = nullptr: the item stays in the heap until its deadline.
NullItem(o) ==
    /\ Items' = Items \ {o}
    /\ nulls' = [nulls EXCEPT ![deadline[o]] = @ + 1]
    /\ deadline' = [deadline EXCEPT ![o] = 0]

internal_Unregister(o, RT) ==
    \/ /\ RT /\ SlotsOf(o) # {}
       /\ EraseRT(o)
       /\ UNCHANGED <<Items, deadline, nulls, m_current_step_obj>>
    \/ /\ ~RT /\ o \in Items
       /\ NullItem(o)
       /\ UNCHANGED <<ItemsRT, rtSize, m_current_step_obj>>
    \/ /\ ~(RT /\ SlotsOf(o) # {}) /\ ~(~RT /\ o \in Items)
       /\ m_current_step_obj = o
       /\ m_current_step_obj' = None
       /\ UNCHANGED lists

internal_Register(o, RT) ==
    /\ b_RT' = [b_RT EXCEPT ![o] = RT]
    /\ IF RT
       THEN /\ rtSize < RTCapacity
            /\ ItemsRT' = [ItemsRT EXCEPT ![rtSize + 1] = o]
            /\ rtSize' = rtSize + 1
            /\ UNCHANGED <<Items, deadline, nulls>>
       ELSE /\ Items' = Items \cup {o}
            /\ deadline' = [deadline EXCEPT ![o] = 0]
            /\ UNCHANGED <<ItemsRT, rtSize, nulls>>

-----------------------------------------------------------------------------
(* The clients of the scheduler.  Their code runs between updates and in   *)
(* every callback.                                                         *)

ClientTurn == phase \in {"idle", "rtCall", "ntCall"}
QueueHasRoom == Len(Registration) < MaxRegistration

\* Mutant: every Unregister waits in the queue.
UnregisterLater(o) ==
    /\ QueueHasRoom
    /\ Registration' = Append(Registration, [OP |-> FALSE, RT |-> b_RT[o], Object |-> o])
    /\ UNCHANGED <<lists, m_current_step_obj>>

\* Unregister: while Update runs, at once if the item is found, else queued.
UnregisterNow(o) ==
    IF m_processing_now /\ Found(o, b_RT[o])
    THEN internal_Unregister(o, b_RT[o]) /\ UNCHANGED Registration
    ELSE /\ QueueHasRoom
         /\ Registration' = Append(Registration, [OP |-> FALSE, RT |-> b_RT[o], Object |-> o])
         /\ UNCHANGED <<lists, m_current_step_obj>>

\* ScheduledBase(): the constructor leaves b_RT uninitialized.
Create(o) ==
    /\ ClientTurn /\ client[o] = "free"
    /\ client' = [client EXCEPT ![o] = "out"]
    /\ \E garbage \in BOOLEAN : b_RT' = [b_RT EXCEPT ![o] = garbage]
    /\ UNCHANGED <<lists, ItemsProcessed, Registration, m_current_step_obj, control>>

Register(o, RT) ==
    /\ ClientTurn /\ QueueHasRoom /\ client[o] = "out" /\ RT \in RTModes[o]
    /\ client' = [client EXCEPT ![o] = "in"]
    /\ b_RT' = [b_RT EXCEPT ![o] = RT]
    /\ Registration' = Append(Registration, [OP |-> TRUE, RT |-> RT, Object |-> o])
    /\ UNCHANGED <<lists, ItemsProcessed, m_current_step_obj, control>>

\* setDestroy(true): shedule_Needed() is false from now on.
SetDestroy(o) ==
    /\ ClientTurn /\ client[o] = "in"
    /\ client' = [client EXCEPT ![o] = "doomed"]
    /\ UNCHANGED <<b_RT, lists, ItemsProcessed, Registration, m_current_step_obj, control>>

\* In the realtime loop the only client that drops a realtime item is an
\* updated object that unregisters itself.
MayUnregister(o) ==
    phase = "rtCall" /\ b_RT[o] => o = running /\ o \in SelfUnregister

Unregister(o) ==
    /\ ClientTurn /\ client[o] \in {"in", "doomed"} /\ MayUnregister(o)
    /\ client' = [client EXCEPT ![o] = "out"]
    /\ UnregisterNow(o)
    /\ UNCHANGED <<b_RT, ItemsProcessed, control>>

\* ~ScheduledBase: outside DEBUG it unregisters an object that already is.
Delete(o) ==
    /\ ClientTurn /\ client[o] = "out" /\ o # running
    /\ client' = [client EXCEPT ![o] = "free"]
    /\ IF Debug THEN UNCHANGED <<lists, Registration, m_current_step_obj>> ELSE UnregisterNow(o)
    /\ b_RT' = [b_RT EXCEPT ![o] = FALSE]
    /\ UNCHANGED <<ItemsProcessed, control>>

Client(o) ==
    \/ Create(o)
    \/ \E RT \in BOOLEAN : Register(o, RT)
    \/ SetDestroy(o)
    \/ Unregister(o)
    \/ Delete(o)

-----------------------------------------------------------------------------
(* internal_Registration: the loop over the queue at both ends of Update,  *)
(* one entry a step.                                                       *)

Draining == phase \in {"regBegin", "regEnd"} /\ Registration # <<>>
Request == Head(Registration)
\* Mutant: the pair is any later unregistration, whoever asked for it.
AnyLaterUnregisters == {k \in 2..Len(Registration) : ~Registration[k].OP}

LaterUnregisters ==
    {k \in 2..Len(Registration) : ~Registration[k].OP /\ Registration[k].Object = Request.Object}

\* A registration with a later unregistration: both entries go.
DrainPair ==
    /\ Draining /\ Request.OP /\ LaterUnregisters # {}
    /\ \E pair \in LaterUnregisters :
          /\ \A k \in LaterUnregisters : pair <= k
          /\ Registration' = Tail(RemoveAt(Registration, pair))
    /\ UNCHANGED <<clients, lists, ItemsProcessed, m_current_step_obj, control>>

DrainRegister ==
    /\ Draining /\ Request.OP /\ LaterUnregisters = {}
    /\ internal_Register(Request.Object, Request.RT)
    /\ Registration' = Tail(Registration)
    /\ UNCHANGED <<client, ItemsProcessed, m_current_step_obj, control>>

DrainUnregister ==
    /\ Draining /\ ~Request.OP
    /\ IF Found(Request.Object, Request.RT)
       THEN internal_Unregister(Request.Object, Request.RT)
       ELSE UNCHANGED <<lists, m_current_step_obj>>
    /\ Registration' = Tail(Registration)
    /\ UNCHANGED <<clients, ItemsProcessed, control>>

DrainDone ==
    /\ Registration = <<>>
    /\ \/ /\ phase = "regBegin" /\ phase' = "rt"
          /\ rtPos' = 1 /\ rtEnd' = rtSize
       \/ /\ phase = "regEnd" /\ phase' = "idle"
          /\ UNCHANGED <<rtPos, rtEnd>>
    /\ UNCHANGED <<clients, lists, ItemsProcessed, Registration, m_current_step_obj,
                   running, iter, passes, startframe>>

-----------------------------------------------------------------------------
(* Update and ProcessStep. *)

Needed(o) == client[o] # "doomed"

\* A frame begins and Device.dwTimeGlobal advances by a tick.
NewFrame ==
    /\ phase = "idle" /\ passes > 0
    /\ \A o \in Items : deadline[o] > -MaxLag
    /\ nulls[-MaxLag] = 0
    /\ passes' = 0 /\ startframe' = {}
    /\ deadline' = [o \in Objects |-> IF o \in Items THEN deadline[o] - 1 ELSE deadline[o]]
    /\ nulls' = [d \in Deadlines |-> IF d + 1 \in Deadlines THEN nulls[d + 1] ELSE 0]
    /\ UNCHANGED <<clients, ItemsRT, rtSize, Items, ItemsProcessed, Registration,
                   m_current_step_obj, phase, running, rtPos, rtEnd, iter>>

Update ==
    /\ phase = "idle" /\ passes < MaxPasses
    /\ passes' = passes + 1
    /\ phase' = "regBegin"
    /\ UNCHANGED <<clients, lists, ItemsProcessed, Registration, m_current_step_obj,
                   running, rtPos, rtEnd, iter, startframe>>

\* for (auto& item : ItemsRT): begin and end were taken when the loop began.
RTSkip ==
    /\ phase = "rt" /\ rtPos <= rtEnd /\ ~Needed(ItemsRT[rtPos])
    /\ rtPos' = rtPos + 1
    /\ UNCHANGED <<clients, lists, ItemsProcessed, Registration, m_current_step_obj,
                   phase, running, rtEnd, iter, passes, startframe>>

RTCall ==
    /\ phase = "rt" /\ rtPos <= rtEnd /\ Needed(ItemsRT[rtPos])
    /\ running' = ItemsRT[rtPos]
    /\ startframe' = startframe \cup {running'}
    /\ phase' = "rtCall"
    /\ UNCHANGED <<clients, lists, ItemsProcessed, Registration, m_current_step_obj,
                   rtPos, rtEnd, iter, passes>>

\* Mutant: the iterator is advanced in the body of the loop as well.
RTReturnTwice ==
    /\ phase = "rtCall"
    /\ running' = None /\ phase' = "rt" /\ rtPos' = rtPos + 2
    /\ UNCHANGED <<clients, lists, ItemsProcessed, Registration, m_current_step_obj,
                   rtEnd, iter, passes, startframe>>

RTReturn ==
    /\ phase = "rtCall"
    /\ running' = None /\ phase' = "rt" /\ rtPos' = rtPos + 1
    /\ UNCHANGED <<clients, lists, ItemsProcessed, Registration, m_current_step_obj,
                   rtEnd, iter, passes, startframe>>

\* Mutant: the loop ends one item early.
RTDoneEarly ==
    /\ phase = "rt" /\ rtPos >= rtEnd
    /\ phase' = "nt" /\ iter' = 0
    /\ rtPos' = 1 /\ rtEnd' = 0
    /\ UNCHANGED <<clients, lists, ItemsProcessed, Registration, m_current_step_obj,
                   running, passes, startframe>>

RTDone ==
    /\ phase = "rt" /\ rtPos > rtEnd
    /\ phase' = "nt" /\ iter' = 0
    /\ rtPos' = 1 /\ rtEnd' = 0
    /\ UNCHANGED <<clients, lists, ItemsProcessed, Registration, m_current_step_obj,
                   running, passes, startframe>>

HeapDeadlines == {deadline[o] : o \in Items} \cup {d \in Deadlines : nulls[d] > 0}

\* Top().dwTimeForExecute = d, and d < dwTime.
TopIsDue(d) == d < 0 /\ d \in HeapDeadlines /\ \A e \in HeapDeadlines : d <= e

PopNull ==
    /\ phase = "nt"
    /\ \E d \in Deadlines :
          /\ TopIsDue(d) /\ nulls[d] > 0
          /\ nulls' = [nulls EXCEPT ![d] = @ - 1]
    /\ iter' = (iter + 1) % BudgetEvery
    /\ UNCHANGED <<clients, ItemsRT, rtSize, Items, deadline, ItemsProcessed, Registration,
                   m_current_step_obj, phase, running, rtPos, rtEnd, passes, startframe>>

PopItem(o) ==
    /\ phase = "nt" /\ o \in Items /\ TopIsDue(deadline[o])
    /\ Items' = Items \ {o}
    /\ deadline' = [deadline EXCEPT ![o] = 0]

\* !item.Object->shedule_Needed(): the item goes, nobody is told.
PopUnneeded(o) ==
    /\ PopItem(o) /\ ~Needed(o)
    /\ iter' = (iter + 1) % BudgetEvery
    /\ UNCHANGED <<clients, ItemsRT, rtSize, nulls, ItemsProcessed, Registration,
                   m_current_step_obj, phase, running, rtPos, rtEnd, passes, startframe>>

NTCall(o) ==
    /\ PopItem(o) /\ Needed(o)
    /\ m_current_step_obj' = o /\ running' = o
    /\ startframe' = startframe \cup {o}
    /\ phase' = "ntCall"
    /\ UNCHANGED <<clients, ItemsRT, rtSize, nulls, ItemsProcessed, Registration,
                   rtPos, rtEnd, iter, passes>>

\* The object unregistered itself: its item is dropped, the budget not asked.
NTReturnGone ==
    /\ phase = "ntCall" /\ m_current_step_obj = None
    /\ running' = None /\ phase' = "nt" /\ iter' = (iter + 1) % BudgetEvery
    /\ UNCHANGED <<clients, lists, ItemsProcessed, Registration, m_current_step_obj,
                   rtPos, rtEnd, passes, startframe>>

\* Mutant: the item goes back into the heap at once, its deadline not renewed.
NTReturnAtOnce ==
    /\ phase = "ntCall" /\ m_current_step_obj # None
    /\ m_current_step_obj' = None /\ running' = None
    /\ Items' = Items \cup {running}
    /\ deadline' = [deadline EXCEPT ![running] = -1]
    /\ phase' = "nt" /\ iter' = (iter + 1) % BudgetEvery
    /\ UNCHANGED <<clients, ItemsRT, rtSize, ItemsProcessed, nulls, Registration,
                   rtPos, rtEnd, passes, startframe>>

\* Mutant: an object that unregistered itself is rescheduled all the same.
NTReturnBlind ==
    /\ phase = "ntCall"
    /\ m_current_step_obj' = None /\ running' = None
    /\ ItemsProcessed' = ItemsProcessed \cup {running}
    /\ \E dwUpdate \in 1..MaxInterval : deadline' = [deadline EXCEPT ![running] = dwUpdate]
    /\ phase' = "nt" /\ iter' = (iter + 1) % BudgetEvery
    /\ UNCHANGED <<clients, ItemsRT, rtSize, Items, nulls, Registration,
                   rtPos, rtEnd, passes, startframe>>

\* Every BudgetEvery-th iteration may find the cycles_limit exceeded and end the loop.
NTReturn ==
    /\ phase = "ntCall" /\ m_current_step_obj # None
    /\ m_current_step_obj' = None /\ running' = None
    /\ ItemsProcessed' = ItemsProcessed \cup {running}
    /\ \E dwUpdate \in 1..MaxInterval : deadline' = [deadline EXCEPT ![running] = dwUpdate]
    /\ \/ phase' = "nt"
       \/ phase' = "push" /\ iter = BudgetEvery - 1
    /\ iter' = (iter + 1) % BudgetEvery
    /\ UNCHANGED <<clients, ItemsRT, rtSize, Items, nulls, Registration,
                   rtPos, rtEnd, passes, startframe>>

\* Mutant: ItemsProcessed is cleared, not pushed back.
PushNothing ==
    /\ phase = "push" \/ (phase = "nt" /\ \A d \in HeapDeadlines : d >= 0)
    /\ ItemsProcessed' = {}
    /\ phase' = "regEnd" /\ iter' = 0
    /\ UNCHANGED <<clients, lists, Registration, m_current_step_obj,
                   running, rtPos, rtEnd, passes, startframe>>

\* The loop is over: push the processed items back and leave ProcessStep.
PushProcessed ==
    /\ phase = "push" \/ (phase = "nt" /\ \A d \in HeapDeadlines : d >= 0)
    /\ Items' = Items \cup ItemsProcessed
    /\ ItemsProcessed' = {}
    /\ phase' = "regEnd" /\ iter' = 0
    /\ UNCHANGED <<clients, ItemsRT, rtSize, deadline, nulls, Registration, m_current_step_obj,
                   running, rtPos, rtEnd, passes, startframe>>

Engine ==
    \/ NewFrame \/ Update
    \/ DrainPair \/ DrainRegister \/ DrainUnregister \/ DrainDone
    \/ RTSkip \/ RTCall \/ RTReturn \/ RTDone
    \/ PopNull \/ (\E o \in Objects : PopUnneeded(o) \/ NTCall(o))
    \/ NTReturnGone \/ NTReturn \/ PushProcessed

Next == Engine \/ \E o \in Objects : Client(o)

Spec == Init /\ [][Next]_vars

\* The main loop never stops calling frames; clients owe nothing.
FairSpec == Spec /\ WF_vars(Engine)
-----------------------------------------------------------------------------
(* Properties. *)

RegisteredClients == {o \in Objects : client[o] \in {"in", "doomed"}}
InLists(o) == SlotsOf(o) # {} \/ o \in Items \/ o \in ItemsProcessed
Listed(o) == InLists(o) \/ m_current_step_obj = o
Entries(o) == {k \in DOMAIN Registration : Registration[k].Object = o}

TypeOK ==
    /\ client \in [Objects -> {"free", "out", "in", "doomed"}]
    /\ b_RT \in [Objects -> BOOLEAN]
    /\ ItemsRT \in [1..RTCapacity -> Objects \cup {None}]
    /\ rtSize \in 0..RTCapacity
    /\ Items \subseteq Objects /\ ItemsProcessed \subseteq Objects
    /\ deadline \in [Objects -> Deadlines]
    /\ nulls \in [Deadlines -> Nat]
    /\ Registration \in Seq(ItemReg)
    /\ m_current_step_obj \in Objects \cup {None}
    /\ phase \in {"idle", "regBegin", "rt", "rtCall", "nt", "ntCall", "push", "regEnd"}
    /\ running \in Objects \cup {None}
    /\ rtPos \in 1..(RTCapacity + 1) /\ rtEnd \in 0..RTCapacity
    /\ iter \in 0..(BudgetEvery - 1) /\ passes \in 0..MaxPasses
    /\ startframe \subseteq Objects

\* Both loops only ever look at objects that are registered: shedule_Needed and
\* shedule_Update are never called through a pointer whose owner has already
\* unregistered (and perhaps freed) the object, in whatever list the item sits.
CallsOnlyRegistered ==
    /\ phase = "rt" /\ rtPos <= rtEnd => ItemsRT[rtPos] \in RegisteredClients
    /\ phase = "nt" => Items \subseteq RegisteredClients

\* The destructor's second Unregister, queued entries and objects allocated at
\* an old address never cost a live object its place: whenever the queue is
\* drained between two updates, every registered object is in exactly the list
\* its b_RT names, and (unless it is doomed) it is really there.
NoneLost ==
    phase = "idle" /\ Registration = <<>> =>
        \A o \in Objects :
            /\ client[o] = "in" => (IF b_RT[o] THEN SlotsOf(o) # {} ELSE o \in Items)
            /\ client[o] \notin {"in", "doomed"} => ~Listed(o)

\* An object has one item at most: what the VERIFYs of Registered assert, and a
\* registration is carried out only for an object that is in no list.
ListedOnce ==
    /\ \A o \in Objects :
          /\ Cardinality(SlotsOf(o)) <= 1
          /\ SlotsOf(o) # {} => o \notin Items \cup ItemsProcessed
          /\ o \in Items => o \notin ItemsProcessed
          /\ m_current_step_obj = o => ~InLists(o)
    /\ Draining /\ Request.OP /\ LaterUnregisters = {} => ~Listed(Request.Object)

\* What the queue still to be drained makes of the lists.
Effective(o) ==
    IF Entries(o) = {}
    THEN Listed(o)
    ELSE Registration[CHOOSE k \in Entries(o) : \A m \in Entries(o) : m <= k].OP

\* The code keeps the promise: what is scheduled is what the lists will hold
\* once the queue is drained.
Promise == INSTANCE SchedulerPromise
           WITH owned <- RegisteredClients, scheduled <- {o \in Objects : Effective(o)}
KeepsPromise == Promise!Spec

\* One shedule_Update per object and frame ("'shedule_Update' called twice per
\* frame" is fatal in a DEBUG build).
OncePerFrame == [][running' \notin {running, None} => running' \notin startframe]_vars

\* The same of the heap alone, however often Update is called in the frame.
HeapOncePerFrame ==
    [][phase = "nt" /\ phase' = "ntCall" => running' \notin startframe]_vars

\* The realtime loop passes nobody over: when it ends, every object of ItemsRT
\* was updated in this frame (or is about to be destroyed).
RealtimeAllServed ==
    phase = "nt" => \A i \in 1..rtSize : ItemsRT[i] \in startframe \/ ~Needed(ItemsRT[i])

\* No starvation: the budget may end every pass early, yet each object that
\* stays registered is updated again and again.
Served == \A o \in Objects : []<>(client[o] # "in" \/ running = o)
=============================================================================
