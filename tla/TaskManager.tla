----------------------------- MODULE TaskManager -----------------------------
(***************************************************************************)
(* TaskManager and Task (src/src/xrCore/Threading): the main thread and    *)
(* the spawned workers push tasks into their own queues and look for work  *)
(* in their own queue, in that of workers[0] and in a random one; a task   *)
(* is done when it and its children have run; whoever waits for a task     *)
(* executes others meanwhile, so that tasks nest on a thread's stack.      *)
(*                                                                         *)
(* A queue is the first-in first-out queue of TaskQueuePromise, popped in  *)
(* two steps: the slot at the head is read, then the head is moved, which  *)
(* fails if another thread took the task in between.                       *)
(***************************************************************************)
EXTENDS Integers, Sequences, SequencesExt, FiniteSets

CONSTANTS
    Main,       \* the thread that constructs and destroys the manager
    Workers,    \* the threads of SpawnThreads
    Tasks,      \* tasks of the program, each created once at most
    None,       \* nullptr
    Parent,     \* task -> the task that creates it while it runs, or None
    Pausing,    \* the window loses and regains the focus
    Stopping,   \* the manager is destroyed
    Waiting     \* tasks wait for their children

Threads == {Main} \cup Workers

ASSUME TaskManagerAssumption ==
    /\ Main \notin Workers
    /\ None \notin Tasks /\ None \notin Threads
    /\ IsFiniteSet(Workers) /\ IsFiniteSet(Tasks)
    /\ Parent \in [Tasks -> Tasks \cup {None}]
    /\ Pausing \in BOOLEAN /\ Stopping \in BOOLEAN /\ Waiting \in BOOLEAN

VARIABLES
    queue,              \* thread -> tasks it pushed and nobody took
    workers,            \* registered threads, in order of registration
    workersLock,        \* the thread that holds the mutex, or None
    newWorkArrived,     \* the auto-reset event
    activeWorkersCount, shouldPause, shouldStop,
    jobs,               \* task -> m_data.jobs, zero before it is created
    state,              \* task -> none, pushed, running, returned
    frames,             \* thread -> its stack: tasks it runs, tasks it waits for
    pc,                 \* thread -> where it stands
    peek,               \* thread -> the task its pop has read
    it,                 \* thread -> the task whose jobs it decrements next
    leaving             \* threads that left their loop for good

work == <<queue, jobs, state>>
stacks == <<frames, peek, it>>
flags == <<newWorkArrived, activeWorkersCount, shouldPause, shouldStop>>
roster == <<workers, workersLock>>
vars == <<work, stacks, flags, roster, leaving, pc>>

Init ==
    /\ queue = [t \in Threads |-> <<>>]
    /\ workers = <<Main>> /\ workersLock = None
    /\ newWorkArrived = FALSE /\ activeWorkersCount = 0
    /\ shouldPause = FALSE /\ shouldStop = FALSE
    /\ jobs = [k \in Tasks |-> 0]
    /\ state = [k \in Tasks |-> "none"]
    /\ frames = [t \in Threads |-> <<>>]
    /\ pc = [t \in Threads |-> IF t = Main THEN "user" ELSE "new"]
    /\ peek = [t \in Threads |-> None]
    /\ it = [t \in Threads |-> None]
    /\ leaving = {}

-----------------------------------------------------------------------------
(* Stacks. *)

Running(k) == [kind |-> "run", task |-> k]
WaitingFor(k) == [kind |-> "wait", task |-> k]
Top(t) == Last(frames[t])

\* Where a thread goes on that returns to the stack s: the frame on top, or
\* below the last one main's own code, the worker's loop, the end of either.
Return(t, s) ==
    IF s # <<>> THEN Last(s).kind
    ELSE IF t \in leaving THEN "final"
    ELSE IF t = Main THEN "user" ELSE "check"

Goto(t, label) == pc' = [pc EXCEPT ![t] = label]
Enter(t, frame) ==
    /\ frames' = [frames EXCEPT ![t] = Append(@, frame)]
    /\ Goto(t, frame.kind)
Leave(t) ==
    /\ frames' = [frames EXCEPT ![t] = Front(@)]
    /\ Goto(t, Return(t, Front(frames[t])))

-----------------------------------------------------------------------------
(* Creating, pushing and running tasks. *)

\* The task whose code t executes, or None for main's own code.
Code(t) == IF pc[t] = "run" THEN Top(t).task ELSE None
Executing(t) == pc[t] = "run" \/ pc[t] = "user"

\* Mutant: a child does not count as a job of its parent.
CreatedAlone(k) == jobs' = [jobs EXCEPT ![k] = 1]

\* Task(func, parent): one job for the task itself, one more for its parent.
Created(k) ==
    jobs' = [j \in Tasks |-> IF j = k THEN 1 ELSE IF j = Parent[k] THEN jobs[j] + 1 ELSE jobs[j]]

\* AddTask: create and PushTask; the event is set in a step of its own.
AddTask(t, k) ==
    /\ Executing(t) /\ state[k] = "none" /\ Parent[k] = Code(t)
    /\ Created(k)
    /\ state' = [state EXCEPT ![k] = "pushed"]
    /\ queue' = [queue EXCEPT ![t] = Append(@, k)]
    /\ Goto(t, "signal")
    /\ UNCHANGED <<stacks, flags, roster, leaving>>

\* Mutant: the event is not set.
SignalNobody(t) ==
    /\ pc[t] = "signal"
    /\ Goto(t, Return(t, frames[t]))
    /\ UNCHANGED <<work, stacks, flags, roster, leaving>>

Signal(t) ==
    /\ pc[t] = "signal"
    /\ newWorkArrived' = TRUE
    /\ Goto(t, Return(t, frames[t]))
    /\ UNCHANGED <<work, stacks, activeWorkersCount, shouldPause, shouldStop, roster, leaving>>

\* RunTask: create it and execute it here and now.
RunTask(t, k) ==
    /\ pc[t] = "user" /\ state[k] = "none" /\ Parent[k] = None
    /\ Created(k)
    /\ state' = [state EXCEPT ![k] = "running"]
    /\ Enter(t, Running(k))
    /\ UNCHANGED <<queue, peek, it, flags, roster, leaving>>

\* m_data.call(*this) returns.
BodyReturns(t) ==
    /\ pc[t] = "run"
    /\ state' = [state EXCEPT ![Code(t)] = "returned"]
    /\ it' = [it EXCEPT ![t] = Code(t)]
    /\ Goto(t, "finish")
    /\ UNCHANGED <<queue, jobs, frames, peek, flags, roster, leaving>>

\* Mutant: the parent is told whenever one of its children has run.
FinishEarly(t) ==
    /\ pc[t] = "finish"
    /\ jobs' = [jobs EXCEPT ![it[t]] = @ - 1]
    /\ IF Parent[it[t]] # None
       THEN it' = [it EXCEPT ![t] = Parent[it[t]]] /\ UNCHANGED <<frames, pc>>
       ELSE it' = [it EXCEPT ![t] = None] /\ Leave(t)
    /\ UNCHANGED <<queue, state, peek, flags, roster, leaving>>

\* Task::operator(): one job less, and on to the parent if it was the last.
Finish(t) ==
    /\ pc[t] = "finish"
    /\ jobs' = [jobs EXCEPT ![it[t]] = @ - 1]
    /\ IF jobs'[it[t]] = 0 /\ Parent[it[t]] # None
       THEN it' = [it EXCEPT ![t] = Parent[it[t]]] /\ UNCHANGED <<frames, pc>>
       ELSE it' = [it EXCEPT ![t] = None] /\ Leave(t)
    /\ UNCHANGED <<queue, state, peek, flags, roster, leaving>>

\* Wait is called for a task that this code created and that is not done.
StartWait(t, k) ==
    /\ Executing(t) /\ state[k] # "none" /\ jobs[k] > 0 /\ Parent[k] = Code(t)
    /\ pc[t] = "run" => Waiting
    /\ Enter(t, WaitingFor(k))
    /\ UNCHANGED <<work, peek, it, flags, roster, leaving>>

\* while (!task.IsFinished()): leave, or look for something to execute.
WaitLoop(t) ==
    /\ pc[t] = "wait"
    /\ IF jobs[Top(t).task] = 0
       THEN Leave(t)
       ELSE Goto(t, "own") /\ UNCHANGED frames
    /\ UNCHANGED <<work, peek, it, flags, roster, leaving>>

-----------------------------------------------------------------------------
(* ExecuteOneTask: the own queue, workers[0], TryToSteal. *)

Looking(t) == pc[t] \in {"own", "first", "any"}

\* Mutant: nothing is stolen but from workers[0].
FirstVictim(t) == IF pc[t] \in {"own", "final"} THEN {t} ELSE {workers[1]}

Victims(t) ==
    CASE pc[t] \in {"own", "final"} -> {t}
      [] pc[t] = "first" -> {workers[1]}
      [] OTHER -> Range(workers) \ {t}

\* A pop that comes to nothing leads on to the next place to look; the last
\* one to the end of Wait's iteration or of the worker's.
NothingFound(t) ==
    \/ pc[t] = "own" /\ Goto(t, "first")
    \/ pc[t] = "first" /\ Goto(t, "any")
    \/ pc[t] = "any" /\ Goto(t, IF frames[t] = <<>> THEN "rest" ELSE "wait")
    \/ pc[t] = "final" /\ Goto(t, "lock")

ReadEmpty(t) ==
    /\ Looking(t) \/ pc[t] = "final"
    /\ peek[t] = None
    /\ \E u \in Victims(t) : queue[u] = <<>>
    /\ NothingFound(t)
    /\ UNCHANGED <<work, stacks, flags, roster, leaving>>

ReadHead(t) ==
    /\ Looking(t) \/ pc[t] = "final"
    /\ peek[t] = None
    /\ \E u \in Victims(t) :
          queue[u] # <<>> /\ peek' = [peek EXCEPT ![t] = Head(queue[u])]
    /\ UNCHANGED <<work, frames, it, flags, roster, leaving, pc>>

HeadIs(u, k) == queue[u] # <<>> /\ Head(queue[u]) = k

\* Mutant: the task is executed although another thread moved the head.
TakeBlindly(t) ==
    /\ peek[t] # None
    /\ \E u \in Victims(t) :
          queue' = [queue EXCEPT ![u] = IF HeadIs(u, peek[t]) THEN Tail(@) ELSE @]
    /\ state' = [state EXCEPT ![peek[t]] = "running"]
    /\ Enter(t, Running(peek[t]))
    /\ peek' = [peek EXCEPT ![t] = None]
    /\ UNCHANGED <<jobs, it, flags, roster, leaving>>

\* The head moves and the task is executed.  A thief wakes one more thread if
\* there is more to steal where it stole (not if that was workers[0]).
Take(t) ==
    /\ peek[t] # None
    /\ \E u \in Threads :
          /\ HeadIs(u, peek[t])
          /\ queue' = [queue EXCEPT ![u] = Tail(@)]
          /\ newWorkArrived' = (newWorkArrived \/ (pc[t] = "any" /\ queue'[u] # <<>>))
    /\ state' = [state EXCEPT ![peek[t]] = "running"]
    /\ Enter(t, Running(peek[t]))
    /\ peek' = [peek EXCEPT ![t] = None]
    /\ UNCHANGED <<jobs, it, activeWorkersCount, shouldPause, shouldStop, roster, leaving>>

\* Another thread has moved the head: this pop comes to nothing.  TryToSteal
\* has five attempts, and may look elsewhere.
Beaten(t) ==
    /\ peek[t] # None /\ \A u \in Threads : ~HeadIs(u, peek[t])
    /\ peek' = [peek EXCEPT ![t] = None]
    /\ NothingFound(t) \/ (pc[t] = "any" /\ UNCHANGED pc)
    /\ UNCHANGED <<work, frames, it, flags, roster, leaving>>

ExecuteOneTask(t) == ReadEmpty(t) \/ ReadHead(t) \/ Take(t) \/ Beaten(t)

-----------------------------------------------------------------------------
(* The worker's loop. *)

\* A worker's step that moves it on and changes one of the flags at most.
Step(w, from, to) == w \in Workers /\ pc[w] = from /\ Goto(w, to)

RegisterThisThreadAsWorker(w) ==
    /\ Step(w, "new", "rise") /\ workersLock = None
    /\ workers' = Append(workers, w)
    /\ UNCHANGED <<work, stacks, flags, workersLock, leaving>>

\* SetThreadStatus(true)
Rise(w) ==
    /\ Step(w, "rise", "check")
    /\ activeWorkersCount' = activeWorkersCount + 1
    /\ UNCHANGED <<work, stacks, newWorkArrived, shouldPause, shouldStop, roster, leaving>>

CheckStop(w) ==
    /\ Step(w, "check", IF shouldStop THEN "quit" ELSE "checkPause")
    /\ UNCHANGED <<work, stacks, flags, roster, leaving>>

CheckPause(w) ==
    /\ Step(w, "checkPause", IF shouldPause THEN "rest" ELSE "own")
    /\ UNCHANGED <<work, stacks, flags, roster, leaving>>

\* SetThreadStatus(false)
Rest(w) ==
    /\ Step(w, "rest", "sleep")
    /\ activeWorkersCount' = activeWorkersCount - 1
    /\ UNCHANGED <<work, stacks, newWorkArrived, shouldPause, shouldStop, roster, leaving>>

\* newWorkArrived.Wait(): the event wakes one thread and resets itself.
Wake(w) ==
    /\ Step(w, "sleep", "woken") /\ newWorkArrived
    /\ newWorkArrived' = FALSE
    /\ UNCHANGED <<work, stacks, activeWorkersCount, shouldPause, shouldStop, roster, leaving>>

Woken(w) ==
    /\ Step(w, "woken", IF shouldPause THEN "sleep" ELSE "rise")
    /\ UNCHANGED <<work, stacks, flags, roster, leaving>>

\* The loop is over: SetThreadStatus(false), then the pending tasks.
Quit(w) ==
    /\ Step(w, "quit", "final")
    /\ activeWorkersCount' = activeWorkersCount - 1
    /\ leaving' = leaving \cup {w}
    /\ UNCHANGED <<work, stacks, newWorkArrived, shouldPause, shouldStop, roster>>

-----------------------------------------------------------------------------
(* UnregisterThisThreadAsWorker. *)

Lock(t) ==
    /\ pc[t] = "lock" /\ workersLock = None
    /\ workersLock' = t /\ shouldPause' = TRUE
    /\ Goto(t, "drain")
    /\ UNCHANGED <<work, stacks, newWorkArrived, activeWorkersCount, shouldStop, workers, leaving>>

\* Mutant: it does not wait for the workers to become inactive.
DrainNobody(t) ==
    /\ pc[t] = "drain"
    /\ Goto(t, "erase")
    /\ UNCHANGED <<work, stacks, flags, roster, leaving>>

\* while (activeWorkersCount) Sleep(2)
Drain(t) ==
    /\ pc[t] = "drain" /\ activeWorkersCount = 0
    /\ Goto(t, "erase")
    /\ UNCHANGED <<work, stacks, flags, roster, leaving>>

\* Mutant: the pause is not lifted.
EraseStillPaused(t) ==
    /\ pc[t] = "erase"
    /\ workers' = RemoveFirst(workers, t)
    /\ workersLock' = None
    /\ Goto(t, IF t = Main THEN "reap" ELSE "gone")
    /\ UNCHANGED <<work, stacks, flags, leaving>>

Erase(t) ==
    /\ pc[t] = "erase"
    /\ workers' = RemoveFirst(workers, t)
    /\ shouldPause' = FALSE /\ workersLock' = None
    /\ Goto(t, IF t = Main THEN "reap" ELSE "gone")
    /\ UNCHANGED <<work, stacks, newWorkArrived, activeWorkersCount, shouldStop, leaving>>

-----------------------------------------------------------------------------
(* The main thread: focus lost and regained, and ~TaskManager. *)

Pause(pause) ==
    /\ pc[Main] = "user" /\ Pausing /\ shouldPause # pause
    /\ shouldPause' = pause
    /\ UNCHANGED <<work, stacks, newWorkArrived, activeWorkersCount, shouldStop, roster, leaving, pc>>

Stop ==
    /\ pc[Main] = "user" /\ Stopping
    /\ shouldStop' = TRUE
    /\ Goto(Main, "wakeAll")
    /\ leaving' = leaving \cup {Main}
    /\ UNCHANGED <<work, stacks, newWorkArrived, activeWorkersCount, shouldPause, roster>>

\* One Set() per worker; those that nobody has consumed yet are one.
WakeAll ==
    /\ pc[Main] = "wakeAll"
    /\ newWorkArrived' = TRUE
    /\ Goto(Main, "final") \/ UNCHANGED pc
    /\ UNCHANGED <<work, stacks, activeWorkersCount, shouldPause, shouldStop, roster, leaving>>

\* while (!workers.empty()) newWorkArrived.Set(), and join.
Reap ==
    /\ pc[Main] = "reap"
    /\ IF workers = <<>>
       THEN Goto(Main, "end") /\ UNCHANGED newWorkArrived
       ELSE newWorkArrived' = TRUE /\ UNCHANGED pc
    /\ UNCHANGED <<work, stacks, activeWorkersCount, shouldPause, shouldStop, roster, leaving>>

-----------------------------------------------------------------------------
\* What a thread does of its own accord; the rest is up to the program.
Proceed(t) ==
    \/ Signal(t) \/ BodyReturns(t) \/ Finish(t) \/ WaitLoop(t) \/ ExecuteOneTask(t)
    \/ RegisterThisThreadAsWorker(t) \/ Rise(t) \/ CheckStop(t) \/ CheckPause(t)
    \/ Rest(t) \/ Wake(t) \/ Woken(t) \/ Quit(t)
    \/ Lock(t) \/ Drain(t) \/ Erase(t)

Program ==
    \/ \E t \in Threads, k \in Tasks : AddTask(t, k) \/ RunTask(t, k) \/ StartWait(t, k)
    \/ \E pause \in BOOLEAN : Pause(pause)
    \/ Stop

Next == Program \/ WakeAll \/ Reap \/ \E t \in Threads : Proceed(t)

Spec == Init /\ [][Next]_vars

\* What a thread may be kept from again and again while others go ahead.
Acquire(t) == Lock(t) \/ RegisterThisThreadAsWorker(t) \/ Wake(t)

\* Every thread is scheduled and task bodies come to an end; neither the mutex
\* nor the event passes a thread over for ever; TryToSteal's random choice does
\* not for ever miss the queue that has something in it.
FairSpec ==
    /\ Spec
    /\ WF_vars(WakeAll /\ pc' # pc) /\ WF_vars(Reap)
    /\ \A t \in Threads : /\ WF_vars(Proceed(t))
                          /\ SF_vars(Acquire(t))
                          /\ SF_vars(pc[t] = "any" /\ ReadHead(t))
-----------------------------------------------------------------------------
(* Properties. *)

TypeOK ==
    /\ queue \in [Threads -> Seq(Tasks)]
    /\ Range(workers) \subseteq Threads
    /\ workersLock \in Threads \cup {None}
    /\ newWorkArrived \in BOOLEAN /\ shouldPause \in BOOLEAN /\ shouldStop \in BOOLEAN
    /\ activeWorkersCount \in 0..Cardinality(Workers)
    /\ jobs \in [Tasks -> 0..(Cardinality(Tasks) + 1)]
    /\ state \in [Tasks -> {"none", "pushed", "running", "returned"}]
    /\ peek \in [Threads -> Tasks \cup {None}] /\ it \in [Threads -> Tasks \cup {None}]
    /\ leaving \subseteq Threads

Children(k) == {c \in Tasks : Parent[c] = k}

\* IsFinished tells the truth about the whole tree below a task: whoever stops
\* waiting for it may use all that its descendants have done.
FinishedMeansDone ==
    \A k \in Tasks :
        jobs[k] = 0 /\ state[k] # "none" =>
            /\ state[k] = "returned"
            /\ \A c \in Children(k) : state[c] # "none" => jobs[c] = 0 /\ state[c] = "returned"

\* "The same task was executed two times": a task that a thread begins to run
\* has never been begun before, by this thread or another.
RunOnce ==
    [][\A t \in Threads :
          Len(frames'[t]) > Len(frames[t]) /\ Last(frames'[t]).kind = "run" =>
              state[Last(frames'[t]).task] \in {"none", "pushed"}]_vars

\* The vector of workers is changed only while no thread is looking for work
\* in it, though nobody who looks takes the lock.
ErasedAlone ==
    \A t \in Threads : pc[t] = "erase" => \A u \in Threads \ {t} : ~Looking(u)

\* Whoever waits gets an end of it, paused or not: the work a sleeping worker
\* has left in its queue is stolen.
WaitEnds ==
    \A t \in Threads, k \in Tasks :
        (pc[t] = "wait" /\ Top(t).task = k) ~> jobs[k] = 0

\* A pushed task is executed although nobody waits for it: several pushes are
\* one bit of newWorkArrived, and none of the tasks is forgotten for that.  It
\* takes a program in which the workers are never told to pause, since a wake-up
\* that is consumed during a pause is not given back.
EveryTaskRuns ==
    \/ <>shouldPause
    \/ \A k \in Tasks : state[k] = "pushed" ~> state[k] = "returned"

\* The destructor comes to an end and finds every thread gone.
AllLeave == shouldStop ~> (pc[Main] = "end" /\ \A w \in Workers : pc[w] = "gone")
=============================================================================
