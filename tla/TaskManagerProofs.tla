--------------------------- MODULE TaskManagerProofs ---------------------------
(***************************************************************************)
(* Proofs about TaskManager, for any number of workers, any tasks and any  *)
(* parents.                                                                *)
(***************************************************************************)
EXTENDS TaskManager, SequenceLemmas, FiniteSetTheorems

Frame == [kind : {"run", "wait"}, task : Tasks]

LoopLabels == {"new", "rise", "check", "checkPause", "rest", "sleep", "woken", "quit"}
ExitLabels == {"final", "lock", "drain", "erase"}
MainLabels == {"wakeAll", "reap", "end"}
Labels == {"user", "signal", "run", "finish", "wait", "own", "first", "any", "gone"}
              \cup LoopLabels \cup ExitLabels \cup MainLabels

Types ==
    /\ queue \in [Threads -> Seq(Tasks)]
    /\ workers \in Seq(Threads)
    /\ workersLock \in Threads \cup {None}
    /\ newWorkArrived \in BOOLEAN /\ shouldPause \in BOOLEAN /\ shouldStop \in BOOLEAN
    /\ jobs \in [Tasks -> Nat]
    /\ state \in [Tasks -> {"none", "pushed", "running", "returned"}]
    /\ frames \in [Threads -> Seq(Frame)]
    /\ pc \in [Threads -> Labels]
    /\ peek \in [Threads -> Tasks \cup {None}] /\ it \in [Threads -> Tasks \cup {None}]
    /\ leaving \subseteq Threads

OnTop(t, kind) == frames[t] # <<>> /\ Top(t).kind = kind

\* What the program counter of a thread says of its stack.
StackFits(t) ==
    /\ pc[t] \in {"run", "finish"} => OnTop(t, "run")
    /\ pc[t] = "wait" => OnTop(t, "wait")
    /\ pc[t] \in {"own", "first", "any"} =>
          OnTop(t, "wait") \/ (frames[t] = <<>> /\ t \in Workers \ leaving)
    /\ pc[t] = "signal" => OnTop(t, "run") \/ (frames[t] = <<>> /\ t = Main /\ t \notin leaving)
    /\ pc[t] = "user" => frames[t] = <<>> /\ t = Main /\ t \notin leaving
    /\ pc[t] \in LoopLabels => frames[t] = <<>> /\ t \in Workers \ leaving
    /\ pc[t] \in ExitLabels => frames[t] = <<>> /\ t \in leaving
    /\ pc[t] \in MainLabels => frames[t] = <<>> /\ t = Main /\ t \in leaving
    /\ pc[t] = "gone" => frames[t] = <<>> /\ t \in leaving
    /\ it[t] # None <=> pc[t] = "finish"
    /\ peek[t] # None => Looking(t) \/ pc[t] = "final"

\* A thread is in the vector of workers from its registration to its erasure.
Registered(t) ==
    pc[t] \notin {"new", "gone", "reap", "end"} => \E i \in 1..Len(workers) : workers[i] = t

ControlInv == \A t \in Threads : StackFits(t) /\ Registered(t)

\* A task is in one queue, once, until a thread takes it, and then in one frame.
QueueInv ==
    \A t \in Threads : \A i \in 1..Len(queue[t]) :
        /\ state[queue[t][i]] = "pushed"
        /\ \A u \in Threads : \A j \in 1..Len(queue[u]) :
              queue[u][j] = queue[t][i] => u = t /\ j = i

\* The frame i of t, if it runs a task, is of a task that still runs, or whose
\* function has just returned.
FrameInv ==
    \A t \in Threads : \A i \in 1..Len(frames[t]) : frames[t][i].kind = "run" =>
        /\ state[frames[t][i].task] =
              IF i = Len(frames[t]) /\ pc[t] = "finish" THEN "returned" ELSE "running"
        /\ \A u \in Threads : \A j \in 1..Len(frames[u]) :
              frames[u][j].kind = "run" /\ frames[u][j].task = frames[t][i].task => u = t /\ j = i

PlaceInv == Types /\ ControlInv /\ QueueInv /\ FrameInv

\* The tasks that owe k a decrement of its jobs: k itself until its function
\* has returned, its children that are not done, and, for a thread that is
\* about to decrement, the task whose function it has run.
Alive(k) == state[k] \in {"pushed", "running"}
Climbs(x, k) == \E t \in Threads : it[t] = k /\ Top(t).task = x
Owes(x, k) == (x = k /\ Alive(k)) \/ (Parent[x] = k /\ jobs[x] # 0) \/ Climbs(x, k)

Owed(k) == {x \in Tasks : Owes(x, k)}

JobsInv ==
    \A k \in Tasks :
        /\ jobs[k] = Cardinality(Owed(k))
        /\ state[k] = "none" => jobs[k] = 0
        /\ state[k] # "none" => Parent[k] # k

\* Who is about to decrement finds something there.
JobsAreOwed == \A t \in Threads : it[t] # None => jobs[it[t]] # 0

\* A thread that has climbed from its task to an ancestor left it without jobs.
ClimbInv ==
    \A t \in Threads : it[t] # None => Top(t).task = it[t] \/ jobs[Top(t).task] = 0

Active == {w \in Workers : w \notin leaving /\ pc[w] \notin {"new", "rise", "sleep", "woken"}}
ActiveInv == activeWorkersCount = Cardinality(Active)

TreeInv == PlaceInv /\ JobsInv /\ ClimbInv

\* Leaving the roster: who is at it holds the mutex and has told the others to
\* pause, and nobody takes that back.
LeaveInv ==
    /\ \A t \in Threads : pc[t] \in {"drain", "erase"} => workersLock = t /\ shouldPause
    /\ (leaving # {} \/ \E t \in Threads : pc[t] = "quit") => shouldStop
    /\ shouldStop => Main \in leaving
    /\ \A t \in Threads : pc[t] = "erase" =>
          \A w \in Workers \ leaving : pc[w] \in LoopLabels

\* Where tasks do not wait, only the main thread's own code does.
NoWaits ==
    \A t \in Threads : \A i \in 1..Len(frames[t]) :
        frames[t][i].kind = "wait" => t = Main /\ Main \notin leaving

AloneInv == TreeInv /\ ActiveInv /\ LeaveInv /\ NoWaits

-----------------------------------------------------------------------------
(* Types and control. *)

\* A step is one thread's.
Acts(t) ==
    \/ Proceed(t)
    \/ \E k \in Tasks : AddTask(t, k) \/ RunTask(t, k) \/ StartWait(t, k)
    \/ t = Main /\ (Stop \/ WakeAll \/ Reap \/ \E pause \in BOOLEAN : Pause(pause))

LEMMA NextActs == Next => \E t \in Threads : Acts(t)
BY DEF Next, Program, Acts, Threads

LEMMA ReturnType ==
    ASSUME NEW t \in Threads, NEW s \in Seq(Frame)
    PROVE  /\ Return(t, s) \in {"run", "wait", "final", "user", "check"}
           /\ s # <<>> => Return(t, s) = Last(s).kind /\ Return(t, s) \in {"run", "wait"}
<1>1. s # <<>> => Last(s) \in Frame
  BY FrontProperties
<1>2. QED
  BY <1>1 DEF Return, Frame

LEMMA TopType ==
    ASSUME Types, ControlInv, NEW t \in Threads, pc[t] \in {"run", "finish", "wait"}
    PROVE  /\ frames[t] \in Seq(Frame) /\ frames[t] # <<>>
           /\ Top(t) \in Frame /\ Top(t).task \in Tasks /\ Top(t).kind \in {"run", "wait"}
           /\ pc[t] \in {"run", "finish"} => Top(t).kind = "run"
           /\ pc[t] = "wait" => Top(t).kind = "wait"
           /\ pc[t] = "finish" => it[t] \in Tasks
<1>1. frames[t] \in Seq(Frame) /\ StackFits(t) /\ it[t] \in Tasks \cup {None}
  BY DEF Types, ControlInv
<1>2. frames[t] # <<>>
  BY <1>1 DEF StackFits, OnTop
<1>3. Top(t) \in Frame
  BY <1>1, <1>2, FrontProperties DEF Top
<1>4. QED
  BY <1>1, <1>2, <1>3 DEF StackFits, OnTop, Frame

\* Where a thread looks is a queue.
LEMMA VictimType ==
    ASSUME Types, ControlInv, NEW t \in Threads, pc[t] \in {"own", "first", "any", "final"}
    PROVE  Victims(t) \subseteq Threads
<1>1. workers \in Seq(Threads) /\ \A i \in 1..Len(workers) : workers[i] \in Threads
  BY ElementOfSeq DEF Types
<1>2. Len(workers) \in Nat /\ DOMAIN workers = 1..Len(workers)
  BY <1>1, LenProperties
<1>3. PICK i \in 1..Len(workers) : workers[i] = t
  BY DEF ControlInv, Registered
<1>4. workers[1] \in Threads
  BY <1>1, <1>2, <1>3
<1>5. Range(workers) \subseteq Threads
  BY <1>1, <1>2 DEF Range
<1>6. QED
  BY <1>4, <1>5 DEF Victims

LEMMA EnterType ==
    ASSUME Types, NEW t \in Threads, NEW f \in Frame, Enter(t, f)
    PROVE  /\ frames' \in [Threads -> Seq(Frame)] /\ pc' \in [Threads -> Labels]
           /\ frames' = [frames EXCEPT ![t] = Append(frames[t], f)]
           /\ pc' = [pc EXCEPT ![t] = f.kind] /\ f.kind \in {"run", "wait"}
<1>1. frames[t] \in Seq(Frame) /\ Append(frames[t], f) \in Seq(Frame) /\ f.kind \in {"run", "wait"}
  BY AppendProperties DEF Types, Frame
<1>2. QED
  BY <1>1 DEF Enter, Goto, Types, Labels

LEMMA LeaveType ==
    ASSUME Types, NEW t \in Threads, frames[t] # <<>>, Leave(t)
    PROVE  /\ frames' \in [Threads -> Seq(Frame)] /\ pc' \in [Threads -> Labels]
           /\ frames' = [frames EXCEPT ![t] = Front(frames[t])]
           /\ pc' = [pc EXCEPT ![t] = Return(t, Front(frames[t]))]
<1>1. frames[t] \in Seq(Frame) /\ Front(frames[t]) \in Seq(Frame)
  BY FrontProperties DEF Types
<1>2. Return(t, Front(frames[t])) \in Labels
  BY <1>1, ReturnType DEF Labels, ExitLabels, LoopLabels
<1>3. QED
  BY <1>1, <1>2 DEF Leave, Goto, Types

LEMMA GotoType ==
    ASSUME Types, NEW t \in Threads, NEW label \in Labels, Goto(t, label)
    PROVE  pc' \in [Threads -> Labels]
BY DEF Goto, Types

LEMMA NothingFoundType ==
    ASSUME Types, NEW t \in Threads, NothingFound(t)
    PROVE  /\ pc' \in [Threads -> Labels]
           /\ pc' = [pc EXCEPT ![t] =
                 IF pc[t] = "own" THEN "first" ELSE IF pc[t] = "first" THEN "any"
                 ELSE IF pc[t] = "final" THEN "lock"
                 ELSE IF frames[t] = <<>> THEN "rest" ELSE "wait"]
           /\ pc[t] \in {"own", "first", "any", "final"}
<1>1. QED
  BY DEF NothingFound, Goto, Types, Labels, LoopLabels, ExitLabels

\* The worker's loop and the way out change pc[t], flags and the roster only.
Loops(t) ==
    \/ RegisterThisThreadAsWorker(t) \/ Rise(t) \/ CheckStop(t) \/ CheckPause(t)
    \/ Rest(t) \/ Wake(t) \/ Woken(t) \/ Quit(t) \/ Lock(t) \/ Drain(t) \/ Erase(t)

Flags(t) == t = Main /\ (Stop \/ WakeAll \/ Reap \/ \E pause \in BOOLEAN : Pause(pause))

LEMMA LoopsType ==
    ASSUME Types, NEW t \in Threads, Loops(t) \/ Flags(t) \/ Signal(t)
    PROVE  Types' /\ UNCHANGED <<work, stacks>>
<1>1. UNCHANGED <<work, stacks>>
  BY DEF Loops, RegisterThisThreadAsWorker, Rise, CheckStop, CheckPause, Rest, Wake, Woken, Quit,
         Lock, Drain, Erase, Flags, Stop, WakeAll, Reap, Pause, Signal
<1>2. \A label \in Labels : Goto(t, label) => pc' \in [Threads -> Labels]
  BY GotoType
<1>3. pc' \in [Threads -> Labels]
  <2>1. frames[t] \in Seq(Frame)
    BY DEF Types
  <2>2. Return(t, frames[t]) \in Labels
    BY <2>1, ReturnType DEF Labels, LoopLabels, ExitLabels
  <2>3. CASE Signal(t)
    BY <1>2, <2>2, <2>3 DEF Signal
  <2>4. CASE Loops(t)
    BY <1>2, <2>4
       DEF Loops, RegisterThisThreadAsWorker, Rise, CheckStop, CheckPause, Rest, Wake, Woken, Quit,
           Lock, Drain, Erase, Step, Labels, LoopLabels, ExitLabels, MainLabels
  <2>5. CASE Flags(t)
    BY <1>2, <2>5
       DEF Flags, Stop, WakeAll, Reap, Pause, Types, Labels, LoopLabels, ExitLabels, MainLabels
  <2>6. QED
    BY <2>3, <2>4, <2>5
<1>4. workers' \in Seq(Threads)
  <2>1. CASE RegisterThisThreadAsWorker(t)
    BY <2>1, AppendProperties DEF RegisterThisThreadAsWorker, Types
  <2>2. CASE Erase(t)
    BY <2>2, RemoveFirstProperties DEF Erase, Types
  <2>3. CASE UNCHANGED workers
    BY <2>3 DEF Types
  <2>4. QED
    BY <2>1, <2>2, <2>3
       DEF Loops, Rise, CheckStop, CheckPause, Rest, Wake, Woken, Quit, roster,
           Lock, Drain, Flags, Stop, WakeAll, Reap, Pause, Signal
<1>5. /\ workersLock' \in Threads \cup {None} /\ leaving' \subseteq Threads
      /\ newWorkArrived' \in BOOLEAN /\ shouldPause' \in BOOLEAN /\ shouldStop' \in BOOLEAN
  BY DEF Types, Loops, RegisterThisThreadAsWorker, Rise, CheckStop, CheckPause, Rest, Wake, Woken,
         Quit, Lock, Drain, Erase, Flags, Stop, WakeAll, Reap, Pause, Signal, roster, flags, Threads
<1>6. QED
  BY <1>1, <1>3, <1>4, <1>5 DEF Types, work, stacks

LEMMA FinishEffect ==
    ASSUME Types, ControlInv, NEW t \in Threads, Finish(t)
    PROVE  /\ pc[t] = "finish" /\ it[t] \in Tasks
           /\ jobs' = [jobs EXCEPT ![it[t]] = jobs[it[t]] - 1]
           /\ UNCHANGED <<queue, state, peek, flags, roster, leaving>>
           /\ \/ /\ jobs[it[t]] - 1 = 0 /\ Parent[it[t]] \in Tasks
                 /\ it' = [it EXCEPT ![t] = Parent[it[t]]] /\ UNCHANGED <<frames, pc>>
              \/ /\ jobs[it[t]] - 1 # 0 \/ Parent[it[t]] = None
                 /\ it' = [it EXCEPT ![t] = None] /\ Leave(t)
<1>1. pc[t] = "finish" /\ it[t] \in Tasks
  BY TopType DEF Finish
<1>2. jobs' = [jobs EXCEPT ![it[t]] = jobs[it[t]] - 1] /\ jobs'[it[t]] = jobs[it[t]] - 1
  BY <1>1 DEF Finish, Types
<1>3. Parent[it[t]] \in Tasks \cup {None}
  BY <1>1, TaskManagerAssumption
<1>4. QED
  BY <1>1, <1>2, <1>3 DEF Finish

LEMMA TypesStep ==
    ASSUME Types, ControlInv, JobsAreOwed, NEW t \in Threads, Acts(t)
    PROVE  Types'
<1>1. CASE Loops(t) \/ Flags(t) \/ Signal(t)
  BY <1>1, LoopsType
<1>2. ASSUME NEW k \in Tasks, Created(k)
      PROVE  jobs' \in [Tasks -> Nat]
  BY <1>2 DEF Created, Types
<1>3. ASSUME NEW k \in Tasks, AddTask(t, k)
      PROVE  Types'
  <2>1. queue' \in [Threads -> Seq(Tasks)]
    <3>1. queue[t] \in Seq(Tasks) /\ Append(queue[t], k) \in Seq(Tasks)
      BY AppendProperties DEF Types
    <3>2. QED
      BY <1>3, <3>1 DEF AddTask, Types
  <2>2. jobs' \in [Tasks -> Nat]
    BY <1>2, <1>3 DEF AddTask
  <2>3. pc' \in [Threads -> Labels]
    BY <1>3 DEF AddTask, Goto, Types, Labels
  <2>4. state' \in [Tasks -> {"none", "pushed", "running", "returned"}]
    BY <1>3 DEF AddTask, Types
  <2>5. UNCHANGED <<stacks, flags, roster, leaving>>
    BY <1>3 DEF AddTask
  <2>6. QED
    BY <2>1, <2>2, <2>3, <2>4, <2>5 DEF Types, stacks, flags, roster
<1>4. ASSUME NEW k \in Tasks, RunTask(t, k)
      PROVE  Types'
  <2>1. Running(k) \in Frame /\ Enter(t, Running(k))
    BY <1>4 DEF RunTask, Running, Frame
  <2>2. frames' \in [Threads -> Seq(Frame)] /\ pc' \in [Threads -> Labels]
    BY <2>1, EnterType
  <2>3. jobs' \in [Tasks -> Nat]
    BY <1>2, <1>4 DEF RunTask
  <2>4. state' \in [Tasks -> {"none", "pushed", "running", "returned"}]
    BY <1>4 DEF RunTask, Types
  <2>5. UNCHANGED <<queue, peek, it, flags, roster, leaving>>
    BY <1>4 DEF RunTask
  <2>6. QED
    BY <2>2, <2>3, <2>4, <2>5 DEF Types, flags, roster
<1>5. ASSUME NEW k \in Tasks, StartWait(t, k)
      PROVE  Types'
  <2>1. WaitingFor(k) \in Frame /\ Enter(t, WaitingFor(k))
    BY <1>5 DEF StartWait, WaitingFor, Frame
  <2>2. frames' \in [Threads -> Seq(Frame)] /\ pc' \in [Threads -> Labels]
    BY <2>1, EnterType
  <2>3. UNCHANGED <<work, peek, it, flags, roster, leaving>>
    BY <1>5 DEF StartWait
  <2>4. QED
    BY <2>2, <2>3 DEF Types, work, flags, roster
<1>6. CASE BodyReturns(t)
  <2>1. Code(t) \in Tasks
    BY <1>6, TopType DEF BodyReturns, Code
  <2>2. pc' \in [Threads -> Labels]
    BY <1>6 DEF BodyReturns, Goto, Types, Labels
  <2>3. state' \in [Tasks -> {"none", "pushed", "running", "returned"}]
        /\ it' \in [Threads -> Tasks \cup {None}]
    BY <1>6, <2>1 DEF BodyReturns, Types
  <2>4. UNCHANGED <<queue, jobs, frames, peek, flags, roster, leaving>>
    BY <1>6 DEF BodyReturns
  <2>5. QED
    BY <2>2, <2>3, <2>4 DEF Types, flags, roster
<1>7. CASE Finish(t)
  <2>1. /\ pc[t] = "finish" /\ it[t] \in Tasks
        /\ jobs' = [jobs EXCEPT ![it[t]] = jobs[it[t]] - 1]
        /\ UNCHANGED <<queue, state, peek, flags, roster, leaving>>
        /\ \/ /\ Parent[it[t]] \in Tasks
              /\ it' = [it EXCEPT ![t] = Parent[it[t]]] /\ UNCHANGED <<frames, pc>>
           \/ it' = [it EXCEPT ![t] = None] /\ Leave(t)
    BY <1>7, FinishEffect
  <2>2. jobs[it[t]] \in Nat \ {0}
    BY <2>1, TaskManagerAssumption DEF JobsAreOwed, Types
  <2>3. jobs' \in [Tasks -> Nat]
    BY <2>1, <2>2 DEF Types
  <2>4. frames' \in [Threads -> Seq(Frame)] /\ pc' \in [Threads -> Labels]
    BY <2>1, TopType, LeaveType DEF Types
  <2>5. it' \in [Threads -> Tasks \cup {None}]
    BY <2>1 DEF Types
  <2>6. QED
    BY <2>1, <2>3, <2>4, <2>5 DEF Types, flags, roster
<1>8. CASE WaitLoop(t)
  <2>1. frames' \in [Threads -> Seq(Frame)] /\ pc' \in [Threads -> Labels]
    BY <1>8, TopType, LeaveType, GotoType DEF WaitLoop, Types, Labels
  <2>2. UNCHANGED <<work, peek, it, flags, roster, leaving>>
    BY <1>8 DEF WaitLoop
  <2>3. QED
    BY <2>1, <2>2 DEF Types, work, flags, roster
<1>9. CASE ReadEmpty(t)
  BY <1>9, NothingFoundType DEF ReadEmpty, Types, work, stacks, flags, roster
<1>10. CASE ReadHead(t)
  <2>1. PICK u \in Threads : queue[u] # <<>> /\ peek' = [peek EXCEPT ![t] = Head(queue[u])]
    BY <1>10, VictimType DEF ReadHead, Looking
  <2>2. Head(queue[u]) \in Tasks
    BY <2>1, HeadTailProperties DEF Types
  <2>3. peek' \in [Threads -> Tasks \cup {None}]
    BY <2>1, <2>2 DEF Types
  <2>4. UNCHANGED <<work, frames, it, flags, roster, leaving, pc>>
    BY <1>10 DEF ReadHead
  <2>5. QED
    BY <2>3, <2>4 DEF Types, work, flags, roster
<1>11. CASE Take(t)
  <2>1. PICK u \in Threads : /\ HeadIs(u, peek[t])
                             /\ queue' = [queue EXCEPT ![u] = Tail(queue[u])]
                             /\ newWorkArrived' \in BOOLEAN
    BY <1>11 DEF Take, Types
  <2>2. queue[u] \in Seq(Tasks) /\ Tail(queue[u]) \in Seq(Tasks) /\ peek[t] \in Tasks
    BY <2>1, HeadTailProperties DEF Types, HeadIs
  <2>3. Running(peek[t]) \in Frame /\ Enter(t, Running(peek[t]))
    BY <1>11, <2>2 DEF Take, Running, Frame
  <2>4. frames' \in [Threads -> Seq(Frame)] /\ pc' \in [Threads -> Labels]
    BY <2>3, EnterType
  <2>5. queue' \in [Threads -> Seq(Tasks)]
    BY <2>1, <2>2 DEF Types
  <2>6. state' \in [Tasks -> {"none", "pushed", "running", "returned"}]
        /\ peek' \in [Threads -> Tasks \cup {None}]
    BY <1>11, <2>2 DEF Take, Types
  <2>7. UNCHANGED <<jobs, it, activeWorkersCount, shouldPause, shouldStop, roster, leaving>>
    BY <1>11 DEF Take
  <2>8. QED
    BY <2>1, <2>4, <2>5, <2>6, <2>7 DEF Types, roster
<1>12. CASE Beaten(t)
  <2>1. pc' \in [Threads -> Labels]
    BY <1>12, NothingFoundType DEF Beaten, Types
  <2>2. peek' \in [Threads -> Tasks \cup {None}]
    BY <1>12 DEF Beaten, Types
  <2>3. UNCHANGED <<work, frames, it, flags, roster, leaving>>
    BY <1>12 DEF Beaten
  <2>4. QED
    BY <2>1, <2>2, <2>3 DEF Types, work, flags, roster
<1>13. QED
  BY <1>1, <1>3, <1>4, <1>5, <1>6, <1>7, <1>8, <1>9, <1>10, <1>11, <1>12
     DEF Acts, Proceed, ExecuteOneTask, Loops, Flags

\* The others stay where they are.
LEMMA OneMoves ==
    ASSUME Types, ControlInv, NEW t \in Threads, Acts(t), NEW u \in Threads, u # t
    PROVE  /\ pc'[u] = pc[u] /\ frames'[u] = frames[u]
           /\ it'[u] = it[u] /\ peek'[u] = peek[u]
           /\ u \in leaving' <=> u \in leaving
<1> USE DEF Types
<1>0. /\ \A label : Goto(t, label) => pc'[u] = pc[u]
      /\ \A f : Enter(t, f) => pc'[u] = pc[u] /\ frames'[u] = frames[u]
      /\ Leave(t) => pc'[u] = pc[u] /\ frames'[u] = frames[u]
      /\ NothingFound(t) => pc'[u] = pc[u]
  BY DEF Goto, Enter, Leave, NothingFound
<1>1. CASE Loops(t)
  <2>1. UNCHANGED <<work, stacks>>
    BY <1>1, LoopsType
  <2>2. pc'[u] = pc[u]
    BY <1>0, <1>1
       DEF Loops, RegisterThisThreadAsWorker, Rise, CheckStop, CheckPause, Rest, Wake, Woken, Quit,
           Lock, Drain, Erase, Step
  <2>3. u \in leaving' <=> u \in leaving
    BY <1>1
       DEF Loops, RegisterThisThreadAsWorker, Rise, CheckStop, CheckPause, Rest, Wake, Woken, Quit,
           Lock, Drain, Erase
  <2>4. QED
    BY <2>1, <2>2, <2>3 DEF stacks
<1>2. CASE Flags(t)
  BY <1>0, <1>2 DEF Flags, Stop, WakeAll, Reap, Pause, stacks
<1>3. CASE Signal(t)
  BY <1>0, <1>3 DEF Signal, stacks
<1>4. ASSUME NEW k \in Tasks, AddTask(t, k)
      PROVE  /\ pc'[u] = pc[u] /\ frames'[u] = frames[u] /\ it'[u] = it[u]
             /\ peek'[u] = peek[u] /\ leaving' = leaving
  BY <1>0, <1>4 DEF AddTask, stacks
<1>5. ASSUME NEW k \in Tasks, RunTask(t, k)
      PROVE  /\ pc'[u] = pc[u] /\ frames'[u] = frames[u] /\ it'[u] = it[u]
             /\ peek'[u] = peek[u] /\ leaving' = leaving
  BY <1>0, <1>5 DEF RunTask
<1>6. ASSUME NEW k \in Tasks, StartWait(t, k)
      PROVE  /\ pc'[u] = pc[u] /\ frames'[u] = frames[u] /\ it'[u] = it[u]
             /\ peek'[u] = peek[u] /\ leaving' = leaving
  BY <1>0, <1>6 DEF StartWait
<1>7. CASE BodyReturns(t)
  BY <1>0, <1>7 DEF BodyReturns
<1>8. CASE Finish(t)
  <2>1. /\ UNCHANGED <<peek, leaving>>
        /\ \/ it' = [it EXCEPT ![t] = Parent[it[t]]] /\ UNCHANGED <<frames, pc>>
           \/ it' = [it EXCEPT ![t] = None] /\ Leave(t)
    BY <1>8, FinishEffect
  <2>2. QED
    BY <1>0, <2>1
<1>9. CASE WaitLoop(t)
  BY <1>0, <1>9 DEF WaitLoop
<1>10. CASE ReadEmpty(t)
  BY <1>0, <1>10 DEF ReadEmpty, stacks
<1>11. CASE ReadHead(t)
  BY <1>11 DEF ReadHead
<1>12. CASE Take(t)
  BY <1>0, <1>12 DEF Take
<1>13. CASE Beaten(t)
  BY <1>0, <1>13 DEF Beaten
<1>14. QED
  BY <1>1, <1>2, <1>3, <1>4, <1>5, <1>6, <1>7, <1>8, <1>9, <1>10, <1>11, <1>12, <1>13
     DEF Acts, Proceed, ExecuteOneTask, Loops, Flags

\* A thread that returns to what is below fits its stack there.
LEMMA ReturnFits ==
    ASSUME NEW t \in Threads, frames'[t] \in Seq(Frame), pc'[t] = Return(t, frames'[t]),
           it'[t] = None, peek'[t] = None, leaving' = leaving
    PROVE  StackFits(t)'
<1>1. CASE frames'[t] = <<>>
  <2>1. pc'[t] = IF t \in leaving THEN "final" ELSE IF t = Main THEN "user" ELSE "check"
    BY <1>1 DEF Return
  <2>2. t # Main => t \in Workers
    BY DEF Threads
  <2>3. QED
    BY <1>1, <2>1, <2>2, TaskManagerAssumption
       DEF StackFits, LoopLabels, ExitLabels, MainLabels
<1>2. CASE frames'[t] # <<>>
  <2>1. pc'[t] = Last(frames'[t]).kind /\ pc'[t] \in {"run", "wait"}
    BY <1>2, ReturnType
  <2>2. OnTop(t, pc[t])'
    BY <1>2, <2>1 DEF OnTop, Top
  <2>3. QED
    BY <2>1, <2>2 DEF StackFits, LoopLabels, ExitLabels, MainLabels
<1>3. QED
  BY <1>1, <1>2

\* So does one that begins to run or to wait.
LEMMA EnterFits ==
    ASSUME Types, NEW t \in Threads, NEW f \in Frame, Enter(t, f), it'[t] = None, peek'[t] = None
    PROVE  StackFits(t)'
<1>1. frames'[t] = Append(frames[t], f) /\ pc'[t] = f.kind /\ f.kind \in {"run", "wait"}
  BY EnterType DEF Types
<1>2. /\ frames[t] \in Seq(Frame) /\ Len(frames'[t]) = Len(frames[t]) + 1
      /\ frames'[t][Len(frames[t]) + 1] = f /\ frames'[t] \in Seq(Frame)
  BY <1>1, AppendProperties DEF Types
<1>3. Last(frames'[t]) = f
  BY <1>2 DEF Last
<1>4. frames'[t] # <<>>
  BY <1>2, EmptySeq, LenProperties
<1>5. OnTop(t, pc[t])'
  BY <1>1, <1>3, <1>4 DEF OnTop, Top
<1>6. QED
  BY <1>1, <1>5 DEF StackFits, LoopLabels, ExitLabels, MainLabels

LEMMA StackFitsStep ==
    ASSUME Types, ControlInv, NEW t \in Threads, Acts(t)
    PROVE  StackFits(t)'
<1> DEFINE Idle == it[t] = None /\ peek[t] = None
<1>0. StackFits(t) /\ frames[t] \in Seq(Frame) /\ None \notin Tasks
  BY TaskManagerAssumption DEF ControlInv, Types
<1>1. CASE Signal(t)
  <2>1. Idle
    BY <1>0, <1>1 DEF Signal, StackFits, Looking
  <2>2. frames'[t] = frames[t] /\ it'[t] = it[t] /\ peek'[t] = peek[t] /\ leaving' = leaving
    BY <1>1 DEF Signal, stacks
  <2>3. pc'[t] = Return(t, frames[t])
    BY <1>1 DEF Signal, Goto, Types
  <2>4. QED
    BY <1>0, <2>1, <2>2, <2>3, ReturnFits
<1>2. CASE Loops(t)
  <2>1. UNCHANGED <<work, stacks>>
    BY <1>2, LoopsType
  <2>2. frames'[t] = <<>> /\ it'[t] = None
    BY <1>0, <1>2, <2>1
       DEF stacks, StackFits, Loops, RegisterThisThreadAsWorker, Rise, CheckStop, CheckPause, Rest,
           Wake, Woken, Quit, Lock, Drain, Erase, Step, LoopLabels, ExitLabels
  <2>3. CASE Lock(t) \/ Drain(t) \/ Erase(t)
    BY <1>0, <2>1, <2>2, <2>3, TaskManagerAssumption
       DEF Lock, Drain, Erase, Goto, stacks, StackFits, Looking, Types, Threads,
           LoopLabels, ExitLabels, MainLabels
  <2>4. CASE Quit(t)
    BY <1>0, <2>1, <2>2, <2>4, TaskManagerAssumption
       DEF Quit, Step, Goto, stacks, StackFits, Looking, Types, Threads,
           LoopLabels, ExitLabels, MainLabels
  <2>5. CASE ~ (Lock(t) \/ Drain(t) \/ Erase(t) \/ Quit(t))
    <3>1. /\ t \in Workers \ leaving /\ leaving' = leaving /\ pc[t] \in LoopLabels
          /\ pc'[t] \in LoopLabels \cup {"own"}
      BY <1>0, <1>2, <2>5
         DEF Loops, RegisterThisThreadAsWorker, Rise, CheckStop, CheckPause, Rest,
             Wake, Woken, Step, Goto, StackFits, Types, LoopLabels
    <3>2. peek'[t] = None
      BY <1>0, <2>1, <3>1 DEF stacks, StackFits, Looking, LoopLabels
    <3>3. QED
      BY <1>0, <2>2, <3>1, <3>2 DEF StackFits, LoopLabels, ExitLabels, MainLabels
  <2>6. QED
    BY <2>3, <2>4, <2>5
<1>3. CASE Flags(t)
  <2>1. UNCHANGED <<work, stacks>>
    BY <1>3, LoopsType
  <2>2. QED
    BY <1>0, <1>3, <2>1
       DEF Flags, Stop, WakeAll, Reap, Pause, Goto, stacks, StackFits, Looking, Types,
           LoopLabels, ExitLabels, MainLabels
<1>4. ASSUME NEW k \in Tasks, AddTask(t, k)
      PROVE  StackFits(t)'
  <2>1. /\ frames'[t] = frames[t] /\ it'[t] = it[t] /\ peek'[t] = peek[t] /\ leaving' = leaving
        /\ pc'[t] = "signal" /\ pc[t] \in {"run", "user"}
    BY <1>4 DEF AddTask, stacks, Goto, Types, Executing
  <2>2. OnTop(t, "run")' <=> OnTop(t, "run")
    BY <2>1 DEF OnTop, Top
  <2>3. QED
    BY <1>0, <2>1, <2>2 DEF StackFits, Looking, LoopLabels, ExitLabels, MainLabels
<1>5. ASSUME NEW k \in Tasks, RunTask(t, k)
      PROVE  StackFits(t)'
  <2>1. Running(k) \in Frame /\ Enter(t, Running(k)) /\ UNCHANGED <<peek, it>> /\ pc[t] = "user"
    BY <1>5 DEF RunTask, Running, Frame
  <2>2. Idle
    BY <1>0, <2>1 DEF StackFits, Looking
  <2>3. QED
    BY <2>1, <2>2, EnterFits
<1>6. ASSUME NEW k \in Tasks, StartWait(t, k)
      PROVE  StackFits(t)'
  <2>1. /\ WaitingFor(k) \in Frame /\ Enter(t, WaitingFor(k)) /\ UNCHANGED <<peek, it>>
        /\ pc[t] \in {"run", "user"}
    BY <1>6 DEF StartWait, WaitingFor, Frame, Executing
  <2>2. Idle
    BY <1>0, <2>1 DEF StackFits, Looking
  <2>3. QED
    BY <2>1, <2>2, EnterFits
<1>7. CASE BodyReturns(t)
  <2>1. Code(t) \in Tasks
    BY <1>7, TopType DEF BodyReturns, Code
  <2>2. /\ it'[t] # None /\ pc'[t] = "finish" /\ pc[t] = "run"
        /\ UNCHANGED <<frames, peek, leaving>>
    BY <1>0, <1>7, <2>1 DEF BodyReturns, Goto, Types
  <2>3. QED
    BY <1>0, <2>2 DEF StackFits, Looking, OnTop, Top, LoopLabels, ExitLabels, MainLabels
<1>8. CASE Finish(t)
  <2>1. /\ pc[t] = "finish" /\ UNCHANGED <<peek, leaving>>
        /\ \/ /\ Parent[it[t]] \in Tasks
              /\ it' = [it EXCEPT ![t] = Parent[it[t]]] /\ UNCHANGED <<frames, pc>>
           \/ it' = [it EXCEPT ![t] = None] /\ Leave(t)
    BY <1>8, FinishEffect
  <2>2. CASE /\ Parent[it[t]] \in Tasks
             /\ it' = [it EXCEPT ![t] = Parent[it[t]]] /\ UNCHANGED <<frames, pc>>
    <3>1. it'[t] # None
      BY <1>0, <2>2 DEF Types
    <3>2. QED
      BY <1>0, <2>1, <2>2, <3>1 DEF StackFits, Looking, OnTop, Top, LoopLabels, ExitLabels, MainLabels
  <2>3. CASE it' = [it EXCEPT ![t] = None] /\ Leave(t)
    <3>1. frames[t] # <<>> /\ peek[t] = None
      BY <1>0, <2>1, TopType DEF StackFits, Looking
    <3>2. /\ frames'[t] = Front(frames[t]) /\ frames' \in [Threads -> Seq(Frame)]
          /\ pc'[t] = Return(t, frames'[t])
      BY <2>3, <3>1, LeaveType DEF Types
    <3>3. it'[t] = None /\ peek'[t] = None
      BY <2>1, <2>3, <3>1 DEF Types
    <3>4. QED
      BY <2>1, <3>2, <3>3, ReturnFits
  <2>4. QED
    BY <2>1, <2>2, <2>3
<1>9. CASE WaitLoop(t)
  <2>1. /\ pc[t] = "wait" /\ UNCHANGED <<peek, it, leaving>> /\ Idle /\ frames[t] # <<>>
        /\ OnTop(t, "wait")
    BY <1>0, <1>9, TopType DEF WaitLoop, StackFits, Looking
  <2>2. CASE Leave(t)
    <3>1. /\ frames'[t] = Front(frames[t]) /\ frames' \in [Threads -> Seq(Frame)]
          /\ pc'[t] = Return(t, frames'[t])
      BY <2>1, <2>2, LeaveType DEF Types
    <3>2. QED
      BY <2>1, <3>1, ReturnFits
  <2>3. CASE Goto(t, "own") /\ UNCHANGED frames
    BY <2>1, <2>3 DEF Goto, Types, StackFits, Looking, OnTop, Top, LoopLabels, ExitLabels, MainLabels
  <2>4. QED
    BY <1>9, <2>2, <2>3 DEF WaitLoop
<1>10. CASE ReadEmpty(t) \/ Beaten(t)
  <2>1. /\ UNCHANGED <<frames, it, leaving>> /\ peek'[t] = None
        /\ NothingFound(t) \/ (pc[t] = "any" /\ UNCHANGED pc)
    BY <1>10 DEF ReadEmpty, Beaten, stacks, Types
  <2>2. CASE NothingFound(t)
    BY <1>0, <2>1, <2>2, NothingFoundType
       DEF StackFits, Looking, OnTop, Top, Types, LoopLabels, ExitLabels, MainLabels
  <2>3. CASE pc[t] = "any" /\ UNCHANGED pc
    BY <1>0, <2>1, <2>3
       DEF StackFits, Looking, OnTop, Top, Types, LoopLabels, ExitLabels, MainLabels
  <2>4. QED
    BY <2>1, <2>2, <2>3
<1>11. CASE ReadHead(t)
  BY <1>0, <1>11 DEF ReadHead, StackFits, Looking, OnTop, Top, LoopLabels, ExitLabels, MainLabels
<1>12. CASE Take(t)
  <2>1. PICK u \in Threads : queue[u] # <<>> /\ Head(queue[u]) = peek[t]
    BY <1>12 DEF Take, HeadIs
  <2>2. peek[t] \in Tasks
    BY <2>1, HeadTailProperties DEF Types
  <2>3. Running(peek[t]) \in Frame /\ Enter(t, Running(peek[t])) /\ it' = it /\ peek'[t] = None
    BY <1>12, <2>2 DEF Take, Running, Frame, Types
  <2>4. it[t] = None
    BY <1>0, <2>2 DEF StackFits, Looking
  <2>5. QED
    BY <2>3, <2>4, EnterFits
<1>13. QED
  BY <1>1, <1>2, <1>3, <1>4, <1>5, <1>6, <1>7, <1>8, <1>9, <1>10, <1>11, <1>12
     DEF Acts, Proceed, ExecuteOneTask, Loops, Flags

LEMMA RegisteredStep ==
    ASSUME Types, ControlInv, NEW t \in Threads, Acts(t), NEW u \in Threads
    PROVE  Registered(u)'
<1> DEFINE Known(v) == \E i \in 1..Len(workers) : workers[i] = v
<1>1. ASSUME NEW v, Known(v), ~ Erase(t) \/ v # t
      PROVE  Known(v)'
  <2>1. CASE RegisterThisThreadAsWorker(t)
    <3>1. workers' = Append(workers, t) /\ workers \in Seq(Threads) /\ Len(workers) \in Nat
      BY <2>1, LenProperties DEF RegisterThisThreadAsWorker, Types
    <3>2. /\ Len(workers') = Len(workers) + 1
          /\ \A i \in 1..Len(workers) : workers'[i] = workers[i]
      BY <3>1, AppendProperties
    <3>3. QED
      BY <1>1, <3>1, <3>2
  <2>2. CASE Erase(t)
    <3>1. workers \in Seq(Threads) /\ workers' = RemoveFirst(workers, t) /\ v # t
      BY <1>1, <2>2 DEF Erase, Types
    <3>2. \A i \in 1..Len(workers) : workers[i] # t =>
             \E j \in 1..Len(RemoveFirst(workers, t)) : RemoveFirst(workers, t)[j] = workers[i]
      BY <3>1, RemoveFirstProperties
    <3>3. PICK i \in 1..Len(workers) : workers[i] = v
      BY <1>1
    <3>4. QED
      BY <3>1, <3>2, <3>3
  <2>3. CASE ~ RegisterThisThreadAsWorker(t) /\ ~ Erase(t)
    <3>1. workers' = workers
      BY <2>3
         DEF Acts, Proceed, ExecuteOneTask, AddTask, RunTask, StartWait, BodyReturns, Finish,
             WaitLoop, ReadEmpty, ReadHead, Take, Beaten, Signal, Rise, CheckStop, CheckPause,
             Rest, Wake, Woken, Quit, Lock, Drain, Stop, WakeAll, Reap, Pause, roster
    <3>2. QED
      BY <1>1, <3>1
  <2>4. QED
    BY <2>1, <2>2, <2>3
<1>2. pc[u] \notin {"new", "gone", "reap", "end"} => Known(u)
  BY DEF ControlInv, Registered
<1> HIDE DEF Known
<1>3. CASE u # t
  <2>1. pc'[u] = pc[u]
    BY <1>3, OneMoves
  <2>2. QED
    BY <1>1, <1>2, <1>3, <2>1 DEF Registered, Known
<1>4. CASE u = t /\ pc[t] = "new"
  <2>1. CASE RegisterThisThreadAsWorker(t)
    <3>1. workers' = Append(workers, t) /\ workers \in Seq(Threads) /\ Len(workers) \in Nat
      BY <2>1, LenProperties DEF RegisterThisThreadAsWorker, Types
    <3>2. /\ Len(workers') = Len(workers) + 1
          /\ workers'[Len(workers) + 1] = t
      BY <3>1, AppendProperties
    <3>3. QED
      BY <1>4, <3>1, <3>2 DEF Registered
  <2>2. CASE ~ RegisterThisThreadAsWorker(t)
    <3>1. it[t] = None /\ peek[t] = None /\ t # Main
      BY <1>4, TaskManagerAssumption DEF ControlInv, StackFits, Looking, Threads, LoopLabels
    <3>2. FALSE
      BY <1>4, <2>2, <3>1
         DEF Acts, Proceed, ExecuteOneTask, AddTask, RunTask, StartWait, BodyReturns, Finish,
             WaitLoop, ReadEmpty, ReadHead, Take, Beaten, Signal, Rise, CheckStop, CheckPause,
             Rest, Wake, Woken, Quit, Lock, Drain, Erase, Step, Executing, Looking
    <3>3. QED
      BY <3>2
  <2>3. QED
    BY <2>1, <2>2
<1>5. CASE u = t /\ pc[t] \in {"gone", "reap", "end"}
  <2>1. peek[t] = None
    BY <1>5 DEF ControlInv, StackFits, Looking
  <2>2. t = Main /\ (WakeAll \/ Reap \/ Stop \/ \E pause \in BOOLEAN : Pause(pause))
    BY <1>5, <2>1
       DEF Acts, Proceed, ExecuteOneTask, AddTask, RunTask, StartWait, BodyReturns, Finish,
           WaitLoop, ReadEmpty, ReadHead, Take, Beaten, Signal, Rise, CheckStop, CheckPause,
           Rest, Wake, Woken, Quit, Lock, Drain, Erase, Step, Executing, Looking,
           RegisterThisThreadAsWorker
  <2>3. t = Main /\ Reap /\ pc[t] = "reap"
    BY <1>5, <2>2 DEF WakeAll, Stop, Pause, Reap
  <2>4. pc'[t] \in {"reap", "end"}
    BY <2>3 DEF Reap, Goto, Types
  <2>5. QED
    BY <1>5, <2>4 DEF Registered
<1>6. CASE u = t /\ Erase(t)
  BY <1>6 DEF Erase, Goto, Types, Registered
<1>7. CASE u = t /\ pc[t] \notin {"new", "gone", "reap", "end"} /\ ~ Erase(t)
  BY <1>1, <1>2, <1>7 DEF Registered, Known
<1>8. QED
  BY <1>3, <1>4, <1>5, <1>6, <1>7

LEMMA ControlStep ==
    ASSUME Types, ControlInv, NEW t \in Threads, Acts(t)
    PROVE  ControlInv'
<1>1. ASSUME NEW u \in Threads
      PROVE  StackFits(u)'
  <2>1. CASE u = t
    BY <2>1, StackFitsStep
  <2>2. CASE u # t
    <3>1. /\ pc'[u] = pc[u] /\ frames'[u] = frames[u] /\ it'[u] = it[u] /\ peek'[u] = peek[u]
          /\ u \in leaving' <=> u \in leaving
      BY <2>2, OneMoves
    <3>2. StackFits(u)
      BY DEF ControlInv
    <3>3. QED
      BY <3>1, <3>2 DEF StackFits, OnTop, Top, Looking
  <2>3. QED
    BY <2>1, <2>2
<1>2. \A u \in Threads : Registered(u)'
  BY RegisteredStep
<1>3. QED
  BY <1>1, <1>2 DEF ControlInv

-----------------------------------------------------------------------------
(* Queues and frames. *)

\* The steps that neither touch a task nor a stack.
Passes(t) ==
    Loops(t) \/ Flags(t) \/ Signal(t) \/ ReadEmpty(t) \/ ReadHead(t) \/ Beaten(t)

LEMMA ActsCases ==
    ASSUME NEW t \in Threads, Acts(t)
    PROVE  \/ Passes(t)
           \/ \E k \in Tasks : AddTask(t, k) \/ RunTask(t, k) \/ StartWait(t, k)
           \/ BodyReturns(t) \/ Finish(t) \/ WaitLoop(t) \/ Take(t)
BY DEF Acts, Passes, Proceed, ExecuteOneTask, Loops, Flags

LEMMA PassesNothing ==
    ASSUME Types, ControlInv, NEW t \in Threads, Passes(t)
    PROVE  /\ UNCHANGED <<work, frames, it>>
           /\ \A u \in Threads : pc'[u] = "finish" <=> pc[u] = "finish"
<1>0. Acts(t)
  BY DEF Passes, Acts, Proceed, ExecuteOneTask, Loops, Flags
<1>1. UNCHANGED <<work, frames, it>>
  <2>1. CASE Loops(t) \/ Flags(t) \/ Signal(t)
    BY <2>1, LoopsType DEF stacks
  <2>2. CASE ReadEmpty(t) \/ ReadHead(t) \/ Beaten(t)
    BY <2>2 DEF ReadEmpty, ReadHead, Beaten, stacks
  <2>3. QED
    BY <2>1, <2>2 DEF Passes
<1>2. \A u \in Threads : StackFits(u) /\ StackFits(u)'
  BY <1>0, StackFitsStep, ControlStep DEF ControlInv
<1>3. QED
  BY <1>1, <1>2 DEF StackFits

\* Entering adds one frame on top, leaving takes one away.
LEMMA EnterFrames ==
    ASSUME Types, NEW t \in Threads, NEW f \in Frame, Enter(t, f)
    PROVE  /\ Len(frames'[t]) = Len(frames[t]) + 1 /\ Len(frames[t]) \in Nat
           /\ frames'[t][Len(frames[t]) + 1] = f
           /\ \A u \in Threads : \A i \in 1..Len(frames'[u]) :
                 \/ u = t /\ i = Len(frames[t]) + 1
                 \/ i \in 1..Len(frames[u]) /\ frames'[u][i] = frames[u][i] /\ (u = t => i # Len(frames'[t]))
<1>1. frames' = [frames EXCEPT ![t] = Append(frames[t], f)]
  BY EnterType
<1>2. /\ frames[t] \in Seq(Frame) /\ Len(frames[t]) \in Nat
      /\ frames'[t] = Append(frames[t], f)
  BY <1>1, LenProperties DEF Types
<1>3. /\ Len(frames'[t]) = Len(frames[t]) + 1 /\ frames'[t][Len(frames[t]) + 1] = f
      /\ \A i \in 1..Len(frames[t]) : frames'[t][i] = frames[t][i]
  BY <1>2, AppendProperties
<1>4. ASSUME NEW u \in Threads, NEW i \in 1..Len(frames'[u])
      PROVE  \/ u = t /\ i = Len(frames[t]) + 1
             \/ i \in 1..Len(frames[u]) /\ frames'[u][i] = frames[u][i] /\ (u = t => i # Len(frames'[t]))
  <2>1. CASE u = t
    BY <1>2, <1>3, <2>1
  <2>2. CASE u # t
    <3>1. frames'[u] = frames[u]
      BY <1>1, <2>2 DEF Types
    <3>2. QED
      BY <2>2, <3>1
  <2>3. QED
    BY <2>1, <2>2
<1>5. QED
  BY <1>2, <1>3, <1>4

LEMMA LeaveFrames ==
    ASSUME Types, NEW t \in Threads, frames[t] # <<>>, Leave(t)
    PROVE  /\ Len(frames[t]) \in Nat \ {0}
           /\ \A u \in Threads : \A i \in 1..Len(frames'[u]) :
                 i \in 1..Len(frames[u]) /\ frames'[u][i] = frames[u][i] /\ (u = t => i # Len(frames[t]))
           /\ \A u \in Threads : u # t => frames'[u] = frames[u]
<1>1. frames' = [frames EXCEPT ![t] = Front(frames[t])]
  BY LeaveType
<1>2. frames[t] \in Seq(Frame) /\ frames'[t] = Front(frames[t])
  BY <1>1 DEF Types
<1>3. /\ Len(frames[t]) \in Nat \ {0} /\ Len(frames'[t]) = Len(frames[t]) - 1
      /\ \A i \in 1..(Len(frames[t]) - 1) : frames'[t][i] = frames[t][i]
  BY <1>2, FrontProperties
<1>4. \A i \in 1..Len(frames'[t]) :
         i \in 1..Len(frames[t]) /\ frames'[t][i] = frames[t][i] /\ i # Len(frames[t])
  BY <1>3
<1>5. \A u \in Threads : u # t => frames'[u] = frames[u]
  BY <1>1 DEF Types
<1>6. QED
  BY <1>3, <1>4, <1>5

\* A task whose function a thread executes is running.
LEMMA CodeRuns ==
    ASSUME Types, ControlInv, FrameInv, NEW t \in Threads, pc[t] \in {"run", "finish"}
    PROVE  /\ Top(t).kind = "run" /\ Top(t).task \in Tasks
           /\ state[Top(t).task] = IF pc[t] = "finish" THEN "returned" ELSE "running"
           /\ \A u \in Threads : \A i \in 1..Len(frames[u]) :
                 frames[u][i].kind = "run" /\ frames[u][i].task = Top(t).task =>
                     u = t /\ i = Len(frames[t])
           /\ Len(frames[t]) \in Nat \ {0} /\ Top(t) = frames[t][Len(frames[t])]
<1>1. Top(t).kind = "run" /\ Top(t).task \in Tasks /\ frames[t] \in Seq(Frame) /\ frames[t] # <<>>
  BY TopType
<1>2. Len(frames[t]) \in Nat \ {0} /\ Top(t) = frames[t][Len(frames[t])]
  BY <1>1, FrontProperties DEF Top
<1>3. Len(frames[t]) \in 1..Len(frames[t])
  BY <1>2
<1>4. QED
  BY <1>1, <1>2, <1>3 DEF FrameInv

LEMMA QueueStep ==
    ASSUME PlaceInv, NEW t \in Threads, Acts(t)
    PROVE  QueueInv'
<1> USE DEF PlaceInv
<1>1. ASSUME queue' = queue, \A k \in Tasks : state[k] = "pushed" => state'[k] = "pushed"
      PROVE  QueueInv'
  <2>1. ASSUME NEW v \in Threads, NEW i \in 1..Len(queue[v])
        PROVE  state'[queue[v][i]] = "pushed"
    <3>1. queue[v][i] \in Tasks
      BY ElementOfSeq DEF Types
    <3>2. state[queue[v][i]] = "pushed"
      BY DEF QueueInv
    <3>3. QED
      BY <1>1, <3>1, <3>2
  <2>2. QED
    BY <1>1, <2>1 DEF QueueInv
<1>2. CASE Passes(t)
  BY <1>1, <1>2, PassesNothing DEF work
<1>3. ASSUME NEW k \in Tasks, AddTask(t, k)
      PROVE  QueueInv'
  <2>1. /\ queue[t] \in Seq(Tasks) /\ queue' = [queue EXCEPT ![t] = Append(queue[t], k)]
        /\ state[k] = "none" /\ state' = [state EXCEPT ![k] = "pushed"]
    BY <1>3 DEF AddTask, Types
  <2>2. queue'[t] = Append(queue[t], k) /\ \A v \in Threads : v # t => queue'[v] = queue[v]
    BY <2>1 DEF Types
  <2>3. /\ Len(queue[t]) \in Nat /\ Len(queue'[t]) = Len(queue[t]) + 1
        /\ queue'[t][Len(queue[t]) + 1] = k
        /\ \A i \in 1..Len(queue[t]) : queue'[t][i] = queue[t][i]
    BY <2>1, <2>2, AppendProperties, LenProperties
  <2>4. ASSUME NEW v \in Threads, NEW i \in 1..Len(queue'[v])
        PROVE  \/ v = t /\ i = Len(queue[t]) + 1 /\ queue'[v][i] = k
               \/ i \in 1..Len(queue[v]) /\ queue'[v][i] = queue[v][i]
    BY <2>2, <2>3
  <2>5. ASSUME NEW v \in Threads, NEW i \in 1..Len(queue[v])
        PROVE  queue[v][i] \in Tasks /\ queue[v][i] # k /\ state'[queue[v][i]] = "pushed"
    <3>1. queue[v][i] \in Tasks
      BY ElementOfSeq DEF Types
    <3>2. state[queue[v][i]] = "pushed"
      BY DEF QueueInv
    <3>3. QED
      BY <2>1, <3>1, <3>2 DEF Types
  <2>6. state'[k] = "pushed"
    BY <2>1 DEF Types
  <2>7. ASSUME NEW v \in Threads, NEW i \in 1..Len(queue'[v])
        PROVE  state'[queue'[v][i]] = "pushed"
    BY <2>4, <2>5, <2>6
  <2>8. ASSUME NEW v \in Threads, NEW i \in 1..Len(queue'[v]),
               NEW u \in Threads, NEW j \in 1..Len(queue'[u]), queue'[u][j] = queue'[v][i]
        PROVE  u = v /\ j = i
    <3>1. CASE queue'[v][i] = k
      <4>1. v = t /\ i = Len(queue[t]) + 1
        BY <2>4, <2>5, <3>1
      <4>2. u = t /\ j = Len(queue[t]) + 1
        BY <2>4, <2>5, <2>8, <3>1
      <4>3. QED
        BY <4>1, <4>2
    <3>2. CASE queue'[v][i] # k
      <4>1. i \in 1..Len(queue[v]) /\ queue'[v][i] = queue[v][i]
        BY <2>4, <3>2
      <4>2. j \in 1..Len(queue[u]) /\ queue'[u][j] = queue[u][j]
        BY <2>4, <2>8, <3>2
      <4>3. QED
        BY <2>8, <4>1, <4>2 DEF QueueInv
    <3>3. QED
      BY <3>1, <3>2
  <2>9. QED
    BY <2>7, <2>8 DEF QueueInv
<1>4. ASSUME NEW k \in Tasks, RunTask(t, k)
      PROVE  QueueInv'
  BY <1>1, <1>4 DEF RunTask, Types
<1>5. ASSUME NEW k \in Tasks, StartWait(t, k)
      PROVE  QueueInv'
  BY <1>1, <1>5 DEF StartWait, work
<1>6. CASE BodyReturns(t)
  <2>1. pc[t] = "run" /\ Code(t) = Top(t).task
    BY <1>6 DEF BodyReturns, Code
  <2>2. state[Code(t)] = "running"
    BY <2>1, CodeRuns
  <2>3. queue' = queue /\ state' = [state EXCEPT ![Code(t)] = "returned"]
    BY <1>6 DEF BodyReturns
  <2>4. QED
    BY <1>1, <2>2, <2>3 DEF Types
<1>7. CASE Finish(t) \/ WaitLoop(t)
  BY <1>1, <1>7 DEF Finish, WaitLoop, work
<1>8. CASE Take(t)
  <2>1. PICK u \in Threads : HeadIs(u, peek[t]) /\ queue' = [queue EXCEPT ![u] = Tail(queue[u])]
    BY <1>8 DEF Take
  <2>2. /\ queue[u] \in Seq(Tasks) /\ queue[u] # <<>> /\ Head(queue[u]) = peek[t]
        /\ queue'[u] = Tail(queue[u])
        /\ \A v \in Threads : v # u => queue'[v] = queue[v]
    BY <2>1 DEF HeadIs, Types
  <2>3. /\ peek[t] \in Tasks /\ Len(queue[u]) \in Nat \ {0} /\ queue[u][1] = peek[t]
        /\ Len(queue'[u]) = Len(queue[u]) - 1
        /\ \A i \in 1..Len(queue'[u]) : queue'[u][i] = queue[u][i + 1]
    BY <2>2, HeadTailProperties, EmptySeq, LenProperties
  <2>4. ASSUME NEW v \in Threads, NEW i \in 1..Len(queue'[v])
        PROVE  \E m \in 1..Len(queue[v]) : /\ m = IF v = u THEN i + 1 ELSE i
                                           /\ queue'[v][i] = queue[v][m]
    <3>1. CASE v = u
      <4>1. i \in 1..(Len(queue[u]) - 1) /\ queue'[v][i] = queue[u][i + 1]
        BY <2>3, <3>1
      <4>2. i + 1 \in 1..Len(queue[u])
        BY <2>3, <4>1
      <4>3. QED
        BY <3>1, <4>1, <4>2
    <3>2. CASE v # u
      BY <2>2, <3>2
    <3>3. QED
      BY <3>1, <3>2
  <2>5. 1 \in 1..Len(queue[u])
    BY <2>3
  <2>6. ASSUME NEW v \in Threads, NEW i \in 1..Len(queue'[v])
        PROVE  state'[queue'[v][i]] = "pushed"
    <3>1. PICK m \in 1..Len(queue[v]) : /\ m = IF v = u THEN i + 1 ELSE i
                                        /\ queue'[v][i] = queue[v][m]
      BY <2>4
    <3>2. v = u => m # 1
      BY <3>1
    <3>3. queue[v][m] # peek[t]
      BY <2>3, <2>5, <3>2 DEF QueueInv
    <3>4. state[queue[v][m]] = "pushed"
      BY DEF QueueInv
    <3>5. queue[v][m] \in Tasks
      BY ElementOfSeq DEF Types
    <3>6. state' = [state EXCEPT ![peek[t]] = "running"]
      BY <1>8 DEF Take
    <3>7. QED
      BY <3>1, <3>3, <3>4, <3>5, <3>6 DEF Types
  <2>7. ASSUME NEW v \in Threads, NEW i \in 1..Len(queue'[v]),
               NEW w \in Threads, NEW j \in 1..Len(queue'[w]), queue'[w][j] = queue'[v][i]
        PROVE  w = v /\ j = i
    <3>1. PICK m \in 1..Len(queue[v]) : /\ m = IF v = u THEN i + 1 ELSE i
                                        /\ queue'[v][i] = queue[v][m]
      BY <2>4
    <3>2. PICK n \in 1..Len(queue[w]) : /\ n = IF w = u THEN j + 1 ELSE j
                                        /\ queue'[w][j] = queue[w][n]
      BY <2>4
    <3>3. w = v /\ n = m
      BY <2>7, <3>1, <3>2 DEF QueueInv
    <3>4. QED
      BY <3>1, <3>2, <3>3
  <2>8. QED
    BY <2>6, <2>7 DEF QueueInv
<1>9. QED
  BY <1>2, <1>3, <1>4, <1>5, <1>6, <1>7, <1>8, ActsCases

\* The frames that were there still are, and their tasks are where they say.
LEMMA FramesKept ==
    ASSUME FrameInv,
           \A u \in Threads : \A i \in 1..Len(frames'[u]) : frames'[u][i].kind = "run" =>
              /\ i \in 1..Len(frames[u]) /\ frames'[u][i] = frames[u][i]
              /\ state'[frames[u][i].task] =
                    IF i = Len(frames'[u]) /\ pc'[u] = "finish" THEN "returned" ELSE "running"
    PROVE  FrameInv'
<1>1. ASSUME NEW u \in Threads, NEW i \in 1..Len(frames'[u]), frames'[u][i].kind = "run"
      PROVE  /\ i \in 1..Len(frames[u]) /\ frames'[u][i] = frames[u][i]
             /\ state'[frames'[u][i].task] =
                   IF i = Len(frames'[u]) /\ pc'[u] = "finish" THEN "returned" ELSE "running"
  BY <1>1
<1>2. ASSUME NEW u \in Threads, NEW i \in 1..Len(frames'[u]), frames'[u][i].kind = "run",
             NEW v \in Threads, NEW j \in 1..Len(frames'[v]), frames'[v][j].kind = "run",
             frames'[v][j].task = frames'[u][i].task
      PROVE  v = u /\ j = i
  <2>1. i \in 1..Len(frames[u]) /\ frames'[u][i] = frames[u][i]
    BY <1>1, <1>2
  <2>2. j \in 1..Len(frames[v]) /\ frames'[v][j] = frames[v][j]
    BY <1>1, <1>2
  <2>3. QED
    BY <1>2, <2>1, <2>2 DEF FrameInv
<1>3. QED
  BY <1>1, <1>2 DEF FrameInv

\* A frame that does not return runs its task.
LEMMA FrameRuns ==
    ASSUME Types, FrameInv, NEW u \in Threads, NEW i \in 1..Len(frames[u]), frames[u][i].kind = "run"
    PROVE  /\ frames[u][i].task \in Tasks
           /\ i # Len(frames[u]) \/ pc[u] # "finish" => state[frames[u][i].task] = "running"
           /\ i = Len(frames[u]) /\ pc[u] = "finish" => state[frames[u][i].task] = "returned"
<1>1. frames[u] \in Seq(Frame)
  BY DEF Types
<1>2. frames[u][i] \in Frame
  BY <1>1, ElementOfSeq
<1>3. QED
  BY <1>2 DEF FrameInv, Frame

\* A task that nobody has begun gets a frame of its own.
LEMMA FramesGrow ==
    ASSUME Types, FrameInv, NEW t \in Threads, NEW k \in Tasks, Enter(t, Running(k)),
           pc[t] # "finish", state[k] \in {"none", "pushed"},
           state' = [state EXCEPT ![k] = "running"]
    PROVE  FrameInv'
<1>1. Running(k) \in Frame /\ Running(k).kind = "run" /\ Running(k).task = k
  BY DEF Running, Frame
<1>2. /\ Len(frames'[t]) = Len(frames[t]) + 1 /\ Len(frames[t]) \in Nat
      /\ frames'[t][Len(frames[t]) + 1] = Running(k)
      /\ \A u \in Threads : \A i \in 1..Len(frames'[u]) :
            \/ u = t /\ i = Len(frames[t]) + 1
            \/ i \in 1..Len(frames[u]) /\ frames'[u][i] = frames[u][i] /\ (u = t => i # Len(frames'[t]))
  BY <1>1, EnterFrames
<1>3. pc' = [pc EXCEPT ![t] = "run"] /\ frames' = [frames EXCEPT ![t] = Append(frames[t], Running(k))]
  BY <1>1, EnterType
<1>4. pc'[t] = "run" /\ \A u \in Threads : u # t => pc'[u] = pc[u] /\ frames'[u] = frames[u]
  BY <1>3 DEF Types
<1>5. state'[k] = "running" /\ \A j \in Tasks : j # k => state'[j] = state[j]
  BY DEF Types
<1>6. ASSUME NEW u \in Threads, NEW i \in 1..Len(frames[u]), frames[u][i].kind = "run"
      PROVE  /\ frames[u][i].task # k /\ state'[frames[u][i].task] = state[frames[u][i].task]
             /\ u = t => state[frames[u][i].task] = "running"
  BY <1>5, <1>6, FrameRuns
<1>7. ASSUME NEW u \in Threads, NEW i \in 1..Len(frames'[u]), frames'[u][i].kind = "run"
      PROVE  state'[frames'[u][i].task] =
                IF i = Len(frames'[u]) /\ pc'[u] = "finish" THEN "returned" ELSE "running"
  <2>1. CASE u = t /\ i = Len(frames[t]) + 1
    BY <1>1, <1>2, <1>4, <1>5, <2>1
  <2>2. CASE ~ (u = t /\ i = Len(frames[t]) + 1)
    <3>1. i \in 1..Len(frames[u]) /\ frames'[u][i] = frames[u][i]
      BY <1>2, <2>2
    <3>2. /\ state'[frames[u][i].task] = state[frames[u][i].task]
          /\ u = t => state[frames[u][i].task] = "running"
      BY <1>6, <1>7, <3>1
    <3>3. CASE u = t
      BY <1>4, <3>1, <3>2, <3>3
    <3>4. CASE u # t
      <4>1. pc'[u] = pc[u] /\ frames'[u] = frames[u]
        BY <1>4, <3>4
      <4>2. QED
        BY <1>7, <3>1, <3>2, <4>1 DEF FrameInv
    <3>5. QED
      BY <3>3, <3>4
  <2>3. QED
    BY <2>1, <2>2
<1>8. ASSUME NEW u \in Threads, NEW i \in 1..Len(frames'[u]), frames'[u][i].kind = "run",
             NEW v \in Threads, NEW j \in 1..Len(frames'[v]), frames'[v][j].kind = "run",
             frames'[v][j].task = frames'[u][i].task
      PROVE  v = u /\ j = i
  <2>0. ASSUME NEW w \in Threads, NEW n \in 1..Len(frames'[w]), frames'[w][n].kind = "run",
               frames'[w][n].task = k
        PROVE  w = t /\ n = Len(frames[t]) + 1
    BY <1>2, <1>6, <2>0
  <2>1. CASE u = t /\ i = Len(frames[t]) + 1
    <3>1. frames'[v][j].task = k
      BY <1>1, <1>2, <1>8, <2>1
    <3>2. QED
      BY <1>8, <2>0, <2>1, <3>1
  <2>2. CASE v = t /\ j = Len(frames[t]) + 1
    <3>1. frames'[u][i].task = k
      BY <1>1, <1>2, <1>8, <2>2
    <3>2. QED
      BY <1>8, <2>0, <2>2, <3>1
  <2>3. CASE ~ (u = t /\ i = Len(frames[t]) + 1) /\ ~ (v = t /\ j = Len(frames[t]) + 1)
    <3>1. i \in 1..Len(frames[u]) /\ frames'[u][i] = frames[u][i]
      BY <1>2, <2>3
    <3>2. j \in 1..Len(frames[v]) /\ frames'[v][j] = frames[v][j]
      BY <1>2, <2>3
    <3>3. QED
      BY <1>8, <3>1, <3>2 DEF FrameInv
  <2>4. QED
    BY <2>1, <2>2, <2>3
<1>9. QED
  BY <1>7, <1>8 DEF FrameInv

LEMMA FrameStep ==
    ASSUME PlaceInv, NEW t \in Threads, Acts(t)
    PROVE  FrameInv'
<1> USE DEF PlaceInv
<1>0. StackFits(t)
  BY DEF ControlInv
<1>1. CASE Passes(t)
  <2>1. /\ UNCHANGED <<state, frames>>
        /\ \A u \in Threads : pc'[u] = "finish" <=> pc[u] = "finish"
    BY <1>1, PassesNothing DEF work
  <2>2. QED
    BY <2>1 DEF FrameInv
<1>2. ASSUME NEW k \in Tasks, AddTask(t, k)
      PROVE  FrameInv'
  <2>1. /\ state[k] = "none" /\ state' = [state EXCEPT ![k] = "pushed"] /\ UNCHANGED frames
        /\ pc[t] # "finish" /\ pc' = [pc EXCEPT ![t] = "signal"]
    BY <1>2 DEF AddTask, Goto, stacks, Executing
  <2>2. ASSUME NEW u \in Threads, NEW i \in 1..Len(frames[u]), frames[u][i].kind = "run"
        PROVE  state'[frames[u][i].task] =
                  IF i = Len(frames[u]) /\ pc'[u] = "finish" THEN "returned" ELSE "running"
    <3>1. frames[u][i].task # k /\ frames[u][i].task \in Tasks
      BY <2>1, <2>2, FrameRuns
    <3>2. state'[frames[u][i].task] = state[frames[u][i].task]
      BY <2>1, <3>1 DEF Types
    <3>3. pc'[u] = "finish" <=> pc[u] = "finish"
      BY <2>1 DEF Types
    <3>4. QED
      BY <2>2, <3>2, <3>3 DEF FrameInv
  <2>3. QED
    BY <2>1, <2>2, FramesKept
<1>3. ASSUME NEW k \in Tasks, RunTask(t, k)
      PROVE  FrameInv'
  BY <1>3, FramesGrow DEF RunTask
<1>4. ASSUME NEW k \in Tasks, StartWait(t, k)
      PROVE  FrameInv'
  <2>1. /\ WaitingFor(k) \in Frame /\ WaitingFor(k).kind = "wait" /\ Enter(t, WaitingFor(k))
        /\ UNCHANGED state /\ pc[t] # "finish"
    BY <1>4 DEF StartWait, WaitingFor, Frame, Executing, work
  <2>2. /\ Len(frames'[t]) = Len(frames[t]) + 1
        /\ frames'[t][Len(frames[t]) + 1] = WaitingFor(k)
        /\ \A u \in Threads : \A i \in 1..Len(frames'[u]) :
              \/ u = t /\ i = Len(frames[t]) + 1
              \/ i \in 1..Len(frames[u]) /\ frames'[u][i] = frames[u][i]
    BY <2>1, EnterFrames
  <2>3. pc' = [pc EXCEPT ![t] = "wait"] /\ frames' = [frames EXCEPT ![t] = Append(frames[t], WaitingFor(k))]
    BY <2>1, EnterType
  <2>4. ASSUME NEW u \in Threads, NEW i \in 1..Len(frames'[u]), frames'[u][i].kind = "run"
        PROVE  /\ i \in 1..Len(frames[u]) /\ frames'[u][i] = frames[u][i]
               /\ state'[frames[u][i].task] =
                     IF i = Len(frames'[u]) /\ pc'[u] = "finish" THEN "returned" ELSE "running"
    <3>1. i \in 1..Len(frames[u]) /\ frames'[u][i] = frames[u][i]
      BY <2>1, <2>2, <2>4
    <3>2. CASE u = t
      <4>1. state[frames[u][i].task] = "running"
        BY <2>1, <2>4, <3>1, <3>2, FrameRuns
      <4>2. pc'[u] # "finish"
        BY <2>3, <3>2 DEF Types
      <4>3. QED
        BY <2>1, <3>1, <4>1, <4>2
    <3>3. CASE u # t
      <4>1. pc'[u] = pc[u] /\ frames'[u] = frames[u]
        BY <2>3, <3>3 DEF Types
      <4>2. QED
        BY <2>1, <2>4, <3>1, <4>1 DEF FrameInv
    <3>4. QED
      BY <3>2, <3>3
  <2>5. QED
    BY <2>4, FramesKept
<1>5. CASE BodyReturns(t)
  <2>1. pc[t] = "run" /\ Code(t) = Top(t).task
    BY <1>5 DEF BodyReturns, Code
  <2>2. /\ UNCHANGED frames /\ state' = [state EXCEPT ![Top(t).task] = "returned"]
        /\ pc' = [pc EXCEPT ![t] = "finish"]
    BY <1>5, <2>1 DEF BodyReturns, Goto
  <2>3. /\ Top(t).kind = "run" /\ Top(t).task \in Tasks
        /\ \A u \in Threads : \A i \in 1..Len(frames[u]) :
              frames[u][i].kind = "run" /\ frames[u][i].task = Top(t).task =>
                  u = t /\ i = Len(frames[t])
        /\ Len(frames[t]) \in Nat \ {0} /\ Top(t) = frames[t][Len(frames[t])]
    BY <2>1, CodeRuns
  <2>4. ASSUME NEW u \in Threads, NEW i \in 1..Len(frames[u]), frames[u][i].kind = "run"
        PROVE  state'[frames[u][i].task] =
                  IF i = Len(frames[u]) /\ pc'[u] = "finish" THEN "returned" ELSE "running"
    <3>1. frames[u][i].task \in Tasks
      BY <2>4, FrameRuns
    <3>2. CASE u = t /\ i = Len(frames[t])
      <4>1. state'[frames[u][i].task] = "returned"
        BY <2>2, <2>3, <3>2 DEF Types
      <4>2. pc'[u] = "finish"
        BY <2>2, <3>2 DEF Types
      <4>3. QED
        BY <3>2, <4>1, <4>2
    <3>3. CASE ~ (u = t /\ i = Len(frames[t]))
      <4>1. frames[u][i].task # Top(t).task
        BY <2>3, <2>4, <3>3
      <4>2. state'[frames[u][i].task] = state[frames[u][i].task]
        BY <2>2, <3>1, <4>1 DEF Types
      <4>3. (i = Len(frames[u]) /\ pc'[u] = "finish") <=> (i = Len(frames[u]) /\ pc[u] = "finish")
        BY <2>2, <3>3 DEF Types
      <4>4. QED
        BY <2>4, <4>2, <4>3 DEF FrameInv
    <3>4. QED
      BY <3>2, <3>3
  <2>5. QED
    BY <2>2, <2>4, FramesKept
<1>6. ASSUME Leave(t), frames[t] # <<>>, UNCHANGED state
      PROVE  FrameInv'
  <2>1. /\ \A u \in Threads : \A i \in 1..Len(frames'[u]) :
              i \in 1..Len(frames[u]) /\ frames'[u][i] = frames[u][i] /\ (u = t => i # Len(frames[t]))
        /\ \A u \in Threads : u # t => frames'[u] = frames[u]
    BY <1>6, LeaveFrames
  <2>2. pc' = [pc EXCEPT ![t] = Return(t, Front(frames[t]))]
    BY <1>6, LeaveType
  <2>3. Return(t, Front(frames[t])) # "finish"
    <3>1. Front(frames[t]) \in Seq(Frame)
      BY <1>6, FrontProperties DEF Types
    <3>2. QED
      BY <3>1, ReturnType
  <2>4. ASSUME NEW u \in Threads, NEW i \in 1..Len(frames'[u]), frames'[u][i].kind = "run"
        PROVE  /\ i \in 1..Len(frames[u]) /\ frames'[u][i] = frames[u][i]
               /\ state'[frames[u][i].task] =
                     IF i = Len(frames'[u]) /\ pc'[u] = "finish" THEN "returned" ELSE "running"
    <3>1. i \in 1..Len(frames[u]) /\ frames'[u][i] = frames[u][i] /\ (u = t => i # Len(frames[t]))
      BY <2>1
    <3>2. CASE u = t
      <4>1. state[frames[u][i].task] = "running"
        BY <2>4, <3>1, <3>2, FrameRuns
      <4>2. pc'[u] # "finish"
        BY <2>2, <2>3, <3>2 DEF Types
      <4>3. QED
        BY <1>6, <3>1, <4>1, <4>2
    <3>3. CASE u # t
      <4>1. pc'[u] = pc[u] /\ frames'[u] = frames[u]
        BY <2>1, <2>2, <3>3 DEF Types
      <4>2. QED
        BY <1>6, <2>4, <3>1, <4>1 DEF FrameInv
    <3>4. QED
      BY <3>2, <3>3
  <2>5. QED
    BY <2>4, FramesKept
<1>7. CASE Finish(t)
  <2>1. /\ pc[t] = "finish" /\ UNCHANGED state
        /\ UNCHANGED <<frames, pc>> \/ Leave(t)
    BY <1>7, FinishEffect
  <2>2. frames[t] # <<>>
    BY <2>1, TopType
  <2>3. CASE UNCHANGED <<frames, pc>>
    BY <2>1, <2>3 DEF FrameInv
  <2>4. QED
    BY <1>6, <2>1, <2>2, <2>3
<1>8. CASE WaitLoop(t)
  <2>1. pc[t] = "wait" /\ UNCHANGED state /\ frames[t] # <<>>
    BY <1>8, TopType DEF WaitLoop, work
  <2>2. CASE Goto(t, "own") /\ UNCHANGED frames
    <3>1. \A u \in Threads : pc'[u] = "finish" <=> pc[u] = "finish"
      BY <2>1, <2>2 DEF Goto, Types
    <3>2. QED
      BY <2>1, <2>2, <3>1 DEF FrameInv
  <2>3. QED
    BY <1>6, <1>8, <2>1, <2>2 DEF WaitLoop
<1>9. CASE Take(t)
  <2>1. PICK u \in Threads : queue[u] # <<>> /\ Head(queue[u]) = peek[t]
    BY <1>9 DEF Take, HeadIs
  <2>2. /\ queue[u] \in Seq(Tasks) /\ Len(queue[u]) \in Nat \ {0} /\ queue[u][1] = peek[t]
        /\ peek[t] \in Tasks
    BY <2>1, HeadTailProperties, EmptySeq, LenProperties DEF Types
  <2>3. state[peek[t]] = "pushed"
    <3>1. 1 \in 1..Len(queue[u])
      BY <2>2
    <3>2. QED
      BY <2>2, <3>1 DEF QueueInv
  <2>4. pc[t] # "finish"
    BY <1>0, <2>2, TaskManagerAssumption DEF StackFits, Looking
  <2>5. QED
    BY <1>9, <2>2, <2>3, <2>4, FramesGrow DEF Take
<1>10. QED
  BY <1>1, <1>2, <1>3, <1>4, <1>5, <1>7, <1>8, <1>9, ActsCases

-----------------------------------------------------------------------------
(* Jobs. *)

LEMMA OwedFinite ==
    ASSUME NEW k \in Tasks
    PROVE  /\ Owed(k) \subseteq Tasks /\ IsFiniteSet(Owed(k))
           /\ Cardinality(Owed(k)) \in Nat /\ Cardinality(Owed(k)) <= Cardinality(Tasks)
           /\ Cardinality(Owed(k)) = 0 <=> Owed(k) = {}
<1>1. Owed(k) \in SUBSET Tasks
  BY DEF Owed
<1>2. IsFiniteSet(Tasks)
  BY TaskManagerAssumption
<1>3. IsFiniteSet(Owed(k)) /\ Cardinality(Owed(k)) <= Cardinality(Tasks)
  BY <1>1, <1>2, FS_Subset
<1>4. QED
  BY <1>1, <1>3, FS_CardinalityType, FS_EmptySet

\* Nobody decrements in vain: the task whose function has run is owed.
LEMMA OwedNotZero ==
    ASSUME Types, ControlInv, JobsInv
    PROVE  /\ JobsAreOwed
           /\ \A t \in Threads : it[t] # None =>
                 it[t] \in Tasks /\ jobs[it[t]] # 0 /\ state[it[t]] # "none" /\ Top(t).task \in Owed(it[t])
<1>1. ASSUME NEW t \in Threads, it[t] # None
      PROVE  it[t] \in Tasks /\ jobs[it[t]] # 0 /\ state[it[t]] # "none" /\ Top(t).task \in Owed(it[t])
  <2>1. pc[t] = "finish"
    BY <1>1 DEF ControlInv, StackFits
  <2>2. it[t] \in Tasks /\ Top(t).task \in Tasks
    BY <2>1, TopType
  <2>3. Top(t).task \in Owed(it[t])
    BY <2>2 DEF Owed, Owes, Climbs
  <2>4. Cardinality(Owed(it[t])) # 0
    BY <2>2, <2>3, OwedFinite
  <2>5. QED
    BY <2>2, <2>3, <2>4 DEF JobsInv
<1>2. QED
  BY <1>1 DEF JobsAreOwed

\* Who climbs returns from a function that has run.
LEMMA ClimberRan ==
    ASSUME PlaceInv, NEW t \in Threads, it[t] # None
    PROVE  /\ pc[t] = "finish" /\ it[t] \in Tasks /\ Top(t).task \in Tasks
           /\ state[Top(t).task] = "returned"
           /\ \A u \in Threads : it[u] # None /\ Top(u).task = Top(t).task => u = t
<1> USE DEF PlaceInv
<1>1. \A u \in Threads : it[u] # None => pc[u] = "finish"
  BY DEF ControlInv, StackFits
<1>2. pc[t] = "finish" /\ it[t] \in Tasks /\ Top(t).task \in Tasks
  BY <1>1, TopType
<1>3. /\ state[Top(t).task] = "returned"
      /\ \A u \in Threads : \A i \in 1..Len(frames[u]) :
            frames[u][i].kind = "run" /\ frames[u][i].task = Top(t).task =>
                u = t /\ i = Len(frames[t])
  BY <1>2, CodeRuns
<1>4. ASSUME NEW u \in Threads, it[u] # None, Top(u).task = Top(t).task
      PROVE  u = t
  <2>1. /\ Top(u).kind = "run" /\ Len(frames[u]) \in Nat \ {0}
        /\ Top(u) = frames[u][Len(frames[u])]
    BY <1>1, <1>4, CodeRuns
  <2>2. Len(frames[u]) \in 1..Len(frames[u])
    BY <2>1
  <2>3. QED
    BY <1>3, <1>4, <2>1, <2>2
<1>5. QED
  BY <1>2, <1>3, <1>4

\* A step that settles no debt and makes none.
LEMMA OwedKept ==
    ASSUME JobsInv, ClimbInv, jobs' = jobs, it' = it,
           \A k \in Tasks : (Alive(k)' <=> Alive(k)) /\ (state'[k] = "none" <=> state[k] = "none"),
           \A u \in Threads : it[u] # None => frames'[u] = frames[u]
    PROVE  JobsInv' /\ ClimbInv'
<1>1. \A u \in Threads : it[u] # None => Top(u)' = Top(u)
  BY DEF Top
<1>2. ASSUME NEW k \in Tasks, NEW x \in Tasks
      PROVE  Owes(x, k)' <=> Owes(x, k)
  <2>1. k # None
    BY TaskManagerAssumption
  <2>2. Climbs(x, k)' <=> Climbs(x, k)
    BY <1>1, <2>1 DEF Climbs
  <2>3. QED
    BY <2>2 DEF Owes
<1>3. \A k \in Tasks : Owed(k)' = Owed(k)
  BY <1>2 DEF Owed
<1>4. JobsInv'
  BY <1>3 DEF JobsInv
<1>5. ClimbInv'
  BY <1>1 DEF ClimbInv
<1>6. QED
  BY <1>4, <1>5

LEMMA NoClimber ==
    ASSUME Types, ControlInv, NEW t \in Threads, pc[t] # "finish"
    PROVE  it[t] = None
BY DEF ControlInv, StackFits

\* A task that is new owes itself and its parent, who is running, a decrement.
LEMMA CreationOwes ==
    ASSUME TreeInv, NEW t \in Threads, NEW k \in Tasks, Created(k), state[k] = "none",
           Parent[k] = None \/ (Parent[k] \in Tasks /\ state[Parent[k]] = "running"),
           it[t] = None, UNCHANGED it, \A u \in Threads : u # t => frames'[u] = frames[u],
           NEW s \in {"pushed", "running"}, state' = [state EXCEPT ![k] = s]
    PROVE  JobsInv' /\ ClimbInv'
<1> USE DEF TreeInv
<1>0. Types /\ ControlInv
  BY DEF PlaceInv
<1>1. /\ k # None /\ jobs'[k] = 1 /\ jobs[k] = 0 /\ Parent[k] # k
      /\ \A j \in Tasks : j # k /\ j # Parent[k] => jobs'[j] = jobs[j]
      /\ Parent[k] \in Tasks => jobs'[Parent[k]] = jobs[Parent[k]] + 1
  BY TaskManagerAssumption DEF Created, JobsInv
<1>2. \A u \in Threads : it[u] # None => Top(u)' = Top(u) /\ it[u] \in Tasks
  BY <1>0 DEF Top, Types
<1>3. \A x \in Tasks, j \in Tasks : Climbs(x, j)' <=> Climbs(x, j)
  BY <1>2, TaskManagerAssumption DEF Climbs
<1>4. \A j \in Tasks : j # k => state'[j] = state[j] /\ (Alive(j)' <=> Alive(j))
  BY DEF Alive
<1>5. Alive(k)' /\ state'[k] # "none" /\ ~ Alive(k)
  BY <1>0 DEF Alive, Types
<1>6. Owed(k) = {}
  BY <1>1, OwedFinite DEF JobsInv
<1>7. ASSUME Parent[k] \in Tasks
      PROVE  /\ Parent[k] \in Owed(Parent[k]) /\ Parent[Parent[k]] # Parent[k]
             /\ jobs[Parent[k]] # 0 /\ Parent[k] # None
  <2>1. Parent[k] \in Owed(Parent[k])
    BY <1>7, TaskManagerAssumption DEF Owed, Owes, Alive
  <2>2. Cardinality(Owed(Parent[k])) # 0
    BY <1>7, <2>1, OwedFinite
  <2>3. QED
    BY <1>7, <2>1, <2>2, TaskManagerAssumption DEF JobsInv
<1>8. \A x \in Tasks : x # k => (jobs'[x] # 0 <=> jobs[x] # 0)
  <2>1. \A x \in Tasks : jobs[x] \in Nat
    BY <1>0 DEF Types
  <2>2. QED
    BY <1>1, <1>7, <2>1
<1>9. Owed(k)' = {k}
  <2>1. Owes(k, k)'
    BY <1>5 DEF Owes
  <2>2. ASSUME NEW x \in Tasks, x # k
        PROVE  ~ Owes(x, k)'
    <3>1. ~ Owes(x, k)
      BY <1>6 DEF Owed
    <3>2. QED
      BY <1>3, <1>8, <2>2, <3>1 DEF Owes
  <2>3. QED
    BY <2>1, <2>2 DEF Owed
<1>10. ASSUME Parent[k] \in Tasks
       PROVE  Owed(Parent[k])' = Owed(Parent[k]) \cup {k} /\ k \notin Owed(Parent[k])
  <2>1. Owes(k, Parent[k])'
    BY <1>1 DEF Owes
  <2>2. ASSUME NEW x \in Tasks, x # k
        PROVE  Owes(x, Parent[k])' <=> Owes(x, Parent[k])
    BY <1>1, <1>3, <1>4, <1>8, <1>10, <2>2 DEF Owes
  <2>3. ~ Climbs(k, Parent[k])
    BY <1>7, <1>10, ClimberRan DEF Climbs
  <2>4. ~ Owes(k, Parent[k])
    BY <1>1, <2>3 DEF Owes
  <2>5. QED
    BY <2>1, <2>2, <2>4 DEF Owed
<1>11. ASSUME NEW j \in Tasks, j # k, j # Parent[k]
       PROVE  Owed(j)' = Owed(j)
  <2>1. ASSUME NEW x \in Tasks
        PROVE  Owes(x, j)' <=> Owes(x, j)
    <3>1. CASE x = k
      BY <1>3, <1>11, <3>1 DEF Owes
    <3>2. CASE x # k
      BY <1>3, <1>4, <1>8, <1>11, <3>2 DEF Owes
    <3>3. QED
      BY <3>1, <3>2
  <2>2. QED
    BY <2>1 DEF Owed
<1>12. ASSUME NEW j \in Tasks
       PROVE  /\ jobs'[j] = Cardinality(Owed(j)')
              /\ state'[j] = "none" => jobs'[j] = 0
              /\ state'[j] # "none" => Parent[j] # j
  <2>1. CASE j = k
    BY <1>1, <1>5, <1>9, <2>1, FS_Singleton
  <2>2. CASE j # k /\ j = Parent[k]
    <3>1. IsFiniteSet(Owed(j)) /\ Cardinality(Owed(j)) = jobs[j]
      BY OwedFinite DEF JobsInv
    <3>2. Cardinality(Owed(j) \cup {k}) = jobs[j] + 1
      BY <1>10, <2>2, <3>1, FS_AddElement
    <3>3. state[j] = "running"
      BY <2>2, TaskManagerAssumption
    <3>4. QED
      BY <1>1, <1>4, <1>7, <1>10, <2>2, <3>2, <3>3
  <2>3. CASE j # k /\ j # Parent[k]
    BY <1>1, <1>4, <1>11, <2>3 DEF JobsInv
  <2>4. QED
    BY <2>1, <2>2, <2>3
<1>13. ClimbInv'
  <2>1. ASSUME NEW u \in Threads, it'[u] # None
        PROVE  Top(u)'.task = it'[u] \/ jobs'[Top(u)'.task] = 0
    <3>1. Top(u)' = Top(u) /\ it'[u] = it[u]
      BY <1>2, <2>1
    <3>2. Top(u).task = it[u] \/ jobs[Top(u).task] = 0
      BY <2>1 DEF ClimbInv
    <3>3. Top(u).task \in Tasks /\ state[Top(u).task] = "returned"
      BY <2>1, ClimberRan
    <3>4. QED
      BY <1>8, <3>1, <3>2, <3>3
  <2>2. QED
    BY <2>1 DEF ClimbInv
<1>14. JobsInv'
  BY <1>12 DEF JobsInv
<1>15. QED
  BY <1>13, <1>14

\* A decrement settles what the thread's own task owed, and who climbs owes the
\* parent in the place of the task that has come to an end.
LEMMA FinishOwes ==
    ASSUME TreeInv, NEW t \in Threads, Finish(t),
           NEW k \in Tasks, k = it[t], NEW x \in Tasks, x = Top(t).task
    PROVE  JobsInv' /\ ClimbInv'
<1> DEFINE p == Parent[k]
           climbs == p \in Tasks /\ jobs[k] - 1 = 0
<1> USE DEF TreeInv
<1>0. Types /\ ControlInv /\ \A j \in Tasks : jobs[j] \in Nat
  BY DEF PlaceInv, Types
<1>1. /\ pc[t] = "finish" /\ k \in Tasks
      /\ jobs' = [jobs EXCEPT ![k] = jobs[k] - 1] /\ UNCHANGED state
      /\ it' = [it EXCEPT ![t] = IF climbs THEN p ELSE None]
      /\ climbs => UNCHANGED frames
      /\ ~ climbs => Leave(t) /\ (jobs[k] - 1 # 0 \/ p = None)
  BY <1>0, FinishEffect, TaskManagerAssumption
<1>2. /\ k # None /\ x \in Tasks /\ state[x] = "returned"
      /\ \A u \in Threads : it[u] # None /\ Top(u).task = x => u = t
  BY <1>1, ClimberRan, TaskManagerAssumption
<1>3. jobs[k] # 0 /\ state[k] # "none" /\ x \in Owed(k) /\ p # k
  BY <1>0, <1>1, <1>2, OwedNotZero DEF JobsInv
<1>4. /\ jobs'[k] = jobs[k] - 1 /\ \A j \in Tasks : j # k => jobs'[j] = jobs[j]
      /\ x = k \/ jobs[x] = 0
  BY <1>0, <1>1, <1>2 DEF ClimbInv, Types
<1>5. /\ it'[t] = (IF climbs THEN p ELSE None) /\ it[t] = k
      /\ \A u \in Threads : u # t => it'[u] = it[u] /\ Top(u)' = Top(u)
  <2>1. \A u \in Threads : u # t => frames'[u] = frames[u]
    <3>1. frames[t] # <<>>
      BY <1>0, <1>1, TopType
    <3>2. QED
      BY <1>0, <1>1, <3>1, LeaveFrames
  <2>2. QED
    BY <1>0, <1>1, <2>1 DEF Top, Types
<1>6. climbs => Top(t)' = Top(t)
  BY <1>1 DEF Top
<1>7. \A j \in Tasks : Alive(j)' <=> Alive(j)
  BY <1>1 DEF Alive
<1>8. ~ Alive(x)
  BY <1>2 DEF Alive
<1>9. \A j \in Tasks : j # None
  BY TaskManagerAssumption
<1> HIDE DEF climbs
<1>10. ASSUME NEW y \in Tasks, NEW j \in Tasks
       PROVE  Climbs(y, j)' <=> (Climbs(y, j) /\ ~ (j = k /\ y = x)) \/ (climbs /\ j = p /\ y = x)
  <2>1. Climbs(x, k)
    BY DEF Climbs
  <2>2. ASSUME Climbs(y, j)'
        PROVE  (Climbs(y, j) /\ ~ (j = k /\ y = x)) \/ (climbs /\ j = p /\ y = x)
    <3>1. PICK u \in Threads : it'[u] = j /\ Top(u)'.task = y
      BY <2>2 DEF Climbs
    <3>2. CASE u = t
      BY <1>5, <1>6, <1>9, <3>1, <3>2
    <3>3. CASE u # t
      <4>1. it[u] = j /\ Top(u).task = y /\ it[u] # None
        BY <1>5, <1>9, <3>1, <3>3
      <4>2. y # x
        BY <1>2, <3>3, <4>1
      <4>3. QED
        BY <4>1, <4>2 DEF Climbs
    <3>4. QED
      BY <3>2, <3>3
  <2>3. ASSUME Climbs(y, j), ~ (j = k /\ y = x)
        PROVE  Climbs(y, j)'
    <3>1. PICK u \in Threads : it[u] = j /\ Top(u).task = y
      BY <2>3 DEF Climbs
    <3>2. u # t
      BY <1>5, <2>3, <3>1
    <3>3. it'[u] = j /\ Top(u)'.task = y
      BY <1>5, <3>1, <3>2
    <3>4. QED
      BY <3>3 DEF Climbs
  <2>4. ASSUME climbs, j = p, y = x
        PROVE  Climbs(y, j)'
    BY <1>5, <1>6, <2>4 DEF Climbs
  <2>5. QED
    BY <2>2, <2>3, <2>4
<1>11. Owed(k)' = Owed(k) \ {x}
  <2>1. ~ Owes(x, k)'
    <3>1. ~ Climbs(x, k)'
      BY <1>1, <1>2, <1>3, <1>10
    <3>2. ~ (Parent[x] = k /\ jobs'[x] # 0)
      BY <1>2, <1>3, <1>4
    <3>3. ~ (x = k /\ Alive(k)')
      BY <1>1, <1>7, <1>8
    <3>4. QED
      BY <3>1, <3>2, <3>3 DEF Owes
  <2>2. ASSUME NEW y \in Tasks, y # x
        PROVE  Owes(y, k)' <=> Owes(y, k)
    <3>1. Climbs(y, k)' <=> Climbs(y, k)
      BY <1>1, <1>10, <2>2
    <3>2. (Parent[y] = k /\ jobs'[y] # 0) <=> (Parent[y] = k /\ jobs[y] # 0)
      BY <1>3, <1>4
    <3>3. QED
      BY <1>1, <1>7, <3>1, <3>2 DEF Owes
  <2>3. QED
    BY <2>1, <2>2 DEF Owed
<1>12. ASSUME climbs
       PROVE  /\ p \in Tasks /\ k \in Owed(p) /\ (k # x => x \notin Owed(p))
              /\ Owed(p)' = (Owed(p) \ {k}) \cup {x}
  <2>1. p \in Tasks /\ jobs'[k] = 0
    BY <1>4, <1>12 DEF climbs
  <2>2. k \in Owed(p)
    BY <1>1, <1>3 DEF Owed, Owes
  <2>3. ~ Climbs(x, p)
    BY <1>2, <1>3, <1>9, <2>1 DEF Climbs
  <2>4. k # x => ~ Owes(x, p)
    BY <1>4, <1>8, <2>1, <2>3 DEF Owes
  <2>5. Owes(x, p)'
    BY <1>2, <1>10, <1>12, <2>1 DEF Owes
  <2>6. k # x => ~ Owes(k, p)'
    <3>1. ~ Climbs(k, p)
      <4>1. ASSUME NEW u \in Threads, it[u] = p, Top(u).task = k
            PROVE  FALSE
        <5>1. Top(u).task = it[u] \/ jobs[Top(u).task] = 0
          BY <1>9, <2>1, <4>1 DEF ClimbInv
        <5>2. QED
          BY <1>3, <4>1, <5>1
      <4>2. QED
        BY <4>1 DEF Climbs
    <3>2. k # x => ~ Climbs(k, p)'
      BY <1>1, <1>10, <2>1, <3>1
    <3>3. QED
      BY <1>3, <2>1, <3>2 DEF Owes
  <2>7. ASSUME NEW y \in Tasks, y # x, y # k
        PROVE  Owes(y, p)' <=> Owes(y, p)
    <3>1. Climbs(y, p)' <=> Climbs(y, p)
      BY <1>10, <2>1, <2>7
    <3>2. QED
      BY <1>4, <1>7, <2>1, <2>7, <3>1 DEF Owes
  <2>8. QED
    BY <1>1, <1>2, <2>1, <2>2, <2>4, <2>5, <2>6, <2>7 DEF Owed
<1>13. ASSUME NEW j \in Tasks, j # k, ~ (climbs /\ j = p)
       PROVE  Owed(j)' = Owed(j)
  <2>1. ASSUME NEW y \in Tasks
        PROVE  Owes(y, j)' <=> Owes(y, j)
    <3>1. Climbs(y, j)' <=> Climbs(y, j)
      BY <1>10, <1>13
    <3>2. (Parent[y] = j /\ jobs'[y] # 0) <=> (Parent[y] = j /\ jobs[y] # 0)
      <4>1. CASE y = k /\ Parent[y] = j
        <5>1. jobs[k] - 1 # 0
          BY <1>1, <1>9, <1>13, <4>1 DEF climbs
        <5>2. QED
          BY <1>3, <1>4, <4>1, <5>1
      <4>2. CASE ~ (y = k /\ Parent[y] = j)
        BY <1>4, <4>2
      <4>3. QED
        BY <4>1, <4>2
    <3>3. QED
      BY <1>7, <3>1, <3>2 DEF Owes
  <2>2. QED
    BY <2>1 DEF Owed
<1> HIDE DEF p
<1>14. ASSUME NEW j \in Tasks
       PROVE  jobs'[j] = Cardinality(Owed(j)')
  <2>0. IsFiniteSet(Owed(j)) /\ Cardinality(Owed(j)) = jobs[j] /\ Cardinality(Owed(j)) \in Nat
    BY OwedFinite DEF JobsInv
  <2>1. CASE j = k
    <3>1. x \in Owed(j) /\ jobs'[j] = jobs[j] - 1 /\ Owed(j)' = Owed(j) \ {x}
      BY <1>3, <1>4, <1>11, <2>1
    <3>2. Cardinality(Owed(j) \ {x}) = Cardinality(Owed(j)) - 1
      BY <2>0, <3>1, FS_RemoveElement
    <3>3. QED
      BY <2>0, <3>1, <3>2
  <2>2. CASE j # k /\ climbs /\ j = p
    <3>0. /\ k \in Owed(j) /\ (k # x => x \notin Owed(j)) /\ jobs'[j] = jobs[j]
          /\ Owed(j)' = (Owed(j) \ {k}) \cup {x}
      BY <1>4, <1>12, <2>2
    <3>1. /\ IsFiniteSet(Owed(j) \ {k})
          /\ Cardinality(Owed(j) \ {k}) = Cardinality(Owed(j)) - 1
      BY <2>0, <3>0, FS_RemoveElement
    <3>2. x \notin Owed(j) \ {k}
      BY <3>0
    <3>3. Cardinality((Owed(j) \ {k}) \cup {x}) = Cardinality(Owed(j) \ {k}) + 1
      BY <3>1, <3>2, FS_AddElement
    <3>4. QED
      BY <2>0, <3>0, <3>1, <3>3
  <2>3. CASE j # k /\ ~ (climbs /\ j = p)
    BY <1>4, <1>13, <2>0, <2>3
  <2>4. QED
    BY <2>1, <2>2, <2>3
<1>15. ASSUME NEW j \in Tasks
       PROVE  /\ state'[j] = "none" => jobs'[j] = 0
              /\ state'[j] # "none" => Parent[j] # j
  BY <1>1, <1>3, <1>4 DEF JobsInv
<1>16. JobsInv'
  BY <1>14, <1>15 DEF JobsInv
<1>17. ASSUME NEW u \in Threads, it'[u] # None
       PROVE  Top(u)'.task = it'[u] \/ jobs'[Top(u)'.task] = 0
  <2>1. CASE u = t
    <3>1. climbs /\ it'[u] = p /\ Top(u)'.task = x
      BY <1>5, <1>6, <1>17, <2>1
    <3>2. jobs[k] - 1 = 0
      BY <3>1 DEF climbs
    <3>3. QED
      BY <1>2, <1>4, <3>1, <3>2
  <2>2. CASE u # t
    <3>1. it'[u] = it[u] /\ Top(u)' = Top(u)
      BY <1>5, <2>2
    <3>2. Top(u).task = it[u] \/ jobs[Top(u).task] = 0
      BY <1>17, <3>1 DEF ClimbInv
    <3>3. Top(u).task \in Tasks
      BY <1>17, <3>1, ClimberRan
    <3>4. QED
      BY <1>3, <1>4, <3>1, <3>2, <3>3
  <2>3. QED
    BY <2>1, <2>2
<1>18. QED
  BY <1>16, <1>17 DEF ClimbInv

LEMMA TakeEffect ==
    ASSUME PlaceInv, NEW t \in Threads, Take(t)
    PROVE  /\ peek[t] \in Tasks /\ state[peek[t]] = "pushed" /\ pc[t] # "finish"
           /\ state' = [state EXCEPT ![peek[t]] = "running"]
           /\ Running(peek[t]) \in Frame /\ Enter(t, Running(peek[t]))
           /\ UNCHANGED <<jobs, it, roster, leaving>>
<1>1. PICK u \in Threads : queue[u] # <<>> /\ Head(queue[u]) = peek[t]
  BY DEF Take, HeadIs
<1>2. /\ queue[u] \in Seq(Tasks) /\ Len(queue[u]) \in Nat \ {0} /\ queue[u][1] = peek[t]
      /\ peek[t] \in Tasks
  BY <1>1, HeadTailProperties, EmptySeq, LenProperties DEF PlaceInv, Types
<1>3. 1 \in 1..Len(queue[u])
  BY <1>2
<1>4. state[peek[t]] = "pushed"
  BY <1>2, <1>3 DEF PlaceInv, QueueInv
<1>5. pc[t] # "finish"
  BY <1>2, TaskManagerAssumption DEF PlaceInv, ControlInv, StackFits, Looking
<1>6. QED
  BY <1>2, <1>4, <1>5 DEF Take, Running, Frame

LEMMA BodyOwes ==
    ASSUME TreeInv, NEW t \in Threads, BodyReturns(t)
    PROVE  JobsInv' /\ ClimbInv'
<1> USE DEF TreeInv
<1>0. Types /\ ControlInv
  BY DEF PlaceInv
<1>1. pc[t] = "run" /\ it[t] = None
  BY <1>0, NoClimber DEF BodyReturns
<1>2. PICK k \in Tasks : k = Code(t) /\ k = Top(t).task /\ state[k] = "running"
  BY <1>1, CodeRuns DEF Code, PlaceInv
<1>3. /\ state' = [state EXCEPT ![k] = "returned"] /\ it' = [it EXCEPT ![t] = k]
      /\ UNCHANGED <<jobs, frames>>
  BY <1>2 DEF BodyReturns
<1>4. /\ it'[t] = k /\ \A u \in Threads : u # t => it'[u] = it[u]
      /\ \A u \in Threads : Top(u)' = Top(u)
  BY <1>0, <1>3 DEF Types, Top
<1>5. /\ ~ Alive(k)' /\ Alive(k) /\ state[k] # "none" /\ state'[k] # "none"
      /\ \A j \in Tasks : j # k => state'[j] = state[j] /\ (Alive(j)' <=> Alive(j))
  BY <1>0, <1>2, <1>3 DEF Alive, Types
<1>6. ASSUME NEW x \in Tasks, NEW j \in Tasks
      PROVE  Climbs(x, j)' <=> Climbs(x, j) \/ (x = k /\ j = k)
  <2>1. ASSUME Climbs(x, j)'
        PROVE  Climbs(x, j) \/ (x = k /\ j = k)
    <3>1. PICK u \in Threads : it'[u] = j /\ Top(u)'.task = x
      BY <2>1 DEF Climbs
    <3>2. QED
      BY <1>2, <1>4, <3>1 DEF Climbs
  <2>2. ASSUME Climbs(x, j)
        PROVE  Climbs(x, j)'
    <3>1. PICK u \in Threads : it[u] = j /\ Top(u).task = x
      BY <2>2 DEF Climbs
    <3>2. u # t
      BY <1>1, <3>1, TaskManagerAssumption
    <3>3. it'[u] = j /\ Top(u)'.task = x
      BY <1>4, <3>1, <3>2
    <3>4. QED
      BY <3>3 DEF Climbs
  <2>3. ASSUME x = k, j = k
        PROVE  Climbs(x, j)'
    BY <1>2, <1>4, <2>3 DEF Climbs
  <2>4. QED
    BY <2>1, <2>2, <2>3
<1>7. ASSUME NEW j \in Tasks, NEW x \in Tasks
      PROVE  Owes(x, j)' <=> Owes(x, j)
  <2>1. jobs' = jobs
    BY <1>3
  <2>2. QED
    BY <1>5, <1>6, <2>1 DEF Owes
<1>8. \A j \in Tasks : Owed(j)' = Owed(j)
  BY <1>7 DEF Owed
<1>9. JobsInv'
  BY <1>3, <1>5, <1>8 DEF JobsInv
<1>10. ClimbInv'
  BY <1>2, <1>3, <1>4 DEF ClimbInv
<1>11. QED
  BY <1>9, <1>10

LEMMA JobsStep ==
    ASSUME TreeInv, NEW t \in Threads, Acts(t)
    PROVE  JobsInv' /\ ClimbInv'
<1> USE DEF TreeInv
<1>0. Types /\ ControlInv /\ PlaceInv
  BY DEF PlaceInv
<1>1. \A u \in Threads : u # t => frames'[u] = frames[u]
  BY <1>0, OneMoves
<1>2. CASE Passes(t)
  BY <1>0, <1>2, PassesNothing, OwedKept DEF work, Alive
<1>3. ASSUME NEW k \in Tasks, AddTask(t, k)
      PROVE  JobsInv' /\ ClimbInv'
  <2>1. /\ state[k] = "none" /\ Created(k) /\ state' = [state EXCEPT ![k] = "pushed"]
        /\ UNCHANGED it /\ Parent[k] = Code(t) /\ pc[t] \in {"run", "user"}
    BY <1>3 DEF AddTask, stacks, Executing
  <2>2. it[t] = None
    BY <1>0, <2>1, NoClimber
  <2>3. Parent[k] = None \/ (Parent[k] \in Tasks /\ state[Parent[k]] = "running")
    BY <1>0, <2>1, CodeRuns DEF Code, PlaceInv
  <2>4. QED
    BY <1>1, <2>1, <2>2, <2>3, CreationOwes
<1>4. ASSUME NEW k \in Tasks, RunTask(t, k)
      PROVE  JobsInv' /\ ClimbInv'
  <2>1. /\ state[k] = "none" /\ Created(k) /\ state' = [state EXCEPT ![k] = "running"]
        /\ UNCHANGED it /\ Parent[k] = None /\ pc[t] = "user"
    BY <1>4 DEF RunTask
  <2>2. it[t] = None
    BY <1>0, <2>1, NoClimber
  <2>3. QED
    BY <1>1, <2>1, <2>2, CreationOwes
<1>5. ASSUME it[t] = None, UNCHANGED <<jobs, it>>,
             \A k \in Tasks : (Alive(k)' <=> Alive(k)) /\ (state'[k] = "none" <=> state[k] = "none")
      PROVE  JobsInv' /\ ClimbInv'
  BY <1>1, <1>5, OwedKept
<1>6. ASSUME NEW k \in Tasks, StartWait(t, k)
      PROVE  JobsInv' /\ ClimbInv'
  BY <1>0, <1>5, <1>6, NoClimber DEF StartWait, work, Alive, Executing
<1>7. CASE WaitLoop(t)
  BY <1>0, <1>5, <1>7, NoClimber DEF WaitLoop, work, Alive
<1>8. CASE Take(t)
  <2>1. /\ peek[t] \in Tasks /\ state[peek[t]] = "pushed" /\ pc[t] # "finish"
        /\ state' = [state EXCEPT ![peek[t]] = "running"]
        /\ UNCHANGED <<jobs, it>>
    BY <1>0, <1>8, TakeEffect
  <2>2. \A k \in Tasks : (Alive(k)' <=> Alive(k)) /\ (state'[k] = "none" <=> state[k] = "none")
    BY <1>0, <2>1 DEF Types, Alive
  <2>3. QED
    BY <1>0, <1>5, <2>1, <2>2, NoClimber
<1>9. CASE Finish(t)
  <2>1. pc[t] = "finish" /\ it[t] \in Tasks /\ Top(t).task \in Tasks
    BY <1>0, <1>9, TopType DEF Finish
  <2>2. QED
    BY <1>9, <2>1, FinishOwes
<1>10. QED
  BY <1>2, <1>3, <1>4, <1>6, <1>7, <1>8, <1>9, BodyOwes, ActsCases

-----------------------------------------------------------------------------
(* The invariant of the trees of tasks. *)

LEMMA InitTree ==
    ASSUME Init
    PROVE  TreeInv
<1>1. Types
  <2>1. \A t \in Threads : <<>> \in Seq(Tasks) /\ <<>> \in Seq(Frame)
    BY EmptySeq
  <2>2. <<Main>> \in Seq(Threads)
    BY DEF Threads
  <2>3. pc \in [Threads -> Labels]
    BY DEF Init, Labels, LoopLabels
  <2>4. QED
    BY <2>1, <2>2, <2>3 DEF Init, Types
<1>2. ControlInv
  <2>1. ASSUME NEW t \in Threads
        PROVE  StackFits(t)
    BY TaskManagerAssumption
       DEF Init, StackFits, Looking, Threads, LoopLabels, ExitLabels, MainLabels
  <2>2. ASSUME NEW t \in Threads
        PROVE  Registered(t)
    <3>1. Len(workers) = 1 /\ workers[1] = Main
      BY DEF Init
    <3>2. t # Main => pc[t] = "new"
      BY DEF Init
    <3>3. 1 \in 1..Len(workers)
      BY <3>1
    <3>4. QED
      BY <3>1, <3>2, <3>3 DEF Registered
  <2>3. QED
    BY <2>1, <2>2 DEF ControlInv
<1>3. QueueInv /\ FrameInv
  BY EmptySeq DEF Init, QueueInv, FrameInv
<1>4. \A t \in Threads : it[t] = None
  BY DEF Init
<1>5. JobsInv
  <2>1. ASSUME NEW k \in Tasks
        PROVE  Owed(k) = {} /\ jobs[k] = 0 /\ state[k] = "none"
    BY <1>4, TaskManagerAssumption DEF Init, Owed, Owes, Climbs, Alive
  <2>2. QED
    BY <2>1, FS_EmptySet DEF JobsInv
<1>6. QED
  BY <1>1, <1>2, <1>3, <1>4, <1>5 DEF TreeInv, PlaceInv, ClimbInv

LEMMA PlaceStep ==
    ASSUME TreeInv, NEW t \in Threads, Acts(t)
    PROVE  PlaceInv'
<1>1. Types /\ ControlInv /\ PlaceInv /\ JobsAreOwed
  BY OwedNotZero DEF TreeInv, PlaceInv
<1>2. QED
  BY <1>1, TypesStep, ControlStep, QueueStep, FrameStep DEF PlaceInv

LEMMA TreeStutters == TreeInv /\ UNCHANGED vars => TreeInv'
<1> SUFFICES ASSUME TreeInv, UNCHANGED vars
             PROVE  TreeInv'
  OBVIOUS
<1> USE DEF TreeInv, PlaceInv, vars, work, stacks, flags, roster
<1>1. Types'
  BY DEF Types
<1>2. ControlInv'
  <2>1. \A t \in Threads : (StackFits(t)' <=> StackFits(t)) /\ (Registered(t)' <=> Registered(t))
    BY DEF StackFits, Registered, OnTop, Top, Looking
  <2>2. QED
    BY <2>1 DEF ControlInv
<1>3. QueueInv' /\ FrameInv'
  BY DEF QueueInv, FrameInv
<1>4. JobsInv' /\ ClimbInv'
  BY OwedKept DEF Alive
<1>5. QED
  BY <1>1, <1>2, <1>3, <1>4

\* The inductive invariant of the trees of tasks.
THEOREM TreeCorrect == Spec => []TreeInv
<1>1. TreeInv /\ [Next]_vars => TreeInv'
  <2>1. ASSUME TreeInv, Next
        PROVE  TreeInv'
    <3>1. PICK t \in Threads : Acts(t)
      BY <2>1, NextActs
    <3>2. QED
      BY <2>1, <3>1, PlaceStep, JobsStep DEF TreeInv
  <2>2. QED
    BY <2>1, TreeStutters
<1>2. Init => TreeInv
  BY InitTree
<1>3. QED
  BY <1>1, <1>2, PTL DEF Spec

\* "The same task was executed two times" (Task.hpp:205): the decrement that the
\* assertion looks at never goes below zero.
THEOREM NeverBelowZero == Spec => []JobsAreOwed
<1>1. TreeInv => JobsAreOwed
  BY OwedNotZero DEF TreeInv, PlaceInv
<1>2. QED
  BY <1>1, TreeCorrect, PTL

\* Whoever finds that a task IsFinished (Task.hpp:191) may use what its whole
\* tree has done: its function and its children's have returned, and so have
\* theirs, for any tasks and any number of workers.
THEOREM FinishedCorrect == Spec => []FinishedMeansDone
<1>1. TreeInv => FinishedMeansDone
  <2> SUFFICES ASSUME TreeInv
               PROVE  FinishedMeansDone
    OBVIOUS
  <2>1. ASSUME NEW k \in Tasks, jobs[k] = 0, state[k] # "none"
        PROVE  state[k] = "returned" /\ \A c \in Tasks : Parent[c] = k => jobs[c] = 0
    <3>1. Owed(k) = {}
      BY <2>1, OwedFinite DEF TreeInv, JobsInv
    <3>2. \A c \in Tasks : ~ Owes(c, k)
      BY <3>1 DEF Owed
    <3>3. state[k] \in {"none", "pushed", "running", "returned"}
      BY DEF TreeInv, PlaceInv, Types
    <3>4. QED
      BY <2>1, <3>2, <3>3 DEF Owes, Alive
  <2>2. QED
    BY <2>1 DEF FinishedMeansDone, Children
<1>2. QED
  BY <1>1, TreeCorrect, PTL

\* A task that a thread begins to run (TaskManager::ExecuteTask) has not been
\* begun before, whoever else has read it at the head of a queue.
THEOREM RunsOnce == Spec => RunOnce
<1> DEFINE Once == \A t \in Threads :
              Len(frames'[t]) > Len(frames[t]) /\ Last(frames'[t]).kind = "run" =>
                  state[Last(frames'[t]).task] \in {"none", "pushed"}
<1>1. ASSUME TreeInv, Next
      PROVE  Once
  <2>1. PICK t \in Threads : Acts(t)
    BY <1>1, NextActs
  <2>2. Types /\ ControlInv /\ PlaceInv
    BY <1>1 DEF TreeInv, PlaceInv
  <2>3. \A u \in Threads : Len(frames[u]) \in Nat
    BY <2>2, LenProperties DEF Types
  <2>4. ASSUME NEW u \in Threads, u # t
        PROVE  ~ (Len(frames'[u]) > Len(frames[u]))
    <3>1. frames'[u] = frames[u]
      BY <2>1, <2>2, <2>4, OneMoves
    <3>2. QED
      BY <2>3, <3>1
  <2>5. ASSUME NEW f \in Frame, Enter(t, f)
        PROVE  Last(frames'[t]) = f
    BY <2>2, <2>5, EnterFrames DEF Last
  <2>6. ASSUME NEW k \in Tasks, RunTask(t, k)
        PROVE  state[Last(frames'[t]).task] \in {"none", "pushed"}
    <3>1. Running(k) \in Frame /\ Running(k).task = k /\ Enter(t, Running(k)) /\ state[k] = "none"
      BY <2>6 DEF RunTask, Running, Frame
    <3>2. QED
      BY <2>5, <3>1
  <2>7. ASSUME NEW k \in Tasks, StartWait(t, k)
        PROVE  Last(frames'[t]).kind # "run"
    <3>1. WaitingFor(k) \in Frame /\ WaitingFor(k).kind = "wait" /\ Enter(t, WaitingFor(k))
      BY <2>7 DEF StartWait, WaitingFor, Frame
    <3>2. QED
      BY <2>5, <3>1
  <2>8. CASE Take(t)
    <3>1. /\ Running(peek[t]) \in Frame /\ Enter(t, Running(peek[t])) /\ state[peek[t]] = "pushed"
      BY <2>2, <2>8, TakeEffect
    <3>2. Last(frames'[t]).task = peek[t]
      BY <2>5, <3>1 DEF Running
    <3>3. QED
      BY <2>4, <3>1, <3>2
  <2>9. ASSUME Leave(t), frames[t] # <<>>
        PROVE  ~ (Len(frames'[t]) > Len(frames[t]))
    <3>1. frames'[t] = Front(frames[t])
      BY <2>2, <2>9, LeaveType DEF Types
    <3>2. Len(Front(frames[t])) = Len(frames[t]) - 1 /\ frames[t] \in Seq(Frame)
      BY <2>2, <2>9, FrontProperties DEF Types
    <3>3. QED
      BY <2>3, <3>1, <3>2
  <2>10. CASE Finish(t) \/ WaitLoop(t)
    <3>1. frames[t] # <<>>
      BY <2>2, <2>10, TopType DEF Finish, WaitLoop
    <3>2. frames' = frames \/ Leave(t)
      BY <2>10 DEF Finish, WaitLoop
    <3>3. QED
      BY <2>3, <2>4, <2>9, <3>1, <3>2
  <2>11. CASE frames' = frames
    BY <2>3, <2>11
  <2>12. Passes(t) \/ BodyReturns(t) => frames' = frames
    BY <2>2, PassesNothing DEF BodyReturns
  <2>13. (\E k \in Tasks : AddTask(t, k)) => frames' = frames
    BY DEF AddTask, stacks
  <2>14. QED
    BY <2>1, <2>4, <2>6, <2>7, <2>8, <2>10, <2>11, <2>12, <2>13, ActsCases
<1>2. ASSUME TreeInv, UNCHANGED vars
      PROVE  Once
  <2>1. \A u \in Threads : Len(frames[u]) \in Nat
    BY <1>2, LenProperties DEF TreeInv, PlaceInv, Types
  <2>2. QED
    BY <1>2, <2>1 DEF vars, stacks
<1>3. TreeInv /\ [Next]_vars => [Once]_vars
  BY <1>1, <1>2
<1>4. QED
  BY <1>3, TreeCorrect, PTL DEF Spec, RunOnce

-----------------------------------------------------------------------------
(* The count of active workers. *)

\* The steps of the worker's loop that change what a worker counts as.
Counts(t) == Rise(t) \/ Rest(t) \/ Quit(t)

LEMMA CountKept ==
    ASSUME TreeInv, NEW t \in Threads, Acts(t), ~ Counts(t)
    PROVE  activeWorkersCount' = activeWorkersCount /\ Active' = Active
<1> USE DEF TreeInv, PlaceInv
<1>0. Types /\ ControlInv /\ StackFits(t)
  BY DEF ControlInv
<1>1. activeWorkersCount' = activeWorkersCount
  BY DEF Acts, Counts, Proceed, ExecuteOneTask, AddTask, RunTask, StartWait, BodyReturns, Finish,
         WaitLoop, ReadEmpty, ReadHead, Take, Beaten, Signal, RegisterThisThreadAsWorker, CheckStop,
         CheckPause, Wake, Woken, Lock, Drain, Erase, Stop, WakeAll, Reap, Pause, flags
<1> DEFINE Off == {"new", "rise", "sleep", "woken"}
<1>2. t \in Workers => (t \in leaving' <=> t \in leaving)
  BY TaskManagerAssumption
     DEF Acts, Counts, Proceed, ExecuteOneTask, AddTask, RunTask, StartWait, BodyReturns, Finish,
         WaitLoop, ReadEmpty, ReadHead, Take, Beaten, Signal, RegisterThisThreadAsWorker, CheckStop,
         CheckPause, Wake, Woken, Lock, Drain, Erase, Stop, WakeAll, Reap, Pause
<1>3. pc'[t] \in Off <=> pc[t] \in Off
  <2>1. CASE Loops(t)
    BY <1>0, <2>1
       DEF Loops, Counts, RegisterThisThreadAsWorker, CheckStop, CheckPause, Wake, Woken, Lock,
           Drain, Erase, Step, Goto, Types
  <2>2. CASE Flags(t)
    BY <1>0, <2>2 DEF Flags, Stop, WakeAll, Reap, Pause, Goto, Types
  <2>3. CASE Signal(t)
    <3>1. frames[t] \in Seq(Frame)
      BY <1>0 DEF Types
    <3>2. Return(t, frames[t]) \notin Off
      BY <3>1, ReturnType
    <3>3. QED
      BY <1>0, <2>3, <3>2 DEF Signal, Goto, Types
  <2>4. ASSUME NEW f \in Frame, Enter(t, f), pc[t] \notin Off
        PROVE  pc'[t] \notin Off
    BY <1>0, <2>4, EnterType DEF Types
  <2>5. ASSUME NEW k \in Tasks, AddTask(t, k)
        PROVE  pc[t] \notin Off /\ pc'[t] \notin Off
    BY <1>0, <2>5 DEF AddTask, Executing, Goto, Types
  <2>6. ASSUME NEW k \in Tasks, RunTask(t, k) \/ StartWait(t, k)
        PROVE  pc[t] \notin Off /\ pc'[t] \notin Off
    <3>1. Running(k) \in Frame /\ WaitingFor(k) \in Frame
      BY DEF Running, WaitingFor, Frame
    <3>2. pc[t] \notin Off
      BY <2>6 DEF RunTask, StartWait, Executing
    <3>3. QED
      BY <2>4, <2>6, <3>1, <3>2 DEF RunTask, StartWait
  <2>7. CASE Take(t)
    <3>1. Running(peek[t]) \in Frame /\ Enter(t, Running(peek[t])) /\ peek[t] \in Tasks
      BY <2>7, TakeEffect
    <3>2. pc[t] \notin Off
      BY <1>0, <3>1, TaskManagerAssumption DEF StackFits, Looking
    <3>3. QED
      BY <2>4, <3>1, <3>2
  <2>8. CASE BodyReturns(t)
    BY <1>0, <2>8 DEF BodyReturns, Goto, Types
  <2>9. ASSUME Leave(t), frames[t] # <<>>
        PROVE  pc'[t] \notin Off
    <3>1. pc'[t] = Return(t, Front(frames[t])) /\ Front(frames[t]) \in Seq(Frame)
      BY <1>0, <2>9, LeaveType, FrontProperties DEF Types
    <3>2. QED
      BY <3>1, ReturnType
  <2>10. CASE Finish(t) \/ WaitLoop(t)
    <3>1. frames[t] # <<>> /\ pc[t] \notin Off
      BY <1>0, <2>10, TopType DEF Finish, WaitLoop
    <3>2. Leave(t) \/ UNCHANGED pc \/ Goto(t, "own")
      BY <2>10 DEF Finish, WaitLoop
    <3>3. QED
      BY <1>0, <2>9, <3>1, <3>2 DEF Goto, Types
  <2>11. CASE ReadEmpty(t) \/ ReadHead(t) \/ Beaten(t)
    <3>1. NothingFound(t) \/ UNCHANGED pc
      BY <2>11 DEF ReadEmpty, ReadHead, Beaten
    <3>2. QED
      BY <1>0, <3>1, NothingFoundType DEF Types
  <2>12. QED
    BY <2>1, <2>2, <2>3, <2>5, <2>6, <2>7, <2>8, <2>10, <2>11, ActsCases DEF Passes
<1>4. ASSUME NEW w \in Workers
      PROVE  w \in Active' <=> w \in Active
  <2>1. w \in Threads
    BY DEF Threads
  <2>2. CASE w = t
    BY <1>2, <1>3, <2>2 DEF Active
  <2>3. CASE w # t
    BY <1>0, <2>1, <2>3, OneMoves DEF Active
  <2>4. QED
    BY <2>2, <2>3
<1>5. QED
  BY <1>1, <1>4 DEF Active

LEMMA ActiveFinite ==
    /\ Active \subseteq Workers /\ IsFiniteSet(Active)
    /\ Cardinality(Active) \in Nat /\ Cardinality(Active) <= Cardinality(Workers)
<1>1. Active \in SUBSET Workers
  BY DEF Active
<1>2. QED
  BY <1>1, TaskManagerAssumption, FS_Subset, FS_CardinalityType

LEMMA ActiveStep ==
    ASSUME TreeInv, ActiveInv, NEW t \in Threads, Acts(t)
    PROVE  ActiveInv'
<1>0. Types /\ ControlInv /\ StackFits(t)
  BY DEF TreeInv, PlaceInv, ControlInv
<1>1. CASE ~ Counts(t)
  BY <1>1, CountKept DEF ActiveInv
<1>2. \A w \in Workers : w # t => (w \in Active' <=> w \in Active)
  BY <1>0, OneMoves DEF Active, Threads
<1>3. CASE Rise(t)
  <2>1. /\ t \in Workers /\ pc[t] = "rise" /\ pc'[t] = "check" /\ leaving' = leaving
        /\ activeWorkersCount' = activeWorkersCount + 1
    BY <1>0, <1>3 DEF Rise, Step, Goto, Types
  <2>2. t \notin leaving /\ t \notin Active
    BY <1>0, <2>1 DEF StackFits, LoopLabels, Active
  <2>3. Active' = Active \cup {t}
    BY <1>2, <2>1, <2>2 DEF Active
  <2>4. QED
    BY <2>1, <2>2, <2>3, ActiveFinite, FS_AddElement DEF ActiveInv
<1>4. CASE Rest(t) \/ Quit(t)
  <2>1. /\ t \in Workers /\ pc[t] \in {"rest", "quit"}
        /\ (pc'[t] = "sleep" /\ leaving' = leaving) \/ t \in leaving'
        /\ activeWorkersCount' = activeWorkersCount - 1
    BY <1>0, <1>4 DEF Rest, Quit, Step, Goto, Types
  <2>2. t \in Active /\ t \notin Active'
    BY <1>0, <2>1 DEF StackFits, LoopLabels, Active
  <2>3. Active' = Active \ {t}
    BY <1>2, <2>2 DEF Active
  <2>4. QED
    BY <2>1, <2>2, <2>3, ActiveFinite, FS_RemoveElement DEF ActiveInv
<1>5. QED
  BY <1>1, <1>3, <1>4 DEF Counts

LEMMA InitActive == Init => ActiveInv
<1>1. Init => Active = {}
  BY TaskManagerAssumption DEF Init, Active, Threads
<1>2. QED
  BY <1>1, FS_EmptySet DEF Init, ActiveInv

LEMMA CountStutters == ActiveInv /\ UNCHANGED vars => ActiveInv'
BY DEF ActiveInv, Active, vars, flags

\* Types, and the two counts that the code keeps in atomics: no task has more
\* jobs than there are tasks, and between none and all of the workers are active.
THEOREM TypeCorrect == Spec => []TypeOK
<1>1. TreeInv /\ ActiveInv /\ [Next]_vars => ActiveInv'
  <2>1. ASSUME TreeInv, ActiveInv, Next
        PROVE  ActiveInv'
    BY <2>1, NextActs, ActiveStep
  <2>2. QED
    BY <2>1, CountStutters
<1>2. TreeInv /\ ActiveInv => TypeOK
  <2> SUFFICES ASSUME TreeInv, ActiveInv
               PROVE  TypeOK
    OBVIOUS
  <2>0. Types
    BY DEF TreeInv, PlaceInv
  <2>1. Range(workers) \subseteq Threads
    <3>1. \A i \in 1..Len(workers) : workers[i] \in Threads
      BY <2>0, ElementOfSeq DEF Types
    <3>2. DOMAIN workers = 1..Len(workers)
      BY <2>0, LenProperties DEF Types
    <3>3. QED
      BY <3>1, <3>2 DEF Range
  <2>2. activeWorkersCount \in 0..Cardinality(Workers)
    <3>1. Cardinality(Workers) \in Nat
      BY TaskManagerAssumption, FS_CardinalityType
    <3>2. QED
      BY <3>1, ActiveFinite DEF ActiveInv
  <2>3. jobs \in [Tasks -> 0..(Cardinality(Tasks) + 1)]
    <3>1. Cardinality(Tasks) \in Nat
      BY TaskManagerAssumption, FS_CardinalityType
    <3>2. ASSUME NEW k \in Tasks
          PROVE  jobs[k] \in 0..(Cardinality(Tasks) + 1)
      <4>1. jobs[k] = Cardinality(Owed(k))
        BY DEF TreeInv, JobsInv
      <4>2. QED
        BY <3>1, <4>1, OwedFinite
    <3>3. QED
      BY <2>0, <3>2 DEF Types
  <2>4. QED
    BY <2>0, <2>1, <2>2, <2>3 DEF TypeOK, Types
<1>3. QED
  BY <1>1, <1>2, InitActive, TreeCorrect, PTL DEF Spec

-----------------------------------------------------------------------------
(* Leaving the roster. *)

\* What a step may do to the flags and the lock.
LEMMA FlagSteps ==
    ASSUME TreeInv, NEW t \in Threads, Acts(t)
    PROVE  /\ shouldStop => shouldStop'
           /\ shouldStop' => shouldStop \/ Main \in leaving'
           /\ leaving \subseteq leaving'
           /\ leaving' # leaving => pc[t] = "quit" \/ shouldStop'
           /\ workersLock' = workersLock \/ Lock(t) \/ Erase(t)
           /\ \/ shouldPause' = shouldPause \/ shouldPause' \/ Erase(t)
              \/ t = Main /\ pc[Main] = "user"
<1>1. CASE Loops(t)
  BY <1>1 DEF Loops, RegisterThisThreadAsWorker, Rise, CheckStop, CheckPause, Rest, Wake, Woken, Quit,
              Step, Lock, Drain, Erase, roster, flags
<1>2. CASE Flags(t)
  BY <1>2 DEF Flags, Stop, WakeAll, Reap, Pause, roster, flags
<1>3. CASE ~ Loops(t) /\ ~ Flags(t)
  <2>1. UNCHANGED <<shouldStop, shouldPause, workersLock, leaving>>
    BY <1>3
       DEF Acts, Loops, Flags, Proceed, ExecuteOneTask, AddTask, RunTask, StartWait, BodyReturns,
           Finish, WaitLoop, ReadEmpty, ReadHead, Take, Beaten, Signal, flags, roster
  <2>2. QED
    BY <2>1
<1>4. QED
  BY <1>1, <1>2, <1>3

\* Where a thread comes from that is about to quit, to drain or to erase.
LEMMA ExitSteps ==
    ASSUME TreeInv, NEW t \in Threads, Acts(t)
    PROVE  /\ pc'[t] = "quit" => shouldStop
           /\ pc'[t] = "drain" => Lock(t)
           /\ pc'[t] = "erase" => Drain(t)
           /\ pc[t] \in LoopLabels /\ t \notin leaving' =>
                 pc'[t] \in LoopLabels \/ ~ shouldPause
<1>0. Types /\ ControlInv /\ StackFits(t)
  BY DEF TreeInv, PlaceInv, ControlInv
<1>1. CASE Loops(t)
  BY <1>0, <1>1
     DEF Loops, RegisterThisThreadAsWorker, Rise, CheckStop, CheckPause, Rest, Wake, Woken, Quit,
         Lock, Drain, Erase, Step, Goto, Types, LoopLabels
<1>2. CASE Flags(t)
  BY <1>0, <1>2, TaskManagerAssumption
     DEF Flags, Stop, WakeAll, Reap, Pause, Goto, Types, StackFits, LoopLabels
<1> DEFINE Apart(label) == label \notin {"quit", "drain", "erase"}
<1>3. CASE ~ Loops(t) /\ ~ Flags(t)
  <2>1. pc[t] \notin LoopLabels
    <3>1. pc[t] \in LoopLabels => it[t] = None /\ peek[t] = None
      BY <1>0 DEF StackFits, Looking, LoopLabels
    <3>2. QED
      BY <1>3, <3>1
         DEF Acts, Loops, Flags, Proceed, ExecuteOneTask, AddTask, RunTask, StartWait, BodyReturns,
             Finish, WaitLoop, ReadEmpty, ReadHead, Take, Beaten, Signal, Executing, Looking,
             LoopLabels
  <2>2. ASSUME NEW f \in Frame, Enter(t, f)
        PROVE  Apart(pc'[t])
    BY <1>0, <2>2, EnterType DEF Types
  <2>3. ASSUME Leave(t), frames[t] # <<>>
        PROVE  Apart(pc'[t])
    <3>1. pc'[t] = Return(t, Front(frames[t])) /\ Front(frames[t]) \in Seq(Frame)
      BY <1>0, <2>3, LeaveType, FrontProperties DEF Types
    <3>2. QED
      BY <3>1, ReturnType
  <2>4. CASE Signal(t)
    <3>1. frames[t] \in Seq(Frame) /\ pc'[t] = Return(t, frames[t])
      BY <1>0, <2>4 DEF Types, Signal, Goto
    <3>2. Apart(pc'[t])
      BY <3>1, ReturnType
    <3>3. QED
      BY <2>1, <3>2
  <2>5. ASSUME NEW k \in Tasks, AddTask(t, k) \/ RunTask(t, k) \/ StartWait(t, k)
        PROVE  Apart(pc'[t])
    <3>1. Running(k) \in Frame /\ WaitingFor(k) \in Frame
      BY DEF Running, WaitingFor, Frame
    <3>2. QED
      BY <1>0, <2>2, <2>5, <3>1 DEF AddTask, RunTask, StartWait, Goto, Types
  <2>6. CASE Take(t)
    <3>1. Running(peek[t]) \in Frame /\ Enter(t, Running(peek[t]))
      BY <2>6, TakeEffect DEF TreeInv
    <3>2. QED
      BY <2>1, <2>2, <3>1
  <2>7. CASE BodyReturns(t)
    BY <1>0, <2>1, <2>7 DEF BodyReturns, Goto, Types
  <2>8. CASE Finish(t) \/ WaitLoop(t)
    <3>1. frames[t] # <<>> /\ pc[t] \in {"finish", "wait"}
      BY <1>0, <2>8, TopType DEF Finish, WaitLoop
    <3>2. Leave(t) \/ UNCHANGED pc \/ Goto(t, "own")
      BY <2>8 DEF Finish, WaitLoop
    <3>3. Apart(pc'[t])
      BY <1>0, <2>3, <3>1, <3>2 DEF Goto, Types
    <3>4. QED
      BY <2>1, <3>3
  <2>9. CASE ReadEmpty(t) \/ ReadHead(t) \/ Beaten(t)
    <3>1. NothingFound(t) \/ UNCHANGED pc
      BY <2>9 DEF ReadEmpty, ReadHead, Beaten
    <3>2. pc[t] \in {"own", "first", "any", "final"}
      BY <1>0, <2>9, TaskManagerAssumption DEF ReadEmpty, ReadHead, Beaten, Looking, StackFits, NothingFound
    <3>3. Apart(pc'[t])
      BY <1>0, <3>1, <3>2, NothingFoundType DEF Types
    <3>4. QED
      BY <2>1, <3>3
  <2>10. QED
    BY <1>3, <2>1, <2>4, <2>5, <2>6, <2>7, <2>8, <2>9, ActsCases DEF Passes
<1>4. QED
  BY <1>1, <1>2, <1>3

LEMMA LeaveStep ==
    ASSUME TreeInv, ActiveInv, LeaveInv, NEW t \in Threads, Acts(t)
    PROVE  LeaveInv'
<1>0. Types /\ ControlInv /\ ControlInv'
  BY PlaceStep DEF TreeInv, PlaceInv
<1>1. \A u \in Threads : u # t => pc'[u] = pc[u] /\ (u \in leaving' <=> u \in leaving)
  BY <1>0, OneMoves
<1>2. \A u \in Threads : pc[u] \in ExitLabels => u \in leaving
  BY <1>0 DEF ControlInv, StackFits
<1>3. \A u \in Threads : pc[u] = "drain" \/ pc[u] = "erase" => shouldStop /\ Main \in leaving
  BY <1>2 DEF LeaveInv, ExitLabels
<1>4. ASSUME NEW u \in Threads, pc'[u] \in {"drain", "erase"}
      PROVE  workersLock' = u /\ shouldPause'
  <2>1. CASE Lock(t)
    <3>1. workersLock = None /\ workersLock' = t /\ shouldPause' = TRUE
      BY <2>1 DEF Lock
    <3>2. u # t => pc[u] \notin {"drain", "erase"}
      BY <3>1, TaskManagerAssumption DEF LeaveInv
    <3>3. QED
      BY <1>1, <1>4, <3>1, <3>2
  <2>2. CASE Erase(t)
    <3>1. workersLock = t /\ pc'[t] \notin {"drain", "erase"}
      BY <1>0, <2>2 DEF Erase, LeaveInv, Goto, Types
    <3>2. u # t /\ pc[u] \in {"drain", "erase"}
      BY <1>1, <1>4, <3>1
    <3>3. workersLock = u
      BY <3>2 DEF LeaveInv
    <3>4. QED
      BY <3>1, <3>2, <3>3
  <2>3. CASE ~ Lock(t) /\ ~ Erase(t)
    <3>1. pc[u] \in {"drain", "erase"}
      <4>1. CASE u # t
        BY <1>1, <1>4, <4>1
      <4>2. CASE u = t
        BY <1>4, <2>3, <4>2, ExitSteps DEF Drain
      <4>3. QED
        BY <4>1, <4>2
    <3>2. workersLock = u /\ shouldPause /\ Main \in leaving
      BY <1>3, <3>1 DEF LeaveInv
    <3>3. pc[Main] # "user"
      BY <1>0, <3>2 DEF ControlInv, StackFits, Threads
    <3>4. QED
      BY <2>3, <3>2, <3>3, FlagSteps
  <2>4. QED
    BY <2>1, <2>2, <2>3
<1>5. (leaving' # {} \/ \E u \in Threads : pc'[u] = "quit") => shouldStop'
  <2>1. ASSUME leaving' # {}
        PROVE  shouldStop'
    BY <2>1, FlagSteps DEF LeaveInv
  <2>2. ASSUME NEW u \in Threads, pc'[u] = "quit"
        PROVE  shouldStop'
    <3>1. CASE u = t
      BY <2>2, <3>1, ExitSteps, FlagSteps
    <3>2. CASE u # t
      BY <1>1, <2>2, <3>2, FlagSteps DEF LeaveInv
    <3>3. QED
      BY <3>1, <3>2
  <2>3. QED
    BY <2>1, <2>2
<1>6. shouldStop' => Main \in leaving'
  BY FlagSteps DEF LeaveInv
<1>7. ASSUME NEW u \in Threads, pc'[u] = "erase", NEW w \in Workers \ leaving'
      PROVE  pc'[w] \in LoopLabels
  <2>0. w \in Threads /\ w \notin leaving
    BY FlagSteps DEF Threads
  <2>1. CASE Drain(t) /\ u = t
    <3>1. Active = {} /\ pc[t] = "drain"
      BY <2>1, ActiveFinite, FS_EmptySet DEF Drain, ActiveInv
    <3>2. w # t
      BY <1>2, <2>0, <3>1 DEF ExitLabels
    <3>3. pc[w] \in {"new", "rise", "sleep", "woken"}
      BY <2>0, <3>1 DEF Active
    <3>4. QED
      BY <1>1, <2>0, <3>2, <3>3 DEF LoopLabels
  <2>2. CASE ~ (Drain(t) /\ u = t)
    <3>1. u # t /\ pc[u] = "erase"
      BY <1>1, <1>7, <2>2, ExitSteps
    <3>2. pc[w] \in LoopLabels /\ shouldPause
      BY <2>0, <3>1 DEF LeaveInv
    <3>3. CASE w = t
      BY <3>2, <3>3, ExitSteps
    <3>4. CASE w # t
      BY <1>1, <2>0, <3>2, <3>4
    <3>5. QED
      BY <3>3, <3>4
  <2>3. QED
    BY <2>1, <2>2
<1>8. QED
  BY <1>4, <1>5, <1>6, <1>7 DEF LeaveInv

\* The frames of a step that are new begin a task or wait for one.
LEMMA WaitStep ==
    ASSUME Waiting = FALSE, TreeInv, LeaveInv, NoWaits, NEW t \in Threads, Acts(t)
    PROVE  NoWaits'
<1>0. Types /\ ControlInv /\ PlaceInv
  BY DEF TreeInv, PlaceInv
<1>1. ASSUME \A u \in Threads : \A i \in 1..Len(frames'[u]) :
                  i \in 1..Len(frames[u]) /\ frames'[u][i] = frames[u][i],
             leaving' = leaving
      PROVE  NoWaits'
  BY <1>1 DEF NoWaits
<1>2. CASE Stop /\ t = Main
  <2>1. pc[Main] = "user" /\ frames' = frames /\ leaving' = leaving \cup {Main}
    BY <1>2 DEF Stop, stacks
  <2>2. frames[Main] = <<>>
    BY <1>0, <2>1 DEF ControlInv, StackFits, Threads
  <2>3. \A u \in Threads : \A i \in 1..Len(frames[u]) : frames[u][i].kind # "wait"
    BY <2>2, EmptySeq DEF NoWaits
  <2>4. QED
    BY <2>1, <2>3 DEF NoWaits
<1>3. CASE Quit(t)
  <2>1. frames' = frames /\ t # Main /\ leaving' = leaving \cup {t}
    BY <1>3, TaskManagerAssumption DEF Quit, Step, stacks
  <2>2. QED
    BY <2>1 DEF NoWaits
<1>4. CASE ~ Quit(t) /\ ~ (Stop /\ t = Main)
  <2>0. leaving' = leaving
    BY <1>4 DEF Acts, Proceed, ExecuteOneTask, AddTask, RunTask, StartWait, BodyReturns, Finish,
           WaitLoop, ReadEmpty, ReadHead, Take, Beaten, Signal, RegisterThisThreadAsWorker, Rise,
           CheckStop, CheckPause, Rest, Wake, Woken, Lock, Drain, Erase, WakeAll, Reap, Pause
  <2>1. CASE frames' = frames
    BY <1>1, <2>0, <2>1
  <2>2. ASSUME Leave(t), frames[t] # <<>>
        PROVE  NoWaits'
    BY <1>0, <1>1, <2>0, <2>2, LeaveFrames
  <2>3. ASSUME NEW f \in Frame, Enter(t, f), f.kind = "wait" => t = Main /\ Main \notin leaving
        PROVE  NoWaits'
    <3>1. /\ Len(frames'[t]) = Len(frames[t]) + 1
          /\ frames'[t][Len(frames[t]) + 1] = f
          /\ \A u \in Threads : \A i \in 1..Len(frames'[u]) :
                \/ u = t /\ i = Len(frames[t]) + 1
                \/ i \in 1..Len(frames[u]) /\ frames'[u][i] = frames[u][i]
      BY <1>0, <2>3, EnterFrames
    <3>2. ASSUME NEW u \in Threads, NEW i \in 1..Len(frames'[u]), frames'[u][i].kind = "wait"
          PROVE  u = Main /\ Main \notin leaving'
      BY <2>0, <2>3, <3>1, <3>2 DEF NoWaits
    <3>3. QED
      BY <3>2 DEF NoWaits
  <2>4. ASSUME NEW k \in Tasks, RunTask(t, k)
        PROVE  NoWaits'
    <3>1. Running(k) \in Frame /\ Running(k).kind # "wait" /\ Enter(t, Running(k))
      BY <2>4 DEF RunTask, Running, Frame
    <3>2. QED
      BY <2>3, <3>1
  <2>5. ASSUME NEW k \in Tasks, StartWait(t, k)
        PROVE  NoWaits'
    <3>1. WaitingFor(k) \in Frame /\ Enter(t, WaitingFor(k)) /\ pc[t] = "user"
      BY <2>5 DEF StartWait, WaitingFor, Frame, Executing
    <3>2. t = Main /\ Main \notin leaving
      BY <1>0, <3>1 DEF ControlInv, StackFits
    <3>3. QED
      BY <2>3, <3>1, <3>2
  <2>6. CASE Take(t)
    <3>1. Running(peek[t]) \in Frame /\ Enter(t, Running(peek[t]))
      BY <1>0, <2>6, TakeEffect
    <3>2. QED
      BY <2>3, <3>1 DEF Running
  <2>7. CASE Finish(t) \/ WaitLoop(t)
    <3>1. frames[t] # <<>>
      BY <1>0, <2>7, TopType DEF Finish, WaitLoop
    <3>2. frames' = frames \/ Leave(t)
      BY <2>7 DEF Finish, WaitLoop
    <3>3. QED
      BY <2>1, <2>2, <3>1, <3>2
  <2>8. Passes(t) \/ BodyReturns(t) => frames' = frames
    BY <1>0, PassesNothing DEF BodyReturns
  <2>9. (\E k \in Tasks : AddTask(t, k)) => frames' = frames
    BY DEF AddTask, stacks
  <2>10. QED
    BY <2>1, <2>4, <2>5, <2>6, <2>7, <2>8, <2>9, ActsCases
<1>5. QED
  BY <1>2, <1>3, <1>4

LEMMA AloneStutters == LeaveInv /\ NoWaits /\ UNCHANGED vars => (LeaveInv /\ NoWaits)'
BY DEF LeaveInv, NoWaits, vars, stacks, flags, roster

LEMMA InitAlone == Init => LeaveInv /\ NoWaits
<1> SUFFICES ASSUME Init
             PROVE  LeaveInv /\ NoWaits
  OBVIOUS
<1>1. \A t \in Threads : pc[t] \in {"user", "new"} /\ frames[t] = <<>>
  BY DEF Init
<1>2. leaving = {} /\ shouldStop = FALSE
  BY DEF Init
<1>3. QED
  BY <1>1, <1>2, EmptySeq DEF LeaveInv, NoWaits

\* UnregisterThisThreadAsWorker (TaskManager.cpp:211): whoever erases itself
\* from the vector is alone with it, if tasks do not wait for tasks.
THEOREM ErasesAlone == ASSUME Waiting = FALSE PROVE Spec => []ErasedAlone
<1>1. AloneInv => ErasedAlone
  <2> SUFFICES ASSUME AloneInv, NEW t \in Threads, pc[t] = "erase",
                      NEW u \in Threads \ {t}, Looking(u)
               PROVE  FALSE
    BY DEF ErasedAlone
  <2>1. /\ ControlInv /\ LeaveInv /\ NoWaits /\ StackFits(t) /\ StackFits(u)
        /\ frames[u] \in Seq(Frame)
    BY DEF AloneInv, TreeInv, PlaceInv, ControlInv, Types
  <2>2. t \in leaving /\ Main \in leaving
    BY <2>1 DEF StackFits, ExitLabels, LeaveInv
  <2>3. CASE OnTop(u, "wait")
    <3>1. Len(frames[u]) \in Nat \ {0} /\ frames[u][Len(frames[u])].kind = "wait"
      BY <2>1, <2>3, FrontProperties DEF OnTop, Top
    <3>2. Len(frames[u]) \in 1..Len(frames[u])
      BY <3>1
    <3>3. QED
      BY <2>1, <2>2, <3>1, <3>2 DEF NoWaits
  <2>4. CASE u \in Workers \ leaving
    BY <2>1, <2>4 DEF LeaveInv, Looking, LoopLabels
  <2>5. QED
    BY <2>1, <2>3, <2>4 DEF StackFits, Looking
<1>2. TreeInv /\ TreeInv' /\ ActiveInv /\ LeaveInv /\ NoWaits /\ [Next]_vars
          => ActiveInv' /\ LeaveInv' /\ NoWaits'
  <2>1. ASSUME TreeInv, ActiveInv, LeaveInv, NoWaits, Next
        PROVE  ActiveInv' /\ LeaveInv' /\ NoWaits'
    <3>1. PICK t \in Threads : Acts(t)
      BY <2>1, NextActs
    <3>2. QED
      BY <2>1, <3>1, ActiveStep, LeaveStep, WaitStep
  <2>2. QED
    BY <2>1, CountStutters, AloneStutters
<1>3. QED
  BY <1>1, <1>2, InitActive, InitAlone, TreeCorrect, PTL DEF Spec, AloneInv
=============================================================================
