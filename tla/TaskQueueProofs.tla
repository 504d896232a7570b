---------------------------- MODULE TaskQueueProofs ----------------------------
(***************************************************************************)
(* Proofs about TaskQueue, for a ring of any size, any threads and any     *)
(* number of pushes, as long as one slot stays free.                       *)
(***************************************************************************)
EXTENDS TaskQueue, SequenceTheorems, TLAPS

\* Positions less than a ring apart have slots of their own.
LEMMA SlotsDiffer ==
    ASSUME NEW n \in Nat \ {0}, NEW a \in Nat, NEW b \in Nat, a < b, b - a < n
    PROVE  a % n # b % n
<1> DEFINE A == a \div n  B == b \div n
<1>1. /\ A \in Nat /\ B \in Nat
      /\ a = n * A + (a % n) /\ b = n * B + (b % n)
  OBVIOUS
<1>2. SUFFICES ASSUME a % n = b % n PROVE FALSE
  OBVIOUS
<1>3. b - a = n * (B - A)
  BY <1>1, <1>2
<1>4. PICK d \in Int : d = B - A
  BY <1>1
<1>5. n * d > 0 /\ n * d < n
  BY <1>3, <1>4
<1>6. d <= 0 => n * d <= 0
  BY <1>4
<1>7. d >= 1 => n * d >= n
  BY <1>4
<1>8. QED
  BY <1>4, <1>5, <1>6, <1>7

-----------------------------------------------------------------------------
(* The inductive invariant. *)

Types ==
    /\ m_head_pos \in Nat /\ m_tail_pos \in 0..MaxPushes /\ m_head_pos <= Written
    /\ m_storage \in [Slots -> Tasks \cup {None}]
    /\ pusher \in {"idle", "store"}
    /\ pc \in [Threads -> {"idle", "read", "cas", "clear"}]
    /\ head_pos \in [Threads -> Nat]
    /\ task \in [Threads -> Tasks \cup {None}]
    /\ times \in [Tasks -> Nat]

\* Every position in use is less than a ring behind the tail.
InReach == \A p \in Nat : p \in InUse => p < m_tail_pos /\ m_tail_pos - p < Size

\* What a slot shows is a task in the queue, or one that a pop has taken and
\* has still to clear away; and it shows it in its own place.
Shown ==
    \A s \in Slots : m_storage[s] # None =>
        /\ m_storage[s] % Size = s /\ m_storage[s] < Written
        /\ \/ m_storage[s] >= m_head_pos
           \/ \E t \in Threads : pc[t] = "clear" /\ head_pos[t] = m_storage[s]

\* Where thread t stands: a pop that can still win has read the oldest task.
Popping(t) ==
    /\ pc[t] # "idle" => head_pos[t] <= m_head_pos
    /\ pc[t] = "cas" => task[t] # None
    /\ pc[t] = "cas" /\ head_pos[t] = m_head_pos =>
            task[t] = m_head_pos /\ m_head_pos < Written
    /\ pc[t] = "clear" => head_pos[t] < m_head_pos /\ task[t] = head_pos[t]

\* Tasks are taken in their order, and each once.
Taken == \A k \in Tasks : times[k] = IF k < m_head_pos THEN 1 ELSE 0

Inv == Types /\ InReach /\ Shown /\ (\A t \in Threads : Popping(t)) /\ Taken

\* One slot of the ring stays free.
Moderate == Reach > 0 /\ Reach < Size

LEMMA InvInit == ASSUME Moderate PROVE Init => Inv
<1> SUFFICES ASSUME Init PROVE Inv
  OBVIOUS
<1>1. Types
  BY TaskQueueAssumption DEF Init, Types, Written, Tasks, Slots
<1>2. InReach
  BY DEF Init, InReach, InUse
<1>3. Shown /\ Taken /\ \A t \in Threads : Popping(t)
  BY DEF Init, Shown, Taken, Popping, Slots, Tasks
<1>4. QED
  BY <1>1, <1>2, <1>3 DEF Inv

\* The slot of the oldest position shows that position or nothing.
LEMMA HeadShown ==
    ASSUME Inv, Moderate, m_storage[m_head_pos % Size] # None
    PROVE  m_storage[m_head_pos % Size] = m_head_pos /\ m_head_pos < Written
<1> DEFINE h == m_head_pos
           s == h % Size
           v == m_storage[s]
<1>1. /\ h \in Nat /\ m_tail_pos \in Nat /\ h <= m_tail_pos
      /\ Written \in Int /\ Written <= m_tail_pos
      /\ Size \in Nat \ {0} /\ s \in Slots
  BY TaskQueueAssumption DEF Inv, Types, Written, Slots
<1>2. v \in Nat /\ v % Size = s /\ v < Written
  BY <1>1 DEF Inv, Types, Shown, Tasks
<1>3. v \in InUse
  BY <1>1, <1>2 DEF Inv, Shown, InUse
<1>4. m_tail_pos - v < Size
  BY <1>2, <1>3 DEF Inv, InReach
<1>5. ~(v < h)
  <2>1. SUFFICES ASSUME v < h PROVE FALSE
    OBVIOUS
  <2>2. h - v < Size
    BY <1>1, <1>2, <1>4
  <2>3. QED
    BY <1>1, <1>2, <2>1, <2>2, SlotsDiffer
<1>6. h < m_tail_pos
  BY <1>1, <1>2, <1>5
<1>7. h \in InUse
  BY <1>1, <1>6 DEF InUse
<1>8. m_tail_pos - h < Size
  BY <1>1, <1>7 DEF Inv, InReach
<1>9. ~(h < v)
  BY <1>1, <1>2, <1>8, SlotsDiffer
<1>10. QED
  BY <1>1, <1>2, <1>5, <1>6, <1>9

-----------------------------------------------------------------------------
(* Every step keeps it. *)

LEMMA PushReserveKeeps == ASSUME Inv, Moderate, PushReserve PROVE Inv'
<1> USE DEF PushReserve
<1>1. /\ m_tail_pos \in Nat /\ m_tail_pos' = m_tail_pos + 1 /\ m_head_pos' = m_head_pos
      /\ Size \in Nat /\ Reach \in Nat /\ MaxPushes \in Nat
  BY TaskQueueAssumption DEF Inv, Types
<1>2. Types'
  BY <1>1 DEF Inv, Types, Written
<1>3. InReach'
  <2> SUFFICES ASSUME NEW p \in Nat, p \in InUse'
               PROVE  p < m_tail_pos' /\ m_tail_pos' - p < Size
    BY DEF InReach
  <2>1. p \in InUse \/ p = m_tail_pos
    BY <1>1 DEF InUse, Inv, Types
  <2>2. CASE p \in InUse
    BY <1>1, <2>2 DEF Inv, InReach, Moderate
  <2>3. CASE p = m_tail_pos
    BY <1>1, <2>3 DEF Moderate
  <2>4. QED
    BY <2>1, <2>2, <2>3
<1>4. Shown'
  BY <1>1 DEF Inv, Types, Shown, Tasks, Written
<1>5. Taken' /\ \A t \in Threads : Popping(t)'
  BY <1>1 DEF Inv, Types, Taken, Popping, Written
<1>6. QED
  BY <1>2, <1>3, <1>4, <1>5 DEF Inv

LEMMA PushStoreKeeps == ASSUME Inv, Moderate, PushStore PROVE Inv'
<1> USE DEF PushStore
<1> DEFINE p == m_tail_pos - 1
<1>1. /\ p \in Tasks /\ p \in Nat /\ Size \in Nat \ {0} /\ p % Size \in Slots
      /\ m_head_pos \in Nat /\ m_head_pos <= p /\ m_tail_pos \in Nat
      /\ p = Written /\ m_tail_pos = Written' /\ p < m_tail_pos
  BY TaskQueueAssumption DEF Inv, Types, Written, Tasks, Slots
<1>2. Types'
  BY <1>1 DEF Inv, Types
<1>3. InReach' /\ Taken'
  BY DEF Inv, InReach, InUse, Taken
<1>4. \A t \in Threads : Popping(t)'
  BY <1>1 DEF Inv, Popping
<1>5. Shown'
  <2> SUFFICES ASSUME NEW s \in Slots, m_storage'[s] # None
               PROVE  /\ m_storage'[s] % Size = s /\ m_storage'[s] < m_tail_pos
                      /\ \/ m_storage'[s] >= m_head_pos
                         \/ \E t \in Threads : pc[t] = "clear" /\ head_pos[t] = m_storage'[s]
    BY <1>1 DEF Shown
  <2>1. CASE s = p % Size
    BY <1>1, <2>1 DEF Inv, Types
  <2>2. CASE s # p % Size
    <3>1. m_storage'[s] = m_storage[s] /\ m_storage[s] \in Nat
      BY <1>1, <2>2 DEF Inv, Types, Tasks
    <3>2. /\ m_storage[s] % Size = s /\ m_storage[s] < p
          /\ \/ m_storage[s] >= m_head_pos
             \/ \E t \in Threads : pc[t] = "clear" /\ head_pos[t] = m_storage[s]
      BY <1>1, <2>2, <3>1 DEF Inv, Shown
    <3>3. m_storage[s] < m_tail_pos
      BY <1>1, <3>1, <3>2
    <3>4. QED
      BY <3>1, <3>2, <3>3
  <2>3. QED
    BY <2>1, <2>2
<1>6. QED
  BY <1>2, <1>3, <1>4, <1>5 DEF Inv

\* What a popping thread does besides moving the head leaves the ring alone.
LEMMA LoadHeadKeeps ==
    ASSUME Inv, Moderate, NEW t \in Threads, LoadHead(t) PROVE Inv'
<1> USE DEF LoadHead
<1>1. Types'
  BY DEF Inv, Types, Written
<1>2. InReach'
  BY DEF Inv, Types, InReach, InUse
<1>3. Shown'
  BY DEF Inv, Types, Shown, Written
<1>4. Taken' /\ \A u \in Threads : Popping(u)'
  BY DEF Inv, Types, Taken, Popping, Written
<1>5. QED
  BY <1>1, <1>2, <1>3, <1>4 DEF Inv

LEMMA ReadSlotKeeps ==
    ASSUME Inv, Moderate, NEW t \in Threads, ReadSlot(t) PROVE Inv'
<1> USE DEF ReadSlot
<1>1. /\ head_pos[t] % Size \in Slots /\ task'[t] = m_storage[head_pos[t] % Size]
  BY TaskQueueAssumption DEF Inv, Types, Slots
<1>2. Types'
  BY <1>1 DEF Inv, Types, Written
<1>3. InReach'
  BY DEF Inv, Types, InReach, InUse
<1>4. Shown'
  BY DEF Inv, Types, Shown, Written
<1>5. \A u \in Threads : Popping(u)'
  BY <1>1, HeadShown DEF Inv, Types, Popping, Written
<1>6. Taken'
  BY DEF Inv, Taken
<1>7. QED
  BY <1>2, <1>3, <1>4, <1>5, <1>6 DEF Inv

LEMMA MoveHeadKeeps ==
    ASSUME Inv, Moderate, NEW t \in Threads, MoveHead(t) PROVE Inv'
<1> USE DEF MoveHead
<1>1. /\ task[t] = m_head_pos /\ head_pos[t] = m_head_pos /\ m_head_pos < Written
      /\ m_head_pos \in Tasks /\ m_head_pos \in Nat /\ m_tail_pos \in Nat
      /\ Written \in Int /\ Written <= m_tail_pos /\ Written' = Written
  BY TaskQueueAssumption DEF Inv, Types, Popping, Written, Tasks
<1>2. Types'
  BY <1>1 DEF Inv, Types, Tasks
<1>3. InReach'
  <2>1. \A p \in Nat : p \in InUse' => p \in InUse
    BY <1>1 DEF InUse, Inv, Types
  <2>2. QED
    BY <2>1 DEF Inv, InReach
<1>4. Shown'
  <2> SUFFICES ASSUME NEW s \in Slots, m_storage[s] # None
               PROVE  \/ m_storage[s] >= m_head_pos + 1
                      \/ \E u \in Threads : pc'[u] = "clear" /\ head_pos[u] = m_storage[s]
    BY <1>1 DEF Inv, Shown
  <2>1. /\ m_storage[s] \in Nat /\ pc' = [pc EXCEPT ![t] = "clear"]
        /\ pc \in [Threads -> {"idle", "read", "cas", "clear"}]
    BY DEF Inv, Types, Tasks
  <2>2. CASE m_storage[s] = m_head_pos
    BY <1>1, <2>1, <2>2
  <2>3. CASE m_storage[s] > m_head_pos
    BY <1>1, <2>1, <2>3
  <2>4. CASE m_storage[s] < m_head_pos
    <3>1. PICK u \in Threads : pc[u] = "clear" /\ head_pos[u] = m_storage[s]
      BY <1>1, <2>1, <2>4 DEF Inv, Shown
    <3>2. pc'[u] = "clear"
      BY <2>1, <3>1
    <3>3. QED
      BY <3>1, <3>2
  <2>5. QED
    BY <1>1, <2>1, <2>2, <2>3, <2>4
<1>5. \A u \in Threads : Popping(u)'
  BY <1>1 DEF Inv, Types, Popping
<1>6. Taken'
  BY <1>1 DEF Inv, Types, Taken, Tasks
<1>7. QED
  BY <1>2, <1>3, <1>4, <1>5, <1>6 DEF Inv

LEMMA MissHeadKeeps ==
    ASSUME Inv, Moderate, NEW t \in Threads, MissHead(t) PROVE Inv'
<1> USE DEF MissHead
<1>1. Types'
  BY DEF Inv, Types, Written
<1>2. InReach'
  BY DEF Inv, Types, InReach, InUse
<1>3. Shown'
  BY DEF Inv, Types, Shown, Written
<1>4. Taken' /\ \A u \in Threads : Popping(u)'
  BY DEF Inv, Types, Taken, Popping, Written
<1>5. QED
  BY <1>1, <1>2, <1>3, <1>4 DEF Inv

LEMMA ClearSlotKeeps ==
    ASSUME Inv, Moderate, NEW t \in Threads, ClearSlot(t) PROVE Inv'
<1> USE DEF ClearSlot
<1>1. Types'
  BY DEF Inv, Types, Written
<1>2. InReach'
  BY DEF Inv, Types, InReach, InUse
<1>3. Shown'
  <2> SUFFICES ASSUME NEW s \in Slots, m_storage'[s] # None
               PROVE  /\ m_storage[s] # None /\ m_storage'[s] = m_storage[s]
                      /\ head_pos[t] # m_storage[s]
    BY DEF Inv, Types, Shown, Written
  <2>1. s # head_pos[t] % Size
    BY DEF Inv, Types
  <2>2. QED
    BY <2>1 DEF Inv, Types, Shown
<1>4. Taken' /\ \A u \in Threads : Popping(u)'
  BY DEF Inv, Types, Taken, Popping, Written
<1>5. QED
  BY <1>1, <1>2, <1>3, <1>4 DEF Inv

LEMMA InvStep == ASSUME Moderate PROVE Inv /\ [Next]_vars => Inv'
<1> SUFFICES ASSUME Inv, [Next]_vars PROVE Inv'
  OBVIOUS
<1>1. CASE UNCHANGED vars
  BY <1>1 DEF vars, Inv, Types, InReach, InUse, Shown, Popping, Taken, Written
<1>2. CASE push
  BY <1>2, PushReserveKeeps, PushStoreKeeps DEF push
<1>3. CASE \E t \in Threads : pop(t)
  BY <1>3, LoadHeadKeeps, ReadSlotKeeps, MoveHeadKeeps, MissHeadKeeps, ClearSlotKeeps DEF pop
<1>4. QED
  BY <1>1, <1>2, <1>3 DEF Next

LEMMA InvHolds == ASSUME Moderate PROVE Spec => []Inv
<1>1. Inv /\ [Next]_vars => Inv'
  BY InvStep
<1>2. QED
  BY <1>1, InvInit, PTL DEF Spec

-----------------------------------------------------------------------------
(* What the workers rely on. *)

\* The head never passes the tail, and the slots, the positions and the tasks
\* that push and pop handle stay what they are.
THEOREM TypeCorrect == ASSUME Moderate PROVE Spec => []TypeOK
<1>1. Inv => TypeOK
  BY DEF Inv, Types, TypeOK, Written
<1>2. QED
  BY <1>1, InvHolds, PTL

\* No task is handed to two threads: a pop that reads a slot which another one
\* has still to clear fails to move the head.
THEOREM NoneTwice == ASSUME Moderate PROVE Spec => []TakenOnce
<1>1. Inv => TakenOnce
  BY DEF Inv, Taken, TakenOnce
<1>2. QED
  BY <1>1, InvHolds, PTL

-----------------------------------------------------------------------------
(* The ring implements the queue of TaskQueuePromise. *)

\* n tasks in a row, from task a on.
InRow(a, n) == [i \in 1..n |-> a + i - 1]

LEMMA InRowIsSeq ==
    ASSUME NEW a \in Nat, NEW n \in Nat
    PROVE  /\ InRow(a, n) \in Seq(Nat) /\ Len(InRow(a, n)) = n
           /\ \A i \in 1..n : InRow(a, n)[i] = a + i - 1
<1>1. InRow(a, n) \in [1..n -> Nat]
  BY DEF InRow
<1>2. QED
  BY <1>1 DEF InRow

LEMMA InRowAppend ==
    ASSUME NEW a \in Nat, NEW n \in Nat
    PROVE  InRow(a, n + 1) = Append(InRow(a, n), a + n)
<1> DEFINE s == InRow(a, n + 1)  t == Append(InRow(a, n), a + n)
<1>1. s \in Seq(Nat) /\ Len(s) = n + 1 /\ \A i \in 1..(n + 1) : s[i] = a + i - 1
  BY InRowIsSeq
<1>2. /\ InRow(a, n) \in Seq(Nat) /\ Len(InRow(a, n)) = n
      /\ \A i \in 1..n : InRow(a, n)[i] = a + i - 1
  BY InRowIsSeq
<1>3. /\ t \in Seq(Nat) /\ Len(t) = n + 1
      /\ \A i \in 1..n : t[i] = a + i - 1
      /\ t[n + 1] = a + n
  BY <1>2, AppendProperties
<1>4. \A i \in 1..(n + 1) : s[i] = t[i]
  BY <1>1, <1>3
<1> HIDE DEF s, t
<1>5. s = t
  BY <1>1, <1>3, <1>4, SeqEqual
<1>6. QED
  BY <1>5 DEF s, t

LEMMA InRowTail ==
    ASSUME NEW a \in Nat, NEW n \in Nat
    PROVE  /\ InRow(a, n + 1) # <<>>
           /\ Head(InRow(a, n + 1)) = a
           /\ Tail(InRow(a, n + 1)) = InRow(a + 1, n)
<1> DEFINE s == InRow(a, n + 1)  t == InRow(a + 1, n)
<1>1. s \in Seq(Nat) /\ Len(s) = n + 1 /\ \A i \in 1..(n + 1) : s[i] = a + i - 1
  BY InRowIsSeq
<1>2. t \in Seq(Nat) /\ Len(t) = n /\ \A i \in 1..n : t[i] = a + 1 + i - 1
  BY InRowIsSeq
<1> HIDE DEF s, t
<1>3. s # <<>> /\ Head(s) = a
  BY <1>1, EmptySeq
<1>4. /\ Tail(s) \in Seq(Nat) /\ Len(Tail(s)) = n
      /\ \A i \in 1..n : Tail(s)[i] = s[i + 1]
  BY <1>1, <1>3, HeadTailProperties
<1>5. \A i \in 1..n : Tail(s)[i] = t[i]
  BY <1>1, <1>2, <1>4
<1>6. Tail(s) = t
  BY <1>2, <1>4, <1>5, SeqEqual
<1>7. QED
  BY <1>3, <1>6 DEF s, t

\* The queue that the promise sees.
queue == InRow(m_head_pos, Written - m_head_pos)
given == [t \in Threads |-> IF pc[t] = "clear" THEN task[t] ELSE None]

LEMMA Mapped ==
    /\ Promise!Init <=> queue = <<>> /\ given = [t \in Threads |-> None] /\ Written = 0
    /\ Promise!Push <=> /\ queue' = Append(queue, Written)
                        /\ Written' = Written + 1 /\ UNCHANGED given
    /\ \A t : Promise!Take(t) <=>
            /\ queue # <<>> /\ given[t] = None
            /\ given' = [given EXCEPT ![t] = Head(queue)]
            /\ queue' = Tail(queue) /\ UNCHANGED Written
    /\ \A t : Promise!Return(t) <=>
            /\ given[t] # None /\ given' = [given EXCEPT ![t] = None]
            /\ UNCHANGED <<queue, Written>>
  BY DEF Promise!Init, Promise!Push, Promise!Take, Promise!Return, queue, given, InRow

LEMMA InitKeepsPromise == Init => Promise!Init
<1> SUFFICES ASSUME Init PROVE Promise!Init
  OBVIOUS
<1>1. Written = 0 /\ m_head_pos = 0
  BY DEF Init, Written
<1>2. InRow(0, 0) = <<>>
  BY InRowIsSeq, EmptySeq
<1>3. given = [t \in Threads |-> None]
  BY DEF Init, given
<1>4. QED
  BY <1>1, <1>2, <1>3, Mapped DEF queue

LEMMA StepKeepsPromise ==
    ASSUME Moderate, Inv, Inv', [Next]_vars
    PROVE  Promise!Next \/ UNCHANGED <<queue, given, Written>>
<1>1. CASE UNCHANGED vars
  BY <1>1 DEF vars, queue, given, Written
<1>2. CASE PushReserve
  BY <1>2 DEF PushReserve, queue, given, Written, Inv, Types
<1>3. CASE PushStore
  <2>1. /\ Written' = Written + 1 /\ m_head_pos' = m_head_pos /\ m_head_pos \in Nat
        /\ Written - m_head_pos \in Nat /\ given' = given
        /\ Written' - m_head_pos' = (Written - m_head_pos) + 1
        /\ m_head_pos + (Written - m_head_pos) = Written
    BY <1>3 DEF PushStore, Written, given, Inv, Types
  <2>2. queue' = Append(queue, Written)
    BY <2>1, InRowAppend DEF queue
  <2>3. QED
    BY <2>1, <2>2, Mapped DEF Promise!Next
<1>4. ASSUME NEW t \in Threads, LoadHead(t) \/ ReadSlot(t) \/ MissHead(t)
      PROVE  UNCHANGED <<queue, given, Written>>
  <2>1. UNCHANGED <<m_head_pos, m_tail_pos, pusher>>
    BY <1>4 DEF LoadHead, ReadSlot, MissHead
  <2>2. \A u \in Threads : /\ pc'[u] = "clear" <=> pc[u] = "clear"
                           /\ pc[u] = "clear" => task'[u] = task[u]
    BY <1>4 DEF LoadHead, ReadSlot, MissHead, Inv, Types
  <2>3. QED
    BY <2>1, <2>2 DEF queue, given, Written
<1>5. ASSUME NEW t \in Threads, MoveHead(t)
      PROVE  Promise!Take(t)
  <2>1. /\ task[t] = m_head_pos /\ m_head_pos < Written /\ pc[t] = "cas"
        /\ m_head_pos' = m_head_pos + 1 /\ Written' = Written
        /\ m_head_pos \in Nat /\ Written \in Nat
    BY <1>5 DEF MoveHead, Inv, Popping, Types, Written
  <2>2. PICK n \in Nat : n = Written - m_head_pos - 1
    BY <2>1
  <2>3. queue = InRow(m_head_pos, n + 1) /\ queue' = InRow(m_head_pos + 1, n)
    <3>1. Written - m_head_pos = n + 1 /\ Written' - m_head_pos' = n
      BY <2>1, <2>2
    <3>2. QED
      BY <2>1, <3>1 DEF queue
  <2>4. queue # <<>> /\ Head(queue) = m_head_pos /\ queue' = Tail(queue)
    BY <2>1, <2>2, <2>3, InRowTail
  <2>5. given[t] = None /\ given' = [given EXCEPT ![t] = task[t]]
    BY <1>5, <2>1 DEF MoveHead, given, Inv, Types
  <2>6. QED
    BY <2>1, <2>4, <2>5, Mapped
<1>6. ASSUME NEW t \in Threads, ClearSlot(t)
      PROVE  Promise!Return(t)
  <2>1. UNCHANGED <<queue, Written>>
    BY <1>6 DEF ClearSlot, queue, Written
  <2>2. /\ pc[t] = "clear" /\ pc' = [pc EXCEPT ![t] = "idle"] /\ task' = task
        /\ pc \in [Threads -> {"idle", "read", "cas", "clear"}]
    BY <1>6 DEF ClearSlot, Inv, Types
  <2>3. task[t] # None
    BY <1>6, <2>2, TaskQueueAssumption DEF Inv, Types, Popping
  <2>4. given[t] # None /\ given' = [given EXCEPT ![t] = None]
    BY <2>2, <2>3 DEF given
  <2>5. QED
    BY <2>1, <2>4, Mapped
<1>7. QED
  BY <1>1, <1>2, <1>3, <1>4, <1>5, <1>6 DEF Next, push, pop, Promise!Next

\* The ring, with its accesses interleaved as they may, is a queue that every
\* push and every pop looks at atomically.
THEOREM Implements == ASSUME Moderate PROVE Spec => KeepsPromise
<1>1. Inv /\ Inv' /\ [Next]_vars => [Promise!Next]_<<queue, given, Written>>
  BY StepKeepsPromise
<1>2. <<queue, given, Written>> = <<[i \in 1..(Written - m_head_pos) |-> m_head_pos + i - 1],
                                  given, Written>>
  BY DEF queue, InRow
<1>3. QED
  BY <1>1, <1>2, InitKeepsPromise, InvHolds, PTL DEF Spec, KeepsPromise, Promise!Spec, queue, given, InRow
=============================================================================
