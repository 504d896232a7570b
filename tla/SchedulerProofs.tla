--------------------------- MODULE SchedulerProofs ---------------------------
(***************************************************************************)
(* Proofs about Scheduler, for any objects, modes, intervals and bounds.   *)
(***************************************************************************)
EXTENDS Scheduler, SequenceTheorems, FiniteSetTheorems, WellFoundedInduction, TLAPS

\* What is left of a queue without its head and one later entry.
LEMMA PairRemoved ==
    ASSUME NEW S, NEW q \in Seq(S), NEW k \in 2..Len(q)
    PROVE  /\ Tail(RemoveAt(q, k)) \in Seq(S)
           /\ Len(Tail(RemoveAt(q, k))) = Len(q) - 2
           /\ \A i \in 1..(Len(q) - 2) :
                 Tail(RemoveAt(q, k))[i] = q[IF i + 1 < k THEN i + 1 ELSE i + 2]
<1>0. /\ Len(q) \in Nat /\ \A i \in 1..Len(q) : q[i] \in S
      /\ k \in Int /\ 2 <= k /\ k <= Len(q)
  BY LenProperties, ElementOfSeq
<1>1. PICK a \in Seq(S) : /\ a = SubSeq(q, 1, k - 1) /\ Len(a) = k - 1
                          /\ \A i \in 1..(k - 1) : a[i] = q[i]
  <2>1. \A i \in 1..(k - 1) : q[i] \in S
    BY <1>0
  <2>2. /\ SubSeq(q, 1, k - 1) \in Seq(S)
        /\ Len(SubSeq(q, 1, k - 1)) = IF 1 <= k - 1 THEN k - 1 - 1 + 1 ELSE 0
        /\ \A i \in 1..(k - 1 - 1 + 1) : SubSeq(q, 1, k - 1)[i] = q[1 + i - 1]
    BY <1>0, <2>1, SubSeqProperties
  <2>3. /\ Len(SubSeq(q, 1, k - 1)) = k - 1
        /\ \A i \in 1..(k - 1) : SubSeq(q, 1, k - 1)[i] = q[i]
    BY <1>0, <2>2
  <2>4. WITNESS SubSeq(q, 1, k - 1) \in Seq(S)
  <2>5. QED
    BY <2>3
<1>2. PICK b \in Seq(S) : /\ b = SubSeq(q, k + 1, Len(q)) /\ Len(b) = Len(q) - k
                          /\ \A i \in 1..(Len(q) - k) : b[i] = q[k + i]
  <2>1. \A i \in (k + 1)..Len(q) : q[i] \in S
    BY <1>0
  <2>2. /\ SubSeq(q, k + 1, Len(q)) \in Seq(S)
        /\ Len(SubSeq(q, k + 1, Len(q)))
              = IF k + 1 <= Len(q) THEN Len(q) - (k + 1) + 1 ELSE 0
        /\ \A i \in 1..(Len(q) - (k + 1) + 1) :
              SubSeq(q, k + 1, Len(q))[i] = q[k + 1 + i - 1]
    BY <1>0, <2>1, SubSeqProperties
  <2>3. /\ Len(SubSeq(q, k + 1, Len(q))) = Len(q) - k
        /\ \A i \in 1..(Len(q) - k) : SubSeq(q, k + 1, Len(q))[i] = q[k + i]
    BY <1>0, <2>2
  <2>4. WITNESS SubSeq(q, k + 1, Len(q)) \in Seq(S)
  <2>5. QED
    BY <2>3
<1>3. PICK s \in Seq(S) : /\ s = a \o b /\ Len(s) = Len(q) - 1
                          /\ \A i \in 1..(Len(q) - 1) :
                                s[i] = IF i < k THEN a[i] ELSE b[i - (k - 1)]
  <2>1. /\ a \o b \in Seq(S) /\ Len(a \o b) = Len(a) + Len(b)
        /\ \A i \in 1..(Len(a) + Len(b)) :
              (a \o b)[i] = IF i <= Len(a) THEN a[i] ELSE b[i - Len(a)]
    BY ConcatProperties
  <2>2. /\ Len(a \o b) = Len(q) - 1
        /\ \A i \in 1..(Len(q) - 1) :
              (a \o b)[i] = IF i < k THEN a[i] ELSE b[i - (k - 1)]
    BY <1>0, <1>1, <1>2, <2>1
  <2>3. WITNESS a \o b \in Seq(S)
  <2>4. QED
    BY <2>2
<1>4. RemoveAt(q, k) = s
  BY <1>1, <1>2, <1>3 DEF RemoveAt
<1>5. s # <<>> /\ Tail(s) \in Seq(S) /\ Len(Tail(s)) = Len(q) - 2
      /\ \A i \in 1..(Len(q) - 2) : Tail(s)[i] = s[i + 1]
  BY <1>3, HeadTailProperties
<1>6. ASSUME NEW i \in 1..(Len(q) - 2)
      PROVE  s[i + 1] = q[IF i + 1 < k THEN i + 1 ELSE i + 2]
  BY <1>1, <1>2, <1>3
<1>7. QED
  BY <1>4, <1>5, <1>6

-----------------------------------------------------------------------------
(* Type correctness, with what the two loops know when a callback returns. *)

Walking == phase \in {"rt", "rtCall"}

\* The slots of the vector, and those the realtime loop has still to read,
\* hold objects; an update that returns was one of an object in range.
LoopsInRange ==
    /\ \A i \in 1..rtSize : ItemsRT[i] \in Objects
    /\ Walking => \A i \in 1..rtEnd : ItemsRT[i] \in Objects
    /\ phase = "rtCall" => rtPos <= rtEnd
    /\ phase = "ntCall" => running \in Objects

TypeInv == TypeOK /\ LoopsInRange

LEMMA IterWraps ==
    ASSUME TypeOK
    PROVE  (iter + 1) % BudgetEvery \in 0..(BudgetEvery - 1)
  BY SchedulerAssumption DEF TypeOK

LEMMA EraseType ==
    ASSUME TypeInv, phase # "rt", NEW o \in Objects, EraseRT(o)
    PROVE  /\ ItemsRT' \in [1..RTCapacity -> Objects \cup {None}]
           /\ rtSize' \in 0..RTCapacity
           /\ \A i \in 1..rtSize' : ItemsRT'[i] \in Objects
           /\ Walking => \A i \in 1..rtEnd : ItemsRT'[i] \in Objects
<1>1. PICK at \in SlotsOf(o) :
          /\ ItemsRT' = [i \in 1..RTCapacity |->
                IF i = rtSize THEN (IF phase = "rtCall" THEN ItemsRT[i] ELSE None)
                ELSE IF at <= i /\ i < rtSize THEN ItemsRT[i + 1] ELSE ItemsRT[i]]
          /\ rtSize' = rtSize - 1
  BY DEF EraseRT
<1>2. at \in 1..rtSize /\ rtSize \in 0..RTCapacity /\ RTCapacity \in Nat
  BY SchedulerAssumption DEF TypeInv, TypeOK, SlotsOf
<1>3. /\ ItemsRT \in [1..RTCapacity -> Objects \cup {None}]
      /\ \A i \in 1..rtSize : ItemsRT[i] \in Objects
  BY DEF TypeInv, TypeOK, LoopsInRange
<1>4. ASSUME NEW i \in 1..RTCapacity
      PROVE  (IF i = rtSize THEN (IF phase = "rtCall" THEN ItemsRT[i] ELSE None)
              ELSE IF at <= i /\ i < rtSize THEN ItemsRT[i + 1] ELSE ItemsRT[i])
                 \in Objects \cup {None}
  BY <1>2, <1>3
<1>5. ASSUME NEW i \in 1..rtSize'
      PROVE  ItemsRT'[i] \in Objects
  BY <1>1, <1>2, <1>3
<1>6. ASSUME Walking, NEW i \in 1..rtEnd
      PROVE  ItemsRT'[i] \in Objects
  <2>1. phase = "rtCall" /\ ItemsRT[i] \in Objects /\ i \in 1..RTCapacity
    BY <1>6, <1>2 DEF TypeInv, TypeOK, LoopsInRange, Walking
  <2>2. QED
    BY <1>1, <1>2, <1>3, <2>1
<1>7. ItemsRT' \in [1..RTCapacity -> Objects \cup {None}]
  BY <1>1, <1>4
<1>8. rtSize' \in 0..RTCapacity
  BY <1>1, <1>2
<1>9. QED
  BY <1>5, <1>6, <1>7, <1>8

LEMMA NullItemType ==
    ASSUME TypeOK, NEW o \in Objects, NullItem(o)
    PROVE  /\ Items' \subseteq Objects
           /\ nulls' \in [Deadlines -> Nat]
           /\ deadline' \in [Objects -> Deadlines]
  BY SchedulerAssumption DEF TypeOK, NullItem, Deadlines

LEMMA internal_UnregisterType ==
    ASSUME TypeInv, phase # "rt",
           NEW o \in Objects, NEW RT \in BOOLEAN, internal_Unregister(o, RT)
    PROVE  /\ ItemsRT' \in [1..RTCapacity -> Objects \cup {None}]
           /\ rtSize' \in 0..RTCapacity
           /\ Items' \subseteq Objects
           /\ nulls' \in [Deadlines -> Nat]
           /\ deadline' \in [Objects -> Deadlines]
           /\ m_current_step_obj' \in Objects \cup {None}
           /\ \A i \in 1..rtSize' : ItemsRT'[i] \in Objects
           /\ Walking => \A i \in 1..rtEnd : ItemsRT'[i] \in Objects
<1>1. CASE RT /\ EraseRT(o) /\ UNCHANGED <<Items, deadline, nulls, m_current_step_obj>>
  BY <1>1, EraseType DEF TypeInv, TypeOK
<1>2. CASE NullItem(o) /\ UNCHANGED <<ItemsRT, rtSize, m_current_step_obj>>
  BY <1>2, NullItemType DEF TypeInv, TypeOK, LoopsInRange
<1>3. CASE m_current_step_obj' = None /\ UNCHANGED lists
  BY <1>3 DEF TypeInv, TypeOK, LoopsInRange, lists
<1>4. QED
  BY <1>1, <1>2, <1>3 DEF internal_Unregister

LEMMA UnregisterNowType ==
    ASSUME TypeInv, phase # "rt", NEW o \in Objects, UnregisterNow(o)
    PROVE  /\ ItemsRT' \in [1..RTCapacity -> Objects \cup {None}]
           /\ rtSize' \in 0..RTCapacity
           /\ Items' \subseteq Objects
           /\ nulls' \in [Deadlines -> Nat]
           /\ deadline' \in [Objects -> Deadlines]
           /\ m_current_step_obj' \in Objects \cup {None}
           /\ \A i \in 1..rtSize' : ItemsRT'[i] \in Objects
           /\ Walking => \A i \in 1..rtEnd : ItemsRT'[i] \in Objects
           /\ Registration' \in Seq(ItemReg)
<1>1. b_RT[o] \in BOOLEAN
  BY DEF TypeInv, TypeOK
<1>2. CASE internal_Unregister(o, b_RT[o]) /\ UNCHANGED Registration
  BY <1>1, <1>2, internal_UnregisterType DEF TypeInv, TypeOK
<1>3. CASE /\ Registration' = Append(Registration, [OP |-> FALSE, RT |-> b_RT[o], Object |-> o])
           /\ UNCHANGED <<lists, m_current_step_obj>>
  <2>1. [OP |-> FALSE, RT |-> b_RT[o], Object |-> o] \in ItemReg
    BY <1>1 DEF ItemReg
  <2>2. QED
    BY <1>3, <2>1, AppendProperties DEF TypeInv, TypeOK, LoopsInRange, lists
<1>4. QED
  BY <1>2, <1>3 DEF UnregisterNow

LEMMA ClientType ==
    ASSUME TypeInv, NEW o \in Objects, Client(o)
    PROVE  TypeInv'
<1> USE DEF TypeInv, TypeOK, LoopsInRange, Walking, control, clients, lists
<1>1. CASE Create(o)
  BY <1>1 DEF Create
<1>2. ASSUME NEW RT \in BOOLEAN, Register(o, RT)
      PROVE  TypeInv'
  <2>1. [OP |-> TRUE, RT |-> RT, Object |-> o] \in ItemReg
    BY DEF ItemReg
  <2>2. Registration' \in Seq(ItemReg)
    BY <1>2, <2>1, AppendProperties DEF Register
  <2>3. QED
    BY <1>2, <2>2 DEF Register
<1>3. CASE SetDestroy(o)
  BY <1>3 DEF SetDestroy
<1>4. CASE Unregister(o)
  BY <1>4, UnregisterNowType DEF Unregister, ClientTurn
<1>5. CASE Delete(o)
  <2>1. CASE UnregisterNow(o)
    BY <1>5, <2>1, UnregisterNowType DEF Delete, ClientTurn
  <2>2. CASE UNCHANGED <<lists, Registration, m_current_step_obj>>
    BY <1>5, <2>2 DEF Delete
  <2>3. QED
    BY <1>5, <2>1, <2>2 DEF Delete
<1>6. QED
  BY <1>1, <1>2, <1>3, <1>4, <1>5 DEF Client

LEMMA RequestType ==
    ASSUME TypeOK, Draining
    PROVE  /\ Request \in ItemReg /\ Request = Registration[1]
           /\ Tail(Registration) \in Seq(ItemReg)
  BY HeadTailProperties DEF TypeOK, Draining, Request

LEMMA DrainType ==
    ASSUME TypeInv, DrainPair \/ DrainRegister \/ DrainUnregister \/ DrainDone
    PROVE  TypeInv'
<1> USE DEF TypeInv, TypeOK, LoopsInRange, Walking, control, clients, lists
<1>1. CASE DrainPair
  <2>1. PICK pair \in 2..Len(Registration) : Registration' = Tail(RemoveAt(Registration, pair))
    BY <1>1 DEF DrainPair, LaterUnregisters
  <2>2. Registration' \in Seq(ItemReg)
    BY <2>1, PairRemoved
  <2>3. QED
    BY <1>1, <2>2 DEF DrainPair
<1>2. CASE DrainRegister
  <2>1. Draining /\ Request \in ItemReg /\ Registration' \in Seq(ItemReg)
    BY <1>2, RequestType DEF DrainRegister
  <2>2. Request.Object \in Objects /\ Request.RT \in BOOLEAN
    BY <2>1 DEF ItemReg
  <2>3. internal_Register(Request.Object, Request.RT)
    BY <1>2 DEF DrainRegister
  <2>4. 0 \in Deadlines
    BY SchedulerAssumption DEF Deadlines
  <2>5. /\ b_RT' \in [Objects -> BOOLEAN]
        /\ ItemsRT' \in [1..RTCapacity -> Objects \cup {None}]
        /\ rtSize' \in 0..RTCapacity
        /\ Items' \subseteq Objects
        /\ deadline' \in [Objects -> Deadlines]
        /\ nulls' \in [Deadlines -> Nat]
        /\ \A i \in 1..rtSize' : ItemsRT'[i] \in Objects
    <3>1. CASE Request.RT
      <4>1. rtSize + 1 \in 1..RTCapacity
        BY <2>3, <3>1, SchedulerAssumption DEF internal_Register
      <4>2. QED
        <5>1. ItemsRT' = [ItemsRT EXCEPT ![rtSize + 1] = Request.Object] /\ rtSize' = rtSize + 1
          BY <2>3, <3>1 DEF internal_Register
        <5>2. ItemsRT' \in [1..RTCapacity -> Objects \cup {None}] /\ rtSize' \in 0..RTCapacity
          BY <2>2, <4>1, <5>1, SchedulerAssumption
        <5>3. \A i \in 1..rtSize' : ItemsRT'[i] \in Objects
          BY <2>2, <4>1, <5>1
        <5>4. QED
          BY <2>2, <2>3, <3>1, <5>2, <5>3 DEF internal_Register
    <3>2. CASE ~Request.RT
      <4>1. deadline' \in [Objects -> Deadlines]
        BY <2>2, <2>3, <2>4, <3>2 DEF internal_Register
      <4>2. QED
        BY <2>2, <2>3, <3>2, <4>1 DEF internal_Register
    <3>3. QED
      BY <3>1, <3>2
  <2>6. QED
    BY <1>2, <2>1, <2>5 DEF DrainRegister, Draining
<1>3. CASE DrainUnregister
  <2>1. Draining /\ Request \in ItemReg /\ Registration' \in Seq(ItemReg)
    BY <1>3, RequestType DEF DrainUnregister
  <2>2. Request.Object \in Objects /\ Request.RT \in BOOLEAN
    BY <2>1 DEF ItemReg
  <2>3. CASE internal_Unregister(Request.Object, Request.RT)
    BY <1>3, <2>1, <2>2, <2>3, internal_UnregisterType DEF DrainUnregister, Draining
  <2>4. CASE UNCHANGED <<lists, m_current_step_obj>>
    BY <1>3, <2>1, <2>4 DEF DrainUnregister
  <2>5. QED
    BY <1>3, <2>3, <2>4 DEF DrainUnregister
<1>4. CASE DrainDone
  BY <1>4, SchedulerAssumption DEF DrainDone
<1>5. QED
  BY <1>1, <1>2, <1>3, <1>4

LEMMA UpdateType ==
    ASSUME TypeInv,
           \/ NewFrame \/ Update \/ RTSkip \/ RTCall \/ RTReturn \/ RTDone \/ PopNull
           \/ (\E o \in Objects : PopUnneeded(o) \/ NTCall(o))
           \/ NTReturnGone \/ NTReturn \/ PushProcessed
    PROVE  TypeInv'
<1> USE SchedulerAssumption DEF TypeInv, TypeOK, LoopsInRange, Walking, control, clients, lists, Deadlines
<1>1. CASE NewFrame
  <2>1. deadline' \in [Objects -> Deadlines]
    <3>1. ASSUME NEW o \in Objects
          PROVE  (IF o \in Items THEN deadline[o] - 1 ELSE deadline[o]) \in Deadlines
      <4>1. deadline[o] \in (-MaxLag)..MaxInterval
        OBVIOUS
      <4>2. o \in Items => deadline[o] > -MaxLag
        BY <1>1 DEF NewFrame
      <4>3. QED
        BY <4>1, <4>2
    <3>2. QED
      BY <1>1, <3>1 DEF NewFrame
  <2>2. nulls' \in [Deadlines -> Nat]
    BY <1>1 DEF NewFrame
  <2>3. /\ UNCHANGED <<clients, ItemsRT, rtSize, Items, ItemsProcessed, Registration,
                      m_current_step_obj, phase, running, rtPos, rtEnd, iter>>
        /\ passes' = 0 /\ startframe' = {}
    BY <1>1 DEF NewFrame
  <2>4. LoopsInRange'
    BY <2>3
  <2>5. passes' \in 0..MaxPasses /\ startframe' \subseteq Objects
    BY <2>3
  <2>6. TypeOK'
    BY <2>1, <2>2, <2>3, <2>5
  <2>7. QED
    BY <2>4, <2>6
<1>2. CASE Update
  <2>1. passes' \in 0..MaxPasses
    BY <1>2 DEF Update
  <2>2. QED
    BY <1>2, <2>1 DEF Update
<1>3. CASE RTSkip
  <2>1. rtPos' \in 1..(RTCapacity + 1)
    BY <1>3 DEF RTSkip
  <2>2. QED
    BY <1>3, <2>1 DEF RTSkip
<1>4. CASE RTCall
  <2>1. rtPos <= rtEnd /\ running' = ItemsRT[rtPos] /\ startframe' = startframe \cup {running'}
    BY <1>4 DEF RTCall
  <2>2. ItemsRT[rtPos] \in Objects
    BY <1>4, <2>1 DEF RTCall
  <2>3. QED
    BY <1>4, <2>1, <2>2 DEF RTCall
<1>5. CASE RTReturn
  <2>1. rtPos \in 1..RTCapacity
    BY <1>5 DEF RTReturn
  <2>2. rtPos' \in 1..(RTCapacity + 1)
    BY <1>5, <2>1 DEF RTReturn
  <2>3. QED
    BY <1>5, <2>2 DEF RTReturn
<1>6. CASE RTDone
  BY <1>6 DEF RTDone
<1>7. CASE PopNull
  <2>1. nulls' \in [Deadlines -> Nat]
    BY <1>7 DEF PopNull
  <2>2. QED
    BY <1>7, <2>1, IterWraps DEF PopNull
<1>8. ASSUME NEW o \in Objects, PopUnneeded(o) \/ NTCall(o)
      PROVE  TypeInv'
  <2>0. PopItem(o) /\ 0 \in Deadlines
    BY <1>8 DEF PopUnneeded, NTCall
  <2>1. deadline' \in [Objects -> Deadlines] /\ Items' \subseteq Objects
    BY <2>0 DEF PopItem
  <2>2. CASE PopUnneeded(o)
    BY <2>1, <2>2, IterWraps DEF PopUnneeded
  <2>3. CASE NTCall(o)
    BY <2>1, <2>3 DEF NTCall
  <2>4. QED
    BY <1>8, <2>2, <2>3
<1>9. CASE NTReturnGone
  BY <1>9, IterWraps DEF NTReturnGone
<1>10. CASE NTReturn
  <2>1. deadline' \in [Objects -> Deadlines]
    BY <1>10 DEF NTReturn
  <2>2. ItemsProcessed' \subseteq Objects
    BY <1>10 DEF NTReturn
  <2>3. QED
    BY <1>10, <2>1, <2>2, IterWraps DEF NTReturn
<1>11. CASE PushProcessed
  BY <1>11 DEF PushProcessed
<1>12. QED
  BY <1>1, <1>2, <1>3, <1>4, <1>5, <1>6, <1>7, <1>8, <1>9, <1>10, <1>11

LEMMA TypeStep == TypeInv /\ [Next]_vars => TypeInv'
<1> SUFFICES ASSUME TypeInv, [Next]_vars
             PROVE  TypeInv'
  OBVIOUS
<1>1. CASE UNCHANGED vars
  BY <1>1 DEF vars, control, clients, lists, TypeInv, TypeOK, LoopsInRange, Walking
<1>2. CASE Engine
  BY <1>2, DrainType, UpdateType DEF Engine
<1>3. CASE \E o \in Objects : Client(o)
  BY <1>3, ClientType
<1>4. QED
  BY <1>1, <1>2, <1>3 DEF Next

\* Every variable keeps its type: in particular both loops stay inside the
\* slots of ItemsRT whatever the callbacks erase, and a returned object is one.
THEOREM TypeCorrect == Spec => []TypeOK
<1>1. Init => TypeInv
  BY SchedulerAssumption, EmptySeq
     DEF Init, TypeInv, TypeOK, LoopsInRange, Walking, ItemReg, Deadlines
<1>2. TypeInv => TypeOK
  BY DEF TypeInv
<1>3. QED
  BY <1>1, <1>2, TypeStep, PTL DEF Spec

-----------------------------------------------------------------------------
(* The inductive invariant.  An object is in one place at most (placement); *)
(* what the queue says of it agrees with its client and with the lists      *)
(* (queue); and while Update walks the lists, whatever they hold has no     *)
(* entry in the queue, so that the walk sees registered objects only.       *)

InItemsRT(o) == SlotsOf(o) # {}

\* No entry of the queue names o.
Quiet(o) == \A k \in 1..Len(Registration) : Registration[k].Object # o

\* The entry k is the first, or the last, of its object in the queue q.
IsFirst(q, k) == \A m \in 1..(k - 1) : q[m].Object # q[k].Object
IsLast(q, k) == \A m \in (k + 1)..Len(q) : q[m].Object # q[k].Object

\* After a registration the next entry of its object, if any, takes it back.
Alternates(q) ==
    \A k \in 1..Len(q) :
        q[k].OP /\ ~IsLast(q, k) =>
            \E j \in (k + 1)..Len(q) :
                /\ q[j].Object = q[k].Object /\ ~q[j].OP
                /\ \A m \in (k + 1)..(j - 1) : q[m].Object # q[k].Object

SlotsDistinct ==
    \A i \in 1..rtSize : \A j \in 1..rtSize : ItemsRT[i] = ItemsRT[j] => i = j

ControlInv ==
    /\ Walking => rtEnd = rtSize
    /\ m_current_step_obj # None => phase = "ntCall" /\ m_current_step_obj = running
    /\ ItemsProcessed # {} => phase \in {"nt", "ntCall", "push"}
    /\ SlotsDistinct

InOnePlace(o) ==
    /\ InItemsRT(o) => o \notin Items \cup ItemsProcessed
    /\ o \in Items => o \notin ItemsProcessed
    /\ m_current_step_obj = o => ~InLists(o)

\* With nothing queued for it, an object is listed as its client believes.
Agrees(o) ==
    Quiet(o) =>
        /\ Listed(o) => o \in RegisteredClients /\ (b_RT[o] <=> InItemsRT(o))
        /\ client[o] = "in" => Listed(o)

\* What the two loops and the current update can reach has nothing queued.
ReachedIsQuiet(o) ==
    m_processing_now /\ (InItemsRT(o) \/ o \in Items \/ m_current_step_obj = o) => Quiet(o)

PlaceInv == \A o \in Objects : InOnePlace(o) /\ Agrees(o) /\ ReachedIsQuiet(o)

AllListed == {o \in Objects : Listed(o)}
AllRealtime == {o \in Objects : InItemsRT(o)}

FirstInv ==
    \A k \in 1..Len(Registration) :
        IsFirst(Registration, k) /\ Registration[k].Object \in AllListed =>
            ~Registration[k].OP /\ (Registration[k].RT <=> Registration[k].Object \in AllRealtime)

LastInv ==
    \A k \in 1..Len(Registration) :
        IsLast(Registration, k) =>
            /\ Registration[k].OP <=> Registration[k].Object \in RegisteredClients
            /\ Registration[k].OP => b_RT[Registration[k].Object] = Registration[k].RT

Inv == TypeInv /\ ControlInv /\ PlaceInv /\ FirstInv /\ LastInv /\ Alternates(Registration)

-----------------------------------------------------------------------------
(* The queue: what is left of its order when entries are taken off. *)

\* r is what is left of the queue q when the request at its head was handled:
\* its entries keep their order, and lose at most predecessors of that object.
Follows(r, q) ==
    /\ Alternates(r)
    /\ \A k \in 1..Len(r) :
          \E j \in 2..Len(q) :
              /\ r[k] = q[j]
              /\ IsLast(r, k) => IsLast(q, j)
              /\ IsFirst(r, k) => IsFirst(q, j) \/ q[j].Object = q[1].Object

LEMMA TailFollows ==
    ASSUME NEW q \in Seq(ItemReg), q # <<>>, Alternates(q)
    PROVE  /\ Follows(Tail(q), q)
           /\ \A j \in 2..Len(q) : \E k \in 1..Len(Tail(q)) : Tail(q)[k] = q[j]
<1>1. PICK r \in Seq(ItemReg) : r = Tail(q)
  BY HeadTailProperties
<1>2. /\ Len(q) \in Nat \ {0} /\ Len(r) = Len(q) - 1
      /\ \A k \in 1..Len(r) : r[k] = q[k + 1]
  BY <1>1, EmptySeq, HeadTailProperties
<1>3. ASSUME NEW k \in 1..Len(r)
      PROVE  /\ k + 1 \in 2..Len(q) /\ r[k] = q[k + 1]
             /\ IsLast(r, k) <=> IsLast(q, k + 1)
             /\ IsFirst(r, k) => IsFirst(q, k + 1) \/ q[k + 1].Object = q[1].Object
  <2>1. k + 1 \in 2..Len(q) /\ r[k] = q[k + 1]
    BY <1>2
  <2>2. ASSUME IsLast(r, k)
        PROVE  IsLast(q, k + 1)
    <3>1. ASSUME NEW m \in (k + 2)..Len(q)
          PROVE  q[m].Object # q[k + 1].Object
      <4>1. m - 1 \in (k + 1)..Len(r) /\ r[m - 1] = q[m]
        BY <1>2
      <4>2. QED
        BY <2>1, <2>2, <4>1 DEF IsLast
    <3>2. QED
      BY <3>1 DEF IsLast
  <2>3. ASSUME IsLast(q, k + 1)
        PROVE  IsLast(r, k)
    <3>1. ASSUME NEW m \in (k + 1)..Len(r)
          PROVE  r[m].Object # r[k].Object
      <4>1. m + 1 \in (k + 2)..Len(q) /\ r[m] = q[m + 1]
        BY <1>2
      <4>2. QED
        BY <2>1, <2>3, <4>1 DEF IsLast
    <3>2. QED
      BY <3>1 DEF IsLast
  <2>4. ASSUME IsFirst(r, k), q[k + 1].Object # q[1].Object
        PROVE  IsFirst(q, k + 1)
    <3>1. ASSUME NEW m \in 1..k
          PROVE  q[m].Object # q[k + 1].Object
      <4>1. CASE m = 1
        BY <2>4, <4>1
      <4>2. CASE m # 1
        <5>1. m - 1 \in 1..(k - 1) /\ r[m - 1] = q[m]
          BY <1>2, <4>2
        <5>2. QED
          BY <2>1, <2>4, <5>1 DEF IsFirst
      <4>3. QED
        BY <4>1, <4>2
    <3>2. QED
      BY <3>1 DEF IsFirst
  <2>5. QED
    BY <2>1, <2>2, <2>3, <2>4
<1>4. Alternates(r)
  <2>1. ASSUME NEW k \in 1..Len(r), r[k].OP, ~IsLast(r, k)
        PROVE  \E j \in (k + 1)..Len(r) :
                   /\ r[j].Object = r[k].Object /\ ~r[j].OP
                   /\ \A m \in (k + 1)..(j - 1) : r[m].Object # r[k].Object
    <3>1. k + 1 \in 1..Len(q) /\ q[k + 1].OP /\ ~IsLast(q, k + 1) /\ r[k] = q[k + 1]
      BY <1>3, <2>1
    <3>2. PICK i \in (k + 2)..Len(q) :
              /\ q[i].Object = q[k + 1].Object /\ ~q[i].OP
              /\ \A m \in (k + 2)..(i - 1) : q[m].Object # q[k + 1].Object
      BY <3>1 DEF Alternates
    <3>3. i - 1 \in (k + 1)..Len(r) /\ r[i - 1] = q[i]
      BY <1>2
    <3>4. ASSUME NEW m \in (k + 1)..(i - 1 - 1)
          PROVE  r[m].Object # r[k].Object
      <4>1. m + 1 \in (k + 2)..(i - 1) /\ r[m] = q[m + 1]
        BY <1>2
      <4>2. QED
        BY <3>1, <3>2, <4>1
    <3>5. QED
      BY <3>1, <3>2, <3>3, <3>4
  <2>2. QED
    BY <2>1 DEF Alternates
<1>5. ASSUME NEW j \in 2..Len(q)
      PROVE  \E k \in 1..Len(r) : r[k] = q[j]
  <2>1. j - 1 \in 1..Len(r) /\ r[j - 1] = q[j]
    BY <1>2
  <2>2. QED
    BY <2>1
<1>6. QED
  BY <1>1, <1>3, <1>4, <1>5 DEF Follows

\* The pair of entries that cancel each other: the registration at the head
\* and the first unregistration of its object, which nothing lies between.
LEMMA PairFollows ==
    ASSUME NEW q \in Seq(ItemReg), NEW p \in 2..Len(q), Alternates(q),
           q[1].OP, ~q[p].OP, q[p].Object = q[1].Object,
           \A m \in 2..Len(q) : ~q[m].OP /\ q[m].Object = q[1].Object => p <= m
    PROVE  /\ Follows(Tail(RemoveAt(q, p)), q)
           /\ \A j \in 2..Len(q) : j = p \/ \E k \in 1..Len(Tail(RemoveAt(q, p))) :
                                            Tail(RemoveAt(q, p))[k] = q[j]
<1> DEFINE at(k) == IF k + 1 < p THEN k + 1 ELSE k + 2
<1>1. PICK r \in Seq(ItemReg) : r = Tail(RemoveAt(q, p))
  BY PairRemoved
<1>2. /\ Len(q) \in Nat /\ Len(r) = Len(q) - 2 /\ Len(r) \in Nat
      /\ \A k \in 1..Len(r) : r[k] = q[at(k)] /\ at(k) \in 2..Len(q) /\ at(k) # p
      /\ \A k \in 1..Len(r) : \A m \in 1..Len(r) : k < m <=> at(k) < at(m)
      /\ p \in Int /\ 2 <= p /\ p <= Len(q)
  <2>1. Len(q) \in Nat /\ Len(r) \in Nat
    BY LenProperties
  <2>2. Len(r) = Len(q) - 2 /\ \A k \in 1..(Len(q) - 2) : r[k] = q[at(k)]
    BY <1>1, PairRemoved
  <2>3. QED
    BY <2>1, <2>2
<1>3. ASSUME NEW j \in 2..Len(q), j # p
      PROVE  \E k \in 1..Len(r) : at(k) = j /\ r[k] = q[j]
  <2>1. CASE j < p
    <3>1. j - 1 \in 1..Len(r) /\ at(j - 1) = j
      BY <1>2, <2>1
    <3>2. QED
      BY <1>2, <3>1
  <2>2. CASE p < j
    <3>1. j - 2 \in 1..Len(r) /\ at(j - 2) = j
      BY <1>2, <2>2
    <3>2. QED
      BY <1>2, <3>1
  <2>3. QED
    BY <1>2, <1>3, <2>1, <2>2
<1>4. \A m \in 2..(p - 1) : q[m].Object # q[1].Object
  <2>1. ~IsLast(q, 1)
    BY <1>2 DEF IsLast
  <2>2. PICK j \in 2..Len(q) : /\ q[j].Object = q[1].Object /\ ~q[j].OP
                               /\ \A m \in 2..(j - 1) : q[m].Object # q[1].Object
    <3>1. 1 \in 1..Len(q) /\ 1 + 1 = 2
      BY <1>2
    <3>2. QED
      BY <2>1, <3>1 DEF Alternates
  <2>3. p <= j
    BY <2>2
  <2>4. QED
    BY <1>2, <2>2, <2>3
<1>5. ASSUME NEW k \in 1..Len(r)
      PROVE  /\ IsLast(r, k) => IsLast(q, at(k))
             /\ IsFirst(r, k) => IsFirst(q, at(k)) \/ q[at(k)].Object = q[1].Object
  <2>0. r[k] = q[at(k)] /\ at(k) \in 2..Len(q)
    BY <1>2
  <2>1. ASSUME IsLast(r, k), NEW j \in (at(k) + 1)..Len(q)
        PROVE  q[j].Object # q[at(k)].Object
    <3>1. CASE j = p
      <4>1. at(k) \in 2..(p - 1) /\ q[at(k)].Object # q[1].Object
        BY <1>2, <1>4, <3>1, <2>0
      <4>2. QED
        BY <3>1, <4>1
    <3>2. CASE j # p
      <4>1. j \in 2..Len(q)
        BY <2>0, <1>2
      <4>2. PICK m \in 1..Len(r) : at(m) = j /\ r[m] = q[j]
        BY <1>3, <3>2, <4>1
      <4>3. k < m
        BY <1>2, <4>2, <2>0
      <4>4. m \in (k + 1)..Len(r)
        BY <4>3, <1>2
      <4>5. QED
        BY <2>0, <2>1, <4>2, <4>4 DEF IsLast
    <3>3. QED
      BY <3>1, <3>2
  <2>2. ASSUME IsFirst(r, k), q[at(k)].Object # q[1].Object, NEW j \in 1..(at(k) - 1)
        PROVE  q[j].Object # q[at(k)].Object
    <3>1. CASE j = 1 \/ j = p
      BY <2>2, <3>1
    <3>2. CASE j # 1 /\ j # p
      <4>1. j \in 2..Len(q)
        BY <2>0, <1>2, <3>2
      <4>2. PICK m \in 1..Len(r) : at(m) = j /\ r[m] = q[j]
        BY <1>3, <3>2, <4>1
      <4>3. m < k
        BY <1>2, <4>2, <2>0
      <4>4. m \in 1..(k - 1)
        BY <4>3, <1>2
      <4>5. QED
        BY <2>0, <2>2, <4>2, <4>4 DEF IsFirst
    <3>3. QED
      BY <3>1, <3>2
  <2>3. QED
    BY <2>0, <2>1, <2>2 DEF IsLast, IsFirst
<1>6. ASSUME NEW k \in 1..Len(r), r[k].OP, ~IsLast(r, k)
      PROVE  \E j \in (k + 1)..Len(r) :
                 /\ r[j].Object = r[k].Object /\ ~r[j].OP
                 /\ \A m \in (k + 1)..(j - 1) : r[m].Object # r[k].Object
  <2>0. r[k] = q[at(k)] /\ at(k) \in 2..Len(q)
    BY <1>2
  <2>1. ~IsLast(q, at(k))
    <3>1. PICK m \in (k + 1)..Len(r) : r[m].Object = r[k].Object
      BY <1>6 DEF IsLast
    <3>2. m \in 1..Len(r) /\ k < m
      BY <1>2
    <3>3. at(m) \in (at(k) + 1)..Len(q) /\ r[m] = q[at(m)]
      BY <1>2, <3>2, <2>0
    <3>4. QED
      BY <2>0, <3>1, <3>3 DEF IsLast
  <2>2. PICK i \in (at(k) + 1)..Len(q) :
            /\ q[i].Object = q[at(k)].Object /\ ~q[i].OP
            /\ \A m \in (at(k) + 1)..(i - 1) : q[m].Object # q[at(k)].Object
    <3>1. at(k) \in 1..Len(q)
      BY <2>0, <1>2
    <3>2. QED
      BY <1>6, <2>0, <2>1, <3>1 DEF Alternates
  <2>3. i # p
    <3>1. i = p => at(k) \in 2..(p - 1)
      BY <2>0, <1>2
    <3>2. QED
      BY <3>1, <2>2, <1>4
  <2>4. i \in 2..Len(q)
    BY <2>0, <1>2
  <2>5. PICK j \in 1..Len(r) : at(j) = i /\ r[j] = q[i]
    BY <1>3, <2>3, <2>4
  <2>6. k < j
    BY <1>2, <2>5, <2>0
  <2>7. j \in (k + 1)..Len(r)
    BY <2>6, <1>2
  <2>8. ASSUME NEW m \in (k + 1)..(j - 1)
        PROVE  r[m].Object # r[k].Object
    <3>1. m \in 1..Len(r) /\ k < m /\ m < j
      BY <1>2
    <3>2. r[m] = q[at(m)] /\ at(m) \in 2..Len(q) /\ at(k) < at(m) /\ at(m) < at(j)
      BY <1>2, <3>1
    <3>3. at(m) \in (at(k) + 1)..(i - 1)
      BY <3>2, <2>5, <2>0, <1>2
    <3>4. QED
      BY <2>0, <2>2, <3>2, <3>3
  <2>9. QED
    BY <2>0, <2>2, <2>5, <2>7, <2>8
<1>7. Alternates(r)
  BY <1>6 DEF Alternates
<1>8. ASSUME NEW k \in 1..Len(r)
      PROVE  \E j \in 2..Len(q) :
                 /\ r[k] = q[j]
                 /\ IsLast(r, k) => IsLast(q, j)
                 /\ IsFirst(r, k) => IsFirst(q, j) \/ q[j].Object = q[1].Object
  <2>1. at(k) \in 2..Len(q) /\ r[k] = q[at(k)]
    BY <1>2
  <2>2. QED
    BY <1>5, <2>1
<1>9. Follows(r, q)
  BY <1>7, <1>8 DEF Follows
<1>10. ASSUME NEW j \in 2..Len(q), j # p
       PROVE  \E k \in 1..Len(r) : r[k] = q[j]
  BY <1>3, <1>10
<1>11. QED
  BY <1>1, <1>9, <1>10

LEMMA AppendAlternates ==
    ASSUME NEW q \in Seq(ItemReg), NEW e \in ItemReg, Alternates(q),
           \A k \in 1..Len(q) :
               IsLast(q, k) /\ q[k].Object = e.Object /\ q[k].OP => ~e.OP
    PROVE  Alternates(Append(q, e))
<1>1. PICK r \in Seq(ItemReg) : r = Append(q, e)
  BY AppendProperties
<1>2. /\ Len(q) \in Nat /\ Len(r) = Len(q) + 1 /\ r[Len(q) + 1] = e
      /\ \A k \in 1..Len(q) : r[k] = q[k]
  BY <1>1, AppendProperties, LenProperties
<1>3. ASSUME NEW k \in 1..Len(r), r[k].OP, ~IsLast(r, k)
      PROVE  \E j \in (k + 1)..Len(r) :
                 /\ r[j].Object = r[k].Object /\ ~r[j].OP
                 /\ \A m \in (k + 1)..(j - 1) : r[m].Object # r[k].Object
  <2>1. k \in 1..Len(q) /\ r[k] = q[k]
    BY <1>2, <1>3 DEF IsLast
  <2>2. CASE IsLast(q, k)
    <3>1. ASSUME NEW m \in (k + 1)..Len(q)
          PROVE  r[m].Object # r[k].Object
      BY <1>2, <2>1, <2>2 DEF IsLast
    <3>2. e.Object = r[k].Object
      BY <1>2, <1>3, <3>1 DEF IsLast
    <3>3. ~e.OP
      BY <1>3, <2>1, <2>2, <3>2
    <3>4. Len(q) + 1 \in (k + 1)..Len(r)
      BY <1>2, <2>1
    <3>5. QED
      BY <1>2, <3>1, <3>2, <3>3, <3>4
  <2>3. CASE ~IsLast(q, k)
    <3>1. PICK j \in (k + 1)..Len(q) :
              /\ q[j].Object = q[k].Object /\ ~q[j].OP
              /\ \A m \in (k + 1)..(j - 1) : q[m].Object # q[k].Object
      BY <1>3, <2>1, <2>3 DEF Alternates
    <3>2. j \in (k + 1)..Len(r) /\ r[j] = q[j]
      BY <1>2, <2>1
    <3>3. ASSUME NEW m \in (k + 1)..(j - 1)
          PROVE  r[m] = q[m]
      BY <1>2, <2>1
    <3>4. QED
      BY <2>1, <3>1, <3>2, <3>3
  <2>4. QED
    BY <2>2, <2>3
<1>4. QED
  BY <1>1, <1>3 DEF Alternates

-----------------------------------------------------------------------------
(* What a step may do to the lists, and what that leaves of the invariant. *)

\* Nothing of x changes, but perhaps the queue.
Untouched(x) ==
    /\ InItemsRT(x)' <=> InItemsRT(x)
    /\ x \in Items' <=> x \in Items
    /\ x \in ItemsProcessed' <=> x \in ItemsProcessed
    /\ m_current_step_obj' = x <=> m_current_step_obj = x
    /\ client'[x] = client[x] /\ b_RT'[x] = b_RT[x]

LEMMA UntouchedKeeps ==
    ASSUME PlaceInv, NEW x \in Objects, Untouched(x), m_processing_now' => m_processing_now,
           Quiet(x)' <=> Quiet(x)
    PROVE  InOnePlace(x)' /\ Agrees(x)' /\ ReachedIsQuiet(x)'
  BY DEF PlaceInv, Untouched, InOnePlace, Agrees, ReachedIsQuiet, Listed, InLists,
         RegisteredClients, InItemsRT

\* A step that leaves the queue alone keeps what it says of the objects in it.
LEMMA QueueKept ==
    ASSUME Inv, UNCHANGED Registration,
           \A x \in Objects :
               \/ Quiet(x)
               \/ /\ Listed(x)' => Listed(x) /\ (InItemsRT(x)' <=> InItemsRT(x))
                  /\ x \in RegisteredClients' <=> x \in RegisteredClients
                  /\ x \in RegisteredClients => b_RT'[x] = b_RT[x]
    PROVE  FirstInv' /\ LastInv' /\ Alternates(Registration')
<1>1. \A k \in 1..Len(Registration) :
          Registration[k].Object \in Objects /\ ~Quiet(Registration[k].Object)
  <2>1. Registration \in Seq(ItemReg)
    BY DEF Inv, TypeInv, TypeOK
  <2>2. \A k \in 1..Len(Registration) : Registration[k] \in ItemReg
    BY <2>1, ElementOfSeq
  <2>3. QED
    BY <2>2 DEF ItemReg, Quiet
<1>2. FirstInv'
  <2>1. \A x \in Objects : ~Quiet(x) /\ x \in AllListed' =>
                             x \in AllListed /\ (x \in AllRealtime' <=> x \in AllRealtime)
    BY DEF AllListed, AllRealtime
  <2>2. QED
    BY <1>1, <2>1 DEF Inv, FirstInv, IsFirst
<1>3. LastInv'
  BY <1>1 DEF Inv, LastInv, IsLast
<1>4. Alternates(Registration')
  BY DEF Inv, Alternates, IsLast
<1>5. QED
  BY <1>2, <1>3, <1>4

LEMMA EraseRemoves ==
    ASSUME Inv, NEW o \in Objects, EraseRT(o)
    PROVE  /\ ~InItemsRT(o)' /\ SlotsDistinct'
           /\ \A x \in Objects \ {o} : InItemsRT(x)' <=> InItemsRT(x)
<1>1. PICK at \in SlotsOf(o) :
          /\ ItemsRT' = [i \in 1..RTCapacity |->
                IF i = rtSize THEN (IF phase = "rtCall" THEN ItemsRT[i] ELSE None)
                ELSE IF at <= i /\ i < rtSize THEN ItemsRT[i + 1] ELSE ItemsRT[i]]
          /\ rtSize' = rtSize - 1
  BY DEF EraseRT
<1>2. /\ at \in 1..rtSize /\ ItemsRT[at] = o
      /\ rtSize \in 0..RTCapacity /\ RTCapacity \in Nat
  BY SchedulerAssumption DEF SlotsOf, Inv, TypeInv, TypeOK
<1>3. \A i \in 1..rtSize : \A j \in 1..rtSize : ItemsRT[i] = ItemsRT[j] => i = j
  BY DEF Inv, ControlInv, SlotsDistinct
<1>4. \A i \in 1..rtSize' : ItemsRT'[i] = IF at <= i THEN ItemsRT[i + 1] ELSE ItemsRT[i]
  BY <1>1, <1>2
<1>5. SlotsDistinct'
  <2>1. ASSUME NEW i \in 1..rtSize', NEW j \in 1..rtSize', ItemsRT'[i] = ItemsRT'[j]
        PROVE  i = j
    <3>1. DEFINE old(k) == IF at <= k THEN k + 1 ELSE k
    <3>2. old(i) \in 1..rtSize /\ old(j) \in 1..rtSize
      BY <1>1, <1>2
    <3>3. ItemsRT[old(i)] = ItemsRT[old(j)]
      BY <1>4, <2>1
    <3>4. old(i) = old(j)
      BY <1>3, <3>2, <3>3
    <3>5. QED
      BY <3>4, <1>2, <1>1
  <2>2. QED
    BY <2>1 DEF SlotsDistinct
<1>6. ~InItemsRT(o)'
  <2>1. ASSUME NEW i \in 1..rtSize', ItemsRT'[i] = o
        PROVE  FALSE
    <3>1. CASE at <= i
      <4>1. ItemsRT[i + 1] = o /\ i + 1 \in 1..rtSize
        BY <1>1, <1>2, <1>4, <2>1, <3>1
      <4>2. QED
        BY <1>2, <1>3, <3>1, <4>1
    <3>2. CASE ~(at <= i)
      <4>1. ItemsRT[i] = o /\ i \in 1..rtSize
        BY <1>1, <1>2, <1>4, <2>1, <3>2
      <4>2. QED
        BY <1>2, <1>3, <3>2, <4>1
    <3>3. QED
      BY <3>1, <3>2
  <2>2. QED
    BY <2>1 DEF InItemsRT, SlotsOf
<1>7. ASSUME NEW x \in Objects \ {o}
      PROVE  InItemsRT(x)' <=> InItemsRT(x)
  <2>1. ASSUME NEW i \in 1..rtSize', ItemsRT'[i] = x
        PROVE  \E j \in 1..rtSize : ItemsRT[j] = x
    <3>1. i \in 1..rtSize /\ i + 1 \in 1..rtSize
      BY <1>1, <1>2
    <3>2. QED
      BY <1>4, <2>1, <3>1
  <2>2. ASSUME NEW j \in 1..rtSize, ItemsRT[j] = x
        PROVE  \E i \in 1..rtSize' : ItemsRT'[i] = x
    <3>1. CASE j < at
      <4>1. j \in 1..rtSize' /\ ItemsRT'[j] = x
        BY <1>1, <1>2, <1>4, <2>2, <3>1
      <4>2. QED
        BY <4>1
    <3>2. CASE at < j
      <4>1. j - 1 \in 1..rtSize' /\ at <= j - 1 /\ j - 1 + 1 = j
        BY <1>1, <1>2, <3>2
      <4>2. ItemsRT'[j - 1] = x
        BY <1>4, <2>2, <4>1
      <4>3. QED
        BY <4>1, <4>2
    <3>3. QED
      BY <1>2, <2>2, <3>1, <3>2
  <2>3. QED
    BY <2>1, <2>2 DEF InItemsRT, SlotsOf
<1>8. QED
  BY <1>5, <1>6, <1>7

\* An unregistration that is carried out takes the object from the one place
\* it is in, and touches no other.
LEMMA RemovesOne ==
    ASSUME Inv, NEW o \in Objects, NEW RT \in BOOLEAN, RT <=> InItemsRT(o),
           internal_Unregister(o, RT)
    PROVE  /\ ~InItemsRT(o)' /\ o \notin Items' /\ m_current_step_obj' # o
           /\ \A x \in Objects \ {o} :
                 /\ InItemsRT(x)' <=> InItemsRT(x)
                 /\ x \in Items' <=> x \in Items
                 /\ m_current_step_obj' = x <=> m_current_step_obj = x
           /\ SlotsDistinct'
           /\ m_current_step_obj' \in {m_current_step_obj, None}
           /\ RT \/ UNCHANGED <<ItemsRT, rtSize>>
<1>1. InOnePlace(o) /\ SlotsDistinct /\ None # o
  BY SchedulerAssumption DEF Inv, PlaceInv, ControlInv
<1>2. CASE RT /\ SlotsOf(o) # {} /\ EraseRT(o)
           /\ UNCHANGED <<Items, deadline, nulls, m_current_step_obj>>
  BY <1>1, <1>2, EraseRemoves DEF InOnePlace, InItemsRT, InLists
<1>3. CASE ~RT /\ o \in Items /\ NullItem(o) /\ UNCHANGED <<ItemsRT, rtSize, m_current_step_obj>>
  BY <1>1, <1>3 DEF InOnePlace, InItemsRT, InLists, NullItem, SlotsOf, SlotsDistinct
<1>4. CASE /\ ~(RT /\ SlotsOf(o) # {}) /\ ~(~RT /\ o \in Items)
           /\ m_current_step_obj = o /\ m_current_step_obj' = None /\ UNCHANGED lists
  BY <1>1, <1>4, SchedulerAssumption
     DEF InOnePlace, InItemsRT, InLists, lists, SlotsOf, SlotsDistinct
<1>5. QED
  BY <1>2, <1>3, <1>4 DEF internal_Unregister

\* A request joins the queue and the lists stay as they are.
LEMMA RequestQueued ==
    ASSUME Inv, NEW e \in ItemReg, NEW o \in Objects, e.Object = o,
           Registration' = Append(Registration, e),
           UNCHANGED <<lists, ItemsProcessed, m_current_step_obj, phase>>,
           \A x \in Objects \ {o} : client'[x] = client[x] /\ b_RT'[x] = b_RT[x],
           ~(m_processing_now /\ (InItemsRT(o) \/ o \in Items \/ m_current_step_obj = o)),
           e.OP <=> o \in RegisteredClients',
           e.OP => b_RT'[o] = e.RT /\ o \notin RegisteredClients,
           ~e.OP => e.RT = b_RT[o]
    PROVE  PlaceInv' /\ FirstInv' /\ LastInv' /\ Alternates(Registration')
<1>0. Registration \in Seq(ItemReg) /\ \A k \in 1..Len(Registration) : Registration[k].Object \in Objects
  <2>1. Registration \in Seq(ItemReg)
    BY DEF Inv, TypeInv, TypeOK
  <2>2. \A k \in 1..Len(Registration) : Registration[k] \in ItemReg
    BY <2>1, ElementOfSeq
  <2>3. QED
    BY <2>1, <2>2 DEF ItemReg
<1>1. /\ Len(Registration) \in Nat /\ Len(Registration') = Len(Registration) + 1
      /\ Registration'[Len(Registration) + 1] = e
      /\ \A k \in 1..Len(Registration) : Registration'[k] = Registration[k]
  BY <1>0, AppendProperties, LenProperties
<1>2. ~Quiet(o)' /\ \A x \in Objects \ {o} : Quiet(x)' <=> Quiet(x)
  BY <1>1 DEF Quiet
<1>3. \A x \in Objects : InItemsRT(x)' = InItemsRT(x) /\ Listed(x)' = Listed(x)
  BY DEF InItemsRT, Listed, InLists, SlotsOf, lists
<1>3a. AllListed' = AllListed /\ AllRealtime' = AllRealtime
  BY <1>3 DEF AllListed, AllRealtime
<1>4. PlaceInv'
  <2>1. ASSUME NEW x \in Objects, x # o
        PROVE  InOnePlace(x)' /\ Agrees(x)' /\ ReachedIsQuiet(x)'
    <3>1. Untouched(x)
      BY <1>3, <2>1 DEF Untouched, lists
    <3>2. Quiet(x)' <=> Quiet(x)
      BY <1>2, <2>1
    <3>3. m_processing_now' => m_processing_now
      BY DEF m_processing_now
    <3>4. QED
      BY <3>1, <3>2, <3>3, UntouchedKeeps DEF Inv
  <2>2. InOnePlace(o)'
    BY DEF Inv, PlaceInv, InOnePlace, InItemsRT, InLists, SlotsOf, lists
  <2>3. Agrees(o)'
    BY <1>2 DEF Agrees
  <2>4. ReachedIsQuiet(o)'
    BY <1>3 DEF ReachedIsQuiet, m_processing_now, lists
  <2>5. QED
    BY <2>1, <2>2, <2>3, <2>4 DEF PlaceInv
<1>5. FirstInv'
  <2>1. ASSUME NEW k \in 1..Len(Registration'), IsFirst(Registration', k),
               Registration'[k].Object \in AllListed'
        PROVE  ~Registration'[k].OP /\ (Registration'[k].RT <=> Registration'[k].Object \in AllRealtime')
    <3>1. CASE k \in 1..Len(Registration)
      <4>1. Registration'[k] = Registration[k] /\ IsFirst(Registration, k)
        BY <1>1, <2>1, <3>1 DEF IsFirst
      <4>2. Registration[k].Object \in Objects
        BY <1>0, <3>1
      <4>3. QED
        BY <1>3a, <2>1, <3>1, <4>1, <4>2 DEF Inv, FirstInv
    <3>2. CASE k = Len(Registration) + 1
      <4>1. Registration'[k] = e
        BY <1>1, <3>2
      <4>2. Quiet(o)
        BY <1>1, <2>1, <3>2, <4>1 DEF IsFirst, Quiet
      <4>3. Listed(o)
        BY <1>3a, <2>1, <4>1 DEF AllListed
      <4>4. o \in RegisteredClients /\ (b_RT[o] <=> InItemsRT(o))
        BY <4>2, <4>3 DEF Inv, PlaceInv, Agrees
      <4>5. QED
        BY <1>3a, <4>1, <4>4 DEF AllRealtime
    <3>3. QED
      BY <1>1, <3>1, <3>2
  <2>2. QED
    BY <2>1 DEF FirstInv
<1>6. LastInv'
  <2>1. ASSUME NEW k \in 1..Len(Registration'), IsLast(Registration', k)
        PROVE  /\ Registration'[k].OP <=> Registration'[k].Object \in RegisteredClients'
               /\ Registration'[k].OP => b_RT'[Registration'[k].Object] = Registration'[k].RT
    <3>1. CASE k \in 1..Len(Registration)
      <4>1. Registration'[k] = Registration[k] /\ IsLast(Registration, k)
        BY <1>1, <2>1, <3>1 DEF IsLast
      <4>2. Registration[k].Object \in Objects \ {o}
        BY <1>0, <1>1, <2>1, <3>1 DEF IsLast
      <4>3. QED
        BY <3>1, <4>1, <4>2 DEF Inv, LastInv, RegisteredClients
    <3>2. CASE k = Len(Registration) + 1
      BY <1>1, <3>2
    <3>3. QED
      BY <1>1, <3>1, <3>2
  <2>2. QED
    BY <2>1 DEF LastInv
<1>7. Alternates(Registration')
  <2>1. \A k \in 1..Len(Registration) :
            IsLast(Registration, k) /\ Registration[k].Object = e.Object /\ Registration[k].OP => ~e.OP
    BY DEF Inv, LastInv
  <2>2. Alternates(Append(Registration, e))
    BY <1>0, <2>1, AppendAlternates DEF Inv
  <2>3. QED
    BY <2>2
<1>8. QED
  BY <1>4, <1>5, <1>6, <1>7

\* An object that its client holds no registration of is out of the loops' reach.
LEMMA ReachedIsRegistered ==
    ASSUME Inv, m_processing_now, NEW o \in Objects,
           InItemsRT(o) \/ o \in Items \/ m_current_step_obj = o
    PROVE  Quiet(o) /\ o \in RegisteredClients /\ (b_RT[o] <=> InItemsRT(o))
  BY DEF Inv, PlaceInv, ReachedIsQuiet, Agrees, Listed, InLists, InItemsRT

\* Unregister and the destructor: whatever branch UnregisterNow takes.
LEMMA UnregisterKeeps ==
    ASSUME Inv, phase # "rt", NEW o \in Objects, UnregisterNow(o),
           UNCHANGED <<ItemsProcessed, control>>,
           \A x \in Objects \ {o} : client'[x] = client[x] /\ b_RT'[x] = b_RT[x],
           client'[o] \in {"out", "free"},
           phase = "rtCall" => ~(b_RT[o] /\ o \in RegisteredClients)
    PROVE  ControlInv' /\ PlaceInv' /\ FirstInv' /\ LastInv' /\ Alternates(Registration')
<1>0. o \notin RegisteredClients' /\ b_RT[o] \in BOOLEAN
  BY DEF RegisteredClients, Inv, TypeInv, TypeOK
<1>1. CASE m_processing_now /\ Found(o, b_RT[o])
  <2>1. InItemsRT(o) \/ o \in Items \/ m_current_step_obj = o
    BY <1>1 DEF Found, InItemsRT
  <2>2. Quiet(o) /\ o \in RegisteredClients /\ (b_RT[o] <=> InItemsRT(o))
    BY <1>1, <2>1, ReachedIsRegistered
  <2>3. internal_Unregister(o, b_RT[o]) /\ UNCHANGED Registration
    BY <1>1 DEF UnregisterNow
  <2>4. /\ ~InItemsRT(o)' /\ o \notin Items' /\ m_current_step_obj' # o
        /\ \A x \in Objects \ {o} :
              /\ InItemsRT(x)' <=> InItemsRT(x)
              /\ x \in Items' <=> x \in Items
              /\ m_current_step_obj' = x <=> m_current_step_obj = x
        /\ SlotsDistinct'
        /\ m_current_step_obj' \in {m_current_step_obj, None}
        /\ b_RT[o] \/ UNCHANGED <<ItemsRT, rtSize>>
    BY <1>0, <2>2, <2>3, RemovesOne
  <2>5. o \notin ItemsProcessed'
    BY <2>1 DEF Inv, PlaceInv, InOnePlace, InLists, control
  <2>6. ~Listed(o)'
    BY <2>4, <2>5 DEF Listed, InLists, InItemsRT
  <2>7. ControlInv'
    BY <2>2, <2>4 DEF Inv, ControlInv, Walking, control
  <2>8. \A x \in Objects : Quiet(x)' <=> Quiet(x)
    BY <2>3 DEF Quiet
  <2>9. PlaceInv'
    <3>1. ASSUME NEW x \in Objects, x # o
          PROVE  InOnePlace(x)' /\ Agrees(x)' /\ ReachedIsQuiet(x)'
      <4>1. Untouched(x)
        BY <2>4, <3>1 DEF Untouched, control
      <4>2. m_processing_now' => m_processing_now
        BY DEF m_processing_now, control
      <4>3. QED
        BY <2>8, <4>1, <4>2, UntouchedKeeps DEF Inv
    <3>2. InOnePlace(o)' /\ Agrees(o)' /\ ReachedIsQuiet(o)'
      BY <1>0, <2>4, <2>5, <2>6, <2>2, <2>8
         DEF InOnePlace, Agrees, ReachedIsQuiet, InLists, InItemsRT, RegisteredClients
    <3>3. QED
      BY <3>1, <3>2 DEF PlaceInv
  <2>10. FirstInv' /\ LastInv' /\ Alternates(Registration')
    <3>1. ASSUME NEW x \in Objects, x # o
          PROVE  /\ Listed(x)' => Listed(x) /\ (InItemsRT(x)' <=> InItemsRT(x))
                 /\ x \in RegisteredClients' <=> x \in RegisteredClients
                 /\ x \in RegisteredClients => b_RT'[x] = b_RT[x]
      BY <2>4, <3>1 DEF Listed, InLists, InItemsRT, RegisteredClients, control
    <3>2. QED
      BY <2>2, <2>3, <3>1, QueueKept
  <2>11. QED
    BY <2>7, <2>9, <2>10
<1>2. CASE ~(m_processing_now /\ Found(o, b_RT[o]))
  <2>1. /\ Registration' = Append(Registration, [OP |-> FALSE, RT |-> b_RT[o], Object |-> o])
        /\ UNCHANGED <<lists, m_current_step_obj>>
    BY <1>2 DEF UnregisterNow
  <2>2. ~(m_processing_now /\ (InItemsRT(o) \/ o \in Items \/ m_current_step_obj = o))
    <3>1. ASSUME m_processing_now, InItemsRT(o) \/ o \in Items \/ m_current_step_obj = o
          PROVE  FALSE
      <4>1. b_RT[o] <=> InItemsRT(o)
        BY <3>1, ReachedIsRegistered
      <4>2. ~Found(o, b_RT[o])
        BY <1>2, <3>1
      <4>3. QED
        BY <3>1, <4>1, <4>2 DEF Found, InItemsRT
    <3>2. QED
      BY <3>1
  <2>3. [OP |-> FALSE, RT |-> b_RT[o], Object |-> o] \in ItemReg
    BY <1>0 DEF ItemReg
  <2>4. PlaceInv' /\ FirstInv' /\ LastInv' /\ Alternates(Registration')
    <3> DEFINE e == [OP |-> FALSE, RT |-> b_RT[o], Object |-> o]
    <3>1. e \in ItemReg /\ e.Object = o /\ ~e.OP /\ e.RT = b_RT[o]
      BY <2>3
    <3>2. Registration' = Append(Registration, e)
      BY <2>1
    <3> HIDE DEF e
    <3>3. UNCHANGED <<lists, ItemsProcessed, m_current_step_obj, phase>>
      BY <2>1 DEF control
    <3>4. QED
      BY <1>0, <2>2, <3>1, <3>2, <3>3, RequestQueued
  <2>5. ControlInv'
    BY <2>1 DEF Inv, ControlInv, Walking, SlotsDistinct, control, lists
  <2>6. QED
    BY <2>4, <2>5
<1>3. QED
  BY <1>1, <1>2

-----------------------------------------------------------------------------
(* Every step keeps the invariant.  SelfUnregister = {} is the premise: an  *)
(* object that erases itself from ItemsRT in the realtime loop breaks it.   *)

KeptInv == ControlInv /\ PlaceInv /\ FirstInv /\ LastInv /\ Alternates(Registration)

LEMMA ClientKeeps ==
    ASSUME Inv, SelfUnregister = {}, NEW o \in Objects, Client(o)
    PROVE  KeptInv'
<1>0. /\ client \in [Objects -> {"free", "out", "in", "doomed"}]
      /\ b_RT \in [Objects -> BOOLEAN]
  BY DEF Inv, TypeInv, TypeOK
<1>1. CASE Create(o) \/ SetDestroy(o)
  <2>1. /\ UNCHANGED <<lists, ItemsProcessed, Registration, m_current_step_obj, control>>
        /\ \A x \in Objects \ {o} : client'[x] = client[x] /\ b_RT'[x] = b_RT[x]
        /\ o \in RegisteredClients' <=> o \in RegisteredClients
        /\ client'[o] # "in"
        /\ o \in RegisteredClients => b_RT'[o] = b_RT[o]
    BY <1>0, <1>1 DEF Create, SetDestroy, RegisteredClients
  <2>2. \A x \in Objects : /\ InItemsRT(x)' = InItemsRT(x) /\ Listed(x)' = Listed(x)
                           /\ Quiet(x)' = Quiet(x) /\ InLists(x)' = InLists(x)
    BY <2>1 DEF InItemsRT, Listed, InLists, SlotsOf, lists, Quiet
  <2>3. ControlInv'
    BY <2>1 DEF Inv, ControlInv, Walking, SlotsDistinct, control, lists
  <2>4. PlaceInv'
    <3>1. ASSUME NEW x \in Objects, x # o
          PROVE  InOnePlace(x)' /\ Agrees(x)' /\ ReachedIsQuiet(x)'
      <4>1. Untouched(x)
        BY <2>1, <2>2, <3>1 DEF Untouched, lists
      <4>2. QED
        BY <2>1, <2>2, <4>1, UntouchedKeeps DEF Inv, m_processing_now, control
    <3>2. InOnePlace(o)' /\ ReachedIsQuiet(o)'
      BY <2>1, <2>2
         DEF Inv, PlaceInv, InOnePlace, ReachedIsQuiet, m_processing_now, control, lists
    <3>3. Agrees(o)'
      BY <2>1, <2>2 DEF Inv, PlaceInv, Agrees
    <3>4. QED
      BY <3>1, <3>2, <3>3 DEF PlaceInv
  <2>5. FirstInv' /\ LastInv' /\ Alternates(Registration')
    <3>1. \A x \in Objects : /\ x \in RegisteredClients' <=> x \in RegisteredClients
                             /\ x \in RegisteredClients => b_RT'[x] = b_RT[x]
      BY <2>1 DEF RegisteredClients
    <3>2. QED
      BY <2>1, <2>2, <3>1, QueueKept
  <2>6. QED
    BY <2>3, <2>4, <2>5 DEF KeptInv
<1>2. ASSUME NEW RT \in BOOLEAN, Register(o, RT)
      PROVE  KeptInv'
  <2> DEFINE e == [OP |-> TRUE, RT |-> RT, Object |-> o]
  <2>1. e \in ItemReg /\ e.Object = o /\ e.OP /\ e.RT = RT
    BY DEF ItemReg
  <2>2. Registration' = Append(Registration, e)
    BY <1>2 DEF Register
  <2> HIDE DEF e
  <2>3. UNCHANGED <<lists, ItemsProcessed, m_current_step_obj, phase>>
    BY <1>2 DEF Register, control
  <2>4. /\ \A x \in Objects \ {o} : client'[x] = client[x] /\ b_RT'[x] = b_RT[x]
        /\ o \in RegisteredClients' /\ o \notin RegisteredClients /\ b_RT'[o] = RT
    BY <1>0, <1>2 DEF Register, RegisteredClients
  <2>5. ~(m_processing_now /\ (InItemsRT(o) \/ o \in Items \/ m_current_step_obj = o))
    BY <2>4, ReachedIsRegistered
  <2>6. PlaceInv' /\ FirstInv' /\ LastInv' /\ Alternates(Registration')
    BY <2>1, <2>2, <2>3, <2>4, <2>5, RequestQueued
  <2>7. ControlInv'
    BY <1>2 DEF Register, Inv, ControlInv, Walking, SlotsDistinct, control, lists
  <2>8. QED
    BY <2>6, <2>7 DEF KeptInv
<1>3. CASE Unregister(o)
  <2>1. /\ phase # "rt" /\ UnregisterNow(o)
        /\ UNCHANGED <<ItemsProcessed, control>>
        /\ \A x \in Objects \ {o} : client'[x] = client[x] /\ b_RT'[x] = b_RT[x]
        /\ client'[o] = "out"
        /\ phase = "rtCall" => ~b_RT[o]
    BY <1>0, <1>3 DEF Unregister, ClientTurn, MayUnregister
  <2>2. QED
    BY <2>1, UnregisterKeeps DEF KeptInv
<1>4. CASE Delete(o)
  <2>1. /\ phase # "rt" /\ o \notin RegisteredClients
        /\ UNCHANGED <<ItemsProcessed, control>>
        /\ \A x \in Objects \ {o} : client'[x] = client[x] /\ b_RT'[x] = b_RT[x]
        /\ client'[o] = "free"
    BY <1>0, <1>4 DEF Delete, ClientTurn, RegisteredClients
  <2>2. CASE UnregisterNow(o)
    BY <2>1, <2>2, UnregisterKeeps DEF KeptInv
  <2>3. CASE UNCHANGED <<lists, Registration, m_current_step_obj>>
    <3>1. \A x \in Objects : /\ InItemsRT(x)' = InItemsRT(x) /\ Listed(x)' = Listed(x)
                             /\ Quiet(x)' = Quiet(x) /\ InLists(x)' = InLists(x)
      BY <2>1, <2>3 DEF InItemsRT, Listed, InLists, SlotsOf, lists, Quiet
    <3>2. \A x \in Objects : /\ x \in RegisteredClients' <=> x \in RegisteredClients
                             /\ x \in RegisteredClients => b_RT'[x] = b_RT[x]
      BY <2>1 DEF RegisteredClients
    <3>3. ControlInv'
      BY <2>1, <2>3 DEF Inv, ControlInv, Walking, SlotsDistinct, control, lists
    <3>4. ASSUME NEW x \in Objects
          PROVE  InOnePlace(x)' /\ Agrees(x)' /\ ReachedIsQuiet(x)'
      <4>1. CASE x # o
        <5>1. Untouched(x)
          BY <2>1, <2>3, <3>1, <4>1 DEF Untouched, lists
        <5>2. QED
          BY <2>1, <3>1, <5>1, UntouchedKeeps DEF Inv, m_processing_now, control
      <4>2. CASE x = o
        <5>1. InOnePlace(x)' /\ ReachedIsQuiet(x)'
          BY <2>1, <2>3, <3>1
             DEF Inv, PlaceInv, InOnePlace, ReachedIsQuiet, m_processing_now, control, lists
        <5>2. Agrees(x)'
          BY <2>1, <3>1, <3>2, <4>2 DEF Inv, PlaceInv, Agrees
        <5>3. QED
          BY <5>1, <5>2
      <4>3. QED
        BY <4>1, <4>2
    <3>5. FirstInv' /\ LastInv' /\ Alternates(Registration')
      BY <2>3, <3>1, <3>2, QueueKept
    <3>6. QED
      BY <3>3, <3>4, <3>5 DEF KeptInv, PlaceInv
  <2>4. QED
    BY <1>4, <2>2, <2>3 DEF Delete
<1>5. QED
  BY <1>1, <1>2, <1>3, <1>4 DEF Client

\* The request at the head of the queue is handled, alone or with its pair.
LEMMA HeadHandled ==
    ASSUME Inv, Draining, NEW o \in Objects, o = Request.Object,
           UNCHANGED <<client, ItemsProcessed, control>>, m_current_step_obj' = None,
           Follows(Registration', Registration),
           \A j \in 2..Len(Registration) :
               Registration[j].Object # o => \E k \in 1..Len(Registration') : Registration'[k] = Registration[j],
           \A x \in Objects \ {o} : /\ InItemsRT(x)' <=> InItemsRT(x)
                                    /\ x \in Items' <=> x \in Items
                                    /\ b_RT'[x] = b_RT[x],
           InOnePlace(o)', Agrees(o)', Listed(o)' => Quiet(o)',
           o \in RegisteredClients => b_RT'[o] = b_RT[o],
           SlotsDistinct'
    PROVE  KeptInv'
<1>0. /\ Registration \in Seq(ItemReg) /\ Len(Registration) \in Nat \ {0}
      /\ Registration[1].Object = o
      /\ \A k \in 1..Len(Registration) : Registration[k].Object \in Objects
  <2>1. Registration \in Seq(ItemReg) /\ Registration # <<>>
    BY DEF Inv, TypeInv, TypeOK, Draining
  <2>2. \A k \in 1..Len(Registration) : Registration[k] \in ItemReg
    BY <2>1, ElementOfSeq
  <2>3. QED
    BY <2>1, <2>2, EmptySeq, RequestType DEF ItemReg, Inv, TypeInv
<1>1. phase \in {"regBegin", "regEnd"} /\ m_current_step_obj = None
  BY DEF Draining, Inv, ControlInv
<1>2. ControlInv'
  BY <1>1 DEF Inv, ControlInv, Walking, control
<1>3. ASSUME NEW x \in Objects, x # o
      PROVE  Quiet(x)' <=> Quiet(x)
  <2>1. ASSUME Quiet(x)', NEW j \in 1..Len(Registration), Registration[j].Object = x
        PROVE  FALSE
    <3>1. j \in 2..Len(Registration)
      BY <1>0, <1>3, <2>1
    <3>2. QED
      BY <1>3, <2>1, <3>1 DEF Quiet
  <2>2. ASSUME Quiet(x)
        PROVE  Quiet(x)'
    BY <1>0, <2>2 DEF Follows, Quiet
  <2>3. QED
    BY <2>1, <2>2 DEF Quiet
<1>4. PlaceInv'
  <2>1. ~m_processing_now'
    BY <1>1 DEF m_processing_now, control
  <2>2. ASSUME NEW x \in Objects, x # o
        PROVE  InOnePlace(x)' /\ Agrees(x)' /\ ReachedIsQuiet(x)'
    <3>1. Untouched(x)
      BY <1>1, <2>2, SchedulerAssumption DEF Untouched
    <3>2. QED
      BY <1>3, <2>1, <2>2, <3>1, UntouchedKeeps DEF Inv
  <2>3. ReachedIsQuiet(o)'
    BY <2>1 DEF ReachedIsQuiet
  <2>4. QED
    BY <2>2, <2>3 DEF PlaceInv
<1>5. ASSUME NEW k \in 1..Len(Registration')
      PROVE  \E j \in 2..Len(Registration) :
                 /\ Registration'[k] = Registration[j] /\ Registration[j].Object \in Objects
                 /\ IsLast(Registration', k) => IsLast(Registration, j)
                 /\ IsFirst(Registration', k) =>
                        IsFirst(Registration, j) \/ Registration[j].Object = o
  BY <1>0 DEF Follows
<1>6. FirstInv'
  <2>1. \A x \in Objects : x # o => /\ x \in AllListed' => x \in AllListed
                                    /\ x \in AllRealtime' <=> x \in AllRealtime
    BY <1>1, SchedulerAssumption DEF AllListed, AllRealtime, Listed, InLists, InItemsRT
  <2>2. o \in AllListed' => Quiet(o)'
    BY DEF AllListed
  <2>3. ASSUME NEW k \in 1..Len(Registration'), IsFirst(Registration', k),
               Registration'[k].Object \in AllListed'
        PROVE  ~Registration'[k].OP /\ (Registration'[k].RT <=> Registration'[k].Object \in AllRealtime')
    <3>1. PICK j \in 2..Len(Registration) :
              /\ Registration'[k] = Registration[j] /\ Registration[j].Object \in Objects
              /\ IsFirst(Registration, j) \/ Registration[j].Object = o
      BY <1>5, <2>3
    <3>2. Registration[j].Object # o
      BY <2>2, <2>3, <3>1 DEF Quiet
    <3>3. j \in 1..Len(Registration)
      BY <1>0
    <3>4. QED
      BY <2>1, <2>3, <3>1, <3>2, <3>3 DEF Inv, FirstInv
  <2>4. QED
    BY <2>3 DEF FirstInv
<1>7. LastInv'
  <2>1. ASSUME NEW k \in 1..Len(Registration'), IsLast(Registration', k)
        PROVE  /\ Registration'[k].OP <=> Registration'[k].Object \in RegisteredClients'
               /\ Registration'[k].OP => b_RT'[Registration'[k].Object] = Registration'[k].RT
    <3>1. PICK j \in 2..Len(Registration) :
              /\ Registration'[k] = Registration[j] /\ Registration[j].Object \in Objects
              /\ IsLast(Registration, j)
      BY <1>5, <2>1
    <3>2. j \in 1..Len(Registration)
      BY <1>0
    <3>3. RegisteredClients' = RegisteredClients
      BY DEF RegisteredClients
    <3>4. QED
      BY <3>1, <3>2, <3>3 DEF Inv, LastInv
  <2>2. QED
    BY <2>1 DEF LastInv
<1>8. Alternates(Registration')
  BY DEF Follows
<1>9. QED
  BY <1>2, <1>4, <1>6, <1>7, <1>8 DEF KeptInv

\* What the invariant says of the request at the head of the queue.
LEMMA RequestFacts ==
    ASSUME Inv, Draining
    PROVE  /\ Registration \in Seq(ItemReg) /\ Registration # <<>>
           /\ Len(Registration) \in Nat \ {0}
           /\ Request \in ItemReg /\ Request = Registration[1] /\ Request.Object \in Objects
           /\ Listed(Request.Object) =>
                  ~Request.OP /\ (Request.RT <=> InItemsRT(Request.Object))
           /\ m_current_step_obj = None /\ ItemsProcessed = {}
<1>1. Registration \in Seq(ItemReg) /\ Registration # <<>>
  BY DEF Inv, TypeInv, TypeOK, Draining
<1>2. Len(Registration) \in Nat \ {0}
  BY <1>1, EmptySeq
<1>3. Request \in ItemReg /\ Request = Registration[1] /\ Request.Object \in Objects
  BY RequestType DEF Inv, TypeInv, ItemReg
<1>4. IsFirst(Registration, 1) /\ 1 \in 1..Len(Registration)
  BY <1>2 DEF IsFirst
<1>5. Listed(Request.Object) => ~Request.OP /\ (Request.RT <=> InItemsRT(Request.Object))
  BY <1>3, <1>4 DEF Inv, FirstInv, AllListed, AllRealtime
<1>6. m_current_step_obj = None /\ ItemsProcessed = {}
  BY DEF Inv, ControlInv, Draining
<1>7. QED
  BY <1>1, <1>2, <1>3, <1>5, <1>6

LEMMA DrainKeeps ==
    ASSUME Inv, DrainPair \/ DrainRegister \/ DrainUnregister
    PROVE  KeptInv'
<1>0. Draining
  BY DEF DrainPair, DrainRegister, DrainUnregister
<1>a. PICK o \in Objects : o = Request.Object
  BY <1>0, RequestFacts
<1>1. /\ Registration \in Seq(ItemReg) /\ Registration # <<>>
      /\ Len(Registration) \in Nat \ {0}
      /\ Request \in ItemReg /\ Request = Registration[1] /\ o = Request.Object
      /\ Listed(o) => ~Request.OP /\ (Request.RT <=> InItemsRT(o))
      /\ m_current_step_obj = None /\ ItemsProcessed = {} /\ o # None
  BY <1>0, <1>a, RequestFacts, SchedulerAssumption
<1>2. Alternates(Registration) /\ SlotsDistinct /\ \A x \in Objects : InOnePlace(x)
  BY DEF Inv, ControlInv, PlaceInv
<1>3. CASE DrainPair
  <2>1. PICK p \in LaterUnregisters :
            /\ \A k \in LaterUnregisters : p <= k
            /\ Registration' = Tail(RemoveAt(Registration, p))
    BY <1>3 DEF DrainPair
  <2>2. /\ p \in 2..Len(Registration) /\ ~Registration[p].OP
        /\ Registration[p].Object = Registration[1].Object /\ Registration[1].OP
        /\ \A m \in 2..Len(Registration) :
              ~Registration[m].OP /\ Registration[m].Object = Registration[1].Object => p <= m
    BY <1>1, <1>3, <2>1 DEF DrainPair, LaterUnregisters
  <2>3. /\ Follows(Registration', Registration)
        /\ \A j \in 2..Len(Registration) :
              j = p \/ \E k \in 1..Len(Registration') : Registration'[k] = Registration[j]
    BY <1>1, <1>2, <2>1, <2>2, PairFollows
  <2>4. UNCHANGED <<clients, lists, ItemsProcessed, m_current_step_obj, control>>
    BY <1>3 DEF DrainPair
  <2>5. \A x \in Objects : /\ InItemsRT(x)' = InItemsRT(x) /\ Listed(x)' = Listed(x)
                           /\ InLists(x)' = InLists(x)
    BY <2>4 DEF InItemsRT, Listed, InLists, SlotsOf, lists
  <2>6. ~Listed(o)'
    BY <1>1, <2>2, <2>5
  <2>7. InOnePlace(o)'
    BY <1>1, <1>2, <2>4, <2>5 DEF InOnePlace, lists
  <2>8. Agrees(o)'
    <3>1. ASSUME Quiet(o)'
          PROVE  client[o] # "in"
      <4>1. ASSUME NEW j \in (p + 1)..Len(Registration)
            PROVE  Registration[j].Object # Registration[p].Object
        <5>1. j \in 2..Len(Registration) /\ j # p
          BY <2>2, <1>1
        <5>2. PICK k \in 1..Len(Registration') : Registration'[k] = Registration[j]
          BY <2>3, <5>1
        <5>3. QED
          BY <1>1, <2>2, <3>1, <5>2 DEF Quiet
      <4>2. IsLast(Registration, p) /\ p \in 1..Len(Registration)
        BY <1>1, <2>2, <4>1 DEF IsLast
      <4>3. o \notin RegisteredClients
        BY <1>1, <2>2, <4>2 DEF Inv, LastInv
      <4>4. QED
        BY <1>1, <4>3 DEF RegisteredClients
    <3>2. QED
      BY <2>4, <2>6, <3>1 DEF Agrees, clients
  <2>9. \A j \in 2..Len(Registration) :
            Registration[j].Object # o =>
                \E k \in 1..Len(Registration') : Registration'[k] = Registration[j]
    BY <1>1, <2>2, <2>3
  <2>10. SlotsDistinct'
    BY <1>2, <2>4 DEF SlotsDistinct, lists
  <2>11. QED
    BY <1>0, <1>1, <2>3, <2>4, <2>5, <2>6, <2>7, <2>8, <2>9, <2>10, HeadHandled DEF clients, lists
<1>4. ASSUME Registration' = Tail(Registration)
      PROVE  /\ Follows(Registration', Registration)
             /\ \A j \in 2..Len(Registration) :
                   \E k \in 1..Len(Registration') : Registration'[k] = Registration[j]
  BY <1>1, <1>2, <1>4, TailFollows
<1>5. CASE DrainRegister
  <2>1. /\ Registration' = Tail(Registration) /\ Request.OP /\ LaterUnregisters = {}
        /\ internal_Register(o, Request.RT)
        /\ UNCHANGED <<client, ItemsProcessed, m_current_step_obj, control>>
    BY <1>1, <1>5 DEF DrainRegister
  <2>2. ~Listed(o)
    BY <1>1, <2>1
  <2>3. IsLast(Registration, 1)
    BY <1>1, <1>2, <2>1 DEF Alternates, LaterUnregisters
  <2>4. o \in RegisteredClients /\ b_RT[o] = Request.RT
    BY <1>1, <2>1, <2>3 DEF Inv, LastInv
  <2>5. Quiet(o)'
    <3>1. ASSUME NEW k \in 1..Len(Registration')
          PROVE  Registration'[k].Object # o
      <4>1. PICK j \in 2..Len(Registration) : Registration'[k] = Registration[j]
        BY <1>4, <2>1 DEF Follows
      <4>2. QED
        BY <1>1, <2>3, <4>1 DEF IsLast
    <3>2. QED
      BY <3>1 DEF Quiet
  <2>6. b_RT' = b_RT
    BY <2>1, <2>4, <1>1 DEF internal_Register, Inv, TypeInv, TypeOK
  <2>7. /\ rtSize \in 0..RTCapacity /\ RTCapacity \in Nat /\ DOMAIN ItemsRT = 1..RTCapacity
    BY SchedulerAssumption DEF Inv, TypeInv, TypeOK
  <2>8. /\ \A x \in Objects \ {o} : (InItemsRT(x)' <=> InItemsRT(x)) /\ (x \in Items' <=> x \in Items)
        /\ InItemsRT(o)' <=> Request.RT
        /\ o \in Items' <=> ~Request.RT
        /\ SlotsDistinct'
    <3>1. CASE Request.RT
      <4>1. /\ rtSize' = rtSize + 1 /\ Items' = Items
            /\ \A i \in 1..rtSize : ItemsRT'[i] = ItemsRT[i]
            /\ ItemsRT'[rtSize + 1] = o
        BY <2>1, <2>7, <3>1 DEF internal_Register
      <4>2. \A i \in 1..rtSize : ItemsRT[i] # o
        BY <2>2 DEF Listed, InLists, SlotsOf
      <4>3. SlotsDistinct'
        BY <1>2, <2>7, <4>1, <4>2 DEF SlotsDistinct
      <4>4. InItemsRT(o)'
        BY <2>7, <4>1 DEF InItemsRT, SlotsOf
      <4>5. ASSUME NEW x \in Objects \ {o}
            PROVE  InItemsRT(x)' <=> InItemsRT(x)
        <5>1. \A i \in 1..rtSize' : ItemsRT'[i] = x => i \in 1..rtSize
          BY <2>7, <4>1
        <5>2. \A i \in 1..rtSize : i \in 1..rtSize'
          BY <2>7, <4>1
        <5>3. QED
          BY <4>1, <5>1, <5>2 DEF InItemsRT, SlotsOf
      <4>6. o \notin Items
        BY <2>2 DEF Listed, InLists
      <4>7. QED
        BY <3>1, <4>1, <4>3, <4>4, <4>5, <4>6
    <3>2. CASE ~Request.RT
      BY <1>2, <2>1, <2>2, <3>2
         DEF internal_Register, InItemsRT, SlotsOf, SlotsDistinct, Listed, InLists
    <3>3. QED
      BY <3>1, <3>2
  <2>9. InOnePlace(o)'
    BY <1>1, <2>1, <2>8 DEF InOnePlace, InLists, InItemsRT
  <2>10. Agrees(o)'
    <3>1. Listed(o)' /\ o \in RegisteredClients' /\ (b_RT'[o] <=> InItemsRT(o)')
      BY <1>1, <2>1, <2>4, <2>6, <2>8 DEF Listed, InLists, InItemsRT, RegisteredClients
    <3>2. QED
      BY <3>1 DEF Agrees
  <2>11. QED
    BY <1>0, <1>1, <1>4, <2>1, <2>5, <2>6, <2>8, <2>9, <2>10, HeadHandled
<1>6. CASE DrainUnregister
  <2>1. /\ Registration' = Tail(Registration) /\ ~Request.OP
        /\ UNCHANGED <<clients, ItemsProcessed, control>>
    BY <1>6 DEF DrainUnregister
  <2>2. /\ \A x \in Objects \ {o} : (InItemsRT(x)' <=> InItemsRT(x)) /\ (x \in Items' <=> x \in Items)
        /\ ~InItemsRT(o)' /\ o \notin Items' /\ m_current_step_obj' = None
        /\ SlotsDistinct'
    <3>1. CASE Found(o, Request.RT)
      <4>1. Listed(o) /\ internal_Unregister(o, Request.RT)
        BY <1>1, <1>6, <3>1 DEF Found, Listed, InLists, DrainUnregister
      <4>2. Request.RT <=> InItemsRT(o)
        BY <1>1, <4>1
      <4>3. Request.RT \in BOOLEAN
        BY <1>1 DEF ItemReg
      <4>4. QED
        BY <1>1, <4>1, <4>2, <4>3, RemovesOne
    <3>2. CASE ~Found(o, Request.RT)
      <4>1. UNCHANGED <<lists, m_current_step_obj>>
        BY <1>1, <1>6, <3>2 DEF DrainUnregister
      <4>2. ~InItemsRT(o) /\ o \notin Items
        BY <1>1, <3>2 DEF Found, Listed, InLists, InItemsRT
      <4>3. QED
        BY <1>1, <1>2, <4>1, <4>2 DEF InItemsRT, SlotsOf, SlotsDistinct, lists
    <3>3. QED
      BY <3>1, <3>2
  <2>3. ~Listed(o)'
    BY <1>1, <2>1, <2>2 DEF Listed, InLists, InItemsRT
  <2>4. InOnePlace(o)'
    BY <1>1, <2>1, <2>2 DEF InOnePlace
  <2>5. Agrees(o)'
    <3>1. ASSUME Quiet(o)'
          PROVE  client[o] # "in"
      <4>1. ASSUME NEW j \in 2..Len(Registration)
            PROVE  Registration[j].Object # o
        BY <1>4, <2>1, <3>1 DEF Quiet
      <4>2. IsLast(Registration, 1) /\ 1 \in 1..Len(Registration)
        BY <1>1, <4>1 DEF IsLast
      <4>3. o \notin RegisteredClients
        BY <1>1, <2>1, <4>2 DEF Inv, LastInv
      <4>4. QED
        BY <1>1, <4>3 DEF RegisteredClients
    <3>2. QED
      BY <2>1, <2>3, <3>1 DEF Agrees, clients
  <2>6. QED
    BY <1>0, <1>1, <1>4, <2>1, <2>2, <2>3, <2>4, <2>5, HeadHandled DEF clients
<1>7. QED
  BY <1>3, <1>5, <1>6

\* Steps that move no object: the loops' own bookkeeping.
LEMMA PlacesKept ==
    ASSUME Inv, UNCHANGED <<clients, ItemsRT, rtSize, Items, ItemsProcessed,
                            m_current_step_obj, Registration>>,
           m_processing_now' => m_processing_now \/ Registration = <<>>
    PROVE  PlaceInv' /\ FirstInv' /\ LastInv' /\ Alternates(Registration') /\ SlotsDistinct'
<1>1. \A x \in Objects : /\ InItemsRT(x)' = InItemsRT(x) /\ Listed(x)' = Listed(x)
                         /\ Quiet(x)' = Quiet(x) /\ InLists(x)' = InLists(x)
                         /\ client'[x] = client[x] /\ b_RT'[x] = b_RT[x]
  BY DEF InItemsRT, Listed, InLists, SlotsOf, Quiet, clients
<1>2. RegisteredClients' = RegisteredClients
  BY DEF RegisteredClients, clients
<1>3. ASSUME NEW x \in Objects
      PROVE  InOnePlace(x)' /\ Agrees(x)' /\ ReachedIsQuiet(x)'
  <2>1. InOnePlace(x)' /\ Agrees(x)'
    BY <1>1, <1>2 DEF Inv, PlaceInv, InOnePlace, Agrees
  <2>2. Registration = <<>> => Quiet(x)
    BY DEF Quiet
  <2>3. ReachedIsQuiet(x)'
    BY <1>1, <2>2 DEF Inv, PlaceInv, ReachedIsQuiet
  <2>4. QED
    BY <2>1, <2>3
<1>4. FirstInv' /\ LastInv' /\ Alternates(Registration')
  BY <1>1, <1>2, QueueKept
<1>5. SlotsDistinct'
  BY DEF Inv, ControlInv, SlotsDistinct
<1>6. QED
  BY <1>3, <1>4, <1>5 DEF PlaceInv

\* Steps of ProcessStep that move one object, or drop it, in or out of the heap.
LEMMA OneMoves ==
    ASSUME Inv, NEW o \in Objects,
           UNCHANGED <<clients, ItemsRT, rtSize, Registration>>,
           m_processing_now, Quiet(o), o \in RegisteredClients, ~b_RT[o], ~InItemsRT(o),
           client[o] = "in" => Listed(o)',
           InOnePlace(o)',
           \A x \in Objects \ {o} :
              /\ x \in Items' <=> x \in Items
              /\ x \in ItemsProcessed' <=> x \in ItemsProcessed
              /\ m_current_step_obj' = x <=> m_current_step_obj = x
    PROVE  PlaceInv' /\ FirstInv' /\ LastInv' /\ Alternates(Registration') /\ SlotsDistinct'
<1>1. \A x \in Objects : InItemsRT(x)' = InItemsRT(x) /\ Quiet(x)' = Quiet(x)
  BY DEF InItemsRT, SlotsOf, Quiet
<1>2. RegisteredClients' = RegisteredClients
  BY DEF RegisteredClients, clients
<1>3. ASSUME NEW x \in Objects, x # o
      PROVE  InOnePlace(x)' /\ Agrees(x)' /\ ReachedIsQuiet(x)'
  <2>1. Untouched(x)
    BY <1>1, <1>3 DEF Untouched, clients
  <2>2. QED
    BY <1>1, <2>1, UntouchedKeeps DEF Inv
<1>4. Agrees(o)' /\ ReachedIsQuiet(o)'
  BY <1>1, <1>2 DEF Agrees, ReachedIsQuiet, clients
<1>5. FirstInv' /\ LastInv' /\ Alternates(Registration')
  <2>1. ASSUME NEW x \in Objects, x # o
        PROVE  /\ Listed(x)' => Listed(x) /\ (InItemsRT(x)' <=> InItemsRT(x))
               /\ x \in RegisteredClients' <=> x \in RegisteredClients
               /\ x \in RegisteredClients => b_RT'[x] = b_RT[x]
    BY <1>1, <1>2, <2>1 DEF Listed, InLists, InItemsRT, clients
  <2>2. QED
    BY <2>1, QueueKept
<1>6. SlotsDistinct'
  BY DEF Inv, ControlInv, SlotsDistinct
<1>7. QED
  BY <1>3, <1>4, <1>5, <1>6 DEF PlaceInv

LEMMA UpdateKeeps ==
    ASSUME Inv,
           \/ NewFrame \/ Update \/ DrainDone \/ RTSkip \/ RTCall \/ RTReturn \/ RTDone
           \/ PopNull \/ NTReturnGone
    PROVE  KeptInv'
<1>1. UNCHANGED <<clients, ItemsRT, rtSize, Items, ItemsProcessed,
                  m_current_step_obj, Registration>>
  BY DEF NewFrame, Update, DrainDone, RTSkip, RTCall, RTReturn, RTDone, PopNull,
         NTReturnGone, lists
<1>2. m_processing_now' => m_processing_now \/ Registration = <<>>
  BY DEF NewFrame, Update, DrainDone, RTSkip, RTCall, RTReturn, RTDone, PopNull,
         NTReturnGone, m_processing_now
<1>3. PlaceInv' /\ FirstInv' /\ LastInv' /\ Alternates(Registration') /\ SlotsDistinct'
  BY <1>1, <1>2, PlacesKept
<1>4. ControlInv'
  BY <1>1, <1>3 DEF NewFrame, Update, DrainDone, RTSkip, RTCall, RTReturn, RTDone, PopNull,
         NTReturnGone, Inv, ControlInv, Walking
<1>5. QED
  BY <1>3, <1>4 DEF KeptInv

LEMMA ProcessKeeps ==
    ASSUME Inv, \/ \E o \in Objects : PopUnneeded(o) \/ NTCall(o)
                \/ NTReturn \/ PushProcessed
    PROVE  KeptInv'
<1>0. /\ client \in [Objects -> {"free", "out", "in", "doomed"}] /\ b_RT \in [Objects -> BOOLEAN]
      /\ None \notin Objects /\ SlotsDistinct
      /\ Items \subseteq Objects /\ ItemsProcessed \subseteq Objects
  BY SchedulerAssumption DEF Inv, TypeInv, TypeOK, ControlInv
<1>1. ASSUME NEW o \in Objects, PopUnneeded(o) \/ NTCall(o)
      PROVE  KeptInv'
  <2>1. /\ phase = "nt" /\ o \in Items /\ Items' = Items \ {o}
        /\ UNCHANGED <<clients, ItemsRT, rtSize, ItemsProcessed, Registration, rtEnd>>
        /\ m_current_step_obj = None
        /\ m_processing_now
    BY <1>1 DEF PopUnneeded, NTCall, PopItem, m_processing_now, Inv, ControlInv
  <2>2. Quiet(o) /\ o \in RegisteredClients /\ (b_RT[o] <=> InItemsRT(o)) /\ InOnePlace(o)
    BY <2>1, ReachedIsRegistered DEF Inv, PlaceInv
  <2>3. ~InItemsRT(o) /\ ~b_RT[o] /\ o \notin ItemsProcessed
    BY <2>1, <2>2 DEF InOnePlace
  <2>4. \/ client[o] # "in" /\ phase' = "nt" /\ m_current_step_obj' = None
        \/ phase' = "ntCall" /\ running' = o /\ m_current_step_obj' = o
    BY <1>1, <2>1 DEF PopUnneeded, NTCall, Needed
  <2>5. InOnePlace(o)' /\ (client[o] = "in" => Listed(o)')
    BY <1>0, <2>1, <2>3, <2>4 DEF InOnePlace, InLists, InItemsRT, SlotsOf, Listed
  <2>6. PlaceInv' /\ FirstInv' /\ LastInv' /\ Alternates(Registration') /\ SlotsDistinct'
    BY <1>0, <2>1, <2>2, <2>3, <2>4, <2>5, OneMoves
  <2>7. ControlInv'
    BY <1>0, <2>1, <2>4, <2>6 DEF Inv, ControlInv, Walking
  <2>8. QED
    BY <2>6, <2>7 DEF KeptInv
<1>2. CASE NTReturn
  <2>1. PICK o \in Objects : o = running /\ o = m_current_step_obj
    BY <1>2 DEF NTReturn, Inv, ControlInv, TypeInv, LoopsInRange
  <2>2. /\ phase = "ntCall" /\ m_current_step_obj' = None
        /\ ItemsProcessed' = ItemsProcessed \cup {o} /\ phase' \in {"nt", "push"}
        /\ UNCHANGED <<clients, ItemsRT, rtSize, Items, Registration, rtEnd>>
        /\ m_processing_now
    BY <1>2, <2>1 DEF NTReturn, m_processing_now
  <2>3. Quiet(o) /\ o \in RegisteredClients /\ (b_RT[o] <=> InItemsRT(o)) /\ InOnePlace(o)
    BY <2>1, <2>2, ReachedIsRegistered DEF Inv, PlaceInv
  <2>4. ~InItemsRT(o) /\ ~b_RT[o] /\ o \notin Items
    BY <2>1, <2>3 DEF InOnePlace, InLists, InItemsRT
  <2>5. InOnePlace(o)' /\ Listed(o)'
    BY <1>0, <2>1, <2>2, <2>4 DEF InOnePlace, InLists, InItemsRT, SlotsOf, Listed
  <2>6. PlaceInv' /\ FirstInv' /\ LastInv' /\ Alternates(Registration') /\ SlotsDistinct'
    BY <1>0, <2>1, <2>2, <2>3, <2>4, <2>5, OneMoves
  <2>7. ControlInv'
    BY <2>2, <2>6 DEF Inv, ControlInv, Walking
  <2>8. QED
    BY <2>6, <2>7 DEF KeptInv
<1>3. CASE PushProcessed
  <2>1. /\ phase \in {"nt", "push"} /\ phase' = "regEnd"
        /\ Items' = Items \cup ItemsProcessed /\ ItemsProcessed' = {}
        /\ UNCHANGED <<clients, ItemsRT, rtSize, Registration, m_current_step_obj>>
    BY <1>3 DEF PushProcessed
  <2>2. ASSUME NEW x \in Objects
        PROVE  /\ InItemsRT(x)' <=> InItemsRT(x)
               /\ Quiet(x)' <=> Quiet(x)
               /\ InLists(x)' <=> InLists(x)
               /\ Listed(x)' <=> Listed(x)
    <3>1. (InItemsRT(x)' <=> InItemsRT(x)) /\ (Quiet(x)' <=> Quiet(x))
      BY <2>1 DEF InItemsRT, SlotsOf, Quiet
    <3>2. InLists(x)' <=> InLists(x)
      BY <2>1 DEF InLists, SlotsOf
    <3>3. QED
      BY <2>1, <3>1, <3>2 DEF Listed
  <2>3. RegisteredClients' = RegisteredClients
    BY <2>1 DEF RegisteredClients, clients
  <2>4. ASSUME NEW x \in Objects
        PROVE  InOnePlace(x)' /\ Agrees(x)' /\ ReachedIsQuiet(x)'
    <3>1. InOnePlace(x) /\ Agrees(x)
      BY DEF Inv, PlaceInv
    <3>2. ~m_processing_now'
      BY <2>1 DEF m_processing_now
    <3>3. InOnePlace(x)'
      BY <2>1, <2>2, <3>1 DEF InOnePlace
    <3>4. Agrees(x)'
      BY <2>1, <2>2, <2>3, <3>1 DEF Agrees, clients
    <3>5. QED
      BY <3>2, <3>3, <3>4 DEF ReachedIsQuiet
  <2>5. FirstInv' /\ LastInv' /\ Alternates(Registration')
    BY <2>1, <2>2, <2>3, QueueKept DEF clients
  <2>6. ControlInv'
    BY <1>0, <2>1 DEF Inv, ControlInv, Walking, SlotsDistinct
  <2>7. QED
    BY <2>4, <2>5, <2>6 DEF KeptInv, PlaceInv
<1>4. QED
  BY <1>1, <1>2, <1>3

LEMMA Stutter == ASSUME Inv, UNCHANGED vars PROVE Inv'
<1>1. TypeInv'
  BY TypeStep DEF Inv
<1>2. m_processing_now' = m_processing_now
  BY DEF m_processing_now, vars, control
<1>3. PlaceInv' /\ FirstInv' /\ LastInv' /\ Alternates(Registration') /\ SlotsDistinct'
  BY <1>2, PlacesKept DEF vars, lists
<1>4. QED
  BY <1>1, <1>3 DEF Inv, ControlInv, Walking, vars, control, lists

LEMMA InvStep ==
    ASSUME SelfUnregister = {}
    PROVE  Inv /\ [Next]_vars => Inv'
<1> SUFFICES ASSUME Inv, [Next]_vars
             PROVE  Inv'
  OBVIOUS
<1>1. TypeInv'
  BY TypeStep DEF Inv
<1>2. ASSUME NEW o \in Objects, Client(o)
      PROVE  KeptInv'
  BY <1>2, ClientKeeps
<1>3. CASE Engine
  <2>1. CASE DrainPair \/ DrainRegister \/ DrainUnregister
    BY <1>1, <2>1, DrainKeeps DEF Inv, KeptInv
  <2>2. CASE \/ NewFrame \/ Update \/ DrainDone \/ RTSkip \/ RTCall \/ RTReturn \/ RTDone
             \/ PopNull \/ NTReturnGone
    BY <1>1, <2>2, UpdateKeeps DEF Inv, KeptInv
  <2>3. CASE \/ \E o \in Objects : PopUnneeded(o) \/ NTCall(o)
             \/ NTReturn \/ PushProcessed
    BY <1>1, <2>3, ProcessKeeps DEF Inv, KeptInv
  <2>4. QED
    BY <1>3, <2>1, <2>2, <2>3 DEF Engine
<1>4. QED
  BY <1>1, <1>2, <1>3, Stutter DEF Next, Inv, KeptInv

LEMMA InvInit == Init => Inv
<1> SUFFICES ASSUME Init
             PROVE  Inv
  OBVIOUS
<1>1. TypeInv
  BY SchedulerAssumption, EmptySeq
     DEF Init, TypeInv, TypeOK, LoopsInRange, Walking, ItemReg, Deadlines
<1>2. Registration = <<>> /\ Len(Registration) = 0
  BY EmptySeq DEF Init
<1>3. ControlInv
  BY DEF Init, ControlInv, Walking, SlotsDistinct
<1>4. \A x \in Objects : ~InItemsRT(x) /\ ~Listed(x) /\ client[x] = "free"
  BY SchedulerAssumption DEF Init, InItemsRT, SlotsOf, Listed, InLists
<1>5. PlaceInv
  BY <1>4 DEF Init, PlaceInv, InOnePlace, Agrees, ReachedIsQuiet, m_processing_now, Listed
<1>6. FirstInv /\ LastInv /\ Alternates(Registration)
  BY <1>2 DEF FirstInv, LastInv, Alternates
<1>7. QED
  BY <1>1, <1>3, <1>5, <1>6 DEF Inv

LEMMA InvHolds == ASSUME SelfUnregister = {} PROVE Spec => []Inv
<1>1. Inv /\ [Next]_vars => Inv'
  BY InvStep
<1>2. QED
  BY <1>1, InvInit, PTL DEF Spec

-----------------------------------------------------------------------------
(* What clients rely on. *)

\* Neither loop ever looks at an object whose owner has unregistered it.
THEOREM NoDeadCalls == ASSUME SelfUnregister = {} PROVE Spec => []CallsOnlyRegistered
<1>1. Inv => CallsOnlyRegistered
  <2> SUFFICES ASSUME Inv
               PROVE  CallsOnlyRegistered
    OBVIOUS
  <2>1. ASSUME phase = "rt", rtPos <= rtEnd
        PROVE  ItemsRT[rtPos] \in RegisteredClients
    <3>1. rtPos \in 1..rtSize /\ m_processing_now
      BY <2>1 DEF Inv, TypeInv, TypeOK, ControlInv, Walking, m_processing_now
    <3>2. PICK o \in Objects : o = ItemsRT[rtPos]
      BY <3>1 DEF Inv, TypeInv, LoopsInRange
    <3>3. InItemsRT(o)
      BY <3>1, <3>2 DEF InItemsRT, SlotsOf
    <3>4. QED
      BY <3>1, <3>2, <3>3, ReachedIsRegistered
  <2>2. ASSUME phase = "nt", NEW o \in Items
        PROVE  o \in RegisteredClients
    <3>1. m_processing_now /\ o \in Objects
      BY <2>2 DEF m_processing_now, Inv, TypeInv, TypeOK
    <3>2. QED
      BY <3>1, ReachedIsRegistered
  <2>3. QED
    BY <2>1, <2>2 DEF CallsOnlyRegistered
<1>2. QED
  BY <1>1, InvHolds, PTL

\* When the queue is drained, what clients hold registered is what is listed.
THEOREM NoneIsLost == ASSUME SelfUnregister = {} PROVE Spec => []NoneLost
<1>1. Inv => NoneLost
  <2> SUFFICES ASSUME Inv, phase = "idle", Registration = <<>>, NEW o \in Objects
               PROVE  /\ client[o] = "in" => (IF b_RT[o] THEN SlotsOf(o) # {} ELSE o \in Items)
                      /\ client[o] \notin {"in", "doomed"} => ~Listed(o)
    BY DEF NoneLost
  <2>1. Quiet(o) /\ Agrees(o)
    BY EmptySeq DEF Quiet, Inv, PlaceInv
  <2>2. ItemsProcessed = {} /\ m_current_step_obj = None /\ o # None
    BY SchedulerAssumption DEF Inv, ControlInv
  <2>3. QED
    BY <2>1, <2>2 DEF Agrees, Listed, InLists, InItemsRT, RegisteredClients
<1>2. QED
  BY <1>1, InvHolds, PTL

-----------------------------------------------------------------------------
(* What a frame does to an object.  Nobody has two items, the realtime     *)
(* loop passes nobody over, and nobody is updated twice; and what clients  *)
(* see of it all is SchedulerPromise.                                      *)

\* An object has one item at most, and none when its registration is carried
\* out: the VERIFYs of CSheduler::Registered and internal_Register.
THEOREM NoneIsDouble == ASSUME SelfUnregister = {} PROVE Spec => []ListedOnce
<1>1. Inv => ListedOnce
  <2> SUFFICES ASSUME Inv
               PROVE  ListedOnce
    OBVIOUS
  <2>1. ASSUME NEW o \in Objects
        PROVE  Cardinality(SlotsOf(o)) <= 1
    <3>1. CASE SlotsOf(o) = {}
      BY <3>1, FS_EmptySet
    <3>2. CASE SlotsOf(o) # {}
      <4>1. PICK at \in SlotsOf(o) : TRUE
        BY <3>2
      <4>2. SlotsOf(o) = {at}
        BY <4>1 DEF SlotsOf, Inv, ControlInv, SlotsDistinct
      <4>3. QED
        BY <4>2, FS_Singleton
    <3>3. QED
      BY <3>1, <3>2
  <2>2. ASSUME NEW o \in Objects
        PROVE  /\ SlotsOf(o) # {} => o \notin Items \cup ItemsProcessed
               /\ o \in Items => o \notin ItemsProcessed
               /\ m_current_step_obj = o => ~InLists(o)
    BY DEF Inv, PlaceInv, InOnePlace, InItemsRT
  <2>3. ASSUME Draining, Request.OP
        PROVE  ~Listed(Request.Object)
    <3>1. Registration \in Seq(ItemReg) /\ Registration # <<>>
      BY <2>3 DEF Draining, Inv, TypeInv, TypeOK
    <3>2. /\ Len(Registration) \in Nat \ {0} /\ Request = Registration[1]
          /\ Registration[1] \in ItemReg
      BY <3>1, HeadTailProperties, EmptySeq, LenProperties, ElementOfSeq DEF Request
    <3>3. IsFirst(Registration, 1)
      BY DEF IsFirst
    <3>4. Request.Object \notin AllListed
      BY <2>3, <3>2, <3>3 DEF Inv, FirstInv
    <3>5. QED
      BY <3>2, <3>4 DEF AllListed, ItemReg
  <2>4. QED
    BY <2>1, <2>2, <2>3 DEF ListedOnce
<1>2. QED
  BY <1>1, InvHolds, PTL

-----------------------------------------------------------------------------
(* What client code may do to the lists while Update walks them. *)

\* In the realtime loop the vector stands still.
LEMMA SlotsStand ==
    ASSUME Inv, SelfUnregister = {}, phase = "rtCall", NEW o \in Objects, Client(o)
    PROVE  UNCHANGED <<ItemsRT, rtSize>>
<1>0. m_processing_now
  BY DEF m_processing_now
<1>1. ASSUME UnregisterNow(o), ~b_RT[o]
      PROVE  UNCHANGED <<ItemsRT, rtSize>>
  BY <1>1 DEF UnregisterNow, internal_Unregister, lists
<1>2. CASE Unregister(o)
  BY <1>1, <1>2 DEF Unregister, MayUnregister
<1>3. CASE Delete(o)
  <2>1. o \notin RegisteredClients
    BY <1>3 DEF Delete, RegisteredClients
  <2>2. ~Found(o, b_RT[o])
    BY <1>0, <2>1, ReachedIsRegistered DEF Found, InItemsRT
  <2>3. QED
    BY <1>3, <2>2 DEF Delete, UnregisterNow, lists
<1>4. QED
  BY <1>2, <1>3 DEF Client, Create, Register, SetDestroy, lists

\* Client code adds nothing to the heap and postpones nothing that is in it.
LEMMA HeapShrinks ==
    ASSUME Inv, NEW o \in Objects, Client(o)
    PROVE  /\ UNCHANGED <<control, ItemsProcessed>> /\ Items' \subseteq Items
           /\ \A x \in Items' \cup ItemsProcessed : deadline'[x] = deadline[x]
<1>0. deadline \in [Objects -> Deadlines] /\ Items \subseteq Objects
      /\ ItemsProcessed \subseteq Objects /\ InOnePlace(o)
  BY DEF Inv, TypeInv, TypeOK, PlaceInv
<1>1. ASSUME UnregisterNow(o)
      PROVE  /\ Items' \subseteq Items
             /\ \A x \in Items' \cup ItemsProcessed : deadline'[x] = deadline[x]
  <2>1. CASE NullItem(o) /\ o \in Items
    BY <1>0, <2>1 DEF NullItem, InOnePlace
  <2>2. CASE UNCHANGED <<Items, deadline>>
    BY <2>2
  <2>3. QED
    BY <1>1, <2>1, <2>2 DEF UnregisterNow, internal_Unregister, lists
<1>2. QED
  BY <1>1 DEF Client, Create, Register, SetDestroy, Unregister, Delete, lists

-----------------------------------------------------------------------------
(* Nobody is updated twice, nobody is passed over. *)

\* Slots the realtime loop has read.
Reached == IF phase = "rtCall" THEN rtPos ELSE rtPos - 1

Settled(o) == o \in startframe \/ client[o] = "doomed"

\* An item that was handled in this frame is not due before the next one.
DueInv == \A o \in startframe : o \in Items \cup ItemsProcessed => deadline[o] >= 0

\* What the realtime loop has left behind needs no update in this frame.
ServedInv ==
    /\ Walking => \A i \in 1..rtSize : i <= Reached => Settled(ItemsRT[i])
    /\ phase \in {"nt", "ntCall"} => \A o \in Objects : InItemsRT(o) => Settled(o)

FrameInv == Inv /\ DueInv /\ ServedInv

\* A client that drops an object of ItemsRT while Update runs takes it out at
\* once; nobody else's place changes.
LEMMA DropRemoves ==
    ASSUME Inv, m_processing_now, NEW o \in Objects, Client(o)
    PROVE  /\ \A x \in Objects : InItemsRT(x)' => InItemsRT(x)
           /\ InItemsRT(o) /\ Unregister(o) => ~InItemsRT(o)'
<1>0. b_RT[o] \in BOOLEAN
  BY DEF Inv, TypeInv, TypeOK
<1>1. CASE UnregisterNow(o) /\ Found(o, b_RT[o])
  <2>1. b_RT[o] <=> InItemsRT(o)
    BY <1>1, ReachedIsRegistered DEF Found, InItemsRT
  <2>2. internal_Unregister(o, b_RT[o])
    BY <1>1 DEF UnregisterNow
  <2>3. QED
    BY <1>0, <2>1, <2>2, RemovesOne
<1>2. CASE UNCHANGED <<ItemsRT, rtSize>> /\ ~(Unregister(o) /\ InItemsRT(o))
  BY <1>2 DEF InItemsRT, SlotsOf
<1>3. CASE UnregisterNow(o) /\ ~Found(o, b_RT[o])
  <2>1. UNCHANGED <<ItemsRT, rtSize>>
    BY <1>3 DEF UnregisterNow, lists
  <2>2. ~InItemsRT(o)
    BY <1>3, ReachedIsRegistered DEF Found, InItemsRT
  <2>3. QED
    BY <1>2, <2>1, <2>2
<1>4. CASE Unregister(o) \/ Delete(o)
  <2>1. UnregisterNow(o) \/ (Delete(o) /\ UNCHANGED lists)
    BY <1>4 DEF Unregister, Delete
  <2>2. Delete(o) => ~Unregister(o)
    BY DEF Delete, Unregister
  <2>3. QED
    BY <1>1, <1>2, <1>3, <2>1, <2>2 DEF lists
<1>5. CASE Create(o) \/ SetDestroy(o) \/ \E RT \in BOOLEAN : Register(o, RT)
  <2>1. UNCHANGED lists
    BY <1>5 DEF Create, SetDestroy, Register
  <2>2. ~Unregister(o)
    BY <1>5 DEF Create, SetDestroy, Register, Unregister, Inv, TypeInv, TypeOK
  <2>3. QED
    BY <1>2, <2>1, <2>2 DEF lists
<1>6. QED
  BY <1>4, <1>5 DEF Client

LEMMA ClientFrame ==
    ASSUME FrameInv, SelfUnregister = {}, NEW o \in Objects, Client(o)
    PROVE  DueInv' /\ ServedInv'
<1>0. /\ UNCHANGED <<control, ItemsProcessed>> /\ Items' \subseteq Items
      /\ \A x \in Items' \cup ItemsProcessed : deadline'[x] = deadline[x]
  BY HeapShrinks DEF FrameInv
<1>1. DueInv'
  BY <1>0 DEF FrameInv, DueInv, control
<1>2. ASSUME m_processing_now, NEW x \in Objects, InItemsRT(x), InItemsRT(x)', Settled(x)
      PROVE  Settled(x)'
  <2>1. CASE x \in startframe
    BY <1>0, <2>1 DEF Settled, control
  <2>2. CASE client[x] = "doomed"
    <3>1. b_RT[x]
      BY <1>2, ReachedIsRegistered DEF FrameInv
    <3>2. ~(x = o /\ Unregister(o))
      BY <1>2, DropRemoves DEF FrameInv
    <3>3. client'[x] = "doomed"
      BY <2>2, <3>2
         DEF Client, Create, Register, SetDestroy, Unregister, Delete, FrameInv, Inv, TypeInv, TypeOK
    <3>4. QED
      BY <3>3 DEF Settled
  <2>3. QED
    BY <1>2, <2>1, <2>2 DEF Settled
<1>3. ASSUME Walking, NEW i \in 1..rtSize', i <= Reached'
      PROVE  Settled(ItemsRT[i])'
  <2>1. phase = "rtCall" /\ m_processing_now /\ Reached' = Reached
    BY <1>0, <1>3
       DEF Walking, Client, Create, Register, SetDestroy, Unregister, Delete, ClientTurn,
           m_processing_now, Reached, control
  <2>2. UNCHANGED <<ItemsRT, rtSize>>
    BY <2>1, SlotsStand DEF FrameInv
  <2>3. PICK x \in Objects : x = ItemsRT[i]
    BY <1>3, <2>2 DEF FrameInv, Inv, TypeInv, LoopsInRange
  <2>4. InItemsRT(x) /\ InItemsRT(x)'
    BY <1>3, <2>2, <2>3 DEF InItemsRT, SlotsOf
  <2>5. Settled(x)
    BY <1>3, <2>1, <2>2, <2>3 DEF FrameInv, ServedInv
  <2>6. Settled(x)'
    BY <1>2, <2>1, <2>4, <2>5
  <2>7. QED
    BY <2>2, <2>3, <2>6 DEF Settled
<1>4. ASSUME phase \in {"nt", "ntCall"}, NEW x \in Objects, InItemsRT(x)'
      PROVE  Settled(x)'
  <2>1. m_processing_now
    BY <1>4 DEF m_processing_now
  <2>2. InItemsRT(x)
    BY <1>4, <2>1, DropRemoves DEF FrameInv
  <2>3. Settled(x)
    BY <1>4, <2>2 DEF FrameInv, ServedInv
  <2>4. QED
    BY <1>2, <1>4, <2>1, <2>2, <2>3
<1>5. Walking' = Walking /\ phase' = phase
  BY <1>0 DEF Walking, control
<1>6. ServedInv'
  BY <1>3, <1>4, <1>5 DEF ServedInv
<1>7. QED
  BY <1>1, <1>6

\* The steps of Update outside its two loops.
LEMMA QueueFrame ==
    ASSUME FrameInv,
           \/ NewFrame \/ Update \/ DrainPair \/ DrainRegister \/ DrainUnregister \/ DrainDone
    PROVE  DueInv' /\ ServedInv'
<1>0. /\ deadline \in [Objects -> Deadlines]
      /\ Items \subseteq Objects /\ ItemsProcessed \subseteq Objects
  BY DEF FrameInv, Inv, TypeInv, TypeOK
<1>1. CASE NewFrame
  BY <1>1 DEF NewFrame, DueInv, ServedInv, Walking
<1>2. CASE Update \/ DrainPair
  BY <1>2 DEF Update, DrainPair, Draining, FrameInv, DueInv, ServedInv, Walking, lists, control
<1>3. CASE DrainRegister \/ DrainUnregister
  <2>1. phase \in {"regBegin", "regEnd"} /\ UNCHANGED <<ItemsProcessed, control>>
    BY <1>3 DEF DrainRegister, DrainUnregister, Draining
  <2>2. ServedInv'
    BY <2>1 DEF ServedInv, Walking, control
  <2>3. \A x \in Items' \cup ItemsProcessed :
            \/ deadline'[x] = deadline[x] /\ x \in Items \cup ItemsProcessed
            \/ deadline'[x] = 0
    <3>1. ASSUME NEW o, NullItem(o)
          PROVE  \A x \in Items' \cup ItemsProcessed :
                    \/ deadline'[x] = deadline[x] /\ x \in Items \cup ItemsProcessed
                    \/ deadline'[x] = 0
      BY <1>0, <3>1 DEF NullItem, FrameInv, Inv, TypeInv, TypeOK
    <3>2. CASE DrainRegister
      <4>1. Request.Object \in Objects
        BY <3>2, RequestFacts DEF DrainRegister, FrameInv
      <4>2. \/ Items' = Items /\ deadline' = deadline
            \/ /\ Items' = Items \cup {Request.Object}
               /\ deadline' = [deadline EXCEPT ![Request.Object] = 0]
        BY <3>2 DEF DrainRegister, internal_Register
      <4>3. QED
        BY <1>0, <4>1, <4>2
    <3>3. CASE DrainUnregister
      BY <3>1, <3>3 DEF DrainUnregister, internal_Unregister, lists
    <3>4. QED
      BY <1>3, <3>2, <3>3
  <2>4. DueInv'
    BY <2>1, <2>3 DEF FrameInv, DueInv, control
  <2>5. QED
    BY <2>2, <2>4
<1>4. CASE DrainDone
  <2>1. UNCHANGED <<lists, ItemsProcessed, startframe>>
    BY <1>4 DEF DrainDone
  <2>2. phase' = "idle" \/ (phase' = "rt" /\ rtPos' = 1)
    BY <1>4 DEF DrainDone
  <2>3. DueInv'
    BY <2>1 DEF FrameInv, DueInv, lists
  <2>4. ServedInv'
    BY <2>2 DEF ServedInv, Walking, Reached
  <2>5. QED
    BY <2>3, <2>4
<1>5. QED
  BY <1>1, <1>2, <1>3, <1>4

\* The realtime loop: the slot just read is settled, the end finds all so.
LEMMA RealtimeFrame ==
    ASSUME FrameInv, RTSkip \/ RTCall \/ RTReturn \/ RTDone
    PROVE  DueInv' /\ ServedInv'
<1>0. /\ UNCHANGED <<clients, lists, ItemsProcessed>>
      /\ Walking /\ rtEnd = rtSize /\ rtPos \in Nat \ {0} /\ rtSize \in Nat
      /\ \A i \in 1..rtSize : ItemsRT[i] \in Objects /\ InItemsRT(ItemsRT[i])
  <2>1. UNCHANGED <<clients, lists, ItemsProcessed>> /\ Walking
    BY DEF RTSkip, RTCall, RTReturn, RTDone, Walking
  <2>2. rtEnd = rtSize /\ rtPos \in Nat \ {0} /\ rtSize \in Nat
    BY <2>1, SchedulerAssumption DEF FrameInv, Inv, TypeInv, TypeOK, ControlInv
  <2>3. \A i \in 1..rtSize : ItemsRT[i] \in Objects /\ InItemsRT(ItemsRT[i])
    BY DEF FrameInv, Inv, TypeInv, LoopsInRange, InItemsRT, SlotsOf
  <2>4. QED
    BY <2>1, <2>2, <2>3
<1>1. startframe' = startframe \/ (RTCall /\ startframe' = startframe \cup {ItemsRT[rtPos]})
  BY DEF RTSkip, RTCall, RTReturn, RTDone
<1>2. DueInv'
  <2>1. ASSUME RTCall
        PROVE  ItemsRT[rtPos] \notin Items \cup ItemsProcessed
    <3>1. rtPos \in 1..rtSize
      BY <1>0, <2>1 DEF RTCall
    <3>2. QED
      BY <1>0, <3>1 DEF FrameInv, Inv, PlaceInv, InOnePlace
  <2>2. QED
    BY <1>0, <1>1, <2>1 DEF FrameInv, DueInv, lists
<1>3. \A x : Settled(x) => Settled(x)'
  BY <1>0, <1>1 DEF Settled, clients
<1>4. CASE RTSkip \/ RTCall
  <2>1. Walking' /\ Reached' = rtPos /\ Reached = rtPos - 1
    BY <1>0, <1>4 DEF RTSkip, RTCall, Reached, Walking
  <2>2. ItemsRT' = ItemsRT /\ rtSize' = rtSize
    BY <1>0 DEF lists
  <2>3. ASSUME NEW i \in 1..rtSize, i <= rtPos
        PROVE  Settled(ItemsRT[i])'
    <3>1. CASE i = rtPos
      BY <1>0, <1>4, <2>2, <3>1 DEF RTSkip, RTCall, Settled, Needed, clients
    <3>2. CASE i <= rtPos - 1
      <4>1. Settled(ItemsRT[i])
        BY <1>0, <2>1, <3>2 DEF FrameInv, ServedInv
      <4>2. QED
        BY <1>3, <2>2, <4>1 DEF Settled
    <3>3. QED
      BY <1>0, <2>3, <3>1, <3>2
  <2>4. ServedInv'
    BY <1>0, <2>1, <2>3 DEF ServedInv, Walking, lists
  <2>5. QED
    BY <1>2, <2>4
<1>5. CASE RTReturn
  <2>1. Reached' = Reached /\ phase' = "rt" /\ startframe' = startframe
    BY <1>0, <1>5 DEF RTReturn, Reached
  <2>2. ServedInv'
    BY <1>0, <2>1 DEF FrameInv, ServedInv, Settled, clients, lists
  <2>3. QED
    BY <1>2, <2>2
<1>6. CASE RTDone
  <2>1. phase' = "nt" /\ rtSize <= Reached /\ startframe' = startframe
    BY <1>0, <1>6 DEF RTDone, Reached
  <2>2. ASSUME NEW o \in Objects, InItemsRT(o)
        PROVE  Settled(o)
    <3>1. PICK i \in 1..rtSize : ItemsRT[i] = o
      BY <2>2 DEF InItemsRT, SlotsOf
    <3>2. i <= Reached
      BY <1>0, <1>6, <2>1 DEF RTDone, Reached
    <3>3. QED
      BY <1>0, <3>1, <3>2 DEF FrameInv, ServedInv
  <2>3. ServedInv'
    BY <1>0, <2>1, <2>2 DEF ServedInv, Settled, InItemsRT, SlotsOf, Walking, clients, lists
  <2>4. QED
    BY <1>2, <2>3
<1>7. QED
  BY <1>4, <1>5, <1>6

\* ProcessStep: an item leaves the heap when it is handled, and comes back with
\* a deadline in the future.
LEMMA ProcessFrame ==
    ASSUME FrameInv,
           \/ PopNull \/ (\E o \in Objects : PopUnneeded(o) \/ NTCall(o))
           \/ NTReturnGone \/ NTReturn \/ PushProcessed
    PROVE  DueInv' /\ ServedInv'
<1>0. /\ deadline \in [Objects -> Deadlines] /\ Items \subseteq Objects
      /\ ItemsProcessed \subseteq Objects /\ \A o \in Objects : InOnePlace(o)
      /\ MaxInterval \in Nat
  BY SchedulerAssumption DEF FrameInv, Inv, TypeInv, TypeOK, PlaceInv
<1>1. /\ UNCHANGED <<clients, ItemsRT, rtSize>> /\ startframe \subseteq startframe'
      /\ phase' \in {"nt", "ntCall"} => phase \in {"nt", "ntCall"}
      /\ ~Walking'
  BY DEF PopNull, PopUnneeded, PopItem, NTCall, NTReturnGone, NTReturn, PushProcessed, lists, Walking
<1>2. ServedInv'
  BY <1>1 DEF FrameInv, ServedInv, Settled, InItemsRT, SlotsOf, clients
<1>3. CASE PopNull \/ NTReturnGone
  BY <1>2, <1>3 DEF PopNull, NTReturnGone, FrameInv, DueInv, lists
<1>4. ASSUME NEW o \in Objects, PopUnneeded(o) \/ NTCall(o)
      PROVE  DueInv'
  <2>1. /\ o \in Items /\ Items' = Items \ {o} /\ ItemsProcessed' = ItemsProcessed
        /\ deadline' = [deadline EXCEPT ![o] = 0]
        /\ startframe' \subseteq startframe \cup {o}
    BY <1>4 DEF PopUnneeded, NTCall, PopItem
  <2>2. o \notin ItemsProcessed
    BY <1>0, <2>1 DEF InOnePlace
  <2>3. QED
    BY <1>0, <2>1, <2>2 DEF FrameInv, DueInv
<1>5. CASE NTReturn
  <2>1. PICK dwUpdate \in 1..MaxInterval : deadline' = [deadline EXCEPT ![running] = dwUpdate]
    BY <1>5 DEF NTReturn
  <2>2. /\ Items' = Items /\ startframe' = startframe
        /\ ItemsProcessed' = ItemsProcessed \cup {running}
        /\ running \in Objects
    BY <1>5 DEF NTReturn, FrameInv, Inv, TypeInv, LoopsInRange
  <2>3. \A x \in Objects : deadline'[x] = IF x = running THEN dwUpdate ELSE deadline[x]
    BY <1>0, <2>1
  <2>4. DueInv'
    BY <1>0, <2>2, <2>3 DEF FrameInv, DueInv
  <2>5. QED
    BY <1>2, <2>4
<1>6. CASE PushProcessed
  <2>1. DueInv'
    BY <1>6 DEF PushProcessed, FrameInv, DueInv
  <2>2. QED
    BY <1>2, <2>1
<1>7. QED
  BY <1>2, <1>3, <1>4, <1>5, <1>6

LEMMA FrameInvHolds == ASSUME SelfUnregister = {} PROVE Spec => []FrameInv
<1>1. Init => FrameInv
  <2>1. Init => DueInv /\ ServedInv
    BY DEF Init, DueInv, ServedInv, Walking
  <2>2. QED
    BY <2>1, InvInit DEF FrameInv
<1>2. FrameInv /\ [Next]_vars => FrameInv'
  <2> SUFFICES ASSUME FrameInv, [Next]_vars
               PROVE  FrameInv'
    OBVIOUS
  <2>1. Inv'
    BY InvStep DEF FrameInv
  <2>2. CASE \E o \in Objects : Client(o)
    BY <2>1, <2>2, ClientFrame DEF FrameInv
  <2>3. CASE Engine
    BY <2>1, <2>3, QueueFrame, RealtimeFrame, ProcessFrame DEF Engine, FrameInv
  <2>4. CASE UNCHANGED vars
    <3>1. DueInv' /\ ServedInv'
      BY <2>4 DEF vars, clients, lists, control, FrameInv, DueInv, ServedInv, Walking, Reached,
                  Settled, InItemsRT, SlotsOf
    <3>2. QED
      BY <2>1, <3>1 DEF FrameInv
  <2>5. QED
    BY <2>2, <2>3, <2>4 DEF Next
<1>3. QED
  BY <1>1, <1>2, PTL DEF Spec

\* The realtime loop passes nobody over who needs an update.
THEOREM EachIsServed == ASSUME SelfUnregister = {} PROVE Spec => []RealtimeAllServed
<1>1. FrameInv => RealtimeAllServed
  <2> SUFFICES ASSUME FrameInv, phase = "nt", NEW i \in 1..rtSize
               PROVE  ItemsRT[i] \in startframe \/ ~Needed(ItemsRT[i])
    BY DEF RealtimeAllServed
  <2>1. ItemsRT[i] \in Objects /\ InItemsRT(ItemsRT[i])
    BY DEF FrameInv, Inv, TypeInv, LoopsInRange, InItemsRT, SlotsOf
  <2>2. QED
    BY <2>1 DEF FrameInv, ServedInv, Settled, Needed
<1>2. QED
  BY <1>1, FrameInvHolds, PTL

\* The heap updates nobody who was updated in this frame, however often Update
\* is called in it and whoever leaves and comes back in between.
THEOREM HeapOnce == ASSUME SelfUnregister = {} PROVE Spec => HeapOncePerFrame
<1>1. FrameInv /\ [Next]_vars =>
          [phase = "nt" /\ phase' = "ntCall" => running' \notin startframe]_vars
  <2> SUFFICES ASSUME FrameInv, Next, phase = "nt", phase' = "ntCall"
               PROVE  running' \notin startframe
    OBVIOUS
  <2>1. PICK o \in Objects : NTCall(o)
    BY DEF Next, Engine, Client, Create, Register, SetDestroy, Unregister, Delete, control,
           NewFrame, Update, DrainPair, DrainRegister, DrainUnregister, DrainDone,
           RTSkip, RTCall, RTReturn, RTDone, PopNull, PopUnneeded, NTReturnGone, NTReturn,
           PushProcessed, Draining
  <2>2. o \in Items /\ deadline[o] < 0 /\ running' = o
    BY <2>1 DEF NTCall, PopItem, TopIsDue
  <2>3. deadline[o] \in Int
    BY SchedulerAssumption DEF FrameInv, Inv, TypeInv, TypeOK, Deadlines
  <2>4. QED
    BY <2>2, <2>3 DEF FrameInv, DueInv
<1>2. QED
  BY <1>1, FrameInvHolds, PTL DEF Spec, HeapOncePerFrame

-----------------------------------------------------------------------------
(* One pass in a frame. *)

\* Update has marked nobody before its realtime loop, and in the loop nobody
\* but those it has reached.
StartInv ==
    /\ passes = 0 => phase = "idle" /\ startframe = {}
    /\ phase = "regBegin" => startframe = {}
    /\ Walking => \A o \in startframe : \E i \in 1..rtSize : i <= Reached /\ ItemsRT[i] = o

LEMMA StartStep ==
    ASSUME FrameInv, StartInv, SelfUnregister = {}, MaxPasses = 1, [Next]_vars
    PROVE  StartInv'
<1>0. /\ passes \in Nat /\ rtPos \in Nat \ {0} /\ rtSize \in Nat /\ startframe \subseteq Objects
      /\ Walking => rtEnd = rtSize
  BY SchedulerAssumption DEF FrameInv, Inv, TypeInv, TypeOK, ControlInv
<1>1. CASE NewFrame \/ Update
  <2>1. Update => passes = 0 /\ passes' = 1
    BY <1>0 DEF Update
  <2>2. startframe' = {} /\ phase' \in {"idle", "regBegin"}
    BY <1>1, <2>1 DEF NewFrame, Update, StartInv
  <2>3. passes' = 0 => phase' = "idle"
    BY <1>1, <2>1 DEF NewFrame
  <2>4. QED
    BY <2>2, <2>3 DEF StartInv, Walking
<1>2. CASE DrainPair \/ DrainRegister \/ DrainUnregister
  BY <1>2 DEF DrainPair, DrainRegister, DrainUnregister, Draining, StartInv, Walking, control
<1>3. CASE DrainDone
  BY <1>3 DEF DrainDone, StartInv, Walking
<1>4. CASE RTSkip \/ RTCall \/ RTReturn
  <2>1. /\ UNCHANGED <<ItemsRT, rtSize, passes>> /\ passes # 0
        /\ Walking /\ phase' \in {"rt", "rtCall"}
    BY <1>4 DEF RTSkip, RTCall, RTReturn, StartInv, Walking, lists
  <2>2. Reached' \in Nat /\ Reached \in Nat /\ Reached <= Reached'
    BY <1>0, <1>4 DEF RTSkip, RTCall, RTReturn, Reached
  <2>3. ASSUME NEW o \in startframe'
        PROVE  \E i \in 1..rtSize : i <= Reached' /\ ItemsRT[i] = o
    <3>1. CASE o \in startframe
      <4>1. PICK i \in 1..rtSize : i <= Reached /\ ItemsRT[i] = o
        BY <2>1, <3>1 DEF StartInv
      <4>2. i <= Reached'
        BY <1>0, <2>2, <4>1
      <4>3. QED
        BY <4>1, <4>2
    <3>2. CASE RTCall /\ o = ItemsRT[rtPos]
      <4>1. rtPos \in 1..rtSize /\ rtPos <= Reached'
        BY <1>0, <2>1, <3>2 DEF RTCall, Reached
      <4>2. QED
        BY <3>2, <4>1
    <3>3. QED
      BY <1>4, <2>3, <3>1, <3>2 DEF RTSkip, RTCall, RTReturn
  <2>4. QED
    BY <2>1, <2>3 DEF StartInv
<1>5. CASE RTDone \/ PopNull \/ NTReturnGone \/ NTReturn \/ PushProcessed
           \/ \E o \in Objects : PopUnneeded(o) \/ NTCall(o)
  <2>1. passes' = passes /\ phase # "idle" /\ phase' \in {"nt", "ntCall", "push", "regEnd"}
    BY <1>5 DEF RTDone, PopNull, NTReturnGone, NTReturn, PushProcessed, PopUnneeded, NTCall, PopItem
  <2>2. QED
    BY <2>1 DEF StartInv, Walking
<1>6. CASE \E o \in Objects : Client(o)
  <2>1. PICK o \in Objects : Client(o)
    BY <1>6
  <2>2. UNCHANGED control
    BY <2>1, HeapShrinks DEF FrameInv
  <2>3. Walking => phase = "rtCall" /\ UNCHANGED <<ItemsRT, rtSize>>
    <3>1. Walking => phase = "rtCall"
      BY <2>1 DEF Walking, Client, Create, Register, SetDestroy, Unregister, Delete, ClientTurn
    <3>2. QED
      BY <2>1, <3>1, SlotsStand DEF FrameInv
  <2>4. QED
    BY <2>2, <2>3 DEF StartInv, Walking, Reached, control
<1>7. CASE UNCHANGED vars
  BY <1>7 DEF vars, lists, control, StartInv, Walking, Reached
<1>8. QED
  BY <1>1, <1>2, <1>3, <1>4, <1>5, <1>6, <1>7 DEF Next, Engine

\* With one pass in a frame nobody is updated twice in it: the check of
\* dbg_startframe holds, and no object is updated in both loops.
THEOREM Once == ASSUME SelfUnregister = {}, MaxPasses = 1 PROVE Spec => OncePerFrame
<1>1. Init => StartInv
  BY DEF Init, StartInv, Walking
<1>2. FrameInv /\ StartInv /\ [Next]_vars => StartInv'
  BY StartStep
<1>3. FrameInv /\ StartInv /\ [Next]_vars =>
          [running' \notin {running, None} => running' \notin startframe]_vars
  <2> SUFFICES ASSUME FrameInv, StartInv, Next, running' \notin {running, None}
               PROVE  running' \notin startframe
    OBVIOUS
  <2>1. RTCall \/ \E o \in Objects : NTCall(o)
    BY DEF Next, Engine, Client, Create, Register, SetDestroy, Unregister, Delete, control,
           NewFrame, Update, DrainPair, DrainRegister, DrainUnregister, DrainDone,
           RTSkip, RTReturn, RTDone, PopNull, PopUnneeded, NTReturnGone, NTReturn, PushProcessed
  <2>2. CASE RTCall
    <3>1. /\ Walking /\ rtPos \in 1..rtSize /\ Reached = rtPos - 1 /\ running' = ItemsRT[rtPos]
          /\ rtPos \in Nat /\ rtSize \in Nat
      BY <2>2, SchedulerAssumption
         DEF RTCall, Walking, Reached, FrameInv, Inv, TypeInv, TypeOK, ControlInv
    <3>2. ASSUME running' \in startframe
          PROVE  FALSE
      <4>1. PICK i \in 1..rtSize : i <= rtPos - 1 /\ ItemsRT[i] = ItemsRT[rtPos]
        BY <3>1, <3>2 DEF StartInv
      <4>2. i = rtPos
        BY <3>1, <4>1 DEF FrameInv, Inv, ControlInv, SlotsDistinct
      <4>3. QED
        BY <3>1, <4>1, <4>2
    <3>3. QED
      BY <3>2
  <2>3. CASE \E o \in Objects : NTCall(o)
    <3>1. PICK o \in Objects : NTCall(o)
      BY <2>3
    <3>2. o \in Items /\ deadline[o] < 0 /\ running' = o
      BY <3>1 DEF NTCall, PopItem, TopIsDue
    <3>3. deadline[o] \in Int
      BY SchedulerAssumption DEF FrameInv, Inv, TypeInv, TypeOK, Deadlines
    <3>4. QED
      BY <3>2, <3>3 DEF FrameInv, DueInv
  <2>4. QED
    BY <2>1, <2>2, <2>3
<1>4. QED
  BY <1>1, <1>2, <1>3, FrameInvHolds, PTL DEF Spec, OncePerFrame

-----------------------------------------------------------------------------
(* The scheduler implements SchedulerPromise. *)

\* A set of numbers has a least element.
LEMMA LeastNatural ==
    ASSUME NEW S \in SUBSET Nat, S # {}
    PROVE  \E n \in S : \A m \in S : n <= m
<1> DEFINE R == {ss \in Nat \X Nat : ss[1] < ss[2]}
<1>1. OpToRel(<, Nat) = R
  BY Zenon DEF OpToRel
<1>2. IsWellFoundedOn(R, Nat)
  BY Zenon, <1>1, NatLessThanWellFounded
<1>3. \E n \in S : \A m \in S : ~ (<<m, n>> \in R)
  <2> HIDE DEF R
  <2>1. QED
    BY Zenon, <1>2, WFMin
<1>4. PICK n \in S : \A m \in S : ~ (<<m, n>> \in R)
  BY <1>3
<1>5. ASSUME NEW m \in S
      PROVE  n <= m
  <2>1. <<m, n>> \in Nat \X Nat
    OBVIOUS
  <2>2. ~ (m < n)
    BY <1>4, <2>1
  <2>3. QED
    BY <2>2
<1>6. QED
  BY <1>5

Scheduled == {o \in Objects : Effective(o)}

\* What the queue will make of o, told without looking into the queue.
Meant(o) == IF Quiet(o) THEN Listed(o) ELSE o \in RegisteredClients

\* The last entry of the queue agrees with the client, so the two are the same.
LEMMA EffectiveIs ==
    ASSUME Inv, NEW o \in Objects
    PROVE  Effective(o) <=> Meant(o)
<1>1. Registration \in Seq(ItemReg) /\ Len(Registration) \in Nat
      /\ DOMAIN Registration = 1..Len(Registration)
  BY LenProperties DEF Inv, TypeInv, TypeOK
<1>2. CASE Quiet(o)
  <2>1. Entries(o) = {}
    BY <1>1, <1>2 DEF Entries, Quiet
  <2>2. QED
    BY <1>2, <2>1 DEF Effective, Meant
<1>3. CASE ~Quiet(o)
  <2>1. Entries(o) # {} /\ Entries(o) \subseteq 1..Len(Registration)
    BY <1>1, <1>3 DEF Entries, Quiet
  <2>2. \E k \in Entries(o) : \A m \in Entries(o) : m <= k
    <3> DEFINE fromEnd == {n \in Nat : \E k \in Entries(o) : n = Len(Registration) - k}
    <3>1. fromEnd \in SUBSET Nat /\ fromEnd # {}
      BY <1>1, <2>1
    <3>2. PICK n \in fromEnd : \A m \in fromEnd : n <= m
      BY <3>1, LeastNatural
    <3>3. PICK k \in Entries(o) : n = Len(Registration) - k
      BY <3>2
    <3>4. \A m \in Entries(o) : Len(Registration) - m \in fromEnd
      BY <1>1, <2>1
    <3>5. ASSUME NEW m \in Entries(o)
          PROVE  m <= k
      <4>1. m \in 1..Len(Registration) /\ k \in 1..Len(Registration)
        BY <2>1
      <4>2. n <= Len(Registration) - m
        <5> HIDE DEF fromEnd
        <5>1. QED
          BY <3>2, <3>4
      <4>3. QED
        BY <1>1, <3>3, <4>1, <4>2
    <3>6. QED
      BY <3>5
  <2>3. PICK k \in Entries(o) :
            /\ \A m \in Entries(o) : m <= k
            /\ k = CHOOSE i \in Entries(o) : \A m \in Entries(o) : m <= i
    BY <2>2
  <2>4. k \in 1..Len(Registration) /\ Registration[k].Object = o
    BY <1>1, <2>3 DEF Entries
  <2>5. IsLast(Registration, k)
    BY <1>1, <2>3, <2>4 DEF IsLast, Entries
  <2>6. Registration[k].OP <=> o \in RegisteredClients
    BY <2>4, <2>5 DEF Inv, LastInv
  <2>7. QED
    BY <1>3, <2>1, <2>3, <2>6 DEF Effective, Meant
<1>4. QED
  BY <1>2, <1>3

\* An object that is scheduled is registered; the other way round only one that
\* is about to be destroyed may be missing.
AsMeant ==
    \A o \in Objects :
        /\ o \in Scheduled <=> Meant(o)
        /\ Meant(o) => o \in RegisteredClients
        /\ client[o] = "in" => Meant(o)

LEMMA MeantBounds == Inv => AsMeant
<1> SUFFICES ASSUME Inv, NEW o \in Objects
             PROVE  /\ o \in Scheduled <=> Meant(o)
                    /\ Meant(o) => o \in RegisteredClients
                    /\ client[o] = "in" => Meant(o)
  BY DEF AsMeant
<1>1. o \in Scheduled <=> Meant(o)
  BY EffectiveIs DEF Scheduled
<1>2. QED
  BY <1>1 DEF Inv, PlaceInv, Agrees, Meant, RegisteredClients

LEMMA MeantBoundsNext == Inv' => AsMeant'
BY MeantBounds, PTL

\* So whether a step schedules or drops anything is decided by the objects its
\* client registers, unregisters or has doomed.
LEMMA ScheduledChange ==
    ASSUME Inv, Inv', NEW x \in Objects,
           client'[x] = "doomed" => client[x] \in {"in", "doomed"} /\ (Meant(x)' <=> Meant(x)),
           client'[x] = "in" => client[x] = "in",
           client[x] \in {"in", "doomed"} => client'[x] \in {"in", "doomed"}
    PROVE  /\ x \in RegisteredClients' <=> x \in RegisteredClients
           /\ x \in Scheduled' <=> x \in Scheduled
<1>1. x \in RegisteredClients' <=> x \in RegisteredClients
  BY DEF RegisteredClients
<1>2. AsMeant /\ AsMeant'
  BY MeantBounds, MeantBoundsNext
<1>3. /\ x \in Scheduled <=> Meant(x)
      /\ x \in Scheduled' <=> Meant(x)'
      /\ Meant(x) => x \in RegisteredClients
      /\ client[x] = "in" => Meant(x)
      /\ Meant(x)' => x \in RegisteredClients'
      /\ client'[x] = "in" => Meant(x)'
  BY <1>2 DEF AsMeant
<1>4. x \in RegisteredClients' => client'[x] \in {"in", "doomed"}
  BY DEF RegisteredClients
<1>5. Meant(x)' <=> Meant(x)
  BY <1>1, <1>3, <1>4
<1>6. QED
  BY <1>1, <1>3, <1>5

\* A step that changes neither the queue nor where an object is listed.
LEMMA NothingScheduled ==
    ASSUME Inv, Inv', NEW x \in Objects, client'[x] = client[x],
           Quiet(x)' <=> Quiet(x), Listed(x)' <=> Listed(x)
    PROVE  /\ x \in RegisteredClients' <=> x \in RegisteredClients
           /\ x \in Scheduled' <=> x \in Scheduled
<1>1. x \in RegisteredClients' <=> x \in RegisteredClients
  BY DEF RegisteredClients
<1>2. Meant(x)' <=> Meant(x)
  BY <1>1 DEF Meant
<1>3. QED
  BY <1>2, ScheduledChange

\* An update is on the stack in the two call phases and in no other.
RunsInCall == phase \in {"rtCall", "ntCall"} <=> running # None

LEMMA RunsInCallStep == Inv /\ RunsInCall /\ [Next]_vars => RunsInCall'
<1> SUFFICES ASSUME Inv, RunsInCall, [Next]_vars
             PROVE  RunsInCall'
  OBVIOUS
<1>1. CASE RTCall
  <2>1. rtPos \in 1..rtSize
    BY <1>1 DEF RTCall, Inv, TypeInv, TypeOK, ControlInv, Walking
  <2>2. ItemsRT[rtPos] # None
    BY <2>1, SchedulerAssumption DEF Inv, TypeInv, LoopsInRange
  <2>3. QED
    BY <1>1, <2>2 DEF RTCall, RunsInCall
<1>2. CASE \E o \in Objects : NTCall(o)
  BY <1>2, SchedulerAssumption DEF NTCall, RunsInCall
<1>3. CASE \E o \in Objects : Client(o)
  BY <1>3, HeapShrinks DEF RunsInCall, control
<1>4. CASE RTReturn \/ NTReturnGone \/ NTReturn
  BY <1>4 DEF RTReturn, NTReturnGone, NTReturn, RunsInCall
<1>5. CASE \/ NewFrame \/ Update \/ DrainPair \/ DrainRegister \/ DrainUnregister \/ DrainDone
           \/ RTSkip \/ RTDone \/ PopNull \/ PushProcessed \/ \E o \in Objects : PopUnneeded(o)
  BY <1>5 DEF NewFrame, Update, DrainPair, DrainRegister, DrainUnregister, DrainDone, Draining,
              RTSkip, RTDone, PopNull, PopUnneeded, PopItem, PushProcessed, RunsInCall, control
<1>6. CASE UNCHANGED vars
  BY <1>6 DEF vars, control, RunsInCall
<1>7. QED
  BY <1>1, <1>2, <1>3, <1>4, <1>5, <1>6 DEF Next, Engine

\* What the steps of the promise say.
LEMMA PromiseSteps ==
    ASSUME NEW o \in Objects
    PROVE  /\ Promise!Register(o) <=>
                  /\ o \notin RegisteredClients
                  /\ RegisteredClients' = RegisteredClients \cup {o}
                  /\ Scheduled' = Scheduled \cup {o} /\ running' = running
           /\ Promise!Unregister(o) <=>
                  /\ o \in RegisteredClients
                  /\ RegisteredClients' = RegisteredClients \ {o}
                  /\ Scheduled' = Scheduled \ {o} /\ running' = running
           /\ Promise!Drop(o) <=>
                  /\ o \in Scheduled /\ Scheduled' = Scheduled \ {o}
                  /\ RegisteredClients' = RegisteredClients /\ running' = running
           /\ Promise!Call(o) <=>
                  /\ running = None /\ o \in Scheduled /\ running' = o
                  /\ RegisteredClients' = RegisteredClients /\ Scheduled' = Scheduled
           /\ Promise!Return <=>
                  /\ running # None /\ running' = None
                  /\ RegisteredClients' = RegisteredClients /\ Scheduled' = Scheduled
  BY DEF Promise!Register, Promise!Unregister, Promise!Drop, Promise!Call, Promise!Return, Scheduled

PromiseStep ==
    \/ Promise!Next
    \/ RegisteredClients' = RegisteredClients /\ Scheduled' = Scheduled /\ running' = running

\* Registered and scheduled objects are all that the promise sees.
LEMMA SetsSame ==
    ASSUME \A x \in Objects : /\ x \in RegisteredClients' <=> x \in RegisteredClients
                              /\ x \in Scheduled' <=> x \in Scheduled
    PROVE  RegisteredClients' = RegisteredClients /\ Scheduled' = Scheduled
<1>1. RegisteredClients' = RegisteredClients
  BY DEF RegisteredClients
<1>2. Scheduled' = Scheduled
  BY DEF Scheduled
<1>3. QED
  BY <1>1, <1>2

LEMMA InitPromise == Init => Promise!Init
<1> SUFFICES ASSUME Init
             PROVE  Promise!Init
  OBVIOUS
<1>1. Inv
  BY InvInit
<1>2. RegisteredClients = {}
  BY DEF Init, RegisteredClients
<1>3. ASSUME NEW o \in Objects
      PROVE  ~Effective(o)
  BY <1>1, <1>2, MeantBounds DEF AsMeant, Scheduled
<1>4. running = None
  BY DEF Init
<1>5. QED
  BY <1>2, <1>3, <1>4 DEF Promise!Init

\* A client moves no object but its own.
LEMMA OthersUntouched ==
    ASSUME Inv, NEW o \in Objects, Client(o), NEW x \in Objects, x # o
    PROVE  (Quiet(x)' <=> Quiet(x)) /\ (Listed(x)' <=> Listed(x))
<1>0. /\ Registration \in Seq(ItemReg) /\ b_RT[o] \in BOOLEAN
      /\ ItemsProcessed' = ItemsProcessed
  BY HeapShrinks DEF Inv, TypeInv, TypeOK
<1>1. ASSUME NEW e, e.Object = o, Registration' = Append(Registration, e)
      PROVE  Quiet(x)' <=> Quiet(x)
  <2>1. /\ Len(Registration') = Len(Registration) + 1 /\ Len(Registration) \in Nat
        /\ \A k \in 1..Len(Registration) : Registration'[k] = Registration[k]
        /\ Registration'[Len(Registration) + 1] = e
    BY <1>0, <1>1, AppendProperties, LenProperties
  <2>2. QED
    BY <1>1, <2>1 DEF Quiet
<1>2. ASSUME UNCHANGED <<lists, m_current_step_obj>>
      PROVE  Listed(x)' <=> Listed(x)
  BY <1>0, <1>2 DEF Listed, InLists, SlotsOf, lists
<1>3. CASE UnregisterNow(o)
  <2>1. CASE m_processing_now /\ Found(o, b_RT[o])
    <3>1. b_RT[o] <=> InItemsRT(o)
      BY <2>1, ReachedIsRegistered DEF Found, InItemsRT
    <3>2. internal_Unregister(o, b_RT[o]) /\ UNCHANGED Registration
      BY <1>3, <2>1 DEF UnregisterNow
    <3>3. /\ InItemsRT(x)' <=> InItemsRT(x)
          /\ x \in Items' <=> x \in Items
          /\ m_current_step_obj' = x <=> m_current_step_obj = x
      BY <1>0, <1>1, <3>1, <3>2, RemovesOne
    <3>4. QED
      BY <1>0, <3>2, <3>3 DEF Quiet, Listed, InLists, InItemsRT
  <2>2. CASE ~(m_processing_now /\ Found(o, b_RT[o]))
    <3>1. /\ Registration' = Append(Registration, [OP |-> FALSE, RT |-> b_RT[o], Object |-> o])
          /\ UNCHANGED <<lists, m_current_step_obj>>
      BY <1>3, <2>2 DEF UnregisterNow
    <3>2. QED
      BY <1>1, <1>2, <3>1
  <2>3. QED
    BY <2>1, <2>2
<1>4. CASE UNCHANGED <<lists, Registration, m_current_step_obj>>
  BY <1>2, <1>4 DEF Quiet
<1>5. CASE \E RT \in BOOLEAN : Register(o, RT)
  <2>1. PICK RT \in BOOLEAN : Register(o, RT)
    BY <1>5
  <2>2. /\ Registration' = Append(Registration, [OP |-> TRUE, RT |-> RT, Object |-> o])
        /\ UNCHANGED <<lists, m_current_step_obj>>
    BY <2>1 DEF Register
  <2>3. QED
    BY <1>1, <1>2, <2>2
<1>6. QED
  BY <1>3, <1>4, <1>5 DEF Client, Create, SetDestroy, Unregister, Delete

\* Clients: Register and Unregister take effect at once.
LEMMA ClientPromise ==
    ASSUME Inv, Inv', SelfUnregister = {}, NEW o \in Objects, Client(o)
    PROVE  PromiseStep
<1>0. /\ client \in [Objects -> {"free", "out", "in", "doomed"}]
      /\ running' = running
  BY HeapShrinks DEF Inv, TypeInv, TypeOK, control
<1>1. ASSUME NEW x \in Objects, x # o
      PROVE  /\ x \in RegisteredClients' <=> x \in RegisteredClients
             /\ x \in Scheduled' <=> x \in Scheduled
  <2>1. client'[x] = client[x]
    BY <1>0, <1>1 DEF Client, Create, Register, SetDestroy, Unregister, Delete
  <2>2. (Quiet(x)' <=> Quiet(x)) /\ (Listed(x)' <=> Listed(x))
    BY <1>1, OthersUntouched
  <2>3. QED
    BY <2>1, <2>2, NothingScheduled
<1>2. CASE \E RT \in BOOLEAN : Register(o, RT)
  <2>1. client[o] = "out" /\ client'[o] = "in"
    BY <1>0, <1>2 DEF Register
  <2>2. o \notin RegisteredClients /\ o \in RegisteredClients'
    BY <2>1 DEF RegisteredClients
  <2>3. o \in Scheduled'
    BY <2>1, MeantBoundsNext DEF AsMeant
  <2>4. /\ RegisteredClients' = RegisteredClients \cup {o}
        /\ Scheduled' = Scheduled \cup {o}
    <3>1. RegisteredClients' \subseteq Objects /\ RegisteredClients \subseteq Objects
      BY DEF RegisteredClients
    <3>2. Scheduled' \subseteq Objects /\ Scheduled \subseteq Objects
      BY DEF Scheduled
    <3>3. QED
      BY <1>1, <2>2, <2>3, <3>1, <3>2
  <2>5. QED
    BY <1>0, <2>2, <2>4, PromiseSteps DEF PromiseStep, Promise!Next
<1>3. CASE Unregister(o)
  <2>1. client[o] \in {"in", "doomed"} /\ client'[o] = "out"
    BY <1>0, <1>3 DEF Unregister
  <2>2. o \in RegisteredClients /\ o \notin RegisteredClients'
    BY <2>1 DEF RegisteredClients
  <2>3. o \notin Scheduled'
    BY <2>2, MeantBoundsNext DEF AsMeant
  <2>4. /\ RegisteredClients' = RegisteredClients \ {o}
        /\ Scheduled' = Scheduled \ {o}
    <3>1. RegisteredClients' \subseteq Objects /\ RegisteredClients \subseteq Objects
      BY DEF RegisteredClients
    <3>2. Scheduled' \subseteq Objects /\ Scheduled \subseteq Objects
      BY DEF Scheduled
    <3>3. QED
      BY <1>1, <2>2, <2>3, <3>1, <3>2
  <2>5. QED
    BY <1>0, <2>2, <2>4, PromiseSteps DEF PromiseStep, Promise!Next
<1>4. CASE Create(o) \/ Delete(o)
  <2>1. client[o] \in {"free", "out"} /\ client'[o] \in {"free", "out"}
    BY <1>0, <1>4 DEF Create, Delete
  <2>2. /\ o \in RegisteredClients' <=> o \in RegisteredClients
        /\ o \in Scheduled' <=> o \in Scheduled
    BY <2>1, ScheduledChange
  <2>3. QED
    BY <1>0, <1>1, <2>2, SetsSame DEF PromiseStep
<1>5. CASE SetDestroy(o)
  <2>1. client[o] = "in" /\ client'[o] = "doomed"
    BY <1>0, <1>5 DEF SetDestroy
  <2>2. (Quiet(o)' <=> Quiet(o)) /\ (Listed(o)' <=> Listed(o))
    BY <1>5 DEF SetDestroy, Quiet, Listed, InLists, SlotsOf, lists
  <2>3. Meant(o) /\ o \in RegisteredClients'
    BY <2>1, MeantBounds DEF AsMeant, RegisteredClients
  <2>4. Meant(o)' <=> Meant(o)
    BY <2>2, <2>3 DEF Meant
  <2>5. /\ o \in RegisteredClients' <=> o \in RegisteredClients
        /\ o \in Scheduled' <=> o \in Scheduled
    BY <2>1, <2>4, ScheduledChange
  <2>6. QED
    BY <1>0, <1>1, <2>5, SetsSame DEF PromiseStep
<1>6. QED
  BY <1>2, <1>3, <1>4, <1>5 DEF Client

\* Draining the queue: what the queue meant is what the lists become.
LEMMA DrainPromise ==
    ASSUME Inv, Inv', DrainPair \/ DrainRegister \/ DrainUnregister
    PROVE  PromiseStep
<1>0. client' = client /\ running' = running /\ ItemsProcessed' = ItemsProcessed
  BY DEF DrainPair, DrainRegister, DrainUnregister, clients, control
<1>1. PICK o \in Objects : /\ o = Request.Object /\ Request = Registration[1]
                           /\ Registration \in Seq(ItemReg) /\ Len(Registration) \in Nat \ {0}
                           /\ Listed(o) => ~Request.OP /\ (Request.RT <=> InItemsRT(o))
                           /\ m_current_step_obj = None
  BY RequestFacts DEF DrainPair, DrainRegister, DrainUnregister
<1>2. ~Quiet(o)
  BY <1>1 DEF Quiet
<1>3. ASSUME client[o] = "doomed", Quiet(o)'
      PROVE  Listed(o)'
  <2>1. CASE DrainRegister
    <3>1. internal_Register(o, Request.RT)
      BY <1>1, <2>1 DEF DrainRegister
    <3>2. CASE Request.RT
      <4>1. rtSize + 1 \in 1..RTCapacity /\ ItemsRT \in [1..RTCapacity -> Objects \cup {None}]
        BY <3>1, <3>2, SchedulerAssumption DEF internal_Register, Inv, TypeInv, TypeOK
      <4>2. ItemsRT'[rtSize + 1] = o /\ rtSize' = rtSize + 1 /\ rtSize \in Nat
        BY <3>1, <3>2, <4>1, SchedulerAssumption DEF internal_Register, Inv, TypeInv, TypeOK
      <4>3. QED
        BY <4>2 DEF Listed, InLists, SlotsOf
    <3>3. CASE ~Request.RT
      BY <3>1, <3>3 DEF internal_Register, Listed, InLists
    <3>4. QED
      BY <3>2, <3>3
  <2>2. CASE DrainPair \/ DrainUnregister
    <3>1. PICK p \in 1..Len(Registration) :
              /\ Registration[p].Object = o /\ ~Registration[p].OP
              /\ \A j \in (p + 1)..Len(Registration) :
                     \E k \in 1..Len(Registration') : Registration'[k] = Registration[j]
      <4>1. CASE DrainPair
        <5>1. PICK p \in 2..Len(Registration) :
                  /\ ~Registration[p].OP /\ Registration[p].Object = Registration[1].Object
                  /\ Registration' = Tail(RemoveAt(Registration, p))
                  /\ \A m \in 2..Len(Registration) :
                        ~Registration[m].OP /\ Registration[m].Object = Registration[1].Object => p <= m
          BY <1>1, <4>1 DEF DrainPair, LaterUnregisters
        <5>2. \A j \in 2..Len(Registration) : j = p \/ \E k \in 1..Len(Registration') :
                                                           Registration'[k] = Registration[j]
          BY <1>1, <4>1, <5>1, PairFollows DEF DrainPair, Inv
        <5>3. /\ p \in 1..Len(Registration)
              /\ \A j \in (p + 1)..Len(Registration) : j \in 2..Len(Registration) /\ j # p
          BY <1>1, <5>1
        <5>4. QED
          BY <1>1, <5>1, <5>2, <5>3
      <4>2. CASE DrainUnregister
        <5>1. Registration' = Tail(Registration) /\ Registration # <<>> /\ ~Registration[1].OP
          BY <1>1, <4>2 DEF DrainUnregister, Draining
        <5>2. \A j \in 2..Len(Registration) : \E k \in 1..Len(Registration') :
                                                  Registration'[k] = Registration[j]
          BY <1>1, <5>1, TailFollows DEF Inv
        <5>3. 1 \in 1..Len(Registration)
          BY <1>1
        <5>4. QED
          BY <1>1, <5>1, <5>2, <5>3
      <4>3. QED
        BY <2>2, <4>1, <4>2
    <3>2. IsLast(Registration, p)
      BY <1>3, <3>1 DEF IsLast, Quiet
    <3>3. o \notin RegisteredClients
      BY <3>1, <3>2 DEF Inv, LastInv
    <3>4. QED
      BY <1>3, <3>3 DEF RegisteredClients
  <2>3. QED
    BY <2>1, <2>2
<1>4. ASSUME NEW x \in Objects, x # o
      PROVE  (Quiet(x)' <=> Quiet(x)) /\ (Listed(x)' <=> Listed(x))
  <2>1. PICK r \in Seq(ItemReg) :
            /\ r = Registration'
            /\ \A k \in 1..Len(r) : \E j \in 2..Len(Registration) : r[k] = Registration[j]
            /\ \A j \in 2..Len(Registration) : Registration[j].Object # o =>
                                                  \E k \in 1..Len(r) : r[k] = Registration[j]
    <3>1. \/ /\ Registration' = Tail(Registration) /\ Registration # <<>>
          \/ \E p \in 2..Len(Registration) :
                /\ Registration[1].OP
                /\ ~Registration[p].OP /\ Registration[p].Object = Registration[1].Object
                /\ Registration' = Tail(RemoveAt(Registration, p))
                /\ \A m \in 2..Len(Registration) :
                      ~Registration[m].OP /\ Registration[m].Object = Registration[1].Object => p <= m
      BY <1>1 DEF DrainPair, DrainRegister, DrainUnregister, Draining, LaterUnregisters
    <3>2. /\ Follows(Registration', Registration)
          /\ \A j \in 2..Len(Registration) :
                Registration[j].Object # o =>
                    \E k \in 1..Len(Registration') : Registration'[k] = Registration[j]
      <4>1. CASE Registration' = Tail(Registration) /\ Registration # <<>>
        BY <1>1, <4>1, TailFollows DEF Inv
      <4>2. ASSUME NEW p \in 2..Len(Registration), Registration[1].OP,
                   ~Registration[p].OP, Registration[p].Object = Registration[1].Object,
                   Registration' = Tail(RemoveAt(Registration, p)),
                   \A m \in 2..Len(Registration) :
                      ~Registration[m].OP /\ Registration[m].Object = Registration[1].Object => p <= m
            PROVE  /\ Follows(Registration', Registration)
                   /\ \A j \in 2..Len(Registration) :
                         j = p \/ \E k \in 1..Len(Registration') : Registration'[k] = Registration[j]
        BY <1>1, <4>2, PairFollows DEF Inv
      <4>3. QED
        BY <1>1, <3>1, <4>1, <4>2
    <3>3. \A k \in 1..Len(Registration') : \E j \in 2..Len(Registration) :
              Registration'[k] = Registration[j]
      BY <3>2 DEF Follows
    <3>4. Registration' \in Seq(ItemReg)
      BY DEF Inv, TypeInv, TypeOK
    <3>5. QED
      BY <3>2, <3>3, <3>4
  <2>2. Quiet(x)' <=> Quiet(x)
    <3>1. ASSUME NEW j \in 1..Len(Registration), Registration[j].Object = x
          PROVE  j \in 2..Len(Registration)
      BY <1>1, <1>4, <3>1
    <3>2. ASSUME ~Quiet(x)
          PROVE  ~Quiet(x)'
      <4>1. PICK j \in 1..Len(Registration) : Registration[j].Object = x
        BY <3>2 DEF Quiet
      <4>2. j \in 2..Len(Registration)
        BY <3>1, <4>1
      <4>3. PICK k \in 1..Len(r) : r[k] = Registration[j]
        BY <1>4, <2>1, <4>1, <4>2
      <4>4. QED
        BY <2>1, <4>1, <4>3 DEF Quiet
    <3>3. ASSUME ~Quiet(x)'
          PROVE  ~Quiet(x)
      <4>1. PICK k \in 1..Len(r) : r[k].Object = x
        BY <2>1, <3>3 DEF Quiet
      <4>2. PICK j \in 2..Len(Registration) : r[k] = Registration[j]
        BY <2>1, <4>1
      <4>3. j \in 1..Len(Registration)
        BY <1>1
      <4>4. QED
        BY <4>1, <4>2, <4>3 DEF Quiet
    <3>4. QED
      BY <3>2, <3>3
  <2>3. CASE DrainPair
    BY <1>0, <2>2, <2>3 DEF DrainPair, Listed, InLists, SlotsOf, lists
  <2>4. CASE DrainRegister
    <3>1. internal_Register(o, Request.RT) /\ UNCHANGED <<ItemsProcessed, m_current_step_obj>>
      BY <1>1, <2>4 DEF DrainRegister
    <3>2. CASE Request.RT
      <4>1. /\ rtSize \in Nat /\ rtSize + 1 \in 1..RTCapacity /\ DOMAIN ItemsRT = 1..RTCapacity
            /\ rtSize' = rtSize + 1 /\ Items' = Items
            /\ ItemsRT' = [ItemsRT EXCEPT ![rtSize + 1] = o]
        BY <3>1, <3>2, SchedulerAssumption DEF internal_Register, Inv, TypeInv, TypeOK
      <4>2. /\ \A i \in 1..rtSize : ItemsRT'[i] = ItemsRT[i] /\ i \in 1..rtSize'
            /\ \A i \in 1..rtSize' : ItemsRT'[i] = x => i \in 1..rtSize
        BY <1>4, <4>1, SchedulerAssumption
      <4>3. InItemsRT(x)' <=> InItemsRT(x)
        BY <4>2 DEF InItemsRT, SlotsOf
      <4>4. QED
        BY <2>2, <3>1, <4>1, <4>3 DEF Listed, InLists, InItemsRT
    <3>3. CASE ~Request.RT
      BY <1>4, <2>2, <3>1, <3>3 DEF internal_Register, Listed, InLists, SlotsOf
    <3>4. QED
      BY <3>2, <3>3
  <2>5. CASE DrainUnregister
    <3>1. CASE Found(o, Request.RT)
      <4>1. Request.RT <=> InItemsRT(o)
        BY <1>1, <3>1 DEF Found, Listed, InLists, InItemsRT
      <4>2. internal_Unregister(o, Request.RT) /\ Request.RT \in BOOLEAN
        <5>1. Request \in ItemReg
          BY <2>5, RequestFacts DEF DrainUnregister
        <5>2. QED
          BY <1>1, <2>5, <3>1, <5>1 DEF DrainUnregister, ItemReg
      <4>3. QED
        BY <1>0, <1>4, <2>2, <4>1, <4>2, RemovesOne DEF Listed, InLists, InItemsRT
    <3>2. CASE ~Found(o, Request.RT)
      BY <1>0, <1>1, <2>2, <2>5, <3>2 DEF DrainUnregister, Listed, InLists, SlotsOf, lists
    <3>3. QED
      BY <3>1, <3>2
  <2>6. QED
    BY <2>3, <2>4, <2>5
<1>5. ASSUME NEW x \in Objects
      PROVE  /\ x \in RegisteredClients' <=> x \in RegisteredClients
             /\ x \in Scheduled' <=> x \in Scheduled
  <2>1. CASE x = o
    <3>1. client[o] = "doomed" => (Meant(o)' <=> Meant(o))
      BY <1>0, <1>2, <1>3 DEF Meant, RegisteredClients
    <3>2. QED
      BY <1>0, <2>1, <3>1, ScheduledChange
  <2>2. CASE x # o
    BY <1>0, <1>4, <2>2, NothingScheduled
  <2>3. QED
    BY <2>1, <2>2
<1>6. QED
  BY <1>0, <1>5, SetsSame DEF PromiseStep

\* Update: calls and returns, and what is no longer needed is dropped.
LEMMA UpdatePromise ==
    ASSUME Inv, Inv', RunsInCall,
           \/ NewFrame \/ Update \/ DrainDone \/ RTSkip \/ RTCall \/ RTReturn \/ RTDone
           \/ PopNull \/ (\E o \in Objects : PopUnneeded(o) \/ NTCall(o))
           \/ NTReturnGone \/ NTReturn \/ PushProcessed
    PROVE  PromiseStep
<1>0. /\ UNCHANGED <<clients, ItemsRT, rtSize, Registration>>
      /\ \A x \in Objects : client'[x] = client[x] /\ (Quiet(x)' <=> Quiet(x))
  <2>1. UNCHANGED <<clients, ItemsRT, rtSize, Registration>>
    BY DEF NewFrame, Update, DrainDone, RTSkip, RTCall, RTReturn, RTDone, PopNull, PopUnneeded,
           NTCall, PopItem, NTReturnGone, NTReturn, PushProcessed, lists
  <2>2. QED
    BY <2>1 DEF clients, Quiet
<1>1. ASSUME NEW x \in Objects,
             \/ UNCHANGED <<Items, ItemsProcessed, m_current_step_obj>>
             \/ PushProcessed \/ NTReturn \/ (\E o \in Objects : NTCall(o))
             \/ (\E o \in Objects : o # x /\ PopUnneeded(o))
      PROVE  /\ x \in RegisteredClients' <=> x \in RegisteredClients
             /\ x \in Scheduled' <=> x \in Scheduled
  <2>1. CASE UNCHANGED <<Items, ItemsProcessed, m_current_step_obj>>
    BY <1>0, <2>1, NothingScheduled DEF Listed, InLists, SlotsOf
  <2>2. CASE PushProcessed
    BY <1>0, <2>2, NothingScheduled DEF PushProcessed, Listed, InLists, SlotsOf
  <2>3. CASE NTReturn
    <3>1. m_current_step_obj = running /\ m_current_step_obj' = None /\ x # None
      BY <2>3, SchedulerAssumption DEF NTReturn, Inv, ControlInv
    <3>2. Listed(x)' <=> Listed(x)
      BY <1>0, <2>3, <3>1 DEF NTReturn, Listed, InLists, SlotsOf
    <3>3. QED
      BY <1>0, <3>2, NothingScheduled
  <2>4. CASE \E o \in Objects : NTCall(o)
    <3>1. PICK o \in Objects : NTCall(o)
      BY <2>4
    <3>2. m_current_step_obj = None /\ x # None
      BY <3>1, SchedulerAssumption DEF NTCall, PopItem, Inv, ControlInv
    <3>3. Listed(x)' <=> Listed(x)
      BY <1>0, <3>1, <3>2 DEF NTCall, PopItem, Listed, InLists, SlotsOf
    <3>4. QED
      BY <1>0, <3>3, NothingScheduled
  <2>5. CASE \E o \in Objects : o # x /\ PopUnneeded(o)
    BY <1>0, <2>5, NothingScheduled DEF PopUnneeded, PopItem, Listed, InLists, SlotsOf
  <2>6. QED
    BY <1>1, <2>1, <2>2, <2>3, <2>4, <2>5
<1>2. ASSUME NEW o \in Objects, m_processing_now, phase \notin {"rtCall", "ntCall"},
             InItemsRT(o) \/ o \in Items
      PROVE  o \in Scheduled /\ running = None
  <2>1. Quiet(o)
    BY <1>2, ReachedIsRegistered
  <2>2. Meant(o)
    BY <1>2, <2>1 DEF Meant, Listed, InLists, InItemsRT
  <2>3. QED
    BY <1>2, <2>2, MeantBounds DEF AsMeant, RunsInCall
<1>3. CASE NewFrame \/ Update \/ DrainDone \/ RTSkip \/ RTDone \/ PopNull \/ PushProcessed
  <2>1. /\ running' = running
        /\ UNCHANGED <<Items, ItemsProcessed, m_current_step_obj>> \/ PushProcessed
    BY <1>3 DEF NewFrame, Update, DrainDone, RTSkip, RTDone, PopNull, PushProcessed, lists
  <2>2. QED
    BY <1>1, <2>1, SetsSame DEF PromiseStep
<1>4. CASE RTReturn \/ NTReturnGone \/ NTReturn
  <2>1. running # None /\ running' = None
    BY <1>4 DEF RTReturn, NTReturnGone, NTReturn, RunsInCall
  <2>2. UNCHANGED <<Items, ItemsProcessed, m_current_step_obj>> \/ NTReturn
    BY <1>4 DEF RTReturn, NTReturnGone, lists
  <2>3. RegisteredClients' = RegisteredClients /\ Scheduled' = Scheduled
    BY <1>1, <2>2, SetsSame
  <2>4. Promise!Return
    BY <2>1, <2>3 DEF Promise!Return, Scheduled
  <2>5. QED
    BY <2>4 DEF PromiseStep, Promise!Next
<1>5. CASE RTCall
  <2>1. /\ phase = "rt" /\ rtPos \in 1..rtSize /\ running' = ItemsRT[rtPos]
        /\ UNCHANGED <<Items, ItemsProcessed, m_current_step_obj>>
    BY <1>5 DEF RTCall, lists, Inv, TypeInv, TypeOK, ControlInv, Walking
  <2>2. PICK o \in Objects : o = ItemsRT[rtPos]
    BY <2>1 DEF Inv, TypeInv, LoopsInRange
  <2>3. InItemsRT(o) /\ m_processing_now
    BY <2>1, <2>2 DEF InItemsRT, SlotsOf, m_processing_now
  <2>4. o \in Scheduled /\ running = None
    BY <1>2, <2>1, <2>3
  <2>5. RegisteredClients' = RegisteredClients /\ Scheduled' = Scheduled
    BY <1>1, <2>1, SetsSame
  <2>6. Promise!Call(o)
    BY <2>1, <2>2, <2>4, <2>5, PromiseSteps
  <2>7. QED
    BY <2>6 DEF PromiseStep, Promise!Next
<1>6. ASSUME NEW o \in Objects, NTCall(o)
      PROVE  PromiseStep
  <2>1. phase = "nt" /\ m_processing_now /\ o \in Items /\ running' = o
    BY <1>6 DEF NTCall, PopItem, m_processing_now
  <2>2. o \in Scheduled /\ running = None
    BY <1>2, <2>1
  <2>3. RegisteredClients' = RegisteredClients /\ Scheduled' = Scheduled
    BY <1>1, <1>6, SetsSame
  <2>4. Promise!Call(o)
    BY <2>1, <2>2, <2>3, PromiseSteps
  <2>5. QED
    BY <2>4 DEF PromiseStep, Promise!Next
<1>7. ASSUME NEW o \in Objects, PopUnneeded(o)
      PROVE  PromiseStep
  <2>1. /\ phase = "nt" /\ m_processing_now /\ o \in Items /\ running' = running
        /\ Items' = Items \ {o} /\ UNCHANGED <<ItemsProcessed, m_current_step_obj>>
    BY <1>7 DEF PopUnneeded, PopItem, m_processing_now
  <2>2. o \in Scheduled /\ Quiet(o) /\ InOnePlace(o)
    BY <1>2, <2>1, ReachedIsRegistered DEF Inv, PlaceInv
  <2>3. ~Listed(o)' /\ Quiet(o)'
    BY <1>0, <2>1, <2>2, SchedulerAssumption
       DEF Listed, InLists, SlotsOf, InItemsRT, InOnePlace, Inv, ControlInv
  <2>4. o \notin Scheduled'
    BY <2>3, MeantBoundsNext DEF AsMeant, Meant
  <2>5. RegisteredClients' = RegisteredClients
    BY <1>0 DEF RegisteredClients, clients
  <2>6. Scheduled' = Scheduled \ {o}
    <3>1. Scheduled' \subseteq Objects /\ Scheduled \subseteq Objects
      BY DEF Scheduled
    <3>2. QED
      BY <1>1, <1>7, <2>2, <2>4, <3>1
  <2>7. Promise!Drop(o)
    BY <2>1, <2>2, <2>5, <2>6, PromiseSteps
  <2>8. QED
    BY <2>7 DEF PromiseStep, Promise!Next
<1>8. QED
  BY <1>3, <1>4, <1>5, <1>6, <1>7

LEMMA StepPromise ==
    ASSUME SelfUnregister = {}
    PROVE  Inv /\ Inv' /\ RunsInCall /\ [Next]_vars =>
               [Promise!Next]_<<RegisteredClients, Scheduled, running>>
<1> SUFFICES ASSUME Inv, Inv', RunsInCall, [Next]_vars
             PROVE  PromiseStep
  BY DEF PromiseStep
<1>1. CASE \E o \in Objects : Client(o)
  BY <1>1, ClientPromise
<1>2. CASE Engine
  BY <1>2, DrainPromise, UpdatePromise DEF Engine
<1>3. CASE UNCHANGED vars
  <2>1. \A x \in Objects : /\ client'[x] = client[x] /\ (Quiet(x)' <=> Quiet(x))
                           /\ Listed(x)' <=> Listed(x)
    BY <1>3 DEF vars, clients, lists, Quiet, Listed, InLists, SlotsOf
  <2>2. QED
    BY <1>3, <2>1, NothingScheduled, SetsSame DEF PromiseStep, vars, control
<1>4. QED
  BY <1>1, <1>2, <1>3 DEF Next

\* However the queue, the lists and the callbacks interleave, clients see a
\* scheduler that registers and unregisters at once and updates only what is
\* registered.
THEOREM Implements == ASSUME SelfUnregister = {} PROVE Spec => KeepsPromise
<1>1. Inv /\ Inv' /\ RunsInCall /\ [Next]_vars =>
          [Promise!Next]_<<RegisteredClients, Scheduled, running>>
  BY StepPromise
<1>2. Init => RunsInCall
  BY DEF Init, RunsInCall
<1>3. QED
  BY <1>1, <1>2, InitPromise, InvHolds, RunsInCallStep, PTL
     DEF Spec, KeepsPromise, Promise!Spec, Scheduled
=============================================================================
