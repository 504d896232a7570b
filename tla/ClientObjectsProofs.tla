------------------------ MODULE ClientObjectsProofs ------------------------
(***************************************************************************)
(* Proofs about ClientObjects, for any holders and items, any of them that *)
(* cannot be spawned, and messages without a bound.                        *)
(*                                                                         *)
(* The argument: a picture says who is there and in whose hands.  The      *)
(* client has one, the server another, and the messages on their way are   *)
(* a path from the first to the second, each of which fits the picture     *)
(* that those before it have made.                                         *)
(***************************************************************************)
EXTENDS ClientObjects, SequenceLemmas, FiniteSetTheorems

Pictures == [alive : SUBSET Objects, parent : [Objects -> Holders \cup {None}]]

\* A parent that cannot be spawned is none on the client.
Shown(d) == IF d \in Unspawnable THEN None ELSE d

Sound(p) ==
    /\ p \in Pictures
    /\ p.alive \cap Unspawnable = {}
    /\ \A o \in Objects : p.parent[o] # None =>
          o \in Items /\ o \in p.alive /\ p.parent[o] \in p.alive

ClientPicture(c) ==
    [alive |-> {o \in Objects : c.object[o] = "alive"}, parent |-> c.parent]

ServerPicture(s) ==
    [alive |-> s.entities \ Unspawnable,
     parent |-> [o \in Objects |->
         IF o \in s.entities \ Unspawnable THEN Shown(s.ID_Parent[o]) ELSE None]]

Knows(p, o) == o \in p.alive \/ o \in Unspawnable

\* The message e can be handled in picture p ...
Fits(p, e) ==
    /\ e \in Messages
    /\ e.type = "spawn" =>
          /\ e.id \notin p.alive
          /\ e.dest # None => e.id \in Items /\ Knows(p, e.dest)
    /\ e.type = "take" =>
          /\ e.id \in Items /\ e.id \in p.alive /\ p.parent[e.id] = None
          /\ e.dest \in p.alive
    /\ e.type = "reject" =>
          /\ e.id \in Items /\ Knows(p, e.id) /\ e.dest # None /\ Knows(p, e.dest)
          /\ e.id \in p.alive => p.parent[e.id] = Shown(e.dest)
    /\ e.type = "destroy" =>
          /\ Knows(p, e.id) /\ p.parent[e.id] = None
          /\ \A o \in Objects : p.parent[o] # e.id

\* ... and what becomes of the picture.
After(p, e) ==
    CASE e.type = "spawn" ->
           IF e.id \in Unspawnable THEN p
           ELSE [alive |-> p.alive \cup {e.id},
                 parent |-> [p.parent EXCEPT ![e.id] = Shown(e.dest)]]
      [] e.type = "take" ->
           [alive |-> p.alive, parent |-> [p.parent EXCEPT ![e.id] = e.dest]]
      [] e.type = "reject" ->
           [alive |-> p.alive, parent |-> [p.parent EXCEPT ![e.id] = None]]
      [] e.type = "destroy" ->
           [alive |-> p.alive \ {e.id}, parent |-> p.parent]

\* The messages q make picture r of picture p.
Leads(p, q, r) ==
    \E path \in [0..Len(q) -> Pictures] :
        /\ path[0] = p /\ path[Len(q)] = r
        /\ \A n \in 0..Len(q) : Sound(path[n])
        /\ \A n \in 1..Len(q) : Fits(path[n - 1], q[n]) /\ path[n] = After(path[n - 1], q[n])

-----------------------------------------------------------------------------
(* Pictures. *)

LEMMA Types == /\ None \notin Objects /\ Holders \subseteq Objects /\ Items \subseteq Objects
               /\ Holders \cap Items = {} /\ Unspawnable \subseteq Objects
               /\ Objects = Holders \cup Items
BY ClientAssumption DEF Objects, Holders

LEMMA AfterSound ==
    ASSUME NEW p, NEW e, Sound(p), Fits(p, e)
    PROVE  Sound(After(p, e))
<1>0. /\ e.type \in {"spawn", "take", "reject", "destroy"}
      /\ e.dest \in Holders \cup {None} /\ e.id \in Objects
  BY DEF Fits, Messages
<1>1. /\ p \in Pictures /\ p.alive \subseteq Objects /\ p.alive \cap Unspawnable = {}
      /\ p.parent \in [Objects -> Holders \cup {None}]
  BY DEF Sound, Pictures
<1>2. CASE e.type = "spawn" /\ e.id \notin Unspawnable
  <2>1. Shown(e.dest) \in Holders \cup {None} /\ (Shown(e.dest) # None => Shown(e.dest) = e.dest /\ e.dest \notin Unspawnable)
    BY <1>0 DEF Shown
  <2>2. After(p, e) = [alive |-> p.alive \cup {e.id}, parent |-> [p.parent EXCEPT ![e.id] = Shown(e.dest)]]
    BY <1>2 DEF After
  <2>3. QED
    BY <1>0, <1>1, <1>2, <2>1, <2>2 DEF Sound, Fits, Knows, Pictures
<1>3. CASE e.type = "spawn" /\ e.id \in Unspawnable
  BY <1>3 DEF After
<1>4. CASE e.type = "take"
  <2>1. After(p, e) = [alive |-> p.alive, parent |-> [p.parent EXCEPT ![e.id] = e.dest]]
    BY <1>4 DEF After
  <2>2. QED
    BY <1>0, <1>1, <1>4, <2>1 DEF Sound, Fits, Pictures
<1>5. CASE e.type = "reject"
  <2>1. After(p, e) = [alive |-> p.alive, parent |-> [p.parent EXCEPT ![e.id] = None]]
    BY <1>5 DEF After
  <2>2. QED
    BY <1>0, <1>1, <1>5, <2>1 DEF Sound, Fits, Pictures
<1>6. CASE e.type = "destroy"
  <2>1. After(p, e) = [alive |-> p.alive \ {e.id}, parent |-> p.parent]
    BY <1>6 DEF After
  <2>2. QED
    BY <1>0, <1>1, <1>6, <2>1 DEF Sound, Fits, Pictures
<1>7. QED
  BY <1>0, <1>2, <1>3, <1>4, <1>5, <1>6

LEMMA LeadsNowhere ==
    ASSUME NEW p, NEW r
    PROVE  Leads(p, <<>>, r) <=> p = r /\ Sound(p)
<1>1. Len(<<>>) = 0 /\ 0..0 = {0} /\ 1..0 = {}
  OBVIOUS
<1>2. Leads(p, <<>>, r) => p = r /\ Sound(p)
  BY <1>1 DEF Leads
<1>3. ASSUME p = r, Sound(p)
      PROVE  Leads(p, <<>>, r)
  <2> DEFINE path == [n \in {0} |-> p]
  <2>1. path \in [0..Len(<<>>) -> Pictures] /\ path[0] = p
    BY <1>1, <1>3 DEF Sound
  <2>2. QED
    BY <1>1, <1>3, <2>1 DEF Leads
<1>4. QED
  BY <1>2, <1>3

LEMMA LeadsFurther ==
    ASSUME NEW p, NEW q \in Seq(Messages), NEW r, NEW e, Leads(p, q, r), Fits(r, e)
    PROVE  Leads(p, Append(q, e), After(r, e)) /\ Sound(r) /\ Sound(After(r, e))
<1>1. PICK path \in [0..Len(q) -> Pictures] :
        /\ path[0] = p /\ path[Len(q)] = r
        /\ \A n \in 0..Len(q) : Sound(path[n])
        /\ \A n \in 1..Len(q) : Fits(path[n - 1], q[n]) /\ path[n] = After(path[n - 1], q[n])
  BY DEF Leads
<1>2. /\ Len(q) \in Nat /\ Len(Append(q, e)) = Len(q) + 1 /\ e \in Messages
      /\ \A n \in 1..Len(q) : Append(q, e)[n] = q[n]
      /\ Append(q, e)[Len(q) + 1] = e
  BY AppendProperties DEF Fits
<1>3. Sound(r) /\ Sound(After(r, e)) /\ After(r, e) \in Pictures
  BY <1>1, <1>2, AfterSound DEF Sound
<1> DEFINE longer == [n \in 0..(Len(q) + 1) |-> IF n = Len(q) + 1 THEN After(r, e) ELSE path[n]]
<1>4. longer \in [0..(Len(q) + 1) -> Pictures] /\ longer[0] = p /\ longer[Len(q) + 1] = After(r, e)
  BY <1>1, <1>2, <1>3
<1>5. \A n \in 0..(Len(q) + 1) : Sound(longer[n])
  BY <1>1, <1>2, <1>3
<1>6. ASSUME NEW n \in 1..(Len(q) + 1)
      PROVE  /\ Fits(longer[n - 1], Append(q, e)[n])
             /\ longer[n] = After(longer[n - 1], Append(q, e)[n])
  <2>1. longer[n - 1] = path[n - 1]
    BY <1>2
  <2>2. CASE n = Len(q) + 1
    BY <1>1, <1>2, <2>1, <2>2
  <2>3. CASE n \in 1..Len(q)
    <3>1. longer[n] = path[n]
      BY <1>2, <2>3
    <3>2. QED
      BY <1>1, <1>2, <2>1, <2>3, <3>1
  <2>4. QED
    BY <1>2, <2>2, <2>3
<1>7. QED
  <2> HIDE DEF longer
  <2>1. QED
    BY <1>2, <1>3, <1>4, <1>5, <1>6 DEF Leads

LEMMA LeadsStep ==
    ASSUME NEW p, NEW q \in Seq(Messages), NEW r, Leads(p, q, r), q # <<>>
    PROVE  Sound(p) /\ Fits(p, Head(q)) /\ Leads(After(p, Head(q)), Tail(q), r)
<1>1. PICK path \in [0..Len(q) -> Pictures] :
        /\ path[0] = p /\ path[Len(q)] = r
        /\ \A n \in 0..Len(q) : Sound(path[n])
        /\ \A n \in 1..Len(q) : Fits(path[n - 1], q[n]) /\ path[n] = After(path[n - 1], q[n])
  BY DEF Leads
<1>2. /\ Len(q) \in Nat /\ Len(q) > 0 /\ Len(Tail(q)) = Len(q) - 1 /\ Head(q) = q[1]
      /\ \A n \in 1..(Len(q) - 1) : Tail(q)[n] = q[n + 1]
  BY HeadTailProperties, EmptySeq
<1> DEFINE rest == [n \in 0..(Len(q) - 1) |-> path[n + 1]]
<1>3. rest \in [0..(Len(q) - 1) -> Pictures] /\ rest[Len(q) - 1] = r /\ rest[0] = path[1]
  BY <1>1, <1>2
<1>4. path[1] = After(p, Head(q)) /\ Fits(p, Head(q)) /\ Sound(p)
  BY <1>1, <1>2
<1>5. \A n \in 0..(Len(q) - 1) : Sound(rest[n])
  BY <1>1, <1>2
<1>6. ASSUME NEW n \in 1..(Len(q) - 1)
      PROVE  Fits(rest[n - 1], Tail(q)[n]) /\ rest[n] = After(rest[n - 1], Tail(q)[n])
  <2>1. rest[n - 1] = path[n] /\ rest[n] = path[n + 1] /\ n + 1 \in 1..Len(q) /\ (n + 1) - 1 = n
    BY <1>2
  <2>2. QED
    BY <1>1, <1>2, <2>1
<1>7. QED
  <2> HIDE DEF rest
  <2>1. QED
    BY <1>2, <1>3, <1>4, <1>5, <1>6 DEF Leads

-----------------------------------------------------------------------------
(* The client's handlers. *)

Clients == [game_events : Seq(Messages),
            object : [Objects -> {"absent", "alive", "doomed"}],
            parent : [Objects -> Holders \cup {None}],
            items : [Holders -> SUBSET Items]]

ClientFits(c) ==
    /\ c \in Clients
    /\ \A h \in Holders, i \in Items : i \in c.items[h] <=> c.parent[i] = h
    /\ \A o \in Unspawnable : c.object[o] = "absent"
    /\ Sound(ClientPicture(c))

\* Handling a message does to the client what it does to its picture.
Handles(c, e, d) ==
    /\ ClientFits(d)
    /\ ClientPicture(d) = After(ClientPicture(c), e)
    /\ d.game_events = c.game_events
    /\ \A o \in Objects : o # e.id => d.object[o] = c.object[o]

LEMMA HandledFits ==
    ASSUME NEW c, NEW e, ClientFits(c), Fits(ClientPicture(c), e),
           e.type = "spawn" => c.object[e.id] = "absent"
    PROVE  Handles(c, e, Handled(c, e))
<1> DEFINE p == ClientPicture(c)
           d == Handled(c, e)
<1>0. /\ e.type \in {"spawn", "take", "reject", "destroy"}
      /\ e.dest \in Holders \cup {None} /\ e.id \in Objects
  BY DEF Fits, Messages
<1>1. /\ c \in Clients /\ c.object \in [Objects -> {"absent", "alive", "doomed"}]
      /\ c.parent \in [Objects -> Holders \cup {None}] /\ c.items \in [Holders -> SUBSET Items]
      /\ c = [game_events |-> c.game_events, object |-> c.object,
              parent |-> c.parent, items |-> c.items]
  BY DEF ClientFits, Clients
<1>2. /\ p.alive = {o \in Objects : c.object[o] = "alive"} /\ p.parent = c.parent
      /\ \A o \in Objects : o \in p.alive <=> c.object[o] = "alive"
  BY DEF ClientPicture
<1>3. \A o \in Objects : c.parent[o] # None =>
         o \in Items /\ c.object[o] = "alive" /\ c.object[c.parent[o]] = "alive"
  BY <1>1, <1>2, Types DEF ClientFits, Sound
<1>4. Sound(After(p, e)) /\ Sound(p)
  BY AfterSound DEF ClientFits
<1>5. SUFFICES /\ d \in Clients /\ ClientPicture(d) = After(p, e)
               /\ \A h \in Holders, i \in Items : i \in d.items[h] <=> d.parent[i] = h
               /\ \A o \in Unspawnable : d.object[o] = "absent"
               /\ d.game_events = c.game_events
               /\ \A o \in Objects : o # e.id => d.object[o] = c.object[o]
  BY <1>4 DEF ClientFits, Handles
<1>6. CASE e.type = "spawn"
  <2>0. d = g_sv_Spawn(c, e.dest, e.id)
    BY <1>6 DEF Handled
  <2>1. c.object[e.id] = "absent" /\ ~ Exists(c, e.id) /\ c.parent[e.id] = None
    BY <1>0, <1>3, <1>6 DEF Exists
  <2>2. CASE e.id \in Unspawnable
    <3>1. d = c /\ After(p, e) = p
      BY <1>6, <2>0, <2>2 DEF g_sv_Spawn, After
    <3>2. QED
      BY <1>1, <3>1 DEF ClientFits
  <2>3. CASE e.id \notin Unspawnable
    <3> DEFINE spawned == [c EXCEPT !.object[e.id] = "alive"]
    <3>1. /\ spawned = [game_events |-> c.game_events, object |-> [c.object EXCEPT ![e.id] = "alive"],
                        parent |-> c.parent, items |-> c.items]
          /\ d = IF e.dest # None /\ Exists(c, e.dest) THEN OnTake(spawned, e.dest, e.id) ELSE spawned
      BY <1>1, <2>0, <2>1, <2>3 DEF g_sv_Spawn
    <3>2. After(p, e) = [alive |-> p.alive \cup {e.id},
                         parent |-> [c.parent EXCEPT ![e.id] = Shown(e.dest)]]
      BY <1>2, <1>6, <2>3 DEF After
    <3>3. CASE e.dest # None /\ Exists(c, e.dest)
      <4>1. e.dest \in Holders /\ e.dest \notin Unspawnable /\ e.id \in Items /\ Shown(e.dest) = e.dest
        BY <1>0, <1>6, <3>3 DEF ClientFits, Exists, Fits, Shown
      <4>2. Exists(spawned, e.id) /\ ~ Refuses(spawned, e.dest, e.id)
        BY <1>0, <1>1, <3>1 DEF Exists, Refuses
      <4>3. d = [game_events |-> c.game_events, object |-> [c.object EXCEPT ![e.id] = "alive"],
                 parent |-> [c.parent EXCEPT ![e.id] = e.dest],
                 items |-> [c.items EXCEPT ![e.dest] = c.items[e.dest] \cup {e.id}]]
        <5> HIDE DEF spawned, d
        <5>1. d = [spawned EXCEPT !.parent[e.id] = e.dest, !.items[e.dest] = @ \cup {e.id}]
          BY <3>1, <3>3, <4>2 DEF OnTake
        <5>2. QED
          BY <3>1, <5>1
      <4>4. d \in Clients
        BY <1>0, <1>1, <4>1, <4>3 DEF Clients
      <4>5. ClientPicture(d) = After(p, e)
        <5>1. {o \in Objects : d.object[o] = "alive"} = p.alive \cup {e.id}
          BY <1>0, <1>1, <1>2, <4>3
        <5>2. d.parent = [c.parent EXCEPT ![e.id] = Shown(e.dest)]
          BY <4>1, <4>3
        <5> HIDE DEF d, p
        <5>3. QED
          BY <3>2, <5>1, <5>2 DEF ClientPicture
      <4>6. \A h \in Holders, i \in Items : i \in d.items[h] <=> d.parent[i] = h
        <5>1. \A h \in Holders, i \in Items : i \in c.items[h] <=> c.parent[i] = h
          BY DEF ClientFits
        <5>2. \A h \in Holders : e.id \notin c.items[h]
          BY <2>1, <4>1, <5>1, Types
        <5>3. QED
          BY <1>1, <4>1, <4>3, <5>1, <5>2, Types
      <4>7. QED
        BY <1>1, <2>3, <4>3, <4>4, <4>5, <4>6 DEF ClientFits
    <3>4. CASE ~ (e.dest # None /\ Exists(c, e.dest))
      <4>1. Shown(e.dest) = None
        <5>1. e.dest # None => Knows(p, e.dest) /\ ~ Exists(c, e.dest)
          BY <1>6, <3>4 DEF Fits
        <5>2. e.dest # None => e.dest \in Unspawnable
          BY <1>0, <1>2, <5>1, Types DEF Knows, Exists
        <5>3. QED
          BY <5>2 DEF Shown
      <4>2. d = [game_events |-> c.game_events, object |-> [c.object EXCEPT ![e.id] = "alive"],
                 parent |-> c.parent, items |-> c.items]
        BY <3>1, <3>4
      <4>3. [c.parent EXCEPT ![e.id] = None] = c.parent
        BY <1>0, <1>1, <2>1
      <4>4. {o \in Objects : d.object[o] = "alive"} = p.alive \cup {e.id}
        BY <1>0, <1>1, <1>2, <4>2
      <4>5. ClientPicture(d) = After(p, e)
        BY <3>2, <4>1, <4>2, <4>3, <4>4 DEF ClientPicture
      <4>6. QED
        BY <1>0, <1>1, <2>3, <4>2, <4>5 DEF ClientFits, Clients
    <3>5. QED
      BY <3>3, <3>4
  <2>4. QED
    BY <2>2, <2>3
<1>7. CASE e.type = "take"
  <2>1. /\ e.id \in Items /\ c.object[e.id] = "alive" /\ c.parent[e.id] = None
        /\ e.dest \in Holders /\ c.object[e.dest] = "alive"
    BY <1>0, <1>2, <1>7, Types DEF Fits
  <2>2. d = [game_events |-> c.game_events, object |-> c.object,
             parent |-> [c.parent EXCEPT ![e.id] = e.dest],
             items |-> [c.items EXCEPT ![e.dest] = c.items[e.dest] \cup {e.id}]]
    <3>1. d = OnTake(c, e.dest, e.id)
      BY <1>7, <2>1 DEF Handled, Exists
    <3>2. d = [c EXCEPT !.parent[e.id] = e.dest, !.items[e.dest] = @ \cup {e.id}]
      BY <2>1, <3>1 DEF OnTake, Exists, Refuses
    <3>3. QED
      BY <1>1, <3>2
  <2>3. d \in Clients /\ d.object = c.object /\ d.game_events = c.game_events
    BY <1>0, <1>1, <2>1, <2>2 DEF Clients
  <2>4. ClientPicture(d) = After(p, e)
    BY <1>2, <1>7, <2>2, <2>3 DEF ClientPicture, After
  <2>5. \A h \in Holders, i \in Items : i \in d.items[h] <=> d.parent[i] = h
    <3>1. \A h \in Holders, i \in Items : i \in c.items[h] <=> c.parent[i] = h
      BY DEF ClientFits
    <3>2. \A h \in Holders : e.id \notin c.items[h]
      BY <2>1, <3>1, Types
    <3>3. QED
      BY <1>1, <2>1, <2>2, <3>1, <3>2, Types
  <2>6. QED
    BY <2>3, <2>4, <2>5 DEF ClientFits
<1>8. CASE e.type = "reject"
  <2>1. /\ e.id \in Items /\ e.dest \in Holders
        /\ (c.object[e.id] = "alive" \/ e.id \in Unspawnable)
        /\ (c.object[e.id] = "alive" => c.parent[e.id] = Shown(e.dest))
        /\ (c.object[e.dest] = "alive" \/ e.dest \in Unspawnable)
    BY <1>0, <1>2, <1>8, Types DEF Fits, Knows
  <2>2. After(p, e) = [alive |-> p.alive, parent |-> [c.parent EXCEPT ![e.id] = None]]
    BY <1>2, <1>8 DEF After
  <2>3. CASE e.dest \in Unspawnable \/ e.id \in Unspawnable
    <3>1. c.parent[e.id] = None
      <4>1. e.id \in Unspawnable => c.object[e.id] = "absent"
        BY DEF ClientFits
      <4>2. e.id \notin Unspawnable => c.parent[e.id] = Shown(e.dest) /\ e.dest \in Unspawnable
        BY <2>1, <2>3
      <4>3. QED
        BY <1>0, <1>3, <4>1, <4>2 DEF Shown
    <3>2. [c.parent EXCEPT ![e.id] = None] = c.parent
      BY <1>0, <1>1, <3>1
    <3>3. d = c
      <4>1. CASE e.dest \in Unspawnable
        BY <1>8, <4>1 DEF Handled, Exists, ClientFits
      <4>2. CASE e.id \in Unspawnable /\ e.dest \notin Unspawnable
        <5>1. c.object[e.id] = "absent" /\ c.object[e.dest] = "alive"
          BY <2>1, <4>2 DEF ClientFits
        <5>2. d = IF e.dest \in Boxes THEN [c EXCEPT !.items[e.dest] = c.items[e.dest] \ {e.id}] ELSE c
          BY <1>8, <5>1 DEF Handled, Exists, OnReject
        <5>3. c.items[e.dest] \ {e.id} = c.items[e.dest]
          BY <2>1, <3>1, Types DEF ClientFits
        <5>4. [c.items EXCEPT ![e.dest] = c.items[e.dest]] = c.items
          BY <1>1
        <5>5. QED
          BY <1>1, <5>2, <5>3, <5>4
      <4>3. QED
        BY <2>3, <4>1, <4>2
    <3>4. ClientPicture(d) = After(p, e)
      <4> HIDE DEF d
      <4>1. p = [alive |-> p.alive, parent |-> c.parent]
        BY DEF ClientPicture
      <4> HIDE DEF p
      <4>2. ClientPicture(d) = p
        BY <3>3 DEF p
      <4>3. QED
        BY <2>2, <3>2, <4>1, <4>2
    <3>5. QED
      BY <1>1, <3>3, <3>4 DEF ClientFits
  <2>4. CASE e.dest \notin Unspawnable /\ e.id \notin Unspawnable
    <3>1. c.object[e.id] = "alive" /\ c.object[e.dest] = "alive" /\ c.parent[e.id] = e.dest
      BY <2>1, <2>4 DEF Shown
    <3>2. d = [game_events |-> c.game_events, object |-> c.object,
               parent |-> [c.parent EXCEPT ![e.id] = None],
               items |-> [c.items EXCEPT ![e.dest] = c.items[e.dest] \ {e.id}]]
      <4>1. d = OnReject(c, e.dest, e.id)
        BY <1>8, <3>1 DEF Handled, Exists
      <4>2. d = [[c EXCEPT !.items[e.dest] = @ \ {e.id}] EXCEPT !.parent[e.id] = None]
        BY <3>1, <4>1 DEF OnReject, Exists
      <4>3. QED
        BY <1>1, <4>2
    <3>3. d \in Clients /\ d.object = c.object /\ d.game_events = c.game_events
      BY <1>0, <1>1, <2>1, <3>2 DEF Clients
    <3>4. ClientPicture(d) = After(p, e)
      BY <1>2, <2>2, <3>2, <3>3 DEF ClientPicture
    <3>5. \A h \in Holders, i \in Items : i \in d.items[h] <=> d.parent[i] = h
      <4>1. \A h \in Holders, i \in Items : i \in c.items[h] <=> c.parent[i] = h
        BY DEF ClientFits
      <4>2. \A h \in Holders : h # e.dest => e.id \notin c.items[h]
        BY <2>1, <3>1, <4>1, Types
      <4>3. QED
        BY <1>1, <2>1, <3>2, <4>1, <4>2, Types
    <3>6. QED
      BY <3>3, <3>4, <3>5 DEF ClientFits
  <2>5. QED
    BY <2>3, <2>4
<1>9. CASE e.type = "destroy"
  <2>1. /\ (c.object[e.id] = "alive" \/ e.id \in Unspawnable) /\ c.parent[e.id] = None
        /\ \A o \in Objects : c.parent[o] # e.id
    BY <1>0, <1>2, <1>9, Types DEF Fits, Knows
  <2>2. After(p, e) = [alive |-> p.alive \ {e.id}, parent |-> c.parent]
    BY <1>2, <1>9 DEF After
  <2>3. CASE e.id \in Unspawnable
    <3>1. c.object[e.id] = "absent"
      BY <2>3 DEF ClientFits
    <3>2. d = c
      BY <1>9, <3>1 DEF Handled, Exists
    <3>3. p.alive \ {e.id} = p.alive
      BY <1>2, <3>1
    <3>4. ClientPicture(d) = After(p, e)
      <4> HIDE DEF d
      <4>1. p = [alive |-> p.alive, parent |-> c.parent]
        BY DEF ClientPicture
      <4> HIDE DEF p
      <4>2. ClientPicture(d) = p
        BY <3>2 DEF p
      <4>3. QED
        BY <2>2, <3>3, <4>1, <4>2
    <3>5. QED
      BY <1>1, <3>2, <3>4 DEF ClientFits
  <2>4. CASE e.id \notin Unspawnable
    <3>1. d = setDestroy(c, e.id) /\ c.object[e.id] = "alive"
      BY <1>9, <2>1, <2>4 DEF Handled, Exists, OnDestroy
    <3>2. d.object = [c.object EXCEPT ![e.id] = "doomed"]
      <4>1. d.object = [o \in Objects |->
              IF Exists(c, o) /\ (o = e.id \/ c.parent[o] = e.id) THEN "doomed" ELSE c.object[o]]
        BY <1>1, <3>1 DEF setDestroy
      <4>2. QED
        BY <1>0, <1>1, <2>1, <3>1, <4>1 DEF Exists
    <3>3. /\ d.game_events = c.game_events /\ d.parent = c.parent /\ d.items = c.items
          /\ d \in Clients
      <4>1. d = [c EXCEPT !.object = d.object]
        BY <1>1, <3>1 DEF setDestroy
      <4>2. d.object \in [Objects -> {"absent", "alive", "doomed"}]
        BY <1>1, <3>2
      <4> HIDE DEF d
      <4>3. d = [game_events |-> c.game_events, object |-> d.object, parent |-> c.parent, items |-> c.items]
        BY <1>1, <4>1
      <4>4. c.game_events \in Seq(Messages)
        BY <1>1 DEF Clients
      <4>5. QED
        BY <1>1, <4>2, <4>3, <4>4 DEF Clients
    <3>4. {o \in Objects : d.object[o] = "alive"} = p.alive \ {e.id}
      BY <1>0, <1>1, <1>2, <3>2
    <3>5. ClientPicture(d) = After(p, e)
      BY <2>2, <3>3, <3>4 DEF ClientPicture
    <3>6. QED
      BY <1>0, <1>1, <2>4, <3>2, <3>3, <3>5, Types DEF ClientFits
  <2>5. QED
    BY <2>3, <2>4
<1>10. QED
  BY <1>0, <1>6, <1>7, <1>8, <1>9

\* CObjectList::Update: what becomes of the client at the end of a frame.
Reaped(c) ==
    LET doomed == {o \in Objects : c.object[o] = "doomed"}
    IN  [c EXCEPT
          !.object = [o \in Objects |-> IF o \in doomed THEN "absent" ELSE @[o]],
          !.parent = [o \in Objects |-> IF o \in doomed THEN None ELSE @[o]],
          !.items = [h \in Holders |-> IF h \in doomed THEN {} ELSE @[h]]]

LEMMA ReapedFits ==
    ASSUME NEW c, ClientFits(c)
    PROVE  /\ ClientFits(Reaped(c)) /\ ClientPicture(Reaped(c)) = ClientPicture(c)
           /\ Reaped(c).game_events = c.game_events
           /\ \A o \in Objects : Reaped(c).object[o] =
                 IF c.object[o] = "doomed" THEN "absent" ELSE c.object[o]
<1> DEFINE d == Reaped(c)
<1>1. /\ c \in Clients /\ c.object \in [Objects -> {"absent", "alive", "doomed"}]
      /\ c.parent \in [Objects -> Holders \cup {None}] /\ c.items \in [Holders -> SUBSET Items]
      /\ c.game_events \in Seq(Messages)
      /\ c = [game_events |-> c.game_events, object |-> c.object,
              parent |-> c.parent, items |-> c.items]
  BY DEF ClientFits, Clients
<1>2. \A o \in Objects : c.parent[o] # None =>
         o \in Items /\ c.object[o] = "alive" /\ c.object[c.parent[o]] = "alive"
  BY <1>1, Types DEF ClientFits, Sound, ClientPicture
<1>3. [o \in Objects |-> IF c.object[o] = "doomed" THEN None ELSE c.parent[o]] = c.parent
  BY <1>1, <1>2
<1>4. [h \in Holders |-> IF c.object[h] = "doomed" THEN {} ELSE c.items[h]] = c.items
  <2>1. ASSUME NEW h \in Holders, c.object[h] = "doomed"
        PROVE  c.items[h] = {}
    <3>1. \A i \in Items : i \notin c.items[h]
      BY <1>2, <2>1, Types DEF ClientFits
    <3>2. QED
      BY <1>1, <3>1
  <2>2. QED
    BY <1>1, <2>1
<1>5. d = [game_events |-> c.game_events,
           object |-> [o \in Objects |-> IF c.object[o] = "doomed" THEN "absent" ELSE c.object[o]],
           parent |-> c.parent, items |-> c.items]
  <2>1. d = [game_events |-> c.game_events,
             object |-> [o \in Objects |-> IF c.object[o] = "doomed" THEN "absent" ELSE c.object[o]],
             parent |-> [o \in Objects |-> IF c.object[o] = "doomed" THEN None ELSE c.parent[o]],
             items |-> [h \in Holders |-> IF c.object[h] = "doomed" THEN {} ELSE c.items[h]]]
    <3> DEFINE doomed == {o \in Objects : c.object[o] = "doomed"}
    <3>1. \A o \in Objects : o \in doomed <=> c.object[o] = "doomed"
      OBVIOUS
    <3>2. d = [game_events |-> c.game_events,
               object |-> [o \in Objects |-> IF o \in doomed THEN "absent" ELSE c.object[o]],
               parent |-> [o \in Objects |-> IF o \in doomed THEN None ELSE c.parent[o]],
               items |-> [h \in Holders |-> IF h \in doomed THEN {} ELSE c.items[h]]]
      <4> DEFINE O == [o \in Objects |-> IF o \in doomed THEN "absent" ELSE c.object[o]]
                 P == [o \in Objects |-> IF o \in doomed THEN None ELSE c.parent[o]]
                 I == [h \in Holders |-> IF h \in doomed THEN {} ELSE c.items[h]]
      <4>1. d = [c EXCEPT !.object = O, !.parent = P, !.items = I]
        BY DEF Reaped
      <4> HIDE DEF O, P, I, d
      <4>2. d = [game_events |-> c.game_events, object |-> O, parent |-> P, items |-> I]
        BY <1>1, <4>1
      <4>3. QED
        BY <4>2 DEF O, P, I
    <3> HIDE DEF doomed, d
    <3>3. /\ [o \in Objects |-> IF o \in doomed THEN "absent" ELSE c.object[o]]
                = [o \in Objects |-> IF c.object[o] = "doomed" THEN "absent" ELSE c.object[o]]
          /\ [o \in Objects |-> IF o \in doomed THEN None ELSE c.parent[o]]
                = [o \in Objects |-> IF c.object[o] = "doomed" THEN None ELSE c.parent[o]]
          /\ [h \in Holders |-> IF h \in doomed THEN {} ELSE c.items[h]]
                = [h \in Holders |-> IF c.object[h] = "doomed" THEN {} ELSE c.items[h]]
      BY <3>1, Types
    <3>4. QED
      BY <3>2, <3>3
  <2>2. QED
    BY <1>3, <1>4, <2>1
<1> HIDE DEF d
<1>6. /\ d.game_events = c.game_events /\ d.parent = c.parent /\ d.items = c.items
      /\ d.object \in [Objects -> {"absent", "alive", "doomed"}]
      /\ \A o \in Objects : d.object[o] = IF c.object[o] = "doomed" THEN "absent" ELSE c.object[o]
  BY <1>1, <1>5
<1>7. d \in Clients
  BY <1>1, <1>5, <1>6 DEF Clients
<1>8. ClientPicture(d) = ClientPicture(c)
  <2>1. {o \in Objects : d.object[o] = "alive"} = {o \in Objects : c.object[o] = "alive"}
    BY <1>6
  <2>2. QED
    BY <1>6, <2>1 DEF ClientPicture
<1>9. QED
  BY <1>6, <1>7, <1>8, Types DEF d, ClientFits

-----------------------------------------------------------------------------
(* The server's handlers, as steps that send one message each. *)

Servers == [entities : SUBSET Objects,
            ID_Parent : [Objects -> Holders \cup {None}],
            released : SUBSET Objects,
            net_Queue : Seq(Messages)]

LEMMA ServerRecord ==
    ASSUME NEW s \in Servers
    PROVE  /\ s = [entities |-> s.entities, ID_Parent |-> s.ID_Parent, released |-> s.released,
                   net_Queue |-> s.net_Queue]
           /\ s.entities \in SUBSET Objects /\ s.ID_Parent \in [Objects -> Holders \cup {None}]
           /\ s.released \in SUBSET Objects /\ s.net_Queue \in Seq(Messages)
BY DEF Servers

LEMMA SendType ==
    ASSUME NEW s \in Servers, NEW type \in {"spawn", "take", "reject", "destroy"},
           NEW dest \in Holders \cup {None}, NEW id \in Objects
    PROVE  /\ Send(s, type, dest, id) \in Servers
           /\ Send(s, type, dest, id) =
                 [entities |-> s.entities, ID_Parent |-> s.ID_Parent, released |-> s.released,
                  net_Queue |-> Append(s.net_Queue, [type |-> type, dest |-> dest, id |-> id])]
           /\ [type |-> type, dest |-> dest, id |-> id] \in Messages
<1> DEFINE e == [type |-> type, dest |-> dest, id |-> id]
<1>1. e \in Messages
  BY DEF Messages
<1>2. s.net_Queue \in Seq(Messages) /\ Append(s.net_Queue, e) \in Seq(Messages)
  BY <1>1, AppendProperties DEF Servers
<1>3. Send(s, type, dest, id) =
         [entities |-> s.entities, ID_Parent |-> s.ID_Parent, released |-> s.released,
          net_Queue |-> Append(s.net_Queue, e)]
  <2>1. Send(s, type, dest, id) = [s EXCEPT !.net_Queue = Append(s.net_Queue, e)]
    BY DEF Send
  <2> HIDE DEF e
  <2>2. QED
    BY <2>1, ServerRecord
<1>4. QED
  BY <1>1, <1>2, <1>3 DEF Servers

SpawnOne(t, i) == Send([t EXCEPT !.entities = @ \cup {i}], "spawn", t.ID_Parent[i], i)

Forget(t, i) == Send([t EXCEPT !.entities = @ \ {i}], "destroy", None, i)
RejectAndForget(t, o, i) == Forget(Process_event_reject(t, o, i), i)

LEMMA SpawnOneType ==
    ASSUME NEW s \in Servers, NEW i \in Objects
    PROVE  /\ SpawnOne(s, i) \in Servers
           /\ SpawnOne(s, i) =
                 [entities |-> s.entities \cup {i}, ID_Parent |-> s.ID_Parent, released |-> s.released,
                  net_Queue |-> Append(s.net_Queue,
                                       [type |-> "spawn", dest |-> s.ID_Parent[i], id |-> i])]
<1> DEFINE those == s.entities \cup {i}
           t == [s EXCEPT !.entities = those]
<1>0. t = [entities |-> those, ID_Parent |-> s.ID_Parent, released |-> s.released,
           net_Queue |-> s.net_Queue]
  <2> HIDE DEF those
  <2>1. QED
    BY ServerRecord
<1>1. /\ t.entities = s.entities \cup {i} /\ t.ID_Parent = s.ID_Parent /\ t.released = s.released
      /\ t.net_Queue = s.net_Queue /\ t \in Servers /\ s.ID_Parent[i] \in Holders \cup {None}
  BY <1>0, ServerRecord DEF Servers
<1>2. SpawnOne(s, i) = Send(t, "spawn", s.ID_Parent[i], i)
  BY DEF SpawnOne
<1> HIDE DEF t, those
<1>3. /\ Send(t, "spawn", s.ID_Parent[i], i) \in Servers
      /\ Send(t, "spawn", s.ID_Parent[i], i) =
            [entities |-> t.entities, ID_Parent |-> t.ID_Parent, released |-> t.released,
             net_Queue |-> Append(t.net_Queue,
                                  [type |-> "spawn", dest |-> s.ID_Parent[i], id |-> i])]
  BY <1>1, SendType
<1>4. QED
  BY <1>1, <1>2, <1>3

LEMMA ForgetType ==
    ASSUME NEW s \in Servers, NEW i \in Objects
    PROVE  /\ Forget(s, i) \in Servers
           /\ Forget(s, i) =
                 [entities |-> s.entities \ {i}, ID_Parent |-> s.ID_Parent, released |-> s.released,
                  net_Queue |-> Append(s.net_Queue, [type |-> "destroy", dest |-> None, id |-> i])]
<1> DEFINE those == s.entities \ {i}
           t == [s EXCEPT !.entities = those]
<1>0. t = [entities |-> those, ID_Parent |-> s.ID_Parent, released |-> s.released,
           net_Queue |-> s.net_Queue]
  <2> HIDE DEF those
  <2>1. QED
    BY ServerRecord
<1>1. /\ t.entities = s.entities \ {i} /\ t.ID_Parent = s.ID_Parent /\ t.released = s.released
      /\ t.net_Queue = s.net_Queue /\ t \in Servers
  BY <1>0, ServerRecord DEF Servers
<1>2. Forget(s, i) = Send(t, "destroy", None, i)
  BY DEF Forget
<1> HIDE DEF t
<1>3. QED
  BY <1>1, <1>2, SendType

LEMMA RejectType ==
    ASSUME NEW s \in Servers, NEW h, NEW i
    PROVE  /\ Process_event_reject(s, h, i) \in Servers
           /\ h \in s.entities /\ i \in s.entities /\ i \in Items /\ s.ID_Parent[i] = h =>
                 /\ h \in Holders \cup {None}
                 /\ Process_event_reject(s, h, i) =
                      [entities |-> s.entities, ID_Parent |-> [s.ID_Parent EXCEPT ![i] = None],
                       released |-> s.released,
                       net_Queue |-> Append(s.net_Queue, [type |-> "reject", dest |-> h, id |-> i])]
           /\ ~ (h \in s.entities /\ i \in s.entities /\ i \in Items /\ s.ID_Parent[i] = h) =>
                 Process_event_reject(s, h, i) = s
<1> DEFINE t == [s EXCEPT !.ID_Parent[i] = None]
           Can == h \in s.entities /\ i \in s.entities /\ i \in Items /\ s.ID_Parent[i] = h
<1>1. CASE Can
  <2>0. t = [entities |-> s.entities, ID_Parent |-> [s.ID_Parent EXCEPT ![i] = None],
             released |-> s.released, net_Queue |-> s.net_Queue]
    BY ServerRecord
  <2>1. /\ t.entities = s.entities /\ t.ID_Parent = [s.ID_Parent EXCEPT ![i] = None]
        /\ t.released = s.released /\ t.net_Queue = s.net_Queue
        /\ t \in Servers /\ h \in Holders \cup {None} /\ i \in Objects
    BY <1>1, <2>0, ServerRecord, Types DEF Servers
  <2>2. Process_event_reject(s, h, i) = Send(t, "reject", h, i)
    BY <1>1 DEF Process_event_reject, Children
  <2> HIDE DEF t
  <2>3. QED
    BY <1>1, <2>1, <2>2, SendType
<1>2. CASE ~ Can
  BY <1>2 DEF Process_event_reject, Children
<1>3. QED
  BY <1>1, <1>2

LEMMA DestroyAloneType ==
    ASSUME NEW s \in Servers, NEW o \in Objects
    PROVE  DestroyAlone(s, o) \in Servers
<1> DEFINE free == IF s.ID_Parent[o] = None THEN s ELSE Process_event_reject(s, s.ID_Parent[o], o)
           left == [free EXCEPT !.entities = @ \ {o}, !.released = @ \cup {o}]
<1>1. free \in Servers
  BY RejectType
<1>2. DestroyAlone(s, o) = Send(left, "destroy", None, o)
  BY DEF DestroyAlone
<1>3. left \in Servers
  <2> HIDE DEF free
  <2>1. QED
    BY <1>1 DEF Servers
<1> HIDE DEF left, free
<1>4. QED
  BY <1>2, <1>3, SendType

-----------------------------------------------------------------------------
(* The folds of the server, as paths. *)

SpawnAll(s, seq) == FoldLeft(SpawnOne, s, seq)
ForgetAll(s, o, seq) == FoldLeft(LAMBDA t, i : RejectAndForget(t, o, i), s, seq)
DestroyAll(s, seq) == FoldLeft(DestroyAlone, s, seq)

\* SpawnTree: the spawns of a holder and its children, one after the other.
LEMMA SpawnPath ==
    ASSUME NEW s \in Servers, NEW seq \in Seq(Objects)
    PROVE  \E path \in [0..Len(seq) -> Servers] :
               /\ path[0] = s /\ path[Len(seq)] = SpawnAll(s, seq)
               /\ \A n \in 1..Len(seq) : path[n] = SpawnOne(path[n - 1], seq[n])
<1> DEFINE it == CHOOSE iter : iter = [S \in SUBSET (DOMAIN seq) |->
                     IF S = {} THEN s ELSE SpawnOne(iter[S \ {Max(S)}], seq[Max(S)])]
           N == Len(seq)
           g == [x \in (1..N) \X Servers |-> SpawnOne(x[2], seq[x[1]])]
<1>1. SpawnAll(s, seq) = it[DOMAIN seq]
  BY DEF SpawnAll, FoldLeft, MapThenFoldSet
<1>2. N \in Nat /\ DOMAIN seq = 1..N /\ \A n \in 1..N : seq[n] \in Objects
  BY LenProperties, ElementOfSeq
<1>3. g \in [(1..N) \X Servers -> Servers]
  BY <1>2, SpawnOneType
<1>4. \A n \in 1..N, t \in Servers : g[<<n, t>>] = SpawnOne(t, seq[n])
  OBVIOUS
<1> HIDE DEF g, N
<1>5. PICK f \in [SUBSET (1..N) -> Servers] : FoldOf(f, s, N, g)
  BY <1>2, <1>3, FoldExists
<1>6. f = [S \in SUBSET (DOMAIN seq) |-> IF S = {} THEN s ELSE SpawnOne(f[S \ {Max(S)}], seq[Max(S)])]
  <2>1. ASSUME NEW S \in SUBSET (1..N)
        PROVE  f[S] = IF S = {} THEN s ELSE SpawnOne(f[S \ {Max(S)}], seq[Max(S)])
    <3>1. S # {} => Max(S) \in 1..N
      BY <1>2, MaxIsIn
    <3>2. f[S \ {Max(S)}] \in Servers
      OBVIOUS
    <3>3. S # {} => g[<<Max(S), f[S \ {Max(S)}]>>] = SpawnOne(f[S \ {Max(S)}], seq[Max(S)])
      BY <1>4, <3>1, <3>2
    <3>4. QED
      BY <1>5, <3>3 DEF FoldOf
  <2>2. QED
    BY <1>2, <2>1
<1>7. it = [S \in SUBSET (DOMAIN seq) |-> IF S = {} THEN s ELSE SpawnOne(it[S \ {Max(S)}], seq[Max(S)])]
  BY <1>6
<1> HIDE DEF it
<1>8. it[{}] = s
  <2>1. {} \in SUBSET (DOMAIN seq)
    OBVIOUS
  <2>2. QED
    BY <1>7, <2>1
<1>9. \A S \in SUBSET (1..N) : S # {} /\ it[S \ {Max(S)}] \in Servers =>
         it[S] = g[<<Max(S), it[S \ {Max(S)}]>>]
  <2>1. TAKE S \in SUBSET (1..N)
  <2>2. HAVE S # {} /\ it[S \ {Max(S)}] \in Servers
  <2>3. it[S] = SpawnOne(it[S \ {Max(S)}], seq[Max(S)])
    BY <1>2, <1>7, <2>2
  <2>4. Max(S) \in 1..N
    BY <1>2, <2>2, MaxIsIn
  <2>5. QED
    BY <1>4, <2>2, <2>3, <2>4
<1>10. Climbing(it, s, N, Servers, g)
  BY <1>8, <1>9 DEF Climbing
<1>11. PICK path \in [0..N -> Servers] : Follows(path, s, N, g, it[1..N])
  BY <1>2, <1>3, <1>10, FoldPath
<1>12. ASSUME NEW n \in 1..N
       PROVE  path[n] = SpawnOne(path[n - 1], seq[n])
  <2>1. path[n - 1] \in Servers
    <3>1. n - 1 \in 0..N
      BY <1>2
    <3>2. QED
      BY <3>1
  <2>2. QED
    BY <1>4, <1>11, <2>1 DEF Follows
<1>13. QED
  BY <1>1, <1>2, <1>11, <1>12 DEF N, Follows

\* Perform_destroy: each child is rejected and forgotten.
LEMMA PerformPath ==
    ASSUME NEW s \in Servers, NEW o, NEW seq \in Seq(Objects)
    PROVE  \E path \in [0..Len(seq) -> Servers] :
               /\ path[0] = s /\ path[Len(seq)] = ForgetAll(s, o, seq)
               /\ \A n \in 1..Len(seq) : path[n] = RejectAndForget(path[n - 1], o, seq[n])
<1> DEFINE it == CHOOSE iter : iter = [S \in SUBSET (DOMAIN seq) |->
                     IF S = {} THEN s ELSE RejectAndForget(iter[S \ {Max(S)}], o, seq[Max(S)])]
           N == Len(seq)
           g == [x \in (1..N) \X Servers |-> RejectAndForget(x[2], o, seq[x[1]])]
<1>1. ForgetAll(s, o, seq) = it[DOMAIN seq]
  BY DEF ForgetAll, FoldLeft, MapThenFoldSet
<1>2. N \in Nat /\ DOMAIN seq = 1..N /\ \A n \in 1..N : seq[n] \in Objects
  BY LenProperties, ElementOfSeq
<1>3. g \in [(1..N) \X Servers -> Servers]
  BY <1>2, RejectType, ForgetType DEF RejectAndForget
<1>4. \A n \in 1..N, t \in Servers : g[<<n, t>>] = RejectAndForget(t, o, seq[n])
  OBVIOUS
<1> HIDE DEF g, N
<1>5. PICK f \in [SUBSET (1..N) -> Servers] : FoldOf(f, s, N, g)
  BY <1>2, <1>3, FoldExists
<1>6. f = [S \in SUBSET (DOMAIN seq) |-> IF S = {} THEN s ELSE RejectAndForget(f[S \ {Max(S)}], o, seq[Max(S)])]
  <2>1. ASSUME NEW S \in SUBSET (1..N)
        PROVE  f[S] = IF S = {} THEN s ELSE RejectAndForget(f[S \ {Max(S)}], o, seq[Max(S)])
    <3>1. S # {} => Max(S) \in 1..N
      BY <1>2, MaxIsIn
    <3>2. f[S \ {Max(S)}] \in Servers
      OBVIOUS
    <3>3. S # {} => g[<<Max(S), f[S \ {Max(S)}]>>] = RejectAndForget(f[S \ {Max(S)}], o, seq[Max(S)])
      BY <1>4, <3>1, <3>2
    <3>4. QED
      BY <1>5, <3>3 DEF FoldOf
  <2>2. QED
    BY <1>2, <2>1
<1>7. it = [S \in SUBSET (DOMAIN seq) |-> IF S = {} THEN s ELSE RejectAndForget(it[S \ {Max(S)}], o, seq[Max(S)])]
  BY <1>6
<1> HIDE DEF it
<1>8. it[{}] = s
  <2>1. {} \in SUBSET (DOMAIN seq)
    OBVIOUS
  <2>2. QED
    BY <1>7, <2>1
<1>9. \A S \in SUBSET (1..N) : S # {} /\ it[S \ {Max(S)}] \in Servers =>
         it[S] = g[<<Max(S), it[S \ {Max(S)}]>>]
  <2>1. TAKE S \in SUBSET (1..N)
  <2>2. HAVE S # {} /\ it[S \ {Max(S)}] \in Servers
  <2>3. it[S] = RejectAndForget(it[S \ {Max(S)}], o, seq[Max(S)])
    BY <1>2, <1>7, <2>2
  <2>4. Max(S) \in 1..N
    BY <1>2, <2>2, MaxIsIn
  <2>5. QED
    BY <1>4, <2>2, <2>3, <2>4
<1>10. Climbing(it, s, N, Servers, g)
  BY <1>8, <1>9 DEF Climbing
<1>11. PICK path \in [0..N -> Servers] : Follows(path, s, N, g, it[1..N])
  BY <1>2, <1>3, <1>10, FoldPath
<1>12. ASSUME NEW n \in 1..N
       PROVE  path[n] = RejectAndForget(path[n - 1], o, seq[n])
  <2>1. path[n - 1] \in Servers
    <3>1. n - 1 \in 0..N
      BY <1>2
    <3>2. QED
      BY <3>1
  <2>2. QED
    BY <1>4, <1>11, <2>1 DEF Follows
<1>13. QED
  BY <1>1, <1>2, <1>11, <1>12 DEF N, Follows

\* Process_event_destroy: each child is destroyed.
LEMMA DestroyPath ==
    ASSUME NEW s \in Servers, NEW seq \in Seq(Objects)
    PROVE  \E path \in [0..Len(seq) -> Servers] :
               /\ path[0] = s /\ path[Len(seq)] = DestroyAll(s, seq)
               /\ \A n \in 1..Len(seq) : path[n] = DestroyAlone(path[n - 1], seq[n])
<1> DEFINE it == CHOOSE iter : iter = [S \in SUBSET (DOMAIN seq) |->
                     IF S = {} THEN s ELSE DestroyAlone(iter[S \ {Max(S)}], seq[Max(S)])]
           N == Len(seq)
           g == [x \in (1..N) \X Servers |-> DestroyAlone(x[2], seq[x[1]])]
<1>1. DestroyAll(s, seq) = it[DOMAIN seq]
  BY DEF DestroyAll, FoldLeft, MapThenFoldSet
<1>2. N \in Nat /\ DOMAIN seq = 1..N /\ \A n \in 1..N : seq[n] \in Objects
  BY LenProperties, ElementOfSeq
<1>3. g \in [(1..N) \X Servers -> Servers]
  BY <1>2, DestroyAloneType
<1>4. \A n \in 1..N, t \in Servers : g[<<n, t>>] = DestroyAlone(t, seq[n])
  OBVIOUS
<1> HIDE DEF g, N
<1>5. PICK f \in [SUBSET (1..N) -> Servers] : FoldOf(f, s, N, g)
  BY <1>2, <1>3, FoldExists
<1>6. f = [S \in SUBSET (DOMAIN seq) |-> IF S = {} THEN s ELSE DestroyAlone(f[S \ {Max(S)}], seq[Max(S)])]
  <2>1. ASSUME NEW S \in SUBSET (1..N)
        PROVE  f[S] = IF S = {} THEN s ELSE DestroyAlone(f[S \ {Max(S)}], seq[Max(S)])
    <3>1. S # {} => Max(S) \in 1..N
      BY <1>2, MaxIsIn
    <3>2. f[S \ {Max(S)}] \in Servers
      OBVIOUS
    <3>3. S # {} => g[<<Max(S), f[S \ {Max(S)}]>>] = DestroyAlone(f[S \ {Max(S)}], seq[Max(S)])
      BY <1>4, <3>1, <3>2
    <3>4. QED
      BY <1>5, <3>3 DEF FoldOf
  <2>2. QED
    BY <1>2, <2>1
<1>7. it = [S \in SUBSET (DOMAIN seq) |-> IF S = {} THEN s ELSE DestroyAlone(it[S \ {Max(S)}], seq[Max(S)])]
  BY <1>6
<1> HIDE DEF it
<1>8. it[{}] = s
  <2>1. {} \in SUBSET (DOMAIN seq)
    OBVIOUS
  <2>2. QED
    BY <1>7, <2>1
<1>9. \A S \in SUBSET (1..N) : S # {} /\ it[S \ {Max(S)}] \in Servers =>
         it[S] = g[<<Max(S), it[S \ {Max(S)}]>>]
  <2>1. TAKE S \in SUBSET (1..N)
  <2>2. HAVE S # {} /\ it[S \ {Max(S)}] \in Servers
  <2>3. it[S] = DestroyAlone(it[S \ {Max(S)}], seq[Max(S)])
    BY <1>2, <1>7, <2>2
  <2>4. Max(S) \in 1..N
    BY <1>2, <2>2, MaxIsIn
  <2>5. QED
    BY <1>4, <2>2, <2>3, <2>4
<1>10. Climbing(it, s, N, Servers, g)
  BY <1>8, <1>9 DEF Climbing
<1>11. PICK path \in [0..N -> Servers] : Follows(path, s, N, g, it[1..N])
  BY <1>2, <1>3, <1>10, FoldPath
<1>12. ASSUME NEW n \in 1..N
       PROVE  path[n] = DestroyAlone(path[n - 1], seq[n])
  <2>1. path[n - 1] \in Servers
    <3>1. n - 1 \in 0..N
      BY <1>2
    <3>2. QED
      BY <3>1
  <2>2. QED
    BY <1>4, <1>11, <2>1 DEF Follows
<1>13. QED
  BY <1>1, <1>2, <1>11, <1>12 DEF N, Follows

LEMMA AsFolds ==
    ASSUME NEW s, NEW o
    PROVE  /\ SpawnTree(s, o) = SpawnAll(s, <<o>> \o SetToSeq(Children(s, o)))
           /\ Perform_destroy(s, o) =
                 [Forget(ForgetAll(s, o, SetToSeq(Children(s, o))), o) EXCEPT !.ID_Parent = s.ID_Parent]
           /\ Process_event_destroy(s, o) =
                 DestroyAlone(DestroyAll(s, SetToSeq(Children(s, o))), o)
<1>1. SpawnTree(s, o) = SpawnAll(s, <<o>> \o SetToSeq(Children(s, o)))
  BY Zenon DEF SpawnTree, SpawnAll, SpawnOne, FoldLeft, MapThenFoldSet
<1>2. Perform_destroy(s, o) =
         [Forget(ForgetAll(s, o, SetToSeq(Children(s, o))), o) EXCEPT !.ID_Parent = s.ID_Parent]
  BY Zenon DEF Perform_destroy, ForgetAll, RejectAndForget, Forget, FoldLeft, MapThenFoldSet
<1>3. Process_event_destroy(s, o) = DestroyAlone(DestroyAll(s, SetToSeq(Children(s, o))), o)
  BY Zenon DEF Process_event_destroy, DestroyAll, FoldLeft, MapThenFoldSet
<1>4. QED
  BY <1>1, <1>2, <1>3

\* SetToSeq puts a finite set in a row.
LEMMA InARow ==
    ASSUME NEW S, IsFiniteSet(S)
    PROVE  /\ SetToSeq(S) \in Seq(S)
           /\ \A x \in S : \E n \in 1..Len(SetToSeq(S)) : SetToSeq(S)[n] = x
           /\ \A m, n \in 1..Len(SetToSeq(S)) : SetToSeq(S)[m] = SetToSeq(S)[n] => m = n
<1> DEFINE N == Cardinality(S)
           row == SetToSeq(S)
<1>1. N \in Nat
  BY FS_CardinalityType
<1>2. \E f \in [1..N -> S] : IsInjective(f)
  <2>1. ExistsBijection(1..N, S)
    BY FS_NatBijection, FS_CardinalityType
  <2>2. PICK f : f \in Bijection(1..N, S)
    BY <2>1 DEF ExistsBijection
  <2>3. f \in [1..N -> S] /\ \A a, b \in 1..N : f[a] = f[b] => a = b
    BY <2>2 DEF Bijection, Injection, IsInjective
  <2>4. QED
    BY <2>3 DEF IsInjective
<1>3. row \in [1..N -> S] /\ IsInjective(row)
  BY <1>2 DEF SetToSeq
<1>4. row \in Seq(S) /\ Len(row) = N
  BY <1>1, <1>3
<1>5. \A m, n \in 1..N : row[m] = row[n] => m = n
  BY <1>3 DEF IsInjective
<1>6. \A x \in S : \E n \in 1..N : row[n] = x
  <2>1. row \in Injection(1..N, S)
    BY <1>3 DEF Injection, IsInjective
  <2>2. IsFiniteSet(1..N) /\ Cardinality(1..N) = N
    BY <1>1, FS_Interval
  <2>3. row \in Surjection(1..N, S)
    BY <2>1, <2>2, FS_Injection
  <2>4. QED
    BY <2>3 DEF Surjection
<1>7. QED
  BY <1>4, <1>5, <1>6

-----------------------------------------------------------------------------
(* What the server tells the client. *)

ServerFits(s) ==
    /\ s \in Servers
    /\ \A h \in Holders : s.ID_Parent[h] = None
    /\ \A i \in Objects : s.ID_Parent[i] # None =>
          (i \in s.entities <=> s.ID_Parent[i] \in s.entities)
    /\ \A o \in s.released : o \notin s.entities /\ s.ID_Parent[o] = None

\* A spawn finds no trace of a former life of the object.
Fresh(c, q) ==
    \A n \in 1..Len(q) : q[n].type = "spawn" =>
        /\ c.object[q[n].id] = "absent"
        /\ \A m \in 1..(n - 1) : q[m].id # q[n].id

Silent(q, o) == \A n \in 1..Len(q) : q[n].id # o

Way(c, s) == c.game_events \o s.net_Queue

Told(c, s) ==
    /\ Leads(ClientPicture(c), Way(c, s), ServerPicture(s))
    /\ Fresh(c, Way(c, s))

\* The server changes as its message says.
Sends(s, t, e) ==
    /\ Fits(ServerPicture(s), e)
    /\ ServerPicture(t) = After(ServerPicture(s), e)
    /\ t.net_Queue = Append(s.net_Queue, e)

LEMMA AppendLater ==
    ASSUME NEW S, NEW a \in Seq(S), NEW b \in Seq(S), NEW e \in S
    PROVE  a \o Append(b, e) = Append(a \o b, e)
<1>1. <<e>> \in Seq(S) /\ a \o b \in Seq(S)
  BY ConcatProperties
<1>2. Append(b, e) = b \o <<e>> /\ Append(a \o b, e) = (a \o b) \o <<e>>
  BY <1>1, AppendIsConcat
<1>3. (a \o b) \o <<e>> = a \o (b \o <<e>>)
  BY <1>1, ConcatAssociative
<1>4. QED
  BY <1>2, <1>3

LEMMA TellsOn ==
    ASSUME NEW c, c.game_events \in Seq(Messages), NEW s \in Servers, NEW t, NEW e,
           Told(c, s), Sends(s, t, e),
           e.type = "spawn" => c.object[e.id] = "absent" /\ Silent(Way(c, s), e.id)
    PROVE  /\ Told(c, t)
           /\ \A o : o # e.id /\ Silent(Way(c, s), o) => Silent(Way(c, t), o)
<1> DEFINE q == Way(c, s)
<1>1. s.net_Queue \in Seq(Messages) /\ e \in Messages
  BY ServerRecord DEF Sends, Fits
<1>2. q \in Seq(Messages) /\ Way(c, t) = Append(q, e)
  <2>1. q \in Seq(Messages)
    BY <1>1, ConcatProperties DEF Way
  <2>2. c.game_events \o Append(s.net_Queue, e) = Append(c.game_events \o s.net_Queue, e)
    <3> DEFINE a == c.game_events
               b == s.net_Queue
    <3>1. a \in Seq(Messages) /\ b \in Seq(Messages)
      BY <1>1
    <3> HIDE DEF a, b
    <3>2. a \o Append(b, e) = Append(a \o b, e)
      BY ONLY <1>1, <3>1, AppendLater
    <3>3. QED
      BY Zenon, <3>2 DEF a, b
  <2>3. QED
    BY <2>1, <2>2 DEF Way, Sends
<1>3. /\ Len(q) \in Nat /\ Len(Append(q, e)) = Len(q) + 1
      /\ \A n \in 1..Len(q) : Append(q, e)[n] = q[n]
      /\ Append(q, e)[Len(q) + 1] = e
  <2> HIDE DEF q
  <2>1. QED
    BY <1>1, <1>2, AppendProperties
<1>4. Leads(ClientPicture(c), Append(q, e), ServerPicture(t))
  BY <1>2, LeadsFurther DEF Told, Sends
<1> HIDE DEF q
<1>5. Fresh(c, Append(q, e))
  <2>1. SUFFICES ASSUME NEW n \in 1..(Len(q) + 1), Append(q, e)[n].type = "spawn"
                 PROVE  /\ c.object[Append(q, e)[n].id] = "absent"
                        /\ \A m \in 1..(n - 1) : Append(q, e)[m].id # Append(q, e)[n].id
    BY <1>3 DEF Fresh
  <2>2. \A m \in 1..(n - 1) : m \in 1..Len(q) /\ Append(q, e)[m] = q[m]
    BY <1>3
  <2>3. CASE n = Len(q) + 1
    BY <1>3, <2>1, <2>2, <2>3 DEF Silent, q
  <2>4. CASE n \in 1..Len(q)
    <3>1. Fresh(c, q)
      BY DEF Told, q
    <3>2. QED
      BY <1>3, <2>1, <2>2, <2>4, <3>1 DEF Fresh
  <2>5. QED
    BY <1>3, <2>3, <2>4
<1>6. ASSUME NEW o, o # e.id, Silent(q, o)
      PROVE  Silent(Append(q, e), o)
  <2>1. ASSUME NEW n \in 1..(Len(q) + 1)
        PROVE  Append(q, e)[n].id # o
    <3>1. n \in 1..Len(q) \/ n = Len(q) + 1
      BY <1>3
    <3>2. QED
      BY <1>3, <1>6, <3>1 DEF Silent
  <2>2. QED
    BY <1>3, <2>1 DEF Silent
<1>7. QED
  BY <1>2, <1>4, <1>5, <1>6 DEF Told, q

LEMMA SpawnSends ==
    ASSUME NEW s \in Servers, NEW i \in Objects, i \notin s.entities,
           s.ID_Parent[i] # None => i \in Items /\ s.ID_Parent[i] \in s.entities
    PROVE  Sends(s, SpawnOne(s, i), [type |-> "spawn", dest |-> s.ID_Parent[i], id |-> i])
<1> DEFINE e == [type |-> "spawn", dest |-> s.ID_Parent[i], id |-> i]
           t == SpawnOne(s, i)
           p == ServerPicture(s)
<1>1. /\ t.entities = s.entities \cup {i} /\ t.ID_Parent = s.ID_Parent
      /\ t.net_Queue = Append(s.net_Queue, e)
  BY SpawnOneType
<1>2. e \in Messages /\ s.ID_Parent[i] \in Holders \cup {None}
  BY ServerRecord DEF Messages
<1> HIDE DEF t
<1>3. p.alive = s.entities \ Unspawnable /\ \A o \in s.entities : Knows(p, o)
  BY DEF ServerPicture, Knows
<1>4. Fits(p, e)
  <2> HIDE DEF p
  <2>1. QED
    BY <1>2, <1>3 DEF Fits
<1>5. p.parent = [o \in Objects |->
         IF o \in s.entities \ Unspawnable THEN Shown(s.ID_Parent[o]) ELSE None]
  BY DEF ServerPicture
<1>6. ServerPicture(t) = [alive |-> (s.entities \cup {i}) \ Unspawnable,
                          parent |-> [o \in Objects |->
         IF o \in (s.entities \cup {i}) \ Unspawnable THEN Shown(s.ID_Parent[o]) ELSE None]]
  BY <1>1 DEF ServerPicture
<1>7. CASE i \in Unspawnable
  <2>1. (s.entities \cup {i}) \ Unspawnable = s.entities \ Unspawnable
    BY <1>7
  <2>2. After(p, e) = p
    BY <1>7 DEF After
  <2>3. ServerPicture(t) = p
    BY <1>6, <2>1 DEF ServerPicture
  <2> HIDE DEF p, e
  <2>4. QED
    BY <1>1, <1>4, <2>2, <2>3 DEF Sends, p, e, t
<1>8. CASE i \notin Unspawnable
  <2>1. (s.entities \cup {i}) \ Unspawnable = (s.entities \ Unspawnable) \cup {i}
    BY <1>8
  <2>2. After(p, e) = [alive |-> p.alive \cup {i},
                       parent |-> [p.parent EXCEPT ![i] = Shown(s.ID_Parent[i])]]
    BY <1>8 DEF After
  <2>3. [p.parent EXCEPT ![i] = Shown(s.ID_Parent[i])] = [o \in Objects |->
            IF o \in (s.entities \cup {i}) \ Unspawnable THEN Shown(s.ID_Parent[o]) ELSE None]
    <3> HIDE DEF p
    <3>1. QED
      BY <1>5, <1>8
  <2>4. p.alive \cup {i} = (s.entities \cup {i}) \ Unspawnable
    BY <1>3, <2>1
  <2> HIDE DEF p, e
  <2>5. ServerPicture(t) = After(p, e)
    BY <1>6, <2>2, <2>3, <2>4
  <2>6. QED
    BY <1>1, <1>4, <2>5 DEF Sends, p, e, t
<1>9. QED
  BY <1>7, <1>8

LEMMA RejectSends ==
    ASSUME NEW s \in Servers, NEW h \in Holders, NEW i \in Items,
           h \in s.entities, i \in s.entities, s.ID_Parent[i] = h
    PROVE  Sends(s, Process_event_reject(s, h, i), [type |-> "reject", dest |-> h, id |-> i])
<1> DEFINE e == [type |-> "reject", dest |-> h, id |-> i]
           t == Process_event_reject(s, h, i)
           p == ServerPicture(s)
<1>1. /\ t.entities = s.entities /\ t.ID_Parent = [s.ID_Parent EXCEPT ![i] = None]
      /\ t.net_Queue = Append(s.net_Queue, e)
  BY RejectType
<1>2. e \in Messages /\ i \in Objects /\ h # None
  BY Types DEF Messages
<1> HIDE DEF t
<1>3. p.alive = s.entities \ Unspawnable /\ \A o \in s.entities : Knows(p, o)
  BY DEF ServerPicture, Knows
<1>4. p.parent = [o \in Objects |->
         IF o \in s.entities \ Unspawnable THEN Shown(s.ID_Parent[o]) ELSE None]
  BY DEF ServerPicture
<1>5. ServerPicture(t) = [alive |-> s.entities \ Unspawnable, parent |-> [o \in Objects |->
         IF o \in s.entities \ Unspawnable THEN Shown(t.ID_Parent[o]) ELSE None]]
  BY <1>1 DEF ServerPicture
<1> HIDE DEF p
<1>6. i \in p.alive => p.parent[i] = Shown(h)
  BY <1>2, <1>3, <1>4
<1>7. Fits(p, e)
  BY <1>2, <1>3, <1>6 DEF Fits
<1>8. After(p, e) = [alive |-> p.alive, parent |-> [p.parent EXCEPT ![i] = None]]
  BY DEF After
<1>9. [p.parent EXCEPT ![i] = None] = [o \in Objects |->
         IF o \in s.entities \ Unspawnable THEN Shown(t.ID_Parent[o]) ELSE None]
  <2>1. Shown(None) = None
    BY DEF Shown
  <2>2. \A o \in Objects : t.ID_Parent[o] = IF o = i THEN None ELSE s.ID_Parent[o]
    BY <1>1, <1>2, ServerRecord
  <2>3. QED
    BY <1>4, <2>1, <2>2
<1> HIDE DEF e
<1>10. ServerPicture(t) = After(p, e)
  BY <1>3, <1>5, <1>8, <1>9
<1>11. QED
  BY <1>1, <1>7, <1>10 DEF Sends, p, e, t

LEMMA ForgetSends ==
    ASSUME NEW s \in Servers, NEW o \in Objects, NEW t,
           o \in s.entities, s.ID_Parent[o] = None, \A x \in s.entities : s.ID_Parent[x] # o,
           t.entities = s.entities \ {o}, t.ID_Parent = s.ID_Parent,
           t.net_Queue = Append(s.net_Queue, [type |-> "destroy", dest |-> None, id |-> o])
    PROVE  Sends(s, t, [type |-> "destroy", dest |-> None, id |-> o])
<1> DEFINE e == [type |-> "destroy", dest |-> None, id |-> o]
           p == ServerPicture(s)
<1>1. e \in Messages /\ Shown(None) = None /\ o # None
  BY Types DEF Messages, Shown
<1>2. p.alive = s.entities \ Unspawnable /\ Knows(p, o)
  BY DEF ServerPicture, Knows
<1>3. p.parent = [x \in Objects |->
         IF x \in s.entities \ Unspawnable THEN Shown(s.ID_Parent[x]) ELSE None]
  BY DEF ServerPicture
<1>4. ServerPicture(t) = [alive |-> (s.entities \ {o}) \ Unspawnable, parent |-> [x \in Objects |->
         IF x \in (s.entities \ {o}) \ Unspawnable THEN Shown(s.ID_Parent[x]) ELSE None]]
  BY DEF ServerPicture
<1> HIDE DEF p
<1>5. p.parent[o] = None /\ \A x \in Objects : p.parent[x] # o
  <2>1. p.parent[o] = None
    BY <1>1, <1>3
  <2>2. ASSUME NEW x \in Objects, p.parent[x] = o
        PROVE  FALSE
    <3>1. x \in s.entities /\ Shown(s.ID_Parent[x]) = o
      BY <1>1, <1>3, <2>2
    <3>2. s.ID_Parent[x] = o
      BY <1>1, <3>1 DEF Shown
    <3>3. QED
      BY <3>1, <3>2
  <2>3. QED
    BY <2>1, <2>2
<1>6. Fits(p, e)
  BY <1>1, <1>2, <1>5 DEF Fits
<1>7. After(p, e) = [alive |-> p.alive \ {o}, parent |-> p.parent]
  BY DEF After
<1>8. p.alive \ {o} = (s.entities \ {o}) \ Unspawnable
  BY <1>2
<1>9. p.parent = [x \in Objects |->
         IF x \in (s.entities \ {o}) \ Unspawnable THEN Shown(s.ID_Parent[x]) ELSE None]
  BY <1>1, <1>3
<1> HIDE DEF e
<1>10. ServerPicture(t) = After(p, e)
  BY <1>4, <1>7, <1>8, <1>9
<1>11. QED
  BY <1>6, <1>10 DEF Sends, p, e

LEMMA TakeSends ==
    ASSUME NEW s \in Servers, NEW h \in Holders, NEW i \in Items, NEW t,
           h \in s.entities \ Unspawnable, i \in s.entities \ Unspawnable, s.ID_Parent[i] = None,
           t.entities = s.entities, t.ID_Parent = [s.ID_Parent EXCEPT ![i] = h],
           t.net_Queue = Append(s.net_Queue, [type |-> "take", dest |-> h, id |-> i])
    PROVE  Sends(s, t, [type |-> "take", dest |-> h, id |-> i])
<1> DEFINE e == [type |-> "take", dest |-> h, id |-> i]
           p == ServerPicture(s)
<1>1. e \in Messages /\ i \in Objects /\ Shown(None) = None /\ Shown(h) = h
  BY Types DEF Messages, Shown
<1>2. p.alive = s.entities \ Unspawnable
  BY DEF ServerPicture
<1>3. p.parent = [o \in Objects |->
         IF o \in s.entities \ Unspawnable THEN Shown(s.ID_Parent[o]) ELSE None]
  BY DEF ServerPicture
<1>4. ServerPicture(t) = [alive |-> s.entities \ Unspawnable, parent |-> [o \in Objects |->
         IF o \in s.entities \ Unspawnable THEN Shown(t.ID_Parent[o]) ELSE None]]
  BY DEF ServerPicture
<1> HIDE DEF p
<1>5. p.parent[i] = None
  BY <1>1, <1>3
<1>6. Fits(p, e)
  BY <1>1, <1>2, <1>5 DEF Fits
<1>7. After(p, e) = [alive |-> p.alive, parent |-> [p.parent EXCEPT ![i] = h]]
  BY DEF After
<1>8. [p.parent EXCEPT ![i] = h] = [o \in Objects |->
         IF o \in s.entities \ Unspawnable THEN Shown(t.ID_Parent[o]) ELSE None]
  <2>1. \A o \in Objects : t.ID_Parent[o] = IF o = i THEN h ELSE s.ID_Parent[o]
    BY <1>1, ServerRecord
  <2>2. QED
    BY <1>1, <1>3, <2>1
<1> HIDE DEF e
<1>9. ServerPicture(t) = After(p, e)
  BY <1>2, <1>4, <1>7, <1>8
<1>10. QED
  BY <1>6, <1>9 DEF Sends, p, e

-----------------------------------------------------------------------------
(* The server's handlers as a whole. *)

\* The first n of a row.
First(row, n) == {x \in Objects : \E k \in 1..n : row[k] = x}

LEMMA FirstStep ==
    ASSUME NEW row \in Seq(Objects), NEW n \in 1..Len(row)
    PROVE  /\ First(row, 0) = {} /\ row[n] \in Objects
           /\ First(row, n) = First(row, n - 1) \cup {row[n]}
           /\ (\A k, m \in 1..Len(row) : row[k] = row[m] => k = m) => row[n] \notin First(row, n - 1)
<1>1. 1..0 = {} /\ Len(row) \in Nat
  BY LenProperties
<1>2. row[n] \in Objects
  BY ElementOfSeq
<1>3. /\ \A k : k \in 1..n <=> k \in 1..(n - 1) \/ k = n
      /\ \A k \in 1..(n - 1) : k \in 1..Len(row) /\ k # n
  BY <1>1
<1>4. First(row, n) = First(row, n - 1) \cup {row[n]}
  BY <1>2, <1>3 DEF First
<1>5. QED
  BY <1>1, <1>2, <1>3, <1>4 DEF First

LEMMA ChildrenFit ==
    ASSUME NEW s, ServerFits(s), NEW o \in Objects
    PROVE  /\ Children(s, o) \subseteq Items /\ IsFiniteSet(Children(s, o))
           /\ SetToSeq(Children(s, o)) \in Seq(Objects)
           /\ \A i \in Children(s, o) : i \in Objects /\ s.ID_Parent[i] = o /\ i # o /\ o \in Holders
           /\ \A i \in Children(s, o) : i \in s.entities <=> o \in s.entities
<1>1. Children(s, o) \subseteq Items
  BY DEF Children
<1>2. IsFiniteSet(Children(s, o))
  BY <1>1, ClientAssumption, FS_Subset
<1>3. SetToSeq(Children(s, o)) \in Seq(Objects)
  <2>1. SetToSeq(Children(s, o)) \in Seq(Children(s, o)) /\ Children(s, o) \subseteq Objects
    BY <1>1, <1>2, InARow, Types
  <2>2. QED
    BY <2>1
<1>4. \A i \in Children(s, o) : i \in Objects /\ s.ID_Parent[i] = o /\ i # o /\ o \in Holders
  BY <1>1, Types, ServerRecord DEF Children, ServerFits
<1>5. \A i \in Children(s, o) : i \in s.entities <=> o \in s.entities
  BY <1>4, Types DEF ServerFits
<1>6. QED
  BY <1>1, <1>2, <1>3, <1>4, <1>5

LEMMA SpawnTreeTells ==
    ASSUME NEW c, c.game_events \in Seq(Messages), NEW s, ServerFits(s), Told(c, s),
           NEW o \in Objects, o \notin s.entities, o \notin s.released, s.ID_Parent[o] = None,
           \A p \in {o} \cup Children(s, o) : c.object[p] = "absent" /\ Silent(Way(c, s), p)
    PROVE  /\ ServerFits(SpawnTree(s, o)) /\ Told(c, SpawnTree(s, o))
           /\ SpawnTree(s, o).entities = s.entities \cup {o} \cup Children(s, o)
           /\ SpawnTree(s, o).ID_Parent = s.ID_Parent
           /\ SpawnTree(s, o).released = s.released
           /\ \A x : x \notin {o} \cup Children(s, o) /\ Silent(Way(c, s), x) =>
                 Silent(Way(c, SpawnTree(s, o)), x)
<1> DEFINE kids == SetToSeq(Children(s, o))
           row == <<o>> \o kids
           N == Len(row)
<1>1. s \in Servers
  BY DEF ServerFits
<1>2. /\ kids \in Seq(Children(s, o)) /\ kids \in Seq(Objects)
      /\ \A x \in Children(s, o) : \E n \in 1..Len(kids) : kids[n] = x
      /\ \A m, n \in 1..Len(kids) : kids[m] = kids[n] => m = n
  BY ChildrenFit, InARow
<1>3. /\ row \in Seq(Objects) /\ N \in Nat /\ N = Len(kids) + 1 /\ row[1] = o
      /\ \A n \in 1..Len(kids) : row[n + 1] = kids[n] /\ kids[n] \in Children(s, o)
      /\ Len(kids) \in Nat
  <2>1. <<o>> \in Seq(Objects) /\ Len(<<o>>) = 1 /\ <<o>>[1] = o
    OBVIOUS
  <2>2. Len(kids) \in Nat /\ \A n \in 1..Len(kids) : kids[n] \in Children(s, o)
    BY <1>2, LenProperties, ElementOfSeq
  <2> HIDE DEF kids
  <2>3. /\ row \in Seq(Objects) /\ N = 1 + Len(kids)
        /\ \A n \in 1..(1 + Len(kids)) : row[n] = IF n <= 1 THEN <<o>>[n] ELSE kids[n - 1]
    BY <1>2, <2>1, ConcatProperties
  <2>4. \A n \in 1..Len(kids) : row[n + 1] = kids[n]
    <3>1. TAKE n \in 1..Len(kids)
    <3>2. n + 1 \in 1..(1 + Len(kids)) /\ ~ (n + 1 <= 1) /\ (n + 1) - 1 = n
      BY <2>2
    <3>3. QED
      BY <2>3, <3>2
  <2>5. row[1] = o
    BY <2>1, <2>2, <2>3
  <2>6. QED
    BY <2>2, <2>3, <2>4, <2>5
<1> HIDE DEF kids, row
<1>4. \A n \in 1..N : n = 1 \/ (n - 1 \in 1..Len(kids) /\ row[n] = kids[n - 1])
  <2>1. TAKE n \in 1..N
  <2>2. n # 1 => n - 1 \in 1..Len(kids) /\ (n - 1) + 1 = n
    BY <1>3
  <2>3. QED
    BY <1>3, <2>2
<1>5. \A n \in 2..N : row[n] \in Children(s, o) /\ row[n] # o
  <2>1. TAKE n \in 2..N
  <2>2. n \in 1..N /\ n # 1
    BY <1>3
  <2>3. row[n] \in Children(s, o)
    BY <1>3, <1>4, <2>2
  <2>4. QED
    BY <2>3, ChildrenFit
<1>6. \A k, m \in 1..N : row[k] = row[m] => k = m
  <2>1. SUFFICES ASSUME NEW k \in 1..N, NEW m \in 1..N, row[k] = row[m]
                 PROVE  k = m
    OBVIOUS
  <2>2. CASE k = 1 \/ m = 1
    <3>1. k # 1 => k \in 2..N
      BY <1>3
    <3>2. m # 1 => m \in 2..N
      BY <1>3
    <3>3. QED
      BY <1>3, <1>5, <2>1, <2>2, <3>1, <3>2
  <2>3. CASE k # 1 /\ m # 1
    <3>0. /\ k - 1 \in 1..Len(kids) /\ row[k] = kids[k - 1]
          /\ m - 1 \in 1..Len(kids) /\ row[m] = kids[m - 1]
      BY <1>4, <2>3
    <3>1. k - 1 = m - 1
      BY <1>2, <2>1, <3>0
    <3>2. QED
      BY <1>3, <3>1
  <2>4. QED
    BY <2>2, <2>3
<1>7. PICK path \in [0..N -> Servers] :
         /\ path[0] = s /\ path[N] = SpawnAll(s, row)
         /\ \A n \in 1..N : path[n] = SpawnOne(path[n - 1], row[n])
  BY <1>1, <1>3, SpawnPath
<1> HIDE DEF N
<1> DEFINE Done(n) ==
        /\ path[n].entities = s.entities \cup First(row, n)
        /\ path[n].ID_Parent = s.ID_Parent /\ path[n].released = s.released
        /\ Told(c, path[n])
        /\ \A x : x \notin First(row, n) /\ Silent(Way(c, s), x) => Silent(Way(c, path[n]), x)
<1>8. First(row, 0) = {}
  <2>1. 1..0 = {}
    OBVIOUS
  <2>2. QED
    BY <2>1 DEF First
<1>9. Done(0)
  BY <1>7, <1>8
<1>10. ASSUME NEW n \in 1..N, Done(n - 1)
       PROVE  Done(n)
  <2> DEFINE i == row[n]
             u == path[n - 1]
             e == [type |-> "spawn", dest |-> u.ID_Parent[i], id |-> i]
  <2>1. /\ i \in Objects /\ First(row, n) = First(row, n - 1) \cup {i} /\ i \notin First(row, n - 1)
    BY <1>3, <1>6, FirstStep DEF N
  <2>2. i = o \/ i \in Children(s, o)
    BY <1>3, <1>5
  <2>3. i \notin s.entities
    BY <2>2, ChildrenFit
  <2>4. u \in Servers /\ path[n] = SpawnOne(u, i)
    <3>1. n - 1 \in 0..N
      BY <1>3 DEF N
    <3>2. QED
      BY <1>7, <3>1
  <2>5. i \notin u.entities
    BY <1>10, <2>1, <2>3
  <2>6. s.ID_Parent[i] # None => i \in Items /\ s.ID_Parent[i] \in u.entities
    <3>1. CASE i = o
      BY <3>1
    <3>2. CASE i # o
      <4>1. i \in Children(s, o) /\ s.ID_Parent[i] = o /\ i \in Items
        BY <2>2, <3>2, ChildrenFit
      <4>2. 1 \in 1..(n - 1)
        BY <1>3, <3>2 DEF N
      <4>3. o \in First(row, n - 1)
        BY <1>3, <4>2 DEF First
      <4>4. QED
        BY <1>10, <4>1, <4>3
    <3>3. QED
      BY <3>1, <3>2
  <2>7. Sends(u, path[n], e)
    BY <1>10, <2>1, <2>4, <2>5, <2>6, SpawnSends
  <2>8. c.object[i] = "absent" /\ Silent(Way(c, u), i)
    BY <1>10, <2>1, <2>2
  <2>9. /\ Told(c, path[n])
        /\ \A x : x # i /\ Silent(Way(c, u), x) => Silent(Way(c, path[n]), x)
    BY <1>10, <2>4, <2>7, <2>8, TellsOn
  <2>10. /\ path[n].entities = u.entities \cup {i} /\ path[n].ID_Parent = u.ID_Parent
         /\ path[n].released = u.released
    <3> HIDE DEF i, u
    <3>1. SpawnOne(u, i) =
             [entities |-> u.entities \cup {i}, ID_Parent |-> u.ID_Parent, released |-> u.released,
              net_Queue |-> Append(u.net_Queue,
                                   [type |-> "spawn", dest |-> u.ID_Parent[i], id |-> i])]
      BY <2>1, <2>4, SpawnOneType
    <3>2. QED
      BY <2>4, <3>1
  <2>11. QED
    BY <1>10, <2>1, <2>9, <2>10
<1>11. Done(N)
  <2> DEFINE T == {n \in 0..N : Done(n)}
  <2> HIDE DEF Done
  <2>1. 0 \in T
    BY <1>3, <1>9 DEF N
  <2>2. ASSUME NEW n \in 1..N, n - 1 \in T
        PROVE  n \in T
    BY <1>10, <2>2
  <2>3. N \in Nat /\ N \in 0..N
    BY <1>3 DEF N
  <2> HIDE DEF T
  <2>4. \A n \in 0..N : n \in T
    BY <2>1, <2>2, <2>3, Climb
  <2>5. QED
    BY <2>3, <2>4 DEF T
<1>12. First(row, N) = {o} \cup Children(s, o)
  <2>1. ASSUME NEW x \in First(row, N)
        PROVE  x \in {o} \cup Children(s, o)
    <3>1. PICK k \in 1..N : row[k] = x
      BY DEF First
    <3>2. QED
      BY <1>3, <1>5, <3>1
  <2>2. o \in First(row, N)
    BY <1>3 DEF First, N
  <2>3. ASSUME NEW x \in Children(s, o)
        PROVE  x \in First(row, N)
    <3>1. PICK k \in 1..Len(kids) : kids[k] = x
      BY <1>2
    <3>2. k + 1 \in 1..N /\ row[k + 1] = x /\ x \in Objects
      BY <1>3, <3>1, ChildrenFit DEF N
    <3>3. QED
      BY <3>2 DEF First
  <2>4. QED
    BY <2>1, <2>2, <2>3
<1> DEFINE t == path[N]
<1>13. SpawnTree(s, o) = t
  BY <1>7, AsFolds DEF kids, row
<1>14. /\ t.entities = s.entities \cup {o} \cup Children(s, o) /\ t.ID_Parent = s.ID_Parent
       /\ t.released = s.released /\ Told(c, t) /\ t \in Servers
       /\ \A x : x \notin {o} \cup Children(s, o) /\ Silent(Way(c, s), x) => Silent(Way(c, t), x)
  BY <1>3, <1>7, <1>11, <1>12 DEF N
<1> HIDE DEF t
<1>15. ServerFits(t)
  <2>1. \A x \in Objects : s.ID_Parent[x] \in Holders \cup {None}
    BY <1>1, ServerRecord
  <2>2. ASSUME NEW i \in Objects, s.ID_Parent[i] # None
        PROVE  i \in t.entities <=> s.ID_Parent[i] \in t.entities
    <3>1. i \in s.entities <=> s.ID_Parent[i] \in s.entities
      BY <2>2 DEF ServerFits
    <3>2. s.ID_Parent[i] \in Holders /\ s.ID_Parent[i] \notin Children(s, o) /\ i # o /\ i \in Items
      BY <2>1, <2>2, ChildrenFit, Types DEF ServerFits
    <3>3. i \in Children(s, o) <=> s.ID_Parent[i] = o
      BY <3>2 DEF Children
    <3>4. QED
      BY <1>14, <3>1, <3>2, <3>3
  <2>3. ASSUME NEW r \in s.released
        PROVE  r \notin t.entities /\ s.ID_Parent[r] = None
    BY <1>14, ChildrenFit, Types DEF ServerFits
  <2>4. QED
    BY <1>14, <2>2, <2>3 DEF ServerFits
<1>16. QED
  BY <1>13, <1>14, <1>15

\* From s to t, with those online and released, i has left its owner's hands,
\* and the client is told of it.
Rejected(c, s, i, online, released, t) ==
    /\ t \in Servers /\ Told(c, t)
    /\ t.entities = online /\ t.released = released
    /\ t.ID_Parent = [s.ID_Parent EXCEPT ![i] = None]
    /\ \A x : x # i /\ Silent(Way(c, s), x) => Silent(Way(c, t), x)

LEMMA RejectTells ==
    ASSUME NEW c, c.game_events \in Seq(Messages), NEW s \in Servers, Told(c, s),
           NEW h \in Holders, NEW i \in Items,
           h \in s.entities, i \in s.entities, s.ID_Parent[i] = h,
           NEW t, t = Process_event_reject(s, h, i)
    PROVE  Rejected(c, s, i, s.entities, s.released, t)
<1> DEFINE e == [type |-> "reject", dest |-> h, id |-> i]
<1>1. /\ t \in Servers
      /\ t = [entities |-> s.entities, ID_Parent |-> [s.ID_Parent EXCEPT ![i] = None],
              released |-> s.released, net_Queue |-> Append(s.net_Queue, e)]
  BY RejectType
<1>2. Sends(s, t, e)
  BY RejectSends
<1>3. e.type # "spawn" /\ e.id = i
  OBVIOUS
<1> HIDE DEF e
<1>4. Told(c, t) /\ \A x : x # i /\ Silent(Way(c, s), x) => Silent(Way(c, t), x)
  BY <1>2, <1>3, TellsOn
<1> DEFINE m == s.net_Queue
           n == Append(m, e)
           d == [s.ID_Parent EXCEPT ![i] = None]
<1> HIDE DEF n, d
<1>5. /\ t.entities = s.entities /\ t.released = s.released
      /\ t.ID_Parent = d
  BY <1>1 DEF n, d
<1>6. QED
  BY <1>1, <1>4, <1>5 DEF d, Rejected

LEMMA ForgetTells ==
    ASSUME NEW c, c.game_events \in Seq(Messages), NEW s \in Servers, Told(c, s),
           NEW o \in Objects, o \in s.entities, s.ID_Parent[o] = None,
           \A x \in s.entities : s.ID_Parent[x] # o,
           NEW t, t.entities = s.entities \ {o}, t.ID_Parent = s.ID_Parent,
           t.net_Queue = Append(s.net_Queue, [type |-> "destroy", dest |-> None, id |-> o])
    PROVE  /\ Told(c, t)
           /\ \A x : x # o /\ Silent(Way(c, s), x) => Silent(Way(c, t), x)
<1> DEFINE e == [type |-> "destroy", dest |-> None, id |-> o]
<1>1. Sends(s, t, e)
  BY ForgetSends
<1>2. e.type # "spawn" /\ e.id = o
  OBVIOUS
<1> HIDE DEF e
<1>3. QED
  BY <1>1, <1>2, TellsOn

LEMMA EntitiesChange ==
    ASSUME NEW s \in Servers, NEW those \in SUBSET Objects, NEW gone \in SUBSET Objects,
           NEW t, t = [s EXCEPT !.entities = those, !.released = gone]
    PROVE  t = [entities |-> those, ID_Parent |-> s.ID_Parent, released |-> gone,
                net_Queue |-> s.net_Queue]
<1>1. s = [entities |-> s.entities, ID_Parent |-> s.ID_Parent, released |-> s.released,
           net_Queue |-> s.net_Queue]
  BY ServerRecord
<1>2. QED
  BY <1>1

\* One entity leaves for good: its owner is told, then it goes.
LEMMA DestroyAloneTells ==
    ASSUME NEW c, c.game_events \in Seq(Messages), NEW s \in Servers, Told(c, s),
           NEW o \in Objects, o \in s.entities,
           s.ID_Parent[o] # None => o \in Items /\ s.ID_Parent[o] \in s.entities,
           \A x \in s.entities : s.ID_Parent[x] # o,
           NEW t, t = DestroyAlone(s, o)
    PROVE  Rejected(c, s, o, s.entities \ {o}, s.released \cup {o}, t)
<1> DEFINE free == IF s.ID_Parent[o] = None THEN s ELSE Process_event_reject(s, s.ID_Parent[o], o)
           those == free.entities \ {o}
           gone == free.released \cup {o}
           left == [free EXCEPT !.entities = those, !.released = gone]
           e == [type |-> "destroy", dest |-> None, id |-> o]
<1>1. /\ free \in Servers /\ Told(c, free)
      /\ free.entities = s.entities /\ free.released = s.released
      /\ free.ID_Parent = [s.ID_Parent EXCEPT ![o] = None]
      /\ \A x : x # o /\ Silent(Way(c, s), x) => Silent(Way(c, free), x)
  <2>1. CASE s.ID_Parent[o] = None
    <3>1. [s.ID_Parent EXCEPT ![o] = None] = s.ID_Parent
      BY <2>1, ServerRecord
    <3>2. QED
      BY <2>1, <3>1
  <2>2. CASE s.ID_Parent[o] # None
    <3>1. s.ID_Parent[o] \in Holders /\ free = Process_event_reject(s, s.ID_Parent[o], o)
      BY <2>2, ServerRecord
    <3> HIDE DEF free
    <3> DEFINE h == s.ID_Parent[o]
    <3>2. h \in Holders /\ h \in s.entities /\ o \in Items /\ free = Process_event_reject(s, h, o)
      BY <2>2, <3>1
    <3>3. Rejected(c, s, o, s.entities, s.released, free)
      <4>1. s.ID_Parent[o] = h
        OBVIOUS
      <4> HIDE DEF h
      <4>2. QED
        BY <3>2, <4>1, RejectTells
    <3>4. QED
      BY <3>3 DEF Rejected
  <2>3. QED
    BY <2>1, <2>2
<1>2. t = Send(left, "destroy", None, o)
  BY DEF DestroyAlone
<1> HIDE DEF free
<1>3. left = [entities |-> those, ID_Parent |-> free.ID_Parent, released |-> gone,
              net_Queue |-> free.net_Queue]
  <2>1. free \in Servers /\ those \in SUBSET Objects /\ gone \in SUBSET Objects
    BY <1>1, ServerRecord
  <2>2. left = [free EXCEPT !.entities = those, !.released = gone]
    OBVIOUS
  <2> HIDE DEF left, those, gone
  <2>3. QED
    BY ONLY <2>1, <2>2, EntitiesChange
<1>4. /\ left \in Servers /\ left.entities = s.entities \ {o} /\ left.released = s.released \cup {o}
      /\ left.ID_Parent = free.ID_Parent /\ left.net_Queue = free.net_Queue
  BY <1>1, <1>3, ServerRecord DEF Servers
<1> HIDE DEF left, those, gone
<1>5. /\ t \in Servers /\ t.entities = s.entities \ {o} /\ t.released = s.released \cup {o}
      /\ t.ID_Parent = free.ID_Parent /\ t.net_Queue = Append(free.net_Queue, e)
  <2>1. /\ t \in Servers
        /\ t = [entities |-> left.entities, ID_Parent |-> left.ID_Parent,
                released |-> left.released, net_Queue |-> Append(left.net_Queue, e)]
    BY ONLY <1>2, <1>4, SendType
  <2> HIDE DEF e
  <2>2. QED
    BY <1>4, <2>1
<1>6. free.ID_Parent[o] = None /\ \A x \in free.entities : free.ID_Parent[x] # o
  BY <1>1, ServerRecord, Types
<1>7. Told(c, t) /\ \A x : x # o /\ Silent(Way(c, free), x) => Silent(Way(c, t), x)
  <2>1. t.entities = free.entities \ {o} /\ o \in free.entities
    BY <1>1, <1>5
  <2>2. /\ t.ID_Parent = free.ID_Parent
        /\ t.net_Queue = Append(free.net_Queue, [type |-> "destroy", dest |-> None, id |-> o])
    BY <1>5
  <2>3. free \in Servers /\ Told(c, free)
    BY <1>1
  <2> HIDE DEF e
  <2>4. QED
    BY ONLY c.game_events \in Seq(Messages), o \in Objects, <1>6, <2>1, <2>2, <2>3, ForgetTells
<1>8. QED
  BY <1>1, <1>5, <1>7 DEF Rejected

\* A child leaves with its holder.
LEMMA RejectAndForgetTells ==
    ASSUME NEW c, c.game_events \in Seq(Messages), NEW u \in Servers, Told(c, u),
           NEW o \in Holders, NEW i \in Items,
           o \in u.entities, i \in u.entities, u.ID_Parent[i] = o,
           NEW w, w = RejectAndForget(u, o, i)
    PROVE  Rejected(c, u, i, u.entities \ {i}, u.released, w)
<1> DEFINE v == Process_event_reject(u, o, i)
<1>1. /\ v \in Servers /\ Told(c, v)
      /\ v.entities = u.entities /\ v.released = u.released
      /\ v.ID_Parent = [u.ID_Parent EXCEPT ![i] = None]
      /\ \A x : x # i /\ Silent(Way(c, u), x) => Silent(Way(c, v), x)
  <2>1. v = Process_event_reject(u, o, i)
    OBVIOUS
  <2> HIDE DEF v
  <2>2. Rejected(c, u, i, u.entities, u.released, v)
    BY <2>1, RejectTells
  <2>3. QED
    BY <2>2 DEF Rejected
<1>2. w = Forget(v, i) /\ i \in Objects
  BY Types DEF RejectAndForget
<1> HIDE DEF v
<1>3. v.ID_Parent[i] = None /\ \A x \in v.entities : v.ID_Parent[x] # i
  <2>1. /\ u.ID_Parent \in [Objects -> Holders \cup {None}] /\ u.entities \subseteq Objects
    BY ServerRecord
  <2>2. QED
    BY <1>1, <1>2, <2>1, Types
<1>4. /\ w \in Servers
      /\ w = [entities |-> v.entities \ {i}, ID_Parent |-> v.ID_Parent, released |-> v.released,
              net_Queue |-> Append(v.net_Queue, [type |-> "destroy", dest |-> None, id |-> i])]
  BY <1>1, <1>2, ForgetType
<1>5. /\ w.entities = v.entities \ {i} /\ w.ID_Parent = v.ID_Parent /\ w.released = v.released
      /\ w.net_Queue = Append(v.net_Queue, [type |-> "destroy", dest |-> None, id |-> i])
  BY ONLY <1>4
<1>6. Told(c, w) /\ \A x : x # i /\ Silent(Way(c, v), x) => Silent(Way(c, w), x)
  BY <1>1, <1>2, <1>3, <1>5, ForgetTells
<1>7. QED
  BY <1>1, <1>4, <1>5, <1>6 DEF Rejected

\* The children of a holder, in the order of their destruction.
LEMMA RowOfChildren ==
    ASSUME NEW s, ServerFits(s), NEW o \in Objects, NEW row, row = SetToSeq(Children(s, o))
    PROVE  /\ row \in Seq(Objects) /\ Len(row) \in Nat
           /\ \A n \in 1..Len(row) :
                 /\ row[n] \in Items /\ row[n] \in Objects /\ row[n] # o
                 /\ s.ID_Parent[row[n]] = o /\ o \in Holders
                 /\ First(row, n) = First(row, n - 1) \cup {row[n]}
                 /\ row[n] \notin First(row, n - 1)
           /\ First(row, 0) = {} /\ First(row, Len(row)) = Children(s, o)
<1>1. /\ row \in Seq(Children(s, o)) /\ row \in Seq(Objects)
      /\ \A x \in Children(s, o) : \E n \in 1..Len(row) : row[n] = x
      /\ \A m, n \in 1..Len(row) : row[m] = row[n] => m = n
  <2> DEFINE S == Children(s, o)
  <2>1. IsFiniteSet(S) /\ SetToSeq(S) \in Seq(Objects) /\ row = SetToSeq(S)
    BY ChildrenFit
  <2> HIDE DEF S
  <2>2. QED
    BY <2>1, InARow DEF S
<1>2. Len(row) \in Nat /\ \A n \in 1..Len(row) : row[n] \in Children(s, o)
  BY <1>1, LenProperties, ElementOfSeq
<1>3. 1..0 = {}
  OBVIOUS
<1>4. First(row, 0) = {}
  BY <1>3 DEF First
<1>5. \A n \in 1..Len(row) :
         First(row, n) = First(row, n - 1) \cup {row[n]} /\ row[n] \notin First(row, n - 1)
  BY <1>1, FirstStep
<1>6. First(row, Len(row)) = Children(s, o)
  BY <1>1, <1>2, ChildrenFit DEF First
<1>7. QED
  BY <1>1, <1>2, <1>4, <1>5, <1>6, ChildrenFit

\* remove_online tells the client of everyone who leaves.
LEMMA PerformTells ==
    ASSUME NEW c, c.game_events \in Seq(Messages), NEW s, ServerFits(s), Told(c, s),
           NEW o \in Objects, o \in s.entities, s.ID_Parent[o] = None,
           NEW t, t = Perform_destroy(s, o)
    PROVE  /\ ServerFits(t) /\ Told(c, t)
           /\ t.entities = s.entities \ ({o} \cup Children(s, o))
           /\ t.ID_Parent = s.ID_Parent /\ t.released = s.released
           /\ \A x : x \notin {o} \cup Children(s, o) /\ Silent(Way(c, s), x) => Silent(Way(c, t), x)
<1> DEFINE kids == SetToSeq(Children(s, o))
           N == Len(kids)
<1>1. s \in Servers
  BY DEF ServerFits
<1>2. /\ kids \in Seq(Objects) /\ N \in Nat
      /\ \A n \in 1..N :
            /\ kids[n] \in Items /\ kids[n] \in Objects /\ kids[n] # o
            /\ s.ID_Parent[kids[n]] = o /\ o \in Holders
            /\ First(kids, n) = First(kids, n - 1) \cup {kids[n]}
            /\ kids[n] \notin First(kids, n - 1)
      /\ First(kids, 0) = {} /\ First(kids, N) = Children(s, o)
  BY RowOfChildren
<1>3. PICK path \in [0..N -> Servers] :
         /\ path[0] = s /\ path[N] = ForgetAll(s, o, kids)
         /\ \A n \in 1..N : path[n] = RejectAndForget(path[n - 1], o, kids[n])
  BY <1>1, <1>2, PerformPath
<1> DEFINE left == Forget(path[N], o)
<1>4. t = [left EXCEPT !.ID_Parent = s.ID_Parent]
  BY <1>3, AsFolds
<1> HIDE DEF kids, N
<1> DEFINE Done(n) ==
        /\ path[n].entities = s.entities \ First(kids, n)
        /\ path[n].ID_Parent = [x \in Objects |->
              IF x \in First(kids, n) THEN None ELSE s.ID_Parent[x]]
        /\ path[n].released = s.released
        /\ Told(c, path[n])
        /\ \A x : x \notin First(kids, n) /\ Silent(Way(c, s), x) => Silent(Way(c, path[n]), x)
<1>5. Done(0)
  <2>1. s.ID_Parent = [x \in Objects |-> s.ID_Parent[x]]
    BY <1>1, ServerRecord
  <2>2. QED
    BY <1>2, <1>3, <2>1
<1>6. ASSUME NEW n \in 1..N, Done(n - 1)
      PROVE  Done(n)
  <2> DEFINE i == kids[n]
             u == path[n - 1]
             w == path[n]
  <2>1. /\ i \in Items /\ i \in Objects /\ i # o /\ s.ID_Parent[i] = o /\ o \in Holders
        /\ First(kids, n) = First(kids, n - 1) \cup {i} /\ i \notin First(kids, n - 1)
    BY <1>2
  <2>2. u \in Servers /\ w = RejectAndForget(u, o, i)
    <3>1. n - 1 \in 0..N
      BY <1>2
    <3>2. QED
      BY <1>3, <3>1
  <2>3. /\ u.entities = s.entities \ First(kids, n - 1)
        /\ \A x \in Objects : u.ID_Parent[x] =
              IF x \in First(kids, n - 1) THEN None ELSE s.ID_Parent[x]
        /\ u.released = s.released /\ Told(c, u)
        /\ \A x : x \notin First(kids, n - 1) /\ Silent(Way(c, s), x) => Silent(Way(c, u), x)
    BY <1>6
  <2>4. o \in u.entities /\ i \in u.entities /\ u.ID_Parent[i] = o
    <3>1. i \in s.entities
      BY <2>1, Types DEF ServerFits
    <3>2. \A x \in First(kids, n - 1) : x \in Children(s, o)
      <4>1. \A k \in 1..(n - 1) : k \in 1..N
        BY <1>2
      <4>2. QED
        BY <1>2, <4>1 DEF First, Children
    <3>3. o \notin Children(s, o)
      BY ChildrenFit
    <3>4. QED
      BY <2>1, <2>3, <3>1, <3>2, <3>3
  <2>5. /\ w \in Servers /\ Told(c, w)
        /\ w.entities = u.entities \ {i} /\ w.released = u.released
        /\ w.ID_Parent = [u.ID_Parent EXCEPT ![i] = None]
        /\ \A x : x # i /\ Silent(Way(c, u), x) => Silent(Way(c, w), x)
    <3> HIDE DEF u, i, w, Done, left
    <3>1. /\ u \in Servers /\ Told(c, u) /\ o \in Holders /\ i \in Items
          /\ o \in u.entities /\ i \in u.entities /\ u.ID_Parent[i] = o
          /\ w = RejectAndForget(u, o, i)
      BY <2>1, <2>2, <2>3, <2>4
    <3>2. Rejected(c, u, i, u.entities \ {i}, u.released, w)
      BY <3>1, RejectAndForgetTells
    <3>3. QED
      BY <3>2 DEF Rejected
  <2>9. w.ID_Parent = [x \in Objects |-> IF x \in First(kids, n) THEN None ELSE s.ID_Parent[x]]
    <3>1. u.ID_Parent \in [Objects -> Holders \cup {None}]
      BY <2>2, ServerRecord
    <3> HIDE DEF u, i, w
    <3>2. w.ID_Parent = [u.ID_Parent EXCEPT ![i] = None]
      BY <2>5
    <3>3. QED
      BY ONLY <2>1, <2>3, <3>1, <3>2
  <2>10. QED
    <3>1. w.entities = s.entities \ First(kids, n) /\ w.released = s.released
      BY <2>1, <2>3, <2>5
    <3>2. \A x : x \notin First(kids, n) /\ Silent(Way(c, s), x) => Silent(Way(c, w), x)
      BY <2>1, <2>3, <2>5
    <3>3. QED
      BY <2>5, <2>9, <3>1, <3>2
<1>7. Done(N)
  <2> DEFINE T == {n \in 0..N : Done(n)}
  <2> HIDE DEF Done
  <2>1. 0 \in T
    BY <1>2, <1>5
  <2>2. ASSUME NEW n \in 1..N, n - 1 \in T
        PROVE  n \in T
    BY <1>6, <2>2
  <2>3. N \in Nat /\ N \in 0..N
    BY <1>2
  <2> HIDE DEF T
  <2>4. \A n \in 0..N : n \in T
    BY <2>1, <2>2, <2>3, Climb
  <2>5. QED
    BY <2>3, <2>4 DEF T
<1> DEFINE w == path[N]
<1>8. /\ w \in Servers /\ w.entities = s.entities \ Children(s, o) /\ w.released = s.released
      /\ \A x \in Objects : w.ID_Parent[x] = IF x \in Children(s, o) THEN None ELSE s.ID_Parent[x]
      /\ Told(c, w)
      /\ \A x : x \notin Children(s, o) /\ Silent(Way(c, s), x) => Silent(Way(c, w), x)
  <2>1. N \in 0..N
    BY <1>2
  <2>2. QED
    BY <1>2, <1>3, <1>7, <2>1
<1>9. /\ o \in w.entities /\ w.ID_Parent[o] = None
      /\ \A x \in w.entities : w.ID_Parent[x] # o
  <2>1. o \notin Children(s, o)
    BY ChildrenFit
  <2>2. ASSUME NEW x \in w.entities, w.ID_Parent[x] = o
        PROVE  FALSE
    <3>1. x \in Objects /\ s.ID_Parent[x] = o
      BY <1>1, <1>8, <2>2, ServerRecord, Types
    <3>2. o # None /\ x \in Items
      BY <1>1, <3>1, ServerRecord, Types DEF ServerFits
    <3>3. x \in Children(s, o)
      BY <3>1, <3>2 DEF Children
    <3>4. QED
      BY <1>8, <2>2, <3>3
  <2>3. QED
    BY <1>8, <2>1, <2>2
<1> HIDE DEF w, Done
<1>10. /\ left \in Servers /\ left.entities = w.entities \ {o} /\ left.ID_Parent = w.ID_Parent
       /\ left.released = w.released
       /\ left.net_Queue = Append(w.net_Queue, [type |-> "destroy", dest |-> None, id |-> o])
  <2>1. left = Forget(w, o)
    BY DEF w
  <2> HIDE DEF left
  <2>2. /\ Forget(w, o) \in Servers
        /\ Forget(w, o) =
             [entities |-> w.entities \ {o}, ID_Parent |-> w.ID_Parent, released |-> w.released,
              net_Queue |-> Append(w.net_Queue, [type |-> "destroy", dest |-> None, id |-> o])]
    BY <1>8, ForgetType
  <2>3. QED
    BY ONLY <2>1, <2>2
<1> HIDE DEF left
<1>11. Told(c, left) /\ \A x : x # o /\ Silent(Way(c, w), x) => Silent(Way(c, left), x)
  BY ONLY c.game_events \in Seq(Messages), o \in Objects, <1>8, <1>9, <1>10, ForgetTells
<1>12. /\ t \in Servers /\ t.entities = left.entities /\ t.ID_Parent = s.ID_Parent
       /\ t.released = left.released /\ t.net_Queue = left.net_Queue
  <2> DEFINE b == s.ID_Parent
  <2>1. b \in [Objects -> Holders \cup {None}] /\ t = [left EXCEPT !.ID_Parent = b]
    BY <1>1, <1>4, ServerRecord
  <2>2. left = [entities |-> left.entities, ID_Parent |-> left.ID_Parent,
                released |-> left.released, net_Queue |-> left.net_Queue]
    BY <1>10, ServerRecord
  <2> HIDE DEF b
  <2>3. t = [entities |-> left.entities, ID_Parent |-> b,
             released |-> left.released, net_Queue |-> left.net_Queue]
    BY <2>1, <2>2
  <2>4. QED
    BY <1>10, <2>1, <2>3, ServerRecord DEF Servers, b
<1>13. /\ t.entities = s.entities \ ({o} \cup Children(s, o)) /\ t.released = s.released
       /\ \A x : x \notin {o} \cup Children(s, o) /\ Silent(Way(c, s), x) => Silent(Way(c, left), x)
  BY <1>8, <1>10, <1>11, <1>12
<1>14. ServerPicture(t) = ServerPicture(left)
  <2>1. t.entities \ Unspawnable = left.entities \ Unspawnable
    BY <1>12
  <2>2. \A x \in Objects : x \in t.entities => t.ID_Parent[x] = left.ID_Parent[x]
    BY <1>8, <1>10, <1>12, <1>13
  <2>3. [x \in Objects |-> IF x \in t.entities \ Unspawnable THEN Shown(t.ID_Parent[x]) ELSE None]
         = [x \in Objects |-> IF x \in left.entities \ Unspawnable THEN Shown(left.ID_Parent[x]) ELSE None]
    BY <2>1, <2>2
  <2>4. QED
    BY <2>1, <2>3 DEF ServerPicture
<1>15. Way(c, t) = Way(c, left)
  BY <1>12 DEF Way
<1>16. Told(c, t)
  BY <1>11, <1>14, <1>15 DEF Told
<1>17. ServerFits(t)
  <2>1. \A x \in Objects : s.ID_Parent[x] \in Holders \cup {None}
    BY <1>1, ServerRecord
  <2>2. ASSUME NEW i \in Objects, s.ID_Parent[i] # None
        PROVE  i \in t.entities <=> s.ID_Parent[i] \in t.entities
    <3>1. i \in s.entities <=> s.ID_Parent[i] \in s.entities
      BY <2>2 DEF ServerFits
    <3>2. s.ID_Parent[i] \in Holders /\ s.ID_Parent[i] \notin Children(s, o) /\ i # o /\ i \in Items
      BY <2>1, <2>2, ChildrenFit, Types DEF ServerFits
    <3>3. i \in Children(s, o) <=> s.ID_Parent[i] = o
      BY <3>2 DEF Children
    <3>4. QED
      BY <1>13, <3>1, <3>2, <3>3
  <2>3. ASSUME NEW r \in s.released
        PROVE  r \notin t.entities /\ s.ID_Parent[r] = None
    BY <1>13 DEF ServerFits
  <2>4. QED
    BY <1>12, <1>13, <2>2, <2>3 DEF ServerFits
<1>18. QED
  BY <1>12, <1>13, <1>15, <1>16, <1>17

\* So does a release, of the children and then of their holder.
LEMMA DestroyTells ==
    ASSUME NEW c, c.game_events \in Seq(Messages), NEW s, ServerFits(s), Told(c, s),
           NEW o \in Objects, o \in s.entities,
           NEW t, t = Process_event_destroy(s, o)
    PROVE  /\ ServerFits(t) /\ Told(c, t)
           /\ t.entities = s.entities \ ({o} \cup Children(s, o))
           /\ t.released = s.released \cup {o} \cup Children(s, o)
           /\ \A x \in Objects : t.ID_Parent[x] =
                 IF x \in {o} \cup Children(s, o) THEN None ELSE s.ID_Parent[x]
           /\ \A x : x \notin {o} \cup Children(s, o) /\ Silent(Way(c, s), x) => Silent(Way(c, t), x)
<1> DEFINE kids == SetToSeq(Children(s, o))
           N == Len(kids)
<1>1. s \in Servers
  BY DEF ServerFits
<1>2. /\ kids \in Seq(Objects) /\ N \in Nat
      /\ \A n \in 1..N :
            /\ kids[n] \in Items /\ kids[n] \in Objects /\ kids[n] # o
            /\ s.ID_Parent[kids[n]] = o /\ o \in Holders
            /\ First(kids, n) = First(kids, n - 1) \cup {kids[n]}
            /\ kids[n] \notin First(kids, n - 1)
      /\ First(kids, 0) = {} /\ First(kids, N) = Children(s, o)
  BY RowOfChildren
<1>3. PICK path \in [0..N -> Servers] :
         /\ path[0] = s /\ path[N] = DestroyAll(s, kids)
         /\ \A n \in 1..N : path[n] = DestroyAlone(path[n - 1], kids[n])
  BY <1>1, <1>2, DestroyPath
<1>4. t = DestroyAlone(path[N], o)
  BY <1>3, AsFolds
<1> HIDE DEF kids, N
<1> DEFINE Done(n) ==
        /\ path[n].entities = s.entities \ First(kids, n)
        /\ path[n].ID_Parent = [x \in Objects |->
              IF x \in First(kids, n) THEN None ELSE s.ID_Parent[x]]
        /\ path[n].released = s.released \cup First(kids, n)
        /\ Told(c, path[n])
        /\ \A x : x \notin First(kids, n) /\ Silent(Way(c, s), x) => Silent(Way(c, path[n]), x)
<1>5. Done(0)
  <2>1. s.ID_Parent = [x \in Objects |-> s.ID_Parent[x]]
    BY <1>1, ServerRecord
  <2>2. QED
    BY <1>2, <1>3, <2>1
<1>6. ASSUME NEW n \in 1..N, Done(n - 1)
      PROVE  Done(n)
  <2> DEFINE i == kids[n]
             u == path[n - 1]
             w == path[n]
  <2>1. /\ i \in Items /\ i \in Objects /\ i # o /\ s.ID_Parent[i] = o /\ o \in Holders
        /\ First(kids, n) = First(kids, n - 1) \cup {i} /\ i \notin First(kids, n - 1)
    BY <1>2
  <2>2. u \in Servers /\ w = DestroyAlone(u, i)
    <3>1. n - 1 \in 0..N
      BY <1>2
    <3>2. QED
      BY <1>3, <3>1
  <2>3. /\ u.entities = s.entities \ First(kids, n - 1)
        /\ \A x \in Objects : u.ID_Parent[x] =
              IF x \in First(kids, n - 1) THEN None ELSE s.ID_Parent[x]
        /\ u.released = s.released \cup First(kids, n - 1) /\ Told(c, u)
        /\ \A x : x \notin First(kids, n - 1) /\ Silent(Way(c, s), x) => Silent(Way(c, u), x)
    BY <1>6
  <2>4. o \in u.entities /\ i \in u.entities /\ u.ID_Parent[i] = o
    <3>1. i \in s.entities
      BY <2>1, Types DEF ServerFits
    <3>2. \A x \in First(kids, n - 1) : x \in Children(s, o)
      <4>1. \A k \in 1..(n - 1) : k \in 1..N
        BY <1>2
      <4>2. QED
        BY <1>2, <4>1 DEF First, Children
    <3>3. o \notin Children(s, o)
      BY ChildrenFit
    <3>4. QED
      BY <2>1, <2>3, <3>1, <3>2, <3>3
  <2>5. u.ID_Parent \in [Objects -> Holders \cup {None}] /\ u.entities \subseteq Objects
    BY <2>2, ServerRecord
  <2>6. \A x \in u.entities : u.ID_Parent[x] # i
    <3> HIDE DEF u, i
    <3>1. QED
      BY <2>1, <2>5, Types
  <2>7. /\ w \in Servers /\ Told(c, w)
        /\ w.entities = u.entities \ {i} /\ w.released = u.released \cup {i}
        /\ w.ID_Parent = [u.ID_Parent EXCEPT ![i] = None]
        /\ \A x : x # i /\ Silent(Way(c, u), x) => Silent(Way(c, w), x)
    <3> HIDE DEF u, i, w, Done
    <3>1. /\ u \in Servers /\ Told(c, u) /\ o \in Holders /\ i \in Items /\ i \in Objects
          /\ o \in u.entities /\ i \in u.entities /\ u.ID_Parent[i] = o
          /\ w = DestroyAlone(u, i)
      BY <2>1, <2>2, <2>3, <2>4
    <3>2. Rejected(c, u, i, u.entities \ {i}, u.released \cup {i}, w)
      BY <2>6, <3>1, DestroyAloneTells
    <3>3. QED
      BY <3>2 DEF Rejected
  <2>8. w.ID_Parent = [x \in Objects |-> IF x \in First(kids, n) THEN None ELSE s.ID_Parent[x]]
    <3> HIDE DEF u, i, w
    <3>1. w.ID_Parent = [u.ID_Parent EXCEPT ![i] = None]
      BY <2>7
    <3>2. QED
      BY ONLY <2>1, <2>3, <2>5, <3>1
  <2>9. QED
    <3>1. w.entities = s.entities \ First(kids, n) /\ w.released = s.released \cup First(kids, n)
      BY <2>1, <2>3, <2>7
    <3>2. \A x : x \notin First(kids, n) /\ Silent(Way(c, s), x) => Silent(Way(c, w), x)
      BY <2>1, <2>3, <2>7
    <3>3. QED
      BY <2>7, <2>8, <3>1, <3>2
<1>7. Done(N)
  <2> DEFINE T == {n \in 0..N : Done(n)}
  <2> HIDE DEF Done
  <2>1. 0 \in T
    BY <1>2, <1>5
  <2>2. ASSUME NEW n \in 1..N, n - 1 \in T
        PROVE  n \in T
    BY <1>6, <2>2
  <2>3. N \in Nat /\ N \in 0..N
    BY <1>2
  <2> HIDE DEF T
  <2>4. \A n \in 0..N : n \in T
    BY <2>1, <2>2, <2>3, Climb
  <2>5. QED
    BY <2>3, <2>4 DEF T
<1> DEFINE w == path[N]
<1>8. /\ w \in Servers /\ w.entities = s.entities \ Children(s, o)
      /\ w.released = s.released \cup Children(s, o)
      /\ \A x \in Objects : w.ID_Parent[x] = IF x \in Children(s, o) THEN None ELSE s.ID_Parent[x]
      /\ Told(c, w)
      /\ \A x : x \notin Children(s, o) /\ Silent(Way(c, s), x) => Silent(Way(c, w), x)
  <2>1. N \in 0..N
    BY <1>2
  <2>2. QED
    BY <1>2, <1>3, <1>7, <2>1
<1>9. \A x \in Objects : s.ID_Parent[x] \in Holders \cup {None}
  BY <1>1, ServerRecord
<1>10. \A x \in Objects : s.ID_Parent[x] # None =>
          /\ s.ID_Parent[x] \in Holders /\ s.ID_Parent[x] \notin Children(s, o) /\ x \in Items
          /\ (x \in Children(s, o) <=> s.ID_Parent[x] = o)
          /\ (x \in s.entities <=> s.ID_Parent[x] \in s.entities)
          /\ s.ID_Parent[x] # x
  <2>1. TAKE x \in Objects
  <2>2. HAVE s.ID_Parent[x] # None
  <2>3. s.ID_Parent[x] \in Holders /\ x \in Items
    BY <1>9, <2>2, Types DEF ServerFits
  <2>4. QED
    BY <2>2, <2>3, Types DEF ServerFits, Children
<1>11. o \notin Children(s, o)
  BY ChildrenFit
<1>12. /\ o \in w.entities /\ \A x \in w.entities : w.ID_Parent[x] # o
       /\ w.ID_Parent[o] # None => o \in Items /\ w.ID_Parent[o] \in w.entities
  <2>1. w.entities \subseteq Objects /\ o # None
    BY <1>8, ServerRecord, Types
  <2>2. w.ID_Parent[o] = s.ID_Parent[o]
    BY <1>8, <1>11
  <2>3. \A x \in w.entities : w.ID_Parent[x] # o
    BY <1>8, <1>10, <2>1
  <2>4. QED
    BY <1>8, <1>10, <1>11, <2>2, <2>3
<1> HIDE DEF w, Done
<1>13. Rejected(c, w, o, w.entities \ {o}, w.released \cup {o}, t)
  <2>1. t = DestroyAlone(w, o)
    BY <1>4 DEF w
  <2>2. QED
    BY <1>8, <1>12, <2>1, DestroyAloneTells
<1>14. /\ t \in Servers /\ Told(c, t)
       /\ t.entities = s.entities \ ({o} \cup Children(s, o))
       /\ t.released = s.released \cup {o} \cup Children(s, o)
       /\ \A x : x \notin {o} \cup Children(s, o) /\ Silent(Way(c, s), x) => Silent(Way(c, t), x)
  BY <1>8, <1>13 DEF Rejected
<1>15. \A x \in Objects : t.ID_Parent[x] =
          IF x \in {o} \cup Children(s, o) THEN None ELSE s.ID_Parent[x]
  <2>1. w.ID_Parent \in [Objects -> Holders \cup {None}]
    BY <1>8, ServerRecord
  <2>2. t.ID_Parent = [w.ID_Parent EXCEPT ![o] = None]
    BY <1>13 DEF Rejected
  <2>3. QED
    BY <1>8, <2>1, <2>2
<1>16. ServerFits(t)
  <2>1. \A h \in Holders : t.ID_Parent[h] = None
    BY <1>15, Types DEF ServerFits
  <2>2. ASSUME NEW i \in Objects, t.ID_Parent[i] # None
        PROVE  i \in t.entities <=> t.ID_Parent[i] \in t.entities
    <3>1. i \notin {o} \cup Children(s, o) /\ t.ID_Parent[i] = s.ID_Parent[i] /\ s.ID_Parent[i] # None
      BY <1>15, <2>2
    <3>2. QED
      BY <1>10, <1>14, <3>1
  <2>3. ASSUME NEW r \in t.released
        PROVE  r \notin t.entities /\ t.ID_Parent[r] = None
    <3>1. r \in Objects
      BY <1>14, ServerRecord
    <3>2. CASE r \in s.released
      BY <1>14, <1>15, <3>1, <3>2 DEF ServerFits
    <3>3. CASE r \in {o} \cup Children(s, o)
      BY <1>14, <1>15, <3>1, <3>3
    <3>4. QED
      BY <1>14, <2>3, <3>2, <3>3
  <2>4. QED
    BY <1>14, <2>1, <2>2, <2>3 DEF ServerFits
<1>17. QED
  BY <1>14, <1>15, <1>16

\* A request of the client touches nobody who is offline.
Asked(c, s, t) ==
    /\ ServerFits(t) /\ Told(c, t)
    /\ t.entities = s.entities /\ t.released = s.released
    /\ \A x \in Objects \ s.entities :
          /\ t.ID_Parent[x] = s.ID_Parent[x]
          /\ Silent(Way(c, s), x) => Silent(Way(c, t), x)

LEMMA RejectAsked ==
    ASSUME NEW c, c.game_events \in Seq(Messages), NEW s, ServerFits(s), Told(c, s),
           NEW h \in Holders, NEW i \in Items,
           NEW t, t = Process_event_reject(s, h, i)
    PROVE  Asked(c, s, t)
<1>1. s \in Servers
  BY DEF ServerFits
<1>2. CASE h \in s.entities /\ i \in s.entities /\ s.ID_Parent[i] = h
  <2>1. Rejected(c, s, i, s.entities, s.released, t)
    BY <1>1, <1>2, RejectTells
  <2>2. /\ t \in Servers /\ Told(c, t) /\ t.entities = s.entities /\ t.released = s.released
        /\ t.ID_Parent = [s.ID_Parent EXCEPT ![i] = None]
        /\ \A x : x # i /\ Silent(Way(c, s), x) => Silent(Way(c, t), x)
    BY <2>1 DEF Rejected
  <2>3. \A x \in Objects : t.ID_Parent[x] = IF x = i THEN None ELSE s.ID_Parent[x]
    BY <1>1, <2>2, ServerRecord
  <2>4. \A r \in s.released : r \in Objects
    BY <1>1, ServerRecord
  <2>5. ServerFits(t)
    BY <2>2, <2>3, <2>4, Types DEF ServerFits
  <2>6. QED
    BY <1>2, <2>2, <2>3, <2>5 DEF Asked
<1>3. CASE ~ (h \in s.entities /\ i \in s.entities /\ s.ID_Parent[i] = h)
  <2>1. t = s
    BY <1>1, <1>3 DEF Process_event_reject, Children
  <2>2. QED
    BY <2>1 DEF Asked
<1>4. QED
  BY <1>2, <1>3

LEMMA OwnershipAsked ==
    ASSUME ClientFits(client), NEW s, ServerFits(s), Told(client, s),
           NEW h \in Holders, NEW i \in Items,
           NEW t, t = Process_event_ownership(s, h, i)
    PROVE  Asked(client, s, t)
<1>1. s \in Servers /\ client.game_events \in Seq(Messages)
  BY DEF ServerFits, ClientFits, Clients
<1> DEFINE Can == /\ {h, i} \subseteq s.entities /\ IsValidOnClient(h) /\ IsValidOnClient(i)
                  /\ s.ID_Parent[i] = None
<1>2. CASE Can
  <2> DEFINE b == [s.ID_Parent EXCEPT ![i] = h]
             u == [s EXCEPT !.ID_Parent[i] = h]
             e == [type |-> "take", dest |-> h, id |-> i]
  <2>1. /\ h \in s.entities \ Unspawnable /\ i \in s.entities \ Unspawnable
        /\ s.ID_Parent[i] = None /\ i \in Objects
    BY <1>2, Types DEF IsValidOnClient, ClientFits
  <2>2. b \in [Objects -> Holders \cup {None}]
    BY <1>1, ServerRecord
  <2>3. u = [entities |-> s.entities, ID_Parent |-> b, released |-> s.released,
             net_Queue |-> s.net_Queue]
    <3>1. u = [s EXCEPT !.ID_Parent = b]
      BY <1>1, ServerRecord
    <3> HIDE DEF b, u
    <3>2. QED
      BY <1>1, <3>1, ServerRecord
  <2>4. t = Send(u, "take", h, i)
    BY <1>2 DEF Process_event_ownership
  <2> HIDE DEF b, u
  <2>5. u \in Servers /\ u.ID_Parent = b /\ u.entities = s.entities /\ u.released = s.released
        /\ u.net_Queue = s.net_Queue
    BY <1>1, <2>2, <2>3, ServerRecord DEF Servers
  <2>6. /\ t \in Servers
        /\ t = [entities |-> u.entities, ID_Parent |-> u.ID_Parent, released |-> u.released,
                net_Queue |-> Append(u.net_Queue, e)]
    BY <2>1, <2>4, <2>5, SendType
  <2>7. /\ t.entities = s.entities /\ t.released = s.released /\ t.ID_Parent = b
        /\ t.net_Queue = Append(s.net_Queue, e)
    BY ONLY <2>5, <2>6
  <2>8. Sends(s, t, e)
    BY <1>1, <2>1, <2>7, TakeSends DEF b
  <2>9. e.type # "spawn" /\ e.id = i
    OBVIOUS
  <2> HIDE DEF e
  <2>10. Told(client, t) /\ \A x : x # i /\ Silent(Way(client, s), x) => Silent(Way(client, t), x)
    BY <1>1, <2>8, <2>9, TellsOn
  <2>11. \A x \in Objects : t.ID_Parent[x] = IF x = i THEN h ELSE s.ID_Parent[x]
    BY <1>1, <2>1, <2>7, ServerRecord DEF b
  <2>12. \A r \in s.released : r \in Objects
    BY <1>1, ServerRecord
  <2>13. ServerFits(t)
    <3>1. \A y \in Holders : t.ID_Parent[y] = None
      BY <2>11, Types DEF ServerFits
    <3>2. ASSUME NEW x \in Objects, t.ID_Parent[x] # None
          PROVE  x \in t.entities <=> t.ID_Parent[x] \in t.entities
      <4>1. CASE x = i
        BY <2>1, <2>7, <2>11, <4>1
      <4>2. CASE x # i
        BY <2>7, <2>11, <3>2, <4>2 DEF ServerFits
      <4>3. QED
        BY <4>1, <4>2
    <3>3. \A r \in t.released : r \notin t.entities /\ t.ID_Parent[r] = None
      BY <2>1, <2>7, <2>11, <2>12 DEF ServerFits
    <3>4. QED
      BY <2>6, <3>1, <3>2, <3>3 DEF ServerFits
  <2>14. QED
    BY <2>1, <2>7, <2>10, <2>11, <2>13 DEF Asked
<1>3. CASE ~ Can
  <2>1. t = s
    BY <1>3 DEF Process_event_ownership
  <2>2. QED
    BY <2>1 DEF Asked
<1>4. QED
  BY <1>2, <1>3

LEMMA AskedTwice ==
    ASSUME NEW c, NEW s, NEW u, NEW t, Asked(c, s, u), Asked(c, u, t)
    PROVE  Asked(c, s, t)
BY DEF Asked

-----------------------------------------------------------------------------
(* The client's frame. *)

LEMMA AllIsHere ==
    ASSUME NEW c, c.game_events \in Seq(Messages), NEW s, s.net_Queue = <<>>
    PROVE  Way(c, s) = c.game_events
<1>1. c.game_events \o <<>> = c.game_events
  <2> DEFINE q == c.game_events
  <2>1. q \in Seq(Messages)
    OBVIOUS
  <2> HIDE DEF q
  <2>2. q \o <<>> = q
    BY <2>1, ConcatEmptySeq
  <2>3. QED
    BY <2>2 DEF q
<1>2. QED
  BY <1>1 DEF Way

\* The first event is handled.
LEMMA HandleTells ==
    ASSUME NEW c, ClientFits(c), NEW s, Told(c, s), s.net_Queue = <<>>, c.game_events # <<>>,
           NEW d, d = Handled([c EXCEPT !.game_events = Tail(@)], Head(c.game_events))
    PROVE  ClientFits(d) /\ Told(d, s) /\ Fits(ClientPicture(c), Head(c.game_events))
<1> DEFINE q == c.game_events
           e == Head(q)
           b == [c EXCEPT !.game_events = Tail(q)]
<1>1. /\ c = [game_events |-> c.game_events, object |-> c.object, parent |-> c.parent,
              items |-> c.items]
      /\ c \in Clients /\ q \in Seq(Messages) /\ q # <<>> /\ Tail(q) \in Seq(Messages)
  BY HeadTailProperties DEF ClientFits, Clients
<1>2. d = Handled(b, e)
  OBVIOUS
<1>3. b = [game_events |-> Tail(q), object |-> c.object, parent |-> c.parent, items |-> c.items]
  <2> DEFINE r == Tail(q)
  <2>1. b = [c EXCEPT !.game_events = r]
    OBVIOUS
  <2> HIDE DEF r, b, q
  <2>2. b = [game_events |-> r, object |-> c.object, parent |-> c.parent, items |-> c.items]
    BY <1>1, <2>1
  <2>3. QED
    BY <2>2 DEF r
<1>4. Way(c, s) = q
  BY <1>1, AllIsHere
<1> HIDE DEF q, b, e
<1>5. /\ b.game_events = Tail(q) /\ b.object = c.object /\ b.parent = c.parent /\ b.items = c.items
      /\ b \in Clients
  BY <1>1, <1>3 DEF Clients
<1>6. ClientPicture(b) = ClientPicture(c)
  BY <1>5 DEF ClientPicture
<1>7. ClientFits(b)
  BY <1>5, <1>6 DEF ClientFits
<1>8. /\ Fits(ClientPicture(c), e)
      /\ Leads(After(ClientPicture(c), e), Tail(q), ServerPicture(s))
  BY <1>1, <1>4, LeadsStep DEF Told, e
<1>9. Fresh(c, q)
  BY <1>4 DEF Told
<1>10. /\ Len(q) \in Nat /\ Len(q) > 0 /\ Len(Tail(q)) = Len(q) - 1 /\ e = q[1]
       /\ \A n \in 1..(Len(q) - 1) : Tail(q)[n] = q[n + 1]
  BY <1>1, HeadTailProperties, EmptySeq DEF e
<1>11. e.type = "spawn" => b.object[e.id] = "absent"
  BY <1>5, <1>9, <1>10 DEF Fresh
<1>12. /\ ClientFits(d) /\ ClientPicture(d) = After(ClientPicture(b), e)
       /\ d.game_events = b.game_events
       /\ \A o \in Objects : o # e.id => d.object[o] = b.object[o]
  <2>1. Handles(b, e, d)
    BY <1>2, <1>6, <1>7, <1>8, <1>11, HandledFits
  <2>2. QED
    BY <2>1 DEF Handles
<1>13. Way(d, s) = Tail(q)
  <2>1. d.game_events \in Seq(Messages)
    BY <1>12 DEF ClientFits, Clients
  <2>2. QED
    BY <1>5, <1>12, <2>1, AllIsHere
<1>14. Fresh(d, Tail(q))
  <2>1. SUFFICES ASSUME NEW n \in 1..(Len(q) - 1), Tail(q)[n].type = "spawn"
                 PROVE  /\ d.object[Tail(q)[n].id] = "absent"
                        /\ \A m \in 1..(n - 1) : Tail(q)[m].id # Tail(q)[n].id
    BY <1>10 DEF Fresh
  <2>2. n + 1 \in 1..Len(q) /\ Tail(q)[n] = q[n + 1] /\ 1 \in 1..((n + 1) - 1)
    BY <1>10
  <2>3. /\ c.object[q[n + 1].id] = "absent"
        /\ \A m \in 1..((n + 1) - 1) : q[m].id # q[n + 1].id
    BY <1>9, <2>1, <2>2 DEF Fresh
  <2>4. q[n + 1].id \in Objects /\ q[n + 1].id # e.id
    <3>1. q[n + 1] \in Messages
      BY <1>1, <2>2, ElementOfSeq
    <3>2. QED
      BY <1>10, <2>2, <2>3, <3>1 DEF Messages
  <2>5. \A m \in 1..(n - 1) : m + 1 \in 1..((n + 1) - 1) /\ Tail(q)[m] = q[m + 1]
    BY <1>10
  <2>6. QED
    BY <1>5, <1>12, <2>2, <2>3, <2>4, <2>5
<1>15. QED
  BY <1>6, <1>8, <1>12, <1>13, <1>14 DEF Told, e, q

-----------------------------------------------------------------------------
(* The client handles all that is on its way. *)

\* As a type: whatever the message, objects may come to be listed.
Wide == [game_events : Seq(Messages),
         object : [Objects -> {"absent", "alive", "doomed"}],
         parent : [Objects -> Holders \cup {None}],
         items : [Holders -> SUBSET Objects]]

LEMMA WideRecord ==
    ASSUME NEW c \in Wide
    PROVE  /\ c = [game_events |-> c.game_events, object |-> c.object, parent |-> c.parent,
                   items |-> c.items]
           /\ c.game_events \in Seq(Messages) /\ c.object \in [Objects -> {"absent", "alive", "doomed"}]
           /\ c.parent \in [Objects -> Holders \cup {None}] /\ c.items \in [Holders -> SUBSET Objects]
BY DEF Wide

LEMMA HandsType ==
    ASSUME NEW c \in Wide, NEW P \in [Objects -> Holders \cup {None}],
           NEW I \in [Holders -> SUBSET Objects], NEW d, d = [c EXCEPT !.parent = P, !.items = I]
    PROVE  d \in Wide
<1>1. c = [game_events |-> c.game_events, object |-> c.object, parent |-> c.parent,
           items |-> c.items]
  BY WideRecord
<1>2. d = [game_events |-> c.game_events, object |-> c.object, parent |-> P, items |-> I]
  BY <1>1
<1>3. QED
  BY <1>2, WideRecord DEF Wide

LEMMA ObjectType ==
    ASSUME NEW c \in Wide, NEW O \in [Objects -> {"absent", "alive", "doomed"}],
           NEW d, d = [c EXCEPT !.object = O]
    PROVE  d \in Wide
<1>1. d = [game_events |-> c.game_events, object |-> O, parent |-> c.parent, items |-> c.items]
  BY WideRecord
<1>2. QED
  BY <1>1, WideRecord DEF Wide

LEMMA OnTakeType ==
    ASSUME NEW c \in Wide, NEW h \in Holders \cup {None}, NEW i \in Objects
    PROVE  OnTake(c, h, i) \in Wide
<1> DEFINE P == [c.parent EXCEPT ![i] = h]
           I == [c.items EXCEPT ![h] = @ \cup {i}]
           d == [c EXCEPT !.parent[i] = h, !.items[h] = @ \cup {i}]
<1>1. P \in [Objects -> Holders \cup {None}] /\ I \in [Holders -> SUBSET Objects]
  BY WideRecord
<1>2. d = [c EXCEPT !.parent = P, !.items = I]
  OBVIOUS
<1>3. OnTake(c, h, i) \in {c, d}
  BY DEF OnTake
<1> HIDE DEF P, I, d
<1>4. d \in Wide
  BY <1>1, <1>2, HandsType
<1>5. QED
  BY <1>3, <1>4

LEMMA OnRejectType ==
    ASSUME NEW c \in Wide, NEW h, NEW i \in Objects
    PROVE  OnReject(c, h, i) \in Wide
<1> DEFINE struck == IF Exists(c, i) \/ h \in Boxes
                     THEN [c EXCEPT !.items[h] = @ \ {i}] ELSE c
           I == [c.items EXCEPT ![h] = @ \ {i}]
           P == [c.parent EXCEPT ![i] = None]
<1>1. P \in [Objects -> Holders \cup {None}] /\ I \in [Holders -> SUBSET Objects]
      /\ c.parent \in [Objects -> Holders \cup {None}] /\ c.items \in [Holders -> SUBSET Objects]
  BY WideRecord
<1>2. CASE Exists(c, i)
  <2> DEFINE d == [struck EXCEPT !.parent[i] = None]
  <2>1. OnReject(c, h, i) = d
    BY <1>2 DEF OnReject
  <2>2. d = [c EXCEPT !.parent = P, !.items = I]
    BY <1>2
  <2> HIDE DEF d, I, P
  <2>3. d \in Wide
    BY <1>1, <2>2, HandsType
  <2>4. QED
    BY <2>1, <2>3
<1>3. CASE ~ Exists(c, i)
  <2> DEFINE d == [c EXCEPT !.items = I]
  <2>1. OnReject(c, h, i) \in {c, d}
    BY <1>3 DEF OnReject
  <2>2. d = [c EXCEPT !.items = I]
    OBVIOUS
  <2> HIDE DEF d, I
  <2>3. d = [game_events |-> c.game_events, object |-> c.object, parent |-> c.parent, items |-> I]
    BY <2>2, WideRecord
  <2>4. d \in Wide
    BY <1>1, <2>3, WideRecord DEF Wide
  <2>5. QED
    BY <2>1, <2>4
<1>4. QED
  BY <1>2, <1>3

LEMMA HandledType ==
    ASSUME NEW c \in Wide, NEW e \in Messages
    PROVE  Handled(c, e) \in Wide
<1>0. /\ e.type \in {"spawn", "take", "reject", "destroy"}
      /\ e.dest \in Holders \cup {None} /\ e.id \in Objects
  BY DEF Messages
<1>1. CASE e.type = "spawn"
  <2> DEFINE O == [c.object EXCEPT ![e.id] = "alive"]
             b == [c EXCEPT !.object[e.id] = "alive"]
  <2>1. O \in [Objects -> {"absent", "alive", "doomed"}] /\ b = [c EXCEPT !.object = O]
    BY WideRecord
  <2>2. Handled(c, e) \in {c, b, OnTake(b, e.dest, e.id)}
    BY <1>1 DEF Handled, g_sv_Spawn
  <2> HIDE DEF b, O
  <2>3. b \in Wide
    BY <2>1, ObjectType
  <2>4. QED
    BY <1>0, <2>2, <2>3, OnTakeType
<1>2. CASE e.type = "take"
  BY <1>0, <1>2, OnTakeType DEF Handled
<1>3. CASE e.type = "reject"
  BY <1>0, <1>3, OnRejectType DEF Handled
<1>4. CASE e.type = "destroy"
  <2> DEFINE o == e.id
             O == [p \in Objects |->
                     IF Exists(c, p) /\ (p = o \/ c.parent[p] = o) THEN "doomed" ELSE c.object[p]]
             d == setDestroy(c, o)
  <2>1. Handled(c, e) \in {c, d}
    BY <1>4 DEF Handled, OnDestroy
  <2>2. d = [c EXCEPT !.object = O]
    BY DEF setDestroy
  <2>3. O \in [Objects -> {"absent", "alive", "doomed"}]
    BY WideRecord
  <2> HIDE DEF d, O
  <2>4. d \in Wide
    BY <2>2, <2>3, ObjectType
  <2>5. QED
    BY <2>1, <2>4
<1>5. QED
  BY <1>0, <1>1, <1>2, <1>3, <1>4

HandleAll(c, q) == FoldLeft(Handled, c, q)

LEMMA HandledPath ==
    ASSUME NEW c \in Wide, NEW seq \in Seq(Messages)
    PROVE  \E path \in [0..Len(seq) -> Wide] :
               /\ path[0] = c /\ path[Len(seq)] = HandleAll(c, seq)
               /\ \A n \in 1..Len(seq) : path[n] = Handled(path[n - 1], seq[n])
<1> DEFINE it == CHOOSE iter : iter = [S \in SUBSET (DOMAIN seq) |->
                     IF S = {} THEN c ELSE Handled(iter[S \ {Max(S)}], seq[Max(S)])]
           N == Len(seq)
           g == [x \in (1..N) \X Wide |-> Handled(x[2], seq[x[1]])]
<1>1. HandleAll(c, seq) = it[DOMAIN seq]
  BY DEF HandleAll, FoldLeft, MapThenFoldSet
<1>2. N \in Nat /\ DOMAIN seq = 1..N /\ \A n \in 1..N : seq[n] \in Messages
  BY LenProperties, ElementOfSeq
<1>3. g \in [(1..N) \X Wide -> Wide]
  BY <1>2, HandledType
<1>4. \A n \in 1..N, t \in Wide : g[<<n, t>>] = Handled(t, seq[n])
  OBVIOUS
<1> HIDE DEF g, N
<1>5. PICK f \in [SUBSET (1..N) -> Wide] : FoldOf(f, c, N, g)
  BY <1>2, <1>3, FoldExists
<1>6. f = [S \in SUBSET (DOMAIN seq) |-> IF S = {} THEN c ELSE Handled(f[S \ {Max(S)}], seq[Max(S)])]
  <2>1. ASSUME NEW S \in SUBSET (1..N)
        PROVE  f[S] = IF S = {} THEN c ELSE Handled(f[S \ {Max(S)}], seq[Max(S)])
    <3>1. S # {} => Max(S) \in 1..N
      BY <1>2, MaxIsIn
    <3>2. f[S \ {Max(S)}] \in Wide
      OBVIOUS
    <3>3. S # {} => g[<<Max(S), f[S \ {Max(S)}]>>] = Handled(f[S \ {Max(S)}], seq[Max(S)])
      BY <1>4, <3>1, <3>2
    <3>4. QED
      BY <1>5, <3>3 DEF FoldOf
  <2>2. QED
    BY <1>2, <2>1
<1>7. it = [S \in SUBSET (DOMAIN seq) |-> IF S = {} THEN c ELSE Handled(it[S \ {Max(S)}], seq[Max(S)])]
  BY <1>6
<1> HIDE DEF it
<1>8. it[{}] = c
  <2>1. {} \in SUBSET (DOMAIN seq)
    OBVIOUS
  <2>2. QED
    BY <1>7, <2>1
<1>9. \A S \in SUBSET (1..N) : S # {} /\ it[S \ {Max(S)}] \in Wide =>
         it[S] = g[<<Max(S), it[S \ {Max(S)}]>>]
  <2>1. TAKE S \in SUBSET (1..N)
  <2>2. HAVE S # {} /\ it[S \ {Max(S)}] \in Wide
  <2>3. it[S] = Handled(it[S \ {Max(S)}], seq[Max(S)])
    BY <1>2, <1>7, <2>2
  <2>4. Max(S) \in 1..N
    BY <1>2, <2>2, MaxIsIn
  <2>5. QED
    BY <1>4, <2>2, <2>3, <2>4
<1>10. Climbing(it, c, N, Wide, g)
  BY <1>8, <1>9 DEF Climbing
<1>11. PICK path \in [0..N -> Wide] : Follows(path, c, N, g, it[1..N])
  BY <1>2, <1>3, <1>10, FoldPath
<1>12. ASSUME NEW n \in 1..N
       PROVE  path[n] = Handled(path[n - 1], seq[n])
  <2>1. path[n - 1] \in Wide
    <3>1. n - 1 \in 0..N
      BY <1>2
    <3>2. QED
      BY <3>1
  <2>2. QED
    BY <1>4, <1>11, <2>1 DEF Follows
<1>13. QED
  BY <1>1, <1>2, <1>11, <1>12 DEF N, Follows

\* At the end of all that is on its way, the client's picture is the server's.
LEMMA AllHandled ==
    ASSUME NEW c, ClientFits(c), NEW s \in Servers, Told(c, s)
    PROVE  ClientPicture(HandleAll(c, Way(c, s))) = ServerPicture(s)
<1> DEFINE q == Way(c, s)
           N == Len(q)
<1>1. q \in Seq(Messages) /\ N \in Nat /\ \A n \in 1..N : q[n] \in Messages
  <2>1. c.game_events \in Seq(Messages) /\ s.net_Queue \in Seq(Messages)
    BY ServerRecord DEF ClientFits, Clients
  <2>2. q \in Seq(Messages)
    BY <2>1, ConcatProperties DEF Way
  <2> HIDE DEF q
  <2>3. QED
    BY <2>2, LenProperties, ElementOfSeq
<1>2. Leads(ClientPicture(c), q, ServerPicture(s)) /\ Fresh(c, q)
  BY DEF Told
<1> HIDE DEF q
<1>3. PICK seen \in [0..N -> Pictures] :
        /\ seen[0] = ClientPicture(c) /\ seen[N] = ServerPicture(s)
        /\ \A n \in 1..N : Fits(seen[n - 1], q[n]) /\ seen[n] = After(seen[n - 1], q[n])
  BY <1>2 DEF Leads
<1>4. c \in Wide
  <2>1. /\ c = [game_events |-> c.game_events, object |-> c.object, parent |-> c.parent,
                items |-> c.items]
        /\ c.game_events \in Seq(Messages) /\ c.object \in [Objects -> {"absent", "alive", "doomed"}]
        /\ c.parent \in [Objects -> Holders \cup {None}] /\ c.items \in [Holders -> SUBSET Items]
    BY DEF ClientFits, Clients
  <2>2. c.items \in [Holders -> SUBSET Objects]
    BY <2>1, Types
  <2>3. QED
    BY <2>1, <2>2 DEF Wide
<1>5. PICK path \in [0..N -> Wide] :
        /\ path[0] = c /\ path[N] = HandleAll(c, q)
        /\ \A n \in 1..N : path[n] = Handled(path[n - 1], q[n])
  BY <1>1, <1>4, HandledPath
<1> HIDE DEF N
<1> DEFINE Done(n) ==
        /\ ClientFits(path[n]) /\ ClientPicture(path[n]) = seen[n]
        /\ \A o \in Objects : (\A m \in 1..n : q[m].id # o) => path[n].object[o] = c.object[o]
<1>6. Done(0)
  BY <1>3, <1>5
<1>7. ASSUME NEW n \in 1..N, Done(n - 1)
      PROVE  Done(n)
  <2> DEFINE b == path[n - 1]
             d == path[n]
             e == q[n]
  <2>1. /\ e \in Messages /\ e.id \in Objects
        /\ \A m \in 1..(n - 1) : m \in 1..n
        /\ n \in 1..n
    BY <1>1 DEF Messages
  <2>2. /\ ClientFits(b) /\ Fits(ClientPicture(b), e) /\ d = Handled(b, e)
        /\ seen[n] = After(ClientPicture(b), e)
    BY <1>3, <1>5, <1>7
  <2>3. e.type = "spawn" => b.object[e.id] = "absent"
    <3>1. HAVE e.type = "spawn"
    <3>2. c.object[e.id] = "absent" /\ \A m \in 1..(n - 1) : q[m].id # e.id
      BY <1>2, <3>1 DEF Fresh, N
    <3>3. QED
      BY <1>7, <2>1, <3>2
  <2>4. Handles(b, e, d)
    <3> HIDE DEF b, d, e
    <3>1. QED
      BY <2>2, <2>3, HandledFits
  <2>5. ASSUME NEW o \in Objects, \A m \in 1..n : q[m].id # o
        PROVE  d.object[o] = c.object[o]
    <3>1. o # e.id /\ \A m \in 1..(n - 1) : q[m].id # o
      BY <2>1, <2>5
    <3>2. b.object[o] = c.object[o]
      BY <1>7, <3>1
    <3>3. QED
      BY <2>4, <3>1, <3>2 DEF Handles
  <2>6. QED
    BY <2>2, <2>4, <2>5 DEF Handles
<1>8. Done(N)
  <2> DEFINE T == {n \in 0..N : Done(n)}
  <2> HIDE DEF Done
  <2>1. N \in Nat /\ N \in 0..N /\ 0 \in 0..N
    BY <1>1 DEF N
  <2>2. 0 \in T
    BY <1>6, <2>1
  <2>3. ASSUME NEW n \in 1..N, n - 1 \in T
        PROVE  n \in T
    BY <1>7, <2>3
  <2> HIDE DEF T
  <2>4. \A n \in 0..N : n \in T
    BY <2>1, <2>2, <2>3, Climb
  <2>5. QED
    BY <2>1, <2>4 DEF T
<1>9. QED
  BY <1>3, <1>5, <1>8 DEF q

-----------------------------------------------------------------------------
(* The invariant. *)

Root(s, o) == IF s.ID_Parent[o] = None THEN o ELSE s.ID_Parent[o]

\* Without a budget a frame handles all that is on its way, so whoever is
\* offline and was not switched since has left no trace with the client.
Waits ==
    ~ budget /\ phase = "world" =>
        \A o \in Objects \ (server.entities \cup server.released) :
            Root(server, o) \notin switched => client.object[o] = "absent" /\ Silent(Way(client, server), o)

IInv ==
    /\ ClientFits(client)
    /\ ServerFits(server)
    /\ Told(client, server)
    /\ budget \in BOOLEAN /\ switched \subseteq Objects
    /\ phase \in {"world", "events", "spawned"}
    /\ phase # "world" => server.net_Queue = <<>>
    /\ Waits

LEMMA InitInv == Init => IInv
<1> SUFFICES ASSUME Init
             PROVE  IInv
  OBVIOUS
<1>1. PICK owner \in [Items -> Holders \cup {None}] :
         server = [entities |-> {},
                   ID_Parent |-> [o \in Objects |-> IF o \in Items THEN owner[o] ELSE None],
                   released |-> {}, net_Queue |-> <<>>]
  BY DEF Init
<1>2. /\ server.entities = {} /\ server.released = {} /\ server.net_Queue = <<>>
      /\ server.ID_Parent = [o \in Objects |-> IF o \in Items THEN owner[o] ELSE None]
      /\ server \in Servers
  BY <1>1, Types DEF Servers
<1>3. client = [game_events |-> <<>>, object |-> [o \in Objects |-> "absent"],
                parent |-> [o \in Objects |-> None], items |-> [h \in Holders |-> {}]]
  BY DEF Init
<1>4. client \in Clients
  BY <1>3 DEF Clients
<1>5. ClientPicture(client) = [alive |-> {}, parent |-> [o \in Objects |-> None]]
  BY <1>3 DEF ClientPicture
<1>6. ServerPicture(server) = [alive |-> {}, parent |-> [o \in Objects |-> None]]
  BY <1>2 DEF ServerPicture
<1>7. Sound(ClientPicture(client))
  BY <1>5 DEF Sound, Pictures
<1>8. ClientFits(client)
  BY <1>3, <1>4, <1>7, Types DEF ClientFits
<1>9. ServerFits(server)
  BY <1>2, Types DEF ServerFits
<1>10. Way(client, server) = <<>>
  <2>1. client.game_events = <<>> /\ client.game_events \in Seq(Messages)
    BY <1>3, <1>4 DEF Clients
  <2>2. Way(client, server) = client.game_events
    BY <1>2, <2>1, AllIsHere
  <2>3. QED
    BY <2>1, <2>2
<1>11. Leads(ClientPicture(client), <<>>, ServerPicture(server))
  BY <1>5, <1>6, <1>7, LeadsNowhere
<1>12. Told(client, server)
  BY <1>10, <1>11 DEF Told, Fresh
<1>13. Waits
  BY <1>3, <1>10 DEF Waits, Silent
<1>14. QED
  BY <1>2, <1>8, <1>9, <1>12, <1>13 DEF IInv, Init

\* What the server does between two frames.
LEMMA WorldInv ==
    ASSUME IInv, phase = "world", UNCHANGED <<client, budget, phase>>,
           ServerFits(server'), Told(client, server'), switched' \subseteq Objects,
           \A o \in Objects \ (server'.entities \cup server'.released) :
               ~ budget /\ Root(server', o) \notin switched' =>
                   client.object[o] = "absent" /\ Silent(Way(client, server'), o)
    PROVE  IInv'
<1>1. Waits'
  BY DEF Waits
<1>2. QED
  BY <1>1 DEF IInv

LEMMA AskedInv ==
    ASSUME IInv, phase = "world", UNCHANGED <<client, budget, switched, phase>>,
           Asked(client, server, server')
    PROVE  IInv'
<1>1. ServerFits(server') /\ Told(client, server') /\ switched' \subseteq Objects
  BY DEF Asked, IInv
<1>2. ASSUME NEW o \in Objects \ (server'.entities \cup server'.released),
             ~ budget, Root(server', o) \notin switched'
      PROVE  client.object[o] = "absent" /\ Silent(Way(client, server'), o)
  <2>1. /\ o \in Objects \ (server.entities \cup server.released)
        /\ server'.ID_Parent[o] = server.ID_Parent[o]
        /\ Silent(Way(client, server), o) => Silent(Way(client, server'), o)
    BY <1>2 DEF Asked
  <2>2. Root(server, o) \notin switched
    BY <1>2, <2>1 DEF Root
  <2>3. QED
    BY <1>2, <2>1, <2>2 DEF IInv, Waits
<1>3. QED
  BY <1>1, <1>2, WorldInv

LEMMA ClientTypes == IInv => client.game_events \in Seq(Messages) /\ server \in Servers
BY DEF IInv, ClientFits, Clients, ServerFits

LEMMA GoOnlineStep ==
    ASSUME ReturnsEarly = FALSE, IInv, NEW o \in Objects, GoOnline(o)
    PROVE  IInv'
<1>1. /\ phase = "world" /\ UNCHANGED <<client, budget, phase>>
      /\ o \notin switched /\ server.ID_Parent[o] = None /\ switched' = switched \cup {o}
      /\ o \notin server.entities /\ o \notin server.released
      /\ server' = SpawnTree(server, o)
      /\ budget => \A p \in {o} \cup Children(server, o) : NoTrace(p)
  BY DEF GoOnline, Switch, Room, Unowned
<1>2. /\ ServerFits(server) /\ Told(client, server) /\ client.game_events \in Seq(Messages)
      /\ switched \subseteq Objects /\ budget \in BOOLEAN /\ server \in Servers /\ ClientFits(client)
  BY ClientTypes DEF IInv
<1>3. \A i \in Children(server, o) :
         i \in Objects /\ i \in Items /\ server.ID_Parent[i] = o /\ o # None /\ i \notin server.entities
         /\ i \notin server.released
  BY <1>1, <1>2, ChildrenFit, Types DEF ServerFits
<1>4. ASSUME NEW p \in {o} \cup Children(server, o)
      PROVE  client.object[p] = "absent" /\ Silent(Way(client, server), p)
  <2>1. CASE budget
    BY <1>1, <2>1 DEF NoTrace, Exists, Silent, Way, OnItsWay
  <2>2. CASE ~ budget
    <3>1. p \in Objects \ (server.entities \cup server.released) /\ Root(server, p) = o
      BY <1>1, <1>3 DEF Root
    <3>2. QED
      BY <1>1, <2>2, <3>1 DEF IInv, Waits
  <2>3. QED
    BY <2>1, <2>2
<1>5. /\ ServerFits(server') /\ Told(client, server')
      /\ server'.entities = server.entities \cup {o} \cup Children(server, o)
      /\ server'.ID_Parent = server.ID_Parent /\ server'.released = server.released
      /\ \A x : x \notin {o} \cup Children(server, o) /\ Silent(Way(client, server), x) =>
            Silent(Way(client, server'), x)
  BY <1>1, <1>2, <1>4, SpawnTreeTells
<1>6. ASSUME NEW x \in Objects \ (server'.entities \cup server'.released),
             ~ budget, Root(server', x) \notin switched'
      PROVE  client.object[x] = "absent" /\ Silent(Way(client, server'), x)
  <2>1. /\ x \in Objects \ (server.entities \cup server.released)
        /\ x \notin {o} \cup Children(server, o) /\ Root(server, x) \notin switched
    BY <1>1, <1>5, <1>6 DEF Root
  <2>2. client.object[x] = "absent" /\ Silent(Way(client, server), x)
    BY <1>1, <1>6, <2>1 DEF IInv, Waits
  <2>3. QED
    BY <1>5, <2>1, <2>2
<1>7. switched' \subseteq Objects
  BY <1>1, <1>2
<1>8. QED
  BY <1>1, <1>5, <1>6, <1>7, WorldInv

LEMMA GoOfflineStep ==
    ASSUME IInv, NEW o \in Objects, GoOffline(o)
    PROVE  IInv'
<1>1. /\ phase = "world" /\ UNCHANGED <<client, budget, phase>>
      /\ server.ID_Parent[o] = None /\ switched' = switched \cup {o}
      /\ o \in server.entities /\ server' = Perform_destroy(server, o)
  BY DEF GoOffline, Switch, Room, Unowned
<1>2. /\ ServerFits(server) /\ Told(client, server) /\ client.game_events \in Seq(Messages)
      /\ switched \subseteq Objects
  BY ClientTypes DEF IInv
<1>3. /\ ServerFits(server') /\ Told(client, server')
      /\ server'.entities = server.entities \ ({o} \cup Children(server, o))
      /\ server'.ID_Parent = server.ID_Parent /\ server'.released = server.released
      /\ \A x : x \notin {o} \cup Children(server, o) /\ Silent(Way(client, server), x) =>
            Silent(Way(client, server'), x)
  BY <1>1, <1>2, PerformTells
<1>4. ASSUME NEW x \in Objects \ (server'.entities \cup server'.released),
             ~ budget, Root(server', x) \notin switched'
      PROVE  client.object[x] = "absent" /\ Silent(Way(client, server'), x)
  <2>1. Root(server, x) = Root(server', x)
    BY <1>3 DEF Root
  <2>2. \A i \in Children(server, o) : Root(server, i) = o
    BY <1>2, ChildrenFit, Types DEF Root
  <2>3. Root(server, o) = o
    BY <1>1 DEF Root
  <2>4. x \notin {o} \cup Children(server, o) /\ Root(server, x) \notin switched
    BY <1>1, <1>4, <2>1, <2>2, <2>3
  <2>5. x \in Objects \ (server.entities \cup server.released)
    BY <1>3, <1>4, <2>4
  <2>6. client.object[x] = "absent" /\ Silent(Way(client, server), x)
    BY <1>1, <1>4, <2>4, <2>5 DEF IInv, Waits
  <2>7. QED
    BY <1>3, <2>4, <2>6
<1>5. switched' \subseteq Objects
  BY <1>1, <1>2
<1>6. QED
  BY <1>1, <1>3, <1>4, <1>5, WorldInv

LEMMA ReleaseStep ==
    ASSUME IInv, NEW o \in Objects, Release(o)
    PROVE  IInv'
<1>1. /\ phase = "world" /\ UNCHANGED <<client, budget, switched, phase>>
      /\ o \in server.entities /\ server' = Process_event_destroy(server, o)
  BY DEF Release, Room
<1>2. /\ ServerFits(server) /\ Told(client, server) /\ client.game_events \in Seq(Messages)
      /\ switched \subseteq Objects
  BY ClientTypes DEF IInv
<1>3. /\ ServerFits(server') /\ Told(client, server')
      /\ server'.entities = server.entities \ ({o} \cup Children(server, o))
      /\ server'.released = server.released \cup {o} \cup Children(server, o)
      /\ \A x \in Objects : server'.ID_Parent[x] =
            IF x \in {o} \cup Children(server, o) THEN None ELSE server.ID_Parent[x]
      /\ \A x : x \notin {o} \cup Children(server, o) /\ Silent(Way(client, server), x) =>
            Silent(Way(client, server'), x)
  BY <1>1, <1>2, DestroyTells
<1>4. ASSUME NEW x \in Objects \ (server'.entities \cup server'.released),
             ~ budget, Root(server', x) \notin switched'
      PROVE  client.object[x] = "absent" /\ Silent(Way(client, server'), x)
  <2>1. x \notin {o} \cup Children(server, o) /\ x \in Objects \ (server.entities \cup server.released)
    BY <1>3, <1>4
  <2>2. Root(server, x) \notin switched
    BY <1>1, <1>3, <1>4, <2>1 DEF Root
  <2>3. client.object[x] = "absent" /\ Silent(Way(client, server), x)
    BY <1>1, <1>4, <2>1, <2>2 DEF IInv, Waits
  <2>4. QED
    BY <1>3, <2>1, <2>3
<1>5. QED
  BY <1>1, <1>2, <1>3, <1>4, WorldInv

\* The requests of client objects.
LEMMA RequestStep ==
    ASSUME IInv,
           \/ \E h \in Stalkers, i \in Items : Take(h, i) \/ Drop(h, i)
           \/ \E a, b \in Holders, i \in Items : a # b /\ move_item_from_to(a, b, i)
    PROVE  IInv'
<1>1. /\ ServerFits(server) /\ Told(client, server) /\ client.game_events \in Seq(Messages)
      /\ ClientFits(client)
  BY ClientTypes DEF IInv
<1>2. ASSUME NEW h \in Stalkers, NEW i \in Items, Take(h, i)
      PROVE  IInv'
  <2>1. /\ phase = "world" /\ UNCHANGED <<client, budget, switched, phase>> /\ h \in Holders
        /\ server' = Process_event_ownership(server, h, i)
    BY <1>2 DEF Take, Room, Holders
  <2>2. Asked(client, server, server')
    BY <1>1, <2>1, OwnershipAsked
  <2>3. QED
    BY <2>1, <2>2, AskedInv
<1>3. ASSUME NEW h \in Stalkers, NEW i \in Items, Drop(h, i)
      PROVE  IInv'
  <2>1. /\ phase = "world" /\ UNCHANGED <<client, budget, switched, phase>> /\ h \in Holders
        /\ server' = Process_event_reject(server, h, i)
    BY <1>3 DEF Drop, Room, Holders
  <2>2. Asked(client, server, server')
    BY <1>1, <2>1, RejectAsked
  <2>3. QED
    BY <2>1, <2>2, AskedInv
<1>4. ASSUME NEW a \in Holders, NEW b \in Holders, NEW i \in Items, move_item_from_to(a, b, i)
      PROVE  IInv'
  <2> DEFINE u == Process_event_reject(server, a, i)
  <2>1. /\ phase = "world" /\ UNCHANGED <<client, budget, switched, phase>>
        /\ server' = Process_event_ownership(u, b, i)
    BY <1>4 DEF move_item_from_to, Room
  <2>2. Asked(client, server, u)
    <3>1. u = Process_event_reject(server, a, i)
      OBVIOUS
    <3> HIDE DEF u
    <3>2. QED
      BY <1>1, <3>1, RejectAsked
  <2> HIDE DEF u
  <2>3. ServerFits(u) /\ Told(client, u)
    BY <2>2 DEF Asked
  <2>4. Asked(client, u, server')
    BY <1>1, <2>1, <2>3, OwnershipAsked
  <2>5. Asked(client, server, server')
    BY <2>2, <2>4, AskedTwice
  <2>6. QED
    BY <2>1, <2>5, AskedInv
<1>5. QED
  BY <1>2, <1>3, <1>4

\* ClientReceive moves the messages on, and changes nothing that they say.
LEMMA BeginFrameStep ==
    ASSUME IInv, BeginFrame
    PROVE  IInv'
<1>1. /\ client' = [client EXCEPT !.game_events = OnItsWay]
      /\ server' = [server EXCEPT !.net_Queue = <<>>]
      /\ switched' = {} /\ phase' = "events" /\ budget' = budget
  BY DEF BeginFrame
<1>2. /\ ServerFits(server) /\ ClientFits(client) /\ Told(client, server)
      /\ budget \in BOOLEAN /\ server \in Servers /\ client \in Clients
  BY ClientTypes DEF IInv, ClientFits
<1> DEFINE q == OnItsWay
<1>3. q \in Seq(Messages) /\ q = Way(client, server)
  <2>1. client.game_events \in Seq(Messages) /\ server.net_Queue \in Seq(Messages)
    BY <1>2, ServerRecord DEF Clients
  <2>2. QED
    BY <2>1, ConcatProperties DEF OnItsWay, Way
<1> HIDE DEF q
<1>4. client' = [game_events |-> q, object |-> client.object, parent |-> client.parent,
                 items |-> client.items]
  <2>1. client = [game_events |-> client.game_events, object |-> client.object,
                  parent |-> client.parent, items |-> client.items]
    BY <1>2 DEF Clients
  <2>2. client' = [client EXCEPT !.game_events = q]
    BY <1>1 DEF q
  <2>3. QED
    BY <2>1, <2>2
<1>5. /\ client'.game_events = q /\ client'.object = client.object
      /\ client'.parent = client.parent /\ client'.items = client.items
      /\ client' \in Clients
  BY <1>2, <1>3, <1>4 DEF Clients
<1>6. /\ server'.entities = server.entities /\ server'.ID_Parent = server.ID_Parent
      /\ server'.released = server.released /\ server'.net_Queue = <<>> /\ server' \in Servers
  <2>1. server = [entities |-> server.entities, ID_Parent |-> server.ID_Parent,
                  released |-> server.released, net_Queue |-> server.net_Queue]
    BY <1>2, ServerRecord
  <2>2. server' = [entities |-> server.entities, ID_Parent |-> server.ID_Parent,
                   released |-> server.released, net_Queue |-> <<>>]
    BY <1>1, <2>1
  <2>3. <<>> \in Seq(Messages)
    OBVIOUS
  <2>4. QED
    BY <1>2, <2>2, <2>3, ServerRecord DEF Servers
<1>7. ClientPicture(client') = ClientPicture(client)
  BY <1>5 DEF ClientPicture
<1>8. ServerPicture(server') = ServerPicture(server)
  BY <1>6 DEF ServerPicture
<1>9. ClientFits(client')
  BY <1>2, <1>5, <1>7 DEF ClientFits
<1>10. ServerFits(server')
  BY <1>2, <1>6 DEF ServerFits
<1>11. Way(client', server') = Way(client, server)
  BY <1>3, <1>5, <1>6, AllIsHere
<1>12. Told(client', server')
  BY <1>2, <1>5, <1>7, <1>8, <1>11 DEF Told, Fresh
<1>13. Waits'
  BY <1>1 DEF Waits
<1>14. QED
  BY <1>1, <1>2, <1>6, <1>9, <1>10, <1>12, <1>13 DEF IInv

\* A take that is on its way never finds an object that is being destroyed, so
\* the client's inventory refuses none and nothing goes back to the server.
LEMMA EventStep ==
    ASSUME IInv, SpawnEvent \/ TakeEvent \/ RejectEvent \/ DestroyEvent
    PROVE  IInv'
<1>1. /\ phase # "world" /\ client.game_events # <<>> /\ client' = HandleFirst
      /\ UNCHANGED <<budget, switched>> /\ phase' \in {"spawned", phase}
      /\ \/ server' = server
         \/ /\ Head(client.game_events).type = "take"
            /\ server' = LET e == Head(client.game_events)
                         IN  IF Exists(client, e.dest) /\ Refuses(client, e.dest, e.id)
                             THEN Process_event_reject(server, e.dest, e.id) ELSE server
  BY DEF SpawnEvent, TakeEvent, RejectEvent, DestroyEvent, InEvents
<1>2. /\ ServerFits(server) /\ ClientFits(client) /\ Told(client, server)
      /\ budget \in BOOLEAN /\ switched \subseteq Objects /\ server.net_Queue = <<>>
      /\ phase \in {"world", "events", "spawned"}
  BY <1>1 DEF IInv
<1>3. /\ ClientFits(client') /\ Told(client', server)
      /\ Fits(ClientPicture(client), Head(client.game_events))
  BY <1>1, <1>2, HandleTells DEF HandleFirst
<1>4. server' = server
  <2>1. CASE Head(client.game_events).type = "take"
    <3> DEFINE e == Head(client.game_events)
    <3>1. client.object[e.id] = "alive"
      BY <1>3, <2>1 DEF Fits, ClientPicture
    <3>2. QED
      BY <1>1, <3>1 DEF Refuses
  <2>2. QED
    BY <1>1, <2>1
<1>5. phase' # "world" /\ phase' \in {"world", "events", "spawned"}
  BY <1>1, <1>2
<1>6. Waits'
  BY <1>5 DEF Waits
<1>7. QED
  BY <1>1, <1>2, <1>3, <1>4, <1>5, <1>6 DEF IInv

LEMMA EndFrameStep ==
    ASSUME IInv, EndFrame
    PROVE  IInv'
<1>1. /\ client' = Reaped(client) /\ phase # "world" /\ phase' = "world"
      /\ UNCHANGED <<server, budget, switched>>
      /\ client.game_events = <<>> \/ budget
  BY DEF EndFrame, Reaped
<1>2. /\ ServerFits(server) /\ ClientFits(client) /\ Told(client, server)
      /\ budget \in BOOLEAN /\ switched \subseteq Objects /\ server.net_Queue = <<>>
  BY <1>1 DEF IInv
<1>3. /\ ClientFits(client') /\ ClientPicture(client') = ClientPicture(client)
      /\ client'.game_events = client.game_events
      /\ \A o \in Objects : client'.object[o] =
            IF client.object[o] = "doomed" THEN "absent" ELSE client.object[o]
  BY <1>1, <1>2, ReapedFits
<1>4. Way(client', server') = Way(client, server) /\ Way(client, server) = client.game_events
  <2>1. client.game_events \in Seq(Messages)
    BY <1>2 DEF ClientFits, Clients
  <2>2. Way(client, server) = client.game_events
    BY <1>2, <2>1, AllIsHere
  <2>3. QED
    BY <1>1, <1>3, <2>2 DEF Way
<1>5. Told(client', server')
  <2>1. \A n \in 1..Len(Way(client, server)) : Way(client, server)[n].id \in Objects
    <3> DEFINE q == Way(client, server)
    <3>1. q \in Seq(Messages)
      BY <1>2, <1>4 DEF ClientFits, Clients
    <3> HIDE DEF q
    <3>2. \A n \in 1..Len(q) : q[n] \in Messages
      BY <3>1, ElementOfSeq
    <3>3. QED
      BY <3>2 DEF q, Messages
  <2>2. Fresh(client', Way(client, server))
    BY <1>2, <1>3, <2>1 DEF Told, Fresh
  <2>3. QED
    BY <1>1, <1>2, <1>3, <1>4, <2>2 DEF Told
<1>6. Waits'
  <2>1. SUFFICES ASSUME ~ budget, NEW o \in Objects \ (server.entities \cup server.released)
                 PROVE  client'.object[o] = "absent" /\ Silent(Way(client', server'), o)
    BY <1>1 DEF Waits
  <2>2. Way(client, server) = <<>> /\ Way(client', server') = <<>>
    BY <1>1, <1>4, <2>1
  <2>3. ClientPicture(client) = ServerPicture(server)
    BY <1>2, <2>2, LeadsNowhere DEF Told
  <2>4. client.object[o] # "alive"
    BY <2>1, <2>3 DEF ClientPicture, ServerPicture
  <2>5. client.object[o] \in {"absent", "alive", "doomed"}
    BY <1>2 DEF ClientFits, Clients
  <2>6. client'.object[o] = "absent"
    BY <1>3, <2>4, <2>5
  <2>7. QED
    BY <2>2, <2>6 DEF Silent
<1>7. QED
  BY <1>1, <1>2, <1>3, <1>5, <1>6 DEF IInv

LEMMA NextInv ==
    ASSUME ReturnsEarly = FALSE, IInv, [Next]_vars
    PROVE  IInv'
<1>1. CASE \E o \in Objects : GoOnline(o) \/ GoOffline(o) \/ Release(o)
  BY <1>1, GoOnlineStep, GoOfflineStep, ReleaseStep
<1>2. CASE \/ \E h \in Stalkers, i \in Items : Take(h, i) \/ Drop(h, i)
           \/ \E a, b \in Holders, i \in Items : a # b /\ move_item_from_to(a, b, i)
  BY <1>2, RequestStep
<1>3. CASE BeginFrame
  BY <1>3, BeginFrameStep
<1>4. CASE SpawnEvent \/ TakeEvent \/ RejectEvent \/ DestroyEvent
  BY <1>4, EventStep
<1>5. CASE EndFrame
  BY <1>5, EndFrameStep
<1>6. CASE UNCHANGED vars
  BY <1>6 DEF vars, IInv, Waits
<1>7. QED
  BY <1>1, <1>2, <1>3, <1>4, <1>5, <1>6 DEF Next, World, Frame

-----------------------------------------------------------------------------
(* What the invariant shows. *)

LEMMA InvTypes == IInv => TypeOK
<1> SUFFICES ASSUME IInv
             PROVE  TypeOK
  OBVIOUS
<1>1. client \in Clients /\ server \in Servers
  BY ClientTypes DEF IInv, ClientFits
<1>2. QED
  BY <1>1 DEF IInv, TypeOK, Clients, Servers

LEMMA InvEvents == IInv => EventsFit
<1> SUFFICES ASSUME IInv, phase # "world", client.game_events # <<>>
             PROVE  LET e == Head(client.game_events)
                    IN  /\ e.type = "take" /\ Exists(client, e.dest) =>
                             client.object[e.id] = "alive" /\ client.parent[e.id] = None
                        /\ e.type = "reject" /\ Exists(client, e.dest) /\ Exists(client, e.id) =>
                             client.parent[e.id] = e.dest
                        /\ e.type = "destroy" => client.parent[e.id] = None
  BY DEF EventsFit
<1> DEFINE e == Head(client.game_events)
           p == ClientPicture(client)
<1>1. Fits(p, e)
  <2>1. server.net_Queue = <<>> /\ ClientFits(client) /\ Told(client, server)
    BY DEF IInv
  <2>2. QED
    BY <2>1, HandleTells
<1>2. /\ p.parent = client.parent
      /\ \A o \in Objects : o \in p.alive <=> client.object[o] = "alive"
  BY DEF ClientPicture
<1>3. /\ e.id \in Objects /\ e.dest \in Holders \cup {None}
      /\ \A o \in Unspawnable : client.object[o] = "absent"
      /\ \A o \in Objects : client.parent[o] # None => client.object[o] = "alive"
  BY <1>1, <1>2 DEF Fits, Messages, IInv, ClientFits, Sound
<1> HIDE DEF e, p
<1>4. e.type = "take" => client.object[e.id] = "alive" /\ client.parent[e.id] = None
  BY <1>1, <1>2, <1>3 DEF Fits
<1>5. e.type = "destroy" => client.parent[e.id] = None
  BY <1>1, <1>2 DEF Fits
<1>6. ASSUME e.type = "reject", Exists(client, e.dest), Exists(client, e.id)
      PROVE  client.parent[e.id] = e.dest
  <2>1. e.id \notin Unspawnable /\ e.dest \notin Unspawnable
    BY <1>3, <1>6 DEF Exists
  <2>2. e.id \in p.alive /\ Shown(e.dest) = e.dest
    BY <1>1, <1>6, <2>1 DEF Fits, Knows, Shown
  <2>3. QED
    BY <1>1, <1>2, <1>6, <2>2 DEF Fits
<1>7. QED
  BY <1>4, <1>5, <1>6 DEF e

LEMMA InvHands == IInv => HandsMatch
<1> SUFFICES ASSUME IInv
             PROVE  HandsMatch
  OBVIOUS
<1>1. /\ client.parent \in [Objects -> Holders \cup {None}]
      /\ client.items \in [Holders -> SUBSET Items]
      /\ \A h \in Holders, i \in Items : i \in client.items[h] <=> client.parent[i] = h
      /\ \A o \in Objects : client.parent[o] # None =>
            o \in Items /\ client.object[o] = "alive" /\ client.object[client.parent[o]] = "alive"
  BY Types DEF IInv, ClientFits, Clients, Sound, ClientPicture
<1>2. ASSUME NEW h \in Holders, NEW i \in client.items[h]
      PROVE  Exists(client, i) /\ client.parent[i] = h
  BY <1>1, Types DEF Exists
<1>3. ASSUME NEW o \in Objects, client.parent[o] # None
      PROVE  /\ Exists(client, o) /\ Exists(client, client.parent[o])
             /\ o \in client.items[client.parent[o]]
  BY <1>1, <1>3 DEF Exists
<1>4. QED
  BY <1>2, <1>3 DEF HandsMatch

LEMMA InvAgree == IInv => WillAgree
<1> SUFFICES ASSUME IInv
             PROVE  WillAgree
  OBVIOUS
<1> DEFINE last == HandleAll(client, Way(client, server))
<1>1. /\ ClientFits(client) /\ server \in Servers /\ Told(client, server) /\ ServerFits(server)
  BY ClientTypes DEF IInv
<1>2. ClientPicture(last) = ServerPicture(server)
  BY <1>1, AllHandled
<1>3. WillAgree <=> \A o \in Objects :
          /\ last.object[o] = "alive" <=> o \in Expected
          /\ o \in Expected => last.parent[o] = ExpectedParent(o)
  BY Zenon DEF WillAgree, HandleAll, Way, OnItsWay
<1> HIDE DEF last
<1>4. /\ \A o \in Objects : last.object[o] = "alive" <=> o \in server.entities \ Unspawnable
      /\ last.parent = [o \in Objects |->
            IF o \in server.entities \ Unspawnable THEN Shown(server.ID_Parent[o]) ELSE None]
  BY <1>1, <1>2, ServerRecord DEF ClientPicture, ServerPicture
<1>5. ASSUME NEW o \in Objects, o \in Expected
      PROVE  Shown(server.ID_Parent[o]) = ExpectedParent(o)
  <2>1. server.ID_Parent[o] # None => server.ID_Parent[o] \in server.entities
    BY <1>1, <1>5 DEF Expected, ServerFits
  <2>2. None \notin server.entities
    BY <1>1, ServerRecord, Types
  <2>3. QED
    BY <1>5, <2>1, <2>2 DEF Expected, ExpectedParent, Shown
<1>6. QED
  BY <1>3, <1>4, <1>5 DEF Expected

\* What is on its way leads from the client's picture to the server's, each
\* message fits when its turn comes, and a spawn meets no former life.
THEOREM Invariance ==
    ASSUME ReturnsEarly = FALSE
    PROVE  Spec => []IInv
<1>1. IInv /\ [Next]_vars => IInv'
  BY NextInv
<1>2. QED
  BY <1>1, InitInv, PTL DEF Spec

\* Every message stays one of the four that the packets of the server carry,
\* and every object in one of the three states of the client's lists.
THEOREM TypeCorrect ==
    ASSUME ReturnsEarly = FALSE
    PROVE  Spec => []TypeOK
BY Invariance, InvTypes, PTL

\* However many requests cross, for any number of holders and items and any
\* backlog: a take finds its item free and alive, a reject finds it with the
\* holder it names, and a GE_DESTROY is never ignored for a parent.
THEOREM EventsArrive ==
    ASSUME ReturnsEarly = FALSE
    PROVE  Spec => []EventsFit
BY Invariance, InvEvents, PTL

\* H_Parent and the lists of the holders always agree, also when a holder is
\* destroyed while something is on its way to it.
THEOREM HandsAgree ==
    ASSUME ReturnsEarly = FALSE
    PROVE  Spec => []HandsMatch
BY Invariance, InvHands, PTL

\* The budget of events puts off, and loses nothing: what is on its way always
\* leads the client to the objects and owners that the server has.
THEOREM Agreement ==
    ASSUME ReturnsEarly = FALSE
    PROVE  Spec => []WillAgree
BY Invariance, InvAgree, PTL
=============================================================================
