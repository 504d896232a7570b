------------------------- MODULE ServerEntitiesProofs -------------------------
(***************************************************************************)
(* Proofs about ServerEntities, for any objects, ids and number of calls   *)
(* during a walk.                                                          *)
(*                                                                         *)
(* The argument: a census tells of every object whether it exists, whose   *)
(* it is and which tables it is in.  A world whose tables lead from ids to *)
(* objects shows a census; the handlers are followed through the censuses  *)
(* they show, and between two calls the census is orderly.                 *)
(***************************************************************************)
EXTENDS ServerEntities, SequenceLemmas, FiniteSetTheorems

\* Scripts never create a bolt offline (see the README for what would happen to it),
\* and there are so many ids that one which is freed during a walk is not given out
\* again before the walk ends.
Plenty ==
    /\ Supplies \subseteq Items
    /\ Cardinality(Objects) + CallsPerWalk <= Cardinality(Ids) + 1

Worlds ==
    [alive : [Objects -> BOOLEAN], ID : [Objects -> Ids \cup {NoId}],
     ID_Parent : [Objects -> Ids \cup {NoId}], children : [Objects -> Seq(Ids)],
     online : [Objects -> BOOLEAN], control : [Objects -> BOOLEAN],
     entities : [Ids -> Objects \cup {None}], registry : [Ids -> Objects \cup {None}],
     level : [Ids -> Objects \cup {None}], points : [Ids -> Objects \cup {None}],
     pool : Seq(Ids), fatal : BOOLEAN]

\* Who exists, and who is in which table.
Censuses ==
    [alive : SUBSET Objects, ID : [Objects -> Ids \cup {NoId}],
     parent : [Objects -> Ids \cup {NoId}], children : [Objects -> Seq(Ids)],
     online : SUBSET Objects, control : SUBSET Objects,
     ent : SUBSET Objects, reg : SUBSET Objects, lev : SUBSET Objects, pts : SUBSET Objects,
     pool : Seq(Ids)]

Tables == [Ids -> Objects \cup {None}]

\* A table leads from the ids of S to the objects of S.
Lists(table, S, ID) == \A id \in Ids, o \in Objects : table[id] = o <=> o \in S /\ ID[o] = id

Unique(ID) == \A o, k \in Objects : ID[o] # NoId /\ ID[o] = ID[k] => o = k

Shows(w, a) ==
    /\ w \in Worlds /\ a \in Censuses /\ Unique(a.ID)
    /\ \A o \in Objects : /\ w.alive[o] <=> o \in a.alive
                          /\ w.online[o] <=> o \in a.online
                          /\ w.control[o] <=> o \in a.control
    /\ w.ID = a.ID /\ w.ID_Parent = a.parent /\ w.children = a.children
    /\ Lists(w.entities, a.ent, a.ID) /\ Lists(w.registry, a.reg, a.ID)
    /\ Lists(w.level, a.lev, a.ID) /\ Lists(w.points, a.pts, a.ID)
    /\ w.pool = a.pool /\ w.fatal = FALSE

LEMMA Kinds ==
    /\ None \notin Objects /\ NoId \notin Ids
    /\ Holders \subseteq Objects /\ Goods \subseteq Objects /\ Holders \cap Goods = {}
    /\ Objects = Holders \cup Goods /\ Items \subseteq Goods /\ Bolts \subseteq Goods
    /\ Items \cap Bolts = {} /\ Goods = Items \cup Bolts
    /\ Traders \subseteq Holders /\ Boxes \subseteq Holders /\ Monsters \subseteq Holders
    /\ Holders = Traders \cup Boxes \cup Monsters
    /\ CallsPerWalk \in Nat /\ IsFiniteSet(Ids) /\ IsFiniteSet(Objects)
BY EntitiesAssumption DEF Objects, Holders, Goods

-----------------------------------------------------------------------------
(* The tables. *)

LEMMA ListsPut ==
    ASSUME NEW table \in Tables, NEW S \in SUBSET Objects,
           NEW ID \in [Objects -> Ids \cup {NoId}], Unique(ID), Lists(table, S, ID),
           NEW o \in Objects, ID[o] \in Ids
    PROVE  /\ [table EXCEPT ![ID[o]] = o] \in Tables
           /\ Lists([table EXCEPT ![ID[o]] = o], S \cup {o}, ID)
<1> USE Kinds DEF Tables
<1>1. ASSUME NEW id \in Ids, NEW k \in Objects
      PROVE  [table EXCEPT ![ID[o]] = o][id] = k <=> k \in S \cup {o} /\ ID[k] = id
  <2>1. CASE id = ID[o]
    <3>1. [table EXCEPT ![ID[o]] = o][id] = o
      BY <2>1
    <3>2. ID[k] = id => k = o
      BY <2>1 DEF Unique
    <3>3. QED
      BY <2>1, <3>1, <3>2
  <2>2. CASE id # ID[o]
    <3>1. [table EXCEPT ![ID[o]] = o][id] = table[id]
      BY <2>2
    <3>2. QED
      BY <2>2, <3>1 DEF Lists
  <2>3. QED
    BY <2>1, <2>2
<1>2. QED
  BY <1>1 DEF Lists

LEMMA ListsAdd ==
    ASSUME NEW table \in Tables, NEW S \in SUBSET Objects,
           NEW ID \in [Objects -> Ids \cup {NoId}], Unique(ID), Lists(table, S, ID),
           NEW o \in Objects, ID[o] \in Ids
    PROVE  LET added == [table EXCEPT ![ID[o]] = IF @ = None THEN o ELSE @]
           IN  added \in Tables /\ Lists(added, S \cup {o}, ID)
<1>1. table[ID[o]] = None \/ table[ID[o]] = o
  <2>1. table[ID[o]] \in Objects => ID[table[ID[o]]] = ID[o]
    BY DEF Lists
  <2>2. table[ID[o]] \in Objects \cup {None}
    BY DEF Tables
  <2>3. QED
    BY <2>1, <2>2, Kinds DEF Unique
<1>2. [table EXCEPT ![ID[o]] = IF @ = None THEN o ELSE @] = [table EXCEPT ![ID[o]] = o]
  BY <1>1 DEF Tables
<1>3. QED
  BY <1>2, ListsPut

LEMMA ListsRemove ==
    ASSUME NEW table \in Tables, NEW S \in SUBSET Objects,
           NEW ID \in [Objects -> Ids \cup {NoId}], Unique(ID), Lists(table, S, ID),
           NEW o \in Objects, ID[o] \in Ids
    PROVE  /\ [table EXCEPT ![ID[o]] = None] \in Tables
           /\ Lists([table EXCEPT ![ID[o]] = None], S \ {o}, ID)
<1> USE Kinds DEF Tables
<1>1. ASSUME NEW id \in Ids, NEW k \in Objects
      PROVE  [table EXCEPT ![ID[o]] = None][id] = k <=> k \in S \ {o} /\ ID[k] = id
  <2>1. CASE id = ID[o]
    <3>1. [table EXCEPT ![ID[o]] = None][id] = None
      BY <2>1
    <3>2. ID[k] = id => k = o
      BY <2>1 DEF Unique
    <3>3. QED
      BY <2>1, <3>1, <3>2
  <2>2. CASE id # ID[o]
    <3>1. [table EXCEPT ![ID[o]] = None][id] = table[id]
      BY <2>2
    <3>2. QED
      BY <2>2, <3>1 DEF Lists
  <2>3. QED
    BY <2>1, <2>2
<1>2. QED
  BY <1>1 DEF Lists

\* The id of somebody who is in no table changes.
LEMMA ListsRename ==
    ASSUME NEW table, NEW S \in SUBSET Objects,
           NEW ID \in [Objects -> Ids \cup {NoId}], Lists(table, S, ID),
           NEW o \in Objects \ S, NEW id \in Ids \cup {NoId},
           NEW then, then = [ID EXCEPT ![o] = id]
    PROVE  Lists(table, S, then)
BY DEF Lists

-----------------------------------------------------------------------------
(* The level registry and the graph points. *)

Enlisted(a, o) == [a EXCEPT !.lev = @ \cup {o}]
Delisted(a, o) == [a EXCEPT !.lev = @ \ {o}]
Placed(a, o) == [a EXCEPT !.pts = IF o \in a.online \/ ~UsesLocations(o) THEN @ ELSE @ \cup {o}]
Taken(a, o) == [a EXCEPT !.pts = IF UsesLocations(o) THEN @ \ {o} ELSE @]

LEMMA LevelAddShows ==
    ASSUME NEW w, NEW a, Shows(w, a), NEW o \in Objects, a.ID[o] \in Ids
    PROVE  Shows(LevelAdd(w, o), Enlisted(a, o))
<1> DEFINE v == LevelAdd(w, o)
           b == Enlisted(a, o)
<1>1. /\ w.level \in Tables /\ a.lev \in SUBSET Objects /\ Lists(w.level, a.lev, a.ID)
      /\ a.ID \in [Objects -> Ids \cup {NoId}] /\ Unique(a.ID) /\ w.ID = a.ID
  BY DEF Shows, Worlds, Censuses, Tables
<1>2. LET added == [w.level EXCEPT ![a.ID[o]] = IF @ = None THEN o ELSE @]
      IN  added \in Tables /\ Lists(added, a.lev \cup {o}, a.ID)
  BY <1>1, ListsAdd
<1>3. v = [w EXCEPT !.level = [w.level EXCEPT ![a.ID[o]] = IF @ = None THEN o ELSE @]]
  BY <1>1 DEF LevelAdd, Shows, Worlds
<1>4. v \in Worlds /\ b \in Censuses
  BY <1>2, <1>3, ZenonT(60) DEF Shows, Worlds, Censuses, Tables, Enlisted
<1>5. Lists(v.level, b.lev, b.ID)
  BY <1>2, <1>3 DEF Shows, Worlds, Censuses, Enlisted
<1>6. QED
  BY <1>3, <1>4, <1>5, ZenonT(60) DEF Shows, Worlds, Censuses, Enlisted

LEMMA LevelRemoveShows ==
    ASSUME NEW w, NEW a, Shows(w, a), NEW o \in Objects, a.ID[o] \in Ids
    PROVE  Shows(LevelRemove(w, o), Delisted(a, o))
<1> DEFINE v == LevelRemove(w, o)
           b == Delisted(a, o)
<1>1. /\ w.level \in Tables /\ a.lev \in SUBSET Objects /\ Lists(w.level, a.lev, a.ID)
      /\ a.ID \in [Objects -> Ids \cup {NoId}] /\ Unique(a.ID) /\ w.ID = a.ID
  BY DEF Shows, Worlds, Censuses, Tables
<1>2. /\ [w.level EXCEPT ![a.ID[o]] = None] \in Tables
      /\ Lists([w.level EXCEPT ![a.ID[o]] = None], a.lev \ {o}, a.ID)
  BY <1>1, ListsRemove
<1>3. v = [w EXCEPT !.level = [w.level EXCEPT ![a.ID[o]] = None]]
  BY <1>1 DEF LevelRemove, Shows, Worlds
<1>4. v \in Worlds /\ b \in Censuses
  BY <1>2, <1>3, ZenonT(60) DEF Shows, Worlds, Censuses, Tables, Delisted
<1>5. Lists(v.level, b.lev, b.ID)
  BY <1>2, <1>3 DEF Shows, Worlds, Censuses, Delisted
<1>6. QED
  BY <1>3, <1>4, <1>5 DEF Shows, Worlds, Censuses, Delisted

LEMMA GraphAddShows ==
    ASSUME NEW w, NEW a, Shows(w, a), NEW o \in Objects, a.ID[o] \in Ids
    PROVE  /\ Shows(GraphAdd(w, o, FALSE), Placed(a, o))
           /\ Shows(GraphAdd(w, o, TRUE), Enlisted(Placed(a, o), o))
<1> DEFINE v == GraphAdd(w, o, FALSE)
           b == Placed(a, o)
<1>1. /\ w.points \in Tables /\ a.pts \in SUBSET Objects /\ Lists(w.points, a.pts, a.ID)
      /\ a.ID \in [Objects -> Ids \cup {NoId}] /\ Unique(a.ID) /\ w.ID = a.ID
      /\ w.online[o] <=> o \in a.online
  BY DEF Shows, Worlds, Censuses, Tables
<1>2. Shows(v, b)
  <2>1. CASE w.online[o] \/ ~UsesLocations(o)
    <3>1. v = w /\ b.pts = a.pts /\ b = [a EXCEPT !.pts = @]
      BY <1>1, <2>1 DEF GraphAdd, Placed, Shows, Censuses
    <3>2. b = a
      BY <3>1 DEF Shows, Censuses
    <3>3. QED
      BY <3>1, <3>2
  <2>2. CASE ~(w.online[o] \/ ~UsesLocations(o))
    <3>2. LET added == [w.points EXCEPT ![a.ID[o]] = IF @ = None THEN o ELSE @]
          IN  added \in Tables /\ Lists(added, a.pts \cup {o}, a.ID)
      BY <1>1, ListsAdd
    <3>3. v = [w EXCEPT !.points = [w.points EXCEPT ![a.ID[o]] = IF @ = None THEN o ELSE @]]
      BY <1>1, <2>2 DEF GraphAdd, Shows, Worlds
    <3>4. b = [a EXCEPT !.pts = @ \cup {o}]
      BY <1>1, <2>2 DEF Placed
    <3>5. v \in Worlds /\ b \in Censuses
      <4>1. v \in Worlds
        BY <3>2, <3>3 DEF Shows, Worlds, Tables
      <4>2. a.pts \cup {o} \in SUBSET Objects
        BY <1>1
      <4>3. b \in Censuses
        BY <3>4, <4>2 DEF Shows, Censuses
      <4>4. QED
        BY <4>1, <4>3
    <3>6. Lists(v.points, b.pts, b.ID)
      BY <3>2, <3>3, <3>4, ZenonT(60) DEF Shows, Worlds, Censuses
    <3>7. QED
      BY <3>3, <3>4, <3>5, <3>6, ZenonT(60) DEF Shows, Worlds, Censuses
  <2>3. QED
    BY <2>1, <2>2
<1>3. GraphAdd(w, o, TRUE) = LevelAdd(v, o)
  BY DEF GraphAdd
<1>4. b.ID[o] \in Ids
  BY DEF Placed, Shows, Censuses
<1> HIDE DEF v, b
<1>5. Shows(LevelAdd(v, o), Enlisted(b, o))
  BY <1>2, <1>4, LevelAddShows
<1>6. QED
  BY <1>2, <1>3, <1>5 DEF v, b

LEMMA GraphRemoveShows ==
    ASSUME NEW w, NEW a, Shows(w, a), NEW o \in Objects, a.ID[o] \in Ids
    PROVE  /\ Shows(GraphRemove(w, o, FALSE), Taken(a, o))
           /\ Shows(GraphRemove(w, o, TRUE), Delisted(Taken(a, o), o))
<1> DEFINE v == GraphRemove(w, o, FALSE)
           b == Taken(a, o)
<1>1. /\ w.points \in Tables /\ a.pts \in SUBSET Objects /\ Lists(w.points, a.pts, a.ID)
      /\ a.ID \in [Objects -> Ids \cup {NoId}] /\ Unique(a.ID) /\ w.ID = a.ID
  BY DEF Shows, Worlds, Censuses, Tables
<1>2. Shows(v, b)
  <2>1. CASE ~UsesLocations(o)
    <3>1. v = w /\ b = [a EXCEPT !.pts = @]
      BY <1>1, <2>1 DEF GraphRemove, Taken
    <3>2. b = a
      BY <3>1 DEF Shows, Censuses
    <3>3. QED
      BY <3>1, <3>2
  <2>2. CASE UsesLocations(o)
    <3>2. /\ [w.points EXCEPT ![a.ID[o]] = None] \in Tables
          /\ Lists([w.points EXCEPT ![a.ID[o]] = None], a.pts \ {o}, a.ID)
      BY <1>1, ListsRemove
    <3>3. v = [w EXCEPT !.points = [w.points EXCEPT ![a.ID[o]] = None]]
      BY <1>1, <2>2 DEF GraphRemove, Shows, Worlds
    <3>4. b = [a EXCEPT !.pts = @ \ {o}]
      BY <2>2 DEF Taken
    <3>5. v \in Worlds /\ b \in Censuses
      <4>1. v \in Worlds
        BY <3>2, <3>3 DEF Shows, Worlds, Tables
      <4>2. b \in Censuses
        BY <3>4, ZenonT(60) DEF Shows, Censuses
      <4>3. QED
        BY <4>1, <4>2
    <3>6. Lists(v.points, b.pts, b.ID)
      BY <3>2, <3>3, <3>4 DEF Shows, Worlds, Censuses
    <3>7. QED
      BY <3>3, <3>4, <3>5, <3>6, ZenonT(60) DEF Shows, Worlds, Censuses
  <2>3. QED
    BY <2>1, <2>2
<1>3. GraphRemove(w, o, TRUE) = LevelRemove(v, o)
  BY DEF GraphRemove
<1>4. b.ID[o] \in Ids
  BY DEF Taken, Shows, Censuses
<1> HIDE DEF v, b
<1>5. Shows(LevelRemove(v, o), Delisted(b, o))
  BY <1>2, <1>4, LevelRemoveShows
<1>6. QED
  BY <1>2, <1>3, <1>5 DEF v, b

-----------------------------------------------------------------------------
(* The other fields. *)

Entered(a, o) == [a EXCEPT !.ent = @ \cup {o}]
Known(a, o) == [a EXCEPT !.reg = @ \cup {o}]
Unknown(a, o) == [a EXCEPT !.reg = @ \ {o}]
Owned(a, o, x, p, s) == [a EXCEPT !.parent[o] = x, !.children[p] = s]
Flagged(a, o, online, control) ==
    [a EXCEPT !.online = IF online THEN @ \cup {o} ELSE @ \ {o},
              !.control = IF control THEN @ \cup {o} ELSE @ \ {o}]
Pooled(a, q) == [a EXCEPT !.pool = q]

LEMMA EntShows ==
    ASSUME NEW w, NEW a, Shows(w, a), NEW o \in Objects, a.ID[o] \in Ids
    PROVE  Shows([w EXCEPT !.entities[a.ID[o]] = o], Entered(a, o))
<1> DEFINE v == [w EXCEPT !.entities[a.ID[o]] = o]
           b == Entered(a, o)
<1>1. /\ w.entities \in Tables /\ a.ent \in SUBSET Objects /\ Lists(w.entities, a.ent, a.ID)
      /\ a.ID \in [Objects -> Ids \cup {NoId}] /\ Unique(a.ID) /\ w.ID = a.ID
  BY DEF Shows, Worlds, Censuses, Tables
<1>2. /\ [w.entities EXCEPT ![a.ID[o]] = o] \in Tables
      /\ Lists([w.entities EXCEPT ![a.ID[o]] = o], a.ent \cup {o}, a.ID)
  BY <1>1, ListsPut
<1>3. v = [w EXCEPT !.entities = [w.entities EXCEPT ![a.ID[o]] = o]]
  BY DEF Shows, Worlds
<1>4. v \in Worlds /\ b \in Censuses
  BY <1>2, <1>3 DEF Shows, Worlds, Censuses, Tables, Entered
<1>5. Lists(v.entities, b.ent, b.ID)
  BY <1>2, <1>3 DEF Shows, Worlds, Censuses, Entered
<1>6. QED
  BY <1>3, <1>4, <1>5 DEF Shows, Worlds, Censuses, Entered

LEMMA RegShows ==
    ASSUME NEW w, NEW a, Shows(w, a), NEW o \in Objects, a.ID[o] \in Ids
    PROVE  /\ Shows([w EXCEPT !.registry[a.ID[o]] = o], Known(a, o))
           /\ Shows([w EXCEPT !.registry[a.ID[o]] = None], Unknown(a, o))
<1>1. /\ w.registry \in Tables /\ a.reg \in SUBSET Objects /\ Lists(w.registry, a.reg, a.ID)
      /\ a.ID \in [Objects -> Ids \cup {NoId}] /\ Unique(a.ID) /\ w.ID = a.ID
  BY DEF Shows, Worlds, Censuses, Tables
<1>2. Shows([w EXCEPT !.registry[a.ID[o]] = o], Known(a, o))
  <2> DEFINE v == [w EXCEPT !.registry[a.ID[o]] = o]
             b == Known(a, o)
  <2>2. /\ [w.registry EXCEPT ![a.ID[o]] = o] \in Tables
        /\ Lists([w.registry EXCEPT ![a.ID[o]] = o], a.reg \cup {o}, a.ID)
    BY <1>1, ListsPut
  <2>3. v = [w EXCEPT !.registry = [w.registry EXCEPT ![a.ID[o]] = o]]
    BY DEF Shows, Worlds
  <2>4. v \in Worlds /\ b \in Censuses
    BY <2>2, <2>3 DEF Shows, Worlds, Censuses, Tables, Known
  <2>5. Lists(v.registry, b.reg, b.ID)
    BY <2>2, <2>3 DEF Shows, Worlds, Censuses, Known
  <2>6. QED
    BY <2>3, <2>4, <2>5 DEF Shows, Worlds, Censuses, Known
<1>3. Shows([w EXCEPT !.registry[a.ID[o]] = None], Unknown(a, o))
  <2> DEFINE v == [w EXCEPT !.registry[a.ID[o]] = None]
             b == Unknown(a, o)
  <2>2. /\ [w.registry EXCEPT ![a.ID[o]] = None] \in Tables
        /\ Lists([w.registry EXCEPT ![a.ID[o]] = None], a.reg \ {o}, a.ID)
    BY <1>1, ListsRemove
  <2>3. v = [w EXCEPT !.registry = [w.registry EXCEPT ![a.ID[o]] = None]]
    BY DEF Shows, Worlds
  <2>4. v \in Worlds /\ b \in Censuses
    BY <2>2, <2>3 DEF Shows, Worlds, Censuses, Tables, Unknown
  <2>5. Lists(v.registry, b.reg, b.ID)
    BY <2>2, <2>3 DEF Shows, Worlds, Censuses, Unknown
  <2>6. QED
    BY <2>3, <2>4, <2>5 DEF Shows, Worlds, Censuses, Unknown
<1>4. QED
  BY <1>2, <1>3

LEMMA OwnedShows ==
    ASSUME NEW w, NEW a, Shows(w, a), NEW o \in Objects, NEW x \in Ids \cup {NoId},
           NEW p \in Objects, NEW s \in Seq(Ids)
    PROVE  Shows([w EXCEPT !.ID_Parent[o] = x, !.children[p] = s], Owned(a, o, x, p, s))
<1> DEFINE v == [w EXCEPT !.ID_Parent[o] = x, !.children[p] = s]
           b == Owned(a, o, x, p, s)
<1>1. v \in Worlds
  BY DEF Shows, Worlds
<1>2. b \in Censuses
  BY DEF Shows, Censuses, Owned
<1>3. v.ID_Parent = b.parent /\ v.children = b.children
  BY DEF Shows, Worlds, Censuses, Owned
<1>4. QED
  BY <1>1, <1>2, <1>3 DEF Shows, Worlds, Censuses, Owned

LEMMA FlaggedShows ==
    ASSUME NEW w, NEW a, Shows(w, a), NEW o \in Objects, NEW online \in BOOLEAN,
           NEW control \in BOOLEAN
    PROVE  Shows([w EXCEPT !.online[o] = online, !.control[o] = control],
                 Flagged(a, o, online, control))
<1> DEFINE v == [w EXCEPT !.online[o] = online, !.control[o] = control]
           b == Flagged(a, o, online, control)
<1>1. v \in Worlds
  BY DEF Shows, Worlds
<1>2. b \in Censuses
  BY DEF Shows, Censuses, Flagged
<1>3. \A k \in Objects : /\ v.online[k] <=> k \in b.online
                         /\ v.control[k] <=> k \in b.control
  BY DEF Shows, Worlds, Censuses, Flagged
<1>4. QED
  BY <1>1, <1>2, <1>3 DEF Shows, Worlds, Censuses, Flagged

LEMMA PooledShows ==
    ASSUME NEW w, NEW a, Shows(w, a), NEW q \in Seq(Ids)
    PROVE  Shows([w EXCEPT !.pool = q], Pooled(a, q))
<1>1. [w EXCEPT !.pool = q] \in Worlds /\ Pooled(a, q) \in Censuses
  BY DEF Shows, Worlds, Censuses, Pooled
<1>2. QED
  BY <1>1 DEF Shows, Worlds, Censuses, Pooled

-----------------------------------------------------------------------------
(* Ids. *)

Born(a, o, x) ==
    [a EXCEPT !.alive = @ \cup {o}, !.ID[o] = Head(a.pool), !.parent[o] = x, !.pool = Tail(@)]

\* The id of an object that is in no table changes.
LEMMA Renamed ==
    ASSUME NEW w, NEW a, Shows(w, a), NEW o \in Objects, NEW id \in Ids \cup {NoId},
           o \notin a.ent, o \notin a.reg, o \notin a.lev, o \notin a.pts,
           \A k \in Objects : a.ID[k] # id \/ id = NoId
    PROVE  /\ Unique([a.ID EXCEPT ![o] = id])
           /\ Lists(w.entities, a.ent, [a.ID EXCEPT ![o] = id])
           /\ Lists(w.registry, a.reg, [a.ID EXCEPT ![o] = id])
           /\ Lists(w.level, a.lev, [a.ID EXCEPT ![o] = id])
           /\ Lists(w.points, a.pts, [a.ID EXCEPT ![o] = id])
<1>1. /\ a.ID \in [Objects -> Ids \cup {NoId}] /\ Unique(a.ID)
      /\ a.ent \in SUBSET Objects /\ a.reg \in SUBSET Objects
      /\ a.lev \in SUBSET Objects /\ a.pts \in SUBSET Objects
      /\ Lists(w.entities, a.ent, a.ID) /\ Lists(w.registry, a.reg, a.ID)
      /\ Lists(w.level, a.lev, a.ID) /\ Lists(w.points, a.pts, a.ID)
  BY DEF Shows, Censuses
<1>2. Unique([a.ID EXCEPT ![o] = id])
  BY <1>1 DEF Unique
<1>3. QED
  BY <1>1, <1>2, ListsRename

LEMMA BornShows ==
    ASSUME NEW w, NEW a, Shows(w, a), NEW o \in Objects, NEW x \in Ids \cup {NoId},
           a.ID[o] = NoId, o \notin a.ent, o \notin a.reg, o \notin a.lev, o \notin a.pts,
           a.pool # <<>>, \A k \in Objects : a.ID[k] # Head(a.pool)
    PROVE  /\ Shows([PerformIDgen(w, o) EXCEPT !.alive[o] = TRUE, !.ID_Parent[o] = x], Born(a, o, x))
           /\ Shows(PerformIDgen([w EXCEPT !.alive[o] = TRUE, !.ID_Parent[o] = x], o), Born(a, o, x))
           /\ Head(a.pool) \in Ids /\ Tail(a.pool) \in Seq(Ids)
<1> DEFINE v == [w EXCEPT !.alive[o] = TRUE, !.ID[o] = Head(a.pool), !.ID_Parent[o] = x,
                          !.pool = Tail(a.pool)]
           b == Born(a, o, x)
<1>1. w.pool = a.pool /\ w.ID = a.ID /\ a.pool \in Seq(Ids)
  BY DEF Shows, Censuses
<1>2. Head(a.pool) \in Ids /\ Tail(a.pool) \in Seq(Ids)
  BY <1>1, HeadTailProperties
<1>3. v \in Worlds
  BY <1>2 DEF Shows, Worlds
<1>4. b \in Censuses
  BY <1>2 DEF Shows, Censuses, Born
<1>5. /\ Unique(b.ID) /\ Lists(w.entities, a.ent, b.ID) /\ Lists(w.registry, a.reg, b.ID)
      /\ Lists(w.level, a.lev, b.ID) /\ Lists(w.points, a.pts, b.ID)
  <2>1. b.ID = [a.ID EXCEPT ![o] = Head(a.pool)]
    BY DEF Shows, Censuses, Born
  <2>2. QED
    BY <1>2, <2>1, Renamed
<1>6. \A k \in Objects : v.alive[k] <=> k \in b.alive
  BY DEF Shows, Worlds, Censuses, Born
<1>7. Shows(v, b)
  <2>1. /\ v.ID = b.ID /\ v.ID_Parent = b.parent /\ v.children = b.children /\ v.pool = b.pool
        /\ b.ent = a.ent /\ b.reg = a.reg /\ b.lev = a.lev /\ b.pts = a.pts
        /\ b.online = a.online /\ b.control = a.control
    BY DEF Shows, Worlds, Censuses, Born
  <2>2. /\ v.entities = w.entities /\ v.registry = w.registry /\ v.level = w.level
        /\ v.points = w.points /\ v.online = w.online /\ v.control = w.control
        /\ v.fatal = FALSE
    BY DEF Shows, Worlds
  <2> HIDE DEF v, b
  <2>3. QED
    BY <1>3, <1>4, <1>5, <1>6, <2>1, <2>2 DEF Shows
<1>8. [PerformIDgen(w, o) EXCEPT !.alive[o] = TRUE, !.ID_Parent[o] = x] = v
  BY <1>1 DEF PerformIDgen, Require, Shows, Worlds
<1>9. PerformIDgen([w EXCEPT !.alive[o] = TRUE, !.ID_Parent[o] = x], o) = v
  BY <1>1, ZenonT(60) DEF PerformIDgen, Require, Shows, Worlds
<1>10. QED
  BY <1>2, <1>7, <1>8, <1>9

\* An object takes its own id back.
LEMMA AgainShows ==
    ASSUME NEW w, NEW a, Shows(w, a), NEW o \in Objects, a.ID[o] \in Ids,
           NEW q \in Seq(Ids), q = RemoveFirst(a.pool, a.ID[o]), Contains(a.pool, a.ID[o])
    PROVE  Shows(PerformIDgen(w, o), Pooled(a, q))
<1>1. PerformIDgen(w, o) = [w EXCEPT !.pool = q]
  BY Kinds DEF PerformIDgen, Require, Shows, Worlds, Censuses
<1>2. QED
  BY <1>1, PooledShows

Gone(a, o) == [a EXCEPT !.ent = @ \ {o}, !.pool = Append(@, a.ID[o])]
Dead(a, o) ==
    [a EXCEPT !.alive = @ \ {o}, !.ID[o] = NoId, !.parent[o] = NoId, !.children[o] = <<>>,
              !.online = @ \ {o}, !.control = @ \cup {o}, !.ent = @ \ {o}, !.reg = @ \ {o},
              !.pool = Append(@, a.ID[o])]

LEMMA DestroyKeeps ==
    ASSUME NEW w, NEW a, Shows(w, a), NEW o \in Objects, a.ID[o] \in Ids, o \in a.control
    PROVE  Shows(entity_Destroy(w, o), Gone(a, o))
<1> DEFINE v == entity_Destroy(w, o)
           b == Gone(a, o)
<1>1. /\ w.entities \in Tables /\ a.ent \in SUBSET Objects /\ Lists(w.entities, a.ent, a.ID)
      /\ a.ID \in [Objects -> Ids \cup {NoId}] /\ Unique(a.ID) /\ w.ID = a.ID
      /\ w.control[o] /\ w.pool = a.pool /\ a.pool \in Seq(Ids)
  BY DEF Shows, Worlds, Censuses, Tables
<1>2. /\ [w.entities EXCEPT ![a.ID[o]] = None] \in Tables
      /\ Lists([w.entities EXCEPT ![a.ID[o]] = None], a.ent \ {o}, a.ID)
  BY <1>1, ListsRemove
<1>3. v = [w EXCEPT !.entities = [w.entities EXCEPT ![a.ID[o]] = None],
                    !.pool = Append(a.pool, a.ID[o])]
  BY <1>1 DEF entity_Destroy, vfFreeID, Shows, Worlds
<1>4. Append(a.pool, a.ID[o]) \in Seq(Ids)
  BY <1>1
<1>5. v \in Worlds
  BY <1>2, <1>3, <1>4, ZenonT(60) DEF Shows, Worlds, Tables
<1>6. b \in Censuses
  BY <1>4 DEF Shows, Censuses, Gone
<1>7. Lists(v.entities, b.ent, b.ID)
  BY <1>2, <1>3 DEF Shows, Worlds, Censuses, Gone
<1>8. QED
  BY <1>3, <1>5, <1>6, <1>7 DEF Shows, Worlds, Censuses, Gone

LEMMA DestroyKills ==
    ASSUME NEW w, NEW a, Shows(w, a), NEW o \in Objects, a.ID[o] \in Ids, o \notin a.control,
           o \notin a.lev, o \notin a.pts
    PROVE  Shows(entity_Destroy(w, o), Dead(a, o))
<1> DEFINE v == entity_Destroy(w, o)
           b == Dead(a, o)
           ents == [w.entities EXCEPT ![a.ID[o]] = None]
           regs == [w.registry EXCEPT ![a.ID[o]] = IF @ = o THEN None ELSE @]
<1>1. /\ w.entities \in Tables /\ a.ent \in SUBSET Objects /\ Lists(w.entities, a.ent, a.ID)
      /\ w.registry \in Tables /\ a.reg \in SUBSET Objects /\ Lists(w.registry, a.reg, a.ID)
      /\ a.ID \in [Objects -> Ids \cup {NoId}] /\ Unique(a.ID) /\ w.ID = a.ID
      /\ ~w.control[o] /\ w.pool = a.pool /\ a.pool \in Seq(Ids)
  BY DEF Shows, Worlds, Censuses, Tables
<1>2. ents \in Tables /\ Lists(ents, a.ent \ {o}, a.ID)
  BY <1>1, ListsRemove
<1>3. regs \in Tables /\ Lists(regs, a.reg \ {o}, a.ID)
  <2>1. w.registry[a.ID[o]] = o => regs = [w.registry EXCEPT ![a.ID[o]] = None]
    BY DEF Tables
  <2>2. w.registry[a.ID[o]] # o => regs = w.registry /\ a.reg \ {o} = a.reg
    <3>1. HAVE w.registry[a.ID[o]] # o
    <3>2. regs = w.registry
      BY <1>1, <3>1 DEF Tables
    <3>3. o \notin a.reg
      BY <1>1, <3>1 DEF Lists
    <3>4. QED
      BY <3>2, <3>3
  <2>3. /\ [w.registry EXCEPT ![a.ID[o]] = None] \in Tables
        /\ Lists([w.registry EXCEPT ![a.ID[o]] = None], a.reg \ {o}, a.ID)
    BY <1>1, ListsRemove
  <2> HIDE DEF regs
  <2>4. QED
    BY <1>1, <2>1, <2>2, <2>3
<1>4. Append(a.pool, a.ID[o]) \in Seq(Ids)
  BY <1>1
<1>5. /\ v \in Worlds /\ v.alive = [w.alive EXCEPT ![o] = FALSE]
      /\ v.ID = [a.ID EXCEPT ![o] = NoId] /\ v.ID_Parent = [a.parent EXCEPT ![o] = NoId]
      /\ v.children = [a.children EXCEPT ![o] = <<>>]
      /\ v.online = [w.online EXCEPT ![o] = FALSE] /\ v.control = [w.control EXCEPT ![o] = TRUE]
      /\ v.entities = ents /\ v.registry = regs /\ v.level = w.level /\ v.points = w.points
      /\ v.pool = Append(a.pool, a.ID[o]) /\ v.fatal = FALSE
  <2> DEFINE erased == [w EXCEPT !.entities = ents, !.pool = Append(w.pool, a.ID[o])]
             struck == [erased EXCEPT !.registry = regs]
  <2>1. w \in Worlds /\ w.ID_Parent = a.parent /\ w.children = a.children /\ w.fatal = FALSE
    BY DEF Shows
  <2>2. vfFreeID([w EXCEPT !.entities[w.ID[o]] = None], w.ID[o]) = erased
    BY <1>1, <2>1 DEF vfFreeID, Worlds
  <2>3. [erased EXCEPT !.registry[w.ID[o]] = IF @ = o THEN None ELSE @] = struck
    BY <1>1, <2>1 DEF Worlds
  <2>4. v = Die(struck, o)
    BY <1>1, <2>2, <2>3 DEF entity_Destroy
  <2> HIDE DEF v, ents, regs
  <2>5. /\ struck \in Worlds /\ struck.alive = w.alive /\ struck.ID = a.ID
        /\ struck.ID_Parent = a.parent /\ struck.children = a.children
        /\ struck.online = w.online /\ struck.control = w.control
        /\ struck.entities = ents /\ struck.registry = regs /\ struck.level = w.level
        /\ struck.points = w.points /\ struck.pool = Append(a.pool, a.ID[o])
        /\ struck.fatal = FALSE
    BY <1>1, <1>2, <1>3, <1>4, <2>1 DEF Worlds, Tables
  <2> HIDE DEF struck
  <2>6. QED
    <3>1. <<>> \in Seq(Ids)
      BY EmptySeq
    <3>2. v \in Worlds
      BY <2>4, <2>5, <3>1 DEF Die, Worlds
    <3>3. QED
      BY <2>4, <2>5, <3>2, ZenonT(60) DEF Die, Worlds
<1> HIDE DEF ents, regs, v
<1>6. v \in Worlds
  BY <1>5
<1>7. b \in Censuses
  <2>1. <<>> \in Seq(Ids)
    BY EmptySeq
  <2>2. QED
    BY <1>4, <2>1, ZenonT(60) DEF Shows, Censuses, Dead
<1>8. /\ b.ID = [a.ID EXCEPT ![o] = NoId] /\ b.ent = a.ent \ {o} /\ b.reg = a.reg \ {o}
      /\ b.lev = a.lev /\ b.pts = a.pts /\ b.alive = a.alive \ {o} /\ b.online = a.online \ {o}
      /\ b.control = a.control \cup {o} /\ b.parent = [a.parent EXCEPT ![o] = NoId]
      /\ b.children = [a.children EXCEPT ![o] = <<>>] /\ b.pool = Append(a.pool, a.ID[o])
  BY DEF Shows, Censuses, Dead
<1> HIDE DEF b
<1>9. Unique(b.ID)
  BY <1>1, <1>8 DEF Unique
<1>10. /\ Lists(ents, b.ent, b.ID) /\ Lists(regs, b.reg, b.ID)
       /\ Lists(w.level, b.lev, b.ID) /\ Lists(w.points, b.pts, b.ID)
  <2>1. /\ a.lev \in SUBSET Objects /\ a.pts \in SUBSET Objects
        /\ Lists(w.level, a.lev, a.ID) /\ Lists(w.points, a.pts, a.ID)
    BY DEF Shows, Censuses
  <2>2. /\ b.ent \in SUBSET Objects /\ o \in Objects \ b.ent
        /\ b.reg \in SUBSET Objects /\ o \in Objects \ b.reg
        /\ b.lev \in SUBSET Objects /\ o \in Objects \ b.lev
        /\ b.pts \in SUBSET Objects /\ o \in Objects \ b.pts
    BY <1>1, <1>8, <2>1
  <2>3. NoId \in Ids \cup {NoId}
    OBVIOUS
  <2>4. \A S \in SUBSET Objects : \A table : o \notin S /\ Lists(table, S, a.ID) => Lists(table, S, b.ID)
    BY <1>1, <1>8 DEF Lists
  <2>5. QED
    BY <1>2, <1>3, <1>8, <2>1, <2>2, <2>4
<1>11. \A k \in Objects : /\ v.alive[k] <=> k \in b.alive
                          /\ v.online[k] <=> k \in b.online
                          /\ v.control[k] <=> k \in b.control
  BY <1>5, <1>8 DEF Shows, Worlds
<1>12. v.ID = b.ID /\ v.ID_Parent = b.parent /\ v.children = b.children /\ v.pool = b.pool
  BY <1>5, <1>8
<1>13. Shows(v, b)
  BY <1>5, <1>6, <1>7, <1>9, <1>10, <1>11, <1>12 DEF Shows
<1>14. QED
  BY <1>13 DEF v, b

-----------------------------------------------------------------------------
(* The folds of the handlers, as paths. *)

\* The operators that the handlers fold with.
LetGo(v, id, query) ==
    IF Registered(v, id) = None THEN v ELSE ReleaseAlone(v, Registered(v, id), query)
Dropped(v, o, id) ==
    LET child == v.entities[id]
        rejected == Process_event_reject(v, v.ID[o], id)
    IN  IF child = None
        THEN [v EXCEPT !.children[o] = RemoveFirst(@, id)]
        ELSE Require(v.ID_Parent[child] = v.ID[o],
                Require(rejected.ID_Parent[child] = NoId,
                        entity_Destroy(rejected, child)))

Turn(kind, o, v, id) ==
    CASE kind = "release" -> LetGo(v, id, o)
      [] kind = "destroy" -> DestroyAlone(v, id)
      [] kind = "drop"    -> Dropped(v, o, id)
      [] kind = "enter"   -> Enter(v, id)
      [] kind = "restore" -> Restore(v, o, id)
      [] kind = "sift"    -> IF id \in o THEN Append(v, id) ELSE v

\* A function on sets of indices that takes the turns of any such set.
Turning(it, kind, o, w, seq, N) ==
    it = [S \in SUBSET (1..N) |->
             IF S = {} THEN w ELSE Turn(kind, o, it[S \ {Max(S)}], seq[Max(S)])]

LEMMA TurnsExist ==
    ASSUME NEW kind, NEW o, NEW w, NEW seq, NEW N \in Nat
    PROVE  \E it : Turning(it, kind, o, w, seq, N)
<1> DEFINE Value(f, S) == IF S = {} THEN w ELSE Turn(kind, o, f[S \ {Max(S)}], seq[Max(S)])
           Works(f, n) == f = [S \in SUBSET (1..n) |-> Value(f, S)]
           Good == {n \in 0..N : \E f : Works(f, n)}
<1>1. 0 \in Good
  <2>1. SUBSET (1..0) = {{}}
    <3>1. 1..0 = {}
      OBVIOUS
    <3>2. QED
      BY <3>1
  <2> DEFINE first == [S \in SUBSET (1..0) |-> w]
  <2>2. Works(first, 0)
    BY <2>1
  <2>3. 0 \in 0..N
    OBVIOUS
  <2> HIDE DEF first, Works
  <2>4. QED
    BY Zenon, <2>2, <2>3
<1>2. ASSUME NEW n \in 1..N, n - 1 \in Good
      PROVE  n \in Good
  <2>1. PICK f : Works(f, n - 1)
    BY <1>2
  <2>2. n - 1 \in Nat /\ (n - 1) + 1 = n
    OBVIOUS
  <2> DEFINE longer == [S \in SUBSET (1..n) |-> IF n \in S THEN Turn(kind, o, f[S \ {n}], seq[n]) ELSE f[S]]
  <2>3. ASSUME NEW S \in SUBSET (1..n)
        PROVE  longer[S] = Value(longer, S)
    <3>1. CASE n \in S
      <4>1. Max(S) = n /\ S \ {n} \in SUBSET (1..(n - 1))
        BY <2>2, <3>1, MaxIsLast
      <4>2. longer[S] = Turn(kind, o, f[S \ {n}], seq[n]) /\ S # {}
        BY <3>1
      <4>3. longer[S \ {n}] = f[S \ {n}]
        BY <4>1
      <4> HIDE DEF longer
      <4>4. QED
        BY <4>1, <4>2, <4>3
    <3>2. CASE n \notin S
      <4>1. S \in SUBSET (1..(n - 1)) /\ S \ {Max(S)} \in SUBSET (1..(n - 1))
        <5>1. \A x \in S : x \in 1..(n - 1)
          BY <3>2
        <5>2. QED
          BY <5>1
      <4>2. longer[S] = f[S]
        BY <3>2, <4>1
      <4>3. longer[S \ {Max(S)}] = f[S \ {Max(S)}]
        <5>1. S \ {Max(S)} \in SUBSET (1..n) /\ n \notin S \ {Max(S)}
          BY <3>2
        <5>2. QED
          BY <5>1
      <4> HIDE DEF longer
      <4>4. f[S] = Value(f, S)
        BY <2>1, <4>1
      <4>5. QED
        BY <4>2, <4>3, <4>4
    <3>3. QED
      BY <3>1, <3>2
  <2> HIDE DEF Value
  <2>4. Works(longer, n)
    BY <2>3
  <2>5. n \in 0..N
    OBVIOUS
  <2> HIDE DEF Works, longer
  <2>6. QED
    BY Zenon, <2>4, <2>5
<1>3. N \in Good
  <2> HIDE DEF Good
  <2>1. \A n \in 0..N : n \in Good
    BY <1>1, <1>2, Climb
  <2>2. QED
    BY <2>1
<1>4. PICK it : Works(it, N)
  BY <1>3
<1>5. Turning(it, kind, o, w, seq, N)
  BY <1>4 DEF Turning
<1>6. QED
  BY <1>5

LEMMA TurnsPath ==
    ASSUME NEW kind, NEW o, NEW w, NEW seq, NEW N \in Nat, NEW it,
           Turning(it, kind, o, w, seq, N)
    PROVE  /\ it[1..0] = w
           /\ \A n \in 1..N : it[1..n] = Turn(kind, o, it[1..(n - 1)], seq[n])
<1>1. 1..0 = {} /\ {} \in SUBSET (1..N)
  OBVIOUS
<1>2. it[{}] = w
  BY <1>1 DEF Turning
<1>3. ASSUME NEW n \in 1..N
      PROVE  it[1..n] = Turn(kind, o, it[1..(n - 1)], seq[n])
  <2>1. /\ n - 1 \in Nat /\ (n - 1) + 1 = n /\ n \in 1..n
        /\ 1..n \in SUBSET (1..N) /\ (1..n) \ {n} = 1..(n - 1) /\ 1..n # {}
    <3> USE ONLY n \in 1..N, N \in Nat
    <3>1. n - 1 \in Nat /\ (n - 1) + 1 = n /\ n \in 1..n /\ 1..n # {}
      OBVIOUS
    <3>2. 1..n \in SUBSET (1..N)
      OBVIOUS
    <3>3. (1..n) \ {n} = 1..(n - 1)
      OBVIOUS
    <3>4. QED
      BY <3>1, <3>2, <3>3
  <2>2. Max(1..n) = n
    <3>1. PICK m \in Nat : m = n - 1 /\ m + 1 = n
      BY <2>1
    <3>2. 1..n \in SUBSET (1..(m + 1)) /\ m + 1 \in 1..n
      BY <2>1, <3>1
    <3>3. QED
      BY <3>1, <3>2, MaxIsLast
  <2>3. it[1..n] = Turn(kind, o, it[(1..n) \ {Max(1..n)}], seq[Max(1..n)])
    BY <2>1 DEF Turning
  <2>4. QED
    BY <2>1, <2>2, <2>3
<1>4. QED
  BY <1>1, <1>2, <1>3

LetGoAll(w, query, seq) == FoldLeft(LAMBDA v, id : LetGo(v, id, query), w, seq)

\* release: the children, one after the other.
LEMMA LetGoPath ==
    ASSUME NEW w, NEW query, NEW S0, NEW seq \in Seq(S0)
    PROVE  \E path : /\ path[0] = w /\ path[Len(seq)] = LetGoAll(w, query, seq)
                     /\ \A n \in 1..Len(seq) : path[n] = LetGo(path[n - 1], seq[n], query)
<1> DEFINE N == Len(seq)
           it == CHOOSE iter : iter = [S \in SUBSET (DOMAIN seq) |->
                     IF S = {} THEN w ELSE LetGo(iter[S \ {Max(S)}], seq[Max(S)], query)]
           path == [n \in 0..N |-> it[1..n]]
<1>1. LetGoAll(w, query, seq) = it[DOMAIN seq]
  BY DEF LetGoAll, FoldLeft, MapThenFoldSet
<1>2. N \in Nat /\ DOMAIN seq = 1..N
  BY LenProperties
<1>3. PICK f : Turning(f, "release", query, w, seq, N)
  BY <1>2, TurnsExist
<1>4. f = [S \in SUBSET (DOMAIN seq) |-> IF S = {} THEN w ELSE LetGo(f[S \ {Max(S)}], seq[Max(S)], query)]
  BY <1>2, <1>3 DEF Turn, Turning
<1>5. it = [S \in SUBSET (DOMAIN seq) |-> IF S = {} THEN w ELSE LetGo(it[S \ {Max(S)}], seq[Max(S)], query)]
  BY <1>4
<1> HIDE DEF it
<1>6. Turning(it, "release", query, w, seq, N)
  BY <1>2, <1>5 DEF Turn, Turning
<1>7. it[1..0] = w /\ \A n \in 1..N : it[1..n] = Turn("release", query, it[1..(n - 1)], seq[n])
  BY <1>2, <1>6, TurnsPath
<1>8. \A n \in 1..N : path[n] = LetGo(path[n - 1], seq[n], query)
  BY <1>2, <1>7 DEF Turn
<1>9. path[0] = w /\ path[N] = LetGoAll(w, query, seq)
  BY <1>1, <1>2, <1>7
<1>10. QED
  BY <1>8, <1>9

DestroyAll(w, seq) == FoldLeft(DestroyAlone, w, seq)

\* Process_event_destroy: the children.
LEMMA DestroyPath ==
    ASSUME NEW w, NEW S0, NEW seq \in Seq(S0)
    PROVE  \E path : /\ path[0] = w /\ path[Len(seq)] = DestroyAll(w, seq)
                     /\ \A n \in 1..Len(seq) : path[n] = DestroyAlone(path[n - 1], seq[n])
<1> DEFINE N == Len(seq)
           it == CHOOSE iter : iter = [S \in SUBSET (DOMAIN seq) |->
                     IF S = {} THEN w ELSE DestroyAlone(iter[S \ {Max(S)}], seq[Max(S)])]
           path == [n \in 0..N |-> it[1..n]]
<1>1. DestroyAll(w, seq) = it[DOMAIN seq]
  BY DEF DestroyAll, FoldLeft, MapThenFoldSet
<1>2. N \in Nat /\ DOMAIN seq = 1..N
  BY LenProperties
<1>3. PICK f : Turning(f, "destroy", None, w, seq, N)
  BY <1>2, TurnsExist
<1>4. f = [S \in SUBSET (DOMAIN seq) |-> IF S = {} THEN w ELSE DestroyAlone(f[S \ {Max(S)}], seq[Max(S)])]
  BY <1>2, <1>3 DEF Turn, Turning
<1>5. it = [S \in SUBSET (DOMAIN seq) |-> IF S = {} THEN w ELSE DestroyAlone(it[S \ {Max(S)}], seq[Max(S)])]
  BY <1>4
<1> HIDE DEF it
<1>6. Turning(it, "destroy", None, w, seq, N)
  BY <1>2, <1>5 DEF Turn, Turning
<1>7. it[1..0] = w /\ \A n \in 1..N : it[1..n] = Turn("destroy", None, it[1..(n - 1)], seq[n])
  BY <1>2, <1>6, TurnsPath
<1>8. \A n \in 1..N : path[n] = DestroyAlone(path[n - 1], seq[n])
  BY <1>2, <1>7 DEF Turn
<1>9. path[0] = w /\ path[N] = DestroyAll(w, seq)
  BY <1>1, <1>2, <1>7
<1>10. QED
  BY <1>8, <1>9

DropAll(w, o, seq) == FoldLeft(LAMBDA v, id : Dropped(v, o, id), w, seq)

\* Perform_destroy: the children.
LEMMA DropPath ==
    ASSUME NEW w, NEW o, NEW S0, NEW seq \in Seq(S0)
    PROVE  \E path : /\ path[0] = w /\ path[Len(seq)] = DropAll(w, o, seq)
                     /\ \A n \in 1..Len(seq) : path[n] = Dropped(path[n - 1], o, seq[n])
<1> DEFINE N == Len(seq)
           it == CHOOSE iter : iter = [S \in SUBSET (DOMAIN seq) |->
                     IF S = {} THEN w ELSE Dropped(iter[S \ {Max(S)}], o, seq[Max(S)])]
           path == [n \in 0..N |-> it[1..n]]
<1>1. DropAll(w, o, seq) = it[DOMAIN seq]
  BY DEF DropAll, FoldLeft, MapThenFoldSet
<1>2. N \in Nat /\ DOMAIN seq = 1..N
  BY LenProperties
<1>3. PICK f : Turning(f, "drop", o, w, seq, N)
  BY <1>2, TurnsExist
<1>4. f = [S \in SUBSET (DOMAIN seq) |-> IF S = {} THEN w ELSE Dropped(f[S \ {Max(S)}], o, seq[Max(S)])]
  BY <1>2, <1>3 DEF Turn, Turning
<1>5. it = [S \in SUBSET (DOMAIN seq) |-> IF S = {} THEN w ELSE Dropped(it[S \ {Max(S)}], o, seq[Max(S)])]
  BY <1>4
<1> HIDE DEF it
<1>6. Turning(it, "drop", o, w, seq, N)
  BY <1>2, <1>5 DEF Turn, Turning
<1>7. it[1..0] = w /\ \A n \in 1..N : it[1..n] = Turn("drop", o, it[1..(n - 1)], seq[n])
  BY <1>2, <1>6, TurnsPath
<1>8. \A n \in 1..N : path[n] = Dropped(path[n - 1], o, seq[n])
  BY <1>2, <1>7 DEF Turn
<1>9. path[0] = w /\ path[N] = DropAll(w, o, seq)
  BY <1>1, <1>2, <1>7
<1>10. QED
  BY <1>8, <1>9

EnterAll(w, seq) == FoldLeft(Enter, w, seq)

\* GoOnline: the children.
LEMMA EnterPath ==
    ASSUME NEW w, NEW S0, NEW seq \in Seq(S0)
    PROVE  \E path : /\ path[0] = w /\ path[Len(seq)] = EnterAll(w, seq)
                     /\ \A n \in 1..Len(seq) : path[n] = Enter(path[n - 1], seq[n])
<1> DEFINE N == Len(seq)
           it == CHOOSE iter : iter = [S \in SUBSET (DOMAIN seq) |->
                     IF S = {} THEN w ELSE Enter(iter[S \ {Max(S)}], seq[Max(S)])]
           path == [n \in 0..N |-> it[1..n]]
<1>1. EnterAll(w, seq) = it[DOMAIN seq]
  BY DEF EnterAll, FoldLeft, MapThenFoldSet
<1>2. N \in Nat /\ DOMAIN seq = 1..N
  BY LenProperties
<1>3. PICK f : Turning(f, "enter", None, w, seq, N)
  BY <1>2, TurnsExist
<1>4. f = [S \in SUBSET (DOMAIN seq) |-> IF S = {} THEN w ELSE Enter(f[S \ {Max(S)}], seq[Max(S)])]
  BY <1>2, <1>3 DEF Turn, Turning
<1>5. it = [S \in SUBSET (DOMAIN seq) |-> IF S = {} THEN w ELSE Enter(it[S \ {Max(S)}], seq[Max(S)])]
  BY <1>4
<1> HIDE DEF it
<1>6. Turning(it, "enter", None, w, seq, N)
  BY <1>2, <1>5 DEF Turn, Turning
<1>7. it[1..0] = w /\ \A n \in 1..N : it[1..n] = Turn("enter", None, it[1..(n - 1)], seq[n])
  BY <1>2, <1>6, TurnsPath
<1>8. \A n \in 1..N : path[n] = Enter(path[n - 1], seq[n])
  BY <1>2, <1>7 DEF Turn
<1>9. path[0] = w /\ path[N] = EnterAll(w, seq)
  BY <1>1, <1>2, <1>7
<1>10. QED
  BY <1>8, <1>9

RestoreAll(w, o, seq) == FoldLeft(LAMBDA v, id : Restore(v, o, id), w, seq)

\* GoOffline: the children.
LEMMA RestorePath ==
    ASSUME NEW w, NEW o, NEW S0, NEW seq \in Seq(S0)
    PROVE  \E path : /\ path[0] = w /\ path[Len(seq)] = RestoreAll(w, o, seq)
                     /\ \A n \in 1..Len(seq) : path[n] = Restore(path[n - 1], o, seq[n])
<1> DEFINE N == Len(seq)
           it == CHOOSE iter : iter = [S \in SUBSET (DOMAIN seq) |->
                     IF S = {} THEN w ELSE Restore(iter[S \ {Max(S)}], o, seq[Max(S)])]
           path == [n \in 0..N |-> it[1..n]]
<1>1. RestoreAll(w, o, seq) = it[DOMAIN seq]
  BY DEF RestoreAll, FoldLeft, MapThenFoldSet
<1>2. N \in Nat /\ DOMAIN seq = 1..N
  BY LenProperties
<1>3. PICK f : Turning(f, "restore", o, w, seq, N)
  BY <1>2, TurnsExist
<1>4. f = [S \in SUBSET (DOMAIN seq) |-> IF S = {} THEN w ELSE Restore(f[S \ {Max(S)}], o, seq[Max(S)])]
  BY <1>2, <1>3 DEF Turn, Turning
<1>5. it = [S \in SUBSET (DOMAIN seq) |-> IF S = {} THEN w ELSE Restore(it[S \ {Max(S)}], o, seq[Max(S)])]
  BY <1>4
<1> HIDE DEF it
<1>6. Turning(it, "restore", o, w, seq, N)
  BY <1>2, <1>5 DEF Turn, Turning
<1>7. it[1..0] = w /\ \A n \in 1..N : it[1..n] = Turn("restore", o, it[1..(n - 1)], seq[n])
  BY <1>2, <1>6, TurnsPath
<1>8. \A n \in 1..N : path[n] = Restore(path[n - 1], o, seq[n])
  BY <1>2, <1>7 DEF Turn
<1>9. path[0] = w /\ path[N] = RestoreAll(w, o, seq)
  BY <1>1, <1>2, <1>7
<1>10. QED
  BY <1>8, <1>9

\* Sift: its elements, one after the other.
LEMMA SiftPath ==
    ASSUME NEW kept, NEW S0, NEW seq \in Seq(S0)
    PROVE  \E path : /\ path[0] = <<>> /\ path[Len(seq)] = Sift(seq, kept)
                     /\ \A n \in 1..Len(seq) : path[n] =
                           IF seq[n] \in kept THEN Append(path[n - 1], seq[n]) ELSE path[n - 1]
<1> DEFINE N == Len(seq)
           it == CHOOSE iter : iter = [S \in SUBSET (DOMAIN seq) |->
                     IF S = {} THEN <<>>
                     ELSE IF seq[Max(S)] \in kept THEN Append(iter[S \ {Max(S)}], seq[Max(S)]) ELSE iter[S \ {Max(S)}]]
           path == [n \in 0..N |-> it[1..n]]
<1>1. Sift(seq, kept) = it[DOMAIN seq]
  BY DEF Sift, FoldLeft, MapThenFoldSet
<1>2. N \in Nat /\ DOMAIN seq = 1..N
  BY LenProperties
<1>3. PICK f : Turning(f, "sift", kept, <<>>, seq, N)
  BY <1>2, TurnsExist
<1>4. f = [S \in SUBSET (DOMAIN seq) |-> IF S = {} THEN <<>>
                     ELSE IF seq[Max(S)] \in kept THEN Append(f[S \ {Max(S)}], seq[Max(S)]) ELSE f[S \ {Max(S)}]]
  BY <1>2, <1>3, ZenonT(60) DEF Turn, Turning
<1>5. it = [S \in SUBSET (DOMAIN seq) |-> IF S = {} THEN <<>>
                     ELSE IF seq[Max(S)] \in kept THEN Append(it[S \ {Max(S)}], seq[Max(S)]) ELSE it[S \ {Max(S)}]]
  BY <1>4, ZenonT(60)
<1> HIDE DEF it
<1>6. Turning(it, "sift", kept, <<>>, seq, N)
  BY <1>2, <1>5 DEF Turn, Turning
<1>7. it[1..0] = <<>> /\ \A n \in 1..N : it[1..n] = Turn("sift", kept, it[1..(n - 1)], seq[n])
  BY <1>2, <1>6, TurnsPath
<1>8. \A n \in 1..N : path[n] = IF seq[n] \in kept THEN Append(path[n - 1], seq[n]) ELSE path[n - 1]
  BY <1>2, <1>7 DEF Turn
<1>9. path[0] = <<>> /\ path[N] = Sift(seq, kept)
  BY <1>1, <1>2, <1>7
<1>10. QED
  BY <1>8, <1>9

-----------------------------------------------------------------------------
(* What holds between two calls. *)

\* Who exists has an id; a holder is always registered and owned by nobody, a
\* bolt never registered, and only who is registered can be offline.
Living(a) ==
    \A o \in Objects :
        /\ o \in a.alive <=> a.ID[o] \in Ids
        /\ o \notin a.alive => /\ a.parent[o] = NoId /\ a.children[o] = <<>>
                               /\ o \notin a.online /\ o \in a.control
        /\ o \in Goods => a.children[o] = <<>>
        /\ o \in Holders => o \in a.control /\ a.parent[o] = NoId
        /\ o \in Bolts /\ o \in a.alive => o \notin a.control
        /\ o \notin a.online => o \in a.control

\* Each table holds those who belong there.
Tabled(a) ==
    /\ a.ent = a.online /\ a.reg = a.alive \cap a.control
    /\ a.lev = {o \in a.reg : a.parent[o] = NoId} /\ a.pts = a.lev \ a.online

\* Parents and children name each other and are online together.
Families(a) ==
    /\ \A h \in Objects : /\ IsInjective(a.children[h])
                          /\ \A id \in ToSet(a.children[h]) : \E k \in Goods : a.ID[k] = id
    /\ \A k \in Goods : a.parent[k] # NoId => \E h \in Holders : a.ID[h] = a.parent[k]
    /\ \A h \in Holders, k \in Goods : h \in a.alive /\ k \in a.alive =>
            /\ a.ID[k] \in ToSet(a.children[h]) <=> a.parent[k] = a.ID[h]
            /\ a.parent[k] = a.ID[h] => (k \in a.online <=> h \in a.online)

\* The pool holds the ids that nobody has, each once.
PoolFits(a) ==
    /\ IsInjective(a.pool)
    /\ \A id \in Ids : id \in ToSet(a.pool) <=> \A o \in Objects : a.ID[o] # id

Orderly(a) == Living(a) /\ Tabled(a) /\ Families(a) /\ PoolFits(a)

LEMMA CensusFields ==
    ASSUME NEW a \in Censuses
    PROVE  /\ a.alive \in SUBSET Objects /\ a.online \in SUBSET Objects
           /\ a.control \in SUBSET Objects /\ a.ent \in SUBSET Objects
           /\ a.reg \in SUBSET Objects /\ a.lev \in SUBSET Objects /\ a.pts \in SUBSET Objects
           /\ a.ID \in [Objects -> Ids \cup {NoId}] /\ a.parent \in [Objects -> Ids \cup {NoId}]
           /\ a.children \in [Objects -> Seq(Ids)] /\ a.pool \in Seq(Ids)
BY DEF Censuses

-----------------------------------------------------------------------------
(* Somebody without children dies. *)

Bereft(a, o) ==
    [h \in Objects |-> IF h = o THEN <<>>
                       ELSE IF a.parent[o] # NoId /\ a.ID[h] = a.parent[o]
                       THEN RemoveFirst(a.children[h], a.ID[o]) ELSE a.children[h]]

Killed(a, o) ==
    [a EXCEPT !.alive = @ \ {o}, !.ID[o] = NoId, !.parent[o] = NoId, !.children = Bereft(a, o),
              !.online = @ \ {o}, !.control = @ \cup {o}, !.ent = @ \ {o}, !.reg = @ \ {o},
              !.lev = @ \ {o}, !.pts = @ \ {o}, !.pool = Append(@, a.ID[o])]

LEMMA KilledFields ==
    ASSUME NEW a \in Censuses, NEW o \in Objects, a.ID[o] \in Ids
    PROVE  LET b == Killed(a, o)
           IN  /\ b \in Censuses
               /\ b.alive = a.alive \ {o} /\ b.ID = [a.ID EXCEPT ![o] = NoId]
               /\ b.parent = [a.parent EXCEPT ![o] = NoId] /\ b.children = Bereft(a, o)
               /\ b.online = a.online \ {o} /\ b.control = a.control \cup {o}
               /\ b.ent = a.ent \ {o} /\ b.reg = a.reg \ {o} /\ b.lev = a.lev \ {o}
               /\ b.pts = a.pts \ {o} /\ b.pool = Append(a.pool, a.ID[o])
<1>0. /\ a.alive \in SUBSET Objects /\ a.online \in SUBSET Objects
      /\ a.control \in SUBSET Objects /\ a.ent \in SUBSET Objects
      /\ a.reg \in SUBSET Objects /\ a.lev \in SUBSET Objects /\ a.pts \in SUBSET Objects
      /\ a.ID \in [Objects -> Ids \cup {NoId}] /\ a.parent \in [Objects -> Ids \cup {NoId}]
      /\ a.children \in [Objects -> Seq(Ids)] /\ a.pool \in Seq(Ids)
  BY CensusFields
<1>1. Bereft(a, o) \in [Objects -> Seq(Ids)]
  <2>1. \A h \in Objects : RemoveFirst(a.children[h], a.ID[o]) \in Seq(Ids)
    <3>1. TAKE h \in Objects
    <3>2. a.children[h] \in Seq(Ids)
      BY <1>0
    <3>3. QED
      BY <3>2, RemoveFirstProperties
  <2>2. <<>> \in Seq(Ids)
    BY EmptySeq
  <2>3. QED
    BY <1>0, <2>1, <2>2 DEF Bereft
<1>2. /\ Append(a.pool, a.ID[o]) \in Seq(Ids) /\ a.control \cup {o} \in SUBSET Objects
      /\ [a.ID EXCEPT ![o] = NoId] \in [Objects -> Ids \cup {NoId}]
      /\ [a.parent EXCEPT ![o] = NoId] \in [Objects -> Ids \cup {NoId}]
  BY <1>0
<1>3. Killed(a, o) \in Censuses
  BY <1>0, <1>1, <1>2, ZenonT(60) DEF Killed, Censuses
<1>4. QED
  BY <1>0, <1>3, ZenonT(60) DEF Killed, Censuses

LEMMA KilledOrderly ==
    ASSUME NEW a \in Censuses, Unique(a.ID), Orderly(a), NEW o \in a.alive, a.children[o] = <<>>
    PROVE  Unique(Killed(a, o).ID) /\ Orderly(Killed(a, o))
<1>0. /\ a.alive \in SUBSET Objects /\ a.online \in SUBSET Objects
      /\ a.control \in SUBSET Objects /\ a.ent \in SUBSET Objects
      /\ a.reg \in SUBSET Objects /\ a.lev \in SUBSET Objects /\ a.pts \in SUBSET Objects
      /\ a.ID \in [Objects -> Ids \cup {NoId}] /\ a.parent \in [Objects -> Ids \cup {NoId}]
      /\ a.children \in [Objects -> Seq(Ids)] /\ a.pool \in Seq(Ids)
  BY CensusFields
<1>1. o \in Objects /\ a.ID[o] \in Ids
  BY <1>0 DEF Orderly, Living
<1>2. PICK b \in Censuses :
         /\ b = Killed(a, o)
         /\ b.alive = a.alive \ {o} /\ b.ID = [a.ID EXCEPT ![o] = NoId]
         /\ b.parent = [a.parent EXCEPT ![o] = NoId] /\ b.children = Bereft(a, o)
         /\ b.online = a.online \ {o} /\ b.control = a.control \cup {o}
         /\ b.ent = a.ent \ {o} /\ b.reg = a.reg \ {o} /\ b.lev = a.lev \ {o}
         /\ b.pts = a.pts \ {o} /\ b.pool = Append(a.pool, a.ID[o])
  BY <1>1, KilledFields
<1>3. Unique(b.ID)
  BY <1>0, <1>2 DEF Unique
<1>4. /\ b.ID[o] = NoId /\ b.parent[o] = NoId /\ b.children[o] = <<>>
      /\ \A k \in Objects : k # o => b.ID[k] = a.ID[k] /\ b.parent[k] = a.parent[k]
  BY <1>0, <1>1, <1>2 DEF Bereft
<1>5. \A h \in Objects : h # o => b.children[h] =
         IF a.parent[o] # NoId /\ a.ID[h] = a.parent[o]
         THEN RemoveFirst(a.children[h], a.ID[o]) ELSE a.children[h]
  BY <1>2 DEF Bereft
<1>6. /\ IsInjective(b.children[o]) /\ ToSet(b.children[o]) = {}
      /\ \A h \in Objects : h # o =>
            /\ IsInjective(b.children[h])
            /\ ToSet(b.children[h]) = IF a.parent[o] # NoId /\ a.ID[h] = a.parent[o]
                                      THEN ToSet(a.children[h]) \ {a.ID[o]} ELSE ToSet(a.children[h])
  <2>1. IsInjective(b.children[o]) /\ ToSet(b.children[o]) = {}
    BY <1>4, EmptyUnique
  <2>2. ASSUME NEW h \in Objects, h # o
        PROVE  /\ IsInjective(b.children[h])
               /\ ToSet(b.children[h]) = IF a.parent[o] # NoId /\ a.ID[h] = a.parent[o]
                                         THEN ToSet(a.children[h]) \ {a.ID[o]} ELSE ToSet(a.children[h])
    <3>1. IsInjective(a.children[h]) /\ a.children[h] \in Seq(Ids)
      BY <1>0 DEF Orderly, Families
    <3>2. /\ IsInjective(RemoveFirst(a.children[h], a.ID[o]))
          /\ ToSet(RemoveFirst(a.children[h], a.ID[o])) = ToSet(a.children[h]) \ {a.ID[o]}
      BY <3>1, RemoveUnique
    <3>3. QED
      BY <1>5, <2>2, <3>1, <3>2
  <2>3. QED
    BY <2>1, <2>2
<1>7. Living(b)
  <2>1. \A h \in Objects : a.children[h] = <<>> => b.children[h] = <<>>
    <3>1. TAKE h \in Objects
    <3>2. HAVE a.children[h] = <<>>
    <3>3. ~ \E i \in 1..Len(<<>>) : <<>>[i] = a.ID[o]
      OBVIOUS
    <3>4. RemoveFirst(<<>>, a.ID[o]) = <<>>
      BY <3>3 DEF RemoveFirst
    <3>5. QED
      BY <1>4, <1>5, <3>2, <3>4
  <2>2. a.parent[o] # NoId => o \in Goods
    BY <1>0, <1>1, Kinds DEF Orderly, Living
  <2>3. \A h \in Objects : h \notin a.alive => a.ID[h] \notin Ids
    BY DEF Orderly, Living
  <2>4. QED
    BY <1>0, <1>1, <1>2, <1>4, <2>1, Kinds DEF Orderly, Living
<1>8. Tabled(b)
  BY <1>0, <1>1, <1>2, <1>4 DEF Orderly, Tabled
<1>9. Families(b)
  <2>1. \A h \in Objects : IsInjective(b.children[h])
    BY <1>6
  <2>2. \A h \in Objects : ToSet(a.children[h]) # {} => h \in Holders /\ h \in a.alive
    BY EmptyUnique, Kinds DEF Orderly, Living
  <2>3. ASSUME NEW h \in Objects, NEW id \in ToSet(b.children[h])
        PROVE  \E k \in Goods : b.ID[k] = id
    <3>1. h # o /\ id \in ToSet(a.children[h])
      BY <1>6, <2>3
    <3>2. PICK k \in Goods : a.ID[k] = id
      BY <3>1 DEF Orderly, Families
    <3>3. k # o
      <4>1. SUFFICES ASSUME k = o
                     PROVE  FALSE
        OBVIOUS
      <4>2. h \in Holders /\ h \in a.alive
        BY <2>2, <3>1
      <4>3. a.parent[o] = a.ID[h]
        BY <3>1, <3>2, <4>1, <4>2 DEF Orderly, Families
      <4>4. a.ID[h] \in Ids
        BY <1>0, <4>2 DEF Orderly, Living
      <4>5. QED
        BY <1>6, <2>3, <3>1, <3>2, <4>1, <4>3, <4>4, Kinds, ZenonT(60)
    <3>4. QED
      BY <1>4, <3>2, <3>3, Kinds
  <2>4. ASSUME NEW k \in Goods, b.parent[k] # NoId
        PROVE  \E h \in Holders : b.ID[h] = b.parent[k]
    <3>1. k # o /\ k \in Objects /\ a.parent[k] # NoId
      BY <1>4, <2>4, Kinds
    <3>2. PICK h \in Holders : a.ID[h] = a.parent[k]
      BY <3>1 DEF Orderly, Families
    <3>3. h # o
      <4>1. a.parent[k] \in Ids /\ k \in a.alive
        BY <1>0, <3>1 DEF Orderly, Living
      <4>2. h \in a.alive
        BY <3>2, <4>1, Kinds DEF Orderly, Living
      <4>3. a.ID[k] \in ToSet(a.children[h])
        BY <3>2, <4>1, <4>2 DEF Orderly, Families
      <4>4. QED
        BY <4>3, EmptyUnique
    <3>4. QED
      BY <1>4, <3>1, <3>2, <3>3, Kinds
  <2>5. ASSUME NEW h \in Holders, NEW k \in Goods, h \in b.alive, k \in b.alive
        PROVE  /\ b.ID[k] \in ToSet(b.children[h]) <=> b.parent[k] = b.ID[h]
               /\ b.parent[k] = b.ID[h] => (k \in b.online <=> h \in b.online)
    <3>1. h # o /\ k # o /\ h \in a.alive /\ k \in a.alive /\ h \in Objects /\ k \in Objects
      BY <1>2, <2>5, Kinds
    <3>2. /\ a.ID[k] \in ToSet(a.children[h]) <=> a.parent[k] = a.ID[h]
          /\ a.parent[k] = a.ID[h] => (k \in a.online <=> h \in a.online)
      BY <3>1 DEF Orderly, Families
    <3>3. a.ID[k] # a.ID[o]
      BY <1>1, <3>1, Kinds DEF Unique
    <3>4. ToSet(b.children[h]) = ToSet(a.children[h]) \/ ToSet(b.children[h]) = ToSet(a.children[h]) \ {a.ID[o]}
      BY <1>6, <3>1
    <3>5. /\ b.ID[k] = a.ID[k] /\ b.ID[h] = a.ID[h] /\ b.parent[k] = a.parent[k]
          /\ k \in b.online <=> k \in a.online
          /\ h \in b.online <=> h \in a.online
      BY <1>2, <1>4, <3>1
    <3>6. QED
      BY <3>2, <3>3, <3>4, <3>5
  <2>6. QED
    BY <2>1, <2>3, <2>4, <2>5 DEF Families
<1>10. PoolFits(b)
  <2>1. a.ID[o] \notin ToSet(a.pool)
    BY <1>1 DEF Orderly, PoolFits
  <2>2. IsInjective(b.pool) /\ ToSet(b.pool) = ToSet(a.pool) \cup {a.ID[o]}
    BY <1>0, <1>1, <1>2, <2>1, AppendUnique DEF Orderly, PoolFits
  <2>3. ASSUME NEW id \in Ids
        PROVE  id \in ToSet(b.pool) <=> \A k \in Objects : b.ID[k] # id
    <3>1. CASE id = a.ID[o]
      BY <1>1, <1>4, <2>2, <3>1, Kinds DEF Unique
    <3>2. CASE id # a.ID[o]
      <4>1. id \in ToSet(a.pool) <=> \A k \in Objects : a.ID[k] # id
        BY DEF Orderly, PoolFits
      <4>2. \A k \in Objects : a.ID[k] # id <=> b.ID[k] # id
        BY <1>1, <1>4, <3>2, Kinds
      <4>3. QED
        BY <2>2, <3>2, <4>1, <4>2
    <3>3. QED
      BY <3>1, <3>2
  <2>4. QED
    BY <2>2, <2>3 DEF PoolFits
<1>11. QED
  BY <1>2, <1>3, <1>7, <1>8, <1>9, <1>10 DEF Orderly

-----------------------------------------------------------------------------
(* Somebody is taken or freed. *)

\* From a to b, e leaves h or comes to it.
Moves(a, b, e, h) ==
    /\ b.alive = a.alive /\ b.ID = a.ID /\ b.online = a.online /\ b.pool = a.pool
    /\ \A k \in Objects : k # e => /\ b.parent[k] = a.parent[k]
                                   /\ k \in b.control <=> k \in a.control
    /\ e \in Bolts => e \notin b.control
    /\ \A k \in Objects : k # h => b.children[k] = a.children[k]
    /\ IsInjective(b.children[h])
    /\ \/ /\ a.parent[e] = a.ID[h] /\ b.parent[e] = NoId
          /\ ToSet(b.children[h]) = ToSet(a.children[h]) \ {a.ID[e]}
       \/ /\ a.parent[e] = NoId /\ b.parent[e] = a.ID[h]
          /\ ToSet(b.children[h]) = ToSet(a.children[h]) \cup {a.ID[e]}

LEMMA MovedOrderly ==
    ASSUME NEW a \in Censuses, NEW b \in Censuses, Unique(a.ID), Orderly(a),
           NEW e \in Goods, e \in a.alive, e \in a.online,
           NEW h \in Holders, h \in a.alive, h \in a.online, Moves(a, b, e, h), Tabled(b)
    PROVE  Orderly(b)
<1>0. a.ID \in [Objects -> Ids \cup {NoId}]
  BY CensusFields
<1> USE DEF Moves
<1>1. /\ e \in Objects /\ h \in Objects /\ e # h
      /\ a.ID[e] \in Ids /\ a.ID[h] \in Ids
  BY Kinds DEF Orderly, Living
<1>2. Living(b)
  BY <1>0, <1>1, Kinds DEF Orderly, Living
<1>3. PoolFits(b)
  BY DEF Orderly, PoolFits
<1>4. ASSUME NEW k \in Objects, NEW id \in ToSet(b.children[k])
      PROVE  \E g \in Goods : b.ID[g] = id
  <2>1. id \in ToSet(a.children[k]) \/ id = a.ID[e]
    BY <1>4
  <2>2. QED
    BY <2>1 DEF Orderly, Families
<1>5. ASSUME NEW k \in Goods, b.parent[k] # NoId
      PROVE  \E g \in Holders : b.ID[g] = b.parent[k]
  <2>1. k \in Objects
    BY Kinds
  <2>2. CASE k = e
    BY <1>5, <2>2
  <2>3. CASE k # e
    BY <1>5, <2>1, <2>3 DEF Orderly, Families
  <2>4. QED
    BY <2>2, <2>3
<1>6. ASSUME NEW g \in Holders, NEW k \in Goods, g \in b.alive, k \in b.alive
      PROVE  /\ b.ID[k] \in ToSet(b.children[g]) <=> b.parent[k] = b.ID[g]
             /\ b.parent[k] = b.ID[g] => (k \in b.online <=> g \in b.online)
  <2>1. /\ a.ID[k] \in ToSet(a.children[g]) <=> a.parent[k] = a.ID[g]
        /\ a.parent[k] = a.ID[g] => (k \in a.online <=> g \in a.online)
    BY <1>6 DEF Orderly, Families
  <2>2. g \in Objects /\ k \in Objects /\ a.ID[g] \in Ids /\ a.ID[k] \in Ids
    BY <1>6, Kinds DEF Orderly, Living
  <2>3. CASE k = e
    <3>1. CASE g = h
      BY <2>1, <2>2, <2>3, <3>1, Kinds
    <3>2. CASE g # h
      <4>1. a.ID[g] # a.ID[h]
        BY <1>0, <1>1, <2>2, <3>2, Kinds DEF Unique
      <4>2. QED
        BY <2>1, <2>2, <2>3, <3>2, <4>1, Kinds
    <3>3. QED
      BY <3>1, <3>2
  <2>4. CASE k # e
    <3>1. a.ID[k] # a.ID[e]
      BY <1>0, <1>1, <2>2, <2>4, Kinds DEF Unique
    <3>2. a.ID[k] \in ToSet(b.children[g]) <=> a.ID[k] \in ToSet(a.children[g])
      BY <2>2, <3>1
    <3>3. QED
      BY <2>1, <2>2, <2>4, <3>2
  <2>5. QED
    BY <2>3, <2>4
<1>7. \A k \in Objects : IsInjective(b.children[k])
  BY DEF Orderly, Families
<1>8. QED
  BY <1>2, <1>3, <1>4, <1>5, <1>6, <1>7 DEF Orderly, Families

Freed(a, e, h) ==
    [a EXCEPT !.parent[e] = NoId, !.children[h] = RemoveFirst(@, a.ID[e]),
              !.control = IF e \in Bolts THEN @ \ {e} ELSE @ \cup {e},
              !.reg = IF e \in Bolts THEN @ \ {e} ELSE @ \cup {e},
              !.lev = IF e \in Bolts THEN @ \ {e} ELSE @ \cup {e}]

TakenBy(a, e, h) ==
    [a EXCEPT !.parent[e] = a.ID[h], !.children[h] = Append(@, a.ID[e]), !.lev = @ \ {e}]

FreedIs(a, b, e, h) ==
    /\ b.alive = a.alive /\ b.ID = a.ID /\ b.online = a.online /\ b.pool = a.pool
    /\ b.ent = a.ent /\ b.pts = a.pts
    /\ b.parent = [a.parent EXCEPT ![e] = NoId]
    /\ b.children = [a.children EXCEPT ![h] = RemoveFirst(@, a.ID[e])]
    /\ b.control = IF e \in Bolts THEN a.control \ {e} ELSE a.control \cup {e}
    /\ b.reg = IF e \in Bolts THEN a.reg \ {e} ELSE a.reg \cup {e}
    /\ b.lev = IF e \in Bolts THEN a.lev \ {e} ELSE a.lev \cup {e}

TakenIs(a, b, e, h) ==
    /\ b.alive = a.alive /\ b.ID = a.ID /\ b.online = a.online /\ b.pool = a.pool
    /\ b.ent = a.ent /\ b.pts = a.pts /\ b.control = a.control /\ b.reg = a.reg
    /\ b.lev = a.lev \ {e}
    /\ b.parent = [a.parent EXCEPT ![e] = a.ID[h]]
    /\ b.children = [a.children EXCEPT ![h] = Append(@, a.ID[e])]

LEMMA FreedFields ==
    ASSUME NEW a \in Censuses, NEW e \in Objects, NEW h \in Objects
    PROVE  Freed(a, e, h) \in Censuses /\ FreedIs(a, Freed(a, e, h), e, h)
<1>1. RemoveFirst(a.children[h], a.ID[e]) \in Seq(Ids)
  <2>1. a.children[h] \in Seq(Ids)
    BY CensusFields
  <2>2. QED
    BY <2>1, RemoveFirstProperties
<1>2. Freed(a, e, h) \in Censuses
  BY <1>1 DEF Freed, Censuses
<1>3. QED
  BY <1>2 DEF Freed, FreedIs, Censuses

LEMMA TakenFields ==
    ASSUME NEW a \in Censuses, NEW e \in Objects, NEW h \in Objects, a.ID[e] \in Ids
    PROVE  TakenBy(a, e, h) \in Censuses /\ TakenIs(a, TakenBy(a, e, h), e, h)
<1>1. Append(a.children[h], a.ID[e]) \in Seq(Ids)
  BY CensusFields
<1>2. a.ID[h] \in Ids \cup {NoId}
  BY CensusFields
<1>3. TakenBy(a, e, h) \in Censuses
  BY <1>1, <1>2 DEF TakenBy, Censuses
<1>4. QED
  BY <1>3 DEF TakenBy, TakenIs, Censuses

LEMMA FreedOrderly ==
    ASSUME NEW a \in Censuses, Unique(a.ID), Orderly(a),
           NEW e \in Goods, e \in a.alive, e \in a.online,
           NEW h \in Holders, h \in a.alive, h \in a.online, a.parent[e] = a.ID[h]
    PROVE  Orderly(Freed(a, e, h))
<1>0. /\ a.parent \in [Objects -> Ids \cup {NoId}] /\ a.children \in [Objects -> Seq(Ids)]
  BY CensusFields
<1>1. e \in Objects /\ h \in Objects /\ a.ID[e] \in Ids /\ a.children[h] \in Seq(Ids)
  BY <1>0, Kinds DEF Orderly, Living
<1>2. PICK b \in Censuses : b = Freed(a, e, h) /\ FreedIs(a, b, e, h)
  BY <1>1, FreedFields
<1>3. /\ IsInjective(b.children[h]) /\ ToSet(b.children[h]) = ToSet(a.children[h]) \ {a.ID[e]}
  <2>1. IsInjective(a.children[h])
    BY <1>1 DEF Orderly, Families
  <2>2. b.children[h] = RemoveFirst(a.children[h], a.ID[e])
    BY <1>0, <1>1, <1>2 DEF FreedIs
  <2>3. QED
    BY <1>1, <2>1, <2>2, RemoveUnique
<1>4. b.parent[e] = NoId /\ \A k \in Objects : k # e => b.parent[k] = a.parent[k]
  BY <1>0, <1>1, <1>2 DEF FreedIs
<1>5. \A k \in Objects : k # h => b.children[k] = a.children[k]
  BY <1>0, <1>1, <1>2 DEF FreedIs
<1>6. Tabled(b)
  BY <1>1, <1>2, <1>4, Kinds DEF FreedIs, Orderly, Tabled, Living
<1>7. (e \in Bolts => e \notin b.control) /\ \A k \in Objects : k # e => (k \in b.control <=> k \in a.control)
  BY <1>2 DEF FreedIs
<1>8. Moves(a, b, e, h)
  BY <1>2, <1>3, <1>4, <1>5, <1>7 DEF FreedIs, Moves
<1>9. Orderly(b)
  BY <1>6, <1>8, MovedOrderly
<1>10. QED
  BY <1>2, <1>9

LEMMA TakenOrderly ==
    ASSUME NEW a \in Censuses, Unique(a.ID), Orderly(a),
           NEW e \in Goods, e \in a.alive, e \in a.online,
           NEW h \in Holders, h \in a.alive, h \in a.online, a.parent[e] = NoId
    PROVE  Orderly(TakenBy(a, e, h))
<1>0. /\ a.parent \in [Objects -> Ids \cup {NoId}] /\ a.children \in [Objects -> Seq(Ids)]
  BY CensusFields
<1>1. /\ e \in Objects /\ h \in Objects /\ a.ID[e] \in Ids /\ a.ID[h] \in Ids
      /\ a.children[h] \in Seq(Ids)
  BY <1>0, Kinds DEF Orderly, Living
<1>2. PICK b \in Censuses : b = TakenBy(a, e, h) /\ TakenIs(a, b, e, h)
  BY <1>1, TakenFields
<1>3. /\ IsInjective(b.children[h]) /\ ToSet(b.children[h]) = ToSet(a.children[h]) \cup {a.ID[e]}
  <2>1. IsInjective(a.children[h])
    BY <1>1 DEF Orderly, Families
  <2>2. b.children[h] = Append(a.children[h], a.ID[e])
    BY <1>0, <1>1, <1>2 DEF TakenIs
  <2>3. a.ID[e] \notin ToSet(a.children[h])
    BY <1>1, Kinds DEF Orderly, Families
  <2>4. QED
    BY <1>1, <2>1, <2>2, <2>3, AppendUnique
<1>4. b.parent[e] = a.ID[h] /\ \A k \in Objects : k # e => b.parent[k] = a.parent[k]
  BY <1>0, <1>1, <1>2 DEF TakenIs
<1>5. \A k \in Objects : k # h => b.children[k] = a.children[k]
  BY <1>0, <1>1, <1>2 DEF TakenIs
<1>6. Tabled(b)
  BY <1>1, <1>2, <1>4, Kinds DEF TakenIs, Orderly, Tabled, Living
<1>7. (e \in Bolts => e \notin b.control) /\ \A k \in Objects : k # e => (k \in b.control <=> k \in a.control)
  BY <1>1, <1>2 DEF TakenIs, Orderly, Living
<1>8. Moves(a, b, e, h)
  BY <1>2, <1>3, <1>4, <1>5, <1>7 DEF TakenIs, Moves
<1>9. Orderly(b)
  BY <1>6, <1>8, MovedOrderly
<1>10. QED
  BY <1>2, <1>9

-----------------------------------------------------------------------------
(* Somebody comes into being. *)

Endowed(a, x, id) ==
    [h \in Objects |-> IF x # NoId /\ a.ID[h] = x THEN Append(a.children[h], id) ELSE a.children[h]]

Spawned(a, o, x, on, known) ==
    [a EXCEPT !.alive = @ \cup {o}, !.ID[o] = Head(a.pool), !.parent[o] = x,
              !.children = Endowed(a, x, Head(a.pool)),
              !.online = IF on THEN @ \cup {o} ELSE @ \ {o},
              !.control = IF known THEN @ \cup {o} ELSE @ \ {o},
              !.ent = IF on THEN @ \cup {o} ELSE @ \ {o},
              !.reg = IF known THEN @ \cup {o} ELSE @ \ {o},
              !.lev = IF known /\ x = NoId THEN @ \cup {o} ELSE @ \ {o},
              !.pts = IF known /\ x = NoId /\ ~on THEN @ \cup {o} ELSE @ \ {o},
              !.pool = Tail(@)]

SpawnedIs(a, b, o, x, on, known) ==
    /\ b.alive = a.alive \cup {o} /\ b.ID = [a.ID EXCEPT ![o] = Head(a.pool)]
    /\ b.parent = [a.parent EXCEPT ![o] = x] /\ b.children = Endowed(a, x, Head(a.pool))
    /\ b.online = IF on THEN a.online \cup {o} ELSE a.online \ {o}
    /\ b.control = IF known THEN a.control \cup {o} ELSE a.control \ {o}
    /\ b.ent = IF on THEN a.ent \cup {o} ELSE a.ent \ {o}
    /\ b.reg = IF known THEN a.reg \cup {o} ELSE a.reg \ {o}
    /\ b.lev = IF known /\ x = NoId THEN a.lev \cup {o} ELSE a.lev \ {o}
    /\ b.pts = IF known /\ x = NoId /\ ~on THEN a.pts \cup {o} ELSE a.pts \ {o}
    /\ b.pool = Tail(a.pool)

\* Who may be spawned where: a bolt only online, anybody inside an owner only as the
\* owner is.
MaySpawn(a, o, x, on, known) ==
    /\ o \notin a.alive /\ a.pool # <<>> /\ x \in Ids \cup {NoId}
    /\ x # NoId => o \in Goods /\ \E h \in Holders : a.ID[h] = x /\ (on <=> h \in a.online)
    /\ known => o \notin Bolts
    /\ ~known => on /\ o \in Goods

LEMMA SpawnedFields ==
    ASSUME NEW a \in Censuses, NEW o \in Objects, NEW x \in Ids \cup {NoId}, a.pool # <<>>,
           NEW on \in BOOLEAN, NEW known \in BOOLEAN
    PROVE  /\ Spawned(a, o, x, on, known) \in Censuses
           /\ SpawnedIs(a, Spawned(a, o, x, on, known), o, x, on, known)
<1>0. /\ a.alive \in SUBSET Objects /\ a.online \in SUBSET Objects
      /\ a.control \in SUBSET Objects /\ a.ent \in SUBSET Objects
      /\ a.reg \in SUBSET Objects /\ a.lev \in SUBSET Objects /\ a.pts \in SUBSET Objects
      /\ a.ID \in [Objects -> Ids \cup {NoId}] /\ a.parent \in [Objects -> Ids \cup {NoId}]
      /\ a.children \in [Objects -> Seq(Ids)] /\ a.pool \in Seq(Ids)
  BY CensusFields
<1>1. Head(a.pool) \in Ids /\ Tail(a.pool) \in Seq(Ids)
  BY <1>0, HeadTailProperties
<1>2. Endowed(a, x, Head(a.pool)) \in [Objects -> Seq(Ids)]
  BY <1>0, <1>1 DEF Endowed
<1>3. /\ \A S \in SUBSET Objects : S \cup {o} \in SUBSET Objects /\ S \ {o} \in SUBSET Objects
      /\ [a.ID EXCEPT ![o] = Head(a.pool)] \in [Objects -> Ids \cup {NoId}]
      /\ [a.parent EXCEPT ![o] = x] \in [Objects -> Ids \cup {NoId}]
  BY <1>0, <1>1
<1> DEFINE on2(S) == IF on THEN S \cup {o} ELSE S \ {o}
           known2(S) == IF known THEN S \cup {o} ELSE S \ {o}
           lev2 == IF known /\ x = NoId THEN a.lev \cup {o} ELSE a.lev \ {o}
           pts2 == IF known /\ x = NoId /\ ~on THEN a.pts \cup {o} ELSE a.pts \ {o}
<1>4. /\ on2(a.online) \in SUBSET Objects /\ on2(a.ent) \in SUBSET Objects
      /\ known2(a.control) \in SUBSET Objects /\ known2(a.reg) \in SUBSET Objects
      /\ lev2 \in SUBSET Objects /\ pts2 \in SUBSET Objects
  BY <1>0, <1>3
<1>5. a.alive \cup {o} \in SUBSET Objects
  BY <1>0
<1>6. Spawned(a, o, x, on, known) \in Censuses
  BY <1>0, <1>1, <1>2, <1>3, <1>4, <1>5, ZenonT(60) DEF Spawned, Censuses
<1>7. QED
  BY <1>0, <1>6, ZenonT(60) DEF Spawned, SpawnedIs, Censuses

LEMMA SpawnedOrderly ==
    ASSUME NEW a \in Censuses, Unique(a.ID), Orderly(a), NEW o \in Objects, NEW x,
           NEW on \in BOOLEAN, NEW known \in BOOLEAN, MaySpawn(a, o, x, on, known)
    PROVE  Unique(Spawned(a, o, x, on, known).ID) /\ Orderly(Spawned(a, o, x, on, known))
<1>0. /\ a.alive \in SUBSET Objects /\ a.online \in SUBSET Objects
      /\ a.control \in SUBSET Objects /\ a.ent \in SUBSET Objects
      /\ a.reg \in SUBSET Objects /\ a.lev \in SUBSET Objects /\ a.pts \in SUBSET Objects
      /\ a.ID \in [Objects -> Ids \cup {NoId}] /\ a.parent \in [Objects -> Ids \cup {NoId}]
      /\ a.children \in [Objects -> Seq(Ids)] /\ a.pool \in Seq(Ids)
  BY CensusFields
<1>1. /\ x \in Ids \cup {NoId} /\ a.pool # <<>> /\ o \notin a.alive
      /\ a.ID[o] = NoId /\ a.parent[o] = NoId /\ a.children[o] = <<>> /\ o \notin a.online
      /\ o \in a.control
  BY <1>0 DEF MaySpawn, Orderly, Living
<1>2. PICK b \in Censuses : b = Spawned(a, o, x, on, known) /\ SpawnedIs(a, b, o, x, on, known)
  BY <1>1, SpawnedFields
<1>3. PICK id \in Ids : /\ id = Head(a.pool) /\ id \in ToSet(a.pool) /\ Tail(a.pool) \in Seq(Ids)
                        /\ ToSet(Tail(a.pool)) = ToSet(a.pool) \ {id} /\ IsInjective(Tail(a.pool))
  BY <1>0, <1>1, TailUnique DEF Orderly, PoolFits
<1>4. \A k \in Objects : a.ID[k] # id
  BY <1>3 DEF Orderly, PoolFits
<1>5. /\ b.ID[o] = id /\ b.parent[o] = x
      /\ \A k \in Objects : k # o => b.ID[k] = a.ID[k] /\ b.parent[k] = a.parent[k]
      /\ \A k \in Objects : k # o => (k \in b.alive <=> k \in a.alive)
                                   /\ (k \in b.online <=> k \in a.online)
                                   /\ (k \in b.control <=> k \in a.control)
      /\ o \in b.alive /\ (o \in b.online <=> on) /\ (o \in b.control <=> known)
  BY <1>0, <1>1, <1>2, <1>3 DEF SpawnedIs
<1>6. Unique(b.ID)
  BY <1>0, <1>4, <1>5 DEF Unique
<1>7. \A h \in Objects : b.children[h] =
         IF x # NoId /\ a.ID[h] = x THEN Append(a.children[h], id) ELSE a.children[h]
  BY <1>2, <1>3 DEF SpawnedIs, Endowed
<1>8. \A h \in Objects :
         /\ IsInjective(b.children[h])
         /\ ToSet(b.children[h]) = IF x # NoId /\ a.ID[h] = x
                                   THEN ToSet(a.children[h]) \cup {id} ELSE ToSet(a.children[h])
  <2>1. TAKE h \in Objects
  <2>2. a.children[h] \in Seq(Ids) /\ IsInjective(a.children[h])
    BY <1>0 DEF Orderly, Families
  <2>3. id \notin ToSet(a.children[h])
    <3>1. SUFFICES ASSUME id \in ToSet(a.children[h])
                   PROVE  FALSE
      OBVIOUS
    <3>2. PICK k \in Goods : a.ID[k] = id
      BY <3>1 DEF Orderly, Families
    <3>3. QED
      BY <1>4, <3>2, Kinds
  <2>4. /\ IsInjective(Append(a.children[h], id))
        /\ ToSet(Append(a.children[h], id)) = ToSet(a.children[h]) \cup {id}
    BY <2>2, <2>3, AppendUnique
  <2>5. QED
    BY <1>7, <2>2, <2>4
<1>9. x # NoId => o \in Goods /\ \E h \in Holders : a.ID[h] = x /\ h \in a.alive /\ (on <=> h \in a.online)
  BY <1>1, Kinds DEF MaySpawn, Orderly, Living
<1>10. Living(b)
  <2>1. ASSUME NEW h \in Objects
        PROVE  /\ h \in Goods => b.children[h] = <<>>
               /\ h \notin b.alive => b.children[h] = <<>>
    <3>1. CASE x # NoId /\ a.ID[h] = x
      <4>1. PICK g \in Holders : a.ID[g] = x /\ g \in a.alive
        BY <1>9, <3>1
      <4>2. g = h
        BY <3>1, <4>1, Kinds DEF Unique
      <4>3. h \in b.alive /\ h \notin Goods
        BY <1>1, <1>5, <4>1, <4>2, Kinds
      <4>4. QED
        BY <4>3
    <3>2. CASE ~(x # NoId /\ a.ID[h] = x)
      <4>1. b.children[h] = a.children[h]
        BY <1>7, <3>2
      <4>2. h \notin b.alive => h \notin a.alive
        BY <1>5
      <4>3. QED
        BY <4>1, <4>2 DEF Orderly, Living
    <3>3. QED
      BY <3>1, <3>2
  <2>2. ASSUME NEW k \in Objects, k # o
        PROVE  /\ k \in b.alive <=> b.ID[k] \in Ids
               /\ k \notin b.alive => b.parent[k] = NoId /\ k \notin b.online /\ k \in b.control
               /\ k \in Holders => k \in b.control /\ b.parent[k] = NoId
               /\ k \in Bolts /\ k \in b.alive => k \notin b.control
               /\ k \notin b.online => k \in b.control
    BY <1>5, <2>2 DEF Orderly, Living
  <2>3. /\ o \in b.alive <=> b.ID[o] \in Ids
        /\ o \notin b.alive => b.parent[o] = NoId /\ o \notin b.online /\ o \in b.control
        /\ o \in Holders => o \in b.control /\ b.parent[o] = NoId
        /\ o \in Bolts /\ o \in b.alive => o \notin b.control
        /\ o \notin b.online => o \in b.control
    BY <1>5, <1>9, Kinds DEF MaySpawn
  <2>4. QED
    BY <2>1, <2>2, <2>3 DEF Living
<1>11. Tabled(b)
  <2>1. /\ b.ent = IF on THEN a.ent \cup {o} ELSE a.ent \ {o}
        /\ b.online = IF on THEN a.online \cup {o} ELSE a.online \ {o}
    BY <1>2 DEF SpawnedIs
  <2>2. b.ent = b.online
    BY <2>1 DEF Orderly, Tabled
  <2>3. b.reg = b.alive \cap b.control
    <3>1. /\ b.alive = a.alive \cup {o} /\ a.reg = a.alive \cap a.control
          /\ b.control = IF known THEN a.control \cup {o} ELSE a.control \ {o}
          /\ b.reg = IF known THEN a.reg \cup {o} ELSE a.reg \ {o}
      BY <1>2 DEF SpawnedIs, Orderly, Tabled
    <3>2. QED
      BY <1>1, <3>1
  <2>4. b.lev = {k \in b.reg : b.parent[k] = NoId}
    <3>1. /\ b.lev = IF known /\ x = NoId THEN a.lev \cup {o} ELSE a.lev \ {o}
          /\ b.reg = IF known THEN a.reg \cup {o} ELSE a.reg \ {o}
          /\ a.lev = {k \in a.reg : a.parent[k] = NoId}
      BY <1>2 DEF SpawnedIs, Orderly, Tabled
    <3>2. QED
      BY <1>0, <1>5, <3>1
  <2>5. b.pts = b.lev \ b.online
    <3>1. /\ b.lev = IF known /\ x = NoId THEN a.lev \cup {o} ELSE a.lev \ {o}
          /\ b.pts = IF known /\ x = NoId /\ ~on THEN a.pts \cup {o} ELSE a.pts \ {o}
          /\ a.pts = a.lev \ a.online
      BY <1>2 DEF SpawnedIs, Orderly, Tabled
    <3>2. QED
      BY <2>1, <3>1
  <2>6. QED
    BY <2>2, <2>3, <2>4, <2>5 DEF Tabled
<1>12. Families(b)
  <2>1. ASSUME NEW h \in Objects, NEW i \in ToSet(b.children[h])
        PROVE  \E k \in Goods : b.ID[k] = i
    <3>1. CASE i \in ToSet(a.children[h])
      <4>1. PICK k \in Goods : a.ID[k] = i
        BY <3>1 DEF Orderly, Families
      <4>2. i \in Ids
        <5>1. a.children[h] \in Seq(Ids)
          BY <1>0
        <5>2. QED
          BY <3>1, <5>1, ToSetProperties
      <4>3. k # o
        BY <1>1, <4>1, <4>2, Kinds
      <4>4. QED
        BY <1>5, <4>1, <4>3, Kinds
    <3>2. CASE i \notin ToSet(a.children[h])
      <4>1. x # NoId /\ i = id
        BY <1>8, <2>1, <3>2
      <4>2. QED
        BY <1>5, <1>9, <4>1
    <3>3. QED
      BY <3>1, <3>2
  <2>2. ASSUME NEW k \in Goods, b.parent[k] # NoId
        PROVE  \E h \in Holders : b.ID[h] = b.parent[k]
    <3>1. PICK h \in Holders : a.ID[h] = b.parent[k]
      BY <1>5, <1>9, <2>2, Kinds DEF Orderly, Families
    <3>2. h # o
      BY <1>1, <2>2, <3>1
    <3>3. QED
      BY <1>5, <3>1, <3>2, Kinds
  <2>3. ASSUME NEW h \in Holders, NEW k \in Goods, h \in b.alive, k \in b.alive
        PROVE  /\ b.ID[k] \in ToSet(b.children[h]) <=> b.parent[k] = b.ID[h]
               /\ b.parent[k] = b.ID[h] => (k \in b.online <=> h \in b.online)
    <3>1. h \in Objects /\ k \in Objects /\ h # k
      BY Kinds
    <3>2. CASE h = o
      <4>1. b.children[h] = <<>> /\ b.ID[h] = id
        BY <1>1, <1>5, <1>7, <3>1, <3>2
      <4>2. ToSet(b.children[h]) = {}
        BY <4>1, EmptyUnique
      <4>3. b.parent[k] # id
        <5>1. k # o /\ b.parent[k] = a.parent[k]
          BY <1>5, <3>1, <3>2
        <5>2. QED
          BY <1>4, <5>1, Kinds DEF Orderly, Families
      <4>4. QED
        BY <4>1, <4>2, <4>3
    <3>3. CASE h # o /\ k = o
      <4>1. b.ID[k] = id /\ b.parent[k] = x /\ b.ID[h] = a.ID[h] /\ a.ID[h] # NoId /\ h \in a.alive
        <5>1. h \in a.alive
          BY <1>5, <2>3, <3>1, <3>3
        <5>2. a.ID[h] \in Ids
          BY <3>1, <5>1 DEF Orderly, Living
        <5>3. QED
          BY <1>5, <3>1, <3>3, <5>1, <5>2, Kinds
      <4>2. id \notin ToSet(a.children[h])
        BY <1>4, Kinds DEF Orderly, Families
      <4>3. id \in ToSet(b.children[h]) <=> x # NoId /\ a.ID[h] = x
        BY <1>8, <3>1, <4>2
      <4>4. ASSUME x = a.ID[h]
            PROVE  on <=> h \in a.online
        <5>1. PICK g \in Holders : a.ID[g] = x /\ (on <=> g \in a.online)
          BY <1>9, <4>1, <4>4
        <5>2. g = h
          BY <4>1, <4>4, <5>1, Kinds DEF Unique
        <5>3. QED
          BY <5>1, <5>2
      <4>5. QED
        BY <1>5, <3>1, <3>3, <4>1, <4>3, <4>4
    <3>4. CASE h # o /\ k # o
      <4>1. /\ b.ID[k] = a.ID[k] /\ b.ID[h] = a.ID[h] /\ b.parent[k] = a.parent[k]
            /\ h \in a.alive /\ k \in a.alive /\ a.ID[k] # id
            /\ k \in b.online <=> k \in a.online
            /\ h \in b.online <=> h \in a.online
        BY <1>4, <1>5, <2>3, <3>1, <3>4
      <4>2. a.ID[k] \in ToSet(b.children[h]) <=> a.ID[k] \in ToSet(a.children[h])
        BY <1>8, <3>1, <4>1
      <4>3. /\ a.ID[k] \in ToSet(a.children[h]) <=> a.parent[k] = a.ID[h]
            /\ a.parent[k] = a.ID[h] => (k \in a.online <=> h \in a.online)
        BY <4>1 DEF Orderly, Families
      <4>4. QED
        BY <4>1, <4>2, <4>3
    <3>5. QED
      BY <3>2, <3>3, <3>4
  <2>4. \A h \in Objects : IsInjective(b.children[h])
    BY <1>8
  <2>5. QED
    BY <2>1, <2>2, <2>3, <2>4 DEF Families
<1>13. PoolFits(b)
  <2>1. b.pool = Tail(a.pool)
    BY <1>2 DEF SpawnedIs
  <2>2. IsInjective(b.pool) /\ ToSet(b.pool) = ToSet(a.pool) \ {id}
    BY <1>3, <2>1
  <2>3. ASSUME NEW i \in Ids
        PROVE  i \in ToSet(b.pool) <=> \A k \in Objects : b.ID[k] # i
    <3>1. i \in ToSet(a.pool) <=> \A k \in Objects : a.ID[k] # i
      BY DEF Orderly, PoolFits
    <3>2. CASE i = id
      BY <1>5, <2>2, <3>2
    <3>3. CASE i # id
      <4>1. \A k \in Objects : a.ID[k] # i <=> b.ID[k] # i
        BY <1>1, <1>5, <3>3, Kinds
      <4>2. QED
        BY <2>2, <3>1, <3>3, <4>1
    <3>4. QED
      BY <3>2, <3>3
  <2>4. QED
    BY <2>2, <2>3 DEF PoolFits
<1>14. QED
  BY <1>2, <1>6, <1>10, <1>11, <1>12, <1>13 DEF Orderly

-----------------------------------------------------------------------------
(* Registration. *)

LEMMA SameCensus ==
    ASSUME NEW a \in Censuses, NEW b \in Censuses,
           a.alive = b.alive, a.ID = b.ID, a.parent = b.parent, a.children = b.children,
           a.online = b.online, a.control = b.control, a.ent = b.ent, a.reg = b.reg,
           a.lev = b.lev, a.pts = b.pts, a.pool = b.pool
    PROVE  a = b
BY DEF Censuses

\* Who is registered exists and has an id.
Grounded(a) == \A o \in a.reg : o \in a.alive /\ a.ID[o] \in Ids

LEMMA OrderlyGrounded ==
    ASSUME NEW a \in Censuses, Orderly(a)
    PROVE  Grounded(a)
<1>1. a.alive \in SUBSET Objects
  BY CensusFields
<1>2. QED
  BY <1>1 DEF Grounded, Orderly, Living, Tabled

LEMMA RegisteredIs ==
    ASSUME NEW w, NEW a, Shows(w, a), Grounded(a), NEW x \in Ids \cup {NoId}
    PROVE  /\ Registered(w, x) \in Objects \cup {None}
           /\ \A o \in Objects : Registered(w, x) = o <=> o \in a.reg /\ a.ID[o] = x
<1>1. /\ a.reg \in SUBSET Objects /\ w.registry \in [Ids -> Objects \cup {None}]
      /\ Lists(w.registry, a.reg, a.ID) /\ \A o \in Objects : w.alive[o] <=> o \in a.alive
  BY DEF Shows, Censuses, Worlds
<1>2. CASE x = NoId
  BY <1>1, <1>2, Kinds DEF Registered, Grounded
<1>3. CASE x \in Ids
  <2>1. w.registry[x] \in Objects => w.registry[x] \in a.reg /\ w.alive[w.registry[x]]
    BY <1>1, <1>3 DEF Lists, Grounded
  <2>2. Registered(w, x) = w.registry[x]
    BY <1>1, <1>3, <2>1, Kinds DEF Registered
  <2>3. QED
    BY <1>1, <1>3, <2>2 DEF Lists
<1>4. QED
  BY <1>2, <1>3

LEMMA OnlineShows ==
    ASSUME NEW w, NEW a, Shows(w, a), NEW o \in Objects, NEW on \in BOOLEAN
    PROVE  Shows([w EXCEPT !.online[o] = on], Flagged(a, o, on, w.control[o]))
<1>1. w \in Worlds /\ w.control[o] \in BOOLEAN
  BY DEF Shows, Worlds
<1>2. [w EXCEPT !.online[o] = on, !.control[o] = w.control[o]] = [w EXCEPT !.online[o] = on]
  BY <1>1 DEF Worlds
<1>3. Shows([w EXCEPT !.online[o] = on, !.control[o] = w.control[o]], Flagged(a, o, on, w.control[o]))
  BY <1>1, FlaggedShows, ZenonT(60)
<1>4. QED
  BY <1>2, <1>3

LEMMA ControlShows ==
    ASSUME NEW w, NEW a, Shows(w, a), NEW o \in Objects, NEW known \in BOOLEAN
    PROVE  Shows([w EXCEPT !.control[o] = known], Flagged(a, o, w.online[o], known))
<1>1. w \in Worlds /\ w.online[o] \in BOOLEAN
  BY DEF Shows, Worlds
<1>2. [w EXCEPT !.online[o] = w.online[o], !.control[o] = known] = [w EXCEPT !.control[o] = known]
  BY <1>1 DEF Worlds
<1>3. Shows([w EXCEPT !.online[o] = w.online[o], !.control[o] = known], Flagged(a, o, w.online[o], known))
  BY <1>1, FlaggedShows, ZenonT(60)
<1>4. QED
  BY <1>2, <1>3

Endows(a, p, s) == [a EXCEPT !.children[p] = s]
Parented(a, o, x) == [a EXCEPT !.parent[o] = x]

LEMMA ChildrenShows ==
    ASSUME NEW w, NEW a, Shows(w, a), NEW p \in Objects, NEW s \in Seq(Ids)
    PROVE  Shows([w EXCEPT !.children[p] = s], Endows(a, p, s))
<1> DEFINE v == [w EXCEPT !.children[p] = s]
           b == Endows(a, p, s)
<1>1. v \in Worlds
  BY DEF Shows, Worlds
<1>2. b \in Censuses
  BY DEF Shows, Censuses, Endows
<1>3. v.ID_Parent = b.parent /\ v.children = b.children
  BY DEF Shows, Worlds, Censuses, Endows
<1>4. QED
  BY <1>1, <1>2, <1>3 DEF Shows, Worlds, Censuses, Endows

LEMMA ParentShows ==
    ASSUME NEW w, NEW a, Shows(w, a), NEW o \in Objects, NEW x \in Ids \cup {NoId}
    PROVE  Shows([w EXCEPT !.ID_Parent[o] = x], Parented(a, o, x))
<1> DEFINE v == [w EXCEPT !.ID_Parent[o] = x]
           b == Parented(a, o, x)
<1>1. v \in Worlds
  BY DEF Shows, Worlds
<1>2. b \in Censuses
  BY DEF Shows, Censuses, Parented
<1>3. v.ID_Parent = b.parent /\ v.children = b.children
  BY DEF Shows, Worlds, Censuses, Parented
<1>4. QED
  BY <1>1, <1>2, <1>3 DEF Shows, Worlds, Censuses, Parented

\* register_object of somebody whom nobody owns.
Registers(c, o) == Enlisted(Placed(Known(c, o), o), o)

LEMMA RegisterShows ==
    ASSUME NEW w, NEW c, Shows(w, c), NEW o \in Objects, c.ID[o] \in Ids, ~Attached(w, o)
    PROVE  Shows(register_object(w, o), Registers(c, o))
<1>1. w.ID = c.ID
  BY DEF Shows
<1> DEFINE v == [w EXCEPT !.registry[c.ID[o]] = o]
           d == Known(c, o)
<1>2. Shows(v, d)
  BY RegShows
<1>3. d.ID[o] \in Ids
  BY DEF Shows, Censuses, Known
<1>4. register_object(w, o) = GraphAdd(v, o, TRUE)
  BY <1>1 DEF register_object
<1> HIDE DEF v, d
<1>5. Shows(GraphAdd(v, o, TRUE), Enlisted(Placed(d, o), o))
  BY <1>2, <1>3, GraphAddShows
<1>6. QED
  BY <1>4, <1>5 DEF d, Registers

BornIs(a, c, o, x) ==
    /\ c.alive = a.alive \cup {o} /\ c.ID = [a.ID EXCEPT ![o] = Head(a.pool)]
    /\ c.parent = [a.parent EXCEPT ![o] = x] /\ c.pool = Tail(a.pool)
    /\ c.children = a.children /\ c.online = a.online /\ c.control = a.control
    /\ c.ent = a.ent /\ c.reg = a.reg /\ c.lev = a.lev /\ c.pts = a.pts

\* PerformIDgen for somebody who has not existed.
LEMMA BirthShows ==
    ASSUME NEW w, NEW a, Shows(w, a), Orderly(a), NEW o \in Objects, o \notin a.alive,
           NEW x \in Ids \cup {NoId}, a.pool # <<>>
    PROVE  /\ Shows([PerformIDgen(w, o) EXCEPT !.alive[o] = TRUE, !.ID_Parent[o] = x], Born(a, o, x))
           /\ Shows(PerformIDgen([w EXCEPT !.alive[o] = TRUE, !.ID_Parent[o] = x], o), Born(a, o, x))
           /\ Head(a.pool) \in Ids /\ Born(a, o, x) \in Censuses /\ BornIs(a, Born(a, o, x), o, x)
           /\ \A k \in Objects : a.ID[k] # Head(a.pool)
<1>1. a \in Censuses
  BY DEF Shows
<1>2. /\ a.pool \in Seq(Ids) /\ a.alive \in SUBSET Objects /\ a.online \in SUBSET Objects
      /\ a.ID \in [Objects -> Ids \cup {NoId}]
  BY <1>1, CensusFields
<1>3. Head(a.pool) \in Ids /\ Head(a.pool) \in ToSet(a.pool)
  BY <1>2, TailUnique
<1>4. \A k \in Objects : a.ID[k] # Head(a.pool)
  BY <1>3 DEF Orderly, PoolFits
<1>5. a.ID[o] = NoId /\ o \notin a.ent /\ o \notin a.reg /\ o \notin a.lev /\ o \notin a.pts
  BY <1>2 DEF Orderly, Living, Tabled
<1>6. /\ Shows([PerformIDgen(w, o) EXCEPT !.alive[o] = TRUE, !.ID_Parent[o] = x], Born(a, o, x))
      /\ Shows(PerformIDgen([w EXCEPT !.alive[o] = TRUE, !.ID_Parent[o] = x], o), Born(a, o, x))
  BY <1>4, <1>5, BornShows, ZenonT(60)
<1>7. Born(a, o, x) \in Censuses
  BY <1>6 DEF Shows
<1>8. BornIs(a, Born(a, o, x), o, x)
  BY <1>1, <1>7 DEF Born, BornIs, Censuses
<1>9. QED
  BY <1>3, <1>4, <1>6, <1>7, <1>8

\* spawn_item: offline, registered at once.
LEMMA SpawnItemShows ==
    ASSUME NEW w, NEW a, Shows(w, a), Orderly(a), NEW o \in Objects, NEW x,
           MaySpawn(a, o, x, FALSE, TRUE)
    PROVE  Shows(spawn_item(w, o, x), Spawned(a, o, x, FALSE, TRUE))
<1> DEFINE v == [PerformIDgen(w, o) EXCEPT !.alive[o] = TRUE, !.ID_Parent[o] = x]
           c == Born(a, o, x)
           id == Head(a.pool)
<1>0. a \in Censuses
  BY DEF Shows
<1>1. /\ a.alive \in SUBSET Objects /\ a.online \in SUBSET Objects
      /\ a.control \in SUBSET Objects /\ a.ent \in SUBSET Objects
      /\ a.reg \in SUBSET Objects /\ a.lev \in SUBSET Objects /\ a.pts \in SUBSET Objects
      /\ a.ID \in [Objects -> Ids \cup {NoId}] /\ a.parent \in [Objects -> Ids \cup {NoId}]
      /\ a.children \in [Objects -> Seq(Ids)] /\ a.pool \in Seq(Ids)
  BY <1>0, CensusFields
<1>2. x \in Ids \cup {NoId} /\ a.pool # <<>> /\ o \notin a.alive /\ o \notin Bolts
  BY DEF MaySpawn
<1>3. /\ Shows(v, c) /\ id \in Ids /\ c \in Censuses /\ BornIs(a, c, o, x)
      /\ \A k \in Objects : a.ID[k] # id
  BY <1>2, BirthShows, ZenonT(60)
<1>4. /\ Spawned(a, o, x, FALSE, TRUE) \in Censuses
      /\ SpawnedIs(a, Spawned(a, o, x, FALSE, TRUE), o, x, FALSE, TRUE)
  BY <1>0, <1>2, SpawnedFields
<1>5. spawn_item(w, o, x) = register_object(v, o)
  BY DEF spawn_item
<1> HIDE DEF v, c, id
<1>6. v.ID_Parent = c.parent /\ v.ID = c.ID /\ c.ID[o] = id /\ c.parent[o] = x /\ v.children = c.children
  BY <1>1, <1>3 DEF Shows, BornIs, id
<1>7. /\ o \notin a.online /\ o \notin a.reg /\ o \notin a.lev /\ o \notin a.pts /\ o \notin a.ent
      /\ o \in a.control
  BY <1>1, <1>2 DEF Orderly, Living, Tabled
<1>8. CASE x = NoId
  <2>1. ~Attached(v, o)
    BY <1>6, <1>8 DEF Attached
  <2>2. Shows(register_object(v, o), Registers(c, o))
    BY <1>3, <1>6, <2>1, RegisterShows
  <2>3. Registers(c, o) \in Censuses
    BY <2>2 DEF Shows
  <2> DEFINE d == Registers(c, o)
  <2>4. /\ d.alive = c.alive /\ d.ID = c.ID /\ d.parent = c.parent /\ d.children = c.children
        /\ d.online = c.online /\ d.control = c.control /\ d.ent = c.ent
        /\ d.reg = c.reg \cup {o} /\ d.lev = c.lev \cup {o} /\ d.pts = c.pts \cup {o}
        /\ d.pool = c.pool
    BY <1>2, <1>3, <1>7 DEF Registers, Enlisted, Placed, Known, Censuses, BornIs, UsesLocations
  <2>5. Endowed(a, x, id) = a.children
    BY <1>1, <1>8 DEF Endowed
  <2> HIDE DEF d
  <2>6. d = Spawned(a, o, x, FALSE, TRUE)
    <3> DEFINE b == Spawned(a, o, x, FALSE, TRUE)
    <3>1. b \in Censuses /\ SpawnedIs(a, b, o, x, FALSE, TRUE) /\ d \in Censuses
      BY <1>4, <2>3 DEF d
    <3> HIDE DEF b
    <3>2. /\ d.alive = b.alive /\ d.ID = b.ID /\ d.parent = b.parent /\ d.children = b.children
          /\ d.online = b.online /\ d.control = b.control /\ d.ent = b.ent /\ d.reg = b.reg
          /\ d.lev = b.lev /\ d.pts = b.pts /\ d.pool = b.pool
      BY <1>3, <1>7, <1>8, <2>4, <2>5, <3>1 DEF SpawnedIs, BornIs, id
    <3>3. d = b
      BY <3>1, <3>2, SameCensus
    <3>4. QED
      BY <3>3 DEF b
  <2>7. QED
    BY <1>5, <2>2, <2>6 DEF d
<1>9. CASE x # NoId
  <2>1. PICK h \in Holders : a.ID[h] = x /\ h \notin a.online
    BY <1>9 DEF MaySpawn
  <2>2. o \in Goods /\ Attached(v, o) /\ h \in Objects /\ h # o
    BY <1>6, <1>9, Kinds DEF Attached, MaySpawn
  <2>3. h \in a.reg
    BY <1>2, <1>9, <2>1, <2>2 DEF Orderly, Living, Tabled
  <2> DEFINE u == [v EXCEPT !.registry[c.ID[o]] = o]
             d == Known(c, o)
  <2>4. Shows(u, d)
    BY <1>3, <1>6, RegShows
  <2>5. d \in Censuses
    BY <2>4 DEF Shows
  <2>6. /\ d.alive = c.alive /\ d.ID = c.ID /\ d.parent = c.parent /\ d.children = c.children
        /\ d.online = c.online /\ d.control = c.control /\ d.ent = c.ent
        /\ d.reg = c.reg \cup {o} /\ d.lev = c.lev /\ d.pts = c.pts /\ d.pool = c.pool
    BY <1>3 DEF Known, Censuses
  <2>7. u.children = a.children
    BY <1>3, <1>6 DEF Shows, Worlds, BornIs
  <2>8. u = [v EXCEPT !.registry[v.ID[o]] = o] /\ v.ID[o] = id
    BY <1>6
  <2> HIDE DEF u, d
  <2>9. Grounded(d) /\ d.ID[h] = x /\ h \in d.reg
    BY <1>1, <1>3, <1>6, <2>1, <2>2, <2>3, <2>6, OrderlyGrounded, <1>0 DEF Grounded, BornIs
  <2>10. Registered(u, x) = h
    BY <1>2, <2>2, <2>4, <2>9, RegisteredIs
  <2>11. h # None
    BY <2>2, Kinds
  <2> DEFINE s == Append(a.children[h], id)
  <2>12. s \in Seq(Ids)
    <3>1. a.children[h] \in Seq(Ids)
      BY <1>1, <2>2
    <3>2. QED
      BY <1>3, <3>1, AppendProperties
  <2>13. register_object(v, o) = [u EXCEPT !.children[h] = s]
    <3>1. v.ID_Parent[o] = x
      BY <1>6
    <3>2. register_object(v, o) = [u EXCEPT !.children[h] = Append(@, id)]
      BY <2>2, <2>8, <2>10, <2>11, <3>1 DEF register_object
    <3>3. QED
      BY <2>7, <3>2
  <2> HIDE DEF s
  <2>14. Shows(register_object(v, o), Endows(d, h, s))
    BY <2>2, <2>4, <2>12, <2>13, ChildrenShows
  <2>15. Endows(d, h, s) = Spawned(a, o, x, FALSE, TRUE)
    <3> DEFINE b == Spawned(a, o, x, FALSE, TRUE)
               e == Endows(d, h, s)
    <3>1. b \in Censuses /\ SpawnedIs(a, b, o, x, FALSE, TRUE) /\ e \in Censuses
      BY <1>4, <2>14 DEF Shows
    <3>2. /\ e.alive = d.alive /\ e.ID = d.ID /\ e.parent = d.parent
          /\ e.children = [d.children EXCEPT ![h] = s] /\ e.online = d.online
          /\ e.control = d.control /\ e.ent = d.ent /\ e.reg = d.reg /\ e.lev = d.lev
          /\ e.pts = d.pts /\ e.pool = d.pool
      BY <2>5 DEF Endows, Censuses
    <3> HIDE DEF b, e
    <3>3. e.children = b.children
      <4>1. \A k \in Objects : a.ID[k] = x <=> k = h
        BY <1>9, <2>1, <2>2 DEF Shows, Unique
      <4>2. Endowed(a, x, id) = [a.children EXCEPT ![h] = s]
        BY <1>1, <1>9, <2>2, <4>1 DEF Endowed, s
      <4>3. QED
        BY <1>3, <2>6, <3>1, <3>2, <4>2 DEF BornIs, SpawnedIs, id
    <3>4. /\ e.alive = b.alive /\ e.ID = b.ID /\ e.parent = b.parent
          /\ e.online = b.online /\ e.control = b.control /\ e.ent = b.ent /\ e.reg = b.reg
          /\ e.lev = b.lev /\ e.pts = b.pts /\ e.pool = b.pool
      BY <1>3, <1>7, <1>9, <2>6, <3>1, <3>2 DEF SpawnedIs, BornIs
    <3>5. e = b
      BY <3>1, <3>3, <3>4, SameCensus
    <3>6. QED
      BY <3>5 DEF b, e
  <2>16. QED
    BY <1>5, <2>14, <2>15
<1>10. QED
  BY <1>8, <1>9, ZenonT(60)

\* Process_spawn: the entity is there and online, before ALife hears of it.
Arriving(a, o, x) == Flagged(Entered(Born(a, o, x), o), o, TRUE, TRUE)

ArrivingIs(a, f, o, x) ==
    /\ f.alive = a.alive \cup {o} /\ f.ID = [a.ID EXCEPT ![o] = Head(a.pool)]
    /\ f.parent = [a.parent EXCEPT ![o] = x] /\ f.pool = Tail(a.pool)
    /\ f.children = a.children /\ f.online = a.online \cup {o} /\ f.control = a.control
    /\ f.ent = a.ent \cup {o} /\ f.reg = a.reg /\ f.lev = a.lev /\ f.pts = a.pts

\* OnCreate of such an entity.
Met(here, o, x) ==
    IF x = NoId \/ Registered(here, x) \in Traders \cup Boxes
    THEN create(here, o) ELSE [here EXCEPT !.control[o] = FALSE]

LEMMA ArrivalShows ==
    ASSUME NEW w, NEW a, Shows(w, a), Orderly(a), NEW o \in Objects, o \notin a.alive,
           NEW x \in Ids \cup {NoId}, a.pool # <<>>
    PROVE  \E here :
              /\ Shows(here, Arriving(a, o, x)) /\ ArrivingIs(a, Arriving(a, o, x), o, x)
              /\ Arriving(a, o, x) \in Censuses /\ Grounded(Arriving(a, o, x))
              /\ SpawnFromMessage(w, o, x) =
                    IF x = NoId THEN Met(here, o, x)
                    ELSE IF w.entities[x] = None THEN w
                    ELSE [OnTouch(Met(here, o, x), w.entities[x], o)
                             EXCEPT !.children[w.entities[x]] = Append(@, Met(here, o, x).ID[o])]
<1> DEFINE born == PerformIDgen([w EXCEPT !.alive[o] = TRUE, !.ID_Parent[o] = x], o)
           c == Born(a, o, x)
           v == [born EXCEPT !.entities[born.ID[o]] = o]
           e == Entered(c, o)
           here == [v EXCEPT !.online[o] = TRUE]
           f == Arriving(a, o, x)
<1>0. a \in Censuses
  BY DEF Shows
<1>1. /\ a.alive \in SUBSET Objects /\ a.online \in SUBSET Objects
      /\ a.control \in SUBSET Objects /\ a.ent \in SUBSET Objects
      /\ a.reg \in SUBSET Objects /\ a.lev \in SUBSET Objects /\ a.pts \in SUBSET Objects
      /\ a.ID \in [Objects -> Ids \cup {NoId}] /\ a.parent \in [Objects -> Ids \cup {NoId}]
      /\ a.children \in [Objects -> Seq(Ids)] /\ a.pool \in Seq(Ids)
  BY <1>0, CensusFields
<1>2. /\ Shows(born, c) /\ Head(a.pool) \in Ids /\ c \in Censuses /\ BornIs(a, c, o, x)
      /\ \A k \in Objects : a.ID[k] # Head(a.pool)
  BY BirthShows, ZenonT(60)
<1>3. SpawnFromMessage(w, o, x) =
         IF x = NoId THEN OnCreate(v, o)
         ELSE IF w.entities[x] = None THEN w
         ELSE [OnTouch(OnCreate(v, o), w.entities[x], o)
                  EXCEPT !.children[w.entities[x]] = Append(@, OnCreate(v, o).ID[o])]
  BY DEF SpawnFromMessage
<1> HIDE DEF born, c
<1>4. c.ID[o] = Head(a.pool) /\ born.ID = c.ID
  BY <1>1, <1>2 DEF BornIs, Shows
<1>5. Shows(v, e)
  BY <1>2, <1>4, EntShows
<1>6. e \in Censuses
  BY <1>5 DEF Shows
<1>7. /\ e.alive = c.alive /\ e.ID = c.ID /\ e.parent = c.parent /\ e.pool = c.pool
      /\ e.children = c.children /\ e.online = c.online /\ e.control = c.control
      /\ e.ent = c.ent \cup {o} /\ e.reg = c.reg /\ e.lev = c.lev /\ e.pts = c.pts
  BY <1>2, <1>6 DEF Entered, Censuses
<1> HIDE DEF v, e
<1>8. o \in a.control
  BY DEF Orderly, Living
<1>9. v.control[o] = TRUE /\ v.ID_Parent[o] = x
  <2>1. v.ID_Parent = e.parent /\ (v.control[o] <=> o \in e.control) /\ v \in Worlds
    BY <1>5 DEF Shows
  <2>2. v.control[o] \in BOOLEAN
    BY <2>1 DEF Worlds
  <2>3. QED
    BY <1>1, <1>2, <1>7, <1>8, <2>1, <2>2 DEF BornIs
<1>10. Shows(here, f)
  <2>1. Shows(here, Flagged(e, o, TRUE, v.control[o]))
    BY <1>5, OnlineShows
  <2>2. f = Flagged(e, o, TRUE, TRUE)
    BY DEF Arriving, e, c
  <2>3. QED
    BY <1>9, <2>1, <2>2
<1>11. f \in Censuses
  BY <1>10 DEF Shows
<1>12. ArrivingIs(a, f, o, x)
  <2>1. f = Flagged(e, o, TRUE, TRUE)
    BY DEF Arriving, e, c
  <2>2. /\ f.alive = e.alive /\ f.ID = e.ID /\ f.parent = e.parent /\ f.pool = e.pool
        /\ f.children = e.children /\ f.online = e.online \cup {o} /\ f.control = e.control \cup {o}
        /\ f.ent = e.ent /\ f.reg = e.reg /\ f.lev = e.lev /\ f.pts = e.pts
    BY <1>6, <2>1 DEF Flagged, Censuses
  <2> HIDE DEF f
  <2>3. f.control = a.control
    BY <1>2, <1>7, <1>8, <2>2 DEF BornIs
  <2>4. QED
    BY <1>2, <1>7, <2>2, <2>3 DEF BornIs, ArrivingIs
<1>13. Grounded(f)
  <2> HIDE DEF f
  <2>1. Grounded(a)
    BY <1>0, OrderlyGrounded
  <2>2. QED
    BY <1>1, <1>2, <1>12, <2>1 DEF Grounded, ArrivingIs
<1>14. OnCreate(v, o) = Met(here, o, x)
  <2>1. Registered(here, x) = Registered(v, x)
    BY <1>5 DEF Registered, Shows, Worlds
  <2>2. here.ID_Parent[o] = x
    BY <1>9, <1>5 DEF Shows, Worlds
  <2>3. QED
    BY <1>9, <2>1 DEF OnCreate, Met
<1>15. QED
  BY <1>3, <1>10, <1>11, <1>12, <1>13, <1>14, ZenonT(60)

\* A client spawns somebody by himself.
LEMMA SpawnAloneShows ==
    ASSUME NEW w, NEW a, Shows(w, a), Orderly(a), NEW o \in Objects, o \notin a.alive,
           a.pool # <<>>, NEW known \in BOOLEAN, known <=> o \notin Bolts
    PROVE  Shows(SpawnFromMessage(w, o, NoId), Spawned(a, o, NoId, TRUE, known))
<1> DEFINE f == Arriving(a, o, NoId)
           b == Spawned(a, o, NoId, TRUE, known)
<1>0. a \in Censuses
  BY DEF Shows
<1>1. /\ a.alive \in SUBSET Objects /\ a.online \in SUBSET Objects
      /\ a.control \in SUBSET Objects /\ a.ent \in SUBSET Objects
      /\ a.reg \in SUBSET Objects /\ a.lev \in SUBSET Objects /\ a.pts \in SUBSET Objects
      /\ a.ID \in [Objects -> Ids \cup {NoId}] /\ a.parent \in [Objects -> Ids \cup {NoId}]
      /\ a.children \in [Objects -> Seq(Ids)] /\ a.pool \in Seq(Ids)
  BY <1>0, CensusFields
<1>2. NoId \in Ids \cup {NoId}
  OBVIOUS
<1>3. PICK here : /\ Shows(here, f) /\ ArrivingIs(a, f, o, NoId) /\ f \in Censuses /\ Grounded(f)
                  /\ SpawnFromMessage(w, o, NoId) = Met(here, o, NoId)
  BY <1>2, ArrivalShows
<1>4. b \in Censuses /\ SpawnedIs(a, b, o, NoId, TRUE, known)
  BY <1>0, <1>2, SpawnedFields
<1>5. /\ o \notin a.online /\ o \notin a.reg /\ o \notin a.lev /\ o \notin a.pts /\ o \notin a.ent
      /\ o \in a.control
  BY <1>1 DEF Orderly, Living, Tabled
<1> HIDE DEF f, b
<1>6. Endowed(a, NoId, Head(a.pool)) = a.children
  BY <1>1 DEF Endowed
<1>7. /\ b.alive = f.alive /\ b.ID = f.ID /\ b.parent = f.parent /\ b.children = f.children
      /\ b.online = f.online /\ b.ent = f.ent /\ b.pool = f.pool /\ b.pts = f.pts
      /\ b.control = IF known THEN f.control ELSE f.control \ {o}
      /\ b.reg = IF known THEN f.reg \cup {o} ELSE f.reg
      /\ b.lev = IF known THEN f.lev \cup {o} ELSE f.lev
  <2>1. a.reg \ {o} = a.reg /\ a.lev \ {o} = a.lev /\ a.pts \ {o} = a.pts
    BY <1>5
  <2>2. /\ b.online = a.online \cup {o} /\ b.ent = a.ent \cup {o} /\ b.pts = a.pts
        /\ b.reg = IF known THEN a.reg \cup {o} ELSE a.reg
        /\ b.lev = IF known THEN a.lev \cup {o} ELSE a.lev
    BY <1>4, <2>1 DEF SpawnedIs
  <2>3. b.control = IF known THEN a.control ELSE a.control \ {o}
    <3>1. a.control \cup {o} = a.control
      BY <1>5
    <3>2. QED
      BY <1>4, <3>1 DEF SpawnedIs
  <2>4. b.children = a.children
    BY <1>4, <1>6 DEF SpawnedIs
  <2>5. QED
    BY <1>3, <1>4, <2>2, <2>3, <2>4 DEF ArrivingIs, SpawnedIs
<1>8. o \in f.online /\ f.ID[o] \in Ids /\ f.parent[o] = NoId
  <2>1. Head(a.pool) \in Ids
    BY <1>1, HeadTailProperties
  <2>2. QED
    BY <1>1, <1>3, <2>1 DEF ArrivingIs
<1>9. CASE known
  <2>1. Registered(here, NoId) = None
    BY DEF Registered
  <2>2. here.ID_Parent[o] = NoId
    BY <1>3, <1>8 DEF Shows
  <2>3. Met(here, o, NoId) = register_object(here, o)
    BY <1>9, <2>1, <2>2 DEF Met, create, CanSave
  <2>4. ~Attached(here, o)
    BY <2>2 DEF Attached
  <2>5. Shows(register_object(here, o), Registers(f, o))
    BY <1>3, <1>8, <2>4, RegisterShows
  <2>6. Registers(f, o) \in Censuses
    BY <2>5 DEF Shows
  <2> DEFINE d == Registers(f, o)
  <2>7. /\ d.alive = f.alive /\ d.ID = f.ID /\ d.parent = f.parent /\ d.children = f.children
        /\ d.online = f.online /\ d.control = f.control /\ d.ent = f.ent
        /\ d.reg = f.reg \cup {o} /\ d.lev = f.lev \cup {o} /\ d.pts = f.pts /\ d.pool = f.pool
    BY <1>3, <1>8 DEF Registers, Enlisted, Placed, Known, Censuses
  <2>8. d \in Censuses
    BY <2>6
  <2> HIDE DEF d
  <2>9. d = b
    BY <1>4, <1>7, <1>9, <2>7, <2>8, SameCensus, ZenonT(60)
  <2>10. QED
    BY <1>3, <2>3, <2>5, <2>9 DEF d, b
<1>10. CASE ~known
  <2>1. Met(here, o, NoId) = [here EXCEPT !.control[o] = FALSE]
    BY <1>10 DEF Met, create, CanSave
  <2>2. here.online[o] = TRUE
    BY <1>3, <1>8 DEF Shows, Worlds
  <2>3. Shows([here EXCEPT !.control[o] = FALSE], Flagged(f, o, TRUE, FALSE))
    BY <1>3, <2>2, ControlShows
  <2> DEFINE d == Flagged(f, o, TRUE, FALSE)
  <2>4. d \in Censuses
    BY <2>3 DEF Shows
  <2>5. /\ d.alive = f.alive /\ d.ID = f.ID /\ d.parent = f.parent /\ d.children = f.children
        /\ d.online = f.online \cup {o} /\ d.control = f.control \ {o} /\ d.ent = f.ent
        /\ d.reg = f.reg /\ d.lev = f.lev /\ d.pts = f.pts /\ d.pool = f.pool
    BY <1>3 DEF Flagged, Censuses
  <2> HIDE DEF d
  <2>6. f.online \cup {o} = f.online
    BY <1>8
  <2>7. d = b
    BY <1>4, <1>7, <1>10, <2>4, <2>5, <2>6, SameCensus, ZenonT(60)
  <2>8. QED
    BY <1>3, <2>1, <2>3, <2>7 DEF d, b
<1>11. QED
  BY <1>9, <1>10

\* The census d has everything that b has but for the children.
Nearly(d, f, b) ==
    /\ d.alive = f.alive /\ d.ID = f.ID /\ d.parent = f.parent /\ d.children = f.children
    /\ d.online = f.online /\ d.ent = f.ent /\ d.pool = f.pool /\ d.pts = f.pts /\ d.lev = f.lev
    /\ d.control = b.control /\ d.reg = b.reg

\* A client spawns something inside an entity.
LEMMA SpawnInsideShows ==
    ASSUME NEW w, NEW a, Shows(w, a), Orderly(a), NEW o \in Goods, o \notin a.alive,
           a.pool # <<>>, NEW h \in Holders, h \in a.online, NEW x \in Ids, a.ID[h] = x,
           NEW known \in BOOLEAN, known <=> o \notin Bolts /\ h \in Traders \cup Boxes
    PROVE  Shows(SpawnFromMessage(w, o, x), Spawned(a, o, x, TRUE, known))
<1> DEFINE f == Arriving(a, o, x)
           b == Spawned(a, o, x, TRUE, known)
           id == Head(a.pool)
           s == Append(a.children[h], id)
<1>0. a \in Censuses
  BY DEF Shows
<1>1. /\ a.alive \in SUBSET Objects /\ a.online \in SUBSET Objects
      /\ a.control \in SUBSET Objects /\ a.ent \in SUBSET Objects
      /\ a.reg \in SUBSET Objects /\ a.lev \in SUBSET Objects /\ a.pts \in SUBSET Objects
      /\ a.ID \in [Objects -> Ids \cup {NoId}] /\ a.parent \in [Objects -> Ids \cup {NoId}]
      /\ a.children \in [Objects -> Seq(Ids)] /\ a.pool \in Seq(Ids)
  BY <1>0, CensusFields
<1>2. x # NoId /\ o \in Objects /\ h \in Objects /\ h # o /\ h # None
  BY Kinds
<1>3. PICK here : /\ Shows(here, f) /\ ArrivingIs(a, f, o, x) /\ f \in Censuses /\ Grounded(f)
                  /\ SpawnFromMessage(w, o, x) =
                        IF x = NoId THEN Met(here, o, x)
                        ELSE IF w.entities[x] = None THEN w
                        ELSE [OnTouch(Met(here, o, x), w.entities[x], o)
                                 EXCEPT !.children[w.entities[x]] = Append(@, Met(here, o, x).ID[o])]
  BY <1>2, ArrivalShows
<1>4. w.entities[x] = h
  <2>1. h \in a.ent /\ Lists(w.entities, a.ent, a.ID)
    BY DEF Orderly, Tabled, Shows
  <2>2. QED
    BY <1>2, <2>1 DEF Lists
<1>5. b \in Censuses /\ SpawnedIs(a, b, o, x, TRUE, known)
  BY <1>0, <1>2, SpawnedFields
<1>6. /\ o \notin a.online /\ o \notin a.reg /\ o \notin a.lev /\ o \notin a.pts /\ o \notin a.ent
      /\ o \in a.control /\ h \in a.reg
  BY <1>1, <1>2, Kinds DEF Orderly, Living, Tabled
<1>7. id \in Ids /\ s \in Seq(Ids)
  BY <1>1, <1>2, HeadTailProperties
<1> HIDE DEF f, b, id
<1>8. Endowed(a, x, id) = [a.children EXCEPT ![h] = s]
  <2>1. \A k \in Objects : a.ID[k] = x <=> k = h
    BY <1>2 DEF Shows, Unique
  <2>2. QED
    BY <1>1, <1>2, <2>1 DEF Endowed
<1>9. /\ b.alive = f.alive /\ b.ID = f.ID /\ b.parent = f.parent
      /\ b.children = [f.children EXCEPT ![h] = s]
      /\ b.online = f.online /\ b.ent = f.ent /\ b.pool = f.pool /\ b.pts = f.pts /\ b.lev = f.lev
      /\ b.control = IF known THEN f.control ELSE f.control \ {o}
      /\ b.reg = IF known THEN f.reg \cup {o} ELSE f.reg
  <2>1. /\ a.reg \ {o} = a.reg /\ a.lev \ {o} = a.lev /\ a.pts \ {o} = a.pts
        /\ a.control \cup {o} = a.control
    BY <1>6
  <2>2. /\ b.online = a.online \cup {o} /\ b.ent = a.ent \cup {o} /\ b.pts = a.pts /\ b.lev = a.lev
        /\ b.reg = IF known THEN a.reg \cup {o} ELSE a.reg
        /\ b.control = IF known THEN a.control ELSE a.control \ {o}
    BY <1>2, <1>5, <2>1 DEF SpawnedIs
  <2>3. b.children = [a.children EXCEPT ![h] = s]
    BY <1>5, <1>8 DEF SpawnedIs, id
  <2>4. QED
    BY <1>3, <1>5, <2>2, <2>3 DEF ArrivingIs, SpawnedIs
<1> HIDE DEF s
<1>10. /\ o \in f.online /\ f.ID[o] = id /\ f.parent[o] = x /\ o \notin f.lev /\ o \notin f.reg
       /\ f.ID[h] = x /\ h \in f.reg /\ f.children = a.children
  BY <1>1, <1>2, <1>3, <1>6 DEF ArrivingIs, id
<1>11. Registered(here, x) = h
  BY <1>2, <1>3, <1>10, RegisteredIs
\* The census after OnCreate and OnTouch, if the owner gets the child.
<1>12. ASSUME NEW d, NEW made, Shows(OnTouch(made, h, o), d), made.ID = f.ID,
              Met(here, o, x) = made, Nearly(d, f, b)
       PROVE  Shows(SpawnFromMessage(w, o, x), b)
  <2> DEFINE u == OnTouch(made, h, o)
  <2>1. SpawnFromMessage(w, o, x) = [u EXCEPT !.children[h] = Append(@, id)]
    BY <1>2, <1>3, <1>4, <1>10, <1>12
  <2>0. Shows(u, d)
    BY <1>12
  <2> HIDE DEF u
  <2>2. u.children = f.children
    BY <1>12, <2>0 DEF Shows, Nearly
  <2>3. SpawnFromMessage(w, o, x) = [u EXCEPT !.children[h] = s]
    BY <1>10, <2>1, <2>2 DEF s
  <2>4. Shows([u EXCEPT !.children[h] = s], Endows(d, h, s))
    BY <1>2, <1>7, <2>0, ChildrenShows
  <2> DEFINE g == Endows(d, h, s)
  <2>5. g \in Censuses /\ d \in Censuses
    BY <2>0, <2>4 DEF Shows
  <2>6. /\ g.alive = d.alive /\ g.ID = d.ID /\ g.parent = d.parent
        /\ g.children = [d.children EXCEPT ![h] = s] /\ g.online = d.online
        /\ g.control = d.control /\ g.ent = d.ent /\ g.reg = d.reg /\ g.lev = d.lev
        /\ g.pts = d.pts /\ g.pool = d.pool
    BY <2>5 DEF Endows, Censuses
  <2> HIDE DEF g
  <2>7. g = b
    BY <1>5, <1>9, <1>12, <2>5, <2>6, SameCensus DEF Nearly
  <2>8. QED
    BY <2>3, <2>4, <2>7 DEF g
<1>13. CASE ~known
  <2> DEFINE made == [here EXCEPT !.control[o] = FALSE]
             d == Flagged(f, o, TRUE, FALSE)
  <2>1. Met(here, o, x) = made
    <3>1. CASE h \in Traders \cup Boxes
      BY <1>11, <1>13, <3>1 DEF Met, create, CanSave
    <3>2. CASE h \notin Traders \cup Boxes
      BY <1>2, <1>11, <3>2 DEF Met
    <3>3. QED
      BY <3>1, <3>2
  <2>2. here.online[o] = TRUE
    BY <1>2, <1>3, <1>10 DEF Shows, Worlds
  <2>3. Shows(made, d)
    BY <1>2, <1>3, <2>2, ControlShows
  <2>4. d \in Censuses
    BY <2>3 DEF Shows
  <2>5. /\ d.alive = f.alive /\ d.ID = f.ID /\ d.parent = f.parent /\ d.children = f.children
        /\ d.online = f.online \cup {o} /\ d.control = f.control \ {o} /\ d.ent = f.ent
        /\ d.reg = f.reg /\ d.lev = f.lev /\ d.pts = f.pts /\ d.pool = f.pool
    BY <1>3 DEF Flagged, Censuses
  <2> HIDE DEF made, d
  <2>6. made.ID = f.ID
    BY <2>3, <2>5 DEF Shows
  <2>7. made.level[id] = None
    <3>1. made.level[id] \in Objects \cup {None} /\ Lists(made.level, d.lev, d.ID) /\ Unique(d.ID)
      BY <1>7, <2>3 DEF Shows, Worlds
    <3>2. made.level[id] \in Objects => made.level[id] = o
      BY <1>2, <1>7, <1>10, <2>5, <3>1, Kinds DEF Lists, Unique
    <3>3. made.level[id] # o
      BY <1>2, <1>7, <1>10, <2>5, <3>1 DEF Lists
    <3>4. QED
      BY <3>1, <3>2, <3>3
  <2>8. OnTouch(made, h, o) = made
    BY <1>10, <2>6, <2>7 DEF OnTouch
  <2>9. f.online \cup {o} = f.online
    BY <1>10
  <2>10. Nearly(d, f, b)
    BY <1>9, <1>13, <2>5, <2>9 DEF Nearly
  <2>11. QED
    BY <1>12, <2>1, <2>3, <2>6, <2>8, <2>10 DEF b
<1>14. CASE known
  <2> DEFINE loose == [here EXCEPT !.ID_Parent[o] = NoId]
             fl == Parented(f, o, NoId)
             put == register_object(loose, o)
             fp == Registers(fl, o)
             made == [put EXCEPT !.ID_Parent[o] = x]
             fm == Parented(fp, o, x)
  <2>1. here.ID_Parent[o] = x
    BY <1>3, <1>10 DEF Shows
  <2>2. Met(here, o, x) = made
    BY <1>2, <1>11, <1>14, <2>1 DEF Met, create, CanSave
  <2>3. Shows(loose, fl)
    BY <1>2, <1>3, ParentShows
  <2>4. ~Attached(loose, o)
    BY <1>2, <1>3 DEF Attached, Shows, Worlds
  <2>5. fl \in Censuses
    BY <2>3 DEF Shows
  <2>6. /\ fl.alive = f.alive /\ fl.ID = f.ID /\ fl.parent = [f.parent EXCEPT ![o] = NoId]
        /\ fl.children = f.children /\ fl.online = f.online /\ fl.control = f.control
        /\ fl.ent = f.ent /\ fl.reg = f.reg /\ fl.lev = f.lev /\ fl.pts = f.pts /\ fl.pool = f.pool
    BY <1>3 DEF Parented, Censuses
  <2> HIDE DEF loose, fl
  <2>7. Shows(put, fp)
    BY <1>2, <1>7, <1>10, <2>3, <2>4, <2>6, RegisterShows
  <2>8. fp \in Censuses
    BY <2>7 DEF Shows
  <2>9. /\ fp.alive = fl.alive /\ fp.ID = fl.ID /\ fp.parent = fl.parent
        /\ fp.children = fl.children /\ fp.online = fl.online /\ fp.control = fl.control
        /\ fp.ent = fl.ent /\ fp.reg = fl.reg \cup {o} /\ fp.lev = fl.lev \cup {o}
        /\ fp.pts = fl.pts /\ fp.pool = fl.pool
    BY <1>10, <2>5, <2>6 DEF Registers, Enlisted, Placed, Known, Censuses
  <2> HIDE DEF put, fp
  <2>10. Shows(made, fm)
    BY <1>2, <2>7, ParentShows
  <2>11. fm \in Censuses
    BY <2>10 DEF Shows
  <2>12. /\ fm.alive = fp.alive /\ fm.ID = fp.ID /\ fm.parent = [fp.parent EXCEPT ![o] = x]
         /\ fm.children = fp.children /\ fm.online = fp.online /\ fm.control = fp.control
         /\ fm.ent = fp.ent /\ fm.reg = fp.reg /\ fm.lev = fp.lev /\ fm.pts = fp.pts
         /\ fm.pool = fp.pool
    BY <2>8 DEF Parented, Censuses
  <2> HIDE DEF made, fm
  <2>13. fm.parent = f.parent
    BY <1>2, <1>3, <1>10, <2>6, <2>9, <2>12 DEF Censuses
  <2>14. made.ID = f.ID
    BY <2>6, <2>9, <2>10, <2>12 DEF Shows
  <2>15. Grounded(fm)
    BY <1>2, <1>3, <1>7, <1>10, <2>6, <2>9, <2>12 DEF Grounded, ArrivingIs
  <2>16. made.level[id] = o
    BY <1>2, <1>7, <1>10, <2>6, <2>9, <2>10, <2>12 DEF Shows, Lists
  <2>17. Registered(made, x) = h
    BY <1>2, <1>10, <2>6, <2>9, <2>10, <2>12, <2>15, RegisteredIs
  <2>18. Registered(made, id) = o
    BY <1>2, <1>7, <1>10, <2>6, <2>9, <2>10, <2>12, <2>15, RegisteredIs
  <2>19. OnTouch(made, h, o) = LevelRemove(made, o)
    BY <1>2, <1>10, <2>14, <2>16, <2>17, <2>18, Kinds DEF OnTouch, Attach
  <2>20. Shows(LevelRemove(made, o), Delisted(fm, o))
    BY <1>2, <1>7, <1>10, <2>6, <2>9, <2>10, <2>12, LevelRemoveShows
  <2> DEFINE d == Delisted(fm, o)
  <2>21. /\ d.alive = fm.alive /\ d.ID = fm.ID /\ d.parent = fm.parent /\ d.children = fm.children
         /\ d.online = fm.online /\ d.control = fm.control /\ d.ent = fm.ent /\ d.reg = fm.reg
         /\ d.lev = fm.lev \ {o} /\ d.pts = fm.pts /\ d.pool = fm.pool
    BY <2>11 DEF Delisted, Censuses
  <2> HIDE DEF d
  <2>22. d.lev = f.lev
    BY <1>10, <2>6, <2>9, <2>12, <2>21
  <2>23. d.control = b.control /\ d.reg = b.reg
    BY <1>9, <1>14, <2>6, <2>9, <2>12, <2>21
  <2>24. Shows(OnTouch(made, h, o), d)
    BY <2>19, <2>20 DEF d
  <2>25. Nearly(d, f, b)
    BY <2>6, <2>9, <2>12, <2>13, <2>21, <2>22, <2>23 DEF Nearly
  <2>26. QED
    BY <1>12, <2>2, <2>14, <2>24, <2>25 DEF b
<1>15. QED
  BY <1>13, <1>14

-----------------------------------------------------------------------------
(* Ownership. *)

LEMMA EntityIs ==
    ASSUME NEW w, NEW a, Shows(w, a), NEW id \in Ids
    PROVE  /\ w.entities[id] \in Objects \cup {None}
           /\ \A o \in Objects : w.entities[id] = o <=> o \in a.ent /\ a.ID[o] = id
BY DEF Shows, Worlds, Lists

\* An entry of the level registry is its owner's, if he is in it.
LEMMA LevelIs ==
    ASSUME NEW w, NEW a, Shows(w, a), NEW o \in Objects, a.ID[o] \in Ids
    PROVE  w.level[a.ID[o]] = IF o \in a.lev THEN o ELSE None
<1>1. /\ w.level[a.ID[o]] \in Objects \cup {None} /\ Lists(w.level, a.lev, a.ID) /\ Unique(a.ID)
  BY DEF Shows, Worlds
<1>2. w.level[a.ID[o]] \in Objects => w.level[a.ID[o]] = o
  BY <1>1, Kinds DEF Lists, Unique
<1>3. QED
  BY <1>1, <1>2 DEF Lists

LEMMA TakeShows ==
    ASSUME NEW w, NEW a, Shows(w, a), Orderly(a), NEW e \in Goods, NEW h \in Holders,
           e \in a.online, h \in a.online, NEW x \in Ids, NEW y \in Ids,
           a.ID[h] = x, a.ID[e] = y, a.parent[e] = NoId
    PROVE  Shows(Process_event_ownership(w, x, y), TakenBy(a, e, h))
<1> DEFINE u == OnTouch(w, h, e)
           d == Delisted(a, e)
           s == Append(a.children[h], y)
           b == TakenBy(a, e, h)
<1>0. a \in Censuses /\ Grounded(a)
  BY OrderlyGrounded DEF Shows
<1>1. /\ a.alive \in SUBSET Objects /\ a.lev \in SUBSET Objects /\ a.reg \in SUBSET Objects
      /\ a.children \in [Objects -> Seq(Ids)] /\ a.parent \in [Objects -> Ids \cup {NoId}]
      /\ e \in Objects /\ h \in Objects /\ e # h
  <2>1. e \in Objects /\ h \in Objects /\ e # h
    BY Kinds
  <2>2. QED
    BY <1>0, <2>1, CensusFields
<1>2. e \in a.ent /\ h \in a.ent /\ h \in a.reg /\ (e \in a.lev => e \in a.reg)
  BY <1>0, <1>1 DEF Orderly, Tabled, Living
<1>3. w.entities[x] = h /\ w.entities[y] = e
  BY <1>1, <1>2, EntityIs
<1>4. w.ID = a.ID /\ w.ID_Parent = a.parent /\ w.children = a.children
  BY DEF Shows
<1>5. Process_event_ownership(w, x, y) =
         [u EXCEPT !.ID_Parent[e] = x, !.children[h] = Append(@, y)]
  BY <1>1, <1>3, <1>4, Kinds DEF Process_event_ownership
<1>6. w.level[y] = IF e \in a.lev THEN e ELSE None
  BY <1>1, LevelIs
<1>7. d \in Censuses /\ d.lev = a.lev \ {e} /\ d.children = a.children
  BY <1>0 DEF Delisted, Censuses
<1> HIDE DEF d
<1>8. Shows(u, d)
  <2>1. CASE e \in a.lev
    <3>1. Registered(w, x) = h /\ Registered(w, y) = e
      BY <1>0, <1>1, <1>2, <2>1, RegisteredIs
    <3>2. u = LevelRemove(w, e)
      BY <1>1, <1>4, <1>6, <2>1, <3>1, Kinds DEF OnTouch, Attach
    <3>3. Shows(LevelRemove(w, e), d)
      BY <1>1, LevelRemoveShows DEF d
    <3>4. QED
      BY <3>2, <3>3
  <2>2. CASE e \notin a.lev
    <3>1. u = w
      BY <1>4, <1>6, <2>2 DEF OnTouch
    <3>2. a.lev \ {e} = a.lev
      BY <2>2
    <3>3. d = a
      BY <1>0, <3>2 DEF d, Delisted, Censuses
    <3>4. QED
      BY <3>1, <3>3
  <2>3. QED
    BY <2>1, <2>2
<1> HIDE DEF u
<1>9. s \in Seq(Ids)
  BY <1>1, AppendProperties
<1>10. Process_event_ownership(w, x, y) = [u EXCEPT !.ID_Parent[e] = x, !.children[h] = s]
  BY <1>5, <1>7, <1>8 DEF Shows
<1> HIDE DEF s
<1>11. Shows([u EXCEPT !.ID_Parent[e] = x, !.children[h] = s], Owned(d, e, x, h, s))
  BY <1>1, <1>8, <1>9, OwnedShows, ZenonT(60)
<1> DEFINE g == Owned(d, e, x, h, s)
<1>12. g \in Censuses /\ b \in Censuses /\ TakenIs(a, b, e, h)
  BY <1>0, <1>1, <1>11, TakenFields DEF Shows
<1>13. /\ g.alive = d.alive /\ g.ID = d.ID /\ g.parent = [d.parent EXCEPT ![e] = x]
       /\ g.children = [d.children EXCEPT ![h] = s] /\ g.online = d.online
       /\ g.control = d.control /\ g.ent = d.ent /\ g.reg = d.reg /\ g.lev = d.lev
       /\ g.pts = d.pts /\ g.pool = d.pool
  BY <1>7 DEF Owned, Censuses
<1>14. /\ d.alive = a.alive /\ d.ID = a.ID /\ d.parent = a.parent /\ d.online = a.online
       /\ d.control = a.control /\ d.ent = a.ent /\ d.reg = a.reg /\ d.pts = a.pts
       /\ d.pool = a.pool
  BY <1>0 DEF d, Delisted, Censuses
<1> HIDE DEF g, b
<1>15. g.children = b.children
  BY <1>1, <1>7, <1>12, <1>13 DEF TakenIs, s
<1>16. g = b
  <2>1. /\ g.alive = b.alive /\ g.ID = b.ID /\ g.online = b.online /\ g.control = b.control
        /\ g.ent = b.ent /\ g.reg = b.reg /\ g.pts = b.pts /\ g.pool = b.pool
    BY <1>12, <1>13, <1>14 DEF TakenIs
  <2>2. g.lev = b.lev
    BY <1>7, <1>12, <1>13 DEF TakenIs
  <2>3. g.parent = b.parent
    BY <1>12, <1>13, <1>14 DEF TakenIs
  <2>4. QED
    BY <1>12, <1>15, <2>1, <2>2, <2>3, SameCensus
<1>17. QED
  BY <1>10, <1>11, <1>16 DEF g, b

\* What a reject relies on: also in the middle of Perform_destroy.
Holding(a, e, h) ==
    /\ e \in Goods /\ h \in Holders /\ e \in a.alive /\ e \in a.ent /\ h \in a.ent /\ h \in a.reg
    /\ a.ID[e] \in Ids /\ a.ID[h] \in Ids /\ a.parent[e] = a.ID[h]
    /\ a.ID[e] \in ToSet(a.children[h]) /\ e \in a.online /\ e \notin a.lev
    /\ e \in a.reg <=> e \in a.control
    /\ e \in Bolts => e \notin a.control

LEMMA RejectShows ==
    ASSUME NEW w, NEW a, Shows(w, a), Grounded(a), NEW e, NEW h, Holding(a, e, h)
    PROVE  Shows(Process_event_reject(w, a.ID[h], a.ID[e]), Freed(a, e, h))
<1> DEFINE x == a.ID[h]
           y == a.ID[e]
           u == OnDetach(w, h, e)
           s == RemoveFirst(a.children[h], y)
           b == Freed(a, e, h)
<1>0. a \in Censuses
  BY DEF Shows
<1>1. /\ a.alive \in SUBSET Objects /\ a.lev \in SUBSET Objects /\ a.reg \in SUBSET Objects
      /\ a.online \in SUBSET Objects /\ a.control \in SUBSET Objects
      /\ a.children \in [Objects -> Seq(Ids)] /\ a.parent \in [Objects -> Ids \cup {NoId}]
      /\ a.ID \in [Objects -> Ids \cup {NoId}]
  BY <1>0, CensusFields
<1>2. e \in Objects /\ h \in Objects /\ e # h /\ x \in Ids /\ y \in Ids /\ x # NoId
  BY Kinds DEF Holding
<1>3. w.entities[x] = h /\ w.entities[y] = e
  BY <1>2, EntityIs DEF Holding
<1>4. w.ID = a.ID /\ w.ID_Parent = a.parent /\ w.children = a.children /\ w \in Worlds
  BY DEF Shows
<1>5. Contains(w.children[h], y)
  <2>1. a.children[h] \in Seq(Ids)
    BY <1>1, <1>2
  <2>2. QED
    BY <1>4, <2>1, ToSetProperties DEF Holding
<1>6. Process_event_reject(w, x, y) =
         [u EXCEPT !.ID_Parent[e] = NoId, !.children[h] = RemoveFirst(@, y)]
  <2>1. h # None /\ e # None /\ w.ID_Parent[e] = x
    BY <1>2, <1>4, Kinds DEF Holding
  <2>2. QED
    BY <1>2, <1>3, <1>5, <2>1 DEF Process_event_reject
<1>7. w.level[y] = None
  BY <1>2, LevelIs DEF Holding
<1>8. Registered(w, x) = h /\ (Registered(w, y) # None <=> e \in a.reg)
  <2>1. /\ Registered(w, x) = h
        /\ Registered(w, y) = e <=> e \in a.reg
    BY <1>2, RegisteredIs DEF Holding
  <2>2. Registered(w, y) # None => Registered(w, y) = e
    <3>1. Registered(w, y) \in Objects \cup {None}
      BY <1>2, RegisteredIs
    <3>2. \A k \in Objects : Registered(w, y) = k => a.ID[k] = y
      BY <1>2, RegisteredIs
    <3>3. QED
      BY <1>2, <3>1, <3>2, Kinds DEF Shows, Unique
  <2>3. QED
    BY <1>2, <2>1, <2>2, Kinds
<1>9. s \in Seq(Ids)
  BY <1>1, <1>2, RemoveFirstProperties
<1>10. b \in Censuses /\ FreedIs(a, b, e, h)
  BY <1>0, <1>2, FreedFields
<1> HIDE DEF b
<1>11. ASSUME NEW d, Shows(u, d), d.alive = a.alive, d.ID = a.ID, d.children = a.children,
              d.online = a.online, d.ent = a.ent, d.pts = a.pts, d.pool = a.pool,
              d.control = b.control, d.reg = b.reg, d.lev = b.lev,
              \A k \in Objects : k # e => d.parent[k] = a.parent[k]
       PROVE  Shows(Process_event_reject(w, x, y), b)
  <2> HIDE DEF u, x, y
  <2>1. u.children = a.children /\ d \in Censuses /\ d.parent \in [Objects -> Ids \cup {NoId}]
    <3>1. d \in Censuses
      BY <1>11 DEF Shows
    <3>2. QED
      BY <1>11, <3>1, CensusFields DEF Shows
  <2>2. Process_event_reject(w, x, y) = [u EXCEPT !.ID_Parent[e] = NoId, !.children[h] = s]
    BY <1>6, <2>1
  <2> HIDE DEF s
  <2>3. NoId \in Ids \cup {NoId}
    OBVIOUS
  <2>4. Shows([u EXCEPT !.ID_Parent[e] = NoId, !.children[h] = s], Owned(d, e, NoId, h, s))
    BY <1>2, <1>9, <1>11, <2>3, OwnedShows, ZenonT(60)
  <2> DEFINE g == Owned(d, e, NoId, h, s)
  <2>5. g \in Censuses
    BY <2>4 DEF Shows
  <2>6. /\ g.alive = d.alive /\ g.ID = d.ID /\ g.parent = [d.parent EXCEPT ![e] = NoId]
        /\ g.children = [d.children EXCEPT ![h] = s] /\ g.online = d.online
        /\ g.control = d.control /\ g.ent = d.ent /\ g.reg = d.reg /\ g.lev = d.lev
        /\ g.pts = d.pts /\ g.pool = d.pool
    BY <2>1 DEF Owned, Censuses
  <2> HIDE DEF g
  <2>7. g.parent = b.parent
    <3>1. b.parent = [a.parent EXCEPT ![e] = NoId]
      BY <1>10 DEF FreedIs
    <3>2. [d.parent EXCEPT ![e] = NoId] = [a.parent EXCEPT ![e] = NoId]
      BY <1>1, <1>11, <2>1
    <3>3. QED
      BY <2>6, <3>1, <3>2
  <2>8. g.children = b.children
    BY <1>1, <1>2, <1>10, <1>11, <2>6 DEF FreedIs, s, y
  <2>9. /\ g.alive = b.alive /\ g.ID = b.ID /\ g.online = b.online /\ g.control = b.control
        /\ g.ent = b.ent /\ g.reg = b.reg /\ g.lev = b.lev /\ g.pts = b.pts /\ g.pool = b.pool
    BY <1>10, <1>11, <2>6 DEF FreedIs
  <2>10. g = b
    BY <1>10, <2>5, <2>7, <2>8, <2>9, SameCensus
  <2>11. QED
    BY <2>2, <2>4, <2>10 DEF g
<1> HIDE DEF x, y, s
<1>12. CASE e \in a.reg
  <2>1. u = LevelAdd(w, e)
    BY <1>4, <1>7, <1>8, <1>12, Kinds, <1>2 DEF OnDetach, Detach, Holding, x, y
  <2>2. Shows(u, Enlisted(a, e))
    BY <1>2, <2>1, LevelAddShows DEF y
  <2> DEFINE d == Enlisted(a, e)
  <2>3. /\ d.alive = a.alive /\ d.ID = a.ID /\ d.parent = a.parent /\ d.children = a.children
        /\ d.online = a.online /\ d.control = a.control /\ d.ent = a.ent /\ d.reg = a.reg
        /\ d.lev = a.lev \cup {e} /\ d.pts = a.pts /\ d.pool = a.pool
    BY <1>0 DEF Enlisted, Censuses
  <2> HIDE DEF d, u
  <2>4. e \notin Bolts /\ a.reg \cup {e} = a.reg /\ a.control \cup {e} = a.control
    BY <1>12 DEF Holding
  <2>5. d.control = b.control /\ d.reg = b.reg /\ d.lev = b.lev
    BY <1>10, <2>3, <2>4 DEF FreedIs
  <2>6. Shows(u, d)
    BY <2>2 DEF d
  <2>7. QED
    BY <1>11, <2>3, <2>5, <2>6 DEF x, y, b
<1>13. CASE e \notin a.reg
  <2> DEFINE mine == [w EXCEPT !.ID_Parent[e] = NoId, !.control[e] = TRUE, !.online[e] = TRUE]
  <2>1. u = [create(mine, e) EXCEPT !.ID_Parent[e] = x]
    BY <1>4, <1>8, <1>13 DEF OnDetach, Holding, x, y
  <2> DEFINE loose == [w EXCEPT !.ID_Parent[e] = NoId]
             fl == Parented(a, e, NoId)
  <2>2. Shows(loose, fl)
    BY <1>2, ParentShows
  <2>3. mine = [loose EXCEPT !.online[e] = TRUE, !.control[e] = TRUE]
    BY <1>4 DEF Worlds
  <2>4. /\ fl.alive = a.alive /\ fl.ID = a.ID /\ fl.parent = [a.parent EXCEPT ![e] = NoId]
        /\ fl.children = a.children /\ fl.online = a.online /\ fl.control = a.control
        /\ fl.ent = a.ent /\ fl.reg = a.reg /\ fl.lev = a.lev /\ fl.pts = a.pts /\ fl.pool = a.pool
    BY <1>0 DEF Parented, Censuses
  <2>5. fl \in Censuses
    BY <2>2 DEF Shows
  <2> HIDE DEF loose, fl
  <2> DEFINE fm == Flagged(fl, e, TRUE, TRUE)
  <2>6. Shows(mine, fm)
    BY <1>2, <2>2, <2>3, FlaggedShows, ZenonT(60)
  <2>7. /\ fm.alive = fl.alive /\ fm.ID = fl.ID /\ fm.parent = fl.parent
        /\ fm.children = fl.children /\ fm.online = fl.online \cup {e}
        /\ fm.control = fl.control \cup {e} /\ fm.ent = fl.ent /\ fm.reg = fl.reg
        /\ fm.lev = fl.lev /\ fm.pts = fl.pts /\ fm.pool = fl.pool
    BY <2>5 DEF Flagged, Censuses
  <2>8. fm \in Censuses
    BY <2>6 DEF Shows
  <2>9. mine.ID_Parent[e] = NoId /\ mine.online[e] = TRUE
    BY <1>2, <1>4 DEF Worlds
  <2> HIDE DEF mine, fm
  <2>10. fm.online = a.online
    BY <2>4, <2>7 DEF Holding
  <2>11. CASE e \in Bolts
    <3> DEFINE made == [mine EXCEPT !.control[e] = FALSE]
               d == Parented(Flagged(fm, e, TRUE, FALSE), e, x)
               fn == Flagged(fm, e, TRUE, FALSE)
    <3>1. create(mine, e) = made
      BY <2>11 DEF create, CanSave
    <3>2. Shows(made, fn)
      BY <1>2, <2>6, <2>9, ControlShows
    <3>3. fn \in Censuses
      BY <3>2 DEF Shows
    <3>4. /\ fn.alive = fm.alive /\ fn.ID = fm.ID /\ fn.parent = fm.parent
          /\ fn.children = fm.children /\ fn.online = fm.online \cup {e}
          /\ fn.control = fm.control \ {e} /\ fn.ent = fm.ent /\ fn.reg = fm.reg
          /\ fn.lev = fm.lev /\ fn.pts = fm.pts /\ fn.pool = fm.pool
      BY <2>8 DEF Flagged, Censuses
    <3> HIDE DEF made, fn
    <3>5. Shows([made EXCEPT !.ID_Parent[e] = x], Parented(fn, e, x))
      BY <1>2, <3>2, ParentShows
    <3> DEFINE ff == Parented(fn, e, x)
    <3>6. /\ ff.alive = fn.alive /\ ff.ID = fn.ID /\ ff.parent = [fn.parent EXCEPT ![e] = x]
          /\ ff.children = fn.children /\ ff.online = fn.online /\ ff.control = fn.control
          /\ ff.ent = fn.ent /\ ff.reg = fn.reg /\ ff.lev = fn.lev /\ ff.pts = fn.pts
          /\ ff.pool = fn.pool
      BY <3>3 DEF Parented, Censuses
    <3> HIDE DEF ff, u
    <3>7. Shows(u, ff)
      BY <2>1, <3>1, <3>5 DEF ff
    <3>8. ff.online = a.online
      BY <2>10, <3>4, <3>6 DEF Holding
    <3>9. ff.control = b.control /\ ff.reg = b.reg /\ ff.lev = b.lev
      <4>1. a.control \ {e} = (a.control \cup {e}) \ {e} /\ a.reg \ {e} = a.reg /\ a.lev \ {e} = a.lev
        BY <1>13 DEF Holding
      <4>2. QED
        BY <1>10, <2>4, <2>7, <2>11, <3>4, <3>6, <4>1 DEF FreedIs
    <3>10. \A k \in Objects : k # e => ff.parent[k] = a.parent[k]
      BY <1>1, <2>4, <2>7, <3>4, <3>6
    <3>11. QED
      BY <1>11, <2>4, <2>7, <3>4, <3>6, <3>7, <3>8, <3>9, <3>10 DEF x, y, b
  <2>12. CASE e \notin Bolts
    <3> DEFINE put == register_object(mine, e)
               fp == Registers(fm, e)
    <3>1. Registered(mine, NoId) = None
      BY DEF Registered
    <3>2. create(mine, e) = put
      BY <2>9, <2>12, <3>1 DEF create, CanSave
    <3>3. ~Attached(mine, e)
      BY <2>9 DEF Attached
    <3>4. Shows(put, fp)
      BY <1>2, <2>4, <2>6, <2>7, <3>3, RegisterShows DEF y
    <3>5. fp \in Censuses
      BY <3>4 DEF Shows
    <3>6. e \in fm.online
      BY <2>7
    <3>7. /\ fp.alive = fm.alive /\ fp.ID = fm.ID /\ fp.parent = fm.parent
          /\ fp.children = fm.children /\ fp.online = fm.online /\ fp.control = fm.control
          /\ fp.ent = fm.ent /\ fp.reg = fm.reg \cup {e} /\ fp.lev = fm.lev \cup {e}
          /\ fp.pts = fm.pts /\ fp.pool = fm.pool
      BY <2>8, <3>6 DEF Registers, Enlisted, Placed, Known, Censuses
    <3> HIDE DEF put, fp
    <3>8. Shows([put EXCEPT !.ID_Parent[e] = x], Parented(fp, e, x))
      BY <1>2, <3>4, ParentShows
    <3> DEFINE ff == Parented(fp, e, x)
    <3>9. /\ ff.alive = fp.alive /\ ff.ID = fp.ID /\ ff.parent = [fp.parent EXCEPT ![e] = x]
          /\ ff.children = fp.children /\ ff.online = fp.online /\ ff.control = fp.control
          /\ ff.ent = fp.ent /\ ff.reg = fp.reg /\ ff.lev = fp.lev /\ ff.pts = fp.pts
          /\ ff.pool = fp.pool
      BY <3>5 DEF Parented, Censuses
    <3> HIDE DEF ff, u
    <3>10. Shows(u, ff)
      BY <2>1, <3>2, <3>8 DEF ff
    <3>11. ff.control = b.control /\ ff.reg = b.reg /\ ff.lev = b.lev
      BY <1>10, <2>4, <2>7, <2>12, <3>7, <3>9 DEF FreedIs
    <3>12. \A k \in Objects : k # e => ff.parent[k] = a.parent[k]
      BY <1>1, <2>4, <2>7, <3>7, <3>9
    <3>13. QED
      BY <1>11, <2>4, <2>7, <2>10, <3>7, <3>9, <3>10, <3>11, <3>12 DEF x, y, b
  <2>13. QED
    BY <2>11, <2>12
<1>14. QED
  BY <1>12, <1>13

-----------------------------------------------------------------------------
(* Release and destruction of somebody without children. *)

KilledIs(a, b, o) ==
    /\ b \in Censuses
    /\ b.alive = a.alive \ {o} /\ b.ID = [a.ID EXCEPT ![o] = NoId]
    /\ b.parent = [a.parent EXCEPT ![o] = NoId] /\ b.children = Bereft(a, o)
    /\ b.online = a.online \ {o} /\ b.control = a.control \cup {o}
    /\ b.ent = a.ent \ {o} /\ b.reg = a.reg \ {o} /\ b.lev = a.lev \ {o}
    /\ b.pts = a.pts \ {o} /\ b.pool = Append(a.pool, a.ID[o])

LEMMA KilledAre ==
    ASSUME NEW a \in Censuses, NEW o \in Objects, a.ID[o] \in Ids
    PROVE  KilledIs(a, Killed(a, o), o)
BY KilledFields DEF KilledIs

\* The children of somebody whom nobody owns, and of an owner.
LEMMA BereftIs ==
    ASSUME NEW a \in Censuses, Unique(a.ID), NEW o \in Objects
    PROVE  /\ a.parent[o] = NoId => Bereft(a, o) = [a.children EXCEPT ![o] = <<>>]
           /\ \A h \in Objects : h # o /\ a.parent[o] = a.ID[h] /\ a.ID[h] \in Ids =>
                Bereft(a, o) = [[a.children EXCEPT ![h] = RemoveFirst(@, a.ID[o])] EXCEPT ![o] = <<>>]
<1>1. a.children \in [Objects -> Seq(Ids)] /\ a.ID \in [Objects -> Ids \cup {NoId}]
  BY CensusFields
<1>2. a.parent[o] = NoId => Bereft(a, o) = [a.children EXCEPT ![o] = <<>>]
  BY <1>1 DEF Bereft
<1>3. ASSUME NEW h \in Objects, h # o, a.parent[o] = a.ID[h], a.ID[h] \in Ids
      PROVE  Bereft(a, o) = [[a.children EXCEPT ![h] = RemoveFirst(@, a.ID[o])] EXCEPT ![o] = <<>>]
  <2>1. a.ID[h] # NoId /\ \A k \in Objects : a.ID[k] = a.parent[o] => k = h
    BY <1>3, Kinds DEF Unique
  <2>2. QED
    BY <1>1, <1>3, <2>1 DEF Bereft
<1>4. QED
  BY <1>2, <1>3

\* The end of release of somebody who is offline, and of unregister_object.
Left(c, o) == Dead(Flagged(Delisted(Taken(Unknown(c, o), o), o), o, FALSE, FALSE), o)

LeftIs(c, d, o) ==
    /\ d \in Censuses
    /\ d.alive = c.alive \ {o} /\ d.ID = [c.ID EXCEPT ![o] = NoId]
    /\ d.parent = [c.parent EXCEPT ![o] = NoId] /\ d.children = [c.children EXCEPT ![o] = <<>>]
    /\ d.online = c.online \ {o} /\ d.control = c.control \cup {o}
    /\ d.ent = c.ent \ {o} /\ d.reg = c.reg \ {o} /\ d.lev = c.lev \ {o} /\ d.pts = c.pts \ {o}
    /\ d.pool = Append(c.pool, c.ID[o])

\* The world w without o in registry and graph, and no longer under ALife's control.
Outside(w, o, id) ==
    [GraphRemove([w EXCEPT !.registry[id] = None], o, TRUE) EXCEPT !.control[o] = FALSE]

LEMMA LeaveShows ==
    ASSUME NEW w, NEW c, Shows(w, c), NEW o \in Objects, NEW id \in Ids, c.ID[o] = id,
           o \notin c.online, o \notin Bolts
    PROVE  Shows(entity_Destroy(Outside(w, o, id), o), Left(c, o)) /\ LeftIs(c, Left(c, o), o)
<1> DEFINE gone == [w EXCEPT !.registry[id] = None]
           g == Unknown(c, o)
           less == GraphRemove(gone, o, TRUE)
           l == Delisted(Taken(g, o), o)
           out == [less EXCEPT !.control[o] = FALSE]
           f == Flagged(l, o, FALSE, FALSE)
<1>0. c \in Censuses
  BY DEF Shows
<1>1. Shows(gone, g)
  BY RegShows
<1>2. /\ g.alive = c.alive /\ g.ID = c.ID /\ g.parent = c.parent /\ g.children = c.children
      /\ g.online = c.online /\ g.control = c.control /\ g.ent = c.ent /\ g.reg = c.reg \ {o}
      /\ g.lev = c.lev /\ g.pts = c.pts /\ g.pool = c.pool
  BY <1>0 DEF Unknown, Censuses
<1> HIDE DEF gone, g
<1>3. Shows(less, l)
  BY <1>1, <1>2, GraphRemoveShows
<1>4. g \in Censuses /\ l \in Censuses
  BY <1>1, <1>3 DEF Shows
<1>5. /\ l.alive = g.alive /\ l.ID = g.ID /\ l.parent = g.parent /\ l.children = g.children
      /\ l.online = g.online /\ l.control = g.control /\ l.ent = g.ent /\ l.reg = g.reg
      /\ l.lev = g.lev \ {o} /\ l.pts = g.pts \ {o} /\ l.pool = g.pool
  BY <1>4 DEF Delisted, Taken, UsesLocations, Censuses
<1> HIDE DEF less, l
<1>6. ~less.online[o]
  BY <1>2, <1>3, <1>5 DEF Shows
<1>7. Shows(out, Flagged(l, o, less.online[o], FALSE))
  BY <1>3, ControlShows
<1>8. Shows(out, f)
  <2>1. less.online[o] = FALSE
    BY <1>3, <1>6 DEF Shows, Worlds
  <2>2. QED
    BY <1>7, <2>1
<1>9. f \in Censuses
  BY <1>8 DEF Shows
<1>10. /\ f.alive = l.alive /\ f.ID = l.ID /\ f.parent = l.parent /\ f.children = l.children
       /\ f.online = l.online \ {o} /\ f.control = l.control \ {o} /\ f.ent = l.ent /\ f.reg = l.reg
       /\ f.lev = l.lev /\ f.pts = l.pts /\ f.pool = l.pool
  BY <1>4 DEF Flagged, Censuses
<1> HIDE DEF out, f
<1>11. o \notin f.control /\ o \notin f.lev /\ o \notin f.pts /\ f.ID[o] \in Ids
  BY <1>2, <1>5, <1>10
<1>12. Shows(entity_Destroy(out, o), Dead(f, o))
  BY <1>8, <1>11, DestroyKills
<1> DEFINE d == Dead(f, o)
<1>13. /\ d \in Censuses
       /\ d.alive = f.alive \ {o} /\ d.ID = [f.ID EXCEPT ![o] = NoId]
       /\ d.parent = [f.parent EXCEPT ![o] = NoId] /\ d.children = [f.children EXCEPT ![o] = <<>>]
       /\ d.online = f.online \ {o} /\ d.control = f.control \cup {o}
       /\ d.ent = f.ent \ {o} /\ d.reg = f.reg \ {o} /\ d.lev = f.lev /\ d.pts = f.pts
       /\ d.pool = Append(f.pool, f.ID[o])
  <2>1. d \in Censuses
    BY <1>12 DEF Shows
  <2>2. QED
    BY <1>9, <2>1, ZenonT(60) DEF Dead, Censuses
<1>14. d = Left(c, o)
  BY DEF d, f, l, g, Left
<1> HIDE DEF d
<1>15. /\ d.online = c.online \ {o} /\ d.control = c.control \cup {o} /\ d.reg = c.reg \ {o}
  BY <1>2, <1>5, <1>10, <1>13
<1>16. /\ d.alive = c.alive \ {o} /\ d.ID = [c.ID EXCEPT ![o] = NoId]
       /\ d.parent = [c.parent EXCEPT ![o] = NoId] /\ d.children = [c.children EXCEPT ![o] = <<>>]
       /\ d.ent = c.ent \ {o} /\ d.lev = c.lev \ {o} /\ d.pts = c.pts \ {o}
       /\ d.pool = Append(c.pool, c.ID[o])
  BY <1>2, <1>5, <1>10, <1>13
<1>17. Shows(entity_Destroy(out, o), d)
  BY <1>12 DEF d
<1>18. QED
  BY <1>13, <1>14, <1>15, <1>16, <1>17 DEF out, less, gone, LeftIs, Outside

\* Somebody offline is released.
LEMMA ReleaseOfflineShows ==
    ASSUME NEW w, NEW a, Shows(w, a), Orderly(a), NEW o \in Objects, o \in a.alive,
           o \notin a.online
    PROVE  Shows(ReleaseAlone(w, o, TRUE), Killed(a, o))
<1> DEFINE id == a.ID[o]
           b == Killed(a, o)
<1>0. a \in Censuses /\ Grounded(a) /\ Unique(a.ID)
  BY OrderlyGrounded DEF Shows
<1>1. /\ a.reg \in SUBSET Objects /\ a.alive \in SUBSET Objects /\ a.online \in SUBSET Objects
      /\ a.control \in SUBSET Objects /\ a.lev \in SUBSET Objects /\ a.pts \in SUBSET Objects
      /\ a.children \in [Objects -> Seq(Ids)] /\ a.parent \in [Objects -> Ids \cup {NoId}]
      /\ a.ID \in [Objects -> Ids \cup {NoId}] /\ a.pool \in Seq(Ids)
  BY <1>0, CensusFields
<1>2. id \in Ids /\ o \in a.control /\ o \in a.reg /\ o \notin Bolts
  BY DEF Orderly, Living, Tabled
<1>3. KilledIs(a, b, o)
  BY <1>0, <1>2, KilledAre
<1>4. w.ID = a.ID /\ w.ID_Parent = a.parent /\ w.children = a.children /\ w \in Worlds
  BY DEF Shows
<1>5. Registered(w, id) = o
  BY <1>0, <1>2, RegisteredIs
<1> HIDE DEF b
<1> DEFINE Gone1(u) == [u EXCEPT !.registry[id] = None]
<1>6. CASE a.parent[o] = NoId
  <2>1. ~Attached(w, o)
    BY <1>4, <1>6 DEF Attached
  <2>2. ~Gone1(w).online[o]
    BY DEF Shows, Worlds
  <2>3. ReleaseAlone(w, o, TRUE) = entity_Destroy(Outside(w, o, id), o)
    <3>1. unregister_object(w, o, TRUE) = GraphRemove(Gone1(w), o, TRUE)
      BY <1>4, <2>1, <2>2 DEF unregister_object
    <3>2. QED
      BY <1>4, <1>5, <3>1, Kinds DEF ReleaseAlone, Outside
  <2>4. Shows(entity_Destroy(Outside(w, o, id), o), Left(a, o)) /\ LeftIs(a, Left(a, o), o)
    BY <1>2, LeaveShows
  <2>5. Bereft(a, o) = [a.children EXCEPT ![o] = <<>>]
    BY <1>0, <1>6, BereftIs
  <2>6. Left(a, o) = b
    <3> DEFINE l == Left(a, o)
    <3>1. LeftIs(a, l, o)
      BY <2>4
    <3> HIDE DEF l
    <3>2. /\ l.alive = b.alive /\ l.ID = b.ID /\ l.parent = b.parent /\ l.children = b.children
          /\ l.online = b.online /\ l.control = b.control /\ l.ent = b.ent /\ l.reg = b.reg
          /\ l.lev = b.lev /\ l.pts = b.pts /\ l.pool = b.pool
      BY <1>3, <2>5, <3>1 DEF KilledIs, LeftIs
    <3>3. l \in Censuses /\ b \in Censuses
      BY <1>3, <3>1 DEF KilledIs, LeftIs
    <3>4. l = b
      BY <3>2, <3>3, SameCensus
    <3>5. QED
      BY <3>4 DEF l
  <2>7. QED
    BY <2>3, <2>4, <2>6 DEF b
<1>7. CASE a.parent[o] # NoId
  <2>1. o \in Goods
    BY <1>7, Kinds DEF Orderly, Living
  <2>2. PICK h \in Holders : a.ID[h] = a.parent[o]
    BY <1>7, <2>1 DEF Orderly, Families
  <2>3. h \in Objects /\ h # o /\ a.ID[h] \in Ids
    BY <1>1, <1>7, <2>1, <2>2, Kinds
  <2>4. h \in a.alive /\ h \in a.control /\ h \in a.reg
    BY <2>2, <2>3 DEF Orderly, Living, Tabled
  <2>5. id \in ToSet(a.children[h])
    BY <2>1, <2>2, <2>4 DEF Orderly, Families
  <2>6. Contains(w.children[h], id)
    <3>1. a.children[h] \in Seq(Ids)
      BY <1>1, <2>3
    <3>2. QED
      BY <1>4, <2>5, <3>1, ToSetProperties
  <2>7. Registered(w, a.parent[o]) = h
    BY <1>0, <1>1, <2>2, <2>3, <2>4, RegisteredIs
  <2> DEFINE added == GraphAdd(w, o, TRUE)
             d == Enlisted(Placed(a, o), o)
             s == RemoveFirst(a.children[h], id)
             loose == [added EXCEPT !.ID_Parent[o] = NoId, !.children[h] = s]
             c == Owned(d, o, NoId, h, s)
  <2>8. Shows(added, d)
    BY <1>2, GraphAddShows
  <2>9. d \in Censuses
    BY <2>8 DEF Shows
  <2>10. /\ d.alive = a.alive /\ d.ID = a.ID /\ d.parent = a.parent /\ d.children = a.children
         /\ d.online = a.online /\ d.control = a.control /\ d.ent = a.ent /\ d.reg = a.reg
         /\ d.lev = a.lev \cup {o} /\ d.pts = a.pts \cup {o} /\ d.pool = a.pool
    BY <1>0, <1>2 DEF Enlisted, Placed, UsesLocations, Censuses
  <2>11. added.children = a.children
    BY <2>8, <2>10 DEF Shows
  <2>12. Detach(w, h, o, TRUE) = loose
    <3>1. added \in Worlds
      BY <2>8 DEF Shows
    <3>2. Detach(w, h, o, TRUE) =
            [added EXCEPT !.ID_Parent[o] = NoId, !.children[h] = RemoveFirst(@, id)]
      BY <1>4, <2>6 DEF Detach, Require
    <3>3. QED
      BY <2>3, <2>11, <3>1, <3>2 DEF Worlds
  <2>13. s \in Seq(Ids)
    BY <1>1, <2>3, RemoveFirstProperties
  <2> HIDE DEF added, d, s
  <2>14. NoId \in Ids \cup {NoId}
    OBVIOUS
  <2>15. Shows(loose, c)
    BY <2>3, <2>8, <2>13, <2>14, OwnedShows, ZenonT(60)
  <2>16. c \in Censuses
    BY <2>15 DEF Shows
  <2>17. /\ c.alive = d.alive /\ c.ID = d.ID /\ c.parent = [d.parent EXCEPT ![o] = NoId]
         /\ c.children = [d.children EXCEPT ![h] = s] /\ c.online = d.online
         /\ c.control = d.control /\ c.ent = d.ent /\ c.reg = d.reg /\ c.lev = d.lev
         /\ c.pts = d.pts /\ c.pool = d.pool
    BY <2>9 DEF Owned, Censuses
  <2> HIDE DEF loose, c
  <2>18. loose.ID = a.ID
    BY <2>10, <2>15, <2>17 DEF Shows
  <2>19. ~Gone1(loose).online[o]
    BY <2>10, <2>15, <2>17 DEF Shows, Worlds
  <2>20. ReleaseAlone(w, o, TRUE) = entity_Destroy(Outside(loose, o, id), o)
    <3>1. Attached(w, o) /\ h # None
      BY <1>4, <1>7, <2>1, <2>3, Kinds DEF Attached
    <3>2. unregister_object(w, o, TRUE) = GraphRemove(Gone1(loose), o, TRUE)
      BY <1>4, <2>7, <2>12, <2>18, <2>19, <3>1 DEF unregister_object
    <3>3. QED
      BY <1>4, <1>5, <3>2, Kinds DEF ReleaseAlone, Outside
  <2>21. o \notin c.online /\ c.ID[o] \in Ids
    BY <1>2, <2>10, <2>17
  <2>22. Shows(entity_Destroy(Outside(loose, o, id), o), Left(c, o)) /\ LeftIs(c, Left(c, o), o)
    <3>1. c.ID[o] = id
      BY <2>10, <2>17
    <3>2. QED
      BY <1>2, <2>15, <2>21, <3>1, LeaveShows
  <2>23. Bereft(a, o) = [[a.children EXCEPT ![h] = s] EXCEPT ![o] = <<>>]
    BY <1>0, <2>2, <2>3, BereftIs DEF s
  <2>24. /\ Left(c, o).alive = b.alive /\ Left(c, o).ID = b.ID /\ Left(c, o).online = b.online
         /\ Left(c, o).control = b.control /\ Left(c, o).ent = b.ent /\ Left(c, o).reg = b.reg
         /\ Left(c, o).pool = b.pool
    BY <1>3, <2>10, <2>17, <2>22 DEF KilledIs, LeftIs
  <2>25. Left(c, o).children = b.children
    BY <1>3, <2>10, <2>17, <2>22, <2>23 DEF KilledIs, LeftIs
  <2>26. Left(c, o).parent = b.parent
    <3>1. [[a.parent EXCEPT ![o] = NoId] EXCEPT ![o] = NoId] = [a.parent EXCEPT ![o] = NoId]
      BY <1>1
    <3>2. QED
      BY <1>3, <2>10, <2>17, <2>22, <3>1 DEF KilledIs, LeftIs
  <2>27. Left(c, o).lev = b.lev /\ Left(c, o).pts = b.pts
    BY <1>3, <2>10, <2>17, <2>22 DEF KilledIs, LeftIs
  <2>28. Left(c, o) = b
    BY <1>3, <2>22, <2>24, <2>25, <2>26, <2>27, SameCensus DEF KilledIs, LeftIs
  <2>29. QED
    BY <2>20, <2>22, <2>28 DEF b
<1>8. QED
  BY <1>6, <1>7

\* The census c differs from a in nothing that the death of o does not change.
Dying(a, c, o) ==
    /\ c \in Censuses /\ o \notin c.control /\ o \notin c.lev /\ o \notin c.pts
    /\ c.alive = a.alive /\ c.ID = a.ID /\ c.pool = a.pool
    /\ [c.parent EXCEPT ![o] = NoId] = [a.parent EXCEPT ![o] = NoId]
    /\ [c.children EXCEPT ![o] = <<>>] = Bereft(a, o)
    /\ c.online \ {o} = a.online \ {o} /\ c.control \cup {o} = a.control \cup {o}
    /\ c.ent \ {o} = a.ent \ {o} /\ c.reg \ {o} = a.reg \ {o}
    /\ c.lev = a.lev \ {o} /\ c.pts = a.pts \ {o}

LEMMA DyingShows ==
    ASSUME NEW a \in Censuses, NEW o \in Objects, a.ID[o] \in Ids,
           NEW v, NEW c, Shows(v, c), Dying(a, c, o)
    PROVE  Shows(entity_Destroy(v, o), Killed(a, o))
<1> DEFINE d == Dead(c, o)
           b == Killed(a, o)
<1>1. Shows(entity_Destroy(v, o), d)
  BY DestroyKills DEF Dying
<1>2. KilledIs(a, b, o)
  BY KilledAre
<1>3. /\ d \in Censuses
      /\ d.alive = c.alive \ {o} /\ d.ID = [c.ID EXCEPT ![o] = NoId]
      /\ d.parent = [c.parent EXCEPT ![o] = NoId] /\ d.children = [c.children EXCEPT ![o] = <<>>]
      /\ d.online = c.online \ {o} /\ d.control = c.control \cup {o}
      /\ d.ent = c.ent \ {o} /\ d.reg = c.reg \ {o} /\ d.lev = c.lev /\ d.pts = c.pts
      /\ d.pool = Append(c.pool, c.ID[o])
  <2>1. d \in Censuses
    BY <1>1 DEF Shows
  <2>2. QED
    BY <2>1, ZenonT(60) DEF Dead, Dying, Censuses
<1> HIDE DEF d, b
<1>4. /\ d.alive = b.alive /\ d.ID = b.ID /\ d.parent = b.parent /\ d.children = b.children
      /\ d.online = b.online /\ d.control = b.control /\ d.ent = b.ent /\ d.reg = b.reg
      /\ d.lev = b.lev /\ d.pts = b.pts /\ d.pool = b.pool
  BY <1>2, <1>3 DEF KilledIs, Dying
<1>5. d = b
  BY <1>2, <1>3, <1>4, SameCensus DEF KilledIs
<1>6. QED
  BY <1>1, <1>5 DEF b

LEMMA ReleaseIs ==
    ASSUME NEW w, NEW o, NEW query
    PROVE  release(w, o, query) =
             IF Registered(w, w.ID[o]) = None THEN w
             ELSE ReleaseAlone(LetGoAll(w, query, w.children[Registered(w, w.ID[o])]), o, query)
BY Zenon DEF release, LetGoAll, LetGo

LEMMA LetGoNobody ==
    ASSUME NEW w, NEW query
    PROVE  LetGoAll(w, query, <<>>) = w
<1>1. ASSUME NEW seq \in Seq(Ids), Len(seq) = 0
      PROVE  LetGoAll(w, query, seq) = w
  <2>1. PICK path : path[0] = w /\ path[Len(seq)] = LetGoAll(w, query, seq)
    BY LetGoPath
  <2>2. QED
    BY <1>1, <2>1
<1>2. <<>> \in Seq(Ids) /\ Len(<<>>) = 0
  BY EmptySeq
<1>3. QED
  BY <1>1, <1>2

\* The end of DestroyAlone: ALife lets go of somebody who is online and alone, and he dies.
LEMMA DestroyFreeShows ==
    ASSUME NEW w, NEW a, Shows(w, a), Orderly(a), NEW e \in Objects, e \in a.online,
           a.parent[e] = NoId, a.children[e] = <<>>, NEW id \in Ids, a.ID[e] = id
    PROVE  Shows(entity_Destroy(IF w.control[e] /\ Registered(w, id) # None
                                THEN release(w, e, FALSE) ELSE w, e), Killed(a, e))
<1>0. a \in Censuses /\ Grounded(a) /\ Unique(a.ID)
  BY OrderlyGrounded DEF Shows
<1>1. /\ a.reg \in SUBSET Objects /\ a.alive \in SUBSET Objects /\ a.online \in SUBSET Objects
      /\ a.control \in SUBSET Objects /\ a.lev \in SUBSET Objects /\ a.pts \in SUBSET Objects
      /\ a.children \in [Objects -> Seq(Ids)] /\ a.parent \in [Objects -> Ids \cup {NoId}]
      /\ a.ID \in [Objects -> Ids \cup {NoId}] /\ a.pool \in Seq(Ids)
  BY <1>0, CensusFields
<1>2. /\ e \in a.alive /\ (e \in a.reg <=> e \in a.control) /\ (e \in a.lev <=> e \in a.control)
      /\ e \notin a.pts
  BY DEF Orderly, Living, Tabled
<1>3. w.ID = a.ID /\ w.ID_Parent = a.parent /\ w.children = a.children /\ w \in Worlds
      /\ (w.control[e] <=> e \in a.control)
  BY DEF Shows
<1>4. Bereft(a, e) = [a.children EXCEPT ![e] = <<>>]
  BY <1>0, BereftIs
<1>5. CASE e \notin a.control
  <2>1. Dying(a, a, e)
    <3>1. a.lev \ {e} = a.lev /\ a.pts \ {e} = a.pts
      BY <1>2, <1>5
    <3>2. QED
      BY <1>0, <1>2, <1>4, <1>5, <3>1 DEF Dying
  <2>2. QED
    BY <1>0, <1>3, <1>5, <2>1, DyingShows
<1>6. CASE e \in a.control
  <2>1. Registered(w, id) = e
    BY <1>0, <1>2, <1>6, RegisteredIs
  <2> DEFINE gone == [w EXCEPT !.registry[id] = None]
             g == Unknown(a, e)
             less == LevelRemove(gone, e)
             l == Delisted(g, e)
             out == [less EXCEPT !.control[e] = FALSE]
             f == Flagged(l, e, TRUE, FALSE)
  <2>2. release(w, e, FALSE) = ReleaseAlone(w, e, FALSE)
    BY <1>3, <2>1, ReleaseIs, LetGoNobody, Kinds
  <2>3. Shows(gone, g)
    BY RegShows
  <2>4. /\ g.alive = a.alive /\ g.ID = a.ID /\ g.parent = a.parent /\ g.children = a.children
        /\ g.online = a.online /\ g.control = a.control /\ g.ent = a.ent /\ g.reg = a.reg \ {e}
        /\ g.lev = a.lev /\ g.pts = a.pts /\ g.pool = a.pool
    BY <1>0 DEF Unknown, Censuses
  <2>5. gone.level = w.level /\ gone.ID = w.ID /\ gone.ID_Parent = w.ID_Parent
        /\ gone.online = w.online
    BY <1>3 DEF Worlds
  <2>6. ~Attached(w, e)
    BY <1>3 DEF Attached
  <2>7. w.online[e] /\ w.level[id] # None
    <3>1. w.level[id] = e
      BY <1>2, <1>6, LevelIs
    <3>2. QED
      BY <3>1, Kinds DEF Shows
  <2> HIDE DEF gone
  <2>8. unregister_object(w, e, FALSE) = less
    BY <1>3, <2>5, <2>6, <2>7 DEF unregister_object, Require, gone
  <2>9. ReleaseAlone(w, e, FALSE) = out
    BY <1>3, <2>1, <2>8, Kinds DEF ReleaseAlone
  <2> HIDE DEF g
  <2>10. Shows(less, l)
    BY <2>3, <2>4, LevelRemoveShows
  <2>11. g \in Censuses /\ l \in Censuses
    BY <2>3, <2>10 DEF Shows
  <2>12. /\ l.alive = g.alive /\ l.ID = g.ID /\ l.parent = g.parent /\ l.children = g.children
         /\ l.online = g.online /\ l.control = g.control /\ l.ent = g.ent /\ l.reg = g.reg
         /\ l.lev = g.lev \ {e} /\ l.pts = g.pts /\ l.pool = g.pool
    BY <2>11 DEF Delisted, Censuses
  <2> HIDE DEF less, l
  <2>13. less.online[e] = TRUE
    BY <2>4, <2>10, <2>12 DEF Shows, Worlds
  <2>14. Shows(out, f)
    BY <2>10, <2>13, ControlShows
  <2>15. f \in Censuses
    BY <2>14 DEF Shows
  <2>16. /\ f.alive = l.alive /\ f.ID = l.ID /\ f.parent = l.parent /\ f.children = l.children
         /\ f.online = l.online \cup {e} /\ f.control = l.control \ {e} /\ f.ent = l.ent
         /\ f.reg = l.reg /\ f.lev = l.lev /\ f.pts = l.pts /\ f.pool = l.pool
    BY <2>11 DEF Flagged, Censuses
  <2> HIDE DEF out, f
  <2>17. Dying(a, f, e)
    <3>1. a.pts \ {e} = a.pts /\ a.online \cup {e} = a.online
      BY <1>2
    <3>2. f.online = a.online /\ f.lev = a.lev \ {e} /\ f.pts = a.pts \ {e} /\ f.reg = a.reg \ {e}
          /\ f.control = a.control \ {e} /\ f.ent = a.ent /\ f.parent = a.parent
          /\ f.children = a.children /\ f.alive = a.alive /\ f.ID = a.ID /\ f.pool = a.pool
      BY <2>4, <2>12, <2>16, <3>1
    <3>3. QED
      BY <1>2, <1>4, <2>15, <3>2 DEF Dying
  <2>18. QED
    BY <1>0, <1>3, <1>6, <2>1, <2>2, <2>9, <2>14, <2>17, DyingShows, Kinds
<1>7. QED
  BY <1>5, <1>6

LEMMA KilledFreed ==
    ASSUME NEW a \in Censuses, Unique(a.ID), NEW e \in Objects, NEW h \in Objects, h # e,
           a.ID[e] \in Ids, a.ID[h] \in Ids, a.parent[e] = a.ID[h]
    PROVE  Killed(Freed(a, e, h), e) = Killed(a, e)
<1> DEFINE c == Freed(a, e, h)
           b == Killed(a, e)
           d == Killed(c, e)
<1>1. c \in Censuses /\ FreedIs(a, c, e, h)
  BY FreedFields
<1>2. KilledIs(a, b, e)
  BY KilledAre
<1>3. /\ a.ID \in [Objects -> Ids \cup {NoId}] /\ a.parent \in [Objects -> Ids \cup {NoId}]
      /\ a.children \in [Objects -> Seq(Ids)]
  BY CensusFields
<1> HIDE DEF b, c
<1>4. KilledIs(c, d, e)
  BY <1>1, KilledAre DEF FreedIs
<1>5. Unique(c.ID) /\ c.parent[e] = NoId
  BY <1>1, <1>3 DEF FreedIs
<1>6. Bereft(a, e) = [[a.children EXCEPT ![h] = RemoveFirst(@, a.ID[e])] EXCEPT ![e] = <<>>]
  BY BereftIs
<1>7. Bereft(c, e) = [c.children EXCEPT ![e] = <<>>]
  BY <1>1, <1>5, BereftIs
<1> HIDE DEF d
<1>8. d.children = b.children
  BY <1>1, <1>2, <1>4, <1>6, <1>7 DEF FreedIs, KilledIs
<1>9. d.parent = b.parent
  <2>1. [[a.parent EXCEPT ![e] = NoId] EXCEPT ![e] = NoId] = [a.parent EXCEPT ![e] = NoId]
    BY <1>3
  <2>2. QED
    BY <1>1, <1>2, <1>4, <2>1 DEF FreedIs, KilledIs
<1>10. d.control = b.control /\ d.reg = b.reg /\ d.lev = b.lev
  BY <1>1, <1>2, <1>4 DEF FreedIs, KilledIs
<1>11. /\ d.alive = b.alive /\ d.ID = b.ID /\ d.online = b.online /\ d.ent = b.ent
       /\ d.pts = b.pts /\ d.pool = b.pool
  BY <1>1, <1>2, <1>4 DEF FreedIs, KilledIs
<1>12. d = b
  BY <1>2, <1>4, <1>8, <1>9, <1>10, <1>11, SameCensus DEF KilledIs
<1>13. QED
  BY <1>12 DEF b, c, d

\* Whose owner somebody's parent id leads to, in an orderly census.
LEMMA OwnerIs ==
    ASSUME NEW a \in Censuses, Unique(a.ID), Orderly(a), NEW e \in Objects, e \in a.alive,
           a.parent[e] # NoId
    PROVE  /\ e \in Goods /\ a.ID[e] \in Ids /\ a.parent[e] \in Ids
           /\ \E h \in Holders : /\ a.ID[h] = a.parent[e] /\ h \in a.alive /\ h \in a.control
                                 /\ h \in a.reg /\ h # e /\ a.ID[e] \in ToSet(a.children[h])
                                 /\ (e \in a.online <=> h \in a.online)
<1>1. a.parent \in [Objects -> Ids \cup {NoId}]
  BY CensusFields
<1>2. e \in Goods /\ a.ID[e] \in Ids /\ a.parent[e] \in Ids
  BY <1>1, Kinds DEF Orderly, Living
<1>3. PICK h \in Holders : a.ID[h] = a.parent[e]
  BY <1>2 DEF Orderly, Families
<1>4. h \in Objects /\ h # e
  BY <1>2, Kinds
<1>5. h \in a.alive /\ h \in a.control /\ h \in a.reg
  BY <1>2, <1>3, <1>4 DEF Orderly, Living, Tabled
<1>6. a.ID[e] \in ToSet(a.children[h]) /\ (e \in a.online <=> h \in a.online)
  BY <1>2, <1>3, <1>5 DEF Orderly, Families
<1>7. QED
  BY <1>2, <1>3, <1>4, <1>5, <1>6

LEMMA OrderlyHolding ==
    ASSUME NEW a \in Censuses, Unique(a.ID), Orderly(a), NEW e \in Goods, e \in a.online,
           NEW h \in Holders, a.parent[e] = a.ID[h], a.parent[e] # NoId
    PROVE  Holding(a, e, h) /\ h \in a.alive /\ h \in a.online /\ e \in a.alive
<1>1. /\ a.parent \in [Objects -> Ids \cup {NoId}] /\ a.ID \in [Objects -> Ids \cup {NoId}]
  BY CensusFields
<1>2. e \in Objects /\ h \in Objects
  BY Kinds
<1>3. e \in a.alive /\ h \in a.alive /\ h \in a.control /\ a.ID[h] \in Ids /\ a.ID[e] \in Ids
  BY <1>1, <1>2 DEF Orderly, Living
<1>4. a.ID[e] \in ToSet(a.children[h]) /\ h \in a.online
  BY <1>3 DEF Orderly, Families
<1>5. h \in a.reg /\ h \in a.ent /\ e \in a.ent /\ e \notin a.lev /\ (e \in a.reg <=> e \in a.control)
  BY <1>2, <1>3, <1>4 DEF Orderly, Tabled
<1>6. e \in Bolts => e \notin a.control
  BY <1>2, <1>3 DEF Orderly, Living
<1>7. QED
  BY <1>3, <1>4, <1>5, <1>6 DEF Holding

\* An entity without children is destroyed.
LEMMA DestroyAloneShows ==
    ASSUME NEW w, NEW a, Shows(w, a), Orderly(a), NEW e \in Objects, e \in a.online,
           a.children[e] = <<>>, NEW id \in Ids, a.ID[e] = id
    PROVE  Shows(DestroyAlone(w, id), Killed(a, e))
<1>0. a \in Censuses /\ Grounded(a) /\ Unique(a.ID)
  BY OrderlyGrounded DEF Shows
<1>1. e \in a.alive /\ e \in a.ent
  BY DEF Orderly, Living, Tabled
<1>2. w.entities[id] = e /\ e # None
  BY <1>1, EntityIs, Kinds
<1>3. w.ID = a.ID /\ w.ID_Parent = a.parent
  BY DEF Shows
<1>4. CASE a.parent[e] = NoId
  <2>1. DestroyAlone(w, id) = entity_Destroy(IF w.control[e] /\ Registered(w, id) # None
                                             THEN release(w, e, FALSE) ELSE w, e)
    BY <1>2, <1>3, <1>4 DEF DestroyAlone
  <2>2. QED
    BY <1>4, <2>1, DestroyFreeShows
<1>5. CASE a.parent[e] # NoId
  <2>1. e \in Goods
    BY <1>0, <1>1, <1>5, OwnerIs
  <2>2. PICK h \in Holders : a.ID[h] = a.parent[e]
    BY <1>0, <1>1, <1>5, OwnerIs
  <2>3. h \in Objects /\ h # e
    BY <2>1, Kinds
  <2>4. Holding(a, e, h) /\ h \in a.alive /\ h \in a.online
    BY <1>0, <1>5, <2>1, <2>2, OrderlyHolding
  <2> DEFINE v == Process_event_reject(w, a.parent[e], id)
             c == Freed(a, e, h)
  <2>5. Shows(v, c)
    BY <1>0, <2>2, <2>4, RejectShows
  <2>6. c \in Censuses /\ FreedIs(a, c, e, h)
    BY <1>0, <2>3, FreedFields
  <2>7. Orderly(c)
    BY <1>0, <1>1, <2>1, <2>2, <2>4, FreedOrderly
  <2>8. DestroyAlone(w, id) = entity_Destroy(IF v.control[e] /\ Registered(v, id) # None
                                             THEN release(v, e, FALSE) ELSE v, e)
    BY <1>2, <1>3, <1>5 DEF DestroyAlone
  <2>9. Killed(c, e) = Killed(a, e)
    BY <1>0, <2>2, <2>3, <2>4, KilledFreed DEF Holding
  <2> HIDE DEF v, c
  <2>10. e \in c.online /\ c.ID[e] = id /\ c.parent[e] = NoId /\ c.children[e] = <<>>
    <3>1. a.parent \in [Objects -> Ids \cup {NoId}] /\ a.children \in [Objects -> Seq(Ids)]
      BY <1>0, CensusFields
    <3>2. QED
      BY <2>3, <2>6, <3>1 DEF FreedIs
  <2>11. QED
    BY <2>5, <2>7, <2>8, <2>9, <2>10, DestroyFreeShows
<1>6. QED
  BY <1>4, <1>5

-----------------------------------------------------------------------------
(* A family dies: the children, one after the other, then the owner. *)

Family(a, o) == {k \in Goods : a.ID[k] \in ToSet(a.children[o])}

\* From a to b nobody but those of D dies, the others stay where they are, and ids
\* only come to the end of the pool.
Fewer(a, b, D) ==
    /\ b.alive = a.alive \ D /\ Begins(a.pool, b.pool)
    /\ \A k \in Objects : k \notin D => /\ b.ID[k] = a.ID[k]
                                        /\ (k \in b.online <=> k \in a.online)

LEMMA FewerKilled ==
    ASSUME NEW a \in Censuses, NEW c \in Censuses, NEW D, Fewer(a, c, D), NEW k \in Objects,
           c.ID[k] \in Ids
    PROVE  Fewer(a, Killed(c, k), D \cup {k})
<1> DEFINE b == Killed(c, k)
<1>1. KilledIs(c, b, k)
  BY KilledAre
<1>2. /\ c.ID \in [Objects -> Ids \cup {NoId}] /\ c.pool \in Seq(Ids) /\ a.pool \in Seq(Ids)
  BY CensusFields
<1> HIDE DEF b
<1>3. Begins(a.pool, b.pool)
  BY <1>1, <1>2, BeginsProperties DEF KilledIs, Fewer
<1>4. b.alive = a.alive \ (D \cup {k})
  BY <1>1 DEF KilledIs, Fewer
<1>5. \A m \in Objects : m \notin D \cup {k} => /\ b.ID[m] = a.ID[m]
                                                /\ (m \in b.online <=> m \in a.online)
  BY <1>1, <1>2 DEF KilledIs, Fewer
<1>6. QED
  BY <1>3, <1>4, <1>5 DEF Fewer, b

\* A child of somebody who has children, and what its death leaves.
IsChild(c, o, id, k) ==
    /\ c.ID[k] = id /\ id \in Ids /\ k \in c.alive /\ c.children[k] = <<>>
    /\ c.parent[k] = c.ID[o] /\ c.ID[o] \in Ids /\ k # o /\ o \in Holders
    /\ (k \in c.online <=> o \in c.online)
    /\ Orderly(Killed(c, k)) /\ Unique(Killed(c, k).ID)
    /\ ToSet(Killed(c, k).children[o]) = ToSet(c.children[o]) \ {id}

LEMMA ChildIs ==
    ASSUME NEW c \in Censuses, Unique(c.ID), Orderly(c), NEW o \in Objects, o \in c.alive,
           NEW id \in ToSet(c.children[o])
    PROVE  \E k \in Goods : IsChild(c, o, id, k)
<1>1. /\ c.ID \in [Objects -> Ids \cup {NoId}] /\ c.children \in [Objects -> Seq(Ids)]
      /\ c.alive \in SUBSET Objects
  BY CensusFields
<1>2. o \notin Goods
  BY EmptyUnique DEF Orderly, Living
<1>3. o \in Holders
  BY <1>2, Kinds
<1>4. PICK k \in Goods : c.ID[k] = id
  BY DEF Orderly, Families
<1>5. k \in Objects /\ k # o
  BY <1>2, Kinds
<1>6. c.children[o] \in Seq(Ids)
  BY <1>1
<1>7. id \in Ids
  BY <1>6, ToSetProperties
<1>8. k \in c.alive /\ c.children[k] = <<>> /\ c.ID[o] \in Ids
  BY <1>4, <1>5, <1>7 DEF Orderly, Living
<1>9. c.parent[k] = c.ID[o] /\ (k \in c.online <=> o \in c.online) /\ IsInjective(c.children[o])
  BY <1>3, <1>4, <1>8 DEF Orderly, Families
<1>10. Orderly(Killed(c, k)) /\ Unique(Killed(c, k).ID)
  BY <1>8, KilledOrderly
<1>11. ToSet(Killed(c, k).children[o]) = ToSet(c.children[o]) \ {id}
  <2>1. Killed(c, k).children = Bereft(c, k)
    BY <1>4, <1>5, <1>7, KilledAre DEF KilledIs
  <2>2. Bereft(c, k)[o] = RemoveFirst(c.children[o], id)
    BY <1>4, <1>5, <1>8, <1>9, Kinds DEF Bereft
  <2>3. QED
    BY <1>6, <1>9, <2>1, <2>2, RemoveUnique
<1>12. QED
  BY <1>3, <1>4, <1>5, <1>7, <1>8, <1>9, <1>10, <1>11 DEF IsChild

\* The n-th turn kills the n-th child.
Kills(path, seq, n, on) ==
    \A c \in Censuses, k \in Goods :
        /\ Shows(path[n - 1], c) /\ Orderly(c) /\ c.ID[k] = seq[n] /\ c.children[k] = <<>>
        /\ k \in c.alive /\ (k \in c.online <=> on)
        => Shows(path[n], Killed(c, k))

\* After n turns.
Emptied(a, c, o, D, rest) ==
    /\ c \in Censuses /\ Unique(c.ID) /\ Orderly(c) /\ o \in c.alive /\ c.ID[o] = a.ID[o]
    /\ D \subseteq Family(a, o) /\ Fewer(a, c, D)
    /\ ToSet(c.children[o]) = rest

LEMMA FamilyDies ==
    ASSUME NEW a \in Censuses, Unique(a.ID), Orderly(a), NEW o \in Objects, o \in a.alive,
           NEW path, NEW seq, seq = a.children[o], Shows(path[0], a),
           \A n \in 1..Len(seq) : Kills(path, seq, n, o \in a.online)
    PROVE  \E c, D : /\ Shows(path[Len(seq)], c) /\ Emptied(a, c, o, D, {}) /\ c.children[o] = <<>>
                     /\ (o \in c.online <=> o \in a.online)
<1> DEFINE N == Len(seq)
           Rest(n) == {seq[i] : i \in (n + 1)..N}
           Good == {n \in 0..N : \E c, D : Shows(path[n], c) /\ Emptied(a, c, o, D, Rest(n))}
<1>1. seq \in Seq(Ids) /\ N \in Nat /\ IsInjective(seq)
  <2>1. seq \in Seq(Ids)
    BY CensusFields
  <2>2. QED
    BY <2>1, LenProperties DEF Orderly, Families
<1>2. o \notin Family(a, o)
  <2>1. o \in Goods => a.children[o] = <<>>
    BY DEF Orderly, Living
  <2>2. QED
    BY <2>1, EmptyUnique DEF Family
<1>3. 0 \in Good
  <2>1. ToSet(a.children[o]) = Rest(0)
    BY <1>1, ToSetProperties
  <2>2. Fewer(a, a, {})
    <3>1. a.pool \in Seq(Ids) /\ a.alive \in SUBSET Objects
      BY CensusFields
    <3>2. QED
      BY <3>1, BeginsProperties DEF Fewer
  <2>3. Emptied(a, a, o, {}, Rest(0))
    BY <2>1, <2>2 DEF Emptied
  <2> HIDE DEF Rest
  <2>4. 0 \in 0..N
    BY <1>1
  <2>5. QED
    BY <2>3, <2>4
<1>4. ASSUME NEW n \in 1..N, n - 1 \in Good PROVE n \in Good
  <2>1. PICK c, D : Shows(path[n - 1], c) /\ Emptied(a, c, o, D, Rest(n - 1))
    BY <1>4
  <2>2. seq[n] \in Rest(n - 1) /\ Rest(n - 1) \ {seq[n]} = Rest(n)
    <3>1. n \in ((n - 1) + 1)..N
      BY <1>1
    <3>2. \A i \in 1..N : seq[i] = seq[n] => i = n
      BY <1>1, ToSetProperties
    <3>3. ASSUME NEW x PROVE x \in Rest(n - 1) \ {seq[n]} <=> x \in Rest(n)
      <4>1. ASSUME x \in Rest(n - 1) \ {seq[n]} PROVE x \in Rest(n)
        <5>1. PICK i \in ((n - 1) + 1)..N : x = seq[i]
          BY <4>1
        <5>2. i # n /\ i \in (n + 1)..N
          BY <1>1, <4>1, <5>1
        <5>3. QED
          BY <5>1, <5>2
      <4>2. ASSUME x \in Rest(n) PROVE x \in Rest(n - 1) \ {seq[n]}
        <5>1. PICK i \in (n + 1)..N : x = seq[i]
          BY <4>2
        <5>2. i \in ((n - 1) + 1)..N /\ i \in 1..N /\ i # n
          BY <1>1
        <5>3. QED
          BY <3>2, <5>1, <5>2
      <4>3. QED
        BY <4>1, <4>2
    <3>4. QED
      BY <3>1, <3>3
  <2> HIDE DEF Rest
  <2>3. /\ c \in Censuses /\ Unique(c.ID) /\ Orderly(c) /\ o \in c.alive /\ c.ID[o] = a.ID[o]
        /\ D \subseteq Family(a, o) /\ Fewer(a, c, D) /\ ToSet(c.children[o]) = Rest(n - 1)
    BY <2>1 DEF Emptied
  <2>4. PICK k \in Goods : IsChild(c, o, seq[n], k)
    <3>1. seq[n] \in ToSet(c.children[o])
      BY <2>2, <2>3
    <3>2. QED
      BY <2>3, <3>1, ChildIs
  <2>5. k \in Objects /\ k \notin D
    BY <2>3, <2>4, Kinds DEF Fewer, IsChild
  <2>6. o \in c.online <=> o \in a.online
    BY <1>2, <2>3 DEF Fewer
  <2>7. Shows(path[n], Killed(c, k))
    BY <2>1, <2>3, <2>4, <2>6 DEF Kills, IsChild
  <2>8. Fewer(a, Killed(c, k), D \cup {k})
    BY <2>3, <2>4, <2>5, FewerKilled DEF IsChild
  <2>9. k \in Family(a, o)
    <3>1. a.ID[k] = seq[n]
      BY <2>3, <2>4, <2>5 DEF Fewer, IsChild
    <3>2. seq[n] \in ToSet(seq)
      BY <1>1, ToSetProperties
    <3>3. QED
      BY <2>4, <3>1, <3>2 DEF Family
  <2>10. KilledIs(c, Killed(c, k), k)
    BY <2>3, <2>4, <2>5, KilledAre DEF IsChild
  <2>11. o \in Killed(c, k).alive /\ Killed(c, k).ID[o] = a.ID[o]
    <3>1. c.ID \in [Objects -> Ids \cup {NoId}]
      BY <2>3, CensusFields
    <3>2. QED
      BY <2>3, <2>4, <2>10, <3>1 DEF KilledIs, IsChild
  <2>12. Emptied(a, Killed(c, k), o, D \cup {k}, Rest(n))
    BY <2>2, <2>3, <2>4, <2>8, <2>9, <2>10, <2>11 DEF Emptied, KilledIs, IsChild
  <2>13. QED
    BY <1>1, <2>7, <2>12
<1>5. N \in Good
  <2>1. \A n \in 1..N : n - 1 \in Good => n \in Good
    BY <1>4
  <2> HIDE DEF Good
  <2>2. \A n \in 0..N : n \in Good
    BY <1>1, <1>3, <2>1, Climb
  <2>3. QED
    BY <1>1, <2>2
<1>6. PICK c, D : Shows(path[N], c) /\ Emptied(a, c, o, D, Rest(N))
  BY <1>5
<1>7. Rest(N) = {}
  BY <1>1
<1>8. c.children[o] = <<>>
  <2>1. c.children[o] \in Seq(Ids) /\ ToSet(c.children[o]) = {}
    BY <1>6, <1>7, CensusFields DEF Emptied
  <2>2. QED
    BY <2>1, NoElements
<1>9. o \in c.online <=> o \in a.online
  BY <1>2, <1>6 DEF Emptied, Fewer
<1>10. QED
  BY <1>6, <1>7, <1>8, <1>9

\* What is left when o and his family are dead.
Purged(a, b, o) ==
    /\ b \in Censuses /\ Orderly(b)
    /\ \E D : o \in D /\ D \subseteq Family(a, o) \cup {o} /\ Fewer(a, b, D)

LEMMA PurgedKilled ==
    ASSUME NEW a \in Censuses, NEW o \in Objects, NEW c, NEW D, Emptied(a, c, o, D, {}),
           c.children[o] = <<>>
    PROVE  Purged(a, Killed(c, o), o)
<1>1. c.ID[o] \in Ids
  BY DEF Emptied, Orderly, Living
<1>2. Orderly(Killed(c, o))
  BY KilledOrderly DEF Emptied
<1>3. Fewer(a, Killed(c, o), D \cup {o})
  BY <1>1, FewerKilled DEF Emptied
<1>4. Killed(c, o) \in Censuses
  BY <1>1, KilledAre DEF Emptied, KilledIs
<1>5. o \in D \cup {o} /\ D \cup {o} \subseteq Family(a, o) \cup {o}
  BY DEF Emptied
<1>6. QED
  BY <1>2, <1>3, <1>4, <1>5 DEF Purged

\* alife():release of somebody offline.
LEMMA ReleaseShows ==
    ASSUME NEW w, NEW a, Shows(w, a), Orderly(a), NEW o \in Objects, o \in a.alive,
           o \notin a.online
    PROVE  \E b : Shows(release(w, o, TRUE), b) /\ Purged(a, b, o)
<1> DEFINE seq == a.children[o]
<1>0. a \in Censuses /\ Grounded(a) /\ Unique(a.ID)
  BY OrderlyGrounded DEF Shows
<1>1. o \in a.reg /\ a.ID[o] \in Ids /\ a.ID[o] \in Ids \cup {NoId}
  BY DEF Orderly, Living, Tabled
<1>2. w.ID = a.ID /\ w.children = a.children
  BY DEF Shows
<1>3. Registered(w, a.ID[o]) = o /\ o # None
  BY <1>0, <1>1, RegisteredIs, Kinds
<1>4. release(w, o, TRUE) = ReleaseAlone(LetGoAll(w, TRUE, seq), o, TRUE)
  BY <1>2, <1>3, ReleaseIs
<1>5. seq \in Seq(Ids)
  BY <1>0, CensusFields
<1> HIDE DEF seq
<1>6. PICK path : /\ path[0] = w /\ path[Len(seq)] = LetGoAll(w, TRUE, seq)
                  /\ \A n \in 1..Len(seq) : path[n] = LetGo(path[n - 1], seq[n], TRUE)
  <2>1. \A query : \E path : /\ path[0] = w /\ path[Len(seq)] = LetGoAll(w, query, seq)
                             /\ \A n \in 1..Len(seq) :
                                   path[n] = LetGo(path[n - 1], seq[n], query)
    BY <1>5, LetGoPath
  <2>2. QED
    BY <2>1, Zenon
<1>7. ASSUME NEW n \in 1..Len(seq) PROVE Kills(path, seq, n, o \in a.online)
  <2>1. SUFFICES ASSUME NEW c \in Censuses, NEW k \in Goods, Shows(path[n - 1], c), Orderly(c),
                        c.ID[k] = seq[n], c.children[k] = <<>>, k \in c.alive, k \notin c.online
                 PROVE  Shows(path[n], Killed(c, k))
    BY DEF Kills
  <2>2. k \in Objects /\ Grounded(c) /\ c.ID[k] \in Ids
    BY <2>1, Kinds, OrderlyGrounded DEF Orderly, Living
  <2>3. k \in c.reg
    BY <2>1, <2>2 DEF Orderly, Living, Tabled
  <2>4. Registered(path[n - 1], seq[n]) = k /\ k # None
    <3>1. seq[n] \in Ids \cup {NoId}
      BY <2>1, <2>2
    <3>2. QED
      BY <2>1, <2>2, <2>3, <3>1, RegisteredIs, Kinds
  <2>5. path[n] = ReleaseAlone(path[n - 1], k, TRUE)
    BY <1>6, <2>4 DEF LetGo
  <2>6. QED
    BY <2>1, <2>2, <2>5, ReleaseOfflineShows
<1>8. PICK c, D : /\ Shows(path[Len(seq)], c) /\ Emptied(a, c, o, D, {}) /\ c.children[o] = <<>>
                  /\ (o \in c.online <=> o \in a.online)
  <2>1. Shows(path[0], a) /\ seq = a.children[o]
    BY <1>6 DEF seq
  <2>2. QED
    BY <1>0, <1>7, <2>1, FamilyDies
<1>9. Shows(release(w, o, TRUE), Killed(c, o))
  BY <1>4, <1>6, <1>8, ReleaseOfflineShows DEF Emptied
<1>10. QED
  BY <1>0, <1>8, <1>9, PurgedKilled

\* GE_DESTROY.
LEMMA DestroyEventShows ==
    ASSUME NEW w, NEW a, Shows(w, a), Orderly(a), NEW o \in Objects, o \in a.online,
           NEW id \in Ids, a.ID[o] = id
    PROVE  \E b : Shows(Process_event_destroy(w, id), b) /\ Purged(a, b, o)
<1> DEFINE seq == a.children[o]
           orphan == DestroyAll(w, seq)
<1>0. a \in Censuses /\ Unique(a.ID)
  BY DEF Shows
<1>1. o \in a.ent /\ o \in a.alive
  BY DEF Orderly, Living, Tabled
<1>2. w.entities[id] = o /\ o # None /\ w.children = a.children
  <2>1. w.entities[id] = o /\ o # None
    BY <1>1, EntityIs, Kinds
  <2>2. QED
    BY <2>1 DEF Shows
<1>3. Process_event_destroy(w, id) =
        Require(orphan.children[o] = <<>>, DestroyAlone(orphan, id))
  BY <1>2 DEF Process_event_destroy, DestroyAll
<1>5. seq \in Seq(Ids)
  BY <1>0, CensusFields
<1> HIDE DEF seq
<1>6. PICK path : /\ path[0] = w /\ path[Len(seq)] = DestroyAll(w, seq)
                  /\ \A n \in 1..Len(seq) : path[n] = DestroyAlone(path[n - 1], seq[n])
  BY <1>5, DestroyPath
<1>7. ASSUME NEW n \in 1..Len(seq) PROVE Kills(path, seq, n, o \in a.online)
  <2>1. SUFFICES ASSUME NEW c \in Censuses, NEW k \in Goods, Shows(path[n - 1], c), Orderly(c),
                        c.ID[k] = seq[n], c.children[k] = <<>>, k \in c.alive, k \in c.online
                 PROVE  Shows(path[n], Killed(c, k))
    BY DEF Kills
  <2>2. k \in Objects /\ c.ID[k] \in Ids
    BY <2>1, Kinds DEF Orderly, Living
  <2>3. path[n] = DestroyAlone(path[n - 1], seq[n])
    BY <1>6
  <2>4. QED
    BY <2>1, <2>2, <2>3, DestroyAloneShows
<1>8. PICK c, D : /\ Shows(path[Len(seq)], c) /\ Emptied(a, c, o, D, {}) /\ c.children[o] = <<>>
                  /\ (o \in c.online <=> o \in a.online)
  <2>1. Shows(path[0], a) /\ seq = a.children[o]
    BY <1>6 DEF seq
  <2>2. QED
    BY <1>0, <1>1, <1>7, <2>1, FamilyDies
<1>9. Shows(orphan, c)
  BY <1>6, <1>8
<1> HIDE DEF orphan
<1>10. c.ID[o] = id /\ Orderly(c) /\ o \in c.online
  BY <1>8 DEF Emptied
<1>11. Shows(DestroyAlone(orphan, id), Killed(c, o))
  BY <1>8, <1>9, <1>10, DestroyAloneShows
<1>12. orphan.children[o] = <<>>
  BY <1>8, <1>9 DEF Shows
<1>13. Shows(Process_event_destroy(w, id), Killed(c, o))
  BY <1>3, <1>11, <1>12 DEF Require
<1>14. QED
  BY <1>0, <1>8, <1>13, PurgedKilled

-----------------------------------------------------------------------------
(* The switch to online. *)

Onlined(a, D) == [a EXCEPT !.online = @ \cup D, !.ent = @ \cup D]

OnlinedIs(a, b, D) ==
    /\ b \in Censuses
    /\ b.alive = a.alive /\ b.ID = a.ID /\ b.parent = a.parent /\ b.children = a.children
    /\ b.online = a.online \cup D /\ b.control = a.control /\ b.ent = a.ent \cup D
    /\ b.reg = a.reg /\ b.lev = a.lev /\ b.pts = a.pts /\ b.pool = a.pool

LEMMA OnlinedAre ==
    ASSUME NEW a \in Censuses, NEW D \in SUBSET Objects
    PROVE  OnlinedIs(a, Onlined(a, D), D)
<1>1. a.online \in SUBSET Objects /\ a.ent \in SUBSET Objects
  BY CensusFields
<1>2. Onlined(a, D) \in Censuses
  BY <1>1 DEF Onlined, Censuses
<1>3. QED
  BY <1>2 DEF Onlined, OnlinedIs, Censuses

\* An object that ALife has leaves the server and enters it once more.
LEMMA RespawnShows ==
    ASSUME NEW w, NEW a, Shows(w, a), NEW o \in Objects, NEW id \in Ids, a.ID[o] = id,
           o \in a.control, id \notin ToSet(a.pool),
           a.parent[o] = NoId \/ \E h \in Objects : h # o /\ h \in a.ent /\ a.ID[h] = a.parent[o]
    PROVE  Shows(SpawnExisting(entity_Destroy(w, o), o), Entered(a, o))
<1> DEFINE v == entity_Destroy(w, o)
           g == Gone(a, o)
           born == PerformIDgen(v, o)
           p == Pooled(g, a.pool)
<1>0. a \in Censuses
  BY DEF Shows
<1>1. /\ a.ent \in SUBSET Objects /\ a.pool \in Seq(Ids) /\ a.ID \in [Objects -> Ids \cup {NoId}]
      /\ a.parent \in [Objects -> Ids \cup {NoId}]
  BY <1>0, CensusFields
<1>2. Shows(v, g)
  BY DestroyKeeps
<1>3. g \in Censuses
  BY <1>2 DEF Shows
<1>4. /\ g.alive = a.alive /\ g.ID = a.ID /\ g.parent = a.parent /\ g.children = a.children
      /\ g.online = a.online /\ g.control = a.control /\ g.ent = a.ent \ {o} /\ g.reg = a.reg
      /\ g.lev = a.lev /\ g.pts = a.pts /\ g.pool = Append(a.pool, id)
  BY <1>0 DEF Gone, Censuses
<1> HIDE DEF v, g
<1>5. RemoveFirst(g.pool, g.ID[o]) = a.pool /\ Contains(g.pool, g.ID[o])
  <2>1. RemoveFirst(Append(a.pool, id), id) = a.pool
    BY <1>1, AppendRemove
  <2>2. Append(a.pool, id) \in Seq(Ids) /\ id \in ToSet(Append(a.pool, id))
    BY <1>1, AppendUnique
  <2>3. QED
    <3> DEFINE t == Append(a.pool, id)
    <3>1. t \in Seq(Ids) /\ id \in ToSet(t) /\ g.pool = t /\ g.ID[o] = id
      BY <1>4, <2>2
    <3> HIDE DEF t
    <3>2. Contains(t, id)
      BY <3>1, ToSetProperties
    <3>3. QED
      BY <2>1, <3>1, <3>2 DEF t
<1>6. Shows(born, p)
  <2>1. g.ID[o] \in Ids
    BY <1>4
  <2>2. QED
    BY <1>1, <1>2, <1>5, <2>1, AgainShows
<1>7. p \in Censuses
  BY <1>6 DEF Shows
<1>8. /\ p.alive = g.alive /\ p.ID = g.ID /\ p.parent = g.parent /\ p.children = g.children
      /\ p.online = g.online /\ p.control = g.control /\ p.ent = g.ent /\ p.reg = g.reg
      /\ p.lev = g.lev /\ p.pts = g.pts /\ p.pool = a.pool
  BY <1>3 DEF Pooled, Censuses
<1> HIDE DEF born, p
<1>9. born.ID[o] = id /\ p.ID[o] = id
  BY <1>4, <1>6, <1>8 DEF Shows
<1> DEFINE e == Entered(p, o)
<1>10. Shows([born EXCEPT !.entities[id] = o], e)
  BY <1>6, <1>9, EntShows
<1>11. e \in Censuses
  BY <1>10 DEF Shows
<1>12. /\ e.alive = p.alive /\ e.ID = p.ID /\ e.parent = p.parent /\ e.children = p.children
       /\ e.online = p.online /\ e.control = p.control /\ e.ent = p.ent \cup {o} /\ e.reg = p.reg
       /\ e.lev = p.lev /\ e.pts = p.pts /\ e.pool = p.pool
  BY <1>7 DEF Entered, Censuses
<1> HIDE DEF e
<1> DEFINE b == Entered(a, o)
<1>13. /\ b \in Censuses
       /\ b.alive = a.alive /\ b.ID = a.ID /\ b.parent = a.parent /\ b.children = a.children
       /\ b.online = a.online /\ b.control = a.control /\ b.ent = a.ent \cup {o} /\ b.reg = a.reg
       /\ b.lev = a.lev /\ b.pts = a.pts /\ b.pool = a.pool
  <2>1. b \in Censuses
    BY <1>0, <1>1 DEF Entered, Censuses
  <2>2. QED
    BY <1>0, <2>1 DEF Entered, Censuses
<1> HIDE DEF b
<1>14. e = b
  <2>1. (a.ent \ {o}) \cup {o} = a.ent \cup {o}
    OBVIOUS
  <2>2. e.ent = b.ent
    BY <1>4, <1>8, <1>12, <1>13, <2>1
  <2>3. QED
    <3>1. /\ e.alive = b.alive /\ e.ID = b.ID /\ e.parent = b.parent /\ e.children = b.children
          /\ e.online = b.online /\ e.control = b.control /\ e.reg = b.reg
          /\ e.lev = b.lev /\ e.pts = b.pts /\ e.pool = b.pool
      BY <1>4, <1>8, <1>12, <1>13
    <3>2. QED
      BY <1>11, <1>13, <2>2, <3>1, SameCensus
<1>15. v.ID_Parent[o] = NoId \/ v.entities[v.ID_Parent[o]] # None
  <2>1. v.ID_Parent = a.parent
    BY <1>2, <1>4 DEF Shows
  <2>2. ASSUME NEW h \in Objects, h # o, h \in a.ent, a.ID[h] = a.parent[o], a.parent[o] # NoId
        PROVE  v.entities[a.parent[o]] # None
    <3>1. a.parent[o] \in Ids /\ h \in g.ent /\ g.ID[h] = a.parent[o]
      BY <1>1, <1>4, <2>2
    <3>2. v.entities[a.parent[o]] = h
      BY <1>2, <3>1, EntityIs
    <3>3. QED
      BY <3>2, Kinds
  <2>3. QED
    BY <2>1, <2>2
<1>16. SpawnExisting(v, o) = [born EXCEPT !.entities[id] = o]
  BY <1>9, <1>15 DEF SpawnExisting, Require, born
<1>17. QED
  BY <1>10, <1>14, <1>16 DEF b, v

\* A child of o enters the server after him.
LEMMA EnterShows ==
    ASSUME NEW w, NEW a \in Censuses, Orderly(a), NEW D \in SUBSET Objects,
           Shows(w, Onlined(a, D)), NEW k \in Objects, k \in a.alive, k \notin a.online,
           NEW h \in D, a.ID[h] = a.parent[k], h # k, NEW id \in Ids, a.ID[k] = id
    PROVE  Shows(Enter(w, id), Onlined(a, D \cup {k}))
<1> DEFINE c == Onlined(a, D)
           v == SpawnExisting(entity_Destroy(w, k), k)
           e == Entered(c, k)
           b == Onlined(a, D \cup {k})
<1>1. OnlinedIs(a, c, D) /\ OnlinedIs(a, b, D \cup {k})
  BY OnlinedAre
<1> HIDE DEF c, b
<1>2. k \in a.control /\ k \in a.reg /\ id \notin ToSet(a.pool)
  <2>1. k \in a.control /\ k \in a.reg
    BY DEF Orderly, Living, Tabled
  <2>2. id \notin ToSet(a.pool)
    BY DEF Orderly, PoolFits
  <2>3. QED
    BY <2>1, <2>2
<1>3. Grounded(c)
  BY <1>1, OrderlyGrounded DEF Grounded, OnlinedIs
<1>4. Registered(w, id) = k /\ k # None
  <2>1. k \in c.reg /\ c.ID[k] = id /\ id \in Ids \cup {NoId} /\ Shows(w, c)
    BY <1>1, <1>2 DEF OnlinedIs, c
  <2>2. Registered(w, id) = k
    BY <1>3, <2>1, RegisteredIs
  <2>3. QED
    BY <2>2, Kinds
<1>5. Shows(v, e)
  <2>1. c.ID[k] = id /\ k \in c.control /\ id \notin ToSet(c.pool)
    BY <1>1, <1>2 DEF OnlinedIs
  <2>2. \E m \in Objects : m # k /\ m \in c.ent /\ c.ID[m] = c.parent[k]
    BY <1>1 DEF OnlinedIs
  <2>3. Shows(w, c)
    BY DEF c
  <2>4. QED
    BY <2>1, <2>2, <2>3, RespawnShows
<1>6. e \in Censuses /\ c \in Censuses
  BY <1>1, <1>5 DEF Shows, OnlinedIs
<1>7. /\ e.alive = c.alive /\ e.ID = c.ID /\ e.parent = c.parent /\ e.children = c.children
      /\ e.online = c.online /\ e.control = c.control /\ e.ent = c.ent \cup {k} /\ e.reg = c.reg
      /\ e.lev = c.lev /\ e.pts = c.pts /\ e.pool = c.pool
  BY <1>6 DEF Entered, Censuses
<1> HIDE DEF v, e
<1>8. Enter(w, id) = [v EXCEPT !.online[k] = TRUE]
  BY <1>4 DEF Enter, v
<1>9. v.control[k] = TRUE
  BY <1>1, <1>2, <1>5, <1>7 DEF Shows, Worlds, OnlinedIs
<1> DEFINE f == Flagged(e, k, TRUE, TRUE)
<1>10. Shows([v EXCEPT !.online[k] = TRUE], f)
  BY <1>5, <1>9, OnlineShows
<1>11. f \in Censuses
  BY <1>10 DEF Shows
<1>12. /\ f.alive = e.alive /\ f.ID = e.ID /\ f.parent = e.parent /\ f.children = e.children
       /\ f.online = e.online \cup {k} /\ f.control = e.control \cup {k} /\ f.ent = e.ent
       /\ f.reg = e.reg /\ f.lev = e.lev /\ f.pts = e.pts /\ f.pool = e.pool
  BY <1>6 DEF Flagged, Censuses
<1> HIDE DEF f
<1>13. f.control = b.control /\ f.online = b.online /\ f.ent = b.ent
  <2>1. a.control \cup {k} = a.control
    BY <1>2
  <2>2. QED
    BY <1>1, <1>7, <1>12, <2>1 DEF OnlinedIs
<1>14. f = b
  <2>1. /\ f.alive = b.alive /\ f.ID = b.ID /\ f.parent = b.parent /\ f.children = b.children
        /\ f.reg = b.reg /\ f.lev = b.lev /\ f.pts = b.pts /\ f.pool = b.pool /\ b \in Censuses
    BY <1>1, <1>7, <1>12 DEF OnlinedIs
  <2>2. QED
    BY <1>11, <1>13, <2>1, SameCensus
<1>15. QED
  BY <1>8, <1>10, <1>14 DEF b

\* The census after the switch: o and his family are entities, o has left the graph.
Risen(a, o) == Taken(Onlined(a, {o} \cup Family(a, o)), o)

RisenIs(a, b, o) ==
    /\ b \in Censuses
    /\ b.alive = a.alive /\ b.ID = a.ID /\ b.parent = a.parent /\ b.children = a.children
    /\ b.online = a.online \cup ({o} \cup Family(a, o)) /\ b.control = a.control
    /\ b.ent = a.ent \cup ({o} \cup Family(a, o))
    /\ b.reg = a.reg /\ b.lev = a.lev /\ b.pts = a.pts \ {o} /\ b.pool = a.pool

LEMMA RisenAre ==
    ASSUME NEW a \in Censuses, NEW o \in Objects, o \notin Bolts
    PROVE  RisenIs(a, Risen(a, o), o)
<1> DEFINE D == {o} \cup Family(a, o)
           c == Onlined(a, D)
           b == Taken(c, o)
<1>1. D \in SUBSET Objects
  BY Kinds DEF Family
<1> HIDE DEF D
<1>2. OnlinedIs(a, c, D)
  BY <1>1, OnlinedAre
<1> HIDE DEF c
<1>3. /\ c \in Censuses /\ c.pts \in SUBSET Objects
  BY <1>2, CensusFields DEF OnlinedIs
<1>4. b \in Censuses
  BY <1>3 DEF Taken, Censuses
<1>5. /\ b.alive = c.alive /\ b.ID = c.ID /\ b.parent = c.parent /\ b.children = c.children
      /\ b.online = c.online /\ b.control = c.control /\ b.ent = c.ent
      /\ b.reg = c.reg /\ b.lev = c.lev /\ b.pts = c.pts \ {o} /\ b.pool = c.pool
  BY <1>3, <1>4 DEF Taken, UsesLocations, Censuses
<1> HIDE DEF b
<1>6. RisenIs(a, b, o)
  BY <1>2, <1>4, <1>5 DEF OnlinedIs, RisenIs, D
<1>7. QED
  BY <1>6 DEF b, c, D, Risen

LEMMA RisenOrderly ==
    ASSUME NEW a \in Censuses, Unique(a.ID), Orderly(a), NEW o \in Objects, o \in a.alive,
           o \notin a.online, a.parent[o] = NoId
    PROVE  Orderly(Risen(a, o))
<1> DEFINE b == Risen(a, o)
           F == Family(a, o)
<1>0. o \notin Bolts
  BY DEF Orderly, Living
<1>1. RisenIs(a, b, o)
  BY <1>0, RisenAre
<1>2. /\ a.ID \in [Objects -> Ids \cup {NoId}] /\ a.children \in [Objects -> Seq(Ids)]
      /\ a.parent \in [Objects -> Ids \cup {NoId}] /\ a.alive \in SUBSET Objects
  BY CensusFields
<1>3. a.ID[o] \in Ids
  BY DEF Orderly, Living
<1>4. \A k \in F : k \in Goods /\ k \in a.alive /\ a.parent[k] = a.ID[o] /\ o \in Holders
  <2>1. TAKE k \in F
  <2>2. k \in Goods /\ a.ID[k] \in ToSet(a.children[o])
    BY DEF Family
  <2>3. PICK m \in Goods : IsChild(a, o, a.ID[k], m)
    BY <2>2, ChildIs
  <2>4. m = k
    BY <2>2, <2>3, Kinds DEF IsChild, Unique
  <2>5. QED
    BY <2>2, <2>3, <2>4 DEF IsChild
<1>5. \A k \in Goods : o \in Holders /\ k \in a.alive /\ a.parent[k] = a.ID[o] => k \in F
  BY DEF Orderly, Families, Family
<1> HIDE DEF b, F
<1>6. Living(b)
  <2>1. \A k \in Objects : k \notin a.alive => k \notin {o} \cup F
    BY <1>4
  <2>2. QED
    BY <1>1, <2>1 DEF Orderly, Living, RisenIs, F
<1>7. Tabled(b)
  <2>1. \A k \in F : k \notin a.lev
    BY <1>2, <1>3, <1>4, Kinds DEF Orderly, Tabled
  <2>2. b.pts = b.lev \ b.online
    BY <1>1, <2>1 DEF Orderly, Tabled, RisenIs, F
  <2>3. QED
    BY <1>1, <2>2 DEF Orderly, Tabled, RisenIs
<1>8. Families(b)
  <2>1. ASSUME NEW h \in Holders, NEW k \in Goods, h \in a.alive, k \in a.alive,
               a.parent[k] = a.ID[h]
        PROVE  k \in {o} \cup F <=> h \in {o} \cup F
    <3>1. h \in Objects /\ k \in Objects /\ h \notin F /\ a.ID[h] \in Ids
      BY <1>4, <2>1, Kinds DEF Orderly, Living
    <3>2. k # o
      BY <2>1, <3>1, Kinds
    <3>3. k \in F => h = o
      BY <1>3, <1>4, <2>1, <3>1, Kinds DEF Unique
    <3>4. h = o => k \in F
      BY <1>5, <2>1
    <3>5. QED
      BY <3>1, <3>2, <3>3, <3>4
  <2>2. \A h \in Holders, k \in Goods : h \in b.alive /\ k \in b.alive =>
             /\ b.ID[k] \in ToSet(b.children[h]) <=> b.parent[k] = b.ID[h]
             /\ b.parent[k] = b.ID[h] => (k \in b.online <=> h \in b.online)
    <3>1. TAKE h \in Holders, k \in Goods
    <3>2. HAVE h \in b.alive /\ k \in b.alive
    <3>3. h \in a.alive /\ k \in a.alive /\ b.ID = a.ID /\ b.children = a.children
          /\ b.parent = a.parent /\ b.online = a.online \cup ({o} \cup F)
      BY <1>1, <3>2 DEF RisenIs, F
    <3>4. a.ID[k] \in ToSet(a.children[h]) <=> a.parent[k] = a.ID[h]
      BY <3>3 DEF Orderly, Families
    <3>5. a.parent[k] = a.ID[h] => (k \in a.online <=> h \in a.online)
      BY <3>3 DEF Orderly, Families
    <3>6. QED
      BY <2>1, <3>3, <3>4, <3>5
  <2>3. QED
    BY <1>1, <2>2 DEF Orderly, Families, RisenIs
<1>9. PoolFits(b)
  BY <1>1 DEF Orderly, PoolFits, RisenIs
<1>10. QED
  BY <1>6, <1>7, <1>8, <1>9 DEF Orderly, b

LEMMA GoOnlineShows ==
    ASSUME NEW w, NEW a, Shows(w, a), Orderly(a), NEW o \in Objects, o \in a.alive,
           o \notin a.online, a.parent[o] = NoId
    PROVE  Shows(GoOnline(w, o), Risen(a, o)) /\ RisenIs(a, Risen(a, o), o) /\ Orderly(Risen(a, o))
<1> DEFINE id == a.ID[o]
           seq == a.children[o]
           N == Len(seq)
           lit == [w EXCEPT !.online[o] = TRUE]
           f == Flagged(a, o, TRUE, TRUE)
           here == SpawnExisting(entity_Destroy(lit, o), o)
           Upto(n) == {o} \cup {k \in Goods : a.ID[k] \in {seq[i] : i \in 1..n}}
<1>0. a \in Censuses /\ Unique(a.ID)
  BY DEF Shows
<1>1. o \in a.control /\ o \notin Bolts /\ id \in Ids /\ id \notin ToSet(a.pool)
  <2>1. o \in a.control /\ o \notin Bolts /\ id \in Ids
    BY DEF Orderly, Living
  <2>2. QED
    BY <2>1 DEF Orderly, PoolFits
<1>2. RisenIs(a, Risen(a, o), o) /\ Orderly(Risen(a, o))
  BY <1>0, <1>1, RisenAre, RisenOrderly
<1>3. seq \in Seq(Ids) /\ N \in Nat
  <2>1. seq \in Seq(Ids)
    BY <1>0, CensusFields
  <2>2. QED
    BY <2>1, LenProperties
<1>4. Shows(here, Onlined(a, {o}))
  <2>1. w.control[o] = TRUE
    BY <1>1 DEF Shows, Worlds
  <2>2. Shows(lit, f)
    BY <2>1, OnlineShows
  <2>3. f \in Censuses
    BY <2>2 DEF Shows
  <2>4. /\ f.alive = a.alive /\ f.ID = a.ID /\ f.parent = a.parent /\ f.children = a.children
        /\ f.online = a.online \cup {o} /\ f.control = a.control \cup {o} /\ f.ent = a.ent
        /\ f.reg = a.reg /\ f.lev = a.lev /\ f.pts = a.pts /\ f.pool = a.pool
    BY <1>0 DEF Flagged, Censuses
  <2> HIDE DEF lit, f
  <2>5. Shows(here, Entered(f, o))
    <3>1. f.ID[o] = id /\ o \in f.control /\ id \notin ToSet(f.pool) /\ f.parent[o] = NoId
      BY <1>1, <2>4
    <3>2. QED
      BY <1>1, <2>2, <3>1, RespawnShows
  <2> DEFINE e == Entered(f, o)
             b == Onlined(a, {o})
  <2>6. e \in Censuses
    BY <2>5 DEF Shows
  <2>7. /\ e.alive = f.alive /\ e.ID = f.ID /\ e.parent = f.parent /\ e.children = f.children
        /\ e.online = f.online /\ e.control = f.control /\ e.ent = f.ent \cup {o} /\ e.reg = f.reg
        /\ e.lev = f.lev /\ e.pts = f.pts /\ e.pool = f.pool
    BY <2>3 DEF Entered, Censuses
  <2>8. OnlinedIs(a, b, {o})
    BY <1>0, OnlinedAre
  <2> HIDE DEF e, b, here
  <2>9. e = b
    <3>1. a.control \cup {o} = a.control
      BY <1>1
    <3>2. /\ e.alive = b.alive /\ e.ID = b.ID /\ e.parent = b.parent /\ e.children = b.children
          /\ e.online = b.online /\ e.control = b.control /\ e.ent = b.ent /\ e.reg = b.reg
          /\ e.lev = b.lev /\ e.pts = b.pts /\ e.pool = b.pool /\ b \in Censuses
      BY <2>4, <2>7, <2>8, <3>1 DEF OnlinedIs
    <3>3. QED
      BY <2>6, <3>2, SameCensus
  <2>10. QED
    BY <2>5, <2>9 DEF e, b
<1>5. here.children[o] = seq /\ ~w.online[o]
  <2>1. OnlinedIs(a, Onlined(a, {o}), {o})
    BY <1>0, OnlinedAre
  <2>2. here.children = a.children
    BY <1>4, <2>1 DEF Shows, OnlinedIs
  <2>3. QED
    BY <2>2 DEF Shows
<1>6. GoOnline(w, o) = GraphRemove(EnterAll(here, seq), o, FALSE)
  BY <1>5 DEF GoOnline, EnterAll, Require
<1> HIDE DEF here
<1>7. PICK path : /\ path[0] = here /\ path[N] = EnterAll(here, seq)
                  /\ \A n \in 1..N : path[n] = Enter(path[n - 1], seq[n])
  BY <1>3, EnterPath
<1> DEFINE Good == {n \in 0..N : Shows(path[n], Onlined(a, Upto(n)))}
<1>8. 0 \in Good
  <2>1. Upto(0) = {o}
    OBVIOUS
  <2> HIDE DEF Upto
  <2>2. Shows(path[0], Onlined(a, Upto(0)))
    BY <1>4, <1>7, <2>1
  <2>3. 0 \in 0..N
    BY <1>3
  <2>4. QED
    BY <2>2, <2>3
<1>9. ASSUME NEW n \in 1..N, n - 1 \in Good PROVE n \in Good
  <2>1. seq[n] \in ToSet(a.children[o])
    BY <1>3, ToSetProperties
  <2>2. PICK k \in Goods : IsChild(a, o, seq[n], k)
    BY <1>0, <2>1, ChildIs
  <2>3. /\ a.ID[k] = seq[n] /\ seq[n] \in Ids /\ k \in a.alive /\ a.parent[k] = a.ID[o]
        /\ k # o /\ k \notin a.online /\ k \in Objects
    BY <2>2, Kinds DEF IsChild
  <2>4. Upto(n - 1) \cup {k} = Upto(n)
    <3>1. {seq[i] : i \in 1..n} = {seq[i] : i \in 1..(n - 1)} \cup {seq[n]}
      BY <1>3
    <3>2. \A m \in Goods : a.ID[m] = seq[n] => m = k
      BY <1>0, <2>3, Kinds DEF Unique
    <3>3. QED
      BY <2>3, <3>1, <3>2
  <2>5. Upto(n - 1) \in SUBSET Objects /\ o \in Upto(n - 1)
    BY Kinds
  <2> HIDE DEF Upto
  <2>6. Shows(path[n - 1], Onlined(a, Upto(n - 1)))
    BY <1>9
  <2>7. Shows(Enter(path[n - 1], seq[n]), Onlined(a, Upto(n - 1) \cup {k}))
    BY <1>0, <2>3, <2>5, <2>6, EnterShows
  <2>8. Shows(path[n], Onlined(a, Upto(n)))
    BY <1>7, <2>4, <2>7
  <2>9. n \in 0..N
    BY <1>3
  <2>10. QED
    BY <2>8, <2>9
<1>10. N \in Good
  <2>1. \A n \in 1..N : n - 1 \in Good => n \in Good
    BY <1>9
  <2> HIDE DEF Good
  <2>2. \A n \in 0..N : n \in Good
    BY <1>3, <1>8, <2>1, Climb
  <2>3. QED
    BY <1>3, <2>2
<1>11. Upto(N) = {o} \cup Family(a, o)
  <2>1. {seq[i] : i \in 1..N} = ToSet(a.children[o])
    BY <1>3, ToSetProperties
  <2>2. QED
    BY <2>1 DEF Family
<1>12. Shows(EnterAll(here, seq), Onlined(a, {o} \cup Family(a, o)))
  BY <1>7, <1>10, <1>11
<1>13. Onlined(a, {o} \cup Family(a, o)).ID = a.ID
  <2>1. {o} \cup Family(a, o) \in SUBSET Objects
    BY Kinds DEF Family
  <2>2. QED
    BY <1>0, <2>1, OnlinedAre DEF OnlinedIs
<1>14. Shows(GraphRemove(EnterAll(here, seq), o, FALSE), Risen(a, o))
  BY <1>1, <1>12, <1>13, GraphRemoveShows DEF Risen
<1>15. QED
  BY <1>2, <1>6, <1>14

-----------------------------------------------------------------------------
(* What Sift keeps. *)

\* The steps of Sift, and what it has kept after each.
SiftSteps(path, seq, kept, S0) ==
    /\ path[0] = <<>> /\ path[Len(seq)] = Sift(seq, kept)
    /\ \A n \in 1..Len(seq) : path[n] =
          IF seq[n] \in kept THEN Append(path[n - 1], seq[n]) ELSE path[n - 1]
    /\ \A n \in 0..Len(seq) : /\ path[n] \in Seq(S0)
                              /\ ToSet(path[n]) = {seq[i] : i \in 1..n} \cap kept
                              /\ IsInjective(seq) => IsInjective(path[n])

LEMMA SiftStepsExist ==
    ASSUME NEW kept, NEW S0, NEW seq \in Seq(S0)
    PROVE  \E path : SiftSteps(path, seq, kept, S0)
<1> DEFINE N == Len(seq)
           Upto(n) == {seq[i] : i \in 1..n}
           Step(path, n) == path[n] = IF seq[n] \in kept THEN Append(path[n - 1], seq[n]) ELSE path[n - 1]
           Fits(s, n) == /\ s \in Seq(S0) /\ ToSet(s) = Upto(n) \cap kept
                         /\ IsInjective(seq) => IsInjective(s)
<1>1. N \in Nat
  BY LenProperties
<1>2. PICK path : /\ path[0] = <<>> /\ path[N] = Sift(seq, kept)
                  /\ \A n \in 1..N : Step(path, n)
  BY SiftPath
<1> DEFINE Good == {n \in 0..N : Fits(path[n], n)}
<1>3. 0 \in Good
  <2>1. Upto(0) = {}
    OBVIOUS
  <2>2. Fits(path[0], 0)
    BY <1>2, <2>1, EmptyUnique, EmptySeq
  <2>3. 0 \in 0..N
    BY <1>1
  <2> HIDE DEF Fits
  <2>4. QED
    BY <2>2, <2>3
<1>4. ASSUME NEW n \in 1..N, n - 1 \in Good PROVE n \in Good
  <2>1. n \in 0..N /\ n - 1 \in 0..N
    BY <1>1
  <2>2. Fits(path[n - 1], n - 1) /\ Step(path, n)
    BY <1>2, <1>4
  <2>3. Upto(n) = Upto(n - 1) \cup {seq[n]} /\ seq[n] \in S0
    <3>1. 1..n = (1..(n - 1)) \cup {n}
      BY <1>1
    <3>2. seq[n] \in S0
      BY <1>1, ElementOfSeq
    <3>3. QED
      BY <3>1, <3>2
  <2>4. IsInjective(seq) => seq[n] \notin Upto(n - 1)
    BY <1>1, ToSetProperties
  <2> HIDE DEF Upto
  <2>5. CASE seq[n] \in kept
    <3> DEFINE t == path[n - 1]
    <3>1. path[n] = Append(t, seq[n]) /\ t \in Seq(S0) /\ ToSet(t) = Upto(n - 1) \cap kept
          /\ (IsInjective(seq) => IsInjective(t))
      BY <2>2, <2>5
    <3> HIDE DEF t
    <3>2. /\ Append(t, seq[n]) \in Seq(S0) /\ ToSet(Append(t, seq[n])) = ToSet(t) \cup {seq[n]}
          /\ IsInjective(t) /\ seq[n] \notin ToSet(t) => IsInjective(Append(t, seq[n]))
      BY <2>3, <3>1, AppendUnique
    <3>3. Fits(path[n], n)
      <4>1. path[n] \in Seq(S0) /\ ToSet(path[n]) = Upto(n) \cap kept
        BY <2>3, <2>5, <3>1, <3>2
      <4>2. IsInjective(seq) => IsInjective(path[n])
        BY <2>4, <3>1, <3>2
      <4>3. QED
        BY <4>1, <4>2
    <3> HIDE DEF Fits
    <3>4. QED
      BY <2>1, <3>3
  <2>6. CASE seq[n] \notin kept
    <3>1. Fits(path[n], n)
      BY <2>2, <2>3, <2>6
    <3> HIDE DEF Fits
    <3>2. QED
      BY <2>1, <3>1
  <2>7. QED
    BY <2>5, <2>6
<1>5. \A n \in 0..N : n \in Good
  <2>1. \A n \in 1..N : n - 1 \in Good => n \in Good
    BY <1>4
  <2> HIDE DEF Good
  <2>2. QED
    BY <1>1, <1>3, <2>1, Climb
<1>6. SiftSteps(path, seq, kept, S0)
  BY <1>2, <1>5 DEF SiftSteps
<1>7. QED
  BY <1>6

LEMMA SiftProperties ==
    ASSUME NEW kept, NEW S0, NEW seq \in Seq(S0)
    PROVE  /\ Sift(seq, kept) \in Seq(S0) /\ ToSet(Sift(seq, kept)) = ToSet(seq) \cap kept
           /\ IsInjective(seq) => IsInjective(Sift(seq, kept))
<1>1. PICK path : SiftSteps(path, seq, kept, S0)
  BY SiftStepsExist
<1>2. Len(seq) \in 0..Len(seq) /\ ToSet(seq) = {seq[i] : i \in 1..Len(seq)}
  BY LenProperties, ToSetProperties
<1>3. QED
  BY <1>1, <1>2 DEF SiftSteps

\* What is kept depends only on the elements of the sequence.
LEMMA SiftAgree ==
    ASSUME NEW kept, NEW other, NEW S0, NEW seq \in Seq(S0),
           \A id \in ToSet(seq) : id \in kept <=> id \in other
    PROVE  Sift(seq, kept) = Sift(seq, other)
<1> DEFINE N == Len(seq)
<1>1. N \in Nat /\ \A n \in 1..N : seq[n] \in ToSet(seq)
  BY LenProperties, ToSetProperties
<1>2. PICK p : SiftSteps(p, seq, kept, S0)
  BY SiftStepsExist
<1>3. PICK q : SiftSteps(q, seq, other, S0)
  BY SiftStepsExist
<1> DEFINE Good == {n \in 0..N : p[n] = q[n]}
<1>4. 0 \in Good
  BY <1>1, <1>2, <1>3 DEF SiftSteps
<1>5. \A n \in 1..N : n - 1 \in Good => n \in Good
  <2>1. TAKE n \in 1..N
  <2>2. HAVE n - 1 \in Good
  <2>3. p[n - 1] = q[n - 1] /\ (seq[n] \in kept <=> seq[n] \in other) /\ n \in 0..N
    BY <1>1, <2>2
  <2>4. p[n] = IF seq[n] \in kept THEN Append(p[n - 1], seq[n]) ELSE p[n - 1]
    BY <1>2 DEF SiftSteps
  <2>5. q[n] = IF seq[n] \in other THEN Append(q[n - 1], seq[n]) ELSE q[n - 1]
    BY <1>3 DEF SiftSteps
  <2>6. QED
    BY <2>3, <2>4, <2>5
<1>6. N \in Good
  <2> HIDE DEF Good
  <2>1. \A n \in 0..N : n \in Good
    BY <1>1, <1>4, <1>5, Climb
  <2>2. QED
    BY <1>1, <2>1
<1>7. QED
  BY <1>2, <1>3, <1>6 DEF SiftSteps

\* A sequence of which everything is kept.
LEMMA SiftAll ==
    ASSUME NEW kept, NEW S0, NEW seq \in Seq(S0), ToSet(seq) \subseteq kept
    PROVE  Sift(seq, kept) = seq
<1> DEFINE N == Len(seq)
<1>1. N \in Nat /\ \A n \in 1..N : seq[n] \in kept /\ seq[n] \in S0
  <2>1. \A n \in 1..N : seq[n] \in ToSet(seq)
    BY ToSetProperties
  <2>2. QED
    BY <2>1, LenProperties, ElementOfSeq
<1>2. PICK p : SiftSteps(p, seq, kept, S0)
  BY SiftStepsExist
<1> DEFINE Good == {n \in 0..N : Len(p[n]) = n /\ \A i \in 1..n : p[n][i] = seq[i]}
<1>3. 0 \in Good
  BY <1>1, <1>2 DEF SiftSteps
<1>4. \A n \in 1..N : n - 1 \in Good => n \in Good
  <2>1. TAKE n \in 1..N
  <2>2. HAVE n - 1 \in Good
  <2> DEFINE t == p[n - 1]
  <2>3. t \in Seq(S0) /\ p[n] = Append(t, seq[n]) /\ n - 1 \in 0..N
    <3>1. n - 1 \in 0..N /\ seq[n] \in kept
      BY <1>1
    <3>2. p[n] = IF seq[n] \in kept THEN Append(p[n - 1], seq[n]) ELSE p[n - 1]
      BY <1>2 DEF SiftSteps
    <3>3. p[n - 1] \in Seq(S0)
      BY <1>2, <3>1 DEF SiftSteps
    <3>4. QED
      BY <3>1, <3>2, <3>3
  <2>4. Len(t) = n - 1 /\ \A i \in 1..(n - 1) : t[i] = seq[i]
    BY <2>2
  <2> HIDE DEF t
  <2>5. Len(Append(t, seq[n])) = n /\ \A i \in 1..n : Append(t, seq[n])[i] = seq[i]
    BY <1>1, <2>3, <2>4, AppendProperties
  <2>6. n \in 0..N
    BY <1>1
  <2>7. QED
    BY <2>3, <2>5, <2>6
<1>5. N \in Good
  <2> HIDE DEF Good
  <2>1. \A n \in 0..N : n \in Good
    BY <1>1, <1>3, <1>4, Climb
  <2>2. QED
    BY <1>1, <2>1
<1>6. p[N] \in Seq(S0) /\ p[N] = Sift(seq, kept)
  BY <1>1, <1>2 DEF SiftSteps
<1>7. p[N] = seq
  <2>1. Len(p[N]) = N /\ \A i \in 1..N : p[N][i] = seq[i]
    BY <1>5
  <2>2. QED
    BY <1>6, <2>1, SeqEqual
<1>8. QED
  BY <1>6, <1>7

LEMMA ReverseUnique ==
    ASSUME NEW S0, NEW seq \in Seq(S0)
    PROVE  /\ Reverse(seq) \in Seq(S0) /\ ToSet(Reverse(seq)) = ToSet(seq)
           /\ IsInjective(seq) => IsInjective(Reverse(seq))
<1> DEFINE N == Len(seq)
           r == Reverse(seq)
<1>1. N \in Nat /\ \A i \in 1..N : seq[i] \in S0
  BY LenProperties, ElementOfSeq
<1>2. r = [i \in 1..N |-> seq[(N - i) + 1]]
  BY DEF Reverse
<1>3. \A i \in 1..N : (N - i) + 1 \in 1..N /\ (N - ((N - i) + 1)) + 1 = i
  BY <1>1
<1>4. r \in Seq(S0) /\ Len(r) = N
  BY <1>1, <1>2, <1>3
<1>5. ToSet(r) = {r[i] : i \in 1..N} /\ ToSet(seq) = {seq[i] : i \in 1..N}
  BY <1>4, ToSetProperties
<1>6. ToSet(r) = ToSet(seq)
  <2>1. \A i \in 1..N : r[i] = seq[(N - i) + 1] /\ seq[i] = r[(N - i) + 1]
    BY <1>2, <1>3
  <2>2. QED
    BY <1>3, <1>5, <2>1
<1>7. IsInjective(seq) => IsInjective(r)
  <2>1. HAVE IsInjective(seq)
  <2>2. \A i, j \in 1..N : seq[i] = seq[j] => i = j
    BY <2>1, ToSetProperties
  <2>3. \A i, j \in 1..N : r[i] = r[j] => i = j
    <3>1. TAKE i, j \in 1..N
    <3>2. HAVE r[i] = r[j]
    <3>3. (N - i) + 1 = (N - j) + 1
      <4>1. seq[(N - i) + 1] = seq[(N - j) + 1]
        BY <1>2, <3>2
      <4>2. (N - i) + 1 \in 1..N /\ (N - j) + 1 \in 1..N
        BY <1>3
      <4>3. QED
        BY <2>2, <4>1, <4>2
    <3>4. QED
      BY <1>1, <3>3
  <2> HIDE DEF r
  <2>4. QED
    BY <1>4, <2>3, ToSetProperties
<1>8. QED
  BY <1>4, <1>6, <1>7

-----------------------------------------------------------------------------
(* The switch to offline: first the children are rejected and destroyed. *)

LEMMA FamilyIs ==
    ASSUME NEW a \in Censuses, Unique(a.ID), Orderly(a), NEW o \in Objects, o \in a.alive
    PROVE  /\ Family(a, o) \in SUBSET Goods
           /\ \A k \in Family(a, o) :
                 /\ k \in Objects /\ k \in a.alive /\ a.parent[k] = a.ID[o] /\ a.ID[k] \in Ids
                 /\ k # o /\ o \in Holders /\ (k \in a.online <=> o \in a.online)
                 /\ a.children[k] = <<>> /\ a.ID[k] \in ToSet(a.children[o])
           /\ \A id \in ToSet(a.children[o]) : \E k \in Family(a, o) : a.ID[k] = id
           /\ \A k \in Goods : o \in Holders /\ k \in a.alive /\ a.parent[k] = a.ID[o]
                                  => k \in Family(a, o)
<1>1. ASSUME NEW k \in Family(a, o)
      PROVE  /\ k \in Objects /\ k \in a.alive /\ a.parent[k] = a.ID[o] /\ a.ID[k] \in Ids
             /\ k # o /\ o \in Holders /\ (k \in a.online <=> o \in a.online)
             /\ a.children[k] = <<>> /\ a.ID[k] \in ToSet(a.children[o])
  <2>1. k \in Goods /\ a.ID[k] \in ToSet(a.children[o]) /\ k \in Objects
    BY Kinds DEF Family
  <2>2. PICK m \in Goods : IsChild(a, o, a.ID[k], m)
    BY <2>1, ChildIs
  <2>3. m = k
    BY <2>1, <2>2, Kinds DEF IsChild, Unique
  <2>4. QED
    BY <2>1, <2>2, <2>3 DEF IsChild
<1>2. ASSUME NEW id \in ToSet(a.children[o])
      PROVE  \E k \in Family(a, o) : a.ID[k] = id
  <2>1. PICK k \in Goods : IsChild(a, o, id, k)
    BY ChildIs
  <2>2. QED
    BY <2>1 DEF IsChild, Family
<1>3. \A k \in Goods : o \in Holders /\ k \in a.alive /\ a.parent[k] = a.ID[o]
                           => k \in Family(a, o)
  BY DEF Orderly, Families, Family
<1>4. QED
  BY <1>1, <1>2, <1>3 DEF Family

\* o is no longer online, those of D are no longer his.
DroppedIs(a, c, o, D) ==
    /\ c \in Censuses /\ c.alive = a.alive \ (D \cap Bolts)
    /\ \A k \in Objects : /\ c.ID[k] = IF k \in D \cap Bolts THEN NoId ELSE a.ID[k]
                          /\ c.parent[k] = IF k \in D THEN NoId ELSE a.parent[k]
                          /\ k # o => c.children[k] = a.children[k]
    /\ IsInjective(c.children[o])
    /\ ToSet(c.children[o]) = ToSet(a.children[o]) \ {a.ID[k] : k \in D}
    /\ c.online = a.online \ ({o} \cup (D \cap Bolts)) /\ c.control = a.control \cup D
    /\ c.ent = a.ent \ D /\ c.reg = a.reg \cup (D \ Bolts) /\ c.lev = a.lev \cup (D \ Bolts)
    /\ c.pts = a.pts
    /\ IsInjective(c.pool) /\ Begins(a.pool, c.pool)
    /\ ToSet(c.pool) = ToSet(a.pool) \cup {a.ID[k] : k \in D}

\* The one who goes offline: registered, and nobody owns him.
Sinks(a, o) ==
    /\ a \in Censuses /\ Unique(a.ID) /\ Orderly(a) /\ o \in Objects /\ o \in a.alive
    /\ o \in a.online /\ a.parent[o] = NoId /\ o \in a.control

LEMMA SinksIs ==
    ASSUME NEW a, NEW o, Sinks(a, o)
    PROVE  /\ a.ID[o] \in Ids /\ o \in a.ent /\ o \in a.reg /\ o \in a.lev /\ o \notin a.pts
           /\ o \notin Bolts /\ a.ID[o] \notin ToSet(a.pool)
<1>1. a.ID[o] \in Ids /\ o \notin Bolts
  BY DEF Sinks, Orderly, Living
<1>2. o \in a.ent /\ o \in a.reg /\ o \in a.lev /\ o \notin a.pts
  BY <1>1 DEF Sinks, Orderly, Tabled
<1>3. a.ID[o] \notin ToSet(a.pool)
  BY <1>1 DEF Sinks, Orderly, PoolFits
<1>4. QED
  BY <1>1, <1>2, <1>3

\* Someone who has not been dropped yet.
LEMMA NextDrop ==
    ASSUME NEW a, NEW o, Sinks(a, o), NEW D \in SUBSET Family(a, o), NEW c, DroppedIs(a, c, o, D),
           NEW k \in Family(a, o), k \notin D
    PROVE  /\ Grounded(c) /\ Holding(c, k, o) /\ c.ID[k] = a.ID[k] /\ c.ID[o] = a.ID[o]
           /\ a.ID[k] \notin ToSet(c.pool) /\ k \notin c.pts /\ k \in Goods /\ o \in Holders
           /\ k \in Objects /\ c.children[k] = <<>> /\ k # o /\ Unique(c.ID)
<1>0. /\ a \in Censuses /\ Unique(a.ID) /\ Orderly(a) /\ o \in Objects /\ o \in a.alive
      /\ o \in a.online /\ a.parent[o] = NoId /\ o \in a.control
  BY DEF Sinks
<1>1. /\ Family(a, o) \in SUBSET Goods
      /\ \A j \in Family(a, o) :
            /\ j \in Objects /\ j \in a.alive /\ a.parent[j] = a.ID[o] /\ a.ID[j] \in Ids
            /\ j # o /\ o \in Holders /\ (j \in a.online <=> o \in a.online)
            /\ a.children[j] = <<>> /\ a.ID[j] \in ToSet(a.children[o])
  BY <1>0, FamilyIs
<1>2. a.ID[o] \in Ids /\ o \in a.ent /\ o \in a.reg
  BY SinksIs
<1>3. o \notin D
  BY <1>1
<1>4. k \in Goods /\ k \in a.alive /\ k \in a.online /\ k \in a.ent /\ k \notin a.lev /\ k \notin a.pts
      /\ (k \in a.reg <=> k \in a.control) /\ (k \in Bolts => k \notin a.control)
  <2>1. k \in Goods /\ k \in a.alive /\ k \in a.online /\ k \in a.ent /\ a.parent[k] # NoId
    BY <1>0, <1>1, <1>2, Kinds DEF Orderly, Tabled
  <2>2. k \notin a.lev /\ k \notin a.pts /\ (k \in a.reg <=> k \in a.control)
    BY <1>0, <2>1 DEF Orderly, Tabled
  <2>3. k \in Bolts => k \notin a.control
    BY <1>0, <1>1, <2>1 DEF Orderly, Living
  <2>4. QED
    BY <2>1, <2>2, <2>3
<1>5. Grounded(c)
  <2>1. \A j \in a.reg : j \notin Bolts /\ j \in a.alive /\ a.ID[j] \in Ids /\ j \in Objects
    <3>1. a.reg \in SUBSET Objects
      BY <1>0, CensusFields
    <3>2. QED
      BY <1>0, <3>1 DEF Orderly, Tabled, Living
  <2>2. QED
    BY <1>1, <2>1 DEF Grounded, DroppedIs
<1>6. a.ID[k] \notin {a.ID[j] : j \in D}
  BY <1>0, <1>1, Kinds DEF Unique
<1>7. c.ID[k] = a.ID[k] /\ c.ID[o] = a.ID[o] /\ c.parent[k] = a.ID[o] /\ c.children[k] = <<>>
  BY <1>0, <1>1, <1>3 DEF DroppedIs
<1>8. /\ k \in c.alive /\ k \in c.ent /\ o \in c.ent /\ o \in c.reg /\ k \in c.online
      /\ k \notin c.lev /\ (k \in c.reg <=> k \in c.control) /\ (k \in Bolts => k \notin c.control)
      /\ k \notin c.pts
  BY <1>1, <1>2, <1>3, <1>4 DEF DroppedIs
<1>9. a.ID[k] \in ToSet(c.children[o])
  BY <1>1, <1>6 DEF DroppedIs
<1>10. a.ID[k] \notin ToSet(c.pool)
  <2>1. a.ID[k] \notin ToSet(a.pool)
    BY <1>0, <1>1 DEF Orderly, PoolFits
  <2>2. QED
    BY <1>6, <2>1 DEF DroppedIs
<1>11. Unique(c.ID)
  BY <1>0 DEF Unique, DroppedIs
<1>12. QED
  BY <1>1, <1>2, <1>4, <1>5, <1>7, <1>8, <1>9, <1>10, <1>11 DEF Holding

LEMMA DropShows ==
    ASSUME NEW a, NEW o, Sinks(a, o), NEW D \in SUBSET Family(a, o), NEW v, NEW c, Shows(v, c),
           DroppedIs(a, c, o, D), NEW k \in Family(a, o), k \notin D, NEW id, a.ID[k] = id
    PROVE  \E d : Shows(Dropped(v, o, id), d) /\ DroppedIs(a, d, o, D \cup {k})
<1> DEFINE r == Process_event_reject(v, a.ID[o], id)
           f == Freed(c, k, o)
           E == D \cup {k}
<1>1. /\ Grounded(c) /\ Holding(c, k, o) /\ c.ID[k] = id /\ c.ID[o] = a.ID[o]
      /\ id \notin ToSet(c.pool) /\ k \notin c.pts /\ k \in Goods /\ o \in Holders
      /\ k \in Objects /\ c.children[k] = <<>> /\ k # o /\ Unique(c.ID)
  <2>1. /\ Grounded(c) /\ Holding(c, k, o) /\ c.ID[k] = a.ID[k] /\ c.ID[o] = a.ID[o]
        /\ a.ID[k] \notin ToSet(c.pool) /\ k \notin c.pts /\ k \in Goods /\ o \in Holders
        /\ k \in Objects /\ c.children[k] = <<>> /\ k # o /\ Unique(c.ID)
    BY NextDrop
  <2>2. QED
    BY <2>1
<1>2. o \in Objects /\ c \in Censuses /\ a \in Censuses /\ id \in Ids
  BY <1>1 DEF Sinks, DroppedIs, Holding
<1>3. /\ c.ID \in [Objects -> Ids \cup {NoId}] /\ c.parent \in [Objects -> Ids \cup {NoId}]
      /\ c.children \in [Objects -> Seq(Ids)] /\ c.pool \in Seq(Ids)
  BY <1>2, CensusFields
<1>4. Shows(r, f)
  BY <1>1, RejectShows
<1>5. f \in Censuses /\ FreedIs(c, f, k, o)
  BY <1>1, <1>2, FreedFields
<1> HIDE DEF r, f
<1>6. v.entities[id] = k /\ k # None /\ v.ID_Parent[k] = v.ID[o] /\ v.ID[o] = a.ID[o]
  <2>1. v.entities[id] = k /\ k # None
    BY <1>1, <1>2, EntityIs, Kinds DEF Holding
  <2>2. QED
    BY <1>1, <2>1 DEF Shows, Holding
<1>7. r.ID_Parent[k] = NoId
  BY <1>1, <1>3, <1>4, <1>5 DEF Shows, FreedIs
<1>8. Dropped(v, o, id) = entity_Destroy(r, k)
  BY <1>6, <1>7 DEF Dropped, Require, r
<1>9. /\ f.ID[k] = id /\ f.lev = IF k \in Bolts THEN c.lev \ {k} ELSE c.lev \cup {k}
      /\ f.pts = c.pts
  BY <1>1, <1>5 DEF FreedIs
<1>10. /\ IsInjective(f.children[o]) /\ ToSet(f.children[o]) = ToSet(c.children[o]) \ {id}
       /\ \A j \in Objects : j # o => f.children[j] = c.children[j]
  <2>1. c.children[o] \in Seq(Ids) /\ IsInjective(c.children[o])
    BY <1>2, <1>3 DEF DroppedIs
  <2>2. f.children[o] = RemoveFirst(c.children[o], id)
    BY <1>1, <1>2, <1>3, <1>5 DEF FreedIs
  <2>3. \A j \in Objects : j # o => f.children[j] = c.children[j]
    BY <1>3, <1>5 DEF FreedIs
  <2>4. QED
    BY <2>1, <2>2, <2>3, RemoveUnique
<1>11. /\ Append(f.pool, id) \in Seq(Ids) /\ IsInjective(Append(f.pool, id))
       /\ ToSet(Append(f.pool, id)) = ToSet(c.pool) \cup {id} /\ Begins(a.pool, Append(f.pool, id))
  <2>1. f.pool = c.pool /\ IsInjective(c.pool) /\ Begins(a.pool, c.pool) /\ a.pool \in Seq(Ids)
    BY <1>2, <1>5, CensusFields DEF FreedIs, DroppedIs
  <2>2. QED
    BY <1>1, <1>2, <1>3, <2>1, AppendUnique, BeginsProperties
<1>12. {a.ID[j] : j \in E} = {a.ID[j] : j \in D} \cup {id}
  OBVIOUS
<1>13. CASE k \in Bolts
  <2> DEFINE d == Dead(f, k)
  <2>1. k \notin f.control /\ k \notin f.lev /\ k \notin f.pts
    BY <1>1, <1>5, <1>9, <1>13 DEF FreedIs
  <2>2. Shows(entity_Destroy(r, k), d)
    BY <1>1, <1>2, <1>4, <1>9, <2>1, DestroyKills
  <2>3. d \in Censuses
    BY <2>2 DEF Shows
  <2>4. /\ d.alive = f.alive \ {k} /\ d.ID = [f.ID EXCEPT ![k] = NoId]
        /\ d.parent = [f.parent EXCEPT ![k] = NoId] /\ d.children = [f.children EXCEPT ![k] = <<>>]
        /\ d.online = f.online \ {k} /\ d.control = f.control \cup {k}
        /\ d.ent = f.ent \ {k} /\ d.reg = f.reg \ {k} /\ d.lev = f.lev /\ d.pts = f.pts
        /\ d.pool = Append(f.pool, id)
    BY <1>5, <1>9, <2>3, ZenonT(60) DEF Dead, Censuses
  <2> HIDE DEF d
  <2>5. E \cap Bolts = (D \cap Bolts) \cup {k} /\ E \ Bolts = D \ Bolts
    BY <1>13
  <2>6. d.alive = a.alive \ (E \cap Bolts) /\ d.online = a.online \ ({o} \cup (E \cap Bolts))
    BY <1>5, <2>4, <2>5 DEF FreedIs, DroppedIs
  <2>7. d.control = a.control \cup E /\ d.ent = a.ent \ E
    BY <1>5, <1>13, <2>4 DEF FreedIs, DroppedIs
  <2>8. d.reg = a.reg \cup (E \ Bolts) /\ d.lev = a.lev \cup (E \ Bolts) /\ d.pts = a.pts
    <3>1. k \notin c.reg /\ k \notin c.lev
      BY <1>1, <1>13 DEF Holding
    <3>2. QED
      BY <1>5, <1>13, <2>4, <2>5, <3>1 DEF FreedIs, DroppedIs
  <2>9. \A j \in Objects : /\ d.ID[j] = IF j \in E \cap Bolts THEN NoId ELSE a.ID[j]
                           /\ d.parent[j] = IF j \in E THEN NoId ELSE a.parent[j]
                           /\ j # o => d.children[j] = a.children[j]
    <3>1. TAKE j \in Objects
    <3>2. d.ID[j] = IF j \in E \cap Bolts THEN NoId ELSE a.ID[j]
      BY <1>3, <1>5, <2>4, <2>5 DEF FreedIs, DroppedIs
    <3>3. d.parent[j] = IF j \in E THEN NoId ELSE a.parent[j]
      BY <1>3, <1>5, <2>4 DEF FreedIs, DroppedIs
    <3>4. f.children \in [Objects -> Seq(Ids)]
      BY <1>5, CensusFields
    <3>5. j # o => d.children[j] = a.children[j]
      BY <1>1, <1>10, <2>4, <3>4 DEF DroppedIs
    <3>6. QED
      BY <3>2, <3>3, <3>5
  <2>10. d.children[o] = f.children[o]
    <3>1. f.children \in [Objects -> Seq(Ids)]
      BY <1>5, CensusFields
    <3>2. QED
      BY <1>1, <1>2, <2>4, <3>1
  <2>11. ToSet(d.children[o]) = ToSet(a.children[o]) \ {a.ID[j] : j \in E}
    BY <1>10, <1>12, <2>10 DEF DroppedIs
  <2>12. /\ IsInjective(d.pool) /\ Begins(a.pool, d.pool)
         /\ ToSet(d.pool) = ToSet(a.pool) \cup {a.ID[j] : j \in E}
    BY <1>11, <1>12, <2>4 DEF DroppedIs
  <2> HIDE DEF E
  <2>13. DroppedIs(a, d, o, E)
    BY <1>10, <2>3, <2>6, <2>7, <2>8, <2>9, <2>10, <2>11, <2>12 DEF DroppedIs
  <2>14. QED
    BY <1>8, <2>2, <2>13 DEF d, E
<1>14. CASE k \notin Bolts
  <2> DEFINE d == Gone(f, k)
  <2>1. k \in f.control
    BY <1>5, <1>14 DEF FreedIs
  <2>2. Shows(entity_Destroy(r, k), d)
    BY <1>1, <1>2, <1>4, <1>9, <2>1, DestroyKeeps
  <2>3. d \in Censuses
    BY <2>2 DEF Shows
  <2>4. /\ d.alive = f.alive /\ d.ID = f.ID /\ d.parent = f.parent /\ d.children = f.children
        /\ d.online = f.online /\ d.control = f.control /\ d.ent = f.ent \ {k} /\ d.reg = f.reg
        /\ d.lev = f.lev /\ d.pts = f.pts /\ d.pool = Append(f.pool, id)
    BY <1>5, <1>9, <2>3 DEF Gone, Censuses
  <2> HIDE DEF d
  <2>5. E \cap Bolts = D \cap Bolts /\ E \ Bolts = (D \ Bolts) \cup {k}
    BY <1>14
  <2>6. d.alive = a.alive \ (E \cap Bolts) /\ d.online = a.online \ ({o} \cup (E \cap Bolts))
    BY <1>5, <2>4, <2>5 DEF FreedIs, DroppedIs
  <2>7. d.control = a.control \cup E /\ d.ent = a.ent \ E
    BY <1>5, <1>14, <2>4 DEF FreedIs, DroppedIs
  <2>8. d.reg = a.reg \cup (E \ Bolts) /\ d.lev = a.lev \cup (E \ Bolts) /\ d.pts = a.pts
    BY <1>5, <1>14, <2>4, <2>5 DEF FreedIs, DroppedIs
  <2>9. \A j \in Objects : /\ d.ID[j] = IF j \in E \cap Bolts THEN NoId ELSE a.ID[j]
                           /\ d.parent[j] = IF j \in E THEN NoId ELSE a.parent[j]
                           /\ j # o => d.children[j] = a.children[j]
    <3>1. TAKE j \in Objects
    <3>2. d.ID[j] = IF j \in E \cap Bolts THEN NoId ELSE a.ID[j]
      BY <1>5, <2>4, <2>5 DEF FreedIs, DroppedIs
    <3>3. d.parent[j] = IF j \in E THEN NoId ELSE a.parent[j]
      BY <1>3, <1>5, <2>4 DEF FreedIs, DroppedIs
    <3>4. j # o => d.children[j] = a.children[j]
      BY <1>10, <2>4 DEF DroppedIs
    <3>5. QED
      BY <3>2, <3>3, <3>4
  <2>11. ToSet(d.children[o]) = ToSet(a.children[o]) \ {a.ID[j] : j \in E}
    BY <1>10, <1>12, <2>4 DEF DroppedIs
  <2>12. /\ IsInjective(d.pool) /\ Begins(a.pool, d.pool)
         /\ ToSet(d.pool) = ToSet(a.pool) \cup {a.ID[j] : j \in E}
    BY <1>11, <1>12, <2>4 DEF DroppedIs
  <2> HIDE DEF E
  <2>13. DroppedIs(a, d, o, E)
    BY <1>10, <2>3, <2>4, <2>6, <2>7, <2>8, <2>9, <2>11, <2>12 DEF DroppedIs
  <2>14. QED
    BY <1>8, <2>2, <2>13 DEF d, E
<1>15. QED
  BY <1>13, <1>14

\* o leaves the server as well.
Departed(c, o) == [c EXCEPT !.ent = @ \ {o}]

DepartedIs(c, d, o) ==
    /\ d \in Censuses
    /\ d.alive = c.alive /\ d.ID = c.ID /\ d.parent = c.parent /\ d.children = c.children
    /\ d.online = c.online /\ d.control = c.control /\ d.ent = c.ent \ {o} /\ d.reg = c.reg
    /\ d.lev = c.lev /\ d.pts = c.pts /\ d.pool = c.pool

LEMMA DepartedAre ==
    ASSUME NEW c \in Censuses, NEW o
    PROVE  DepartedIs(c, Departed(c, o), o)
<1>1. c.ent \in SUBSET Objects
  BY CensusFields
<1>2. Departed(c, o) \in Censuses
  BY <1>1 DEF Departed, Censuses
<1>3. QED
  BY <1>2 DEF Departed, DepartedIs, Censuses

\* Nobody has been dropped yet.
LEMMA NoneDropped ==
    ASSUME NEW w, NEW a, Shows(w, a), NEW o, Sinks(a, o)
    PROVE  \E c : Shows([w EXCEPT !.online[o] = FALSE], c) /\ DroppedIs(a, c, o, {})
<1> DEFINE f == Flagged(a, o, FALSE, TRUE)
<1>0. a \in Censuses /\ o \in Objects /\ o \in a.control
  BY DEF Sinks
<1>1. w.control[o] = TRUE
  BY <1>0 DEF Shows, Worlds
<1>2. Shows([w EXCEPT !.online[o] = FALSE], f)
  BY <1>0, <1>1, OnlineShows
<1>3. f \in Censuses
  BY <1>2 DEF Shows
<1>4. /\ f.alive = a.alive /\ f.ID = a.ID /\ f.parent = a.parent /\ f.children = a.children
      /\ f.online = a.online \ {o} /\ f.control = a.control \cup {o} /\ f.ent = a.ent
      /\ f.reg = a.reg /\ f.lev = a.lev /\ f.pts = a.pts /\ f.pool = a.pool
  BY <1>0 DEF Flagged, Censuses
<1> HIDE DEF f
<1>5. a.control \cup {o} = a.control
  BY <1>0
<1>6. /\ IsInjective(a.children[o]) /\ IsInjective(a.pool)
  BY <1>0 DEF Sinks, Orderly, Families, PoolFits
<1>7. Begins(a.pool, a.pool)
  BY <1>0, CensusFields, BeginsProperties
<1>8. DroppedIs(a, f, o, {})
  BY <1>3, <1>4, <1>5, <1>6, <1>7 DEF DroppedIs
<1>9. QED
  BY <1>2, <1>8

\* Perform_destroy of all the children.
LEMMA DropAllShows ==
    ASSUME NEW w, NEW a, Shows(w, a), NEW o, Sinks(a, o),
           NEW v, v = [w EXCEPT !.online[o] = FALSE]
    PROVE  \E c : /\ Shows(DropAll(v, o, Reverse(a.children[o])), c)
                  /\ DroppedIs(a, c, o, Family(a, o)) /\ c.children[o] = <<>>
<1> DEFINE seq == Reverse(a.children[o])
           N == Len(seq)
           Upto(n) == {k \in Family(a, o) : a.ID[k] \in {seq[i] : i \in 1..n}}
<1>0. a \in Censuses /\ Unique(a.ID) /\ Orderly(a) /\ o \in Objects /\ o \in a.alive
  BY DEF Sinks
<1>1. a.children[o] \in Seq(Ids) /\ IsInjective(a.children[o])
  BY <1>0, CensusFields DEF Orderly, Families
<1>2. seq \in Seq(Ids) /\ ToSet(seq) = ToSet(a.children[o]) /\ IsInjective(seq)
  BY <1>1, ReverseUnique
<1> HIDE DEF seq
<1>3. /\ N \in Nat /\ ToSet(seq) = {seq[i] : i \in 1..N}
      /\ \A i, j \in 1..N : seq[i] = seq[j] => i = j
  BY <1>2, LenProperties, ToSetProperties
<1>4. PICK path : /\ path[0] = v /\ path[N] = DropAll(v, o, seq)
                  /\ \A n \in 1..N : path[n] = Dropped(path[n - 1], o, seq[n])
  BY <1>2, DropPath
<1>5. /\ Family(a, o) \in SUBSET Goods
      /\ \A k \in Family(a, o) : k \in Objects /\ a.ID[k] \in ToSet(seq)
      /\ \A id \in ToSet(seq) : \E k \in Family(a, o) : a.ID[k] = id
  BY <1>0, <1>2, FamilyIs
<1> DEFINE Good == {n \in 0..N : \E c : Shows(path[n], c) /\ DroppedIs(a, c, o, Upto(n))}
<1>6. 0 \in Good
  <2>1. Upto(0) = {}
    OBVIOUS
  <2>2. \E c : Shows(v, c) /\ DroppedIs(a, c, o, {})
    BY NoneDropped
  <2> HIDE DEF Upto
  <2>3. 0 \in 0..N
    BY <1>3
  <2>4. QED
    BY <1>4, <2>1, <2>2, <2>3
<1>7. ASSUME NEW n \in 1..N, n - 1 \in Good PROVE n \in Good
  <2>1. seq[n] \in ToSet(seq) /\ n \in 0..N
    BY <1>3
  <2>2. PICK k \in Family(a, o) : a.ID[k] = seq[n]
    BY <1>5, <2>1
  <2>3. k \notin Upto(n - 1)
    BY <1>3, <2>2
  <2>4. Upto(n) = Upto(n - 1) \cup {k}
    <3>1. {seq[i] : i \in 1..n} = {seq[i] : i \in 1..(n - 1)} \cup {seq[n]}
      BY <1>3
    <3>2. \A m \in Family(a, o) : a.ID[m] = seq[n] => m = k
      <4>1. seq[n] \in Ids
        BY <1>2, <1>3, ElementOfSeq
      <4>2. QED
        BY <1>0, <1>5, <2>2, <4>1, Kinds DEF Unique
    <3>3. QED
      BY <2>2, <3>1, <3>2
  <2>5. Upto(n - 1) \in SUBSET Family(a, o)
    OBVIOUS
  <2> HIDE DEF Upto
  <2>6. PICK c : Shows(path[n - 1], c) /\ DroppedIs(a, c, o, Upto(n - 1))
    BY <1>7
  <2>7. PICK d : /\ Shows(Dropped(path[n - 1], o, seq[n]), d)
                 /\ DroppedIs(a, d, o, Upto(n - 1) \cup {k})
    BY <2>2, <2>3, <2>5, <2>6, DropShows
  <2>8. Shows(path[n], d) /\ DroppedIs(a, d, o, Upto(n))
    BY <1>4, <2>4, <2>7
  <2>9. QED
    BY <2>1, <2>8
<1>8. N \in Good
  <2>1. \A n \in 1..N : n - 1 \in Good => n \in Good
    BY <1>7
  <2> HIDE DEF Good
  <2>2. \A n \in 0..N : n \in Good
    BY <1>3, <1>6, <2>1, Climb
  <2>3. QED
    BY <1>3, <2>2
<1>9. Upto(N) = Family(a, o)
  BY <1>3, <1>5
<1> HIDE DEF Upto
<1>10. PICK c : Shows(path[N], c) /\ DroppedIs(a, c, o, Family(a, o))
  BY <1>8, <1>9
<1>11. c.children[o] = <<>>
  <2>1. c.children[o] \in Seq(Ids)
    BY <1>0, <1>10, CensusFields DEF DroppedIs
  <2>2. ToSet(c.children[o]) = {}
    BY <1>2, <1>5, <1>10 DEF DroppedIs
  <2>3. QED
    BY <2>1, <2>2, NoElements
<1>12. QED
  BY <1>4, <1>10, <1>11 DEF seq

\* Perform_destroy, and the id is taken back.
LEMMA DepartShows ==
    ASSUME NEW w, NEW a, Shows(w, a), NEW o, Sinks(a, o)
    PROVE  \E c : /\ Shows(PerformIDgen(Perform_destroy([w EXCEPT !.online[o] = FALSE], o), o),
                           Departed(c, o))
                  /\ DroppedIs(a, c, o, Family(a, o)) /\ c.children[o] = <<>>
<1> DEFINE v == [w EXCEPT !.online[o] = FALSE]
           orphan == DropAll(v, o, Reverse(v.children[o]))
           id == a.ID[o]
<1>0. a \in Censuses /\ Unique(a.ID) /\ Orderly(a) /\ o \in Objects /\ o \in a.alive
      /\ o \in a.control /\ a.parent[o] = NoId
  BY DEF Sinks
<1>1. id \in Ids /\ id \notin ToSet(a.pool) /\ o \notin Bolts
  BY SinksIs
<1>2. v.children = a.children /\ v.ID_Parent = a.parent
  BY DEF Shows, Worlds
<1>3. PICK c : Shows(orphan, c) /\ DroppedIs(a, c, o, Family(a, o)) /\ c.children[o] = <<>>
  <2>1. \E c : /\ Shows(DropAll(v, o, Reverse(a.children[o])), c)
               /\ DroppedIs(a, c, o, Family(a, o)) /\ c.children[o] = <<>>
    BY DropAllShows
  <2>2. QED
    BY <1>2, <2>1
<1>4. Perform_destroy(v, o) =
        Require(v.ID_Parent[o] = NoId /\ orphan.children[o] = <<>>, entity_Destroy(orphan, o))
  BY Zenon DEF Perform_destroy, DropAll, Dropped
<1>5. orphan.children[o] = <<>>
  BY <1>3 DEF Shows
<1> HIDE DEF orphan
<1>6. Perform_destroy(v, o) = entity_Destroy(orphan, o)
  BY <1>0, <1>2, <1>4, <1>5 DEF Require
<1>7. c \in Censuses /\ c.ID[o] = id /\ o \in c.control /\ id \notin ToSet(c.pool)
  <2>1. /\ Family(a, o) \in SUBSET Goods
        /\ \A k \in Family(a, o) : k # o /\ k \in Objects
    BY <1>0, FamilyIs
  <2>2. id \notin {a.ID[k] : k \in Family(a, o)}
    BY <1>0, <1>1, <2>1, Kinds DEF Unique
  <2>3. QED
    BY <1>0, <1>1, <1>3, <2>2 DEF DroppedIs
<1> DEFINE g == Gone(c, o)
           p == Pooled(g, c.pool)
           d == Departed(c, o)
           left == entity_Destroy(orphan, o)
<1>8. Shows(left, g)
  BY <1>0, <1>1, <1>3, <1>7, DestroyKeeps
<1>9. g \in Censuses
  BY <1>8 DEF Shows
<1>10. /\ g.alive = c.alive /\ g.ID = c.ID /\ g.parent = c.parent /\ g.children = c.children
       /\ g.online = c.online /\ g.control = c.control /\ g.ent = c.ent \ {o} /\ g.reg = c.reg
       /\ g.lev = c.lev /\ g.pts = c.pts /\ g.pool = Append(c.pool, id)
  BY <1>7 DEF Gone, Censuses
<1> HIDE DEF left, g
<1>11. /\ c.pool \in Seq(Ids) /\ c.pool = RemoveFirst(g.pool, g.ID[o])
       /\ Contains(g.pool, g.ID[o]) /\ g.ID[o] \in Ids
  <2>1. c.pool \in Seq(Ids)
    BY <1>7, CensusFields
  <2>2. RemoveFirst(Append(c.pool, id), id) = c.pool
    BY <1>1, <1>7, <2>1, AppendRemove
  <2> DEFINE t == Append(c.pool, id)
  <2>3. t \in Seq(Ids) /\ id \in ToSet(t) /\ g.pool = t /\ g.ID[o] = id
    BY <1>1, <1>7, <1>10, <2>1, AppendUnique
  <2> HIDE DEF t
  <2>4. Contains(t, id)
    BY <2>3, ToSetProperties
  <2>5. QED
    BY <1>1, <2>1, <2>2, <2>3, <2>4 DEF t
<1>12. Shows(PerformIDgen(left, o), p)
  BY <1>0, <1>8, <1>11, AgainShows
<1>13. p \in Censuses
  BY <1>12 DEF Shows
<1>14. /\ p.alive = g.alive /\ p.ID = g.ID /\ p.parent = g.parent /\ p.children = g.children
       /\ p.online = g.online /\ p.control = g.control /\ p.ent = g.ent /\ p.reg = g.reg
       /\ p.lev = g.lev /\ p.pts = g.pts /\ p.pool = c.pool
  BY <1>9 DEF Pooled, Censuses
<1>15. DepartedIs(c, d, o)
  BY <1>7, DepartedAre
<1> HIDE DEF p, d
<1>16. p = d
  <2>1. /\ p.alive = d.alive /\ p.ID = d.ID /\ p.parent = d.parent /\ p.children = d.children
        /\ p.online = d.online /\ p.control = d.control /\ p.ent = d.ent /\ p.reg = d.reg
        /\ p.lev = d.lev /\ p.pts = d.pts /\ p.pool = d.pool /\ d \in Censuses
    BY <1>10, <1>14, <1>15 DEF DepartedIs
  <2>2. QED
    BY <1>13, <2>1, SameCensus
<1>17. QED
  BY <1>3, <1>6, <1>12, <1>16 DEF d, left

-----------------------------------------------------------------------------
(* Then those that can be saved come back. *)

RestoredIs(a, c, o, R, s) ==
    /\ c \in Censuses /\ c.alive = a.alive \ (Family(a, o) \cap Bolts)
    /\ \A k \in Objects :
          /\ c.ID[k] = IF k \in Family(a, o) \cap Bolts THEN NoId ELSE a.ID[k]
          /\ c.parent[k] = IF k \in Family(a, o) \ R THEN NoId ELSE a.parent[k]
          /\ k # o => c.children[k] = a.children[k]
    /\ c.children[o] = s
    /\ c.online = a.online \ ({o} \cup (Family(a, o) \cap Bolts) \cup R)
    /\ c.control = a.control \cup Family(a, o) /\ c.ent = a.ent \ (Family(a, o) \cup {o})
    /\ c.reg = a.reg \cup (Family(a, o) \ Bolts)
    /\ c.lev = (a.lev \cup (Family(a, o) \ Bolts)) \ R /\ c.pts = a.pts
    /\ IsInjective(c.pool) /\ Begins(a.pool, c.pool)
    /\ ToSet(c.pool) = ToSet(a.pool) \cup {a.ID[k] : k \in Family(a, o) \ R}

LEMMA NoneRestored ==
    ASSUME NEW a, NEW o, Sinks(a, o), NEW c, DroppedIs(a, c, o, Family(a, o)),
           c.children[o] = <<>>
    PROVE  RestoredIs(a, Departed(c, o), o, {}, <<>>)
<1>1. DepartedIs(c, Departed(c, o), o)
  BY DepartedAre DEF DroppedIs
<1>2. /\ Family(a, o) \ {} = Family(a, o)
      /\ {o} \cup (Family(a, o) \cap Bolts) \cup {} = {o} \cup (Family(a, o) \cap Bolts)
  OBVIOUS
<1>3. QED
  BY <1>1, <1>2 DEF RestoredIs, DroppedIs, DepartedIs

\* The registered objects at this point.
LEMMA RestoredGrounded ==
    ASSUME NEW a, NEW o, Sinks(a, o), NEW R \in SUBSET (Family(a, o) \ Bolts), NEW s, NEW c,
           RestoredIs(a, c, o, R, s)
    PROVE  /\ Grounded(c) /\ Unique(c.ID) /\ o \notin Family(a, o) /\ Family(a, o) \in SUBSET Goods
           /\ \A k \in Family(a, o) : k \in Objects /\ k # o /\ a.ID[k] \in Ids /\ k \in a.alive
                                      /\ a.parent[k] = a.ID[o] /\ o \in Holders
                                      /\ a.ID[k] \in ToSet(a.children[o])
<1>0. a \in Censuses /\ Unique(a.ID) /\ Orderly(a) /\ o \in Objects /\ o \in a.alive
  BY DEF Sinks
<1>1. /\ o \notin Family(a, o) /\ Family(a, o) \in SUBSET Goods
      /\ \A k \in Family(a, o) : k \in Objects /\ k # o /\ a.ID[k] \in Ids /\ k \in a.alive
                                 /\ a.parent[k] = a.ID[o] /\ o \in Holders
                                 /\ a.ID[k] \in ToSet(a.children[o])
  BY <1>0, FamilyIs
<1>2. Unique(c.ID)
  BY <1>0 DEF Unique, RestoredIs
<1>3. \A j \in a.reg : j \notin Bolts /\ j \in a.alive /\ a.ID[j] \in Ids /\ j \in Objects
  <2>1. a.reg \in SUBSET Objects
    BY <1>0, CensusFields
  <2>2. QED
    BY <1>0, <2>1 DEF Orderly, Tabled, Living
<1>4. Grounded(c)
  BY <1>1, <1>3 DEF Grounded, RestoredIs
<1>5. QED
  BY <1>1, <1>2, <1>4

LEMMA RestoreShows ==
    ASSUME NEW a, NEW o, Sinks(a, o), NEW R \in SUBSET (Family(a, o) \ Bolts), NEW s \in Seq(Ids),
           NEW v, NEW c, Shows(v, c), RestoredIs(a, c, o, R, s),
           NEW k \in Family(a, o) \ Bolts, k \notin R, NEW id, a.ID[k] = id, id \notin ToSet(s)
    PROVE  \E d : Shows(Restore(v, o, id), d) /\ RestoredIs(a, d, o, R \cup {k}, Append(s, id))
<1> DEFINE off == [v EXCEPT !.online[k] = FALSE]
           mine == PerformIDgen(off, k)
           placed == GraphAdd(mine, k, FALSE)
           less == GraphRemove(placed, k, TRUE)
           f == Flagged(c, k, FALSE, TRUE)
           q == RemoveFirst(c.pool, id)
           p == Pooled(f, q)
           g == Placed(p, k)
           l == Delisted(Taken(g, k), k)
           t == Append(s, id)
           d == Owned(l, k, a.ID[o], o, t)
           F == Family(a, o)
           E == R \cup {k}
<1>0. /\ a \in Censuses /\ Unique(a.ID) /\ Orderly(a) /\ o \in Objects /\ o \in a.alive
      /\ c \in Censuses
  BY DEF Sinks, RestoredIs
<1>1. /\ Grounded(c) /\ Unique(c.ID) /\ o \notin F /\ F \in SUBSET Goods
      /\ \A j \in F : j \in Objects /\ j # o /\ a.ID[j] \in Ids /\ j \in a.alive
                      /\ a.parent[j] = a.ID[o] /\ o \in Holders
                      /\ a.ID[j] \in ToSet(a.children[o])
  BY RestoredGrounded
<1>2. k \in F /\ k \in Objects /\ k # o /\ id \in Ids /\ k \notin Bolts /\ k \in Goods /\ o \in Holders
  BY <1>1
<1>3. a.ID[o] \in Ids /\ c.ID[o] = a.ID[o] /\ c.ID[k] = id
  BY <1>0, <1>1, <1>2, SinksIs DEF RestoredIs
<1>4. k \in c.control /\ k \in c.reg /\ k \notin a.pts
  <2>1. a.parent[k] # NoId
    BY <1>1, <1>2, <1>3, Kinds
  <2>2. k \notin a.pts
    BY <1>0, <2>1 DEF Orderly, Tabled
  <2>3. QED
    BY <1>2, <2>2 DEF RestoredIs
<1>5. Registered(v, id) = k /\ k # None
  <2>1. id \in Ids \cup {NoId}
    BY <1>2
  <2>2. QED
    BY <1>1, <1>2, <1>3, <1>4, <2>1, RegisteredIs, Kinds
<1>6. id \in ToSet(c.pool) /\ c.pool \in Seq(Ids) /\ IsInjective(c.pool) /\ a.pool \in Seq(Ids)
      /\ id \notin ToSet(a.pool)
  <2>1. id \in ToSet(c.pool) /\ IsInjective(c.pool)
    BY <1>2 DEF RestoredIs
  <2>2. c.pool \in Seq(Ids) /\ a.pool \in Seq(Ids)
    BY <1>0, CensusFields
  <2>3. id \notin ToSet(a.pool)
    BY <1>0, <1>2 DEF Orderly, PoolFits
  <2>4. QED
    BY <2>1, <2>2, <2>3
<1>7. q \in Seq(Ids) /\ IsInjective(q) /\ ToSet(q) = ToSet(c.pool) \ {id}
  BY <1>6, RemoveUnique
<1>8. Begins(a.pool, q)
  BY <1>6, BeginsProperties DEF RestoredIs
<1>9. Shows(off, f)
  <2>1. v.control[k] = TRUE
    BY <1>2, <1>4 DEF Shows, Worlds
  <2>2. QED
    BY <1>2, <2>1, OnlineShows
<1>10. f \in Censuses
  BY <1>9 DEF Shows
<1>11. /\ f.alive = c.alive /\ f.ID = c.ID /\ f.parent = c.parent /\ f.children = c.children
       /\ f.online = c.online \ {k} /\ f.control = c.control \cup {k} /\ f.ent = c.ent
       /\ f.reg = c.reg /\ f.lev = c.lev /\ f.pts = c.pts /\ f.pool = c.pool
  BY <1>0 DEF Flagged, Censuses
<1> HIDE DEF off, f
<1>12. Shows(mine, p)
  <2>1. Contains(f.pool, f.ID[k]) /\ f.ID[k] = id /\ q = RemoveFirst(f.pool, f.ID[k])
    BY <1>3, <1>6, <1>11, ToSetProperties
  <2> HIDE DEF q
  <2>2. QED
    BY <1>2, <1>7, <1>9, <2>1, AgainShows
<1>13. p \in Censuses
  BY <1>12 DEF Shows
<1> HIDE DEF q
<1>14. /\ p.alive = f.alive /\ p.ID = f.ID /\ p.parent = f.parent /\ p.children = f.children
       /\ p.online = f.online /\ p.control = f.control /\ p.ent = f.ent /\ p.reg = f.reg
       /\ p.lev = f.lev /\ p.pts = f.pts /\ p.pool = q
  BY <1>10 DEF Pooled, Censuses
<1> HIDE DEF mine, p
<1>15. p.ID[k] = id /\ k \notin p.online
  BY <1>3, <1>11, <1>14
<1>16. Shows(placed, g)
  BY <1>2, <1>12, <1>15, GraphAddShows
<1>17. g \in Censuses
  BY <1>16 DEF Shows
<1>18. /\ g.alive = p.alive /\ g.ID = p.ID /\ g.parent = p.parent /\ g.children = p.children
       /\ g.online = p.online /\ g.control = p.control /\ g.ent = p.ent /\ g.reg = p.reg
       /\ g.lev = p.lev /\ g.pts = p.pts \cup {k} /\ g.pool = p.pool
  BY <1>2, <1>13, <1>15 DEF Placed, UsesLocations, Censuses
<1> HIDE DEF placed, g
<1>19. Shows(less, l)
  BY <1>2, <1>15, <1>16, <1>18, GraphRemoveShows
<1>20. l \in Censuses
  BY <1>19 DEF Shows
<1>21. /\ l.alive = g.alive /\ l.ID = g.ID /\ l.parent = g.parent /\ l.children = g.children
       /\ l.online = g.online /\ l.control = g.control /\ l.ent = g.ent /\ l.reg = g.reg
       /\ l.lev = g.lev \ {k} /\ l.pts = g.pts \ {k} /\ l.pool = g.pool
  BY <1>2, <1>17 DEF Delisted, Taken, UsesLocations, Censuses
<1> HIDE DEF less, l
<1>22. t \in Seq(Ids)
  BY <1>2, AppendProperties
<1>23. a.ID[o] \in Ids \cup {NoId}
  BY <1>3
<1> HIDE DEF t
<1>24. Shows([less EXCEPT !.ID_Parent[k] = a.ID[o], !.children[o] = t], d)
  BY <1>0, <1>2, <1>19, <1>22, <1>23, OwnedShows, ZenonT(60)
<1>25. d \in Censuses
  BY <1>24 DEF Shows
<1>26. /\ d.alive = l.alive /\ d.ID = l.ID /\ d.parent = [l.parent EXCEPT ![k] = a.ID[o]]
       /\ d.children = [l.children EXCEPT ![o] = t] /\ d.online = l.online
       /\ d.control = l.control /\ d.ent = l.ent /\ d.reg = l.reg /\ d.lev = l.lev
       /\ d.pts = l.pts /\ d.pool = l.pool
  BY <1>20 DEF Owned, Censuses
<1>27. Restore(v, o, id) = [less EXCEPT !.ID_Parent[k] = a.ID[o], !.children[o] = t]
  <2>1. /\ less \in Worlds /\ less.children[o] = s /\ placed.children[o] = s
        /\ placed.ID[o] = a.ID[o] /\ placed.ID[k] = id /\ mine.ID = c.ID /\ v.ID[o] = a.ID[o]
    BY <1>3, <1>11, <1>14, <1>16, <1>18, <1>19, <1>21, <1>12 DEF Shows, RestoredIs
  <2>2. v.ID = c.ID /\ CanSave(k)
    BY <1>2 DEF Shows, CanSave
  <2>3. CASE o \in Boxes
    <3>1. Restore(v, o, id) = [less EXCEPT !.children[o] = Append(@, id), !.ID_Parent[k] = v.ID[o]]
      BY <1>5, <2>2, <2>3 DEF Restore, mine, placed, less, off
    <3>2. QED
      BY <1>0, <1>2, <2>1, <3>1 DEF Worlds, t
  <2>4. CASE o \notin Boxes
    <3>1. Restore(v, o, id) = Attach(placed, o, k, TRUE)
      BY <1>5, <2>2, <2>4 DEF Restore, mine, placed, off
    <3>2. ~Contains(placed.children[o], placed.ID[k])
      BY <2>1, ToSetProperties
    <3>3. Attach(placed, o, k, TRUE) =
            [less EXCEPT !.ID_Parent[k] = a.ID[o], !.children[o] = Append(@, id)]
      BY <2>1, <3>2 DEF Attach, Require, less
    <3>4. QED
      BY <1>0, <1>2, <2>1, <3>1, <3>3 DEF Worlds, t
  <2>5. QED
    BY <2>3, <2>4
<1> HIDE DEF d
<1>28. RestoredIs(a, d, o, E, t)
  <2>1. /\ c.ID \in [Objects -> Ids \cup {NoId}] /\ c.parent \in [Objects -> Ids \cup {NoId}]
        /\ c.children \in [Objects -> Seq(Ids)]
    BY <1>0, CensusFields
  <2>2. F \ E = (F \ R) \ {k}
    OBVIOUS
  <2>3. d.alive = a.alive \ (F \cap Bolts) /\ d.ent = a.ent \ (F \cup {o})
        /\ d.reg = a.reg \cup (F \ Bolts)
    BY <1>11, <1>14, <1>18, <1>21, <1>26 DEF RestoredIs
  <2>4. d.online = a.online \ ({o} \cup (F \cap Bolts) \cup E)
    BY <1>11, <1>14, <1>18, <1>21, <1>26 DEF RestoredIs
  <2>5. d.control = a.control \cup F
    BY <1>2, <1>11, <1>14, <1>18, <1>21, <1>26 DEF RestoredIs
  <2>6. d.lev = (a.lev \cup (F \ Bolts)) \ E
    BY <1>11, <1>14, <1>18, <1>21, <1>26 DEF RestoredIs
  <2>7. d.pts = a.pts
    <3>1. (a.pts \cup {k}) \ {k} = a.pts
      BY <1>4
    <3>2. QED
      BY <1>11, <1>14, <1>18, <1>21, <1>26, <3>1 DEF RestoredIs
  <2>8. \A j \in Objects : /\ d.ID[j] = IF j \in F \cap Bolts THEN NoId ELSE a.ID[j]
                           /\ d.parent[j] = IF j \in F \ E THEN NoId ELSE a.parent[j]
                           /\ j # o => d.children[j] = a.children[j]
    <3>1. TAKE j \in Objects
    <3>2. d.ID[j] = IF j \in F \cap Bolts THEN NoId ELSE a.ID[j]
      BY <1>11, <1>14, <1>18, <1>21, <1>26 DEF RestoredIs
    <3>3. d.parent[j] = IF j = k THEN a.ID[o] ELSE c.parent[j]
      BY <1>11, <1>14, <1>18, <1>21, <1>26, <2>1
    <3>4. c.parent[j] = IF j \in F \ R THEN NoId ELSE a.parent[j]
      BY DEF RestoredIs
    <3>5. j # o => d.children[j] = c.children[j]
      BY <1>11, <1>14, <1>18, <1>21, <1>26, <2>1
    <3>6. j # o => c.children[j] = a.children[j]
      BY DEF RestoredIs
    <3>7. a.parent[k] = a.ID[o]
      BY <1>1, <1>2
    <3>8. d.parent[j] = IF j \in F \ E THEN NoId ELSE a.parent[j]
      BY <2>2, <3>3, <3>4, <3>7
    <3>9. QED
      BY <3>2, <3>5, <3>6, <3>8
  <2>9. d.children[o] = t
    BY <1>0, <1>11, <1>14, <1>18, <1>21, <1>26, <2>1
  <2>10. ToSet(d.pool) = ToSet(a.pool) \cup {a.ID[j] : j \in F \ E}
    <3>1. {a.ID[j] : j \in F \ E} = {a.ID[j] : j \in F \ R} \ {id}
      <4>1. \A j \in F : a.ID[j] = id => j = k
        BY <1>0, <1>1, <1>2, Kinds DEF Unique
      <4>2. QED
        BY <2>2, <4>1
    <3>2. ToSet(d.pool) = ToSet(c.pool) \ {id}
      BY <1>7, <1>14, <1>18, <1>21, <1>26
    <3>3. ToSet(c.pool) = ToSet(a.pool) \cup {a.ID[j] : j \in F \ R}
      BY DEF RestoredIs
    <3>4. QED
      BY <1>6, <3>1, <3>2, <3>3
  <2>11. IsInjective(d.pool) /\ Begins(a.pool, d.pool)
    BY <1>7, <1>8, <1>14, <1>18, <1>21, <1>26
  <2> HIDE DEF E
  <2>12. QED
    BY <1>25, <2>3, <2>4, <2>5, <2>6, <2>7, <2>8, <2>9, <2>10, <2>11 DEF RestoredIs
<1>29. QED
  BY <1>24, <1>27, <1>28 DEF d, E, t

\* All that were saved, in order; an id whose object died leads nowhere.
LEMMA RestoreAllShows ==
    ASSUME NEW a, NEW o, Sinks(a, o), NEW v, NEW c0, Shows(v, c0), RestoredIs(a, c0, o, {}, <<>>),
           NEW saved \in Seq(Ids), IsInjective(saved), ToSet(saved) \subseteq ToSet(a.children[o]),
           NEW K, K = {a.ID[k] : k \in Family(a, o) \ Bolts}, K \subseteq ToSet(saved)
    PROVE  \E d : /\ Shows(RestoreAll(v, o, saved), d)
                  /\ RestoredIs(a, d, o, Family(a, o) \ Bolts, Sift(saved, K))
<1> DEFINE F == Family(a, o)
           N == Len(saved)
           Upto(n) == {k \in F \ Bolts : a.ID[k] \in {saved[i] : i \in 1..n}}
<1>0. a \in Censuses /\ Unique(a.ID) /\ Orderly(a) /\ o \in Objects /\ o \in a.alive
  BY DEF Sinks
<1>1. /\ N \in Nat /\ ToSet(saved) = {saved[i] : i \in 1..N}
      /\ \A i, j \in 1..N : saved[i] = saved[j] => i = j
  BY LenProperties, ToSetProperties
<1>2. /\ F \in SUBSET Goods
      /\ \A k \in F : k \in Objects /\ a.ID[k] \in Ids
      /\ \A id \in ToSet(a.children[o]) : \E k \in F : a.ID[k] = id
  BY <1>0, FamilyIs
<1>3. \A k \in F, j \in Objects : a.ID[j] = a.ID[k] => j = k
  BY <1>0, <1>2, Kinds DEF Unique
<1>4. PICK path : /\ path[0] = v /\ path[N] = RestoreAll(v, o, saved)
                  /\ \A n \in 1..N : path[n] = Restore(path[n - 1], o, saved[n])
  BY RestorePath
<1>5. PICK kept : SiftSteps(kept, saved, K, Ids)
  BY SiftStepsExist
<1>6. /\ kept[0] = <<>> /\ kept[N] = Sift(saved, K)
      /\ \A n \in 1..N : kept[n] =
            IF saved[n] \in K THEN Append(kept[n - 1], saved[n]) ELSE kept[n - 1]
      /\ \A n \in 0..N : /\ kept[n] \in Seq(Ids)
                         /\ ToSet(kept[n]) = {saved[i] : i \in 1..n} \cap K
  BY <1>5 DEF SiftSteps
<1> DEFINE Good == {n \in 0..N : \E c : Shows(path[n], c) /\ RestoredIs(a, c, o, Upto(n), kept[n])}
<1>7. 0 \in Good
  <2>1. Upto(0) = {}
    OBVIOUS
  <2> HIDE DEF Upto
  <2>2. 0 \in 0..N
    BY <1>1
  <2>3. QED
    BY <1>4, <1>6, <2>1, <2>2
<1>8. ASSUME NEW n \in 1..N, n - 1 \in Good PROVE n \in Good
  <2>1. saved[n] \in ToSet(saved) /\ n \in 0..N /\ n - 1 \in 0..N
    BY <1>1
  <2>2. PICK k \in F : a.ID[k] = saved[n]
    BY <1>2, <2>1
  <2>3. {saved[i] : i \in 1..n} = {saved[i] : i \in 1..(n - 1)} \cup {saved[n]}
    BY <1>1
  <2>4. saved[n] \notin {saved[i] : i \in 1..(n - 1)}
    BY <1>1
  <2>5. Upto(n - 1) \in SUBSET (F \ Bolts)
    OBVIOUS
  <2>6. k \in Bolts => Upto(n) = Upto(n - 1) /\ saved[n] \notin K
    BY <1>2, <1>3, <2>2, <2>3
  <2>7. k \notin Bolts => Upto(n) = Upto(n - 1) \cup {k} /\ saved[n] \in K /\ k \notin Upto(n - 1)
    BY <1>2, <1>3, <2>2, <2>3, <2>4
  <2> HIDE DEF Upto
  <2>8. PICK c : Shows(path[n - 1], c) /\ RestoredIs(a, c, o, Upto(n - 1), kept[n - 1])
    BY <1>8
  <2>9. /\ kept[n - 1] \in Seq(Ids) /\ saved[n] \notin ToSet(kept[n - 1])
        /\ path[n] = Restore(path[n - 1], o, saved[n])
    BY <1>4, <1>6, <2>1, <2>4
  <2>10. \E d : Shows(path[n], d) /\ RestoredIs(a, d, o, Upto(n), kept[n])
    <3>1. CASE k \in Bolts
      <4>1. Grounded(c)
        BY <2>5, <2>8, RestoredGrounded
      <4>2. saved[n] \in Ids \cup {NoId}
        BY <1>2, <2>2
      <4>3. \A j \in Objects : c.ID[j] # saved[n]
        <5>1. TAKE j \in Objects
        <5>2. c.ID[j] = IF j \in F \cap Bolts THEN NoId ELSE a.ID[j]
          BY <2>8 DEF RestoredIs
        <5>3. saved[n] # NoId
          BY <1>2, <2>2, Kinds
        <5>4. QED
          BY <1>3, <2>2, <3>1, <5>2, <5>3
      <4>4. Registered(path[n - 1], saved[n]) = None
        BY <2>8, <4>1, <4>2, <4>3, RegisteredIs
      <4>5. path[n] = path[n - 1]
        BY <2>9, <4>4 DEF Restore
      <4>6. kept[n] = kept[n - 1]
        BY <1>6, <2>6, <3>1
      <4>7. QED
        BY <2>6, <2>8, <3>1, <4>5, <4>6
    <3>2. CASE k \notin Bolts
      <4>1. kept[n] = Append(kept[n - 1], saved[n])
        BY <1>6, <2>7, <3>2
      <4>2. k \in F \ Bolts
        BY <3>2
      <4>3. \E d : /\ Shows(Restore(path[n - 1], o, saved[n]), d)
                   /\ RestoredIs(a, d, o, Upto(n - 1) \cup {k}, Append(kept[n - 1], saved[n]))
        BY <2>2, <2>5, <2>7, <2>8, <2>9, <3>2, <4>2, RestoreShows
      <4>4. QED
        BY <2>7, <2>9, <3>2, <4>1, <4>3
    <3>3. QED
      BY <3>1, <3>2
  <2>11. QED
    BY <2>1, <2>10
<1>9. N \in Good
  <2>1. \A n \in 1..N : n - 1 \in Good => n \in Good
    BY <1>8
  <2> HIDE DEF Good
  <2>2. \A n \in 0..N : n \in Good
    BY <1>1, <1>7, <2>1, Climb
  <2>3. QED
    BY <1>1, <2>2
<1>10. Upto(N) = F \ Bolts
  BY <1>1
<1> HIDE DEF Upto
<1>11. QED
  BY <1>4, <1>6, <1>9, <1>10

\* The ids of those of o's family that can be saved.
Savable(a, o) == {a.ID[k] : k \in Family(a, o) \ Bolts}

\* What SavedChildren names: those that can be saved, and perhaps others.
LEMMA SavedIs ==
    ASSUME NEW w, NEW a, Shows(w, a), NEW o, Sinks(a, o), NEW K, K = Savable(a, o)
    PROVE  /\ SavedChildren(w, o) \in Seq(Ids) /\ IsInjective(SavedChildren(w, o))
           /\ ToSet(SavedChildren(w, o)) \subseteq ToSet(a.children[o])
           /\ K \subseteq ToSet(SavedChildren(w, o))
           /\ Sift(SavedChildren(w, o), K) = Sift(a.children[o], K)
<1> DEFINE seq == a.children[o]
           E == {id \in Ids : w.entities[id] # None /\ CanSave(w.entities[id])}
<1>0. a \in Censuses /\ Unique(a.ID) /\ Orderly(a) /\ o \in Objects /\ o \in a.alive /\ o \in a.online
  BY DEF Sinks
<1>1. seq \in Seq(Ids)
  BY <1>0, CensusFields
<1>2. IsInjective(seq)
  BY <1>0 DEF Orderly, Families
<1>3. /\ Family(a, o) \in SUBSET Goods
      /\ \A k \in Family(a, o) : /\ k \in Objects /\ a.ID[k] \in Ids /\ k \in a.online
                                 /\ a.ID[k] \in ToSet(seq)
      /\ \A id \in ToSet(seq) : \E k \in Family(a, o) : a.ID[k] = id
  BY <1>0, FamilyIs
<1>12. K = {a.ID[k] : k \in Family(a, o) \ Bolts}
  BY DEF Savable
<1>4. K \subseteq ToSet(seq)
  BY <1>3, <1>12
<1>5. w.children[o] = seq
  BY DEF Shows
<1>6. \A k \in Family(a, o) : w.entities[a.ID[k]] = k
  <2>1. TAKE k \in Family(a, o)
  <2>2. a.ent = a.online
    BY <1>0 DEF Orderly, Tabled
  <2>3. QED
    BY <1>3, <2>2, EntityIs
<1>7. \A id \in ToSet(seq) : id \in E <=> id \in K
  <2>1. TAKE id \in ToSet(seq)
  <2>2. PICK k \in Family(a, o) : a.ID[k] = id
    BY <1>3
  <2>3. w.entities[id] = k /\ k # None /\ id \in Ids
    BY <1>3, <1>6, <2>2, Kinds
  <2>4. id \in K <=> k \notin Bolts
    <3>1. \A j \in Family(a, o) : a.ID[j] = id => j = k
      BY <1>0, <1>3, <2>2, Kinds DEF Unique
    <3>2. QED
      BY <1>12, <2>2, <3>1
  <2>5. QED
    BY <2>3, <2>4 DEF CanSave
<1> HIDE DEF seq, E
<1>8. Sift(seq, E) = Sift(seq, K)
  BY <1>1, <1>7, SiftAgree
<1>9. CASE o \in Traders
  <2> DEFINE s == Sift(seq, K)
  <2>1. SavedChildren(w, o) = s
    BY <1>5, <1>8, <1>9 DEF SavedChildren, E
  <2>2. s \in Seq(Ids) /\ IsInjective(s) /\ ToSet(s) = ToSet(seq) \cap K
    BY <1>1, <1>2, SiftProperties
  <2> HIDE DEF s
  <2>3. ToSet(s) = K
    BY <1>4, <2>2
  <2>4. Sift(s, K) = s
    BY <2>2, <2>3, SiftAll
  <2>5. QED
    BY <1>4, <2>1, <2>2, <2>3, <2>4 DEF s, seq
<1>10. CASE o \notin Traders
  <2>1. SavedChildren(w, o) = seq
    BY <1>5, <1>10 DEF SavedChildren
  <2>2. QED
    BY <1>1, <1>2, <1>4, <2>1 DEF seq
<1>11. QED
  BY <1>9, <1>10

-----------------------------------------------------------------------------
(* The census after the switch to offline. *)

\* o and those of his family that can be saved are offline, the others do not exist.
SunkIs(a, b, o) ==
    /\ b \in Censuses /\ b.alive = a.alive \ (Family(a, o) \cap Bolts)
    /\ \A k \in Objects : /\ b.ID[k] = IF k \in Family(a, o) \cap Bolts THEN NoId ELSE a.ID[k]
                          /\ b.parent[k] = IF k \in Family(a, o) \cap Bolts THEN NoId ELSE a.parent[k]
                          /\ k # o => b.children[k] = a.children[k]
    /\ b.children[o] = Sift(a.children[o], {a.ID[k] : k \in Family(a, o) \ Bolts})
    /\ b.online = a.online \ ({o} \cup Family(a, o)) /\ b.control = a.control \cup Family(a, o)
    /\ b.ent = a.ent \ ({o} \cup Family(a, o)) /\ b.reg = a.reg \cup (Family(a, o) \ Bolts)
    /\ b.lev = a.lev /\ b.pts = a.pts \cup {o}
    /\ IsInjective(b.pool) /\ Begins(a.pool, b.pool)
    /\ ToSet(b.pool) = ToSet(a.pool) \cup {a.ID[k] : k \in Family(a, o) \cap Bolts}

LEMMA SunkFromRestored ==
    ASSUME NEW a, NEW o, Sinks(a, o), NEW c,
           RestoredIs(a, c, o, Family(a, o) \ Bolts,
                      Sift(a.children[o], {a.ID[k] : k \in Family(a, o) \ Bolts})),
           NEW b \in Censuses,
           b.alive = c.alive, b.ID = c.ID, b.parent = c.parent, b.children = c.children,
           b.online = c.online, b.control = c.control, b.ent = c.ent, b.reg = c.reg,
           b.lev = c.lev, b.pts = c.pts \cup {o}, b.pool = c.pool
    PROVE  SunkIs(a, b, o)
<1> DEFINE F == Family(a, o)
<1>0. a \in Censuses /\ Unique(a.ID) /\ Orderly(a) /\ o \in Objects /\ o \in a.alive
  BY DEF Sinks
<1>1. a.ID[o] \in Ids /\ \A k \in F : a.parent[k] = a.ID[o]
  BY <1>0, SinksIs, FamilyIs
<1>2. \A k \in a.lev : a.parent[k] = NoId
  BY <1>0 DEF Orderly, Tabled
<1>3. (a.lev \cup (F \ Bolts)) \ (F \ Bolts) = a.lev
  BY <1>1, <1>2, Kinds
<1>4. /\ F \ (F \ Bolts) = F \cap Bolts
      /\ {o} \cup (F \cap Bolts) \cup (F \ Bolts) = {o} \cup F
      /\ F \cup {o} = {o} \cup F
  OBVIOUS
<1>5. /\ c.alive = a.alive \ (F \cap Bolts)
      /\ c.online = a.online \ ({o} \cup (F \cap Bolts) \cup (F \ Bolts))
      /\ c.control = a.control \cup F /\ c.ent = a.ent \ (F \cup {o})
      /\ c.reg = a.reg \cup (F \ Bolts)
      /\ c.lev = (a.lev \cup (F \ Bolts)) \ (F \ Bolts) /\ c.pts = a.pts
      /\ IsInjective(c.pool) /\ Begins(a.pool, c.pool)
      /\ ToSet(c.pool) = ToSet(a.pool) \cup {a.ID[k] : k \in F \ (F \ Bolts)}
      /\ c.children[o] = Sift(a.children[o], {a.ID[k] : k \in F \ Bolts})
  BY DEF RestoredIs
<1>6. \A k \in Objects : /\ c.ID[k] = IF k \in F \cap Bolts THEN NoId ELSE a.ID[k]
                         /\ c.parent[k] = IF k \in F \ (F \ Bolts) THEN NoId ELSE a.parent[k]
                         /\ k # o => c.children[k] = a.children[k]
  BY DEF RestoredIs
<1> HIDE DEF F
<1>7. QED
  BY <1>3, <1>4, <1>5, <1>6 DEF SunkIs, F

LEMMA SunkLiving ==
    ASSUME NEW a, NEW o, Sinks(a, o), NEW b, SunkIs(a, b, o)
    PROVE  Living(b) /\ Tabled(b)
<1> DEFINE F == Family(a, o)
<1>0. a \in Censuses /\ Unique(a.ID) /\ Orderly(a) /\ o \in Objects /\ o \in a.alive
      /\ o \in a.online /\ a.parent[o] = NoId /\ o \in a.control
  BY DEF Sinks
<1>1. /\ F \in SUBSET Goods /\ o \notin F
      /\ \A k \in F : /\ k \in Objects /\ k \in a.alive /\ a.parent[k] = a.ID[o]
                      /\ a.children[k] = <<>>
  BY <1>0, FamilyIs
<1>2. o \in a.lev /\ o \in a.reg /\ o \notin Bolts /\ a.ID[o] \in Ids /\ a.ID[o] # NoId
  BY SinksIs, Kinds
<1>3. /\ a.alive \in SUBSET Objects /\ a.reg \in SUBSET Objects /\ a.lev \in SUBSET Objects
      /\ a.control \in SUBSET Objects /\ a.online \in SUBSET Objects
      /\ a.children \in [Objects -> Seq(Ids)] /\ a.parent \in [Objects -> Ids \cup {NoId}]
  BY <1>0, CensusFields
<1>4. Living(a) /\ Tabled(a)
  BY <1>0 DEF Orderly
<1>5. o \in Goods => b.children[o] = <<>>
  <2>1. SUFFICES ASSUME o \in Goods PROVE b.children[o] = <<>>
    OBVIOUS
  <2>2. a.children[o] = <<>>
    BY <1>0, <1>4, <2>1 DEF Living
  <2> DEFINE s == Sift(a.children[o], {a.ID[k] : k \in Family(a, o) \ Bolts})
  <2>3. s \in Seq(Ids) /\ ToSet(s) \subseteq ToSet(a.children[o])
    BY <1>0, <1>3, SiftProperties
  <2>4. b.children[o] = s
    BY DEF SunkIs
  <2> HIDE DEF s
  <2>5. s = <<>>
    BY <2>2, <2>3, EmptyUnique, NoElements
  <2>6. QED
    BY <2>4, <2>5
<1>6. /\ b.alive = a.alive \ (F \cap Bolts) /\ b.online = a.online \ ({o} \cup F)
      /\ b.control = a.control \cup F /\ b.ent = a.ent \ ({o} \cup F)
      /\ b.reg = a.reg \cup (F \ Bolts) /\ b.lev = a.lev /\ b.pts = a.pts \cup {o}
  BY DEF SunkIs
<1>7. \A k \in Objects : /\ b.ID[k] = IF k \in F \cap Bolts THEN NoId ELSE a.ID[k]
                         /\ b.parent[k] = IF k \in F \cap Bolts THEN NoId ELSE a.parent[k]
                         /\ k # o => b.children[k] = a.children[k]
  BY DEF SunkIs
<1> HIDE DEF F
<1>8. Living(b)
  <2>1. SUFFICES ASSUME NEW j \in Objects
        PROVE  /\ j \in b.alive <=> b.ID[j] \in Ids
               /\ j \notin b.alive => /\ b.parent[j] = NoId /\ b.children[j] = <<>>
                                      /\ j \notin b.online /\ j \in b.control
               /\ j \in Goods => b.children[j] = <<>>
               /\ j \in Holders => j \in b.control /\ b.parent[j] = NoId
               /\ j \in Bolts /\ j \in b.alive => j \notin b.control
               /\ j \notin b.online => j \in b.control
    BY DEF Living
  <2>2. /\ j \in a.alive <=> a.ID[j] \in Ids
        /\ j \notin a.alive => /\ a.parent[j] = NoId /\ a.children[j] = <<>>
                               /\ j \notin a.online /\ j \in a.control
        /\ j \in Goods => a.children[j] = <<>>
        /\ j \in Holders => j \in a.control /\ a.parent[j] = NoId
        /\ j \in Bolts /\ j \in a.alive => j \notin a.control
        /\ j \notin a.online => j \in a.control
    BY <1>4 DEF Living
  <2>3. CASE j \in F \cap Bolts
    <3>1. b.ID[j] = NoId /\ b.parent[j] = NoId /\ b.children[j] = <<>>
      BY <1>1, <1>7, <2>3
    <3>2. j \in Goods /\ j \notin Holders
      BY <1>1, <2>3, Kinds
    <3>3. QED
      BY <1>1, <1>6, <2>3, <3>1, <3>2, Kinds
  <2>4. CASE j \notin F \cap Bolts
    <3>1. b.ID[j] = a.ID[j] /\ b.parent[j] = a.parent[j] /\ (j # o => b.children[j] = a.children[j])
          /\ (j \in b.alive <=> j \in a.alive)
      BY <1>6, <1>7, <2>4
    <3>2. j \in Goods => b.children[j] = <<>>
      BY <1>5, <2>2, <3>1
    <3>3. j \notin b.alive => j # o
      BY <1>0, <3>1
    <3>4. j \notin b.online => j \in b.control
      BY <1>0, <1>6, <2>2
    <3>5. j \in Bolts /\ j \in b.alive => j \notin b.control
      BY <1>6, <2>2, <2>4, <3>1
    <3>6. QED
      BY <1>6, <2>2, <3>1, <3>2, <3>3, <3>4, <3>5
  <2>5. QED
    BY <2>3, <2>4
<1>9. Tabled(b)
  <2>1. a.ent = a.online /\ a.reg = a.alive \cap a.control
        /\ a.lev = {k \in a.reg : a.parent[k] = NoId} /\ a.pts = a.lev \ a.online
    BY <1>4 DEF Tabled
  <2>2. \A k \in F : a.parent[k] # NoId
    BY <1>1, <1>2
  <2>3. \A k \in a.reg : k \notin Bolts
    BY <1>3, <1>4, <2>1 DEF Living
  <2>4. b.ent = b.online
    BY <1>6, <2>1
  <2>5. b.reg = b.alive \cap b.control
    <3>1. F \subseteq a.alive
      BY <1>1
    <3>2. QED
      BY <1>6, <2>1, <2>3, <3>1
  <2>6. b.lev = {k \in b.reg : b.parent[k] = NoId}
    <3>1. \A k \in b.reg : b.parent[k] = a.parent[k]
      BY <1>1, <1>3, <1>6, <1>7, <2>3
    <3>2. QED
      BY <1>6, <2>1, <2>2, <3>1
  <2>7. b.pts = b.lev \ b.online
    BY <1>2, <1>6, <2>1, <2>2
  <2>8. QED
    BY <2>4, <2>5, <2>6, <2>7 DEF Tabled
<1>10. QED
  BY <1>8, <1>9

LEMMA SunkOrderly ==
    ASSUME NEW a, NEW o, Sinks(a, o), NEW b, SunkIs(a, b, o)
    PROVE  Orderly(b)
<1> DEFINE F == Family(a, o)
           K == {a.ID[k] : k \in F \ Bolts}
           s == Sift(a.children[o], K)
<1>0. a \in Censuses /\ Unique(a.ID) /\ Orderly(a) /\ o \in Objects /\ o \in a.alive
  BY DEF Sinks
<1>1. /\ F \in SUBSET Goods /\ o \notin F
      /\ \A k \in F : /\ k \in Objects /\ k \in a.alive /\ a.parent[k] = a.ID[o] /\ a.ID[k] \in Ids
                      /\ a.ID[k] \in ToSet(a.children[o]) /\ o \in Holders
      /\ \A k \in Goods : o \in Holders /\ k \in a.alive /\ a.parent[k] = a.ID[o] => k \in F
  BY <1>0, FamilyIs
<1>2. a.ID[o] \in Ids /\ a.ID[o] # NoId
  BY SinksIs, Kinds
<1>3. /\ a.ID \in [Objects -> Ids \cup {NoId}] /\ a.alive \in SUBSET Objects
      /\ a.children \in [Objects -> Seq(Ids)] /\ a.parent \in [Objects -> Ids \cup {NoId}]
  BY <1>0, CensusFields
<1>4. Living(a) /\ Families(a) /\ PoolFits(a)
  BY <1>0 DEF Orderly
<1>5. IsInjective(a.children[o])
  BY <1>0, <1>4 DEF Families
<1>6. IsInjective(s) /\ ToSet(s) = ToSet(a.children[o]) \cap K
  BY <1>0, <1>3, <1>5, SiftProperties
<1>7. b.children[o] = s /\ b.alive = a.alive \ (F \cap Bolts) /\ b.online = a.online \ ({o} \cup F)
  BY DEF SunkIs
<1>8. \A k \in Objects : /\ b.ID[k] = IF k \in F \cap Bolts THEN NoId ELSE a.ID[k]
                         /\ b.parent[k] = IF k \in F \cap Bolts THEN NoId ELSE a.parent[k]
                         /\ k # o => b.children[k] = a.children[k]
  BY DEF SunkIs
<1>9. /\ IsInjective(b.pool)
      /\ ToSet(b.pool) = ToSet(a.pool) \cup {a.ID[k] : k \in F \cap Bolts}
  BY DEF SunkIs
<1>10. \A k, j \in Objects : a.ID[k] \in Ids /\ a.ID[k] = a.ID[j] => k = j
  BY <1>0, Kinds DEF Unique
<1>11. ToSet(s) = K
  BY <1>1, <1>6
<1> HIDE DEF F, K, s
<1>12. \A k \in F : a.ID[k] \in K <=> k \notin Bolts
  BY <1>1, <1>10, Kinds DEF K
<1>13. \A h \in Objects, k \in Goods :
          h \notin Goods /\ h \in a.alive /\ k \in a.alive =>
            /\ a.ID[k] \in ToSet(a.children[h]) <=> a.parent[k] = a.ID[h]
            /\ a.parent[k] = a.ID[h] => (k \in a.online <=> h \in a.online)
  BY <1>4, Kinds DEF Families
<1>14. Families(b)
  <2>1. \A h \in Objects : IsInjective(b.children[h])
    BY <1>4, <1>6, <1>7, <1>8 DEF Families
  <2>2. ASSUME NEW h \in Objects, NEW id \in ToSet(b.children[h])
        PROVE  \E k \in Goods : b.ID[k] = id
    <3>1. CASE h = o
      <4>1. id \in K
        BY <1>7, <1>11, <2>2, <3>1
      <4>2. PICK k \in F \ Bolts : a.ID[k] = id
        BY <4>1 DEF K
      <4>3. b.ID[k] = id /\ k \in Goods
        BY <1>1, <1>8, <4>2
      <4>4. QED
        BY <4>3
    <3>2. CASE h # o
      <4>1. id \in ToSet(a.children[h])
        BY <1>8, <2>2, <3>2
      <4>2. PICK k \in Goods : a.ID[k] = id
        BY <1>4, <4>1 DEF Families
      <4>3. id \in Ids
        BY <1>3, <4>1, ToSetProperties
      <4>4. k \in a.alive /\ k \in Objects
        BY <1>4, <4>2, <4>3, Kinds DEF Living
      <4>5. a.children[h] # <<>>
        BY <4>1, EmptyUnique
      <4>6. h \in a.alive /\ h \notin Goods /\ a.ID[h] \in Ids
        BY <1>4, <4>5 DEF Living
      <4>7. a.parent[k] = a.ID[h]
        BY <1>13, <4>1, <4>2, <4>4, <4>6
      <4>8. k \notin F
        BY <1>0, <1>1, <1>10, <3>2, <4>6, <4>7
      <4>9. QED
        BY <1>8, <4>2, <4>4, <4>8
    <3>3. QED
      BY <3>1, <3>2
  <2>3. ASSUME NEW k \in Goods, b.parent[k] # NoId
        PROVE  \E h \in Holders : b.ID[h] = b.parent[k]
    <3>1. k \in Objects /\ b.parent[k] = a.parent[k] /\ a.parent[k] # NoId
      BY <1>8, <2>3, Kinds
    <3>2. PICK h \in Holders : a.ID[h] = a.parent[k]
      BY <1>4, <3>1 DEF Families
    <3>3. h \notin F /\ h \in Objects
      BY <1>1, Kinds
    <3>4. QED
      BY <1>8, <3>1, <3>2, <3>3
  <2>4. ASSUME NEW h \in Holders, NEW k \in Goods, h \in b.alive, k \in b.alive
        PROVE  /\ b.ID[k] \in ToSet(b.children[h]) <=> b.parent[k] = b.ID[h]
               /\ b.parent[k] = b.ID[h] => (k \in b.online <=> h \in b.online)
    <3>1. h \in Objects /\ k \in Objects /\ h \notin Goods /\ h \in a.alive /\ k \in a.alive
          /\ h \notin F /\ k \notin F \cap Bolts /\ k # h
      BY <1>1, <1>7, <2>4, Kinds
    <3>2. b.ID[k] = a.ID[k] /\ b.parent[k] = a.parent[k] /\ b.ID[h] = a.ID[h]
      BY <1>8, <3>1
    <3>3. /\ a.ID[k] \in ToSet(a.children[h]) <=> a.parent[k] = a.ID[h]
          /\ a.parent[k] = a.ID[h] => (k \in a.online <=> h \in a.online)
      BY <1>13, <3>1
    <3>4. CASE h = o
      <4>1. k \in F <=> a.parent[k] = a.ID[o]
        BY <1>1, <3>1, <3>4
      <4>2. a.ID[k] \in K <=> k \in F
        <5>1. ASSUME a.ID[k] \in K PROVE k \in F
          <6>1. PICK j \in F \ Bolts : a.ID[j] = a.ID[k]
            BY <5>1 DEF K
          <6>2. QED
            BY <1>1, <1>10, <3>1, <6>1
        <5>2. QED
          BY <1>12, <3>1, <5>1
      <4>3. b.children[h] = s
        BY <1>7, <3>4
      <4>4. k \in F => k \notin b.online /\ h \notin b.online
        BY <1>7, <3>4
      <4>5. QED
        BY <1>11, <3>2, <3>4, <4>1, <4>2, <4>3, <4>4
    <3>5. CASE h # o
      <4>1. b.children[h] = a.children[h]
        BY <1>8, <3>1, <3>5
      <4>2. a.ID[h] \in Ids
        BY <1>4, <3>1 DEF Living
      <4>3. a.parent[k] = a.ID[h] => k \notin F
        BY <1>0, <1>1, <1>10, <3>1, <3>5, <4>2
      <4>4. k # o \/ a.parent[k] # a.ID[h]
        BY <1>2, <3>1, <4>2, Kinds DEF Sinks
      <4>5. h \in b.online <=> h \in a.online
        BY <1>7, <3>1, <3>5
      <4>6. a.parent[k] = a.ID[h] => (k \in b.online <=> k \in a.online)
        BY <1>7, <4>3, <4>4
      <4>7. QED
        BY <3>2, <3>3, <4>1, <4>5, <4>6
    <3>6. QED
      BY <3>4, <3>5
  <2>5. QED
    BY <2>1, <2>2, <2>3, <2>4 DEF Families
<1>15. PoolFits(b)
  <2>1. ASSUME NEW id \in Ids PROVE id \in ToSet(b.pool) <=> \A k \in Objects : b.ID[k] # id
    <3>1. id # NoId
      BY Kinds
    <3>2. id \in ToSet(a.pool) <=> \A k \in Objects : a.ID[k] # id
      BY <1>4 DEF PoolFits
    <3>3. id \in {a.ID[k] : k \in F \cap Bolts} => \A k \in Objects : b.ID[k] # id
      BY <1>8, <1>10, <1>1, <3>1
    <3>4. (\A k \in Objects : a.ID[k] # id) => \A k \in Objects : b.ID[k] # id
      BY <1>8, <3>1
    <3>5. ASSUME \A k \in Objects : b.ID[k] # id, NEW k \in Objects, a.ID[k] = id
          PROVE  k \in F \cap Bolts
      BY <1>8, <3>5
    <3>6. QED
      BY <1>9, <3>2, <3>3, <3>4, <3>5
  <2>2. QED
    BY <1>9, <2>1 DEF PoolFits
<1>16. QED
  BY <1>14, <1>15, SunkLiving DEF Orderly

LEMMA GoOfflineShows ==
    ASSUME NEW w, NEW a, Shows(w, a), NEW o, Sinks(a, o)
    PROVE  \E b : Shows(GoOffline(w, o), b) /\ SunkIs(a, b, o) /\ Orderly(b)
<1> DEFINE K == Savable(a, o)
           saved == SavedChildren(w, o)
           left == PerformIDgen(Perform_destroy([w EXCEPT !.online[o] = FALSE], o), o)
           back == RestoreAll(left, o, saved)
<1>0. a \in Censuses /\ o \in Objects /\ o \in a.online
  BY DEF Sinks
<1>1. PICK c : /\ Shows(left, Departed(c, o)) /\ DroppedIs(a, c, o, Family(a, o))
               /\ c.children[o] = <<>>
  BY DepartShows
<1>2. RestoredIs(a, Departed(c, o), o, {}, <<>>)
  BY <1>1, NoneRestored
<1> HIDE DEF saved, left
<1>3. /\ saved \in Seq(Ids) /\ IsInjective(saved) /\ ToSet(saved) \subseteq ToSet(a.children[o])
      /\ K \subseteq ToSet(saved) /\ Sift(saved, K) = Sift(a.children[o], K)
  BY SavedIs DEF saved
<1>4. PICK d : /\ Shows(RestoreAll(left, o, saved), d)
               /\ RestoredIs(a, d, o, Family(a, o) \ Bolts, Sift(saved, K))
  BY <1>1, <1>2, <1>3, RestoreAllShows DEF Savable
<1>5. GoOffline(w, o) = Require(w.online[o], GraphAdd(back, o, FALSE))
  BY Zenon DEF GoOffline, RestoreAll, saved, left
<1>6. w.online[o]
  BY <1>0 DEF Shows
<1>7. GoOffline(w, o) = GraphAdd(back, o, FALSE)
  BY <1>5, <1>6 DEF Require
<1> HIDE DEF back, K
<1>8. /\ d \in Censuses /\ d.ID[o] = a.ID[o] /\ o \notin d.online /\ o \notin Bolts
      /\ a.ID[o] \in Ids
  <2>1. o \notin Bolts /\ a.ID[o] \in Ids
    BY SinksIs
  <2>2. QED
    BY <1>0, <1>4, <2>1 DEF RestoredIs
<1> DEFINE b == Placed(d, o)
<1>9. Shows(GraphAdd(back, o, FALSE), b)
  BY <1>0, <1>4, <1>8, GraphAddShows DEF back
<1>10. b \in Censuses
  BY <1>9 DEF Shows
<1>11. /\ b.alive = d.alive /\ b.ID = d.ID /\ b.parent = d.parent /\ b.children = d.children
       /\ b.online = d.online /\ b.control = d.control /\ b.ent = d.ent /\ b.reg = d.reg
       /\ b.lev = d.lev /\ b.pts = d.pts \cup {o} /\ b.pool = d.pool
  BY <1>8 DEF Placed, UsesLocations, Censuses
<1> HIDE DEF b
<1>12. RestoredIs(a, d, o, Family(a, o) \ Bolts,
                  Sift(a.children[o], {a.ID[k] : k \in Family(a, o) \ Bolts}))
  BY <1>3, <1>4 DEF K, Savable
<1>13. SunkIs(a, b, o)
  BY <1>10, <1>11, <1>12, SunkFromRestored
<1>14. QED
  BY <1>7, <1>9, <1>13, SunkOrderly, ZenonT(60)

-----------------------------------------------------------------------------
(* alife():create inside an owner who is online. *)

LEMMA PutBack ==
    ASSUME NEW S, NEW s \in Seq(S), s # <<>>
    PROVE  <<Head(s)>> \o Tail(s) = s
<1>1. Len(s) \in Nat \ {0} /\ Head(s) = s[1] /\ Tail(s) \in Seq(S) /\ Len(Tail(s)) = Len(s) - 1
  BY EmptySeq, HeadTailProperties, LenProperties
<1>2. \A i \in 1..(Len(s) - 1) : Tail(s)[i] = s[i + 1]
  BY <1>1, HeadTailProperties
<1> DEFINE t == <<Head(s)>> \o Tail(s)
<1>3. <<Head(s)>> \in Seq(S) /\ Len(<<Head(s)>>) = 1 /\ <<Head(s)>>[1] = s[1]
  <2>1. Head(s) \in S
    BY <1>1, ElementOfSeq
  <2>2. QED
    BY <1>1, <2>1
<1>4. /\ t \in Seq(S) /\ Len(t) = Len(s)
      /\ \A i \in 1..Len(s) : t[i] = IF i = 1 THEN s[1] ELSE Tail(s)[i - 1]
  BY <1>1, <1>3, ConcatProperties
<1> HIDE DEF t
<1>5. \A i \in 1..Len(s) : t[i] = s[i]
  <2>1. TAKE i \in 1..Len(s)
  <2>2. CASE i = 1
    BY <1>4, <2>2
  <2>3. CASE i # 1
    <3>1. i - 1 \in 1..(Len(s) - 1)
      BY <1>1, <2>3
    <3>2. Tail(s)[i - 1] = s[(i - 1) + 1]
      BY <1>2, <3>1
    <3>3. QED
      BY <1>4, <2>3, <3>2
  <2>4. QED
    BY <2>2, <2>3
<1>6. t = s
  BY <1>4, <1>5, SeqEqual
<1>7. QED
  BY <1>6 DEF t

\* The id that the draft has taken is the next one again.
LEMMA DraftLeavesNothing ==
    ASSUME NEW w \in Worlds, NEW o \in Objects, w.ID[o] = NoId, w.pool # <<>>, NEW p
    PROVE  spawn_item2(w, o, p) = SpawnFromMessage(w, o, p)
<1> DEFINE draft == PerformIDgen(w, o)
           back == [FreeIDAtStart(draft, draft.ID[o]) EXCEPT !.ID[o] = NoId]
<1>1. draft = [w EXCEPT !.ID[o] = Head(w.pool), !.pool = Tail(w.pool)]
  BY DEF PerformIDgen, Require
<1>2. w.pool \in Seq(Ids) /\ w.ID \in [Objects -> Ids \cup {NoId}]
  BY DEF Worlds
<1>3. draft.ID[o] = Head(w.pool) /\ draft.pool = Tail(w.pool)
  BY <1>1, <1>2 DEF Worlds
<1>4. back = [w EXCEPT !.ID = [[w.ID EXCEPT ![o] = Head(w.pool)] EXCEPT ![o] = NoId],
                       !.pool = <<Head(w.pool)>> \o Tail(w.pool)]
  BY <1>1, <1>3 DEF FreeIDAtStart, Worlds
<1>5. <<Head(w.pool)>> \o Tail(w.pool) = w.pool
  BY <1>2, PutBack
<1>6. [[w.ID EXCEPT ![o] = Head(w.pool)] EXCEPT ![o] = NoId] = w.ID
  BY <1>2
<1> HIDE DEF draft, back
<1>7. back = [w EXCEPT !.ID = w.ID, !.pool = w.pool]
  BY <1>4, <1>5, <1>6
<1>8. back = w
  BY <1>7 DEF Worlds
<1>9. QED
  BY <1>8 DEF spawn_item2, draft, back

-----------------------------------------------------------------------------
(* How many ids the pool holds. *)

LEMMA PoolSizes ==
    ASSUME NEW a \in Censuses, Orderly(a)
    PROVE  /\ Len(a.pool) \in Nat /\ Len(a.pool) <= Cardinality(Ids)
           /\ Plenty => CallsPerWalk <= Len(a.pool) + 1
<1> DEFINE N == Len(a.pool)
           L == {o \in Objects : a.ID[o] \in Ids}
           A == ToSet(a.pool)
           B == {id \in Ids : \E o \in Objects : a.ID[o] = id}
           f == [o \in L |-> a.ID[o]]
<1>1. a.pool \in Seq(Ids) /\ a.ID \in [Objects -> Ids \cup {NoId}]
  BY CensusFields
<1>2. N \in Nat /\ a.pool \in [1..N -> Ids] /\ A = {a.pool[i] : i \in 1..N} /\ A \subseteq Ids
  BY <1>1, LenProperties, ToSetProperties
<1>3. IsInjective(a.pool)
  BY DEF Orderly, PoolFits
<1>4. IsFiniteSet(1..N) /\ Cardinality(1..N) = N
  <2> HIDE DEF N
  <2>1. 1 \in Int /\ N \in Int /\ N \in Nat
    BY <1>2
  <2>2. IsFiniteSet(1..N) /\ Cardinality(1..N) = IF 1 > N THEN 0 ELSE N - 1 + 1
    BY <2>1, FS_Interval
  <2>3. QED
    BY <2>1, <2>2
<1>5. IsFiniteSet(Ids) /\ IsFiniteSet(Objects)
  BY Kinds
<1>6. N <= Cardinality(Ids)
  <2>1. a.pool \in Injection(1..N, Ids)
    BY <1>2, <1>3 DEF Injection
  <2>2. QED
    BY <1>4, <1>5, <2>1, FS_Injection
<1>7. ASSUME Plenty PROVE CallsPerWalk <= N + 1
  <2>1. IsFiniteSet(A) /\ Cardinality(A) <= N
    <3>1. a.pool \in Surjection(1..N, A)
      BY <1>2 DEF Surjection
    <3>2. QED
      BY <1>4, <3>1, FS_Surjection
  <2>2. IsFiniteSet(L) /\ Cardinality(L) <= Cardinality(Objects)
    <3>1. L \in SUBSET Objects
      OBVIOUS
    <3>2. QED
      BY <1>5, <3>1, FS_Subset
  <2>3. IsFiniteSet(B) /\ Cardinality(B) <= Cardinality(L)
    <3>1. f \in [L -> B]
      OBVIOUS
    <3>2. \A id \in B : \E o \in L : f[o] = id
      OBVIOUS
    <3>3. f \in Surjection(L, B)
      BY <3>1, <3>2 DEF Surjection
    <3>4. QED
      BY <2>2, <3>3, FS_Surjection
  <2>4. Ids = A \cup B
    <3>1. \A id \in Ids : id \in A <=> \A o \in Objects : a.ID[o] # id
      BY DEF Orderly, PoolFits
    <3>2. QED
      BY <1>2, <3>1
  <2>5. /\ Cardinality(A) \in Nat /\ Cardinality(B) \in Nat /\ Cardinality(A \cap B) \in Nat
        /\ Cardinality(L) \in Nat /\ Cardinality(Objects) \in Nat /\ Cardinality(Ids) \in Nat
    <3>1. IsFiniteSet(A \cap B)
      BY <2>1, FS_Intersection
    <3>2. QED
      BY <1>5, <2>1, <2>2, <2>3, <3>1, FS_CardinalityType
  <2>6. Cardinality(Ids) = Cardinality(A) + Cardinality(B) - Cardinality(A \cap B)
    BY <2>1, <2>3, <2>4, FS_Union
  <2>7. Cardinality(Objects) + CallsPerWalk <= Cardinality(Ids) + 1 /\ CallsPerWalk \in Nat
    BY <1>7, Kinds DEF Plenty
  <2> HIDE DEF A, B, L, N
  <2>8. QED
    BY <1>2, <2>1, <2>2, <2>3, <2>5, <2>6, <2>7
<1>8. QED
  BY <1>2, <1>6, <1>7

-----------------------------------------------------------------------------
(* The release that is put off. *)

\* From a to b the living keep their ids, a newcomer has one from the pool, and
\* what is in the pool moves forward by d places; nobody dies when somebody comes.
Moved(a, b, d) ==
    /\ \A h \in Objects : h \in a.alive /\ h \in b.alive => b.ID[h] = a.ID[h]
    /\ \A k \in Objects : k \in b.alive /\ k \notin a.alive => b.ID[k] \in ToSet(a.pool)
    /\ \A i \in 1..Len(a.pool) : i > d => i - d \in 1..Len(b.pool) /\ b.pool[i - d] = a.pool[i]
    /\ d # 0 => a.alive \subseteq b.alive

\* Those of S exist, have been visited and are offline; none of them is a box.
Corpses(a, S, V, q) ==
    \A h \in S : /\ h \in V /\ h \in Holders \ Boxes /\ h \in a.alive /\ h \notin a.online
                 /\ a.ID[h] \in ToSet(q)

\* An id of q is that of somebody of S, or so far back in the pool that it is not
\* given out before the walk ends.
Queued(a, S, q, c) ==
    \A id \in ToSet(q) :
        \/ \E h \in S : a.ID[h] = id
        \/ \E n \in 1..Len(a.pool) : a.pool[n] = id /\ n + c > CallsPerWalk

LEMMA CorpsesStay ==
    ASSUME NEW a, NEW b, NEW S, NEW V, NEW V2, NEW q, Corpses(a, S, V, q), V \subseteq V2,
           \A h \in Holders : h \in a.alive /\ h \in S /\ h \in b.alive =>
               b.ID[h] = a.ID[h] /\ (h \in b.online <=> h \in a.online),
           NEW S2, S2 = {h \in S : h \in b.alive}
    PROVE  Corpses(b, S2, V2, q)
BY DEF Corpses

LEMMA QueueStays ==
    ASSUME NEW a \in Censuses, Unique(a.ID), Orderly(a), NEW b \in Censuses, Orderly(b),
           NEW d \in 0..1, Moved(a, b, d), CallsPerWalk <= Len(a.pool) + 1,
           NEW S, NEW V, NEW q, Corpses(a, S, V, q), NEW c \in Nat, Queued(a, S, q, c),
           NEW c2 \in Nat, c + d <= c2, c2 <= CallsPerWalk,
           NEW S2, S2 = {h \in S : h \in b.alive}, S2 = S \/ d < c2
    PROVE  Queued(b, S2, q, c2)
<1>1. /\ a.pool \in Seq(Ids) /\ b.pool \in Seq(Ids) /\ Len(a.pool) \in Nat /\ Len(b.pool) \in Nat
      /\ CallsPerWalk \in Nat
  BY CensusFields, LenProperties, Kinds
<1>2. SUFFICES ASSUME NEW id \in ToSet(q)
               PROVE  \/ \E h \in S2 : b.ID[h] = id
                      \/ \E n \in 1..Len(b.pool) : b.pool[n] = id /\ n + c2 > CallsPerWalk
  BY DEF Queued
<1>3. CASE \E h \in S : a.ID[h] = id
  <2>1. PICK h \in S : a.ID[h] = id
    BY <1>3
  <2>2. h \in a.alive /\ h \in Objects
    BY Kinds DEF Corpses
  <2>3. CASE h \in b.alive
    BY <2>1, <2>2, <2>3 DEF Moved
  <2>4. CASE h \notin b.alive
    <3>1. id \in Ids
      BY <2>1, <2>2 DEF Orderly, Living
    <3>2. id \notin ToSet(a.pool)
      BY <2>1, <2>2, <3>1 DEF Orderly, PoolFits
    <3>3. \A k \in Objects : b.ID[k] # id
      <4>1. SUFFICES ASSUME NEW k \in Objects, b.ID[k] = id PROVE FALSE
        OBVIOUS
      <4>2. k \in b.alive
        BY <3>1, <4>1 DEF Orderly, Living
      <4>3. k \in a.alive
        BY <3>2, <4>1, <4>2 DEF Moved
      <4>4. a.ID[k] = id
        BY <4>1, <4>2, <4>3 DEF Moved
      <4>5. k = h
        BY <2>1, <2>2, <3>1, <4>4, Kinds DEF Unique
      <4>6. QED
        BY <2>4, <4>2, <4>5
    <3>4. id \in ToSet(b.pool)
      BY <3>1, <3>3 DEF Orderly, PoolFits
    <3>5. PICK n \in 1..Len(b.pool) : b.pool[n] = id
      BY <1>1, <3>4, ToSetProperties
    <3>6. n + d > Len(a.pool)
      <4>1. SUFFICES ASSUME n + d <= Len(a.pool) PROVE FALSE
        BY <1>1
      <4>2. n + d \in 1..Len(a.pool) /\ n + d > d /\ (n + d) - d = n
        BY <1>1, <4>1
      <4>3. b.pool[n] = a.pool[n + d]
        BY <4>2 DEF Moved
      <4>4. a.pool[n + d] \in ToSet(a.pool)
        BY <1>1, <4>2, ToSetProperties
      <4>5. QED
        BY <3>2, <3>5, <4>3, <4>4
    <3>7. d < c2
      BY <2>1, <2>4
    <3>8. n + c2 > CallsPerWalk
      BY <1>1, <3>6, <3>7
    <3>9. QED
      BY <3>5, <3>8
  <2>5. QED
    BY <2>3, <2>4
<1>4. CASE \E n \in 1..Len(a.pool) : a.pool[n] = id /\ n + c > CallsPerWalk
  <2>1. PICK n \in 1..Len(a.pool) : a.pool[n] = id /\ n + c > CallsPerWalk
    BY <1>4
  <2>2. n > d
    BY <1>1, <2>1
  <2>3. n - d \in 1..Len(b.pool) /\ b.pool[n - d] = id
    BY <2>1, <2>2 DEF Moved
  <2>4. (n - d) + c2 > CallsPerWalk
    BY <1>1, <2>1
  <2>5. QED
    BY <2>3, <2>4
<1>5. QED
  BY <1>2, <1>3, <1>4 DEF Queued

\* The pool from whose end nothing is taken.
LEMMA BeginsMoves ==
    ASSUME NEW a, NEW b, Begins(a.pool, b.pool), Len(a.pool) \in Nat, Len(b.pool) \in Nat,
           \A h \in Objects : h \in a.alive /\ h \in b.alive => b.ID[h] = a.ID[h],
           b.alive \subseteq a.alive
    PROVE  Moved(a, b, 0)
BY DEF Moved, Begins

-----------------------------------------------------------------------------
(* What a call leaves. *)

\* No holder that stays alive goes online or offline.
Steady(a, b) ==
    \A h \in Holders : h \in a.alive /\ h \in b.alive => (h \in b.online <=> h \in a.online)

\* The world w shows an orderly census, and what a call may change in a.
Yields(w, a) ==
    \E b : \E d \in 0..1 : Shows(w, b) /\ Orderly(b) /\ Moved(a, b, d) /\ Steady(a, b)

LEMMA PoolYields ==
    ASSUME NEW a \in Censuses, NEW w, NEW b, Shows(w, b), Orderly(b), Begins(a.pool, b.pool),
           \A h \in Objects : h \in a.alive /\ h \in b.alive => b.ID[h] = a.ID[h],
           b.alive \subseteq a.alive, Steady(a, b)
    PROVE  Yields(w, a)
<1>1. b \in Censuses
  BY DEF Shows
<1>2. Len(a.pool) \in Nat /\ Len(b.pool) \in Nat
  BY <1>1, CensusFields, LenProperties
<1>3. Moved(a, b, 0) /\ 0 \in 0..1
  BY <1>2, BeginsMoves
<1>4. QED
  BY <1>3 DEF Yields

LEMMA NothingYields ==
    ASSUME NEW w, NEW a, Shows(w, a), Orderly(a)
    PROVE  Yields(w, a)
<1>1. a \in Censuses
  BY DEF Shows
<1>2. Begins(a.pool, a.pool)
  BY <1>1, CensusFields, BeginsProperties
<1>3. QED
  BY <1>1, <1>2, PoolYields DEF Steady

LEMMA TakeYields ==
    ASSUME NEW w, NEW a, Shows(w, a), Orderly(a), NEW p \in Ids, NEW e \in Ids,
           w.entities[p] \in Holders, w.entities[e] \in Goods
    PROVE  Yields(Process_event_ownership(w, p, e), a)
<1>1. PICK h \in Holders : w.entities[p] = h
  OBVIOUS
<1>2. PICK k \in Goods : w.entities[e] = k
  OBVIOUS
<1>3. a \in Censuses /\ Unique(a.ID) /\ w.ID_Parent = a.parent
  BY DEF Shows
<1>4. h \in Objects /\ k \in Objects /\ h # None /\ k # None
  BY Kinds
<1>5. h \in a.ent /\ a.ID[h] = p /\ k \in a.ent /\ a.ID[k] = e
  BY <1>1, <1>2, <1>4, EntityIs
<1>6. h \in a.online /\ k \in a.online
  BY <1>5 DEF Orderly, Tabled
<1>7. h \in a.alive /\ k \in a.alive
  BY <1>4, <1>6 DEF Orderly, Living
<1>8. CASE a.parent[k] = NoId
  <2>1. Shows(Process_event_ownership(w, p, e), TakenBy(a, k, h))
    BY <1>5, <1>6, <1>8, TakeShows
  <2>2. Orderly(TakenBy(a, k, h))
    BY <1>3, <1>6, <1>7, <1>8, TakenOrderly
  <2>3. TakenIs(a, TakenBy(a, k, h), k, h)
    BY <1>3, <1>4, <1>5, TakenFields
  <2>4. Begins(a.pool, a.pool)
    BY <1>3, CensusFields, BeginsProperties
  <2>5. QED
    BY <1>3, <2>1, <2>2, <2>3, <2>4, PoolYields DEF TakenIs, Steady
<1>9. CASE a.parent[k] # NoId
  <2>1. Process_event_ownership(w, p, e) = w
    BY <1>1, <1>2, <1>3, <1>4, <1>9 DEF Process_event_ownership
  <2>2. QED
    BY <2>1, NothingYields
<1>10. QED
  BY <1>8, <1>9

LEMMA RejectYields ==
    ASSUME NEW w, NEW a, Shows(w, a), Orderly(a), NEW p \in Ids, NEW e \in Ids,
           w.entities[p] \in Holders, w.entities[e] \in Goods
    PROVE  Yields(Process_event_reject(w, p, e), a)
<1>1. PICK h \in Holders : w.entities[p] = h
  OBVIOUS
<1>2. PICK k \in Goods : w.entities[e] = k
  OBVIOUS
<1>3. a \in Censuses /\ Unique(a.ID) /\ w.ID_Parent = a.parent /\ w.children = a.children
  BY DEF Shows
<1>4. h \in Objects /\ k \in Objects /\ h # None /\ k # None
  BY Kinds
<1>5. h \in a.ent /\ a.ID[h] = p /\ k \in a.ent /\ a.ID[k] = e
  BY <1>1, <1>2, <1>4, EntityIs
<1>6. h \in a.online /\ k \in a.online
  BY <1>5 DEF Orderly, Tabled
<1>7. h \in a.alive /\ k \in a.alive
  BY <1>4, <1>6 DEF Orderly, Living
<1>8. a.children[h] \in Seq(Ids)
  BY <1>3, <1>4, CensusFields
<1>9. CASE Contains(a.children[h], e) /\ a.parent[k] # NoId
  <2>1. a.ID[k] \in ToSet(a.children[h])
    BY <1>5, <1>8, <1>9, ToSetProperties
  <2>2. a.parent[k] = a.ID[h]
    BY <1>7, <2>1 DEF Orderly, Families
  <2>3. Holding(a, k, h) /\ Grounded(a)
    BY <1>3, <1>6, <1>9, <2>2, OrderlyHolding, OrderlyGrounded
  <2>4. Shows(Process_event_reject(w, p, e), Freed(a, k, h))
    <3>1. Shows(Process_event_reject(w, a.ID[h], a.ID[k]), Freed(a, k, h))
      BY <2>3, RejectShows
    <3>2. QED
      BY <1>5, <3>1
  <2>5. Orderly(Freed(a, k, h))
    BY <1>3, <1>6, <1>7, <2>2, FreedOrderly
  <2>6. FreedIs(a, Freed(a, k, h), k, h)
    BY <1>3, <1>4, FreedFields
  <2>7. Begins(a.pool, a.pool)
    BY <1>3, CensusFields, BeginsProperties
  <2>8. QED
    BY <1>3, <2>4, <2>5, <2>6, <2>7, PoolYields DEF FreedIs, Steady
<1>10. CASE ~(Contains(a.children[h], e) /\ a.parent[k] # NoId)
  <2>1. Process_event_reject(w, p, e) = w
    BY <1>1, <1>2, <1>3, <1>4, <1>10 DEF Process_event_reject
  <2>2. QED
    BY <2>1, NothingYields
<1>11. QED
  BY <1>9, <1>10

LEMMA PurgedYields ==
    ASSUME NEW a \in Censuses, NEW w, NEW b, Shows(w, b), NEW o, Purged(a, b, o)
    PROVE  Yields(w, a)
<1>1. PICK D : Fewer(a, b, D)
  BY DEF Purged
<1>2. /\ b.alive = a.alive \ D /\ Begins(a.pool, b.pool)
      /\ \A k \in Objects : k \notin D => /\ b.ID[k] = a.ID[k]
                                          /\ (k \in b.online <=> k \in a.online)
  BY <1>1 DEF Fewer
<1>3. Steady(a, b)
  BY <1>2, Kinds DEF Steady
<1>4. Orderly(b)
  BY DEF Purged
<1>5. QED
  BY <1>2, <1>3, <1>4, PoolYields

LEMMA DestroyYields ==
    ASSUME NEW w, NEW a, Shows(w, a), Orderly(a), NEW id \in Ids, w.entities[id] # None
    PROVE  Yields(Process_event_destroy(w, id), a)
<1>1. w.entities[id] \in Objects /\ a \in Censuses
  BY EntityIs DEF Shows
<1>2. PICK o \in Objects : w.entities[id] = o
  BY <1>1
<1>3. o \in a.ent /\ a.ID[o] = id
  BY <1>2, EntityIs
<1>4. o \in a.online
  BY <1>3 DEF Orderly, Tabled
<1>5. \E b : Shows(Process_event_destroy(w, id), b) /\ Purged(a, b, o)
  BY <1>3, <1>4, DestroyEventShows
<1>6. QED
  BY <1>1, <1>5, PurgedYields

LEMMA ReleaseYields ==
    ASSUME NEW w, NEW a, Shows(w, a), Orderly(a), NEW o \in Objects, o \in a.alive,
           o \notin a.online
    PROVE  Yields(release(w, o, TRUE), a)
<1>1. \E b : Shows(release(w, o, TRUE), b) /\ Purged(a, b, o)
  BY ReleaseShows
<1>2. a \in Censuses
  BY DEF Shows
<1>3. QED
  BY <1>1, <1>2, PurgedYields

LEMMA SpawnedYields ==
    ASSUME NEW a \in Censuses, Unique(a.ID), Orderly(a), NEW o \in Objects, NEW x,
           NEW on \in BOOLEAN, NEW known \in BOOLEAN, MaySpawn(a, o, x, on, known),
           NEW w, Shows(w, Spawned(a, o, x, on, known))
    PROVE  Yields(w, a)
<1> DEFINE b == Spawned(a, o, x, on, known)
           s == a.pool
<1>1. o \notin a.alive /\ s # <<>> /\ x \in Ids \cup {NoId}
  BY DEF MaySpawn
<1>2. Orderly(b) /\ b \in Censuses
  BY SpawnedOrderly DEF Shows
<1>3. SpawnedIs(a, b, o, x, on, known)
  BY <1>1, SpawnedFields
<1> HIDE DEF b
<1>4. /\ b.alive = a.alive \cup {o} /\ b.ID = [a.ID EXCEPT ![o] = Head(s)] /\ b.pool = Tail(s)
      /\ b.online = IF on THEN a.online \cup {o} ELSE a.online \ {o}
  BY <1>3 DEF SpawnedIs
<1>5. s \in Seq(Ids) /\ a.ID \in [Objects -> Ids \cup {NoId}]
  BY CensusFields
<1>6. Head(s) \in ToSet(s)
  BY <1>1, <1>5, TailUnique
<1>7. /\ Len(Tail(s)) = Len(s) - 1 /\ Len(s) \in Nat
      /\ \A i \in 1..(Len(s) - 1) : Tail(s)[i] = s[i + 1]
  BY <1>1, <1>5, HeadTailProperties, LenProperties
<1>8. Moved(a, b, 1)
  <2>1. \A h \in Objects : h \in a.alive /\ h \in b.alive => b.ID[h] = a.ID[h]
    BY <1>1, <1>4, <1>5
  <2>2. \A k \in Objects : k \in b.alive /\ k \notin a.alive => b.ID[k] \in ToSet(s)
    BY <1>4, <1>5, <1>6
  <2>3. \A i \in 1..Len(s) : i > 1 => i - 1 \in 1..Len(b.pool) /\ b.pool[i - 1] = s[i]
    <3>1. SUFFICES ASSUME NEW i \in 1..Len(s), i > 1
                   PROVE  i - 1 \in 1..Len(b.pool) /\ b.pool[i - 1] = s[i]
      OBVIOUS
    <3>2. i - 1 \in 1..(Len(s) - 1) /\ (i - 1) + 1 = i
      BY <1>7, <3>1
    <3>3. Tail(s)[i - 1] = s[(i - 1) + 1]
      BY <1>7, <3>2
    <3>4. QED
      BY <1>4, <1>7, <3>2, <3>3
  <2>4. a.alive \subseteq b.alive
    BY <1>4
  <2>5. QED
    BY <2>1, <2>2, <2>3, <2>4 DEF Moved
<1>9. Steady(a, b)
  BY <1>1, <1>4 DEF Steady
<1>10. 1 \in 0..1
  OBVIOUS
<1>11. QED
  BY <1>2, <1>8, <1>9, <1>10 DEF Yields, b

LEMMA ClientSpawnYields ==
    ASSUME NEW w, NEW a, Shows(w, a), Orderly(a), NEW o \in Objects, o \notin a.alive,
           a.pool # <<>>, NEW x \in Ids \cup {NoId},
           x # NoId => o \in Goods /\ w.entities[x] \in Holders
    PROVE  Yields(SpawnFromMessage(w, o, x), a)
<1>1. a \in Censuses /\ Unique(a.ID)
  BY DEF Shows
<1>2. CASE x = NoId
  <2>1. PICK known \in BOOLEAN : known <=> o \notin Bolts
    OBVIOUS
  <2>2. o \in Bolts => o \in Goods
    BY Kinds
  <2>3. MaySpawn(a, o, NoId, TRUE, known)
    BY <2>1, <2>2 DEF MaySpawn
  <2>4. Shows(SpawnFromMessage(w, o, NoId), Spawned(a, o, NoId, TRUE, known))
    BY <2>1, SpawnAloneShows
  <2>5. \A on \in BOOLEAN : on = TRUE /\ MaySpawn(a, o, NoId, on, known)
                            /\ Shows(SpawnFromMessage(w, o, NoId), Spawned(a, o, NoId, on, known))
                            => Yields(SpawnFromMessage(w, o, NoId), a)
    BY <1>1, SpawnedYields
  <2>6. Yields(SpawnFromMessage(w, o, NoId), a)
    BY <2>3, <2>4, <2>5
  <2>7. QED
    BY <1>2, <2>6
<1>3. CASE x # NoId
  <2>1. x \in Ids /\ o \in Goods
    BY <1>3
  <2>2. PICK h \in Holders : w.entities[x] = h
    BY <1>3
  <2>3. h \in a.ent /\ a.ID[h] = x
    BY <2>1, <2>2, EntityIs, Kinds
  <2>4. h \in a.online
    BY <2>3 DEF Orderly, Tabled
  <2>5. PICK known \in BOOLEAN : known <=> o \notin Bolts /\ h \in Traders \cup Boxes
    OBVIOUS
  <2>6. MaySpawn(a, o, x, TRUE, known)
    BY <2>1, <2>3, <2>4, <2>5 DEF MaySpawn
  <2>7. Shows(SpawnFromMessage(w, o, x), Spawned(a, o, x, TRUE, known))
    BY <2>1, <2>3, <2>4, <2>5, SpawnInsideShows
  <2>8. \A on \in BOOLEAN : on = TRUE /\ MaySpawn(a, o, x, on, known)
                            /\ Shows(SpawnFromMessage(w, o, x), Spawned(a, o, x, on, known))
                            => Yields(SpawnFromMessage(w, o, x), a)
    BY <1>1, SpawnedYields
  <2>9. QED
    BY <2>6, <2>7, <2>8
<1>4. QED
  BY <1>2, <1>3

LEMMA CreateYields ==
    ASSUME NEW w, NEW a, Shows(w, a), Orderly(a), NEW o \in Objects, o \notin a.alive,
           a.pool # <<>>, o \notin Bolts, NEW x \in Ids \cup {NoId},
           x # NoId => /\ o \in Goods /\ Registered(w, x) \in Holders
                       /\ ~w.online[Registered(w, x)]
    PROVE  Yields(spawn_item(w, o, x), a)
<1>1. a \in Censuses /\ Unique(a.ID) /\ Grounded(a)
  BY OrderlyGrounded DEF Shows
<1>2. x # NoId => \E h \in Holders : a.ID[h] = x /\ h \notin a.online
  <2>1. SUFFICES ASSUME x # NoId PROVE \E h \in Holders : a.ID[h] = x /\ h \notin a.online
    OBVIOUS
  <2>2. PICK h \in Holders : Registered(w, x) = h
    BY <2>1
  <2>3. a.ID[h] = x /\ h \in Objects
    BY <1>1, <2>2, RegisteredIs, Kinds
  <2>4. h \notin a.online
    BY <2>1, <2>2, <2>3 DEF Shows
  <2>5. QED
    BY <2>3, <2>4
<1>3. MaySpawn(a, o, x, FALSE, TRUE)
  BY <1>2 DEF MaySpawn
<1>4. Shows(spawn_item(w, o, x), Spawned(a, o, x, FALSE, TRUE))
  BY <1>3, SpawnItemShows
<1>5. \A on, known \in BOOLEAN :
          on = FALSE /\ known = TRUE /\ MaySpawn(a, o, x, on, known)
          /\ Shows(spawn_item(w, o, x), Spawned(a, o, x, on, known))
          => Yields(spawn_item(w, o, x), a)
  BY <1>1, SpawnedYields
<1>6. QED
  BY <1>3, <1>4, <1>5

LEMMA CreateOnlineYields ==
    ASSUME NEW w, NEW a, Shows(w, a), Orderly(a), NEW o \in Goods, o \notin a.alive,
           a.pool # <<>>, NEW x \in Ids, Registered(w, x) \in Holders, w.online[Registered(w, x)]
    PROVE  Yields(spawn_item2(w, o, x), a)
<1>1. a \in Censuses /\ Unique(a.ID) /\ Grounded(a) /\ o \in Objects
  BY OrderlyGrounded, Kinds DEF Shows
<1>2. PICK h \in Holders : Registered(w, x) = h
  OBVIOUS
<1>3. h \in a.reg /\ a.ID[h] = x /\ h \in Objects /\ x \in Ids \cup {NoId}
  BY <1>1, <1>2, RegisteredIs, Kinds
<1>4. h \in a.online
  BY <1>2, <1>3 DEF Shows
<1>5. w.entities[x] = h
  <2>1. h \in a.ent
    BY <1>4 DEF Orderly, Tabled
  <2>2. QED
    BY <1>3, <2>1, EntityIs
<1>6. w \in Worlds /\ w.ID[o] = NoId /\ w.pool # <<>>
  <2>1. a.ID[o] \in Ids \cup {NoId}
    BY <1>1, CensusFields
  <2>2. a.ID[o] \notin Ids
    BY <1>1 DEF Orderly, Living
  <2>3. QED
    BY <2>1, <2>2 DEF Shows
<1>7. spawn_item2(w, o, x) = SpawnFromMessage(w, o, x)
  BY <1>1, <1>6, DraftLeavesNothing
<1>8. Yields(SpawnFromMessage(w, o, x), a)
  BY <1>1, <1>2, <1>3, <1>5, ClientSpawnYields
<1>9. QED
  BY <1>7, <1>8

-----------------------------------------------------------------------------
(* The inductive invariant. *)

Ordinary ==
    /\ phase \in {"idle", "walk", "flush"} /\ visited \subseteq Objects
    /\ m_da_pending_release \in Seq(Ids) /\ condemned \subseteq Objects
    /\ IsInjective(m_da_pending_release) /\ calls \in 0..CallsPerWalk
    /\ phase = "idle" => m_da_pending_release = <<>> /\ visited = {}

\* The world shows an orderly census, in which the queue of put-off releases leads to
\* the condemned, or to nobody for as long as the walk lasts.
Fits(a) ==
    /\ Shows(world, a) /\ Orderly(a)
    /\ Corpses(a, condemned, visited, m_da_pending_release)
    /\ Queued(a, condemned, m_da_pending_release, calls)

IInv == Ordinary /\ \E a : Fits(a)

\* The census of the world without objects.
Nobody(pool) ==
    [alive |-> {}, ID |-> [o \in Objects |-> NoId], parent |-> [o \in Objects |-> NoId],
     children |-> [o \in Objects |-> <<>>], online |-> {}, control |-> Objects,
     ent |-> {}, reg |-> {}, lev |-> {}, pts |-> {}, pool |-> pool]

LEMMA FullPool ==
    ASSUME NEW pool \in SetToSeqs(Ids)
    PROVE  pool \in Seq(Ids) /\ IsInjective(pool) /\ ToSet(pool) = Ids
<1> DEFINE N == Cardinality(Ids)
<1>1. /\ pool \in [1..N -> Ids]
      /\ \A i, j \in 1..N : i # j => pool[i] # pool[j]
  BY DEF SetToSeqs
<1>2. IsFiniteSet(Ids) /\ N \in Nat
  BY Kinds, FS_CardinalityType
<1> HIDE DEF N
<1>3. pool \in Seq(Ids) /\ Len(pool) = N /\ ToSet(pool) = {pool[i] : i \in 1..N}
  <2>1. pool \in Seq(Ids)
    BY <1>1, <1>2, SeqDef
  <2>2. Len(pool) = N
    BY <1>1, <1>2, <2>1, LenProperties
  <2>3. QED
    BY <2>1, <2>2, ToSetProperties
<1>4. IsInjective(pool)
  BY <1>1 DEF IsInjective
<1>5. pool \in Injection(1..N, Ids)
  BY <1>1, <1>4 DEF Injection
<1>6. Cardinality(1..N) = N
  <2>1. 1 \in Int /\ N \in Int
    BY <1>2
  <2>2. Cardinality(1..N) = IF 1 > N THEN 0 ELSE N - 1 + 1
    BY <2>1, FS_Interval
  <2>3. QED
    BY <1>2, <2>2
<1>7. pool \in Surjection(1..N, Ids)
  BY <1>2, <1>5, <1>6, FS_Injection DEF N
<1>8. ToSet(pool) = Ids
  BY <1>1, <1>3, <1>7 DEF Surjection
<1>9. QED
  BY <1>3, <1>4, <1>8

LEMMA NobodyShows ==
    ASSUME NEW pool \in SetToSeqs(Ids)
    PROVE  Shows(World(pool), Nobody(pool)) /\ Orderly(Nobody(pool))
<1> DEFINE w == World(pool)
           a == Nobody(pool)
<1>1. pool \in Seq(Ids) /\ IsInjective(pool) /\ ToSet(pool) = Ids
  BY FullPool
<1>2. <<>> \in Seq(Ids) /\ ToSet(<<>>) = {} /\ IsInjective(<<>>)
  BY EmptyUnique
<1>3. w \in Worlds
  BY <1>1, <1>2 DEF World, Worlds
<1>4. a \in Censuses
  BY <1>1, <1>2 DEF Nobody, Censuses
<1>5. /\ a.alive = {} /\ a.ID = [o \in Objects |-> NoId] /\ a.parent = [o \in Objects |-> NoId]
      /\ a.children = [o \in Objects |-> <<>>] /\ a.online = {} /\ a.control = Objects
      /\ a.ent = {} /\ a.reg = {} /\ a.lev = {} /\ a.pts = {} /\ a.pool = pool
  BY DEF Nobody
<1>6. /\ w.alive = [o \in Objects |-> FALSE] /\ w.ID = [o \in Objects |-> NoId]
      /\ w.ID_Parent = [o \in Objects |-> NoId] /\ w.children = [o \in Objects |-> <<>>]
      /\ w.online = [o \in Objects |-> FALSE] /\ w.control = [o \in Objects |-> TRUE]
      /\ w.entities = [id \in Ids |-> None] /\ w.registry = [id \in Ids |-> None]
      /\ w.level = [id \in Ids |-> None] /\ w.points = [id \in Ids |-> None]
      /\ w.pool = pool /\ w.fatal = FALSE
  BY DEF World
<1> HIDE DEF w, a
<1>7. Unique(a.ID)
  BY <1>5 DEF Unique
<1>8. Lists([id \in Ids |-> None], {}, a.ID)
  BY Kinds DEF Lists
<1>9. Shows(w, a)
  BY <1>3, <1>4, <1>5, <1>6, <1>7, <1>8 DEF Shows
<1>10. Living(a) /\ Tabled(a)
  BY <1>5, Kinds DEF Living, Tabled
<1>11. Families(a)
  BY <1>2, <1>5, Kinds DEF Families
<1>12. PoolFits(a)
  BY <1>1, <1>5, Kinds DEF PoolFits
<1>13. QED
  BY <1>9, <1>10, <1>11, <1>12 DEF Orderly, w, a

LEMMA InitFits == Init => IInv
<1>1. SUFFICES ASSUME Init PROVE IInv
  OBVIOUS
<1>2. PICK pool \in SetToSeqs(Ids) : world = World(pool)
  BY <1>1 DEF Init
<1>3. /\ phase = "idle" /\ visited = {} /\ m_da_pending_release = <<>> /\ condemned = {}
      /\ calls = 0
  BY <1>1 DEF Init
<1>4. ToSet(<<>>) = {} /\ <<>> \in Seq(Ids)
  BY EmptyUnique
<1>5. Corpses(Nobody(pool), condemned, visited, m_da_pending_release)
  BY <1>3 DEF Corpses
<1>6. Queued(Nobody(pool), condemned, m_da_pending_release, calls)
  BY <1>3, <1>4 DEF Queued
<1>7. Shows(world, Nobody(pool)) /\ Orderly(Nobody(pool))
  BY <1>2, NobodyShows
<1>8. Ordinary
  BY <1>3, <1>4, EmptyUnique, Kinds DEF Ordinary
<1>9. QED
  BY <1>5, <1>6, <1>7, <1>8 DEF IInv, Fits

\* The condemned after a step.
LEMMA BecomeIs ==
    ASSUME condemned \subseteq Objects, NEW w, Become(w), NEW b, Shows(w, b)
    PROVE  /\ world' = w /\ condemned' = {h \in condemned : h \in b.alive}
           /\ condemned' \subseteq Objects
BY DEF Become, Shows

LEMMA CallFits ==
    ASSUME Plenty, Ordinary, NEW a, Fits(a), NEW w, Call(w), Yields(w, a)
    PROVE  IInv'
<1> DEFINE q == m_da_pending_release
<1>0. PICK b : \E d \in 0..1 : Shows(w, b) /\ Orderly(b) /\ Moved(a, b, d) /\ Steady(a, b)
  BY DEF Yields
<1>1. PICK d \in 0..1 : Shows(w, b) /\ Orderly(b) /\ Moved(a, b, d) /\ Steady(a, b)
  BY <1>0
<1>2. a \in Censuses /\ Unique(a.ID) /\ Orderly(a) /\ b \in Censuses
  BY <1>1 DEF Fits, Shows
<1>3. /\ Become(w) /\ phase' = phase /\ visited' = visited /\ q' = q
      /\ calls' = IF phase = "idle" THEN 0 ELSE calls + 1
      /\ phase # "idle" => calls < CallsPerWalk
  BY DEF Call
<1>4. /\ phase \in {"idle", "walk", "flush"} /\ visited \subseteq Objects /\ q \in Seq(Ids)
      /\ condemned \subseteq Objects /\ calls \in 0..CallsPerWalk /\ IsInjective(q)
      /\ phase = "idle" => q = <<>> /\ visited = {}
  BY DEF Ordinary
<1>5. /\ world' = w /\ condemned' = {h \in condemned : h \in b.alive}
      /\ condemned' \subseteq Objects
  BY <1>1, <1>3, <1>4, BecomeIs
<1>6. calls' \in 0..CallsPerWalk /\ calls \in Nat /\ CallsPerWalk \in Nat
  BY <1>3, <1>4, Kinds
<1>7. Ordinary'
  BY <1>3, <1>4, <1>5, <1>6 DEF Ordinary
<1>8. Corpses(a, condemned, visited, q) /\ Queued(a, condemned, q, calls)
  BY DEF Fits
<1>9. Corpses(b, condemned', visited', q')
  <2>1. \A h \in Holders : h \in a.alive /\ h \in condemned /\ h \in b.alive =>
            b.ID[h] = a.ID[h] /\ (h \in b.online <=> h \in a.online)
    BY <1>1, Kinds DEF Moved, Steady
  <2>2. QED
    BY <1>3, <1>5, <1>8, <2>1, CorpsesStay
<1>10. Queued(b, condemned', q', calls')
  <2>1. CASE phase = "idle"
    BY <1>3, <1>4, <2>1, EmptyUnique DEF Queued
  <2>2. CASE phase # "idle"
    <3>1. calls + d <= calls' /\ calls' <= CallsPerWalk /\ calls' \in Nat /\ (d # 0 \/ d < calls')
      BY <1>3, <1>6, <2>2
    <3>2. CallsPerWalk <= Len(a.pool) + 1
      BY <1>2, PoolSizes
    <3>3. condemned' = condemned \/ d < calls'
      BY <1>1, <1>5, <1>8, <3>1 DEF Moved, Corpses
    <3>4. QED
      BY <1>1, <1>2, <1>3, <1>5, <1>6, <1>8, <3>1, <3>2, <3>3, QueueStays
  <2>3. QED
    BY <2>1, <2>2
<1>11. Shows(world', b)
  BY <1>1, <1>5
<1>12. Fits(b)'
  BY <1>1, <1>9, <1>10, <1>11 DEF Fits
<1>13. QED
  BY <1>7, <1>12 DEF IInv

LEMMA HeadOrTail ==
    ASSUME NEW S, NEW s \in Seq(S), s # <<>>
    PROVE  /\ Tail(s) \in Seq(S) /\ Head(s) \in S /\ Head(s) \in ToSet(s)
           /\ ToSet(Tail(s)) \subseteq ToSet(s)
           /\ \A e \in ToSet(s) : e = Head(s) \/ e \in ToSet(Tail(s))
<1>1. Tail(s) \in Seq(S) /\ Head(s) \in S /\ Head(s) \in ToSet(s)
  BY TailUnique
<1>2. /\ Head(s) = s[1] /\ Len(Tail(s)) = Len(s) - 1 /\ Len(s) \in Nat
      /\ \A i \in 1..(Len(s) - 1) : Tail(s)[i] = s[i + 1]
  BY EmptySeq, HeadTailProperties, LenProperties
<1>3. /\ ToSet(s) = {s[i] : i \in 1..Len(s)}
      /\ ToSet(Tail(s)) = {Tail(s)[i] : i \in 1..Len(Tail(s))}
  BY <1>1, ToSetProperties
<1>4. ASSUME NEW e \in ToSet(Tail(s)) PROVE e \in ToSet(s)
  <2>1. PICK i \in 1..(Len(s) - 1) : Tail(s)[i] = e
    BY <1>2, <1>3
  <2>2. i + 1 \in 1..Len(s) /\ s[i + 1] = e
    BY <1>2, <2>1
  <2>3. QED
    BY <1>3, <2>2
<1>5. ASSUME NEW e \in ToSet(s), e # Head(s) PROVE e \in ToSet(Tail(s))
  <2>1. PICK i \in 1..Len(s) : s[i] = e
    BY <1>3
  <2>2. i # 1
    BY <1>2, <1>5, <2>1
  <2>3. i - 1 \in 1..(Len(s) - 1) /\ (i - 1) + 1 = i
    BY <1>2, <2>2
  <2>4. Tail(s)[i - 1] = e
    BY <1>2, <2>1, <2>3
  <2>5. QED
    BY <1>2, <1>3, <2>3, <2>4
<1>6. QED
  BY <1>1, <1>4, <1>5

\* The visits of the walk: nobody who is condemned changes, o may be condemned.
LEMMA WalkFits ==
    ASSUME Plenty, Ordinary, NEW a, Fits(a), phase = "walk", NEW o \in Objects, o \notin visited,
           visited' = visited \cup {o}, phase' = phase, calls' = calls,
           NEW w, NEW b, Shows(w, b), Orderly(b), Moved(a, b, 0),
           \A h \in Holders : h \in condemned =>
               h \in b.alive /\ (h \in b.online <=> h \in a.online),
           \/ Become(w) /\ m_da_pending_release' = m_da_pending_release
           \/ o \in Holders \ Boxes /\ o \in b.alive /\ o \notin b.online /\ Put(o, w)
    PROVE  IInv'
<1> DEFINE q == m_da_pending_release
<1>1. a \in Censuses /\ Unique(a.ID) /\ Orderly(a) /\ b \in Censuses
  BY DEF Fits, Shows
<1>2. /\ visited \subseteq Objects /\ q \in Seq(Ids) /\ condemned \subseteq Objects
      /\ calls \in 0..CallsPerWalk /\ calls \in Nat /\ CallsPerWalk \in Nat /\ IsInjective(q)
  BY Kinds DEF Ordinary
<1>3. Corpses(a, condemned, visited, q) /\ Queued(a, condemned, q, calls)
  BY DEF Fits
<1>4. condemned = {h \in condemned : h \in b.alive}
  BY <1>3 DEF Corpses
<1>5. Corpses(b, condemned, visited', q)
  <2>1. \A h \in Holders : h \in a.alive /\ h \in condemned /\ h \in b.alive =>
            b.ID[h] = a.ID[h] /\ (h \in b.online <=> h \in a.online)
    BY Kinds DEF Moved
  <2>2. visited \subseteq visited'
    OBVIOUS
  <2>3. QED
    BY <1>3, <1>4, <2>1, <2>2, CorpsesStay
<1>6. Queued(b, condemned, q, calls)
  <2>1. CallsPerWalk <= Len(a.pool) + 1
    BY <1>1, PoolSizes
  <2>2. 0 \in 0..1 /\ calls + 0 <= calls /\ calls <= CallsPerWalk
    BY <1>2
  <2>3. QED
    BY <1>1, <1>2, <1>3, <1>4, <2>1, <2>2, QueueStays
<1>7. CASE Become(w) /\ q' = q
  <2>1. world' = w /\ condemned' = condemned
    BY <1>2, <1>4, <1>7, BecomeIs
  <2>2. Ordinary'
    BY <1>2, <1>7, <2>1 DEF Ordinary
  <2>3. Fits(b)'
    BY <1>5, <1>6, <1>7, <2>1 DEF Fits
  <2>4. QED
    BY <2>2, <2>3 DEF IInv
<1>8. CASE o \in Holders \ Boxes /\ o \in b.alive /\ o \notin b.online /\ Put(o, w)
  <2>1. world' = w /\ condemned' = condemned \cup {o} /\ q' = Append(q, b.ID[o])
    BY <1>8 DEF Put, Shows
  <2>2. b.ID[o] \in Ids
    BY <1>8 DEF Orderly, Living
  <2>3. b.ID[o] \notin ToSet(q)
    <3>1. \A h \in condemned : h # o /\ h \in Objects
      BY <1>2, <1>3 DEF Corpses
    <3>2. \A h \in condemned : b.ID[h] # b.ID[o]
      BY <2>2, <3>1, Kinds DEF Shows, Unique
    <3>3. b.ID[o] \notin ToSet(b.pool)
      BY <2>2 DEF Orderly, PoolFits
    <3>4. \A n \in 1..Len(b.pool) : b.pool[n] # b.ID[o]
      BY <1>1, <3>3, CensusFields, ToSetProperties
    <3>5. QED
      BY <1>6, <3>2, <3>4 DEF Queued
  <2>4. q' \in Seq(Ids) /\ ToSet(q') = ToSet(q) \cup {b.ID[o]} /\ IsInjective(q')
    BY <1>2, <2>1, <2>2, <2>3, AppendUnique
  <2>5. Ordinary'
    BY <1>2, <2>1, <2>4 DEF Ordinary
  <2>6. Corpses(b, condemned', visited', q')
    <3>1. \A h \in condemned : /\ h \in visited' /\ h \in Holders \ Boxes /\ h \in b.alive
                               /\ h \notin b.online /\ b.ID[h] \in ToSet(q)
      BY <1>5 DEF Corpses
    <3>2. QED
      BY <1>8, <2>1, <2>4, <3>1 DEF Corpses
  <2>7. Queued(b, condemned', q', calls')
    <3>1. \A id \in ToSet(q) : \/ \E h \in condemned : b.ID[h] = id
                               \/ \E n \in 1..Len(b.pool) : b.pool[n] = id /\ n + calls > CallsPerWalk
      BY <1>6 DEF Queued
    <3>2. QED
      BY <2>1, <2>4, <3>1 DEF Queued
  <2>8. Fits(b)'
    BY <2>1, <2>6, <2>7 DEF Fits
  <2>9. QED
    BY <2>5, <2>8 DEF IInv
<1>9. QED
  BY <1>7, <1>8

LEMMA PurgedMoves ==
    ASSUME NEW a \in Censuses, NEW b, NEW o, Purged(a, b, o)
    PROVE  Moved(a, b, 0) /\ Steady(a, b) /\ o \notin b.alive
<1>1. PICK D : o \in D /\ Fewer(a, b, D)
  BY DEF Purged
<1>2. /\ b.alive = a.alive \ D /\ Begins(a.pool, b.pool)
      /\ \A k \in Objects : k \notin D => /\ b.ID[k] = a.ID[k]
                                          /\ (k \in b.online <=> k \in a.online)
  BY <1>1 DEF Fewer
<1>3. Steady(a, b)
  BY <1>2, Kinds DEF Steady
<1>4. Len(a.pool) \in Nat /\ Len(b.pool) \in Nat
  BY CensusFields, LenProperties DEF Purged
<1>5. Moved(a, b, 0)
  BY <1>2, <1>4, BeginsMoves
<1>6. QED
  BY <1>1, <1>2, <1>3, <1>5

\* Whom the flush finds: somebody condemned, or nobody.
LEMMA FlushFinds ==
    ASSUME Ordinary, NEW a, Fits(a), m_da_pending_release # <<>>,
           NEW o \in Objects, Registered(world, Head(m_da_pending_release)) = o
    PROVE  /\ o \in condemned /\ a.ID[o] = Head(m_da_pending_release) /\ o \in a.alive
           /\ o \notin a.online
<1> DEFINE q == m_da_pending_release
<1>1. a \in Censuses /\ Unique(a.ID) /\ Orderly(a) /\ Shows(world, a) /\ Grounded(a)
  BY OrderlyGrounded DEF Fits, Shows
<1>2. q \in Seq(Ids)
  BY DEF Ordinary
<1>3. Head(q) \in Ids /\ Head(q) \in ToSet(q)
  BY <1>2, HeadOrTail
<1>4. o \in a.reg /\ a.ID[o] = Head(q)
  <2>1. Head(q) \in Ids \cup {NoId}
    BY <1>3
  <2>2. QED
    BY <1>1, <2>1, RegisteredIs
<1>5. Head(q) \notin ToSet(a.pool)
  BY <1>1, <1>3, <1>4 DEF Orderly, PoolFits
<1>6. \A n \in 1..Len(a.pool) : a.pool[n] # Head(q)
  BY <1>1, <1>5, CensusFields, ToSetProperties
<1>7. PICK h \in condemned : a.ID[h] = Head(q)
  BY <1>3, <1>6 DEF Fits, Queued
<1>8. h \in Objects /\ h \in a.alive /\ h \notin a.online
  BY <1>7, Kinds DEF Fits, Corpses
<1>9. h = o
  BY <1>1, <1>3, <1>4, <1>7, <1>8, Kinds DEF Unique
<1>10. QED
  BY <1>4, <1>7, <1>8, <1>9

LEMMA FlushFits ==
    ASSUME Plenty, Ordinary, NEW a, Fits(a), FlushNext
    PROVE  IInv'
<1> DEFINE q == m_da_pending_release
           object == Registered(world, Head(q))
<1>1. a \in Censuses /\ Unique(a.ID) /\ Orderly(a) /\ Shows(world, a) /\ Grounded(a)
  BY OrderlyGrounded DEF Fits, Shows
<1>2. /\ visited \subseteq Objects /\ q \in Seq(Ids) /\ condemned \subseteq Objects
      /\ calls \in 0..CallsPerWalk /\ calls \in Nat /\ CallsPerWalk \in Nat /\ IsInjective(q)
  BY Kinds DEF Ordinary
<1>3. Corpses(a, condemned, visited, q) /\ Queued(a, condemned, q, calls)
  BY DEF Fits
<1>4. /\ phase = "flush" /\ q # <<>> /\ q' = Tail(q) /\ phase' = phase /\ visited' = visited
      /\ calls' = calls
      /\ Become(IF object = None THEN world ELSE release(world, object, TRUE))
  BY DEF FlushNext
<1>5. /\ Tail(q) \in Seq(Ids) /\ Head(q) \in Ids /\ Head(q) \in ToSet(q)
      /\ ToSet(Tail(q)) = ToSet(q) \ {Head(q)} /\ IsInjective(Tail(q))
  BY <1>2, <1>4, TailUnique
<1>6. /\ object \in Objects \cup {None}
      /\ \A o \in Objects : object = o <=> o \in a.reg /\ a.ID[o] = Head(q)
  <2>1. Head(q) \in Ids \cup {NoId}
    BY <1>5
  <2>2. QED
    BY <1>1, <2>1, RegisteredIs
<1>7. \A h \in condemned : /\ h \in visited /\ h \in Holders \ Boxes /\ h \in a.alive
                           /\ h \notin a.online /\ a.ID[h] \in ToSet(q) /\ h \in Objects
  BY <1>2, <1>3 DEF Corpses
<1>8. \A h \in condemned : a.ID[h] = Head(q) => object = h
  <2>1. \A h \in condemned : h \in a.reg
    BY <1>1, <1>7 DEF Orderly, Living, Tabled
  <2>2. QED
    BY <1>6, <1>7, <2>1
<1>9. CASE object = None
  <2>1. world' = world /\ condemned' = {h \in condemned : h \in a.alive}
    BY <1>1, <1>2, <1>4, <1>9, BecomeIs
  <2>2. condemned' = condemned
    BY <1>7, <2>1
  <2>3. \A h \in condemned : a.ID[h] \in ToSet(Tail(q))
    BY <1>5, <1>7, <1>8, <1>9, Kinds
  <2>4. Corpses(a, condemned', visited', q')
    BY <1>4, <1>7, <2>2, <2>3 DEF Corpses
  <2>5. Queued(a, condemned', q', calls')
    BY <1>3, <1>4, <1>5, <2>2 DEF Queued
  <2>6. Ordinary'
    BY <1>2, <1>4, <1>5, <2>2 DEF Ordinary
  <2>7. Fits(a)'
    BY <1>1, <2>1, <2>4, <2>5 DEF Fits
  <2>8. QED
    BY <2>6, <2>7 DEF IInv
<1>10. CASE object # None
  <2>1. PICK o \in Objects : object = o
    BY <1>6, <1>10
  <2>2. o \in condemned /\ a.ID[o] = Head(q) /\ o \in a.alive /\ o \notin a.online
    BY <1>4, <2>1, FlushFinds
  <2>3. PICK b : Shows(release(world, o, TRUE), b) /\ Purged(a, b, o)
    BY <1>1, <2>2, ReleaseShows
  <2>4. Moved(a, b, 0) /\ Steady(a, b) /\ o \notin b.alive
    BY <1>1, <2>3, PurgedMoves
  <2>5. b \in Censuses /\ Orderly(b)
    BY <2>3 DEF Purged
  <2>6. Become(release(world, o, TRUE))
    BY <1>4, <1>10, <2>1
  <2>7. /\ world' = release(world, o, TRUE) /\ condemned' = {h \in condemned : h \in b.alive}
        /\ condemned' \subseteq Objects
    BY <1>2, <2>3, <2>6, BecomeIs
  <2>8. \A h \in condemned : h # o => h \in b.alive
    <3>1. PICK D : D \subseteq Family(a, o) \cup {o} /\ b.alive = a.alive \ D
      BY <2>3 DEF Purged, Fewer
    <3>2. \A h \in condemned : h \notin Family(a, o)
      BY <1>7, Kinds DEF Family
    <3>3. QED
      BY <1>7, <3>1, <3>2
  <2>9. PICK S : S = condemned \ {o}
    OBVIOUS
  <2>10. S = {h \in S : h \in b.alive} /\ condemned' = S
    BY <2>4, <2>7, <2>8, <2>9
  <2>11. \A h \in S : a.ID[h] # Head(q)
    BY <1>8, <2>1, <2>9
  <2>12. Corpses(a, S, visited, Tail(q))
    BY <1>3, <1>5, <2>9, <2>11 DEF Corpses
  <2>13. Queued(a, S, Tail(q), calls)
    <3>1. SUFFICES ASSUME NEW id \in ToSet(Tail(q))
                   PROVE  \/ \E h \in S : a.ID[h] = id
                          \/ \E n \in 1..Len(a.pool) : a.pool[n] = id /\ n + calls > CallsPerWalk
      BY DEF Queued
    <3>2. id \in ToSet(q) /\ id # Head(q)
      BY <1>5, <3>1
    <3>3. QED
      BY <1>3, <2>2, <2>9, <3>2 DEF Queued
  <2>14. Corpses(b, condemned', visited', q')
    <3>1. \A h \in Holders : h \in a.alive /\ h \in S /\ h \in b.alive =>
              b.ID[h] = a.ID[h] /\ (h \in b.online <=> h \in a.online)
      BY <2>4, Kinds DEF Moved, Steady
    <3>2. Corpses(b, S, visited, Tail(q))
      BY <2>10, <2>12, <3>1, CorpsesStay
    <3>3. QED
      BY <1>4, <2>10, <3>2
  <2>15. Queued(b, condemned', q', calls')
    <3>1. CallsPerWalk <= Len(a.pool) + 1
      BY <1>1, PoolSizes
    <3>2. 0 \in 0..1 /\ calls + 0 <= calls /\ calls <= CallsPerWalk
      BY <1>2
    <3>3. Queued(b, S, Tail(q), calls)
      BY <1>1, <1>2, <2>4, <2>5, <2>10, <2>12, <2>13, <3>1, <3>2, QueueStays
    <3>4. QED
      BY <1>4, <2>10, <3>3
  <2>16. Ordinary'
    BY <1>2, <1>4, <1>5, <2>7 DEF Ordinary
  <2>17. Fits(b)'
    BY <2>3, <2>5, <2>7, <2>14, <2>15 DEF Fits
  <2>18. QED
    BY <2>16, <2>17 DEF IInv
<1>11. QED
  BY <1>9, <1>10

\* A visit finds a registered object that nobody owns.
LEMMA VisitFinds ==
    ASSUME NEW a, Fits(a), NEW o \in Objects, Visit(o)
    PROVE  /\ a \in Censuses /\ Unique(a.ID) /\ Orderly(a) /\ Shows(world, a)
           /\ o \in a.alive /\ a.parent[o] = NoId /\ o \in a.control
           /\ world.online[o] <=> o \in a.online
           /\ phase = "walk" /\ o \notin visited /\ visited' = visited \cup {o}
           /\ phase' = phase /\ calls' = calls
<1>1. a \in Censuses /\ Unique(a.ID) /\ Orderly(a) /\ Shows(world, a)
  BY DEF Fits, Shows
<1>2. PICK id \in Ids : world.level[id] = o
  BY DEF Visit
<1>3. o \in a.lev
  BY <1>1, <1>2 DEF Shows, Lists
<1>4. o \in a.reg /\ a.parent[o] = NoId
  BY <1>1, <1>3 DEF Orderly, Tabled
<1>5. o \in a.alive /\ o \in a.control
  BY <1>1, <1>4 DEF Orderly, Tabled
<1>6. QED
  BY <1>1, <1>4, <1>5 DEF Visit, Shows

LEMMA RedundantFits ==
    ASSUME Plenty, Ordinary, NEW a, Fits(a), NEW o \in Objects, VisitRedundant(o)
    PROVE  IInv'
<1>1. Visit(o) /\ o \in Holders \ Boxes /\ ~world.online[o] /\ Put(o, world)
  BY DEF VisitRedundant
<1>2. /\ a \in Censuses /\ Unique(a.ID) /\ Orderly(a) /\ Shows(world, a)
      /\ o \in a.alive /\ a.parent[o] = NoId /\ o \in a.control
      /\ world.online[o] <=> o \in a.online
      /\ phase = "walk" /\ o \notin visited /\ visited' = visited \cup {o}
      /\ phase' = phase /\ calls' = calls
  BY <1>1, VisitFinds
<1>3. Begins(a.pool, a.pool) /\ Len(a.pool) \in Nat
  BY <1>2, CensusFields, BeginsProperties, LenProperties
<1>4. Moved(a, a, 0)
  BY <1>3, BeginsMoves
<1>5. \A h \in Holders : h \in condemned => h \in a.alive
  BY DEF Fits, Corpses
<1>6. QED
  BY <1>1, <1>2, <1>4, <1>5, WalkFits

LEMMA OfflineFits ==
    ASSUME Plenty, Ordinary, NEW a, Fits(a), NEW o \in Objects, VisitOffline(o)
    PROVE  IInv'
<1>1. /\ Visit(o) /\ ~world.online[o] /\ Become(GoOnline(world, o))
      /\ m_da_pending_release' = m_da_pending_release
  BY DEF VisitOffline
<1>2. /\ a \in Censuses /\ Unique(a.ID) /\ Orderly(a) /\ Shows(world, a)
      /\ o \in a.alive /\ a.parent[o] = NoId /\ o \in a.control
      /\ world.online[o] <=> o \in a.online
      /\ phase = "walk" /\ o \notin visited /\ visited' = visited \cup {o}
      /\ phase' = phase /\ calls' = calls
  BY <1>1, VisitFinds
<1>3. PICK b : b = Risen(a, o)
  OBVIOUS
<1>4. Shows(GoOnline(world, o), b) /\ RisenIs(a, b, o) /\ Orderly(b)
  BY <1>1, <1>2, <1>3, GoOnlineShows
<1>5. /\ b.alive = a.alive /\ b.ID = a.ID /\ b.pool = a.pool
      /\ b.online = a.online \cup ({o} \cup Family(a, o))
  BY <1>4 DEF RisenIs
<1>6. Begins(a.pool, a.pool) /\ Len(a.pool) \in Nat
  BY <1>2, CensusFields, BeginsProperties, LenProperties
<1>7. Moved(a, b, 0)
  BY <1>5, <1>6, BeginsMoves
<1>8. \A h \in Holders : h \in condemned => h \in b.alive /\ (h \in b.online <=> h \in a.online)
  <2>1. \A h \in condemned : h \in a.alive /\ h \in visited
    BY DEF Fits, Corpses
  <2>2. \A h \in Holders : h \notin Family(a, o)
    BY Kinds DEF Family
  <2>3. QED
    BY <1>2, <1>5, <2>1, <2>2
<1>9. PICK w : w = GoOnline(world, o)
  OBVIOUS
<1>10. QED
  BY <1>1, <1>2, <1>4, <1>7, <1>8, <1>9, WalkFits

LEMMA OnlineFits ==
    ASSUME Plenty, Ordinary, NEW a, Fits(a), NEW o \in Objects, VisitOnline(o)
    PROVE  IInv'
<1>0. PICK w : w = GoOffline(world, o)
  OBVIOUS
<1>1. /\ Visit(o) /\ world.online[o]
      /\ \/ Become(w) /\ m_da_pending_release' = m_da_pending_release
         \/ o \in Holders \ Boxes /\ Put(o, w)
  BY <1>0 DEF VisitOnline
<1>2. /\ a \in Censuses /\ Unique(a.ID) /\ Orderly(a) /\ Shows(world, a)
      /\ o \in a.alive /\ a.parent[o] = NoId /\ o \in a.control
      /\ world.online[o] <=> o \in a.online
      /\ phase = "walk" /\ o \notin visited /\ visited' = visited \cup {o}
      /\ phase' = phase /\ calls' = calls
  BY <1>1, VisitFinds
<1>3. Sinks(a, o)
  BY <1>1, <1>2 DEF Sinks
<1>4. PICK b : Shows(w, b) /\ SunkIs(a, b, o) /\ Orderly(b)
  BY <1>0, <1>2, <1>3, GoOfflineShows
<1>5. /\ b \in Censuses /\ b.alive = a.alive \ (Family(a, o) \cap Bolts) /\ Begins(a.pool, b.pool)
      /\ b.online = a.online \ ({o} \cup Family(a, o))
      /\ \A k \in Objects : b.ID[k] = IF k \in Family(a, o) \cap Bolts THEN NoId ELSE a.ID[k]
  BY <1>4 DEF SunkIs
<1>6. Len(a.pool) \in Nat /\ Len(b.pool) \in Nat
  BY <1>2, <1>5, CensusFields, LenProperties
<1>7. Moved(a, b, 0)
  <2>1. \A h \in Objects : h \in a.alive /\ h \in b.alive => b.ID[h] = a.ID[h]
    BY <1>5
  <2>2. b.alive \subseteq a.alive
    BY <1>5
  <2>3. QED
    BY <1>5, <1>6, <2>1, <2>2, BeginsMoves
<1>8. \A h \in Holders : h \notin Family(a, o)
  BY Kinds DEF Family
<1>9. \A h \in Holders : h \in condemned => h \in b.alive /\ (h \in b.online <=> h \in a.online)
  <2>1. \A h \in condemned : h \in a.alive /\ h \in visited
    BY DEF Fits, Corpses
  <2>2. QED
    BY <1>2, <1>5, <1>8, <2>1
<1>10. o \in Holders => o \in b.alive /\ o \notin b.online
  BY <1>2, <1>5, <1>8
<1>11. QED
  BY <1>1, <1>2, <1>4, <1>7, <1>9, <1>10, WalkFits

\* The phases, and nothing at all.
LEMMA PhaseFits ==
    ASSUME Ordinary, NEW a, Fits(a), BeginWalk \/ EndWalk \/ EndFlush \/ UNCHANGED vars
    PROVE  IInv'
<1> DEFINE q == m_da_pending_release
<1>1. /\ visited \subseteq Objects /\ q \in Seq(Ids) /\ condemned \subseteq Objects
      /\ calls \in 0..CallsPerWalk /\ CallsPerWalk \in Nat /\ IsInjective(q)
      /\ phase \in {"idle", "walk", "flush"}
      /\ phase = "idle" => q = <<>> /\ visited = {}
  BY Kinds DEF Ordinary
<1>2. /\ Shows(world, a) /\ Orderly(a) /\ Corpses(a, condemned, visited, q)
      /\ Queued(a, condemned, q, calls)
  BY DEF Fits
<1>3. ToSet(<<>>) = {}
  BY EmptyUnique
<1>4. q = <<>> => condemned = {}
  BY <1>2, <1>3 DEF Corpses
<1>5. q = <<>> => \A V, c : Corpses(a, condemned, V, q) /\ Queued(a, condemned, q, c)
  BY <1>3, <1>4 DEF Corpses, Queued
<1>6. CASE BeginWalk
  <2>1. /\ phase = "idle" /\ phase' = "walk" /\ visited' = {} /\ world' = world /\ q' = q
        /\ condemned' = condemned /\ calls' = calls
    BY <1>6 DEF BeginWalk
  <2>2. Ordinary'
    BY <1>1, <2>1 DEF Ordinary
  <2>3. Fits(a)'
    BY <1>1, <1>2, <1>5, <2>1 DEF Fits
  <2>4. QED
    BY <2>2, <2>3 DEF IInv
<1>7. CASE EndWalk
  <2>1. /\ phase' = "flush" /\ visited' = visited /\ world' = world /\ q' = q
        /\ condemned' = condemned /\ calls' = calls
    BY <1>7 DEF EndWalk
  <2>2. Ordinary'
    BY <1>1, <2>1 DEF Ordinary
  <2>3. Fits(a)'
    BY <1>2, <2>1 DEF Fits
  <2>4. QED
    BY <2>2, <2>3 DEF IInv
<1>8. CASE EndFlush
  <2>1. /\ q = <<>> /\ phase' = "idle" /\ visited' = {} /\ world' = world /\ q' = q
        /\ condemned' = condemned /\ calls' = 0
    BY <1>8 DEF EndFlush
  <2>2. Ordinary'
    BY <1>1, <2>1 DEF Ordinary
  <2>3. Fits(a)'
    BY <1>2, <1>5, <2>1 DEF Fits
  <2>4. QED
    BY <2>2, <2>3 DEF IInv
<1>9. CASE UNCHANGED vars
  <2>1. /\ phase' = phase /\ visited' = visited /\ world' = world /\ q' = q
        /\ condemned' = condemned /\ calls' = calls
    BY <1>9 DEF vars
  <2>2. Ordinary'
    BY <1>1, <2>1 DEF Ordinary
  <2>3. Fits(a)'
    BY <1>2, <2>1 DEF Fits
  <2>4. QED
    BY <2>2, <2>3 DEF IInv
<1>10. QED
  BY <1>6, <1>7, <1>8, <1>9

\* An event of the client or a call of a script.
Event ==
    \/ \E p \in Ids, e \in Ids : Take(p, e) \/ Reject(p, e)
    \/ \E id \in Ids : Destroy(id)
    \/ \E o \in Objects, p \in Ids \cup {NoId} : ClientSpawn(o, p) \/ CreateOffline(o, p)
    \/ \E o \in Goods, p \in Ids : CreateOnline(o, p)
    \/ \E o \in Objects : ScriptRelease(o)

LEMMA EventYields ==
    ASSUME Plenty, NEW a, Fits(a), Event
    PROVE  \E w : Call(w) /\ Yields(w, a)
<1>1. Shows(world, a) /\ Orderly(a) /\ a \in Censuses
  BY DEF Fits, Shows
<1>2. \A o \in Objects : /\ world.alive[o] <=> o \in a.alive
                         /\ world.online[o] <=> o \in a.online
  BY <1>1 DEF Shows
<1>3. world.pool = a.pool
  BY <1>1 DEF Shows
<1>4. ASSUME NEW p \in Ids, NEW e \in Ids, Take(p, e) PROVE \E w : Call(w) /\ Yields(w, a)
  <2>1. PICK w : w = Process_event_ownership(world, p, e)
    OBVIOUS
  <2>2. world.entities[p] \in Holders /\ world.entities[e] \in Goods /\ Call(w)
    BY <1>4, <2>1 DEF Take
  <2>3. Yields(w, a)
    BY <1>1, <2>1, <2>2, TakeYields
  <2>4. QED
    BY <2>2, <2>3
<1>5. ASSUME NEW p \in Ids, NEW e \in Ids, Reject(p, e) PROVE \E w : Call(w) /\ Yields(w, a)
  <2>1. PICK w : w = Process_event_reject(world, p, e)
    OBVIOUS
  <2>2. world.entities[p] \in Holders /\ world.entities[e] \in Goods /\ Call(w)
    BY <1>5, <2>1 DEF Reject
  <2>3. Yields(w, a)
    BY <1>1, <2>1, <2>2, RejectYields
  <2>4. QED
    BY <2>2, <2>3
<1>6. ASSUME NEW id \in Ids, Destroy(id) PROVE \E w : Call(w) /\ Yields(w, a)
  <2>1. PICK w : w = Process_event_destroy(world, id)
    OBVIOUS
  <2>2. world.entities[id] # None /\ Call(w)
    BY <1>6, <2>1 DEF Destroy
  <2>3. Yields(w, a)
    BY <1>1, <2>1, <2>2, DestroyYields
  <2>4. QED
    BY <2>2, <2>3
<1>7. ASSUME NEW o \in Objects, NEW p \in Ids \cup {NoId}, ClientSpawn(o, p)
      PROVE  \E w : Call(w) /\ Yields(w, a)
  <2>1. PICK w : w = SpawnFromMessage(world, o, p)
    OBVIOUS
  <2>2. /\ ~world.alive[o] /\ world.pool # <<>> /\ Call(w)
        /\ p # NoId => o \in Goods /\ world.entities[p] \in Holders
    BY <1>7, <2>1 DEF ClientSpawn
  <2>3. Yields(w, a)
    BY <1>1, <1>2, <1>3, <2>1, <2>2, ClientSpawnYields
  <2>4. QED
    BY <2>2, <2>3
<1>8. ASSUME NEW o \in Objects, NEW p \in Ids \cup {NoId}, CreateOffline(o, p)
      PROVE  \E w : Call(w) /\ Yields(w, a)
  <2>1. PICK w : w = spawn_item(world, o, p)
    OBVIOUS
  <2>2. /\ ~world.alive[o] /\ world.pool # <<>> /\ Call(w) /\ o \in Holders \cup Supplies
        /\ p # NoId => /\ o \in Goods /\ Registered(world, p) \in Holders
                       /\ ~world.online[Registered(world, p)]
    BY <1>8, <2>1 DEF CreateOffline
  <2>3. o \notin Bolts
    BY <2>2, Kinds DEF Plenty
  <2>4. Yields(w, a)
    BY <1>1, <1>2, <1>3, <2>1, <2>2, <2>3, CreateYields
  <2>5. QED
    BY <2>2, <2>4
<1>9. ASSUME NEW o \in Goods, NEW p \in Ids, CreateOnline(o, p)
      PROVE  \E w : Call(w) /\ Yields(w, a)
  <2>1. PICK w : w = spawn_item2(world, o, p)
    OBVIOUS
  <2>2. /\ ~world.alive[o] /\ world.pool # <<>> /\ Call(w) /\ Registered(world, p) \in Holders
        /\ world.online[Registered(world, p)]
    BY <1>9, <2>1 DEF CreateOnline
  <2>3. o \notin a.alive
    BY <1>2, <2>2, Kinds
  <2>4. Yields(w, a)
    BY <1>1, <1>3, <2>1, <2>2, <2>3, CreateOnlineYields
  <2>5. QED
    BY <2>2, <2>4
<1>10. ASSUME NEW o \in Objects, ScriptRelease(o) PROVE \E w : Call(w) /\ Yields(w, a)
  <2>1. \A query : query = TRUE => \E w : w = release(world, o, query)
    OBVIOUS
  <2>2. PICK w : w = release(world, o, TRUE)
    BY <2>1
  <2>3. world.alive[o] /\ ~world.online[o] /\ Call(w)
    BY <1>10, <2>2 DEF ScriptRelease
  <2>4. Yields(w, a)
    BY <1>1, <1>2, <2>2, <2>3, ReleaseYields
  <2>5. QED
    BY <2>3, <2>4
<1>11. QED
  BY <1>4, <1>5, <1>6, <1>7, <1>8, <1>9, <1>10 DEF Event

LEMMA NextFits ==
    ASSUME Plenty, IInv, [Next]_vars
    PROVE  IInv'
<1>1. PICK a : Fits(a)
  BY DEF IInv
<1>2. Ordinary
  BY DEF IInv
<1>3. CASE Event
  <2>1. PICK w : Call(w) /\ Yields(w, a)
    BY <1>1, <1>3, EventYields
  <2>2. QED
    BY <1>1, <1>2, <2>1, CallFits
<1>4. CASE \E o \in Objects : VisitRedundant(o) \/ VisitOffline(o) \/ VisitOnline(o)
  BY <1>1, <1>2, <1>4, RedundantFits, OfflineFits, OnlineFits
<1>5. CASE FlushNext
  BY <1>1, <1>2, <1>5, FlushFits
<1>6. CASE BeginWalk \/ EndWalk \/ EndFlush \/ UNCHANGED vars
  BY <1>1, <1>2, <1>6, PhaseFits
<1>7. QED
  BY <1>3, <1>4, <1>5, <1>6 DEF Next, Event

\* The inductive invariant holds.
LEMMA Invariance ==
    ASSUME Plenty
    PROVE  Spec => []IInv
<1>1. Init => IInv
  BY InitFits
<1>2. IInv /\ [Next]_vars => IInv'
  BY NextFits
<1>3. QED
  BY <1>1, <1>2, PTL DEF Spec

-----------------------------------------------------------------------------
(* What the invariant says of the world. *)

LEMMA Fitting ==
    ASSUME NEW a, Fits(a)
    PROVE  /\ Shows(world, a) /\ a \in Censuses /\ Unique(a.ID) /\ world \in Worlds
           /\ Orderly(a) /\ Living(a) /\ Tabled(a) /\ Families(a) /\ PoolFits(a)
           /\ world.ID = a.ID /\ world.ID_Parent = a.parent /\ world.children = a.children
           /\ world.pool = a.pool /\ world.fatal = FALSE
           /\ Live = a.alive
           /\ \A o \in Objects : /\ world.alive[o] <=> o \in a.alive
                                 /\ world.online[o] <=> o \in a.online
                                 /\ world.control[o] <=> o \in a.control
<1>1. Shows(world, a) /\ Orderly(a) /\ a \in Censuses
  BY DEF Fits, Shows
<1>2. a.alive \in SUBSET Objects
  BY <1>1, CensusFields
<1>3. \A o \in Objects : world.alive[o] <=> o \in a.alive
  BY <1>1 DEF Shows
<1>4. Live = a.alive
  BY <1>2, <1>3 DEF Live
<1>5. QED
  BY <1>1, <1>4 DEF Shows, Orderly

LEMMA Typed == IInv => TypeOK
<1> SUFFICES ASSUME IInv PROVE TypeOK
  OBVIOUS
<1>1. PICK a : Fits(a)
  BY DEF IInv
<1>2. /\ a \in Censuses /\ world \in Worlds /\ Orderly(a) /\ Living(a) /\ Live = a.alive
      /\ world.ID = a.ID /\ world.pool = a.pool
      /\ \A o \in Objects : world.alive[o] <=> o \in a.alive
  BY <1>1, Fitting
<1>3. /\ world.alive \in [Objects -> BOOLEAN] /\ world.ID \in [Objects -> Ids \cup {NoId}]
      /\ world.ID_Parent \in [Objects -> Ids \cup {NoId}]
      /\ world.children \in [Objects -> Seq(Ids)]
      /\ world.online \in [Objects -> BOOLEAN] /\ world.control \in [Objects -> BOOLEAN]
      /\ world.entities \in [Ids -> Objects \cup {None}]
      /\ world.registry \in [Ids -> Objects \cup {None}]
      /\ world.level \in [Ids -> Objects \cup {None}]
      /\ world.points \in [Ids -> Objects \cup {None}]
      /\ world.pool \in Seq(Ids)
  BY <1>2 DEF Worlds
<1>4. \A o \in Objects : world.alive[o] <=> world.ID[o] # NoId
  BY <1>2, <1>3, Kinds DEF Living
<1>5. Len(world.pool) <= Cardinality(Ids)
  BY <1>2, PoolSizes
<1>6. condemned \subseteq Live
  BY <1>1, <1>2 DEF Fits, Corpses
<1>7. /\ phase \in {"idle", "walk", "flush"} /\ visited \subseteq Objects
      /\ m_da_pending_release \in Seq(Ids) /\ calls \in 0..CallsPerWalk
  BY DEF IInv, Ordinary
<1>8. \A table \in {world.entities, world.registry, world.level, world.points} :
            table \in [Ids -> Objects \cup {None}]
  BY <1>3
<1>9. \A o \in Objects : world.children[o] \in Seq(Ids)
  BY <1>3
<1>10. QED
  BY <1>3, <1>4, <1>5, <1>6, <1>7, <1>8, <1>9 DEF TypeOK

LEMMA PoolFitsExactly == IInv => PoolExact
<1> SUFFICES ASSUME IInv, NEW id \in Ids
             PROVE  Cardinality({i \in DOMAIN world.pool : world.pool[i] = id})
                        + Cardinality({o \in Live : world.ID[o] = id}) = 1
  BY DEF PoolExact
<1> DEFINE P == {i \in DOMAIN world.pool : world.pool[i] = id}
           O == {o \in Live : world.ID[o] = id}
<1>1. PICK a : Fits(a)
  BY DEF IInv
<1>2. /\ a \in Censuses /\ Unique(a.ID) /\ Living(a) /\ PoolFits(a) /\ Live = a.alive
      /\ world.ID = a.ID /\ world.pool = a.pool
  BY <1>1, Fitting
<1>3. a.pool \in Seq(Ids) /\ a.alive \in SUBSET Objects
  BY <1>2, CensusFields
<1>4. /\ DOMAIN a.pool = 1..Len(a.pool)
      /\ ToSet(a.pool) = {a.pool[i] : i \in 1..Len(a.pool)}
      /\ \A i, j \in 1..Len(a.pool) : a.pool[i] = a.pool[j] => i = j
  BY <1>2, <1>3, LenProperties, ToSetProperties DEF PoolFits
<1>5. id \in ToSet(a.pool) <=> \A o \in Objects : a.ID[o] # id
  BY <1>2 DEF PoolFits
<1>6. CASE id \in ToSet(a.pool)
  <2>1. PICK i \in 1..Len(a.pool) : a.pool[i] = id
    BY <1>4, <1>6
  <2>2. P = {i}
    BY <1>2, <1>4, <2>1
  <2>3. O = {}
    BY <1>2, <1>3, <1>5, <1>6
  <2>4. Cardinality(P) = 1 /\ Cardinality(O) = 0
    BY <2>2, <2>3, FS_Singleton, FS_EmptySet
  <2>5. QED
    BY <2>4
<1>7. CASE id \notin ToSet(a.pool)
  <2>1. PICK o \in Objects : a.ID[o] = id
    BY <1>5, <1>7
  <2>2. o \in a.alive
    BY <1>2, <2>1 DEF Living
  <2>3. O = {o}
    BY <1>2, <1>3, <2>1, <2>2, Kinds DEF Unique
  <2>4. P = {}
    BY <1>2, <1>4, <1>7
  <2>5. Cardinality(O) = 1 /\ Cardinality(P) = 0
    BY <2>3, <2>4, FS_Singleton, FS_EmptySet
  <2>6. QED
    BY <2>5
<1>8. QED
  BY <1>6, <1>7

\* In the census the owner of a child is a living holder, who has it among his children.
LEMMA Owners ==
    ASSUME NEW a \in Censuses, Unique(a.ID), Living(a), Families(a), NEW k \in Objects, k \in a.alive,
           a.parent[k] # NoId
    PROVE  \E h \in Objects : /\ h \in a.alive /\ a.ID[h] = a.parent[k]
                              /\ a.ID[k] \in ToSet(a.children[h])
                              /\ (h \in a.online <=> k \in a.online)
<1>1. k \in Goods /\ a.parent[k] \in Ids
  BY Kinds, CensusFields DEF Living
<1>2. PICK h \in Holders : a.ID[h] = a.parent[k]
  BY <1>1 DEF Families
<1>3. h \in Objects /\ h \in a.alive
  BY <1>1, <1>2, Kinds DEF Living
<1>4. QED
  BY <1>1, <1>2, <1>3 DEF Families

\* A child is alive, names its owner, and is online together with him.
LEMMA Offspring ==
    ASSUME NEW a \in Censuses, Living(a), Families(a), NEW o \in Objects, o \in a.alive,
           NEW c, c \in ToSet(a.children[o])
    PROVE  \E k \in Objects : /\ k \in a.alive /\ a.ID[k] = c /\ a.parent[k] = a.ID[o]
                              /\ (k \in a.online <=> o \in a.online) /\ o \in Holders /\ k \in Goods
<1>1. PICK k \in Goods : a.ID[k] = c
  BY DEF Families
<1>2. a.children[o] \in Seq(Ids)
  BY CensusFields
<1>3. c \in Ids
  BY <1>2, ToSetProperties
<1>4. k \in Objects /\ k \in a.alive
  BY <1>1, <1>3, Kinds DEF Living
<1>5. o \in Holders
  BY EmptyUnique, Kinds DEF Living
<1>6. QED
  BY <1>1, <1>4, <1>5 DEF Families

LEMMA EntitiesFit == IInv => EntitiesAgree
<1> SUFFICES ASSUME IInv, NEW id \in Ids, NEW o \in Objects
             PROVE  /\ world.entities[id] = o <=> o \in Live /\ world.online[o] /\ world.ID[o] = id
                    /\ world.entities[id] = o =>
                        /\ IsInjective(world.children[o])
                        /\ \A c \in Children(o) : /\ world.entities[c] # None
                                                  /\ world.ID_Parent[world.entities[c]] = id
                        /\ world.ID_Parent[o] # NoId =>
                            /\ world.entities[world.ID_Parent[o]] # None
                            /\ id \in Children(world.entities[world.ID_Parent[o]])
  BY DEF EntitiesAgree
<1>1. PICK a : Fits(a)
  BY DEF IInv
<1>2. /\ Shows(world, a) /\ a \in Censuses /\ Unique(a.ID) /\ Living(a) /\ Tabled(a) /\ Families(a)
      /\ Live = a.alive /\ world.ID = a.ID /\ world.ID_Parent = a.parent
      /\ world.children = a.children
      /\ \A k \in Objects : /\ world.alive[k] <=> k \in a.alive
                            /\ world.online[k] <=> k \in a.online
  BY <1>1, Fitting
<1>3. a.ent = a.online /\ a.online \subseteq Objects
  BY <1>2, CensusFields DEF Tabled
<1>4. \A x \in Ids, k \in Objects : world.entities[x] = k <=> k \in a.online /\ a.ID[k] = x
  BY <1>2, <1>3 DEF Shows, Lists
<1>5. a.online \subseteq a.alive
  BY <1>2, <1>3 DEF Living
<1>6. world.entities[id] = o <=> o \in Live /\ world.online[o] /\ world.ID[o] = id
  BY <1>2, <1>4, <1>5
<1>7. ASSUME world.entities[id] = o
      PROVE  /\ IsInjective(world.children[o])
             /\ \A c \in Children(o) : /\ world.entities[c] # None
                                       /\ world.ID_Parent[world.entities[c]] = id
             /\ world.ID_Parent[o] # NoId =>
                /\ world.entities[world.ID_Parent[o]] # None
                /\ id \in Children(world.entities[world.ID_Parent[o]])
  <2>1. o \in a.alive /\ o \in a.online /\ a.ID[o] = id
    BY <1>4, <1>5, <1>7
  <2>2. IsInjective(world.children[o])
    BY <1>2 DEF Families
  <2>3. ASSUME NEW c \in Children(o)
        PROVE  world.entities[c] # None /\ world.ID_Parent[world.entities[c]] = id
    <3>1. c \in ToSet(a.children[o])
      BY <1>2 DEF Children
    <3>2. PICK k \in Objects : /\ k \in a.alive /\ a.ID[k] = c /\ a.parent[k] = a.ID[o]
                               /\ (k \in a.online <=> o \in a.online)
      BY <1>2, <2>1, <3>1, Offspring
    <3>3. c \in Ids
      BY <1>2, <3>2 DEF Living
    <3>4. world.entities[c] = k
      BY <1>4, <2>1, <3>2, <3>3
    <3>5. QED
      BY <1>2, <2>1, <3>2, <3>4, Kinds
  <2>4. ASSUME world.ID_Parent[o] # NoId
        PROVE  /\ world.entities[world.ID_Parent[o]] # None
               /\ id \in Children(world.entities[world.ID_Parent[o]])
    <3>1. PICK h \in Objects : /\ h \in a.alive /\ a.ID[h] = a.parent[o]
                               /\ a.ID[o] \in ToSet(a.children[h])
                               /\ (h \in a.online <=> o \in a.online)
      BY <1>2, <2>1, <2>4, Owners
    <3>2. a.parent[o] \in Ids
      BY <1>2, <3>1 DEF Living
    <3>3. world.entities[a.parent[o]] = h
      BY <1>4, <2>1, <3>1, <3>2
    <3>4. QED
      BY <1>2, <2>1, <3>1, <3>3, Kinds DEF Children
  <2>5. QED
    BY <2>2, <2>3, <2>4
<1>8. QED
  BY <1>6, <1>7

LEMMA RegistryFits == IInv => RegistryAgrees /\ LevelIsTopLevel
<1> SUFFICES ASSUME IInv PROVE RegistryAgrees /\ LevelIsTopLevel
  OBVIOUS
<1>1. PICK a : Fits(a)
  BY DEF IInv
<1>2. /\ Shows(world, a) /\ a \in Censuses /\ world \in Worlds /\ Living(a) /\ Tabled(a)
      /\ Live = a.alive /\ world.ID = a.ID /\ world.ID_Parent = a.parent
      /\ \A k \in Objects : /\ world.alive[k] <=> k \in a.alive
                            /\ world.online[k] <=> k \in a.online
                            /\ world.control[k] <=> k \in a.control
  BY <1>1, Fitting
<1>3. /\ a.reg = a.alive \cap a.control /\ a.lev = {o \in a.reg : a.parent[o] = NoId}
      /\ a.pts = a.lev \ a.online /\ a.ent = a.online
      /\ a.alive \subseteq Objects /\ a.control \subseteq Objects
  BY <1>2, CensusFields DEF Tabled
<1>4. /\ \A x \in Ids, k \in Objects : world.entities[x] = k <=> k \in a.ent /\ a.ID[k] = x
      /\ \A x \in Ids, k \in Objects : world.registry[x] = k <=> k \in a.reg /\ a.ID[k] = x
      /\ \A x \in Ids, k \in Objects : world.level[x] = k <=> k \in a.lev /\ a.ID[k] = x
      /\ \A x \in Ids, k \in Objects : world.points[x] = k <=> k \in a.pts /\ a.ID[k] = x
  BY <1>2 DEF Shows, Lists
<1>5. ASSUME NEW id \in Ids, world.registry[id] # None
      PROVE  LET o == world.registry[id]
             IN  o \in Live /\ world.ID[o] = id /\ world.control[o]
  <2>1. world.registry[id] \in Objects
    BY <1>2, <1>5 DEF Worlds
  <2>2. QED
    BY <1>2, <1>3, <1>4, <2>1
<1>6. ASSUME NEW o \in Live
      PROVE  world.registry[world.ID[o]] = o \/ world.entities[world.ID[o]] = o
  <2>1. o \in Objects /\ o \in a.alive /\ a.ID[o] \in Ids /\ (o \notin a.online => o \in a.control)
    BY <1>2, <1>3, <1>6 DEF Living
  <2>2. o \in a.reg \/ o \in a.ent
    BY <1>3, <2>1
  <2>3. QED
    BY <1>2, <1>4, <2>1, <2>2
<1>7. RegistryAgrees
  BY <1>5, <1>6 DEF RegistryAgrees
<1>8. ASSUME NEW id \in Ids, NEW o \in Objects
      PROVE  LET top == world.registry[id] = o /\ world.ID_Parent[o] = NoId
             IN  /\ world.level[id] = o <=> top
                 /\ world.points[id] = o <=> top /\ ~world.online[o] /\ UsesLocations(o)
  <2>1. world.level[id] = o <=> world.registry[id] = o /\ world.ID_Parent[o] = NoId
    BY <1>2, <1>3, <1>4
  <2>2. world.points[id] = o <=> world.level[id] = o /\ ~world.online[o]
    BY <1>2, <1>3, <1>4
  <2>3. o \in a.reg => UsesLocations(o)
    BY <1>2, <1>3 DEF UsesLocations, Living
  <2>4. QED
    BY <1>4, <2>1, <2>2, <2>3
<1>9. LevelIsTopLevel
  BY <1>8 DEF LevelIsTopLevel
<1>10. QED
  BY <1>7, <1>9

LEMMA Together == IInv => FamilyTogether
<1> SUFFICES ASSUME IInv PROVE FamilyTogether
  OBVIOUS
<1>1. PICK a : Fits(a)
  BY DEF IInv
<1>2. /\ a \in Censuses /\ Unique(a.ID) /\ Living(a) /\ Families(a) /\ world \in Worlds
      /\ Live = a.alive /\ world.ID = a.ID /\ world.ID_Parent = a.parent
      /\ world.children = a.children
      /\ \A k \in Objects : world.online[k] <=> k \in a.online
  BY <1>1, Fitting
<1>3. Live \subseteq Objects /\ \A k \in Objects : world.online[k] \in BOOLEAN
  BY <1>2 DEF Live, Worlds
<1>4. ASSUME NEW o \in Live
      PROVE  /\ IsInjective(world.children[o])
             /\ \A c \in Children(o) : \E k \in Live :
                    /\ world.ID[k] = c /\ world.ID_Parent[k] = world.ID[o]
                    /\ world.online[k] = world.online[o]
  <2>1. o \in Objects /\ o \in a.alive
    BY <1>2, <1>3, <1>4
  <2>2. IsInjective(world.children[o])
    BY <1>2, <2>1 DEF Families
  <2>3. ASSUME NEW c \in Children(o)
        PROVE  \E k \in Live : /\ world.ID[k] = c /\ world.ID_Parent[k] = world.ID[o]
                               /\ world.online[k] = world.online[o]
    <3>1. c \in ToSet(a.children[o])
      BY <1>2 DEF Children
    <3>2. PICK k \in Objects : /\ k \in a.alive /\ a.ID[k] = c /\ a.parent[k] = a.ID[o]
                               /\ (k \in a.online <=> o \in a.online)
      BY <1>2, <2>1, <3>1, Offspring
    <3>3. world.online[k] = world.online[o]
      BY <1>2, <1>3, <2>1, <3>2
    <3>4. QED
      BY <1>2, <3>2, <3>3
  <2>4. QED
    BY <2>2, <2>3
<1>5. ASSUME NEW k \in Live, world.ID_Parent[k] # NoId
      PROVE  \E o \in Live : world.ID[o] = world.ID_Parent[k] /\ world.ID[k] \in Children(o)
  <2>1. k \in Objects /\ k \in a.alive /\ a.parent[k] # NoId
    BY <1>2, <1>3, <1>5
  <2>2. PICK h \in Objects : /\ h \in a.alive /\ a.ID[h] = a.parent[k]
                             /\ a.ID[k] \in ToSet(a.children[h])
    BY <1>2, <2>1, Owners
  <2>3. QED
    BY <1>2, <2>2 DEF Children
<1>6. QED
  BY <1>4, <1>5 DEF FamilyTogether

-----------------------------------------------------------------------------
(* What the invariant says of a step. *)

\* Only the flush itself leaves the number of calls alone in that phase.
LEMMA EventCounts ==
    ASSUME Plenty, Ordinary, NEW a, Fits(a), Event, phase = "flush"
    PROVE  calls' # calls
<1>1. PICK w : Call(w)
  BY EventYields
<1>2. calls \in Nat
  BY Kinds DEF Ordinary
<1>3. calls' = calls + 1
  BY <1>1 DEF Call
<1>4. QED
  BY <1>2, <1>3

LEMMA FlushSpares ==
    ASSUME Ordinary, NEW a, Fits(a), FlushNext, NEW k \in Live, ~world'.alive[k]
    PROVE  k \in condemned \/ \E h \in condemned : world.ID[k] \in Children(h)
<1> DEFINE object == Registered(world, Head(m_da_pending_release))
<1>1. /\ Shows(world, a) /\ a \in Censuses /\ Unique(a.ID) /\ Orderly(a) /\ Grounded(a)
      /\ Live = a.alive /\ world.ID = a.ID /\ world.children = a.children
      /\ \A h \in Objects : world.alive[h] <=> h \in a.alive
  BY Fitting, OrderlyGrounded
<1>2. k \in Objects /\ k \in a.alive
  BY <1>1 DEF Live
<1>3. m_da_pending_release # <<>> /\ m_da_pending_release \in Seq(Ids)
  BY DEF FlushNext, Ordinary
<1>4. Head(m_da_pending_release) \in Ids \cup {NoId}
  BY <1>3, HeadOrTail
<1>5. object \in Objects \cup {None}
  BY <1>1, <1>4, RegisteredIs
<1>6. object # None
  <2>1. SUFFICES ASSUME object = None PROVE FALSE
    OBVIOUS
  <2>2. world' = world
    BY <2>1 DEF FlushNext, Become
  <2>3. QED
    BY <1>1, <1>2, <2>2
<1>7. PICK o \in Objects : object = o
  BY <1>5, <1>6
<1>8. o \in condemned /\ o \in a.alive /\ o \notin a.online
  BY <1>3, <1>7, FlushFinds
<1>9. PICK b : Shows(release(world, o, TRUE), b) /\ Purged(a, b, o)
  BY <1>1, <1>8, ReleaseShows
<1>10. world' = release(world, o, TRUE)
  BY <1>6, <1>7 DEF FlushNext, Become
<1>11. k \notin b.alive
  BY <1>2, <1>9, <1>10 DEF Shows
<1>12. k = o \/ k \in Family(a, o)
  BY <1>2, <1>9, <1>11 DEF Purged, Fewer
<1>13. QED
  BY <1>1, <1>8, <1>12 DEF Family, Children

\* What o owns in w that can be saved.
Belongs(w, o) ==
    Sift(w.children[o], {w.ID[k] : k \in {k \in {h \in Objects : w.alive[h]} : CanSave(k)}})

\* The ids of everybody who can be saved.
Saved(a) == {a.ID[k] : k \in a.alive \ Bolts}

LEMMA BelongsIs ==
    ASSUME NEW w, NEW a, Shows(w, a), NEW o
    PROVE  Belongs(w, o) = Sift(a.children[o], Saved(a))
<1>1. /\ a.alive \subseteq Objects /\ w.children = a.children /\ w.ID = a.ID
      /\ \A h \in Objects : w.alive[h] <=> h \in a.alive
  BY CensusFields DEF Shows
<1>2. {k \in {h \in Objects : w.alive[h]} : CanSave(k)} = a.alive \ Bolts
  BY <1>1 DEF CanSave
<1>3. QED
  BY <1>1, <1>2 DEF Belongs, Saved

LEMMA RisenKeeps ==
    ASSUME NEW w, NEW v, NEW a, NEW b, NEW o, Shows(w, a), Shows(v, b), RisenIs(a, b, o), NEW h
    PROVE  Belongs(v, h) = Belongs(w, h)
<1>1. b.alive = a.alive /\ b.ID = a.ID /\ b.children = a.children
  BY DEF RisenIs
<1>2. Saved(b) = Saved(a)
  BY <1>1 DEF Saved
<1>3. QED
  BY <1>1, <1>2, BelongsIs

LEMMA SunkKeeps ==
    ASSUME NEW w, NEW v, NEW a, NEW b, NEW o, Sinks(a, o), Shows(w, a), Shows(v, b),
           SunkIs(a, b, o)
    PROVE  Belongs(v, o) = Belongs(w, o)
<1> DEFINE seq == a.children[o]
           K == Savable(a, o)
<1>1. a \in Censuses /\ Unique(a.ID) /\ Orderly(a) /\ o \in Objects /\ o \in a.alive
  BY DEF Sinks
<1>2. seq \in Seq(Ids) /\ a.alive \subseteq Objects /\ ToSet(seq) \subseteq Ids
  BY <1>1, CensusFields, ToSetProperties
<1>3. /\ Family(a, o) \in SUBSET Goods
      /\ \A k \in Family(a, o) : k \in Objects /\ k \in a.alive
      /\ \A id \in ToSet(seq) : \E k \in Family(a, o) : a.ID[k] = id
  BY <1>1, FamilyIs
<1>4. b.children[o] = Sift(seq, K)
  BY DEF SunkIs, Savable
<1>5. Saved(b) = Saved(a)
  <2>1. b.alive \ Bolts = a.alive \ Bolts
    BY DEF SunkIs
  <2>2. \A k \in a.alive \ Bolts : b.ID[k] = a.ID[k]
    BY <1>2 DEF SunkIs
  <2>3. QED
    BY <2>1, <2>2 DEF Saved
<1>6. K \subseteq Saved(a)
  BY <1>3 DEF Savable, Saved
<1>7. \A id \in ToSet(seq) : id \in K <=> id \in Saved(a)
  <2>1. SUFFICES ASSUME NEW k \in a.alive \ Bolts, a.ID[k] \in ToSet(seq) PROVE a.ID[k] \in K
    BY <1>6 DEF Saved
  <2>2. PICK j \in Family(a, o) : a.ID[j] = a.ID[k]
    BY <1>3, <2>1
  <2>3. a.ID[k] # NoId /\ k \in Objects /\ j \in Objects
    BY <1>2, <1>3, <2>1, Kinds
  <2>4. j = k
    BY <1>1, <2>2, <2>3 DEF Unique
  <2>5. QED
    BY <2>1, <2>2, <2>4 DEF Savable
<1> HIDE DEF K
<1>8. Sift(seq, K) = Sift(seq, Saved(a))
  BY <1>2, <1>7, SiftAgree
<1>9. Sift(seq, K) \in Seq(Ids) /\ ToSet(Sift(seq, K)) = ToSet(seq) \cap K
  BY <1>2, SiftProperties
<1>10. ToSet(Sift(seq, K)) \subseteq Saved(a)
  BY <1>6, <1>9
<1>11. Sift(Sift(seq, K), Saved(a)) = Sift(seq, K)
  BY <1>9, <1>10, SiftAll
<1>12. QED
  BY <1>4, <1>5, <1>8, <1>11, BelongsIs

\* Holders who are alive in two worlds and change from online to offline or back.
Switches(w, v, h) ==
    h \in Holders /\ w.alive[h] /\ v.alive[h] /\ v.online[h] # w.online[h]

LEMMA SwitchesIs ==
    ASSUME NEW w, NEW v, NEW a, NEW b, Shows(w, a), Shows(v, b), NEW h, Switches(w, v, h)
    PROVE  h \in Objects /\ h \in a.alive /\ h \in b.alive /\ ~(h \in b.online <=> h \in a.online)
<1>1. h \in Objects
  BY Kinds DEF Switches
<1>2. w.online[h] \in BOOLEAN /\ v.online[h] \in BOOLEAN
  BY <1>1 DEF Shows, Worlds
<1>3. QED
  BY <1>1, <1>2 DEF Shows, Switches

LEMMA SwitchKeeps ==
    ASSUME Plenty, IInv, Next, NEW h, Switches(world, world', h)
    PROVE  Belongs(world', h) = Belongs(world, h)
<1>1. PICK a : Fits(a)
  BY DEF IInv
<1>2. Ordinary /\ Shows(world, a) /\ a \in Censuses /\ Orderly(a)
  BY <1>1, Fitting DEF IInv
<1>3. world' # world
  BY DEF Switches
<1>4. h \in Holders
  BY DEF Switches
<1>5. CASE Event
  <2>1. PICK w : Call(w) /\ Yields(w, a)
    BY <1>1, <1>5, EventYields
  <2>2. world' = w
    BY <2>1 DEF Call, Become
  <2>3. PICK b : Shows(w, b) /\ Steady(a, b)
    BY <2>1 DEF Yields
  <2>4. QED
    BY <1>2, <1>4, <2>2, <2>3, SwitchesIs DEF Steady
<1>6. ASSUME NEW o \in Objects, VisitOffline(o)
      PROVE  Belongs(world', h) = Belongs(world, h)
  <2>1. Visit(o) /\ ~world.online[o] /\ world' = GoOnline(world, o)
    BY <1>6 DEF VisitOffline, Become
  <2>2. o \in a.alive /\ a.parent[o] = NoId /\ o \notin a.online
    BY <1>1, <2>1, VisitFinds
  <2>3. Shows(world', Risen(a, o)) /\ RisenIs(a, Risen(a, o), o)
    BY <1>2, <2>1, <2>2, GoOnlineShows
  <2>4. QED
    BY <1>2, <2>3, RisenKeeps
<1>7. ASSUME NEW o \in Objects, VisitOnline(o)
      PROVE  Belongs(world', h) = Belongs(world, h)
  <2>1. Visit(o) /\ world.online[o] /\ world' = GoOffline(world, o)
    BY <1>7 DEF VisitOnline, Become, Put
  <2>2. /\ Unique(a.ID) /\ o \in a.alive /\ a.parent[o] = NoId /\ o \in a.control
        /\ o \in a.online
    BY <1>1, <2>1, VisitFinds
  <2>3. Sinks(a, o)
    BY <1>2, <2>2 DEF Sinks
  <2>4. PICK b : Shows(GoOffline(world, o), b) /\ SunkIs(a, b, o)
    BY <1>2, <2>3, GoOfflineShows
  <2>5. Shows(world', b)
    BY <2>1, <2>4
  <2>6. h = o
    <3>1. h \notin Family(a, o)
      BY <1>4, Kinds DEF Family
    <3>2. b.online = a.online \ ({o} \cup Family(a, o))
      BY <2>4 DEF SunkIs
    <3>3. ~(h \in b.online <=> h \in a.online)
      BY <1>2, <2>5, SwitchesIs
    <3>4. QED
      BY <3>1, <3>2, <3>3
  <2>7. QED
    BY <1>2, <2>3, <2>4, <2>5, <2>6, SunkKeeps
<1>8. CASE FlushNext
  <2>1. PICK object : object = Registered(world, Head(m_da_pending_release))
    OBVIOUS
  <2>2. object # None /\ world' = release(world, object, TRUE)
    BY <1>3, <1>8, <2>1 DEF FlushNext, Become
  <2>3. m_da_pending_release # <<>> /\ m_da_pending_release \in Seq(Ids)
    BY <1>2, <1>8 DEF FlushNext, Ordinary
  <2>4. Head(m_da_pending_release) \in Ids \cup {NoId}
    BY <2>3, HeadOrTail
  <2>5. object \in Objects
    BY <1>2, <2>1, <2>2, <2>4, RegisteredIs, OrderlyGrounded
  <2>6. object \in a.alive /\ object \notin a.online
    BY <1>1, <1>2, <2>1, <2>3, <2>5, FlushFinds
  <2>7. PICK b : Shows(release(world, object, TRUE), b) /\ Purged(a, b, object)
    BY <1>2, <2>5, <2>6, ReleaseShows
  <2>8. Steady(a, b)
    BY <1>2, <2>7, PurgedMoves
  <2>9. QED
    BY <1>2, <1>4, <2>2, <2>7, <2>8, SwitchesIs DEF Steady
<1>9. world' = world \/ FlushNext \/ Event \/ \E o \in Objects : VisitOffline(o) \/ VisitOnline(o)
  <2>1. \A o \in Objects : VisitRedundant(o) => world' = world
    BY DEF VisitRedundant, Put
  <2>2. BeginWalk \/ EndWalk \/ EndFlush => world' = world
    BY DEF BeginWalk, EndWalk, EndFlush
  <2>3. QED
    BY <2>1, <2>2 DEF Next, Event
<1>10. QED
  BY <1>3, <1>5, <1>6, <1>7, <1>8, <1>9

-----------------------------------------------------------------------------
(* The theorems. *)

\* Every variable keeps its type, the condemned exist, exactly those who exist have
\* an id, and the generator's pool is never larger than the set of ids, whatever the
\* handlers of xrServer, the simulator and the switch manager have done.
THEOREM TypeCorrect ==
    ASSUME Plenty
    PROVE  Spec => []TypeOK
<1>1. Spec => []IInv
  BY Invariance
<1>2. IInv => TypeOK
  BY Typed
<1>3. QED
  BY <1>1, <1>2, PTL

\* No id is in two places and none is lost: after every handler each id is in the
\* pool of CID_Generator once or belongs to exactly one object, although each switch
\* gives ids back and claims them again.
THEOREM IdsExact ==
    ASSUME Plenty
    PROVE  Spec => []PoolExact
<1>1. Spec => []IInv
  BY Invariance
<1>2. IInv => PoolExact
  BY PoolFitsExactly
<1>3. QED
  BY <1>1, <1>2, PTL

\* The entities of xrServer, the registry of ALife, the level registry and the graph
\* points agree on who exists, who is online and who belongs to whom.
THEOREM Agreement ==
    ASSUME Plenty
    PROVE  Spec => []TablesAgree
<1>1. Spec => []IInv
  BY Invariance
<1>2. IInv => TablesAgree
  BY EntitiesFit, RegistryFits DEF TablesAgree
<1>3. QED
  BY <1>1, <1>2, PTL

\* What an object owns exists, names its owner and is online exactly if its owner is,
\* whichever ownership events, spawns, releases and switches came before.
THEOREM FamiliesStay ==
    ASSUME Plenty
    PROVE  Spec => []FamilyTogether
<1>1. Spec => []IInv
  BY Invariance
<1>2. IInv => FamilyTogether
  BY Together
<1>3. QED
  BY <1>1, <1>2, PTL

\* No R_ASSERT or THROW2 of these handlers fails: an id that an object claims back is in
\* the pool, nobody is attached twice or detached where he is not, who is destroyed has
\* lost his owner and his children, and the loops over children come to an end.
THEOREM AssertionsHold ==
    ASSUME Plenty
    PROVE  Spec => []NoAssert
<1>1. Spec => []IInv
  BY Invariance
<1>2. IInv => NoAssert
  BY Fitting DEF IInv, NoAssert
<1>3. QED
  BY <1>1, <1>2, PTL

\* When the walk switches a holder, what it owns and can be saved is the same before
\* and after, under the same ids and in the same order.
THEOREM InventoryKept ==
    ASSUME Plenty
    PROVE  Spec => KeepsInventory
<1> DEFINE Keeps == \A o \in Holders :
        o \in Live /\ world.alive'[o] /\ world.online'[o] # world.online[o]
        => Belongings(o)' = Belongings(o)
<1>1. ASSUME IInv, [Next]_vars PROVE [Keeps]_vars
  <2>1. SUFFICES ASSUME Next, NEW o \in Holders,
                        o \in Live, world.alive'[o], world.online'[o] # world.online[o]
                 PROVE  Belongings(o)' = Belongings(o)
    BY <1>1
  <2>2. Switches(world, world', o)
    BY <2>1 DEF Switches, Live
  <2>3. Belongs(world', o) = Belongs(world, o)
    BY <1>1, <2>1, <2>2, SwitchKeeps
  <2>4. Belongings(o) = Belongs(world, o) /\ Belongings(o)' = Belongs(world', o)
    BY DEF Belongings, Belongs, Live
  <2>5. QED
    BY <2>3, <2>4
<1>2. Spec => []IInv
  BY Invariance
<1>3. IInv /\ [Next]_vars => [Keeps]_vars
  BY <1>1
<1>4. QED
  BY <1>2, <1>3, PTL DEF Spec, KeepsInventory

\* A put-off release takes the corpse for which it was put off and what that owns, and
\* nobody else: no id in the queue has been given to another object in the meantime.
THEOREM OnlyTheCondemned ==
    ASSUME Plenty
    PROVE  Spec => PendingSpares
<1> DEFINE Spares == phase = "flush" /\ calls' = calls =>
        \A o \in Live : ~world.alive'[o] =>
            \/ o \in condemned
            \/ \E h \in condemned : world.ID[o] \in Children(h)
<1>1. ASSUME IInv, [Next]_vars PROVE [Spares]_vars
  <2>1. SUFFICES ASSUME Next, phase = "flush", calls' = calls, NEW o \in Live, ~world'.alive[o]
                 PROVE  o \in condemned \/ \E h \in condemned : world.ID[o] \in Children(h)
    BY <1>1
  <2>2. PICK a : Fits(a)
    BY <1>1 DEF IInv
  <2>3. Ordinary
    BY <1>1 DEF IInv
  <2>4. world' # world
    BY <2>1 DEF Live
  <2>5. ~Event
    BY <2>1, <2>2, <2>3, EventCounts
  <2>6. \A h \in Objects : ~VisitRedundant(h) /\ ~VisitOffline(h) /\ ~VisitOnline(h)
    BY <2>1 DEF VisitRedundant, VisitOffline, VisitOnline, Visit
  <2>7. ~BeginWalk /\ ~EndWalk /\ ~EndFlush
    BY <2>4 DEF BeginWalk, EndWalk, EndFlush
  <2>8. FlushNext
    BY <2>1, <2>5, <2>6, <2>7 DEF Next, Event
  <2>9. QED
    BY <2>1, <2>2, <2>3, <2>8, FlushSpares
<1>2. Spec => []IInv
  BY Invariance
<1>3. IInv /\ [Next]_vars => [Spares]_vars
  BY <1>1
<1>4. QED
  BY <1>2, <1>3, PTL DEF Spec, PendingSpares
=============================================================================
