---------------------------- MODULE ServerEntities ----------------------------
(***************************************************************************)
(* The objects of a single-player game as the server and ALife see them    *)
(* (src/src/xrGame): the id generator, the entities of xrServer, the       *)
(* registry of ALife objects, the level registry and the graph points,     *)
(* ownership events, the switching of objects between online and offline   *)
(* and the release that the walk over the level registry puts off.         *)
(*                                                                         *)
(* Everything runs on one thread: an event of the client is handled where  *)
(* it is sent, and scripts call in between two visits of the walk.  A      *)
(* handler is a chain of functions from world to world, so that a step has *)
(* everything the handler's callees do; fatal is a failed R_ASSERT or      *)
(* THROW2, or a loop that cannot end.                                      *)
(*                                                                         *)
(* All objects are on the current level, and only holders own anything.    *)
(***************************************************************************)
EXTENDS Naturals, Sequences, SequencesExt, FiniteSets

CONSTANTS
    Traders,        \* CSE_ALifeTraderAbstract: stalkers, the actor
    Boxes,          \* CSE_ALifeInventoryBox
    Monsters,       \* CSE_ALifeMonsterBase: own things, are no traders
    Items,          \* inventory items
    Bolts,          \* inventory items that cannot be saved
    Supplies,       \* the items that spawn_item creates offline
    Ids,            \* ids of the generator
    NoId,           \* 0xffff
    None,           \* nullptr
    CallsPerWalk    \* bound: events and script calls during one walk

Holders == Traders \cup Boxes \cup Monsters
Goods == Items \cup Bolts
Objects == Holders \cup Goods

ASSUME EntitiesAssumption ==
    /\ NoId \notin Ids /\ None \notin Objects
    /\ Holders \cap Goods = {} /\ Items \cap Bolts = {}
    /\ Traders \cap Boxes = {} /\ Monsters \cap (Traders \cup Boxes) = {}
    /\ Supplies \subseteq Goods
    /\ IsFiniteSet(Ids) /\ IsFiniteSet(Objects)
    /\ CallsPerWalk \in Nat

VARIABLES
    world,                  \* the objects and the tables below
    phase,                  \* idle, walk (over the level registry), flush
    visited,                \* whose m_switch_counter is that of this walk
    m_da_pending_release,   \* ids whose release is put off, or being released
    condemned,              \* objects put there that still exist
    calls                   \* calls made since the walk began

vars == <<world, phase, visited, m_da_pending_release, condemned, calls>>

\* can_save
CanSave(o) == o \notin Bolts
\* used_ai_locations: a bolt has no graph point
UsesLocations(o) == o \notin Bolts

\* A world without objects: every field of an object not yet created is that of
\* its constructor, the tables are empty and the generator has all the ids.
World(pool) ==
    [alive |-> [o \in Objects |-> FALSE],
     ID |-> [o \in Objects |-> NoId],
     ID_Parent |-> [o \in Objects |-> NoId],
     children |-> [o \in Objects |-> <<>>],
     online |-> [o \in Objects |-> FALSE],
     control |-> [o \in Objects |-> TRUE],
     entities |-> [id \in Ids |-> None],
     registry |-> [id \in Ids |-> None],
     level |-> [id \in Ids |-> None],
     points |-> [id \in Ids |-> None],
     pool |-> pool,
     fatal |-> FALSE]

\* R_ASSERT, THROW2: the world goes on only if the condition holds
Require(condition, w) == IF condition THEN w ELSE [w EXCEPT !.fatal = TRUE]

(***************************************************************************)
(* CID_Generator with one id in a block and a clock that tells any two     *)
(* calls apart: the id that was freed first is given out first.            *)
(***************************************************************************)
\* mutant: the id freed last comes first
vfFreeIDFirst(w, id) == [w EXCEPT !.pool = <<id>> \o @]

vfFreeID(w, id) == [w EXCEPT !.pool = Append(@, id)]
\* FreeID(id, 0): a block with the oldest stamp of all
FreeIDAtStart(w, id) == [w EXCEPT !.pool = <<id>> \o @]

\* PerformIDgen(o's ID): any id for 0xffff, otherwise that very id
PerformIDgen(w, o) ==
    IF w.ID[o] = NoId
    THEN Require(w.pool # <<>>,
            [w EXCEPT !.ID[o] = Head(w.pool), !.pool = Tail(w.pool)])
    ELSE Require(Contains(w.pool, w.ID[o]),
            [w EXCEPT !.pool = RemoveFirst(@, w.ID[o])])

(***************************************************************************)
(* Destruction of an entity: the id goes back to the generator always, the *)
(* object dies only if ALife does not control it.                          *)
(***************************************************************************)
Die(w, o) ==
    [w EXCEPT !.alive[o] = FALSE, !.ID[o] = NoId, !.ID_Parent[o] = NoId,
              !.children[o] = <<>>, !.online[o] = FALSE, !.control[o] = TRUE]

entity_Destroy(w, o) ==
    LET id == w.ID[o]
        erased == vfFreeID([w EXCEPT !.entities[id] = None], id)
    IN  IF w.control[o] THEN erased
        ELSE Die([erased EXCEPT !.registry[id] = IF @ = o THEN None ELSE @], o)

(***************************************************************************)
(* The level registry and the graph points                                 *)
(***************************************************************************)
LevelAdd(w, o) == [w EXCEPT !.level[w.ID[o]] = IF @ = None THEN o ELSE @]
LevelRemove(w, o) == [w EXCEPT !.level[w.ID[o]] = None]

\* CALifeGraphRegistry::add
GraphAdd(w, o, update) ==
    LET id == w.ID[o]
        placed == IF w.online[o] \/ ~UsesLocations(o) THEN w
                  ELSE [w EXCEPT !.points[id] = IF @ = None THEN o ELSE @]
    IN  IF update THEN LevelAdd(placed, o) ELSE placed

\* CALifeGraphRegistry::remove
GraphRemove(w, o, update) ==
    LET taken == IF ~UsesLocations(o) THEN w
                 ELSE [w EXCEPT !.points[w.ID[o]] = None]
    IN  IF update THEN LevelRemove(taken, o) ELSE taken

\* CALifeGraphRegistry::attach, with CSE_ALifeDynamicObject::attach
Attach(w, parent, item, alife_query) ==
    IF ~alife_query THEN LevelRemove(w, item)
    ELSE LET id == w.ID[item]
         IN  Require(~Contains(w.children[parent], id),
               [GraphRemove(w, item, TRUE) EXCEPT
                    !.ID_Parent[item] = w.ID[parent],
                    !.children[parent] = Append(@, id)])

\* CALifeGraphRegistry::detach, with CSE_ALifeDynamicObject::detach
Detach(w, parent, item, alife_query) ==
    IF ~alife_query THEN LevelAdd(w, item)
    ELSE LET id == w.ID[item]
         IN  Require(Contains(w.children[parent], id),
               [GraphAdd(w, item, TRUE) EXCEPT
                    !.ID_Parent[item] = NoId,
                    !.children[parent] = RemoveFirst(@, id)])

(***************************************************************************)
(* Registration and release of ALife objects                               *)
(***************************************************************************)
\* objects().object(id, true): no entry, or an entry of a dead object, is null
Registered(w, id) ==
    IF id = NoId \/ w.registry[id] = None THEN None
    ELSE IF w.alive[w.registry[id]] THEN w.registry[id] ELSE None

Attached(w, o) == o \in Goods /\ w.ID_Parent[o] # NoId

register_object(w, o) ==
    LET id == w.ID[o]
        added == [w EXCEPT !.registry[id] = o]
        owner == Registered(added, w.ID_Parent[o])
    IN  IF ~Attached(w, o) THEN GraphAdd(added, o, TRUE)
        ELSE IF owner = None THEN added
        ELSE [added EXCEPT !.children[owner] = Append(@, id)]

unregister_object(w, o, alife_query) ==
    LET owner == IF Attached(w, o) THEN Registered(w, w.ID_Parent[o]) ELSE None
        loose == IF owner = None THEN w ELSE Detach(w, owner, o, alife_query)
        gone == [loose EXCEPT !.registry[w.ID[o]] = None]
    IN  IF ~gone.online[o] THEN GraphRemove(gone, o, TRUE)
        ELSE IF gone.ID_Parent[o] # NoId THEN gone
        ELSE Require(UsesLocations(o) => gone.level[w.ID[o]] # None, LevelRemove(gone, o))

\* mutant: the object stays under ALife's control
ReleaseKeepingControl(w, o, alife_query) ==
    LET object == Registered(w, w.ID[o])
    IN  IF object = None THEN w
        ELSE LET out == unregister_object(w, object, alife_query)
             IN  IF alife_query THEN entity_Destroy(out, o) ELSE out

\* CALifeSimulatorBase::release of an object without children
ReleaseAlone(w, o, alife_query) ==
    LET object == Registered(w, w.ID[o])
    IN  IF object = None THEN w
        ELSE LET out == [unregister_object(w, object, alife_query)
                            EXCEPT !.control[object] = FALSE]
             IN  IF alife_query THEN entity_Destroy(out, o) ELSE out

\* CALifeSimulatorBase::release: first the children that are registered
release(w, o, alife_query) ==
    LET object == Registered(w, w.ID[o])
        ReleaseChild(v, id) ==
            IF Registered(v, id) = None THEN v
            ELSE ReleaseAlone(v, Registered(v, id), alife_query)
    IN  IF object = None THEN w
        ELSE ReleaseAlone(FoldLeft(ReleaseChild, w, w.children[object]),
                          o, alife_query)

\* CALifeSimulatorBase::create of an object that a client has spawned
create(w, o) ==
    IF ~CanSave(o) THEN [w EXCEPT !.control[o] = FALSE]
    ELSE IF Registered(w, w.ID_Parent[o]) = None THEN register_object(w, o)
    ELSE [register_object([w EXCEPT !.ID_Parent[o] = NoId], o)
            EXCEPT !.ID_Parent[o] = w.ID_Parent[o]]

\* spawn_item: the object exists offline, with its owner
spawn_item(w, o, parent_id) ==
    register_object(
        [PerformIDgen(w, o) EXCEPT !.alive[o] = TRUE, !.ID_Parent[o] = parent_id], o)

(***************************************************************************)
(* game_sv_Single: what an event means to ALife                            *)
(***************************************************************************)
OnCreate(w, o) ==
    LET here == [w EXCEPT !.online[o] = TRUE]
        parent == Registered(w, w.ID_Parent[o])
    IN  IF ~w.control[o] THEN w
        ELSE IF w.ID_Parent[o] = NoId \/ parent \in Traders \cup Boxes
        THEN create(here, o)
        ELSE [here EXCEPT !.control[o] = FALSE]

\* mutant: the item stays in the level registry
OnTouchNothing(w, parent, o) == w

OnTouch(w, parent, o) ==
    IF /\ o \in Goods
       /\ w.level[w.ID[o]] # None
       /\ Registered(w, w.ID[parent]) # None
       /\ Registered(w, w.ID[o]) # None
    THEN Attach(w, parent, o, FALSE) ELSE w

\* mutant: an item that ALife did not know stays unknown
OnDetachKnown(w, parent, o) ==
    IF /\ o \in Goods
       /\ Registered(w, w.ID[parent]) # None /\ w.level[w.ID[o]] = None
       /\ Registered(w, w.ID[o]) # None
    THEN Detach(w, parent, o, FALSE) ELSE w

OnDetach(w, parent, o) ==
    LET known == Registered(w, w.ID[o]) # None
        mine == [w EXCEPT !.ID_Parent[o] = NoId, !.control[o] = TRUE,
                          !.online[o] = TRUE]
    IN  IF o \notin Goods THEN w
        ELSE IF Registered(w, w.ID[parent]) # None /\ w.level[w.ID[o]] = None /\ known
        THEN Detach(w, parent, o, FALSE)
        ELSE IF known THEN w
        ELSE [create(mine, o) EXCEPT !.ID_Parent[o] = w.ID_Parent[o]]

(***************************************************************************)
(* xrServer: ownership, spawn and destroy events.  They look entities up   *)
(* by the ids of the message and ignore what does not fit.                 *)
(***************************************************************************)
\* mutant: an entity that somebody owns already is taken
Process_event_ownershipOfAny(w, id_parent, id_entity) ==
    LET p == w.entities[id_parent]
        e == w.entities[id_entity]
    IN  IF p = None \/ e = None THEN w
        ELSE [OnTouch(w, p, e) EXCEPT !.ID_Parent[e] = id_parent,
                                      !.children[p] = Append(@, id_entity)]

Process_event_ownership(w, id_parent, id_entity) ==
    LET p == w.entities[id_parent]
        e == w.entities[id_entity]
    IN  IF p = None \/ e = None THEN w
        ELSE IF w.ID_Parent[e] # NoId THEN w
        ELSE [OnTouch(w, p, e) EXCEPT !.ID_Parent[e] = id_parent,
                                      !.children[p] = Append(@, id_entity)]

Process_event_reject(w, id_parent, id_entity) ==
    LET p == w.entities[id_parent]
        e == w.entities[id_entity]
    IN  IF p = None \/ e = None THEN w
        ELSE IF ~Contains(w.children[p], id_entity) \/ w.ID_Parent[e] = NoId THEN w
        ELSE [OnDetach(w, p, e) EXCEPT !.ID_Parent[e] = NoId,
                                       !.children[p] = RemoveFirst(@, id_entity)]

\* Process_event_destroy once the children are gone
DestroyAlone(w, id) ==
    LET e == w.entities[id]
        loose == IF w.ID_Parent[e] = NoId THEN w
                 ELSE Process_event_reject(w, w.ID_Parent[e], id)
        out == IF loose.control[e] /\ Registered(loose, id) # None
               THEN release(loose, e, FALSE) ELSE loose
    IN  IF e = None THEN w ELSE entity_Destroy(out, e)

\* The first child is destroyed until there is none left
Process_event_destroy(w, id) ==
    LET e == w.entities[id]
        orphan == FoldLeft(DestroyAlone, w, w.children[e])
    IN  IF e = None THEN w
        ELSE Require(orphan.children[e] = <<>>, DestroyAlone(orphan, id))

\* Perform_destroy: the last child is rejected and destroyed until there is none
Perform_destroy(w, o) ==
    LET Drop(v, id) ==
            LET child == v.entities[id]
                rejected == Process_event_reject(v, v.ID[o], id)
            IN  IF child = None
                THEN [v EXCEPT !.children[o] = RemoveFirst(@, id)]
                ELSE Require(v.ID_Parent[child] = v.ID[o],
                        Require(rejected.ID_Parent[child] = NoId,
                                entity_Destroy(rejected, child)))
        orphan == FoldLeft(Drop, w, Reverse(w.children[o]))
    IN  Require(w.ID_Parent[o] = NoId /\ orphan.children[o] = <<>>,
                entity_Destroy(orphan, o))

\* Process_spawn of a message: nothing if the parent is not there
SpawnFromMessage(w, o, parent_id) ==
    LET born == PerformIDgen([w EXCEPT !.alive[o] = TRUE,
                                       !.ID_Parent[o] = parent_id], o)
        created == OnCreate([born EXCEPT !.entities[born.ID[o]] = o], o)
        p == w.entities[parent_id]
    IN  IF parent_id = NoId THEN created
        ELSE IF p = None THEN w
        ELSE [OnTouch(created, p, o)
                EXCEPT !.children[p] = Append(@, created.ID[o])]

\* Process_spawn of an object that ALife has
SpawnExisting(w, o) ==
    LET born == PerformIDgen(w, o)
    IN  Require(w.ID_Parent[o] = NoId \/ w.entities[w.ID_Parent[o]] # None,
                [born EXCEPT !.entities[born.ID[o]] = o])

\* spawn_item2 with an online parent: an object is made offline and written into
\* a message, its id is given back, and the message spawns the object anew
spawn_item2(w, o, parent_id) ==
    LET draft == PerformIDgen(w, o)
    IN  SpawnFromMessage([FreeIDAtStart(draft, draft.ID[o]) EXCEPT !.ID[o] = NoId],
                         o, parent_id)

(***************************************************************************)
(* The switch manager                                                      *)
(***************************************************************************)
\* add_online of a child: it enters the server with its owner
Enter(w, id) ==
    LET child == Registered(w, id)
    IN  IF child = None THEN Require(w.registry[id] # None, w)
        ELSE [SpawnExisting(entity_Destroy(w, child), child)
                EXCEPT !.online[child] = TRUE]

\* mutant: the children stay offline
GoOnlineAlone(w, o) ==
    LET here == SpawnExisting(entity_Destroy([w EXCEPT !.online[o] = TRUE], o), o)
    IN  GraphRemove(here, o, FALSE)

\* switch_online and add_online: the holder enters the server, then what it owns
GoOnline(w, o) ==
    LET here == SpawnExisting(entity_Destroy([w EXCEPT !.online[o] = TRUE], o), o)
    IN  Require(~w.online[o], GraphRemove(FoldLeft(Enter, here, here.children[o]),
                                          o, FALSE))

\* The elements of s that are kept, in order
Sift(s, kept) ==
    FoldLeft(LAMBDA t, id : IF id \in kept THEN Append(t, id) ELSE t, <<>>, s)

\* The children that an object which goes offline keeps: a trader keeps only
\* those that can be saved
SavedChildren(w, o) ==
    IF o \in Traders
    THEN Sift(w.children[o], {id \in Ids : w.entities[id] # None /\ CanSave(w.entities[id])})
    ELSE w.children[o]

\* add_offline of a child: it gets its id back and is attached once more
Restore(w, o, id) ==
    LET child == Registered(w, id)
        mine == PerformIDgen([w EXCEPT !.online[child] = FALSE], child)
        placed == GraphAdd(mine, child, FALSE)
    IN  IF child = None THEN w
        ELSE IF ~CanSave(child) THEN release(mine, child, TRUE)
        ELSE IF o \notin Boxes THEN Attach(placed, o, child, TRUE)
        ELSE [GraphRemove(placed, child, TRUE) EXCEPT
                !.children[o] = Append(@, id), !.ID_Parent[child] = w.ID[o]]

\* mutant: the object does not take its id out of the generator again
GoOfflineWithoutId(w, o) ==
    LET saved == SavedChildren(w, o)
        left == Perform_destroy([w EXCEPT !.online[o] = FALSE], o)
        RestoreChild(v, id) == Restore(v, o, id)
    IN  GraphAdd(FoldLeft(RestoreChild, left, saved), o, FALSE)

\* switch_offline, remove_online and add_offline
GoOffline(w, o) ==
    LET saved == SavedChildren(w, o)
        left == PerformIDgen(Perform_destroy([w EXCEPT !.online[o] = FALSE], o), o)
        RestoreChild(v, id) == Restore(v, o, id)
    IN  Require(w.online[o], GraphAdd(FoldLeft(RestoreChild, left, saved), o, FALSE))

(***************************************************************************)
(* The actions                                                             *)
(***************************************************************************)
Init ==
    /\ \E pool \in SetToSeqs(Ids) : world = World(pool)
    /\ phase = "idle" /\ visited = {}
    /\ m_da_pending_release = <<>> /\ condemned = {}
    /\ calls = 0

\* The world becomes w; who dies is no longer condemned
Become(w) ==
    /\ world' = w
    /\ condemned' = {o \in condemned : w.alive[o]}

\* A call of the client or of a script, also in the middle of a walk
Call(w) ==
    /\ phase # "idle" => calls < CallsPerWalk
    /\ calls' = IF phase = "idle" THEN 0 ELSE calls + 1
    /\ Become(w)
    /\ UNCHANGED <<phase, visited, m_da_pending_release>>

\* GE_OWNERSHIP_TAKE, GE_OWNERSHIP_REJECT and GE_DESTROY name ids that the client
\* has seen; ids that are no entity change nothing
Take(p, e) ==
    /\ world.entities[p] \in Holders /\ world.entities[e] \in Goods
    /\ Call(Process_event_ownership(world, p, e))

Reject(p, e) ==
    /\ world.entities[p] \in Holders /\ world.entities[e] \in Goods
    /\ Call(Process_event_reject(world, p, e))

Destroy(id) ==
    /\ world.entities[id] # None
    /\ Call(Process_event_destroy(world, id))

\* A client spawns an object, by itself or inside an entity
ClientSpawn(o, p) ==
    /\ ~world.alive[o] /\ world.pool # <<>>
    /\ p # NoId => o \in Goods /\ world.entities[p] \in Holders
    /\ Call(SpawnFromMessage(world, o, p))

\* alife():create: offline, by itself or inside a holder that is offline
CreateOffline(o, p) ==
    /\ ~world.alive[o] /\ world.pool # <<>>
    /\ o \in Holders \cup Supplies
    /\ p # NoId => /\ o \in Goods /\ Registered(world, p) \in Holders
                   /\ ~world.online[Registered(world, p)]
    /\ Call(spawn_item(world, o, p))

\* alife():create inside a holder that is online
CreateOnline(o, p) ==
    /\ ~world.alive[o] /\ world.pool # <<>>
    /\ o \in Goods /\ Registered(world, p) \in Holders
    /\ world.online[Registered(world, p)]
    /\ Call(spawn_item2(world, o, p))

\* alife():release of an object that is offline; of one that is online it sends
\* GE_DESTROY, as Destroy
ScriptRelease(o) ==
    /\ world.alive[o] /\ ~world.online[o]
    /\ Call(release(world, o, TRUE))

\* update_switch visits an object of the level registry once in a walk
BeginWalk ==
    /\ phase = "idle"
    /\ phase' = "walk" /\ visited' = {}
    /\ UNCHANGED <<world, m_da_pending_release, condemned, calls>>

Visit(o) ==
    /\ phase = "walk" /\ o \notin visited
    /\ \E id \in Ids : world.level[id] = o
    /\ world.alive[o]
    /\ visited' = visited \cup {o}
    /\ UNCHANGED <<phase, calls>>

\* A corpse that has lain offline long enough is released later
Put(o, w) ==
    /\ m_da_pending_release' = Append(m_da_pending_release, w.ID[o])
    /\ condemned' = condemned \cup {o}
    /\ world' = w

VisitRedundant(o) ==
    /\ Visit(o)
    /\ o \in Holders \ Boxes /\ ~world.online[o]
    /\ Put(o, world)

VisitOffline(o) ==
    /\ Visit(o)
    /\ ~world.online[o] /\ world.ID_Parent[o] = NoId
    /\ Become(GoOnline(world, o))
    /\ UNCHANGED m_da_pending_release

VisitOnline(o) ==
    /\ Visit(o)
    /\ world.online[o] /\ world.ID_Parent[o] = NoId
    /\ LET w == GoOffline(world, o)
       IN  \/ Become(w) /\ UNCHANGED m_da_pending_release
           \/ o \in Holders \ Boxes /\ Put(o, w)

EndWalk ==
    /\ phase = "walk"
    /\ phase' = "flush"
    /\ UNCHANGED <<world, visited, m_da_pending_release, condemned, calls>>

\* da_flush_pending_release: an id without an object is passed over
FlushNext ==
    /\ phase = "flush" /\ m_da_pending_release # <<>>
    /\ m_da_pending_release' = Tail(m_da_pending_release)
    /\ LET object == Registered(world, Head(m_da_pending_release))
       IN  Become(IF object = None THEN world ELSE release(world, object, TRUE))
    /\ UNCHANGED <<phase, visited, calls>>

EndFlush ==
    /\ phase = "flush" /\ m_da_pending_release = <<>>
    /\ phase' = "idle" /\ visited' = {} /\ calls' = 0
    /\ UNCHANGED <<world, m_da_pending_release, condemned>>

Next ==
    /\ ~world.fatal
    /\ \/ \E p \in Ids, e \in Ids : Take(p, e) \/ Reject(p, e)
       \/ \E id \in Ids : Destroy(id)
       \/ \E o \in Objects, p \in Ids \cup {NoId} : ClientSpawn(o, p) \/ CreateOffline(o, p)
       \/ \E o \in Goods, p \in Ids : CreateOnline(o, p)
       \/ \E o \in Objects :
            ScriptRelease(o) \/ VisitRedundant(o) \/ VisitOffline(o) \/ VisitOnline(o)
       \/ BeginWalk \/ EndWalk \/ FlushNext \/ EndFlush

Spec == Init /\ [][Next]_vars

(***************************************************************************)
(* Properties                                                              *)
(***************************************************************************)
Live == {o \in Objects : world.alive[o]}
Children(o) == ToSet(world.children[o])

\* What an object owns that can be saved, in order
Belongings(o) == Sift(world.children[o], {world.ID[k] : k \in {k \in Live : CanSave(k)}})

\* The variables have their types, only the living have ids, and the generator
\* never holds more ids than there are.
TypeOK ==
    /\ world.alive \in [Objects -> BOOLEAN]
    /\ world.ID \in [Objects -> Ids \cup {NoId}]
    /\ world.ID_Parent \in [Objects -> Ids \cup {NoId}]
    /\ \A o \in Objects : /\ world.children[o] \in Seq(Ids)
                          /\ world.alive[o] <=> world.ID[o] # NoId
    /\ world.online \in [Objects -> BOOLEAN] /\ world.control \in [Objects -> BOOLEAN]
    /\ \A table \in {world.entities, world.registry, world.level, world.points} :
            table \in [Ids -> Objects \cup {None}]
    /\ world.pool \in Seq(Ids) /\ Len(world.pool) <= Cardinality(Ids)
    /\ phase \in {"idle", "walk", "flush"} /\ visited \subseteq Objects
    /\ m_da_pending_release \in Seq(Ids) /\ condemned \subseteq Live
    /\ calls \in 0 .. CallsPerWalk

\* Every id is either in the pool, once, or the id of exactly one object, online
\* or offline, although each switch gives the id back and takes it again.
PoolExact ==
    \A id \in Ids :
        Cardinality({i \in DOMAIN world.pool : world.pool[i] = id})
            + Cardinality({o \in Live : world.ID[o] = id}) = 1

\* verify_entities: the entities are the online objects under their own ids, and
\* parents and children name each other, no child twice.
EntitiesAgree ==
    \A id \in Ids, o \in Objects :
        /\ world.entities[id] = o <=> o \in Live /\ world.online[o] /\ world.ID[o] = id
        /\ world.entities[id] = o =>
            /\ IsInjective(world.children[o])
            /\ \A c \in Children(o) : /\ world.entities[c] # None
                                      /\ world.ID_Parent[world.entities[c]] = id
            /\ world.ID_Parent[o] # NoId =>
                /\ world.entities[world.ID_Parent[o]] # None
                /\ id \in Children(world.entities[world.ID_Parent[o]])

\* The registry leads to living objects under their own ids which ALife controls,
\* and an object that is in no table at all does not exist: nothing dangles,
\* nothing leaks.
RegistryAgrees ==
    /\ \A id \in Ids : world.registry[id] # None =>
            LET o == world.registry[id]
            IN  o \in Live /\ world.ID[o] = id /\ world.control[o]
    /\ \A o \in Live : world.registry[world.ID[o]] = o \/ world.entities[world.ID[o]] = o

\* The walk over the level registry meets the registered objects that nobody
\* owns, all of them and nothing else; the graph points hold those offline.
LevelIsTopLevel ==
    \A id \in Ids, o \in Objects :
        LET top == world.registry[id] = o /\ world.ID_Parent[o] = NoId
        IN  /\ world.level[id] = o <=> top
            /\ world.points[id] = o <=> top /\ ~world.online[o] /\ UsesLocations(o)

\* The four tables tell one story after every handler.
TablesAgree == EntitiesAgree /\ RegistryAgrees /\ LevelIsTopLevel

\* What an object owns, online or offline, is one family: it exists once, names
\* its owner, and is online exactly if its owner is.
FamilyTogether ==
    /\ \A o \in Live : /\ IsInjective(world.children[o])
                       /\ \A c \in Children(o) : \E k \in Live :
                            /\ world.ID[k] = c /\ world.ID_Parent[k] = world.ID[o]
                            /\ world.online[k] = world.online[o]
    /\ \A k \in Live : world.ID_Parent[k] # NoId =>
            \E o \in Live : /\ world.ID[o] = world.ID_Parent[k]
                            /\ world.ID[k] \in Children(o)

\* A switch loses nothing that can be saved: the children keep their ids and
\* their order, those included that ALife has not known before.
KeepsInventory ==
    [][\A o \in Holders :
        o \in Live /\ world.alive'[o] /\ world.online'[o] # world.online[o]
        => Belongings(o)' = Belongings(o)]_vars

\* A release that was put off takes whoever was put there, and what they own: the
\* id in the queue does not lead to an object that has got it in the meantime.
PendingSpares ==
    [][phase = "flush" /\ calls' = calls =>
        \A o \in Live : ~world.alive'[o] =>
            \/ o \in condemned
            \/ \E h \in condemned : world.ID[o] \in Children(h)]_vars

\* No assertion of the release build fails and no loop over children is endless,
\* whatever the order of the calls.
NoAssert == ~world.fatal
=============================================================================
