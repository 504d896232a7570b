---------------------------- MODULE ClientObjects ----------------------------
(***************************************************************************)
(* The client's picture of the objects that the server of a single-player  *)
(* game has online (src/src/xrGame): the messages on their way, the queue  *)
(* of game events and its budget, the objects with their holders, and the  *)
(* destruction that is put off to the end of the frame.                    *)
(*                                                                         *)
(* A request of the client is handled by the server where it is sent; what *)
(* the server tells the client waits for the next frame, and with a budget *)
(* for a later one.  So the client decides by an old picture, and the      *)
(* server answers by the new one.                                          *)
(*                                                                         *)
(* The server's tables are those of ServerEntities, reduced to who is      *)
(* online and who owns whom; an object keeps its id while it lives.  Only  *)
(* holders own anything, and every message fits a packet.                  *)
(***************************************************************************)
EXTENDS Naturals, Sequences, SequencesExt, FiniteSets

CONSTANTS
    Stalkers,       \* CAI_Stalker: holders with a CInventory
    Boxes,          \* CInventoryBox: holders with a list of ids
    Items,
    None,           \* nullptr, 0xffff
    Unspawnable,    \* those whose net_Spawn fails, by their script binder say
    ReturnsEarly,   \* may an object that left come back while the client,
                    \* for its budget, has not yet seen it leave?
    MaxQueue        \* bound: no new message while so many are on their way

Holders == Stalkers \cup Boxes
Objects == Holders \cup Items

ASSUME ClientAssumption ==
    /\ Stalkers \cap Boxes = {} /\ Holders \cap Items = {}
    /\ IsFiniteSet(Items)
    /\ None \notin Objects
    /\ Unspawnable \subseteq Stalkers \cup Items
    /\ ReturnsEarly \in BOOLEAN
    /\ MaxQueue \in Nat

VARIABLES
    server,     \* entities, ID_Parent, released for good, net_Queue
    client,     \* game_events, object, parent, items
    budget,     \* is da_events_budget_ms positive?
    switched,   \* the objects that ALife has switched in this frame
    phase       \* world (server and objects act), events, spawned (the same
                \* after a spawn, when the budget may end the loop)

vars == <<server, client, budget, switched, phase>>

\* A spawn names the parent or None as its destination.
Messages == [type : {"spawn", "take", "reject", "destroy"},
             dest : Holders \cup {None}, id : Objects]

TypeOK ==
    /\ server \in [entities : SUBSET Objects,
                   ID_Parent : [Objects -> Holders \cup {None}],
                   released : SUBSET Objects,
                   net_Queue : Seq(Messages)]
    /\ client \in [game_events : Seq(Messages),
                   object : [Objects -> {"absent", "alive", "doomed"}],
                   parent : [Objects -> Holders \cup {None}],
                   items : [Holders -> SUBSET Items]]
    /\ budget \in BOOLEAN
    /\ switched \subseteq Objects
    /\ phase \in {"world", "events", "spawned"}

\* Everything is offline, and any holder may have any item.
Init ==
    /\ \E owner \in [Items -> Holders \cup {None}] :
         server = [entities |-> {},
                   ID_Parent |-> [o \in Objects |->
                       IF o \in Items THEN owner[o] ELSE None],
                   released |-> {},
                   net_Queue |-> <<>>]
    /\ client = [game_events |-> <<>>,
                 object |-> [o \in Objects |-> "absent"],
                 parent |-> [o \in Objects |-> None],
                 items |-> [h \in Holders |-> {}]]
    /\ budget \in BOOLEAN
    /\ switched = {}
    /\ phase = "world"

(***************************************************************************)
(* The server: handlers are functions of its state.                        *)
(***************************************************************************)
Send(s, type, dest, id) ==
    [s EXCEPT !.net_Queue =
        Append(@, [type |-> type, dest |-> dest, id |-> id])]

Children(s, h) == {i \in Items : s.ID_Parent[i] = h}

\* is_object_valid_on_svclient
IsValidOnClient(o) == client.object[o] = "alive"

\* mutant: takes what somebody owns
Process_event_ownershipOfAny(s, h, i) ==
    IF {h, i} \subseteq s.entities /\ IsValidOnClient(h) /\ IsValidOnClient(i)
    THEN Send([s EXCEPT !.ID_Parent[i] = h], "take", h, i)
    ELSE s

Process_event_ownership(s, h, i) ==
    IF {h, i} \subseteq s.entities /\ IsValidOnClient(h) /\ IsValidOnClient(i)
         /\ s.ID_Parent[i] = None
    THEN Send([s EXCEPT !.ID_Parent[i] = h], "take", h, i)
    ELSE s

\* mutant: holder and item change places in the message
Process_event_rejectSwapped(s, h, i) ==
    IF {h, i} \subseteq s.entities /\ i \in Children(s, h)
    THEN Send([s EXCEPT !.ID_Parent[i] = None], "reject", i, h)
    ELSE s

Process_event_reject(s, h, i) ==
    IF {h, i} \subseteq s.entities /\ i \in Children(s, h)
    THEN Send([s EXCEPT !.ID_Parent[i] = None], "reject", h, i)
    ELSE s

\* One entity and its id, after its children.
\* mutant: the owner is not told
DestroyUntold(s, o) ==
    Send([s EXCEPT !.ID_Parent[o] = None, !.entities = @ \ {o},
                   !.released = @ \cup {o}], "destroy", None, o)

DestroyAlone(s, o) ==
    LET free == IF s.ID_Parent[o] = None THEN s
                ELSE Process_event_reject(s, s.ID_Parent[o], o)
    IN  Send([free EXCEPT !.entities = @ \ {o}, !.released = @ \cup {o}],
             "destroy", None, o)

Process_event_destroy(s, o) ==
    DestroyAlone(FoldLeft(DestroyAlone, s, SetToSeq(Children(s, o))), o)

\* The children follow their holder, each with its name in the message.
SpawnTree(s, o) ==
    LET Spawn(t, i) == Send([t EXCEPT !.entities = @ \cup {i}],
                            "spawn", t.ID_Parent[i], i)
    IN  FoldLeft(Spawn, s, <<o>> \o SetToSeq(Children(s, o)))

\* Every child is rejected and destroyed before its holder, as entities; ALife
\* attaches the children again.
Perform_destroy(s, o) ==
    LET Forget(t, i) == Send([t EXCEPT !.entities = @ \ {i}],
                             "destroy", None, i)
        RejectAndForget(t, i) == Forget(Process_event_reject(t, o, i), i)
        left == Forget(FoldLeft(RejectAndForget, s, SetToSeq(Children(s, o))), o)
    IN  [left EXCEPT !.ID_Parent = s.ID_Parent]

(***************************************************************************)
(* The client: handlers of an event are functions of its state.            *)
(***************************************************************************)
Exists(c, o) == c.object[o] # "absent"

\* CanTakeItem: an inventory refuses an object that is being destroyed.
Refuses(c, h, i) == h \in Stalkers /\ c.object[i] = "doomed"

\* OnEvent, GE_OWNERSHIP_TAKE; the answer to a refusal is TakeEvent's.
OnTake(c, h, i) ==
    IF ~Exists(c, i) \/ Refuses(c, h, i) THEN c
    ELSE [c EXCEPT !.parent[i] = h, !.items[h] = @ \cup {i}]

\* mutant: the box keeps the number
OnRejectKept(c, h, i) ==
    IF Exists(c, i) THEN [c EXCEPT !.parent[i] = None] ELSE c

\* OnEvent, GE_OWNERSHIP_REJECT: a box strikes out the id in any case.
OnReject(c, h, i) ==
    LET struck == IF Exists(c, i) \/ h \in Boxes
                  THEN [c EXCEPT !.items[h] = @ \ {i}] ELSE c
    IN  IF Exists(c, i) THEN [struck EXCEPT !.parent[i] = None] ELSE struck

\* setDestroy dooms the object and whoever it is still the parent of.
setDestroy(c, o) ==
    [c EXCEPT !.object = [p \in Objects |->
        IF Exists(c, p) /\ (p = o \/ c.parent[p] = o) THEN "doomed" ELSE @[p]]]

\* OnEvent, GE_DESTROY: ignored while the object has a parent.
OnDestroy(c, o) ==
    IF c.parent[o] # None THEN c ELSE setDestroy(c, o)

\* g_sv_Spawn: fails for a taken id; the parent gets the object at once.
\* (A box whose id is taken stays in the lists, without an id.)
\* mutant: the object is left to lie on the ground
g_sv_SpawnLoose(c, parent, o) ==
    IF Exists(c, o) \/ o \in Unspawnable THEN c
    ELSE [c EXCEPT !.object[o] = "alive"]

g_sv_Spawn(c, parent, o) ==
    IF Exists(c, o) \/ o \in Unspawnable THEN c
    ELSE LET spawned == [c EXCEPT !.object[o] = "alive"]
         IN  IF parent # None /\ Exists(c, parent)
             THEN OnTake(spawned, parent, o) ELSE spawned

\* cl_Process_Spawn, cl_Process_Event: an unknown destination is ignored.
Handled(c, e) ==
    CASE e.type = "spawn" -> g_sv_Spawn(c, e.dest, e.id)
      [] e.type = "take" -> IF Exists(c, e.dest) THEN OnTake(c, e.dest, e.id) ELSE c
      [] e.type = "reject" -> IF Exists(c, e.dest) THEN OnReject(c, e.dest, e.id) ELSE c
      [] e.type = "destroy" -> IF Exists(c, e.id) THEN OnDestroy(c, e.id) ELSE c

(***************************************************************************)
(* The world between two frames: ALife switches objects, each at most once *)
(* in its walk; client objects send their requests; scripts release.       *)
(***************************************************************************)
OnItsWay == client.game_events \o server.net_Queue

Room == phase = "world" /\ Len(OnItsWay) < MaxQueue

\* The client has seen the object leave, and nothing is on its way to it.
NoTrace(o) ==
    /\ ~Exists(client, o)
    /\ \A n \in 1..Len(OnItsWay) : OnItsWay[n].id # o

Unowned(o) == server.ID_Parent[o] = None

\* ALife visits a holder or a free item
Switch(o) ==
    /\ Room
    /\ o \notin switched /\ Unowned(o)
    /\ switched' = switched \cup {o}
    /\ UNCHANGED <<client, budget, phase>>

\* add_online
GoOnline(o) ==
    /\ Switch(o)
    /\ o \notin server.entities \cup server.released
    /\ budget /\ ~ReturnsEarly => \A p \in {o} \cup Children(server, o) : NoTrace(p)
    /\ server' = SpawnTree(server, o)

\* remove_online
GoOffline(o) ==
    /\ Switch(o)
    /\ o \in server.entities
    /\ server' = Perform_destroy(server, o)

\* A stalker touches an item that lies on the ground, to the client's mind.
Take(h, i) ==
    /\ Room
    /\ client.object[h] = "alive" /\ client.object[i] = "alive"
    /\ client.parent[i] = None
    /\ server' = Process_event_ownership(server, h, i)
    /\ server' # server
    /\ UNCHANGED <<client, budget, switched, phase>>

\* DropItemSendMessage
Drop(h, i) ==
    /\ Room
    /\ client.object[h] = "alive" /\ client.parent[i] = h
    /\ server' = Process_event_reject(server, h, i)
    /\ server' # server
    /\ UNCHANGED <<client, budget, switched, phase>>

\* Two requests: a sells, b buys.  The second goes out whatever became of the
\* first.
move_item_from_to(a, b, i) ==
    /\ Room
    /\ client.object[a] = "alive" /\ client.object[b] = "alive"
    /\ client.parent[i] = a
    /\ server' = Process_event_ownership(Process_event_reject(server, a, i), b, i)
    /\ server' # server
    /\ UNCHANGED <<client, budget, switched, phase>>

\* GE_DESTROY from the client object or from a script: ALife releases it too.
Release(o) ==
    /\ Room
    /\ o \in server.entities
    /\ server' = Process_event_destroy(server, o)
    /\ UNCHANGED <<client, budget, switched, phase>>

World ==
    \/ \E o \in Objects : GoOnline(o) \/ GoOffline(o) \/ Release(o)
    \/ \E h \in Stalkers, i \in Items : Take(h, i) \/ Drop(h, i)
    \/ \E a, b \in Holders, i \in Items : a # b /\ move_item_from_to(a, b, i)

(***************************************************************************)
(* CLevel::OnFrame                                                         *)
(***************************************************************************)
\* ClientReceive
BeginFrame ==
    /\ phase = "world"
    /\ client' = [client EXCEPT !.game_events = OnItsWay]
    /\ server' = [server EXCEPT !.net_Queue = <<>>]
    /\ switched' = {}
    /\ phase' = "events"
    /\ UNCHANGED budget

InEvents(type) ==
    /\ phase # "world" /\ client.game_events # <<>>
    /\ Head(client.game_events).type = type

HandleFirst ==
    Handled([client EXCEPT !.game_events = Tail(@)], Head(client.game_events))

SpawnEvent ==
    /\ InEvents("spawn")
    /\ client' = HandleFirst
    /\ phase' = "spawned"
    /\ UNCHANGED <<server, budget, switched>>

\* An inventory that refuses rejects to the server, which may tell the client.
TakeEvent ==
    /\ InEvents("take")
    /\ client' = HandleFirst
    /\ LET e == Head(client.game_events)
       IN  server' = IF Exists(client, e.dest) /\ Refuses(client, e.dest, e.id)
                     THEN Process_event_reject(server, e.dest, e.id) ELSE server
    /\ UNCHANGED <<budget, switched, phase>>

RejectEvent ==
    /\ InEvents("reject")
    /\ client' = HandleFirst
    /\ UNCHANGED <<server, budget, switched, phase>>

DestroyEvent ==
    /\ InEvents("destroy")
    /\ client' = HandleFirst
    /\ UNCHANGED <<server, budget, switched, phase>>

\* The loop ends with the queue or, after a spawn, with the budget; then
\* CObjectList::Update destroys the doomed.
EndFrame ==
    /\ phase # "world"
    /\ client.game_events = <<>> \/ (budget /\ phase = "spawned")
    /\ LET doomed == {o \in Objects : client.object[o] = "doomed"}
       IN  client' = [client EXCEPT
             !.object = [o \in Objects |-> IF o \in doomed THEN "absent" ELSE @[o]],
             !.parent = [o \in Objects |-> IF o \in doomed THEN None ELSE @[o]],
             !.items = [h \in Holders |-> IF h \in doomed THEN {} ELSE @[h]]]
    /\ phase' = "world"
    /\ UNCHANGED <<server, budget, switched>>

Frame ==
    \/ BeginFrame
    \/ SpawnEvent
    \/ TakeEvent
    \/ RejectEvent
    \/ DestroyEvent
    \/ EndFrame

Next == World \/ Frame

Spec == Init /\ [][Next]_vars

\* The main loop keeps calling OnFrame.
FairSpec == Spec /\ WF_vars(Frame)

(***************************************************************************)
(* Properties                                                              *)
(***************************************************************************)
\* The objects that the server has online and that can be spawned, and the
\* holder each should have on the client: none if the owner could not spawn.
Expected == server.entities \ Unspawnable
ExpectedParent(o) ==
    IF o \in Expected /\ server.ID_Parent[o] \in Expected
    THEN server.ID_Parent[o] ELSE None

\* Whatever is still on its way: once the client has handled it, in as many
\* frames as it takes, it has exactly the objects that the server has online,
\* with the same owners.
WillAgree ==
    LET then == FoldLeft(Handled, client, OnItsWay)
    IN  \A o \in Objects :
            /\ then.object[o] = "alive" <=> o \in Expected
            /\ o \in Expected => then.parent[o] = ExpectedParent(o)

\* A take finds its item, alive and in nobody's hands (R_ASSERT(O) in
\* CAI_Stalker::OnEvent, VERIFY(m_pInventory == NULL) in CInventory::Take),
\* and a reject finds the item with the holder it names (the VERIFYs in
\* CInventory::DropItem), however many requests crossed.  GE_DESTROY never
\* reaches an object that still has a parent: it would be ignored ("it is
\* necessary to be check!", CGameObject::OnEvent).
EventsFit ==
    phase # "world" /\ client.game_events # <<>> =>
        LET e == Head(client.game_events)
        IN  /\ e.type = "take" /\ Exists(client, e.dest) =>
                 client.object[e.id] = "alive" /\ client.parent[e.id] = None
            /\ e.type = "reject" /\ Exists(client, e.dest) /\ Exists(client, e.id) =>
                 client.parent[e.id] = e.dest
            /\ e.type = "destroy" => client.parent[e.id] = None

\* A parent is an object that exists and lists the child, and what a holder
\* lists exists and is its child; so no pointer outlives its object.
HandsMatch ==
    /\ \A h \in Holders : \A i \in client.items[h] :
         Exists(client, i) /\ client.parent[i] = h
    /\ \A o \in Objects : client.parent[o] # None =>
         /\ Exists(client, o) /\ Exists(client, client.parent[o])
         /\ o \in client.items[client.parent[o]]

\* The comment on the budget (Level.cpp:328): putting off the rest of the
\* queue to the next frame loses no event.  With nothing on its way, every
\* object that the server has online is there.
NothingLost ==
    phase = "world" /\ OnItsWay = <<>> => \A o \in Expected : client.object[o] = "alive"

\* What was released leaves the client for good, however long the backlog.
GoneLeaves ==
    \A o \in Objects : <>[](o \in server.released => client.object[o] = "absent")
=============================================================================
