---------------------------- MODULE PathBuilders ----------------------------
(***************************************************************************)
(* The path of one creature: CMovementManager (src/src/xrGame) with its    *)
(* level path, its detail path and the two builders, which search at once  *)
(* or leave a delegate in Device.seqParallel, the list of calls a worker   *)
(* makes while the main thread renders.  While a call is left there,       *)
(* m_wait_for_distributed_computation keeps the creature from asking for a *)
(* path again: a latch that only the call, or its removal, opens.          *)
(*                                                                         *)
(* A frame is the scheduler (the creature thinks, once at most), the       *)
(* update of the objects (on_frame), the destruction of the doomed ones    *)
(* and the calls of seqParallel.  Scripts, restrictions and attacks        *)
(* interfere anywhere before those calls.  The creature follows level      *)
(* paths; game and patrol paths are left out.                              *)
(***************************************************************************)
EXTENDS Naturals

CONSTANTS
    Targets,    \* vertices of the level graph a creature stands on or goes to
    None,       \* an invalid vertex, an empty path
    Kinds,      \* kinds of creature: monster, stalker
    MaxFails,   \* da_fails_before_backoff
    Troubles    \* what else happens to the creature in this instance

ASSUME PathBuildersAssumption ==
    /\ Targets # {} /\ None \notin Targets
    /\ Kinds # {} /\ Kinds \subseteq {"monster", "stalker"}
    /\ MaxFails \in Nat \ {0}
    /\ Troubles \subseteq {"atOnce", "disable", "doom", "restrict", "script"}

VARIABLES
    c,          \* the creature and its movement manager
    at,         \* the vertex it stands on
    acc,        \* the vertices its restrictions leave accessible
    reach,      \* those of them a search finds a way to
    phase       \* where the frame stands

vars == <<c, at, acc, reach, phase>>

Phases == {"sched", "update", "destroy", "seq"}
MainThread == phase # "seq"
Vertices == Targets \cup {None}

\* Load and reinit of a creature of kind k.
Fresh(k) ==
    [life |-> "live", kind |-> k, enabled |-> TRUE, wait |-> FALSE, calls |-> 0,
     type |-> "none", state |-> "Dummy", actual |-> TRUE, restr |-> TRUE,
     atOnce |-> FALSE,
     level |-> [dest |-> None, actual |-> FALSE, failed |-> FALSE, path |-> None,
                bad |-> <<None, None>>],
     detail |-> [dest |-> None, actual |-> FALSE, failed |-> FALSE,
                 along |-> None, to |-> None, done |-> FALSE],
     start |-> None, goal |-> None, resting |-> FALSE, fails |-> 0, backoff |-> FALSE]

Init ==
    /\ \E k \in Kinds : c = Fresh(k)
    /\ at \in Targets
    /\ acc = Targets
    /\ reach \in SUBSET Targets
    /\ phase = "sched"

-----------------------------------------------------------------------------
(* Requests: what the callers of the movement manager set. *)

\* CAbstractPathManager::set_dest_vertex.
SetDestVertex(m, t) ==
    [m EXCEPT !.level.dest = t, !.level.actual = @ /\ m.level.dest = t]

\* Mutant: the manager does not hear that its level path has another end.
SetLevelDestSilently(m, t) == SetDestVertex(m, t)

SetLevelDestVertex(m, t) ==
    LET n == SetDestVertex(m, t) IN [n EXCEPT !.actual = @ /\ n.level.actual]

SetDestPosition(m, t) ==
    [m EXCEPT !.detail.dest = t, !.detail.actual = @ /\ m.detail.dest = t]

SetPathType(m, type) == [m EXCEPT !.type = type, !.actual = @ /\ m.type = type]

\* moved: the creature is not where it was when its movement was disabled.
EnableMovement(m, on, moved) ==
    [m EXCEPT !.enabled = on, !.actual = @ /\ ~(on /\ ~m.enabled /\ moved)]

-----------------------------------------------------------------------------
(* The builders. *)

\* da_backing_off; time stands still within a frame.
BackingOff(m) == m.resting \/ m.backoff

\* Mutant: a new request forgets the count of the failures only.
SetupResting(m) ==
    [m EXCEPT !.start = at, !.goal = m.level.dest,
              !.fails = IF m.start # at \/ m.goal # m.level.dest THEN 0 ELSE @]

\* A request other than the last one forgets the failures of that one.
Setup(m) ==
    LET new == m.start # at \/ m.goal # m.level.dest IN
    [m EXCEPT !.start = at, !.goal = m.level.dest,
              !.fails = IF new THEN 0 ELSE @,
              !.backoff = @ /\ ~new]

\* Mutant: the flag is raised before the rest after failures is looked at.
RegisterEarly(m) ==
    [m EXCEPT !.wait = TRUE,
              !.calls = IF BackingOff(m) THEN @ ELSE @ + 1]

RegisterLevel(m) ==
    IF BackingOff(m) THEN [m EXCEPT !.wait = FALSE]
    ELSE [m EXCEPT !.wait = TRUE, !.calls = @ + 1]

\* remove of either builder takes its own calls away and lowers the flag,
\* whoever raised it.  A call of the detail builder is never left in
\* seqParallel: a level path found goes on to its detail path by itself.
RemoveLevel(m) == [m EXCEPT !.wait = FALSE, !.calls = 0]
RemoveDetail(m) == [m EXCEPT !.wait = FALSE]
RemoveBoth(m) == RemoveDetail(RemoveLevel(m))

\* The search from start to goal.  A monster does not repeat one that failed;
\* a stalker forgets that it failed and searches again.  A failure leaves the
\* old path where it was.
SearchLevel(m) ==
    LET known == m.kind = "monster" /\ m.level.bad = <<m.start, m.goal>>
        found == ~known /\ m.goal \in reach \cup {m.start}
    IN  [m EXCEPT !.level.failed = ~found, !.level.actual = found,
                  !.level.path = IF found THEN m.goal ELSE @,
                  !.level.bad = IF found THEN @ ELSE <<m.start, m.goal>>]

\* select_intermediate_vertex: the last vertex of the level path.
SelectIntermediate(m) == [m EXCEPT !.state = "BuildDetail"]

\* The detail path along the level path, found or not.  A failure leaves it
\* empty and leaves its actuality alone; along an empty level path the code
\* reads the ends of an empty vector.
BuildDetail(m) ==
    IF m.level.path = None THEN {[m EXCEPT !.life = "crashed"]}
    ELSE {[m EXCEPT !.state = "Verification",
                    !.detail = [@ EXCEPT !.actual = TRUE, !.failed = FALSE,
                                         !.along = m.level.path, !.to = m.detail.dest,
                                         !.done = FALSE]],
          [m EXCEPT !.state = "Build",
                    !.detail = [@ EXCEPT !.failed = TRUE, !.along = None, !.to = None,
                                         !.done = FALSE]]}

\* CDetailPathBuilder::process.
ProcessDetail(m) == BuildDetail([m EXCEPT !.wait = FALSE])

\* CLevelPathBuilder::process_impl, reached through build_level_path.
BuildLevelPath(m) ==
    LET s == SearchLevel([m EXCEPT !.wait = FALSE]) IN
    IF s.level.failed
    THEN {[s EXCEPT !.state = "Build", !.resting = @ \/ m.kind = "monster"]}
    ELSE BuildDetail(SelectIntermediate(s))

\* Repeated failures earn a rest.
CountFailure(m) ==
    IF m.level.failed
    THEN [m EXCEPT !.fails = IF @ < MaxFails THEN @ + 1 ELSE @,
                   !.backoff = @ \/ m.fails + 1 >= MaxFails]
    ELSE [m EXCEPT !.fails = 0]

\* CLevelPathBuilder::process, as seqParallel calls it.
ProcessLevel(m) ==
    IF BackingOff(m) THEN {m} ELSE {CountFailure(n) : n \in BuildLevelPath(m)}

-----------------------------------------------------------------------------
(* The movement manager. *)

\* A path can be left to seqParallel (TRUE) or not.  A monster in sight of the
\* actor does without; without an actor it leaves every path there.
MayDistribute(m) ==
    IF m.kind = "monster" \/ (~m.atOnce /\ m.life = "live") THEN BOOLEAN ELSE {FALSE}

\* A path asked for at once goes on to its detail path whether or not the
\* level path has been found.
LevelStage(m, distribute) ==
    LET n == Setup(m) IN
    IF distribute THEN {RegisterLevel(n)}
    ELSE IF ~m.atOnce THEN BuildLevelPath(n)
    ELSE UNION {IF b.life = "crashed" THEN {b}
                ELSE ProcessDetail(SelectIntermediate(b)) : b \in BuildLevelPath(n)}

Verify(m) ==
    IF ~m.detail.actual THEN [m EXCEPT !.state = "Build"]
    ELSE IF m.state = "Verification" /\ (m.detail.to = None \/ m.detail.done)
    THEN [m EXCEPT !.state = "Completed"]
    ELSE m

\* process_level_path.  The level path is followed to its end, so that it is
\* completed whenever the detail path is.
ProcessLevelPath(m) ==
    IF ~m.level.actual \/ m.state = "Build"
    THEN UNION {LevelStage([m EXCEPT !.state = "Build"], d) : d \in MayDistribute(m)}
    ELSE {Verify(m)}

\* Start anew: a destination that is not accessible gives way to one that is.
StartAnew(m) ==
    LET n == [m EXCEPT !.actual = TRUE, !.level.actual = FALSE,
                       !.state = IF m.type = "level" THEN "Build" ELSE "Dummy"]
    IN  IF m.type # "level" THEN {n}
        ELSE IF m.level.dest \notin acc
        THEN {SetDestPosition(SetDestVertex(n, t), t) : t \in acc}
        ELSE IF m.detail.dest \notin acc THEN {SetDestPosition(n, m.level.dest)}
        ELSE {n}

UpdatePath(m) ==
    IF ~m.enabled \/ m.wait THEN {m}
    ELSE LET stale == ~m.actual \/ ~m.restr
             n == [m EXCEPT !.restr = TRUE]
             begun == IF stale THEN StartAnew(n) ELSE {n}
             done == IF m.type = "level" THEN UNION {ProcessLevelPath(b) : b \in begun}
                     ELSE begun
         IN  {[d EXCEPT !.atOnce = FALSE] : d \in done}

\* Mutant: the failed search is remembered.
RestrictionsChangeOnly(m) ==
    [RemoveBoth(m) EXCEPT !.actual = FALSE, !.restr = FALSE]

OnRestrictionsChange(m) ==
    [RemoveBoth(m) EXCEPT
        !.actual = FALSE, !.restr = FALSE, !.level.bad = <<None, None>>]

ClearPath(m) ==
    [RemoveDetail(m) EXCEPT !.detail.along = None, !.detail.to = None,
                                !.detail.done = FALSE]

\* stalker_movement_manager_obstacles::rebuild_path.
RebuildPath(m) ==
    LET first == UpdatePath([m EXCEPT !.level.actual = FALSE, !.atOnce = TRUE]) IN
    UNION {IF n.life = "crashed" THEN {n} ELSE UpdatePath([n EXCEPT !.atOnce = TRUE]) :
           n \in first}

\* move_along_path brings the creature to the end of its detail path, or not.
Moves(m) ==
    m.enabled /\ m.actual /\ m.detail.to # None /\ ~m.detail.done

-----------------------------------------------------------------------------
(* The steps of a frame. *)

Alive == c.life \in {"live", "doomed"}

\* CControlPathBuilder::update_schedule with a target that is accessible.
MonsterThinks(t, on, moved) ==
    /\ phase = "sched" /\ c.life = "live" /\ c.kind = "monster" /\ t \in acc
    /\ ~on => "disable" \in Troubles
    /\ phase' = "update"
    /\ LET n == EnableMovement(c, on, moved)
           asked == SetLevelDestVertex(SetDestPosition(SetPathType(n, "level"), t), t)
       IN  c' \in UpdatePath(IF on THEN asked ELSE n)
    /\ UNCHANGED <<at, acc, reach>>

\* setup_movement_params: a destination that has become inaccessible is
\* replaced in the level path itself, past set_level_dest_vertex.
SetupMovement(m) ==
    LET n == SetPathType(m, "level") IN
    IF n.level.dest \notin acc
    THEN {SetDestPosition(SetDestVertex(n, t), t) : t \in acc}
    ELSE {SetDestPosition(n, n.level.dest)}

\* The stalker's planners choose a target or keep the one they have, and clear
\* the path when a fight begins; then its movement manager is updated.
StalkerThinks(t, fight) ==
    /\ phase = "sched" /\ c.life = "live" /\ c.kind = "stalker"
    /\ t \in acc \/ t = c.level.dest
    /\ t # None
    /\ phase' = "update"
    /\ LET n == IF fight THEN ClearPath(c) ELSE c
           asked == IF t \in acc THEN SetLevelDestVertex(n, t) ELSE n
       IN  IF asked.enabled THEN c' \in UNION {UpdatePath(m) : m \in SetupMovement(asked)}
           ELSE c' = asked
    /\ UNCHANGED <<at, acc, reach>>

\* set_dest_level_vertex_id, called by a script for a stalker.
ScriptSetsDest(t) ==
    /\ "script" \in Troubles /\ MainThread /\ Alive /\ c.kind = "stalker" /\ t \in acc
    /\ c' = SetLevelDestVertex(c, t)
    /\ UNCHANGED <<at, acc, reach, phase>>

\* Movement is enabled or disabled by an animation, a script or an action.
Enable(on, moved) ==
    /\ "disable" \in Troubles /\ MainThread /\ Alive
    /\ c' = EnableMovement(c, on, moved)
    /\ UNCHANGED <<at, acc, reach, phase>>

\* Restrictions are added or removed: other vertices become accessible.
Restrict ==
    /\ "restrict" \in Troubles /\ MainThread /\ Alive
    /\ acc' \in SUBSET Targets \ {{}}
    /\ reach' \in SUBSET acc'
    /\ c' = OnRestrictionsChange(c)
    /\ UNCHANGED <<at, phase>>

\* build_special: a monster attacks and wants its path at once, to a vertex it
\* has just found in a straight line from where it stands.
BuildSpecial(t, moved) ==
    /\ "atOnce" \in Troubles /\ phase \in {"sched", "update"} /\ Alive /\ c.kind = "monster" /\ t \in reach
    /\ LET n == SetPathType(EnableMovement(c, TRUE, moved), "level")
           asked == SetLevelDestVertex(SetDestPosition(n, t), t)
       IN  c' \in UpdatePath([asked EXCEPT !.atOnce = TRUE])
    /\ UNCHANGED <<at, acc, reach, phase>>

\* The creature is not due in this frame.
NotDue ==
    /\ phase = "sched" /\ phase' = "update"
    /\ UNCHANGED <<c, at, acc, reach>>

\* on_frame, for a creature near enough to be updated in every frame: the
\* path, a new one round an obstacle (found only if a search that avoids it has
\* come through), then a stretch of the way.
OnFrame(obstacle, arrives) ==
    /\ phase = "update" /\ Alive /\ phase' = "destroy"
    /\ obstacle => "atOnce" \in Troubles /\ c.kind = "stalker" /\ c.type = "level"
    /\ \E m \in IF c.state \in {"Verification", "Completed"} THEN {c} ELSE UpdatePath(c) :
       \E n \in IF obstacle /\ m.life # "crashed" THEN RebuildPath(m) ELSE {m} :
          /\ obstacle => m.level.dest \in reach
          /\ IF arrives
             THEN /\ Moves(n) /\ n.life # "crashed"
                  /\ c' = [n EXCEPT !.detail.done = TRUE] /\ at' = n.detail.to
             ELSE c' = n /\ at' = at
    /\ UNCHANGED <<acc, reach>>

\* A creature far away, or none, is not updated.
NoFrame ==
    /\ phase = "update" /\ phase' = "destroy"
    /\ UNCHANGED <<c, at, acc, reach>>

\* setDestroy.
Doom ==
    /\ "doom" \in Troubles /\ MainThread /\ c.life = "live"
    /\ c' = [c EXCEPT !.life = "doomed"]
    /\ UNCHANGED <<at, acc, reach, phase>>

\* Mutant: net_Destroy forgets the calls of one builder.
NetDestroyDetail(m) == [RemoveDetail(m) EXCEPT !.life = "absent"]

\* net_Destroy takes the calls of both builders out of seqParallel; nothing
\* else is left of the creature.
NetDestroy(m) == [RemoveBoth(m) EXCEPT !.life = "absent"]

DestroyDoomed ==
    /\ phase = "destroy" /\ phase' = "seq"
    /\ c' = IF c.life = "doomed" THEN [Fresh(c.kind) EXCEPT !.life = "absent",
                                            !.calls = NetDestroy(c).calls] ELSE c
    /\ UNCHANGED <<at, acc, reach>>

Spawn(k, v) ==
    /\ MainThread /\ c.life = "absent"
    /\ c' = [Fresh(k) EXCEPT !.calls = c.calls] /\ at' = v
    /\ acc' = Targets /\ reach' \in SUBSET Targets
    /\ UNCHANGED <<phase>>

\* The worker makes a call of seqParallel.
Call ==
    /\ phase = "seq" /\ c.calls > 0 /\ Alive
    /\ c' \in ProcessLevel([c EXCEPT !.calls = @ - 1])
    /\ UNCHANGED <<at, acc, reach, phase>>

\* seqParallel is cleared and the next frame begins: the clock moves on, and
\* either rest may have come to its end.
NextFrame(rested, resumed) ==
    /\ phase = "seq" /\ c.calls = 0
    /\ phase' = "sched" 
    /\ c' = [c EXCEPT !.resting = @ /\ ~rested, !.backoff = @ /\ ~resumed]
    /\ UNCHANGED <<at, acc, reach>>

Thinks ==
    \/ \E t \in Targets, on, moved \in BOOLEAN : MonsterThinks(t, on, moved)
    \/ \E t \in Targets, fight \in BOOLEAN : StalkerThinks(t, fight)

Frame ==
    \/ NotDue
    \/ \E obstacle, arrives \in BOOLEAN : OnFrame(obstacle, arrives)
    \/ NoFrame
    \/ DestroyDoomed
    \/ Call
    \/ \E rested, resumed \in BOOLEAN : NextFrame(rested, resumed)

Next ==
    \/ c.life # "crashed" /\ Thinks
    \/ c.life # "crashed" /\ Frame
    \/ \E t \in Targets : ScriptSetsDest(t)
    \/ \E on, moved \in BOOLEAN : Enable(on, moved)
    \/ Restrict
    \/ \E t \in Targets, moved \in BOOLEAN : BuildSpecial(t, moved)
    \/ Doom
    \/ \E k \in Kinds, v \in Targets : Spawn(k, v)

Spec == Init /\ [][Next]_vars

\* The main loop goes on; the scheduler calls the creature again and again,
\* and the clock ends every rest.
FairSpec ==
    /\ Spec
    /\ WF_vars(Frame)
    /\ SF_vars(Thinks)
    /\ SF_vars(NextFrame(TRUE, TRUE))

-----------------------------------------------------------------------------
(* Properties. *)

Creature ==
    [life : {"live", "doomed", "absent", "crashed"}, kind : Kinds, enabled : BOOLEAN,
     wait : BOOLEAN, calls : Nat, type : {"none", "level"},
     state : {"Dummy", "Build", "BuildDetail", "Verification", "Completed"},
     actual : BOOLEAN, restr : BOOLEAN, atOnce : BOOLEAN,
     level : [dest : Vertices, actual : BOOLEAN, failed : BOOLEAN, path : Vertices,
              bad : Vertices \X Vertices],
     detail : [dest : Vertices, actual : BOOLEAN, failed : BOOLEAN,
               along : Vertices, to : Vertices, done : BOOLEAN],
     start : Vertices, goal : Vertices,
     resting : BOOLEAN, fails : 0..MaxFails, backoff : BOOLEAN]

\* Types; and a stalker rests only after as many failures as earn it a rest.
TypeOK ==
    /\ c \in Creature
    /\ c.backoff => c.fails = MaxFails
    /\ at \in Targets /\ acc \in SUBSET Targets /\ reach \in SUBSET acc
    /\ phase \in Phases

\* The latch is shut exactly while one call of the creature's is left in
\* seqParallel, and there is never a second one (level_path_builder.h: the flag
\* is raised only if the task really is queued; device.h: no doubles).  No call
\* of a creature that has been destroyed is left there, in whatever frame it was
\* left (net_Destroy).
LatchExact ==
    /\ c.wait <=> c.calls # 0
    /\ c.calls <= 1
    /\ c.life = "absent" => c.calls = 0

\* actual_all: what is_path_built tells the behaviour of monsters.
PathBuilt == c.actual /\ c.level.actual /\ c.detail.actual

\* A path that counts as built leads where the creature is going now, along a
\* level path to the present destination: a target set while the search for the
\* old one is under way is not mistaken for reached.
PathFresh ==
    Alive /\ c.restr /\ PathBuilt /\ c.detail.to # None =>
        c.detail.along = c.level.dest /\ c.detail.to = c.detail.dest

\* A search remembered as hopeless is hopeless under the present restrictions.
FailureTrue == Alive /\ c.level.bad[2] # None => c.level.bad[2] \notin reach

\* Living, free to move and without a path to a target that can be reached.
WantsPath ==
    /\ c.life = "live" /\ c.enabled /\ c.type = "level" /\ c.state = "Build"
    /\ c.level.dest \in reach

\* A creature that wants a path gets one, unless its restrictions change or the
\* detail path fails: neither the latch, nor a failed search remembered, nor a
\* rest after failures keeps it standing for ever, and changing its mind does
\* not either.
PathComes == WantsPath ~> ~WantsPath \/ ~c.restr \/ c.detail.failed

\* Past the search there is a level path to follow (the VERIFY of
\* select_intermediate_vertex).
PathToSelect ==
    c.state \in {"BuildDetail", "Verification", "Completed"} =>
        ~c.level.failed /\ c.level.path # None
=============================================================================
