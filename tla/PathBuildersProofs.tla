-------------------------- MODULE PathBuildersProofs --------------------------
(***************************************************************************)
(* Proofs about PathBuilders, for any targets and whatever happens to the  *)
(* creature.                                                               *)
(***************************************************************************)
EXTENDS PathBuilders, TLAPS

\* The latch stands for a call in seqParallel, which is not left there during
\* a rest.
Latched(m) ==
    /\ m.calls \in {0, 1} /\ (m.wait <=> m.calls = 1)
    /\ m.calls = 1 => ~BackingOff(m)

\* What the creature remembers as hopeless is not among the vertices of r.
Remembers(m, r) == m.level.bad[2] # None => m.level.bad[2] \notin r

\* What is true of the paths of a creature, however old they are.
Paths(m) ==
    /\ m.detail.actual /\ m.detail.to # None => m.detail.to = m.detail.dest
    /\ m.detail.to # None => m.detail.along = m.level.path
    /\ m.actual /\ m.level.actual => m.level.path = m.level.dest

Sound(m, r) ==
    /\ m \in Creature /\ (m.backoff => m.fails = MaxFails)
    /\ Remembers(m, r)
    /\ m.life # "crashed" => Paths(m)

\* The search that waits in seqParallel looks for the present target, unless
\* the manager knows better.
Awaited(m) == m.calls = 1 /\ m.actual => m.goal = m.level.dest

Inv ==
    /\ at \in Targets /\ acc \in SUBSET Targets /\ reach \in SUBSET acc /\ phase \in Phases
    /\ Sound(c, reach) /\ Latched(c) /\ Awaited(c)
    /\ c.life = "absent" => c.calls = 0
    /\ c.kind = "stalker" /\ phase = "sched" => c.calls = 0

-----------------------------------------------------------------------------
(* Requests.  None of them touches the calls or the rests. *)

SameCall(m, n) ==
    /\ n.wait = m.wait /\ n.calls = m.calls /\ n.kind = m.kind /\ n.life = m.life
    /\ n.resting = m.resting /\ n.backoff = m.backoff /\ n.goal = m.goal

LEMMA SetDestVertexSound ==
    ASSUME NEW m, NEW r, Sound(m, r), NEW t \in Targets
    PROVE  /\ Sound(SetDestVertex(m, t), r) /\ SameCall(m, SetDestVertex(m, t))
           /\ SetDestVertex(m, t).enabled = m.enabled
<1> DEFINE n == SetDestVertex(m, t)
<1>1. n \in Creature
  BY DEF SetDestVertex, Sound, Creature, Vertices
<1>2. SameCall(m, n) /\ n.enabled = m.enabled
  BY DEF SetDestVertex, Sound, Creature, SameCall
<1>3. n.fails = m.fails /\ Remembers(n, r) /\ (m.life # "crashed" => Paths(n))
  BY DEF SetDestVertex, Sound, Creature, Remembers, Paths
<1>4. QED
  BY <1>1, <1>2, <1>3 DEF Sound, SameCall

LEMMA SetDestPositionSound ==
    ASSUME NEW m, NEW r, Sound(m, r), NEW t \in Targets \cup {m.level.dest}
    PROVE  /\ Sound(SetDestPosition(m, t), r) /\ SameCall(m, SetDestPosition(m, t))
           /\ SetDestPosition(m, t).level = m.level /\ SetDestPosition(m, t).actual = m.actual
           /\ SetDestPosition(m, t).enabled = m.enabled
<1> DEFINE n == SetDestPosition(m, t)
<1>1. n \in Creature
  BY DEF SetDestPosition, Sound, Creature, Vertices
<1>2. SameCall(m, n) /\ n.level = m.level /\ n.actual = m.actual /\ n.enabled = m.enabled
  BY DEF SetDestPosition, Sound, Creature, SameCall
<1>3. n.fails = m.fails /\ Remembers(n, r) /\ (m.life # "crashed" => Paths(n))
  BY DEF SetDestPosition, Sound, Creature, Remembers, Paths
<1>4. QED
  BY <1>1, <1>2, <1>3 DEF Sound, SameCall

LEMMA SetLevelDestVertexSound ==
    ASSUME NEW m, NEW r, Sound(m, r), NEW t \in Targets
    PROVE  LET n == SetLevelDestVertex(m, t) IN
           /\ Sound(n, r) /\ SameCall(m, n) /\ n.enabled = m.enabled
           /\ Awaited(m) => Awaited(n)
<1> DEFINE d == SetDestVertex(m, t)  n == SetLevelDestVertex(m, t)
<1>1. Sound(d, r) /\ SameCall(m, d) /\ d.enabled = m.enabled
  BY SetDestVertexSound
<1>2. /\ d.level.actual => m.level.actual /\ m.level.dest = d.level.dest
      /\ d.actual = m.actual
  BY DEF SetDestVertex, Sound, Creature
<1>3. n = [d EXCEPT !.actual = d.actual /\ d.level.actual]
  BY DEF SetLevelDestVertex
<1> HIDE DEF d, n
<1>4. n \in Creature
  BY <1>1, <1>3 DEF Sound, Creature
<1>5. /\ SameCall(m, n) /\ n.level = d.level /\ n.detail = d.detail
      /\ n.actual = (d.actual /\ d.level.actual) /\ n.fails = d.fails /\ n.enabled = m.enabled
  BY <1>1, <1>3 DEF Sound, Creature, SameCall
<1>6. Sound(n, r)
  BY <1>1, <1>4, <1>5 DEF Sound, Remembers, Paths, SameCall
<1>7. Awaited(m) => Awaited(n)
  BY <1>2, <1>5 DEF Awaited, SameCall
<1>8. QED
  BY <1>5, <1>6, <1>7 DEF n

LEMMA SetPathTypeSound ==
    ASSUME NEW m, NEW r, Sound(m, r), NEW type \in {"none", "level"}
    PROVE  LET n == SetPathType(m, type) IN
           /\ Sound(n, r) /\ SameCall(m, n) /\ n.level = m.level /\ n.enabled = m.enabled
           /\ Awaited(m) => Awaited(n)
<1> DEFINE n == SetPathType(m, type)
           a == m.actual /\ m.type = type
<1>1. n = [m EXCEPT !.type = type, !.actual = a] /\ a \in BOOLEAN /\ (a => m.actual)
  BY DEF SetPathType
<1> HIDE DEF n, a
<1>2. n \in Creature
  BY <1>1 DEF Sound, Creature
<1>3. /\ SameCall(m, n) /\ n.level = m.level /\ n.detail = m.detail /\ n.fails = m.fails
      /\ n.enabled = m.enabled /\ n.actual = a
  BY <1>1 DEF Sound, Creature, SameCall
<1>4. n.actual => m.actual
  BY <1>1, <1>3
<1>5. QED
  BY <1>2, <1>3, <1>4 DEF n, Sound, Remembers, Paths, Awaited, SameCall

LEMMA EnableMovementSound ==
    ASSUME NEW m, NEW r, Sound(m, r), NEW on \in BOOLEAN, NEW moved \in BOOLEAN
    PROVE  LET n == EnableMovement(m, on, moved) IN
           /\ Sound(n, r) /\ SameCall(m, n) /\ n.level = m.level /\ n.enabled = on
           /\ Awaited(m) => Awaited(n)
<1> DEFINE n == EnableMovement(m, on, moved)
           a == m.actual /\ ~(on /\ ~m.enabled /\ moved)
<1>1. n = [m EXCEPT !.enabled = on, !.actual = a] /\ a \in BOOLEAN /\ (a => m.actual)
  BY DEF EnableMovement
<1> HIDE DEF n, a
<1>2. n \in Creature
  BY <1>1 DEF Sound, Creature
<1>3. /\ SameCall(m, n) /\ n.level = m.level /\ n.detail = m.detail /\ n.fails = m.fails
      /\ n.enabled = on /\ n.actual = a
  BY <1>1 DEF Sound, Creature, SameCall
<1>4. n.actual => m.actual
  BY <1>1, <1>3
<1>5. QED
  BY <1>2, <1>3, <1>4 DEF n, Sound, Remembers, Paths, Awaited, SameCall

-----------------------------------------------------------------------------
(* The builders. *)

Fine(m) == Sound(m, reach) /\ Latched(m) /\ Awaited(m)

\* A creature that no call waits for.
Uncalled(m) == m.calls = 0 /\ ~m.wait

\* What a search or a detail path leaves as it was.
SameRest(m, n) ==
    /\ n.kind = m.kind /\ (n.life = m.life \/ n.life = "crashed")
    /\ n.calls = m.calls /\ n.wait = m.wait /\ n.backoff = m.backoff /\ n.fails = m.fails

LEMMA SetupSound ==
    ASSUME NEW m, Sound(m, reach), at \in Targets
    PROVE  LET n == Setup(m) IN
           /\ Sound(n, reach) /\ n.kind = m.kind /\ n.life = m.life /\ n.atOnce = m.atOnce
           /\ n.calls = m.calls /\ n.wait = m.wait
           /\ n.start \in Targets /\ n.goal = n.level.dest
<1> DEFINE new == m.start # at \/ m.goal # m.level.dest
           n == Setup(m)
<1>0. MaxFails \in Nat /\ 0 \in 0..MaxFails
  BY PathBuildersAssumption
<1> DEFINE f == IF new THEN 0 ELSE m.fails
           b == m.backoff /\ ~new
<1>1. n = [m EXCEPT !.start = at, !.goal = m.level.dest, !.fails = f, !.backoff = b]
  BY DEF Setup
<1>a. b \in BOOLEAN /\ f \in 0..MaxFails
  BY <1>0 DEF Sound, Creature
<1>b. b => m.backoff /\ f = m.fails
  OBVIOUS
<1>c. m.level.dest \in Vertices /\ at \in Vertices
  BY DEF Sound, Creature, Vertices
<1> HIDE DEF n, f, b
<1>2. n \in Creature
  BY <1>1, <1>a, <1>c DEF Sound, Creature
<1>3. /\ n.kind = m.kind /\ n.life = m.life /\ n.atOnce = m.atOnce
      /\ n.calls = m.calls /\ n.wait = m.wait
      /\ n.level = m.level /\ n.detail = m.detail /\ n.actual = m.actual
      /\ n.start = at /\ n.goal = m.level.dest
  BY <1>1 DEF Sound, Creature
<1>4. n.backoff => n.fails = MaxFails
  <2>1. n.backoff = b /\ n.fails = f
    BY <1>1 DEF Sound, Creature
  <2>2. QED
    BY <2>1, <1>b DEF Sound
<1>5. Sound(n, reach)
  BY <1>2, <1>3, <1>4 DEF Sound, Remembers, Paths
<1>6. QED
  BY <1>3, <1>5 DEF n

LEMMA RegisterLevelFine ==
    ASSUME NEW m, Sound(m, reach), m.calls = 0, m.goal = m.level.dest
    PROVE  LET n == RegisterLevel(m) IN Fine(n) /\ n.kind = m.kind /\ n.life = m.life
<1> DEFINE n == RegisterLevel(m)
<1>1. CASE BackingOff(m)
  <2>1. n = [m EXCEPT !.wait = FALSE]
    BY <1>1 DEF RegisterLevel
  <2> HIDE DEF n
  <2>2. n \in Creature
    BY <2>1 DEF Sound, Creature
  <2>3. /\ n.kind = m.kind /\ n.life = m.life /\ n.calls = 0 /\ ~n.wait
        /\ n.level = m.level /\ n.detail = m.detail /\ n.actual = m.actual
        /\ n.backoff = m.backoff /\ n.fails = m.fails
    BY <2>1 DEF Sound, Creature
  <2>4. QED
    BY <2>2, <2>3 DEF Fine, Sound, Remembers, Paths, Latched, Awaited, n
<1>2. CASE ~BackingOff(m)
  <2>1. n = [m EXCEPT !.wait = TRUE, !.calls = 1]
    <3>1. [m EXCEPT !.wait = TRUE, !.calls = @ + 1] = [m EXCEPT !.wait = TRUE, !.calls = 1]
      OBVIOUS
    <3>2. QED
      BY <1>2, <3>1 DEF RegisterLevel
  <2> HIDE DEF n
  <2>2. n \in Creature
    BY <2>1 DEF Sound, Creature
  <2>3. /\ n.kind = m.kind /\ n.life = m.life /\ n.calls = 1 /\ n.wait
        /\ n.level = m.level /\ n.detail = m.detail /\ n.actual = m.actual /\ n.goal = m.goal
        /\ n.backoff = m.backoff /\ n.resting = m.resting /\ n.fails = m.fails
    BY <2>1 DEF Sound, Creature
  <2>4. QED
    BY <1>2, <2>2, <2>3 DEF Fine, Sound, Remembers, Paths, Latched, Awaited, BackingOff, n
<1>3. QED
  BY <1>1, <1>2

\* A detail path along a level path that is as it should be; what the old
\* detail path was like does not matter.
LEMMA BuildDetailSound ==
    ASSUME NEW m \in Creature, m.backoff => m.fails = MaxFails, Remembers(m, reach),
           m.actual /\ m.level.actual => m.level.path = m.level.dest,
           NEW n \in BuildDetail(m)
    PROVE  Sound(n, reach) /\ SameRest(m, n)
<1>1. CASE n = [m EXCEPT !.life = "crashed"]
  <2>1. n \in Creature
    BY <1>1 DEF Creature
  <2>2. n.life = "crashed" /\ n.level = m.level /\ SameRest(m, n)
    BY <1>1 DEF Creature, SameRest
  <2>3. QED
    BY <2>1, <2>2 DEF Sound, Remembers, SameRest
<1>2. CASE n = [m EXCEPT !.state = "Verification",
                    !.detail = [@ EXCEPT !.actual = TRUE, !.failed = FALSE,
                                         !.along = m.level.path, !.to = m.detail.dest,
                                         !.done = FALSE]]
  <2>1. n \in Creature
    BY <1>2 DEF Creature
  <2>2. /\ n.level = m.level /\ n.actual = m.actual /\ SameRest(m, n)
        /\ n.detail.along = m.level.path /\ n.detail.to = n.detail.dest
    BY <1>2 DEF Creature, SameRest
  <2>3. QED
    BY <2>1, <2>2 DEF Sound, Remembers, Paths, SameRest
<1>3. CASE n = [m EXCEPT !.state = "Build",
                    !.detail = [@ EXCEPT !.failed = TRUE, !.along = None, !.to = None,
                                         !.done = FALSE]]
  <2> DEFINE d == [m.detail EXCEPT !.failed = TRUE, !.along = None, !.to = None,
                                   !.done = FALSE]
  <2>a. d \in [dest : Vertices, actual : BOOLEAN, failed : BOOLEAN,
               along : Vertices, to : Vertices, done : BOOLEAN]
    BY DEF Creature, Vertices
  <2>b. n = [m EXCEPT !.state = "Build", !.detail = d]
    BY <1>3
  <2>1. n \in Creature
    <3> HIDE DEF d
    <3>1. QED
      BY <2>a, <2>b DEF Creature
  <2>2. n.level = m.level /\ n.actual = m.actual /\ SameRest(m, n) /\ n.detail.to = None
    BY <1>3 DEF Creature, SameRest
  <2>3. QED
    BY <2>1, <2>2 DEF Sound, Remembers, Paths, SameRest
<1>4. QED
  BY <1>1, <1>2, <1>3 DEF BuildDetail

\* A search neither finds a path to anything but its goal nor remembers as
\* hopeless what can be reached.
LEMMA SearchLevelSound ==
    ASSUME NEW m \in Creature, m.backoff => m.fails = MaxFails, Remembers(m, reach),
           m.detail.actual /\ m.detail.to # None => m.detail.to = m.detail.dest,
           m.detail.to # None => m.detail.along = m.level.path,
           m.actual => m.goal = m.level.dest
    PROVE  LET n == SearchLevel(m) IN
           /\ n \in Creature /\ SameRest(m, n) /\ n.life = m.life /\ Remembers(n, reach)
           /\ n.actual /\ n.level.actual => n.level.path = n.level.dest
           /\ n.level.failed => Paths(n)
<1> DEFINE known == m.kind = "monster" /\ m.level.bad = <<m.start, m.goal>>
           found == ~known /\ m.goal \in reach \cup {m.start}
           path == IF found THEN m.goal ELSE m.level.path
           bad == IF found THEN m.level.bad ELSE <<m.start, m.goal>>
           level == [m.level EXCEPT !.failed = ~found, !.actual = found,
                                    !.path = path, !.bad = bad]
           n == SearchLevel(m)
<1>1. n = [m EXCEPT !.level = level]
  BY DEF SearchLevel
<1>2. path \in Vertices /\ bad \in Vertices \X Vertices /\ found \in BOOLEAN
  BY DEF Creature
<1>3. bad[2] # None => bad[2] \notin reach
  <2>1. CASE found
    BY <2>1 DEF Remembers
  <2>2. CASE ~found /\ known
    <3>1. m.level.bad[2] = m.goal /\ bad[2] = m.goal
      BY <2>2
    <3>2. QED
      BY <3>1 DEF Remembers
  <2>3. CASE ~found /\ ~known
    BY <2>3
  <2>4. QED
    BY <2>1, <2>2, <2>3
<1>4. (found => path = m.goal) /\ (~found => path = m.level.path)
  OBVIOUS
<1> HIDE DEF found, path, bad
<1>5. /\ level \in [dest : Vertices, actual : BOOLEAN, failed : BOOLEAN, path : Vertices,
                    bad : Vertices \X Vertices]
      /\ level.path = path /\ level.bad = bad /\ level.dest = m.level.dest
      /\ level.actual = found /\ level.failed = ~found
  BY <1>2 DEF Creature
<1> HIDE DEF level, n
<1>6. n \in Creature
  BY <1>1, <1>5 DEF Creature
<1>7. SameRest(m, n) /\ n.life = m.life
  BY <1>1 DEF Creature, SameRest
<1>8. n.level = level /\ n.detail = m.detail /\ n.actual = m.actual
  BY <1>1 DEF Creature
<1>9. Remembers(n, reach)
  BY <1>3, <1>5, <1>8 DEF Remembers
<1>10. n.actual /\ n.level.actual => n.level.path = n.level.dest
  BY <1>4, <1>5, <1>8
<1>11. n.level.failed => Paths(n)
  BY <1>4, <1>5, <1>8 DEF Paths
<1>12. QED
  BY <1>6, <1>7, <1>9, <1>10, <1>11 DEF n

LEMMA BuildLevelPathSound ==
    ASSUME NEW m, Sound(m, reach), m.life # "crashed", m.actual => m.goal = m.level.dest,
           NEW n \in BuildLevelPath(m)
    PROVE  /\ Sound(n, reach) /\ n.kind = m.kind /\ (n.life = m.life \/ n.life = "crashed")
           /\ n.calls = m.calls /\ ~n.wait /\ n.backoff = m.backoff /\ n.fails = m.fails
<1> DEFINE l == [m EXCEPT !.wait = FALSE]
           s == SearchLevel(l)
           i == [s EXCEPT !.state = "BuildDetail"]
<1>1. /\ l \in Creature /\ ~l.wait /\ l.calls = m.calls /\ l.kind = m.kind
      /\ l.life = m.life /\ l.backoff = m.backoff /\ l.fails = m.fails
      /\ l.level = m.level /\ l.detail = m.detail /\ l.actual = m.actual /\ l.goal = m.goal
  BY DEF Sound, Creature
<1> HIDE DEF l
<1>2. /\ s \in Creature /\ SameRest(l, s) /\ s.life = l.life /\ Remembers(s, reach)
      /\ s.actual /\ s.level.actual => s.level.path = s.level.dest
      /\ s.level.failed => Paths(s)
  BY <1>1, SearchLevelSound DEF Sound, Paths, Remembers
<1>3. n \in IF s.level.failed
            THEN {[s EXCEPT !.state = "Build", !.resting = @ \/ m.kind = "monster"]}
            ELSE BuildDetail(i)
  BY DEF BuildLevelPath, SelectIntermediate, l
<1> HIDE DEF s
<1>4. CASE s.level.failed
  <2> DEFINE b == s.resting \/ m.kind = "monster"
  <2>1. n = [s EXCEPT !.state = "Build", !.resting = b] /\ b \in BOOLEAN
    BY <1>3, <1>4
  <2> HIDE DEF b
  <2>2. n \in Creature
    BY <1>2, <2>1 DEF Creature
  <2>3. /\ n.level = s.level /\ n.detail = s.detail /\ n.actual = s.actual
        /\ SameRest(s, n) /\ n.life = s.life
    BY <1>2, <2>1 DEF Creature, SameRest
  <2>4. Sound(n, reach)
    BY <1>1, <1>2, <1>4, <2>2, <2>3 DEF Sound, Remembers, Paths, SameRest
  <2>5. QED
    BY <1>1, <1>2, <2>3, <2>4 DEF SameRest
<1>5. CASE ~s.level.failed
  <2>1. /\ i \in Creature /\ i.level = s.level /\ i.actual = s.actual
        /\ SameRest(s, i) /\ i.life = s.life
    BY <1>2 DEF Creature, SameRest
  <2> HIDE DEF i
  <2>2. n \in BuildDetail(i)
    BY <1>3, <1>5
  <2>3. /\ i.backoff => i.fails = MaxFails
        /\ Remembers(i, reach)
        /\ i.actual /\ i.level.actual => i.level.path = i.level.dest
    BY <1>1, <1>2, <2>1 DEF Sound, Remembers, SameRest
  <2>4. Sound(n, reach) /\ SameRest(i, n)
    BY <2>1, <2>2, <2>3, BuildDetailSound
  <2>5. QED
    BY <1>1, <1>2, <2>1, <2>4 DEF SameRest
<1>6. QED
  BY <1>4, <1>5

LEMMA LevelStageFine ==
    ASSUME NEW m, Sound(m, reach), m.life # "crashed", Uncalled(m), at \in Targets,
           NEW distribute \in BOOLEAN, NEW n \in LevelStage(m, distribute)
    PROVE  Fine(n) /\ n.kind = m.kind /\ (n.life = m.life \/ n.life = "crashed")
<1> DEFINE s == Setup(m)
<1>1. /\ Sound(s, reach) /\ s.kind = m.kind /\ s.life = m.life /\ Uncalled(s)
      /\ s.goal = s.level.dest
  BY SetupSound DEF Uncalled
<1>2. /\ distribute => n = RegisterLevel(s)
      /\ ~distribute =>
           \/ n \in BuildLevelPath(s)
           \/ \E b \in BuildLevelPath(s) :
                 \/ n = b
                 \/ b.life # "crashed" /\ n \in ProcessDetail(SelectIntermediate(b))
  BY DEF LevelStage
<1> HIDE DEF s
<1>3. CASE distribute
  BY <1>1, <1>2, <1>3, RegisterLevelFine DEF Uncalled
<1>4. ASSUME NEW b \in BuildLevelPath(s)
      PROVE  /\ Sound(b, reach) /\ Uncalled(b) /\ b.kind = m.kind
             /\ b.life = m.life \/ b.life = "crashed"
  BY <1>1, BuildLevelPathSound DEF Uncalled
<1>5. ASSUME NEW b \in BuildLevelPath(s), b.life # "crashed",
             n \in ProcessDetail(SelectIntermediate(b))
      PROVE  /\ Sound(n, reach) /\ Uncalled(n) /\ n.kind = m.kind
             /\ n.life = m.life \/ n.life = "crashed"
  <2> DEFINE i == [[b EXCEPT !.state = "BuildDetail"] EXCEPT !.wait = FALSE]
  <2>1. n \in BuildDetail(i)
    BY <1>5 DEF ProcessDetail, SelectIntermediate
  <2>2. /\ i \in Creature /\ i.level = b.level /\ i.actual = b.actual /\ i.calls = b.calls
        /\ ~i.wait /\ i.kind = b.kind /\ i.life = b.life /\ i.backoff = b.backoff
        /\ i.fails = b.fails
    <3> DEFINE j == [b EXCEPT !.state = "BuildDetail"]
    <3>1. /\ j \in Creature /\ j.level = b.level /\ j.actual = b.actual /\ j.calls = b.calls
          /\ j.kind = b.kind /\ j.life = b.life /\ j.backoff = b.backoff /\ j.fails = b.fails
      BY <1>4 DEF Sound, Creature
    <3>2. i = [j EXCEPT !.wait = FALSE]
      OBVIOUS
    <3> HIDE DEF i, j
    <3>3. QED
      BY <3>1, <3>2 DEF Creature
  <2> HIDE DEF i
  <2>3. Sound(n, reach) /\ SameRest(i, n)
    BY <1>4, <1>5, <2>1, <2>2, BuildDetailSound DEF Sound, Remembers, Paths
  <2>4. QED
    BY <1>4, <2>2, <2>3 DEF SameRest, Uncalled
<1>6. CASE ~distribute
  <2>1. /\ Sound(n, reach) /\ Uncalled(n) /\ n.kind = m.kind
        /\ n.life = m.life \/ n.life = "crashed"
    BY <1>2, <1>4, <1>5, <1>6
  <2>2. QED
    BY <2>1 DEF Fine, Latched, Awaited, Uncalled
<1>7. QED
  BY <1>3, <1>6

-----------------------------------------------------------------------------
(* The movement manager. *)

\* Only where the creature stands in its search, and what it asked for, changes.
LEMMA StateFine ==
    ASSUME NEW m, Sound(m, reach), NEW n \in Creature,
           n.level = m.level, n.detail = m.detail, n.actual = m.actual,
           n.goal = m.goal, n.calls = m.calls, n.wait = m.wait, n.life = m.life,
           n.backoff = m.backoff, n.fails = m.fails, n.resting = m.resting
    PROVE  Sound(n, reach) /\ (Fine(m) => Fine(n))
BY DEF Fine, Sound, Remembers, Paths, Latched, Awaited, BackingOff

LEMMA VerifyFine ==
    ASSUME NEW m, Sound(m, reach), Fine(m)
    PROVE  Fine(Verify(m)) /\ Verify(m).kind = m.kind /\ Verify(m).life = m.life
<1> DEFINE n == Verify(m)
<1>1. \E st \in {"Build", "Completed", m.state} : n = [m EXCEPT !.state = st]
  BY DEF Verify, Sound, Creature
<1>2. PICK st \in {"Build", "Completed", m.state} : n = [m EXCEPT !.state = st]
  BY <1>1
<1> HIDE DEF n
<1>3. n \in Creature
  BY <1>2 DEF Sound, Creature
<1>4. /\ n.level = m.level /\ n.detail = m.detail /\ n.actual = m.actual
      /\ n.goal = m.goal /\ n.calls = m.calls /\ n.wait = m.wait /\ n.life = m.life
      /\ n.backoff = m.backoff /\ n.fails = m.fails /\ n.resting = m.resting
      /\ n.kind = m.kind
  BY <1>2 DEF Sound, Creature
<1>5. QED
  BY <1>3, <1>4, StateFine DEF n

LEMMA ProcessLevelPathFine ==
    ASSUME NEW m, Sound(m, reach), m.life # "crashed", Uncalled(m), at \in Targets,
           NEW n \in ProcessLevelPath(m)
    PROVE  Fine(n) /\ n.kind = m.kind /\ (n.life = m.life \/ n.life = "crashed")
<1> DEFINE b == [m EXCEPT !.state = "Build"]
<1>1. \/ \E d \in MayDistribute(m) : n \in LevelStage(b, d)
      \/ n = Verify(m)
  BY DEF ProcessLevelPath
<1>2. /\ b \in Creature /\ b.kind = m.kind
      /\ b.level = m.level /\ b.detail = m.detail /\ b.actual = m.actual
      /\ b.goal = m.goal /\ b.calls = m.calls /\ b.wait = m.wait /\ b.life = m.life
      /\ b.backoff = m.backoff /\ b.fails = m.fails /\ b.resting = m.resting
  BY DEF Sound, Creature
<1> HIDE DEF b
<1>3. Sound(b, reach) /\ Uncalled(b)
  BY <1>2, StateFine DEF Uncalled
<1>4. MayDistribute(m) \subseteq BOOLEAN
  BY DEF MayDistribute
<1>5. Fine(m)
  BY DEF Fine, Latched, Awaited, Uncalled
<1>6. CASE \E d \in MayDistribute(m) : n \in LevelStage(b, d)
  BY <1>2, <1>3, <1>4, <1>6, LevelStageFine
<1>7. CASE n = Verify(m)
  BY <1>5, <1>7, VerifyFine
<1>8. QED
  BY <1>1, <1>6, <1>7

LEMMA StartAnewSound ==
    ASSUME NEW m, Sound(m, reach), m.life # "crashed", Uncalled(m), acc \in SUBSET Targets,
           NEW n \in StartAnew(m)
    PROVE  Sound(n, reach) /\ Uncalled(n) /\ n.kind = m.kind /\ n.life = m.life
<1> DEFINE st == IF m.type = "level" THEN "Build" ELSE "Dummy"
           b == [m EXCEPT !.actual = TRUE, !.level.actual = FALSE, !.state = st]
<1>1. \/ n = b
      \/ \E t \in acc : n = SetDestPosition(SetDestVertex(b, t), t)
      \/ n = SetDestPosition(b, m.level.dest)
  BY DEF StartAnew
<1>2. st \in {"Build", "Dummy"}
  OBVIOUS
<1> HIDE DEF st
<1>3. b \in Creature
  BY <1>2 DEF Sound, Creature
<1>4. /\ b.kind = m.kind /\ b.life = m.life /\ b.calls = m.calls /\ b.wait = m.wait
      /\ b.backoff = m.backoff /\ b.fails = m.fails /\ b.detail = m.detail
      /\ b.level.path = m.level.path /\ b.level.dest = m.level.dest
      /\ b.level.bad = m.level.bad /\ ~b.level.actual
  BY DEF Sound, Creature
<1> HIDE DEF b
<1>5. Sound(b, reach) /\ Uncalled(b)
  BY <1>3, <1>4 DEF Sound, Remembers, Paths, Uncalled
<1>6. ASSUME NEW t \in acc, n = SetDestPosition(SetDestVertex(b, t), t)
      PROVE  Sound(n, reach) /\ SameCall(b, n)
  <2>1. Sound(SetDestVertex(b, t), reach) /\ SameCall(b, SetDestVertex(b, t))
    BY <1>5, SetDestVertexSound
  <2>2. Sound(n, reach) /\ SameCall(SetDestVertex(b, t), n)
    BY <1>6, <2>1, SetDestPositionSound
  <2>3. QED
    BY <2>1, <2>2 DEF SameCall
<1>7. CASE n = SetDestPosition(b, m.level.dest)
  <2>1. Sound(n, reach) /\ SameCall(b, n)
    BY <1>4, <1>5, <1>7, SetDestPositionSound
  <2>2. QED
    BY <1>4, <1>5, <2>1 DEF SameCall, Uncalled
<1>8. QED
  BY <1>1, <1>4, <1>5, <1>6, <1>7 DEF SameCall, Uncalled

\* An update leaves a creature as it should be, whatever it was asked for.
LEMMA UpdatePathFine ==
    ASSUME NEW m, Fine(m), m.life # "crashed", at \in Targets, acc \in SUBSET Targets,
           NEW n \in UpdatePath(m)
    PROVE  Fine(n) /\ n.kind = m.kind /\ (n.life = m.life \/ n.life = "crashed")
<1>1. CASE n = m
  BY <1>1
<1>2. CASE n # m
  <2> DEFINE b == [m EXCEPT !.restr = TRUE]
             begun == IF ~m.actual \/ ~m.restr THEN StartAnew(b) ELSE {b}
  <2>1. /\ ~m.wait
        /\ \E d \in IF m.type = "level" THEN UNION {ProcessLevelPath(e) : e \in begun}
                    ELSE begun : n = [d EXCEPT !.atOnce = FALSE]
    BY <1>2 DEF UpdatePath
  <2>2. Sound(m, reach) /\ Uncalled(m)
    BY <2>1 DEF Fine, Latched, Uncalled
  <2>3. /\ b \in Creature /\ b.kind = m.kind
        /\ b.level = m.level /\ b.detail = m.detail /\ b.actual = m.actual
        /\ b.goal = m.goal /\ b.calls = m.calls /\ b.wait = m.wait /\ b.life = m.life
        /\ b.backoff = m.backoff /\ b.fails = m.fails /\ b.resting = m.resting
    BY <2>2 DEF Sound, Creature
  <2> HIDE DEF b
  <2>4. Sound(b, reach) /\ Uncalled(b)
    BY <2>2, <2>3, StateFine DEF Uncalled
  <2>5. ASSUME NEW e \in begun
        PROVE  Sound(e, reach) /\ Uncalled(e) /\ e.kind = m.kind /\ e.life = m.life
    <3>1. e = b \/ e \in StartAnew(b)
      OBVIOUS
    <3>2. CASE e = b
      BY <2>3, <2>4, <3>2
    <3>3. CASE e \in StartAnew(b)
      BY <2>3, <2>4, <3>3, StartAnewSound
    <3>4. QED
      BY <3>1, <3>2, <3>3
  <2> HIDE DEF begun
  <2>6. PICK d : /\ n = [d EXCEPT !.atOnce = FALSE]
                 /\ \/ d \in begun
                    \/ \E e \in begun : d \in ProcessLevelPath(e)
    <3>1. PICK d \in IF m.type = "level" THEN UNION {ProcessLevelPath(e) : e \in begun}
                     ELSE begun : n = [d EXCEPT !.atOnce = FALSE]
      BY <2>1
    <3>2. d \in begun \/ \E e \in begun : d \in ProcessLevelPath(e)
      OBVIOUS
    <3>3. QED
      BY <3>1, <3>2
  <2>7. Fine(d) /\ d.kind = m.kind /\ (d.life = m.life \/ d.life = "crashed")
    <3>1. CASE d \in begun
      BY <2>5, <3>1 DEF Fine, Latched, Awaited, Uncalled
    <3>2. CASE \E e \in begun : d \in ProcessLevelPath(e)
      BY <2>5, <3>2, ProcessLevelPathFine
    <3>3. QED
      BY <2>6, <3>1, <3>2
  <2>8. /\ n \in Creature /\ n.kind = d.kind
        /\ n.level = d.level /\ n.detail = d.detail /\ n.actual = d.actual
        /\ n.goal = d.goal /\ n.calls = d.calls /\ n.wait = d.wait /\ n.life = d.life
        /\ n.backoff = d.backoff /\ n.fails = d.fails /\ n.resting = d.resting
    BY <2>6, <2>7 DEF Fine, Sound, Creature
  <2>9. QED
    BY <2>7, <2>8, StateFine DEF Fine
<1>3. QED
  BY <1>1, <1>2

LEMMA RebuildPathFine ==
    ASSUME NEW m, Fine(m), m.life # "crashed", at \in Targets, acc \in SUBSET Targets,
           NEW n \in RebuildPath(m)
    PROVE  Fine(n) /\ n.kind = m.kind /\ (n.life = m.life \/ n.life = "crashed")
<1> DEFINE b == [m EXCEPT !.level.actual = FALSE, !.atOnce = TRUE]
<1>1. b \in Creature
  BY DEF Fine, Sound, Creature
<1>2. /\ b.kind = m.kind /\ b.life = m.life /\ b.calls = m.calls /\ b.wait = m.wait
      /\ b.backoff = m.backoff /\ b.fails = m.fails /\ b.resting = m.resting
      /\ b.detail = m.detail /\ b.goal = m.goal /\ b.actual = m.actual
      /\ b.level.path = m.level.path /\ b.level.dest = m.level.dest
      /\ b.level.bad = m.level.bad /\ ~b.level.actual
  BY DEF Fine, Sound, Creature
<1>3. \E f \in UpdatePath(b) :
        \/ n = f
        \/ f.life # "crashed" /\ n \in UpdatePath([f EXCEPT !.atOnce = TRUE])
  BY DEF RebuildPath
<1> HIDE DEF b
<1>4. Fine(b)
  BY <1>1, <1>2 DEF Fine, Sound, Remembers, Paths, Latched, Awaited, BackingOff
<1>5. PICK f \in UpdatePath(b) :
        \/ n = f
        \/ f.life # "crashed" /\ n \in UpdatePath([f EXCEPT !.atOnce = TRUE])
  BY <1>3
<1>6. Fine(f) /\ f.kind = m.kind /\ (f.life = m.life \/ f.life = "crashed")
  BY <1>2, <1>4, UpdatePathFine
<1>7. CASE f.life # "crashed" /\ n \in UpdatePath([f EXCEPT !.atOnce = TRUE])
  <2> DEFINE g == [f EXCEPT !.atOnce = TRUE]
  <2>1. /\ g \in Creature /\ g.kind = f.kind
        /\ g.level = f.level /\ g.detail = f.detail /\ g.actual = f.actual
        /\ g.goal = f.goal /\ g.calls = f.calls /\ g.wait = f.wait /\ g.life = f.life
        /\ g.backoff = f.backoff /\ g.fails = f.fails /\ g.resting = f.resting
    BY <1>6 DEF Fine, Sound, Creature
  <2>2. n \in UpdatePath(g)
    BY <1>7
  <2> HIDE DEF g
  <2>3. Fine(g)
    BY <1>6, <2>1, StateFine DEF Fine
  <2>4. QED
    BY <1>6, <1>7, <2>1, <2>2, <2>3, UpdatePathFine
<1>8. QED
  BY <1>5, <1>6, <1>7

-----------------------------------------------------------------------------
(* The invariant. *)

LEMMA FreshTyped == ASSUME NEW k \in Kinds PROVE Fresh(k) \in Creature
<1>1. MaxFails \in Nat /\ 0 \in 0..MaxFails
  BY PathBuildersAssumption
<1>2. QED
  BY <1>1 DEF Fresh, Creature, Vertices

LEMMA InvInit == Init => Inv
<1> SUFFICES ASSUME Init PROVE Inv
  OBVIOUS
<1>1. PICK k \in Kinds : c = Fresh(k)
  BY DEF Init
<1>3. Fresh(k) \in Creature
  BY FreshTyped
<1>4. Sound(Fresh(k), reach) /\ Latched(Fresh(k)) /\ Awaited(Fresh(k))
  BY <1>3 DEF Sound, Remembers, Paths, Latched, Awaited, BackingOff, Fresh
<1>5. Fresh(k).life = "live" /\ Fresh(k).calls = 0
  BY DEF Fresh
<1>6. at \in Targets /\ acc = Targets /\ reach \in SUBSET Targets /\ phase = "sched"
  BY DEF Init
<1>7. QED
  BY <1>1, <1>4, <1>5, <1>6 DEF Inv, Phases

\* What a step that replaces the creature by a fine one leaves to show.
LEMMA FineStep ==
    ASSUME Inv, c' \in {n \in Creature : Fine(n)}, at' \in Targets,
           UNCHANGED <<acc, reach>>, phase' \in Phases,
           c'.life = "absent" => c'.calls = 0,
           c'.kind = "stalker" /\ phase' = "sched" => c'.calls = 0
    PROVE  Inv'
BY DEF Inv, Fine, Sound, Latched, Awaited, Remembers, Paths, BackingOff

\* Fine is kept by what keeps the call and makes a search no more awaited.
LEMMA FineKept ==
    ASSUME NEW m, Fine(m), NEW n, Sound(n, reach), SameCall(m, n), Awaited(m) => Awaited(n)
    PROVE  Fine(n)
BY DEF Fine, SameCall, Latched, BackingOff

LEMMA AwaitedKept ==
    ASSUME NEW m, NEW n, SameCall(m, n), n.level = m.level, n.actual = m.actual, Awaited(m)
    PROVE  Awaited(n)
BY DEF Awaited, SameCall

\* A monster asks for a path: movement, kind of path, target.
LEMMA AskFine ==
    ASSUME NEW m, Fine(m), NEW on \in BOOLEAN, NEW moved \in BOOLEAN, NEW t \in Targets
    PROVE  LET e == EnableMovement(m, on, moved)
               n == SetLevelDestVertex(SetDestPosition(SetPathType(e, "level"), t), t) IN
           /\ Fine(e) /\ e.kind = m.kind /\ e.life = m.life /\ e.calls = m.calls
           /\ Fine(n) /\ n.kind = m.kind /\ n.life = m.life /\ n.calls = m.calls
<1> DEFINE e == EnableMovement(m, on, moved)
           p == SetPathType(e, "level")
           d == SetDestPosition(p, t)
           n == SetLevelDestVertex(d, t)
<1>1. Fine(e) /\ SameCall(m, e)
  BY EnableMovementSound, FineKept DEF Fine
<1> HIDE DEF e
<1>2. Fine(p) /\ SameCall(e, p)
  BY <1>1, SetPathTypeSound, FineKept DEF Fine
<1> HIDE DEF p
<1>3. Fine(d) /\ SameCall(p, d)
  BY <1>2, SetDestPositionSound, FineKept, AwaitedKept DEF Fine
<1> HIDE DEF d
<1>4. Fine(n) /\ SameCall(d, n)
  BY <1>3, SetLevelDestVertexSound, FineKept DEF Fine
<1>5. QED
  BY <1>1, <1>2, <1>3, <1>4 DEF SameCall, e, p, d

LEMMA MonsterThinksSafe ==
    ASSUME Inv, NEW t \in Targets, NEW on \in BOOLEAN, NEW moved \in BOOLEAN,
           MonsterThinks(t, on, moved)
    PROVE  Inv'
<1> DEFINE e == EnableMovement(c, on, moved)
           n == SetLevelDestVertex(SetDestPosition(SetPathType(e, "level"), t), t)
<1>1. /\ Fine(e) /\ e.kind = c.kind /\ e.life = c.life
      /\ Fine(n) /\ n.kind = c.kind /\ n.life = c.life
  BY AskFine DEF Inv, Fine
<1>2. c' \in UpdatePath(IF on THEN n ELSE e)
  BY DEF MonsterThinks
<1> HIDE DEF e, n
<1>3. Fine(c') /\ c'.kind = c.kind /\ (c'.life = c.life \/ c'.life = "crashed")
  BY <1>1, <1>2, UpdatePathFine DEF Inv, MonsterThinks
<1>4. QED
  BY <1>3, FineStep DEF MonsterThinks, Phases, Inv, Fine, Sound

\* For a creature that no call waits for, what is asked matters to no search.
LEMMA SetupMovementFine ==
    ASSUME NEW m, Sound(m, reach), Uncalled(m), acc \in SUBSET Targets,
           NEW n \in SetupMovement(m)
    PROVE  Fine(n) /\ n.kind = m.kind /\ n.life = m.life
<1> DEFINE p == SetPathType(m, "level")
<1>1. Sound(p, reach) /\ SameCall(m, p)
  BY SetPathTypeSound
<1>2. \/ \E t \in acc : n = SetDestPosition(SetDestVertex(p, t), t)
      \/ n = SetDestPosition(p, p.level.dest)
  BY DEF SetupMovement
<1> HIDE DEF p
<1>3. ASSUME NEW t \in acc, n = SetDestPosition(SetDestVertex(p, t), t)
      PROVE  Sound(n, reach) /\ SameCall(p, n)
  <2>1. Sound(SetDestVertex(p, t), reach) /\ SameCall(p, SetDestVertex(p, t))
    BY <1>1, SetDestVertexSound
  <2>2. Sound(n, reach) /\ SameCall(SetDestVertex(p, t), n)
    BY <1>3, <2>1, SetDestPositionSound
  <2>3. QED
    BY <2>1, <2>2 DEF SameCall
<1>4. ASSUME n = SetDestPosition(p, p.level.dest)
      PROVE  Sound(n, reach) /\ SameCall(p, n)
  <2>1. PICK t : t = p.level.dest /\ t \in Targets \cup {p.level.dest}
    OBVIOUS
  <2>2. Sound(SetDestPosition(p, t), reach) /\ SameCall(p, SetDestPosition(p, t))
    BY <1>1, <2>1, SetDestPositionSound
  <2>3. QED
    BY <1>4, <2>1, <2>2
<1>5. Sound(n, reach) /\ SameCall(p, n)
  BY <1>2, <1>3, <1>4
<1>6. QED
  BY <1>1, <1>5 DEF SameCall, Uncalled, Fine, Latched, Awaited

LEMMA ClearPathSound ==
    ASSUME NEW m, Sound(m, reach), Uncalled(m)
    PROVE  LET n == ClearPath(m) IN
           Sound(n, reach) /\ Uncalled(n) /\ n.kind = m.kind /\ n.life = m.life
<1> DEFINE d == [m.detail EXCEPT !.along = None, !.to = None, !.done = FALSE]
           n == ClearPath(m)
<1>1. n = [m EXCEPT !.wait = FALSE, !.detail = d]
  BY DEF ClearPath, RemoveDetail, Sound, Creature
<1>2. d \in [dest : Vertices, actual : BOOLEAN, failed : BOOLEAN,
            along : Vertices, to : Vertices, done : BOOLEAN] /\ d.to = None
  BY DEF Sound, Creature, Vertices
<1> HIDE DEF d, n
<1>3. n \in Creature
  BY <1>1, <1>2 DEF Sound, Creature
<1>4. /\ n.level = m.level /\ n.detail = d /\ n.actual = m.actual /\ n.calls = m.calls
      /\ ~n.wait /\ n.kind = m.kind /\ n.life = m.life
      /\ n.backoff = m.backoff /\ n.fails = m.fails
  BY <1>1 DEF Sound, Creature
<1>5. QED
  BY <1>2, <1>3, <1>4 DEF Sound, Remembers, Paths, Uncalled, n

LEMMA StalkerThinksSafe ==
    ASSUME Inv, NEW t \in Targets, NEW fight \in BOOLEAN, StalkerThinks(t, fight)
    PROVE  Inv'
<1> DEFINE n == IF fight THEN ClearPath(c) ELSE c
           a == IF t \in acc THEN SetLevelDestVertex(n, t) ELSE n
<1>1. Sound(c, reach) /\ Uncalled(c) /\ c.life = "live" /\ c.kind = "stalker"
  BY DEF Inv, StalkerThinks, Latched, Uncalled
<1>2. Sound(n, reach) /\ Uncalled(n) /\ n.life = "live" /\ n.kind = "stalker"
  BY <1>1, ClearPathSound
<1>3. c' = a \/ \E m \in SetupMovement(a) : c' \in UpdatePath(m)
  BY DEF StalkerThinks
<1> HIDE DEF n
<1>4. Sound(a, reach) /\ Uncalled(a) /\ a.life = "live" /\ a.kind = "stalker"
  BY <1>2, SetLevelDestVertexSound DEF SameCall, Uncalled
<1> HIDE DEF a
<1>5. CASE c' = a
  <2>1. Fine(c') /\ c'.life = "live"
    BY <1>4, <1>5 DEF Fine, Latched, Awaited, Uncalled
  <2>2. QED
    BY <2>1, FineStep DEF StalkerThinks, Phases, Inv, Fine, Sound
<1>6. CASE \E m \in SetupMovement(a) : c' \in UpdatePath(m)
  <2>1. PICK m \in SetupMovement(a) : c' \in UpdatePath(m)
    BY <1>6
  <2>2. Fine(m) /\ m.life = "live"
    BY <1>4, SetupMovementFine DEF Inv
  <2>3. Fine(c') /\ (c'.life = "live" \/ c'.life = "crashed")
    BY <2>1, <2>2, UpdatePathFine DEF Inv
  <2>4. QED
    BY <2>3, FineStep DEF StalkerThinks, Phases, Inv, Fine, Sound
<1>7. QED
  BY <1>3, <1>5, <1>6

LEMMA OnFrameSafe ==
    ASSUME Inv, NEW obstacle \in BOOLEAN, NEW arrives \in BOOLEAN, OnFrame(obstacle, arrives)
    PROVE  Inv'
<1>1. Fine(c) /\ c.life \in {"live", "doomed"}
  BY DEF Inv, Fine, OnFrame, Alive
<1>2. PICK m \in IF c.state \in {"Verification", "Completed"} THEN {c} ELSE UpdatePath(c) :
      \E n \in IF obstacle /\ m.life # "crashed" THEN RebuildPath(m) ELSE {m} :
         IF arrives
         THEN /\ Moves(n) /\ n.life # "crashed"
              /\ c' = [n EXCEPT !.detail.done = TRUE] /\ at' = n.detail.to
         ELSE c' = n /\ at' = at
  BY DEF OnFrame
<1>3. Fine(m) /\ m.life \in {"live", "doomed", "crashed"}
  BY <1>1, UpdatePathFine DEF Inv
<1>4. PICK n \in IF obstacle /\ m.life # "crashed" THEN RebuildPath(m) ELSE {m} :
         IF arrives
         THEN /\ Moves(n) /\ n.life # "crashed"
              /\ c' = [n EXCEPT !.detail.done = TRUE] /\ at' = n.detail.to
         ELSE c' = n /\ at' = at
  BY <1>2
<1>5. Fine(n) /\ n.life \in {"live", "doomed", "crashed"}
  BY <1>3, RebuildPathFine DEF Inv
<1>6. Fine(c') /\ c'.life # "absent" /\ at' \in Targets
  <2>1. CASE arrives
    <3>1. c' = [n EXCEPT !.detail.done = TRUE] /\ at' = n.detail.to /\ Moves(n)
      BY <1>4, <2>1
    <3>2. c' \in Creature
      BY <1>5, <3>1 DEF Fine, Sound, Creature
    <3>3. /\ c'.level = n.level /\ c'.actual = n.actual
          /\ c'.goal = n.goal /\ c'.calls = n.calls /\ c'.wait = n.wait /\ c'.life = n.life
          /\ c'.backoff = n.backoff /\ c'.fails = n.fails /\ c'.resting = n.resting
          /\ c'.detail.actual = n.detail.actual /\ c'.detail.to = n.detail.to
          /\ c'.detail.dest = n.detail.dest /\ c'.detail.along = n.detail.along
      BY <1>5, <3>1 DEF Fine, Sound, Creature
    <3>4. Fine(c')
      BY <1>5, <3>2, <3>3 DEF Fine, Sound, Remembers, Paths, Latched, Awaited, BackingOff
    <3>5. at' \in Targets
      BY <1>5, <3>1 DEF Moves, Fine, Sound, Creature, Vertices
    <3>6. QED
      BY <1>5, <3>3, <3>4, <3>5
  <2>2. CASE ~arrives
    BY <1>4, <1>5, <2>2 DEF Inv
  <2>3. QED
    BY <2>1, <2>2
<1>7. QED
  BY <1>6, FineStep DEF OnFrame, Phases, Inv, Fine, Sound

LEMMA RequestsSafe ==
    ASSUME Inv,
           \/ \E t \in Targets : ScriptSetsDest(t)
           \/ \E on, moved \in BOOLEAN : Enable(on, moved)
           \/ \E t \in Targets, moved \in BOOLEAN : BuildSpecial(t, moved)
    PROVE  Inv'
<1>1. Fine(c) /\ (c.life # "absent" \/ c.calls = 0)
  BY DEF Inv, Fine
<1>2. ASSUME NEW t \in Targets, ScriptSetsDest(t)
      PROVE  Inv'
  <2>1. Fine(c') /\ SameCall(c, c')
    BY <1>1, <1>2, SetLevelDestVertexSound, FineKept DEF ScriptSetsDest, Fine
  <2>2. QED
    BY <1>1, <1>2, <2>1, FineStep DEF ScriptSetsDest, SameCall, Inv, Fine, Sound
<1>3. ASSUME NEW on \in BOOLEAN, NEW moved \in BOOLEAN, Enable(on, moved)
      PROVE  Inv'
  <2>1. Fine(c') /\ SameCall(c, c')
    BY <1>1, <1>3, EnableMovementSound, FineKept DEF Enable, Fine
  <2>2. QED
    BY <1>1, <1>3, <2>1, FineStep DEF Enable, SameCall, Inv, Fine, Sound
<1>4. ASSUME NEW t \in Targets, NEW moved \in BOOLEAN, BuildSpecial(t, moved)
      PROVE  Inv'
  <2> DEFINE n == SetLevelDestVertex(SetDestPosition(
                      SetPathType(EnableMovement(c, TRUE, moved), "level"), t), t)
             a == [n EXCEPT !.atOnce = TRUE]
  <2>1. Fine(n) /\ n.kind = "monster" /\ n.life \in {"live", "doomed"}
    BY <1>1, <1>4, AskFine DEF BuildSpecial, Alive
  <2>2. c' \in UpdatePath(a)
    BY <1>4 DEF BuildSpecial
  <2> HIDE DEF n
  <2>3. /\ a \in Creature /\ a.kind = n.kind
        /\ a.level = n.level /\ a.detail = n.detail /\ a.actual = n.actual
        /\ a.goal = n.goal /\ a.calls = n.calls /\ a.wait = n.wait /\ a.life = n.life
        /\ a.backoff = n.backoff /\ a.fails = n.fails /\ a.resting = n.resting
    BY <2>1 DEF Fine, Sound, Creature
  <2> HIDE DEF a
  <2>4. Fine(a)
    BY <2>1, <2>3, StateFine DEF Fine
  <2>5. Fine(c') /\ c'.kind = "monster" /\ c'.life # "absent"
    BY <2>1, <2>2, <2>3, <2>4, UpdatePathFine DEF Inv
  <2>6. QED
    BY <1>4, <2>5, FineStep DEF BuildSpecial, Inv, Fine, Sound
<1>5. QED
  BY <1>2, <1>3, <1>4

\* Other restrictions: the search remembered as hopeless is forgotten with them.
LEMMA RestrictSafe == ASSUME Inv, Restrict PROVE Inv'
<1> DEFINE n == OnRestrictionsChange(c)
<1>1. /\ n \in Creature /\ n.life = c.life /\ n.calls = 0 /\ ~n.wait
      /\ n.backoff = c.backoff /\ n.fails = c.fails
      /\ n.detail = c.detail /\ ~n.actual /\ n.level.bad[2] = None
      /\ n.level.path = c.level.path
  <2> DEFINE l == [c.level EXCEPT !.bad = <<None, None>>]
  <2>1. /\ l \in [dest : Vertices, actual : BOOLEAN, failed : BOOLEAN, path : Vertices,
                  bad : Vertices \X Vertices]
        /\ l.bad[2] = None /\ l.path = c.level.path
    BY DEF Inv, Sound, Creature, Vertices
  <2>2. n = [c EXCEPT !.wait = FALSE, !.calls = 0, !.actual = FALSE, !.restr = FALSE,
                      !.level = l]
    BY DEF OnRestrictionsChange, RemoveBoth, RemoveDetail, RemoveLevel, Inv, Sound, Creature
  <2> HIDE DEF l, n
  <2>3. QED
    BY <2>1, <2>2 DEF Inv, Sound, Creature
<1>2. c' = n /\ at' = at /\ phase' = phase /\ acc' \in SUBSET Targets /\ reach' \in SUBSET acc'
  BY DEF Restrict
<1> HIDE DEF n
<1>3. Sound(n, reach') /\ Latched(n) /\ Awaited(n)
  BY <1>1 DEF Inv, Sound, Remembers, Paths, Latched, Awaited
<1>4. Sound(c, reach)' /\ Latched(c)' /\ Awaited(c)'
  BY <1>2, <1>3 DEF Sound, Remembers, Paths, Latched, Awaited, BackingOff
<1>5. QED
  BY <1>1, <1>2, <1>4 DEF Inv

LEMMA DoomSafe == ASSUME Inv, Doom PROVE Inv'
<1>1. c' = [c EXCEPT !.life = "doomed"] /\ UNCHANGED <<at, acc, reach, phase>>
  BY DEF Doom
<1>2. /\ c' \in Creature /\ c'.kind = c.kind /\ c'.life = "doomed"
      /\ c'.level = c.level /\ c'.detail = c.detail /\ c'.actual = c.actual
      /\ c'.goal = c.goal /\ c'.calls = c.calls /\ c'.wait = c.wait
      /\ c'.backoff = c.backoff /\ c'.fails = c.fails /\ c'.resting = c.resting
  BY <1>1 DEF Inv, Sound, Creature
<1>3. Fine(c')
  BY <1>2 DEF Doom, Inv, Fine, Sound, Remembers, Paths, Latched, Awaited, BackingOff
<1>4. QED
  BY <1>1, <1>2, <1>3, FineStep DEF Inv, Fine, Sound

\* A creature that is new, or gone, waits for nothing.
LEMMA FreshFine ==
    ASSUME NEW k \in Kinds, NEW life \in {"live", "absent"}
    PROVE  LET n == [Fresh(k) EXCEPT !.life = life, !.calls = 0] IN
           Fine(n) /\ n.calls = 0 /\ n.life = life
<1> DEFINE n == [Fresh(k) EXCEPT !.life = life, !.calls = 0]
<1>2. Fresh(k) \in Creature
  BY FreshTyped
<1>3. n \in Creature
  BY <1>2 DEF Creature
<1>4. /\ n.life = life /\ n.calls = 0 /\ ~n.wait /\ n.level.bad[2] = None
      /\ n.detail.to = None /\ ~n.level.actual /\ ~n.backoff
  BY DEF Fresh
<1>5. QED
  BY <1>3, <1>4 DEF Fine, Sound, Remembers, Paths, Latched, Awaited

LEMMA LifeSafe ==
    ASSUME Inv, DestroyDoomed \/ \E k \in Kinds, v \in Targets : Spawn(k, v)
    PROVE  Inv'
<1>1. CASE DestroyDoomed /\ c.life # "doomed"
  BY <1>1 DEF DestroyDoomed, Inv, Sound, Latched, Awaited, Remembers, Paths, BackingOff, Phases
<1>2. CASE DestroyDoomed /\ c.life = "doomed"
  <2>1. NetDestroy(c).calls = 0 /\ c.kind \in Kinds
    BY DEF NetDestroy, RemoveBoth, RemoveDetail, RemoveLevel, Inv, Sound, Creature
  <2>2. c' = [Fresh(c.kind) EXCEPT !.life = "absent", !.calls = 0]
    BY <1>2, <2>1 DEF DestroyDoomed
  <2>3. Fine(c') /\ c'.calls = 0
    BY <2>1, <2>2, FreshFine
  <2>4. QED
    BY <1>2, <2>3, FineStep DEF DestroyDoomed, Inv, Fine, Sound, Phases
<1>3. ASSUME NEW k \in Kinds, NEW v \in Targets, Spawn(k, v)
      PROVE  Inv'
  <2>1. c.calls = 0 /\ c' = [Fresh(k) EXCEPT !.calls = 0]
    BY <1>3 DEF Spawn, Inv
  <2>2. c' = [Fresh(k) EXCEPT !.life = "live", !.calls = 0]
    <3> DEFINE f == Fresh(k)
    <3>1. f = [f EXCEPT !.life = "live"]
      <4>1. f \in Creature /\ f.life = "live"
        BY <2>1, FreshTyped DEF Fresh
      <4> HIDE DEF f
      <4>2. QED
        BY <4>1 DEF Creature
    <3>2. [[f EXCEPT !.life = "live"] EXCEPT !.calls = 0]
             = [f EXCEPT !.life = "live", !.calls = 0]
      OBVIOUS
    <3> HIDE DEF f
    <3>3. c' = [f EXCEPT !.life = "live", !.calls = 0]
      BY <2>1, <3>1, <3>2 DEF f
    <3>4. QED
      BY <3>3 DEF f
  <2>3. Fine(c') /\ c'.calls = 0
    BY <2>2, FreshFine
  <2>4. /\ at' \in Targets /\ acc' = Targets /\ reach' \in SUBSET Targets /\ phase' = phase
        /\ c'.life = "live" /\ c'.level.bad[2] = None
    BY <1>3, <2>2 DEF Spawn, Fresh
  <2>5. Sound(c, reach)' /\ Latched(c)' /\ Awaited(c)'
    BY <2>3, <2>4 DEF Fine, Sound, Remembers, Paths, Latched, Awaited, BackingOff
  <2>6. QED
    BY <2>3, <2>4, <2>5 DEF Inv
<1>4. QED
  BY <1>1, <1>2, <1>3

LEMMA CountFailureSound ==
    ASSUME NEW m, Sound(m, reach), ~m.backoff
    PROVE  LET n == CountFailure(m) IN
           Sound(n, reach) /\ n.life = m.life /\ n.calls = m.calls /\ n.wait = m.wait
<1> DEFINE f == IF m.level.failed
                THEN IF m.fails < MaxFails THEN m.fails + 1 ELSE m.fails
                ELSE 0
           b == m.level.failed /\ m.fails + 1 >= MaxFails
           n == CountFailure(m)
<1>1. MaxFails \in Nat \ {0} /\ m.fails \in 0..MaxFails
  BY PathBuildersAssumption DEF Sound, Creature
<1>2. f \in 0..MaxFails /\ b \in BOOLEAN /\ (b => f = MaxFails)
  BY <1>1
<1>3. n = [m EXCEPT !.fails = f, !.backoff = b]
  <2>1. m = [m EXCEPT !.backoff = FALSE]
    BY DEF Sound, Creature
  <2>2. CASE m.level.failed
    BY <2>2 DEF CountFailure
  <2>3. CASE ~m.level.failed
    <3>1. n = [m EXCEPT !.fails = 0]
      BY <2>3 DEF CountFailure
    <3>2. [[m EXCEPT !.backoff = FALSE] EXCEPT !.fails = 0]
             = [m EXCEPT !.fails = 0, !.backoff = FALSE]
      OBVIOUS
    <3>3. f = 0 /\ b = FALSE
      BY <2>3
    <3>4. QED
      BY <2>1, <3>1, <3>2, <3>3
  <2>4. QED
    BY <2>2, <2>3
<1> HIDE DEF f, b, n
<1>4. n \in Creature
  BY <1>2, <1>3 DEF Sound, Creature
<1>5. /\ n.level = m.level /\ n.detail = m.detail /\ n.actual = m.actual
      /\ n.calls = m.calls /\ n.wait = m.wait /\ n.life = m.life
      /\ n.backoff = b /\ n.fails = f
  BY <1>3 DEF Sound, Creature
<1>6. QED
  BY <1>2, <1>4, <1>5 DEF Sound, Remembers, Paths, n

\* The call finds the creature awaiting it and opens the latch.
LEMMA CallSafe == ASSUME Inv, Call PROVE Inv'
<1> DEFINE l == [c EXCEPT !.calls = 0]
<1>1. c.calls = 1 /\ ~BackingOff(c) /\ c.life \in {"live", "doomed"}
  BY DEF Inv, Call, Latched, Alive
<1>2. [c EXCEPT !.calls = @ - 1] = l
  BY <1>1
<1>3. /\ l \in Creature /\ l.level = c.level /\ l.detail = c.detail /\ l.actual = c.actual
      /\ l.goal = c.goal /\ l.calls = 0 /\ l.life = c.life
      /\ l.backoff = c.backoff /\ l.fails = c.fails /\ l.resting = c.resting
  BY DEF Inv, Sound, Creature
<1>4. c' \in ProcessLevel(l)
  BY <1>2 DEF Call
<1> HIDE DEF l
<1>5. Sound(l, reach) /\ l.life # "crashed" /\ (l.actual => l.goal = l.level.dest)
  BY <1>1, <1>3 DEF Inv, Sound, Remembers, Paths, Awaited
<1>6. ~BackingOff(l) /\ ~l.backoff
  BY <1>1, <1>3 DEF BackingOff
<1>7. PICK n \in BuildLevelPath(l) : c' = CountFailure(n)
  BY <1>4, <1>6 DEF ProcessLevel
<1>8. /\ Sound(n, reach) /\ ~n.backoff /\ n.calls = 0 /\ ~n.wait
      /\ n.life \in {"live", "doomed", "crashed"}
  BY <1>1, <1>3, <1>5, <1>6, BuildLevelPathSound
<1>9. Sound(c', reach) /\ c'.calls = 0 /\ ~c'.wait
  BY <1>7, <1>8, CountFailureSound
<1>10. Fine(c')
  BY <1>9 DEF Fine, Latched, Awaited
<1>11. QED
  BY <1>9, <1>10, FineStep DEF Call, Inv, Fine, Sound

LEMMA NextFrameSafe ==
    ASSUME Inv, NEW rested \in BOOLEAN, NEW resumed \in BOOLEAN, NextFrame(rested, resumed)
    PROVE  Inv'
<1> DEFINE a == c.resting /\ ~rested
           b == c.backoff /\ ~resumed
<1>1. a \in BOOLEAN /\ b \in BOOLEAN /\ (b => c.backoff)
  BY DEF Inv, Sound, Creature
<1>2. c' = [c EXCEPT !.resting = a, !.backoff = b] /\ c.calls = 0
  BY DEF NextFrame
<1> HIDE DEF a, b
<1>3. c' \in Creature
  <2>1. c \in Creature
    BY DEF Inv, Sound
  <2>2. [c EXCEPT !.resting = a] \in Creature
    BY <1>1, <2>1 DEF Creature
  <2>3. PICK r \in Creature : r = [c EXCEPT !.resting = a]
    BY <2>2
  <2>4. [r EXCEPT !.backoff = b] \in Creature
    BY <1>1 DEF Creature
  <2>5. c' = [r EXCEPT !.backoff = b]
    BY <1>2, <2>3
  <2>6. QED
    BY <2>4, <2>5
<1>4. /\ c'.level = c.level /\ c'.detail = c.detail /\ c'.actual = c.actual
      /\ c'.calls = 0 /\ c'.wait = c.wait /\ c'.life = c.life
      /\ c'.backoff = b /\ c'.fails = c.fails
  BY <1>2 DEF Inv, Sound, Creature
<1>5. Fine(c')
  BY <1>1, <1>2, <1>3, <1>4 DEF Inv, Fine, Sound, Remembers, Paths, Latched, Awaited
<1>6. QED
  BY <1>4, <1>5, FineStep DEF NextFrame, Phases, Inv, Fine, Sound

LEMMA InvStep == Inv /\ [Next]_vars => Inv'
<1> SUFFICES ASSUME Inv, [Next]_vars PROVE Inv'
  OBVIOUS
<1>1. CASE Thinks
  BY <1>1, MonsterThinksSafe, StalkerThinksSafe DEF Thinks
<1>2. CASE Frame
  <2>1. CASE NotDue \/ NoFrame \/ UNCHANGED vars
    BY <2>1 DEF NotDue, NoFrame, vars, Inv, Sound, Latched, Awaited, Remembers, Paths,
             BackingOff, Phases
  <2>2. QED
    BY <1>2, <2>1, OnFrameSafe, LifeSafe, CallSafe, NextFrameSafe DEF Frame
<1>3. CASE UNCHANGED vars
  BY <1>3 DEF vars, Inv, Sound, Latched, Awaited, Remembers, Paths, BackingOff
<1>4. CASE \/ \E t \in Targets : ScriptSetsDest(t)
           \/ \E on, moved \in BOOLEAN : Enable(on, moved)
           \/ \E t \in Targets, moved \in BOOLEAN : BuildSpecial(t, moved)
  BY <1>4, RequestsSafe
<1>5. CASE Restrict \/ Doom
  BY <1>5, RestrictSafe, DoomSafe
<1>6. CASE \E k \in Kinds, v \in Targets : Spawn(k, v)
  BY <1>6, LifeSafe
<1>7. QED
  BY <1>1, <1>2, <1>3, <1>4, <1>5, <1>6 DEF Next

LEMMA InvHolds == Spec => []Inv
<1>1. Init => Inv
  BY InvInit
<1>2. Inv /\ [Next]_vars => Inv'
  BY InvStep
<1>3. QED
  BY <1>1, <1>2, PTL DEF Spec

-----------------------------------------------------------------------------
(* The results. *)

\* Types; and a stalker rests only after as many failures as earn it a rest
\* (m_consecutive_fails of the level path builder).
THEOREM TypeCorrect == Spec => []TypeOK
<1>1. Inv => TypeOK
  BY DEF Inv, Sound, TypeOK
<1>2. QED
  BY <1>1, InvHolds, PTL

\* The latch is shut exactly while one call of the creature's is left in
\* seqParallel, there is never a second one, and none outlives the creature:
\* m_wait_for_distributed_computation, in whatever order the scheduler, the
\* scripts, the attacks, the destruction and the worker come.
THEOREM LatchHolds == Spec => []LatchExact
<1>1. Inv => LatchExact
  BY DEF Inv, Latched, LatchExact
<1>2. QED
  BY <1>1, InvHolds, PTL

\* A path that counts as built leads where the creature is going now, although
\* its target may be set while the search for the old one waits (actual_all).
THEOREM FreshHolds == Spec => []PathFresh
<1>1. Inv => PathFresh
  BY DEF Inv, Sound, Paths, PathFresh, PathBuilt, Alive
<1>2. QED
  BY <1>1, InvHolds, PTL

\* A search remembered as hopeless is hopeless under the present restrictions
\* (m_failed_dest_vertex_id).
THEOREM FailureHolds == Spec => []FailureTrue
<1>1. Inv => FailureTrue
  BY DEF Inv, Sound, Remembers, FailureTrue
<1>2. QED
  BY <1>1, InvHolds, PTL
=============================================================================
