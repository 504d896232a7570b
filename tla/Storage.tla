------------------------------- MODULE Storage -------------------------------
(***************************************************************************)
(* Saved games: CALifeStorageManager (src/src/xrGame) over the engine's    *)
(* file system CLocatorAPI (src/src/xrCore), which keeps a catalogue of    *)
(* its own, m_files, next to the directory on disk.                        *)
(*                                                                         *)
(* A save is written to a temporary file that then replaces the former     *)
(* save; the process may be killed between any two calls of the operating  *)
(* system.  A change of level saves, throws the world away and loads what  *)
(* it has saved.  A state of the game is a number, a file what it has of   *)
(* such a state.  Everything runs on the main thread, so that the game     *)
(* stands still while it is saved.                                         *)
(***************************************************************************)
EXTENDS Naturals, FiniteSets

CONSTANTS
    Names,      \* names of saved games
    Autosave,   \* the name that a change of level saves under
    None,       \* no file, no name
    MaxMade,    \* bound: states of the game
    Troubles    \* of "crash", "open" and "flush", those that occur

\* What a file holds: a state of the game, and how much of it.
Content == [num : 1..MaxMade, part : {"torn", "short", "whole"}]

ASSUME StorageAssumption ==
    /\ Autosave \in Names /\ None \notin Names \cup Content
    /\ MaxMade \in Nat \ {0}
    /\ Troubles \subseteq {"crash", "open", "flush"}

Files == Names \X {"sav", "tmp"}
Sav(n) == <<n, "sav">>
Tmp(n) == <<n, "tmp">>

VARIABLES
    disk,           \* file -> its content, or None
    m_files,        \* the files in the catalogue
    pc,             \* where the main thread stands; off when there is no process
    game,           \* state the game is in; 0 without a game, or of garbage
    made,           \* states of the game so far
    m_save_name,    \* of the present CALifeStorageManager
    save,           \* the arguments and local variables of save
    done,           \* static in da_sweep_stale_save_temps
    kept,           \* name -> the state last saved under it, or 0
    gap             \* names whose save was cut short between two calls of file_rename

process == <<pc, game, m_save_name, save, done, m_files>>
vars == <<process, disk, made, kept, gap>>

NoSave == [name |-> None, update |-> FALSE, travel |-> FALSE, backup |-> None,
           num |-> 0, writer |-> "none"]

Init ==
    /\ disk = [f \in Files |-> None] /\ m_files = {}
    /\ pc = "off" /\ game = 0 /\ made = 0
    /\ m_save_name = None /\ save = NoSave /\ done = FALSE
    /\ kept = [n \in Names |-> 0] /\ gap = {}
-----------------------------------------------------------------------------
(* The process. *)

\* The catalogue is read from the directory.
Start ==
    /\ pc = "off"
    /\ pc' = "menu" /\ m_files' = {f \in Files : disk[f] # None}
    /\ UNCHANGED <<game, m_save_name, save, done, disk, made, kept, gap>>

\* The files are all that is left.
Dead ==
    /\ pc' = "off" /\ game' = 0 /\ m_save_name' = None
    /\ save' = NoSave /\ done' = FALSE /\ m_files' = {}

Crash ==
    /\ "crash" \in Troubles /\ pc # "off"
    /\ Dead
    /\ gap' = IF pc = "rename" THEN gap \cup {save.name} ELSE gap
    /\ UNCHANGED <<disk, made, kept>>

NextState == made < MaxMade /\ made' = made + 1 /\ game' = made'

\* The player goes on.
Play ==
    /\ pc = "play" /\ NextState
    /\ UNCHANGED <<pc, m_save_name, save, done, m_files, disk, kept, gap>>

NewGame ==
    /\ pc = "menu" /\ NextState
    /\ pc' = "play" /\ m_save_name' = None
    /\ UNCHANGED <<save, done, m_files, disk, kept, gap>>
-----------------------------------------------------------------------------
(* Loading. *)

\* The constructor of the simulator loads the game n into an empty world.  What
\* is decompressed from a part of a save is garbage.  Without the file it
\* begins a new game, or stops at an assertion if the command line says "load".
Simulator(n, no_assert) ==
    /\ save' = NoSave
    /\ IF disk[Sav(n)] # None
       THEN /\ game' = IF disk[Sav(n)].part = "whole" THEN disk[Sav(n)].num ELSE 0
            /\ m_save_name' = n /\ pc' = "play"
            /\ UNCHANGED <<done, m_files, made>>
       ELSE IF no_assert
       THEN /\ NextState
            /\ m_save_name' = None /\ pc' = "play"
            /\ UNCHANGED <<done, m_files>>
       ELSE Dead /\ UNCHANGED made
    /\ UNCHANGED <<disk, kept, gap>>

\* From the menu, or in the game when the save is of the same level
\* (restart_simulator) or of another (MakeReconnect).
LoadFrom(n, no_assert) ==
    /\ Sav(n) \in m_files
    /\ \/ pc = "menu" /\ ~no_assert
       \/ pc = "play"
    /\ Simulator(n, no_assert)

\* The client has reconnected to the server that a change of level has left.
Arrive == pc = "arrive" /\ Simulator(save.name, TRUE)
-----------------------------------------------------------------------------
(* Saving. *)

BeginSave(n, update, travel) ==
    /\ pc = "play" /\ game # 0
    /\ save' = [name |-> n, update |-> update, travel |-> travel,
                backup |-> m_save_name, num |-> game, writer |-> "none"]
    /\ m_save_name' = n
    /\ pc' = IF done THEN "open" ELSE "sweep"
    /\ done' = TRUE
    /\ UNCHANGED <<game, m_files, disk, made, kept, gap>>

SaveGame(n, update) == BeginSave(n, update, FALSE)
ChangeLevel == BeginSave(Autosave, TRUE, TRUE)

Stale == {f \in m_files : f[2] = "tmp"}

\* file_delete of one leftover of an earlier session, or the end of the list.
Sweep ==
    /\ pc = "sweep"
    /\ \/ \E f \in Stale :
            /\ disk' = [disk EXCEPT ![f] = None] /\ m_files' = m_files \ {f}
            /\ UNCHANGED pc
       \/ Stale = {} /\ pc' = "open" /\ UNCHANGED <<disk, m_files>>
    /\ UNCHANGED <<game, m_save_name, save, done, made, kept, gap>>

\* Mutant: the former save makes room before the new one is written.
OpenRemoving ==
    /\ pc = "open" /\ pc' = "close"
    /\ disk' = [disk EXCEPT ![Sav(save.name)] = None,
                           ![Tmp(save.name)] = [num |-> save.num, part |-> "torn"]]
    /\ m_files' = m_files \ {Sav(save.name)}
    /\ save' = [save EXCEPT !.writer = "good"]
    /\ UNCHANGED <<game, m_save_name, done, made, kept, gap>>

\* w_open and the beginning of the writing.  A writer that could not open its
\* file is returned all the same.
Open ==
    /\ pc = "open" /\ pc' = "close"
    /\ \/ /\ disk' = [disk EXCEPT ![Tmp(save.name)] = [num |-> save.num, part |-> "torn"]]
          /\ save' = [save EXCEPT !.writer = "good"]
       \/ "open" \in Troubles /\ UNCHANGED <<disk, save>>
    /\ UNCHANGED <<game, m_save_name, done, m_files, made, kept, gap>>

\* Mutant: the file written is not registered.
CloseUnregistered ==
    /\ pc = "close" /\ pc' = "unlink"
    /\ IF save.writer = "good"
       THEN disk' = [disk EXCEPT ![Tmp(save.name)].part = "whole"]
       ELSE UNCHANGED disk
    /\ UNCHANGED <<m_files, save, game, m_save_name, done, made, kept, gap>>

\* w writes, or stops the process at an assertion; w_close flushes the buffer,
\* which may fail unnoticed, and registers a file that had been opened.
Close ==
    /\ pc = "close" /\ pc' = "unlink"
    /\ \/ /\ save.writer = "good"
          /\ disk' = [disk EXCEPT ![Tmp(save.name)].part = "whole"]
          /\ m_files' = m_files \cup {Tmp(save.name)}
          /\ UNCHANGED save
       \/ /\ save.writer = "good" /\ "flush" \in Troubles
          /\ disk' = [disk EXCEPT ![Tmp(save.name)].part = "short"]
          /\ m_files' = m_files \cup {Tmp(save.name)}
          /\ save' = [save EXCEPT !.writer = "short"]
       \/ save.writer = "none" /\ UNCHANGED <<disk, m_files, save>>
    /\ UNCHANGED <<game, m_save_name, done, made, kept, gap>>

\* Mutant: the file is moved behind the back of the catalogue.
UnlinkDirectly ==
    /\ pc = "unlink"
    /\ IF disk[Tmp(save.name)] # None
       THEN pc' = "rename" /\ disk' = [disk EXCEPT ![Sav(save.name)] = None]
       ELSE pc' = "report" /\ UNCHANGED disk
    /\ UNCHANGED <<m_files, game, m_save_name, save, done, made, kept, gap>>

\* The first half of file_rename: the former save is removed, and the catalogue
\* is brought up to date.  A file that is not in the catalogue is not renamed.
Unlink ==
    /\ pc = "unlink"
    /\ IF Tmp(save.name) \in m_files
       THEN /\ pc' = "rename"
            /\ disk' = IF Sav(save.name) \in m_files
                       THEN [disk EXCEPT ![Sav(save.name)] = None] ELSE disk
            /\ m_files' = (m_files \ {Tmp(save.name)}) \cup {Sav(save.name)}
       ELSE pc' = "report" /\ UNCHANGED <<disk, m_files>>
    /\ UNCHANGED <<game, m_save_name, save, done, made, kept, gap>>

\* The second half: rename.
Rename ==
    /\ pc = "rename" /\ pc' = "report"
    /\ disk' = [disk EXCEPT ![Sav(save.name)] = disk[Tmp(save.name)], ![Tmp(save.name)] = None]
    /\ kept' = [kept EXCEPT ![save.name] = save.num]
    /\ gap' = gap \ {save.name}
    /\ UNCHANGED <<game, m_save_name, save, done, m_files, made>>

\* Mutant: everything is reset at the end, what the reconnection needs too.
ReportClears ==
    /\ pc = "report"
    /\ pc' = IF save.travel THEN "arrive" ELSE "play"
    /\ m_save_name' = IF save.update THEN m_save_name ELSE save.backup
    /\ save' = NoSave
    /\ UNCHANGED <<game, done, m_files, disk, made, kept, gap>>

\* "* Game ... is successfully saved": a save under another name leaves
\* m_save_name as it was, a change of level reconnects.
Report ==
    /\ pc = "report"
    /\ pc' = IF save.travel THEN "arrive" ELSE "play"
    /\ m_save_name' = IF save.update THEN m_save_name ELSE save.backup
    /\ save' = IF save.travel THEN save ELSE NoSave
    /\ UNCHANGED <<game, done, m_files, disk, made, kept, gap>>
-----------------------------------------------------------------------------
Next ==
    \/ Start \/ Crash \/ Play \/ NewGame
    \/ \E n \in Names, b \in BOOLEAN : LoadFrom(n, b) \/ SaveGame(n, b)
    \/ ChangeLevel \/ Arrive
    \/ Sweep \/ Open \/ Close \/ Unlink \/ Rename \/ Report

Spec == Init /\ [][Next]_vars
-----------------------------------------------------------------------------
(* Properties. *)

\* Types; and there is a save in progress, or one to load at the other end of a
\* change of level, in exactly the places of the main thread that work on one.
TypeOK ==
    /\ disk \in [Files -> Content \cup {None}] /\ m_files \subseteq Files
    /\ pc \in {"off", "menu", "play", "arrive", "sweep", "open", "close", "unlink", "rename", "report"}
    /\ game \in 0..MaxMade /\ made \in 0..MaxMade
    /\ m_save_name \in Names \cup {None} /\ done \in BOOLEAN
    /\ save \in [name : Names \cup {None}, update : BOOLEAN, travel : BOOLEAN,
                 backup : Names \cup {None}, num : 0..MaxMade, writer : {"none", "good", "short"}]
    /\ kept \in [Names -> 0..MaxMade] /\ gap \subseteq Names
    /\ save = NoSave <=> pc \in {"off", "menu", "play"}

\* What has been saved under a name is there, in a file that was written to its
\* end, whenever the process is killed and however often; it gives way only to
\* a later save under the same name, of which there is more than a beginning.
\* Only a crash between the two calls of file_rename loses it (gap).  And what
\* is reported as saved is, provided that the temporary file could be opened and
\* flushed, which the code does not look at.
OldOrNew ==
    /\ \A n \in Names : kept[n] # 0 /\ n \notin gap =>
        \/ /\ disk[Sav(n)] # None
           /\ disk[Sav(n)].num = kept[n] /\ disk[Sav(n)].part # "torn"
        \/ /\ pc = "rename" /\ save.name = n
           /\ disk[Tmp(n)] # None /\ disk[Tmp(n)].part # "torn"
    /\ pc = "report" /\ save.writer = "good" =>
            disk[Sav(save.name)] = [num |-> save.num, part |-> "whole"]

\* The list of games to load, which is made from the catalogue, names what is
\* on disk, no more and no less; and the catalogue forgets no temporary file,
\* which nothing would ever remove.
CatalogueTrue ==
    pc \notin {"off", "rename"} =>
        \A f \in Files : (f \in m_files) = (disk[f] # None) \/ (pc = "close" /\ f = Tmp(save.name))

\* Beyond a change of level the game goes on from where it stood, and not from
\* an earlier autosave or a new game, provided that the temporary file could be
\* opened and flushed.
TravelGoesOn ==
    [][pc = "arrive" /\ pc' = "play" /\ save.writer = "good" => game' = save.num]_vars
=============================================================================
