----------------------------- MODULE StorageProofs -----------------------------
(***************************************************************************)
(* Proofs about Storage, for any names of saves, any number of states of   *)
(* the game and any of the troubles.                                       *)
(***************************************************************************)
EXTENDS Storage, TLAPS

LEMMA FileNames ==
    /\ \A n \in Names : Sav(n) \in Files /\ Tmp(n) \in Files
    /\ \A n, m \in Names : Sav(n) # Tmp(m)
    /\ \A n, m \in Names : Sav(n) = Sav(m) => n = m
    /\ \A n, m \in Names : Tmp(n) = Tmp(m) => n = m
    /\ \A f \in Files : \E n \in Names : f = Sav(n) \/ f = Tmp(n)
    /\ \A n \in Names : Sav(n)[2] = "sav" /\ Tmp(n)[2] = "tmp"
  BY DEF Sav, Tmp, Files

-----------------------------------------------------------------------------
(* The inductive invariant. *)

Saving == {"sweep", "open", "close", "unlink", "rename", "report"}

\* Where a save stands: what its writer has been through, and that the sweep
\* comes before any of it.
SaveInv ==
    /\ pc \in Saving \cup {"arrive"} => save.name \in Names /\ save.num \in 1..MaxMade
    /\ pc \in Saving => done
    /\ pc \in {"sweep", "open"} => save.writer = "none"
    /\ pc = "close" => save.writer # "short"
    /\ pc = "rename" => save.writer # "none"

\* A temporary file of this session belongs to the save in progress, and is as
\* far as its writer has come.
TmpInv ==
    /\ done /\ pc # "sweep" =>
        \A n \in Names : disk[Tmp(n)] # None =>
            pc \in {"close", "unlink", "rename"} /\ save.name = n /\ save.writer # "none"
    /\ pc \in {"close", "unlink", "rename"} /\ save.writer # "none" =>
        disk[Tmp(save.name)] =
            [num |-> save.num,
             part |-> IF pc = "close" THEN "torn"
                      ELSE IF save.writer = "good" THEN "whole" ELSE "short"]

\* The catalogue, in the two places as well where it runs ahead of the disk or
\* behind it.
FilesInv ==
    /\ CatalogueTrue
    /\ pc = "close" /\ save.writer = "none" =>
        (Tmp(save.name) \in m_files <=> disk[Tmp(save.name)] # None)
    /\ pc = "rename" =>
        /\ Sav(save.name) \in m_files /\ disk[Sav(save.name)] = None
        /\ Tmp(save.name) \notin m_files
        /\ \A f \in Files \ {Sav(save.name), Tmp(save.name)} :
              f \in m_files <=> disk[f] # None

\* What a change of level has saved is there at its other end.
ArriveInv ==
    pc \in {"report", "arrive"} /\ save.writer = "good" =>
        disk[Sav(save.name)] = [num |-> save.num, part |-> "whole"]

KeptInv == 
    \A n \in Names : kept[n] # 0 /\ n \notin gap =>
        \/ /\ disk[Sav(n)] # None
           /\ disk[Sav(n)].num = kept[n] /\ disk[Sav(n)].part # "torn"
        \/ pc = "rename" /\ save.name = n

Inv == TypeOK /\ SaveInv /\ TmpInv /\ FilesInv /\ ArriveInv /\ KeptInv

LEMMA InvInit == Init => Inv
<1> SUFFICES ASSUME Init PROVE Inv
  OBVIOUS
<1> USE DEF Init
<1>0. 0 \in 0..MaxMade
  BY StorageAssumption
<1>1. TypeOK
  BY <1>0 DEF TypeOK, NoSave
<1>2. SaveInv /\ TmpInv /\ FilesInv /\ ArriveInv /\ KeptInv
  BY DEF SaveInv, TmpInv, FilesInv, ArriveInv, KeptInv, CatalogueTrue, Saving
<1>3. QED
  BY <1>1, <1>2 DEF Inv

-----------------------------------------------------------------------------
(* Every step keeps it. *)

LEMMA StartKeeps == ASSUME Inv, Start PROVE Inv'
<1> USE DEF Start
<1>1. TypeOK'
  BY DEF Inv, TypeOK
<1>2. SaveInv' /\ TmpInv' /\ ArriveInv'
  BY DEF Inv, SaveInv, TmpInv, ArriveInv, Saving, TypeOK
<1>3. FilesInv'
  BY DEF FilesInv, CatalogueTrue
<1>4. KeptInv'
  BY DEF Inv, KeptInv
<1>5. QED
  BY <1>1, <1>2, <1>3, <1>4 DEF Inv

LEMMA CrashKeeps == ASSUME Inv, Crash PROVE Inv'
<1> USE DEF Crash, Dead
<1>0. 0 \in 0..MaxMade
  BY StorageAssumption
<1>1. TypeOK'
  BY <1>0 DEF Inv, TypeOK, NoSave, SaveInv, Saving
<1>2. SaveInv' /\ TmpInv' /\ ArriveInv' /\ FilesInv'
  BY DEF SaveInv, TmpInv, ArriveInv, FilesInv, CatalogueTrue, Saving, NoSave
<1>3. KeptInv'
  BY DEF Inv, KeptInv
<1>4. QED
  BY <1>1, <1>2, <1>3 DEF Inv

LEMMA PlayKeeps == ASSUME Inv, Play \/ NewGame PROVE Inv'
<1> USE DEF Play, NewGame, NextState
<1>1. TypeOK'
  <2>1. made' \in 0..MaxMade /\ game' \in 0..MaxMade
    BY StorageAssumption DEF Inv, TypeOK
  <2>2. QED
    BY <2>1 DEF Inv, TypeOK
<1>2. SaveInv' /\ TmpInv' /\ ArriveInv' /\ FilesInv'
  BY DEF Inv, SaveInv, TmpInv, ArriveInv, FilesInv, CatalogueTrue, Saving
<1>3. KeptInv'
  BY DEF Inv, KeptInv
<1>4. QED
  BY <1>1, <1>2, <1>3 DEF Inv

LEMMA SimulatorKeeps ==
    ASSUME Inv, NEW n \in Names, NEW b \in BOOLEAN, Simulator(n, b),
           pc \in {"menu", "play", "arrive"}
    PROVE  Inv'
<1> USE DEF Simulator, NextState, Dead
<1>0. 0 \in 0..MaxMade /\ Sav(n) \in Files /\ UNCHANGED <<disk, kept, gap>> /\ save' = NoSave
  BY StorageAssumption, FileNames
<1>1. CASE disk[Sav(n)] # None
  <2>1. disk[Sav(n)] \in Content
    BY <1>0, <1>1 DEF Inv, TypeOK
  <2>2. game' \in 0..MaxMade
    BY <1>0, <1>1, <2>1 DEF Content
  <2>3. TypeOK'
    BY <1>0, <1>1, <2>2 DEF Inv, TypeOK, NoSave
  <2>4. SaveInv' /\ TmpInv' /\ ArriveInv' /\ FilesInv'
    BY <1>0, <1>1 DEF Inv, SaveInv, TmpInv, ArriveInv, FilesInv, CatalogueTrue, Saving, NoSave
  <2>5. KeptInv'
    BY <1>0, <1>1 DEF Inv, KeptInv
  <2>6. QED
    BY <2>3, <2>4, <2>5 DEF Inv
<1>2. CASE disk[Sav(n)] = None /\ b
  <2>1. made' \in 0..MaxMade /\ game' \in 0..MaxMade
    BY <1>2, StorageAssumption DEF Inv, TypeOK
  <2>2. TypeOK'
    BY <1>0, <1>2, <2>1 DEF Inv, TypeOK, NoSave
  <2>3. SaveInv' /\ TmpInv' /\ ArriveInv' /\ FilesInv'
    BY <1>0, <1>2 DEF Inv, SaveInv, TmpInv, ArriveInv, FilesInv, CatalogueTrue, Saving, NoSave
  <2>4. KeptInv'
    BY <1>0, <1>2 DEF Inv, KeptInv
  <2>5. QED
    BY <2>2, <2>3, <2>4 DEF Inv
<1>3. CASE disk[Sav(n)] = None /\ ~b
  <2>0. /\ pc' = "off" /\ game' = 0 /\ m_save_name' = None /\ done' = FALSE
        /\ m_files' = {} /\ made' = made
    BY <1>3
  <2>1. TypeOK'
    <3> HIDE DEF Simulator, NextState, Dead
    <3>1. /\ disk' = disk /\ kept' = kept /\ gap' = gap /\ save' = NoSave
          /\ NoSave \in [name : Names \cup {None}, update : BOOLEAN, travel : BOOLEAN,
                          backup : Names \cup {None}, num : 0..MaxMade,
                          writer : {"none", "good", "short"}]
      BY <1>0 DEF NoSave
    <3>2. QED
      BY <1>0, <2>0, <3>1 DEF Inv, TypeOK
  <2>2. SaveInv' /\ TmpInv' /\ ArriveInv' /\ FilesInv'
    BY <1>0, <1>3 DEF SaveInv, TmpInv, ArriveInv, FilesInv, CatalogueTrue, Saving, NoSave
  <2>3. KeptInv'
    BY <1>0, <1>3 DEF Inv, KeptInv
  <2>4. QED
    BY <2>1, <2>2, <2>3 DEF Inv
<1>4. QED
  BY <1>1, <1>2, <1>3

LEMMA LoadKeeps ==
    ASSUME Inv, Arrive \/ \E n \in Names, b \in BOOLEAN : LoadFrom(n, b)
    PROVE  Inv'
<1>1. CASE Arrive
  <2>1. save.name \in Names
    BY <1>1 DEF Arrive, Inv, SaveInv
  <2>2. QED
    BY <1>1, <2>1, SimulatorKeeps DEF Arrive
<1>2. CASE \E n \in Names, b \in BOOLEAN : LoadFrom(n, b)
  BY <1>2, SimulatorKeeps DEF LoadFrom
<1>3. QED
  BY <1>1, <1>2

LEMMA BeginSaveKeeps ==
    ASSUME Inv, NEW n \in Names, NEW b \in BOOLEAN, NEW travel \in BOOLEAN,
           BeginSave(n, b, travel)
    PROVE  Inv'
<1> USE DEF BeginSave
<1>1. /\ save' = [name |-> n, update |-> b, travel |-> travel,
                  backup |-> m_save_name, num |-> game, writer |-> "none"]
      /\ game \in 1..MaxMade /\ m_save_name \in Names \cup {None}
  BY StorageAssumption DEF Inv, TypeOK
<1>2. TypeOK'
  BY <1>1, StorageAssumption DEF Inv, TypeOK, NoSave
<1>3. SaveInv'
  BY <1>1 DEF SaveInv, Saving
<1>4. TmpInv' /\ ArriveInv' /\ FilesInv' /\ KeptInv'
  BY <1>1 DEF Inv, TmpInv, ArriveInv, FilesInv, CatalogueTrue, KeptInv
<1>5. QED
  BY <1>2, <1>3, <1>4 DEF Inv

LEMMA SweepKeeps == ASSUME Inv, Sweep PROVE Inv'
<1> USE DEF Sweep
<1>1. CASE Stale # {}
  <2>1. PICK f \in Stale : /\ disk' = [disk EXCEPT ![f] = None] /\ m_files' = m_files \ {f}
                           /\ pc' = pc
    BY <1>1
  <2>2. f \in Files /\ f[2] = "tmp"
    BY <2>1 DEF Stale, Inv, TypeOK
  <2>3. TypeOK'
    BY <2>1, <2>2 DEF Inv, TypeOK
  <2>4. SaveInv' /\ TmpInv' /\ ArriveInv'
    BY <2>1 DEF Inv, SaveInv, TmpInv, ArriveInv
  <2>5. FilesInv'
    BY <2>1, <2>2 DEF Inv, TypeOK, FilesInv, CatalogueTrue
  <2>6. KeptInv'
    <3>1. \A n \in Names : disk'[Sav(n)] = disk[Sav(n)]
      BY <2>1, <2>2, FileNames DEF Inv, TypeOK
    <3>2. QED
      BY <2>1, <3>1 DEF Inv, KeptInv
  <2>7. QED
    BY <2>3, <2>4, <2>5, <2>6 DEF Inv
<1>2. CASE Stale = {} /\ pc' = "open" /\ UNCHANGED <<disk, m_files>>
  <2>1. \A n \in Names : disk[Tmp(n)] = None
    BY <1>2, FileNames DEF Stale, Inv, FilesInv, CatalogueTrue
  <2>2. TypeOK' /\ SaveInv' /\ FilesInv' /\ KeptInv'
    BY <1>2 DEF Inv, TypeOK, SaveInv, FilesInv, CatalogueTrue, KeptInv, Saving
  <2>3. TmpInv' /\ ArriveInv'
    BY <1>2, <2>1 DEF TmpInv, ArriveInv
  <2>4. QED
    BY <2>2, <2>3 DEF Inv
<1>3. QED
  BY <1>1, <1>2

LEMMA OpenKeeps == ASSUME Inv, Open PROVE Inv'
<1> DEFINE s == Sav(save.name)  t == Tmp(save.name)
           torn == [num |-> save.num, part |-> "torn"]
<1>0. /\ save.name \in Names /\ s \in Files /\ t \in Files
      /\ torn \in Content /\ torn # None
      /\ save \in [name : Names \cup {None}, update : BOOLEAN, travel : BOOLEAN,
                    backup : Names \cup {None}, num : 0..MaxMade,
                    writer : {"none", "good", "short"}]
      /\ save.writer = "none" /\ save.num \in 1..MaxMade /\ done
  BY FileNames, StorageAssumption DEF Open, Inv, SaveInv, Saving, Content, TypeOK
<1>1. CASE UNCHANGED <<disk, save>>
  <2>1. TypeOK' /\ SaveInv' /\ KeptInv'
    BY <1>0, <1>1 DEF Open, Inv, TypeOK, SaveInv, KeptInv, Saving
  <2>2. TmpInv' /\ ArriveInv'
    BY <1>0, <1>1 DEF Open, Inv, TmpInv, ArriveInv
  <2>3. FilesInv'
    BY <1>0, <1>1 DEF Open, Inv, FilesInv, CatalogueTrue
  <2>4. QED
    BY <2>1, <2>2, <2>3 DEF Inv
<1>2. CASE disk' = [disk EXCEPT ![t] = torn] /\ save' = [save EXCEPT !.writer = "good"]
  <2>1. /\ save'.name = save.name /\ save'.num = save.num /\ save'.writer = "good"
        /\ save' # NoSave /\ disk'[t] = torn
        /\ \A f \in Files \ {t} : disk'[f] = disk[f]
    BY <1>0, <1>2 DEF NoSave, Inv, TypeOK
  <2>2. TypeOK'
    BY <1>0, <1>2, <2>1 DEF Open, Inv, TypeOK
  <2>3. SaveInv' /\ ArriveInv'
    BY <1>0, <2>1 DEF Open, SaveInv, ArriveInv, Saving
  <2>4. TmpInv'
    <3>1. \A n \in Names : disk'[Tmp(n)] # None => n = save.name
      BY <1>0, <2>1, FileNames DEF Open, Inv, TmpInv
    <3>2. QED
      BY <1>0, <2>1, <3>1 DEF Open, TmpInv
  <2>5. FilesInv'
    BY <1>0, <2>1 DEF Open, Inv, FilesInv, CatalogueTrue
  <2>6. KeptInv'
    <3>1. \A n \in Names : disk'[Sav(n)] = disk[Sav(n)]
      BY <1>0, <2>1, FileNames
    <3>2. QED
      BY <1>0, <2>1, <3>1 DEF Open, Inv, KeptInv
  <2>7. QED
    BY <2>2, <2>3, <2>4, <2>5, <2>6 DEF Inv
<1>3. QED
  BY <1>1, <1>2 DEF Open

\* What the lemmas on the last four steps have in common.
LEMMA Written ==
    ASSUME Inv, pc \in {"close", "unlink", "rename", "report"}
    PROVE  /\ save.name \in Names /\ save.num \in 1..MaxMade /\ done
           /\ Sav(save.name) \in Files /\ Tmp(save.name) \in Files
           /\ Sav(save.name) # Tmp(save.name)
           /\ save \in [name : Names \cup {None}, update : BOOLEAN, travel : BOOLEAN,
                        backup : Names \cup {None}, num : 0..MaxMade,
                        writer : {"none", "good", "short"}]
           /\ \A p \in {"torn", "short", "whole"} :
                 /\ [num |-> save.num, part |-> p] \in Content
                 /\ [num |-> save.num, part |-> p] # None
  BY FileNames, StorageAssumption DEF Inv, SaveInv, Saving, Content, TypeOK

LEMMA CloseKeeps == ASSUME Inv, Close PROVE Inv'
<1> DEFINE t == Tmp(save.name)
           part == [num |-> save.num,
                    part |-> IF save'.writer = "short" THEN "short" ELSE "whole"]
<1>0. pc = "close" /\ pc' = "unlink" /\ UNCHANGED <<game, m_save_name, done, made, kept, gap>>
  BY DEF Close
<1>1. CASE save.writer = "none" /\ UNCHANGED <<disk, m_files, save>>
  <2>1. TypeOK' /\ SaveInv' /\ KeptInv' /\ ArriveInv'
    BY <1>0, <1>1 DEF Inv, TypeOK, SaveInv, KeptInv, ArriveInv, Saving
  <2>2. TmpInv'
    BY <1>0, <1>1 DEF Inv, TmpInv
  <2>3. FilesInv'
    BY <1>0, <1>1 DEF Inv, FilesInv, CatalogueTrue
  <2>4. QED
    BY <2>1, <2>2, <2>3 DEF Inv
<1>2. CASE /\ save.writer = "good" /\ save' \in {save, [save EXCEPT !.writer = "short"]}
           /\ disk' = [disk EXCEPT ![t].part = part.part]
           /\ m_files' = m_files \cup {t}
  <2>1. /\ save'.name = save.name /\ save'.num = save.num /\ save'.writer \in {"good", "short"}
        /\ save' \in [name : Names \cup {None}, update : BOOLEAN, travel : BOOLEAN,
                      backup : Names \cup {None}, num : 0..MaxMade,
                      writer : {"none", "good", "short"}]
        /\ save' # NoSave
    BY <1>0, <1>2, Written, StorageAssumption DEF NoSave
  <2>2. disk[t] = [num |-> save.num, part |-> "torn"]
    BY <1>0, <1>2 DEF Inv, TmpInv
  <2>3. /\ disk'[t] = part /\ part \in Content /\ part # None
        /\ \A f \in Files \ {t} : disk'[f] = disk[f]
        /\ disk' \in [Files -> Content \cup {None}]
    <3>1. part \in Content /\ part # None
      BY <1>0, Written
    <3>2. [disk[t] EXCEPT !.part = part.part] = part
      BY <2>2
    <3>3. disk' = [disk EXCEPT ![t] = part]
      BY <1>2, <3>2
    <3>4. QED
      BY <1>0, <3>1, <3>3, Written DEF Inv, TypeOK
  <2> HIDE DEF part
  <2>4. TypeOK'
    BY <1>0, <1>2, <2>1, <2>3, Written DEF Inv, TypeOK
  <2>5. SaveInv' /\ ArriveInv'
    BY <1>0, <2>1, Written DEF SaveInv, ArriveInv, Saving
  <2>6. TmpInv'
    <3>1. \A n \in Names : disk'[Tmp(n)] # None => n = save.name
      BY <1>0, <2>3, FileNames, Written DEF Inv, TmpInv
    <3>2. QED
      BY <1>0, <2>1, <2>3, <3>1 DEF TmpInv, part
  <2>7. FilesInv'
    BY <1>0, <1>2, <2>1, <2>3 DEF Inv, FilesInv, CatalogueTrue
  <2>8. KeptInv'
    <3>1. \A n \in Names : disk'[Sav(n)] = disk[Sav(n)]
      BY <1>0, <2>3, FileNames, Written
    <3>2. QED
      BY <1>0, <3>1 DEF Inv, KeptInv
  <2>9. QED
    BY <2>4, <2>5, <2>6, <2>7, <2>8 DEF Inv
<1>3. CASE /\ save.writer = "good" /\ save' = save
           /\ disk' = [disk EXCEPT ![t].part = "whole"] /\ m_files' = m_files \cup {t}
  <2>1. part.part = "whole"
    BY <1>3
  <2>2. QED
    BY <1>2, <1>3, <2>1
<1>4. CASE /\ save.writer = "good" /\ save' = [save EXCEPT !.writer = "short"]
           /\ disk' = [disk EXCEPT ![t].part = "short"] /\ m_files' = m_files \cup {t}
  <2>1. part.part = "short"
    BY <1>0, <1>4, Written
  <2>2. QED
    BY <1>2, <1>4, <2>1
<1>5. QED
  BY <1>1, <1>3, <1>4 DEF Close

LEMMA UnlinkKeeps == ASSUME Inv, Unlink PROVE Inv'
<1> DEFINE s == Sav(save.name)  t == Tmp(save.name)
<1>0. /\ pc = "unlink" /\ UNCHANGED <<game, m_save_name, save, done, made, kept, gap>>
      /\ \A f \in Files : f \in m_files <=> disk[f] # None
  BY DEF Unlink, Inv, FilesInv, CatalogueTrue
<1>1. CASE t \notin m_files
  <2>1. pc' = "report" /\ UNCHANGED <<disk, m_files>> /\ disk[t] = None
    BY <1>0, <1>1, Written DEF Unlink
  <2>2. TypeOK' /\ SaveInv'
    BY <1>0, <2>1 DEF Inv, TypeOK, SaveInv, Saving
  <2>3. save.writer = "none"
    BY <1>0, <2>1, Written DEF Inv, TmpInv, TypeOK
  <2>4. TmpInv' /\ ArriveInv'
    BY <1>0, <2>1, <2>3 DEF Inv, TmpInv, ArriveInv
  <2>5. FilesInv' /\ KeptInv'
    BY <1>0, <2>1 DEF Inv, FilesInv, CatalogueTrue, KeptInv
  <2>6. QED
    BY <2>2, <2>4, <2>5 DEF Inv
<1>2. CASE t \in m_files
  <2>1. /\ pc' = "rename" /\ m_files' = (m_files \ {t}) \cup {s}
        /\ disk' = IF s \in m_files THEN [disk EXCEPT ![s] = None] ELSE disk
    BY <1>2 DEF Unlink
  <2>2. /\ \A f \in Files \ {s} : disk'[f] = disk[f]
        /\ disk'[s] = None /\ disk' \in [Files -> Content \cup {None}]
    BY <1>0, <2>1, Written DEF Inv, TypeOK
  <2>3. save.writer # "none"
    BY <1>0, <1>2, Written DEF Inv, TmpInv
  <2>4. TypeOK' /\ SaveInv' /\ ArriveInv'
    BY <1>0, <2>1, <2>2, <2>3, Written DEF Inv, TypeOK, SaveInv, ArriveInv, Saving
  <2>5. TmpInv'
    <3>1. \A n \in Names : disk'[Tmp(n)] = disk[Tmp(n)]
      BY <1>0, <2>2, FileNames, Written
    <3>2. QED
      BY <1>0, <2>1, <2>3, <3>1, Written DEF Inv, TmpInv
  <2>6. FilesInv'
    BY <1>0, <2>1, <2>2, Written DEF FilesInv, CatalogueTrue
  <2>7. KeptInv'
    <3>1. \A n \in Names \ {save.name} : disk'[Sav(n)] = disk[Sav(n)]
      BY <1>0, <2>2, FileNames, Written
    <3>2. QED
      BY <1>0, <2>1, <3>1 DEF Inv, KeptInv
  <2>8. QED
    BY <2>4, <2>5, <2>6, <2>7 DEF Inv
<1>3. QED
  BY <1>1, <1>2

LEMMA RenameKeeps == ASSUME Inv, Rename PROVE Inv'
<1> DEFINE s == Sav(save.name)  t == Tmp(save.name)
<1>0. /\ pc = "rename" /\ pc' = "report"
      /\ UNCHANGED <<game, m_save_name, save, done, m_files, made>>
      /\ kept' = [kept EXCEPT ![save.name] = save.num] /\ gap' = gap \ {save.name}
      /\ disk' = [disk EXCEPT ![s] = disk[t], ![t] = None]
  BY DEF Rename
<1>1. /\ disk[t] = [num |-> save.num, part |-> IF save.writer = "good" THEN "whole" ELSE "short"]
      /\ disk[t] \in Content /\ disk[t] # None /\ save.writer # "none"
  BY <1>0, Written DEF Inv, TmpInv, SaveInv
<1>2. /\ disk'[s] = disk[t] /\ disk'[t] = None
      /\ \A f \in Files \ {s, t} : disk'[f] = disk[f]
      /\ disk' \in [Files -> Content \cup {None}]
  BY <1>0, <1>1, Written DEF Inv, TypeOK
<1>3. TypeOK'
  BY <1>0, <1>2, Written DEF Inv, TypeOK
<1>4. SaveInv' /\ ArriveInv'
  BY <1>0, <1>1, <1>2, Written DEF SaveInv, ArriveInv, Saving
<1>5. TmpInv'
  <2>1. \A n \in Names : disk'[Tmp(n)] = None
    BY <1>0, <1>2, FileNames, Written DEF Inv, TmpInv
  <2>2. QED
    BY <1>0, <2>1 DEF TmpInv
<1>6. FilesInv'
  BY <1>0, <1>1, <1>2 DEF Inv, FilesInv, CatalogueTrue
<1>7. KeptInv'
  <2>1. ASSUME NEW n \in Names, n # save.name
        PROVE  disk'[Sav(n)] = disk[Sav(n)] /\ kept'[n] = kept[n] /\ (n \in gap' <=> n \in gap)
    BY <1>0, <1>2, <2>1, FileNames, Written DEF Inv, TypeOK
  <2>2. kept'[save.name] = disk'[s].num /\ disk'[s].part # "torn" /\ disk'[s] # None
    BY <1>0, <1>1, <1>2, Written DEF Inv, TypeOK
  <2>3. QED
    BY <1>0, <2>1, <2>2 DEF Inv, KeptInv
<1>8. QED
  BY <1>3, <1>4, <1>5, <1>6, <1>7 DEF Inv

LEMMA ReportKeeps == ASSUME Inv, Report PROVE Inv'
<1>0. /\ pc = "report" /\ pc' = (IF save.travel THEN "arrive" ELSE "play")
      /\ save' = (IF save.travel THEN save ELSE NoSave)
      /\ UNCHANGED <<game, done, m_files, disk, made, kept, gap>>
      /\ m_save_name' \in Names \cup {None}
  BY Written DEF Report, Inv, TypeOK
<1>1. TypeOK'
  <2>1. save # NoSave
    BY <1>0 DEF Inv, TypeOK
  <2>2. save' \in [name : Names \cup {None}, update : BOOLEAN, travel : BOOLEAN,
                  backup : Names \cup {None}, num : 0..MaxMade,
                  writer : {"none", "good", "short"}]
    <3>1. 0 \in 0..MaxMade
      BY StorageAssumption
    <3>2. QED
      BY <1>0, <3>1, Written DEF NoSave
  <2>3. save' = NoSave <=> pc' \in {"off", "menu", "play"}
    BY <1>0, <2>1
  <2>4. pc' \in {"arrive", "play"}
    BY <1>0
  <2>5. QED
    BY <1>0, <2>2, <2>3, <2>4 DEF Inv, TypeOK
<1>2. SaveInv' /\ TmpInv' /\ ArriveInv' /\ FilesInv' /\ KeptInv'
  BY <1>0 DEF Inv, SaveInv, TmpInv, ArriveInv, FilesInv, CatalogueTrue, KeptInv, Saving, NoSave
<1>3. QED
  BY <1>1, <1>2 DEF Inv

LEMMA InvStep == Inv /\ [Next]_vars => Inv'
<1> SUFFICES ASSUME Inv, [Next]_vars PROVE Inv'
  OBVIOUS
<1>1. CASE UNCHANGED vars
  BY <1>1 DEF vars, process, Inv, TypeOK, SaveInv, TmpInv, ArriveInv, FilesInv, CatalogueTrue, KeptInv
<1>2. CASE \E n \in Names, b \in BOOLEAN : SaveGame(n, b)
  BY <1>2, BeginSaveKeeps DEF SaveGame
<1>3. CASE ChangeLevel
  BY <1>3, BeginSaveKeeps, StorageAssumption DEF ChangeLevel
<1>4. QED
  BY <1>1, <1>2, <1>3, StartKeeps, CrashKeeps, PlayKeeps, LoadKeeps, SweepKeeps, OpenKeeps,
     CloseKeeps, UnlinkKeeps, RenameKeeps, ReportKeeps DEF Next

LEMMA InvHolds == Spec => []Inv
  BY InvInit, InvStep, PTL DEF Spec

-----------------------------------------------------------------------------
(* What players rely on. *)

\* Every variable keeps its type, and the save in progress is known wherever
\* somebody works on it.
THEOREM TypeCorrect == Spec => []TypeOK
<1>1. Inv => TypeOK
  BY DEF Inv
<1>2. QED
  BY <1>1, InvHolds, PTL

\* The catalogue and the directory agree, whatever has been killed or failed.
THEOREM CatalogueHolds == Spec => []CatalogueTrue
<1>1. Inv => CatalogueTrue
  BY DEF Inv, FilesInv
<1>2. QED
  BY <1>1, InvHolds, PTL

\* A save stays until a later one of its name has taken its place.
THEOREM NoneIsLost == Spec => []OldOrNew
<1>1. Inv => OldOrNew
  <2> SUFFICES ASSUME Inv PROVE OldOrNew
    OBVIOUS
  <2>1. ASSUME NEW n \in Names, pc = "rename", save.name = n
        PROVE  disk[Tmp(n)] # None /\ disk[Tmp(n)].part # "torn"
    BY <2>1, Written DEF Inv, TmpInv, SaveInv
  <2>2. QED
    BY <2>1 DEF Inv, KeptInv, ArriveInv, OldOrNew
<1>2. QED
  BY <1>1, InvHolds, PTL

\* A change of level goes on from the state that it has saved.
THEOREM NoneIsSetBack == Spec => TravelGoesOn
<1>1. ASSUME Inv, [Next]_vars, pc = "arrive", pc' = "play", save.writer = "good"
      PROVE  game' = save.num
  <2>1. Arrive
    BY <1>1 DEF Next, vars, process, Start, Crash, Dead, Play, NewGame, LoadFrom, SaveGame,
        ChangeLevel, BeginSave, Sweep, Open, Close, Unlink, Rename, Report
  <2>2. disk[Sav(save.name)] = [num |-> save.num, part |-> "whole"]
    BY <1>1 DEF Inv, ArriveInv
  <2>3. save.name \in Names /\ disk[Sav(save.name)] # None
    BY <1>1, <2>2, StorageAssumption DEF Inv, SaveInv, Content
  <2>4. QED
    BY <2>1, <2>2, <2>3 DEF Arrive, Simulator
<1>2. QED
  BY <1>1, InvHolds, PTL DEF Spec, TravelGoesOn
=============================================================================
