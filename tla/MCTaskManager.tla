---------------------------- MODULE MCTaskManager ----------------------------
(* Small instances of TaskManager for TLC. *)
EXTENDS TaskManager, TLC

CONSTANTS m, w1, w2, r, s, c, d

\* Tasks of the program, of which r creates one child or a grandchild.
Child == r :> None @@ c :> r
OneChild == r :> None @@ s :> None @@ c :> r
Grandchild == r :> None @@ c :> r @@ d :> c
=============================================================================
