--------------------------- MODULE MCServerEntities ---------------------------
(* Instances of ServerEntities for TLC.  Ids are interchangeable: they are only *)
(* compared, and every order of the pool is an initial state.                   *)
EXTENDS ServerEntities, TLC

IdSymmetry == Permutations(Ids)
=============================================================================
