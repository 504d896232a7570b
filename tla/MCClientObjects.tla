--------------------------- MODULE MCClientObjects ---------------------------
(* Instances of ClientObjects for TLC *)
EXTENDS ClientObjects
=============================================================================
