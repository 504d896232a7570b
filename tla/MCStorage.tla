------------------------------ MODULE MCStorage ------------------------------
(* A small instance of Storage for TLC. *)
EXTENDS Storage, TLC

CONSTANTS auto, user
=============================================================================
