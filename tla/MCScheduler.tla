----------------------------- MODULE MCScheduler -----------------------------
(* Small instances of Scheduler for TLC. *)
EXTENDS Scheduler

CONSTANTS a, b, c

\* One heap object, one that its client moves between the modes (as the
\* spectator does with the view entity), one realtime object.
MixedModes == a :> {FALSE} @@ b :> {FALSE, TRUE} @@ c :> {TRUE}
HeapModes == [o \in Objects |-> {FALSE}]
=============================================================================
