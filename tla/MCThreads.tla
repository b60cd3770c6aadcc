------------------------------ MODULE MCThreads -----------------------------
(***************************************************************************)
(* Instances of Threads for TLC: a main thread, two application threads of *)
(* which one is static, and the idle thread.                               *)
(***************************************************************************)
EXTENDS Threads

CONSTANTS main, a, b, idle

\* Three priorities; main and a share one, so that round-robin happens.
MCInitPriority == main :> 1 @@ a :> 1 @@ b :> 0 @@ idle :> 2

\* Slices of different lengths.
MCInitTick == main :> 1 @@ a :> 2 @@ b :> 1 @@ idle :> 1

=============================================================================
