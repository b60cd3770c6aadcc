------------------------------- MODULE MCMutex ------------------------------
(***************************************************************************)
(* Instances of Mutex for TLC: threads of a low, a middle and a high       *)
(* priority, and the idle thread.                                          *)
(***************************************************************************)
EXTENDS Mutex

CONSTANTS low, middle, high, idle

MCInitPriority ==
    [t \in Thread |-> CASE t = high -> 0 [] t = middle -> 1 [] t = low -> 2 [] t = idle -> 3]
MCInitTick == [t \in Thread |-> 1]
MCStarted == [p \in Priority |-> <<CASE p = 0 -> high [] p = 1 -> middle [] p = 2 -> low [] p = 3 -> idle>>]

\* Try, wait a tick, wait for ever.
MCTimes == {WAITING_FOREVER, 0, 1}
MCForever == {WAITING_FOREVER}

=============================================================================
