----------------------------- MODULE MCSemaphore ----------------------------
(***************************************************************************)
(* Instances of Semaphore for TLC: two threads of one priority, one of a   *)
(* higher priority, and the idle thread.                                   *)
(***************************************************************************)
EXTENDS Semaphore

CONSTANTS a, b, c, idle

\* c comes first; a and b take turns.
MCInitPriority == [t \in Thread |-> CASE t = c -> 0 [] t = idle -> 2 [] OTHER -> 1]
MCInitTick == [t \in Thread |-> 1]
MCThree == [p \in Priority |-> CASE p = 0 -> <<c>> [] p = 1 -> <<a, b>> [] p = 2 -> <<idle>>]
MCTwo == [MCThree EXCEPT ![0] = << >>]

\* For ever, or one tick.
MCTimes == [t \in Thread |-> {WAITING_FOREVER, 1}]

\* a waits for ever, b a tick or two.
MCLive == [t \in Thread |-> IF t = a THEN {WAITING_FOREVER} ELSE {1, 2}]

=============================================================================
