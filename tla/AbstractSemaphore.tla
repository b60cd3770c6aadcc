------------------------- MODULE AbstractSemaphore --------------------------
(***************************************************************************)
(* What a semaphore promises its callers, without priorities of execution, *)
(* timers, ready queues or sections: a count of tokens, callers that wait  *)
(* in their order of arrival, and the rule that says who is served.        *)
(***************************************************************************)
EXTENDS Integers, Sequences, SequencesExt

CONSTANTS
    Caller,
    Urgency,       \* lower is served first, when the flag is PRIO
    ByUrgency,     \* the flag is PRIO
    VALUE_RANGE    \* the count is kept modulo this

VARIABLES
    value,    \* the tokens nobody has
    queue,    \* the callers that wait, in order of arrival
    status    \* what each caller is told

vars == <<value, queue, status>>

Init ==
    /\ value \in 0 .. VALUE_RANGE - 1
    /\ queue = << >>
    /\ status = [c \in Caller |-> "idle"]

\* Nobody that waits is to be served before c.
ServedFirst(c) ==
    \E i \in DOMAIN queue :
        /\ queue[i] = c
        /\ \A j \in DOMAIN queue \ {i} :
             IF ByUrgency /\ Urgency[queue[j]] # Urgency[c]
             THEN Urgency[c] < Urgency[queue[j]]
             ELSE i < j

Take(c) ==
    /\ status[c] = "idle" /\ value > 0
    /\ value' = value - 1
    /\ UNCHANGED <<queue, status>>

Wait(c) ==
    /\ status[c] = "idle" /\ value = 0
    /\ queue' = Append(queue, c)
    /\ status' = [status EXCEPT ![c] = "waiting"]
    /\ UNCHANGED value

Leave(c, told) ==
    /\ queue' = RemoveFirst(queue, c)
    /\ status' = [status EXCEPT ![c] = told]

\* A release hands the token over, or counts it.
Release ==
    \/ \E c \in Caller : ServedFirst(c) /\ Leave(c, "granted") /\ UNCHANGED value
    \/ /\ queue = << >>
       /\ value' = (value + 1) % VALUE_RANGE
       /\ UNCHANGED <<queue, status>>

\* A timeout, or a wait that is broken off.
Fail(c) == status[c] = "waiting" /\ Leave(c, "failed") /\ UNCHANGED value

\* The count is set and every wait broken off.
Reset ==
    /\ value' \in 0 .. VALUE_RANGE - 1
    /\ queue' = << >>
    /\ status' = [c \in Caller |->
                     IF status[c] = "waiting" THEN "failed" ELSE status[c]]

Return(c) ==
    /\ status[c] \in {"granted", "failed"}
    /\ status' = [status EXCEPT ![c] = "idle"]
    /\ UNCHANGED <<value, queue>>

Next ==
    \/ \E c \in Caller : Take(c) \/ Wait(c) \/ Fail(c) \/ Return(c)
    \/ Release \/ Reset

Spec == Init /\ [][Next]_vars

=============================================================================
