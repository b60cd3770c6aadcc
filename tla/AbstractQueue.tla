---------------------------- MODULE AbstractQueue ----------------------------
(***************************************************************************)
(* What the bounded queues of the kernel promise: mails, messages and data *)
(* items come out in the order they went in, each once, never more than    *)
(* Capacity of them at a time.  An urgent item goes to the front.          *)
(***************************************************************************)
EXTENDS Naturals, Sequences

CONSTANTS
    Item,       \* what is queued
    Capacity

VARIABLE
    contents    \* the queued items, the next one to be handed out first

Init == contents = << >>

Put ==
    /\ Len(contents) < Capacity
    /\ \E item \in Item : contents' = Append(contents, item)

PutUrgent ==
    /\ Len(contents) < Capacity
    /\ \E item \in Item : contents' = <<item>> \o contents

Get ==
    /\ contents # << >>
    /\ contents' = Tail(contents)

\* A reset or a new initialisation drops what is queued.
Clear == contents' = << >>

Next == Put \/ PutUrgent \/ Get \/ Clear

Fifo == Init /\ [][Put \/ Get \/ Clear]_contents

Spec == Init /\ [][Next]_contents

=============================================================================
