----------------------------- MODULE RingBuffer -----------------------------
(***************************************************************************)
(* A ring buffer of components/drivers/src/ringbuffer.c: the read and the  *)
(* write index each have a mirror bit, and the buffer is full when the     *)
(* indices are equal and the bits are not.                                 *)
(*                                                                         *)
(* The functions do not disable interrupts; their callers do.  Each is one *)
(* action.  A history variable keeps what the buffer ought to hold.        *)
(***************************************************************************)
EXTENDS Integers, Sequences, SequencesExt

CONSTANTS
    RB_SIZE,     \* rb->buffer_size
    PUT_MAX,     \* bound on the length of what is put at once
    BYTES        \* bound: bytes count modulo this, to be told apart

ASSUME RingBufferConstants ==
    /\ RB_SIZE \in Nat \ {0}
    /\ PUT_MAX \in Nat \ {0}
    /\ BYTES \in Nat \ {0}

VARIABLES
    rb,      \* the ring buffer: mirror bits, indices and the bytes
    nextByte,    \* the byte that is put next
    unread   \* history: the bytes put and not got, overwritten or lost, see Empties

ringVars == <<rb, nextByte, unread>>

RingInit ==
    /\ rb = [read_mirror |-> 0, read_index |-> 0, write_mirror |-> 0, write_index |-> 0,
             bytes |-> [i \in 0 .. RB_SIZE - 1 |-> 0]]
    /\ nextByte = 0
    /\ unread = << >>

Flip(mirror) == 1 - mirror

Smaller(m, n) == IF m < n THEN m ELSE n

\* rt_ringbuffer_data_len, with the states of rt_ringbuffer_status.
DataLen ==
    IF rb.read_index = rb.write_index
    THEN IF rb.read_mirror = rb.write_mirror THEN 0 ELSE RB_SIZE
    ELSE (rb.write_index - rb.read_index) % RB_SIZE

SpaceLen == RB_SIZE - DataLen

\* Mutant: a write that ends at the end of the buffer stays in its mirror.
StaysInMirrorLate(index, n) == RB_SIZE - index >= n

\* Whether n bytes from index on stay in the mirror.
StaysInMirror(index, n) == RB_SIZE - index > n

\* The copy of n bytes to the write index and the advance of that index.
Written(n) ==
    LET at == {(rb.write_index + i) % RB_SIZE : i \in 0 .. n - 1}
        bytes == [i \in 0 .. RB_SIZE - 1 |->
                    IF i \in at THEN (nextByte + ((i - rb.write_index) % RB_SIZE)) % BYTES
                    ELSE rb.bytes[i]]
    IN  IF StaysInMirror(rb.write_index, n)
        THEN [rb EXCEPT !.bytes = bytes, !.write_index = @ + n]
        ELSE [rb EXCEPT !.bytes = bytes,
                        !.write_mirror = Flip(@),
                        !.write_index = n - (RB_SIZE - @)]

\* n new bytes.
Fresh(n) == [i \in 1 .. n |-> (nextByte + i - 1) % BYTES]

\* "drop some data": no more than there is space for.
PutLen(length) == Smaller(length, SpaceLen)

rt_ringbuffer_put ==
    \E length \in 1 .. PUT_MAX :
        LET n == PutLen(length)
        IN  /\ SpaceLen # 0
            /\ rb' = Written(n)
            /\ nextByte' = (nextByte + n) % BYTES
            /\ unread' = unread \o Fresh(n)

rt_ringbuffer_putchar ==
    /\ SpaceLen # 0
    /\ rb' = Written(1)
    /\ nextByte' = (nextByte + 1) % BYTES
    /\ unread' = Append(unread, nextByte)

LastOf(s, n) == SubSeq(s, Len(s) - Smaller(Len(s), n) + 1, Len(s))

\* The bytes of a forced put that there is no space for.
Overtakes(n) == n > SpaceLen

(***************************************************************************)
(* What a forced put of n bytes leaves: the oldest bytes are overwritten.  *)
(* A write that wraps and overtakes the read index flips its mirror bit    *)
(* too, which is right only if the bits were different before.             *)
(***************************************************************************)
Forced(n) ==
    LET w == Written(n)
    IN  IF ~Overtakes(n) THEN w
        ELSE [w EXCEPT !.read_index = w.write_index,
                       !.read_mirror = IF StaysInMirror(rb.write_index, n) THEN @ ELSE Flip(@)]

\* A write that overtakes over equal bits wraps; both bits flipped are equal
\* again, over equal indices: the put has emptied the buffer, of the bytes it has
\* just copied, too.
Empties(n) == Overtakes(n) /\ rb.read_mirror = rb.write_mirror

\* Of more than a bufferful only the end is put; the bytes before it are never
\* written.
rt_ringbuffer_put_force ==
    \E length \in 1 .. PUT_MAX :
        LET n == Smaller(length, RB_SIZE)
        IN  /\ rb' = Forced(n)
            /\ nextByte' = (nextByte + n) % BYTES
            /\ unread' = IF Empties(n) THEN << >> ELSE LastOf(unread \o Fresh(n), RB_SIZE)

\* rt_ringbuffer_putchar_force looks at the state before the write.
CharForced ==
    LET w == Written(1)
    IN  IF SpaceLen # 0 THEN w
        ELSE [w EXCEPT !.read_index = w.write_index,
                       !.read_mirror = IF rb.write_index = RB_SIZE - 1 THEN Flip(@) ELSE @]

rt_ringbuffer_putchar_force ==
    /\ rb' = CharForced
    /\ nextByte' = (nextByte + 1) % BYTES
    /\ unread' = LastOf(Append(unread, nextByte), RB_SIZE)

Read(n) ==
    IF StaysInMirror(rb.read_index, n)
    THEN [rb EXCEPT !.read_index = @ + n]
    ELSE [rb EXCEPT !.read_mirror = Flip(@), !.read_index = n - (RB_SIZE - @)]

\* rt_ringbuffer_get, and rt_ringbuffer_getchar with length 1.
rt_ringbuffer_get ==
    \E length \in 1 .. PUT_MAX :
        LET n == Smaller(length, DataLen)
        IN  /\ DataLen # 0
            /\ rb' = Read(n)
            /\ unread' = SubSeq(unread, n + 1, Len(unread))
            /\ UNCHANGED nextByte

rt_ringbuffer_reset ==
    /\ rb' = [rb EXCEPT !.read_mirror = 0, !.read_index = 0,
                        !.write_mirror = 0, !.write_index = 0]
    /\ unread' = << >>
    /\ UNCHANGED nextByte

RingNext ==
    \/ rt_ringbuffer_put \/ rt_ringbuffer_putchar
    \/ rt_ringbuffer_put_force \/ rt_ringbuffer_putchar_force
    \/ rt_ringbuffer_get \/ rt_ringbuffer_reset

RingSpec == RingInit /\ [][RingNext]_ringVars

-----------------------------------------------------------------------------
(* Properties *)

\* The buffer holds what was put, in its order, but for what was got, what a
\* forced put overwrites, and all of it when a forced put overtakes the read
\* index in a write that wraps and finds the mirror bits equal: then, and only
\* then, new bytes are lost.
RingHolds ==
    /\ DataLen = Len(unread)
    /\ \A i \in 1 .. Len(unread) :
         rb.bytes[(rb.read_index + i - 1) % RB_SIZE] = unread[i]

\* An index never reaches the size: the copies stay within the pool.
IndicesInPool ==
    /\ rb.read_index \in 0 .. RB_SIZE - 1 /\ rb.write_index \in 0 .. RB_SIZE - 1
    /\ rb.read_mirror \in {0, 1} /\ rb.write_mirror \in {0, 1}

\* "When the buffer is full, it will discard the old data": a put never leaves
\* less in the buffer than there was.
DiscardsOldOnly == [][nextByte' # nextByte => DataLen' >= DataLen]_ringVars

\* What the mirror bits and the indices say of the buffer is what is in it.
RingInvariant ==
    /\ RingHolds
    /\ IndicesInPool

=============================================================================
