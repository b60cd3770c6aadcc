----------------------------- MODULE QueueProofs ----------------------------
(***************************************************************************)
(* Proofs about the rings of the system: the ring buffer of the drivers,   *)
(* the mailbox and the data queue, for every size of theirs; about the     *)
(* chain of free blocks of a memory pool; and about the threads that wait  *)
(* for a completion, for an event or in a wait queue, or in the lists of a *)
(* mailbox, a data queue or a memory pool.                                 *)
(***************************************************************************)
EXTENDS RingBuffer, Mailbox, DataQueue, MemPool, Completion, WaitQueue, Event,
        BlockingProofs, FiniteSetTheorems

-----------------------------------------------------------------------------
(* The ring buffer *)

RingTypeOK ==
    /\ rb \in [read_mirror : {0, 1}, read_index : 0 .. RB_SIZE - 1,
               write_mirror : {0, 1}, write_index : 0 .. RB_SIZE - 1,
               bytes : [0 .. RB_SIZE - 1 -> Int]]
    /\ nextByte \in 0 .. BYTES - 1
    /\ unread \in Seq(Int)

\* With equal mirror bits the write index has not wrapped past the read index,
\* with different ones it has, once.
MirrorsTell ==
    IF rb.read_mirror = rb.write_mirror
    THEN rb.write_index - rb.read_index = Len(unread)
    ELSE rb.write_index - rb.read_index = Len(unread) - RB_SIZE

\* The unread bytes lie behind the read index, in their order.
BytesHeld ==
    \A i \in 0 .. Len(unread) - 1 :
        rb.bytes[Around(RB_SIZE, rb.read_index, i)] = unread[i + 1]

RingInv ==
    /\ RingTypeOK
    /\ Len(unread) <= RB_SIZE
    /\ MirrorsTell
    /\ BytesHeld

\* What rt_ringbuffer_data_len computes from the bits and the indices.
LEMMA RingDataLen ==
    ASSUME RingInv
    PROVE  DataLen = Len(unread)
<1>1. RB_SIZE \in Nat /\ RB_SIZE > 0
  BY RingBufferConstants
<1>. DEFINE d == rb.write_index - rb.read_index
<1>2. d \in Int /\ d \in -RB_SIZE .. RB_SIZE - 1 /\ Len(unread) \in Nat
  BY <1>1 DEF RingInv, RingTypeOK
<1>3. d % RB_SIZE = IF d < 0 THEN d + RB_SIZE ELSE d
  <2>. HIDE DEF d
  <2>. QED
    BY <1>1, <1>2, RemainderAround
<1>4. d = IF rb.read_mirror = rb.write_mirror THEN Len(unread) ELSE Len(unread) - RB_SIZE
  BY DEF RingInv, MirrorsTell
<1>5. Len(unread) <= RB_SIZE /\ rb.read_index \in Int /\ rb.write_index \in Int
  BY <1>1 DEF RingInv, RingTypeOK
<1>6. CASE rb.read_index = rb.write_index
  BY <1>1, <1>2, <1>4, <1>5, <1>6 DEF DataLen
<1>7. CASE rb.read_index # rb.write_index
  <2>1. d # 0 /\ DataLen = d % RB_SIZE
    BY <1>5, <1>7 DEF DataLen
  <2>2. DataLen = IF d < 0 THEN d + RB_SIZE ELSE d
    BY <1>3, <2>1
  <2>3. d = Len(unread) \/ d = Len(unread) - RB_SIZE
    BY <1>4
  <2>. HIDE DEF d
  <2>4. d \in Int /\ RB_SIZE \in Int /\ Len(unread) \in Int
    BY <1>1, <1>2
  <2>5. CASE d < 0
    BY <1>1, <1>2, <1>5, <2>2, <2>3, <2>4, <2>5
  <2>6. CASE d >= 0
    BY <1>1, <1>2, <1>5, <2>1, <2>2, <2>3, <2>4, <2>6
  <2>. QED
    BY <2>4, <2>5, <2>6
<1>. QED
  BY <1>6, <1>7

\* The write index, its mirror bit and the bytes after a write of n of them.
LEMMA RingWritten ==
    ASSUME RingInv, NEW n \in 1 .. RB_SIZE
    PROVE  LET w == Written(n)
           IN  /\ w \in [read_mirror : {rb.read_mirror}, read_index : {rb.read_index},
                         write_mirror : {0, 1}, write_index : 0 .. RB_SIZE - 1,
                         bytes : [0 .. RB_SIZE - 1 -> Int]]
               /\ IF RB_SIZE - rb.write_index > n
                  THEN w.write_mirror = rb.write_mirror /\ w.write_index = rb.write_index + n
                  ELSE /\ w.write_mirror = 1 - rb.write_mirror
                       /\ w.write_index = rb.write_index + n - RB_SIZE
               /\ \A i \in 0 .. n - 1 :
                    w.bytes[Around(RB_SIZE, rb.write_index, i)] = (nextByte + i) % BYTES
               /\ \A i \in n .. RB_SIZE - 1 :
                    w.bytes[Around(RB_SIZE, rb.write_index, i)]
                        = rb.bytes[Around(RB_SIZE, rb.write_index, i)]
<1>. DEFINE S == RB_SIZE
            x == rb.write_index
            at == {(x + i) % S : i \in 0 .. n - 1}
            bytes == [i \in 0 .. S - 1 |->
                        IF i \in at THEN (nextByte + ((i - x) % S)) % BYTES ELSE rb.bytes[i]]
<1>1. S \in Nat /\ S > 0 /\ BYTES \in Nat /\ BYTES > 0
  BY RingBufferConstants
<1>2. x \in 0 .. S - 1 /\ nextByte \in Int /\ rb.bytes \in [0 .. S - 1 -> Int]
  BY DEF RingInv, RingTypeOK
<1>3. \A y \in Int : y % BYTES \in Int
  BY <1>1
<1>4. \A i \in 0 .. S - 1 : /\ Around(S, x, i) \in 0 .. S - 1
                            /\ (x + i) % S = Around(S, x, i)
                            /\ (Around(S, x, i) - x) % S = i
  <2>. SUFFICES ASSUME NEW i \in 0 .. S - 1
                PROVE  /\ Around(S, x, i) \in 0 .. S - 1
                       /\ (x + i) % S = Around(S, x, i)
                       /\ (Around(S, x, i) - x) % S = i
    OBVIOUS
  <2>. HIDE DEF S, x
  <2>1. x + i \in 0 .. 2 * S - 1 /\ x + i \in Int
    BY <1>1, <1>2
  <2>2. (x + i) % S = Around(S, x, i)
    <3>. DEFINE y == x + i
    <3>1. y \in Int /\ (y \in 0 .. S - 1 \/ y \in S .. 2 * S - 1)
      BY <1>1, <2>1
    <3>2. Around(S, x, i) = IF y < S THEN y ELSE y - S
      BY <1>1, <1>2 DEF Around
    <3>. HIDE DEF y
    <3>3. y % S = IF y < S THEN y ELSE y - S
      BY <1>1, <3>1, RemainderAround
    <3>. QED
      BY <3>2, <3>3 DEF y
  <2>3. CASE x + i < S
    <3>1. Around(S, x, i) - x = i
      BY <1>1, <1>2, <2>3 DEF Around
    <3>. QED
      BY <1>1, <1>2, <2>2, <2>3, <3>1, RemainderAround DEF Around
  <2>4. CASE x + i >= S
    <3>1. Around(S, x, i) - x = i - S /\ i - S \in -S .. -1 /\ i - S \in Int
      BY <1>1, <1>2, <2>4 DEF Around
    <3>2. (i - S) % S = i - S + S
      BY <1>1, <3>1, RemainderAround
    <3>. QED
      BY <1>1, <1>2, <2>2, <2>4, <3>1, <3>2 DEF Around
  <2>. QED
    BY <1>1, <1>2, <2>1, <2>3, <2>4
<1>5. bytes \in [0 .. S - 1 -> Int]
  <2>1. \A i \in 0 .. S - 1 : (i - x) % S \in Int
    <3>1. \A y \in Int : y % S \in Int
      BY <1>1
    <3>. SUFFICES ASSUME NEW i \in 0 .. S - 1 PROVE (i - x) % S \in Int
      OBVIOUS
    <3>. DEFINE y == i - x
    <3>2. y \in Int
      BY <1>1, <1>2
    <3>. HIDE DEF y
    <3>3. y % S \in Int
      BY <3>1, <3>2
    <3>. QED
      BY <3>3 DEF y
  <2>2. \A i \in 0 .. S - 1 : (nextByte + ((i - x) % S)) % BYTES \in Int
    <3>. SUFFICES ASSUME NEW i \in 0 .. S - 1
                  PROVE  (nextByte + ((i - x) % S)) % BYTES \in Int
      OBVIOUS
    <3>. DEFINE z == (i - x) % S
                y == nextByte + z
    <3>1. z \in Int
      BY <2>1
    <3>. HIDE DEF z
    <3>2. y \in Int
      BY <1>2, <3>1
    <3>. HIDE DEF y
    <3>3. y % BYTES \in Int
      BY <1>3, <3>2
    <3>. QED
      BY <3>3 DEF y, z
  <2>. HIDE DEF at
  <2>. QED
    BY <1>2, <2>2, Zenon
<1>6. ASSUME NEW i \in 0 .. n - 1
      PROVE  bytes[Around(S, x, i)] = (nextByte + i) % BYTES
  <2>1. i \in 0 .. S - 1
    BY <1>1
  <2>2. Around(S, x, i) \in at
    BY <1>4, <2>1
  <2>. DEFINE a == Around(S, x, i)
  <2>3. a \in 0 .. S - 1 /\ (a - x) % S = i
    BY <1>4, <2>1
  <2>. HIDE DEF at, S, x, a
  <2>4. bytes[a] = (nextByte + ((a - x) % S)) % BYTES
    BY <2>2, <2>3 DEF a
  <2>. HIDE DEF bytes
  <2>. QED
    BY <2>3, <2>4 DEF a
<1>7. ASSUME NEW i \in n .. S - 1
      PROVE  bytes[Around(S, x, i)] = rb.bytes[Around(S, x, i)]
  <2>1. i \in 0 .. S - 1 /\ \A j \in 0 .. n - 1 : j \in 0 .. S - 1 /\ j # i
    BY <1>1
  <2>2. ASSUME Around(S, x, i) \in at PROVE FALSE
    <3>1. PICK j \in 0 .. n - 1 : Around(S, x, i) = (x + j) % S
      BY <2>2
    <3>2. Around(S, x, i) = Around(S, x, j)
      BY <1>4, <2>1, <3>1
    <3>. HIDE DEF S, x, at
    <3>. QED
      BY <1>4, <2>1, <3>2
  <2>. HIDE DEF at, S, x
  <2>. QED
    BY <1>4, <2>1, <2>2
<1>8. Written(n) = IF S - x > n
                   THEN [rb EXCEPT !.bytes = bytes, !.write_index = @ + n]
                   ELSE [rb EXCEPT !.bytes = bytes, !.write_mirror = Flip(@),
                                   !.write_index = n - (S - @)]
  BY DEF Written, StaysInMirror
<1>. HIDE DEF bytes
<1>9. rb = [read_mirror |-> rb.read_mirror, read_index |-> rb.read_index,
            write_mirror |-> rb.write_mirror, write_index |-> rb.write_index,
            bytes |-> rb.bytes]
  BY DEF RingInv, RingTypeOK
<1>10. rb.write_mirror \in {0, 1} /\ 1 - rb.write_mirror \in {0, 1}
  BY DEF RingInv, RingTypeOK
<1>11. CASE S - x > n
  <2>1. Written(n) = [read_mirror |-> rb.read_mirror, read_index |-> rb.read_index,
                      write_mirror |-> rb.write_mirror, write_index |-> x + n,
                      bytes |-> bytes]
    BY <1>8, <1>9, <1>11
  <2>2. x + n \in 0 .. S - 1
    BY <1>1, <1>2, <1>11
  <2>. QED
    BY <1>5, <1>6, <1>7, <1>10, <1>11, <2>1, <2>2
<1>12. CASE ~(S - x > n)
  <2>1. Written(n) = [read_mirror |-> rb.read_mirror, read_index |-> rb.read_index,
                      write_mirror |-> 1 - rb.write_mirror, write_index |-> n - (S - x),
                      bytes |-> bytes]
    BY <1>8, <1>9, <1>12 DEF Flip
  <2>2. n - (S - x) = x + n - S /\ x + n - S \in 0 .. S - 1
    BY <1>1, <1>2, <1>12
  <2>. QED
    BY <1>5, <1>6, <1>7, <1>10, <1>12, <2>1, <2>2
<1>. QED
  BY <1>11, <1>12

\* The new bytes are a sequence of their own.
LEMMA RingFresh ==
    ASSUME RingInv, NEW n \in 1 .. RB_SIZE
    PROVE  Fresh(n) \in Seq(Int) /\ Len(Fresh(n)) = n
<1>1. /\ BYTES \in Nat /\ BYTES > 0 /\ nextByte \in Int /\ n \in Nat
      /\ \A i \in 1 .. n : i \in Int
  BY RingBufferConstants DEF RingInv, RingTypeOK
<1>2. \A i \in 1 .. n : (nextByte + i - 1) % BYTES \in Int
  <2>. SUFFICES ASSUME NEW i \in 1 .. n PROVE (nextByte + i - 1) % BYTES \in Int
    OBVIOUS
  <2>. DEFINE y == nextByte + i - 1
  <2>1. y \in Int
    BY <1>1
  <2>. HIDE DEF y
  <2>2. y % BYTES \in Int
    BY <1>1, <2>1, RemainderAround
  <2>. QED
    BY <2>2 DEF y
<1>3. Fresh(n) \in [1 .. n -> Int]
  BY <1>2, Zenon DEF Fresh
<1>. QED
  BY <1>1, <1>3

\* The read index of a forced write that overtakes it, with bits that differ.
LEMMA RingMoved ==
    ASSUME RingInv, NEW n \in 1 .. RB_SIZE, rb.read_mirror # rb.write_mirror
    PROVE  [Written(n) EXCEPT !.read_index = Written(n).write_index,
                !.read_mirror = IF StaysInMirror(rb.write_index, n) THEN @ ELSE Flip(@)]
           = [Written(n) EXCEPT !.read_index = Written(n).write_index,
                                !.read_mirror = 1 - Written(n).write_mirror]
<1>. DEFINE v == Written(n)
<1>1. /\ v.read_mirror = rb.read_mirror
      /\ IF RB_SIZE - rb.write_index > n THEN v.write_mirror = rb.write_mirror
         ELSE v.write_mirror = 1 - rb.write_mirror
  BY RingWritten
<1>2. rb.read_mirror \in {0, 1} /\ rb.write_mirror \in {0, 1}
  BY DEF RingInv, RingTypeOK
<1>. HIDE DEF v
<1>3. (IF StaysInMirror(rb.write_index, n) THEN v.read_mirror ELSE Flip(v.read_mirror))
      = 1 - v.write_mirror
  BY <1>1, <1>2 DEF StaysInMirror, Flip
<1>. QED
  BY <1>3 DEF v

\* What is left of the unread bytes and n new ones in a buffer of RB_SIZE.
LEMMA RingLast ==
    ASSUME RingInv, NEW n \in 1 .. RB_SIZE
    PROVE  LET s == LastOf(unread \o Fresh(n), RB_SIZE)
               L == Len(unread)
               dropped == IF L + n > RB_SIZE THEN L + n - RB_SIZE ELSE 0
           IN  /\ s \in Seq(Int)
               /\ Len(s) = L + n - dropped
               /\ \A i \in 0 .. Len(s) - 1 :
                    s[i + 1] = IF i + dropped < L THEN unread[i + dropped + 1]
                               ELSE (nextByte + (i + dropped - L)) % BYTES
<1>. DEFINE S == RB_SIZE
            L == Len(unread)
            dropped == IF L + n > S THEN L + n - S ELSE 0
            c == unread \o Fresh(n)
            s == LastOf(c, S)
<1>1. /\ S \in Nat /\ S > 0 /\ BYTES \in Nat /\ BYTES > 0
      /\ L \in Nat /\ L <= S /\ n \in 1 .. S
      /\ nextByte \in 0 .. BYTES - 1 /\ unread \in Seq(Int)
  BY RingBufferConstants DEF RingInv, RingTypeOK
<1>2. \A y \in Int : y % BYTES \in Int
  BY <1>1
<1>3. Fresh(n) \in Seq(Int) /\ Len(Fresh(n)) = n
  BY RingFresh
<1>4. ASSUME NEW j \in 0 .. n - 1
      PROVE  Fresh(n)[j + 1] = (nextByte + j) % BYTES
  <2>1. j + 1 \in 1 .. n /\ nextByte + (j + 1) - 1 = nextByte + j
    BY <1>1
  <2>2. Fresh(n)[j + 1] = (nextByte + (j + 1) - 1) % BYTES
    BY <2>1, Zenon DEF Fresh
  <2>. QED
    BY <2>1, <2>2
<1>5. /\ c \in Seq(Int) /\ Len(c) = L + n
      /\ \A j \in 1 .. L + n : c[j] = IF j <= L THEN unread[j] ELSE Fresh(n)[j - L]
  <2>1. \A f \in Seq(Int) : /\ unread \o f \in Seq(Int) /\ Len(unread \o f) = L + Len(f)
                             /\ \A j \in 1 .. L + Len(f) :
                                  (unread \o f)[j] = IF j <= L THEN unread[j] ELSE f[j - L]
    BY <1>1, ConcatProperties
  <2>. QED
    BY <1>3, <2>1
<1>. HIDE DEF c, L, S
<1>7. dropped \in Nat /\ dropped <= L /\ L + n - dropped \in Nat
  BY <1>1
<1>6. s = SubSeq(c, dropped + 1, L + n)
  <2>1. Smaller(L + n, S) = L + n - dropped
    BY <1>1 DEF Smaller
  <2>2. L + n - (L + n - dropped) + 1 = dropped + 1
    BY <1>1, <1>7
  <2>. HIDE DEF dropped
  <2>3. Len(c) = L + n
    BY <1>5
  <2>4. s = SubSeq(c, Len(c) - Smaller(Len(c), S) + 1, Len(c))
    BY DEF LastOf
  <2>5. Smaller(Len(c), S) = L + n - dropped
    BY <2>1, <2>3
  <2>6. Len(c) - Smaller(Len(c), S) + 1 = dropped + 1
    BY <1>1, <1>7, <2>3, <2>5
  <2>. HIDE DEF s
  <2>7. s = SubSeq(c, Len(c) - Smaller(Len(c), S) + 1, L + n)
    BY <2>3, <2>4, Zenon
  <2>. DEFINE first == Len(c) - Smaller(Len(c), S) + 1
  <2>8. s = SubSeq(c, first, L + n) /\ first = dropped + 1
    BY <2>6, <2>7, Zenon
  <2>. HIDE DEF first
  <2>. QED
    BY <2>8, Zenon
<1>. HIDE DEF s, dropped
<1>8. s \in Seq(Int) /\ Len(s) = L + n - dropped
  BY <1>1, <1>5, <1>6, <1>7
<1>9. \A i \in 0 .. Len(s) - 1 : s[i + 1] = c[i + dropped + 1]
  <2>. SUFFICES ASSUME NEW i \in 0 .. Len(s) - 1 PROVE s[i + 1] = c[i + dropped + 1]
    OBVIOUS
  <2>1. i + 1 \in 1 .. L + n - dropped
    BY <1>1, <1>7, <1>8
  <2>2. s[i + 1] = c[dropped + 1 + (i + 1) - 1]
    BY <1>1, <1>5, <1>6, <1>7, <2>1
  <2>3. dropped + 1 + (i + 1) - 1 = i + dropped + 1
    BY <1>1, <1>7
  <2>. QED
    BY <2>2, <2>3, Zenon
<1>10. ASSUME NEW i \in 0 .. Len(s) - 1
       PROVE  s[i + 1] = IF i + dropped < L THEN unread[i + dropped + 1]
                         ELSE (nextByte + (i + dropped - L)) % BYTES
  <2>1. i + dropped + 1 \in 1 .. L + n
    BY <1>1, <1>7, <1>8
  <2>2. CASE i + dropped < L
    <3>1. i + dropped + 1 <= L
      BY <1>1, <1>7, <2>2
    <3>. QED
      BY <1>5, <1>9, <2>1, <2>2, <3>1
  <2>3. CASE ~(i + dropped < L)
    <3>1. ~(i + dropped + 1 <= L) /\ i + dropped - L \in 0 .. n - 1
          /\ (i + dropped - L) + 1 = i + dropped + 1 - L
      BY <1>1, <1>7, <2>1, <2>3
    <3>2. s[i + 1] = Fresh(n)[(i + dropped - L) + 1]
      <4>1. c[i + dropped + 1] = Fresh(n)[i + dropped + 1 - L]
        <5>. DEFINE m == i + dropped + 1
        <5>1. m \in 1 .. L + n /\ ~(m <= L)
          BY <2>1, <3>1
        <5>. HIDE DEF m
        <5>2. c[m] = Fresh(n)[m - L]
          BY <1>1, <1>5, <5>1
        <5>. QED
          BY <1>1, <1>7, <5>2 DEF m
      <4>. QED
        BY <1>9, <3>1, <4>1
    <3>3. Fresh(n)[(i + dropped - L) + 1] = (nextByte + (i + dropped - L)) % BYTES
      BY <1>4, <3>1
    <3>. QED
      BY <2>3, <3>2, <3>3
  <2>. QED
    BY <2>2, <2>3
<1>. QED
  BY <1>8, <1>10 DEF s, c, dropped, L, S

\* A write of n bytes into a buffer that has room for them, or after which the
\* read index is moved onto the write index in the other mirror.
LEMMA RingPut ==
    ASSUME RingInv, NEW n \in 1 .. RB_SIZE,
           \/ n <= RB_SIZE - Len(unread) /\ rb' = Written(n)
           \/ /\ n > RB_SIZE - Len(unread)
              /\ rb' = [Written(n) EXCEPT !.read_index = Written(n).write_index,
                                          !.read_mirror = 1 - Written(n).write_mirror],
           nextByte' \in 0 .. BYTES - 1,
           unread' = LastOf(unread \o Fresh(n), RB_SIZE)
    PROVE  RingInv'
<1>. DEFINE S == RB_SIZE
            L == Len(unread)
            r == rb.read_index
            w == rb.write_index
            v == Written(n)
            dropped == IF L + n > S THEN L + n - S ELSE 0
            byte(i) == (nextByte + i) % BYTES
<1>1. /\ S \in Nat /\ S > 0 /\ L \in 0 .. S /\ n \in 1 .. S
      /\ r \in 0 .. S - 1 /\ w \in 0 .. S - 1
      /\ rb.read_mirror \in {0, 1} /\ rb.write_mirror \in {0, 1}
      /\ unread \in Seq(Int)
      /\ IF rb.read_mirror = rb.write_mirror THEN w - r = L ELSE w - r = L - S
      /\ \A i \in 0 .. L - 1 : rb.bytes[Around(S, r, i)] = unread[i + 1]
  <2>. HIDE DEF v, dropped, byte
  <2>1. S \in Nat /\ S > 0 /\ n \in 1 .. S /\ unread \in Seq(Int) /\ Len(unread) \in Nat
    BY RingBufferConstants, LenProperties DEF RingInv, RingTypeOK
  <2>2. /\ r \in 0 .. S - 1 /\ w \in 0 .. S - 1
        /\ rb.read_mirror \in {0, 1} /\ rb.write_mirror \in {0, 1}
    BY DEF RingInv, RingTypeOK
  <2>3. L \in 0 .. S
    BY <2>1 DEF RingInv
  <2>4. IF rb.read_mirror = rb.write_mirror THEN w - r = L ELSE w - r = L - S
    BY DEF RingInv, MirrorsTell
  <2>5. \A i \in 0 .. L - 1 : rb.bytes[Around(S, r, i)] = unread[i + 1]
    BY DEF RingInv, BytesHeld
  <2>. QED
    BY <2>1, <2>2, <2>3, <2>4, <2>5
<1>2. /\ v \in [read_mirror : {rb.read_mirror}, read_index : {r},
                write_mirror : {0, 1}, write_index : 0 .. S - 1, bytes : [0 .. S - 1 -> Int]]
      /\ IF S - w > n
         THEN v.write_mirror = rb.write_mirror /\ v.write_index = w + n
         ELSE v.write_mirror = 1 - rb.write_mirror /\ v.write_index = w + n - S
      /\ \A i \in 0 .. n - 1 : v.bytes[Around(S, w, i)] = byte(i)
      /\ \A i \in n .. S - 1 : v.bytes[Around(S, w, i)] = rb.bytes[Around(S, w, i)]
  BY RingWritten, Zenon
<1>3. /\ unread' \in Seq(Int)
      /\ Len(unread') = L + n - dropped
      /\ \A i \in 0 .. Len(unread') - 1 :
           unread'[i + 1] = IF i + dropped < L THEN unread[i + dropped + 1]
                            ELSE byte(i + dropped - L)
  BY RingLast, Zenon
<1>. HIDE DEF v, byte
<1>4. /\ rb' \in [read_mirror : {0, 1}, read_index : 0 .. S - 1,
                  write_mirror : {0, 1}, write_index : 0 .. S - 1,
                  bytes : [0 .. S - 1 -> Int]]
      /\ rb'.write_mirror = v.write_mirror /\ rb'.write_index = v.write_index
      /\ rb'.bytes = v.bytes
      /\ IF n <= S - L THEN rb'.read_mirror = rb.read_mirror /\ rb'.read_index = r
         ELSE rb'.read_mirror = 1 - v.write_mirror /\ rb'.read_index = v.write_index
  <2>1. CASE n <= S - L
    <3>1. rb' = v
      BY <1>1, <2>1 DEF v
    <3>. QED
      BY <1>1, <1>2, <2>1, <3>1
  <2>2. CASE ~(n <= S - L)
    <3>1. rb' = [v EXCEPT !.read_index = v.write_index, !.read_mirror = 1 - v.write_mirror]
      BY <1>1, <2>2 DEF v
    <3>2. 1 - v.write_mirror \in {0, 1} /\ v.write_index \in 0 .. S - 1
      BY <1>2
    <3>3. v = [read_mirror |-> v.read_mirror, read_index |-> v.read_index,
               write_mirror |-> v.write_mirror, write_index |-> v.write_index,
               bytes |-> v.bytes]
      BY <1>2
    <3>4. rb' = [read_mirror |-> 1 - v.write_mirror, read_index |-> v.write_index,
                 write_mirror |-> v.write_mirror, write_index |-> v.write_index,
                 bytes |-> v.bytes]
      BY <3>1, <3>3
    <3>. QED
      BY <1>2, <2>2, <3>2, <3>4
  <2>. QED
    BY <2>1, <2>2
<1>. DEFINE r1 == rb'.read_index
            w1 == rb'.write_index
            L1 == Len(unread')
<1>. HIDE DEF S, L, r, w, r1, w1, L1
<1>7. S \in Nat /\ S > 0 /\ L \in 0 .. S /\ n \in 1 .. S /\ r \in 0 .. S - 1 /\ w \in 0 .. S - 1
  BY <1>1
<1>8. /\ dropped \in Nat /\ L1 \in 0 .. S /\ L1 = L + n - dropped
      /\ n <= S - L => dropped = 0
      /\ ~(n <= S - L) => dropped = L + n - S /\ L1 = S
  <2>1. L1 = L + n - dropped
    BY <1>3 DEF L1
  <2>. QED
    BY <1>7, <2>1
<1>. HIDE DEF dropped
<1>9. /\ r1 \in 0 .. S - 1 /\ w1 \in 0 .. S - 1
      /\ w1 = w + n \/ w1 = w + n - S
      /\ w - r = L \/ w - r = L - S
      /\ IF n <= S - L THEN r1 = r ELSE r1 = w1
  BY <1>1, <1>2, <1>4 DEF r1, w1
<1>5. HoldsFrom(S, r1, L1, rb'.bytes, unread')
  <2>. DEFINE b == [i \in 0 .. n - 1 |-> byte(i)]
              old == rb.bytes
              new == rb'.bytes
              u == unread
              u1 == unread'
  <2>0. HoldsFrom(S, r, L, old, u)
    BY <1>1 DEF HoldsFrom
  <2>1. /\ \A i \in 0 .. n - 1 : new[Around(S, w, i)] = b[i]
        /\ \A i \in n .. S - 1 : new[Around(S, w, i)] = old[Around(S, w, i)]
    BY <1>1, <1>2, <1>4
  <2>2. \A i \in 0 .. L + n - dropped - 1 :
          u1[i + 1] = IF i + dropped < L THEN u[i + dropped + 1] ELSE b[i + dropped - L]
    <3>. SUFFICES ASSUME NEW i \in 0 .. L + n - dropped - 1
                  PROVE  u1[i + 1] = IF i + dropped < L THEN u[i + dropped + 1]
                                     ELSE b[i + dropped - L]
      OBVIOUS
    <3>1. i \in Int /\ i \in 0 .. Len(unread') - 1
      BY <1>7, <1>8, <1>3
    <3>2. u1[i + 1] = IF i + dropped < L THEN u[i + dropped + 1] ELSE byte(i + dropped - L)
      BY <1>3, <3>1
    <3>. DEFINE j == i + dropped - L
    <3>3. ~(i + dropped < L) => j \in 0 .. n - 1
      <4>1. dropped \in Nat /\ L \in Nat /\ n \in Nat
        BY <1>7, <1>8
      <4>2. i \in Nat /\ i + dropped < L + n
        BY <4>1
      <4>. QED
        BY <4>1, <4>2
    <3>. HIDE DEF j
    <3>4. ~(i + dropped < L) => byte(j) = b[j]
      BY <3>3
    <3>. QED
      BY <3>2, <3>4 DEF j
  <2>3. \/ dropped = 0 /\ L + n <= S /\ r1 = r
        \/ dropped = L + n - S /\ (r1 = w + n \/ r1 = w + n - S)
    BY <1>7, <1>8, <1>9
  <2>. HIDE DEF b, old, new, u, u1
  <2>4. Overwrites(S, L, n, dropped, w, b, old, new, u, u1)
    BY <2>1, <2>2 DEF Overwrites
  <2>5. HoldsFrom(S, r1, L + n - dropped, new, u1)
    BY <1>7, <1>8, <1>9, <2>0, <2>3, <2>4, OverwrittenRing
  <2>. QED
    BY <1>8, <2>5 DEF new, u1
<1>6. IF rb'.read_mirror = rb'.write_mirror THEN w1 - r1 = L1 ELSE w1 - r1 = L1 - S
  <2>1. CASE n <= S - L
    <3>1. L1 = L + n /\ r1 = r /\ rb'.read_mirror = rb.read_mirror
      BY <1>4, <1>7, <1>8, <1>9, <2>1
    <3>2. CASE S - w > n
      <4>1. w1 = w + n /\ rb'.write_mirror = rb.write_mirror
        BY <1>2, <1>4, <3>2 DEF w1
      <4>2. w - r = L <=> w1 - r1 = L1
        BY <1>7, <3>1, <4>1
      <4>3. w - r = L - S => w1 - r1 = L1 - S
        BY <1>7, <3>1, <4>1
      <4>. QED
        BY <1>1, <3>1, <4>1, <4>2, <4>3
    <3>3. CASE ~(S - w > n)
      <4>1. w1 = w + n - S /\ rb'.write_mirror = 1 - rb.write_mirror
        BY <1>2, <1>4, <3>3 DEF w1
      <4>2. w - r = L => w1 - r1 = L1 - S
        BY <1>7, <3>1, <4>1
      <4>3. w - r # L - S
        BY <1>7, <2>1, <3>3
      <4>4. rb.read_mirror = rb.write_mirror
        BY <1>1, <4>3
      <4>. QED
        BY <1>1, <3>1, <4>1, <4>2, <4>4
    <3>. QED
      BY <3>2, <3>3
  <2>2. CASE ~(n <= S - L)
    <3>1. rb'.read_mirror # rb'.write_mirror
      <4>1. rb'.write_mirror \in {0, 1} /\ rb'.read_mirror = 1 - rb'.write_mirror
        BY <1>4, <2>2
      <4>. QED
        BY <4>1
    <3>2. w1 - r1 = L1 - S
      BY <1>7, <1>8, <1>9, <2>2
    <3>. QED
      BY <3>1, <3>2
  <2>. QED
    BY <2>1, <2>2
<1>10. RingTypeOK'
  BY <1>3, <1>4 DEF RingTypeOK, S
<1>11. Len(unread') <= RB_SIZE
  BY <1>7, <1>8 DEF L1, S
<1>12. MirrorsTell'
  BY <1>6 DEF MirrorsTell, r1, w1, L1, S
<1>13. BytesHeld'
  BY <1>5 DEF BytesHeld, HoldsFrom, r1, L1, S
<1>. QED
  BY <1>10, <1>11, <1>12, <1>13 DEF RingInv

\* rt_ringbuffer_get moves the read index past the bytes it hands out.
LEMMA RingGot ==
    ASSUME RingInv, NEW n \in 1 .. RB_SIZE, n <= Len(unread),
           rb' = Read(n), nextByte' = nextByte,
           unread' = SubSeq(unread, n + 1, Len(unread))
    PROVE  RingInv'
<1>. DEFINE S == RB_SIZE
            L == Len(unread)
            r == rb.read_index
            w == rb.write_index
            r1 == rb'.read_index
<1>1. /\ S \in Nat /\ S > 0 /\ L \in 0 .. S /\ n \in 1 .. L
      /\ r \in 0 .. S - 1 /\ w \in 0 .. S - 1
      /\ nextByte \in 0 .. BYTES - 1 /\ unread \in Seq(Int)
  BY RingBufferConstants DEF RingInv, RingTypeOK
<1>2. /\ rb.read_mirror \in {0, 1} /\ rb.write_mirror \in {0, 1}
      /\ rb.bytes \in [0 .. S - 1 -> Int]
      /\ rb = [read_mirror |-> rb.read_mirror, read_index |-> rb.read_index,
               write_mirror |-> rb.write_mirror, write_index |-> rb.write_index,
               bytes |-> rb.bytes]
  BY DEF RingInv, RingTypeOK
<1>3. /\ IF rb.read_mirror = rb.write_mirror THEN w - r = L ELSE w - r = L - S
      /\ \A i \in 0 .. L - 1 : rb.bytes[Around(S, r, i)] = unread[i + 1]
  BY DEF RingInv, MirrorsTell, BytesHeld
<1>4. /\ unread' \in Seq(Int) /\ Len(unread') = L - n
      /\ \A i \in 1 .. L - n : unread'[i] = unread[i + n]
  <2>1. unread' = SubSeq(unread, n + 1, L)
    OBVIOUS
  <2>. HIDE DEF L
  <2>2. n + 1 \in 1 .. L + 1 /\ L \in 0 .. Len(unread)
    BY <1>1 DEF L
  <2>3. unread' \in Seq(Int) /\ Len(unread') = L - n
    BY <1>1, <2>1, <2>2 DEF L
  <2>4. ASSUME NEW i \in 1 .. L - n PROVE unread'[i] = unread[i + n]
    <3>1. unread'[i] = unread[(n + 1) + i - 1]
      BY <1>1, <2>1, <2>2, <2>3 DEF L
    <3>2. (n + 1) + i - 1 = i + n
      BY <1>1
    <3>. QED
      BY <3>1, <3>2
  <2>. QED
    BY <2>3, <2>4
<1>5. /\ rb'.write_mirror = rb.write_mirror /\ rb'.write_index = w /\ rb'.bytes = rb.bytes
      /\ rb' \in [read_mirror : {0, 1}, read_index : 0 .. S - 1,
                  write_mirror : {0, 1}, write_index : 0 .. S - 1,
                  bytes : [0 .. S - 1 -> Int]]
      /\ IF S - r > n THEN rb'.read_mirror = rb.read_mirror /\ r1 = r + n
         ELSE rb'.read_mirror = 1 - rb.read_mirror /\ r1 = r + n - S
  <2>1. CASE S - r > n
    <3>1. rb' = [read_mirror |-> rb.read_mirror, read_index |-> r + n,
                 write_mirror |-> rb.write_mirror, write_index |-> w, bytes |-> rb.bytes]
      BY <1>2, <2>1 DEF Read, StaysInMirror
    <3>2. r + n \in 0 .. S - 1
      BY <1>1, <2>1
    <3>. QED
      BY <1>1, <1>2, <2>1, <3>1, <3>2
  <2>2. CASE ~(S - r > n)
    <3>1. rb' = [read_mirror |-> 1 - rb.read_mirror, read_index |-> n - (S - r),
                 write_mirror |-> rb.write_mirror, write_index |-> w, bytes |-> rb.bytes]
      BY <1>2, <2>2 DEF Read, StaysInMirror, Flip
    <3>2. n - (S - r) = r + n - S /\ n - (S - r) \in 0 .. S - 1 /\ 1 - rb.read_mirror \in {0, 1}
      <4>1. n - (S - r) = r + n - S
        BY <1>1
      <4>2. n - (S - r) \in 0 .. S - 1
        BY <1>1, <2>2
      <4>3. rb.read_mirror = 0 \/ rb.read_mirror = 1
        BY <1>2
      <4>. QED
        BY <4>1, <4>2, <4>3
    <3>. DEFINE x == n - (S - r)
    <3>. HIDE DEF x
    <3>3. rb' \in [read_mirror : {0, 1}, read_index : 0 .. S - 1,
                   write_mirror : {0, 1}, write_index : 0 .. S - 1,
                   bytes : [0 .. S - 1 -> Int]]
      BY <1>1, <1>2, <3>1, <3>2 DEF x
    <3>. QED
      BY <2>2, <3>1, <3>2, <3>3
  <2>. QED
    BY <2>1, <2>2
<1>. HIDE DEF S, L, r, w, r1
<1>6. r1 \in 0 .. S - 1 /\ (r1 = r + n \/ r1 = r + n - S)
  BY <1>5 DEF r1
<1>7. IF rb'.read_mirror = rb'.write_mirror
      THEN w - r1 = L - n ELSE w - r1 = L - n - S
  <2>1. CASE S - r > n
    <3>1. r1 = r + n /\ rb'.read_mirror = rb.read_mirror
      BY <1>5, <2>1
    <3>2. w - r = L => w - r1 = L - n
      BY <1>1, <3>1
    <3>3. w - r = L - S => w - r1 = L - n - S
      BY <1>1, <3>1
    <3>. QED
      BY <1>3, <1>5, <3>1, <3>2, <3>3
  <2>2. CASE ~(S - r > n)
    <3>1. r1 = r + n - S /\ rb'.read_mirror = 1 - rb.read_mirror
      BY <1>5, <2>2
    <3>2. w - r # L
      BY <1>1, <2>2
    <3>3. w - r = L - S => w - r1 = L - n
      BY <1>1, <3>1
    <3>4. rb'.read_mirror = rb'.write_mirror
      BY <1>2, <1>3, <1>5, <3>1, <3>2
    <3>. QED
      BY <1>3, <3>2, <3>3, <3>4
  <2>. QED
    BY <2>1, <2>2
<1>8. ASSUME NEW i \in 0 .. L - n - 1
      PROVE  rb'.bytes[Around(S, r1, i)] = unread'[i + 1]
  <2>1. i + n \in 0 .. L - 1 /\ i + 1 \in 1 .. L - n /\ i + 1 + n = i + n + 1
    BY <1>1
  <2>2. Around(S, r1, i) = Around(S, r, i + n)
    BY <1>1, <1>6, <2>1 DEF Around
  <2>3. rb.bytes[Around(S, r, i + n)] = unread[i + n + 1]
    BY <1>3, <2>1
  <2>4. unread'[i + 1] = unread[i + n + 1]
    BY <1>4, <2>1
  <2>. QED
    BY <1>5, <2>2, <2>3, <2>4
<1>9. RingTypeOK'
  BY <1>1, <1>4, <1>5 DEF RingTypeOK, S
<1>10. Len(unread') <= RB_SIZE
  BY <1>1, <1>4 DEF S
<1>11. MirrorsTell'
  BY <1>4, <1>5, <1>7 DEF MirrorsTell, S, w, r1
<1>12. BytesHeld'
  BY <1>4, <1>8 DEF BytesHeld, S, r1
<1>. QED
  BY <1>9, <1>10, <1>11, <1>12 DEF RingInv

\* A buffer that is initialised or reset has nothing to read.
LEMMA RingEmptied ==
    ASSUME NEW bytes \in [0 .. RB_SIZE - 1 -> Int],
           rb' = [read_mirror |-> 0, read_index |-> 0, write_mirror |-> 0, write_index |-> 0,
                  bytes |-> bytes],
           nextByte' \in 0 .. BYTES - 1,
           unread' = << >>
    PROVE  RingInv'
<1>1. RB_SIZE \in Nat /\ RB_SIZE > 0
  BY RingBufferConstants
<1>2. 0 \in 0 .. RB_SIZE - 1
  BY <1>1
<1>. QED
  BY <1>1, <1>2 DEF RingInv, RingTypeOK, MirrorsTell, BytesHeld

\* A forced write that overtakes over equal mirror bits leaves nothing to read.
LEMMA RingOverrun ==
    ASSUME RingInv, NEW n \in 1 .. RB_SIZE, n > RB_SIZE - Len(unread),
           rb.read_mirror = rb.write_mirror, rb' = Forced(n), Overtakes(n),
           nextByte' \in 0 .. BYTES - 1, unread' = << >>
    PROVE  RingInv'
<1>. DEFINE v == Written(n)
<1>1. /\ RB_SIZE \in Nat /\ RB_SIZE > 0 /\ Len(unread) \in Nat
      /\ rb.read_index \in 0 .. RB_SIZE - 1 /\ rb.write_index \in 0 .. RB_SIZE - 1
      /\ rb.write_mirror \in {0, 1}
      /\ rb.write_index - rb.read_index = Len(unread)
  BY RingBufferConstants, LenProperties DEF RingInv, RingTypeOK, MirrorsTell
<1>2. ~(RB_SIZE - rb.write_index > n)
  BY <1>1
<1>3. /\ v \in [read_mirror : {rb.read_mirror}, read_index : {rb.read_index},
                write_mirror : {0, 1}, write_index : 0 .. RB_SIZE - 1,
                bytes : [0 .. RB_SIZE - 1 -> Int]]
      /\ v.write_mirror = 1 - rb.write_mirror
  BY <1>2, RingWritten
<1>4. rb' = [v EXCEPT !.read_index = v.write_index, !.read_mirror = Flip(@)]
  BY <1>2 DEF Forced, StaysInMirror
<1>. HIDE DEF v
<1>5. Flip(v.read_mirror) = v.write_mirror
  BY <1>3 DEF Flip
<1>6. /\ rb' \in [read_mirror : {0, 1}, read_index : 0 .. RB_SIZE - 1,
                  write_mirror : {0, 1}, write_index : 0 .. RB_SIZE - 1,
                  bytes : [0 .. RB_SIZE - 1 -> Int]]
      /\ rb'.read_mirror = rb'.write_mirror /\ rb'.read_index = rb'.write_index
  BY <1>3, <1>4, <1>5
<1>7. unread' \in Seq(Int) /\ Len(unread') = 0
  OBVIOUS
<1>8. rb'.write_index - rb'.read_index = 0 /\ 0 .. 0 - 1 = {}
  BY <1>1, <1>6
<1>. QED
  BY <1>1, <1>6, <1>7, <1>8 DEF RingInv, RingTypeOK, MirrorsTell, BytesHeld

\* The functions of the ring buffer keep to the invariant.
LEMMA RingStep ==
    ASSUME RingInv, [RingNext]_ringVars
    PROVE  RingInv'
<1>1. /\ RB_SIZE \in Nat /\ RB_SIZE > 0 /\ BYTES \in Nat /\ BYTES > 0
      /\ PUT_MAX \in Nat /\ PUT_MAX > 0
      /\ nextByte \in 0 .. BYTES - 1 /\ unread \in Seq(Int) /\ Len(unread) \in 0 .. RB_SIZE
  BY RingBufferConstants DEF RingInv, RingTypeOK
<1>2. DataLen = Len(unread) /\ SpaceLen = RB_SIZE - Len(unread)
  BY RingDataLen DEF SpaceLen
<1>3. \A n \in Int : (nextByte + n) % BYTES \in 0 .. BYTES - 1
  <2>. SUFFICES ASSUME NEW n \in Int PROVE (nextByte + n) % BYTES \in 0 .. BYTES - 1
    OBVIOUS
  <2>. DEFINE y == nextByte + n
  <2>1. y \in Int
    BY <1>1
  <2>. HIDE DEF y
  <2>2. y % BYTES \in 0 .. BYTES - 1
    BY <1>1, <2>1, RemainderAround
  <2>. QED
    BY <2>2 DEF y
<1>4. ASSUME NEW n \in 1 .. RB_SIZE, n <= RB_SIZE - Len(unread)
      PROVE  unread \o Fresh(n) = LastOf(unread \o Fresh(n), RB_SIZE)
  <2>. DEFINE c == unread \o Fresh(n)
  <2>1. Fresh(n) \in Seq(Int) /\ Len(Fresh(n)) = n
    BY RingFresh
  <2>2. c \in Seq(Int) /\ Len(c) \in 0 .. RB_SIZE
    BY <1>1, <1>4, <2>1
  <2>. HIDE DEF c
  <2>3. Smaller(Len(c), RB_SIZE) = Len(c)
    BY <1>1, <2>2 DEF Smaller
  <2>4. Len(c) - Len(c) + 1 = 1
    BY <2>2
  <2>5. LastOf(c, RB_SIZE) = SubSeq(c, 1, Len(c))
    BY <2>3, <2>4 DEF LastOf
  <2>6. SubSeq(c, 1, Len(c)) = c
    BY <2>2
  <2>. QED
    BY <2>5, <2>6 DEF c
<1>5. Append(unread, nextByte) = unread \o Fresh(1)
  <2>1. (nextByte + 1 - 1) % BYTES = nextByte
    <3>1. nextByte + 1 - 1 = nextByte /\ nextByte \in Int
      BY <1>1
    <3>2. nextByte % BYTES = nextByte
      BY <1>1, <3>1, RemainderAround
    <3>. QED
      BY <3>1, <3>2
  <2>2. 1 \in 1 .. RB_SIZE
    BY <1>1
  <2>3. Fresh(1) \in Seq(Int) /\ Len(Fresh(1)) = 1
    BY <2>2, RingFresh
  <2>4. Fresh(1)[1] = nextByte
    BY <2>1 DEF Fresh
  <2>5. Fresh(1) = <<nextByte>>
    BY <2>3, <2>4
  <2>6. nextByte \in Int
    BY <1>1
  <2>7. Append(unread, nextByte) = unread \o <<nextByte>>
    BY <1>1, <2>6, AppendIsConcat
  <2>. QED
    BY <2>5, <2>7
<1>6. CASE rt_ringbuffer_put
  <2>1. PICK length \in 1 .. PUT_MAX :
          /\ SpaceLen # 0
          /\ rb' = Written(PutLen(length))
          /\ nextByte' = (nextByte + PutLen(length)) % BYTES
          /\ unread' = unread \o Fresh(PutLen(length))
    BY <1>6 DEF rt_ringbuffer_put
  <2>2. PutLen(length) \in 1 .. RB_SIZE /\ PutLen(length) <= RB_SIZE - Len(unread)
    BY <1>1, <1>2, <2>1 DEF PutLen, Smaller
  <2>. DEFINE n == PutLen(length)
  <2>. HIDE DEF n
  <2>3. n \in 1 .. RB_SIZE /\ n \in Int /\ n <= RB_SIZE - Len(unread)
    BY <2>2 DEF n
  <2>4. /\ rb' = Written(n) /\ nextByte' = (nextByte + n) % BYTES
        /\ unread' = unread \o Fresh(n)
    BY <2>1 DEF n
  <2>5. nextByte' \in 0 .. BYTES - 1
    BY <1>3, <2>3, <2>4
  <2>6. unread' = LastOf(unread \o Fresh(n), RB_SIZE)
    BY <1>4, <2>3, <2>4
  <2>. QED
    BY <2>3, <2>4, <2>5, <2>6, RingPut
<1>7. CASE rt_ringbuffer_putchar
  <2>1. 1 \in 1 .. RB_SIZE /\ 1 <= RB_SIZE - Len(unread)
    BY <1>1, <1>2, <1>7 DEF rt_ringbuffer_putchar
  <2>2. nextByte' \in 0 .. BYTES - 1
    BY <1>3, <1>7 DEF rt_ringbuffer_putchar
  <2>. QED
    BY <1>4, <1>5, <1>7, <2>1, <2>2, RingPut DEF rt_ringbuffer_putchar
<1>8. CASE rt_ringbuffer_put_force
  <2>1. PICK length \in 1 .. PUT_MAX :
          LET n == Smaller(length, RB_SIZE)
          IN  /\ rb' = Forced(n)
              /\ nextByte' = (nextByte + n) % BYTES
              /\ unread' = IF Empties(n) THEN << >> ELSE LastOf(unread \o Fresh(n), RB_SIZE)
    BY <1>8 DEF rt_ringbuffer_put_force
  <2>. DEFINE n == Smaller(length, RB_SIZE)
  <2>2. n \in 1 .. RB_SIZE
    BY <1>1 DEF Smaller
  <2>3. /\ rb' = Forced(n) /\ nextByte' = (nextByte + n) % BYTES
        /\ unread' = IF Empties(n) THEN << >> ELSE LastOf(unread \o Fresh(n), RB_SIZE)
    BY <2>1
  <2>. HIDE DEF n
  <2>4. nextByte' \in 0 .. BYTES - 1
    BY <1>3, <2>2, <2>3
  <2>5. CASE ~Overtakes(n)
    <3>1. rb' = Written(n) /\ n <= RB_SIZE - Len(unread)
      BY <1>1, <1>2, <2>2, <2>3, <2>5 DEF Forced, Overtakes
    <3>. QED
      BY <2>2, <2>3, <2>4, <2>5, <3>1, RingPut DEF Empties
  <2>6. CASE Overtakes(n) /\ rb.read_mirror # rb.write_mirror
    <3>1. n > RB_SIZE - Len(unread)
      BY <1>1, <1>2, <2>2, <2>6 DEF Overtakes
    <3>2. rb' = [Written(n) EXCEPT !.read_index = Written(n).write_index,
                                   !.read_mirror = 1 - Written(n).write_mirror]
      BY <2>2, <2>3, <2>6, RingMoved DEF Forced
    <3>. QED
      BY <2>2, <2>3, <2>4, <2>6, <3>1, <3>2, RingPut DEF Empties
  <2>7. CASE Overtakes(n) /\ rb.read_mirror = rb.write_mirror
    <3>1. n > RB_SIZE - Len(unread)
      BY <1>1, <1>2, <2>2, <2>7 DEF Overtakes
    <3>. QED
      BY <2>2, <2>3, <2>4, <2>7, <3>1, RingOverrun DEF Empties
  <2>. QED
    BY <2>5, <2>6, <2>7
<1>9. CASE rt_ringbuffer_putchar_force
  <2>1. 1 \in 1 .. RB_SIZE
    BY <1>1
  <2>2. nextByte' \in 0 .. BYTES - 1
    BY <1>3, <1>9 DEF rt_ringbuffer_putchar_force
  <2>3. unread' = LastOf(unread \o Fresh(1), RB_SIZE)
    BY <1>5, <1>9 DEF rt_ringbuffer_putchar_force
  <2>4. CASE SpaceLen # 0
    <3>1. rb' = Written(1) /\ 1 <= RB_SIZE - Len(unread)
      BY <1>1, <1>2, <1>9, <2>4 DEF rt_ringbuffer_putchar_force, CharForced
    <3>. QED
      BY <2>1, <2>2, <2>3, <3>1, RingPut
  <2>5. CASE SpaceLen = 0
    <3>1. 1 > RB_SIZE - Len(unread) /\ Len(unread) = RB_SIZE
      BY <1>1, <1>2, <2>5
    <3>2. rb.read_mirror # rb.write_mirror
      <4>1. rb.write_index - rb.read_index # RB_SIZE
        BY <1>1 DEF RingInv, RingTypeOK
      <4>. QED
        BY <3>1, <4>1 DEF RingInv, MirrorsTell
    <3>3. rb.write_index = RB_SIZE - 1 <=> ~StaysInMirror(rb.write_index, 1)
      <4>1. rb.write_index \in 0 .. RB_SIZE - 1
        BY DEF RingInv, RingTypeOK
      <4>. QED
        BY <1>1, <4>1 DEF StaysInMirror
    <3>4. rb' = [Written(1) EXCEPT !.read_index = Written(1).write_index,
                                   !.read_mirror = 1 - Written(1).write_mirror]
      BY <1>9, <2>1, <2>5, <3>2, <3>3, RingMoved DEF rt_ringbuffer_putchar_force, CharForced
    <3>. QED
      BY <2>1, <2>2, <2>3, <3>1, <3>4, RingPut
  <2>. QED
    BY <2>4, <2>5
<1>10. CASE rt_ringbuffer_get
  <2>1. PICK length \in 1 .. PUT_MAX :
          LET n == Smaller(length, DataLen)
          IN  /\ DataLen # 0
              /\ rb' = Read(n)
              /\ unread' = SubSeq(unread, n + 1, Len(unread))
              /\ UNCHANGED nextByte
    BY <1>10 DEF rt_ringbuffer_get
  <2>. DEFINE n == Smaller(length, DataLen)
  <2>2. n \in 1 .. RB_SIZE /\ n <= Len(unread)
    BY <1>1, <1>2, <2>1 DEF Smaller
  <2>3. rb' = Read(n) /\ unread' = SubSeq(unread, n + 1, Len(unread)) /\ nextByte' = nextByte
    BY <2>1
  <2>. HIDE DEF n
  <2>. QED
    BY <2>2, <2>3, RingGot
<1>11. CASE rt_ringbuffer_reset
  <2>1. rb.bytes \in [0 .. RB_SIZE - 1 -> Int] /\ nextByte' \in 0 .. BYTES - 1
    BY <1>1, <1>11 DEF rt_ringbuffer_reset, RingInv, RingTypeOK
  <2>2. rb' = [read_mirror |-> 0, read_index |-> 0, write_mirror |-> 0, write_index |-> 0,
               bytes |-> rb.bytes]
    BY <1>11 DEF rt_ringbuffer_reset, RingInv, RingTypeOK
  <2>. QED
    BY <1>11, <2>1, <2>2, RingEmptied DEF rt_ringbuffer_reset
<1>12. CASE UNCHANGED ringVars
  BY <1>12 DEF ringVars, RingInv, RingTypeOK, MirrorsTell, BytesHeld
<1>. QED
  BY <1>6, <1>7, <1>8, <1>9, <1>10, <1>11, <1>12 DEF RingNext

\* The length a reader is told is that of what he has not read, and the bytes
\* are those, in their order: the mirror bits tell a full buffer from an empty
\* one whatever was put, got and overwritten, for every size.  The one put that
\* loses new bytes is named by Empties.
THEOREM RingKeepsItsBytes == RingSpec => []RingInvariant
<1>1. RingInit => RingInv
  <2>. SUFFICES ASSUME RingInit PROVE RingInv
    OBVIOUS
  <2>1. RB_SIZE \in Nat /\ RB_SIZE > 0 /\ BYTES \in Nat /\ BYTES > 0
    BY RingBufferConstants
  <2>2. 0 \in 0 .. RB_SIZE - 1 /\ 0 \in 0 .. BYTES - 1
    BY <2>1
  <2>3. [i \in 0 .. RB_SIZE - 1 |-> 0] \in [0 .. RB_SIZE - 1 -> Int]
    OBVIOUS
  <2>. QED
    BY <2>1, <2>2, <2>3 DEF RingInit, RingInv, RingTypeOK, MirrorsTell, BytesHeld
<1>2. RingInv => RingInvariant
  <2>. SUFFICES ASSUME RingInv PROVE RingInvariant
    OBVIOUS
  <2>1. /\ RB_SIZE \in Nat /\ RB_SIZE > 0 /\ Len(unread) \in 0 .. RB_SIZE
        /\ rb.read_index \in 0 .. RB_SIZE - 1
    BY RingBufferConstants DEF RingInv, RingTypeOK
  <2>2. ASSUME NEW i \in 1 .. Len(unread)
        PROVE  rb.bytes[(rb.read_index + i - 1) % RB_SIZE] = unread[i]
    <3>. DEFINE x == rb.read_index + i - 1
    <3>1. /\ i - 1 \in 0 .. Len(unread) - 1 /\ (i - 1) + 1 = i
          /\ x \in Int /\ (x \in 0 .. RB_SIZE - 1 \/ x \in RB_SIZE .. 2 * RB_SIZE - 1)
          /\ Around(RB_SIZE, rb.read_index, i - 1) = IF x < RB_SIZE THEN x ELSE x - RB_SIZE
      BY <2>1 DEF Around
    <3>. HIDE DEF x
    <3>2. x % RB_SIZE = Around(RB_SIZE, rb.read_index, i - 1)
      <4>1. x % RB_SIZE = IF x < RB_SIZE THEN x ELSE x - RB_SIZE
        <5>1. RB_SIZE \in Nat /\ RB_SIZE > 0
          BY <2>1
        <5>. QED
          BY <3>1, <5>1, RemainderAround
      <4>. QED
        BY <3>1, <4>1
    <3>3. rb.bytes[Around(RB_SIZE, rb.read_index, i - 1)] = unread[(i - 1) + 1]
      BY <3>1 DEF RingInv, BytesHeld
    <3>. QED
      BY <3>1, <3>2, <3>3 DEF x
  <2>. QED
    BY <2>2, RingDataLen DEF RingInvariant, RingHolds, IndicesInPool, RingInv, RingTypeOK
<1>3. RingInv /\ [RingNext]_ringVars => RingInv'
  BY RingStep
<1>. QED
  BY <1>1, <1>2, <1>3, PTL DEF RingSpec

-----------------------------------------------------------------------------
(* The mailbox *)

\* A call record, and what a sender carries.
MbCall(c) ==
    /\ c = [op |-> c.op, arg |-> c.arg, time |-> c.time, start |-> c.start]
    /\ c.op = "rt_mb_send_wait" => c.arg \in ThreadMail

\* in_offset is entry slots behind out_offset.
MbRing ==
    /\ MailboxTypeOK
    /\ mb.in_offset = Around(MbSize, mb.out_offset, mb.entry)

\* Every sender that waits or was resumed carries a mail.
MbInv ==
    /\ MbRing
    /\ call = [t \in Thread |-> call[t]]
    /\ \A t \in Thread : MbCall(call[t])

\* The mails in the box, as the refinement has them.
MbContents == [i \in 1 .. mb.entry |-> mb.pool[(mb.out_offset + i - 1) % MbSize]]

\* The slot behind slot i.
LEMMA MbNextSlot ==
    ASSUME NEW i \in 0 .. MbSize - 1
    PROVE  NextSlot(i) = Around(MbSize, i, 1) /\ NextSlot(i) \in 0 .. MbSize - 1
<1>1. MbSize \in Nat /\ MbSize > 0
  BY MailboxConstants
<1>. QED
  BY <1>1 DEF NextSlot, Around

MbTypes ==
    /\ MbSize \in Nat /\ MbSize > 0
    /\ mb.out_offset \in 0 .. MbSize - 1 /\ mb.entry \in 0 .. MbSize
    /\ mb.in_offset \in 0 .. MbSize - 1
    /\ mb.pool \in [0 .. MbSize - 1 -> Mail \cup {NoMail}]
    /\ mb.obj \in {"live", "detached"}
    /\ mb = [pool |-> mb.pool, in_offset |-> mb.in_offset, out_offset |-> mb.out_offset,
             entry |-> mb.entry, obj |-> mb.obj]

\* The mailbox's own fields have their types in every state of the right types.
LEMMA MbTypesOK == ASSUME MailboxTypeOK PROVE MbTypes
  BY MailboxConstants DEF MailboxTypeOK, MbTypes

\* The section of a send appends the mail.
LEMMA MbDeposited ==
    ASSUME MbInv, ~MbFull, NEW mail \in Mail, Deposit(mail)
    PROVE  MbRing' /\ MailboxQueue!Put
<1>1. MbTypes /\ mb.entry \in 0 .. MbSize - 1
      /\ mb.in_offset = Around(MbSize, mb.out_offset, mb.entry)
  BY MbTypesOK DEF MbInv, MbRing, MbTypes, MbFull
<1>. DEFINE at == mb.in_offset
<1>2. mb' = [pool |-> [mb.pool EXCEPT ![at] = mail], in_offset |-> NextSlot(at),
             out_offset |-> mb.out_offset, entry |-> mb.entry + 1, obj |-> mb.obj]
  BY <1>1 DEF MbTypes, Deposit
<1>3. NextSlot(at) \in 0 .. MbSize - 1 /\ NextSlot(at) = Around(MbSize, at, 1)
  BY <1>1, MbNextSlot DEF MbTypes
<1>4. Around(MbSize, at, 1) = Around(MbSize, mb.out_offset, mb.entry + 1)
  BY <1>1, AroundNext DEF MbTypes
<1>5. MbRing'
  BY <1>1, <1>2, <1>3, <1>4 DEF MailboxTypeOK, MbRing, MbTypes
<1>6. MbContents = RingSeq(MbSize, mb.pool, mb.out_offset, mb.entry)
  <2>1. /\ MbSize \in Nat /\ MbSize > 0
        /\ mb.out_offset \in 0 .. MbSize - 1 /\ mb.entry \in 0 .. MbSize
    BY <1>1 DEF MbTypes
  <2>. QED
    BY <2>1, RingSeqRemainder DEF MbContents
<1>7. MbContents' = RingSeq(MbSize, mb.pool, mb.out_offset, mb.entry)'
  <2>1. MbTypes'
    BY <1>5, MailboxConstants DEF MbRing, MailboxTypeOK, MbTypes
  <2>. QED
    BY <2>1, RingSeqRemainder DEF MbContents, MbTypes
<1>8. MbContents'
        = RingSeq(MbSize, [mb.pool EXCEPT ![at] = mail], mb.out_offset, mb.entry + 1)
  BY <1>1, <1>2, <1>7 DEF RingSeq
<1>9. Len(MbContents) = mb.entry /\ MbContents' = Append(MbContents, mail)
  <2>. DEFINE T == Mail \cup {NoMail}
              r == mb.out_offset
              L == mb.entry
              slots == mb.pool
  <2>1. /\ MbSize \in Nat /\ MbSize > 0 /\ r \in 0 .. MbSize - 1 /\ L \in 0 .. MbSize - 1
        /\ slots \in [0 .. MbSize - 1 -> T] /\ mail \in T /\ at = Around(MbSize, r, L)
    BY <1>1 DEF MbTypes
  <2>. HIDE DEF T, r, L, slots, at
  <2>2. Appends(MbSize, slots, [slots EXCEPT ![at] = mail], r, L, mail)
    BY <2>1, RingSeqPut
  <2>. QED
    BY <1>6, <1>8, <2>2 DEF Appends, r, L, slots, at
<1>10. Len(MbContents) < MbSize /\ \E item \in Mail : MbContents' = Append(MbContents, item)
  BY <1>1, <1>9 DEF MbTypes
<1>. QED
  BY <1>5, <1>10, Zenon DEF MailboxQueue!Put, MbContents

\* The section of a receive takes the first mail.
LEMMA MbFetched ==
    ASSUME MbInv, ~MbEmpty, Fetch
    PROVE  MbRing' /\ MailboxQueue!Get
<1>1. MbTypes /\ mb.entry \in 1 .. MbSize
      /\ mb.in_offset = Around(MbSize, mb.out_offset, mb.entry)
  BY MbTypesOK DEF MbInv, MbRing, MbTypes, MbEmpty
<1>. DEFINE at == mb.out_offset
<1>2. mb' = [pool |-> [mb.pool EXCEPT ![at] = NoMail], in_offset |-> mb.in_offset,
             out_offset |-> NextSlot(at), entry |-> mb.entry - 1, obj |-> mb.obj]
  BY <1>1 DEF MbTypes, Fetch
<1>3. NextSlot(at) \in 0 .. MbSize - 1 /\ NextSlot(at) = Around(MbSize, at, 1)
  BY <1>1, MbNextSlot DEF MbTypes
<1>4. Around(MbSize, Around(MbSize, at, 1), mb.entry - 1) = Around(MbSize, at, mb.entry)
  BY <1>1, AroundTail DEF MbTypes
<1>5. MbRing'
  BY <1>1, <1>2, <1>3, <1>4 DEF MailboxTypeOK, MbRing, MbTypes
<1>6. MbContents = RingSeq(MbSize, mb.pool, mb.out_offset, mb.entry)
  <2>1. /\ MbSize \in Nat /\ MbSize > 0
        /\ mb.out_offset \in 0 .. MbSize - 1 /\ mb.entry \in 0 .. MbSize
    BY <1>1 DEF MbTypes
  <2>. QED
    BY <2>1, RingSeqRemainder DEF MbContents
<1>7. MbContents' = RingSeq(MbSize, mb.pool, mb.out_offset, mb.entry)'
  <2>1. MbTypes'
    BY <1>5, MailboxConstants DEF MbRing, MailboxTypeOK, MbTypes
  <2>. QED
    BY <2>1, RingSeqRemainder DEF MbContents, MbTypes
<1>8. MbContents' = RingSeq(MbSize, [mb.pool EXCEPT ![at] = NoMail], Around(MbSize, at, 1),
                            mb.entry - 1)
  BY <1>1, <1>2, <1>3, <1>7 DEF RingSeq
<1>9. MbContents # << >> /\ MbContents' = Tail(MbContents)
  <2>. DEFINE T == Mail \cup {NoMail}
  <2>1. /\ MbSize \in Nat /\ MbSize > 0 /\ mb.out_offset \in 0 .. MbSize - 1
        /\ mb.pool \in [0 .. MbSize - 1 -> T] /\ NoMail \in T
    BY <1>1 DEF MbTypes
  <2>. HIDE DEF T
  <2>. QED
    BY <1>1, <1>6, <1>8, <2>1, RingSeqGet
<1>. QED
  BY <1>5, <1>9, Zenon DEF MailboxQueue!Get, MbContents

\* A mailbox that is initialised or reset is empty.
LEMMA MbEmptied ==
    ASSUME NEW obj \in {"live", "detached"},
           mb' = [pool |-> [i \in 0 .. MbSize - 1 |-> NoMail],
                  in_offset |-> 0, out_offset |-> 0, entry |-> 0, obj |-> obj]
    PROVE  MbRing' /\ MailboxQueue!Clear
<1>1. MbSize \in Nat /\ MbSize > 0 /\ 0 \in 0 .. MbSize - 1
  BY MailboxConstants
<1>2. MbRing'
  BY <1>1 DEF MbRing, MailboxTypeOK, Around
<1>3. MbContents' = << >>
  BY DEF MbContents
<1>. QED
  BY <1>2, <1>3, Zenon DEF MailboxQueue!Clear, MbContents

\* Nothing but the call that waits or ends changes what a sender carries.
LEMMA MbCalls ==
    ASSUME MbInv, NEW t \in Thread, NEW c, MbCall(c), call' = [call EXCEPT ![t] = c]
    PROVE  call' = [u \in Thread |-> call'[u]] /\ \A u \in Thread : MbCall(call'[u])
  BY DEF MbInv

\* A thread outside rt_mb_send_wait and rt_mb_recv has no mail to keep.
LEMMA MbNoCall == MbCall(NoCall)
  BY DEF MbCall, NoCall

\* A caller that waits keeps its arguments.
LEMMA MbWaits ==
    ASSUME MbInv, NEW t \in Thread, NEW c, MbCall(c), NEW w, WaitOn(t, w, MbFlag, c)
    PROVE  call' = [u \in Thread |-> call'[u]] /\ \A u \in Thread : MbCall(call'[u])
<1>. DEFINE d == [c EXCEPT !.start = IF c.time > 0 THEN k.tick ELSE 0]
<1>1. MbCall(d)
  BY DEF MbCall
<1>2. call' = [call EXCEPT ![t] = d]
  BY DEF WaitOn
<1>. HIDE DEF d
<1>. QED
  BY <1>1, <1>2, MbCalls

\* A thread that leaves its send or receive, with an error or without, leaves the
\* calls of the others alone.
LEMMA MbLeaves ==
    ASSUME MbInv, NEW t \in Thread, NEW at, Leave(t, at)
    PROVE  call' = [u \in Thread |-> call'[u]] /\ \A u \in Thread : MbCall(call'[u])
  BY MbNoCall, MbCalls DEF Leave

\* The loop of a send, with the record of a sender.
LEMMA MbSendLoop ==
    ASSUME MbInv, NEW t \in Thread, NEW c, MbCall(c), c.arg \in ThreadMail, SendLoop(t, c)
    PROVE  MbInv' /\ (MailboxQueue!Put \/ UNCHANGED mb)
<1>1. CASE MbFull
  <2>1. UNCHANGED mb
    BY <1>1 DEF SendLoop
  <2>2. call' = [u \in Thread |-> call'[u]] /\ \A u \in Thread : MbCall(call'[u])
    BY <1>1, MbWaits, MbLeaves DEF SendLoop, Return
  <2>. QED
    BY <2>1, <2>2 DEF MbInv, MbRing, MailboxTypeOK
<1>2. CASE ~MbFull
  <2>1. c.arg \in Mail
    BY DEF Mail
  <2>2. MbRing' /\ MailboxQueue!Put
    BY <1>2, <2>1, MbDeposited DEF SendLoop
  <2>3. call' = [u \in Thread |-> call'[u]] /\ \A u \in Thread : MbCall(call'[u])
    BY <1>2, MbLeaves DEF SendLoop
  <2>. QED
    BY <2>2, <2>3 DEF MbInv
<1>. QED
  BY <1>1, <1>2

\* The loop of a receive.
LEMMA MbRecvLoop ==
    ASSUME MbInv, NEW t \in Thread, NEW c, MbCall(c), RecvLoop(t, c)
    PROVE  MbInv' /\ (MailboxQueue!Get \/ UNCHANGED mb)
<1>1. CASE MbEmpty
  <2>1. UNCHANGED mb
    BY <1>1 DEF RecvLoop
  <2>2. call' = [u \in Thread |-> call'[u]] /\ \A u \in Thread : MbCall(call'[u])
    BY <1>1, MbWaits, MbLeaves DEF RecvLoop
  <2>. QED
    BY <2>1, <2>2 DEF MbInv, MbRing, MailboxTypeOK
<1>2. CASE ~MbEmpty
  <2>1. MbRing' /\ MailboxQueue!Get
    BY <1>2, MbFetched DEF RecvLoop
  <2>2. call' = [u \in Thread |-> call'[u]] /\ \A u \in Thread : MbCall(call'[u])
    BY <1>2, MbLeaves DEF RecvLoop
  <2>. QED
    BY <2>1, <2>2 DEF MbInv
<1>. QED
  BY <1>1, <1>2

\* A mailbox step puts a mail, gets one, drops them all or leaves them alone.
LEMMA MbStep ==
    ASSUME MbInv, [MailboxNext]_mailboxVars
    PROVE  /\ MbInv'
           /\ MailboxQueue!Put \/ MailboxQueue!Get \/ MailboxQueue!Clear \/ UNCHANGED MbContents
<1>. DEFINE Goal == /\ MbInv'
                    /\ \/ MailboxQueue!Put \/ MailboxQueue!Get \/ MailboxQueue!Clear
                       \/ UNCHANGED MbContents
<1>0. UNCHANGED mb => UNCHANGED MbContents
  BY DEF MbContents
<1>1. ASSUME UNCHANGED <<mb, call>> PROVE Goal
  BY <1>0, <1>1 DEF MbInv, MbRing, MailboxTypeOK
<1>2. ASSUME NEW t \in Thread, MailboxCall(t) PROVE Goal
  <2>1. CASE rt_mb_send_wait(t)
    <3>1. PICK mail \in ThreadMail, time \in Times[t] :
            SendLoop(t, NewCall("rt_mb_send_wait", mail, time))
      BY <2>1 DEF rt_mb_send_wait
    <3>. DEFINE c == NewCall("rt_mb_send_wait", mail, time)
    <3>2. MbCall(c) /\ c.arg \in ThreadMail
      BY DEF MbCall, NewCall
    <3>. HIDE DEF c
    <3>. QED
      BY <1>0, <3>1, <3>2, MbSendLoop DEF c
  <2>2. CASE SendResumed(t)
    <3>1. CASE Failed(t)
      <4>1. UNCHANGED mb /\ Leave(t, "run")
        BY <2>2, <3>1 DEF SendResumed, Return
      <4>. QED
        BY <1>0, <4>1, MbLeaves DEF MbInv, MbRing, MailboxTypeOK
    <3>2. CASE ~Failed(t)
      <4>1. SendLoop(t, Rested(t)) /\ call[t].op = "rt_mb_send_wait"
        BY <2>2, <3>2 DEF SendResumed, Woken
      <4>2. MbCall(Rested(t)) /\ Rested(t).arg \in ThreadMail
        <5>1. MbCall(call[t])
          BY DEF MbInv
        <5>. QED
          BY <4>1, <5>1 DEF Rested, MbCall
      <4>. QED
        BY <1>0, <4>1, <4>2, MbSendLoop
    <3>. QED
      BY <3>1, <3>2
  <2>3. CASE rt_mb_recv(t)
    <3>1. PICK time \in Times[t] : RecvLoop(t, NewCall("rt_mb_recv", NoMail, time))
      BY <2>3 DEF rt_mb_recv
    <3>2. MbCall(NewCall("rt_mb_recv", NoMail, time))
      BY DEF MbCall, NewCall
    <3>. QED
      BY <1>0, <3>1, <3>2, MbRecvLoop
  <2>4. CASE RecvResumed(t)
    <3>1. CASE Failed(t)
      <4>1. UNCHANGED mb /\ Leave(t, "run")
        BY <2>4, <3>1 DEF RecvResumed, Return
      <4>. QED
        BY <1>0, <4>1, MbLeaves DEF MbInv, MbRing, MailboxTypeOK
    <3>2. CASE ~Failed(t)
      <4>1. RecvLoop(t, Rested(t))
        BY <2>4, <3>2 DEF RecvResumed
      <4>2. MbCall(Rested(t))
        BY DEF MbInv, Rested, MbCall
      <4>. QED
        BY <1>0, <4>1, <4>2, MbRecvLoop
    <3>. QED
      BY <3>1, <3>2
  <2>5. CASE rt_mb_control(t)
    <3>1. MbTypes /\ UNCHANGED call /\ mb' = MbReset
      BY <2>5, MbTypesOK DEF rt_mb_control, MbInv, MbRing
    <3>2. mb' = [pool |-> [i \in 0 .. MbSize - 1 |-> NoMail],
                 in_offset |-> 0, out_offset |-> 0, entry |-> 0, obj |-> mb.obj]
      BY <3>1 DEF MbReset, MbTypes
    <3>3. mb.obj \in {"live", "detached"}
      BY <3>1 DEF MbTypes
    <3>4. MbRing' /\ MailboxQueue!Clear
      BY <3>2, <3>3, MbEmptied
    <3>. QED
      BY <3>1, <3>4 DEF MbInv
  <2>6. CASE rt_mb_detach(t)
    <3>1. UNCHANGED mb /\ call' = [call EXCEPT ![t] = NewCall("rt_mb_detach", MbReceivers, 0)]
      BY <2>6 DEF rt_mb_detach
    <3>2. MbCall(NewCall("rt_mb_detach", MbReceivers, 0))
      BY DEF MbCall, NewCall
    <3>. QED
      BY <1>0, <3>1, <3>2, MbCalls DEF MbInv, MbRing, MailboxTypeOK
  <2>7. CASE MbDetachStep(t)
    <3>1. CASE UNCHANGED <<mb, call>>
      BY <1>1, <3>1
    <3>2. CASE mb' = [mb EXCEPT !.obj = "detached"] /\ Leave(t, "run")
      <4>1. MbTypes
        BY MbTypesOK DEF MbInv, MbRing
      <4>2. mb' = [pool |-> mb.pool, in_offset |-> mb.in_offset, out_offset |-> mb.out_offset,
                   entry |-> mb.entry, obj |-> "detached"]
        BY <3>2, <4>1 DEF MbTypes
      <4>3. MbRing'
        BY <4>1, <4>2 DEF MbInv, MbRing, MailboxTypeOK, MbTypes
      <4>4. MbContents' = MbContents
        BY <4>2 DEF MbContents
      <4>. QED
        BY <3>2, <4>3, <4>4, MbLeaves DEF MbInv
    <3>3. CASE mb' = mb /\ call' = [call EXCEPT ![t].arg = MbSenders]
      <4>. DEFINE c == [call[t] EXCEPT !.arg = MbSenders]
      <4>1. call[t].op = "rt_mb_detach" /\ MbCall(call[t])
        BY <2>7 DEF MbDetachStep, MbInv
      <4>2. MbCall(c) /\ call' = [call EXCEPT ![t] = c]
        BY <3>3, <4>1 DEF MbCall, MbInv
      <4>. HIDE DEF c
      <4>. QED
        BY <1>0, <3>3, <4>2, MbCalls DEF MbInv, MbRing, MailboxTypeOK
    <3>. QED
      BY <2>7, <3>1, <3>2, <3>3 DEF MbDetachStep, Return
  <2>8. CASE rt_mb_init(t)
    <3>1. MbTypes /\ UNCHANGED call /\ mb' = [MbReset EXCEPT !.obj = "live"]
      BY <2>8, MbTypesOK DEF rt_mb_init, MbInv, MbRing
    <3>2. mb' = [pool |-> [i \in 0 .. MbSize - 1 |-> NoMail],
                 in_offset |-> 0, out_offset |-> 0, entry |-> 0, obj |-> "live"]
      BY <3>1 DEF MbReset, MbTypes
    <3>3. MbRing' /\ MailboxQueue!Clear
      BY <3>2, MbEmptied
    <3>. QED
      BY <3>1, <3>3 DEF MbInv
  <2>. QED
    BY <1>2, <2>1, <2>2, <2>3, <2>4, <2>5, <2>6, <2>7, <2>8 DEF MailboxCall
<1>3. ASSUME DeviceSend PROVE Goal
  <2>1. PICK mail \in DeviceMail : Deposit(mail)
    BY <1>3 DEF DeviceSend
  <2>2. ~MbFull /\ mail \in Mail /\ UNCHANGED call
    BY <1>3 DEF DeviceSend, Mail
  <2>. QED
    BY <2>1, <2>2, MbDeposited DEF MbInv
<1>4. ASSUME DeviceRecv PROVE Goal
  BY <1>4, MbFetched DEF DeviceRecv, MbInv
<1>5. ASSUME IpcKernelStep, UNCHANGED mb PROVE Goal
  BY <1>1, <1>5 DEF IpcKernelStep
<1>6. ASSUME UNCHANGED mailboxVars PROVE Goal
  BY <1>1, <1>6 DEF mailboxVars
<1>. QED
  BY <1>2, <1>3, <1>4, <1>5, <1>6 DEF MailboxNext

\* All threads are outside their calls, and the box is empty.
LEMMA MbStarts ==
    ASSUME IpcCallInit, MailboxInit
    PROVE  MbInv
<1>1. MbSize \in Nat /\ MbSize > 0 /\ 0 \in 0 .. MbSize - 1
  BY MailboxConstants
<1>2. MbRing
  BY <1>1 DEF MailboxInit, MbRing, MailboxTypeOK, Around
<1>3. call = [t \in Thread |-> call[t]] /\ \A t \in Thread : MbCall(call[t])
  BY MbNoCall DEF IpcCallInit
<1>. QED
  BY <1>2, <1>3 DEF MbInv

\* The mails come out in the order they went in, each once, and never more of
\* them than the pool has slots, whichever threads and interrupts send, receive,
\* reset, detach and initialise the mailbox: it is a bounded queue.
THEOREM MailboxIsAQueue == MailboxSpec => MailboxRefinement
<1>1. ASSUME IpcCallInit, MailboxInit PROVE MbInv /\ MailboxQueue!Init
  <2>1. mb.entry = 0
    BY <1>1 DEF MailboxInit
  <2>. QED
    BY <1>1, <2>1, MbStarts DEF MailboxQueue!Init
<1>2. MbInv /\ [MailboxNext]_mailboxVars => MbInv'
  BY MbStep
<1>3. MbInv /\ [MailboxNext]_mailboxVars
      => [MailboxQueue!Put \/ MailboxQueue!Get \/ MailboxQueue!Clear]_MbContents
  BY MbStep
<1>4. [][MailboxQueue!Put \/ MailboxQueue!Get \/ MailboxQueue!Clear]_MbContents
      /\ MailboxQueue!Init => MailboxQueue!Fifo
  BY PTL DEF MailboxQueue!Fifo, MbContents
<1>. QED
  BY <1>1, <1>2, <1>3, <1>4, PTL DEF MailboxSpec, MailboxRefinement

-----------------------------------------------------------------------------
(* The data queue *)

DqItem == ThreadItem \cup DeviceItem

DqTypeOK ==
    dq \in [slots : [0 .. DqSize - 1 -> DqItem \cup {NoItem}],
            get_index : 0 .. INDEX_RANGE - 1, put_index : 0 .. INDEX_RANGE - 1,
            overrun : BOOLEAN]

\* The slot of the item i items behind index g; the indices run around.
Seat(g, i) == Slot(Around(INDEX_RANGE, g, i))

\* The L items from index g on are in slots of their own.
Seated(slots, g, L) ==
    /\ \A i \in 0 .. L - 1 : slots[Seat(g, i)] \in DqItem
    /\ \A i, j \in 0 .. L - 1 : Seat(g, i) = Seat(g, j) => i = j

SeatedSeq(slots, g, L) == [i \in 1 .. L |-> slots[Seat(g, i - 1)]]

\* Until a push overruns it the ring holds what is in the queue.
DqRing ==
    /\ DqTypeOK
    /\ dq.overrun \/ (Items <= DqSize /\ Seated(dq.slots, dq.get_index, Items))

\* Every pusher that waits or was resumed carries an item.
DqCall(c) == c.op = "rt_data_queue_push" => c.arg.item \in ThreadItem

DqInv ==
    /\ DqRing
    /\ call = [t \in Thread |-> call[t]]
    /\ \A t \in Thread : DqCall(call[t])

\* What the indices have between them, modulo their range.
Span(g, p) == (p - g) % INDEX_RANGE

\* The sizes of a queue.
LEMMA DqSizes == INDEX_RANGE \in Nat /\ DqSize \in Nat /\ DqSize > 0 /\ DqSize < INDEX_RANGE
  BY DataQueueConstants

\* The slots there are.
LEMMA SlotTypes == ASSUME NEW n \in Nat PROVE Slot(n) \in 0 .. DqSize - 1
<1>1. n % DqSize \in 0 .. DqSize - 1
  BY DqSizes, RemainderAround
<1>. QED
  BY <1>1 DEF Slot

\* The span of two indices is a difference, except that it runs around.
LEMMA SpanOf ==
    ASSUME NEW g \in 0 .. INDEX_RANGE - 1, NEW p \in 0 .. INDEX_RANGE - 1
    PROVE  /\ Span(g, p) \in 0 .. INDEX_RANGE - 1
           /\ g <= p => Span(g, p) = p - g
           /\ p < g => Span(g, p) = p - g + INDEX_RANGE
           /\ p = Around(INDEX_RANGE, g, Span(g, p))
<1>1. PICK x \in Int : x = p - g
  OBVIOUS
<1>2. PICK m : m = x % INDEX_RANGE
  OBVIOUS
<1>3. /\ m \in 0 .. INDEX_RANGE - 1
      /\ x \in 0 .. INDEX_RANGE - 1 => m = x
      /\ x \in -INDEX_RANGE .. -1 => m = x + INDEX_RANGE
  BY <1>2, DqSizes, RemainderAround
<1>4. Span(g, p) = m
  BY <1>1, <1>2 DEF Span
<1>5. /\ m \in 0 .. INDEX_RANGE - 1
      /\ g <= p => m = p - g
      /\ p < g => m = p - g + INDEX_RANGE
      /\ p = Around(INDEX_RANGE, g, m)
  BY <1>1, <1>3, DqSizes DEF Around
<1>. QED
  BY <1>4, <1>5

\* The index behind an index.
LEMMA IndexNext ==
    ASSUME NEW g \in 0 .. INDEX_RANGE - 1
    PROVE  /\ (g + 1) % INDEX_RANGE = Around(INDEX_RANGE, g, 1)
           /\ Around(INDEX_RANGE, g, 1) \in 0 .. INDEX_RANGE - 1
<1>1. PICK x \in Int : x = g + 1
  OBVIOUS
<1>2. PICK m : m = x % INDEX_RANGE
  OBVIOUS
<1>3. /\ x \in 0 .. INDEX_RANGE - 1 => m = x
      /\ x \in INDEX_RANGE .. 2 * INDEX_RANGE - 1 => m = x - INDEX_RANGE
  BY <1>2, DqSizes, RemainderAround
<1>4. m = Around(INDEX_RANGE, g, 1) /\ m \in 0 .. INDEX_RANGE - 1
  BY <1>1, <1>3, DqSizes DEF Around
<1>. QED
  BY <1>1, <1>2, <1>4

\* A push takes the span one further, or all the way round.
LEMMA SpanPut ==
    ASSUME NEW g \in 0 .. INDEX_RANGE - 1, NEW p \in 0 .. INDEX_RANGE - 1
    PROVE  Span(g, (p + 1) % INDEX_RANGE)
             = IF Span(g, p) = INDEX_RANGE - 1 THEN 0 ELSE Span(g, p) + 1
<1>1. PICK q : q = (p + 1) % INDEX_RANGE
  OBVIOUS
<1>2. q = Around(INDEX_RANGE, p, 1) /\ q \in 0 .. INDEX_RANGE - 1
  BY <1>1, IndexNext
<1>3. q = IF p + 1 < INDEX_RANGE THEN p + 1 ELSE 0
  BY <1>2, DqSizes DEF Around
<1>4. PICK m, n : m = Span(g, p) /\ n = Span(g, q)
  OBVIOUS
<1>5. /\ g <= p => m = p - g
      /\ p < g => m = p - g + INDEX_RANGE
      /\ g <= q => n = q - g
      /\ q < g => n = q - g + INDEX_RANGE
  BY <1>2, <1>4, SpanOf
<1>6. n = IF m = INDEX_RANGE - 1 THEN 0 ELSE m + 1
  BY <1>2, <1>3, <1>5, DqSizes
<1>. QED
  BY <1>1, <1>4, <1>6

\* A pop brings it one nearer.
LEMMA SpanGet ==
    ASSUME NEW g \in 0 .. INDEX_RANGE - 1, NEW p \in 0 .. INDEX_RANGE - 1, g # p
    PROVE  Span((g + 1) % INDEX_RANGE, p) = Span(g, p) - 1 /\ Span(g, p) > 0
<1>1. PICK q : q = (g + 1) % INDEX_RANGE
  OBVIOUS
<1>2. q = Around(INDEX_RANGE, g, 1) /\ q \in 0 .. INDEX_RANGE - 1
  BY <1>1, IndexNext
<1>3. q = IF g + 1 < INDEX_RANGE THEN g + 1 ELSE 0
  BY <1>2, DqSizes DEF Around
<1>4. PICK m, n : m = Span(g, p) /\ n = Span(q, p)
  OBVIOUS
<1>5. /\ g <= p => m = p - g
      /\ p < g => m = p - g + INDEX_RANGE
      /\ q <= p => n = p - q
      /\ p < q => n = p - q + INDEX_RANGE
  BY <1>2, <1>4, SpanOf
<1>6. n = m - 1 /\ m > 0
  BY <1>2, <1>3, <1>5, DqSizes
<1>. QED
  BY <1>1, <1>4, <1>6

\* Two indices that are less than the size apart have different slots.
LEMMA SlotsApart ==
    ASSUME NEW m \in Nat, NEW n \in Nat, m < n, n - m < DqSize
    PROVE  Slot(m) # Slot(n)
<1>1. PICK d \in 1 .. DqSize - 1 : n = m + d
  BY DqSizes
<1>2. /\ m % DqSize \in 0 .. DqSize - 1
      /\ (m + d) % DqSize = Around(DqSize, m % DqSize, d)
  <2>1. d \in 0 .. DqSize
    BY DqSizes
  <2>. QED
    BY <2>1, DqSizes, RemainderSum
<1>3. \A r \in 0 .. DqSize - 1 : Around(DqSize, r, d) # r
  BY DqSizes DEF Around
<1>. QED
  BY <1>1, <1>2, <1>3 DEF Slot

\* Every slot is one.
LEMMA SeatTypes ==
    ASSUME NEW g \in 0 .. INDEX_RANGE - 1, NEW i \in 0 .. INDEX_RANGE - 1
    PROVE  Around(INDEX_RANGE, g, i) \in 0 .. INDEX_RANGE - 1 /\ Seat(g, i) \in 0 .. DqSize - 1
<1>1. Around(INDEX_RANGE, g, i) \in 0 .. INDEX_RANGE - 1
  BY DqSizes DEF Around
<1>2. Around(INDEX_RANGE, g, i) \in Nat
  BY <1>1, DqSizes
<1>. QED
  BY <1>1, <1>2, SlotTypes DEF Seat

\* An item that is put into a slot of its own behind the last one is appended.
LEMMA SeatedPut ==
    ASSUME NEW slots \in [0 .. DqSize - 1 -> DqItem \cup {NoItem}],
           NEW g \in 0 .. INDEX_RANGE - 1, NEW L \in 0 .. DqSize - 1, Seated(slots, g, L),
           NEW item \in DqItem, \A i \in 0 .. L - 1 : Seat(g, i) # Seat(g, L),
           NEW new, new[Seat(g, L)] = item,
           \A j \in 0 .. DqSize - 1 : j # Seat(g, L) => new[j] = slots[j]
    PROVE  /\ Seated(new, g, L + 1)
           /\ Len(SeatedSeq(slots, g, L)) = L
           /\ SeatedSeq(new, g, L + 1) = Append(SeatedSeq(slots, g, L), item)
<1>. DEFINE s == SeatedSeq(slots, g, L)
            u == SeatedSeq(new, g, L + 1)
<1>0. L \in Nat /\ L + 1 \in Nat
  BY DqSizes
<1>1. ASSUME NEW i \in 0 .. L PROVE Seat(g, i) \in 0 .. DqSize - 1
  <2>1. i \in 0 .. INDEX_RANGE - 1
    BY DqSizes
  <2>. QED
    BY <2>1, SeatTypes
<1>2. new[Seat(g, L)] = item /\ \A i \in 0 .. L - 1 : new[Seat(g, i)] = slots[Seat(g, i)]
  BY <1>1, DqSizes
<1>3. Seated(new, g, L + 1)
  <2>1. \A i \in 0 .. (L + 1) - 1 : i \in 0 .. L - 1 \/ i = L
    BY DqSizes
  <2>. QED
    BY <1>2, <2>1 DEF Seated
<1>4. /\ s \in [1 .. L -> DqItem] /\ \A i \in 1 .. L : s[i] = slots[Seat(g, i - 1)]
      /\ u \in [1 .. L + 1 -> DqItem] /\ \A i \in 1 .. L + 1 : u[i] = new[Seat(g, i - 1)]
  <2>1. \A i \in 1 .. L : i - 1 \in 0 .. L - 1
    BY DqSizes
  <2>2. \A i \in 1 .. L + 1 : i - 1 \in 0 .. (L + 1) - 1
    BY DqSizes
  <2>. QED
    BY <1>3, <2>1, <2>2 DEF Seated, SeatedSeq
<1>. HIDE DEF s, u
<1>5. s \in Seq(DqItem) /\ Len(s) = L /\ u \in Seq(DqItem) /\ Len(u) = L + 1
  BY <1>0, <1>4
<1>6. /\ Append(s, item) \in Seq(DqItem) /\ Len(Append(s, item)) = L + 1
      /\ \A i \in 1 .. L : Append(s, item)[i] = s[i]
      /\ Append(s, item)[L + 1] = item
  BY <1>5, AppendProperties
<1>7. ASSUME NEW i \in 1 .. L + 1 PROVE u[i] = Append(s, item)[i]
  <2>1. CASE i = L + 1
    <3>1. i - 1 = L
      BY <2>1, DqSizes
    <3>. QED
      BY <1>2, <1>4, <1>6, <2>1, <3>1
  <2>2. CASE i # L + 1
    <3>1. i \in 1 .. L /\ i - 1 \in 0 .. L - 1
      BY <2>2, DqSizes
    <3>. QED
      BY <1>2, <1>4, <1>6, <3>1
  <2>. QED
    BY <2>1, <2>2
<1>8. u = Append(s, item)
  BY <1>5, <1>6, <1>7, SeqEqual
<1>. QED
  BY <1>3, <1>5, <1>8 DEF s, u

\* The first item is taken out; its slot is no longer looked at.
LEMMA SeatedGet ==
    ASSUME NEW slots \in [0 .. DqSize - 1 -> DqItem \cup {NoItem}],
           NEW g \in 0 .. INDEX_RANGE - 1, NEW L \in 1 .. DqSize, Seated(slots, g, L),
           NEW new, \A j \in 0 .. DqSize - 1 : j # Slot(g) => new[j] = slots[j]
    PROVE  /\ Seated(new, Around(INDEX_RANGE, g, 1), L - 1)
           /\ SeatedSeq(slots, g, L) # << >>
           /\ SeatedSeq(new, Around(INDEX_RANGE, g, 1), L - 1) = Tail(SeatedSeq(slots, g, L))
<1>. DEFINE h == Around(INDEX_RANGE, g, 1)
            s == SeatedSeq(slots, g, L)
            u == SeatedSeq(new, h, L - 1)
<1>0. L \in Nat /\ L - 1 \in Nat
  BY DqSizes
<1>1. /\ \A i \in 0 .. L - 1 : Seat(g, i) \in 0 .. DqSize - 1
      /\ Seat(g, 0) = Slot(g)
  <2>1. ASSUME NEW i \in 0 .. L - 1 PROVE Seat(g, i) \in 0 .. DqSize - 1
    <3>1. i \in 0 .. INDEX_RANGE - 1
      BY DqSizes
    <3>. QED
      BY <3>1, SeatTypes
  <2>2. Around(INDEX_RANGE, g, 0) = g
    BY DqSizes DEF Around
  <2>. QED
    BY <2>1, <2>2 DEF Seat
<1>2. \A i \in 0 .. L - 2 : Seat(h, i) = Seat(g, i + 1) /\ i + 1 \in 0 .. L - 1
  BY DqSizes DEF Seat, Around
<1>3. \A i \in 1 .. L - 1 : Seat(g, i) # Seat(g, 0)
  BY DqSizes DEF Seated
<1>4. \A i \in 1 .. L - 1 : new[Seat(g, i)] = slots[Seat(g, i)]
  BY <1>1, <1>3, DqSizes
<1>. HIDE DEF h
<1>5. Seated(new, h, L - 1)
  <2>1. \A i \in 0 .. (L - 1) - 1 : i \in 0 .. L - 2 /\ i + 1 \in 1 .. L - 1 /\ i + 1 \in 0 .. L - 1
    BY DqSizes
  <2>2. \A i \in 0 .. (L - 1) - 1 : new[Seat(h, i)] \in DqItem
    BY <1>2, <1>4, <2>1 DEF Seated
  <2>3. ASSUME NEW i \in 0 .. (L - 1) - 1, NEW j \in 0 .. (L - 1) - 1, Seat(h, i) = Seat(h, j)
        PROVE  i = j
    <3>1. Seat(g, i + 1) = Seat(g, j + 1)
      BY <1>2, <2>1, <2>3
    <3>2. i + 1 = j + 1
      BY <2>1, <3>1 DEF Seated
    <3>. QED
      BY <3>2
  <2>. QED
    BY <2>2, <2>3 DEF Seated
<1>6. /\ s \in [1 .. L -> DqItem] /\ \A i \in 1 .. L : s[i] = slots[Seat(g, i - 1)]
      /\ u \in [1 .. L - 1 -> DqItem] /\ \A i \in 1 .. L - 1 : u[i] = new[Seat(h, i - 1)]
  <2>1. \A i \in 1 .. L : i - 1 \in 0 .. L - 1
    BY DqSizes
  <2>2. \A i \in 1 .. L - 1 : i - 1 \in 0 .. (L - 1) - 1
    BY DqSizes
  <2>. QED
    BY <1>5, <2>1, <2>2 DEF Seated, SeatedSeq
<1>. HIDE DEF s, u
<1>7. s \in Seq(DqItem) /\ Len(s) = L /\ u \in Seq(DqItem) /\ Len(u) = L - 1
  BY <1>0, <1>6
<1>8. ASSUME NEW i \in 1 .. L - 1 PROVE u[i] = s[i + 1]
  <2>1. i - 1 \in 0 .. L - 2 /\ (i - 1) + 1 = i /\ i + 1 \in 1 .. L /\ (i + 1) - 1 = i
    BY DqSizes
  <2>. QED
    BY <1>2, <1>4, <1>6, <2>1
<1>9. s # << >>
  BY <1>7, DqSizes
<1>10. /\ Tail(s) \in Seq(DqItem) /\ Len(Tail(s)) = L - 1
       /\ \A i \in 1 .. L - 1 : Tail(s)[i] = s[i + 1]
  BY <1>7, <1>9, HeadTailProperties
<1>11. u = Tail(s)
  BY <1>7, <1>8, <1>10, SeqEqual
<1>. QED
  BY <1>5, <1>9, <1>11 DEF s, u, h

\* The contents, with an index that runs around.
LEMMA SeatedContents ==
    ASSUME NEW slots, NEW g \in 0 .. INDEX_RANGE - 1, NEW L \in 0 .. INDEX_RANGE - 1
    PROVE  [i \in 1 .. L |-> slots[Slot((g + i - 1) % INDEX_RANGE)]] = SeatedSeq(slots, g, L)
<1>1. ASSUME NEW i \in 1 .. L
      PROVE  (g + i - 1) % INDEX_RANGE = Around(INDEX_RANGE, g, i - 1)
  <2>1. PICK x \in Int : x = g + i - 1
    OBVIOUS
  <2>2. /\ x \in 0 .. INDEX_RANGE - 1 => x % INDEX_RANGE = x
        /\ x \in INDEX_RANGE .. 2 * INDEX_RANGE - 1 => x % INDEX_RANGE = x - INDEX_RANGE
    BY DqSizes, RemainderAround
  <2>. QED
    BY <2>1, <2>2, DqSizes DEF Around
<1>. QED
  BY <1>1 DEF SeatedSeq, Seat

\* The fields of the queue, their span and what they say it holds.
LEMMA DqFields ==
    ASSUME DqTypeOK
    PROVE  /\ dq = [slots |-> dq.slots, get_index |-> dq.get_index,
                    put_index |-> dq.put_index, overrun |-> dq.overrun]
           /\ dq.slots \in [0 .. DqSize - 1 -> DqItem \cup {NoItem}]
           /\ dq.get_index \in 0 .. INDEX_RANGE - 1 /\ dq.put_index \in 0 .. INDEX_RANGE - 1
           /\ dq.overrun \in BOOLEAN
           /\ Items = Span(dq.get_index, dq.put_index) /\ Items \in 0 .. INDEX_RANGE - 1
           /\ DqContents = SeatedSeq(dq.slots, dq.get_index, Items)
           /\ dq.get_index = dq.put_index <=> Items = 0
<1>1. /\ dq.get_index \in 0 .. INDEX_RANGE - 1 /\ dq.put_index \in 0 .. INDEX_RANGE - 1
      /\ dq.slots \in [0 .. DqSize - 1 -> DqItem \cup {NoItem}] /\ dq.overrun \in BOOLEAN
      /\ dq = [slots |-> dq.slots, get_index |-> dq.get_index,
               put_index |-> dq.put_index, overrun |-> dq.overrun]
  BY DEF DqTypeOK
<1>2. Items = Span(dq.get_index, dq.put_index)
  BY DEF Items, Span
<1>3. Items \in 0 .. INDEX_RANGE - 1 /\ (dq.get_index = dq.put_index <=> Items = 0)
  <2>1. \A g, p \in 0 .. INDEX_RANGE - 1 :
           Span(g, p) \in 0 .. INDEX_RANGE - 1 /\ (g = p <=> Span(g, p) = 0)
    <3>. SUFFICES ASSUME NEW g \in 0 .. INDEX_RANGE - 1, NEW p \in 0 .. INDEX_RANGE - 1
                  PROVE  Span(g, p) \in 0 .. INDEX_RANGE - 1 /\ (g = p <=> Span(g, p) = 0)
      OBVIOUS
    <3>1. PICK m : m = Span(g, p)
      OBVIOUS
    <3>2. /\ m \in 0 .. INDEX_RANGE - 1
          /\ g <= p => m = p - g
          /\ p < g => m = p - g + INDEX_RANGE
      BY <3>1, SpanOf
    <3>3. g = p <=> m = 0
      BY <3>2, DqSizes
    <3>. QED
      BY <3>1, <3>2, <3>3, SpanOf
  <2>. QED
    BY <1>1, <1>2, <2>1
<1>4. DqContents = SeatedSeq(dq.slots, dq.get_index, Items)
  BY <1>1, <1>3, SeatedContents DEF DqContents
<1>. QED
  BY <1>1, <1>2, <1>3, <1>4

\* A step that leaves the queue alone.
LEMMA DqStays ==
    ASSUME DqRing, UNCHANGED dq
    PROVE  DqRing' /\ UNCHANGED <<Items, DqContents>>
<1>1. UNCHANGED <<Items, DqContents>> /\ DqTypeOK'
  BY DEF Items, DqContents, DqRing, DqTypeOK
<1>. QED
  BY <1>1 DEF DqRing, Seated

\* A push of an item: an overrun, or an item appended to what the ring holds.
LEMMA DqPushed ==
    ASSUME DqRing, ~DqFull, NEW item \in DqItem, PushItem(item)
    PROVE  /\ DqRing'
           /\ Items' = IF Items = INDEX_RANGE - 1 THEN 0 ELSE Items + 1
           /\ dq.overrun => dq'.overrun
           /\ dq'.overrun \/ (DataQueueAbstract!Put /\ Items' = Items + 1)
<1>. DEFINE g == dq.get_index
            p == dq.put_index
            L == Items
            q == (p + 1) % INDEX_RANGE
            new == [dq.slots EXCEPT ![Slot(p)] = item]
<1>1. /\ DqTypeOK /\ dq.slots \in [0 .. DqSize - 1 -> DqItem \cup {NoItem}]
      /\ g \in 0 .. INDEX_RANGE - 1 /\ p \in 0 .. INDEX_RANGE - 1
      /\ L = Span(g, p) /\ L \in 0 .. INDEX_RANGE - 1
      /\ DqContents = SeatedSeq(dq.slots, g, L)
      /\ dq = [slots |-> dq.slots, get_index |-> g, put_index |-> p, overrun |-> dq.overrun]
      /\ dq.overrun \in BOOLEAN
  BY DqFields DEF DqRing
<1>2. /\ q \in 0 .. INDEX_RANGE - 1 /\ p = Around(INDEX_RANGE, g, L)
      /\ Span(g, q) = IF L = INDEX_RANGE - 1 THEN 0 ELSE L + 1
  BY <1>1, IndexNext, SpanOf, SpanPut
<1>3. dq' = [slots |-> new, get_index |-> g, put_index |-> q, overrun |-> dq.overrun \/ Overruns]
  BY <1>1 DEF PushItem
<1>4. new \in [0 .. DqSize - 1 -> DqItem \cup {NoItem}]
  BY <1>1
<1>5. /\ dq'.slots = new /\ dq'.get_index = g /\ dq'.put_index = q
      /\ dq'.overrun = (dq.overrun \/ Overruns)
  BY <1>3
<1>6. Items' = Span(g, q) /\ DqTypeOK'
  <2>1. Items' = Span(g, q)
    BY <1>5 DEF Items, Span
  <2>2. (dq.overrun \/ Overruns) \in BOOLEAN
    OBVIOUS
  <2>. HIDE DEF g, q, new
  <2>3. DqTypeOK'
    BY <1>1, <1>2, <1>3, <1>4, <2>2 DEF DqTypeOK
  <2>. QED
    BY <2>1, <2>3
<1>. HIDE DEF g, p, L, q, new
<1>7. ASSUME ~dq'.overrun
      PROVE  DqRing' /\ DataQueueAbstract!Put /\ Items' = Items + 1
  <2>1. /\ ~dq.overrun /\ ~Overruns /\ L <= DqSize /\ Seated(dq.slots, g, L)
    BY <1>5, <1>7 DEF DqRing, g, L
  <2>2. L < DqSize /\ \A i \in 0 .. L - 1 : Seat(g, i) # Slot(p)
    <3>1. CASE p < g
      <4>1. L < DqSize /\ dq.slots[Slot(p)] = NoItem
        BY <1>1, <2>1, <3>1, DqSizes DEF Overruns, g, p, L
      <4>2. NoItem \notin DqItem
        BY DataQueueConstants DEF DqItem
      <4>. QED
        BY <2>1, <4>1, <4>2 DEF Seated
    <3>2. CASE g <= p
      <4>1. L = p - g
        BY <1>1, <3>2, SpanOf
      <4>2. p - g # DqSize
        BY DEF DqFull, g, p
      <4>3. L < DqSize
        BY <1>1, <2>1, <4>1, <4>2, DqSizes
      <4>4. ASSUME NEW i \in 0 .. L - 1 PROVE Seat(g, i) # Slot(p)
        <5>1. PICK m \in Nat : m = g + i
          BY <1>1
        <5>2. m < p /\ p - m < DqSize /\ p \in Nat /\ Around(INDEX_RANGE, g, i) = m
          BY <1>1, <4>1, <4>3, <5>1, DqSizes DEF Around
        <5>3. Slot(m) # Slot(p)
          BY <5>2, SlotsApart
        <5>. QED
          BY <5>2, <5>3 DEF Seat
      <4>. QED
        BY <4>3, <4>4
    <3>. QED
      BY <1>1, <3>1, <3>2
  <2>3. Slot(p) = Seat(g, L) /\ L \in 0 .. DqSize - 1 /\ L + 1 \in 0 .. INDEX_RANGE - 1
    BY <1>1, <1>2, <2>2, DqSizes DEF Seat
  <2>4. /\ Seat(g, L) \in 0 .. DqSize - 1 /\ new[Seat(g, L)] = item
        /\ \A j \in 0 .. DqSize - 1 : j # Seat(g, L) => new[j] = dq.slots[j]
    <3>1. Slot(p) \in 0 .. DqSize - 1
      <4>1. p \in Nat
        BY <1>1, DqSizes
      <4>. QED
        BY <4>1, SlotTypes
    <3>. QED
      BY <1>1, <2>3, <3>1 DEF new
  <2>5. /\ Seated(new, g, L + 1) /\ Len(SeatedSeq(dq.slots, g, L)) = L
        /\ SeatedSeq(new, g, L + 1) = Append(SeatedSeq(dq.slots, g, L), item)
    <3>1. \A i \in 0 .. L - 1 : Seat(g, i) # Seat(g, L)
      BY <2>2, <2>3
    <3>2. /\ dq.slots \in [0 .. DqSize - 1 -> DqItem \cup {NoItem}]
          /\ g \in 0 .. INDEX_RANGE - 1 /\ L \in 0 .. DqSize - 1 /\ Seated(dq.slots, g, L)
      BY <1>1, <2>1, <2>3
    <3>. QED
      BY <2>4, <3>1, <3>2, SeatedPut
  <2>6. Items' = L + 1 /\ L + 1 <= DqSize
    <3>1. L # INDEX_RANGE - 1 /\ L + 1 <= DqSize
      BY <1>1, <2>2, DqSizes
    <3>. QED
      BY <1>2, <1>6, <3>1
  <2>7. DqRing'
    BY <1>5, <1>6, <2>5, <2>6 DEF DqRing
  <2>8. DqContents' = SeatedSeq(new, g, L + 1)
    <3>1. DqContents' = [i \in 1 .. L + 1 |-> new[Slot((g + i - 1) % INDEX_RANGE)]]
      BY <1>5, <2>6 DEF DqContents
    <3>. QED
      BY <1>1, <2>3, <3>1, SeatedContents
  <2>9. Len(DqContents) < DqSize /\ DqContents' = Append(DqContents, item)
    BY <1>1, <2>2, <2>5, <2>8
  <2>10. DataQueueAbstract!Put
    BY <2>9 DEF DataQueueAbstract!Put, DqItem
  <2>. QED
    BY <2>6, <2>7, <2>10 DEF L
<1>8. ASSUME dq'.overrun PROVE DqRing'
  BY <1>6, <1>8 DEF DqRing
<1>9. Items' = IF Items = INDEX_RANGE - 1 THEN 0 ELSE Items + 1
  BY <1>2, <1>6 DEF L
<1>. QED
  BY <1>5, <1>7, <1>8, <1>9

\* A pop of a queue that holds an item takes the first one.
LEMMA DqPopped ==
    ASSUME DqRing, ~DqEmpty, PopItem
    PROVE  /\ DqRing'
           /\ Items' = Items - 1
           /\ Items' = 0 => AtMark
           /\ dq'.overrun = dq.overrun
           /\ dq'.overrun \/ DataQueueAbstract!Get
<1>. DEFINE g == dq.get_index
            p == dq.put_index
            L == Items
            h == Around(INDEX_RANGE, g, 1)
            new == [dq.slots EXCEPT ![Slot(g)] = NoItem]
<1>1. /\ DqTypeOK /\ dq.slots \in [0 .. DqSize - 1 -> DqItem \cup {NoItem}]
      /\ g \in 0 .. INDEX_RANGE - 1 /\ p \in 0 .. INDEX_RANGE - 1 /\ g # p
      /\ L = Span(g, p) /\ L \in 0 .. INDEX_RANGE - 1
      /\ DqContents = SeatedSeq(dq.slots, g, L)
      /\ dq = [slots |-> dq.slots, get_index |-> g, put_index |-> p, overrun |-> dq.overrun]
      /\ dq.overrun \in BOOLEAN
  BY DqFields DEF DqRing, DqEmpty
<1>2. /\ (g + 1) % INDEX_RANGE = h /\ h \in 0 .. INDEX_RANGE - 1
      /\ Span(h, p) = L - 1 /\ L > 0
  BY <1>1, IndexNext, SpanGet
<1>3. dq' = [slots |-> new, get_index |-> h, put_index |-> p, overrun |-> dq.overrun]
  BY <1>1, <1>2 DEF PopItem
<1>4. new \in [0 .. DqSize - 1 -> DqItem \cup {NoItem}]
  BY <1>1
<1>5. /\ dq'.slots = new /\ dq'.get_index = h /\ dq'.put_index = p
      /\ dq'.overrun = dq.overrun
  BY <1>3
<1>6. Items' = L - 1 /\ DqTypeOK'
  <2>1. Items' = Span(h, p)
    BY <1>5 DEF Items, Span
  <2>. HIDE DEF g, p, h, new
  <2>2. DqTypeOK'
    BY <1>1, <1>2, <1>3, <1>4 DEF DqTypeOK
  <2>. QED
    BY <1>2, <2>1, <2>2
<1>7. Items' = 0 => AtMark
  <2>1. ASSUME Items' = 0 PROVE p - h = 0
    <3>. HIDE DEF g, p, h
    <3>1. Span(h, p) = 0
      BY <1>2, <1>6, <2>1
    <3>2. p = Around(INDEX_RANGE, h, 0)
      BY <1>1, <1>2, <3>1, SpanOf
    <3>. QED
      BY <1>1, <1>2, <3>2, DqSizes DEF Around
  <2>2. DqLwm \in Nat
    BY DataQueueConstants, DqSizes
  <2>3. AtMark <=> p - h <= DqLwm
    BY <1>2 DEF AtMark
  <2>. HIDE DEF g, p, h
  <2>. QED
    BY <2>1, <2>2, <2>3
<1>. HIDE DEF g, p, L, h, new
<1>8. ASSUME ~dq.overrun PROVE DqRing' /\ DataQueueAbstract!Get
  <2>1. L <= DqSize /\ Seated(dq.slots, g, L)
    BY <1>8 DEF DqRing, g, L
  <2>2. L \in 1 .. DqSize /\ L - 1 <= DqSize /\ L - 1 \in 0 .. INDEX_RANGE - 1
    BY <1>1, <1>2, <2>1, DqSizes
  <2>3. /\ Seated(new, h, L - 1) /\ SeatedSeq(dq.slots, g, L) # << >>
        /\ SeatedSeq(new, h, L - 1) = Tail(SeatedSeq(dq.slots, g, L))
    <3>1. \A j \in 0 .. DqSize - 1 : j # Slot(g) => new[j] = dq.slots[j]
      BY <1>1 DEF new
    <3>2. /\ dq.slots \in [0 .. DqSize - 1 -> DqItem \cup {NoItem}]
          /\ g \in 0 .. INDEX_RANGE - 1 /\ L \in 1 .. DqSize /\ Seated(dq.slots, g, L)
      BY <1>1, <2>1, <2>2
    <3>. QED
      BY <3>1, <3>2, SeatedGet DEF h
  <2>4. DqRing'
    BY <1>5, <1>6, <2>2, <2>3 DEF DqRing
  <2>5. DqContents' = SeatedSeq(new, h, L - 1)
    <3>1. DqContents' = [i \in 1 .. L - 1 |-> new[Slot((h + i - 1) % INDEX_RANGE)]]
      BY <1>5, <1>6 DEF DqContents
    <3>. QED
      BY <1>2, <2>2, <3>1, SeatedContents
  <2>6. DataQueueAbstract!Get
    BY <1>1, <2>3, <2>5 DEF DataQueueAbstract!Get
  <2>. QED
    BY <2>4, <2>6
<1>9. ASSUME dq.overrun PROVE DqRing'
  BY <1>5, <1>6, <1>9 DEF DqRing
<1>. QED
  BY <1>1, <1>5, <1>6, <1>7, <1>8, <1>9 DEF L

\* A call record that may stand for thread t keeps those of the others.
LEMMA DqCalls ==
    ASSUME DqInv, NEW t \in Thread, NEW c, DqCall(c), call' = [call EXCEPT ![t] = c]
    PROVE  call' = [u \in Thread |-> call'[u]] /\ \A u \in Thread : DqCall(call'[u])
  BY DEF DqInv

\* A function of the queue that returns leaves no item with the caller.
LEMMA DqLeaves ==
    ASSUME DqInv, NEW t \in Thread, NEW at, Leave(t, at)
    PROVE  call' = [u \in Thread |-> call'[u]] /\ \A u \in Thread : DqCall(call'[u])
<1>1. DqCall(NoCall)
  BY DEF DqCall, NoCall
<1>. QED
  BY <1>1, DqCalls DEF Leave

\* The loop of rt_data_queue_push, with the record of a pusher.
LEMMA DqPushLoop ==
    ASSUME DqInv, NEW t \in Thread, NEW c, DqCall(c), c.arg.item \in ThreadItem, PushLoop(t, c)
    PROVE  DqInv' /\ (dq'.overrun \/ DataQueueAbstract!Put \/ UNCHANGED dq)
<1>1. CASE DqFull
  <2>1. UNCHANGED dq /\ call' = [call EXCEPT ![t] = c]
    BY <1>1 DEF PushLoop, DqWait
  <2>. QED
    BY <2>1, DqCalls, DqStays DEF DqInv
<1>2. CASE ~DqFull
  <2>1. c.arg.item \in DqItem
    BY DEF DqItem
  <2>2. DqRing' /\ (dq'.overrun \/ DataQueueAbstract!Put)
    BY <1>2, <2>1, DqPushed DEF PushLoop, DqInv
  <2>3. Leave(t, AfterWake(DqPoppers))
    BY <1>2 DEF PushLoop
  <2>. QED
    BY <2>2, <2>3, DqLeaves DEF DqInv
<1>. QED
  BY <1>1, <1>2

\* The loop of rt_data_queue_pop.
LEMMA DqPopLoop ==
    ASSUME DqInv, NEW t \in Thread, NEW c, DqCall(c), PopLoop(t, c)
    PROVE  DqInv' /\ (dq'.overrun \/ DataQueueAbstract!Get \/ UNCHANGED dq)
<1>1. CASE DqEmpty
  <2>1. UNCHANGED dq /\ call' = [call EXCEPT ![t] = c]
    BY <1>1 DEF PopLoop, DqWait
  <2>. QED
    BY <2>1, DqCalls, DqStays DEF DqInv
<1>2. CASE ~DqEmpty
  <2>1. DqRing' /\ (dq'.overrun \/ DataQueueAbstract!Get)
    BY <1>2, DqPopped DEF PopLoop, DqInv
  <2>2. Leave(t, IF AtMark THEN AfterWake(DqPushers) ELSE "run")
    BY <1>2 DEF PopLoop
  <2>. QED
    BY <2>1, <2>2, DqLeaves DEF DqInv
<1>. QED
  BY <1>1, <1>2

\* A step of the data queue puts an item, gets one or leaves them alone, until
\* one overruns the ring.
LEMMA DqStep ==
    ASSUME DqInv, [DataQueueNext]_dataQueueVars
    PROVE  /\ DqInv'
           /\ \/ dq'.overrun
              \/ DataQueueAbstract!Put \/ DataQueueAbstract!Get \/ UNCHANGED DqContents
<1>. DEFINE Goal == /\ DqInv'
                    /\ \/ dq'.overrun
                       \/ DataQueueAbstract!Put \/ DataQueueAbstract!Get
                       \/ UNCHANGED DqContents
<1>0. UNCHANGED dq => UNCHANGED DqContents
  BY DqStays DEF DqInv
<1>1. ASSUME UNCHANGED <<dq, call>> PROVE Goal
  BY <1>0, <1>1, DqStays DEF DqInv
<1>2. ASSUME NEW t \in Thread, UNCHANGED dq, NEW at, Leave(t, at) PROVE Goal
  BY <1>0, <1>2, DqLeaves, DqStays DEF DqInv
<1>3. ASSUME NEW t \in Thread, DataQueueCall(t) PROVE Goal
  <2>1. CASE rt_data_queue_push(t)
    <3>1. PICK item \in ThreadItem, timeout \in Times[t] :
            PushLoop(t, NewCall("rt_data_queue_push", [item |-> item, timeout |-> timeout], 0))
      BY <2>1 DEF rt_data_queue_push
    <3>. DEFINE c == NewCall("rt_data_queue_push", [item |-> item, timeout |-> timeout], 0)
    <3>2. DqCall(c) /\ c.arg.item \in ThreadItem
      BY DEF DqCall, NewCall
    <3>3. PushLoop(t, c)
      BY <3>1
    <3>. HIDE DEF c
    <3>. QED
      BY <1>0, <3>2, <3>3, DqPushLoop
  <2>2. CASE PushResumed(t)
    <3>1. CASE Failed(t)
      <4>1. UNCHANGED dq /\ Leave(t, "run")
        BY <2>2, <3>1 DEF PushResumed, Return
      <4>. QED
        BY <1>2, <4>1
    <3>2. CASE ~Failed(t)
      <4>1. PushLoop(t, call[t])
        BY <2>2, <3>2 DEF PushResumed
      <4>2. DqCall(call[t]) /\ call[t].arg.item \in ThreadItem
        BY <2>2 DEF PushResumed, Woken, DqInv, DqCall
      <4>. QED
        BY <1>0, <4>1, <4>2, DqPushLoop
    <3>. QED
      BY <3>1, <3>2
  <2>3. CASE rt_data_queue_pop(t)
    <3>1. PICK timeout \in Times[t] :
            PopLoop(t, NewCall("rt_data_queue_pop", [timeout |-> timeout], 0))
      BY <2>3 DEF rt_data_queue_pop
    <3>2. DqCall(NewCall("rt_data_queue_pop", [timeout |-> timeout], 0))
      BY DEF DqCall, NewCall
    <3>. QED
      BY <1>0, <3>1, <3>2, DqPopLoop
  <2>4. CASE PopResumed(t)
    <3>1. CASE Failed(t)
      <4>1. UNCHANGED dq /\ Leave(t, "run")
        BY <2>4, <3>1 DEF PopResumed, Return
      <4>. QED
        BY <1>2, <4>1
    <3>2. CASE ~Failed(t)
      <4>1. PopLoop(t, call[t]) /\ DqCall(call[t])
        BY <2>4, <3>2 DEF PopResumed, DqInv
      <4>. QED
        BY <1>0, <4>1, DqPopLoop
    <3>. QED
      BY <3>1, <3>2
  <2>5. CASE rt_data_queue_reset(t)
    <3>1. UNCHANGED dq /\ call' = [call EXCEPT ![t] = NewCall("rt_data_queue_reset", << >>, 0)]
      BY <2>5 DEF rt_data_queue_reset
    <3>2. DqCall(NewCall("rt_data_queue_reset", << >>, 0))
      BY DEF DqCall, NewCall
    <3>. QED
      BY <1>0, <3>1, <3>2, DqCalls, DqStays DEF DqInv
  <2>6. CASE DqResetStep(t)
    <3>1. UNCHANGED dq /\ (UNCHANGED call \/ Leave(t, "sched"))
      BY <2>6 DEF DqResetStep
    <3>. QED
      BY <1>1, <1>2, <3>1
  <2>. QED
    BY <1>3, <2>1, <2>2, <2>3, <2>4, <2>5, <2>6 DEF DataQueueCall
<1>4. ASSUME DevicePush PROVE Goal
  <2>1. PICK item \in DeviceItem : PushItem(item)
    BY <1>4 DEF DevicePush
  <2>2. item \in DqItem /\ ~DqFull /\ UNCHANGED call
    BY <1>4 DEF DevicePush, DqItem
  <2>. QED
    BY <2>1, <2>2, DqPushed DEF DqInv
<1>5. ASSUME DevicePop PROVE Goal
  BY <1>5, DqPopped DEF DevicePop, DqInv
<1>6. ASSUME IpcKernelStep, UNCHANGED dq PROVE Goal
  BY <1>1, <1>6 DEF IpcKernelStep
<1>7. ASSUME UNCHANGED dataQueueVars PROVE Goal
  BY <1>1, <1>7 DEF dataQueueVars
<1>. QED
  BY <1>3, <1>4, <1>5, <1>6, <1>7 DEF DataQueueNext

\* The queue is empty at first.
LEMMA DqStarts ==
    ASSUME IpcCallInit, DataQueueInit
    PROVE  DqInv /\ DataQueueAbstract!Init
<1>1. dq.get_index = 0 /\ dq.put_index = 0 /\ DqTypeOK
  BY DqSizes DEF DataQueueInit, DqTypeOK
<1>2. Items = 0 /\ DqContents = SeatedSeq(dq.slots, 0, 0)
  BY <1>1, DqFields
<1>3. DqRing
  BY <1>1, <1>2, DqSizes DEF DqRing, Seated
<1>4. call = [t \in Thread |-> call[t]] /\ \A t \in Thread : DqCall(call[t])
  BY DEF IpcCallInit, NoCall, DqCall
<1>5. DataQueueAbstract!Init
  BY <1>2 DEF DataQueueAbstract!Init, SeatedSeq
<1>. QED
  BY <1>3, <1>4, <1>5 DEF DqInv

\* The items come out of the data queue in the order they went in, each once,
\* and never more than size of them are inside, whichever threads and interrupts
\* push and pop and whenever it is reset, until a push overruns the ring; and
\* the first push that does comes when put_index has wrapped and get_index has
\* not, for every size and however often the indices have wrapped before.
THEOREM DataQueueIsAQueue == DataQueueSpec => DataQueueRefinement
<1>1. IpcCallInit /\ DataQueueInit => DqInv /\ DataQueueAbstract!Init
  BY DqStarts
<1>2. DqInv /\ [DataQueueNext]_dataQueueVars
      => /\ DqInv'
         /\ [\/ dq.overrun'
             \/ DataQueueAbstract!Put \/ DataQueueAbstract!Get]_DqContents
  BY DqStep
<1>. QED
  BY <1>1, <1>2, PTL DEF DataQueueSpec, DataQueueRefinement

-----------------------------------------------------------------------------
(* The completion *)

\* The threads in rt_completion_wait.
CpCallers == {t \in Thread : call[t].op = "rt_completion_wait"}

\* Whoever is in the list has called rt_completion_wait, and one thread at a
\* time does.
CpInv ==
    /\ BlockingInv
    /\ k.lock = 0
    /\ call = [t \in Thread |-> call[t]]
    /\ Range(k.wait[CpWaiters]) \subseteq CpCallers
    /\ \A t, u \in CpCallers : t = u
    /\ NoLostCompletion

\* Resuming the first waiter, who is the only one, empties the list.
LEMMA CpLastWoken ==
    ASSUME CpInv, NEW u, NEW t, NEW e, t \in Range(k.wait[CpWaiters]), Wakes(k, u, t, e)
    PROVE  u.wait[CpWaiters] = << >>
<1>1. /\ k.wait[CpWaiters] \in Seq(Thread) /\ IsInjective(k.wait[CpWaiters])
      /\ t \in Thread
  BY CompletionConstants, WaitersAreThreads DEF CpInv, BlockingInv, KernelWaits, WaitsExact
<1>2. Range(RemoveFirst(k.wait[CpWaiters], t)) = Range(k.wait[CpWaiters]) \ {t}
  BY <1>1, RemoveFirstOnce
<1>3. \A x \in Range(k.wait[CpWaiters]) : x = t
  BY DEF CpInv
<1>4. u.wait[CpWaiters] = RemoveFirst(k.wait[CpWaiters], t)
  BY CompletionConstants DEF Wakes, WithoutWaiter
<1>5. KernelWaits(u)
  BY DEF Wakes
<1>. QED
  BY <1>2, <1>3, <1>4, <1>5, CompletionConstants, WaitersAreThreads

\* rt_completion_wait of a thread that finds the flag clear.
LEMMA CpWaits ==
    ASSUME CpInv, NEW t \in Thread, CompletionWait(t)
    PROVE  CpInv'
<1>1. /\ t = k.cur /\ t # Idle /\ pc[t] = "run" /\ OneWaits /\ ~cp /\ cp' = cp
      /\ call' = [call EXCEPT ![t] = NewCall("rt_completion_wait", << >>, 0)]
      /\ Moves(t, "wait")
  BY DEF CompletionWait, Calls, Executes, Goto, Moves
<1>2. PICK timeout \in Times[t] : k' = Block(k, CpWaiters, t, FIFO, timeout)
  BY DEF CompletionWait
<1>3. timeout \in Int
  <2>1. HALF_RANGE \in Int
    BY KernelConstants DEF HALF_RANGE
  <2>. QED
    BY <2>1, IpcCallConstants DEF WAITING_FOREVER
<1>4. KernelWaits(k) /\ k.stat[t] = READY /\ k.lock = 0
  BY <1>1, CallerIsReady DEF CpInv, BlockingInv
<1>5. Blocks(k, k', CpWaiters, t, FIFO, timeout)
  BY <1>1, <1>2, <1>3, <1>4, CompletionConstants, BlockBlocks
<1>6. BlockingInv'
  BY <1>1, <1>4, <1>5, CompletionConstants, BlockKeeps DEF CpInv
<1>7. /\ k'.lock = 0
      /\ Range(k'.wait[CpWaiters]) = Range(k.wait[CpWaiters]) \cup {t}
  BY <1>4, <1>5, CompletionConstants DEF Blocks
<1>8. CpCallers = {} /\ CpCallers' = {t} /\ call' = [x \in Thread |-> call'[x]]
  BY <1>1 DEF CpInv, CpCallers, OneWaits, NewCall
<1>. QED
  BY <1>1, <1>6, <1>7, <1>8 DEF CpInv, NoLostCompletion

\* rt_completion_done after its test of the flag.
LEMMA CpDone ==
    ASSUME CpInv, NEW t \in Thread, CompletionDone(t)
    PROVE  CpInv'
<1>1. /\ t = k.cur /\ pc[t] = "done" /\ t # Idle /\ isr' = isr
      /\ k' = WakeFirst(k, CpWaiters) /\ call' = [call EXCEPT ![t] = NoCall]
      /\ \E at : Moves(t, at)
  BY DEF CompletionDone, Continues, Executes, Leave, Goto, Moves, CpInv, BlockingInv
<1>2. /\ k.stat[t] = READY /\ t \notin Range(k.wait[CpWaiters])
      /\ KernelWaits(k) /\ k.lock = 0
  BY <1>1, CallerIsReady, CompletionConstants DEF CpInv, BlockingInv
<1>3. /\ KernelWaits(k') /\ k'.cur = t /\ k'.stat[t] = READY /\ k'.lock = 0
      /\ k'.wait[CpWaiters] = << >>
      /\ \A w \in WaitList : Range(k'.wait[w]) \subseteq Range(k.wait[w])
  <2>1. CASE k.wait[CpWaiters] = << >>
    BY <1>1, <1>2, <2>1 DEF WakeFirst
  <2>2. CASE k.wait[CpWaiters] # << >>
    <3>. DEFINE h == Head(k.wait[CpWaiters])
    <3>1. k' = rt_ipc_list_resume(k, CpWaiters)
      BY <1>1, <2>2 DEF WakeFirst
    <3>2. /\ h \in Range(k.wait[CpWaiters]) /\ h \in Thread
          /\ Wakes(k, k', h, EOK) /\ k'.cur = k.cur
      BY <1>2, <2>2, <3>1, HeadWakes, CompletionConstants
    <3>. HIDE DEF h
    <3>3. \A w \in WaitList : Range(k'.wait[w]) \subseteq Range(k.wait[w])
      BY <1>2, <3>2, WokenShrinks
    <3>4. k'.stat[t] = READY
      BY <1>2, <3>2, QueueFacts DEF Wakes, KernelWaits
    <3>5. KernelWaits(k') /\ k'.lock = k.lock
      BY <3>2 DEF Wakes
    <3>. QED
      BY <1>1, <1>2, <3>2, <3>3, <3>4, <3>5, CpLastWoken
  <2>. QED
    BY <2>1, <2>2
<1>4. BlockingInv'
  BY <1>1, <1>3, CallKeeps DEF CpInv
<1>5. CpCallers' \subseteq CpCallers /\ call' = [x \in Thread |-> call'[x]]
  BY <1>1 DEF CpInv, CpCallers, NoCall
<1>6. Range(k'.wait[CpWaiters]) = {}
  BY <1>3, CompletionConstants, WaitersAreThreads
<1>. QED
  BY <1>3, <1>4, <1>5, <1>6 DEF CpInv, NoLostCompletion

\* rt_completion_done in an interrupt.
LEMMA CpDevice ==
    ASSUME CpInv, DeviceDone
    PROVE  CpInv'
<1>1. UNCHANGED <<pc, isr, call>> /\ CpCallers' = CpCallers
  BY DEF DeviceDone, CpCallers
<1>2. CASE k.wait[CpWaiters] = << >>
  BY <1>1, <1>2 DEF DeviceDone, CpInv, NoLostCompletion, BlockingInv, CurrentMayRun
<1>3. CASE k.wait[CpWaiters] # << >>
  <2>. DEFINE h == Head(k.wait[CpWaiters])
  <2>1. k' = rt_schedule(rt_ipc_list_resume(k, CpWaiters))
    BY <1>3 DEF DeviceDone
  <2>2. BlockingInv' /\ h \in Range(k.wait[CpWaiters]) /\ Wakes(k, k', h, EOK)
    BY <1>1, <1>3, <2>1, DeviceKeeps, CompletionConstants DEF CpInv
  <2>. HIDE DEF h
  <2>3. k'.wait[CpWaiters] = << >> /\ k'.lock = 0 /\ KernelWaits(k')
    <3>1. k'.wait[CpWaiters] = << >>
      BY <2>2, CpLastWoken
    <3>. QED
      BY <2>2, <3>1 DEF Wakes, CpInv
  <2>4. Range(k'.wait[CpWaiters]) = {}
    BY <2>3, CompletionConstants, WaitersAreThreads
  <2>. QED
    BY <1>1, <2>2, <2>3, <2>4 DEF CpInv, NoLostCompletion
<1>. QED
  BY <1>2, <1>3

\* The clock, sleeps and context switches add nobody to the list.
LEMMA CpKernel ==
    ASSUME CpInv, IpcKernelStep, UNCHANGED cp
    PROVE  CpInv'
<1>1. BlockingInv' /\ Quiet /\ call' = call /\ CpCallers' = CpCallers
  BY BlockingStep DEF CpInv, IpcKernelStep, CpCallers
<1>2. Range(k'.wait[CpWaiters]) \subseteq Range(k.wait[CpWaiters]) /\ KernelWaits(k')
  <2>1. CASE NobodyLeaves
    BY <1>1, <2>1 DEF NobodyLeaves, BlockingInv
  <2>2. ASSUME NEW t \in Thread, TimesOut(t)
        PROVE  Range(k'.wait[CpWaiters]) \subseteq Range(k.wait[CpWaiters]) /\ KernelWaits(k')
    <3>1. KernelWaits(k) /\ Wakes(k, k', t, ETIMEOUT)
      BY <2>2 DEF TimesOut, CpInv, BlockingInv
    <3>2. Range(k'.wait[CpWaiters]) \subseteq Range(k.wait[CpWaiters])
      BY <3>1, WokenShrinks, CompletionConstants
    <3>. QED
      BY <3>1, <3>2 DEF Wakes
  <2>. QED
    BY <1>1, <2>1, <2>2 DEF Quiet
<1>3. cp' => k'.wait[CpWaiters] = << >>
  <2>1. KernelWaits(k)
    BY DEF CpInv, BlockingInv
  <2>. QED
    BY <1>2, <2>1, CompletionConstants, WaitersAreThreads DEF CpInv, NoLostCompletion
<1>4. k'.lock = 0
  BY <1>1 DEF Quiet, CpInv
<1>. QED
  BY <1>1, <1>2, <1>3, <1>4 DEF CpInv, NoLostCompletion

\* The other sections of the calls.
LEMMA CpCallKeeps ==
    ASSUME CpInv, NEW t \in Thread, CompletionTaken(t) \/ CompletionReturn(t) \/ CompletionTest(t)
    PROVE  CpInv'
<1>1. /\ t = k.cur /\ t # Idle /\ pc[t] \notin {"wait", "sleep"} /\ k' = k
      /\ UNCHANGED <<pc, isr>> \/ \E at : Moves(t, at)
      /\ cp' => cp
  BY DEF CompletionTaken, CompletionReturn, CompletionTest, Calls, Woken, Continues,
         Executes, Return, Leave, Goto, Moves, CpInv, BlockingInv
<1>2. k.stat[t] = READY /\ \A w \in WaitList : t \notin Range(k.wait[w])
  BY <1>1, CallerIsReady DEF CpInv
<1>3. BlockingInv'
  BY <1>1, <1>2, CallKeeps DEF CpInv, BlockingInv
<1>4. \/ call' = call
      \/ call' = [call EXCEPT ![t] = NoCall]
      \/ call' = [call EXCEPT ![t] = NewCall("rt_completion_done", << >>, 0)]
  BY DEF CompletionTaken, CompletionReturn, CompletionTest, Return, Leave
<1>5. /\ CpCallers \ {t} \subseteq CpCallers' /\ CpCallers' \subseteq CpCallers
      /\ call' = [x \in Thread |-> call'[x]]
  BY <1>4 DEF CpInv, CpCallers, NoCall, NewCall
<1>. QED
  BY <1>1, <1>2, <1>3, <1>5, CompletionConstants DEF CpInv, NoLostCompletion

\* No thread sleeps beside a completion, whoever is done, in a thread between
\* its test of the flag and its section or in an interrupt, and whether the wait
\* is timed or not: rt_completion_done leaves nobody in the list it sets the flag
\* for, and nobody joins it while the flag is set.
THEOREM CompletionIsNotLost == CompletionSpec => []NoLostCompletion
<1>1. IpcCallInit /\ CompletionInit => CpInv
  <2>. SUFFICES ASSUME IpcCallInit, CompletionInit PROVE CpInv
    OBVIOUS
  <2>1. BlockingInv /\ k.wait[CpWaiters] = << >> /\ KernelWaits(k)
    BY InitBlocking, CompletionConstants DEF IpcCallInit, BlockingInv
  <2>2. Range(k.wait[CpWaiters]) = {}
    BY <2>1, CompletionConstants, WaitersAreThreads
  <2>3. k.lock = 0 /\ call = [t \in Thread |-> call[t]] /\ CpCallers = {}
    BY DEF IpcCallInit, BlockingInit, CpCallers, NoCall
  <2>. QED
    BY <2>1, <2>2, <2>3 DEF CpInv, NoLostCompletion
<1>2. CpInv /\ [CompletionNext]_completionVars => CpInv'
  <2>. SUFFICES ASSUME CpInv, [CompletionNext]_completionVars PROVE CpInv'
    OBVIOUS
  <2>1. CASE UNCHANGED completionVars
    BY <2>1 DEF completionVars, CpInv, CpCallers, NoLostCompletion, BlockingInv, CurrentMayRun
  <2>. QED
    BY <2>1, CpKernel, CpWaits, CpDone, CpDevice, CpCallKeeps DEF CompletionNext, CompletionCall
<1>3. CpInv => NoLostCompletion
  BY DEF CpInv
<1>. QED
  BY <1>1, <1>2, <1>3, PTL DEF CompletionSpec

-----------------------------------------------------------------------------
(* Callers that wait for what others put or take *)

\* Whoever is in the list w is in the call op.
Listed(w, op) == \A t \in Range(k.wait[w]) : call[t].op = op

\* Nobody but the threads in S moves in a call, and nobody joins a list.
OthersStay(S) ==
    /\ KernelWaits(k')
    /\ \A w \in WaitList : Range(k'.wait[w]) \subseteq Range(k.wait[w])
    /\ \A op : Resumed(op) \ S \subseteq Resumed(op)'

\* The list w, of callers of op, had no first waiter or he was resumed.
WokeFor(w, op, S) ==
    k'.wait[w] # << >> => \E h \in Resumed(op)' : h \notin Resumed(op) \cup S

\* While somebody waits in w, at least n callers of op were resumed.
Enough(w, op, n) == k.wait[w] # << >> => n <= Cardinality(Resumed(op))

\* The threads that were resumed can be counted.
LEMMA ResumedCounted ==
    ASSUME NEW op
    PROVE  /\ IsFiniteSet(Resumed(op)) /\ Cardinality(Resumed(op)) \in Nat
           /\ IsFiniteSet(Resumed(op)') /\ Cardinality(Resumed(op)') \in Nat
<1>1. \A S \in SUBSET Thread : IsFiniteSet(S) /\ Cardinality(S) \in Nat
  BY BlockingConstants, FS_Subset, FS_CardinalityType
<1>2. Resumed(op) \in SUBSET Thread /\ Resumed(op)' \in SUBSET Thread
  BY DEF Resumed
<1>. QED
  BY <1>1, <1>2

\* Nobody new waits, and nobody who was resumed has gone on.
LEMMA EnoughStill ==
    ASSUME NEW w, NEW op, NEW n \in Int, Enough(w, op, n),
           k'.wait[w] # << >> => k.wait[w] # << >>, Resumed(op) \subseteq Resumed(op)'
    PROVE  Enough(w, op, n)'
<1>. DEFINE P == Resumed(op)
<1>1. Cardinality(P) <= Cardinality(P') /\ Cardinality(P) \in Nat /\ Cardinality(P') \in Nat
  BY ResumedCounted, FS_Subset
<1>2. k'.wait[w] # << >> => n <= Cardinality(P)
  BY DEF Enough
<1>. HIDE DEF P
<1>3. k'.wait[w] # << >> => n <= Cardinality(P')
  BY <1>1, <1>2
<1>. QED
  BY <1>3 DEF Enough, P

\* For one item more one waiter more was resumed.
LEMMA EnoughMore ==
    ASSUME KernelWaits(k), NEW w \in WaitList, NEW op, NEW n \in Int, Enough(w, op, n), NEW S,
           OthersStay(S), WokeFor(w, op, S), S \cap Resumed(op) = {}
    PROVE  Enough(w, op, n + 1)'
<1>. DEFINE P == Resumed(op)
<1>1. P \subseteq P'
  BY DEF OthersStay
<1>2. ASSUME k'.wait[w] # << >> PROVE n + 1 <= Cardinality(P')
  <2>1. PICK h \in P' : h \notin P
    BY <1>2 DEF WokeFor
  <2>2. P \cup {h} \subseteq P' /\ IsFiniteSet(P) /\ IsFiniteSet(P')
    BY <1>1, <2>1, ResumedCounted
  <2>3. Cardinality(P \cup {h}) = Cardinality(P) + 1 /\ Cardinality(P \cup {h}) <= Cardinality(P')
    BY <2>1, <2>2, FS_AddElement, FS_Subset
  <2>4. n <= Cardinality(P)
    BY <1>2, WaitersAreThreads DEF Enough, OthersStay
  <2>5. Cardinality(P) \in Nat /\ Cardinality(P') \in Nat
    BY ResumedCounted
  <2>. HIDE DEF P
  <2>. QED
    BY <2>3, <2>4, <2>5
<1>. QED
  BY <1>2 DEF Enough

\* One item less allows one of the resumed threads to go on.
LEMMA EnoughLess ==
    ASSUME KernelWaits(k), NEW w \in WaitList, NEW op, NEW n \in Int, Enough(w, op, n),
           NEW t, NEW S \in {{}, {t}}, OthersStay(S)
    PROVE  Enough(w, op, n - 1)'
<1>. DEFINE P == Resumed(op)
<1>1. ASSUME k'.wait[w] # << >> PROVE n - 1 <= Cardinality(P')
  <2>1. P \ {t} \subseteq P' /\ IsFiniteSet(P) /\ IsFiniteSet(P')
    BY ResumedCounted DEF OthersStay
  <2>2. Cardinality(P) - 1 <= Cardinality(P \ {t}) /\ Cardinality(P \ {t}) \in Nat
    <3>. HIDE DEF P
    <3>1. /\ IsFiniteSet(P \ {t}) /\ Cardinality(P) \in Nat
          /\ Cardinality(P \ {t}) = IF t \in P THEN Cardinality(P) - 1 ELSE Cardinality(P)
      BY <2>1, FS_RemoveElement, FS_CardinalityType
    <3>2. Cardinality(P \ {t}) \in Nat
      BY <3>1, FS_CardinalityType
    <3>. QED
      BY <3>1, <3>2
  <2>3. Cardinality(P \ {t}) <= Cardinality(P')
    BY <2>1, FS_Subset
  <2>4. n <= Cardinality(P)
    BY <1>1, WaitersAreThreads DEF Enough, OthersStay
  <2>5. Cardinality(P) \in Nat /\ Cardinality(P') \in Nat
    BY ResumedCounted
  <2>. HIDE DEF P
  <2>. QED
    BY <2>2, <2>3, <2>4, <2>5
<1>. QED
  BY <1>1 DEF Enough

\* A list that nobody joins stays empty.
LEMMA StaysEmpty ==
    ASSUME KernelWaits(k), NEW S, OthersStay(S), NEW w \in WaitList, k'.wait[w] # << >>
    PROVE  k.wait[w] # << >>
  BY WaitersAreThreads DEF OthersStay

\* Threads outside S whose state and place do not change stay resumed.
LEMMA StillResumed ==
    ASSUME NEW S, NEW op,
           \A x \in Thread \ S :
               /\ k.stat[x] = READY /\ pc[x] \in {"wait", "woken"} =>
                      pc'[x] \in {"wait", "woken"} /\ k'.stat[x] = READY /\ k'.error[x] = k.error[x]
               /\ call'[x] = call[x]
    PROVE  Resumed(op) \ S \subseteq Resumed(op)'
  BY DEF Resumed

\* The first waiter of w was resumed, if there was one.
WokeFirst(w) ==
    /\ KernelWaits(k') /\ k'.lock = k.lock
    /\ \/ k.wait[w] = << >> /\ k'.wait = k.wait /\ k'.stat = k.stat /\ k'.error = k.error
       \/ \E h \in Range(k.wait[w]) : Wakes(k, k', h, EOK) /\ k'.error = k.error

\* Lists that nobody joins are callers of the same op, if these stay in their calls.
LEMMA StillListed ==
    ASSUME KernelWaits(k), NEW S, OthersStay(S), \A x \in Thread \ S : call'[x] = call[x],
           \A v \in WaitList : Range(k.wait[v]) \cap S = {},
           NEW w \in WaitList, NEW op, Listed(w, op)
    PROVE  Listed(w, op)'
<1>1. \A x \in Range(k'.wait[w]) : x \in Range(k.wait[w]) /\ x \in Thread \ S
  BY WaitersAreThreads DEF OthersStay
<1>. QED
  BY <1>1 DEF Listed

\* Waking the first waiter of w takes it from the list to the resumed threads and
\* moves no other thread.
LEMMA FirstWakes ==
    ASSUME BlockingInv, NEW w \in WaitList, NEW op, Listed(w, op), WokeFirst(w), NEW S,
           \A x \in Thread \ S : pc'[x] = pc[x] /\ call'[x] = call[x],
           \A v \in WaitList : Range(k.wait[v]) \cap S = {}
    PROVE  OthersStay(S) /\ WokeFor(w, op, S)
<1>1. /\ KernelWaits(k) /\ k.stat \in [Thread -> Stat]
      /\ \A v \in WaitList : Range(k.wait[v]) \subseteq Thread \ S
  <2>1. KernelWaits(k) /\ KInv(k, {})
    BY DEF BlockingInv, KernelWaits
  <2>. QED
    BY <2>1, QueueFacts, WaitersAreThreads
<1>2. CASE k.wait[w] = << >> /\ k'.wait = k.wait /\ k'.stat = k.stat /\ k'.error = k.error
  <2>1. \A o : Resumed(o) \ S \subseteq Resumed(o)'
    BY <1>2, StillResumed
  <2>. QED
    BY <1>1, <1>2, <2>1 DEF OthersStay, WokeFor, WokeFirst
<1>3. ASSUME NEW h \in Range(k.wait[w]), Wakes(k, k', h, EOK), k'.error = k.error
      PROVE  OthersStay(S) /\ WokeFor(w, op, S)
  <2>1. \A v \in WaitList : Range(k'.wait[v]) \subseteq Range(k.wait[v])
    BY <1>1, <1>3, WokenShrinks
  <2>2. /\ h \in Thread \ S /\ k.stat[h] = SUSPEND /\ k.error[h] = EOK
        /\ pc[h] \in {"wait", "woken"} /\ call[h].op = op
    BY <1>1, <1>3 DEF BlockingInv, KernelWaits, WaitsExact, Listed
  <2>3. k'.stat = [k.stat EXCEPT ![h] = READY]
    BY <1>3 DEF Wakes
  <2>4. \A o : Resumed(o) \ S \subseteq Resumed(o)'
    BY <1>1, <1>3, <2>2, <2>3, StillResumed
  <2>5. h \in Resumed(op)'
    BY <1>1, <1>3, <2>2, <2>3 DEF Resumed
  <2>6. h \notin Resumed(op)
    BY <2>2, StatesDiffer DEF Resumed
  <2>. QED
    BY <2>1, <2>2, <2>4, <2>5, <2>6 DEF OthersStay, WokeFor, WokeFirst
<1>. QED
  BY <1>2, <1>3 DEF WokeFirst

\* A caller in a section of its own waits nowhere.
LEMMA CallerWaitsNowhere ==
    ASSUME BlockingInv, NEW t, t = k.cur, pc[t] \notin {"wait", "sleep"}
    PROVE  /\ KernelWaits(k) /\ t \in Thread /\ k.stat[t] = READY
           /\ \A w \in WaitList : Range(k.wait[w]) \cap {t} = {}
  BY CallerIsReady DEF BlockingInv

\* A section that wakes nobody: the caller t moves on in its call.
LEMMA CallerMoves ==
    ASSUME BlockingInv, call = [x \in Thread |-> call[x]],
           NEW t, t = k.cur, t # Idle, pc[t] \notin {"wait", "sleep"},
           KernelWaits(k'), k'.stat = k.stat, k'.wait = k.wait, k'.cur = k.cur,
           \A x \in Thread \ {t} : k'.error[x] = k.error[x],
           NEW at, Moves(t, at), NEW c, call' = [call EXCEPT ![t] = c]
    PROVE  BlockingInv' /\ OthersStay({t})
<1>1. /\ t \in Thread /\ KernelWaits(k) /\ k'.stat[t] = READY
  BY CallerWaitsNowhere
<1>2. BlockingInv'
  BY <1>1, CallKeeps
<1>3. \A x \in Thread \ {t} : pc'[x] = pc[x] /\ call'[x] = call[x]
  BY <1>1 DEF BlockingInv, Moves
<1>4. \A op : Resumed(op) \ {t} \subseteq Resumed(op)'
  BY <1>3, StillResumed, ZenonT(60)
<1>. QED
  BY <1>2, <1>4 DEF OthersStay

\* A section that resumes the first waiter of w.
LEMMA CallerWakes ==
    ASSUME BlockingInv, call = [x \in Thread |-> call[x]],
           NEW t, t = k.cur, t # Idle, pc[t] \notin {"wait", "sleep"},
           NEW w \in WaitList, NEW op, Listed(w, op), k' = WakeFirst(k, w),
           NEW at, Moves(t, at), NEW c, call' = [call EXCEPT ![t] = c]
    PROVE  BlockingInv' /\ k'.lock = k.lock /\ OthersStay({t}) /\ WokeFor(w, op, {t})
<1>1. /\ KernelWaits(k) /\ t \in Thread /\ k.stat[t] = READY
      /\ \A v \in WaitList : Range(k.wait[v]) \cap {t} = {}
  BY CallerWaitsNowhere
<1>2. \A x \in Thread \ {t} : pc'[x] = pc[x] /\ call'[x] = call[x]
  BY <1>1 DEF BlockingInv, Moves
<1>3. CASE k.wait[w] = << >>
  <2>1. k' = k
    BY <1>3 DEF WakeFirst
  <2>2. BlockingInv' /\ WokeFirst(w)
    BY <1>1, <1>3, <2>1, CallKeeps DEF WokeFirst
  <2>. QED
    BY <1>1, <1>2, <2>1, <2>2, FirstWakes
<1>4. CASE k.wait[w] # << >>
  <2>. DEFINE h == Head(k.wait[w])
  <2>1. k' = rt_ipc_list_resume(k, w)
    BY <1>4 DEF WakeFirst
  <2>2. /\ h \in Range(k.wait[w]) /\ h \in Thread /\ k.stat[h] = SUSPEND
        /\ Wakes(k, k', h, EOK) /\ k'.error = k.error /\ k'.cur = k.cur
    BY <1>1, <1>4, <2>1, HeadWakes
  <2>. HIDE DEF h
  <2>3. \A v \in WaitList : Range(k'.wait[v]) \subseteq Range(k.wait[v])
    BY <1>1, <2>2, WokenShrinks
  <2>4. KernelWaits(k') /\ k'.lock = k.lock /\ k'.stat[t] = READY
    BY <1>1, <2>2, QueueFacts DEF Wakes, KernelWaits
  <2>5. BlockingInv'
    BY <1>1, <2>2, <2>3, <2>4, CallKeeps
  <2>6. WokeFirst(w)
    BY <1>1, <2>2, <2>4 DEF WokeFirst
  <2>. QED
    BY <1>1, <1>2, <2>4, <2>5, <2>6, FirstWakes
<1>. QED
  BY <1>3, <1>4

\* A device that resumes the first waiter of w: rt_schedule follows at once.
LEMMA DeviceWakes ==
    ASSUME BlockingInv, NEW w \in WaitList, NEW op, Listed(w, op), UNCHANGED <<pc, isr, call>>,
           k' = IF k.wait[w] = << >> THEN k ELSE rt_schedule(rt_ipc_list_resume(k, w))
    PROVE  /\ BlockingInv' /\ k'.lock = k.lock /\ (k.lock # 0 => k'.cur = k.cur)
           /\ OthersStay({}) /\ WokeFor(w, op, {})
<1>1. CASE k.wait[w] = << >>
  <2>1. BlockingInv' /\ WokeFirst(w)
    BY <1>1 DEF BlockingInv, CurrentMayRun, WokeFirst
  <2>. QED
    BY <1>1, <2>1, FirstWakes
<1>2. CASE k.wait[w] # << >>
  <2>. DEFINE h == Head(k.wait[w])
  <2>1. /\ BlockingInv' /\ h \in Range(k.wait[w])
        /\ Wakes(k, k', h, EOK) /\ k'.error = k.error
        /\ k.lock # 0 => k'.cur = k.cur
    BY <1>2, DeviceKeeps
  <2>. HIDE DEF h
  <2>2. KernelWaits(k') /\ k'.lock = k.lock
    BY <2>1 DEF Wakes
  <2>3. WokeFirst(w)
    BY <2>1, <2>2 DEF WokeFirst
  <2>. QED
    BY <2>1, <2>2, <2>3, FirstWakes
<1>. QED
  BY <1>1, <1>2

\* A caller that joins the list w: no other list gets longer.
LEMMA CallerJoins ==
    ASSUME BlockingInv, call = [x \in Thread |-> call[x]],
           NEW t, t = k.cur, t # Idle, pc[t] \notin {"wait", "sleep"}, k.lock = 0,
           NEW w \in WaitList, NEW list, NEW time, Joins(k, k', w, t, list, time),
           Moves(t, "wait"), NEW c, call' = [call EXCEPT ![t] = c]
    PROVE  /\ BlockingInv' /\ k'.lock = k.lock
           /\ \A op : Resumed(op) \ {t} \subseteq Resumed(op)'
           /\ \A v \in WaitList \ {w} : k'.wait[v] # << >> => k.wait[v] # << >>
           /\ \A v \in WaitList : \A op : Listed(v, op) /\ (v = w => c.op = op) => Listed(v, op)'
<1>1. /\ KernelWaits(k) /\ t \in Thread /\ k.stat[t] = READY
      /\ \A v \in WaitList : Range(k.wait[v]) \cap {t} = {}
  BY CallerWaitsNowhere
<1>3. BlockingInv'
  BY <1>1, JoinKeeps
<1>4. \A x \in Thread \ {t} : pc'[x] = pc[x] /\ call'[x] = call[x]
  BY <1>1 DEF BlockingInv, Moves
<1>5. \A x \in Thread \ {t} : k'.stat[x] = k.stat[x] /\ k'.error[x] = k.error[x]
  BY DEF Joins
<1>6. \A op : Resumed(op) \ {t} \subseteq Resumed(op)'
  BY <1>4, <1>5, StillResumed, ZenonT(60)
<1>7. \A v \in WaitList :
        Range(k'.wait[v]) = Range(k.wait[v]) \cup (IF v = w THEN {t} ELSE {})
  BY DEF Joins
<1>8. KernelWaits(k') /\ k'.lock = k.lock
  BY DEF Joins
<1>9. ASSUME NEW v \in WaitList \ {w}, k.wait[v] = << >> PROVE k'.wait[v] = << >>
  <2>1. Range(k'.wait[v]) = Range(k.wait[v])
    BY <1>7
  <2>2. Range(k.wait[v]) = {}
    BY <1>1, <1>9, WaitersAreThreads
  <2>. QED
    BY <1>8, <2>1, <2>2, WaitersAreThreads
<1>10. ASSUME NEW v \in WaitList, NEW op, Listed(v, op), v = w => c.op = op
       PROVE  Listed(v, op)'
  <2>1. Range(k.wait[v]) \subseteq Thread \ {t}
    BY <1>1, WaitersAreThreads
  <2>2. call'[t] = c
    BY <1>1
  <2>. QED
    BY <1>4, <1>7, <1>10, <2>1, <2>2 DEF Listed
<1>. QED
  BY <1>3, <1>6, <1>8, <1>9, <1>10

\* The same for a caller that waits by rt_ipc_list_suspend.
LEMMA CallerWaits ==
    ASSUME BlockingInv, call = [x \in Thread |-> call[x]],
           NEW t, t = k.cur, t # Idle, pc[t] \notin {"wait", "sleep"}, k.lock = 0,
           NEW w \in WaitList, NEW flag, NEW time \in Int, k' = Block(k, w, t, flag, time),
           Moves(t, "wait"), NEW c, call' = [call EXCEPT ![t] = c]
    PROVE  /\ BlockingInv' /\ k'.lock = k.lock
           /\ \A op : Resumed(op) \ {t} \subseteq Resumed(op)'
           /\ \A v \in WaitList \ {w} : k'.wait[v] # << >> => k.wait[v] # << >>
           /\ \A v \in WaitList : \A op : Listed(v, op) /\ (v = w => c.op = op) => Listed(v, op)'
<1>1. KernelWaits(k) /\ k.stat[t] = READY
  BY CallerWaitsNowhere
<1>2. PICK list : Joins(k, k', w, t, list, time)
  BY <1>1, BlockBlocks, BlocksJoin
<1>. QED
  BY <1>2, CallerJoins

\* An iteration of a loop that wakes waiters with an error.
LEMMA CallerFails ==
    ASSUME BlockingInv, NEW t, t = k.cur, t # Idle, pc[t] \notin {"wait", "sleep"},
           NEW w \in WaitList, NEW h \in Range(k.wait[w]), k' = ResumeWithError(k, h),
           UNCHANGED <<pc, isr, call>>
    PROVE  /\ BlockingInv' /\ OthersStay({}) /\ k'.lock = k.lock /\ k'.cur = k.cur
           /\ \A op : Resumed(op)' \subseteq Resumed(op)
<1>1. /\ KernelWaits(k) /\ k.stat \in [Thread -> Stat]
      /\ k.error \in [Thread -> {EOK, ERROR, ETIMEOUT, EINTR}]
      /\ h \in Thread /\ k.stat[h] = SUSPEND /\ t \in Thread /\ k.stat[t] = READY
  <2>1. KernelWaits(k) /\ KInv(k, {}) /\ t \in Thread /\ k.stat[t] = READY
    BY CallerWaitsNowhere DEF BlockingInv, KernelWaits
  <2>2. h \in Thread /\ k.stat[h] = SUSPEND
    BY <2>1, WaitersAreThreads DEF KernelWaits, WaitsExact
  <2>. QED
    BY <2>1, <2>2, QueueFacts DEF KInv, KernelState
<1>2. Wakes(k, k', h, ERROR) /\ k'.cur = k.cur
  <2>1. k' = rt_thread_resume(WithError(k, h, ERROR), h)
    BY DEF ResumeWithError, WithError
  <2>. QED
    BY <1>1, <2>1, ResumeWakes
<1>3. \A v \in WaitList : Range(k'.wait[v]) \subseteq Range(k.wait[v])
  BY <1>1, <1>2, WokenShrinks
<1>4. /\ KernelWaits(k') /\ k'.lock = k.lock /\ k'.stat[t] = READY /\ k'.error[h] = ERROR
      /\ \A x \in Thread : k.stat[x] = READY => k'.stat[x] = READY /\ k'.error[x] = k.error[x]
      /\ \A x \in Thread \ {h} : k'.stat[x] = k.stat[x] /\ k'.error[x] = k.error[x]
  BY <1>1, <1>2, StatesDiffer DEF Wakes
<1>5. BlockingInv'
  BY <1>1, <1>2, <1>3, <1>4, CallKeeps
<1>6. \A op : Resumed(op) \ {} \subseteq Resumed(op)'
  BY <1>4, StillResumed
<1>7. ERROR # EOK
  BY DEF ERROR, EOK
<1>8. \A op : Resumed(op)' \subseteq Resumed(op)
  BY <1>4, <1>7 DEF Resumed
<1>. QED
  BY <1>2, <1>3, <1>4, <1>5, <1>6, <1>8 DEF OthersStay

\* The clock, sleeps and context switches resume nobody but for his timeout.
LEMMA KernelResumesNobody ==
    ASSUME BlockingInv, BlockingInv', Quiet, call' = call
    PROVE  OthersStay({}) /\ \A op : Resumed(op)' \subseteq Resumed(op)
<1>1. /\ KernelWaits(k) /\ KernelWaits(k') /\ k.stat \in [Thread -> Stat]
      /\ k.error \in [Thread -> {EOK, ERROR, ETIMEOUT, EINTR}]
  <2>1. KernelWaits(k) /\ KernelWaits(k') /\ KInv(k, {})
    BY DEF BlockingInv, KernelWaits
  <2>. QED
    BY <2>1, QueueFacts DEF KInv, KernelState
<1>2. \A x \in Thread : pc[x] \in {"wait", "woken"} <=> pc'[x] \in {"wait", "woken"}
  BY DEF Quiet
<1>3. CASE NobodyLeaves
  <2>1. \A op : Resumed(op) \ {} \subseteq Resumed(op)'
    BY <1>2, <1>3, StillResumed DEF NobodyLeaves
  <2>2. \A op : Resumed(op)' \subseteq Resumed(op)
    BY <1>2, <1>3 DEF NobodyLeaves, Resumed
  <2>. QED
    BY <1>1, <1>3, <2>1, <2>2 DEF NobodyLeaves, OthersStay
<1>4. ASSUME NEW t \in Thread, TimesOut(t)
      PROVE  OthersStay({}) /\ \A op : Resumed(op)' \subseteq Resumed(op)
  <2>1. Wakes(k, k', t, ETIMEOUT) /\ k.stat[t] = SUSPEND
    BY <1>4 DEF TimesOut
  <2>2. \A w \in WaitList : Range(k'.wait[w]) \subseteq Range(k.wait[w])
    BY <1>1, <2>1, WokenShrinks
  <2>3. /\ \A x \in Thread : k.stat[x] = READY => k'.stat[x] = READY /\ k'.error[x] = k.error[x]
        /\ \A x \in Thread \ {t} : k'.stat[x] = k.stat[x] /\ k'.error[x] = k.error[x]
        /\ k'.error[t] = ETIMEOUT
    BY <1>1, <2>1, StatesDiffer DEF Wakes
  <2>4. \A op : Resumed(op) \ {} \subseteq Resumed(op)'
    BY <1>2, <2>3, StillResumed
  <2>5. ETIMEOUT # EOK
    BY DEF ETIMEOUT, EOK
  <2>6. \A op : Resumed(op)' \subseteq Resumed(op)
    BY <1>2, <2>3, <2>5 DEF Resumed
  <2>. QED
    BY <1>1, <2>2, <2>4, <2>6 DEF OthersStay
<1>. QED
  BY <1>3, <1>4 DEF Quiet

\* The head of two lists in a row is in one of them.
LEMMA HeadOfConcat ==
    ASSUME NEW T, NEW s \in Seq(T), NEW r \in Seq(T), s \o r # << >>
    PROVE  Head(s \o r) \in Range(s) \/ Head(s \o r) \in Range(r)
<1>1. /\ s \o r \in Seq(T) /\ Len(s \o r) = Len(s) + Len(r) /\ Len(s) \in Nat /\ Len(r) \in Nat
      /\ \A i \in 1 .. Len(s) + Len(r) :
           (s \o r)[i] = IF i <= Len(s) THEN s[i] ELSE r[i - Len(s)]
  BY ConcatProperties, LenProperties
<1>2. Len(s \o r) >= 1 /\ Head(s \o r) = (s \o r)[1]
  BY <1>1, EmptySeq, HeadTailProperties
<1>3. CASE Len(s) >= 1
  BY <1>1, <1>2, <1>3, LenProperties DEF Range
<1>4. CASE Len(s) = 0
  BY <1>1, <1>2, <1>4, LenProperties DEF Range
<1>. QED
  BY <1>1, <1>3, <1>4

\* Two lists that are empty one after the other are both empty.
LEMMA EmptyConcat ==
    ASSUME NEW T, NEW s \in Seq(T), NEW r \in Seq(T), s \o r = << >>
    PROVE  s = << >> /\ r = << >>
<1>1. Len(s \o r) = Len(s) + Len(r) /\ Len(s) \in Nat /\ Len(r) \in Nat /\ Len(s \o r) = 0
  BY ConcatProperties, LenProperties, EmptySeq
<1>2. Len(s) = 0 /\ Len(r) = 0
  BY <1>1
<1>. QED
  BY <1>2, EmptySeq

-----------------------------------------------------------------------------
(* The waiters of the data queue *)

DqOp(w) == IF w = DqPoppers THEN "rt_data_queue_pop" ELSE "rt_data_queue_push"

\* Whoever is in a list of the queue is in the call that waits there.
DqListed ==
    \A w \in {DqPoppers, DqPushers} : Listed(w, DqOp(w))

\* The scheduler is locked while a thread is in the loops of a reset, and that
\* thread runs until it unlocks it.
DqLock ==
    /\ k.lock # 0 => pc[k.cur] = "wake"
    /\ \A t \in Thread : pc[t] = "wake" => t = k.cur /\ k.lock = 1

\* A pusher and a popper keep the timeout they called with.
DqTimed(c) == c.op \in {DqOp(DqPoppers), DqOp(DqPushers)} => c.arg.timeout \in Int

DqSafe ==
    /\ BlockingInv
    /\ DqInv
    /\ \A t \in Thread : DqTimed(call[t])
    /\ DqLock
    /\ DqListed
    /\ DataQueueInvariant

-----------------------------------------------------------------------------
(* What a step does to the waiters *)

\* The first waiter of a list of the queue was resumed, if there was one.
DqWoke(w, S) == WokeFor(w, DqOp(w), S)

\* The waiters in a list of the data queue are in the call that waits there.
LEMMA DqWaiters ==
    ASSUME DqSafe
    PROVE  /\ KernelWaits(k) /\ call = [x \in Thread |-> call[x]]
           /\ \A w \in {DqPoppers, DqPushers} : w \in WaitList /\ Listed(w, DqOp(w))
  BY DataQueueConstants DEF DqSafe, BlockingInv, DqInv, DqListed

\* A step that leaves the items alone.
LEMMA DqUnmoved ==
    ASSUME DqSafe, OthersStay({}), Items' = Items, dq'.overrun = dq.overrun
    PROVE  DataQueueInvariant'
<1>1. NoLostItem /\ (dq.overrun \/ NoStandoff) /\ DqRing /\ KernelWaits(k)
  BY DqWaiters DEF DqSafe, DataQueueInvariant, DqInv
<1>2. \A w \in {DqPoppers, DqPushers} : k'.wait[w] # << >> => k.wait[w] # << >>
  BY <1>1, DqWaiters, StaysEmpty
<1>3. \A op : Resumed(op) \subseteq Resumed(op)'
  BY DEF OthersStay
<1>4. Items \in Int
  BY <1>1, DqFields DEF DqRing
<1>5. Enough(DqPoppers, "rt_data_queue_pop", Items)
  BY <1>1 DEF NoLostItem, Enough
<1>6. NoLostItem'
  <2>1. \A n \in Int : Enough(DqPoppers, "rt_data_queue_pop", n) =>
                         Enough(DqPoppers, "rt_data_queue_pop", n)'
    BY <1>2, <1>3, EnoughStill
  <2>. QED
    BY <1>4, <1>5, <2>1 DEF NoLostItem, Enough
<1>7. dq'.overrun \/ NoStandoff'
  BY <1>1, <1>2, <1>3 DEF NoStandoff
<1>. QED
  BY <1>6, <1>7 DEF DataQueueInvariant

\* There are a number of items, with a popper resumed for each while others wait.
LEMMA DqEnough ==
    ASSUME DqSafe
    PROVE  Items \in Nat /\ Enough(DqPoppers, "rt_data_queue_pop", Items)
<1>1. NoLostItem /\ Items \in Nat
  BY DqFields, DqSizes DEF DqSafe, DataQueueInvariant, DqInv, DqRing
<1>. QED
  BY <1>1 DEF NoLostItem, Enough

\* A push wakes a popper for its item.
LEMMA DqOneMore ==
    ASSUME DqSafe, NEW S, OthersStay(S), DqWoke(DqPoppers, S),
           S \cap Resumed("rt_data_queue_pop") = {}, Items' \in {0, Items + 1},
           dq'.overrun \/ Items' = Items + 1
    PROVE  DataQueueInvariant'
<1>1. Items \in Nat /\ Enough(DqPoppers, "rt_data_queue_pop", Items)
  BY DqEnough
<1>2. \A n \in Int : Enough(DqPoppers, "rt_data_queue_pop", n) =>
                       Enough(DqPoppers, "rt_data_queue_pop", n + 1)'
  BY DqWaiters, EnoughMore DEF DqWoke, DqOp
<1>3. k'.wait[DqPoppers] # << >> => Items' <= Cardinality(Resumed("rt_data_queue_pop")')
  <2>1. \A n \in Int : Enough(DqPoppers, "rt_data_queue_pop", n) /\ k'.wait[DqPoppers] # << >>
                         => n + 1 <= Cardinality(Resumed("rt_data_queue_pop")')
    BY <1>2 DEF Enough
  <2>2. Cardinality(Resumed("rt_data_queue_pop")') \in Nat
    BY ResumedCounted
  <2>. QED
    BY <1>1, <2>1, <2>2
<1>4. dq'.overrun \/ Items' # 0
  BY <1>1
<1>. QED
  BY <1>3, <1>4 DEF DataQueueInvariant, NoLostItem, NoStandoff

\* A pop takes an item, perhaps the one its caller was resumed for, and wakes a
\* pusher when it was the last one.
LEMMA DqOneLess ==
    ASSUME DqSafe, NEW t, NEW S \in {{}, {t}}, OthersStay(S),
           Items' = 0 => DqWoke(DqPushers, S), Items' = Items - 1
    PROVE  DataQueueInvariant'
<1>1. Items \in Nat /\ Enough(DqPoppers, "rt_data_queue_pop", Items)
  BY DqEnough
<1>2. \A n \in Int : Enough(DqPoppers, "rt_data_queue_pop", n) =>
                       Enough(DqPoppers, "rt_data_queue_pop", n - 1)'
  BY DqWaiters, EnoughLess
<1>3. k'.wait[DqPoppers] # << >> => Items' <= Cardinality(Resumed("rt_data_queue_pop")')
  <2>1. \A n \in Int : Enough(DqPoppers, "rt_data_queue_pop", n) /\ k'.wait[DqPoppers] # << >>
                         => n - 1 <= Cardinality(Resumed("rt_data_queue_pop")')
    BY <1>2 DEF Enough
  <2>. QED
    BY <1>1, <2>1
<1>4. NoStandoff'
  BY DataQueueConstants DEF NoStandoff, DqWoke, WokeFor, DqOp
<1>. QED
  BY <1>3, <1>4 DEF DataQueueInvariant, NoLostItem

-----------------------------------------------------------------------------
(* The steps of the data queue *)

\* A caller in a section of its own holds no lock.
LEMMA DqCaller ==
    ASSUME DqSafe, NEW t \in Thread, t = k.cur, pc[t] \notin {"wait", "sleep", "wake"}
    PROVE  k.lock = 0 /\ \A x \in Thread : pc[x] # "wake"
  BY DEF DqSafe, DqLock

\* The scheduler is not locked after a step that leaves it unlocked and takes
\* nobody to the loops of a reset.
LEMMA DqUnlocked ==
    ASSUME DqSafe, \A x \in Thread : pc[x] # "wake", NEW t \in Thread, NEW at, at # "wake",
           Moves(t, at), k'.lock = 0
    PROVE  DqLock'
  BY DEF DqLock, DqSafe, BlockingInv, Moves

\* The lists of the queue after a step that nobody outside S takes part in.
LEMMA DqStillListed ==
    ASSUME DqSafe, NEW S, OthersStay(S), \A x \in Thread \ S : call'[x] = call[x],
           \A v \in WaitList : Range(k.wait[v]) \cap S = {}
    PROVE  DqListed'
<1>1. \A w \in {DqPoppers, DqPushers} : Listed(w, DqOp(w))'
  BY DqWaiters, StillListed
<1>. QED
  BY <1>1 DEF DqListed

\* A section that resumes the first waiter of w, or nobody.
LEMMA DqResumes ==
    ASSUME DqSafe, NEW t \in Thread, t = k.cur, t # Idle,
           pc[t] \notin {"wait", "sleep", "wake"}, NEW w \in {DqPoppers, DqPushers},
           k' \in {k, WakeFirst(k, w)}, NEW at, at # "wake", Moves(t, at),
           NEW c, call' = [call EXCEPT ![t] = c]
    PROVE  /\ BlockingInv' /\ DqLock' /\ DqListed' /\ OthersStay({t})
           /\ k' = WakeFirst(k, w) => DqWoke(w, {t})
<1>1. /\ BlockingInv /\ KernelWaits(k) /\ k.lock = 0 /\ call = [x \in Thread |-> call[x]]
      /\ w \in WaitList /\ Listed(w, DqOp(w))
      /\ \A x \in Thread : pc[x] # "wake"
  BY DqCaller, DqWaiters DEF DqSafe
<1>2. \A v \in WaitList : Range(k.wait[v]) \cap {t} = {}
  BY <1>1, CallerWaitsNowhere
<1>3. /\ BlockingInv' /\ k'.lock = k.lock /\ OthersStay({t})
      /\ k' = WakeFirst(k, w) => DqWoke(w, {t})
  <2>1. CASE k' = WakeFirst(k, w)
    BY <1>1, <2>1, CallerWakes DEF DqWoke
  <2>2. CASE k' = k /\ k' # WakeFirst(k, w)
    BY <1>1, <2>2, CallerMoves
  <2>. QED
    BY <2>1, <2>2
<1>4. DqLock'
  BY <1>1, <1>3, DqUnlocked
<1>5. DqListed'
  BY <1>1, <1>2, <1>3, DqStillListed
<1>. QED
  BY <1>3, <1>4, <1>5

\* A step that leaves the threads alone.
LEMMA DqIdles ==
    ASSUME DqSafe, UNCHANGED <<k, pc, isr, call>>
    PROVE  BlockingInv' /\ DqLock' /\ DqListed' /\ OthersStay({})
<1>1. \A op : Resumed(op) \ {} \subseteq Resumed(op)'
  BY StillResumed
<1>. QED
  BY <1>1 DEF DqSafe, BlockingInv, CurrentMayRun, DqLock, DqListed, Listed, OthersStay

\* A device that resumes the first waiter of w, or nobody.
LEMMA DqDeviceWakes ==
    ASSUME DqSafe, NEW w \in {DqPoppers, DqPushers}, UNCHANGED <<pc, isr, call>>,
           k' = IF k.wait[w] = << >> THEN k ELSE rt_schedule(rt_ipc_list_resume(k, w))
    PROVE  BlockingInv' /\ DqLock' /\ DqListed' /\ OthersStay({}) /\ DqWoke(w, {})
<1>1. /\ BlockingInv' /\ k'.lock = k.lock /\ (k.lock # 0 => k'.cur = k.cur)
      /\ OthersStay({}) /\ DqWoke(w, {})
  BY DqWaiters, DeviceWakes DEF DqSafe, DqWoke
<1>2. DqLock'
  BY <1>1 DEF DqLock, DqSafe
<1>3. DqListed'
  BY <1>1, DqStillListed
<1>. QED
  BY <1>1, <1>2, <1>3

\* A caller that finds the queue full or empty waits.
LEMMA DqWaits ==
    ASSUME DqSafe, NEW t \in Thread, t = k.cur, t # Idle,
           pc[t] \notin {"wait", "sleep", "wake"}, NEW w \in {DqPoppers, DqPushers},
           NEW c, c.op = DqOp(w), DqTimed(c), DqWait(t, w, c), isr' = isr
    PROVE  /\ BlockingInv' /\ DqLock' /\ DqListed'
           /\ \A op : Resumed(op) \ {t} \subseteq Resumed(op)'
           /\ \A v \in WaitList \ {w} : k'.wait[v] # << >> => k.wait[v] # << >>
<1>1. /\ BlockingInv /\ k.lock = 0 /\ call = [x \in Thread |-> call[x]]
      /\ \A v \in {DqPoppers, DqPushers} : v \in WaitList /\ Listed(v, DqOp(v))
      /\ \A x \in Thread : pc[x] # "wake"
  BY DqCaller, DqWaiters DEF DqSafe
<1>2. /\ k' = Block(k, w, t, FIFO, c.arg.timeout) /\ c.arg.timeout \in Int
      /\ call' = [call EXCEPT ![t] = c] /\ Moves(t, "wait")
  BY DEF DqWait, DqTimed, Goto, Moves
<1>3. /\ BlockingInv' /\ k'.lock = k.lock
      /\ \A op : Resumed(op) \ {t} \subseteq Resumed(op)'
      /\ \A v \in WaitList \ {w} : k'.wait[v] # << >> => k.wait[v] # << >>
      /\ \A v \in WaitList : \A op : Listed(v, op) /\ (v = w => c.op = op) => Listed(v, op)'
  BY <1>1, <1>2, CallerWaits
<1>4. DqLock'
  BY <1>1, <1>2, <1>3, DqUnlocked
<1>5. DqListed'
  BY <1>1, <1>3 DEF DqListed
<1>. QED
  BY <1>3, <1>4, <1>5

\* The loop of rt_data_queue_push.
LEMMA DqPushSafe ==
    ASSUME DqSafe, NEW t \in Thread, t = k.cur, t # Idle,
           pc[t] = "run" \/ (pc[t] = "woken" /\ call[t].op = "rt_data_queue_push"),
           NEW c, c.op = "rt_data_queue_push", DqTimed(c), c.arg.item \in ThreadItem, PushLoop(t, c), isr' = isr
    PROVE  DqSafe'
<1>1. /\ DqInv /\ DqRing /\ DqInv' /\ DqRing'
  <2>1. DqCall(c) /\ DqInv
    BY DEF DqCall, DqSafe
  <2>2. DqInv'
    BY <2>1, DqPushLoop
  <2>. QED
    BY <2>1, <2>2 DEF DqInv
<1>2. /\ pc[t] \notin {"wait", "sleep", "wake"} /\ t \notin Resumed("rt_data_queue_pop")
      /\ DqOp(DqPushers) = "rt_data_queue_push"
  BY DataQueueConstants DEF Resumed, DqOp
<1>3. CASE DqFull
  <2>1. DqWait(t, DqPushers, c)
    BY <1>3 DEF PushLoop
  <2>2. /\ BlockingInv' /\ DqLock' /\ DqListed'
        /\ \A op : Resumed(op) \ {t} \subseteq Resumed(op)'
        /\ \A v \in WaitList \ {DqPushers} : k'.wait[v] # << >> => k.wait[v] # << >>
    BY <1>2, <2>1, DqWaits
  <2>3. call' = [call EXCEPT ![t] = c] /\ Items' = Items
    BY <2>1 DEF DqWait, Items
  <2>4. \A x \in Thread : DqTimed(call'[x])
    BY <2>3 DEF DqSafe, DqInv
  <2>5. Items # 0 /\ Items \in Nat
    <3>1. dq.put_index # dq.get_index
      BY <1>1, <1>3, DqFields, DqSizes DEF DqFull, DqRing
    <3>. QED
      BY <1>1, <3>1, DqFields, DqSizes DEF DqRing
  <2>6. NoLostItem'
    <3>. DEFINE P == Resumed("rt_data_queue_pop")
    <3>1. P \subseteq P' /\ IsFiniteSet(P') /\ Cardinality(P) \in Nat /\ Cardinality(P') \in Nat
      BY <1>2, <2>2, ResumedCounted
    <3>2. Cardinality(P) <= Cardinality(P')
      BY <3>1, FS_Subset
    <3>3. ASSUME k'.wait[DqPoppers] # << >> PROVE Items <= Cardinality(P)
      BY <2>2, <3>3, DataQueueConstants DEF DqSafe, DataQueueInvariant, NoLostItem
    <3>. HIDE DEF P
    <3>4. ASSUME k'.wait[DqPoppers] # << >> PROVE Items' <= Cardinality(P')
      BY <2>3, <2>5, <3>1, <3>2, <3>3, <3>4
    <3>. QED
      BY <3>4 DEF NoLostItem, P
  <2>7. NoStandoff'
    BY <2>3, <2>5 DEF NoStandoff
  <2>. QED
    BY <1>1, <2>2, <2>4, <2>6, <2>7 DEF DqSafe, DataQueueInvariant
<1>4. CASE ~DqFull
  <2>1. /\ PushItem(c.arg.item) /\ k' = WakeFirst(k, DqPoppers)
        /\ call' = [call EXCEPT ![t] = NoCall] /\ Moves(t, AfterWake(DqPoppers))
    BY <1>4 DEF PushLoop, Leave, Goto, Moves
  <2>2. /\ BlockingInv' /\ DqLock' /\ DqListed' /\ OthersStay({t}) /\ DqWoke(DqPoppers, {t})
    <3>1. AfterWake(DqPoppers) # "wake"
      BY DEF AfterWake
    <3>. QED
      BY <1>2, <2>1, <3>1, DqResumes
  <2>3. Items' \in {0, Items + 1} /\ (dq'.overrun \/ Items' = Items + 1)
    <3>1. c.arg.item \in DqItem
      BY DEF DqItem
    <3>. QED
      BY <1>1, <1>4, <2>1, <3>1, DqPushed
  <2>4. DataQueueInvariant'
    BY <1>2, <2>2, <2>3, DqOneMore
  <2>5. \A x \in Thread : DqTimed(call'[x])
    <3>1. DqTimed(NoCall)
      BY DEF DqTimed, NoCall, DqOp
    <3>. QED
      BY <2>1, <3>1 DEF DqSafe, DqInv
  <2>. QED
    BY <1>1, <2>2, <2>4, <2>5 DEF DqSafe
<1>. QED
  BY <1>3, <1>4

\* The loop of rt_data_queue_pop.
LEMMA DqPopSafe ==
    ASSUME DqSafe, NEW t \in Thread, t = k.cur, t # Idle,
           pc[t] = "run" \/ (pc[t] = "woken" /\ call[t].op = "rt_data_queue_pop"),
           NEW c, c.op = "rt_data_queue_pop", DqTimed(c), PopLoop(t, c), isr' = isr
    PROVE  DqSafe'
<1>1. /\ DqInv /\ DqRing /\ DqInv' /\ DqRing'
  <2>1. DqCall(c) /\ DqInv
    BY DEF DqCall, DqSafe
  <2>2. DqInv'
    BY <2>1, DqPopLoop
  <2>. QED
    BY <2>1, <2>2 DEF DqInv
<1>2. /\ pc[t] \notin {"wait", "sleep", "wake"} /\ t \notin Resumed("rt_data_queue_push")
      /\ DqOp(DqPoppers) = "rt_data_queue_pop"
  BY DataQueueConstants DEF Resumed, DqOp
<1>3. CASE DqEmpty
  <2>1. DqWait(t, DqPoppers, c)
    BY <1>3 DEF PopLoop
  <2>2. /\ BlockingInv' /\ DqLock' /\ DqListed'
        /\ \A op : Resumed(op) \ {t} \subseteq Resumed(op)'
        /\ \A v \in WaitList \ {DqPoppers} : k'.wait[v] # << >> => k.wait[v] # << >>
    BY <1>2, <2>1, DqWaits
  <2>3. call' = [call EXCEPT ![t] = c] /\ Items' = Items
    BY <2>1 DEF DqWait, Items
  <2>4. \A x \in Thread : DqTimed(call'[x])
    BY <2>3 DEF DqSafe, DqInv
  <2>5. Items = 0
    BY <1>1, <1>3, DqFields DEF DqEmpty, DqRing
  <2>6. NoLostItem'
    BY <2>3, <2>5, ResumedCounted DEF NoLostItem
  <2>7. dq'.overrun \/ NoStandoff'
    <3>1. /\ dq.overrun \/ NoStandoff
          /\ Resumed("rt_data_queue_push") \subseteq Resumed("rt_data_queue_push")'
      BY <1>2, <2>2 DEF DqSafe, DataQueueInvariant
    <3>2. k'.wait[DqPushers] # << >> => k.wait[DqPushers] # << >>
      BY <2>2, DataQueueConstants
    <3>3. dq' = dq
      BY <2>1 DEF DqWait
    <3>. QED
      BY <2>3, <3>1, <3>2, <3>3 DEF NoStandoff
  <2>. QED
    BY <1>1, <2>2, <2>4, <2>6, <2>7 DEF DqSafe, DataQueueInvariant
<1>4. CASE ~DqEmpty
  <2>. DEFINE at == IF AtMark THEN AfterWake(DqPushers) ELSE "run"
  <2>1. /\ PopItem /\ k' = IF AtMark THEN WakeFirst(k, DqPushers) ELSE k
        /\ call' = [call EXCEPT ![t] = NoCall] /\ Moves(t, at)
    BY <1>4 DEF PopLoop, Leave, Goto, Moves
  <2>2. /\ BlockingInv' /\ DqLock' /\ DqListed' /\ OthersStay({t})
        /\ AtMark => DqWoke(DqPushers, {t})
    <3>1. at # "wake" /\ k' \in {k, WakeFirst(k, DqPushers)}
      BY <2>1 DEF AfterWake
    <3>. HIDE DEF at
    <3>. QED
      BY <1>2, <2>1, <3>1, DqResumes
  <2>3. Items' = Items - 1 /\ (Items' = 0 => AtMark)
    BY <1>1, <1>4, <2>1, DqPopped
  <2>4. DataQueueInvariant'
    BY <2>2, <2>3, DqOneLess
  <2>5. \A x \in Thread : DqTimed(call'[x])
    <3>1. DqTimed(NoCall)
      BY DEF DqTimed, NoCall, DqOp
    <3>. QED
      BY <2>1, <3>1 DEF DqSafe, DqInv
  <2>. QED
    BY <1>1, <2>2, <2>4, <2>5 DEF DqSafe
<1>. QED
  BY <1>3, <1>4

\* Pushes and pops of a device.
LEMMA DqDeviceSafe ==
    ASSUME DqSafe, DevicePush \/ DevicePop
    PROVE  DqSafe'
<1>1. /\ DqInv /\ DqRing /\ DqInv' /\ DqRing' /\ UNCHANGED <<pc, isr, call>>
  <2>1. DqInv /\ DataQueueNext
    BY DEF DqSafe, DataQueueNext
  <2>2. DqInv'
    BY <2>1, DqStep
  <2>. QED
    BY <2>1, <2>2 DEF DqInv, DevicePush, DevicePop
<1>2. \A x \in Thread : DqTimed(call'[x])
  BY <1>1 DEF DqSafe
<1>3. CASE DevicePush
  <2>1. PICK item \in DqItem : PushItem(item)
    BY <1>3 DEF DevicePush, DqItem
  <2>2. /\ ~DqFull
        /\ k' = IF k.wait[DqPoppers] = << >> THEN k
                ELSE rt_schedule(rt_ipc_list_resume(k, DqPoppers))
    BY <1>3 DEF DevicePush
  <2>3. Items' \in {0, Items + 1} /\ (dq'.overrun \/ Items' = Items + 1)
    BY <1>1, <2>1, <2>2, DqPushed
  <2>4. BlockingInv' /\ DqLock' /\ DqListed' /\ OthersStay({}) /\ DqWoke(DqPoppers, {})
    BY <1>1, <2>2, DqDeviceWakes
  <2>5. DataQueueInvariant'
    BY <2>3, <2>4, DqOneMore
  <2>. QED
    BY <1>1, <1>2, <2>4, <2>5 DEF DqSafe
<1>4. CASE DevicePop
  <2>1. PopItem /\ ~DqEmpty
    BY <1>4 DEF DevicePop
  <2>2. Items' = Items - 1 /\ (Items' = 0 => AtMark)
    BY <1>1, <2>1, DqPopped
  <2>3. CASE AtMark
    <3>1. k' = IF k.wait[DqPushers] = << >> THEN k
               ELSE rt_schedule(rt_ipc_list_resume(k, DqPushers))
      BY <1>4, <2>3 DEF DevicePop
    <3>2. BlockingInv' /\ DqLock' /\ DqListed' /\ OthersStay({}) /\ DqWoke(DqPushers, {})
      BY <1>1, <3>1, DqDeviceWakes
    <3>3. DataQueueInvariant'
      BY <2>2, <3>2, DqOneLess
    <3>. QED
      BY <1>1, <1>2, <3>2, <3>3 DEF DqSafe
  <2>4. CASE ~AtMark
    <3>1. k' = k
      BY <1>4, <2>4 DEF DevicePop
    <3>2. BlockingInv' /\ DqLock' /\ DqListed' /\ OthersStay({})
      BY <1>1, <3>1, DqIdles
    <3>3. DataQueueInvariant'
      BY <2>2, <2>4, <3>2, DqOneLess
    <3>. QED
      BY <1>1, <1>2, <3>2, <3>3 DEF DqSafe
  <2>. QED
    BY <2>3, <2>4
<1>. QED
  BY <1>3, <1>4

\* The clock, sleeps and context switches.
LEMMA DqKernelSafe ==
    ASSUME DqSafe, IpcKernelStep, UNCHANGED dq
    PROVE  DqSafe'
<1>1. BlockingInv' /\ Quiet /\ call' = call /\ Items' = Items
  BY BlockingStep DEF DqSafe, IpcKernelStep, Items
<1>2. DqInv' /\ \A x \in Thread : DqTimed(call'[x])
  BY <1>1, DqStays DEF DqSafe, DqInv
<1>3. OthersStay({}) /\ DqListed'
  BY <1>1, KernelResumesNobody, DqStillListed DEF DqSafe
<1>4. DqLock'
  <2>1. \A x \in Thread : pc'[x] = "wake" <=> pc[x] = "wake"
    BY <1>1 DEF Quiet
  <2>2. k.cur \in Thread
    BY QueueFacts DEF KernelWaits, DqSafe, BlockingInv
  <2>. QED
    BY <1>1, <2>1, <2>2 DEF Quiet, DqLock, DqSafe
<1>5. DataQueueInvariant'
  BY <1>1, <1>3, DqUnmoved
<1>. QED
  BY <1>1, <1>2, <1>3, <1>4, <1>5 DEF DqSafe

\* A caller that gives up.
LEMMA DqReturnSafe ==
    ASSUME DqSafe, NEW t \in Thread, t = k.cur, pc[t] = "woken", Failed(t), Return(t),
           UNCHANGED <<isr, dq>>
    PROVE  DqSafe'
<1>1. /\ t # Idle /\ k' = k /\ call' = [call EXCEPT ![t] = NoCall] /\ Moves(t, "run")
  BY DEF DqSafe, BlockingInv, Return, Leave, Goto, Moves
<1>2. BlockingInv' /\ DqLock' /\ DqListed' /\ OthersStay({t})
  BY <1>1, DqResumes
<1>3. OthersStay({})
  <2>1. \A op : t \notin Resumed(op)
    BY DEF Resumed, Failed
  <2>. QED
    BY <1>2, <2>1 DEF OthersStay
<1>4. DataQueueInvariant'
  BY <1>3, DqUnmoved DEF Items
<1>5. DqInv' /\ \A x \in Thread : DqTimed(call'[x])
  <2>1. DqCall(NoCall) /\ DqTimed(NoCall)
    BY DEF DqCall, DqTimed, NoCall, DqOp
  <2>. QED
    BY <1>1, <2>1, DqStays DEF DqSafe, DqInv
<1>. QED
  BY <1>2, <1>4, <1>5 DEF DqSafe

\* A reset locks the scheduler.
LEMMA DqResetSafe ==
    ASSUME DqSafe, NEW t \in Thread, rt_data_queue_reset(t)
    PROVE  DqSafe'
<1>. DEFINE c == NewCall("rt_data_queue_reset", << >>, 0)
<1>1. /\ t = k.cur /\ t # Idle /\ pc[t] = "run" /\ UNCHANGED <<isr, dq>>
      /\ k' = [k EXCEPT !.lock = k.lock + 1]
      /\ call' = [call EXCEPT ![t] = c] /\ Moves(t, "wake")
  BY DEF rt_data_queue_reset, Calls, Executes, Goto, Moves
<1>2. /\ KernelWaits(k) /\ k.lock = 0 /\ call = [x \in Thread |-> call[x]]
      /\ \A w \in WaitList : Range(k.wait[w]) \cap {t} = {}
      /\ \A x \in Thread : pc[x] # "wake"
  BY <1>1, DqCaller, DqWaiters, CallerWaitsNowhere DEF DqSafe
<1>3. LockOnly(k, k') /\ k'.lock = 1
  <2>1. k' = [k EXCEPT !.lock = 1] /\ k \in KernelState
    BY <1>1, <1>2 DEF KernelWaits, KInv
  <2>2. k'.lock = 1
    BY <2>1 DEF KernelState
  <2>. QED
    BY <1>2, <2>1, <2>2, LockSet
<1>4. BlockingInv' /\ OthersStay({t})
  BY <1>1, <1>2, <1>3, CallerMoves DEF DqSafe, LockOnly
<1>5. /\ pc' = [x \in Thread |-> pc'[x]] /\ pc'[t] = "wake"
      /\ \A x \in Thread \ {t} : pc'[x] = pc[x] /\ call'[x] = call[x]
  BY <1>1, <1>2 DEF DqSafe, BlockingInv, Moves
<1>6. DqLock'
  BY <1>1, <1>2, <1>3, <1>5 DEF DqLock, LockOnly
<1>7. OthersStay({}) /\ DqListed'
  <2>1. \A op : t \notin Resumed(op)
    BY <1>1 DEF Resumed
  <2>2. DqListed'
    BY <1>2, <1>4, <1>5, DqStillListed
  <2>. QED
    BY <1>4, <2>1, <2>2 DEF OthersStay
<1>8. DataQueueInvariant'
  BY <1>1, <1>7, DqUnmoved DEF Items
<1>9. DqInv' /\ \A x \in Thread : DqTimed(call'[x])
  <2>1. DqCall(c) /\ DqTimed(c)
    BY DEF DqCall, DqTimed, NewCall, DqOp
  <2>. QED
    BY <1>1, <2>1, DqStays DEF DqSafe, DqInv
<1>. QED
  BY <1>4, <1>6, <1>7, <1>8, <1>9 DEF DqSafe

\* An iteration of the loops of a reset.
LEMMA DqResetWakes ==
    ASSUME DqSafe, NEW t \in Thread, t = k.cur, pc[t] = "wake",
           NEW w \in {DqPoppers, DqPushers}, NEW h \in Range(k.wait[w]),
           k' = ResumeWithError(k, h), UNCHANGED <<pc, isr, call, dq>>
    PROVE  DqSafe'
<1>1. BlockingInv' /\ OthersStay({}) /\ k'.lock = k.lock /\ k'.cur = k.cur
  <2>1. t # Idle /\ w \in WaitList
    BY DataQueueConstants DEF DqSafe, BlockingInv
  <2>. QED
    BY <2>1, CallerFails DEF DqSafe
<1>2. DqListed' /\ DqLock'
  BY <1>1, DqStillListed DEF DqLock, DqSafe
<1>3. DataQueueInvariant'
  BY <1>1, DqUnmoved DEF Items
<1>4. DqInv' /\ \A x \in Thread : DqTimed(call'[x])
  BY DqStays DEF DqSafe, DqInv
<1>. QED
  BY <1>1, <1>2, <1>3, <1>4 DEF DqSafe

\* The end of the loops: the scheduler is unlocked and schedules.
LEMMA DqResetUnlocks ==
    ASSUME DqSafe, NEW t \in Thread, t = k.cur, pc[t] = "wake",
           k' = rt_schedule([k EXCEPT !.lock = @ - 1]), Leave(t, "sched"), UNCHANGED <<isr, dq>>
    PROVE  DqSafe'
<1>. DEFINE v == [k EXCEPT !.lock = 0]
<1>1. /\ KernelWaits(k) /\ k.lock = 1 /\ t # Idle /\ k.stat[t] = READY
      /\ \A w \in WaitList : t \notin Range(k.wait[w])
      /\ \A x \in Thread : pc[x] = "wake" => x = t
  <2>1. k.stat[t] = READY /\ \A w \in WaitList : t \notin Range(k.wait[w])
    BY CallerIsReady DEF DqSafe
  <2>. QED
    BY <2>1 DEF DqSafe, DqLock, BlockingInv
<1>2. LockOnly(k, v) /\ v.lock = 0 /\ k' = rt_schedule(v)
  <2>1. k \in KernelState
    BY <1>1 DEF KernelWaits, KInv
  <2>2. v.lock = 0 /\ v = [k EXCEPT !.lock = k.lock - 1]
    BY <1>1, <2>1 DEF KernelState
  <2>. QED
    BY <1>1, <2>2, LockSet
<1>. HIDE DEF v
<1>3. ContextSwitch(v, k') /\ v.stat[k'.cur] = READY
  BY <1>2, ScheduleWaits DEF LockOnly
<1>4. /\ KernelWaits(k') /\ k'.stat = k.stat /\ k'.error = k.error /\ k'.wait = k.wait
      /\ k'.lock = 0 /\ k'.stat[k'.cur] = READY
  BY <1>2, <1>3 DEF ContextSwitch, LockOnly
<1>5. /\ isr' = isr /\ pc' = [x \in Thread |-> pc'[x]] /\ pc'[t] = "sched"
      /\ call' = [call EXCEPT ![t] = NoCall]
      /\ \A x \in Thread \ {t} : pc'[x] = pc[x] /\ call'[x] = call[x]
  BY DEF DqSafe, DqInv, BlockingInv, Leave, Goto
<1>6. \A w \in WaitList : Range(k.wait[w]) \subseteq Thread \ {t}
  BY <1>1, WaitersAreThreads
<1>7. BlockingInv'
  <2>1. \A w \in WaitList : \A x \in Range(k'.wait[w]) : pc'[x] \in {"wait", "woken"}
    BY <1>4, <1>5, <1>6 DEF DqSafe, BlockingInv
  <2>2. pc'[Idle] = "run"
    BY <1>1, <1>5, KernelConstants DEF DqSafe, BlockingInv
  <2>. QED
    BY <1>4, <1>5, <2>1, <2>2 DEF DqSafe, BlockingInv, CurrentMayRun
<1>8. DqLock'
  BY <1>1, <1>4, <1>5 DEF DqLock
<1>9. OthersStay({}) /\ DqListed'
  <2>1. \A op : Resumed(op) \ {t} \subseteq Resumed(op)'
    BY <1>4, <1>5, StillResumed, ZenonT(60)
  <2>2. \A op : t \notin Resumed(op)
    BY DEF Resumed
  <2>3. OthersStay({t}) /\ \A w \in WaitList : Range(k.wait[w]) \cap {t} = {}
    BY <1>1, <1>4, <2>1 DEF OthersStay
  <2>4. DqListed'
    BY <1>5, <2>3, DqStillListed
  <2>. QED
    BY <2>2, <2>3, <2>4 DEF OthersStay
<1>10. DataQueueInvariant'
  BY <1>9, DqUnmoved DEF Items
<1>11. DqInv' /\ \A x \in Thread : DqTimed(call'[x])
  <2>1. DqCall(NoCall) /\ DqTimed(NoCall)
    BY DEF DqCall, DqTimed, NoCall, DqOp
  <2>. QED
    BY <1>5, <2>1, DqStays DEF DqSafe, DqInv
<1>. QED
  BY <1>7, <1>8, <1>9, <1>10, <1>11 DEF DqSafe

\* The calls of the threads.
LEMMA DqCallSafe ==
    ASSUME DqSafe, NEW t \in Thread, DataQueueCall(t)
    PROVE  DqSafe'
<1>0. Times[t] \subseteq Int /\ pc[Idle] = "run"
  <2>1. HALF_RANGE \in Int
    BY KernelConstants DEF HALF_RANGE
  <2>. QED
    BY <2>1, IpcCallConstants DEF WAITING_FOREVER, DqSafe, BlockingInv
<1>1. CASE rt_data_queue_push(t)
  <2>1. PICK item \in ThreadItem, timeout \in Times[t] :
          PushLoop(t, NewCall("rt_data_queue_push", [item |-> item, timeout |-> timeout], 0))
    BY <1>1 DEF rt_data_queue_push
  <2>. DEFINE c == NewCall("rt_data_queue_push", [item |-> item, timeout |-> timeout], 0)
  <2>2. c.op = "rt_data_queue_push" /\ DqTimed(c) /\ c.arg.item \in ThreadItem /\ PushLoop(t, c)
    BY <1>0, <2>1 DEF DqTimed, NewCall
  <2>. HIDE DEF c
  <2>3. /\ t = k.cur /\ t # Idle /\ pc[t] = "run" /\ isr' = isr
    BY <1>1 DEF rt_data_queue_push, Calls, Executes
  <2>. QED
    BY <2>2, <2>3, DqPushSafe
<1>2. CASE PushResumed(t)
  <2>1. /\ t = k.cur /\ t # Idle /\ pc[t] = "woken" /\ isr' = isr
        /\ call[t].op = "rt_data_queue_push"
    BY <1>0, <1>2 DEF PushResumed, Woken, Continues, Executes
  <2>2. CASE Failed(t)
    BY <1>2, <2>1, <2>2, DqReturnSafe DEF PushResumed
  <2>3. CASE ~Failed(t)
    <3>1. PushLoop(t, call[t])
      BY <1>2, <2>3 DEF PushResumed
    <3>2. DqTimed(call[t]) /\ call[t].arg.item \in ThreadItem
      BY <2>1 DEF DqSafe, DqInv, DqCall
    <3>. QED
      BY <2>1, <3>1, <3>2, DqPushSafe
  <2>. QED
    BY <2>2, <2>3
<1>3. CASE rt_data_queue_pop(t)
  <2>1. PICK timeout \in Times[t] :
          PopLoop(t, NewCall("rt_data_queue_pop", [timeout |-> timeout], 0))
    BY <1>3 DEF rt_data_queue_pop
  <2>. DEFINE c == NewCall("rt_data_queue_pop", [timeout |-> timeout], 0)
  <2>2. c.op = "rt_data_queue_pop" /\ DqTimed(c) /\ PopLoop(t, c)
    BY <1>0, <2>1 DEF DqTimed, NewCall
  <2>. HIDE DEF c
  <2>3. t = k.cur /\ t # Idle /\ pc[t] = "run" /\ isr' = isr
    BY <1>3 DEF rt_data_queue_pop, Calls, Executes
  <2>. QED
    BY <2>2, <2>3, DqPopSafe
<1>4. CASE PopResumed(t)
  <2>1. /\ t = k.cur /\ t # Idle /\ pc[t] = "woken" /\ isr' = isr
        /\ call[t].op = "rt_data_queue_pop"
    BY <1>0, <1>4 DEF PopResumed, Woken, Continues, Executes
  <2>2. CASE Failed(t)
    BY <1>4, <2>1, <2>2, DqReturnSafe DEF PopResumed
  <2>3. CASE ~Failed(t)
    BY <1>4, <2>1, <2>3, DqPopSafe DEF PopResumed, DqSafe
  <2>. QED
    BY <2>2, <2>3
<1>5. CASE rt_data_queue_reset(t)
  BY <1>5, DqResetSafe
<1>6. CASE DqResetStep(t)
  <2>. DEFINE waiters == k.wait[DqPoppers] \o k.wait[DqPushers]
  <2>1. t = k.cur /\ pc[t] = "wake" /\ UNCHANGED <<isr, dq>>
    BY <1>6 DEF DqResetStep, Continues, Executes
  <2>2. k.wait[DqPoppers] \in Seq(Thread) /\ k.wait[DqPushers] \in Seq(Thread)
    BY WaitersAreThreads, DataQueueConstants DEF DqSafe, BlockingInv
  <2>3. CASE waiters # << >>
    <3>1. k' = ResumeWithError(k, Head(waiters)) /\ UNCHANGED <<pc, call, budget>>
      BY <1>6, <2>3 DEF DqResetStep
    <3>2. PICK w \in {DqPoppers, DqPushers} : Head(waiters) \in Range(k.wait[w])
      BY <2>2, <2>3, HeadOfConcat
    <3>. HIDE DEF waiters
    <3>. QED
      BY <2>1, <3>1, <3>2, DqResetWakes
  <2>4. CASE waiters = << >>
    BY <1>6, <2>1, <2>4, DqResetUnlocks DEF DqResetStep
  <2>. QED
    BY <2>3, <2>4
<1>. QED
  BY <1>1, <1>2, <1>3, <1>4, <1>5, <1>6 DEF DataQueueCall

\* No thread sleeps for an item while there is one that nobody was resumed for,
\* even when a push has overrun the ring; and until one does, pushers do not sleep
\* beside an empty queue, whatever the low-water mark: threads and interrupts push
\* and pop, waits end by a timeout, and a reset wakes everybody, timed or not.
THEOREM DataQueueIsSafe == DataQueueSpec => []DataQueueInvariant
<1>1. IpcCallInit /\ DataQueueInit => DqSafe
  <2>. SUFFICES ASSUME IpcCallInit, DataQueueInit PROVE DqSafe
    OBVIOUS
  <2>1. BlockingInv /\ \A w \in WaitList : k.wait[w] = << >>
    BY InitBlocking DEF IpcCallInit
  <2>2. \A w \in {DqPoppers, DqPushers} : w \in WaitList /\ Range(k.wait[w]) = {}
    BY <2>1, WaitersAreThreads, DataQueueConstants DEF BlockingInv
  <2>3. DqInv
    BY DqStarts
  <2>4. k.lock = 0 /\ \A t \in Thread : pc[t] = "run" /\ DqTimed(call[t])
    BY DEF IpcCallInit, BlockingInit, NoCall, DqTimed, DqOp
  <2>5. DqLock /\ DqListed
    BY <2>2, <2>4 DEF DqLock, DqListed, Listed
  <2>6. DataQueueInvariant
    BY <2>1, <2>2 DEF DataQueueInvariant, NoLostItem, NoStandoff
  <2>. QED
    BY <2>1, <2>3, <2>4, <2>5, <2>6 DEF DqSafe
<1>2. DqSafe /\ [DataQueueNext]_dataQueueVars => DqSafe'
  <2>. SUFFICES ASSUME DqSafe, [DataQueueNext]_dataQueueVars
                PROVE  DqSafe'
    OBVIOUS
  <2>1. CASE UNCHANGED dataQueueVars
    <3>1. BlockingInv' /\ DqLock' /\ DqListed' /\ OthersStay({})
      BY <2>1, DqIdles DEF dataQueueVars
    <3>2. DataQueueInvariant'
      BY <2>1, <3>1, DqUnmoved DEF dataQueueVars, Items
    <3>. QED
      BY <2>1, <3>1, <3>2, DqStays DEF dataQueueVars, DqSafe, DqInv
  <2>. QED
    BY <2>1, DqKernelSafe, DqCallSafe, DqDeviceSafe DEF DataQueueNext
<1>3. DqSafe => DataQueueInvariant
  BY DEF DqSafe
<1>. QED
  BY <1>1, <1>2, <1>3, PTL DEF DataQueueSpec

-----------------------------------------------------------------------------
(* The waiters of the mailbox *)

MbOp(w) == IF w = MbReceivers THEN "rt_mb_recv" ELSE "rt_mb_send_wait"

\* Whoever is in a list of the mailbox is in the call that waits there.
MbListed == \A w \in {MbReceivers, MbSenders} : Listed(w, MbOp(w))

\* A detach goes through the receivers first, and leaves none of them in the
\* list: until it is late only calls on a mailbox in use join it.
MbGone == MbDetaching \/ mb.obj = "detached"
MbLeft ==
    /\ \A t \in Thread : call[t].op = "rt_mb_detach" => call[t].arg \in {MbReceivers, MbSenders}
    /\ ~mbLate => \A t \in Thread : call[t].op = "rt_mb_detach" /\ call[t].arg = MbSenders =>
         k.wait[MbReceivers] = << >>

TimeOK(c) == c.time \in Int /\ c.start \in Int

MbSafe ==
    /\ BlockingInv
    /\ MbInv
    /\ k.lock = 0
    /\ \A t \in Thread : TimeOK(call[t])
    /\ MbListed
    /\ MbLeft
    /\ NoLostMail
    /\ NoLostSlot
    /\ DetachedMailboxIsEmpty

\* The rest of a time is a time.
LEMMA RestIsTime ==
    ASSUME BlockingInv, NEW c, TimeOK(c)
    PROVE  Rest(c) \in Int /\ k.tick \in Int
<1>1. TICK_RANGE \in Nat \ {0} /\ k.tick \in Int /\ HALF_RANGE \in Int
  <2>1. k.tick \in Tick
    BY DEF BlockingInv, KernelWaits, KInv, KernelState
  <2>. QED
    BY <2>1, KernelConstants DEF Tick, HALF_RANGE
<1>2. \A x \in Int : x % TICK_RANGE \in Int
  BY <1>1
<1>. QED
  BY <1>1, <1>2 DEF Rest, TickDiff, TimeOK

\* What the steps of the mailbox start from.
LEMMA MbWaiters ==
    ASSUME MbSafe
    PROVE  /\ KernelWaits(k) /\ call = [x \in Thread |-> call[x]] /\ MbTypes
           /\ \A w \in {MbReceivers, MbSenders} : w \in WaitList /\ Listed(w, MbOp(w))
           /\ MbOp(MbReceivers) = "rt_mb_recv" /\ MbOp(MbSenders) = "rt_mb_send_wait"
           /\ MbReceivers # MbSenders
<1>1. MbTypes
  BY MbTypesOK DEF MbSafe, MbInv, MbRing
<1>. QED
  BY <1>1, MailboxConstants DEF MbSafe, BlockingInv, MbInv, MbListed, MbOp

\* The lists of the mailbox after a step that nobody outside S takes part in.
LEMMA MbStillListed ==
    ASSUME MbSafe, NEW S, OthersStay(S), \A x \in Thread \ S : call'[x] = call[x],
           \A v \in WaitList : Range(k.wait[v]) \cap S = {}
    PROVE  MbListed'
<1>1. \A w \in {MbReceivers, MbSenders} : Listed(w, MbOp(w))'
  BY MbWaiters, StillListed
<1>. QED
  BY <1>1 DEF MbListed

\* While somebody waits, enough others were resumed for what there is.
LEMMA MbEnough ==
    ASSUME MbSafe
    PROVE  /\ mb.entry \in Int /\ MbSize - mb.entry \in Int
           /\ Enough(MbReceivers, "rt_mb_recv", mb.entry)
           /\ Enough(MbSenders, "rt_mb_send_wait", MbSize - mb.entry)
  BY MbWaiters DEF MbTypes, MbSafe, NoLostMail, NoLostSlot, Enough

\* A step that leaves the mails alone.
LEMMA MbUnmoved ==
    ASSUME MbSafe, mb'.entry = mb.entry,
           \A w \in {MbReceivers, MbSenders} : k'.wait[w] # << >> => k.wait[w] # << >>,
           \A w \in {MbReceivers, MbSenders} : Resumed(MbOp(w)) \subseteq Resumed(MbOp(w))'
    PROVE  NoLostMail' /\ NoLostSlot'
<1>1. /\ \A n \in Int : Enough(MbReceivers, "rt_mb_recv", n) =>
                          Enough(MbReceivers, "rt_mb_recv", n)'
      /\ \A n \in Int : Enough(MbSenders, "rt_mb_send_wait", n) =>
                          Enough(MbSenders, "rt_mb_send_wait", n)'
  BY MbWaiters, EnoughStill
<1>2. /\ \A n \in Int : Enough(MbReceivers, "rt_mb_recv", n) /\ k'.wait[MbReceivers] # << >>
                          => n <= Cardinality(Resumed("rt_mb_recv")')
      /\ \A n \in Int : Enough(MbSenders, "rt_mb_send_wait", n) /\ k'.wait[MbSenders] # << >>
                          => n <= Cardinality(Resumed("rt_mb_send_wait")')
  BY <1>1 DEF Enough
<1>. QED
  BY <1>2, MbEnough DEF NoLostMail, NoLostSlot

\* A mail that comes in is one for a receiver, who is woken, and takes a slot,
\* perhaps the one its sender was resumed for.
LEMMA MbOneMore ==
    ASSUME MbSafe, NEW t, NEW S \in {{}, {t}}, OthersStay(S), mb'.entry = mb.entry + 1,
           WokeFor(MbReceivers, "rt_mb_recv", S), S \cap Resumed("rt_mb_recv") = {}
    PROVE  NoLostMail' /\ NoLostSlot'
<1>1. /\ \A n \in Int : Enough(MbReceivers, "rt_mb_recv", n) =>
                          Enough(MbReceivers, "rt_mb_recv", n + 1)'
      /\ \A n \in Int : Enough(MbSenders, "rt_mb_send_wait", n) =>
                          Enough(MbSenders, "rt_mb_send_wait", n - 1)'
  BY MbWaiters, EnoughMore, EnoughLess
<1>2. /\ \A n \in Int : Enough(MbReceivers, "rt_mb_recv", n) /\ k'.wait[MbReceivers] # << >>
                          => n + 1 <= Cardinality(Resumed("rt_mb_recv")')
      /\ \A n \in Int : Enough(MbSenders, "rt_mb_send_wait", n) /\ k'.wait[MbSenders] # << >>
                          => n - 1 <= Cardinality(Resumed("rt_mb_send_wait")')
  BY <1>1 DEF Enough
<1>3. MbSize - mb'.entry = (MbSize - mb.entry) - 1
  BY MbWaiters DEF MbTypes
<1>. QED
  BY <1>2, <1>3, MbEnough DEF NoLostMail, NoLostSlot

\* A mail that goes out leaves a slot for a sender, who is woken.
LEMMA MbOneLess ==
    ASSUME MbSafe, NEW t, NEW S \in {{}, {t}}, OthersStay(S), mb'.entry = mb.entry - 1,
           WokeFor(MbSenders, "rt_mb_send_wait", S), S \cap Resumed("rt_mb_send_wait") = {}
    PROVE  NoLostMail' /\ NoLostSlot'
<1>1. /\ \A n \in Int : Enough(MbReceivers, "rt_mb_recv", n) =>
                          Enough(MbReceivers, "rt_mb_recv", n - 1)'
      /\ \A n \in Int : Enough(MbSenders, "rt_mb_send_wait", n) =>
                          Enough(MbSenders, "rt_mb_send_wait", n + 1)'
  BY MbWaiters, EnoughMore, EnoughLess
<1>2. /\ \A n \in Int : Enough(MbReceivers, "rt_mb_recv", n) /\ k'.wait[MbReceivers] # << >>
                          => n - 1 <= Cardinality(Resumed("rt_mb_recv")')
      /\ \A n \in Int : Enough(MbSenders, "rt_mb_send_wait", n) /\ k'.wait[MbSenders] # << >>
                          => n + 1 <= Cardinality(Resumed("rt_mb_send_wait")')
  BY <1>1 DEF Enough
<1>3. MbSize - mb'.entry = (MbSize - mb.entry) + 1
  BY MbWaiters DEF MbTypes
<1>. QED
  BY <1>2, <1>3, MbEnough DEF NoLostMail, NoLostSlot

\* A mail goes in, or out, of a mailbox that stays what it was.
LEMMA MbEntry ==
    ASSUME MbSafe
    PROVE  /\ \A mail : Deposit(mail) => mb'.entry = mb.entry + 1 /\ mb'.obj = mb.obj
           /\ Fetch => mb'.entry = mb.entry - 1 /\ mb'.obj = mb.obj
           /\ mb' = mb => mb'.entry = mb.entry /\ mb'.obj = mb.obj
<1>1. mb = [pool |-> mb.pool, in_offset |-> mb.in_offset, out_offset |-> mb.out_offset,
            entry |-> mb.entry, obj |-> mb.obj]
  BY MbWaiters DEF MbTypes
<1>2. ASSUME NEW mail, Deposit(mail) PROVE mb'.entry = mb.entry + 1 /\ mb'.obj = mb.obj
  BY <1>1, <1>2 DEF Deposit
<1>3. ASSUME Fetch PROVE mb'.entry = mb.entry - 1 /\ mb'.obj = mb.obj
  BY <1>1, <1>3 DEF Fetch
<1>. QED
  BY <1>2, <1>3

\* Nobody begins to detach a mailbox that is in use, or it is late.
LEMMA MbStaysInUse ==
    ASSUME MbSafe, ~MbGone \/ mbLate', mb'.obj = mb.obj, NEW t, NEW c, c.op # "rt_mb_detach",
           call' = call \/ call' = [call EXCEPT ![t] = c]
    PROVE  MbLeft' /\ DetachedMailboxIsEmpty'
<1>1. \A x \in Thread : call'[x].op = "rt_mb_detach" => call'[x] = call[x]
  BY MbWaiters
<1>2. \A x \in Thread : call'[x].op = "rt_mb_detach" => call'[x].arg \in {MbReceivers, MbSenders}
  BY <1>1 DEF MbSafe, MbLeft
<1>3. CASE mbLate'
  BY <1>2, <1>3 DEF MbLeft, DetachedMailboxIsEmpty
<1>4. CASE ~MbGone
  <2>1. \A x \in Thread : call'[x].op # "rt_mb_detach"
    BY <1>1, <1>4 DEF MbGone, MbDetaching
  <2>2. mb'.obj # "detached"
    BY <1>4 DEF MbGone
  <2>. QED
    BY <2>1, <2>2 DEF MbLeft, DetachedMailboxIsEmpty
<1>. QED
  BY <1>3, <1>4

\* A step after which the lists hold nobody who was not there, and nobody is
\* further in a detach.
LEMMA MbLeavesNobody ==
    ASSUME MbSafe, mb'.obj = mb.obj, mbLate => mbLate',
           \A w \in {MbReceivers, MbSenders} : k'.wait[w] # << >> => k.wait[w] # << >>,
           \A x \in Thread : call'[x].op = "rt_mb_detach" => call'[x] = call[x]
    PROVE  MbLeft' /\ DetachedMailboxIsEmpty'
<1>1. \A x \in Thread : call'[x].op = "rt_mb_detach" =>
        call[x].op = "rt_mb_detach" /\ call'[x].arg = call[x].arg
  BY DEF MbLeft
<1>. QED
  BY <1>1 DEF MbSafe, MbLeft, DetachedMailboxIsEmpty

-----------------------------------------------------------------------------
(* The steps of the mailbox *)

\* The call records after a step of thread t.
LEMMA MbTimes ==
    ASSUME MbSafe, NEW t, NEW c, TimeOK(c), call' = [call EXCEPT ![t] = c]
    PROVE  \A x \in Thread : TimeOK(call'[x])
  BY MbWaiters DEF MbSafe

\* A thread outside its calls has no time.
LEMMA NoTime == TimeOK(NoCall) /\ NoCall.op = "none"
  BY DEF TimeOK, NoCall

\* A caller that finds the mailbox full or empty waits.
LEMMA MbCallerWaits ==
    ASSUME MbSafe, ~MbGone \/ mbLate', NEW t, t = k.cur, t # Idle,
           pc[t] \notin {"wait", "sleep"},
           NEW w \in {MbReceivers, MbSenders}, NEW c, c.op = MbOp(w), MbCall(c), TimeOK(c),
           WaitOn(t, w, MbFlag, c), isr' = isr, mb' = mb
    PROVE  /\ BlockingInv' /\ k'.lock = 0 /\ MbListed' /\ (\A x \in Thread : TimeOK(call'[x]))
           /\ MbLeft' /\ DetachedMailboxIsEmpty'
           /\ \A op : Resumed(op) \ {t} \subseteq Resumed(op)'
           /\ \A v \in {MbReceivers, MbSenders} \ {w} : k'.wait[v] # << >> => k.wait[v] # << >>
<1>. DEFINE d == [c EXCEPT !.start = IF c.time > 0 THEN k.tick ELSE 0]
<1>1. /\ d.op = MbOp(w) /\ TimeOK(d) /\ d.op # "rt_mb_detach"
      /\ call' = [call EXCEPT ![t] = d]
  <2>1. d.op = c.op /\ d.time = c.time /\ d.start \in {k.tick, 0}
    BY DEF MbCall
  <2>2. k.tick \in Int
    BY RestIsTime DEF MbSafe
  <2>. QED
    BY <2>1, <2>2 DEF TimeOK, MbOp, WaitOn
<1>2. k' = Block(k, w, t, MbFlag, c.time) /\ Moves(t, "wait") /\ c.time \in Int
  BY DEF WaitOn, Goto, Moves, TimeOK
<1>. HIDE DEF d
<1>3. /\ BlockingInv /\ k.lock = 0 /\ call = [x \in Thread |-> call[x]]
      /\ \A v \in {MbReceivers, MbSenders} : v \in WaitList /\ Listed(v, MbOp(v))
  BY MbWaiters DEF MbSafe
<1>4. /\ BlockingInv' /\ k'.lock = k.lock
      /\ \A op : Resumed(op) \ {t} \subseteq Resumed(op)'
      /\ \A v \in WaitList \ {w} : k'.wait[v] # << >> => k.wait[v] # << >>
      /\ \A v \in WaitList : \A op : Listed(v, op) /\ (v = w => d.op = op) => Listed(v, op)'
  BY <1>1, <1>2, <1>3, CallerWaits
<1>5. MbListed'
  BY <1>1, <1>3, <1>4 DEF MbListed
<1>6. MbLeft' /\ DetachedMailboxIsEmpty'
  BY <1>1, MbStaysInUse, MbEntry
<1>7. \A x \in Thread : TimeOK(call'[x])
  BY <1>1, MbTimes
<1>. QED
  BY <1>3, <1>4, <1>5, <1>6, <1>7

\* A caller that leaves without resuming anybody: a failure, or a test that fails
\* when no time is left.
LEMMA MbLeavesAlone ==
    ASSUME MbSafe, NEW t, t = k.cur, t # Idle, pc[t] \notin {"wait", "sleep"},
           k' = k \/ k' = [k EXCEPT !.error[t] = ETIMEOUT], Leave(t, "run"), isr' = isr, mb' = mb,
           mbLate => mbLate'
    PROVE  /\ BlockingInv' /\ k'.lock = 0 /\ MbListed' /\ (\A x \in Thread : TimeOK(call'[x]))
           /\ MbLeft' /\ DetachedMailboxIsEmpty'
           /\ OthersStay({t}) /\ k'.wait = k.wait
<1>1. /\ BlockingInv /\ KernelWaits(k) /\ t \in Thread /\ call = [x \in Thread |-> call[x]]
      /\ \A v \in WaitList : Range(k.wait[v]) \cap {t} = {}
  BY MbWaiters, CallerWaitsNowhere DEF MbSafe
<1>2. Moves(t, "run") /\ call' = [call EXCEPT ![t] = NoCall]
  BY DEF Leave, Goto, Moves
<1>3. /\ KernelWaits(k') /\ k'.stat = k.stat /\ k'.wait = k.wait /\ k'.cur = k.cur
      /\ k'.lock = k.lock /\ \A x \in Thread \ {t} : k'.error[x] = k.error[x]
  <2>1. CASE k' = k
    BY <1>1, <2>1
  <2>2. CASE k' = [k EXCEPT !.error[t] = ETIMEOUT]
    <3>1. ErrorOnly(k, k', t, ETIMEOUT)
      <4>1. KInv(k, {}) /\ k' = WithError(k, t, ETIMEOUT)
        BY <1>1, <2>2 DEF KernelWaits, WithError
      <4>. QED
        BY <1>1, <4>1, ErrorSet
    <3>2. \A x \in Thread \ {t} : k'.error[x] = k.error[x]
      BY <1>1, <3>1 DEF ErrorOnly, KernelWaits, KInv, KernelState
    <3>3. WaitsExact(k')
      <4>1. \A w \in WaitList : \A x \in Range(k.wait[w]) : x \in Thread \ {t}
        BY <1>1, WaitersAreThreads
      <4>. QED
        BY <1>1, <3>1, <3>2, <4>1 DEF ErrorOnly, KernelWaits, WaitsExact
    <3>. QED
      BY <1>1, <3>1, <3>2, <3>3 DEF ErrorOnly, KernelWaits
  <2>. QED
    BY <2>1, <2>2
<1>4. BlockingInv' /\ OthersStay({t})
  BY <1>1, <1>2, <1>3, CallerMoves
<1>5. \A x \in Thread \ {t} : pc'[x] = pc[x] /\ call'[x] = call[x]
  BY <1>1, <1>2 DEF BlockingInv, Moves
<1>6. MbListed'
  BY <1>1, <1>4, <1>5, MbStillListed
<1>7. MbLeft' /\ DetachedMailboxIsEmpty'
  <2>1. call'[t] = NoCall
    BY <1>1, <1>2
  <2>2. \A x \in Thread : call'[x].op = "rt_mb_detach" => call'[x] = call[x]
    BY <1>5, <2>1, NoTime
  <2>. QED
    BY <1>3, <2>2, MbLeavesNobody
<1>8. \A x \in Thread : TimeOK(call'[x])
  BY <1>2, MbTimes, NoTime
<1>. QED
  BY <1>3, <1>4, <1>6, <1>7, <1>8 DEF MbSafe

\* A caller that resumes the first waiter of w and leaves.
LEMMA MbCallerWakes ==
    ASSUME MbSafe, ~MbGone \/ mbLate', NEW t, t = k.cur, t # Idle,
           pc[t] \notin {"wait", "sleep"},
           NEW w \in {MbReceivers, MbSenders}, k' = WakeFirst(k, w),
           Leave(t, AfterWake(w)), isr' = isr, mb'.obj = mb.obj
    PROVE  /\ BlockingInv' /\ k'.lock = 0 /\ MbListed' /\ (\A x \in Thread : TimeOK(call'[x]))
           /\ MbLeft' /\ DetachedMailboxIsEmpty'
           /\ OthersStay({t}) /\ WokeFor(w, MbOp(w), {t})
<1>1. /\ BlockingInv /\ t \in Thread /\ call = [x \in Thread |-> call[x]]
      /\ w \in WaitList /\ Listed(w, MbOp(w)) /\ k.lock = 0
      /\ \A v \in WaitList : Range(k.wait[v]) \cap {t} = {}
  BY MbWaiters, CallerWaitsNowhere DEF MbSafe
<1>2. Moves(t, AfterWake(w)) /\ call' = [call EXCEPT ![t] = NoCall]
  BY DEF Leave, Goto, Moves
<1>3. BlockingInv' /\ k'.lock = k.lock /\ OthersStay({t}) /\ WokeFor(w, MbOp(w), {t})
  BY <1>1, <1>2, CallerWakes
<1>4. MbListed'
  BY <1>1, <1>2, <1>3, MbStillListed
<1>5. MbLeft' /\ DetachedMailboxIsEmpty'
  BY <1>2, MbStaysInUse, NoTime
<1>6. \A x \in Thread : TimeOK(call'[x])
  BY <1>2, MbTimes, NoTime
<1>. QED
  BY <1>1, <1>3, <1>4, <1>5, <1>6

\* The loop of rt_mb_send_wait.
LEMMA MbSendSafe ==
    ASSUME MbSafe, ~MbGone \/ mbLate', mbLate => mbLate',
           NEW t \in Thread, t = k.cur, t # Idle,
           pc[t] = "run" \/ (pc[t] = "woken" /\ call[t].op = "rt_mb_send_wait"),
           NEW c, MbCall(c), c.op = "rt_mb_send_wait", TimeOK(c), c.arg \in ThreadMail,
           SendLoop(t, c), isr' = isr
    PROVE  MbSafe'
<1>1. MbInv'
  BY MbSendLoop DEF MbSafe
<1>2. pc[t] \notin {"wait", "sleep"} /\ {t} \cap Resumed("rt_mb_recv") = {}
  BY DEF Resumed
<1>3. MbOp(MbReceivers) = "rt_mb_recv" /\ MbOp(MbSenders) = "rt_mb_send_wait"
  BY MbWaiters
<1>4. CASE MbFull
  <2>1. /\ BlockingInv' /\ k'.lock = 0 /\ MbListed' /\ (\A x \in Thread : TimeOK(call'[x]))
        /\ MbLeft' /\ DetachedMailboxIsEmpty' /\ mb' = mb
        /\ Resumed("rt_mb_recv") \subseteq Resumed("rt_mb_recv")'
        /\ k'.wait[MbReceivers] # << >> => k.wait[MbReceivers] # << >>
    <3>1. CASE c.time = 0
      <4>1. k' = k /\ Leave(t, "run") /\ mb' = mb
        BY <1>4, <3>1 DEF SendLoop, Return
      <4>. QED
        BY <1>2, <4>1, MbLeavesAlone DEF OthersStay
    <3>2. CASE c.time # 0
      <4>1. WaitOn(t, MbSenders, MbFlag, c) /\ mb' = mb
        BY <1>4, <3>2 DEF SendLoop
      <4>. QED
        BY <1>2, <1>3, <4>1, MbCallerWaits, MbWaiters
    <3>. QED
      BY <3>1, <3>2
  <2>2. MbSize - mb'.entry = 0
    BY <1>4, <2>1, MbWaiters DEF MbFull, MbTypes
  <2>3. NoLostSlot'
    BY <2>2, ResumedCounted DEF NoLostSlot
  <2>4. NoLostMail'
    <3>1. \A n \in Int : Enough(MbReceivers, "rt_mb_recv", n) =>
                           Enough(MbReceivers, "rt_mb_recv", n)'
      BY <2>1, EnoughStill
    <3>. QED
      BY <2>1, <3>1, MbEnough DEF NoLostMail, Enough
  <2>. QED
    BY <1>1, <2>1, <2>3, <2>4 DEF MbSafe
<1>5. CASE ~MbFull
  <2>1. Deposit(c.arg) /\ k' = WakeFirst(k, MbReceivers) /\ Leave(t, AfterWake(MbReceivers))
    BY <1>5 DEF SendLoop
  <2>2. mb'.entry = mb.entry + 1 /\ mb'.obj = mb.obj
    BY <2>1, MbEntry
  <2>3. /\ BlockingInv' /\ k'.lock = 0 /\ MbListed' /\ (\A x \in Thread : TimeOK(call'[x]))
        /\ MbLeft' /\ DetachedMailboxIsEmpty'
        /\ OthersStay({t}) /\ WokeFor(MbReceivers, "rt_mb_recv", {t})
    BY <1>2, <1>3, <2>1, <2>2, MbCallerWakes
  <2>4. NoLostMail' /\ NoLostSlot'
    BY <1>2, <2>2, <2>3, MbOneMore
  <2>. QED
    BY <1>1, <2>3, <2>4 DEF MbSafe
<1>. QED
  BY <1>4, <1>5

\* The loop of rt_mb_recv.
LEMMA MbRecvSafe ==
    ASSUME MbSafe, ~MbGone \/ mbLate', mbLate => mbLate',
           NEW t \in Thread, t = k.cur, t # Idle,
           pc[t] = "run" \/ (pc[t] = "woken" /\ call[t].op = "rt_mb_recv"),
           NEW c, MbCall(c), c.op = "rt_mb_recv", TimeOK(c), RecvLoop(t, c), isr' = isr
    PROVE  MbSafe'
<1>1. MbInv'
  BY MbRecvLoop DEF MbSafe
<1>2. pc[t] \notin {"wait", "sleep"} /\ {t} \cap Resumed("rt_mb_send_wait") = {}
  BY DEF Resumed
<1>3. MbOp(MbReceivers) = "rt_mb_recv" /\ MbOp(MbSenders) = "rt_mb_send_wait"
  BY MbWaiters
<1>4. CASE MbEmpty
  <2>1. /\ BlockingInv' /\ k'.lock = 0 /\ MbListed' /\ (\A x \in Thread : TimeOK(call'[x]))
        /\ MbLeft' /\ DetachedMailboxIsEmpty' /\ mb' = mb
        /\ Resumed("rt_mb_send_wait") \subseteq Resumed("rt_mb_send_wait")'
        /\ k'.wait[MbSenders] # << >> => k.wait[MbSenders] # << >>
    <3>1. CASE c.time = 0
      <4>1. k' = [k EXCEPT !.error[t] = ETIMEOUT] /\ Leave(t, "run") /\ mb' = mb
        BY <1>4, <3>1 DEF RecvLoop
      <4>. QED
        BY <1>2, <4>1, MbLeavesAlone DEF OthersStay
    <3>2. CASE c.time # 0
      <4>1. WaitOn(t, MbReceivers, MbFlag, c) /\ mb' = mb
        BY <1>4, <3>2 DEF RecvLoop
      <4>. QED
        BY <1>2, <1>3, <4>1, MbCallerWaits, MbWaiters
    <3>. QED
      BY <3>1, <3>2
  <2>2. mb'.entry = 0
    BY <1>4, <2>1 DEF MbEmpty
  <2>3. NoLostMail'
    BY <2>2, ResumedCounted DEF NoLostMail
  <2>4. NoLostSlot'
    <3>1. \A n \in Int : Enough(MbSenders, "rt_mb_send_wait", n) =>
                           Enough(MbSenders, "rt_mb_send_wait", n)'
      BY <2>1, EnoughStill
    <3>. QED
      BY <2>1, <3>1, MbEnough DEF NoLostSlot, Enough
  <2>. QED
    BY <1>1, <2>1, <2>3, <2>4 DEF MbSafe
<1>5. CASE ~MbEmpty
  <2>1. Fetch /\ k' = WakeFirst(k, MbSenders) /\ Leave(t, AfterWake(MbSenders))
    BY <1>5 DEF RecvLoop
  <2>2. mb'.entry = mb.entry - 1 /\ mb'.obj = mb.obj
    BY <2>1, MbEntry
  <2>3. /\ BlockingInv' /\ k'.lock = 0 /\ MbListed' /\ (\A x \in Thread : TimeOK(call'[x]))
        /\ MbLeft' /\ DetachedMailboxIsEmpty'
        /\ OthersStay({t}) /\ WokeFor(MbSenders, "rt_mb_send_wait", {t})
    BY <1>2, <1>3, <2>1, <2>2, MbCallerWakes
  <2>4. NoLostMail' /\ NoLostSlot'
    BY <1>2, <2>2, <2>3, MbOneLess
  <2>. QED
    BY <1>1, <2>3, <2>4 DEF MbSafe
<1>. QED
  BY <1>4, <1>5

\* A caller that gives up, because its wait failed.
LEMMA MbReturnSafe ==
    ASSUME MbSafe, MbInv', NEW t \in Thread, t = k.cur, t # Idle, pc[t] = "woken", Failed(t),
           Return(t), isr' = isr, mb' = mb, mbLate' = mbLate
    PROVE  MbSafe'
<1>1. /\ BlockingInv' /\ k'.lock = 0 /\ MbListed' /\ (\A x \in Thread : TimeOK(call'[x]))
      /\ MbLeft' /\ DetachedMailboxIsEmpty' /\ OthersStay({t}) /\ k'.wait = k.wait
  BY MbLeavesAlone DEF Return
<1>2. \A op : Resumed(op) \subseteq Resumed(op)'
  <2>1. \A op : t \notin Resumed(op)
    BY DEF Resumed, Failed
  <2>. QED
    BY <1>1, <2>1 DEF OthersStay
<1>3. NoLostMail' /\ NoLostSlot'
  BY <1>1, <1>2, MbUnmoved
<1>. QED
  BY <1>1, <1>3 DEF MbSafe

\* A reset wakes everybody.
LEMMA MbControlSafe ==
    ASSUME MbSafe, MbInv', NEW t \in Thread, rt_mb_control(t)
    PROVE  MbSafe'
<1>. DEFINE u == rt_ipc_list_resume_all(k, MbReceivers)
<1>1. /\ t = k.cur /\ t # Idle /\ pc[t] = "run" /\ ~MbGone
      /\ k' = rt_ipc_list_resume_all(u, MbSenders)
      /\ mb' = MbReset /\ Moves(t, "sched") /\ call' = call
  BY DEF rt_mb_control, Calls, Executes, Goto, Moves, MbMayUse, MbGone, MbSafe, MbInv, MbRing,
         MailboxTypeOK
<1>2. /\ BlockingInv /\ KernelWaits(k) /\ k.stat[t] = READY /\ k.lock = 0
      /\ MbReceivers \in WaitList /\ MbSenders \in WaitList /\ MbReceivers # MbSenders
      /\ \A v \in WaitList : t \notin Range(k.wait[v])
  BY <1>1, MbWaiters, CallerIsReady DEF MbSafe
<1>3. WokenAll(k, u, MbReceivers, Range(k.wait[MbReceivers])) /\ u.wait[MbReceivers] = << >>
  BY <1>2, ResumeAllWakes
<1>. HIDE DEF u
<1>4. WokenAll(u, k', MbSenders, Range(u.wait[MbSenders])) /\ k'.wait[MbSenders] = << >>
  <2>1. KernelWaits(u)
    BY <1>3 DEF WokenAll
  <2>. QED
    BY <1>1, <1>2, <2>1, ResumeAllWakes
<1>5. /\ KernelWaits(k') /\ k'.cur = k.cur /\ k'.lock = k.lock
      /\ k'.wait[MbReceivers] = << >>
      /\ \A v \in WaitList : Range(k'.wait[v]) \subseteq Range(k.wait[v])
  BY <1>2, <1>3, <1>4 DEF WokenAll
<1>6. k'.stat[t] = READY
  BY <1>2, <1>3, <1>4 DEF WokenAll
<1>7. BlockingInv'
  BY <1>1, <1>2, <1>5, <1>6, CallKeeps
<1>8. MbListed'
  BY <1>4, <1>5, WaitersAreThreads, MbWaiters DEF MbListed, Listed
<1>9. mb'.obj = mb.obj
  BY <1>1, MbWaiters DEF MbReset, MbTypes
<1>10. MbLeft' /\ DetachedMailboxIsEmpty'
  BY <1>1, <1>9, MbStaysInUse, NoTime
<1>11. NoLostMail' /\ NoLostSlot'
  BY <1>4, <1>5 DEF NoLostMail, NoLostSlot
<1>. QED
  BY <1>1, <1>2, <1>5, <1>7, <1>8, <1>10, <1>11 DEF MbSafe

\* A detach begins.
LEMMA MbDetachSafe ==
    ASSUME MbSafe, MbInv', NEW t \in Thread, rt_mb_detach(t)
    PROVE  MbSafe'
<1>. DEFINE c == NewCall("rt_mb_detach", MbReceivers, 0)
<1>1. /\ t = k.cur /\ t # Idle /\ pc[t] = "run" /\ UNCHANGED <<k, isr, mb, mbLate>> /\ ~MbGone
      /\ Moves(t, "wake") /\ call' = [call EXCEPT ![t] = c]
      /\ c.op = "rt_mb_detach" /\ c.arg = MbReceivers /\ TimeOK(c)
  BY DEF rt_mb_detach, Calls, Executes, Goto, Moves, NewCall, TimeOK, MbMayUse, MbGone
<1>. HIDE DEF c
<1>2. /\ BlockingInv /\ KernelWaits(k) /\ call = [x \in Thread |-> call[x]]
      /\ \A v \in WaitList : Range(k.wait[v]) \cap {t} = {}
      /\ MbReceivers # MbSenders
  BY <1>1, MbWaiters, CallerWaitsNowhere DEF MbSafe
<1>3. BlockingInv' /\ OthersStay({t})
  BY <1>1, <1>2, CallerMoves
<1>4. /\ \A x \in Thread \ {t} : pc'[x] = pc[x] /\ call'[x] = call[x]
      /\ pc'[t] = "wake" /\ call'[t] = c
  BY <1>1, <1>2 DEF BlockingInv, Moves
<1>5. MbListed'
  BY <1>2, <1>3, <1>4, MbStillListed
<1>6. MbLeft' /\ DetachedMailboxIsEmpty'
  <2>1. \A x \in Thread : call'[x].op = "rt_mb_detach" => x = t
    BY <1>1, <1>4 DEF MbGone, MbDetaching
  <2>2. mb'.obj # "detached"
    BY <1>1 DEF MbGone
  <2>. QED
    BY <1>1, <1>2, <1>4, <2>1, <2>2 DEF MbLeft, DetachedMailboxIsEmpty
<1>7. \A op : Resumed(op) \subseteq Resumed(op)'
  <2>1. \A op : t \notin Resumed(op)
    BY <1>1 DEF Resumed
  <2>. QED
    BY <1>3, <2>1 DEF OthersStay
<1>8. NoLostMail' /\ NoLostSlot'
  BY <1>1, <1>7, MbUnmoved
<1>9. \A x \in Thread : TimeOK(call'[x])
  BY <1>1, MbTimes
<1>. QED
  BY <1>1, <1>3, <1>5, <1>6, <1>8, <1>9 DEF MbSafe

\* A detach wakes one waiter after the other with an error.
LEMMA MbDetachWakes ==
    ASSUME MbSafe, MbInv', NEW t, t = k.cur, t # Idle, pc[t] = "wake",
           NEW v \in {MbReceivers, MbSenders}, k.wait[v] # << >>,
           k' = ResumeWithError(k, Head(k.wait[v])), UNCHANGED <<pc, isr, call, mb, mbLate>>
    PROVE  MbSafe'
<1>1. v \in WaitList /\ Head(k.wait[v]) \in Range(k.wait[v])
  <2>1. v \in WaitList /\ k.wait[v] \in Seq(Thread)
    BY WaitersAreThreads, MbWaiters
  <2>. QED
    BY <2>1, HeadTailProperties, EmptySeq, LenProperties DEF Range
<1>2. /\ BlockingInv' /\ OthersStay({}) /\ k'.lock = k.lock
      /\ \A op : Resumed(op)' \subseteq Resumed(op)
  <2>1. /\ BlockingInv /\ call = [x \in Thread |-> call[x]]
        /\ k' = ResumeWithError(k, Head(k.wait[v])) /\ UNCHANGED <<pc, isr, call>>
    BY MbWaiters DEF MbSafe
  <2>. QED
    BY <1>1, <2>1, CallerFails
<1>3. MbListed'
  BY <1>2, MbStillListed
<1>4. \A w \in {MbReceivers, MbSenders} : k'.wait[w] # << >> => k.wait[w] # << >>
  BY <1>2, MbWaiters, StaysEmpty
<1>5. NoLostMail' /\ NoLostSlot'
  BY <1>2, <1>4, MbUnmoved DEF OthersStay
<1>6. MbLeft' /\ DetachedMailboxIsEmpty'
  BY <1>4, MbLeavesNobody
<1>. QED
  BY <1>2, <1>3, <1>5, <1>6 DEF MbSafe

\* It goes on from the receivers to the senders.
LEMMA MbDetachTurns ==
    ASSUME MbSafe, MbInv', NEW t \in Thread, call[t].op = "rt_mb_detach",
           k.wait[MbReceivers] = << >>, call' = [call EXCEPT ![t].arg = MbSenders],
           pc[t] = "wake", UNCHANGED <<k, pc, isr, mb, mbLate>>
    PROVE  MbSafe'
<1>1. /\ BlockingInv /\ KernelWaits(k) /\ call = [x \in Thread |-> call[x]]
      /\ MbCall(call[t]) /\ TimeOK(call[t])
  BY MbWaiters DEF MbSafe, MbInv
<1>. DEFINE c == [call[t] EXCEPT !.arg = MbSenders]
<1>2. /\ c.op = "rt_mb_detach" /\ c.arg = MbSenders /\ TimeOK(c)
      /\ call' = [call EXCEPT ![t] = c]
  BY <1>1 DEF MbCall, TimeOK
<1>. HIDE DEF c
<1>3. (\A x \in Thread \ {t} : call'[x] = call[x]) /\ call'[t] = c
  BY <1>1, <1>2
<1>4. BlockingInv'
  BY <1>1 DEF BlockingInv, CurrentMayRun
<1>5. MbListed'
  <2>1. \A w \in {MbReceivers, MbSenders} : Listed(w, MbOp(w)) /\ MbOp(w) # "rt_mb_detach"
    BY MbWaiters DEF MbOp
  <2>. QED
    BY <1>3, <2>1 DEF MbListed, Listed
<1>6. \A op : Resumed(op) \subseteq Resumed(op)'
  BY <1>2, <1>3 DEF Resumed
<1>7. NoLostMail' /\ NoLostSlot'
  BY <1>6, MbUnmoved
<1>8. MbLeft' /\ DetachedMailboxIsEmpty'
  BY <1>2, <1>3 DEF MbSafe, MbLeft, DetachedMailboxIsEmpty
<1>9. \A x \in Thread : TimeOK(call'[x])
  BY <1>2, MbTimes
<1>. QED
  BY <1>4, <1>5, <1>7, <1>8, <1>9 DEF MbSafe

\* And then the mailbox is detached.
LEMMA MbDetachEnds ==
    ASSUME MbSafe, MbInv', NEW t \in Thread, t = k.cur, t # Idle, pc[t] = "wake",
           call[t].op = "rt_mb_detach", call[t].arg = MbSenders, k.wait[MbSenders] = << >>,
           mb' = [mb EXCEPT !.obj = "detached"], Leave(t, "run"), UNCHANGED <<k, isr, mbLate>>
    PROVE  MbSafe'
<1>1. /\ BlockingInv /\ KernelWaits(k) /\ call = [x \in Thread |-> call[x]]
      /\ \A v \in WaitList : Range(k.wait[v]) \cap {t} = {}
  BY MbWaiters, CallerWaitsNowhere DEF MbSafe
<1>2. Moves(t, "run") /\ call' = [call EXCEPT ![t] = NoCall]
  BY DEF Leave, Goto, Moves
<1>3. BlockingInv' /\ OthersStay({t})
  BY <1>1, <1>2, CallerMoves
<1>4. /\ \A x \in Thread \ {t} : pc'[x] = pc[x] /\ call'[x] = call[x]
      /\ call'[t] = NoCall
  BY <1>1, <1>2 DEF BlockingInv, Moves
<1>5. MbListed'
  BY <1>1, <1>3, <1>4, MbStillListed
<1>6. MbLeft'
  BY <1>4, NoTime DEF MbSafe, MbLeft
<1>7. DetachedMailboxIsEmpty'
  BY DEF MbSafe, MbLeft, DetachedMailboxIsEmpty
<1>8. NoLostMail' /\ NoLostSlot'
  <2>1. mb'.entry = mb.entry
    BY MbWaiters DEF MbTypes
  <2>2. \A op : t \notin Resumed(op)
    BY DEF Resumed
  <2>3. \A op : Resumed(op) \subseteq Resumed(op)'
    BY <1>3, <2>2 DEF OthersStay
  <2>. QED
    BY <2>1, <2>3, MbUnmoved
<1>9. \A x \in Thread : TimeOK(call'[x])
  BY <1>2, MbTimes, NoTime
<1>. QED
  BY <1>3, <1>5, <1>6, <1>7, <1>8, <1>9 DEF MbSafe

\* Each of its steps is one of these.
LEMMA MbDetachStepSafe ==
    ASSUME MbSafe, MbInv', NEW t \in Thread, MbDetachStep(t)
    PROVE  MbSafe'
<1>1. /\ t = k.cur /\ t # Idle /\ pc[t] = "wake" /\ call[t].op = "rt_mb_detach"
      /\ UNCHANGED <<isr, mbLate>> /\ call[t].arg \in {MbReceivers, MbSenders}
  BY DEF MbDetachStep, Continues, Executes, MbSafe, BlockingInv, MbLeft
<1>2. \/ /\ k.wait[call[t].arg] # << >> /\ k' = ResumeWithError(k, Head(k.wait[call[t].arg]))
         /\ UNCHANGED <<pc, call, mb>>
      \/ /\ k.wait[MbReceivers] = << >> /\ call' = [call EXCEPT ![t].arg = MbSenders]
         /\ UNCHANGED <<k, pc, mb>>
      \/ /\ call[t].arg = MbSenders /\ k.wait[MbSenders] = << >>
         /\ mb' = [mb EXCEPT !.obj = "detached"] /\ Leave(t, "run") /\ UNCHANGED k
  BY DEF MbDetachStep, Return
<1>. QED
  BY <1>1, <1>2, MbDetachWakes, MbDetachTurns, MbDetachEnds

\* The mailbox is initialised: nobody sleeps on it.
LEMMA MbInitSafe ==
    ASSUME MbSafe, MbInv', NEW t \in Thread, rt_mb_init(t)
    PROVE  MbSafe'
<1>1. /\ k.wait[MbReceivers] = << >> /\ k.wait[MbSenders] = << >>
      /\ UNCHANGED <<k, pc, isr, call>>
  BY DEF rt_mb_init
<1>2. BlockingInv' /\ MbListed'
  BY <1>1 DEF MbSafe, BlockingInv, CurrentMayRun, MbListed, Listed
<1>3. MbLeft'
  BY <1>1 DEF MbSafe, MbLeft
<1>4. NoLostMail' /\ NoLostSlot' /\ DetachedMailboxIsEmpty'
  BY <1>1 DEF NoLostMail, NoLostSlot, DetachedMailboxIsEmpty
<1>. QED
  BY <1>1, <1>2, <1>3, <1>4 DEF MbSafe

\* A device sends or receives in its interrupt.
LEMMA MbDeviceSafe ==
    ASSUME MbSafe, MbInv', DeviceSend \/ DeviceRecv
    PROVE  MbSafe'
<1>1. /\ BlockingInv /\ k.lock = 0 /\ ~MbGone /\ UNCHANGED <<pc, isr, call, mbLate>>
      /\ \A w \in {MbReceivers, MbSenders} : w \in WaitList /\ Listed(w, MbOp(w))
      /\ MbOp(MbReceivers) = "rt_mb_recv" /\ MbOp(MbSenders) = "rt_mb_send_wait"
  BY MbWaiters DEF MbSafe, DeviceSend, DeviceRecv, MbMayUse, MbGone
<1>2. PICK w \in {MbReceivers, MbSenders} :
        /\ k' = IF k.wait[w] = << >> THEN k ELSE rt_schedule(rt_ipc_list_resume(k, w))
        /\ \/ w = MbReceivers /\ \E mail : Deposit(mail)
           \/ w = MbSenders /\ Fetch
  BY DEF DeviceSend, DeviceRecv
<1>3. BlockingInv' /\ k'.lock = k.lock /\ OthersStay({}) /\ WokeFor(w, MbOp(w), {})
  BY <1>1, <1>2, DeviceWakes
<1>4. /\ mb'.obj = mb.obj
      /\ w = MbReceivers => mb'.entry = mb.entry + 1
      /\ w = MbSenders => mb'.entry = mb.entry - 1
  BY <1>2, MbEntry, MbWaiters
<1>5. MbListed' /\ MbLeft' /\ DetachedMailboxIsEmpty'
  BY <1>1, <1>3, <1>4, MbStillListed, MbStaysInUse, NoTime
<1>6. NoLostMail' /\ NoLostSlot'
  BY <1>1, <1>2, <1>3, <1>4, MbOneMore, MbOneLess
<1>. QED
  BY <1>1, <1>3, <1>5, <1>6 DEF MbSafe

\* The clock, sleeps and context switches.
LEMMA MbKernelSafe ==
    ASSUME MbSafe, MbInv', IpcKernelStep, UNCHANGED <<mb, mbLate>>
    PROVE  MbSafe'
<1>1. BlockingInv' /\ Quiet /\ call' = call
  BY BlockingStep DEF MbSafe, IpcKernelStep
<1>2. OthersStay({}) /\ \A op : Resumed(op)' \subseteq Resumed(op)
  BY <1>1, KernelResumesNobody DEF MbSafe
<1>3. MbListed'
  BY <1>1, <1>2, MbStillListed
<1>5. \A w \in {MbReceivers, MbSenders} : k'.wait[w] # << >> => k.wait[w] # << >>
  BY <1>2, MbWaiters, StaysEmpty
<1>6. NoLostMail' /\ NoLostSlot'
  BY <1>2, <1>5, MbUnmoved DEF OthersStay
<1>7. MbLeft' /\ DetachedMailboxIsEmpty'
  BY <1>1, <1>5, MbLeavesNobody
<1>. QED
  BY <1>1, <1>3, <1>6, <1>7 DEF MbSafe, Quiet

\* The calls of the threads.
LEMMA MbCallSafe ==
    ASSUME MbSafe, MbInv', NEW t \in Thread, MailboxCall(t)
    PROVE  MbSafe'
<1>0. /\ Times[t] \subseteq Int /\ pc[Idle] = "run"
      /\ MbOp(MbReceivers) = "rt_mb_recv" /\ MbOp(MbSenders) = "rt_mb_send_wait"
  <2>1. HALF_RANGE \in Int
    BY KernelConstants DEF HALF_RANGE
  <2>. QED
    BY <2>1, IpcCallConstants, MbWaiters DEF WAITING_FOREVER, MbSafe, BlockingInv
<1>1. CASE rt_mb_send_wait(t)
  <2>1. PICK mail \in ThreadMail, time \in Times[t] :
          SendLoop(t, NewCall("rt_mb_send_wait", mail, time))
    BY <1>1 DEF rt_mb_send_wait
  <2>. DEFINE c == NewCall("rt_mb_send_wait", mail, time)
  <2>2. MbCall(c) /\ c.op = "rt_mb_send_wait" /\ TimeOK(c) /\ c.arg \in ThreadMail
    BY <1>0 DEF NewCall, MbCall, TimeOK
  <2>3. SendLoop(t, c)
    BY <2>1
  <2>. HIDE DEF c
  <2>4. t = k.cur /\ t # Idle /\ pc[t] = "run" /\ UNCHANGED <<isr, mbLate>> /\ ~MbGone
    BY <1>1 DEF rt_mb_send_wait, Calls, Executes, MbMayUse, MbGone
  <2>. QED
    BY <2>2, <2>3, <2>4, MbSendSafe
<1>2. CASE SendResumed(t)
  <2>1. /\ t = k.cur /\ t # Idle /\ pc[t] = "woken" /\ isr' = isr
        /\ call[t].op = "rt_mb_send_wait"
    BY <1>0, <1>2 DEF SendResumed, Woken, Continues, Executes
  <2>2. CASE Failed(t)
    BY <1>2, <2>1, <2>2, MbReturnSafe DEF SendResumed
  <2>3. CASE ~Failed(t)
    <3>1. SendLoop(t, Rested(t))
      BY <1>2, <2>3 DEF SendResumed
    <3>2. /\ MbCall(Rested(t)) /\ Rested(t).op = "rt_mb_send_wait" /\ TimeOK(Rested(t))
          /\ Rested(t).arg \in ThreadMail
      <4>1. MbCall(call[t]) /\ TimeOK(call[t]) /\ Rest(call[t]) \in Int
        BY RestIsTime DEF MbSafe, MbInv
      <4>. QED
        BY <2>1, <4>1 DEF Rested, MbCall, TimeOK
    <3>3. (~MbGone \/ mbLate') /\ (mbLate => mbLate')
      BY <1>2, <2>3 DEF SendResumed, MbMayUse, MbGone
    <3>. QED
      BY <2>1, <3>1, <3>2, <3>3, MbSendSafe
  <2>. QED
    BY <2>2, <2>3
<1>3. CASE rt_mb_recv(t)
  <2>1. PICK time \in Times[t] : RecvLoop(t, NewCall("rt_mb_recv", NoMail, time))
    BY <1>3 DEF rt_mb_recv
  <2>. DEFINE c == NewCall("rt_mb_recv", NoMail, time)
  <2>2. MbCall(c) /\ c.op = "rt_mb_recv" /\ TimeOK(c) /\ RecvLoop(t, c)
    BY <1>0, <2>1 DEF NewCall, MbCall, TimeOK
  <2>. HIDE DEF c
  <2>3. t = k.cur /\ t # Idle /\ pc[t] = "run" /\ UNCHANGED <<isr, mbLate>> /\ ~MbGone
    BY <1>3 DEF rt_mb_recv, Calls, Executes, MbMayUse, MbGone
  <2>. QED
    BY <2>2, <2>3, MbRecvSafe
<1>4. CASE RecvResumed(t)
  <2>1. /\ t = k.cur /\ t # Idle /\ pc[t] = "woken" /\ isr' = isr
        /\ call[t].op = "rt_mb_recv"
    BY <1>0, <1>4 DEF RecvResumed, Woken, Continues, Executes
  <2>2. CASE Failed(t)
    BY <1>4, <2>1, <2>2, MbReturnSafe DEF RecvResumed
  <2>3. CASE ~Failed(t)
    <3>1. RecvLoop(t, Rested(t))
      BY <1>4, <2>3 DEF RecvResumed
    <3>2. MbCall(Rested(t)) /\ Rested(t).op = "rt_mb_recv" /\ TimeOK(Rested(t))
      <4>1. MbCall(call[t]) /\ TimeOK(call[t]) /\ Rest(call[t]) \in Int
        BY RestIsTime DEF MbSafe, MbInv
      <4>. QED
        BY <2>1, <4>1 DEF Rested, MbCall, TimeOK
    <3>3. (~MbGone \/ mbLate') /\ (mbLate => mbLate')
      BY <1>4, <2>3 DEF RecvResumed, MbMayUse, MbGone
    <3>. QED
      BY <2>1, <3>1, <3>2, <3>3, MbRecvSafe
  <2>. QED
    BY <2>2, <2>3
<1>. QED
  BY <1>1, <1>2, <1>3, <1>4, MbControlSafe, MbDetachSafe, MbDetachStepSafe, MbInitSafe
     DEF MailboxCall

\* Every step keeps what the mailbox relies on.
LEMMA MbSafeStep ==
    ASSUME MbSafe, [MailboxNext]_mailboxVars
    PROVE  MbSafe'
<1>1. MbInv'
  BY MbStep DEF MbSafe
<1>2. CASE UNCHANGED mailboxVars
  <2>1. UNCHANGED <<k, pc, isr, call, mb, mbLate>>
    BY <1>2 DEF mailboxVars
  <2>2. BlockingInv' /\ MbListed'
    BY <2>1 DEF MbSafe, BlockingInv, CurrentMayRun, MbListed, Listed
  <2>3. \A op : Resumed(op)' = Resumed(op)
    BY <2>1 DEF Resumed
  <2>4. MbLeft' /\ NoLostMail' /\ NoLostSlot' /\ DetachedMailboxIsEmpty'
    BY <2>1, <2>3 DEF MbSafe, MbLeft, NoLostMail, NoLostSlot,
                     DetachedMailboxIsEmpty
  <2>. QED
    BY <1>1, <2>1, <2>2, <2>4 DEF MbSafe
<1>. QED
  BY <1>1, <1>2, MbKernelSafe, MbCallSafe, MbDeviceSafe DEF MailboxNext

\* All threads are outside their calls, and nobody waits.
LEMMA MbSafeStarts ==
    ASSUME IpcCallInit, MailboxInit
    PROVE  MbSafe
<1>1. BlockingInv /\ (\A w \in WaitList : k.wait[w] = << >>) /\ k.lock = 0
  BY InitBlocking DEF IpcCallInit, BlockingInit
<1>2. MbInv
  BY MbStarts
<1>3. \A w \in {MbReceivers, MbSenders} : w \in WaitList /\ Range(k.wait[w]) = {}
  BY <1>1, WaitersAreThreads, MailboxConstants DEF BlockingInv
<1>4. \A t \in Thread : TimeOK(call[t]) /\ call[t].op = "none"
  BY NoTime DEF IpcCallInit
<1>5. MbListed
  BY <1>3 DEF MbListed, Listed
<1>6. MbLeft
  BY <1>4 DEF MbLeft
<1>7. NoLostMail /\ NoLostSlot /\ DetachedMailboxIsEmpty
  BY <1>1, <1>3 DEF NoLostMail, NoLostSlot, DetachedMailboxIsEmpty
<1>. QED
  BY <1>1, <1>2, <1>4, <1>5, <1>6, <1>7 DEF MbSafe

\* No thread sleeps for a mail while there is one that nobody was resumed for,
\* none sleeps for room while there is a slot that nobody was resumed for, and a
\* detached mailbox leaves nobody on its lists: rt_mb_recv and rt_mb_send resume
\* the head of the other side's list in the locked section that makes the slot
\* or the mail, and rt_mb_detach resumes everyone first.  (Who was resumed
\* before and goes on afterwards may sleep on what is left: mbLate.)
THEOREM MailboxIsSafe == MailboxSpec => []MailboxInvariant
<1>1. IpcCallInit /\ MailboxInit => MbSafe
  BY MbSafeStarts
<1>2. MbSafe /\ [MailboxNext]_mailboxVars => MbSafe'
  BY MbSafeStep
<1>3. MbSafe => MailboxInvariant
  BY DEF MbSafe, MbInv, MbRing, MailboxInvariant
<1>. QED
  BY <1>1, <1>2, <1>3, PTL DEF MailboxSpec

-----------------------------------------------------------------------------
(* The wait queue *)

\* The nodes are those of the sleepers; without timeouts nobody else ends a wait,
\* and who was woken clears the flag before it removes its node.
WqInv ==
    /\ BlockingInv
    /\ k.lock = 0
    /\ call = [t \in Thread |-> call[t]]
    /\ queue = [waiting_list |-> queue.waiting_list, wakeup |-> queue.wakeup,
                parity |-> queue.parity]
    /\ queue.parity \in {0, 1}
    /\ queue.waiting_list \in Seq(Thread) /\ IsInjective(queue.waiting_list)
    /\ Range(queue.waiting_list) = Asleep
    /\ \A t \in Waiting :
         /\ pc[t] \in {"wait", "woken", "remove"} /\ t \notin Range(k.timers)
         /\ k.stat[t] = SUSPEND => pc[t] # "remove"
    /\ queue.wakeup /\ Asleep # {} => \E t \in Waiting \ Asleep : pc[t] # "remove"

\* Removing the head of a list of distinct elements.
LEMMA TailOnce ==
    ASSUME NEW T, NEW s \in Seq(T), IsInjective(s), s # << >>
    PROVE  /\ Tail(s) \in Seq(T) /\ IsInjective(Tail(s))
           /\ Range(Tail(s)) = Range(s) \ {Head(s)}
<1>1. /\ Len(s) \in Nat /\ DOMAIN s = 1 .. Len(s) /\ Len(s) >= 1
      /\ Tail(s) \in Seq(T) /\ Len(Tail(s)) = Len(s) - 1 /\ DOMAIN Tail(s) = 1 .. Len(Tail(s))
      /\ Head(s) = s[1] /\ \A i \in 1 .. Len(s) - 1 : Tail(s)[i] = s[i + 1]
  BY LenProperties, EmptySeq, HeadTailProperties
<1>. DEFINE n == Len(s)
            r == Tail(s)
<1>2. /\ n \in Nat \ {0} /\ DOMAIN s = 1 .. n /\ DOMAIN r = 1 .. n - 1
      /\ \A i \in 1 .. n - 1 : r[i] = s[i + 1]
      /\ \A i, j \in 1 .. n : s[i] = s[j] => i = j
  BY <1>1 DEF IsInjective
<1>. HIDE DEF n, r
<1>3. IsInjective(r)
  BY <1>2 DEF IsInjective
<1>4. \A x : x \in Range(r) <=> x \in Range(s) /\ x # s[1]
  <2>1. ASSUME NEW i \in 1 .. n - 1 PROVE r[i] \in Range(s) /\ r[i] # s[1]
    <3>1. i + 1 \in 1 .. n /\ 1 \in 1 .. n /\ i + 1 # 1 /\ r[i] = s[i + 1]
      BY <1>2
    <3>. QED
      BY <1>2, <3>1 DEF Range
  <2>2. ASSUME NEW i \in 1 .. n, s[i] # s[1] PROVE s[i] \in Range(r)
    <3>1. i - 1 \in 1 .. n - 1 /\ r[i - 1] = s[i]
      BY <1>2, <2>2
    <3>. QED
      BY <1>2, <3>1 DEF Range
  <2>. QED
    BY <1>2, <2>1, <2>2 DEF Range
<1>. QED
  BY <1>1, <1>3, <1>4 DEF r

\* In the steps of the kernel a thread falls asleep outside its calls only.
LEMMA NobodyFallsAsleep ==
    ASSUME BlockingInv, BlockingNext, NEW x \in Thread, pc[x] # "run", k'.stat[x] = SUSPEND
    PROVE  k.stat[x] = SUSPEND
<1>1. KernelWaits(k) /\ KInv(k, {}) /\ k \in KernelState /\ k.stat \in [Thread -> Stat]
  BY QueueFacts DEF BlockingInv, KernelWaits
<1>2. ASSUME NEW t \in Thread, rt_thread_delay(t) PROVE k.stat[x] = SUSPEND
  <2>1. t = k.cur /\ pc[t] = "run" /\ \E n \in SleepTicks : k' = rt_timer_start(rt_thread_suspend(k, t), t, n)
    BY <1>2 DEF rt_thread_delay, Calls, Executes
  <2>2. Suspends(k, rt_thread_suspend(k, t), t)
    BY <1>1, <2>1, CallerIsReady, CurrentSuspends
  <2>3. rt_thread_suspend(k, t) \in KernelState
    BY <2>2 DEF Suspends, KInv
  <2>4. k'.stat = [k.stat EXCEPT ![t] = SUSPEND]
    BY <1>2, <2>1, <2>2, <2>3, StartFields DEF Suspends, TimersOnly
  <2>. QED
    BY <1>1, <2>1, <2>4
<1>3. ASSUME NEW t \in Thread, Schedule(t) PROVE k.stat[x] = SUSPEND
  BY <1>1, <1>3, ScheduleWaits DEF Schedule, ContextSwitch
<1>4. ASSUME NEW t \in Thread, SleepReturn(t) PROVE k.stat[x] = SUSPEND
  BY <1>1, <1>4 DEF SleepReturn, KernelState
<1>5. CASE TickInterrupt
  BY <1>1, <1>5, TickTicks DEF TickInterrupt, Ticks
<1>6. CASE TimerFire
  <2>. DEFINE t == Head(k.timers)
  <2>1. /\ k.timers # << >> /\ k' = rt_thread_timeout(rt_timer_stop(k, t), t)
    BY <1>6 DEF TimerFire, TimerDue
  <2>2. t \in Thread /\ k.stat[t] = SUSPEND
    BY <1>1, <2>1, HeadInRange DEF KernelState, KInv
  <2>. HIDE DEF t
  <2>3. k'.stat = [k.stat EXCEPT ![t] = READY]
    BY <1>1, <2>1, <2>2, TimeoutWakes DEF Wakes
  <2>. QED
    BY <1>1, <2>2, <2>3, StatesDiffer
<1>7. CASE TimerCheckDone
  BY <1>7 DEF TimerCheckDone
<1>. QED
  BY <1>2, <1>3, <1>4, <1>5, <1>6, <1>7 DEF BlockingNext

\* The clock, sleeps and context switches wake nobody of the wait queue.
LEMMA WqKernel ==
    ASSUME WqInv, IpcKernelStep, UNCHANGED queue
    PROVE  WqInv'
<1>1. BlockingInv' /\ Quiet /\ call' = call /\ Waiting' = Waiting /\ BlockingNext
  BY BlockingStep DEF WqInv, IpcKernelStep, Waiting
<1>2. ASSUME NEW t \in Waiting
      PROVE  /\ pc'[t] \in {"wait", "woken", "remove"} /\ t \notin Range(k'.timers)
             /\ pc'[t] = "remove" <=> pc[t] = "remove"
             /\ k'.stat[t] = SUSPEND <=> k.stat[t] = SUSPEND
  <2>1. t \in Thread /\ pc[t] \in {"wait", "woken", "remove"} /\ t \notin Range(k.timers)
    BY DEF WqInv, Waiting
  <2>2. /\ pc'[t] \in {"wait", "woken", "remove"}
        /\ pc'[t] = "remove" <=> pc[t] = "remove"
    BY <1>1, <2>1 DEF Quiet
  <2>3. t \notin Range(k'.timers)
    BY <1>1, <2>1, <2>2 DEF Quiet
  <2>4. k'.stat[t] = SUSPEND => k.stat[t] = SUSPEND
    BY <1>1, <2>1, NobodyFallsAsleep DEF WqInv
  <2>5. ASSUME k.stat[t] = SUSPEND PROVE k'.stat[t] = SUSPEND
    <3>1. pc[t] \in {"wait", "woken"}
      BY <2>1, <2>5 DEF WqInv
    <3>2. ASSUME NEW u, TimesOut(u) PROVE k'.stat[t] = k.stat[t]
      <4>1. t # u /\ k'.stat = [k.stat EXCEPT ![u] = READY]
        BY <2>1, <3>2 DEF TimesOut, Wakes
      <4>2. k.stat \in [Thread -> Stat]
        BY QueueFacts DEF WqInv, BlockingInv, KernelWaits
      <4>. QED
        BY <2>1, <4>1, <4>2
    <3>. QED
      BY <1>1, <2>1, <2>5, <3>1, <3>2 DEF Quiet, NobodyLeaves
  <2>. QED
    BY <2>2, <2>3, <2>4, <2>5
<1>3. Asleep' = Asleep
  BY <1>1, <1>2 DEF Asleep
<1>4. k'.lock = 0
  BY <1>1 DEF Quiet, WqInv
<1>. QED
  BY <1>1, <1>2, <1>3, <1>4 DEF WqInv

\* The running thread in a call that does not wait is no sleeper.
LEMMA WqAwake ==
    ASSUME WqInv, NEW t, t = k.cur, pc[t] \notin {"wait", "sleep"}
    PROVE  /\ t \in Thread /\ t \notin Asleep /\ k.stat[t] = READY
           /\ \A w \in WaitList : t \notin Range(k.wait[w])
           /\ KernelWaits(k) /\ KInv(k, {}) /\ k \in KernelState /\ k.stat \in [Thread -> Stat]
<1>1. /\ t \in Thread /\ k.stat[t] = READY
      /\ \A w \in WaitList : t \notin Range(k.wait[w])
  BY CallerIsReady DEF WqInv
<1>2. KernelWaits(k) /\ KInv(k, {}) /\ k \in KernelState /\ k.stat \in [Thread -> Stat]
  BY QueueFacts DEF WqInv, BlockingInv, KernelWaits
<1>. QED
  BY <1>1, <1>2, StatesDiffer DEF Asleep

\* rt_wqueue_wait for ever, of a thread that finds the flag clear.
LEMMA WqWaits ==
    ASSUME WqInv, NEW t \in Thread, rt_wqueue_wait(t), QueueTimes[t] \subseteq {WAITING_FOREVER}
    PROVE  WqInv'
<1>1. /\ t = k.cur /\ t # Idle /\ pc[t] = "run" /\ ~queue.wakeup
      /\ call' = [call EXCEPT ![t] = NewCall("rt_wqueue_wait", << >>, 0)]
      /\ queue' = [queue EXCEPT !.waiting_list = Append(@, t)]
      /\ pc' = [pc EXCEPT ![t] = "wait"] /\ isr' = isr
  BY DEF rt_wqueue_wait, Calls, Executes, Goto
<1>2. k' = rt_thread_suspend(k, t)
  BY DEF rt_wqueue_wait, WAITING_FOREVER
<1>3. Suspends(k, k', t)
  BY <1>1, <1>2, WqAwake, CurrentSuspends
<1>4. /\ pc' = [x \in Thread |-> pc'[x]] /\ pc'[t] = "wait"
      /\ \A x \in Thread \ {t} : pc'[x] = pc[x]
  BY <1>1 DEF WqInv, BlockingInv
<1>5. /\ k'.stat[t] = SUSPEND /\ \A x \in Thread \ {t} : k'.stat[x] = k.stat[x]
      /\ k'.error = k.error /\ k'.wait = k.wait /\ k'.cur = t /\ k'.timers = k.timers
      /\ k'.lock = 0 /\ KInv(k', {})
  BY <1>1, <1>3, WqAwake DEF Suspends, WqInv
<1>6. BlockingInv'
  <2>1. \A w \in WaitList : \A x \in Range(k.wait[w]) : x \in Thread /\ x # t
    BY <1>1, WqAwake, WaitersAreThreads
  <2>2. WaitsExact(k')
    <3>1. WaitsExact(k)
      BY <1>1, WqAwake DEF KernelWaits
    <3>. QED
      BY <1>5, <2>1, <3>1 DEF WaitsExact
  <2>3. k'.stat[Idle] = READY /\ pc'[Idle] = "run"
    BY <1>1, <1>4, <1>5, KernelConstants DEF WqInv, BlockingInv, KernelWaits
  <2>4. \A w \in WaitList : \A x \in Range(k'.wait[w]) : pc'[x] \in {"wait", "woken"}
    BY <1>4, <1>5, <2>1 DEF WqInv, BlockingInv
  <2>. QED
    BY <1>1, <1>4, <1>5, <2>2, <2>3, <2>4 DEF WqInv, BlockingInv, KernelWaits, CurrentMayRun
<1>7. /\ call' = [x \in Thread |-> call'[x]] /\ call'[t].op = "rt_wqueue_wait"
      /\ \A x \in Thread \ {t} : call'[x] = call[x]
  BY <1>1 DEF WqInv, NewCall
<1>8. Waiting' = Waiting \cup {t} /\ Asleep' = Asleep \cup {t}
  BY <1>5, <1>7 DEF Waiting, Asleep
<1>9. t \notin Range(k.timers)
  BY <1>1, WqAwake, StatesDiffer DEF KInv
<1>10. /\ queue' = [waiting_list |-> queue'.waiting_list, wakeup |-> queue'.wakeup,
                    parity |-> queue'.parity]
       /\ queue'.waiting_list = Append(queue.waiting_list, t)
       /\ queue'.parity = queue.parity /\ ~queue'.wakeup
  BY <1>1 DEF WqInv
<1>11. /\ queue'.waiting_list \in Seq(Thread) /\ IsInjective(queue'.waiting_list)
       /\ Range(queue'.waiting_list) = Asleep'
  <2>1. /\ queue.waiting_list \in Seq(Thread) /\ IsInjective(queue.waiting_list)
        /\ Range(queue.waiting_list) = Asleep /\ t \notin Asleep
    BY <1>1, WqAwake DEF WqInv
  <2>. QED
    BY <1>8, <1>10, <2>1, AppendOnce
<1>12. \A x \in Waiting' :
         /\ pc'[x] \in {"wait", "woken", "remove"} /\ x \notin Range(k'.timers)
         /\ k'.stat[x] = SUSPEND => pc'[x] # "remove"
  <2>1. \A x \in Waiting :
          /\ x \in Thread /\ pc[x] \in {"wait", "woken", "remove"} /\ x \notin Range(k.timers)
          /\ k.stat[x] = SUSPEND => pc[x] # "remove"
    BY DEF WqInv, Waiting
  <2>. QED
    BY <1>4, <1>5, <1>8, <1>9, <2>1
<1>. QED
  BY <1>5, <1>6, <1>7, <1>10, <1>11, <1>12 DEF WqInv

\* The sections of a caller that wakes nobody and does not wait.
LEMMA WqCallKeeps ==
    ASSUME WqInv, NEW t \in Thread, WaitNot(t) \/ WaitOver(t) \/ WaitRemove(t)
    PROVE  WqInv'
<1>1. /\ t = k.cur /\ t # Idle /\ pc[t] \notin {"wait", "sleep"} /\ k' = k
      /\ UNCHANGED <<pc, isr>> \/ \E at : Moves(t, at)
  BY DEF WaitNot, WaitOver, WaitRemove, Calls, Woken, Continues, Executes, Return, Leave, Goto,
         Moves, WqInv, BlockingInv
<1>2. BlockingInv'
  BY <1>1, WqAwake, CallKeeps DEF WqInv
<1>3. /\ \A x \in Thread \ {t} : pc'[x] = pc[x] /\ call'[x] = call[x]
      /\ call' = [x \in Thread |-> call'[x]]
      /\ call'[t].op = "rt_wqueue_wait" => pc'[t] \in {"wait", "woken", "remove"}
      /\ call'[t].op = "rt_wqueue_wait" => call[t].op = "rt_wqueue_wait"
      /\ queue' = [waiting_list |-> queue'.waiting_list, wakeup |-> queue'.wakeup,
                   parity |-> queue'.parity]
      /\ queue'.parity = queue.parity
      /\ ~queue'.wakeup \/ (queue'.wakeup = queue.wakeup /\ pc[t] = "remove")
  <2>1. CASE WaitNot(t)
    <3>1. UNCHANGED <<pc, call>> /\ queue' = [queue EXCEPT !.wakeup = FALSE] /\ pc[t] = "run"
      BY <2>1 DEF WaitNot, Calls
    <3>. QED
      BY <3>1 DEF WqInv, Waiting
  <2>2. CASE WaitOver(t)
    <3>1. /\ pc' = [pc EXCEPT ![t] = "remove"] /\ call' = call
          /\ queue' = [queue EXCEPT !.wakeup = FALSE]
      BY <2>2 DEF WaitOver, Goto
    <3>. QED
      BY <3>1 DEF WqInv, BlockingInv
  <2>3. CASE WaitRemove(t)
    <3>1. /\ pc' = [pc EXCEPT ![t] = "run"] /\ call' = [call EXCEPT ![t] = NoCall]
          /\ queue' = [queue EXCEPT !.waiting_list = RemoveFirst(@, t)] /\ pc[t] = "remove"
      BY <2>3 DEF WaitRemove, Return, Leave, Goto, Continues
    <3>2. call'[t].op = "none" /\ "none" # "rt_wqueue_wait"
      BY <3>1 DEF WqInv, NoCall
    <3>. QED
      BY <3>1, <3>2 DEF WqInv, BlockingInv
  <2>. QED
    BY <2>1, <2>2, <2>3
<1>4. /\ queue'.waiting_list \in Seq(Thread) /\ IsInjective(queue'.waiting_list)
      /\ Range(queue'.waiting_list) = Asleep
  <2>1. \/ queue'.waiting_list = queue.waiting_list
        \/ queue'.waiting_list = RemoveFirst(queue.waiting_list, t)
    <3>1. queue = [waiting_list |-> queue.waiting_list, wakeup |-> queue.wakeup,
                   parity |-> queue.parity]
      BY DEF WqInv
    <3>2. \/ queue' = [queue EXCEPT !.wakeup = FALSE]
          \/ queue' = [queue EXCEPT !.waiting_list = RemoveFirst(@, t)]
      BY DEF WaitNot, WaitOver, WaitRemove
    <3>. QED
      BY <3>1, <3>2
  <2>2. /\ queue.waiting_list \in Seq(Thread) /\ IsInjective(queue.waiting_list)
        /\ Range(queue.waiting_list) = Asleep /\ Asleep \ {t} = Asleep
    BY <1>1, WqAwake DEF WqInv
  <2>3. LET r == RemoveFirst(queue.waiting_list, t)
        IN  r \in Seq(Thread) /\ IsInjective(r) /\ Range(r) = Asleep \ {t}
    BY <2>2, RemoveFirstOnce
  <2>. QED
    BY <2>1, <2>2, <2>3
<1>5. /\ Waiting' \subseteq Waiting /\ Waiting \ {t} \subseteq Waiting' /\ Asleep' = Asleep
      /\ t \notin Asleep /\ k.stat[t] # SUSPEND
  BY <1>1, <1>3, WqAwake, StatesDiffer DEF Waiting, Asleep
<1>6. \A x \in Waiting' :
        /\ pc'[x] \in {"wait", "woken", "remove"} /\ x \notin Range(k'.timers)
        /\ k'.stat[x] = SUSPEND => pc'[x] # "remove"
  BY <1>1, <1>3, <1>5 DEF WqInv, Waiting
<1>7. queue'.wakeup /\ Asleep # {} => \E x \in Waiting' \ Asleep' : pc'[x] # "remove"
  <2>. SUFFICES ASSUME queue'.wakeup, Asleep # {}
                PROVE  \E x \in Waiting' \ Asleep' : pc'[x] # "remove"
    OBVIOUS
  <2>1. PICK x \in Waiting \ Asleep : pc[x] # "remove"
    BY <1>3 DEF WqInv
  <2>. QED
    BY <1>3, <1>5, <2>1 DEF Waiting
<1>. QED
  BY <1>1, <1>2, <1>3, <1>4, <1>5, <1>6, <1>7 DEF WqInv

\* What a wakeup makes of the queue.
LEMMA WqWokenQueue ==
    ASSUME WqInv, queue' = WokenQueue
    PROVE  /\ queue' = [waiting_list |-> queue'.waiting_list, wakeup |-> queue'.wakeup,
                        parity |-> queue'.parity]
           /\ queue'.wakeup /\ queue'.parity \in {0, 1} /\ queue'.parity # queue.parity
           /\ queue'.waiting_list = IF queue.waiting_list = << >> THEN queue.waiting_list
                                    ELSE Tail(queue.waiting_list)
<1>. DEFINE list == IF queue.waiting_list = << >> THEN queue.waiting_list
                    ELSE Tail(queue.waiting_list)
            p == 1 - queue.parity
<1>1. p \in {0, 1} /\ p # queue.parity
  BY DEF WqInv
<1>2. queue = [waiting_list |-> queue.waiting_list, wakeup |-> queue.wakeup,
               parity |-> queue.parity]
  BY DEF WqInv
<1>3. queue' = [queue EXCEPT !.wakeup = TRUE, !.parity = p, !.waiting_list = list]
  BY DEF WokenQueue
<1>. HIDE DEF list, p
<1>4. queue' = [waiting_list |-> list, wakeup |-> TRUE, parity |-> p]
  BY <1>2, <1>3
<1>. QED
  BY <1>1, <1>4 DEF list

\* A wakeup resumes the thread of the first node and takes the node out.
LEMMA WqWakes ==
    ASSUME WqInv, NEW j, queue.waiting_list # << >>, Head(queue.waiting_list) \in Asleep =>
             \E e : Wakes(k, j, Head(queue.waiting_list), e),
           k'.stat = j.stat, k'.lock = j.lock, k'.timers = j.timers,
           queue' = WokenQueue, call' = call, BlockingInv',
           \A x \in Waiting : pc'[x] = pc[x]
    PROVE  WqInv' /\ Asleep' # Asleep
<1>. DEFINE h == Head(queue.waiting_list)
<1>1. /\ queue.waiting_list \in Seq(Thread) /\ IsInjective(queue.waiting_list)
      /\ Range(queue.waiting_list) = Asleep /\ Asleep \subseteq Waiting /\ Waiting \subseteq Thread
  BY DEF WqInv, Asleep, Waiting
<1>2. h \in Asleep /\ h \in Waiting /\ h \in Thread
  BY <1>1, HeadInRange
<1>3. PICK e : Wakes(k, j, h, e)
  BY <1>2
<1>. HIDE DEF h
<1>4. /\ k'.stat[h] = READY /\ \A x \in Thread \ {h} : k'.stat[x] = k.stat[x]
      /\ Range(k'.timers) \subseteq Range(k.timers) /\ k'.lock = 0
  <2>1. k \in KernelState /\ k.stat \in [Thread -> Stat] /\ k.timers \in Seq(Thread)
    <3>1. k \in KernelState
      BY DEF WqInv, BlockingInv, KernelWaits, KInv
    <3>. QED
      BY <3>1 DEF KernelState
  <2>2. k'.stat = [k.stat EXCEPT ![h] = READY] /\ k'.timers = RemoveFirst(k.timers, h)
        /\ k'.lock = k.lock
    BY <1>3 DEF Wakes
  <2>3. Range(RemoveFirst(k.timers, h)) \subseteq Range(k.timers)
    BY <2>1, RemoveFirstSeq
  <2>. QED
    BY <1>2, <2>1, <2>2, <2>3 DEF WqInv
<1>5. Waiting' = Waiting /\ Asleep' = Asleep \ {h}
  BY <1>4, StatesDiffer DEF Waiting, Asleep
<1>6. /\ queue' = [waiting_list |-> queue'.waiting_list, wakeup |-> queue'.wakeup,
                   parity |-> queue'.parity]
      /\ queue'.waiting_list = Tail(queue.waiting_list) /\ queue'.parity \in {0, 1}
  BY WqWokenQueue
<1>7. /\ queue'.waiting_list \in Seq(Thread) /\ IsInjective(queue'.waiting_list)
      /\ Range(queue'.waiting_list) = Asleep'
  BY <1>1, <1>5, <1>6, TailOnce DEF h
<1>8. \A x \in Waiting' :
        /\ pc'[x] \in {"wait", "woken", "remove"} /\ x \notin Range(k'.timers)
        /\ k'.stat[x] = SUSPEND => pc'[x] # "remove"
  <2>1. \A x \in Waiting :
          /\ pc[x] \in {"wait", "woken", "remove"} /\ x \notin Range(k.timers)
          /\ k.stat[x] = SUSPEND => pc[x] # "remove"
    BY DEF WqInv
  <2>. QED
    BY <1>1, <1>4, <1>5, <2>1, StatesDiffer
<1>9. h \in Waiting' \ Asleep' /\ pc'[h] # "remove"
  BY <1>2, <1>5 DEF WqInv, Asleep
<1>10. call' = [x \in Thread |-> call'[x]]
  BY DEF WqInv
<1>. QED
  BY <1>2, <1>4, <1>5, <1>6, <1>7, <1>8, <1>9, <1>10 DEF WqInv

\* A wakeup that finds no node leaves the flag to the next who waits.
LEMMA WqNobodyWoken ==
    ASSUME WqInv, queue.waiting_list = << >>, k' = k, queue' = WokenQueue, call' = call,
           BlockingInv', \A x \in Waiting : pc'[x] = pc[x]
    PROVE  WqInv' /\ Asleep = {}
<1>1. Range(queue.waiting_list) = {} /\ Range(queue.waiting_list) = Asleep
  BY HeadInRange DEF WqInv
<1>2. Waiting' = Waiting /\ Asleep' = Asleep
  BY DEF Waiting, Asleep
<1>3. /\ queue' = [waiting_list |-> queue'.waiting_list, wakeup |-> queue'.wakeup,
                   parity |-> queue'.parity]
      /\ queue'.waiting_list = queue.waiting_list /\ queue'.parity \in {0, 1}
  BY WqWokenQueue
<1>. QED
  BY <1>1, <1>2, <1>3 DEF WqInv

\* The thread of the first node is suspended: resuming it wakes it.
LEMMA WqHeadWakes ==
    ASSUME WqInv, queue.waiting_list # << >>
    PROVE  LET h == Head(queue.waiting_list)
           IN  /\ h \in Asleep /\ h \in Thread /\ k.stat[h] = SUSPEND
               /\ Wakes(k, WokenKernel, h, k.error[h]) /\ WokenKernel.cur = k.cur
<1>. DEFINE h == Head(queue.waiting_list)
<1>1. h \in Asleep /\ h \in Thread /\ k.stat[h] = SUSPEND
  BY HeadInRange DEF WqInv, Asleep
<1>2. WokenKernel = rt_thread_resume(k, h)
  BY DEF WokenKernel
<1>. HIDE DEF h
<1>3. KernelWaits(k) /\ k \in KernelState
  BY DEF WqInv, BlockingInv, KernelWaits, KInv
<1>4. k.error[h] \in {EOK, ERROR, ETIMEOUT, EINTR} /\ WithError(k, h, k.error[h]) = k
  BY <1>1, <1>3 DEF KernelState, WithError
<1>5. Wakes(k, rt_thread_resume(WithError(k, h, k.error[h]), h), h, k.error[h])
      /\ rt_thread_resume(WithError(k, h, k.error[h]), h).cur = k.cur
  BY <1>1, <1>3, <1>4, ResumeWakes
<1>. QED
  BY <1>1, <1>2, <1>4, <1>5 DEF h

\* rt_wqueue_wakeup of a thread.
LEMMA WqCallWakes ==
    ASSUME WqInv, NEW t \in Thread, rt_wqueue_wakeup(t)
    PROVE  WqInv' /\ (Asleep # {} => Asleep' # Asleep)
<1>1. /\ t = k.cur /\ t # Idle /\ pc[t] = "run" /\ call' = call
      /\ queue' = WokenQueue /\ k' = WokenKernel /\ \E at : Moves(t, at)
  BY DEF rt_wqueue_wakeup, Calls, Executes, Goto, Moves
<1>2. \A x \in Waiting : pc'[x] = pc[x]
  <2>1. t \notin Waiting
    BY <1>1 DEF WqInv
  <2>. QED
    BY <1>1, <2>1 DEF Moves, Waiting, WqInv, BlockingInv
<1>3. CASE queue.waiting_list = << >>
  <2>1. k' = k
    BY <1>1, <1>3 DEF WokenKernel
  <2>2. BlockingInv'
    BY <1>1, <2>1, WqAwake, CallKeeps DEF WqInv
  <2>. QED
    BY <1>1, <1>2, <1>3, <2>1, <2>2, WqNobodyWoken
<1>4. CASE queue.waiting_list # << >>
  <2>. DEFINE h == Head(queue.waiting_list)
  <2>1. h \in Thread /\ h \in Asleep /\ Wakes(k, k', h, k.error[h]) /\ k'.cur = k.cur
    BY <1>1, <1>4, WqHeadWakes
  <2>2. \A w \in WaitList : Range(k'.wait[w]) \subseteq Range(k.wait[w])
    BY <1>1, <2>1, WqAwake, WokenShrinks
  <2>. HIDE DEF h
  <2>3. k'.stat[t] = READY /\ KernelWaits(k')
    BY <1>1, <2>1, WqAwake DEF Wakes
  <2>4. BlockingInv'
    BY <1>1, <2>1, <2>2, <2>3, CallKeeps DEF WqInv
  <2>. QED
    BY <1>1, <1>2, <1>4, <2>1, <2>4, WqWakes DEF h
<1>. QED
  BY <1>3, <1>4

\* rt_wqueue_wakeup in an interrupt, which schedules.
LEMMA WqDeviceWakes ==
    ASSUME WqInv, DeviceWakeup
    PROVE  WqInv' /\ (Asleep # {} => Asleep' # Asleep)
<1>1. UNCHANGED <<pc, isr, call>> /\ queue' = WokenQueue
  BY DEF DeviceWakeup
<1>2. CASE queue.waiting_list = << >>
  <2>1. k' = k
    BY <1>2 DEF DeviceWakeup
  <2>2. BlockingInv'
    BY <1>1, <2>1 DEF WqInv, BlockingInv, CurrentMayRun
  <2>. QED
    BY <1>1, <1>2, <2>1, <2>2, WqNobodyWoken
<1>3. CASE queue.waiting_list # << >>
  <2>. DEFINE h == Head(queue.waiting_list)
              j == WokenKernel
  <2>1. /\ h \in Thread /\ h \in Asleep /\ k.stat[h] = SUSPEND
        /\ Wakes(k, j, h, k.error[h]) /\ j.cur = k.cur
    BY <1>3, WqHeadWakes
  <2>2. k' = rt_schedule(j)
    BY <1>3 DEF DeviceWakeup
  <2>3. \A w \in WaitList : Range(j.wait[w]) \subseteq Range(k.wait[w])
    BY <2>1, WokenShrinks DEF WqInv, BlockingInv
  <2>. HIDE DEF h, j
  <2>4. ContextSwitch(j, k') /\ (j.lock = 0 => j.stat[k'.cur] = READY)
    BY <2>1, <2>2, ScheduleWaits DEF Wakes
  <2>5. k'.stat[k'.cur] = READY /\ k'.wait = j.wait /\ k'.stat = j.stat /\ k'.lock = j.lock
        /\ k'.timers = j.timers /\ KernelWaits(k')
    BY <2>1, <2>4 DEF ContextSwitch, Wakes, WqInv
  <2>6. BlockingInv'
    BY <1>1, <2>3, <2>5 DEF WqInv, BlockingInv, CurrentMayRun
  <2>. QED
    BY <1>1, <1>3, <2>1, <2>5, <2>6, WqWakes DEF h
<1>. QED
  BY <1>2, <1>3

\* A wakeup reaches a sleeper at once, or whoever is about to sleep, where all wait
\* for ever: rt_wqueue_wakeup takes the node of the thread it resumes out of the
\* list and leaves the flag set, which no sleeper joins, until the thread that was
\* woken clears it. (A thread whose wait is timed leaves its node to the next
\* wakeup.)
THEOREM WakeupsAreNotLost ==
    (\A t \in Thread : QueueTimes[t] \subseteq {WAITING_FOREVER})
        => (WaitQueueSpec => WaitQueueSafety)
<1>. DEFINE Forever == \A t \in Thread : QueueTimes[t] \subseteq {WAITING_FOREVER}
            Wakens == queue'.parity # queue.parity /\ Asleep # {} => Asleep' # Asleep
<1>1. IpcCallInit /\ WaitQueueInit => WqInv
  <2>. SUFFICES ASSUME IpcCallInit, WaitQueueInit PROVE WqInv
    OBVIOUS
  <2>1. BlockingInv
    BY InitBlocking DEF IpcCallInit
  <2>2. k.lock = 0 /\ call = [t \in Thread |-> call[t]] /\ Waiting = {} /\ Asleep = {}
    BY DEF IpcCallInit, BlockingInit, NoCall, Waiting, Asleep
  <2>3. IsInjective(<< >>) /\ Range(<< >>) = {} /\ << >> \in Seq(Thread)
    BY DEF IsInjective, Range
  <2>. QED
    BY <2>1, <2>2, <2>3 DEF WaitQueueInit, WqInv
<1>2. Forever /\ WqInv /\ [WaitQueueNext]_waitQueueVars => WqInv' /\ [Wakens]_waitQueueVars
  <2>. SUFFICES ASSUME Forever, WqInv, [WaitQueueNext]_waitQueueVars
                PROVE  WqInv' /\ (Wakens \/ UNCHANGED waitQueueVars)
    OBVIOUS
  <2>1. CASE UNCHANGED waitQueueVars
    <3>1. UNCHANGED <<k, pc, isr, call, queue>>
      BY <2>1 DEF waitQueueVars
    <3>2. BlockingInv' /\ Waiting' = Waiting /\ Asleep' = Asleep
      BY <3>1 DEF WqInv, BlockingInv, CurrentMayRun, Waiting, Asleep
    <3>. QED
      BY <2>1, <3>1, <3>2 DEF WqInv
  <2>2. CASE IpcKernelStep /\ UNCHANGED queue
    BY <2>2, WqKernel
  <2>3. ASSUME NEW t \in Thread, rt_wqueue_wait(t) PROVE WqInv' /\ Wakens
    <3>1. queue'.parity = queue.parity
      BY <2>3 DEF rt_wqueue_wait, WqInv
    <3>. QED
      BY <2>3, <3>1, WqWaits
  <2>4. ASSUME NEW t \in Thread, WaitNot(t) \/ WaitOver(t) \/ WaitRemove(t) PROVE WqInv' /\ Wakens
    <3>1. queue'.parity = queue.parity
      BY <2>4 DEF WaitNot, WaitOver, WaitRemove, WqInv
    <3>. QED
      BY <2>4, <3>1, WqCallKeeps
  <2>5. ASSUME NEW t \in Thread, rt_wqueue_wakeup(t) PROVE WqInv' /\ Wakens
    BY <2>5, WqCallWakes
  <2>6. CASE DeviceWakeup
    BY <2>6, WqDeviceWakes
  <2>. QED
    BY <2>1, <2>2, <2>3, <2>4, <2>5, <2>6 DEF WaitQueueNext, WaitQueueCall
<1>3. WqInv => NoLostWakeup
  BY DEF WqInv, NoLostWakeup
<1>4. Forever /\ WaitQueueSpec => []NoLostWakeup /\ [][Wakens]_waitQueueVars
  <2>. HIDE DEF Forever, Wakens
  <2>1. CASE Forever
    BY <1>1, <1>2, <1>3, <2>1, PTL DEF WaitQueueSpec
  <2>. QED
    BY <2>1
<1>. QED
  BY <1>4 DEF WaitQueueSafety, WakeupWakes

-----------------------------------------------------------------------------
(* The event *)

\* Whoever waits for an event waits for some bits that are not set, all of them
\* or any; what was cleared has been taken once.
EvSleepers(j, c, set) ==
    \A t \in Range(j.wait[EvWaiters]) : c[t].arg \in Request /\ ~Satisfied(c[t].arg, set)

EvBits(e) ==
    /\ e = [set |-> e.set, obj |-> e.obj, taken |-> e.taken]
    /\ e.set \subseteq Bit /\ e.taken \in [Bit -> {0, 1}]
    /\ \A b \in Bit : b \in e.set <=> e.taken[b] = 0

EvInv ==
    /\ BlockingInv
    /\ k.lock = 0
    /\ call = [t \in Thread |-> call[t]]
    /\ EvBits(ev)
    /\ EvSleepers(k, call, ev.set)
    /\ DetachedEventIsEmpty

\* Who is not satisfied by some bits is not by fewer.
LEMMA FewerSatisfy ==
    ASSUME NEW r \in Request, NEW set, NEW less \in SUBSET set, ~Satisfied(r, set)
    PROVE  ~Satisfied(r, less)
  BY DEF Satisfied

\* Bits that are set are handed out, and cleared or not.
LEMMA BitsHandedOut ==
    ASSUME NEW e, EvBits(e), NEW r \in Request, NEW got \in SUBSET e.set
    PROVE  LET u == HandOut(e, r, got)
           IN  EvBits(u) /\ u.set \subseteq e.set /\ u.obj = e.obj
<1>. DEFINE set == IF r.clear THEN e.set \ got ELSE e.set
            taken == [b \in Bit |-> IF b \notin got THEN e.taken[b]
                                    ELSE IF e.taken[b] > 0 THEN 2
                                    ELSE IF r.clear THEN 1 ELSE 0]
            u == HandOut(e, r, got)
<1>1. u = [set |-> set, obj |-> e.obj, taken |-> taken]
  <2>1. e = [set |-> e.set, obj |-> e.obj, taken |-> e.taken]
    BY DEF EvBits
  <2>2. u = [e EXCEPT !.set = set, !.taken = taken]
    BY DEF HandOut
  <2>. HIDE DEF set, taken
  <2>. QED
    BY <2>1, <2>2
<1>2. \A b \in Bit : /\ taken[b] \in {0, 1}
                     /\ b \in set <=> taken[b] = 0
  <2>1. r.clear \in BOOLEAN
    BY DEF Request
  <2>2. ASSUME NEW b \in Bit
        PROVE  /\ b \in got => e.taken[b] = 0
               /\ e.taken[b] \in {0, 1} /\ (b \in e.set <=> e.taken[b] = 0)
    BY DEF EvBits
  <2>. QED
    BY <2>1, <2>2
<1>3. set \subseteq e.set /\ taken = [b \in Bit |-> taken[b]]
  OBVIOUS
<1>. HIDE DEF set, taken, u
<1>4. EvBits(u)
  BY <1>1, <1>2, <1>3 DEF EvBits
<1>. QED
  BY <1>1, <1>3, <1>4 DEF u

\* The record of the walk, s, after it has passed the first n waiters.
Walked(s, n) ==
    /\ s = [kernel |-> s.kernel, event |-> s.event, call |-> s.call]
    /\ KernelWaits(s.kernel)
    /\ s.kernel.cur = k.cur /\ s.kernel.lock = k.lock
    /\ \A v \in WaitList : Range(s.kernel.wait[v]) \subseteq Range(k.wait[v])
    /\ \A t \in Thread : k.stat[t] = READY => s.kernel.stat[t] = READY
    /\ EvBits(s.event) /\ s.event.obj = ev.obj
    /\ s.call = [t \in Thread |-> s.call[t]]
    /\ \A t \in Range(s.kernel.wait[EvWaiters]) : s.call[t] = call[t]
    /\ \A i \in 1 .. Len(k.wait[EvWaiters]) :
         i > n => k.wait[EvWaiters][i] \in Range(s.kernel.wait[EvWaiters])
    /\ \A i \in 1 .. n : k.wait[EvWaiters][i] \in Range(s.kernel.wait[EvWaiters]) =>
         ~Satisfied(call[k.wait[EvWaiters][i]].arg, s.event.set)

\* An iteration of the walk hands waiter t the bits it waits for, if they are set.
LEMMA EvWalkStep ==
    ASSUME EvInv, NEW n \in Nat, NEW s, Walked(s, n), n + 1 <= Len(k.wait[EvWaiters]),
           NEW t, t = k.wait[EvWaiters][n + 1]
    PROVE  Walked(Walk(s, t), n + 1)
<1>. DEFINE list == k.wait[EvWaiters]
            r == call[t].arg
            got == IF r.mode = AND THEN r.set ELSE r.set \cap s.event.set
            kernel == rt_thread_resume(s.kernel, t)
            event == HandOut(s.event, r, got)
            calls == [s.call EXCEPT ![t].arg.set = got]
<1>1. /\ KernelWaits(k) /\ KernelWaits(s.kernel) /\ EvWaiters \in WaitList
      /\ list \in Seq(Thread) /\ IsInjective(list) /\ Len(list) \in Nat
      /\ DOMAIN list = 1 .. Len(list) /\ n + 1 \in 1 .. Len(list)
      /\ t \in Thread /\ t \in Range(list) /\ t \in Range(s.kernel.wait[EvWaiters])
      /\ r \in Request /\ s.event.set \subseteq Bit
  <2>1. KernelWaits(k) /\ KernelWaits(s.kernel) /\ EvWaiters \in WaitList
    BY EventConstants DEF EvInv, BlockingInv, Walked
  <2>2. list \in Seq(Thread) /\ IsInjective(list)
    BY <2>1, WaitersAreThreads DEF KernelWaits, WaitsExact
  <2>3. /\ Len(list) \in Nat /\ DOMAIN list = 1 .. Len(list) /\ n + 1 \in 1 .. Len(list)
        /\ n + 1 > n
    BY <2>2, LenProperties
  <2>4. t \in Thread /\ t \in Range(list)
    BY <2>2, <2>3, ElementOfSeq DEF Range
  <2>5. t \in Range(s.kernel.wait[EvWaiters])
    BY <2>3 DEF Walked
  <2>6. r \in Request /\ s.event.set \subseteq Bit
    BY <2>4 DEF EvInv, EvSleepers, Walked, EvBits
  <2>. QED
    BY <2>1, <2>2, <2>3, <2>4, <2>5, <2>6
<1>2. CASE ~Satisfied(r, s.event.set)
  <2>1. Walk(s, t) = s
    BY <1>2 DEF Walk
  <2>2. \A i \in 1 .. n + 1 : i \in 1 .. n \/ (i = n + 1 /\ list[i] = t)
    BY <1>1
  <2>3. \A i \in 1 .. n + 1 : list[i] \in Range(s.kernel.wait[EvWaiters]) =>
          ~Satisfied(call[list[i]].arg, s.event.set)
    BY <1>2, <2>2 DEF Walked
  <2>4. \A i \in 1 .. Len(list) : i > n + 1 => i > n
    BY <1>1
  <2>. QED
    BY <2>1, <2>3, <2>4 DEF Walked
<1>3. CASE Satisfied(r, s.event.set)
  <2>1. Walk(s, t) = [kernel |-> kernel, event |-> event, call |-> calls]
    BY <1>3 DEF Walk, Walked
  <2>2. got \subseteq s.event.set
    BY <1>3 DEF Satisfied
  <2>3. EvBits(event) /\ event.set \subseteq s.event.set /\ event.obj = s.event.obj
    <3>1. EvBits(s.event)
      BY DEF Walked
    <3>. HIDE DEF r, got
    <3>. QED
      BY <1>1, <2>2, <3>1, BitsHandedOut
  <2>4. Wakes(s.kernel, kernel, t, EOK) /\ kernel.cur = s.kernel.cur
    <3>1. s.kernel.stat[t] = SUSPEND /\ s.kernel.error[t] = EOK
      BY <1>1 DEF KernelWaits, WaitsExact
    <3>2. WithError(s.kernel, t, EOK) = s.kernel
      <4>1. s.kernel \in KernelState
        BY <1>1 DEF KernelWaits, KInv
      <4>. QED
        BY <1>1, <3>1, <4>1 DEF WithError, KernelState
    <3>3. LET u == rt_thread_resume(WithError(s.kernel, t, EOK), t)
          IN  Wakes(s.kernel, u, t, EOK) /\ u.cur = s.kernel.cur
      BY <1>1, <3>1, ResumeWakes
    <3>. QED
      BY <3>2, <3>3
  <2>5. /\ calls = [x \in Thread |-> calls[x]]
        /\ \A x \in Thread \ {t} : calls[x] = s.call[x]
    BY <1>1 DEF Walked
  <2>. HIDE DEF kernel, event, calls, got
  <2>6. KernelWaits(kernel) /\ kernel.cur = k.cur /\ kernel.lock = k.lock
    BY <2>4 DEF Wakes, Walked
  <2>7. /\ \A v \in WaitList : Range(kernel.wait[v]) \subseteq Range(s.kernel.wait[v])
        /\ Range(kernel.wait[EvWaiters]) = Range(s.kernel.wait[EvWaiters]) \ {t}
    <3>1. kernel.wait[EvWaiters] = RemoveFirst(s.kernel.wait[EvWaiters], t)
      BY <1>1, <2>4 DEF Wakes, WithoutWaiter
    <3>2. s.kernel.wait[EvWaiters] \in Seq(Thread) /\ IsInjective(s.kernel.wait[EvWaiters])
      BY <1>1, WaitersAreThreads DEF KernelWaits, WaitsExact
    <3>3. \A v \in WaitList : Range(kernel.wait[v]) \subseteq Range(s.kernel.wait[v])
      BY <1>1, <2>4, WokenShrinks
    <3>. QED
      BY <3>1, <3>2, <3>3, RemoveFirstOnce
  <2>8. \A x \in Thread : k.stat[x] = READY => kernel.stat[x] = READY
    <3>1. s.kernel.stat \in [Thread -> Stat]
      BY <1>1, QueueFacts DEF KernelWaits
    <3>. QED
      BY <2>4, <3>1 DEF Wakes, Walked
  <2>9. \A x \in Range(kernel.wait[EvWaiters]) : calls[x] = call[x]
    BY <1>1, <2>5, <2>7, WaitersAreThreads DEF Walked
  <2>10. ASSUME NEW i \in 1 .. Len(list), i > n + 1
         PROVE  list[i] \in Range(kernel.wait[EvWaiters])
    <3>1. i > n /\ i # n + 1
      BY <1>1, <2>10
    <3>2. list[i] # t
      BY <1>1, <3>1 DEF IsInjective
    <3>. QED
      BY <2>7, <3>1, <3>2 DEF Walked
  <2>11. ASSUME NEW i \in 1 .. n + 1, list[i] \in Range(kernel.wait[EvWaiters])
         PROVE  ~Satisfied(call[list[i]].arg, event.set)
    <3>1. list[i] # t /\ list[i] \in Range(s.kernel.wait[EvWaiters]) /\ i \in 1 .. n
      BY <1>1, <2>7, <2>11
    <3>2. ~Satisfied(call[list[i]].arg, s.event.set)
      BY <3>1 DEF Walked
    <3>3. call[list[i]].arg \in Request
      BY <1>1, <3>1 DEF Walked, EvInv, EvSleepers
    <3>. QED
      BY <2>3, <3>2, <3>3, FewerSatisfy
  <2>12. event.obj = ev.obj
    BY <2>3 DEF Walked
  <2>13. \A v \in WaitList : Range(kernel.wait[v]) \subseteq Range(k.wait[v])
    BY <2>7 DEF Walked
  <2>. DEFINE u == [kernel |-> kernel, event |-> event, call |-> calls]
  <2>14. u = [kernel |-> u.kernel, event |-> u.event, call |-> u.call]
         /\ u.kernel = kernel /\ u.event = event /\ u.call = calls
    OBVIOUS
  <2>. HIDE DEF u
  <2>15. Walked(u, n + 1)
    BY <2>3, <2>5, <2>6, <2>8, <2>9, <2>10, <2>11, <2>12, <2>13, <2>14 DEF Walked
  <2>. QED
    BY <2>1, <2>15 DEF u
<1>. QED
  BY <1>2, <1>3

\* The walk has a result: its steps build one function after the other.
LEMMA WalkExists ==
    ASSUME NEW begin, NEW list, NEW L \in Nat
    PROVE  \E f : f = [n \in 0 .. L |-> IF n = 0 THEN begin ELSE Walk(f[n - 1], list[n])]
<1>. DEFINE Good(m) == \E f : f = [n \in 0 .. m |->
                          IF n = 0 THEN begin ELSE Walk(f[n - 1], list[n])]
            Bad == {m \in 0 .. L : ~Good(m)}
<1>1. SUFFICES ASSUME Bad # {} PROVE FALSE
  OBVIOUS
<1>2. PICK m \in Bad : \A i \in Bad : m <= i
  <2>1. Bad \in SUBSET Nat
    OBVIOUS
  <2>. QED
    BY <1>1, <2>1, MinOfNat
<1>3. CASE m = 0
  <2>. DEFINE f == [n \in 0 .. 0 |-> begin]
  <2>1. f = [n \in 0 .. 0 |-> IF n = 0 THEN begin ELSE Walk(f[n - 1], list[n])]
    OBVIOUS
  <2>. QED
    BY <1>2, <1>3, <2>1
<1>4. CASE m # 0
  <2>1. m \in Nat \ {0} /\ m <= L /\ m - 1 \in 0 .. L /\ m - 1 \notin Bad
    BY <1>2, <1>4
  <2>2. PICK f : f = [n \in 0 .. m - 1 |-> IF n = 0 THEN begin ELSE Walk(f[n - 1], list[n])]
    BY <2>1
  <2>. DEFINE g == [n \in 0 .. m |-> IF n = m THEN Walk(f[m - 1], list[m]) ELSE f[n]]
  <2>3. ASSUME NEW n \in 0 .. m
        PROVE  g[n] = IF n = 0 THEN begin ELSE Walk(g[n - 1], list[n])
    <3>1. CASE n = 0
      BY <2>1, <2>2, <3>1
    <3>2. CASE n # 0 /\ n # m
      <4>1. n \in 0 .. m - 1 /\ n - 1 \in 0 .. m /\ n - 1 # m
        BY <2>1, <3>2
      <4>2. g[n] = f[n] /\ g[n - 1] = f[n - 1]
        BY <3>2, <4>1
      <4>. QED
        BY <2>2, <3>2, <4>1, <4>2
    <3>3. CASE n = m
      <4>1. m - 1 \in 0 .. m /\ m - 1 # m /\ m # 0
        BY <2>1
      <4>. QED
        BY <3>3, <4>1
    <3>. QED
      BY <3>1, <3>2, <3>3
  <2>4. g = [n \in 0 .. m |-> IF n = 0 THEN begin ELSE Walk(g[n - 1], list[n])]
    BY <2>3
  <2>5. Good(m)
    BY <2>4
  <2>. QED
    BY <1>2, <2>5
<1>. QED
  BY <1>3, <1>4

\* A walk leaves nobody asleep whose bits are set when it ends.
LEMMA SentWalks ==
    ASSUME EvInv, NEW bits \in SUBSET Bit
    PROVE  LET s == Sent(bits)
           IN  /\ KernelWaits(s.kernel)
               /\ s.kernel.cur = k.cur /\ s.kernel.lock = k.lock
               /\ \A v \in WaitList : Range(s.kernel.wait[v]) \subseteq Range(k.wait[v])
               /\ \A t \in Thread : k.stat[t] = READY => s.kernel.stat[t] = READY
               /\ EvBits(s.event) /\ s.event.obj = ev.obj
               /\ s.call = [t \in Thread |-> s.call[t]]
               /\ EvSleepers(s.kernel, s.call, s.event.set)
<1>. DEFINE set == [ev EXCEPT !.set = @ \cup bits,
                              !.taken = [b \in Bit |-> IF b \in bits THEN 0 ELSE @[b]]]
            list == k.wait[EvWaiters]
            L == Len(list)
            begin == [kernel |-> k, event |-> set, call |-> call]
            f == CHOOSE f : f = [n \in 0 .. L |-> IF n = 0 THEN begin ELSE Walk(f[n - 1], list[n])]
            s == Sent(bits)
<1>1. /\ KernelWaits(k) /\ EvWaiters \in WaitList
      /\ list \in Seq(Thread) /\ L \in Nat /\ Range(list) = {list[i] : i \in 1 .. L}
  <2>1. KernelWaits(k) /\ EvWaiters \in WaitList
    BY EventConstants DEF EvInv, BlockingInv
  <2>2. list \in Seq(Thread)
    BY <2>1, WaitersAreThreads
  <2>3. L \in Nat /\ DOMAIN list = 1 .. L
    BY <2>2, LenProperties
  <2>. QED
    BY <2>1, <2>2, <2>3 DEF Range
<1>2. s = f[L]
  BY DEF Sent
<1>3. EvBits(set) /\ set.obj = ev.obj
  <2>. DEFINE taken == [b \in Bit |-> IF b \in bits THEN 0 ELSE ev.taken[b]]
              more == ev.set \cup bits
  <2>1. EvBits(ev)
    BY DEF EvInv
  <2>2. set = [set |-> more, obj |-> ev.obj, taken |-> taken]
    <3>1. ev = [set |-> ev.set, obj |-> ev.obj, taken |-> ev.taken]
      BY <2>1 DEF EvBits
    <3>2. set = [ev EXCEPT !.set = more, !.taken = taken]
      OBVIOUS
    <3>. HIDE DEF set, more, taken
    <3>. QED
      BY <3>1, <3>2
  <2>3. /\ \A b \in Bit : taken[b] \in {0, 1} /\ (b \in more <=> taken[b] = 0)
        /\ taken = [b \in Bit |-> taken[b]] /\ more \subseteq Bit
    BY <2>1 DEF EvBits
  <2>. HIDE DEF set, more, taken
  <2>. QED
    BY <2>2, <2>3 DEF EvBits
<1>. HIDE DEF set
<1>4. Walked(begin, 0)
  <2>1. /\ begin = [kernel |-> begin.kernel, event |-> begin.event, call |-> begin.call]
        /\ begin.kernel = k /\ begin.event = set /\ begin.call = call
    OBVIOUS
  <2>. HIDE DEF begin
  <2>2. \A i \in 1 .. L : list[i] \in Range(list)
    BY <1>1
  <2>3. call = [t \in Thread |-> call[t]]
    BY DEF EvInv
  <2>. QED
    BY <1>1, <1>3, <2>1, <2>2, <2>3 DEF Walked
<1>. HIDE DEF begin, list, L, s
<1>5. f = [n \in 0 .. L |-> IF n = 0 THEN begin ELSE Walk(f[n - 1], list[n])]
  BY <1>1, WalkExists
<1>. HIDE DEF f
<1>. DEFINE Bad == {n \in 0 .. L : ~Walked(f[n], n)}
<1>6. Bad = {}
  <2>1. SUFFICES ASSUME Bad # {} PROVE FALSE
    OBVIOUS
  <2>2. PICK m \in Bad : \A i \in Bad : m <= i
    <3>1. Bad \in SUBSET Nat
      BY <1>1
    <3>. QED
      BY <2>1, <3>1, MinOfNat
  <2>3. CASE m = 0
    <3>1. f[0] = begin
      BY <1>1, <1>5
    <3>. QED
      BY <1>4, <2>2, <2>3, <3>1
  <2>4. CASE m # 0
    <3>1. m \in 1 .. L /\ m - 1 \in 0 .. L /\ m - 1 \in Nat /\ (m - 1) + 1 = m /\ m <= L
      BY <1>1, <2>2, <2>4
    <3>2. Walked(f[m - 1], m - 1)
      <4>1. m - 1 \notin Bad
        <5>. HIDE DEF Bad
        <5>. QED
          BY <1>1, <2>2, <3>1
      <4>. QED
        BY <3>1, <4>1
    <3>3. f[m] = Walk(f[m - 1], list[m])
      BY <1>1, <1>5, <3>1
    <3>4. Walked(f[m], m)
      BY <3>1, <3>2, <3>3, EvWalkStep DEF list, L
    <3>. QED
      BY <2>2, <3>4
  <2>. QED
    BY <2>3, <2>4
<1>7. Walked(s, L)
  <2>1. L \in 0 .. L /\ L \notin Bad
    BY <1>1, <1>6
  <2>. QED
    BY <1>2, <2>1
<1>. HIDE DEF Bad
<1>8. EvSleepers(s.kernel, s.call, s.event.set)
  <2>. SUFFICES ASSUME NEW t \in Range(s.kernel.wait[EvWaiters])
                PROVE  s.call[t].arg \in Request /\ ~Satisfied(s.call[t].arg, s.event.set)
    BY DEF EvSleepers
  <2>1. t \in Range(list) /\ s.call[t] = call[t]
    BY <1>1, <1>7 DEF Walked, list
  <2>2. PICK i \in 1 .. L : t = list[i]
    BY <1>1, <2>1
  <2>3. ~Satisfied(call[t].arg, s.event.set)
    BY <1>7, <2>2 DEF Walked, list, L
  <2>. QED
    BY <2>1, <2>3 DEF EvInv, EvSleepers, list
<1>9. /\ KernelWaits(s.kernel)
      /\ s.kernel.cur = k.cur /\ s.kernel.lock = k.lock
      /\ \A v \in WaitList : Range(s.kernel.wait[v]) \subseteq Range(k.wait[v])
      /\ \A t \in Thread : k.stat[t] = READY => s.kernel.stat[t] = READY
      /\ EvBits(s.event) /\ s.event.obj = ev.obj
      /\ s.call = [t \in Thread |-> s.call[t]]
  BY <1>7 DEF Walked
<1>. QED
  BY <1>8, <1>9 DEF s

-----------------------------------------------------------------------------
(* The steps of the event *)

\* A context switch after a section that readied threads and took them off lists.
LEMMA SwitchKeeps ==
    ASSUME BlockingInv, NEW j, KernelWaits(j), j.cur = k.cur, j.lock = k.lock,
           \A v \in WaitList : Range(j.wait[v]) \subseteq Range(k.wait[v]),
           \A t \in Thread : k.stat[t] = READY => j.stat[t] = READY,
           k' = rt_schedule(j), UNCHANGED <<pc, isr>>
    PROVE  BlockingInv' /\ k'.wait = j.wait /\ k'.lock = k.lock
<1>1. ContextSwitch(j, k')
  BY ScheduleWaits
<1>2. k.cur \in Thread
  BY QueueFacts DEF BlockingInv, KernelWaits
<1>3. CurrentMayRun'
  BY <1>1, <1>2 DEF BlockingInv, CurrentMayRun, ContextSwitch
<1>. QED
  BY <1>1, <1>3 DEF BlockingInv, ContextSwitch

\* A step that moves nobody into the list of the event and sets no bit.
LEMMA EvUnmoved ==
    ASSUME EvInv, BlockingInv', k'.lock = 0, call' = [t \in Thread |-> call'[t]],
           Range(k'.wait[EvWaiters]) \subseteq Range(k.wait[EvWaiters]),
           \A t \in Range(k'.wait[EvWaiters]) : call'[t] = call[t],
           EvBits(ev'), ev'.set \subseteq ev.set, ev'.obj = ev.obj
    PROVE  EvInv'
<1>1. EvSleepers(k', call', ev'.set)
  BY FewerSatisfy DEF EvInv, EvSleepers
<1>2. DetachedEventIsEmpty'
  <2>1. EvWaiters \in WaitList /\ KernelWaits(k) /\ KernelWaits(k')
    BY EventConstants DEF EvInv, BlockingInv
  <2>. QED
    BY <2>1, WaitersAreThreads DEF EvInv, DetachedEventIsEmpty
<1>. QED
  BY <1>1, <1>2 DEF EvInv

\* The caller t of a section.
LEMMA EvCaller ==
    ASSUME EvInv, NEW t, t = k.cur, pc[t] \notin {"wait", "sleep"}
    PROVE  /\ BlockingInv /\ KernelWaits(k) /\ k.lock = 0 /\ EvBits(ev)
           /\ EvWaiters \in WaitList
           /\ t \in Thread /\ k.stat[t] = READY
           /\ \A v \in WaitList : Range(k.wait[v]) \subseteq Thread \ {t}
           /\ call = [x \in Thread |-> call[x]]
<1>1. BlockingInv /\ KernelWaits(k)
  BY DEF EvInv, BlockingInv
<1>. QED
  BY <1>1, EventConstants, CallerIsReady, WaitersAreThreads DEF EvInv

\* The caller moves on in its call, and touches no bit and no waiter.
LEMMA EvMoves ==
    ASSUME EvInv, NEW t, t = k.cur, t # Idle, pc[t] \notin {"wait", "sleep"},
           KernelWaits(k'), k'.stat = k.stat, k'.wait = k.wait, k'.cur = k.cur, k'.lock = k.lock,
           UNCHANGED <<pc, isr>> \/ \E at : Moves(t, at),
           call' = call \/ \E c : call' = [call EXCEPT ![t] = c],
           EvBits(ev'), ev'.set \subseteq ev.set, ev'.obj = ev.obj
    PROVE  EvInv'
<1>1. /\ BlockingInv /\ KernelWaits(k) /\ k.lock = 0 /\ EvWaiters \in WaitList
      /\ t \in Thread /\ k'.stat[t] = READY
      /\ Range(k.wait[EvWaiters]) \subseteq Thread \ {t}
      /\ call = [x \in Thread |-> call[x]]
  BY EvCaller
<1>2. BlockingInv'
  BY <1>1, CallKeeps
<1>3. /\ call' = [x \in Thread |-> call'[x]]
      /\ \A x \in Thread \ {t} : call'[x] = call[x]
  BY <1>1
<1>. QED
  BY <1>1, <1>2, <1>3, EvUnmoved

\* A send of a thread, or of a device in its interrupt.
LEMMA EvSendSafe ==
    ASSUME EvInv, (\E t \in Thread : rt_event_send(t)) \/ DeviceEventSend
    PROVE  EvInv'
<1>1. PICK bits \in SUBSET Bit :
        /\ ev' = Sent(bits).event /\ call' = Sent(bits).call
        /\ \/ /\ k' = Sent(bits).kernel
              /\ \E t \in Thread : \E at : Calls(t) /\ Moves(t, at)
           \/ /\ k' = IF Sent(bits).kernel = k THEN k ELSE rt_schedule(Sent(bits).kernel)
              /\ UNCHANGED <<pc, isr>>
        /\ EvMayUse
  BY DEF rt_event_send, DeviceEventSend, Goto, Moves
<1>. DEFINE s == Sent(bits)
<1>2. /\ KernelWaits(s.kernel)
      /\ s.kernel.cur = k.cur /\ s.kernel.lock = k.lock
      /\ \A v \in WaitList : Range(s.kernel.wait[v]) \subseteq Range(k.wait[v])
      /\ \A t \in Thread : k.stat[t] = READY => s.kernel.stat[t] = READY
      /\ EvBits(s.event) /\ s.event.obj = ev.obj
      /\ s.call = [t \in Thread |-> s.call[t]]
      /\ EvSleepers(s.kernel, s.call, s.event.set)
  BY SentWalks
<1>3. /\ ev' = s.event /\ call' = s.call /\ ev.obj = "live"
      /\ \/ k' = s.kernel /\ \E t \in Thread : \E at : Calls(t) /\ Moves(t, at)
         \/ k' = (IF s.kernel = k THEN k ELSE rt_schedule(s.kernel)) /\ UNCHANGED <<pc, isr>>
  BY <1>1 DEF EvMayUse
<1>. HIDE DEF s
<1>4. BlockingInv' /\ k'.wait = s.kernel.wait /\ k'.lock = k.lock
  <2>1. CASE k' = s.kernel /\ \E t \in Thread : \E at : Calls(t) /\ Moves(t, at)
    <3>1. PICK t \in Thread : \E at : Calls(t) /\ Moves(t, at)
      BY <2>1
    <3>2. PICK at : Calls(t) /\ Moves(t, at)
      BY <3>1
    <3>3. t = k.cur /\ t # Idle /\ pc[t] = "run"
      BY <3>2 DEF Calls, Executes
    <3>4. BlockingInv /\ k'.stat[t] = READY
      BY <1>2, <2>1, <3>3, EvCaller
    <3>5. BlockingInv'
      BY <1>2, <2>1, <3>2, <3>3, <3>4, CallKeeps
    <3>. QED
      BY <1>2, <2>1, <3>5
  <2>2. CASE UNCHANGED <<pc, isr>> /\ k' = k /\ s.kernel = k
    BY <2>2 DEF EvInv, BlockingInv, CurrentMayRun
  <2>3. CASE UNCHANGED <<pc, isr>> /\ k' = rt_schedule(s.kernel)
    BY <1>2, <2>3, SwitchKeeps DEF EvInv
  <2>. QED
    BY <1>3, <2>1, <2>2, <2>3
<1>5. EvSleepers(k', call', ev'.set)
  BY <1>2, <1>3, <1>4 DEF EvSleepers
<1>. QED
  BY <1>2, <1>3, <1>4, <1>5 DEF EvInv, DetachedEventIsEmpty

\* A receiver that finds its bits takes them.
LEMMA EvTakesSafe ==
    ASSUME EvInv, NEW t \in Thread, EventRecvAtOnce(t)
    PROVE  EvInv'
<1>1. PICK r \in Requests :
        Satisfied(r, ev.set) /\ ev' = HandOut(ev, r, r.set \cap ev.set)
  BY DEF EventRecvAtOnce
<1>2. /\ t = k.cur /\ t # Idle /\ pc[t] = "run" /\ k' = [k EXCEPT !.error[t] = EOK]
      /\ UNCHANGED <<pc, isr, call>>
  BY DEF EventRecvAtOnce, Calls, Executes
<1>3. /\ KernelWaits(k) /\ t \in Thread /\ EvBits(ev) /\ r \in Request
      /\ \A v \in WaitList : Range(k.wait[v]) \subseteq Thread \ {t}
  BY <1>2, EvCaller, EventConstants
<1>4. ErrorOnly(k, k', t, EOK)
  <2>1. KInv(k, {}) /\ k' = WithError(k, t, EOK)
    BY <1>2, <1>3 DEF KernelWaits, WithError
  <2>. QED
    BY <1>3, <2>1, ErrorSet
<1>5. KernelWaits(k')
  <2>1. \A x \in Thread \ {t} : k'.error[x] = k.error[x]
    BY <1>3, <1>4 DEF ErrorOnly, KernelWaits, KInv, KernelState
  <2>. QED
    BY <1>3, <1>4, <2>1 DEF ErrorOnly, KernelWaits, WaitsExact
<1>6. EvBits(ev') /\ ev'.set \subseteq ev.set /\ ev'.obj = ev.obj
  BY <1>1, <1>3, BitsHandedOut
<1>. QED
  BY <1>2, <1>4, <1>5, <1>6, EvMoves DEF ErrorOnly

\* A receiver that does not find them waits.
LEMMA EvWaitsSafe ==
    ASSUME EvInv, NEW t \in Thread, EventRecvWait(t)
    PROVE  EvInv'
<1>1. PICK r \in Requests, time \in Times[t] :
        ~Satisfied(r, ev.set) /\ WaitOn(t, EvWaiters, EvFlag, NewCall("rt_event_recv", r, time))
  BY DEF EventRecvWait
<1>. DEFINE c == [NewCall("rt_event_recv", r, time)
                     EXCEPT !.start = IF time > 0 THEN k.tick ELSE 0]
<1>2. /\ t = k.cur /\ t # Idle /\ pc[t] = "run" /\ UNCHANGED <<isr, ev>> /\ ev.obj = "live"
      /\ k' = Block(k, EvWaiters, t, EvFlag, time) /\ Moves(t, "wait")
      /\ call' = [call EXCEPT ![t] = c] /\ c.arg = r
  BY <1>1 DEF EventRecvWait, Calls, Executes, WaitOn, NewCall, Goto, Moves, EvMayUse
<1>. HIDE DEF c
<1>3. /\ BlockingInv /\ KernelWaits(k) /\ k.lock = 0 /\ EvWaiters \in WaitList
      /\ t \in Thread /\ k.stat[t] = READY
      /\ Range(k.wait[EvWaiters]) \subseteq Thread \ {t}
      /\ call = [x \in Thread |-> call[x]]
  BY <1>2, EvCaller
<1>4. time \in Int /\ r \in Request
  <2>1. HALF_RANGE \in Int
    BY KernelConstants DEF HALF_RANGE
  <2>. QED
    BY <2>1, IpcCallConstants, EventConstants DEF WAITING_FOREVER
<1>5. Blocks(k, k', EvWaiters, t, EvFlag, time)
  BY <1>2, <1>3, <1>4, BlockBlocks
<1>6. BlockingInv'
  BY <1>2, <1>3, <1>5, BlockKeeps
<1>7. k'.lock = 0 /\ Range(k'.wait[EvWaiters]) = Range(k.wait[EvWaiters]) \cup {t}
  BY <1>3, <1>5 DEF Blocks
<1>8. /\ call' = [x \in Thread |-> call'[x]] /\ call'[t] = c
      /\ \A x \in Thread \ {t} : call'[x] = call[x]
  BY <1>2, <1>3
<1>9. EvSleepers(k', call', ev'.set)
  BY <1>1, <1>2, <1>3, <1>4, <1>7, <1>8 DEF EvInv, EvSleepers
<1>. QED
  BY <1>2, <1>6, <1>7, <1>8, <1>9 DEF EvInv, DetachedEventIsEmpty

\* An event that is reset or new has no bits, and nobody waits for it.
LEMMA NoBitsAreSet == EvBits(NoBits)
<1>. DEFINE taken == [b \in Bit |-> 1]
<1>1. NoBits = [set |-> {}, obj |-> "live", taken |-> taken]
  BY DEF NoBits
<1>2. taken = [b \in Bit |-> taken[b]] /\ \A b \in Bit : taken[b] = 1
  OBVIOUS
<1>. HIDE DEF taken
<1>. QED
  BY <1>1, <1>2 DEF EvBits

\* A reset clears all bits and wakes all who wait, with an error.
LEMMA EvControlSafe ==
    ASSUME EvInv, NEW t \in Thread, rt_event_control(t)
    PROVE  EvInv'
<1>1. /\ t = k.cur /\ t # Idle /\ pc[t] = "run" /\ Moves(t, "sched")
      /\ k' = rt_ipc_list_resume_all(k, EvWaiters) /\ ev' = NoBits /\ call' = call
  BY DEF rt_event_control, Calls, Executes, Goto, Moves
<1>2. /\ BlockingInv /\ KernelWaits(k) /\ k.lock = 0 /\ EvWaiters \in WaitList
      /\ k.stat[t] = READY
  BY <1>1, EvCaller
<1>3. /\ WokenAll(k, k', EvWaiters, Range(k.wait[EvWaiters])) /\ k'.wait[EvWaiters] = << >>
  BY <1>1, <1>2, ResumeAllWakes
<1>4. /\ KernelWaits(k') /\ k'.cur = k.cur /\ k'.lock = k.lock /\ k'.stat[t] = READY
      /\ \A v \in WaitList : Range(k'.wait[v]) \subseteq Range(k.wait[v])
  BY <1>2, <1>3 DEF WokenAll
<1>5. BlockingInv'
  BY <1>1, <1>2, <1>4, CallKeeps
<1>6. Range(k'.wait[EvWaiters]) = {}
  BY <1>2, <1>3, <1>4, WaitersAreThreads
<1>. QED
  BY <1>1, <1>2, <1>3, <1>4, <1>5, <1>6, NoBitsAreSet
     DEF EvInv, EvSleepers, DetachedEventIsEmpty

\* A detach wakes one waiter after the other with an error; then the event is
\* detached, and can be initialised again.
LEMMA EvDetachSafe ==
    ASSUME EvInv, NEW t \in Thread, rt_event_detach(t) \/ EvDetachStep(t) \/ rt_event_init(t)
    PROVE  EvInv'
<1>1. /\ t = k.cur /\ t # Idle /\ pc[t] \notin {"wait", "sleep"} /\ isr' = isr
  BY DEF rt_event_detach, EvDetachStep, rt_event_init, Calls, Continues, Executes, EvInv,
         BlockingInv
<1>2. /\ BlockingInv /\ KernelWaits(k) /\ k.lock = 0 /\ EvWaiters \in WaitList /\ EvBits(ev)
      /\ call = [x \in Thread |-> call[x]]
  BY <1>1, EvCaller
<1>3. CASE rt_event_detach(t)
  <2>1. UNCHANGED <<k, ev>> /\ Moves(t, "wake") /\ \E c : call' = [call EXCEPT ![t] = c]
    BY <1>3 DEF rt_event_detach, Goto, Moves
  <2>. QED
    BY <1>1, <1>2, <2>1, EvMoves
<1>4. CASE EvDetachStep(t) /\ k.wait[EvWaiters] # << >>
  <2>. DEFINE h == Head(k.wait[EvWaiters])
  <2>1. k' = ResumeWithError(k, h) /\ UNCHANGED <<pc, isr, call, ev>>
    BY <1>4 DEF EvDetachStep
  <2>2. h \in Range(k.wait[EvWaiters])
    BY <1>2, <1>4, HeadWakes
  <2>. HIDE DEF h
  <2>3. BlockingInv' /\ OthersStay({}) /\ k'.lock = k.lock
    BY <1>1, <1>2, <2>1, <2>2, CallerFails
  <2>. QED
    BY <1>2, <2>1, <2>3, EvUnmoved DEF OthersStay
<1>5. CASE EvDetachStep(t) /\ k.wait[EvWaiters] = << >>
  <2>1. /\ ev' = [ev EXCEPT !.obj = "detached"] /\ k' = k /\ Moves(t, "run")
        /\ call' = [call EXCEPT ![t] = NoCall]
    BY <1>1, <1>5 DEF EvDetachStep, Return, Leave, Goto, Moves
  <2>2. EvBits(ev')
    BY <1>2, <2>1 DEF EvBits
  <2>3. BlockingInv'
    BY <1>1, <1>2, <2>1, EvCaller, CallKeeps
  <2>4. Range(k'.wait[EvWaiters]) = {}
    BY <1>2, <1>5, <2>1, WaitersAreThreads
  <2>5. call' = [x \in Thread |-> call'[x]]
    BY <1>2, <2>1
  <2>. QED
    BY <1>2, <1>5, <2>1, <2>2, <2>3, <2>4, <2>5 DEF EvInv, EvSleepers, DetachedEventIsEmpty
<1>6. CASE rt_event_init(t)
  <2>1. /\ k' = [k EXCEPT !.wait[EvWaiters] = << >>] /\ k.wait[EvWaiters] = << >>
        /\ ev' = NoBits /\ UNCHANGED <<pc, isr, call>>
    BY <1>6 DEF rt_event_init, EvInv, DetachedEventIsEmpty
  <2>2. k' = k
    BY <1>2, <2>1 DEF KernelWaits, KInv, KernelState
  <2>3. BlockingInv' /\ Range(k'.wait[EvWaiters]) = {}
    BY <1>2, <2>1, <2>2, WaitersAreThreads DEF BlockingInv, CurrentMayRun
  <2>. QED
    BY <1>2, <2>1, <2>2, <2>3, NoBitsAreSet DEF EvInv, EvSleepers, DetachedEventIsEmpty
<1>. QED
  BY <1>3, <1>4, <1>5, <1>6 DEF EvDetachStep

\* Every step keeps what the event relies on.
LEMMA EvStep ==
    ASSUME EvInv, [EventNext]_eventVars
    PROVE  EvInv'
<1>1. CASE IpcKernelStep /\ ev' = ev
  <2>1. BlockingInv' /\ Quiet /\ call' = call /\ BlockingInv
    BY <1>1, BlockingStep DEF EvInv, IpcKernelStep
  <2>2. OthersStay({})
    BY <2>1, KernelResumesNobody
  <2>3. k'.lock = 0 /\ EvWaiters \in WaitList
    BY <2>1, EventConstants DEF Quiet, EvInv
  <2>. QED
    BY <1>1, <2>1, <2>2, <2>3, EvUnmoved DEF OthersStay, EvInv
<1>2. ASSUME NEW t \in Thread, EventRecvReturn(t) PROVE EvInv'
  <2>1. /\ t = k.cur /\ t # Idle /\ pc[t] = "woken" /\ UNCHANGED <<k, isr, ev>>
        /\ Moves(t, "run") /\ call' = [call EXCEPT ![t] = NoCall]
    BY <1>2 DEF EventRecvReturn, Woken, Continues, Executes, Return, Leave, Goto, Moves, EvInv,
                BlockingInv
  <2>. QED
    BY <2>1, EvMoves DEF EvInv, BlockingInv
<1>3. CASE UNCHANGED eventVars
  <2>1. UNCHANGED <<k, pc, isr, call, ev>>
    BY <1>3 DEF eventVars
  <2>. QED
    BY <2>1 DEF EvInv, BlockingInv, CurrentMayRun, EvSleepers, DetachedEventIsEmpty
<1>. QED
  BY <1>1, <1>2, <1>3, EvSendSafe, EvTakesSafe, EvWaitsSafe, EvControlSafe, EvDetachSafe
     DEF EventNext, EventCall

\* Nobody sleeps on an event whose bits are set: the walk of rt_event_send hands
\* each waiter in turn what those before it have left, and what one of them
\* clears satisfies none of those it has passed.  Nobody gets a bit that was
\* cleared and not sent again, and a detach wakes everybody first.
THEOREM EventReachesItsWaiters == EventSpec => []EventInvariant
<1>1. IpcCallInit /\ EventInit => EvInv
  <2>. SUFFICES ASSUME IpcCallInit, EventInit PROVE EvInv
    OBVIOUS
  <2>1. BlockingInv /\ (\A w \in WaitList : k.wait[w] = << >>) /\ k.lock = 0
    BY InitBlocking DEF IpcCallInit, BlockingInit
  <2>2. EvWaiters \in WaitList /\ Range(k.wait[EvWaiters]) = {}
    BY <2>1, EventConstants, WaitersAreThreads DEF BlockingInv
  <2>. QED
    BY <2>1, <2>2, NoBitsAreSet
       DEF EvInv, EvSleepers, DetachedEventIsEmpty, IpcCallInit, EventInit
<1>2. EvInv /\ [EventNext]_eventVars => EvInv'
  BY EvStep
<1>3. EvInv => EventInvariant
  <2>. SUFFICES ASSUME EvInv PROVE EventInvariant
    OBVIOUS
  <2>1. \A i \in DOMAIN k.wait[EvWaiters] : k.wait[EvWaiters][i] \in Range(k.wait[EvWaiters])
    BY DEF Range
  <2>2. NoSatisfiedSleeper
    BY <2>1 DEF EvInv, EvSleepers, NoSatisfiedSleeper
  <2>3. BitsNotInvented
    <3>1. \A b \in Bit : ev.taken[b] \in {0, 1}
      BY DEF EvInv, EvBits
    <3>. QED
      BY <3>1 DEF BitsNotInvented
  <2>. QED
    BY <2>2, <2>3 DEF EvInv, EventInvariant
<1>. QED
  BY <1>1, <1>2, <1>3, PTL DEF EventSpec

-----------------------------------------------------------------------------
(* Singly linked lists *)

\* next leads from first along the nodes of s, which differ, to null.
Leads(next, first, null, s) ==
    /\ s \in Seq(DOMAIN next) /\ IsInjective(s) /\ null \notin DOMAIN next
    /\ first = IF s = << >> THEN null ELSE s[1]
    /\ \A i \in 1 .. Len(s) : next[s[i]] = IF i = Len(s) THEN null ELSE s[i + 1]

\* The function f is the walk along a list.
Walks(f, next, first, null, N) ==
    f = [i \in 1 .. N |-> IF i = 1 THEN first ELSE Follow(next, f[i - 1], null)]

\* There is such a function: its steps build one after the other.
LEMMA ChainExists ==
    ASSUME NEW next, NEW first, NEW null, NEW N \in Nat
    PROVE  \E f : Walks(f, next, first, null, N)
<1>. DEFINE Good(m) == \E f : Walks(f, next, first, null, m)
            Bad == {m \in 0 .. N : ~Good(m)}
<1>1. SUFFICES ASSUME Bad # {} PROVE FALSE
  OBVIOUS
<1>2. PICK m \in Bad : \A i \in Bad : m <= i
  <2>1. Bad \in SUBSET Nat
    OBVIOUS
  <2>. QED
    BY <1>1, <2>1, MinOfNat
<1>3. CASE m = 0
  <2>. DEFINE f == [i \in 1 .. 0 |-> first]
  <2>1. f = [i \in 1 .. 0 |-> IF i = 1 THEN first ELSE Follow(next, f[i - 1], null)]
    OBVIOUS
  <2>2. Walks(f, next, first, null, 0)
    BY <2>1 DEF Walks
  <2>. QED
    BY <1>2, <1>3, <2>2
<1>4. CASE m # 0
  <2>1. m \in Nat \ {0} /\ m <= N /\ m - 1 \in 0 .. N /\ m - 1 \notin Bad
    <3>1. m \in 0 .. N
      BY <1>2
    <3>. HIDE DEF Bad
    <3>. QED
      BY <1>2, <1>4, <3>1
  <2>5. PICK f : Walks(f, next, first, null, m - 1)
    BY <2>1
  <2>2. f = [i \in 1 .. m - 1 |-> IF i = 1 THEN first ELSE Follow(next, f[i - 1], null)]
    BY <2>5 DEF Walks
  <2>. DEFINE new == IF m = 1 THEN first ELSE Follow(next, f[m - 1], null)
              g == [i \in 1 .. m |-> IF i = m THEN new ELSE f[i]]
  <2>3. ASSUME NEW i \in 1 .. m
        PROVE  g[i] = IF i = 1 THEN first ELSE Follow(next, g[i - 1], null)
    <3>1. CASE i # m
      <4>1. i \in 1 .. m - 1 /\ (i # 1 => i - 1 \in 1 .. m /\ i - 1 # m)
        BY <2>1, <3>1
      <4>2. g[i] = f[i] /\ (i # 1 => g[i - 1] = f[i - 1])
        BY <3>1, <4>1
      <4>. QED
        BY <2>2, <4>1, <4>2
    <3>2. CASE i = m
      <4>1. g[m] = new
        BY <2>1
      <4>2. m # 1 => m - 1 \in 1 .. m /\ m - 1 # m
        BY <2>1
      <4>3. m # 1 => g[m - 1] = f[m - 1]
        BY <4>2
      <4>. QED
        BY <3>2, <4>1, <4>3
    <3>. QED
      BY <3>1, <3>2
  <2>4. g = [i \in 1 .. m |-> IF i = 1 THEN first ELSE Follow(next, g[i - 1], null)]
    BY <2>3
  <2>. HIDE DEF g
  <2>6. Walks(g, next, first, null, m)
    BY <2>4 DEF Walks
  <2>. QED
    BY <1>2, <2>6
<1>. QED
  BY <1>3, <1>4

\* The nodes of a list, found by walking along it.
LEMMA ChainLeads ==
    ASSUME NEW next, NEW first, NEW null, NEW s, Leads(next, first, null, s),
           NEW N \in Nat, Len(s) < N
    PROVE  Chain(next, first, null, N) = s
<1>. DEFINE L == Len(s)
            f == CHOOSE g : Walks(g, next, first, null, N)
            To(i) == IF i <= L THEN s[i] ELSE null
<1>1. /\ L \in Nat /\ s = [i \in 1 .. L |-> s[i]] /\ \A i \in 1 .. L : s[i] \in DOMAIN next
      /\ L < N /\ null \notin DOMAIN next
  BY LenProperties, ElementOfSeq DEF Leads
<1>2. /\ first = To(1)
      /\ \A i \in 1 .. L : next[s[i]] = To(i + 1)
  <2>1. s = << >> <=> L = 0
    BY EmptySeq DEF Leads
  <2>. QED
    BY <1>1, <2>1 DEF Leads
<1>3. Chain(next, first, null, N) = [i \in {j \in 1 .. N : f[j] # null} |-> f[i]]
  BY DEF Chain, Walks
<1>. HIDE DEF L
<1>4. f = [i \in 1 .. N |-> IF i = 1 THEN first ELSE Follow(next, f[i - 1], null)]
  <2>1. Walks(f, next, first, null, N)
    BY ChainExists
  <2>. HIDE DEF f
  <2>. QED
    BY <2>1 DEF Walks
<1>. HIDE DEF f
<1>. DEFINE Bad == {i \in 1 .. N : f[i] # To(i)}
<1>5. Bad = {}
  <2>1. SUFFICES ASSUME Bad # {} PROVE FALSE
    OBVIOUS
  <2>2. PICK m \in Bad : \A i \in Bad : m <= i
    <3>1. Bad \in SUBSET Nat
      OBVIOUS
    <3>. QED
      BY <2>1, <3>1, MinOfNat
  <2>3. m \in 1 .. N /\ f[m] # To(m)
    BY <2>2
  <2>4. m # 1
    BY <1>2, <1>4, <2>3
  <2>5. m - 1 \in 1 .. N
    BY <2>3, <2>4
  <2>6. f[m - 1] = To(m - 1)
    <3>1. ~(m <= m - 1)
      BY <2>3
    <3>. HIDE DEF To
    <3>. QED
      BY <2>2, <2>5, <3>1
  <2>7. f[m] = IF To(m - 1) \in DOMAIN next THEN next[To(m - 1)] ELSE null
    BY <1>4, <2>3, <2>4, <2>6 DEF Follow
  <2>8. CASE m - 1 <= L
    <3>1. m - 1 \in 1 .. L /\ (m - 1) + 1 = m
      BY <1>1, <2>3, <2>4, <2>8
    <3>. DEFINE n == m - 1
    <3>2. n \in 1 .. L /\ n + 1 = m /\ n \in Int
      BY <3>1
    <3>6. \A i \in 1 .. L : next[s[i]] = To(i + 1)
      BY <1>2
    <3>. HIDE DEF n, To
    <3>3. To(n) = s[n] /\ next[s[n]] = To(n + 1) /\ s[n] \in DOMAIN next
      BY <1>1, <3>2, <3>6 DEF To
    <3>4. To(n) = s[n] /\ next[s[n]] = To(m) /\ s[n] \in DOMAIN next
      BY <3>2, <3>3
    <3>5. To(m - 1) = s[m - 1] /\ next[s[m - 1]] = To(m) /\ s[m - 1] \in DOMAIN next
      BY <3>4 DEF n
    <3>. QED
      BY <2>3, <2>7, <3>5
  <2>9. CASE ~(m - 1 <= L)
    <3>1. To(m - 1) = null /\ To(m) = null
      BY <1>1, <2>3, <2>9
    <3>. QED
      BY <1>1, <2>3, <2>7, <3>1
  <2>. QED
    BY <2>8, <2>9
<1>6. \A i \in 1 .. N : f[i] = To(i)
  BY <1>5
<1>7. {j \in 1 .. N : f[j] # null} = 1 .. L
  BY <1>1, <1>6
<1>8. \A i \in 1 .. L : f[i] = s[i]
  BY <1>1, <1>6
<1>9. [i \in {j \in 1 .. N : f[j] # null} |-> f[i]] = [i \in 1 .. L |-> s[i]]
  BY <1>7, <1>8
<1>. QED
  BY <1>1, <1>3, <1>9

\* A list that none of the changed nodes is in.
LEMMA LeadsElsewhere ==
    ASSUME NEW next, NEW first, NEW null, NEW s, Leads(next, first, null, s),
           NEW new, DOMAIN new = DOMAIN next, \A n \in Range(s) : new[n] = next[n]
    PROVE  Leads(new, first, null, s)
<1>1. \A i \in 1 .. Len(s) : s[i] \in Range(s)
  BY LenProperties DEF Leads, Range
<1>. QED
  BY <1>1 DEF Leads

\* A list without its first node.
LEMMA LeadsTail ==
    ASSUME NEW next, NEW first, NEW null, NEW s, Leads(next, first, null, s), s # << >>
    PROVE  /\ Leads(next, next[first], null, Tail(s)) /\ first = s[1]
           /\ Range(Tail(s)) = Range(s) \ {first} /\ Len(Tail(s)) = Len(s) - 1
           /\ first \in Range(s) /\ first \in DOMAIN next /\ first # null
<1>. DEFINE r == Tail(s)
            T == DOMAIN next
<1>1. s \in Seq(T) /\ IsInjective(s) /\ null \notin T
  BY DEF Leads
<1>2. /\ Len(s) \in Nat \ {0} /\ DOMAIN s = 1 .. Len(s) /\ s[1] \in T /\ Head(s) = s[1]
  BY <1>1, EmptySeq, LenProperties, ElementOfSeq
<1>3. r \in Seq(T) /\ IsInjective(r) /\ Range(r) = Range(s) \ {Head(s)}
  BY <1>1, TailOnce
<1>4. Len(r) = Len(s) - 1 /\ \A i \in 1 .. Len(s) - 1 : r[i] = s[i + 1]
  BY <1>1, HeadTailProperties
<1>5. first = s[1] /\ \A i \in 1 .. Len(s) : next[s[i]] = IF i = Len(s) THEN null ELSE s[i + 1]
  BY DEF Leads
<1>. HIDE DEF r, T
<1>6. r = << >> <=> Len(s) = 1
  BY <1>2, <1>3, <1>4, EmptySeq
<1>7. next[first] = IF r = << >> THEN null ELSE r[1]
  <2>1. next[s[1]] = IF Len(s) = 1 THEN null ELSE s[2]
    <3>1. 1 \in 1 .. Len(s) /\ 1 + 1 = 2
      BY <1>2
    <3>2. next[s[1]] = IF 1 = Len(s) THEN null ELSE s[1 + 1]
      BY <1>5, <3>1
    <3>. QED
      BY <3>2
  <2>2. Len(s) # 1 => r[1] = s[2]
    BY <1>2, <1>4
  <2>. QED
    BY <1>5, <1>6, <2>1, <2>2
<1>8. ASSUME NEW i \in 1 .. Len(r) PROVE next[r[i]] = IF i = Len(r) THEN null ELSE r[i + 1]
  <2>1. i \in 1 .. Len(s) - 1 /\ i + 1 \in 1 .. Len(s) /\ (i = Len(r) <=> i + 1 = Len(s))
    BY <1>2, <1>4
  <2>2. r[i] = s[i + 1] /\ next[s[i + 1]] = IF i + 1 = Len(s) THEN null ELSE s[i + 1 + 1]
    BY <1>4, <1>5, <2>1
  <2>3. i # Len(r) => r[i + 1] = s[i + 1 + 1]
    <3>1. i # Len(r) => i + 1 \in 1 .. Len(s) - 1
      <4>1. Len(s) \in Nat /\ Len(r) = Len(s) - 1
        BY <1>2, <1>4
      <4>. QED
        BY <2>1, <4>1
    <3>2. \A j \in 1 .. Len(s) - 1 : r[j] = s[j + 1]
      BY <1>4
    <3>. QED
      BY <3>1, <3>2
  <2>. QED
    BY <2>1, <2>2, <2>3
<1>9. Leads(next, next[first], null, r)
  BY <1>1, <1>3, <1>7, <1>8 DEF Leads, T
<1>10. first \in Range(s) /\ first \in DOMAIN next /\ first # null
  <2>1. 1 \in DOMAIN s /\ first = s[1]
    <3>1. \A n \in Nat \ {0} : 1 \in 1 .. n
      OBVIOUS
    <3>. QED
      BY <1>2, <1>5, <3>1, Zenon
  <2>. QED
    BY <1>1, <1>2, <2>1 DEF Range, T
<1>11. Range(r) = Range(s) \ {first} /\ Len(r) = Len(s) - 1 /\ first = s[1]
  BY <1>2, <1>3, <1>4, <1>5
<1>. QED
  BY <1>9, <1>10, <1>11 DEF r

\* The facts about a sequence with a new first element, or a new last one.
LEMMA ConsProperties ==
    ASSUME NEW T, NEW s \in Seq(T), NEW n \in T
    PROVE  /\ <<n>> \o s \in Seq(T) /\ Len(<<n>> \o s) = Len(s) + 1
           /\ (<<n>> \o s)[1] = n /\ \A i \in 1 .. Len(s) : (<<n>> \o s)[i + 1] = s[i]
           /\ Range(<<n>> \o s) = Range(s) \cup {n}
           /\ IsInjective(s) /\ n \notin Range(s) => IsInjective(<<n>> \o s)
<1>. DEFINE r == <<n>> \o s
<1>1. <<n>> \in Seq(T) /\ Len(<<n>>) = 1 /\ <<n>>[1] = n
  OBVIOUS
<1>2. /\ r \in Seq(T) /\ Len(r) = Len(s) + 1 /\ Len(s) \in Nat
      /\ DOMAIN s = 1 .. Len(s) /\ DOMAIN r = 1 .. Len(s) + 1
      /\ \A i \in 1 .. Len(s) + 1 : r[i] = IF i <= 1 THEN n ELSE s[i - 1]
  <2>1. /\ r \in Seq(T) /\ Len(r) = 1 + Len(s)
        /\ \A i \in 1 .. 1 + Len(s) : r[i] = IF i <= 1 THEN <<n>>[i] ELSE s[i - 1]
    BY <1>1, ConcatProperties
  <2>2. Len(s) \in Nat /\ DOMAIN s = 1 .. Len(s) /\ DOMAIN r = 1 .. Len(r)
    BY <2>1, LenProperties
  <2>. HIDE DEF r
  <2>. QED
    BY <1>1, <2>1, <2>2
<1>. HIDE DEF r
<1>3. r[1] = n /\ \A i \in 1 .. Len(s) : r[i + 1] = s[i]
  BY <1>2
<1>4. 1 .. Len(s) + 1 = {1} \cup {i + 1 : i \in 1 .. Len(s)}
  <2>1. ASSUME NEW j \in 1 .. Len(s) + 1, j # 1 PROVE j - 1 \in 1 .. Len(s) /\ j = (j - 1) + 1
    BY <1>2, <2>1
  <2>. QED
    BY <1>2, <2>1
<1>5. Range(r) = Range(s) \cup {n}
  <2>1. Range(r) = {r[i] : i \in {1} \cup {j + 1 : j \in 1 .. Len(s)}}
    BY <1>2, <1>4 DEF Range
  <2>2. Range(s) = {s[i] : i \in 1 .. Len(s)}
    BY <1>2 DEF Range
  <2>. QED
    BY <1>3, <2>1, <2>2
<1>6. ASSUME IsInjective(s), n \notin Range(s) PROVE IsInjective(r)
  <2>. SUFFICES ASSUME NEW i \in 1 .. Len(s) + 1, NEW j \in 1 .. Len(s) + 1, r[i] = r[j]
                PROVE  i = j
    BY <1>2 DEF IsInjective
  <2>1. \A m \in 1 .. Len(s) + 1 : m # 1 => m - 1 \in 1 .. Len(s) /\ r[m] = s[m - 1]
    BY <1>2
  <2>2. \A m \in 1 .. Len(s) : s[m] # n
    BY <1>2, <1>6 DEF Range
  <2>3. CASE i = 1 \/ j = 1
    BY <1>3, <2>1, <2>2, <2>3
  <2>4. CASE i # 1 /\ j # 1
    <3>1. s[i - 1] = s[j - 1] /\ i - 1 \in 1 .. Len(s) /\ j - 1 \in 1 .. Len(s)
      BY <2>1, <2>4
    <3>2. i - 1 = j - 1
      BY <1>2, <1>6, <3>1 DEF IsInjective
    <3>. QED
      BY <3>2
  <2>. QED
    BY <2>3, <2>4
<1>. QED
  BY <1>2, <1>3, <1>5, <1>6 DEF r

\* A node is put in front of a list.
LEMMA LeadsInFront ==
    ASSUME NEW next, NEW first, NEW null, NEW s, Leads(next, first, null, s),
           NEW n \in DOMAIN next, n \notin Range(s), NEW new, DOMAIN new = DOMAIN next,
           new[n] = first, \A m \in Range(s) : new[m] = next[m]
    PROVE  Leads(new, n, null, <<n>> \o s)
<1>. DEFINE T == DOMAIN next
            r == <<n>> \o s
<1>1. /\ s \in Seq(T) /\ IsInjective(s) /\ null \notin T
      /\ first = IF s = << >> THEN null ELSE s[1]
      /\ \A i \in 1 .. Len(s) : next[s[i]] = IF i = Len(s) THEN null ELSE s[i + 1]
  BY DEF Leads
<1>2. Len(s) \in Nat /\ DOMAIN s = 1 .. Len(s) /\ (s = << >> <=> Len(s) = 0)
  BY <1>1, LenProperties, EmptySeq
<1>3. /\ r \in Seq(T) /\ Len(r) = Len(s) + 1 /\ IsInjective(r)
      /\ r[1] = n /\ \A i \in 1 .. Len(s) : r[i + 1] = s[i]
  BY <1>1, ConsProperties
<1>. HIDE DEF r
<1>4. r # << >>
  BY <1>2, <1>3
<1>5. ASSUME NEW i \in 1 .. Len(r) PROVE new[r[i]] = IF i = Len(r) THEN null ELSE r[i + 1]
  <2>1. CASE i = 1
    <3>1. new[r[1]] = IF s = << >> THEN null ELSE s[1]
      BY <1>1, <1>3
    <3>2. s # << >> => r[2] = s[1] /\ Len(r) # 1
      <4>1. s # << >> => 1 \in 1 .. Len(s) /\ Len(r) # 1
        BY <1>2, <1>3
      <4>. QED
        BY <1>3, <4>1
    <3>3. s = << >> => Len(r) = 1
      BY <1>2, <1>3
    <3>. QED
      BY <2>1, <3>1, <3>2, <3>3
  <2>2. CASE i # 1
    <3>1. i - 1 \in 1 .. Len(s) /\ i = (i - 1) + 1 /\ (i = Len(r) <=> i - 1 = Len(s))
      BY <1>2, <1>3, <2>2
    <3>2. r[i] = s[i - 1] /\ s[i - 1] \in Range(s)
      BY <1>2, <1>3, <3>1 DEF Range
    <3>3. new[r[i]] = IF i - 1 = Len(s) THEN null ELSE s[i]
      BY <1>1, <3>1, <3>2
    <3>4. i - 1 # Len(s) => i \in 1 .. Len(s) /\ r[i + 1] = s[i]
      BY <1>2, <1>3, <3>1
    <3>. QED
      BY <3>1, <3>3, <3>4
  <2>. QED
    BY <2>1, <2>2
<1>. QED
  BY <1>1, <1>3, <1>4, <1>5 DEF Leads, r

\* A sequence without repetitions has as many elements as places.
LEMMA InjectiveLen ==
    ASSUME NEW T, NEW s \in Seq(T), IsInjective(s)
    PROVE  IsFiniteSet(Range(s)) /\ Cardinality(Range(s)) = Len(s) /\ Len(s) \in Nat
<1>1. Len(s) \in Nat /\ DOMAIN s = 1 .. Len(s) /\ s = [i \in 1 .. Len(s) |-> s[i]]
  BY LenProperties
<1>2. IsFiniteSet(1 .. Len(s)) /\ Cardinality(1 .. Len(s)) = Len(s)
  <2>1. 1 \in Int /\ Len(s) \in Int /\ Len(s) >= 0
    BY <1>1
  <2>2. /\ IsFiniteSet(1 .. Len(s))
        /\ Cardinality(1 .. Len(s)) = IF 1 > Len(s) THEN 0 ELSE Len(s) - 1 + 1
    BY <2>1, FS_Interval
  <2>3. (IF 1 > Len(s) THEN 0 ELSE Len(s) - 1 + 1) = Len(s)
    BY <2>1
  <2>. QED
    BY <2>2, <2>3
<1>3. /\ s \in Surjection(1 .. Len(s), Range(s))
      /\ s \in Injection(1 .. Len(s), Range(s))
  <2>1. \A i \in 1 .. Len(s) : s[i] \in Range(s)
    BY <1>1 DEF Range
  <2>2. s \in [1 .. Len(s) -> Range(s)]
    BY <1>1, <2>1
  <2>3. \A x \in Range(s) : \E i \in 1 .. Len(s) : s[i] = x
    BY <1>1 DEF Range
  <2>. QED
    BY <2>2, <2>3 DEF Surjection, Injection
<1>. QED
  BY <1>1, <1>2, <1>3, FS_Surjection

\* The free blocks are the nodes of the list, and there are as many of them as the
\* pool counts; the blocks in use lead to the pool.
MpBlocks ==
    /\ mp = [header |-> mp.header, block_list |-> mp.block_list,
             block_free_count |-> mp.block_free_count,
             suspend_thread_count |-> mp.suspend_thread_count, obj |-> mp.obj]
    /\ DOMAIN mp.header = Range(Chunk)
    /\ mp.header = [c \in Range(Chunk) |-> mp.header[c]]
    /\ used \subseteq Range(Chunk) /\ \A c \in used : mp.header[c] = Pool
    /\ \E s : /\ Leads(mp.header, mp.block_list, NoChunk, s)
              /\ Range(s) = Range(Chunk) \ used
              /\ mp.block_free_count = Len(s)

\* The blocks are conserved if they are listed.
LEMMA ListedConserved ==
    ASSUME MpBlocks
    PROVE  BlocksConserved /\ mp.block_free_count \in Nat
<1>1. PICK s : /\ Leads(mp.header, mp.block_list, NoChunk, s)
               /\ Range(s) = Range(Chunk) \ used
               /\ mp.block_free_count = Len(s)
  BY DEF MpBlocks
<1>2. s \in Seq(Range(Chunk)) /\ IsInjective(s)
  BY <1>1 DEF Leads, MpBlocks
<1>3. IsFiniteSet(Range(s)) /\ Cardinality(Range(s)) = Len(s) /\ Len(s) \in Nat
  BY <1>2, InjectiveLen
<1>4. IsFiniteSet(Range(Chunk)) /\ Cardinality(Range(Chunk)) = Len(Chunk) /\ Len(Chunk) \in Nat
  BY MemPoolConstants, InjectiveLen
<1>5. Len(s) <= Len(Chunk)
  <2>1. Range(s) \subseteq Range(Chunk)
    BY <1>1
  <2>2. Cardinality(Range(s)) <= Cardinality(Range(Chunk))
    BY <1>4, <2>1, FS_Subset
  <2>. QED
    BY <1>3, <1>4, <2>2
<1>6. Len(s) < Len(Chunk) + 1 /\ Len(Chunk) + 1 \in Nat
  BY <1>3, <1>4, <1>5
<1>7. FreeBlocks = s
  BY <1>1, <1>6, ChainLeads DEF FreeBlocks
<1>. QED
  BY <1>1, <1>2, <1>3, <1>7 DEF BlocksConserved, MpBlocks

\* Taking the first free block.
LEMMA BlockTaken ==
    ASSUME MpBlocks, mp.block_free_count # 0, UnlinkBlock, used' = used \cup {mp.block_list}
    PROVE  /\ MpBlocks' /\ mp'.block_free_count = mp.block_free_count - 1 /\ mp'.obj = mp.obj
           /\ mp'.suspend_thread_count = mp.suspend_thread_count
<1>. DEFINE b == mp.block_list
<1>1. PICK s : /\ Leads(mp.header, b, NoChunk, s)
               /\ Range(s) = Range(Chunk) \ used
               /\ mp.block_free_count = Len(s)
  BY DEF MpBlocks
<1>2. s # << >> /\ s \in Seq(Range(Chunk))
  BY <1>1, EmptySeq DEF Leads, MpBlocks
<1>3. /\ Leads(mp.header, mp.header[b], NoChunk, Tail(s))
      /\ Range(Tail(s)) = Range(s) \ {b} /\ Len(Tail(s)) = Len(s) - 1
      /\ b \in Range(s)
  BY <1>1, <1>2, LeadsTail
<1>4. b \in Range(Chunk) \ used
  BY <1>1, <1>3
<1>. HIDE DEF b
<1>5. /\ mp'.header = [mp.header EXCEPT ![b] = Pool] /\ mp'.block_list = mp.header[b]
      /\ mp'.block_free_count = mp.block_free_count - 1 /\ mp'.obj = mp.obj
      /\ mp'.suspend_thread_count = mp.suspend_thread_count
      /\ mp' = [header |-> mp'.header, block_list |-> mp'.block_list,
                block_free_count |-> mp'.block_free_count,
                suspend_thread_count |-> mp'.suspend_thread_count, obj |-> mp'.obj]
  BY DEF MpBlocks, UnlinkBlock, b
<1>6. /\ DOMAIN mp'.header = Range(Chunk) /\ mp'.header[b] = Pool
      /\ mp'.header = [c \in Range(Chunk) |-> mp'.header[c]]
      /\ \A c \in Range(Chunk) \ {b} : mp'.header[c] = mp.header[c]
  BY <1>4, <1>5 DEF MpBlocks
<1>7. Leads(mp'.header, mp'.block_list, NoChunk, Tail(s))
  <2>1. \A n \in Range(Tail(s)) : mp'.header[n] = mp.header[n]
    BY <1>1, <1>3, <1>6
  <2>2. DOMAIN mp'.header = DOMAIN mp.header
    BY <1>6 DEF MpBlocks
  <2>. QED
    BY <1>3, <1>5, <2>1, <2>2, LeadsElsewhere
<1>8. Range(Tail(s)) = Range(Chunk) \ used'
  BY <1>1, <1>3, <1>4 DEF b
<1>9. used' \subseteq Range(Chunk) /\ \A c \in used' : mp'.header[c] = Pool
  BY <1>4, <1>6 DEF MpBlocks, b
<1>10. mp'.block_free_count = Len(Tail(s))
  BY <1>1, <1>3, <1>5
<1>. QED
  BY <1>5, <1>6, <1>7, <1>8, <1>9, <1>10 DEF MpBlocks

\* Putting a block in front of the others.
LEMMA BlockFreed ==
    ASSUME MpBlocks, NEW c \in used, mp' = Freed(c), used' = used \ {c}
    PROVE  /\ MpBlocks' /\ mp'.block_free_count = mp.block_free_count + 1 /\ mp'.obj = mp.obj
           /\ mp'.suspend_thread_count =
                IF mp.suspend_thread_count > 0 THEN mp.suspend_thread_count - 1 ELSE 0
<1>1. PICK s : /\ Leads(mp.header, mp.block_list, NoChunk, s)
               /\ Range(s) = Range(Chunk) \ used
               /\ mp.block_free_count = Len(s)
  BY DEF MpBlocks
<1>2. s \in Seq(Range(Chunk)) /\ c \in Range(Chunk) /\ c \notin Range(s)
  BY <1>1 DEF Leads, MpBlocks
<1>3. /\ Range(<<c>> \o s) = Range(s) \cup {c} /\ Len(<<c>> \o s) = Len(s) + 1
  BY <1>2, ConsProperties
<1>5. /\ mp'.header = [mp.header EXCEPT ![c] = mp.block_list] /\ mp'.block_list = c
      /\ mp'.block_free_count = mp.block_free_count + 1 /\ mp'.obj = mp.obj
      /\ mp'.suspend_thread_count =
           (IF mp.suspend_thread_count > 0 THEN mp.suspend_thread_count - 1 ELSE 0)
      /\ mp' = [header |-> mp'.header, block_list |-> mp'.block_list,
                block_free_count |-> mp'.block_free_count,
                suspend_thread_count |-> mp'.suspend_thread_count, obj |-> mp'.obj]
  BY DEF MpBlocks, Freed
<1>6. /\ DOMAIN mp'.header = Range(Chunk) /\ mp'.header[c] = mp.block_list
      /\ mp'.header = [b \in Range(Chunk) |-> mp'.header[b]]
      /\ \A b \in Range(Chunk) \ {c} : mp'.header[b] = mp.header[b]
  BY <1>2, <1>5 DEF MpBlocks
<1>7. Leads(mp'.header, mp'.block_list, NoChunk, <<c>> \o s)
  <2>1. \A n \in Range(s) : mp'.header[n] = mp.header[n]
    BY <1>1, <1>2, <1>6
  <2>2. DOMAIN mp'.header = DOMAIN mp.header /\ c \in DOMAIN mp.header
    BY <1>2, <1>6 DEF MpBlocks
  <2>. QED
    BY <1>1, <1>2, <1>5, <1>6, <2>1, <2>2, LeadsInFront
<1>8. Range(<<c>> \o s) = Range(Chunk) \ used'
  BY <1>1, <1>2, <1>3
<1>9. used' \subseteq Range(Chunk) /\ \A b \in used' : mp'.header[b] = Pool
  BY <1>6 DEF MpBlocks
<1>10. mp'.block_free_count = Len(<<c>> \o s)
  BY <1>1, <1>3, <1>5
<1>. QED
  BY <1>5, <1>6, <1>7, <1>8, <1>9, <1>10 DEF MpBlocks

\* All blocks of a new pool are free.
LEMMA BlocksStart ==
    /\ NewPool = [header |-> NewPool.header, block_list |-> NewPool.block_list,
                  block_free_count |-> NewPool.block_free_count,
                  suspend_thread_count |-> NewPool.suspend_thread_count, obj |-> NewPool.obj]
    /\ DOMAIN NewPool.header = Range(Chunk)
    /\ NewPool.header = [c \in Range(Chunk) |-> NewPool.header[c]]
    /\ Leads(NewPool.header, NewPool.block_list, NoChunk, Chunk)
    /\ NewPool.block_free_count = Len(Chunk)
    /\ NewPool.obj = "live" /\ NewPool.suspend_thread_count = 0
<1>. DEFINE n == Len(Chunk)
            at(c) == CHOOSE j \in DOMAIN Chunk : Chunk[j] = c
            next == [c \in Range(Chunk) |-> IF at(c) = n THEN NoChunk ELSE Chunk[at(c) + 1]]
<1>1. /\ n \in Nat /\ DOMAIN Chunk = 1 .. n /\ Chunk \in Seq(Range(Chunk)) /\ IsInjective(Chunk)
      /\ Chunk # << >> /\ Head(Chunk) = Chunk[1] /\ NoChunk \notin Range(Chunk)
  BY MemPoolConstants, LenProperties, HeadTailProperties
<1>2. /\ NewPool.header = next /\ NewPool.block_list = Head(Chunk)
      /\ NewPool.block_free_count = n
      /\ NewPool.suspend_thread_count = 0 /\ NewPool.obj = "live"
      /\ NewPool = [header |-> NewPool.header, block_list |-> NewPool.block_list,
                    block_free_count |-> NewPool.block_free_count,
                    suspend_thread_count |-> NewPool.suspend_thread_count, obj |-> NewPool.obj]
  BY DEF NewPool
<1>3. \A i \in 1 .. n : Chunk[i] \in Range(Chunk) /\ at(Chunk[i]) = i
  BY <1>1 DEF IsInjective, Range
<1>4. \A i \in 1 .. n : next[Chunk[i]] = IF i = n THEN NoChunk ELSE Chunk[i + 1]
  <2>. HIDE DEF at
  <2>. QED
    BY <1>3
<1>5. DOMAIN next = Range(Chunk) /\ next = [c \in Range(Chunk) |-> next[c]]
  OBVIOUS
<1>. HIDE DEF next, at
<1>6. Leads(NewPool.header, NewPool.block_list, NoChunk, Chunk)
  BY <1>1, <1>2, <1>4, <1>5 DEF Leads
<1>. QED
  BY <1>1, <1>2, <1>5, <1>6

-----------------------------------------------------------------------------
(* The waiters of the memory pool *)

\* A call record.
MpCall(c) ==
    /\ c = [op |-> c.op, arg |-> c.arg, time |-> c.time, start |-> c.start]
    /\ TimeOK(c)

\* The threads that were resumed and have not looked at the pool yet.
MpComing == {t \in Thread : pc[t] = "retry"} \cup Resumed("rt_mp_alloc")

MpGone == MpDetaching \/ mp.obj = "detached"

\* Whoever is in the list, or looks at the pool again, is in rt_mp_alloc.
MpCallers ==
    /\ call = [t \in Thread |-> call[t]] /\ \A t \in Thread : MpCall(call[t])
    /\ Listed(MpWaiters, "rt_mp_alloc")
    /\ \A t \in Thread : pc[t] = "retry" => call[t].op = "rt_mp_alloc"

\* rt_mp_alloc is only called to wait for ever.
Forever == \A t \in Thread : MpTimes[t] \subseteq {WAITING_FOREVER}

\* The count is never less than there are waiters, and without timeouts it is exact.
MpCounted ==
    LET waiters == Range(k.wait[MpWaiters])
    IN  /\ mp.obj = "live" => /\ mp.suspend_thread_count \in Nat
                              /\ Cardinality(waiters) <= mp.suspend_thread_count
                              /\ Forever => Cardinality(waiters) = mp.suspend_thread_count
        /\ Forever => /\ waiters \cap Range(k.timers) = {}
                      /\ \A t \in Thread : call[t].op = "rt_mp_alloc" => call[t].time <= 0

MpSafe ==
    /\ BlockingInv
    /\ k.lock = 0
    /\ MpBlocks
    /\ MpCallers
    /\ MpCounted
    /\ NoLostBlock
    /\ DetachedPoolIsEmpty

\* What the steps of the pool start from.
LEMMA MpFacts ==
    ASSUME MpSafe
    PROVE  /\ BlockingInv /\ KernelWaits(k) /\ k.lock = 0 /\ MpWaiters \in WaitList
           /\ call = [t \in Thread |-> call[t]] /\ Listed(MpWaiters, "rt_mp_alloc")
           /\ Range(k.wait[MpWaiters]) \subseteq Thread
           /\ k.wait[MpWaiters] = << >> <=> Range(k.wait[MpWaiters]) = {}
           /\ IsFiniteSet(Range(k.wait[MpWaiters])) /\ Cardinality(Range(k.wait[MpWaiters])) \in Nat
           /\ mp.block_free_count \in Nat
           /\ k.timers \in Seq(Thread)
<1>1. BlockingInv /\ KernelWaits(k) /\ k.lock = 0 /\ MpWaiters \in WaitList
  BY MemPoolConstants DEF MpSafe, BlockingInv
<1>2. /\ Range(k.wait[MpWaiters]) \subseteq Thread
      /\ k.wait[MpWaiters] = << >> <=> Range(k.wait[MpWaiters]) = {}
  BY <1>1, WaitersAreThreads
<1>3. IsFiniteSet(Range(k.wait[MpWaiters])) /\ Cardinality(Range(k.wait[MpWaiters])) \in Nat
  BY <1>2, BlockingConstants, FS_Subset, FS_CardinalityType
<1>4. k.timers \in Seq(Thread)
  BY <1>1 DEF KernelWaits, KInv, KernelState
<1>. QED
  BY <1>1, <1>2, <1>3, <1>4, ListedConserved DEF MpSafe, MpCallers

\* The threads that were resumed can be counted.
LEMMA ComingCounted ==
    /\ IsFiniteSet(MpComing) /\ Cardinality(MpComing) \in Nat
    /\ IsFiniteSet(MpComing') /\ Cardinality(MpComing') \in Nat
<1>1. \A S \in SUBSET Thread : IsFiniteSet(S) /\ Cardinality(S) \in Nat
  BY BlockingConstants, FS_Subset, FS_CardinalityType
<1>2. MpComing \in SUBSET Thread /\ MpComing' \in SUBSET Thread
  BY DEF Resumed, MpComing
<1>. QED
  BY <1>1, <1>2

\* Those that do not move stay resumed.
LEMMA ComingStays ==
    ASSUME NEW S, OthersStay(S), \A x \in Thread \ S : pc[x] = "retry" => pc'[x] = "retry"
    PROVE  MpComing \ S \subseteq MpComing'
  BY DEF MpComing, OthersStay

\* Nobody new waits, and nobody who was resumed has gone on.
LEMMA BlocksStill ==
    ASSUME MpSafe, mp'.block_free_count = mp.block_free_count, MpComing \subseteq MpComing',
           k'.wait[MpWaiters] # << >> => k.wait[MpWaiters] # << >>
    PROVE  NoLostBlock'
<1>. DEFINE P == MpComing
<1>1. Cardinality(P) <= Cardinality(P') /\ Cardinality(P) \in Nat /\ Cardinality(P') \in Nat
  BY ComingCounted, FS_Subset
<1>2. k'.wait[MpWaiters] # << >> => mp.block_free_count <= Cardinality(P)
  BY DEF MpSafe, NoLostBlock, MpComing
<1>. HIDE DEF P
<1>3. k'.wait[MpWaiters] # << >> => mp'.block_free_count <= Cardinality(P')
  BY <1>1, <1>2, MpFacts
<1>. QED
  BY <1>3 DEF NoLostBlock, P, MpComing

\* For a block more one waiter more was resumed.
LEMMA BlocksMore ==
    ASSUME MpSafe, mp'.block_free_count = mp.block_free_count + 1, NEW S, OthersStay(S),
           \A x \in Thread \ S : pc[x] = "retry" => pc'[x] = "retry",
           WokeFor(MpWaiters, "rt_mp_alloc", S), S \cap MpComing = {}
    PROVE  NoLostBlock'
<1>. DEFINE P == MpComing
<1>1. P \subseteq P' /\ IsFiniteSet(P) /\ IsFiniteSet(P')
  BY ComingStays, ComingCounted
<1>2. ASSUME k'.wait[MpWaiters] # << >> PROVE mp'.block_free_count <= Cardinality(P')
  <2>1. PICK h \in P' : h \notin P
    <3>1. PICK h \in Resumed("rt_mp_alloc")' : h \notin Resumed("rt_mp_alloc") \cup S
      BY <1>2 DEF WokeFor
    <3>2. pc'[h] \in {"wait", "woken"} /\ h \in Thread \ S
      BY <3>1 DEF Resumed
    <3>3. pc[h] # "retry"
      BY <3>2
    <3>. QED
      BY <3>1, <3>3 DEF MpComing
  <2>2. P \cup {h} \subseteq P'
    BY <1>1, <2>1
  <2>3. Cardinality(P \cup {h}) = Cardinality(P) + 1 /\ Cardinality(P \cup {h}) <= Cardinality(P')
    BY <1>1, <2>1, <2>2, FS_AddElement, FS_Subset
  <2>4. mp.block_free_count <= Cardinality(P)
    <3>1. k.wait[MpWaiters] # << >>
      BY <1>2, MpFacts, StaysEmpty
    <3>. QED
      BY <3>1 DEF MpSafe, NoLostBlock, MpComing
  <2>5. Cardinality(P) \in Nat /\ Cardinality(P') \in Nat
    BY ComingCounted
  <2>. HIDE DEF P
  <2>. QED
    BY <2>3, <2>4, <2>5, MpFacts
<1>. QED
  BY <1>2 DEF NoLostBlock, MpComing

\* A block less allows one of the resumed threads to go on.
LEMMA BlocksLess ==
    ASSUME MpSafe, mp'.block_free_count = mp.block_free_count - 1, NEW t, OthersStay({t}),
           \A x \in Thread \ {t} : pc[x] = "retry" => pc'[x] = "retry"
    PROVE  NoLostBlock'
<1>. DEFINE P == MpComing
<1>1. P \ {t} \subseteq P' /\ IsFiniteSet(P) /\ IsFiniteSet(P')
  BY ComingStays, ComingCounted
<1>2. ASSUME k'.wait[MpWaiters] # << >> PROVE mp'.block_free_count <= Cardinality(P')
  <2>1. mp.block_free_count <= Cardinality(P)
    <3>1. k.wait[MpWaiters] # << >>
      BY <1>2, MpFacts, StaysEmpty
    <3>. QED
      BY <3>1 DEF MpSafe, NoLostBlock, MpComing
  <2>2. Cardinality(P) \in Nat /\ Cardinality(P') \in Nat
    BY ComingCounted
  <2>. HIDE DEF P
  <2>3. /\ IsFiniteSet(P \ {t})
        /\ Cardinality(P \ {t}) = IF t \in P THEN Cardinality(P) - 1 ELSE Cardinality(P)
    BY <1>1, FS_RemoveElement
  <2>4. Cardinality(P \ {t}) <= Cardinality(P') /\ Cardinality(P \ {t}) \in Nat
    BY <1>1, <2>3, FS_Subset, FS_CardinalityType
  <2>. QED
    BY <2>1, <2>2, <2>3, <2>4, MpFacts
<1>. QED
  BY <1>2 DEF NoLostBlock, MpComing

\* Waking a waiter takes him, and no one else, from the list.
LEMMA WaiterGone ==
    ASSUME KernelWaits(k), NEW h, NEW e, Wakes(k, k', h, e), NEW w \in WaitList
    PROVE  /\ Range(k'.wait[w]) = Range(k.wait[w]) \ {h}
           /\ Range(k'.timers) = Range(k.timers) \ {h}
<1>1. k.wait \in [WaitList -> Seq(Thread)] /\ k.timers \in Seq(Thread)
      /\ IsInjective(k.wait[w]) /\ IsInjective(k.timers)
  BY DEF KernelWaits, KInv, KernelState, WaitsExact
<1>2. k'.wait[w] = RemoveFirst(k.wait[w], h) /\ k'.timers = RemoveFirst(k.timers, h)
  BY DEF Wakes, WithoutWaiter
<1>. QED
  BY <1>1, <1>2, RemoveFirstOnce

\* The count and the waiters both grow, or shrink, by one.
LEMMA WaitersCounted ==
    ASSUME MpSafe, NEW h
    PROVE  LET q == Range(k.wait[MpWaiters])
           IN  /\ h \in q => Cardinality(q \ {h}) = Cardinality(q) - 1 /\ Cardinality(q) > 0
               /\ h \notin q => Cardinality(q \cup {h}) = Cardinality(q) + 1
<1>. DEFINE q == Range(k.wait[MpWaiters])
<1>1. IsFiniteSet(q) /\ Cardinality(q) \in Nat
  BY MpFacts
<1>. HIDE DEF q
<1>2. h \notin q => Cardinality(q \cup {h}) = Cardinality(q) + 1
  BY <1>1, FS_AddElement
<1>3. ASSUME h \in q PROVE Cardinality(q \ {h}) = Cardinality(q) - 1 /\ Cardinality(q) > 0
  <2>1. IsFiniteSet(q \ {h}) /\ Cardinality(q \ {h}) = Cardinality(q) - 1
    BY <1>1, <1>3, FS_RemoveElement
  <2>2. Cardinality(q \ {h}) \in Nat
    BY <2>1, FS_CardinalityType
  <2>. QED
    BY <1>1, <2>1, <2>2
<1>. QED
  BY <1>2, <1>3 DEF q

-----------------------------------------------------------------------------
(* The steps of the memory pool *)

\* Nobody new looks at the pool.
LEMMA MpCallersStay ==
    ASSUME MpSafe, NEW S, OthersStay(S), call' = call,
           \A v \in WaitList : Range(k.wait[v]) \cap S = {},
           \A x \in Thread : pc'[x] = "retry" <=> pc[x] = "retry"
    PROVE  MpCallers'
<1>1. Listed(MpWaiters, "rt_mp_alloc")'
  BY MpFacts, StillListed
<1>. QED
  BY <1>1 DEF MpSafe, MpCallers

\* The caller moves on in its call, and resumes nobody.
LEMMA MpMoves ==
    ASSUME MpSafe, NEW t, t = k.cur, t # Idle, pc[t] \notin {"wait", "sleep"}, k' = k,
           NEW at \in {"run", "retry", "wake"}, Moves(t, at),
           NEW c, call' = [call EXCEPT ![t] = c], MpCall(c),
           at = "retry" => c.op = "rt_mp_alloc",
           Forever /\ c.op = "rt_mp_alloc" => c.time <= 0,
           mp'.suspend_thread_count = mp.suspend_thread_count, mpLate => mpLate',
           \/ mp'.obj = mp.obj
           \/ mp'.obj = "detached" /\ k.wait[MpWaiters] = << >>
    PROVE  /\ BlockingInv' /\ k'.lock = 0 /\ OthersStay({t}) /\ t \in Thread
           /\ \A x \in Thread \ {t} : pc'[x] = pc[x]
           /\ pc'[t] = at /\ call'[t] = c
           /\ MpCallers' /\ MpCounted' /\ DetachedPoolIsEmpty'
<1>1. /\ t \in Thread /\ \A v \in WaitList : Range(k.wait[v]) \cap {t} = {}
  BY MpFacts, CallerWaitsNowhere
<1>2. BlockingInv' /\ OthersStay({t})
  BY <1>1, MpFacts, CallerMoves
<1>3. /\ \A x \in Thread \ {t} : pc'[x] = pc[x] /\ call'[x] = call[x]
      /\ pc'[t] = at /\ call'[t] = c /\ call' = [x \in Thread |-> call'[x]]
  BY <1>1, MpFacts DEF BlockingInv, Moves
<1>4. Listed(MpWaiters, "rt_mp_alloc")'
  BY <1>1, <1>2, <1>3, MpFacts, StillListed
<1>5. \A x \in Thread : MpCall(call'[x])
  BY <1>3 DEF MpSafe, MpCallers
<1>6. \A x \in Thread : pc'[x] = "retry" => call'[x].op = "rt_mp_alloc"
  BY <1>3 DEF MpSafe, MpCallers
<1>8. MpCounted'
  <2>1. Forever => \A x \in Thread : call'[x].op = "rt_mp_alloc" => call'[x].time <= 0
    BY <1>3 DEF MpSafe, MpCounted
  <2>2. mp'.obj = "live" => mp.obj = "live"
    OBVIOUS
  <2>. QED
    BY <2>1, <2>2 DEF MpSafe, MpCounted, Forever
<1>9. DetachedPoolIsEmpty'
  BY DEF MpSafe, DetachedPoolIsEmpty
<1>. QED
  BY <1>1, <1>2, <1>3, <1>4, <1>5, <1>6, <1>8, <1>9, MpFacts DEF MpCallers

\* A call that ends without a block and without waiting.
LEMMA MpReturns ==
    ASSUME MpSafe, NEW t, t = k.cur, t # Idle, pc[t] \notin {"wait", "sleep"},
           Return(t), UNCHANGED <<isr, mp, used>>, mpLate => mpLate',
           mp.block_free_count = 0 \/ t \notin MpComing
    PROVE  MpSafe'
<1>1. k' = k /\ Moves(t, "run") /\ call' = [call EXCEPT ![t] = NoCall]
  BY DEF Return, Leave, Goto, Moves
<1>2. /\ BlockingInv' /\ k'.lock = 0 /\ OthersStay({t}) /\ t \in Thread
      /\ \A x \in Thread \ {t} : pc'[x] = pc[x]
      /\ MpCallers' /\ MpCounted' /\ DetachedPoolIsEmpty'
  <2>1. MpCall(NoCall) /\ NoCall.op = "none"
    BY NoTime DEF MpCall, NoCall
  <2>. QED
    BY <1>1, <2>1, MpMoves
<1>3. MpBlocks'
  BY DEF MpSafe, MpBlocks
<1>4. NoLostBlock'
  <2>1. CASE mp.block_free_count = 0
    <3>1. 0 <= Cardinality(MpComing')
      BY ComingCounted
    <3>. QED
      BY <2>1, <3>1 DEF NoLostBlock, MpComing
  <2>2. CASE t \notin MpComing
    <3>1. MpComing \subseteq MpComing'
      BY <1>2, <2>2, ComingStays
    <3>. QED
      BY <1>1, <3>1, BlocksStill
  <2>. QED
    BY <2>1, <2>2
<1>. QED
  BY <1>2, <1>3, <1>4 DEF MpSafe

\* A caller that finds no block joins the list, in front.
LEMMA MpWaitSafe ==
    ASSUME MpSafe, ~MpGone \/ mpLate', mpLate => mpLate', NEW t, t = k.cur, t # Idle, pc[t] \notin {"wait", "sleep"},
           NEW c, MpCall(c), c.op = "rt_mp_alloc", Forever => c.time <= 0,
           mp.block_free_count = 0, MpWait(t, c), isr' = isr
    PROVE  MpSafe'
<1>. DEFINE d == [c EXCEPT !.start = IF c.time > 0 THEN k.tick ELSE 0]
            s == rt_thread_suspend(WithError(k, t, EOK), t)
            list == <<t>> \o k.wait[MpWaiters]
            v == [s EXCEPT !.wait[MpWaiters] = list]
            q == Range(k.wait[MpWaiters])
<1>1. /\ d.op = "rt_mp_alloc" /\ MpCall(d) /\ d.time = c.time
      /\ call' = [call EXCEPT ![t] = d]
  <2>1. /\ d.op = c.op /\ d.time = c.time /\ d.start \in {k.tick, 0}
        /\ d = [op |-> d.op, arg |-> d.arg, time |-> d.time, start |-> d.start]
    BY DEF MpCall
  <2>2. k.tick \in Int
    BY RestIsTime DEF MpSafe, MpCall
  <2>3. call' = [call EXCEPT ![t] = d]
    BY DEF MpWait
  <2>. HIDE DEF d
  <2>. QED
    BY <2>1, <2>2, <2>3 DEF MpCall, TimeOK
<1>. HIDE DEF d
<1>2. /\ t \in Thread /\ k.stat[t] = READY /\ KInv(k, {})
      /\ \A w \in WaitList : Range(k.wait[w]) \cap {t} = {}
      /\ k.wait[MpWaiters] \in Seq(Thread) /\ IsInjective(k.wait[MpWaiters])
  <2>1. KernelWaits(k) /\ MpWaiters \in WaitList
    BY MpFacts
  <2>2. k.wait[MpWaiters] \in Seq(Thread)
    BY <2>1, WaitersAreThreads
  <2>3. IsInjective(k.wait[MpWaiters]) /\ KInv(k, {})
    BY <2>1 DEF KernelWaits, WaitsExact
  <2>. QED
    BY <2>2, <2>3, MpFacts, CallerWaitsNowhere
<1>3. /\ list \in Seq(Thread) /\ IsInjective(list) /\ Range(list) = q \cup {t}
  <2>1. t \notin q
    BY <1>2, MpFacts
  <2>. HIDE DEF q
  <2>. QED
    BY <1>2, <2>1, PrependOnce, PrependRange DEF q
<1>4. k' = IF c.time > 0 THEN rt_timer_start(v, t, c.time) ELSE v
  <2>1. s.wait = k.wait
    <3>1. ErrorOnly(k, WithError(k, t, EOK), t, EOK)
      BY <1>2, ErrorSet
    <3>2. Suspends(WithError(k, t, EOK), s, t)
      BY <1>2, <3>1, CurrentSuspends DEF ErrorOnly
    <3>. QED
      BY <3>1, <3>2 DEF ErrorOnly, Suspends
  <2>2. k' = LET listed == [s EXCEPT !.wait[MpWaiters] = <<t>> \o @]
             IN  IF c.time > 0 THEN rt_timer_start(listed, t, c.time) ELSE listed
    BY DEF MpWait, WithError
  <2>. HIDE DEF s
  <2>3. [s EXCEPT !.wait[MpWaiters] = <<t>> \o @] = v
    BY <2>1
  <2>. QED
    BY <2>2, <2>3
<1>5. Joins(k, k', MpWaiters, t, list, c.time)
  <2>. HIDE DEF list
  <2>1. c.time \in Int
    BY DEF MpCall, TimeOK
  <2>. QED
    BY <1>2, <1>3, <1>4, <2>1, MpFacts, WaiterJoins DEF q
<1>. HIDE DEF s, v, list
<1>6. Moves(t, "wait")
  BY DEF MpWait, Goto, Moves
<1>7. /\ BlockingInv' /\ k'.lock = 0
      /\ \A op : Resumed(op) \ {t} \subseteq Resumed(op)'
      /\ Listed(MpWaiters, "rt_mp_alloc")'
  <2>1. /\ BlockingInv' /\ k'.lock = k.lock
        /\ \A op : Resumed(op) \ {t} \subseteq Resumed(op)'
        /\ \A w \in WaitList : \A op :
             Listed(w, op) /\ (w = MpWaiters => d.op = op) => Listed(w, op)'
    <3>1. /\ BlockingInv /\ k.lock = 0 /\ MpWaiters \in WaitList
          /\ call = [x \in Thread |-> call[x]]
      BY MpFacts
    <3>. QED
      BY <1>1, <1>5, <1>6, <3>1, CallerJoins
  <2>. QED
    BY <1>1, <2>1, MpFacts
<1>8. /\ \A x \in Thread \ {t} : pc'[x] = pc[x] /\ call'[x] = call[x]
      /\ pc'[t] = "wait" /\ call'[t] = d /\ call' = [x \in Thread |-> call'[x]]
  BY <1>1, <1>2, <1>6, MpFacts DEF BlockingInv, Moves
<1>9. /\ mp' = [mp EXCEPT !.suspend_thread_count = @ + 1] /\ used' = used
      /\ mp'.obj = mp.obj /\ mp'.block_free_count = mp.block_free_count
      /\ mp'.suspend_thread_count = mp.suspend_thread_count + 1
      /\ MpBlocks'
  <2>1. mp' = [mp EXCEPT !.suspend_thread_count = @ + 1] /\ used' = used
    BY DEF MpWait
  <2>2. /\ mp'.header = mp.header /\ mp'.block_list = mp.block_list
        /\ mp'.block_free_count = mp.block_free_count /\ mp'.obj = mp.obj
        /\ mp'.suspend_thread_count = mp.suspend_thread_count + 1
        /\ mp' = [header |-> mp'.header, block_list |-> mp'.block_list,
                  block_free_count |-> mp'.block_free_count,
                  suspend_thread_count |-> mp'.suspend_thread_count, obj |-> mp'.obj]
    BY <2>1 DEF MpSafe, MpBlocks
  <2>. QED
    BY <2>1, <2>2 DEF MpSafe, MpBlocks
<1>11. MpCallers'
  BY <1>1, <1>7, <1>8 DEF MpSafe, MpCallers
<1>12. NoLostBlock' /\ DetachedPoolIsEmpty'
  <2>1. 0 <= Cardinality(MpComing')
    BY ComingCounted
  <2>. QED
    BY <1>9, <2>1 DEF NoLostBlock, MpComing, DetachedPoolIsEmpty, MpGone
<1>13. MpCounted'
  <2>1. Range(k'.wait[MpWaiters]) = q \cup {t} /\ t \notin q
    BY <1>2, <1>5, MpFacts DEF Joins
  <2>2. Cardinality(q \cup {t}) = Cardinality(q) + 1 /\ Cardinality(q) \in Nat
    BY <2>1, WaitersCounted, MpFacts
  <2>3. /\ Forever => Range(k'.timers) = Range(k.timers) /\ t \notin Range(k.timers)
    <3>1. t \notin Range(k.timers)
      BY <1>2, StatesDiffer DEF KInv
    <3>2. Forever => ~(c.time > 0)
      BY DEF MpCall, TimeOK
    <3>. QED
      BY <1>5, <3>1, <3>2 DEF Joins
  <2>4. Forever => Range(k'.wait[MpWaiters]) \cap Range(k'.timers) = {}
    BY <2>1, <2>3 DEF MpSafe, MpCounted
  <2>5. Forever => \A x \in Thread : call'[x].op = "rt_mp_alloc" => call'[x].time <= 0
    BY <1>1, <1>8 DEF MpSafe, MpCounted
  <2>6. mp'.obj = "live" => /\ mp'.suspend_thread_count \in Nat
                            /\ Cardinality(q) + 1 <= mp'.suspend_thread_count
                            /\ Forever => Cardinality(q) + 1 = mp'.suspend_thread_count
    BY <1>9, <2>2 DEF MpSafe, MpCounted
  <2>. HIDE DEF q
  <2>. QED
    BY <2>1, <2>2, <2>4, <2>5, <2>6 DEF MpCounted, Forever
<1>. QED
  BY <1>7, <1>9, <1>11, <1>12, <1>13 DEF MpSafe


\* The loop of rt_mp_alloc.
LEMMA MpLoopSafe ==
    ASSUME MpSafe, ~MpGone \/ mpLate', mpLate => mpLate', NEW t, t = k.cur, t # Idle, pc[t] \notin {"wait", "sleep"},
           NEW c, MpCall(c), c.op = "rt_mp_alloc", Forever => c.time <= 0,
           MpLoop(t, c), isr' = isr
    PROVE  MpSafe'
<1>1. CASE mp.block_free_count = 0 /\ c.time = 0
  <2>1. Return(t) /\ UNCHANGED <<isr, mp, used>>
    BY <1>1 DEF MpLoop
  <2>. QED
    BY <1>1, <2>1, MpReturns
<1>2. CASE mp.block_free_count = 0 /\ c.time # 0
  BY <1>2, MpWaitSafe DEF MpLoop
<1>3. CASE mp.block_free_count # 0
  <2>1. UnlinkBlock /\ used' = used \cup {mp.block_list} /\ Return(t)
    BY <1>3 DEF MpLoop
  <2>2. /\ MpBlocks' /\ mp'.block_free_count = mp.block_free_count - 1 /\ mp'.obj = mp.obj
        /\ mp'.suspend_thread_count = mp.suspend_thread_count
    BY <1>3, <2>1, BlockTaken DEF MpSafe
  <2>3. /\ k' = k /\ Moves(t, "run") /\ call' = [call EXCEPT ![t] = NoCall]
        /\ MpCall(NoCall) /\ NoCall.op = "none"
    BY <2>1, NoTime DEF Return, Leave, Goto, Moves, MpCall, NoCall
  <2>4. /\ BlockingInv' /\ k'.lock = 0 /\ OthersStay({t}) /\ t \in Thread
        /\ \A x \in Thread \ {t} : pc'[x] = pc[x]
        /\ MpCallers' /\ MpCounted' /\ DetachedPoolIsEmpty'
    BY <2>2, <2>3, MpMoves
  <2>5. NoLostBlock'
    BY <2>2, <2>4, BlocksLess
  <2>. QED
    BY <2>2, <2>4, <2>5 DEF MpSafe
<1>. QED
  BY <1>1, <1>2, <1>3

\* A caller that was woken with a result leaves; one that was resumed is in use of
\* the pool and tests again.
LEMMA MpResumedSafe ==
    ASSUME MpSafe, NEW t \in Thread, MpResumed(t)
    PROVE  MpSafe'
<1>1. /\ t = k.cur /\ t # Idle /\ pc[t] = "woken" /\ call[t].op = "rt_mp_alloc"
      /\ UNCHANGED <<isr, mp, used, mpLate>> /\ k.stat[t] = READY
  <2>1. t = k.cur /\ pc[t] = "woken" /\ pc[Idle] = "run"
    BY MpFacts DEF MpResumed, Woken, Continues, Executes, BlockingInv
  <2>. QED
    BY <2>1, MpFacts, CallerIsReady DEF MpResumed, Woken
<1>2. CASE Failed(t)
  <2>1. Return(t)
    BY <1>2 DEF MpResumed
  <2>2. t \notin MpComing
    BY <1>1, <1>2 DEF MpComing, Resumed, Failed
  <2>. QED
    BY <1>1, <2>1, <2>2, MpReturns
<1>3. CASE ~Failed(t)
  <2>. DEFINE c == Rested(t)
  <2>1. k' = k /\ Moves(t, "retry") /\ call' = [call EXCEPT ![t] = c]
    BY <1>1, <1>3 DEF MpResumed, Goto, Moves
  <2>2. MpCall(c) /\ c.op = "rt_mp_alloc" /\ (Forever => c.time <= 0)
    <3>1. MpCall(call[t]) /\ Rest(call[t]) \in Int
      BY RestIsTime DEF MpSafe, MpCallers, MpCall
    <3>2. Forever => Rest(call[t]) <= 0
      BY <1>1 DEF MpSafe, MpCounted, Rest
    <3>3. /\ c = [op |-> c.op, arg |-> c.arg, time |-> c.time, start |-> c.start]
          /\ c.op = call[t].op /\ c.time = Rest(call[t]) /\ c.start = call[t].start
      BY <3>1 DEF Rested, MpCall
    <3>. QED
      BY <1>1, <3>1, <3>2, <3>3 DEF MpCall, TimeOK
  <2>. HIDE DEF c
  <2>4. /\ BlockingInv' /\ k'.lock = 0 /\ OthersStay({t})
        /\ \A x \in Thread \ {t} : pc'[x] = pc[x]
        /\ pc'[t] = "retry"
        /\ MpCallers' /\ MpCounted' /\ DetachedPoolIsEmpty'
    BY <1>1, <2>1, <2>2, MpMoves
  <2>5. MpComing \subseteq MpComing'
    <3>1. MpComing \ {t} \subseteq MpComing'
      BY <2>4, ComingStays
    <3>2. t \in MpComing'
      BY <2>4 DEF MpComing
    <3>. QED
      BY <3>1, <3>2
  <2>6. NoLostBlock' /\ MpBlocks'
    BY <1>1, <2>1, <2>5, BlocksStill DEF MpSafe, MpBlocks
  <2>. QED
    BY <2>4, <2>6 DEF MpSafe
<1>. QED
  BY <1>2, <1>3

\* The clock, sleeps and context switches.
LEMMA MpKernelSafe ==
    ASSUME MpSafe, IpcKernelStep, UNCHANGED <<mp, used, mpLate>>
    PROVE  MpSafe'
<1>1. BlockingInv' /\ Quiet /\ call' = call /\ k'.lock = 0
  BY MpFacts, BlockingStep DEF IpcKernelStep, Quiet
<1>2. OthersStay({}) /\ \A op : Resumed(op)' \subseteq Resumed(op)
  BY <1>1, MpFacts, KernelResumesNobody
<1>3. \A x \in Thread : pc'[x] = "retry" <=> pc[x] = "retry"
  BY <1>1 DEF Quiet
<1>4. MpCallers'
  BY <1>1, <1>2, <1>3, MpCallersStay
<1>5. k'.wait[MpWaiters] # << >> => k.wait[MpWaiters] # << >>
  BY <1>2, MpFacts, StaysEmpty
<1>6. NoLostBlock' /\ DetachedPoolIsEmpty' /\ MpBlocks'
  <2>1. MpComing \subseteq MpComing'
    BY <1>2, <1>3, ComingStays
  <2>. QED
    BY <1>5, <2>1, BlocksStill DEF MpSafe, DetachedPoolIsEmpty, MpBlocks
<1>7. MpCounted'
  <2>. DEFINE q == Range(k.wait[MpWaiters])
              r == Range(k'.wait[MpWaiters])
  <2>1. r \subseteq q /\ IsFiniteSet(q) /\ Cardinality(q) \in Nat
    BY <1>2, MpFacts DEF OthersStay
  <2>2. Cardinality(r) \in Nat /\ Cardinality(r) <= Cardinality(q)
    BY <2>1, FS_Subset, FS_CardinalityType
  <2>3. Forever => r = q
    <3>1. CASE NobodyLeaves
      BY <3>1 DEF NobodyLeaves
    <3>2. CASE \E x \in Thread : TimesOut(x)
      <4>1. PICK x \in Thread : TimesOut(x)
        BY <3>2
      <4>2. r = q \ {x} /\ x \in Range(k.timers)
        BY <4>1, MpFacts, WaiterGone DEF TimesOut
      <4>. QED
        BY <4>2 DEF MpSafe, MpCounted
    <3>. QED
      BY <1>1, <3>1, <3>2 DEF Quiet
  <2>4. Forever => r \cap Range(k'.timers) = {}
    <3>1. \A x \in r : pc'[x] \in {"wait", "woken"}
      BY <1>1, MpFacts DEF BlockingInv
    <3>2. \A x \in Range(k'.timers) : x \in Range(k.timers) \/ pc'[x] = "sleep"
      BY <1>1 DEF Quiet
    <3>. QED
      BY <2>1, <3>1, <3>2 DEF MpSafe, MpCounted
  <2>. HIDE DEF q, r
  <2>5. mp.obj = "live" => /\ mp.suspend_thread_count \in Nat
                           /\ Cardinality(q) <= mp.suspend_thread_count
                           /\ Forever => Cardinality(q) = mp.suspend_thread_count
    BY DEF MpSafe, MpCounted, q
  <2>6. Forever' = Forever
    BY DEF Forever
  <2>7. Forever => \A x \in Thread : call'[x].op = "rt_mp_alloc" => call'[x].time <= 0
    BY <1>1 DEF MpSafe, MpCounted
  <2>8. mp.obj = "live" => /\ mp.suspend_thread_count \in Nat
                           /\ Cardinality(r) <= mp.suspend_thread_count
                           /\ Forever => Cardinality(r) = mp.suspend_thread_count
    BY <2>1, <2>2, <2>3, <2>5
  <2>. QED
    BY <2>4, <2>6, <2>7, <2>8 DEF MpCounted, r
<1>. QED
  BY <1>1, <1>4, <1>6, <1>7 DEF MpSafe


\* What rt_mp_free does to the kernel: the first waiter is resumed, if there is one.
LEMMA FreeWakes ==
    ASSUME MpSafe, mp.obj = "live", NEW c, MayFree(c)
    PROVE  /\ WakeWaiter = WakeFirst(k, MpWaiters)
           /\ mp.suspend_thread_count = 0 <=> k.wait[MpWaiters] = << >>
           /\ mp.suspend_thread_count \in Nat
<1>. DEFINE q == Range(k.wait[MpWaiters])
            h == Head(k.wait[MpWaiters])
<1>1. /\ mp.suspend_thread_count \in Nat /\ Cardinality(q) <= mp.suspend_thread_count
      /\ Cardinality(q) \in Nat /\ IsFiniteSet(q) /\ (k.wait[MpWaiters] = << >> <=> q = {})
  BY MpFacts DEF MpSafe, MpCounted
<1>2. mp.suspend_thread_count = 0 <=> k.wait[MpWaiters] = << >>
  <2>1. ASSUME mp.suspend_thread_count = 0 PROVE k.wait[MpWaiters] = << >>
    <3>. HIDE DEF q
    <3>1. Cardinality(q) = 0
      BY <1>1, <2>1
    <3>. QED
      BY <1>1, <3>1, FS_EmptySet
  <2>2. mp.suspend_thread_count > 0 => k.wait[MpWaiters] # << >>
    BY DEF MayFree
  <2>. QED
    BY <1>1, <2>1, <2>2
<1>3. WakeWaiter = WakeFirst(k, MpWaiters)
  <2>1. CASE k.wait[MpWaiters] = << >>
    BY <1>2, <2>1 DEF WakeWaiter, WakeFirst
  <2>2. CASE k.wait[MpWaiters] # << >>
    <3>1. h \in Thread /\ k.error[h] = EOK /\ k \in KernelState
      <4>1. KernelWaits(k) /\ MpWaiters \in WaitList
        BY MpFacts
      <4>2. h \in Range(k.wait[MpWaiters]) /\ h \in Thread
        BY <2>2, <4>1, HeadWakes
      <4>. HIDE DEF h
      <4>. QED
        BY <4>1, <4>2 DEF KernelWaits, WaitsExact, KInv
    <3>. HIDE DEF h
    <3>2. [k EXCEPT !.error[h] = EOK] = k
      BY <3>1 DEF KernelState
    <3>3. WakeWaiter = rt_ipc_list_resume(k, MpWaiters)
      BY <1>2, <2>2, <3>2 DEF WakeWaiter, h
    <3>. QED
      BY <2>2, <3>3 DEF WakeFirst
  <2>. QED
    BY <2>1, <2>2
<1>. QED
  BY <1>1, <1>2, <1>3

\* The count after a waiter was woken, or after there was none.
LEMMA WokenCounted ==
    ASSUME MpSafe, call' = call, mp'.obj = mp.obj,
           \/ /\ k.wait[MpWaiters] = << >> /\ k'.wait = k.wait /\ k'.timers = k.timers
              /\ mp.obj = "live" => mp.suspend_thread_count = 0 /\ mp'.suspend_thread_count = 0
           \/ /\ \E h \in Range(k.wait[MpWaiters]) : \E e : Wakes(k, k', h, e)
              /\ mp.obj = "live" => mp'.suspend_thread_count = mp.suspend_thread_count - 1
    PROVE  MpCounted'
<1>. DEFINE q == Range(k.wait[MpWaiters])
            r == Range(k'.wait[MpWaiters])
<1>1. Forever => \A x \in Thread : call'[x].op = "rt_mp_alloc" => call'[x].time <= 0
  BY DEF MpSafe, MpCounted
<1>2. mp.obj = "live" => /\ mp.suspend_thread_count \in Nat
                         /\ Cardinality(q) <= mp.suspend_thread_count
                         /\ Forever => Cardinality(q) = mp.suspend_thread_count
  BY DEF MpSafe, MpCounted
<1>3. Forever' = Forever
  BY DEF Forever
<1>4. CASE /\ k.wait[MpWaiters] = << >> /\ k'.wait = k.wait /\ k'.timers = k.timers
           /\ mp.obj = "live" => mp.suspend_thread_count = 0 /\ mp'.suspend_thread_count = 0
  <2>1. r = q
    BY <1>4
  <2>2. Forever => r \cap Range(k'.timers) = {}
    BY <1>4 DEF MpSafe, MpCounted
  <2>. QED
    BY <1>1, <1>2, <1>3, <1>4, <2>1, <2>2 DEF MpCounted
<1>5. CASE /\ \E h \in q : \E e : Wakes(k, k', h, e)
           /\ mp.obj = "live" => mp'.suspend_thread_count = mp.suspend_thread_count - 1
  <2>1. PICK h \in q : \E e : Wakes(k, k', h, e)
    BY <1>5
  <2>2. r = q \ {h} /\ Range(k'.timers) = Range(k.timers) \ {h}
    BY <2>1, MpFacts, WaiterGone
  <2>3. Cardinality(r) = Cardinality(q) - 1 /\ Cardinality(q) > 0 /\ Cardinality(q) \in Nat
    BY <2>1, <2>2, WaitersCounted, MpFacts
  <2>4. Forever => r \cap Range(k'.timers) = {}
    BY <2>2 DEF MpSafe, MpCounted
  <2>. HIDE DEF q, r
  <2>5. mp'.obj = "live" => /\ mp'.suspend_thread_count \in Nat
                            /\ Cardinality(r) <= mp'.suspend_thread_count
                            /\ Forever => Cardinality(r) = mp'.suspend_thread_count
    BY <1>2, <1>5, <2>3
  <2>. QED
    BY <1>1, <1>3, <2>4, <2>5 DEF MpCounted, r
<1>. QED
  BY <1>4, <1>5

\* What freeing a block does to the pool, with the first waiter resumed.
LEMMA FreeSafe ==
    ASSUME MpSafe, mp.obj = "live", NEW c \in used, MayFree(c),
           mp' = Freed(c), used' = used \ {c}, call' = call,
           NEW S, S \cap MpComing = {}, \A v \in WaitList : Range(k.wait[v]) \cap S = {},
           BlockingInv', k'.lock = k.lock, OthersStay(S), WokeFor(MpWaiters, "rt_mp_alloc", S),
           \/ k.wait[MpWaiters] = << >> /\ k' = k
           \/ k.wait[MpWaiters] # << >> /\ \E h \in Range(k.wait[MpWaiters]) : Wakes(k, k', h, EOK),
           \A x \in Thread : pc'[x] = "retry" <=> pc[x] = "retry"
    PROVE  MpSafe'
<1>1. /\ MpBlocks' /\ mp'.block_free_count = mp.block_free_count + 1 /\ mp'.obj = mp.obj
      /\ mp'.suspend_thread_count =
           IF mp.suspend_thread_count > 0 THEN mp.suspend_thread_count - 1 ELSE 0
  BY BlockFreed DEF MpSafe
<1>2. MpCallers'
  BY <1>1, MpCallersStay
<1>3. /\ mp.suspend_thread_count = 0 <=> k.wait[MpWaiters] = << >>
      /\ mp.suspend_thread_count \in Nat
  BY FreeWakes
<1>4. MpCounted'
  <2>1. CASE k.wait[MpWaiters] = << >> /\ k' = k
    <3>1. mp.suspend_thread_count = 0 /\ mp'.suspend_thread_count = 0
      BY <1>1, <1>3, <2>1
    <3>2. k'.wait = k.wait /\ k'.timers = k.timers
      BY <2>1
    <3>. QED
      BY <1>1, <2>1, <3>1, <3>2, WokenCounted
  <2>2. CASE k.wait[MpWaiters] # << >>
             /\ \E h \in Range(k.wait[MpWaiters]) : Wakes(k, k', h, EOK)
    <3>1. mp'.suspend_thread_count = mp.suspend_thread_count - 1
      BY <1>1, <1>3, <2>2
    <3>. QED
      BY <1>1, <2>2, <3>1, WokenCounted
  <2>. QED
    BY <2>1, <2>2
<1>5. NoLostBlock'
  BY <1>1, BlocksMore
<1>6. DetachedPoolIsEmpty'
  BY <1>1 DEF DetachedPoolIsEmpty
<1>. QED
  BY <1>1, <1>2, <1>4, <1>5, <1>6, MpFacts DEF MpSafe

\* A thread frees.
LEMMA MpFreeSafe ==
    ASSUME MpSafe, NEW t \in Thread, rt_mp_free(t)
    PROVE  MpSafe'
<1>1. /\ t = k.cur /\ t # Idle /\ pc[t] = "run" /\ mp.obj = "live"
      /\ k' = WakeWaiter /\ UNCHANGED <<isr, call>>
  BY DEF rt_mp_free, Calls, Executes, MpMayUse
<1>2. PICK at \in {"sched", "run"} : Moves(t, at)
  BY DEF rt_mp_free, Goto, Moves
<1>3. PICK c \in used : MayFree(c) /\ mp' = Freed(c) /\ used' = used \ {c}
  BY DEF rt_mp_free
<1>4. k' = WakeFirst(k, MpWaiters)
  BY <1>1, <1>3, FreeWakes
<1>5. call' = [call EXCEPT ![t] = call[t]]
  BY <1>1, MpFacts
<1>6. /\ BlockingInv' /\ k'.lock = k.lock /\ OthersStay({t})
      /\ WokeFor(MpWaiters, "rt_mp_alloc", {t})
  <2>1. /\ BlockingInv /\ MpWaiters \in WaitList /\ Listed(MpWaiters, "rt_mp_alloc")
        /\ call = [x \in Thread |-> call[x]]
    BY MpFacts
  <2>2. t = k.cur /\ t # Idle /\ pc[t] \notin {"wait", "sleep"}
    BY <1>1
  <2>. QED
    BY <1>2, <1>4, <1>5, <2>1, <2>2, CallerWakes
<1>7. \/ k.wait[MpWaiters] = << >> /\ k' = k
      \/ k.wait[MpWaiters] # << >> /\ \E h \in Range(k.wait[MpWaiters]) : Wakes(k, k', h, EOK)
  <2>1. CASE k.wait[MpWaiters] = << >>
    BY <1>4, <2>1 DEF WakeFirst
  <2>2. CASE k.wait[MpWaiters] # << >>
    <3>1. k' = rt_ipc_list_resume(k, MpWaiters)
      BY <1>4, <2>2 DEF WakeFirst
    <3>. QED
      BY <2>2, <3>1, HeadWakes, MpFacts
  <2>. QED
    BY <2>1, <2>2
<1>8. \A v \in WaitList : Range(k.wait[v]) \cap {t} = {}
  BY <1>1, MpFacts, CallerWaitsNowhere
<1>9. /\ \A x \in Thread : pc'[x] = "retry" <=> pc[x] = "retry"
      /\ {t} \cap MpComing = {}
  BY <1>1, <1>2, MpFacts DEF BlockingInv, Moves, MpComing, Resumed
<1>. QED
  BY <1>1, <1>3, <1>6, <1>7, <1>8, <1>9, FreeSafe

\* A device frees in its interrupt.
LEMMA MpDeviceSafe ==
    ASSUME MpSafe, DeviceFree
    PROVE  MpSafe'
<1>1. mp.obj = "live" /\ UNCHANGED <<pc, isr, call>>
  BY DEF DeviceFree, MpMayUse
<1>2. PICK c \in used : MayFree(c) /\ mp' = Freed(c) /\ used' = used \ {c}
  BY DEF DeviceFree
<1>3. /\ k' = IF k.wait[MpWaiters] = << >> THEN k
              ELSE rt_schedule(rt_ipc_list_resume(k, MpWaiters))
  <2>1. /\ WakeWaiter = WakeFirst(k, MpWaiters)
        /\ mp.suspend_thread_count = 0 <=> k.wait[MpWaiters] = << >>
    BY <1>1, <1>2, FreeWakes
  <2>. QED
    BY <2>1 DEF DeviceFree, WakeFirst
<1>4. /\ BlockingInv' /\ k'.lock = k.lock /\ OthersStay({})
      /\ WokeFor(MpWaiters, "rt_mp_alloc", {})
  BY <1>1, <1>3, MpFacts, DeviceWakes
<1>5. \/ k.wait[MpWaiters] = << >> /\ k' = k
      \/ k.wait[MpWaiters] # << >> /\ \E h \in Range(k.wait[MpWaiters]) : Wakes(k, k', h, EOK)
  <2>1. CASE k.wait[MpWaiters] = << >>
    BY <1>3, <2>1
  <2>2. CASE k.wait[MpWaiters] # << >>
    BY <1>1, <1>3, <2>2, MpFacts, DeviceKeeps
  <2>. QED
    BY <2>1, <2>2
<1>. QED
  BY <1>1, <1>2, <1>4, <1>5, FreeSafe


\* A detach begins, and resumes nobody yet.
LEMMA MpDetachSafe ==
    ASSUME MpSafe, NEW t \in Thread, rt_mp_detach(t)
    PROVE  MpSafe'
<1>. DEFINE c == NewCall("rt_mp_detach", << >>, 0)
<1>1. /\ t = k.cur /\ t # Idle /\ pc[t] = "run" /\ UNCHANGED <<k, isr, mp, used, mpLate>>
      /\ Moves(t, "wake") /\ call' = [call EXCEPT ![t] = c]
      /\ c.op = "rt_mp_detach" /\ MpCall(c)
  BY DEF rt_mp_detach, Calls, Executes, Goto, Moves, NewCall, TimeOK, MpCall
<1>. HIDE DEF c
<1>2. /\ BlockingInv' /\ k'.lock = 0 /\ OthersStay({t})
      /\ \A x \in Thread \ {t} : pc'[x] = pc[x]
      /\ MpCallers' /\ MpCounted' /\ DetachedPoolIsEmpty'
  BY <1>1, MpMoves
<1>3. MpComing \subseteq MpComing'
  <2>1. t \notin MpComing
    BY <1>1 DEF MpComing, Resumed
  <2>. QED
    BY <1>2, <2>1, ComingStays
<1>4. NoLostBlock' /\ MpBlocks'
  BY <1>1, <1>3, BlocksStill DEF MpSafe, MpBlocks
<1>. QED
  BY <1>2, <1>4 DEF MpSafe

\* A detach wakes one waiter after the other with an error, and then the pool is
\* detached.
LEMMA MpDetachStepSafe ==
    ASSUME MpSafe, NEW t \in Thread, MpDetachStep(t)
    PROVE  MpSafe'
<1>1. /\ t = k.cur /\ t # Idle /\ pc[t] = "wake" /\ call[t].op = "rt_mp_detach"
      /\ isr' = isr /\ used' = used /\ mpLate' = mpLate
  <2>1. t = k.cur /\ pc[t] = "wake" /\ pc[Idle] = "run" /\ call[t].op = "rt_mp_detach"
    BY MpFacts DEF MpDetachStep, Continues, Executes, BlockingInv
  <2>. QED
    BY <2>1 DEF MpDetachStep
<1>3. CASE k.wait[MpWaiters] # << >>
  <2>. DEFINE h == Head(k.wait[MpWaiters])
  <2>1. /\ k' = ResumeWithError(k, h) /\ UNCHANGED <<pc, isr, call>>
        /\ mp' = [mp EXCEPT !.suspend_thread_count = @ - 1]
    BY <1>1, <1>3 DEF MpDetachStep
  <2>2. h \in Range(k.wait[MpWaiters])
    BY <1>3, MpFacts, HeadWakes
  <2>. HIDE DEF h
  <2>3. /\ BlockingInv' /\ OthersStay({}) /\ k'.lock = k.lock
        /\ \A op : Resumed(op)' \subseteq Resumed(op)
    BY <1>1, <2>1, <2>2, MpFacts, CallerFails
  <2>4. Wakes(k, k', h, ERROR)
    <3>1. KernelWaits(k) /\ MpWaiters \in WaitList /\ h \in Thread
      BY <2>2, MpFacts
    <3>2. k.stat[h] = SUSPEND
      BY <2>2, <3>1 DEF KernelWaits, WaitsExact
    <3>3. k' = rt_thread_resume(WithError(k, h, ERROR), h)
      BY <2>1 DEF ResumeWithError, WithError
    <3>. QED
      BY <3>1, <3>2, <3>3, ResumeWakes
  <2>5. /\ mp'.header = mp.header /\ mp'.block_list = mp.block_list
        /\ mp'.block_free_count = mp.block_free_count /\ mp'.obj = mp.obj
        /\ mp'.suspend_thread_count = mp.suspend_thread_count - 1
        /\ mp' = [header |-> mp'.header, block_list |-> mp'.block_list,
                  block_free_count |-> mp'.block_free_count,
                  suspend_thread_count |-> mp'.suspend_thread_count, obj |-> mp'.obj]
    BY <2>1 DEF MpSafe, MpBlocks
  <2>6. MpBlocks'
    BY <1>1, <2>5 DEF MpSafe, MpBlocks
  <2>7. MpCallers'
    BY <2>1, <2>3, <2>5, MpCallersStay
  <2>8. MpCounted'
    BY <2>1, <2>2, <2>4, <2>5, WokenCounted
  <2>9. k'.wait[MpWaiters] # << >> => k.wait[MpWaiters] # << >>
    BY <2>3, MpFacts, StaysEmpty
  <2>10. MpComing \subseteq MpComing'
    BY <2>1, <2>3, ComingStays
  <2>11. NoLostBlock' /\ DetachedPoolIsEmpty'
    BY <1>1, <2>5, <2>9, <2>10, BlocksStill DEF MpSafe, DetachedPoolIsEmpty
  <2>. QED
    BY <2>3, <2>6, <2>7, <2>8, <2>11, MpFacts DEF MpSafe
<1>4. CASE k.wait[MpWaiters] = << >>
  <2>1. /\ mp' = [mp EXCEPT !.obj = "detached"] /\ k' = k
        /\ Moves(t, "run") /\ call' = [call EXCEPT ![t] = NoCall]
        /\ MpCall(NoCall) /\ NoCall.op = "none"
    BY <1>1, <1>4, NoTime DEF MpDetachStep, Return, Leave, Goto, Moves, MpCall, NoCall
  <2>2. /\ mp'.header = mp.header /\ mp'.block_list = mp.block_list
        /\ mp'.block_free_count = mp.block_free_count /\ mp'.obj = "detached"
        /\ mp'.suspend_thread_count = mp.suspend_thread_count
        /\ mp' = [header |-> mp'.header, block_list |-> mp'.block_list,
                  block_free_count |-> mp'.block_free_count,
                  suspend_thread_count |-> mp'.suspend_thread_count, obj |-> mp'.obj]
    BY <2>1 DEF MpSafe, MpBlocks
  <2>3. MpBlocks'
    BY <1>1, <2>2 DEF MpSafe, MpBlocks
  <2>4. BlockingInv' /\ k'.lock = 0 /\ MpCallers' /\ MpCounted' /\ DetachedPoolIsEmpty'
    BY <1>1, <1>4, <2>1, <2>2, MpMoves
  <2>5. NoLostBlock'
    BY <1>4, <2>1 DEF NoLostBlock
  <2>. QED
    BY <2>3, <2>4, <2>5 DEF MpSafe
<1>. QED
  BY <1>3, <1>4

\* The pool is initialised again, with nobody in its list.
LEMMA MpInitSafe ==
    ASSUME MpSafe, NEW t \in Thread, rt_mp_init(t)
    PROVE  MpSafe'
<1>1. /\ UNCHANGED <<k, pc, isr, call>> /\ k.wait[MpWaiters] = << >>
      /\ mp' = NewPool /\ used' = {}
  BY DEF rt_mp_init
<1>2. MpBlocks' /\ mp'.obj = "live" /\ mp'.suspend_thread_count = 0
  BY <1>1, BlocksStart DEF MpBlocks
<1>3. BlockingInv' /\ MpCallers'
  BY <1>1 DEF MpSafe, BlockingInv, CurrentMayRun, MpCallers, Listed
<1>4. MpCounted'
  <2>1. Cardinality(Range(k'.wait[MpWaiters])) = 0
    BY <1>1, MpFacts, FS_EmptySet
  <2>. QED
    BY <1>1, <1>2, <2>1 DEF MpSafe, MpCounted, Forever
<1>5. NoLostBlock' /\ DetachedPoolIsEmpty'
  BY <1>1 DEF NoLostBlock, DetachedPoolIsEmpty
<1>. QED
  BY <1>1, <1>2, <1>3, <1>4, <1>5 DEF MpSafe

\* Every step keeps what the pool relies on.
LEMMA MpStep ==
    ASSUME MpSafe, [MemPoolNext]_memPoolVars
    PROVE  MpSafe'
<1>1. CASE UNCHANGED memPoolVars
  <2>1. UNCHANGED <<k, pc, isr, call, mp, used, mpLate>>
    BY <1>1 DEF memPoolVars
  <2>2. BlockingInv' /\ MpBlocks' /\ DetachedPoolIsEmpty'
    BY <2>1 DEF MpSafe, BlockingInv, CurrentMayRun, MpBlocks, DetachedPoolIsEmpty
  <2>3. MpComing' = MpComing
    BY <2>1 DEF MpComing, Resumed
  <2>4. MpCallers' /\ MpCounted'
    BY <2>1 DEF MpSafe, MpCallers, Listed, MpCounted, Forever
  <2>5. NoLostBlock'
    BY <2>1, <2>3, BlocksStill
  <2>. QED
    BY <2>1, <2>2, <2>4, <2>5 DEF MpSafe
<1>2. ASSUME NEW t \in Thread, rt_mp_alloc(t) PROVE MpSafe'
  <2>1. PICK time \in MpTimes[t] : MpLoop(t, NewCall("rt_mp_alloc", << >>, time))
    BY <1>2 DEF rt_mp_alloc
  <2>. DEFINE c == NewCall("rt_mp_alloc", << >>, time)
  <2>2. time \in Int /\ (Forever => time <= 0)
    <3>1. HALF_RANGE \in Int
      BY KernelConstants DEF HALF_RANGE
    <3>. QED
      BY <3>1, MemPoolConstants DEF Forever, WAITING_FOREVER
  <2>3. MpCall(c) /\ c.op = "rt_mp_alloc" /\ (Forever => c.time <= 0) /\ MpLoop(t, c)
    BY <2>1, <2>2 DEF MpCall, TimeOK, NewCall
  <2>. HIDE DEF c
  <2>4. t = k.cur /\ t # Idle /\ pc[t] = "run" /\ isr' = isr /\ ~MpGone /\ mpLate' = mpLate
    BY <1>2 DEF rt_mp_alloc, Calls, Executes, MpMayUse, MpGone
  <2>. QED
    BY <2>3, <2>4, MpLoopSafe
<1>3. ASSUME NEW t \in Thread, MpRetry(t) PROVE MpSafe'
  <2>1. t = k.cur /\ pc[t] = "retry" /\ isr' = isr /\ MpLoop(t, call[t]) /\ t # Idle
    BY <1>3, MpFacts DEF MpRetry, Continues, Executes, BlockingInv
  <2>2. MpCall(call[t]) /\ call[t].op = "rt_mp_alloc"
    BY <2>1 DEF MpSafe, MpCallers
  <2>3. Forever => call[t].time <= 0
    BY <2>2 DEF MpSafe, MpCounted
  <2>4. (~MpGone \/ mpLate') /\ (mpLate => mpLate')
    <3>1. mpLate' = (mpLate \/ ~MpMayUse)
      BY <1>3 DEF MpRetry
    <3>2. MpMayUse => ~MpGone
      BY DEF MpMayUse, MpGone
    <3>. QED
      BY <3>1, <3>2, Zenon
  <2>. QED
    BY <2>1, <2>2, <2>3, <2>4, MpLoopSafe
<1>. QED
  BY <1>1, <1>2, <1>3, MpResumedSafe, MpFreeSafe, MpDetachSafe, MpDetachStepSafe, MpInitSafe,
     MpDeviceSafe, MpKernelSafe DEF MemPoolNext, MemPoolCall

\* All threads are outside their calls, and nobody waits.
LEMMA MpStarts ==
    ASSUME IpcCallInit, MemPoolInit
    PROVE  MpSafe
<1>1. /\ BlockingInv /\ k.wait[MpWaiters] = << >> /\ k.lock = 0 /\ k.timers = << >>
      /\ Range(k.wait[MpWaiters]) = {} /\ \A t \in Thread : pc[t] = "run"
  <2>1. BlockingInv /\ (\A w \in WaitList : k.wait[w] = << >>) /\ MpWaiters \in WaitList
    BY InitBlocking, MemPoolConstants DEF IpcCallInit
  <2>2. KernelWaits(k)
    BY <2>1 DEF BlockingInv
  <2>. QED
    BY <2>1, <2>2, WaitersAreThreads DEF IpcCallInit, BlockingInit
<1>2. MpBlocks /\ mp.obj = "live" /\ mp.suspend_thread_count = 0
  BY BlocksStart DEF MemPoolInit, MpBlocks
<1>3. /\ call = [t \in Thread |-> call[t]]
      /\ \A t \in Thread : MpCall(call[t]) /\ call[t].op = "none"
  BY NoTime DEF IpcCallInit, MpCall, NoCall
<1>4. MpCallers
  BY <1>1, <1>2, <1>3 DEF MpCallers, Listed
<1>5. MpCounted
  <2>. DEFINE q == Range(k.wait[MpWaiters])
  <2>1. q = {} /\ Cardinality(q) = 0
    BY <1>1, FS_EmptySet
  <2>2. \A t \in Thread : call[t].op # "rt_mp_alloc"
    BY <1>3
  <2>3. q \cap Range(k.timers) = {}
    BY <2>1
  <2>. HIDE DEF q
  <2>. QED
    BY <1>2, <2>1, <2>2, <2>3 DEF MpCounted, q
<1>6. NoLostBlock /\ DetachedPoolIsEmpty
  BY <1>1 DEF NoLostBlock, DetachedPoolIsEmpty
<1>. QED
  BY <1>1, <1>2, <1>4, <1>5, <1>6 DEF MpSafe

\* No block of a pool is lost or handed out twice, no thread sleeps while there is a
\* block that nobody was resumed for, and rt_mp_detach leaves nobody asleep but who
\* was resumed before it and slept again: the count of rt_mp_free, with or without
\* timeouts, never misses a waiter.
THEOREM MemPoolIsSafe ==
    MemPoolSpec => [](BlocksConserved /\ NoLostBlock /\ DetachedPoolIsEmpty)
<1>1. IpcCallInit /\ MemPoolInit => MpSafe
  BY MpStarts
<1>2. MpSafe /\ [MemPoolNext]_memPoolVars => MpSafe'
  BY MpStep
<1>3. MpSafe => BlocksConserved /\ NoLostBlock /\ DetachedPoolIsEmpty
  BY ListedConserved DEF MpSafe
<1>. QED
  BY <1>1, <1>2, <1>3, PTL DEF MemPoolSpec

\* Where nobody gives rt_mp_alloc a timeout, suspend_thread_count also is the
\* number of the waiters.
THEOREM MemPoolCountsWaiters ==
    Forever => (MemPoolSpec => []MemPoolInvariant)
<1>. SUFFICES ASSUME Forever PROVE MemPoolSpec => []MemPoolInvariant
  OBVIOUS
<1>1. IpcCallInit /\ MemPoolInit => MpSafe
  BY MpStarts
<1>2. MpSafe /\ [MemPoolNext]_memPoolVars => MpSafe'
  BY MpStep
<1>3. MpSafe => MemPoolInvariant
  <2>1. SUFFICES ASSUME MpSafe PROVE MemPoolInvariant
    OBVIOUS
  <2>2. Cardinality(Range(k.wait[MpWaiters])) = Len(k.wait[MpWaiters])
    <3>1. k.wait[MpWaiters] \in Seq(Thread) /\ IsInjective(k.wait[MpWaiters])
      BY <2>1, MpFacts, WaitersAreThreads DEF KernelWaits, WaitsExact
    <3>. QED
      BY <3>1, InjectiveLen
  <2>3. CountsWaiters
    BY <2>1, <2>2 DEF MpSafe, MpCounted, CountsWaiters
  <2>. QED
    BY <2>1, <2>3, ListedConserved DEF MpSafe, MemPoolInvariant
<1>. QED
  BY <1>1, <1>2, <1>3, PTL DEF MemPoolSpec

=============================================================================
