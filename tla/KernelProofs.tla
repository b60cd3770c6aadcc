---------------------------- MODULE KernelProofs ----------------------------
(***************************************************************************)
(* Facts about the operators on sequences and on sets of numbers that the  *)
(* kernel lists are modelled with, and about rings; and what the functions *)
(* of RtKernel do to a kernel record whose ready queue is exact: they keep *)
(* it exact, and change little else.                                       *)
(***************************************************************************)
EXTENDS RtKernel, SequencesExt, Integers, WellFoundedInduction, SequenceTheorems, TLAPS

\* A nonempty set of natural numbers has the minimum Min chooses: the lowest
\* set bit of the priority bitmap, the first position of a list.
LEMMA MinOfNat ==
    ASSUME NEW S \in SUBSET Nat, S # {}
    PROVE  Min(S) \in S /\ \A y \in S : Min(S) <= y
<1>1. PICK x \in S : \A y \in S : ~(<<y, x>> \in OpToRel(<, Nat))
  BY NatLessThanWellFounded, WFMin
<1>2. \A y \in S : ~(y < x)
  BY <1>1 DEF OpToRel
<1>3. \E z \in S : \A y \in S : z <= y
  BY <1>2
<1>. QED
  BY <1>3 DEF Min

\* Removing the element at position i shifts the ones behind it.
LEMMA RemoveAtSeq ==
    ASSUME NEW T, NEW s \in Seq(T), NEW i \in 1 .. Len(s)
    PROVE  /\ RemoveAt(s, i) \in Seq(T)
           /\ Len(RemoveAt(s, i)) = Len(s) - 1
           /\ \A j \in 1 .. Len(s) - 1 :
                RemoveAt(s, i)[j] = IF j < i THEN s[j] ELSE s[j + 1]
<1>. DEFINE p == SubSeq(s, 1, i - 1)
            q == SubSeq(s, i + 1, Len(s))
<1>0. Len(s) \in Nat /\ \A j \in 1 .. Len(s) : s[j] \in T
  BY LenProperties, ElementOfSeq
<1>1. /\ p \in Seq(T) /\ Len(p) = i - 1
      /\ \A j \in 1 .. i - 1 : p[j] = s[j]
  <2>1. \A j \in 1 .. i - 1 : s[j] \in T
    BY <1>0
  <2>. QED
    BY <1>0, <2>1, SubSeqProperties
<1>2. /\ q \in Seq(T) /\ Len(q) = Len(s) - i
      /\ \A j \in 1 .. Len(s) - i : q[j] = s[i + j]
  <2>1. \A j \in i + 1 .. Len(s) : s[j] \in T
    BY <1>0
  <2>2. /\ q \in Seq(T)
        /\ Len(q) = IF i + 1 <= Len(s) THEN Len(s) - (i + 1) + 1 ELSE 0
        /\ \A j \in 1 .. Len(s) - (i + 1) + 1 : q[j] = s[(i + 1) + j - 1]
    BY <1>0, <2>1, SubSeqProperties
  <2>. QED
    BY <1>0, <2>2
<1>3. /\ p \o q \in Seq(T) /\ Len(p \o q) = Len(p) + Len(q)
      /\ \A j \in 1 .. Len(p) + Len(q) :
            (p \o q)[j] = IF j <= Len(p) THEN p[j] ELSE q[j - Len(p)]
  BY <1>1, <1>2, ConcatProperties
<1>4. RemoveAt(s, i) = p \o q
  BY DEF RemoveAt
<1>. HIDE DEF p, q
<1>5. \A j \in 1 .. Len(s) - 1 :
         (p \o q)[j] = IF j < i THEN s[j] ELSE s[j + 1]
  <2>. TAKE j \in 1 .. Len(s) - 1
  <2>1. CASE j < i
    BY <1>0, <1>1, <1>2, <1>3, <2>1
  <2>2. CASE j >= i
    <3>1. j - Len(p) \in 1 .. Len(s) - i /\ i + (j - Len(p)) = j + 1
      BY <1>0, <1>1, <2>2
    <3>2. q[j - Len(p)] = s[j + 1]
      BY <1>2, <3>1
    <3>3. (p \o q)[j] = q[j - Len(p)]
      BY <1>0, <1>1, <1>2, <1>3, <2>2
    <3>. QED
      BY <2>2, <3>2, <3>3
  <2>3. j < i \/ j >= i
    BY <1>0
  <2>. QED
    BY <2>1, <2>2, <2>3
<1>. QED
  BY <1>0, <1>1, <1>2, <1>3, <1>4, <1>5

\* Inserting at position i shifts the elements from i on.
LEMMA InsertAtSeq ==
    ASSUME NEW T, NEW s \in Seq(T), NEW i \in 1 .. Len(s) + 1, NEW e \in T
    PROVE  /\ InsertAt(s, i, e) \in Seq(T)
           /\ Len(InsertAt(s, i, e)) = Len(s) + 1
           /\ \A j \in 1 .. Len(s) + 1 :
                InsertAt(s, i, e)[j] = IF j < i THEN s[j]
                                       ELSE IF j = i THEN e ELSE s[j - 1]
<1>. DEFINE p == SubSeq(s, 1, i - 1)
            q == SubSeq(s, i, Len(s))
<1>0. Len(s) \in Nat /\ \A j \in 1 .. Len(s) : s[j] \in T
  BY LenProperties, ElementOfSeq
<1>1. /\ p \in Seq(T) /\ Len(p) = i - 1
      /\ \A j \in 1 .. i - 1 : p[j] = s[j]
  <2>1. \A j \in 1 .. i - 1 : s[j] \in T
    BY <1>0
  <2>. QED
    BY <1>0, <2>1, SubSeqProperties
<1>2. /\ q \in Seq(T) /\ Len(q) = Len(s) - i + 1
      /\ \A j \in 1 .. Len(s) - i + 1 : q[j] = s[i + j - 1]
  <2>1. \A j \in i .. Len(s) : s[j] \in T
    BY <1>0
  <2>2. /\ q \in Seq(T)
        /\ Len(q) = IF i <= Len(s) THEN Len(s) - i + 1 ELSE 0
        /\ \A j \in 1 .. Len(s) - i + 1 : q[j] = s[i + j - 1]
    BY <1>0, <2>1, SubSeqProperties
  <2>. QED
    BY <1>0, <2>2
<1>3. /\ <<e>> \in Seq(T) /\ Len(<<e>>) = 1 /\ <<e>>[1] = e
  OBVIOUS
<1>4. /\ p \o <<e>> \in Seq(T) /\ Len(p \o <<e>>) = i
      /\ \A j \in 1 .. i : (p \o <<e>>)[j] = IF j < i THEN s[j] ELSE e
  <2>1. /\ p \o <<e>> \in Seq(T) /\ Len(p \o <<e>>) = Len(p) + 1
        /\ \A j \in 1 .. Len(p) + 1 :
              (p \o <<e>>)[j] = IF j <= Len(p) THEN p[j] ELSE <<e>>[j - Len(p)]
    BY <1>1, <1>3, ConcatProperties
  <2>. HIDE DEF p
  <2>. QED
    BY <1>1, <1>3, <2>1
<1>5. /\ (p \o <<e>>) \o q \in Seq(T)
      /\ Len((p \o <<e>>) \o q) = Len(p \o <<e>>) + Len(q)
      /\ \A j \in 1 .. Len(p \o <<e>>) + Len(q) :
            ((p \o <<e>>) \o q)[j] = IF j <= Len(p \o <<e>>) THEN (p \o <<e>>)[j]
                                     ELSE q[j - Len(p \o <<e>>)]
  BY <1>2, <1>4, ConcatProperties, ZenonT(60)
<1>6. InsertAt(s, i, e) = (p \o <<e>>) \o q
  BY DEF InsertAt
<1>. DEFINE r == p \o <<e>>
<1>. HIDE DEF r, p, q
<1>7. /\ r \o q \in Seq(T)
      /\ Len(r \o q) = Len(r) + Len(q)
      /\ Len(r) = i
      /\ \A j \in 1 .. Len(r) + Len(q) :
            (r \o q)[j] = IF j <= Len(r) THEN r[j] ELSE q[j - Len(r)]
      /\ \A j \in 1 .. i : r[j] = IF j < i THEN s[j] ELSE e
      /\ InsertAt(s, i, e) = r \o q
  BY <1>4, <1>5, <1>6 DEF r
<1>8. \A j \in 1 .. Len(s) + 1 :
         (r \o q)[j] = IF j < i THEN s[j] ELSE IF j = i THEN e ELSE s[j - 1]
  <2>. TAKE j \in 1 .. Len(s) + 1
  <2>1. CASE j <= i
    BY <1>0, <1>2, <1>7, <2>1
  <2>2. CASE j > i
    <3>1. j - Len(r) \in 1 .. Len(s) - i + 1 /\ i + (j - Len(r)) - 1 = j - 1
      BY <1>0, <1>7, <2>2
    <3>2. q[j - Len(r)] = s[j - 1]
      BY <1>2, <3>1
    <3>0. /\ j \in 1 .. Len(r) + Len(q)
          /\ ~(j <= Len(r))
      <4>1. Len(r) = i /\ Len(q) = Len(s) - i + 1
        BY <1>2, <1>7
      <4>. QED
        BY <1>0, <4>1, <2>2
    <3>3. (r \o q)[j] = q[j - Len(r)]
      <4>1. \A m \in 1 .. Len(r) + Len(q) :
              (r \o q)[m] = IF m <= Len(r) THEN r[m] ELSE q[m - Len(r)]
        BY <1>7
      <4>. HIDE <1>7
      <4>. QED
        BY ONLY <3>0, <4>1
    <3>. QED
      BY <2>2, <3>2, <3>3
  <2>3. j <= i \/ j > i
    BY <1>0
  <2>. QED
    BY <2>1, <2>2, <2>3
<1>. QED
  BY <1>0, <1>2, <1>7, <1>8

-----------------------------------------------------------------------------
(* Lists without repetition, which the kernel's linked lists are *)

\* Unlinking leaves a list, of elements that were in it.
LEMMA RemoveFirstSeq ==
    ASSUME NEW T, NEW s \in Seq(T), NEW e
    PROVE  /\ RemoveFirst(s, e) \in Seq(T)
           /\ Range(RemoveFirst(s, e)) \subseteq Range(s)
           /\ e \notin Range(s) => RemoveFirst(s, e) = s
<1>. DEFINE n == Len(s)
            I == {i \in 1 .. n : s[i] = e}
<1>0. n \in Nat /\ DOMAIN s = 1 .. n
  BY LenProperties
<1>1. CASE e \notin Range(s)
  <2>1. ~ \E i \in 1 .. Len(s) : s[i] = e
    BY <1>0, <1>1 DEF Range
  <2>. QED
    BY <1>1, <2>1 DEF RemoveFirst
<1>2. CASE e \in Range(s)
  <2>1. I # {} /\ I \in SUBSET Nat
    BY <1>0, <1>2 DEF Range
  <2>. DEFINE m == Min(I)
              r == RemoveAt(s, m)
  <2>2. m \in 1 .. n
    BY <2>1, MinOfNat
  <2>3. RemoveFirst(s, e) = r
    BY <1>0, <2>1 DEF RemoveFirst, SelectInSeq
  <2>4. /\ r \in Seq(T) /\ Len(r) = n - 1
        /\ \A j \in 1 .. n - 1 : r[j] = IF j < m THEN s[j] ELSE s[j + 1]
    BY <2>2, RemoveAtSeq
  <2>5. DOMAIN r = 1 .. n - 1
    BY <2>4, LenProperties
  <2>. HIDE DEF m, r, I
  <2>6. Range(r) \subseteq Range(s)
    BY <1>0, <2>2, <2>4, <2>5 DEF Range
  <2>. QED
    BY <1>2, <2>3, <2>4, <2>6
<1>. QED
  BY <1>1, <1>2

\* Unlinking takes the element out of the list and nothing else.
LEMMA RemoveFirstOnce ==
    ASSUME NEW T, NEW s \in Seq(T), IsInjective(s), NEW e
    PROVE  /\ RemoveFirst(s, e) \in Seq(T)
           /\ IsInjective(RemoveFirst(s, e))
           /\ Range(RemoveFirst(s, e)) = Range(s) \ {e}
<1>. DEFINE n == Len(s)
            I == {i \in 1 .. n : s[i] = e}
<1>0. n \in Nat /\ DOMAIN s = 1 .. n
  BY LenProperties
<1>1. CASE e \notin Range(s)
  <2>1. ~ \E i \in 1 .. Len(s) : s[i] = e
    BY <1>0, <1>1 DEF Range
  <2>. QED
    BY <1>1, <2>1 DEF RemoveFirst
<1>2. CASE e \in Range(s)
  <2>1. I # {} /\ I \in SUBSET Nat
    BY <1>0, <1>2 DEF Range
  <2>. DEFINE m == Min(I)
              r == RemoveAt(s, m)
  <2>2. m \in 1 .. n /\ s[m] = e
    BY <2>1, MinOfNat
  <2>3. RemoveFirst(s, e) = r
    BY <1>0, <2>1 DEF RemoveFirst, SelectInSeq
  <2>4. /\ r \in Seq(T) /\ Len(r) = n - 1
        /\ \A j \in 1 .. n - 1 : r[j] = IF j < m THEN s[j] ELSE s[j + 1]
    BY <2>2, RemoveAtSeq
  <2>5. DOMAIN r = 1 .. n - 1
    BY <2>4, LenProperties
  <2>. HIDE DEF m, r, I
  <2>6. IsInjective(r)
    <3>. SUFFICES ASSUME NEW a \in 1 .. n - 1, NEW b \in 1 .. n - 1, r[a] = r[b]
                  PROVE  a = b
      BY <2>5 DEF IsInjective
    <3>1. \A x, y \in 1 .. n : s[x] = s[y] => x = y
      BY <1>0 DEF IsInjective
    <3>. QED
      BY <1>0, <2>2, <2>4, <3>1
  <2>7. Range(r) \subseteq Range(s) \ {e}
    <3>. SUFFICES ASSUME NEW j \in 1 .. n - 1
                  PROVE  r[j] \in Range(s) /\ r[j] # e
      BY <2>5 DEF Range
    <3>1. \A x, y \in 1 .. n : s[x] = s[y] => x = y
      BY <1>0 DEF IsInjective
    <3>2. \A x \in 1 .. n : s[x] \in Range(s)
      BY <1>0 DEF Range
    <3>. QED
      BY <1>0, <2>2, <2>4, <3>1, <3>2
  <2>8. Range(s) \ {e} \subseteq Range(r)
    <3>. SUFFICES ASSUME NEW j \in 1 .. n, s[j] # e
                  PROVE  s[j] \in Range(r)
      BY <1>0 DEF Range
    <3>1. CASE j < m
      <4>1. j \in 1 .. n - 1 /\ r[j] = s[j]
        BY <1>0, <2>2, <2>4, <3>1
      <4>. QED
        BY <2>5, <4>1 DEF Range
    <3>2. CASE j > m
      <4>1. j - 1 \in 1 .. n - 1 /\ r[j - 1] = s[j]
        BY <1>0, <2>2, <2>4, <3>2
      <4>. QED
        BY <2>5, <4>1 DEF Range
    <3>. QED
      BY <1>0, <2>2, <3>1, <3>2
  <2>. QED
    BY <2>3, <2>4, <2>6, <2>7, <2>8
<1>. QED
  BY <1>1, <1>2

\* Linking a new element at any position keeps the list free of repetitions.
LEMMA InsertAtOnce ==
    ASSUME NEW T, NEW s \in Seq(T), IsInjective(s), NEW e \in T, e \notin Range(s),
           NEW i \in 1 .. Len(s) + 1
    PROVE  /\ InsertAt(s, i, e) \in Seq(T)
           /\ IsInjective(InsertAt(s, i, e))
           /\ Range(InsertAt(s, i, e)) = Range(s) \cup {e}
<1>. DEFINE n == Len(s)
            r == InsertAt(s, i, e)
<1>0. n \in Nat /\ DOMAIN s = 1 .. n
  BY LenProperties
<1>1. /\ r \in Seq(T) /\ Len(r) = n + 1
      /\ \A j \in 1 .. n + 1 :
            r[j] = IF j < i THEN s[j] ELSE IF j = i THEN e ELSE s[j - 1]
  BY InsertAtSeq
<1>2. DOMAIN r = 1 .. n + 1
  BY <1>1, LenProperties
<1>3. \A x, y \in 1 .. n : s[x] = s[y] => x = y
  BY <1>0 DEF IsInjective
<1>4. \A x \in 1 .. n : s[x] \in Range(s) /\ s[x] # e
  BY <1>0 DEF Range
<1>. HIDE DEF r
<1>5. IsInjective(r)
  <2>. SUFFICES ASSUME NEW a \in 1 .. n + 1, NEW b \in 1 .. n + 1, r[a] = r[b]
                PROVE  a = b
    BY <1>2 DEF IsInjective
  <2>1. a = i <=> b = i
    BY <1>0, <1>1, <1>4
  <2>2. CASE a # i /\ b # i
    <3>. DEFINE x == IF a < i THEN a ELSE a - 1
                y == IF b < i THEN b ELSE b - 1
    <3>1. x \in 1 .. n /\ y \in 1 .. n /\ r[a] = s[x] /\ r[b] = s[y]
      BY <1>0, <1>1, <2>2
    <3>2. x = y
      BY <1>3, <3>1
    <3>. QED
      BY <1>0, <2>2, <3>2
  <2>. QED
    BY <2>1, <2>2
<1>6. Range(r) \subseteq Range(s) \cup {e}
  <2>. SUFFICES ASSUME NEW j \in 1 .. n + 1
                PROVE  r[j] \in Range(s) \cup {e}
    BY <1>2 DEF Range
  <2>. QED
    BY <1>0, <1>1, <1>4
<1>7. Range(s) \subseteq Range(r)
  <2>. SUFFICES ASSUME NEW j \in 1 .. n
                PROVE  s[j] \in Range(r)
    BY <1>0 DEF Range
  <2>1. CASE j < i
    <3>1. j \in 1 .. n + 1 /\ r[j] = s[j]
      BY <1>0, <1>1, <2>1
    <3>. QED
      BY <1>2, <3>1 DEF Range
  <2>2. CASE j >= i
    <3>1. j + 1 \in 1 .. n + 1 /\ r[j + 1] = s[j]
      BY <1>0, <1>1, <2>2
    <3>. QED
      BY <1>2, <3>1 DEF Range
  <2>. QED
    BY <1>0, <2>1, <2>2
<1>8. e \in Range(r)
  <2>1. i \in 1 .. n + 1 /\ r[i] = e
    BY <1>0, <1>1
  <2>. QED
    BY <1>2, <2>1 DEF Range
<1>. QED
  BY <1>1, <1>5, <1>6, <1>7, <1>8 DEF r

\* The same for linking at the end.
LEMMA AppendOnce ==
    ASSUME NEW T, NEW s \in Seq(T), IsInjective(s), NEW e \in T, e \notin Range(s)
    PROVE  /\ Append(s, e) \in Seq(T)
           /\ Append(s, e) # << >>
           /\ IsInjective(Append(s, e))
           /\ Range(Append(s, e)) = Range(s) \cup {e}
<1>. DEFINE n == Len(s)
            r == Append(s, e)
<1>0. n \in Nat /\ DOMAIN s = 1 .. n
  BY LenProperties
<1>1. /\ r \in Seq(T) /\ Len(r) = n + 1 /\ r # << >>
      /\ \A j \in 1 .. n : r[j] = s[j]
      /\ r[n + 1] = e
  BY AppendProperties
<1>2. DOMAIN r = 1 .. n + 1
  BY <1>1, LenProperties
<1>3. \A x, y \in 1 .. n : s[x] = s[y] => x = y
  BY <1>0 DEF IsInjective
<1>4. \A x \in 1 .. n : s[x] \in Range(s) /\ s[x] # e
  BY <1>0 DEF Range
<1>. HIDE DEF r
<1>5. \A j \in 1 .. n + 1 : r[j] = IF j <= n THEN s[j] ELSE e
  BY <1>0, <1>1
<1>6. IsInjective(r)
  <2>. SUFFICES ASSUME NEW a \in 1 .. n + 1, NEW b \in 1 .. n + 1, r[a] = r[b]
                PROVE  a = b
    BY <1>2 DEF IsInjective
  <2>. QED
    BY <1>0, <1>3, <1>4, <1>5
<1>7. Range(r) \subseteq Range(s) \cup {e}
  BY <1>0, <1>2, <1>4, <1>5 DEF Range
<1>8. Range(s) \cup {e} \subseteq Range(r)
  <2>1. \A j \in 1 .. n : s[j] \in Range(r)
    BY <1>0, <1>1, <1>2 DEF Range
  <2>2. e \in Range(r)
    BY <1>0, <1>1, <1>2 DEF Range
  <2>. QED
    BY <1>0, <2>1, <2>2 DEF Range
<1>. QED
  BY <1>1, <1>6, <1>7, <1>8 DEF r

\* Linking at the head.
LEMMA PrependRange ==
    ASSUME NEW T, NEW s \in Seq(T), NEW e \in T
    PROVE  /\ <<e>> \o s \in Seq(T)
           /\ Range(<<e>> \o s) = {e} \cup Range(s)
<1>. DEFINE n == Len(s)
            r == <<e>> \o s
<1>0. n \in Nat /\ DOMAIN s = 1 .. n
  BY LenProperties
<1>1. /\ <<e>> \in Seq(T) /\ Len(<<e>>) = 1 /\ <<e>>[1] = e
  OBVIOUS
<1>2. /\ r \in Seq(T) /\ Len(r) = Len(<<e>>) + n
      /\ \A j \in 1 .. Len(<<e>>) + n :
            r[j] = IF j <= Len(<<e>>) THEN <<e>>[j] ELSE s[j - Len(<<e>>)]
  BY <1>1, ConcatProperties
<1>3. DOMAIN r = 1 .. n + 1
  BY <1>0, <1>1, <1>2, LenProperties
<1>. HIDE DEF r
<1>4. \A j \in 1 .. n + 1 : r[j] = IF j = 1 THEN e ELSE s[j - 1]
  BY <1>0, <1>1, <1>2
<1>5. Range(r) \subseteq {e} \cup Range(s)
  <2>. SUFFICES ASSUME NEW j \in 1 .. n + 1
                PROVE  r[j] \in {e} \cup Range(s)
    BY <1>3 DEF Range
  <2>1. CASE j = 1
    BY <1>4, <2>1
  <2>2. CASE j # 1
    <3>1. r[j] = s[j - 1] /\ j - 1 \in 1 .. n
      BY <1>0, <1>4, <2>2
    <3>. QED
      BY <1>0, <3>1 DEF Range
  <2>. QED
    BY <2>1, <2>2
<1>6. {e} \cup Range(s) \subseteq Range(r)
  <2>1. 1 \in 1 .. n + 1 /\ r[1] = e
    BY <1>0, <1>4
  <2>2. ASSUME NEW j \in 1 .. n
        PROVE  s[j] \in Range(r)
    <3>1. j + 1 \in 1 .. n + 1 /\ r[j + 1] = s[j]
      BY <1>0, <1>4
    <3>. QED
      BY <1>3, <3>1 DEF Range
  <2>. QED
    BY <1>0, <1>3, <2>1, <2>2 DEF Range
<1>. QED
  BY <1>2, <1>5, <1>6 DEF r

\* A new first element: rt_list_insert_after of a list's head node.
LEMMA PrependOnce ==
    ASSUME NEW T, NEW s \in Seq(T), NEW e \in T, e \notin Range(s), IsInjective(s)
    PROVE  IsInjective(<<e>> \o s) /\ Range(<<e>> \o s) = Range(s) \cup {e}
<1>. DEFINE n == Len(s)
            r == <<e>> \o s
<1>1. n \in Nat /\ DOMAIN s = 1 .. n
  BY LenProperties
<1>2. /\ <<e>> \in Seq(T) /\ Len(<<e>>) = 1 /\ <<e>>[1] = e
  OBVIOUS
<1>3. /\ r \in Seq(T) /\ Len(r) = Len(<<e>>) + n
      /\ \A j \in 1 .. Len(<<e>>) + n :
            r[j] = IF j <= Len(<<e>>) THEN <<e>>[j] ELSE s[j - Len(<<e>>)]
  BY <1>2, ConcatProperties
<1>4. DOMAIN r = 1 .. n + 1
  BY <1>1, <1>2, <1>3, LenProperties
<1>5. Range(r) = Range(s) \cup {e}
  BY PrependRange
<1>. HIDE DEF r
<1>6. \A j \in 1 .. n + 1 : r[j] = IF j = 1 THEN e ELSE s[j - 1]
  BY <1>1, <1>2, <1>3
<1>7. \A j \in 1 .. n : s[j] # e
  BY <1>1 DEF Range
<1>8. ASSUME NEW i \in 1 .. n + 1, NEW j \in 1 .. n + 1, r[i] = r[j]
      PROVE  i = j
  <2>1. CASE i = 1 \/ j = 1
    <3>1. ASSUME NEW m \in 1 .. n + 1, r[m] = e
          PROVE  m = 1
      <4>1. m # 1 => m - 1 \in 1 .. n
        BY <1>1
      <4>. QED
        BY <1>6, <1>7, <3>1, <4>1
    <3>2. r[1] = e
      BY <1>1, <1>6
    <3>. QED
      BY <1>8, <2>1, <3>1, <3>2
  <2>2. CASE i # 1 /\ j # 1
    <3>1. i - 1 \in 1 .. n /\ j - 1 \in 1 .. n /\ s[i - 1] = s[j - 1]
      BY <1>1, <1>6, <1>8, <2>2
    <3>2. i - 1 = j - 1
      BY <1>1, <3>1 DEF IsInjective
    <3>. QED
      BY <3>2
  <2>. QED
    BY <2>1, <2>2
<1>9. IsInjective(r)
  BY <1>4, <1>8 DEF IsInjective
<1>. QED
  BY <1>5, <1>9 DEF r


\* A list is empty exactly when nothing is in it; its head is in it.
LEMMA HeadInRange ==
    ASSUME NEW T, NEW s \in Seq(T)
    PROVE  /\ s = << >> <=> Range(s) = {}
           /\ s # << >> => Head(s) \in Range(s) /\ Head(s) \in T
<1>1. Len(s) \in Nat /\ DOMAIN s = 1 .. Len(s)
  BY LenProperties
<1>2. s = << >> => Range(s) = {}
  BY DEF Range
<1>3. s # << >> => 1 \in DOMAIN s /\ Head(s) = s[1] /\ s[1] \in T
  <2>. SUFFICES ASSUME s # << >>
                PROVE  1 \in DOMAIN s /\ Head(s) = s[1] /\ s[1] \in T
    OBVIOUS
  <2>1. Len(s) # 0
    BY EmptySeq
  <2>. QED
    BY <1>1, <2>1, ElementOfSeq
<1>. QED
  BY <1>2, <1>3 DEF Range

-----------------------------------------------------------------------------
(* Sorted lists *)

\* Whatever stands in r stands in s, in the same order.
Sublist(r, s) ==
    \A m, n \in DOMAIN r : m <= n =>
        \E i, j \in DOMAIN s : i <= j /\ s[i] = r[m] /\ s[j] = r[n]

\* Unlinking does not change the order of the others.
LEMMA RemoveFirstSublist ==
    ASSUME NEW T, NEW s \in Seq(T), NEW e
    PROVE  Sublist(RemoveFirst(s, e), s)
<1>. DEFINE n == Len(s)
            I == {i \in 1 .. n : s[i] = e}
<1>0. n \in Nat /\ DOMAIN s = 1 .. n
  BY LenProperties
<1>1. CASE I = {}
  <2>1. RemoveFirst(s, e) = s
    BY <1>1 DEF RemoveFirst
  <2>. QED
    BY <2>1 DEF Sublist
<1>2. CASE I # {}
  <2>. DEFINE m == Min(I)
              r == RemoveAt(s, m)
  <2>0. I # {} /\ I \in SUBSET Nat
    BY <1>0, <1>2
  <2>1. m \in 1 .. n
    BY <2>0, MinOfNat
  <2>2. RemoveFirst(s, e) = r
    BY <1>0, <1>2 DEF RemoveFirst, SelectInSeq
  <2>3. /\ r \in Seq(T) /\ Len(r) = n - 1
        /\ \A j \in 1 .. n - 1 : r[j] = IF j < m THEN s[j] ELSE s[j + 1]
    BY <2>1, RemoveAtSeq
  <2>4. DOMAIN r = 1 .. n - 1
    BY <2>3, LenProperties
  <2>. HIDE DEF m, r, I
  <2>5. ASSUME NEW a \in 1 .. n - 1, NEW b \in 1 .. n - 1, a <= b
        PROVE  \E i, j \in 1 .. n : i <= j /\ s[i] = r[a] /\ s[j] = r[b]
    <3>. DEFINE i == IF a < m THEN a ELSE a + 1
                j == IF b < m THEN b ELSE b + 1
    <3>1. i \in 1 .. n /\ j \in 1 .. n /\ i <= j
      BY <1>0, <2>1, <2>5
    <3>2. s[i] = r[a] /\ s[j] = r[b]
      BY <2>3, <2>5
    <3>. QED
      BY <3>1, <3>2
  <2>6. Sublist(r, s)
    <3>. SUFFICES ASSUME NEW a \in DOMAIN r, NEW b \in DOMAIN r, a <= b
                  PROVE  \E i, j \in DOMAIN s : i <= j /\ s[i] = r[a] /\ s[j] = r[b]
      BY DEF Sublist
    <3>1. a \in 1 .. n - 1 /\ b \in 1 .. n - 1
      BY <2>4
    <3>2. \E i, j \in 1 .. n : i <= j /\ s[i] = r[a] /\ s[j] = r[b]
      BY <2>5, <3>1
    <3>. QED
      BY <1>0, <3>2
  <2>. QED
    BY <2>2, <2>6
<1>. QED
  BY <1>1, <1>2

\* The elements of s come in the order of what L says of them.
Sorted(L, s) ==
    \A i, j \in DOMAIN s : i <= j => L[s[i]] <= L[s[j]]

\* Linking an element between those that are no larger and those that are no
\* smaller keeps a list sorted.
LEMMA InsertAtSorted ==
    ASSUME NEW T, NEW s \in Seq(T), NEW L \in [T -> Int], Sorted(L, s),
           NEW e \in T, NEW i \in 1 .. Len(s) + 1,
           \A j \in 1 .. i - 1 : L[s[j]] <= L[e],
           \A j \in i .. Len(s) : L[e] <= L[s[j]]
    PROVE  Sorted(L, InsertAt(s, i, e))
<1>. DEFINE n == Len(s)
            r == InsertAt(s, i, e)
<1>0. n \in Nat /\ DOMAIN s = 1 .. n
  BY LenProperties
<1>1. /\ r \in Seq(T) /\ Len(r) = n + 1
      /\ \A j \in 1 .. n + 1 :
            r[j] = IF j < i THEN s[j] ELSE IF j = i THEN e ELSE s[j - 1]
  BY InsertAtSeq
<1>2. DOMAIN r = 1 .. n + 1
  BY <1>1, LenProperties
<1>3. \A x, y \in 1 .. n : x <= y => L[s[x]] <= L[s[y]]
  BY <1>0 DEF Sorted
<1>. HIDE DEF r, n
<1>4. ASSUME NEW a \in 1 .. n + 1, NEW b \in 1 .. n + 1, a <= b
      PROVE  L[r[a]] <= L[r[b]]
  <2>1. CASE b < i
    <3>1. a \in 1 .. n /\ b \in 1 .. n /\ r[a] = s[a] /\ r[b] = s[b]
      BY <1>0, <1>1, <1>4, <2>1, SMTT(60) DEF n
    <3>. QED
      BY <1>3, <1>4, <3>1
  <2>2. CASE b = i
    <3>1. r[b] = e
      BY <1>1, <2>2
    <3>2. a = i \/ (a \in 1 .. i - 1 /\ r[a] = s[a])
      BY <1>0, <1>1, <1>4, <2>2
    <3>. QED
      BY <2>2, <3>1, <3>2
  <2>3. CASE b > i
    <3>1. b - 1 \in i .. n /\ b - 1 \in 1 .. n /\ r[b] = s[b - 1]
      BY <1>0, <1>1, <1>4, <2>3
    <3>2. CASE a < i
      <4>1. a \in 1 .. n /\ a <= b - 1 /\ r[a] = s[a]
        BY <1>0, <1>1, <1>4, <2>3, <3>2 DEF n
      <4>. QED
        BY <1>3, <3>1, <4>1
    <3>3. CASE a = i
      <4>1. r[a] = e /\ b - 1 \in i .. Len(s)
        BY <1>1, <3>1, <3>3 DEF n
      <4>. QED
        BY <3>1, <4>1
    <3>4. CASE a > i
      <4>1. a - 1 \in 1 .. n /\ a - 1 <= b - 1 /\ r[a] = s[a - 1]
        BY <1>0, <1>1, <1>4, <2>3, <3>4 DEF n
      <4>. QED
        BY <1>3, <3>1, <4>1
    <3>. QED
      BY <3>2, <3>3, <3>4, <1>0
  <2>. QED
    BY <2>1, <2>2, <2>3, <1>0
<1>. QED
  BY <1>2, <1>4 DEF Sorted, r

-----------------------------------------------------------------------------
(* Rings.  An index that runs around a ring is a remainder; Around says    *)
(* the same without one, and the proofs are about Around.                  *)

\* The slot i slots behind slot r of a ring of S.
Around(S, r, i) == IF r + i < S THEN r + i ELSE r + i - S

\* The remainder of an index that is less than once around.
LEMMA RemainderAround ==
    ASSUME NEW S \in Nat, S > 0, NEW x \in Int
    PROVE  /\ x \in 0 .. S - 1 => x % S = x
           /\ x \in S .. 2 * S - 1 => x % S = x - S
           /\ x \in -S .. -1 => x % S = x + S
           /\ x % S \in 0 .. S - 1
  OBVIOUS

\* The slot behind the last one of L.
LEMMA AroundNext ==
    ASSUME NEW S \in Nat, S > 0, NEW r \in 0 .. S - 1, NEW L \in 0 .. S - 1
    PROVE  Around(S, Around(S, r, L), 1) = Around(S, r, L + 1)
  BY DEF Around

\* The slot behind the last one of L, seen from the second one.
LEMMA AroundTail ==
    ASSUME NEW S \in Nat, S > 0, NEW r \in 0 .. S - 1, NEW L \in 1 .. S
    PROVE  Around(S, Around(S, r, 1), L - 1) = Around(S, r, L)
  BY DEF Around

\* The quotient and the remainder of a number are the only ones there are.
LEMMA RemainderOf ==
    ASSUME NEW S \in Nat, S > 0, NEW q \in Int, NEW m \in 0 .. S - 1, NEW x \in Int, x = S * q + m
    PROVE  x % S = m
<1>1. \A i, j \in Int : i < j => S * i + S <= S * j
  OBVIOUS
<1>2. PICK p \in Int : p = x \div S
  OBVIOUS
<1>3. PICK r \in Int : r = x % S
  OBVIOUS
<1>4. x = S * p + r /\ r \in 0 .. S - 1
  BY <1>2, <1>3
<1>5. p = q
  BY <1>1, <1>4
<1>. QED
  BY <1>3, <1>4, <1>5

\* The slot of an index that counts on and on, i after g.
LEMMA RemainderSum ==
    ASSUME NEW S \in Nat, S > 0, NEW g \in Nat, NEW i \in 0 .. S
    PROVE  g % S \in 0 .. S - 1 /\ (g + i) % S = Around(S, g % S, i)
<1>1. PICK q \in Int : q = g \div S
  OBVIOUS
<1>2. PICK m \in Int : m = g % S
  OBVIOUS
<1>3. g = S * q + m /\ m \in 0 .. S - 1
  BY <1>1, <1>2
<1>4. PICK x \in Int : x = g + i
  OBVIOUS
<1>5. CASE m + i < S
  <2>1. x = S * q + (m + i) /\ m + i \in 0 .. S - 1
    BY <1>3, <1>4, <1>5
  <2>2. x % S = m + i
    BY <2>1, RemainderOf
  <2>. QED
    BY <1>2, <1>3, <1>4, <1>5, <2>2 DEF Around
<1>6. CASE m + i >= S
  <2>1. PICK p \in Int : p = q + 1
    OBVIOUS
  <2>2. PICK r \in Int : r = m + i - S
    BY <1>3
  <2>3. x = S * p + r /\ r \in 0 .. S - 1
    BY <1>3, <1>4, <1>6, <2>1, <2>2
  <2>4. x % S = r
    BY <2>3, RemainderOf
  <2>. QED
    BY <1>2, <1>3, <1>4, <1>6, <2>2, <2>4 DEF Around
<1>. QED
  BY <1>3, <1>5, <1>6

\* What a ring of S slots holds, L items from slot r on.
RingSeq(S, slots, r, L) == [i \in 1 .. L |-> slots[Around(S, r, i - 1)]]

\* The same with the remainders of the mailbox and of the refinements.
LEMMA RingSeqRemainder ==
    ASSUME NEW S \in Nat, S > 0, NEW slots, NEW r \in 0 .. S - 1, NEW L \in 0 .. S
    PROVE  [i \in 1 .. L |-> slots[(r + i - 1) % S]] = RingSeq(S, slots, r, L)
<1>1. ASSUME NEW i \in 1 .. L
      PROVE  (r + i - 1) % S = Around(S, r, i - 1)
  <2>1. PICK x \in Int : x = r + i - 1
    OBVIOUS
  <2>2. /\ x \in 0 .. S - 1 \/ x \in S .. 2 * S - 1
        /\ Around(S, r, i - 1) = IF x < S THEN x ELSE x - S
    BY <2>1 DEF Around
  <2>3. x % S = Around(S, r, i - 1)
    BY <2>2, RemainderAround
  <2>. QED
    BY <2>1, <2>3
<1>. QED
  BY <1>1 DEF RingSeq

\* One more item is in the slots new than in the slots old: x, the last one.
Appends(S, old, new, r, L, x) ==
    /\ Len(RingSeq(S, old, r, L)) = L
    /\ RingSeq(S, new, r, L + 1) = Append(RingSeq(S, old, r, L), x)

\* An item that is put behind the last one is appended.
LEMMA RingSeqPut ==
    ASSUME NEW S \in Nat, S > 0, NEW T, NEW slots \in [0 .. S - 1 -> T], NEW x \in T,
           NEW r \in 0 .. S - 1, NEW L \in 0 .. S - 1, NEW at, at = Around(S, r, L)
    PROVE  Appends(S, slots, [slots EXCEPT ![at] = x], r, L, x)
<1>. DEFINE s == RingSeq(S, slots, r, L)
            new == [slots EXCEPT ![at] = x]
            u == RingSeq(S, new, r, L + 1)
<1>1. \A i \in 0 .. L : Around(S, r, i) \in 0 .. S - 1 /\ (i # L => Around(S, r, i) # at)
  BY DEF Around
<1>2. /\ s \in [1 .. L -> T]
      /\ \A i \in 1 .. L : s[i] = slots[Around(S, r, i - 1)]
  BY <1>1 DEF RingSeq
<1>3. s \in Seq(T) /\ Len(s) = L
  BY <1>2
<1>4. /\ new \in [0 .. S - 1 -> T] /\ new[at] = x
      /\ \A j \in 0 .. S - 1 : j # at => new[j] = slots[j]
  BY <1>1
<1>. HIDE DEF new
<1>5. /\ u \in [1 .. L + 1 -> T]
      /\ \A i \in 1 .. L + 1 : u[i] = new[Around(S, r, i - 1)]
  BY <1>1, <1>4 DEF RingSeq
<1>6. u \in Seq(T) /\ Len(u) = L + 1
  BY <1>5
<1>. HIDE DEF s, u
<1>7. /\ Append(s, x) \in Seq(T) /\ Len(Append(s, x)) = L + 1
      /\ \A i \in 1 .. L : Append(s, x)[i] = s[i]
      /\ Append(s, x)[L + 1] = x
  BY <1>3, AppendProperties
<1>8. ASSUME NEW i \in 1 .. L + 1 PROVE u[i] = Append(s, x)[i]
  <2>1. CASE i = L + 1
    <3>1. i - 1 = L
      BY <2>1
    <3>. QED
      BY <1>4, <1>5, <1>7, <2>1, <3>1
  <2>2. CASE i # L + 1
    <3>1. i \in 1 .. L /\ i - 1 \in 0 .. L /\ i - 1 # L
      BY <2>2
    <3>. QED
      BY <1>1, <1>2, <1>4, <1>5, <1>7, <3>1
  <2>. QED
    BY <2>1, <2>2
<1>9. u = Append(s, x)
  BY <1>6, <1>7, <1>8, SeqEqual
<1>. QED
  BY <1>3, <1>9 DEF s, u, new, Appends

\* The first item is taken out; its slot is no longer looked at.
LEMMA RingSeqGet ==
    ASSUME NEW S \in Nat, S > 0, NEW T, NEW slots \in [0 .. S - 1 -> T], NEW x \in T,
           NEW r \in 0 .. S - 1, NEW L \in 1 .. S
    PROVE  /\ RingSeq(S, slots, r, L) # << >>
           /\ RingSeq(S, [slots EXCEPT ![r] = x], Around(S, r, 1), L - 1)
                 = Tail(RingSeq(S, slots, r, L))
<1>. DEFINE s == RingSeq(S, slots, r, L)
            new == [slots EXCEPT ![r] = x]
            u == RingSeq(S, new, Around(S, r, 1), L - 1)
<1>1. \A i \in 0 .. L - 1 : Around(S, r, i) \in 0 .. S - 1 /\ (i # 0 => Around(S, r, i) # r)
  BY DEF Around
<1>2. /\ Around(S, r, 1) \in 0 .. S - 1
      /\ \A i \in 0 .. L - 2 : Around(S, Around(S, r, 1), i) = Around(S, r, i + 1)
  BY DEF Around
<1>3. /\ s \in [1 .. L -> T]
      /\ \A i \in 1 .. L : s[i] = slots[Around(S, r, i - 1)]
  BY <1>1 DEF RingSeq
<1>4. s \in Seq(T) /\ Len(s) = L
  BY <1>3
<1>5. /\ new \in [0 .. S - 1 -> T]
      /\ \A j \in 0 .. S - 1 : j # r => new[j] = slots[j]
  OBVIOUS
<1>. HIDE DEF new
<1>6. ASSUME NEW i \in 1 .. L - 1
      PROVE  /\ Around(S, Around(S, r, 1), i - 1) \in 0 .. S - 1
             /\ new[Around(S, Around(S, r, 1), i - 1)] = s[i + 1]
  <2>1. i - 1 \in 0 .. L - 2 /\ (i - 1) + 1 = i /\ i \in 0 .. L - 1 /\ i # 0
        /\ i + 1 \in 1 .. L /\ (i + 1) - 1 = i
    OBVIOUS
  <2>2. Around(S, Around(S, r, 1), i - 1) = Around(S, r, i)
    BY <1>2, <2>1
  <2>. QED
    BY <1>1, <1>3, <1>5, <2>1, <2>2
<1>7. /\ u \in [1 .. L - 1 -> T]
      /\ \A i \in 1 .. L - 1 : u[i] = s[i + 1]
  BY <1>5, <1>6 DEF RingSeq
<1>8. u \in Seq(T) /\ Len(u) = L - 1
  BY <1>7
<1>. HIDE DEF s, u
<1>9. s # << >>
  BY <1>4
<1>10. /\ Tail(s) \in Seq(T) /\ Len(Tail(s)) = L - 1
       /\ \A i \in 1 .. L - 1 : Tail(s)[i] = s[i + 1]
  BY <1>4, <1>9, HeadTailProperties
<1>11. u = Tail(s)
  BY <1>7, <1>8, <1>10, SeqEqual
<1>. QED
  BY <1>9, <1>11 DEF s, u, new

\* The first item is taken out of a ring that keeps its slots.
LEMMA RingSeqTail ==
    ASSUME NEW S \in Nat, S > 0, NEW T, NEW slots \in [0 .. S - 1 -> T],
           NEW r \in 0 .. S - 1, NEW L \in 1 .. S
    PROVE  /\ RingSeq(S, slots, r, L) # << >>
           /\ RingSeq(S, slots, Around(S, r, 1), L - 1) = Tail(RingSeq(S, slots, r, L))
<1>1. PICK x \in T : x = slots[r]
  OBVIOUS
<1>2. [slots EXCEPT ![r] = x] = slots
  BY <1>1
<1>3. /\ RingSeq(S, slots, r, L) # << >>
      /\ RingSeq(S, [slots EXCEPT ![r] = x], Around(S, r, 1), L - 1)
            = Tail(RingSeq(S, slots, r, L))
  BY RingSeqGet
<1>. QED
  BY <1>2, <1>3

\* A ring holds the first L elements of u, from slot r on.
HoldsFrom(S, r, L, bytes, u) == \A i \in 0 .. L - 1 : bytes[Around(S, r, i)] = u[i + 1]

\* n bytes b are written from slot w on over the oldest d of L unread ones u:
\* the slots change from old to new, and what is left to read is u1.
Overwrites(S, L, n, d, w, b, old, new, u, u1) ==
    /\ \A i \in 0 .. n - 1 : new[Around(S, w, i)] = b[i]
    /\ \A i \in n .. S - 1 : new[Around(S, w, i)] = old[Around(S, w, i)]
    /\ \A i \in 0 .. L + n - d - 1 :
         u1[i + 1] = IF i + d < L THEN u[i + d + 1] ELSE b[i + d - L]

\* What a ring of S holds after it has been overwritten.
LEMMA OverwrittenRing ==
    ASSUME NEW S \in Nat, S > 0, NEW L \in 0 .. S, NEW n \in 1 .. S, NEW d \in Nat,
           NEW r \in 0 .. S - 1, NEW w \in 0 .. S - 1, NEW r1 \in 0 .. S - 1,
           w - r = L \/ w - r = L - S,
           \/ d = 0 /\ L + n <= S /\ r1 = r
           \/ d = L + n - S /\ (r1 = w + n \/ r1 = w + n - S),
           NEW old, NEW new, NEW u, NEW u1, NEW b
    PROVE  HoldsFrom(S, r, L, old, u) /\ Overwrites(S, L, n, d, w, b, old, new, u, u1)
           => HoldsFrom(S, r1, L + n - d, new, u1)
<1>1. \A i \in 0 .. L + n - d - 1 :
        /\ i + d < L => /\ i + d + S - L \in n .. S - 1
                        /\ Around(S, r, i + d) = Around(S, w, i + d + S - L)
                        /\ Around(S, r1, i) = Around(S, w, i + d + S - L)
        /\ i + d >= L => /\ i + d - L \in 0 .. n - 1
                         /\ Around(S, r1, i) = Around(S, w, i + d - L)
  <2>. SUFFICES ASSUME NEW i \in 0 .. L + n - d - 1
                PROVE  /\ i + d < L => /\ i + d + S - L \in n .. S - 1
                                       /\ Around(S, r, i + d) = Around(S, w, i + d + S - L)
                                       /\ Around(S, r1, i) = Around(S, w, i + d + S - L)
                       /\ i + d >= L => /\ i + d - L \in 0 .. n - 1
                                        /\ Around(S, r1, i) = Around(S, w, i + d - L)
    OBVIOUS
  <2>1. CASE i + d < L
    <3>. DEFINE q == i + d + S - L
    <3>1. q \in n .. S - 1 /\ i + d = q - S + L
      BY <2>1
    <3>2. Around(S, r, i + d) = Around(S, w, q)
      BY <2>1 DEF Around
    <3>3. CASE d = 0 /\ L + n <= S /\ r1 = r
      BY <3>1, <3>2, <3>3
    <3>4. CASE d = L + n - S /\ (r1 = w + n \/ r1 = w + n - S)
      <4>1. i = q - n
        BY <3>1, <3>4
      <4>. HIDE DEF q
      <4>2. Around(S, r1, q - n) = Around(S, w, q)
        BY <3>1, <3>4 DEF Around
      <4>. QED
        BY <2>1, <3>1, <3>2, <4>1, <4>2 DEF q
    <3>. QED
      BY <3>3, <3>4
  <2>2. CASE i + d >= L
    <3>. DEFINE q == i + d - L
    <3>1. q \in 0 .. n - 1 /\ i = q + L - d
      BY <2>2
    <3>2. CASE d = 0 /\ L + n <= S /\ r1 = r
      BY <2>2, <3>2 DEF Around
    <3>3. CASE d = L + n - S /\ (r1 = w + n \/ r1 = w + n - S)
      <4>1. i = q + S - n
        BY <3>1, <3>3
      <4>. HIDE DEF q
      <4>2. Around(S, r1, q + S - n) = Around(S, w, q)
        BY <3>1, <3>3 DEF Around
      <4>. QED
        BY <2>2, <3>1, <4>1, <4>2 DEF q
    <3>. QED
      BY <3>2, <3>3
  <2>. QED
    BY <2>1, <2>2
<1>. SUFFICES ASSUME \A i \in 0 .. L - 1 : old[Around(S, r, i)] = u[i + 1],
                     \A i \in 0 .. n - 1 : new[Around(S, w, i)] = b[i],
                     \A i \in n .. S - 1 : new[Around(S, w, i)] = old[Around(S, w, i)],
                     \A i \in 0 .. L + n - d - 1 :
                       u1[i + 1] = IF i + d < L THEN u[i + d + 1] ELSE b[i + d - L],
                     NEW i \in 0 .. L + n - d - 1
              PROVE  new[Around(S, r1, i)] = u1[i + 1]
  BY DEF HoldsFrom, Overwrites
<1>2. CASE i + d < L
  <2>1. i + d \in 0 .. L - 1
    BY <1>2
  <2>2. new[Around(S, r1, i)] = old[Around(S, r, i + d)]
    BY <1>1, <1>2
  <2>3. old[Around(S, r, i + d)] = u[i + d + 1]
    BY <2>1
  <2>. QED
    BY <1>2, <2>2, <2>3
<1>3. CASE i + d >= L
  BY <1>1, <1>3
<1>. QED
  BY <1>2, <1>3

-----------------------------------------------------------------------------
(* The ready queue *)

\* Bits and lists agree, and every linked thread is READY and in the list of its
\* priority, once; a record in the middle of a context switch has this much.
ListsExact(k) ==
    /\ k \in KernelState
    /\ \A p \in Priority :
         /\ p \in k.group <=> k.ready[p] # << >>
         /\ IsInjective(k.ready[p])
         /\ \A t \in Range(k.ready[p]) : k.stat[t] = READY /\ k.prio[t] = p

\* The inductive invariant of the kernel record: the ready queue is exact, no
\* timer is linked twice and only suspended threads have one running, the
\* threads the idle thread will reclaim are closed, and the threads that are
\* leaving the scheduler cannot come back by themselves.
KInv(k, leaving) ==
    /\ k \in KernelState
    /\ QueueExact(k, leaving)
    /\ IsInjective(k.timers)
    /\ \A t \in Range(k.timers) : k.stat[t] = SUSPEND
    /\ \A t \in Range(k.defunct) : k.stat[t] = CLOSE
    /\ \A t \in leaving :
         /\ t # k.cur /\ t \notin Range(k.timers)
         /\ \A p \in Priority : t \notin Range(k.ready[p])

\* rt_list_remove touches the three kinds of lists only.
LEMMA ListRemoveFields ==
    ASSUME NEW k \in KernelState, NEW t \in Thread
    PROVE  LET u == rt_list_remove(k, t)
           IN  /\ u \in KernelState
               /\ u.stat = k.stat /\ u.prio = k.prio /\ u.cur = k.cur
               /\ u.group = k.group /\ u.lock = k.lock /\ u.timers = k.timers
               /\ \A p \in Priority : u.ready[p] = RemoveFirst(k.ready[p], t)
               /\ Range(u.defunct) \subseteq Range(k.defunct)
<1>1. /\ \A p \in Priority : RemoveFirst(k.ready[p], t) \in Seq(Thread)
      /\ \A w \in WaitList : RemoveFirst(k.wait[w], t) \in Seq(Thread)
      /\ RemoveFirst(k.defunct, t) \in Seq(Thread)
      /\ Range(RemoveFirst(k.defunct, t)) \subseteq Range(k.defunct)
  BY RemoveFirstSeq DEF KernelState
<1>. QED
  BY <1>1 DEF rt_list_remove, KernelState

\* The record u is k with thread t unlinked; other fields may differ.
Unlinked(k, u, t) ==
    /\ u \in KernelState
    /\ u.stat = k.stat /\ u.prio = k.prio /\ u.cur = k.cur
    /\ u.lock = k.lock /\ u.timers = k.timers
    /\ Range(u.defunct) \subseteq Range(k.defunct)
    /\ \A p \in Priority :
         /\ IsInjective(u.ready[p])
         /\ Range(u.ready[p]) = Range(k.ready[p]) \ {t}
         /\ p \in u.group <=> u.ready[p] # << >>

\* Unlinking a thread, with the bit of its priority, keeps bits and lists in
\* agreement.
LEMMA RemoveThread ==
    ASSUME NEW k, NEW t \in Thread, ListsExact(k)
    PROVE  Unlinked(k, rt_schedule_remove_thread(k, t), t)
<1>. DEFINE v == rt_list_remove(k, t)
            u == rt_schedule_remove_thread(k, t)
<1>0. k \in KernelState
  BY DEF ListsExact
<1>1. /\ v \in KernelState
      /\ v.stat = k.stat /\ v.prio = k.prio /\ v.cur = k.cur
      /\ v.group = k.group /\ v.lock = k.lock /\ v.timers = k.timers
      /\ \A p \in Priority : v.ready[p] = RemoveFirst(k.ready[p], t)
      /\ Range(v.defunct) \subseteq Range(k.defunct)
  BY <1>0, ListRemoveFields
<1>. HIDE DEF v
<1>2. /\ u \in KernelState
      /\ u.stat = v.stat /\ u.prio = v.prio /\ u.cur = v.cur
      /\ u.lock = v.lock /\ u.timers = v.timers
      /\ u.ready = v.ready /\ u.defunct = v.defunct
      /\ u.group = IF v.ready[k.prio[t]] = << >> THEN v.group \ {k.prio[t]}
                   ELSE v.group
  <2>1. u = IF v.ready[k.prio[t]] = << >>
            THEN [v EXCEPT !.group = @ \ {k.prio[t]}] ELSE v
    BY DEF rt_schedule_remove_thread, v
  <2>. HIDE DEF u
  <2>. QED
    BY <1>1, <2>1 DEF KernelState
<1>. HIDE DEF u
<1>3. ASSUME NEW p \in Priority
      PROVE  /\ IsInjective(u.ready[p])
             /\ Range(u.ready[p]) = Range(k.ready[p]) \ {t}
  <2>1. k.ready[p] \in Seq(Thread) /\ IsInjective(k.ready[p])
    BY DEF ListsExact, KernelState
  <2>. QED
    BY <1>1, <1>2, <2>1, RemoveFirstOnce
<1>4. ASSUME NEW p \in Priority
      PROVE  p \in u.group <=> u.ready[p] # << >>
  <2>1. k.ready[p] \in Seq(Thread) /\ (p \in k.group <=> k.ready[p] # << >>)
    BY DEF ListsExact, KernelState
  <2>2. CASE p = k.prio[t]
    <3>1. k.ready[p] = << >> => u.ready[p] = << >>
      <4>1. k.ready[p] = << >> => t \notin Range(k.ready[p])
        BY <2>1, HeadInRange
      <4>2. t \notin Range(k.ready[p]) => RemoveFirst(k.ready[p], t) = k.ready[p]
        BY <2>1, RemoveFirstSeq
      <4>. QED
        BY <1>1, <1>2, <4>1, <4>2
    <3>. QED
      BY <1>1, <1>2, <2>1, <2>2, <3>1
  <2>3. CASE p # k.prio[t]
    <3>1. t \notin Range(k.ready[p])
      BY <2>3 DEF ListsExact
    <3>2. u.ready[p] = k.ready[p]
      BY <1>1, <1>2, <2>1, <3>1, RemoveFirstSeq
    <3>. QED
      BY <1>1, <1>2, <2>1, <2>3, <3>2
  <2>. QED
    BY <2>2, <2>3
<1>. QED
  BY <1>1, <1>2, <1>3, <1>4 DEF u, Unlinked

\* What the invariant says of the fields, with their types.
LEMMA QueueFacts ==
    ASSUME NEW leaving, NEW k, KInv(k, leaving)
    PROVE  /\ k \in KernelState
           /\ k.stat \in [Thread -> Stat] /\ k.prio \in [Thread -> Priority]
           /\ k.cur \in Thread
           /\ ListsExact(k)
           /\ \A p \in Priority :
                /\ k.ready[p] \in Seq(Thread)
                /\ p \in k.group <=> k.ready[p] # << >>
                /\ IsInjective(k.ready[p])
                /\ \A t \in Range(k.ready[p]) :
                     t \in Thread /\ k.stat[t] = READY /\ k.prio[t] = p /\ t # k.cur
           /\ \A t \in Thread \ leaving :
                k.stat[t] = READY /\ t # k.cur => t \in Range(k.ready[k.prio[t]])
<1>1. k \in KernelState /\ QueueExact(k, leaving)
  BY DEF KInv
<1>2. /\ k.stat \in [Thread -> Stat] /\ k.prio \in [Thread -> Priority]
      /\ k.cur \in Thread
      /\ \A p \in Priority : k.ready[p] \in Seq(Thread)
  BY <1>1 DEF KernelState
<1>3. \A p \in Priority : \A t \in Range(k.ready[p]) : t \in Thread
  BY <1>2, RangeOfSeq
<1>. QED
  BY <1>1, <1>2, <1>3 DEF QueueExact, ListsExact

\* Taking a thread that does not run, and has no timer, out of the scheduler
\* makes it one of the leaving threads.
LEMMA RemoveOther ==
    ASSUME NEW leaving, NEW k, NEW t \in Thread, KInv(k, leaving),
           t # k.cur, t \notin Range(k.timers)
    PROVE  KInv(rt_schedule_remove_thread(k, t), leaving \cup {t})
<1>. DEFINE u == rt_schedule_remove_thread(k, t)
<1>1. Unlinked(k, u, t)
  BY RemoveThread, QueueFacts
<1>. HIDE DEF u
<1>2. QueueExact(u, leaving \cup {t})
  <2>1. ASSUME NEW p \in Priority, NEW s \in Range(u.ready[p])
        PROVE  u.stat[s] = READY /\ u.prio[s] = p /\ s # u.cur
    <3>1. s \in Range(k.ready[p])
      BY <1>1 DEF Unlinked
    <3>. QED
      BY <1>1, <3>1, QueueFacts DEF Unlinked
  <2>2. ASSUME NEW s \in Thread \ (leaving \cup {t}), u.stat[s] = READY, s # u.cur
        PROVE  s \in Range(u.ready[u.prio[s]])
    <3>1. k.prio[s] \in Priority /\ s \in Range(k.ready[k.prio[s]])
      BY <1>1, <2>2, QueueFacts DEF Unlinked
    <3>. QED
      BY <1>1, <3>1 DEF Unlinked
  <2>. QED
    BY <1>1, <2>1, <2>2 DEF QueueExact, Unlinked
<1>3. /\ IsInjective(u.timers)
      /\ \A s \in Range(u.timers) : u.stat[s] = SUSPEND
      /\ \A s \in Range(u.defunct) : u.stat[s] = CLOSE
  BY <1>1 DEF KInv, Unlinked
<1>4. \A s \in leaving \cup {t} :
         /\ s # u.cur /\ s \notin Range(u.timers)
         /\ \A p \in Priority : s \notin Range(u.ready[p])
  BY <1>1 DEF KInv, Unlinked
<1>5. KInv(u, leaving \cup {t})
  BY <1>1, <1>2, <1>3, <1>4 DEF KInv, Unlinked
<1>. QED
  BY <1>5 DEF u

\* Taking the running thread out changes no ready list.
LEMMA RemoveCurrent ==
    ASSUME NEW leaving, NEW k, KInv(k, leaving)
    PROVE  LET u == rt_schedule_remove_thread(k, k.cur)
           IN  /\ KInv(u, leaving)
               /\ u.stat = k.stat /\ u.prio = k.prio /\ u.cur = k.cur
               /\ u.lock = k.lock /\ u.timers = k.timers
               /\ Range(u.defunct) \subseteq Range(k.defunct)
<1>. DEFINE u == rt_schedule_remove_thread(k, k.cur)
<1>1. k.cur \in Thread /\ \A p \in Priority : k.cur \notin Range(k.ready[p])
  BY QueueFacts
<1>2. Unlinked(k, u, k.cur)
  BY <1>1, RemoveThread, QueueFacts
<1>. HIDE DEF u
<1>3. \A p \in Priority : Range(u.ready[p]) = Range(k.ready[p])
  BY <1>1, <1>2 DEF Unlinked
<1>4. QueueExact(u, leaving)
  BY <1>2, <1>3, QueueFacts DEF QueueExact, Unlinked
<1>5. /\ IsInjective(u.timers)
      /\ \A s \in Range(u.timers) : u.stat[s] = SUSPEND
      /\ \A s \in Range(u.defunct) : u.stat[s] = CLOSE
      /\ \A s \in leaving :
           /\ s # u.cur /\ s \notin Range(u.timers)
           /\ \A p \in Priority : s \notin Range(u.ready[p])
  BY <1>2, <1>3 DEF KInv, Unlinked
<1>6. KInv(u, leaving)
  BY <1>2, <1>4, <1>5 DEF KInv, Unlinked
<1>. QED
  BY <1>2, <1>6 DEF u, Unlinked

\* The strings that name the states differ.
LEMMA StatesDiffer ==
    /\ READY # SUSPEND /\ READY # CLOSE /\ READY # INIT
    /\ SUSPEND # CLOSE /\ SUSPEND # INIT /\ CLOSE # INIT
    /\ {READY, SUSPEND, CLOSE, INIT} \subseteq Stat
  BY DEF Stat, READY, SUSPEND, CLOSE, INIT

\* The record u is k with thread t READY and linked.
Linked(k, u, t) ==
    /\ u.stat = [k.stat EXCEPT ![t] = READY]
    /\ u.prio = k.prio /\ u.cur = k.cur /\ u.lock = k.lock
    /\ u.timers = k.timers /\ u.defunct = k.defunct
    /\ \A p \in Priority :
         Range(u.ready[p]) = IF p = k.prio[t] THEN Range(k.ready[p]) \cup {t}
                             ELSE Range(k.ready[p])

\* Readying a thread that does not run and is in no ready list.
LEMMA LinkThread ==
    ASSUME NEW k, NEW t \in Thread, ListsExact(k), t # k.cur,
           \A p \in Priority : t \notin Range(k.ready[p])
    PROVE  /\ Linked(k, rt_schedule_insert_thread(k, t), t)
           /\ ListsExact(rt_schedule_insert_thread(k, t))
<1>. DEFINE u == rt_schedule_insert_thread(k, t)
            q == k.prio[t]
            r == Append(k.ready[q], t)
<1>1. /\ k \in KernelState /\ q \in Priority
      /\ k.ready \in [Priority -> Seq(Thread)]
      /\ k.stat \in [Thread -> Stat]
  BY DEF ListsExact, KernelState
<1>2. k.ready[q] \in Seq(Thread) /\ IsInjective(k.ready[q]) /\ t \notin Range(k.ready[q])
  BY <1>1 DEF ListsExact
<1>3. /\ r \in Seq(Thread) /\ r # << >> /\ IsInjective(r)
      /\ Range(r) = Range(k.ready[q]) \cup {t}
  BY <1>2, AppendOnce
<1>4. u = [k EXCEPT !.stat[t] = READY, !.ready[q] = r, !.group = k.group \cup {q}]
  BY DEF rt_schedule_insert_thread
<1>. HIDE DEF u, r, q
<1>5. /\ u \in KernelState
      /\ u.stat = [k.stat EXCEPT ![t] = READY]
      /\ u.prio = k.prio /\ u.cur = k.cur /\ u.lock = k.lock
      /\ u.timers = k.timers /\ u.defunct = k.defunct
      /\ u.ready = [k.ready EXCEPT ![q] = r]
      /\ u.group = k.group \cup {q}
  BY <1>1, <1>3, <1>4, StatesDiffer DEF KernelState
<1>6. ASSUME NEW p \in Priority
      PROVE  /\ IsInjective(u.ready[p])
             /\ Range(u.ready[p]) = IF p = q THEN Range(k.ready[p]) \cup {t}
                                    ELSE Range(k.ready[p])
             /\ p \in u.group <=> u.ready[p] # << >>
  <2>1. CASE p = q
    <3>1. u.ready[p] = r /\ p \in u.group
      BY <1>1, <1>5, <2>1
    <3>. QED
      BY <1>3, <2>1, <3>1
  <2>2. CASE p # q
    <3>1. u.ready[p] = k.ready[p] /\ (p \in u.group <=> p \in k.group)
      BY <1>1, <1>5, <2>2
    <3>. QED
      BY <2>2, <3>1 DEF ListsExact
  <2>. QED
    BY <2>1, <2>2
<1>7. ASSUME NEW p \in Priority, NEW s \in Range(u.ready[p])
      PROVE  u.stat[s] = READY /\ u.prio[s] = p
  <2>1. CASE s = t
    <3>1. p = q
      BY <1>6, <2>1
    <3>. QED
      BY <1>1, <1>5, <2>1, <3>1 DEF q
  <2>2. CASE s # t
    <3>1. s \in Range(k.ready[p])
      BY <1>6, <2>2
    <3>. QED
      BY <1>1, <1>5, <2>2, <3>1 DEF ListsExact
  <2>. QED
    BY <2>1, <2>2
<1>8. ListsExact(u)
  BY <1>5, <1>6, <1>7 DEF ListsExact
<1>9. Linked(k, u, t)
  BY <1>5, <1>6 DEF Linked, q
<1>. QED
  BY <1>8, <1>9 DEF u

\* Readying a thread that is in no ready list and not CLOSE, and whose timer is
\* stopped: if it was leaving the scheduler, it is back.
LEMMA InsertThread ==
    ASSUME NEW leaving, NEW k, NEW t \in Thread, KInv(k, leaving),
           k.stat[t] # CLOSE, t \notin Range(k.timers),
           \A p \in Priority : t \notin Range(k.ready[p])
    PROVE  LET u == rt_schedule_insert_thread(k, t)
           IN  /\ KInv(u, leaving \ {t})
               /\ u.stat = [k.stat EXCEPT ![t] = READY]
               /\ u.prio = k.prio /\ u.cur = k.cur /\ u.lock = k.lock
               /\ u.timers = k.timers /\ u.defunct = k.defunct
<1>. DEFINE u == rt_schedule_insert_thread(k, t)
<1>0. /\ k \in KernelState /\ ListsExact(k)
      /\ k.stat \in [Thread -> Stat] /\ k.prio \in [Thread -> Priority]
  BY QueueFacts
<1>1. CASE t = k.cur
  <2>1. u = [k EXCEPT !.stat[t] = READY]
    BY <1>1 DEF rt_schedule_insert_thread
  <2>. HIDE DEF u
  <2>2. /\ u \in KernelState
        /\ u.stat = [k.stat EXCEPT ![t] = READY]
        /\ u.prio = k.prio /\ u.cur = k.cur /\ u.lock = k.lock
        /\ u.timers = k.timers /\ u.defunct = k.defunct
        /\ u.ready = k.ready /\ u.group = k.group
    BY <1>0, <2>1, StatesDiffer DEF KernelState
  <2>3. \A s \in Thread : s # t => u.stat[s] = k.stat[s]
    BY <1>0, <2>2
  <2>4. QueueExact(u, leaving \ {t})
    <3>1. \A p \in Priority : \A s \in Range(u.ready[p]) :
             u.stat[s] = READY /\ u.prio[s] = p /\ s # u.cur
      BY <1>1, <2>2, <2>3, QueueFacts
    <3>2. \A s \in Thread \ (leaving \ {t}) :
             u.stat[s] = READY /\ s # u.cur => s \in Range(u.ready[u.prio[s]])
      BY <1>1, <2>2, <2>3, QueueFacts
    <3>. QED
      BY <2>2, <3>1, <3>2, QueueFacts DEF QueueExact
  <2>5. /\ \A s \in Range(u.timers) : u.stat[s] = SUSPEND
        /\ \A s \in Range(u.defunct) : u.stat[s] = CLOSE
    BY <1>0, <2>2 DEF KInv
  <2>6. KInv(u, leaving \ {t})
    BY <2>2, <2>4, <2>5 DEF KInv
  <2>. QED
    BY <2>2, <2>6 DEF u
<1>2. CASE t # k.cur
  <2>1. Linked(k, u, t) /\ ListsExact(u)
    BY <1>0, <1>2, LinkThread
  <2>. HIDE DEF u
  <2>2. \A s \in Thread : u.stat[s] = IF s = t THEN READY ELSE k.stat[s]
    BY <1>0, <2>1 DEF Linked
  <2>3. QueueExact(u, leaving \ {t})
    <3>1. ASSUME NEW p \in Priority, NEW s \in Range(u.ready[p])
          PROVE  s # u.cur
      <4>1. s = t \/ s \in Range(k.ready[p])
        BY <2>1 DEF Linked
      <4>. QED
        BY <1>2, <2>1, <4>1, QueueFacts DEF Linked
    <3>2. ASSUME NEW s \in Thread \ (leaving \ {t}), u.stat[s] = READY, s # u.cur
          PROVE  s \in Range(u.ready[u.prio[s]])
      <4>1. u.prio[s] \in Priority /\ u.prio[s] = k.prio[s]
        BY <1>0, <2>1 DEF Linked
      <4>2. s = t \/ s \in Range(k.ready[k.prio[s]])
        BY <2>1, <2>2, <3>2, QueueFacts DEF Linked
      <4>. QED
        BY <2>1, <4>1, <4>2 DEF Linked
    <3>. QED
      BY <2>1, <3>1, <3>2 DEF QueueExact, ListsExact
  <2>4. /\ IsInjective(u.timers)
        /\ \A s \in Range(u.timers) : u.stat[s] = SUSPEND
        /\ \A s \in Range(u.defunct) : u.stat[s] = CLOSE
    BY <1>0, <2>1 DEF KInv, Linked
  <2>5. \A s \in leaving \ {t} :
          /\ s # u.cur /\ s \notin Range(u.timers)
          /\ \A p \in Priority : s \notin Range(u.ready[p])
    BY <2>1 DEF KInv, Linked
  <2>6. KInv(u, leaving \ {t})
    BY <2>1, <2>3, <2>4, <2>5 DEF KInv, ListsExact
  <2>. QED
    BY <2>1, <2>6 DEF u, Linked
<1>. QED
  BY <1>1, <1>2

\* A record that differs from k in fields the scheduler does not look at, and
\* perhaps has fewer timers and fewer defunct threads.
SameQueues(k, u) ==
    /\ u \in KernelState
    /\ u.stat = k.stat /\ u.cur = k.cur /\ u.group = k.group /\ u.prio = k.prio
    /\ \A p \in Priority : u.ready[p] = k.ready[p]
    /\ IsInjective(u.timers)
    /\ Range(u.timers) \subseteq Range(k.timers)
    /\ Range(u.defunct) \subseteq Range(k.defunct)

\* The queue invariants say nothing of the fields in which k and u may differ: the
\* clock, the lock, the thread that runs.
LEMMA SameKInv ==
    ASSUME NEW leaving, NEW k, NEW u, KInv(k, leaving), SameQueues(k, u)
    PROVE  KInv(u, leaving)
<1>1. QueueExact(u, leaving)
  <2>1. \A t \in Thread : k.prio[t] \in Priority
    BY QueueFacts
  <2>. QED
    BY <2>1 DEF KInv, QueueExact, SameQueues
<1>2. /\ IsInjective(u.timers)
      /\ \A t \in Range(u.timers) : u.stat[t] = SUSPEND
      /\ \A t \in Range(u.defunct) : u.stat[t] = CLOSE
  BY DEF KInv, SameQueues
<1>3. \A t \in leaving :
         /\ t # u.cur /\ t \notin Range(u.timers)
         /\ \A p \in Priority : t \notin Range(u.ready[p])
  BY DEF KInv, SameQueues
<1>. QED
  BY <1>1, <1>2, <1>3 DEF KInv, SameQueues

\* Stopping a timer.
LEMMA StopTimer ==
    ASSUME NEW leaving, NEW k, KInv(k, leaving), NEW t \in Thread
    PROVE  LET u == rt_timer_stop(k, t)
           IN  /\ SameQueues(k, u)
               /\ Range(u.timers) = Range(k.timers) \ {t}
               /\ u.lock = k.lock /\ u.defunct = k.defunct /\ u.ready = k.ready
               /\ u.deadline = [k.deadline EXCEPT ![t] = 0]
               /\ u.tick = k.tick
<1>. DEFINE u == rt_timer_stop(k, t)
            r == RemoveFirst(k.timers, t)
<1>1. k \in KernelState /\ k.timers \in Seq(Thread) /\ IsInjective(k.timers)
  BY DEF KInv, KernelState
<1>2. /\ r \in Seq(Thread) /\ IsInjective(r)
      /\ Range(r) = Range(k.timers) \ {t}
  BY <1>1, RemoveFirstOnce
<1>3. u = [k EXCEPT !.timers = r, !.deadline[t] = 0, !.due[t] = 0]
  BY DEF rt_timer_stop
<1>. HIDE DEF u, r
<1>4. 0 \in Tick
  BY KernelConstants DEF Tick
<1>5. /\ u \in KernelState
      /\ u.stat = k.stat /\ u.cur = k.cur /\ u.group = k.group /\ u.prio = k.prio
      /\ u.ready = k.ready /\ u.defunct = k.defunct /\ u.lock = k.lock
      /\ u.timers = r /\ u.tick = k.tick
      /\ u.deadline = [k.deadline EXCEPT ![t] = 0]
  <2>1. /\ [k.deadline EXCEPT ![t] = 0] \in [Thread -> Tick]
        /\ [k.due EXCEPT ![t] = 0] \in [Thread -> Int]
    BY <1>1, <1>4 DEF KernelState
  <2>. QED
    BY <1>1, <1>2, <1>3, <2>1 DEF KernelState
<1>. QED
  BY <1>2, <1>5 DEF SameQueues, u

\* rt_list_remove of a thread that is in no ready list.
LEMMA ListRemoveOther ==
    ASSUME NEW leaving, NEW k, KInv(k, leaving), NEW t \in Thread,
           \A p \in Priority : t \notin Range(k.ready[p])
    PROVE  LET u == rt_list_remove(k, t)
           IN  SameQueues(k, u) /\ u.lock = k.lock /\ u.timers = k.timers
<1>. DEFINE u == rt_list_remove(k, t)
<1>1. k \in KernelState /\ \A p \in Priority : k.ready[p] \in Seq(Thread)
  BY QueueFacts
<1>2. /\ u \in KernelState
      /\ u.stat = k.stat /\ u.prio = k.prio /\ u.cur = k.cur
      /\ u.group = k.group /\ u.lock = k.lock /\ u.timers = k.timers
      /\ \A p \in Priority : u.ready[p] = RemoveFirst(k.ready[p], t)
      /\ Range(u.defunct) \subseteq Range(k.defunct)
  BY <1>1, ListRemoveFields
<1>. HIDE DEF u
<1>3. \A p \in Priority : u.ready[p] = k.ready[p]
  BY <1>1, <1>2, RemoveFirstSeq
<1>4. IsInjective(u.timers)
  BY <1>2 DEF KInv
<1>. QED
  BY <1>2, <1>3, <1>4 DEF SameQueues, u

\* The first section of rt_thread_resume, on a suspended thread.
LEMMA ResumeDetachKInv ==
    ASSUME NEW leaving, NEW k, KInv(k, leaving), NEW t \in Thread,
           \A p \in Priority : t \notin Range(k.ready[p])
    PROVE  LET u == ResumeDetach(k, t)
           IN  /\ SameQueues(k, u) /\ KInv(u, leaving)
               /\ u.lock = k.lock
               /\ t \notin Range(u.timers)
<1>. DEFINE v == rt_list_remove(k, t)
            u == rt_timer_stop(v, t)
<1>1. SameQueues(k, v) /\ v.lock = k.lock /\ v.timers = k.timers
  BY ListRemoveOther
<1>2. KInv(v, leaving)
  BY <1>1, SameKInv
<1>. HIDE DEF v
<1>3. /\ SameQueues(v, u)
      /\ Range(u.timers) = Range(v.timers) \ {t}
      /\ u.lock = v.lock
  BY <1>2, StopTimer
<1>. HIDE DEF u
<1>4. SameQueues(k, u)
  BY <1>1, <1>3 DEF SameQueues
<1>5. KInv(u, leaving)
  BY <1>4, SameKInv
<1>6. u = ResumeDetach(k, t)
  BY DEF u, v, ResumeDetach
<1>. QED
  BY <1>1, <1>3, <1>4, <1>5, <1>6

\* A record that differs from k in the state and priority of thread t at most,
\* among the fields the scheduler looks at.
Changed(k, u, t) ==
    /\ u \in KernelState
    /\ \A s \in Thread \ {t} : u.stat[s] = k.stat[s] /\ u.prio[s] = k.prio[s]
    /\ u.cur = k.cur /\ u.group = k.group /\ u.ready = k.ready
    /\ u.timers = k.timers /\ u.defunct = k.defunct

\* Changing the state or the priority of a thread that is in no ready list and
\* need not be in one.
LEMMA ChangeKInv ==
    ASSUME NEW leaving, NEW k, NEW u, KInv(k, leaving), NEW t \in Thread,
           Changed(k, u, t),
           \A p \in Priority : t \notin Range(k.ready[p]),
           u.stat[t] # READY \/ t = k.cur \/ t \in leaving,
           t \in Range(k.timers) => u.stat[t] = SUSPEND,
           t \in Range(k.defunct) => u.stat[t] = CLOSE
    PROVE  /\ KInv(u, leaving)
           /\ u.stat[t] # READY => KInv(u, leaving \ {t})
<1>1. \A p \in Priority :
         /\ p \in u.group <=> u.ready[p] # << >>
         /\ IsInjective(u.ready[p])
  BY QueueFacts DEF Changed
<1>2. ASSUME NEW p \in Priority, NEW s \in Range(u.ready[p])
      PROVE  u.stat[s] = READY /\ u.prio[s] = p /\ s # u.cur
  <2>1. s \in Range(k.ready[p]) /\ s # t
    BY DEF Changed
  <2>. QED
    BY <2>1, QueueFacts DEF Changed
<1>3. ASSUME NEW s \in Thread \ leaving, u.stat[s] = READY, s # u.cur
      PROVE  s \in Range(u.ready[u.prio[s]])
  <2>1. s # t
    BY <1>3 DEF Changed
  <2>. QED
    BY <1>3, <2>1, QueueFacts DEF Changed
<1>4. /\ IsInjective(u.timers)
      /\ \A s \in leaving :
           /\ s # u.cur /\ s \notin Range(u.timers)
           /\ \A p \in Priority : s \notin Range(u.ready[p])
  BY DEF KInv, Changed
<1>5. ASSUME NEW s \in Range(u.timers)
      PROVE  u.stat[s] = SUSPEND
  <2>1. s \in Range(k.timers) /\ s \in Thread /\ k.stat[s] = SUSPEND
    BY QueueFacts, RangeOfSeq DEF KInv, Changed, KernelState
  <2>. QED
    BY <2>1 DEF Changed
<1>6. ASSUME NEW s \in Range(u.defunct)
      PROVE  u.stat[s] = CLOSE
  <2>1. s \in Range(k.defunct) /\ s \in Thread /\ k.stat[s] = CLOSE
    BY QueueFacts, RangeOfSeq DEF KInv, Changed, KernelState
  <2>. QED
    BY <2>1 DEF Changed
<1>7. KInv(u, leaving)
  BY <1>1, <1>2, <1>3, <1>4, <1>5, <1>6 DEF KInv, QueueExact, Changed
<1>8. ASSUME u.stat[t] # READY
      PROVE  KInv(u, leaving \ {t})
  <2>1. QueueExact(u, leaving \ {t})
    BY <1>1, <1>2, <1>3, <1>8 DEF QueueExact
  <2>. QED
    BY <1>4, <1>7, <2>1 DEF KInv
<1>. QED
  BY <1>7, <1>8

\* A thread that is in no list and does not run may leave the scheduler.
LEMMA LeaveKInv ==
    ASSUME NEW leaving, NEW k, KInv(k, leaving), NEW t \in Thread,
           t # k.cur, t \notin Range(k.timers),
           \A p \in Priority : t \notin Range(k.ready[p])
    PROVE  KInv(k, leaving \cup {t})
<1>1. QueueExact(k, leaving \cup {t})
  BY DEF KInv, QueueExact
<1>. QED
  BY <1>1 DEF KInv

\* Handing a closed thread to the idle thread.
LEMMA DefunctKInv ==
    ASSUME NEW leaving, NEW k, KInv(k, leaving), NEW t \in Thread, k.stat[t] = CLOSE
    PROVE  KInv([k EXCEPT !.defunct = <<t>> \o @], leaving)
<1>. DEFINE r == <<t>> \o k.defunct
            u == [k EXCEPT !.defunct = r]
<1>1. k \in KernelState /\ k.defunct \in Seq(Thread)
  BY DEF KInv, KernelState
<1>2. r \in Seq(Thread) /\ Range(r) = {t} \cup Range(k.defunct)
  BY <1>1, PrependRange
<1>. HIDE DEF r
<1>3. /\ u \in KernelState
      /\ u.stat = k.stat /\ u.prio = k.prio /\ u.cur = k.cur
      /\ u.group = k.group /\ u.ready = k.ready /\ u.timers = k.timers
      /\ u.defunct = r
  BY <1>1, <1>2 DEF KernelState
<1>. HIDE DEF u
<1>4. QueueExact(u, leaving)
  BY <1>3 DEF KInv, QueueExact
<1>5. /\ IsInjective(u.timers)
      /\ \A s \in Range(u.timers) : u.stat[s] = SUSPEND
      /\ \A s \in Range(u.defunct) : u.stat[s] = CLOSE
      /\ \A s \in leaving :
           /\ s # u.cur /\ s \notin Range(u.timers)
           /\ \A p \in Priority : s \notin Range(u.ready[p])
  BY <1>2, <1>3 DEF KInv
<1>6. KInv(u, leaving)
  BY <1>3, <1>4, <1>5 DEF KInv
<1>. QED
  BY <1>6 DEF u, r

\* The lowest set bit names a list with a thread at its head.
LEMMA HeadIsLinked ==
    ASSUME NEW k, ListsExact(k), k.group # {}
    PROVE  /\ HighestReady(k) \in k.group /\ HighestReady(k) \in Priority
           /\ \A p \in k.group : HighestReady(k) <= p
           /\ k.ready[HighestReady(k)] \in Seq(Thread)
           /\ Head(k.ready[HighestReady(k)]) \in Range(k.ready[HighestReady(k)])
           /\ Head(k.ready[HighestReady(k)]) \in Thread
<1>1. k.group \in SUBSET Priority
  BY DEF ListsExact, KernelState
<1>2. k.group \in SUBSET Nat
  BY <1>1, KernelConstants DEF Priority
<1>3. HighestReady(k) \in k.group /\ \A p \in k.group : HighestReady(k) <= p
  BY <1>2, MinOfNat DEF HighestReady
<1>4. HighestReady(k) \in Priority
  BY <1>1, <1>3
<1>5. k.ready[HighestReady(k)] \in Seq(Thread) /\ k.ready[HighestReady(k)] # << >>
  BY <1>3, <1>4 DEF ListsExact, KernelState
<1>. QED
  BY <1>3, <1>4, <1>5, HeadInRange

\* The record u is k after a context switch, or after none.
Switched(k, u) ==
    /\ u.stat = k.stat /\ u.prio = k.prio /\ u.lock = k.lock
    /\ u.timers = k.timers
    /\ Range(u.defunct) \subseteq Range(k.defunct)
    /\ u.cur = k.cur \/ k.stat[u.cur] = READY

\* A switch to a linked thread.
LEMMA SwitchToKInv ==
    ASSUME NEW leaving, NEW k, KInv(k, leaving),
           NEW p \in Priority, NEW to \in Range(k.ready[p])
    PROVE  /\ KInv(SwitchTo(k, to), leaving)
           /\ Switched(k, SwitchTo(k, to))
           /\ SwitchTo(k, to).cur = to
<1>. DEFINE v == [k EXCEPT !.cur = to]
            w == IF k.stat[k.cur] = READY THEN rt_schedule_insert_thread(v, k.cur) ELSE v
            u == rt_schedule_remove_thread(w, to)
            c == k.cur
<1>1. /\ k \in KernelState
      /\ to \in Thread /\ k.stat[to] = READY /\ k.prio[to] = p /\ to # k.cur
      /\ k.cur \in Thread /\ \A q \in Priority : k.cur \notin Range(k.ready[q])
  BY QueueFacts
<1>2. /\ v \in KernelState /\ v.cur = to
      /\ v.stat = k.stat /\ v.prio = k.prio /\ v.lock = k.lock /\ v.ready = k.ready
      /\ v.group = k.group /\ v.timers = k.timers /\ v.defunct = k.defunct
  BY <1>1 DEF KernelState
<1>. HIDE DEF v
<1>3. ListsExact(v)
  BY <1>2, QueueFacts DEF ListsExact
<1>4. /\ ListsExact(w)
      /\ w.stat = k.stat /\ w.prio = k.prio /\ w.lock = k.lock /\ w.cur = to
      /\ w.timers = k.timers /\ w.defunct = k.defunct
      /\ \A q \in Priority :
           Range(w.ready[q]) = IF k.stat[c] = READY /\ q = k.prio[c]
                               THEN Range(k.ready[q]) \cup {c}
                               ELSE Range(k.ready[q])
  <2>1. CASE k.stat[c] = READY
    <3>1. w = rt_schedule_insert_thread(v, c)
      BY <2>1
    <3>2. Linked(v, w, c) /\ ListsExact(w)
      BY <1>1, <1>2, <1>3, <3>1, LinkThread
    <3>. HIDE DEF w
    <3>3. w.stat = k.stat
      BY <1>2, <2>1, <3>2, QueueFacts DEF Linked
    <3>. QED
      BY <1>2, <2>1, <3>2, <3>3 DEF Linked
  <2>2. CASE k.stat[c] # READY
    BY <1>2, <1>3, <2>2
  <2>. QED
    BY <2>1, <2>2
<1>. HIDE DEF w
<1>5. Unlinked(w, u, to)
  BY <1>1, <1>4, RemoveThread
<1>. HIDE DEF u
<1>6. \A q \in Priority :
         Range(u.ready[q]) = (IF k.stat[c] = READY /\ q = k.prio[c]
                              THEN Range(k.ready[q]) \cup {c}
                              ELSE Range(k.ready[q])) \ {to}
  BY <1>4, <1>5 DEF Unlinked
<1>7. /\ u \in KernelState /\ u.cur = to
      /\ u.stat = k.stat /\ u.prio = k.prio /\ u.lock = k.lock
      /\ u.timers = k.timers /\ Range(u.defunct) \subseteq Range(k.defunct)
      /\ \A q \in Priority :
           /\ IsInjective(u.ready[q])
           /\ q \in u.group <=> u.ready[q] # << >>
  BY <1>4, <1>5 DEF Unlinked
<1>8. QueueExact(u, leaving)
  <2>1. ASSUME NEW q \in Priority, NEW s \in Range(u.ready[q])
        PROVE  u.stat[s] = READY /\ u.prio[s] = q /\ s # u.cur
    <3>1. s # to /\ (s \in Range(k.ready[q]) \/ (s = c /\ k.stat[c] = READY /\ q = k.prio[c]))
      BY <1>6
    <3>. QED
      BY <1>7, <3>1, QueueFacts
  <2>2. ASSUME NEW s \in Thread \ leaving, u.stat[s] = READY, s # u.cur
        PROVE  s \in Range(u.ready[u.prio[s]])
    <3>1. k.prio[s] \in Priority
      BY QueueFacts
    <3>2. s = c \/ s \in Range(k.ready[k.prio[s]])
      BY <1>7, <2>2, QueueFacts
    <3>. QED
      BY <1>6, <1>7, <2>2, <3>1, <3>2
  <2>. QED
    BY <1>7, <2>1, <2>2 DEF QueueExact
<1>9. /\ IsInjective(u.timers)
      /\ \A s \in Range(u.timers) : u.stat[s] = SUSPEND
      /\ \A s \in Range(u.defunct) : u.stat[s] = CLOSE
  BY <1>7 DEF KInv
<1>10. ASSUME NEW s \in leaving
       PROVE  /\ s # u.cur /\ s \notin Range(u.timers)
              /\ \A q \in Priority : s \notin Range(u.ready[q])
  <2>1. s # c /\ s # to /\ s \notin Range(k.timers)
        /\ \A q \in Priority : s \notin Range(k.ready[q])
    BY <1>1 DEF KInv
  <2>. QED
    BY <1>6, <1>7, <2>1
<1>11. KInv(u, leaving)
  BY <1>7, <1>8, <1>9, <1>10 DEF KInv
<1>12. u = SwitchTo(k, to)
  BY DEF u, w, v, SwitchTo
<1>. QED
  BY <1>1, <1>7, <1>11, <1>12 DEF Switched

\* rt_schedule keeps the ready queue exact, and lets a thread that is not
\* READY run on only when the scheduler is locked or no thread is READY.
LEMMA ScheduleKInv ==
    ASSUME NEW leaving, NEW k, KInv(k, leaving)
    PROVE  /\ KInv(rt_schedule(k), leaving)
           /\ Switched(k, rt_schedule(k))
           /\ k.lock = 0 /\ k.group # {} /\ k.stat[k.cur] # READY
                => k.stat[rt_schedule(k).cur] = READY
<1>. DEFINE to == Head(k.ready[HighestReady(k)])
            next == IF StaysOn(k) \/ to = k.cur
                    THEN rt_schedule_remove_thread(k, k.cur)
                    ELSE SwitchTo(k, to)
            u == rt_schedule(k)
<1>1. CASE k.lock # 0
  BY <1>1 DEF rt_schedule, Switched
<1>2. ASSUME NEW v, KInv(v, leaving), Switched(k, v)
      PROVE  /\ KInv([v EXCEPT !.owed = FALSE], leaving)
             /\ Switched(k, [v EXCEPT !.owed = FALSE])
             /\ [v EXCEPT !.owed = FALSE].cur = v.cur
  <2>. DEFINE w == [v EXCEPT !.owed = FALSE]
  <2>1. v \in KernelState
    BY <1>2 DEF KInv
  <2>2. /\ w \in KernelState
        /\ w.stat = v.stat /\ w.cur = v.cur /\ w.group = v.group /\ w.prio = v.prio
        /\ w.ready = v.ready /\ w.timers = v.timers /\ w.defunct = v.defunct
        /\ w.lock = v.lock
    BY <2>1 DEF KernelState
  <2>. HIDE DEF w
  <2>3. SameQueues(v, w)
    BY <1>2, <2>2 DEF SameQueues, KInv
  <2>4. KInv(w, leaving)
    BY <1>2, <2>3, SameKInv
  <2>5. Switched(k, w)
    BY <1>2, <2>2 DEF Switched
  <2>. QED
    BY <2>2, <2>4, <2>5 DEF w
<1>3. CASE k.lock = 0 /\ k.group = {}
  <2>1. u = [k EXCEPT !.owed = FALSE]
    BY <1>3 DEF rt_schedule
  <2>2. Switched(k, k)
    BY DEF Switched
  <2>. QED
    BY <1>2, <1>3, <2>1, <2>2
<1>4. CASE k.lock = 0 /\ k.group # {}
  <2>1. u = [next EXCEPT !.owed = FALSE]
    BY <1>4 DEF rt_schedule
  <2>2. /\ HighestReady(k) \in Priority
        /\ to \in Range(k.ready[HighestReady(k)])
        /\ to # k.cur /\ k.stat[to] = READY
    BY <1>4, HeadIsLinked, QueueFacts
  <2>3. /\ KInv(next, leaving) /\ Switched(k, next)
        /\ k.stat[k.cur] # READY => k.stat[next.cur] = READY
    <3>1. CASE StaysOn(k)
      <4>1. next = rt_schedule_remove_thread(k, k.cur) /\ k.stat[k.cur] = READY
        BY <3>1 DEF StaysOn
      <4>. HIDE DEF next, to
      <4>. QED
        BY <4>1, RemoveCurrent DEF Switched
    <3>2. CASE ~StaysOn(k)
      <4>1. next = SwitchTo(k, to)
        BY <2>2, <3>2
      <4>. HIDE DEF next, to
      <4>. QED
        BY <2>2, <4>1, SwitchToKInv
    <3>. QED
      BY <3>1, <3>2
  <2>. HIDE DEF next, to, u
  <2>4. KInv(u, leaving) /\ Switched(k, u) /\ u.cur = next.cur
    BY <1>2, <2>1, <2>3
  <2>. QED
    BY <2>3, <2>4 DEF u
<1>5. k.lock # 0 \/ (k.lock = 0 /\ k.group = {}) \/ (k.lock = 0 /\ k.group # {})
  OBVIOUS
<1>. QED
  BY <1>1, <1>3, <1>4, <1>5

\* The record u is k with the timer of thread t running.
TimerStarted(k, u, t) ==
    /\ u.stat = k.stat /\ u.cur = k.cur /\ u.lock = k.lock
    /\ u.defunct = k.defunct
    /\ Range(u.timers) = Range(k.timers) \cup {t}

\* Starting the timer of a suspended thread.
LEMMA StartTimer ==
    ASSUME NEW leaving, NEW k, KInv(k, leaving), NEW t \in Thread, t \notin leaving,
           k.stat[t] = SUSPEND, NEW n \in Nat
    PROVE  /\ KInv(rt_timer_start(k, t, n), leaving)
           /\ TimerStarted(k, rt_timer_start(k, t, n), t)
<1>. DEFINE timeout_tick == (k.tick + n) % TICK_RANGE
            others == RemoveFirst(k.timers, t)
            Later(s) == TickDiff(k.deadline[s], timeout_tick) \in 1 .. HALF_RANGE - 1
            hits == {i \in 1 .. Len(others) : Later(others[i])}
            position == PositionBefore(others, Later)
            r == InsertAt(others, position, t)
            u == rt_timer_start(k, t, n)
<1>1. /\ k \in KernelState /\ k.timers \in Seq(Thread) /\ IsInjective(k.timers)
      /\ k.tick \in Nat
  <2>1. k \in KernelState /\ IsInjective(k.timers)
    BY DEF KInv
  <2>2. k.timers \in Seq(Thread) /\ k.tick \in Tick
    BY <2>1 DEF KernelState
  <2>3. k.tick \in Nat
    BY <2>2, KernelConstants DEF Tick
  <2>. QED
    BY <2>1, <2>2, <2>3
<1>2. /\ others \in Seq(Thread) /\ IsInjective(others)
      /\ Range(others) = Range(k.timers) \ {t}
  BY <1>1, RemoveFirstOnce
<1>3. position \in 1 .. Len(others) + 1
  <2>1. position = IF hits = {} THEN Len(others) + 1 ELSE Min(hits)
    BY DEF PositionBefore
  <2>2. Len(others) \in Nat /\ hits \in SUBSET Nat /\ hits \subseteq 1 .. Len(others)
    BY <1>2, LenProperties
  <2>. HIDE DEF hits, others, position
  <2>3. hits # {} => Min(hits) \in 1 .. Len(others)
    BY <2>2, MinOfNat
  <2>. QED
    BY <2>1, <2>2, <2>3
<1>4. timeout_tick \in Tick
  <2>1. TICK_RANGE \in Nat \ {0} /\ k.tick + n \in Nat
    BY <1>1, KernelConstants
  <2>. QED
    BY <2>1 DEF Tick
<1>5. /\ r \in Seq(Thread) /\ IsInjective(r)
      /\ Range(r) = Range(k.timers) \cup {t}
  <2>1. t \notin Range(others)
    BY <1>2
  <2>. HIDE DEF others, position
  <2>2. /\ InsertAt(others, position, t) \in Seq(Thread)
        /\ IsInjective(InsertAt(others, position, t))
        /\ Range(InsertAt(others, position, t)) = Range(others) \cup {t}
    BY <1>2, <1>3, <2>1, InsertAtOnce
  <2>. QED
    BY <1>2, <2>2
<1>6. u = [k EXCEPT !.deadline[t] = timeout_tick,
                    !.due[t] = IF n = 0 THEN 1 ELSE n, !.timers = r]
  BY DEF rt_timer_start
<1>. HIDE DEF u, r, timeout_tick
<1>7. /\ u \in KernelState
      /\ u.stat = k.stat /\ u.cur = k.cur /\ u.group = k.group /\ u.prio = k.prio
      /\ u.ready = k.ready /\ u.defunct = k.defunct /\ u.lock = k.lock
      /\ u.timers = r
  <2>1. /\ [k.deadline EXCEPT ![t] = timeout_tick] \in [Thread -> Tick]
        /\ [k.due EXCEPT ![t] = IF n = 0 THEN 1 ELSE n] \in [Thread -> Int]
    BY <1>1, <1>4 DEF KernelState
  <2>. QED
    BY <1>1, <1>5, <1>6, <2>1 DEF KernelState
<1>8. QueueExact(u, leaving)
  BY <1>7 DEF KInv, QueueExact
<1>9. /\ IsInjective(u.timers)
      /\ \A s \in Range(u.timers) : u.stat[s] = SUSPEND
      /\ \A s \in Range(u.defunct) : u.stat[s] = CLOSE
      /\ \A s \in leaving :
           /\ s # u.cur /\ s \notin Range(u.timers)
           /\ \A p \in Priority : s \notin Range(u.ready[p])
  BY <1>5, <1>7 DEF KInv
<1>10. KInv(u, leaving)
  BY <1>7, <1>8, <1>9 DEF KInv
<1>. QED
  BY <1>5, <1>7, <1>10 DEF u, TimerStarted

\* Changing the state of the running thread.
LEMMA StateOfCurrent ==
    ASSUME NEW leaving, NEW k, KInv(k, leaving), NEW s \in Stat,
           k.cur \in Range(k.timers) => s = SUSPEND,
           k.cur \in Range(k.defunct) => s = CLOSE
    PROVE  LET u == [k EXCEPT !.stat[k.cur] = s]
           IN  /\ KInv(u, leaving)
               /\ u.stat = [k.stat EXCEPT ![k.cur] = s]
               /\ u.cur = k.cur /\ u.lock = k.lock /\ u.timers = k.timers
               /\ u.defunct = k.defunct
<1>. DEFINE u == [k EXCEPT !.stat[k.cur] = s]
<1>1. /\ k \in KernelState /\ k.cur \in Thread /\ k.stat \in [Thread -> Stat]
      /\ \A p \in Priority : k.cur \notin Range(k.ready[p])
  BY QueueFacts
<1>2. /\ u \in KernelState
      /\ u.stat = [k.stat EXCEPT ![k.cur] = s]
      /\ u.prio = k.prio /\ u.cur = k.cur /\ u.lock = k.lock
      /\ u.group = k.group /\ u.ready = k.ready
      /\ u.timers = k.timers /\ u.defunct = k.defunct
  BY <1>1 DEF KernelState
<1>. HIDE DEF u
<1>3. u.stat[k.cur] = s
  BY <1>1, <1>2
<1>4. Changed(k, u, k.cur)
  BY <1>1, <1>2 DEF Changed
<1>5. KInv(u, leaving)
  BY <1>1, <1>3, <1>4, ChangeKInv
<1>. QED
  BY <1>2, <1>5 DEF u

\* rt_thread_suspend of the running thread.
LEMMA SuspendCurrent ==
    ASSUME NEW leaving, NEW k, KInv(k, leaving)
    PROVE  LET u == rt_thread_suspend(k, k.cur)
           IN  /\ KInv(u, leaving)
               /\ u.stat = IF k.stat[k.cur] = READY
                           THEN [k.stat EXCEPT ![k.cur] = SUSPEND] ELSE k.stat
               /\ u.cur = k.cur /\ u.lock = k.lock
               /\ Range(u.timers) \subseteq Range(k.timers)
               /\ Range(u.defunct) \subseteq Range(k.defunct)
<1>. DEFINE v == [k EXCEPT !.stat[k.cur] = SUSPEND]
            w == rt_schedule_remove_thread(v, k.cur)
            u == rt_timer_stop(w, k.cur)
<1>1. CASE k.stat[k.cur] # READY
  BY <1>1 DEF rt_thread_suspend
<1>2. CASE k.stat[k.cur] = READY
  <2>1. k.cur \notin Range(k.timers) /\ k.cur \notin Range(k.defunct) /\ k.cur \in Thread
    BY <1>2, StatesDiffer, QueueFacts DEF KInv
  <2>2. /\ KInv(v, leaving)
        /\ v.stat = [k.stat EXCEPT ![k.cur] = SUSPEND]
        /\ v.cur = k.cur /\ v.lock = k.lock /\ v.timers = k.timers
        /\ v.defunct = k.defunct
    BY <2>1, StatesDiffer, StateOfCurrent
  <2>. HIDE DEF v
  <2>3. /\ KInv(w, leaving)
        /\ w.stat = v.stat /\ w.cur = v.cur /\ w.lock = v.lock
        /\ w.timers = v.timers /\ Range(w.defunct) \subseteq Range(v.defunct)
    BY <2>2, RemoveCurrent, ZenonT(60)
  <2>. HIDE DEF w
  <2>4. /\ SameQueues(w, u) /\ u.lock = w.lock
    BY <2>1, <2>3, StopTimer, ZenonT(60)
  <2>. HIDE DEF u
  <2>5. KInv(u, leaving)
    BY <2>3, <2>4, SameKInv
  <2>6. u = rt_thread_suspend(k, k.cur)
    BY <1>2 DEF u, w, v, rt_thread_suspend
  <2>. QED
    BY <1>2, <2>2, <2>3, <2>4, <2>5, <2>6 DEF SameQueues
<1>. QED
  BY <1>1, <1>2

\* The record u is k after thread t became READY again, and perhaps a context
\* switch.
Readied(k, u, t) ==
    /\ u.stat = [k.stat EXCEPT ![t] = READY]
    /\ u.lock = k.lock
    /\ Range(u.timers) \subseteq Range(k.timers)
    /\ Range(u.defunct) \subseteq Range(k.defunct)
    /\ u.cur = k.cur \/ u.stat[u.cur] = READY

\* Waking a suspended thread: its timer is stopped, it is taken out of the list
\* it waits in and inserted into the ready queue.
LEMMA WakeKInv ==
    ASSUME NEW leaving, NEW k, KInv(k, leaving), NEW t \in Thread \ leaving,
           k.stat[t] = SUSPEND
    PROVE  LET v == rt_schedule_insert_thread(ResumeDetach(k, t), t)
           IN  KInv(v, leaving) /\ Readied(k, v, t) /\ v.cur = k.cur
<1>. DEFINE w == ResumeDetach(k, t)
            v == rt_schedule_insert_thread(w, t)
<1>1. \A p \in Priority : t \notin Range(k.ready[p])
  BY StatesDiffer, QueueFacts
<1>2. /\ SameQueues(k, w) /\ KInv(w, leaving) /\ w.lock = k.lock
      /\ t \notin Range(w.timers)
  BY <1>1, ResumeDetachKInv
<1>. HIDE DEF w
<1>3. w.stat[t] # CLOSE /\ \A p \in Priority : t \notin Range(w.ready[p])
  BY <1>1, <1>2, StatesDiffer DEF SameQueues
<1>4. /\ KInv(v, leaving \ {t})
      /\ v.stat = [w.stat EXCEPT ![t] = READY]
      /\ v.cur = w.cur /\ v.lock = w.lock
      /\ v.timers = w.timers /\ v.defunct = w.defunct
  BY <1>2, <1>3, InsertThread
<1>. HIDE DEF v
<1>5. leaving \ {t} = leaving
  OBVIOUS
<1>. QED
  BY <1>2, <1>4, <1>5 DEF v, w, Readied, SameQueues

\* The same, followed by rt_schedule.
LEMMA ScheduleReadied ==
    ASSUME NEW leaving, NEW k, NEW v, KInv(v, leaving), NEW t, Readied(k, v, t),
           v.cur = k.cur
    PROVE  KInv(rt_schedule(v), leaving) /\ Readied(k, rt_schedule(v), t)
<1>1. KInv(rt_schedule(v), leaving) /\ Switched(v, rt_schedule(v))
  BY ScheduleKInv
<1>. QED
  BY <1>1 DEF Readied, Switched

\* rt_thread_timeout, once rt_timer_check has taken the timer off the list.
LEMMA TimeoutKInv ==
    ASSUME NEW leaving, NEW k, KInv(k, leaving), NEW t \in Thread \ leaving,
           k.stat[t] = SUSPEND, t \notin Range(k.timers)
    PROVE  LET u == rt_schedule_insert_thread(
                       rt_list_remove([k EXCEPT !.error[t] = ETIMEOUT], t), t)
           IN  /\ KInv(u, leaving) /\ Readied(k, u, t) /\ u.cur = k.cur
               /\ rt_thread_timeout(k, t) = rt_schedule(u)
<1>. DEFINE e == [k EXCEPT !.error[t] = ETIMEOUT]
            w == rt_list_remove(e, t)
            u == rt_schedule_insert_thread(w, t)
<1>1. k \in KernelState /\ \A p \in Priority : t \notin Range(k.ready[p])
  BY StatesDiffer, QueueFacts
<1>2. /\ e \in KernelState
      /\ e.stat = k.stat /\ e.cur = k.cur /\ e.group = k.group /\ e.prio = k.prio
      /\ e.ready = k.ready /\ e.timers = k.timers /\ e.defunct = k.defunct
      /\ e.lock = k.lock
  BY <1>1 DEF KernelState
<1>. HIDE DEF e
<1>3. SameQueues(k, e)
  BY <1>2 DEF SameQueues, KInv
<1>4. KInv(e, leaving)
  BY <1>3, SameKInv
<1>5. SameQueues(e, w) /\ w.lock = e.lock /\ w.timers = e.timers
  BY <1>1, <1>2, <1>4, ListRemoveOther
<1>. HIDE DEF w
<1>6. KInv(w, leaving)
  BY <1>4, <1>5, SameKInv
<1>7. /\ w.stat[t] # CLOSE /\ t \notin Range(w.timers)
      /\ \A p \in Priority : t \notin Range(w.ready[p])
  BY <1>1, <1>2, <1>5, StatesDiffer DEF SameQueues
<1>8. /\ KInv(u, leaving \ {t})
      /\ u.stat = [w.stat EXCEPT ![t] = READY]
      /\ u.cur = w.cur /\ u.lock = w.lock
      /\ u.timers = w.timers /\ u.defunct = w.defunct
  BY <1>6, <1>7, InsertThread
<1>. HIDE DEF u
<1>9. leaving \ {t} = leaving
  OBVIOUS
<1>10. rt_thread_timeout(k, t) = rt_schedule(u)
  BY DEF rt_thread_timeout, u, w, e
<1>. QED
  BY <1>2, <1>5, <1>8, <1>9, <1>10 DEF u, w, e, Readied, SameQueues

\* rt_tick_increase charges the running thread, and may switch.
LEMMA TickKInv ==
    ASSUME NEW leaving, NEW k, KInv(k, leaving)
    PROVE  /\ KInv(rt_tick_increase(k), leaving)
           /\ Switched(k, rt_tick_increase(k))
           /\ k.lock = 0 /\ k.group # {} /\ k.stat[k.cur] # READY
              /\ rt_tick_increase(k).cur # k.cur
                => k.stat[rt_tick_increase(k).cur] = READY
<1>. DEFINE t == k.cur
            due == [u \in Thread |-> IF u \in Range(k.timers) THEN k.due[u] - 1 ELSE k.due[u]]
            counted == [k EXCEPT !.tick = (k.tick + 1) % TICK_RANGE, !.due = due]
            reset == [counted EXCEPT !.slice[t] = InitTick[t]]
            charged == [counted EXCEPT !.slice[t] = counted.slice[t] - 1]
            u == rt_tick_increase(k)
<1>1. /\ k \in KernelState /\ t \in Thread /\ IsInjective(k.timers)
      /\ k.tick \in Tick /\ k.due \in [Thread -> Int]
      /\ k.slice \in [Thread -> Nat \ {0}]
  BY QueueFacts DEF KInv, KernelState
<1>2. (k.tick + 1) % TICK_RANGE \in Tick
  <2>1. TICK_RANGE \in Nat \ {0} /\ k.tick + 1 \in Nat
    BY <1>1, KernelConstants DEF Tick
  <2>. QED
    BY <2>1 DEF Tick
<1>3. due \in [Thread -> Int]
  BY <1>1
<1>4. u = IF k.slice[t] = 1 THEN rt_schedule(reset) ELSE charged
  <2>. HIDE DEF due
  <2>1. counted.slice = k.slice
    BY <1>1 DEF KernelState
  <2>. QED
    BY <2>1 DEF rt_tick_increase, due
<1>. HIDE DEF due
<1>5. /\ counted \in KernelState
      /\ counted.stat = k.stat /\ counted.cur = k.cur /\ counted.group = k.group
      /\ counted.prio = k.prio /\ counted.ready = k.ready /\ counted.lock = k.lock
      /\ counted.timers = k.timers /\ counted.defunct = k.defunct
      /\ counted.slice = k.slice
  BY <1>1, <1>2, <1>3 DEF KernelState
<1>. HIDE DEF counted
<1>6. ASSUME NEW n \in Nat \ {0}
      PROVE  LET v == [counted EXCEPT !.slice[t] = n]
             IN  SameQueues(k, v) /\ v.lock = k.lock
                 /\ v.timers = k.timers /\ v.defunct = k.defunct
  <2>. DEFINE v == [counted EXCEPT !.slice[t] = n]
  <2>1. /\ v \in KernelState
        /\ v.stat = k.stat /\ v.cur = k.cur /\ v.group = k.group
        /\ v.prio = k.prio /\ v.ready = k.ready /\ v.lock = k.lock
        /\ v.timers = k.timers /\ v.defunct = k.defunct
    BY <1>5 DEF KernelState
  <2>. HIDE DEF v
  <2>. QED
    BY <1>1, <2>1 DEF SameQueues, v
<1>7. CASE k.slice[t] = 1
  <2>1. InitTick[t] \in Nat \ {0}
    BY <1>1, KernelConstants
  <2>2. SameQueues(k, reset) /\ reset.lock = k.lock
        /\ reset.timers = k.timers /\ reset.defunct = k.defunct
    BY <1>6, <2>1
  <2>. HIDE DEF reset
  <2>3. KInv(reset, leaving)
    BY <2>2, SameKInv
  <2>4. KInv(rt_schedule(reset), leaving) /\ Switched(reset, rt_schedule(reset))
    BY <2>3, ScheduleKInv
  <2>5. Switched(k, rt_schedule(reset))
    BY <2>2, <2>4 DEF SameQueues, Switched
  <2>6. u = rt_schedule(reset)
    BY <1>4, <1>7
  <2>. QED
    BY <2>4, <2>5, <2>6 DEF Switched
<1>8. CASE k.slice[t] # 1
  <2>1. counted.slice[t] - 1 \in Nat \ {0}
    <3>1. k.slice[t] \in Nat \ {0}
      BY <1>1
    <3>. QED
      BY <1>5, <1>8, <3>1
  <2>2. SameQueues(k, charged) /\ charged.lock = k.lock
        /\ charged.timers = k.timers /\ charged.defunct = k.defunct
    BY <1>6, <2>1
  <2>. HIDE DEF charged
  <2>3. KInv(charged, leaving)
    BY <2>2, SameKInv
  <2>4. Switched(k, charged)
    BY <2>2 DEF SameQueues, Switched
  <2>. QED
    BY <1>4, <1>8, <2>3, <2>4 DEF Switched
<1>. QED
  BY <1>7, <1>8

\* RT_THREAD_CTRL_CHANGE_PRIORITY.
LEMMA ChangePriorityKInv ==
    ASSUME NEW leaving, NEW k, KInv(k, leaving), NEW t \in Thread \ leaving,
           NEW p \in Priority
    PROVE  LET u == ChangePriority(k, t, p)
           IN  /\ KInv(u, leaving)
               /\ u.stat = k.stat /\ u.cur = k.cur /\ u.lock = k.lock
               /\ Range(u.timers) \subseteq Range(k.timers)
               /\ Range(u.defunct) \subseteq Range(k.defunct)
<1>. DEFINE u == ChangePriority(k, t, p)
<1>1. k \in KernelState /\ k.stat \in [Thread -> Stat] /\ k.cur \in Thread
      /\ \A q \in Priority : k.cur \notin Range(k.ready[q])
  BY QueueFacts
<1>2. ASSUME NEW j, j \in KernelState
      PROVE  LET w == [j EXCEPT !.prio[t] = p]
             IN  /\ Changed(j, w, t)
                 /\ w.stat = j.stat /\ w.cur = j.cur /\ w.lock = j.lock
                 /\ w.ready = j.ready
                 /\ w.timers = j.timers /\ w.defunct = j.defunct
  <2>. DEFINE w == [j EXCEPT !.prio[t] = p]
  <2>1. /\ w \in KernelState
        /\ w.stat = j.stat /\ w.cur = j.cur /\ w.group = j.group
        /\ w.prio = [j.prio EXCEPT ![t] = p]
        /\ w.ready = j.ready /\ w.lock = j.lock
        /\ w.timers = j.timers /\ w.defunct = j.defunct
    BY <1>2 DEF KernelState
  <2>2. j.prio \in [Thread -> Priority]
    BY <1>2 DEF KernelState
  <2>. HIDE DEF w
  <2>. QED
    BY <2>1, <2>2 DEF Changed, w
<1>3. CASE k.stat[t] # READY
  <2>. DEFINE w == [k EXCEPT !.prio[t] = p]
  <2>1. /\ Changed(k, w, t) /\ w.stat = k.stat /\ w.cur = k.cur /\ w.lock = k.lock
        /\ w.timers = k.timers /\ w.defunct = k.defunct
    BY <1>1, <1>2
  <2>2. u = w
    BY <1>3 DEF ChangePriority
  <2>. HIDE DEF w, u
  <2>3. \A q \in Priority : t \notin Range(k.ready[q])
    BY <1>3, QueueFacts
  <2>4. KInv(w, leaving)
    <3>1. /\ t \in Range(k.timers) => w.stat[t] = SUSPEND
          /\ t \in Range(k.defunct) => w.stat[t] = CLOSE
          /\ w.stat[t] # READY
      BY <1>3, <2>1 DEF KInv
    <3>. QED
      BY <2>1, <2>3, <3>1, ChangeKInv
  <2>. QED
    BY <2>1, <2>2, <2>4 DEF u
<1>4. CASE k.stat[t] = READY
  <2>. DEFINE v == rt_schedule_remove_thread(k, t)
              w == [v EXCEPT !.prio[t] = p]
              left == IF t = k.cur THEN leaving ELSE leaving \cup {t}
  <2>1. t \notin Range(k.timers) /\ t \notin Range(k.defunct)
    BY <1>4, StatesDiffer DEF KInv
  <2>2. Unlinked(k, v, t)
    BY <1>1, QueueFacts, RemoveThread
  <2>3. KInv(v, left)
    <3>1. CASE t = k.cur
      BY <3>1, RemoveCurrent
    <3>2. CASE t # k.cur
      BY <2>1, <3>2, RemoveOther
    <3>. QED
      BY <3>1, <3>2
  <2>4. u = rt_schedule_insert_thread(w, t)
    BY <1>4 DEF ChangePriority
  <2>. HIDE DEF v
  <2>5. /\ Changed(v, w, t)
        /\ w.stat = v.stat /\ w.cur = v.cur /\ w.lock = v.lock /\ w.ready = v.ready
        /\ w.timers = v.timers /\ w.defunct = v.defunct
    BY <1>2, <2>2 DEF Unlinked
  <2>. HIDE DEF w, u
  <2>6. \A q \in Priority : t \notin Range(v.ready[q])
    BY <2>2 DEF Unlinked
  <2>7. KInv(w, left)
    <3>1. t = v.cur \/ t \in left
      BY <2>2 DEF Unlinked
    <3>2. t \notin Range(v.timers) /\ t \notin Range(v.defunct)
      BY <2>1, <2>2 DEF Unlinked
    <3>. HIDE DEF left
    <3>. QED
      BY <2>3, <2>5, <2>6, <3>1, <3>2, ChangeKInv
  <2>8. /\ t \in Thread /\ w.stat[t] # CLOSE /\ t \notin Range(w.timers)
        /\ \A q \in Priority : t \notin Range(w.ready[q])
    BY <1>4, <2>1, <2>2, <2>5, <2>6, StatesDiffer DEF Unlinked
  <2>9. /\ KInv(u, left \ {t})
        /\ u.stat = [w.stat EXCEPT ![t] = READY]
        /\ u.cur = w.cur /\ u.lock = w.lock
        /\ u.timers = w.timers /\ u.defunct = w.defunct
    <3>. HIDE DEF left
    <3>. DEFINE x == rt_schedule_insert_thread(w, t)
    <3>1. /\ KInv(x, left \ {t})
          /\ x.stat = [w.stat EXCEPT ![t] = READY]
          /\ x.prio = w.prio /\ x.cur = w.cur /\ x.lock = w.lock
          /\ x.timers = w.timers /\ x.defunct = w.defunct
      BY <2>7, <2>8, InsertThread, SMTT(60)
    <3>. QED
      BY <2>4, <3>1
  <2>10. left \ {t} = leaving
    OBVIOUS
  <2>11. [k.stat EXCEPT ![t] = READY] = k.stat
    BY <1>1, <1>4
  <2>. QED
    BY <2>2, <2>5, <2>9, <2>10, <2>11, ZenonT(60) DEF Unlinked, u
<1>. QED
  BY <1>3, <1>4

\* The running thread leaves for good: it is unlinked, closed and its timer
\* stopped.
LEMMA CloseCurrent ==
    ASSUME NEW leaving, NEW k, KInv(k, leaving)
    PROVE  LET u == rt_timer_stop([rt_schedule_remove_thread(k, k.cur)
                                      EXCEPT !.stat[k.cur] = CLOSE], k.cur)
           IN  /\ KInv(u, leaving)
               /\ u.stat = [k.stat EXCEPT ![k.cur] = CLOSE]
               /\ u.cur = k.cur /\ u.lock = k.lock
               /\ Range(u.timers) \subseteq Range(k.timers)
               /\ Range(u.defunct) \subseteq Range(k.defunct)
<1>. DEFINE c == k.cur
            v == rt_schedule_remove_thread(k, c)
            w == rt_timer_stop(v, c)
            x == [w EXCEPT !.stat[c] = CLOSE]
<1>1. /\ KInv(v, leaving)
      /\ v.stat = k.stat /\ v.cur = k.cur /\ v.lock = k.lock
      /\ v.timers = k.timers /\ Range(v.defunct) \subseteq Range(k.defunct)
  BY RemoveCurrent
<1>2. c \in Thread
  BY QueueFacts
<1>3. v \in KernelState
  BY <1>1 DEF KInv
<1>4. rt_timer_stop([v EXCEPT !.stat[c] = CLOSE], c) = x
  <2>. HIDE DEF v, c
  <2>. QED
    BY <1>3 DEF rt_timer_stop, KernelState
<1>. HIDE DEF v, c
<1>5. /\ SameQueues(v, w)
      /\ Range(w.timers) = Range(v.timers) \ {c}
      /\ w.lock = v.lock /\ w.defunct = v.defunct
  BY <1>1, <1>2, StopTimer
<1>. HIDE DEF w
<1>6. KInv(w, leaving)
  BY <1>1, <1>5, SameKInv
<1>7. w.cur = c /\ w.stat = k.stat /\ c \notin Range(w.timers)
  BY <1>1, <1>5 DEF SameQueues, c
<1>8. x = [w EXCEPT !.stat[w.cur] = CLOSE]
  BY <1>7
<1>. HIDE DEF x
<1>9. /\ KInv(x, leaving)
      /\ x.stat = [w.stat EXCEPT ![w.cur] = CLOSE]
      /\ x.cur = w.cur /\ x.lock = w.lock /\ x.timers = w.timers
      /\ x.defunct = w.defunct
  BY <1>6, <1>7, <1>8, StatesDiffer, StateOfCurrent
<1>. QED
  BY <1>1, <1>4, <1>5, <1>7, <1>9 DEF v, c

\* rt_timer_stop leaves the lists of the scheduler alone.
LEMMA TimerStopFields ==
    ASSUME NEW j \in KernelState, NEW t \in Thread
    PROVE  LET u == rt_timer_stop(j, t)
           IN  /\ u \in KernelState
               /\ u.stat = j.stat /\ u.prio = j.prio /\ u.cur = j.cur
               /\ u.group = j.group /\ u.lock = j.lock /\ u.owed = j.owed
               /\ u.ready = j.ready /\ u.defunct = j.defunct
<1>. DEFINE r == RemoveFirst(j.timers, t)
            d == [j.deadline EXCEPT ![t] = 0]
            n == [j.due EXCEPT ![t] = 0]
<1>1. j.timers \in Seq(Thread) /\ 0 \in Tick
  BY KernelConstants DEF KernelState, Tick
<1>2. r \in Seq(Thread)
  BY <1>1, RemoveFirstSeq
<1>3. d \in [Thread -> Tick] /\ n \in [Thread -> Int]
  BY <1>1 DEF KernelState
<1>4. rt_timer_stop(j, t) = [j EXCEPT !.timers = r, !.deadline = d, !.due = n]
  BY DEF rt_timer_stop, KernelState
<1>. HIDE DEF r, d, n
<1>. QED
  BY <1>2, <1>3, <1>4 DEF KernelState

-----------------------------------------------------------------------------
(* What the functions of the scheduler leave alone *)

\* The record u is j but for the lists of the scheduler, who runs and what
\* state the threads are in; the defunct list may have lost threads.
QueuesOnly(j, u) ==
    /\ u \in KernelState
    /\ u.prio = j.prio /\ u.lock = j.lock /\ u.timers = j.timers
    /\ u.tick = j.tick /\ u.deadline = j.deadline /\ u.due = j.due
    /\ Range(u.defunct) \subseteq Range(j.defunct)
    /\ IsInjective(j.defunct) => IsInjective(u.defunct)

\* Two steps of the code on the queues alone are one.
LEMMA QueuesOnlyTwice ==
    ASSUME NEW j, NEW u, NEW v, QueuesOnly(j, u), QueuesOnly(u, v)
    PROVE  QueuesOnly(j, v)
  BY DEF QueuesOnly

\* Code that leaves the kernel alone touches the queues alone.
LEMMA QueuesOnlySelf ==
    ASSUME NEW j \in KernelState
    PROVE  QueuesOnly(j, j)
  BY DEF QueuesOnly

\* Unlinking a thread.
LEMMA ListRemoveOnly ==
    ASSUME NEW j \in KernelState, NEW t \in Thread
    PROVE  /\ QueuesOnly(j, rt_list_remove(j, t))
           /\ rt_list_remove(j, t).stat = j.stat
           /\ rt_list_remove(j, t).cur = j.cur
           /\ rt_list_remove(j, t).owed = j.owed
           /\ IsInjective(j.defunct) =>
                Range(rt_list_remove(j, t).defunct) = Range(j.defunct) \ {t}
<1>. DEFINE u == rt_list_remove(j, t)
<1>1. j.defunct \in Seq(Thread)
  BY DEF KernelState
<1>2. /\ u \in KernelState /\ u.prio = j.prio /\ u.lock = j.lock
      /\ u.timers = j.timers /\ u.stat = j.stat /\ u.cur = j.cur
      /\ Range(u.defunct) \subseteq Range(j.defunct)
  BY ListRemoveFields
<1>3. /\ u.tick = j.tick /\ u.deadline = j.deadline /\ u.due = j.due
      /\ u.owed = j.owed /\ u.defunct = RemoveFirst(j.defunct, t)
  BY DEF rt_list_remove, KernelState
<1>4. IsInjective(j.defunct) => /\ IsInjective(u.defunct)
                                /\ Range(u.defunct) = Range(j.defunct) \ {t}
  BY <1>1, <1>3, RemoveFirstOnce
<1>. HIDE DEF u
<1>5. QueuesOnly(j, u)
  BY <1>2, <1>3, <1>4 DEF QueuesOnly
<1>. QED
  BY <1>2, <1>3, <1>4, <1>5 DEF u

\* Taking a thread out of the scheduler.
LEMMA RemoveOnly ==
    ASSUME NEW j \in KernelState, NEW t \in Thread
    PROVE  /\ QueuesOnly(j, rt_schedule_remove_thread(j, t))
           /\ rt_schedule_remove_thread(j, t).stat = j.stat
           /\ rt_schedule_remove_thread(j, t).cur = j.cur
           /\ rt_schedule_remove_thread(j, t).owed = j.owed
<1>. DEFINE v == rt_list_remove(j, t)
            g == v.group \ {j.prio[t]}
            w == [v EXCEPT !.group = g]
<1>1. QueuesOnly(j, v) /\ v.stat = j.stat /\ v.cur = j.cur /\ v.owed = j.owed
  BY ListRemoveOnly
<1>2. rt_schedule_remove_thread(j, t) \in {v, w}
  BY DEF rt_schedule_remove_thread
<1>. HIDE DEF v
<1>3. QueuesOnly(v, w) /\ w.stat = v.stat /\ w.cur = v.cur /\ w.owed = v.owed
  <2>1. v \in KernelState /\ g \in SUBSET Priority
    BY <1>1 DEF QueuesOnly, KernelState
  <2>. HIDE DEF g
  <2>2. w \in KernelState
    BY <2>1 DEF KernelState
  <2>. QED
    BY <2>1, <2>2 DEF QueuesOnly, KernelState
<1>. HIDE DEF w
<1>. QED
  BY <1>1, <1>2, <1>3, QueuesOnlyTwice

\* It sets no bit.
LEMMA RemoveShrinks ==
    ASSUME NEW j \in KernelState, NEW t \in Thread
    PROVE  rt_schedule_remove_thread(j, t).group \subseteq j.group
<1>. DEFINE v == rt_list_remove(j, t)
            g == v.group \ {j.prio[t]}
            u == rt_schedule_remove_thread(j, t)
<1>1. v \in KernelState /\ v.group = j.group
  BY ListRemoveFields
<1>2. u = v \/ u = [v EXCEPT !.group = g]
  BY DEF rt_schedule_remove_thread
<1>3. g \subseteq v.group
  OBVIOUS
<1>. HIDE DEF v, g, u
<1>4. u.group = v.group \/ u.group = g
  BY <1>1, <1>2 DEF KernelState
<1>. QED
  BY <1>1, <1>3, <1>4 DEF u

\* Making a thread READY.
LEMMA InsertOnly ==
    ASSUME NEW j \in KernelState, NEW t \in Thread
    PROVE  /\ QueuesOnly(j, rt_schedule_insert_thread(j, t))
           /\ rt_schedule_insert_thread(j, t).stat = [j.stat EXCEPT ![t] = READY]
           /\ rt_schedule_insert_thread(j, t).cur = j.cur
           /\ rt_schedule_insert_thread(j, t).defunct = j.defunct
           /\ rt_schedule_insert_thread(j, t).owed = j.owed
<1>. DEFINE q == j.prio[t]
            s == [j.stat EXCEPT ![t] = READY]
            r == [j.ready EXCEPT ![q] = Append(@, t)]
            g == j.group \cup {q}
            u == rt_schedule_insert_thread(j, t)
<1>1. /\ s \in [Thread -> Stat] /\ q \in Priority
      /\ r \in [Priority -> Seq(Thread)] /\ g \in SUBSET Priority
  BY StatesDiffer DEF KernelState
<1>2. u \in {[j EXCEPT !.stat = s], [j EXCEPT !.stat = s, !.ready = r, !.group = g]}
  BY DEF rt_schedule_insert_thread, KernelState
<1>. HIDE DEF u, s, r, g, q
<1>3. /\ u \in KernelState /\ u.stat = s /\ u.cur = j.cur /\ u.defunct = j.defunct
      /\ u.prio = j.prio /\ u.lock = j.lock /\ u.timers = j.timers /\ u.owed = j.owed
      /\ u.tick = j.tick /\ u.deadline = j.deadline /\ u.due = j.due
  BY <1>1, <1>2, ZenonT(60) DEF KernelState
<1>. QED
  BY <1>3 DEF QueuesOnly, u, s

\* A context switch.
LEMMA SwitchOnly ==
    ASSUME NEW j \in KernelState, NEW to \in Thread
    PROVE  /\ QueuesOnly(j, SwitchTo(j, to))
           /\ SwitchTo(j, to).cur = to
<1>. DEFINE v == [j EXCEPT !.cur = to]
            w == IF j.stat[j.cur] = READY THEN rt_schedule_insert_thread(v, j.cur) ELSE v
<1>1. QueuesOnly(j, v) /\ v.cur = to /\ j.cur \in Thread
  <2>1. v \in KernelState /\ j.cur \in Thread
    BY DEF KernelState
  <2>. QED
    BY <2>1 DEF QueuesOnly, KernelState
<1>2. v \in KernelState
  BY <1>1 DEF QueuesOnly
<1>. HIDE DEF v
<1>3. QueuesOnly(v, w) /\ w.cur = to
  BY <1>1, <1>2, InsertOnly, QueuesOnlySelf
<1>. HIDE DEF w
<1>4. QueuesOnly(w, rt_schedule_remove_thread(w, to))
      /\ rt_schedule_remove_thread(w, to).cur = to
  BY <1>3, RemoveOnly DEF QueuesOnly
<1>5. SwitchTo(j, to) = rt_schedule_remove_thread(w, to)
  BY DEF SwitchTo, v, w
<1>. QED
  BY <1>1, <1>3, <1>4, <1>5, QueuesOnlyTwice

-----------------------------------------------------------------------------
(* Who has the processor *)

\* The running thread is READY, and no priority in the bitmap is higher.
TopRuns(j) ==
    /\ j.stat[j.cur] = READY
    /\ \A p \in j.group : j.prio[j.cur] <= p

\* The bitmap says what the states and the priorities of the threads say.
LEMMA TopByState ==
    ASSUME NEW leaving, NEW j, KInv(j, leaving)
    PROVE  TopRuns(j) <=>
             /\ j.stat[j.cur] = READY
             /\ \A s \in Thread \ leaving :
                  j.stat[s] = READY => j.prio[j.cur] <= j.prio[s]
<1>1. /\ j.cur \in Thread /\ j.prio \in [Thread -> Priority]
      /\ \A p \in Priority : p \in Int
      /\ \A p \in j.group : p \in Priority
  <2>1. j \in KernelState
    BY QueueFacts
  <2>2. \A p \in Priority : p \in Int
    BY KernelConstants DEF Priority
  <2>. QED
    BY <2>1, <2>2 DEF KernelState
<1>2. ASSUME TopRuns(j), NEW s \in Thread \ leaving, j.stat[s] = READY
      PROVE  j.prio[j.cur] <= j.prio[s]
  <2>1. CASE s = j.cur
    <3>1. j.prio[s] \in Int
      BY <1>1
    <3>. QED
      BY <2>1, <3>1
  <2>2. CASE s # j.cur
    <3>1. j.prio[s] \in Priority /\ s \in Range(j.ready[j.prio[s]])
      BY <1>1, <1>2, <2>2, QueueFacts
    <3>2. j.ready[j.prio[s]] # << >>
      BY <3>1 DEF Range
    <3>3. j.prio[s] \in j.group
      BY <3>1, <3>2, QueueFacts
    <3>. QED
      BY <1>2, <3>3 DEF TopRuns
  <2>. QED
    BY <2>1, <2>2
<1>3. ASSUME \A s \in Thread \ leaving : j.stat[s] = READY => j.prio[j.cur] <= j.prio[s],
             NEW p \in j.group
      PROVE  j.prio[j.cur] <= p
  <2>1. p \in Priority
    BY <1>1, <1>3
  <2>2. j.ready[p] # << >> /\ j.ready[p] \in Seq(Thread)
    BY <1>3, <2>1, QueueFacts
  <2>3. PICK s \in Range(j.ready[p]) : TRUE
    BY <2>2, HeadInRange
  <2>4. s \in Thread /\ j.stat[s] = READY /\ j.prio[s] = p
    BY <2>1, <2>3, QueueFacts
  <2>5. s \notin leaving
    BY <2>1, <2>3 DEF KInv
  <2>. QED
    BY <1>3, <2>4, <2>5
<1>. QED
  BY <1>2, <1>3 DEF TopRuns

\* What rt_schedule changes, and that nothing waits in front of its choice.
LEMMA ScheduleOnly ==
    ASSUME NEW leaving, NEW j, KInv(j, leaving)
    PROVE  /\ QueuesOnly(j, rt_schedule(j))
           /\ j.lock # 0 => rt_schedule(j) = j
           /\ j.lock = 0 /\ (j.group # {} \/ j.stat[j.cur] = READY)
                => TopRuns(rt_schedule(j))
<1>. DEFINE h == HighestReady(j)
            to == Head(j.ready[h])
            next == IF StaysOn(j) \/ to = j.cur
                    THEN rt_schedule_remove_thread(j, j.cur)
                    ELSE SwitchTo(j, to)
            u == rt_schedule(j)
<1>0. /\ j \in KernelState /\ j.cur \in Thread
      /\ j.prio \in [Thread -> Priority]
      /\ \A p \in Priority : p \in Int
      /\ KInv(u, leaving) /\ Switched(j, u)
  <2>1. \A p \in Priority : p \in Int
    BY KernelConstants DEF Priority
  <2>2. KInv(u, leaving) /\ Switched(j, u)
    BY ScheduleKInv
  <2>3. j \in KernelState /\ j.cur \in Thread /\ j.prio \in [Thread -> Priority]
    BY QueueFacts
  <2>. QED
    BY <2>1, <2>2, <2>3
<1>1. CASE j.lock # 0
  BY <1>0, <1>1, QueuesOnlySelf DEF rt_schedule
<1>2. ASSUME NEW v \in KernelState
      PROVE  /\ QueuesOnly(v, [v EXCEPT !.owed = FALSE])
             /\ [v EXCEPT !.owed = FALSE].cur = v.cur
  <2>1. [v EXCEPT !.owed = FALSE] \in KernelState
    BY DEF KernelState
  <2>. QED
    BY <2>1 DEF QueuesOnly, KernelState
<1>3. CASE j.lock = 0 /\ j.group = {}
  <2>1. u = [j EXCEPT !.owed = FALSE]
    BY <1>3 DEF rt_schedule
  <2>2. QueuesOnly(j, u) /\ u.group = {} /\ u.cur = j.cur /\ u.stat = j.stat
    BY <1>0, <1>2, <1>3, <2>1 DEF KernelState
  <2>. QED
    BY <1>3, <2>2 DEF TopRuns
<1>4. CASE j.lock = 0 /\ j.group # {}
  <2>1. u = [next EXCEPT !.owed = FALSE]
    BY <1>4 DEF rt_schedule
  <2>2. /\ h \in Priority /\ h \in j.group /\ to \in Range(j.ready[h]) /\ to \in Thread
        /\ to # j.cur /\ j.prio[to] = h /\ j.stat[to] = READY
        /\ \A p \in j.group : h <= p
    BY <1>4, HeadIsLinked, QueueFacts
  <2>. HIDE DEF to, h
  <2>3. ASSUME NEW s \in Thread \ leaving, j.stat[s] = READY, s # j.cur
        PROVE  h <= j.prio[s]
    <3>1. j.prio[s] \in Priority /\ j.ready[j.prio[s]] # << >>
      BY <1>0, <2>3, QueueFacts DEF Range
    <3>2. j.prio[s] \in j.group
      BY <3>1, QueueFacts
    <3>. QED
      BY <2>2, <3>2
  <2>4. QueuesOnly(j, next)
        /\ (next.cur = to \/ (next.cur = j.cur /\ StaysOn(j)))
        /\ (next.cur = to => ~StaysOn(j))
    BY <1>0, <2>2, RemoveOnly, SwitchOnly
  <2>. HIDE DEF next
  <2>5. QueuesOnly(j, u) /\ u.cur = next.cur
    BY <1>2, <2>1, <2>4, QueuesOnlyTwice DEF QueuesOnly
  <2>. HIDE DEF u
  <2>6. /\ u.stat = j.stat /\ u.prio = j.prio /\ h \in Int
        /\ StaysOn(j) <=> j.stat[j.cur] = READY /\ j.prio[j.cur] < h
    BY <1>0, <2>2 DEF Switched, StaysOn, h
  <2>7. u.stat[u.cur] = READY
    BY <2>2, <2>4, <2>5, <2>6
  <2>8. ASSUME NEW s \in Thread \ leaving, u.stat[s] = READY
        PROVE  u.prio[u.cur] <= u.prio[s]
    <3>1. j.prio[s] \in Int /\ j.prio[j.cur] \in Int
      BY <1>0
    <3>2. s = j.cur \/ h <= j.prio[s]
      BY <2>3, <2>6, <2>8
    <3>3. CASE u.cur = to
      BY <2>2, <2>4, <2>5, <2>6, <2>8, <3>1, <3>2, <3>3
    <3>4. CASE u.cur = j.cur /\ StaysOn(j)
      BY <2>6, <3>1, <3>2, <3>4
    <3>. QED
      BY <2>4, <2>5, <3>3, <3>4
  <2>9. TopRuns(u)
    BY <1>0, <2>7, <2>8, TopByState DEF u
  <2>. QED
    BY <1>4, <2>5, <2>9 DEF u
<1>. QED
  BY <1>1, <1>3, <1>4

\* While the idle thread is READY something is in front of rt_schedule.
LEMMA ScheduleSettles ==
    ASSUME NEW leaving, NEW j, KInv(j, leaving), j.stat[Idle] = READY, Idle \notin leaving
    PROVE  rt_schedule(j).lock = 0 => TopRuns(rt_schedule(j))
<1>1. QueuesOnly(j, rt_schedule(j))
  BY ScheduleOnly
<1>2. CASE j.cur = Idle
  BY <1>1, <1>2, ScheduleOnly DEF QueuesOnly
<1>3. CASE j.cur # Idle
  <2>1. /\ Idle \in Thread \ leaving /\ j.prio[Idle] \in Priority
        /\ j.ready[j.prio[Idle]] \in Seq(Thread)
    BY KernelConstants, QueueFacts
  <2>2. Idle \in Range(j.ready[j.prio[Idle]])
    BY <1>3, <2>1, QueueFacts
  <2>3. j.ready[j.prio[Idle]] # << >>
    BY <2>1, <2>2, HeadInRange
  <2>4. j.prio[Idle] \in j.group
    BY <2>1, <2>3, QueueFacts
  <2>. QED
    BY <1>1, <2>4, ScheduleOnly DEF QueuesOnly
<1>. QED
  BY <1>2, <1>3

=============================================================================
