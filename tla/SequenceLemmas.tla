--------------------------- MODULE SequenceLemmas ---------------------------
(***************************************************************************)
(* Facts about sequences and natural numbers on which the proofs about the *)
(* queues and histories of the components rest.                            *)
(***************************************************************************)
EXTENDS Integers, Sequences, FiniteSets,
        FiniteSetTheorems, SequenceTheorems, WellFoundedInduction, TLAPS

-----------------------------------------------------------------------------
(* Induction, stated with sets.                                            *)

(* A set of natural numbers that is not empty has a least element.         *)
LEMMA LeastNatural ==
  ASSUME NEW T, T \subseteq Nat, T # {}
  PROVE  \E x \in T : \A y \in T : x <= y
<1> DEFINE R == {ss \in Nat \X Nat : ss[1] < ss[2]}
<1>1. IsWellFoundedOn(R, Nat)
  BY NatLessThanWellFounded DEF OpToRel
<1> HIDE DEF R
<1>2. PICK x \in T : \A y \in T : ~(<<y, x>> \in R)
  BY <1>1, WFMin
<1>3. \A y \in T : ~(y < x)
  BY <1>2 DEF R
<1>4. QED
  BY <1>3

(* A set that holds 0, and with every natural number its successor, holds  *)
(* all of them.                                                            *)
LEMMA SetInduction ==
  ASSUME NEW S, 0 \in S, \A n \in Nat : n \in S => n + 1 \in S
  PROVE  Nat \subseteq S
<1> SUFFICES ASSUME Nat \ S # {} PROVE FALSE
  OBVIOUS
<1>1. PICK x \in Nat \ S : \A y \in Nat \ S : x <= y
  BY LeastNatural
<1>2. x # 0 /\ x - 1 \in Nat
  BY <1>1
<1>3. x - 1 \in S
  BY <1>1, <1>2
<1>4. QED
  BY <1>1, <1>2, <1>3

-----------------------------------------------------------------------------
(* Queues and histories.                                                   *)

(* Appending adds the element to those that the sequence has.              *)
LEMMA ElementsOfAppend ==
  ASSUME NEW S, NEW s \in Seq(S), NEW x \in S
  PROVE  {Append(s, x)[i] : i \in 1..Len(Append(s, x))} = {s[i] : i \in 1..Len(s)} \cup {x}
<1> DEFINE a == Append(s, x)
<1>1. /\ Len(s) \in Nat
      /\ Len(a) = Len(s) + 1
      /\ \A i \in 1..Len(s) : a[i] = s[i]
      /\ a[Len(s) + 1] = x
  BY LenProperties
<1>2. 1..(Len(s) + 1) = 1..Len(s) \cup {Len(s) + 1}
  BY <1>1
<1> HIDE DEF a
<1>3. {a[i] : i \in 1..Len(a)} = {s[i] : i \in 1..Len(s)} \cup {x}
  BY <1>1, <1>2
<1>4. QED
  BY <1>3 DEF a

(* Moving the head of one sequence to the end of another leaves their      *)
(* concatenation as it was.                                                *)
LEMMA MoveHead ==
  ASSUME NEW S, NEW s \in Seq(S), NEW u \in Seq(S), u # <<>>
  PROVE  Append(s, Head(u)) \o Tail(u) = s \o u
<1>1. /\ Head(u) \in S
      /\ Tail(u) \in Seq(S)
      /\ Len(Tail(u)) = Len(u) - 1
      /\ \A i \in 1..Len(Tail(u)) : Tail(u)[i] = u[i + 1]
      /\ Head(u) = u[1]
  BY HeadTailProperties
<1>2. /\ Append(s, Head(u)) \in Seq(S)
      /\ Len(Append(s, Head(u))) = Len(s) + 1
      /\ Len(s) \in Nat
      /\ Len(u) \in Nat \ {0}
      /\ \A i \in 1..Len(s) : Append(s, Head(u))[i] = s[i]
      /\ Append(s, Head(u))[Len(s) + 1] = Head(u)
  BY <1>1, LenProperties, EmptySeq
<1> DEFINE a == Append(s, Head(u))
           l == a \o Tail(u)
           r == s \o u
<1>3. /\ l \in Seq(S) /\ r \in Seq(S)
      /\ Len(l) = Len(s) + Len(u) /\ Len(r) = Len(s) + Len(u)
      /\ \A i \in 1..(Len(s) + Len(u)) :
            /\ l[i] = IF i <= Len(s) + 1 THEN a[i] ELSE Tail(u)[i - (Len(s) + 1)]
            /\ r[i] = IF i <= Len(s) THEN s[i] ELSE u[i - Len(s)]
  <2>1. /\ l \in Seq(S)
        /\ Len(l) = Len(a) + Len(Tail(u))
        /\ \A i \in 1..(Len(a) + Len(Tail(u))) :
              l[i] = IF i <= Len(a) THEN a[i] ELSE Tail(u)[i - Len(a)]
    BY <1>1, <1>2, ConcatProperties
  <2>2. Len(a) + Len(Tail(u)) = Len(s) + Len(u)
    BY <1>1, <1>2
  <2>3. QED
    BY <2>1, <2>2, <1>1, <1>2, ConcatProperties
<1>4. ASSUME NEW i \in 1..Len(l)
      PROVE  l[i] = r[i]
  <2>1. CASE i <= Len(s)
    BY <2>1, <1>2, <1>3
  <2>2. CASE i = Len(s) + 1
    BY <2>2, <1>1, <1>2, <1>3
  <2>3. CASE i > Len(s) + 1
    <3>1. i - (Len(s) + 1) \in 1..Len(Tail(u))
      BY <2>3, <1>1, <1>2, <1>3
    <3>2. Tail(u)[i - (Len(s) + 1)] = u[i - Len(s)]
      BY <3>1, <1>1, <1>2
    <3>3. QED
      BY <2>3, <3>2, <1>2, <1>3
  <2>4. QED
    BY <2>1, <2>2, <2>3, <1>2, <1>3
<1> HIDE DEF l, r
<1>5. l = r
  BY <1>3, <1>4, SeqEqual
<1>6. QED
  BY <1>5 DEF l, r, a

(* Appending to the second of two concatenated sequences appends to both.  *)
LEMMA AppendToSecond ==
  ASSUME NEW S, NEW s \in Seq(S), NEW u \in Seq(S), NEW x \in S
  PROVE  s \o Append(u, x) = Append(s \o u, x)
<1>1. /\ s \o u \in Seq(S) /\ <<x>> \in Seq(S)
      /\ (s \o u) \o <<x>> = s \o (u \o <<x>>)
  BY ConcatProperties, ConcatAssociative
<1>2. QED
  BY <1>1, AppendIsConcat

(* A sequence without repetitions has as many elements as places.          *)
LEMMA CardinalityOfElements ==
  ASSUME NEW S, NEW s \in Seq(S),
         \A i, j \in 1..Len(s) : s[i] = s[j] => i = j
  PROVE  /\ IsFiniteSet({s[i] : i \in 1..Len(s)})
         /\ Cardinality({s[i] : i \in 1..Len(s)}) = Len(s)
<1> DEFINE E == {s[i] : i \in 1..Len(s)}
           f == [i \in 1..Len(s) |-> s[i]]
<1>1. Len(s) \in Nat
  BY LenProperties
<1>2. IsFiniteSet(1..Len(s)) /\ Cardinality(1..Len(s)) = Len(s)
  <2>1. 1 \in Int /\ Len(s) \in Int
    BY <1>1
  <2>2. /\ IsFiniteSet(1..Len(s))
        /\ Cardinality(1..Len(s)) = IF 1 > Len(s) THEN 0 ELSE Len(s) - 1 + 1
    BY <2>1, FS_Interval
  <2>3. QED
    BY <1>1, <2>2
<1>3. f \in Bijection(1..Len(s), E)
  BY DEF Bijection, Injection, Surjection, IsInjective
<1> HIDE DEF E, f
<1>4. ExistsBijection(1..Len(s), E)
  BY <1>3 DEF ExistsBijection
<1>5. IsFiniteSet(E) /\ Cardinality(E) = Cardinality(1..Len(s))
  BY <1>2, <1>4, FS_Bijection
<1>6. QED
  BY <1>2, <1>5 DEF E

(* A stretch of a sequence.                                                *)
LEMMA Slice ==
  ASSUME NEW S, NEW s \in Seq(S), NEW m \in 0..Len(s), NEW n \in m..Len(s)
  PROVE  /\ SubSeq(s, m + 1, n) \in Seq(S)
         /\ Len(SubSeq(s, m + 1, n)) = n - m
         /\ \A i \in 1..(n - m) : SubSeq(s, m + 1, n)[i] = s[m + i]
<1>1. Len(s) \in Nat /\ m \in Nat /\ n \in Nat /\ m <= n /\ n <= Len(s)
  BY LenProperties
<1>2. \A i \in (m + 1)..n : s[i] \in S
  <2>1. \A i \in (m + 1)..n : i \in 1..Len(s)
    BY <1>1
  <2>2. QED
    BY <2>1, ElementOfSeq
<1>3. m + 1 \in Int /\ n \in Int
  BY <1>1
<1>4. /\ SubSeq(s, m + 1, n) \in Seq(S)
      /\ Len(SubSeq(s, m + 1, n)) = IF m + 1 <= n THEN n - (m + 1) + 1 ELSE 0
      /\ \A i \in 1..(n - (m + 1) + 1) : SubSeq(s, m + 1, n)[i] = s[(m + 1) + i - 1]
  BY <1>2, <1>3, SubSeqProperties
<1>5. n - (m + 1) + 1 = n - m /\ \A i \in 1..(n - m) : (m + 1) + i - 1 = m + i
  BY <1>1
<1>6. QED
  BY <1>1, <1>4, <1>5

(* The first elements of a sequence.                                       *)
LEMMA Prefix ==
  ASSUME NEW S, NEW s \in Seq(S), NEW n \in 0..Len(s)
  PROVE  /\ SubSeq(s, 1, n) \in Seq(S)
         /\ Len(SubSeq(s, 1, n)) = n
         /\ \A i \in 1..n : SubSeq(s, 1, n)[i] = s[i]
<1>1. Len(s) \in Nat /\ 0 \in 0..Len(s) /\ n \in 0..Len(s) /\ n \in Nat
  BY LenProperties
<1>2. /\ SubSeq(s, 0 + 1, n) \in Seq(S)
      /\ Len(SubSeq(s, 0 + 1, n)) = n - 0
      /\ \A i \in 1..(n - 0) : SubSeq(s, 0 + 1, n)[i] = s[0 + i]
  BY <1>1, Slice
<1>3. 0 + 1 = 1 /\ n - 0 = n /\ \A i \in 1..n : 0 + i = i
  BY <1>1
<1>4. QED
  BY <1>2, <1>3

(* A stretch that is one element longer.                                   *)
LEMMA SliceExtended ==
  ASSUME NEW S, NEW s \in Seq(S), NEW m \in 0..Len(s), NEW n \in m..Len(s), n + 1 <= Len(s)
  PROVE  SubSeq(s, m + 1, n + 1) = Append(SubSeq(s, m + 1, n), s[n + 1])
<1> DEFINE l == SubSeq(s, m + 1, n + 1)
           k == SubSeq(s, m + 1, n)
           r == Append(k, s[n + 1])
<1>1. /\ Len(s) \in Nat /\ m \in Nat /\ n \in Nat /\ n - m \in Nat
      /\ n + 1 \in 1..Len(s) /\ n + 1 \in m..Len(s)
  BY LenProperties
<1>2. s[n + 1] \in S
  BY <1>1, ElementOfSeq
<1>3. /\ l \in Seq(S) /\ Len(l) = (n + 1) - m
      /\ \A i \in 1..((n + 1) - m) : l[i] = s[m + i]
  BY <1>1, Slice
<1>4. k \in Seq(S) /\ Len(k) = n - m /\ \A i \in 1..(n - m) : k[i] = s[m + i]
  BY Slice
<1> HIDE DEF l, k
<1>5. /\ r \in Seq(S) /\ Len(r) = (n - m) + 1 /\ r[(n - m) + 1] = s[n + 1]
      /\ \A i \in 1..(n - m) : r[i] = s[m + i]
  BY SMTT(60), <1>2, <1>4, AppendProperties
<1> HIDE DEF r
<1>6. Len(l) = Len(r)
  BY <1>1, <1>3, <1>5
<1>7. ASSUME NEW i \in 1..Len(l) PROVE l[i] = r[i]
  <2>1. CASE i = (n - m) + 1
    BY <1>1, <1>3, <1>5, <2>1
  <2>2. CASE i \in 1..(n - m)
    BY <1>1, <1>3, <1>5, <2>2
  <2>3. QED
    BY <1>1, <1>3, <2>1, <2>2
<1>8. l = r
  BY <1>3, <1>5, <1>6, <1>7, SeqEqual
<1>9. QED
  BY <1>8 DEF l, k, r

(* A stretch of a sequence is not changed by what is appended to it.       *)
LEMMA SliceOfAppend ==
  ASSUME NEW S, NEW s \in Seq(S), NEW x \in S, NEW m \in 0..Len(s), NEW n \in m..Len(s)
  PROVE  SubSeq(Append(s, x), m + 1, n) = SubSeq(s, m + 1, n)
<1> DEFINE a == Append(s, x)
           l == SubSeq(a, m + 1, n)
           r == SubSeq(s, m + 1, n)
<1>1. /\ Len(s) \in Nat /\ m \in Nat /\ n \in Nat /\ m <= n /\ n <= Len(s)
  BY LenProperties
<1>2. a \in Seq(S) /\ Len(a) = Len(s) + 1 /\ \A i \in 1..Len(s) : a[i] = s[i]
  BY AppendProperties
<1> HIDE DEF a
<1>3. m \in 0..Len(a) /\ n \in m..Len(a)
  BY <1>1, <1>2
<1>4. l \in Seq(S) /\ Len(l) = n - m /\ \A i \in 1..(n - m) : l[i] = a[m + i]
  BY <1>2, <1>3, Slice
<1>5. r \in Seq(S) /\ Len(r) = n - m /\ \A i \in 1..(n - m) : r[i] = s[m + i]
  BY Slice
<1> HIDE DEF l, r
<1>6. \A i \in 1..Len(l) : l[i] = r[i]
  <2>1. \A i \in 1..(n - m) : m + i \in 1..Len(s)
    BY <1>1
  <2>2. QED
    BY <1>2, <1>4, <1>5, <2>1
<1>7. l = r
  BY <1>4, <1>5, <1>6, SeqEqual
<1>8. QED
  BY <1>7 DEF l, r, a

(* A sequence over a set is one over every larger set.                     *)
LEMMA SeqOfSubset ==
  ASSUME NEW S, NEW T, S \subseteq T, NEW s \in Seq(S)
  PROVE  s \in Seq(T)
<1>1. PICK n \in Nat : s \in [1..n -> S]
  BY SeqDef
<1>2. s \in [1..n -> T]
  BY <1>1
<1>3. QED
  BY <1>2, SeqDef

(* Two adjacent stretches make one.                                        *)
LEMMA SliceConcat ==
  ASSUME NEW S, NEW s \in Seq(S),
         NEW m \in 0..Len(s), NEW n \in m..Len(s), NEW k \in n..Len(s)
  PROVE  SubSeq(s, m + 1, n) \o SubSeq(s, n + 1, k) = SubSeq(s, m + 1, k)
<1> DEFINE a == SubSeq(s, m + 1, n)
           b == SubSeq(s, n + 1, k)
           c == SubSeq(s, m + 1, k)
           l == a \o b
<1>1. /\ Len(s) \in Nat /\ m \in Nat /\ n \in Nat /\ k \in Nat /\ m <= n /\ n <= k /\ k <= Len(s)
      /\ n \in 0..Len(s) /\ k \in m..Len(s)
  BY LenProperties
<1>2. a \in Seq(S) /\ Len(a) = n - m /\ \A i \in 1..(n - m) : a[i] = s[m + i]
  BY Slice
<1>3. b \in Seq(S) /\ Len(b) = k - n /\ \A i \in 1..(k - n) : b[i] = s[n + i]
  BY <1>1, Slice
<1>4. c \in Seq(S) /\ Len(c) = k - m /\ \A i \in 1..(k - m) : c[i] = s[m + i]
  BY <1>1, Slice
<1> HIDE DEF a, b, c
<1>5. /\ l \in Seq(S) /\ Len(l) = Len(a) + Len(b)
      /\ \A i \in 1..(Len(a) + Len(b)) : l[i] = IF i <= Len(a) THEN a[i] ELSE b[i - Len(a)]
  BY <1>2, <1>3, ConcatProperties
<1> HIDE DEF l
<1>6. Len(l) = k - m
  BY <1>1, <1>2, <1>3, <1>5
<1>7. ASSUME NEW i \in 1..(k - m) PROVE l[i] = c[i]
  <2>1. CASE i <= n - m
    BY <1>1, <1>2, <1>3, <1>4, <1>5, <2>1
  <2>2. CASE ~(i <= n - m)
    <3>1. i - (n - m) \in 1..(k - n) /\ n + (i - (n - m)) = m + i
      BY <1>1, <2>2
    <3>2. l[i] = b[i - (n - m)]
      BY <1>1, <1>2, <1>3, <1>5, <2>2
    <3>3. QED
      BY <1>3, <1>4, <3>1, <3>2
  <2>3. QED
    BY <2>1, <2>2
<1>8. l = c
  BY <1>4, <1>5, <1>6, <1>7, SeqEqual
<1>9. QED
  BY <1>8 DEF a, b, c, l

(* A stretch from the first to the last element is the whole sequence, and *)
(* a sequence can be cut anywhere.                                         *)
LEMMA SplitAt ==
  ASSUME NEW S, NEW s \in Seq(S), NEW n \in 0..Len(s)
  PROVE  /\ SubSeq(s, 1, Len(s)) = s
         /\ SubSeq(s, 1, n) \o SubSeq(s, n + 1, Len(s)) = s
<1>1. Len(s) \in Nat /\ 0 \in 0..Len(s) /\ Len(s) \in 0..Len(s) /\ Len(s) \in n..Len(s) /\ 0 + 1 = 1
  BY LenProperties
<1>2. SubSeq(s, 1, Len(s)) = s
  BY <1>1, Prefix, SeqEqual
<1>3. SubSeq(s, 0 + 1, n) \o SubSeq(s, n + 1, Len(s)) = SubSeq(s, 0 + 1, Len(s))
  BY <1>1, SliceConcat
<1>4. QED
  BY <1>1, <1>2, <1>3

(* A stretch of a stretch.                                                 *)
LEMMA SliceOfSlice ==
  ASSUME NEW S, NEW s \in Seq(S), NEW m \in 0..Len(s), NEW n \in m..Len(s),
         NEW a \in 0..(n - m), NEW b \in a..(n - m)
  PROVE  SubSeq(SubSeq(s, m + 1, n), a + 1, b) = SubSeq(s, (m + a) + 1, m + b)
<1> DEFINE t == SubSeq(s, m + 1, n)
           l == SubSeq(t, a + 1, b)
           r == SubSeq(s, (m + a) + 1, m + b)
<1>1. /\ Len(s) \in Nat /\ m \in Nat /\ n \in Nat /\ a \in Nat /\ b \in Nat
      /\ m <= n /\ n <= Len(s) /\ a <= b /\ b <= n - m
      /\ m + a \in 0..Len(s) /\ m + b \in (m + a)..Len(s)
  BY LenProperties
<1>2. t \in Seq(S) /\ Len(t) = n - m /\ \A i \in 1..(n - m) : t[i] = s[m + i]
  BY Slice
<1>3. r \in Seq(S) /\ Len(r) = (m + b) - (m + a)
      /\ \A i \in 1..((m + b) - (m + a)) : r[i] = s[(m + a) + i]
  BY <1>1, Slice
<1> HIDE DEF t, r
<1>4. a \in 0..Len(t) /\ b \in a..Len(t)
  BY <1>2
<1>5. l \in Seq(S) /\ Len(l) = b - a /\ \A i \in 1..(b - a) : l[i] = t[a + i]
  BY <1>2, <1>4, Slice
<1> HIDE DEF l
<1>6. \A i \in 1..(b - a) : a + i \in 1..(n - m) /\ m + (a + i) = (m + a) + i
  BY <1>1
<1>7. Len(l) = Len(r)
  BY <1>1, <1>3, <1>5
<1>8. \A i \in 1..Len(l) : l[i] = r[i]
  BY <1>1, <1>2, <1>3, <1>5, <1>6
<1>9. l = r
  BY <1>3, <1>5, <1>7, <1>8, SeqEqual
<1>10. QED
  BY <1>9 DEF t, l, r

(* Concatenation can be regrouped.                                         *)
LEMMA Regroup ==
  ASSUME NEW S, NEW a \in Seq(S), NEW b \in Seq(S), NEW c \in Seq(S)
  PROVE  a \o (b \o c) = (a \o b) \o c
BY SMTT(60), ConcatAssociative

(* Moving the first n elements of a sequence to the end of the one before  *)
(* it changes nothing in their concatenation.                              *)
LEMMA MovePrefix ==
  ASSUME NEW S, NEW a \in Seq(S), NEW c \in Seq(S), NEW n \in 0..Len(c)
  PROVE  (a \o SubSeq(c, 1, n)) \o SubSeq(c, n + 1, Len(c)) = a \o c
<1>1. Len(c) \in n..Len(c)
  BY LenProperties
<1>2. PICK p \in Seq(S) : p = SubSeq(c, 1, n)
  BY Prefix
<1>3. PICK q \in Seq(S) : q = SubSeq(c, n + 1, Len(c))
  BY <1>1, Slice
<1>4. p \o q = c
  BY <1>2, <1>3, SplitAt
<1>5. (a \o p) \o q = a \o (p \o q)
  <2>1. p \in Seq(S) /\ q \in Seq(S)
    BY <1>2, <1>3
  <2>2. QED
    BY SMTT(60), <2>1, ConcatAssociative
<1>6. QED
  BY <1>2, <1>3, <1>4, <1>5
=============================================================================
