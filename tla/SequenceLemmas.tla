---------------------------- MODULE SequenceLemmas ----------------------------
(***************************************************************************)
(* Lemmas about sequences that proofs of this directory have in common:    *)
(* what concatenations and tails hold, and how FlattenSeq unrolls.  The    *)
(* last needs induction, which is stated for sets of natural numbers.      *)
(***************************************************************************)
EXTENDS SequencesExt, Integers, SequenceTheorems, FiniteSetTheorems, TLAPS

\* Two files and no third one.
LEMMA TwoAndNone == ASSUME NEW m, NEW b PROVE <<m, b>> \o <<>> = <<m, b>>
<1>1. <<m, b>> \in Seq({m, b})
  OBVIOUS
<1>2. QED
  BY <1>1, ConcatEmptySeq

\* Two files and a third one.
LEMMA TwoAndOne == ASSUME NEW m, NEW b, NEW o PROVE <<m, b>> \o <<o>> = <<m, b, o>>
<1> DEFINE S == {m, b, o}
<1>1. <<m, b>> \in Seq(S) /\ <<o>> \in Seq(S) /\ <<m, b, o>> \in Seq(S)
  OBVIOUS
<1>2. Len(<<m, b>>) = 2 /\ Len(<<o>>) = 1 /\ Len(<<m, b, o>>) = 3
  OBVIOUS
<1>3. \A i \in 1..3 : (<<m, b>> \o <<o>>)[i] = <<m, b, o>>[i]
  BY <1>1, <1>2, ConcatProperties
<1>4. <<m, b>> \o <<o>> \in Seq(S) /\ Len(<<m, b>> \o <<o>>) = 3
  BY <1>1, <1>2, ConcatProperties
<1> HIDE DEF S
<1>5. QED
  BY <1>1, <1>2, <1>3, <1>4, SeqEqual

\* A concatenation holds what its parts hold.
LEMMA ConcatHolds ==
    ASSUME NEW S, NEW s \in Seq(S), NEW t \in Seq(S)
    PROVE  s \o t \in Seq(S) /\ ToSet(s \o t) = ToSet(s) \cup ToSet(t)
<1>1. /\ s \o t \in Seq(S) /\ Len(s \o t) = Len(s) + Len(t)
      /\ \A i \in 1..(Len(s) + Len(t)) : (s \o t)[i] = IF i <= Len(s) THEN s[i] ELSE t[i - Len(s)]
  BY ConcatProperties
<1>2. /\ DOMAIN s = 1..Len(s) /\ DOMAIN t = 1..Len(t) /\ DOMAIN (s \o t) = 1..(Len(s) + Len(t))
      /\ Len(s) \in Nat /\ Len(t) \in Nat
  BY <1>1
<1>3. ASSUME NEW x \in ToSet(s \o t) PROVE x \in ToSet(s) \cup ToSet(t)
  BY <1>1, <1>2, <1>3 DEF ToSet
<1>4. ASSUME NEW x \in ToSet(s) PROVE x \in ToSet(s \o t)
  BY <1>1, <1>2, <1>4 DEF ToSet
<1>5. ASSUME NEW x \in ToSet(t) PROVE x \in ToSet(s \o t)
  <2>1. PICK i \in 1..Len(t) : t[i] = x
    BY <1>2, <1>5 DEF ToSet
  <2>2. i + Len(s) \in 1..(Len(s) + Len(t)) /\ ~(i + Len(s) <= Len(s)) /\ (i + Len(s)) - Len(s) = i
    BY <1>2
  <2>3. (s \o t)[i + Len(s)] = x
    BY <1>1, <2>1, <2>2
  <2>4. QED
    BY <1>2, <2>2, <2>3 DEF ToSet
<1>6. QED
  BY <1>1, <1>3, <1>4, <1>5

\* So does that of three parts.
LEMMA ThreeHold ==
    ASSUME NEW S, NEW s \in Seq(S), NEW t \in Seq(S), NEW u \in Seq(S)
    PROVE  s \o t \o u \in Seq(S) /\ ToSet(s \o t \o u) = (ToSet(s) \cup ToSet(t)) \cup ToSet(u)
<1> DEFINE st == s \o t
<1>1. st \in Seq(S) /\ ToSet(st) = ToSet(s) \cup ToSet(t)
  BY ConcatHolds
<1> HIDE DEF st
<1>2. st \o u \in Seq(S) /\ ToSet(st \o u) = ToSet(st) \cup ToSet(u)
  BY <1>1, ConcatHolds
<1>3. QED
  BY <1>1, <1>2 DEF st

\* A sequence holds its head and what its tail holds.
LEMMA TailHolds ==
    ASSUME NEW S, NEW s \in Seq(S), s # <<>>
    PROVE  /\ Head(s) \in S /\ Tail(s) \in Seq(S) /\ Len(Tail(s)) = Len(s) - 1
           /\ ToSet(s) = {Head(s)} \cup ToSet(Tail(s))
<1>1. /\ Head(s) \in S /\ Tail(s) \in Seq(S) /\ Len(Tail(s)) = Len(s) - 1
      /\ \A i \in 1..Len(Tail(s)) : Tail(s)[i] = s[i + 1]
  BY HeadTailProperties
<1>2. /\ Len(s) \in Nat /\ Len(s) >= 1 /\ DOMAIN s = 1..Len(s) /\ DOMAIN Tail(s) = 1..(Len(s) - 1)
      /\ Head(s) = s[1]
  BY <1>1
<1>3. ASSUME NEW x \in ToSet(s), x # Head(s) PROVE x \in ToSet(Tail(s))
  <2>1. PICK i \in 1..Len(s) : s[i] = x
    BY <1>2, <1>3 DEF ToSet
  <2>2. i - 1 \in 1..(Len(s) - 1) /\ (i - 1) + 1 = i
    BY <1>2, <1>3, <2>1
  <2>3. Tail(s)[i - 1] = x
    BY <1>1, <2>1, <2>2
  <2>4. QED
    BY <1>2, <2>2, <2>3 DEF ToSet
<1>4. ASSUME NEW x \in ToSet(Tail(s)) PROVE x \in ToSet(s)
  BY <1>1, <1>2, <1>4 DEF ToSet
<1>5. Head(s) \in ToSet(s)
  BY <1>2 DEF ToSet
<1>6. QED
  BY <1>1, <1>3, <1>4, <1>5

\* The head and the tail of a concatenation are those of its first part.
LEMMA ConcatHeadTail ==
    ASSUME NEW S, NEW s \in Seq(S), NEW t \in Seq(S), s # <<>>
    PROVE  s \o t # <<>> /\ Head(s \o t) = Head(s) /\ Tail(s \o t) = Tail(s) \o t
<1>1. /\ s \o t \in Seq(S) /\ Len(s \o t) = Len(s) + Len(t)
      /\ \A i \in 1..(Len(s) + Len(t)) : (s \o t)[i] = IF i <= Len(s) THEN s[i] ELSE t[i - Len(s)]
  BY ConcatProperties
<1>2. /\ Tail(s) \in Seq(S) /\ Len(Tail(s)) = Len(s) - 1
      /\ \A i \in 1..Len(Tail(s)) : Tail(s)[i] = s[i + 1]
  BY HeadTailProperties
<1>3. Len(s) \in Nat /\ Len(s) >= 1 /\ Len(t) \in Nat
  OBVIOUS
<1>4. s \o t # <<>> /\ Head(s \o t) = Head(s)
  BY <1>1, <1>3
<1>5. /\ Tail(s \o t) \in Seq(S) /\ Len(Tail(s \o t)) = Len(s \o t) - 1
      /\ \A i \in 1..Len(Tail(s \o t)) : Tail(s \o t)[i] = (s \o t)[i + 1]
  BY <1>1, <1>4, HeadTailProperties
<1>6. /\ Tail(s) \o t \in Seq(S) /\ Len(Tail(s) \o t) = Len(Tail(s)) + Len(t)
      /\ \A i \in 1..(Len(Tail(s)) + Len(t)) :
             (Tail(s) \o t)[i] = IF i <= Len(Tail(s)) THEN Tail(s)[i] ELSE t[i - Len(Tail(s))]
  BY <1>2, ConcatProperties
<1>7. ASSUME NEW i \in 1..Len(Tail(s \o t)) PROVE Tail(s \o t)[i] = (Tail(s) \o t)[i]
  <2>1. i \in 1..(Len(Tail(s)) + Len(t)) /\ i + 1 \in 1..(Len(s) + Len(t))
    BY <1>1, <1>2, <1>3, <1>5
  <2>2. CASE i <= Len(Tail(s))
    BY <1>1, <1>2, <1>3, <1>5, <1>6, <2>1, <2>2
  <2>3. CASE ~(i <= Len(Tail(s)))
    <3>1. ~(i + 1 <= Len(s)) /\ (i + 1) - Len(s) = i - Len(Tail(s))
      BY <1>2, <1>3, <2>1, <2>3
    <3>2. Tail(s \o t)[i] = t[(i + 1) - Len(s)]
      BY <1>1, <1>5, <2>1, <3>1
    <3>3. (Tail(s) \o t)[i] = t[i - Len(Tail(s))]
      BY <1>6, <2>1, <2>3
    <3>4. QED
      BY <3>1, <3>2, <3>3
  <2>4. QED
    BY <2>2, <2>3
<1>8. Len(Tail(s \o t)) = Len(Tail(s) \o t)
  BY <1>1, <1>2, <1>3, <1>5, <1>6
<1>9. Tail(s \o t) = Tail(s) \o t
  BY <1>5, <1>6, <1>7, <1>8, SeqEqual
<1>10. QED
  BY <1>4, <1>9

\* What is left of a concatenation without its first part.
LEMMA ConcatDrop ==
    ASSUME NEW S, NEW s \in Seq(S), NEW t \in Seq(S)
    PROVE  SubSeq(s \o t, Len(s) + 1, Len(s \o t)) = t
<1>1. /\ s \o t \in Seq(S) /\ Len(s \o t) = Len(s) + Len(t)
      /\ \A i \in 1..(Len(s) + Len(t)) : (s \o t)[i] = IF i <= Len(s) THEN s[i] ELSE t[i - Len(s)]
  BY ConcatProperties
<1>2. Len(s) \in Nat /\ Len(t) \in Nat
  OBVIOUS
<1> DEFINE m == Len(s) + 1
           n == Len(s) + Len(t)
           u == SubSeq(s \o t, m, n)
<1>3. m \in Int /\ n \in Int /\ \A i \in m..n : (s \o t)[i] \in S
  BY <1>1, <1>2
<1>4. /\ u \in Seq(S) /\ Len(u) = (IF m <= n THEN n - m + 1 ELSE 0)
      /\ \A i \in 1..(n - m + 1) : u[i] = (s \o t)[m + i - 1]
  <2> DEFINE c == s \o t
  <2>1. \A i \in m..n : c[i] \in S
    BY <1>3
  <2> HIDE DEF m, n, c
  <2>2. /\ SubSeq(c, m, n) \in Seq(S) /\ Len(SubSeq(c, m, n)) = (IF m <= n THEN n - m + 1 ELSE 0)
        /\ \A i \in 1..(n - m + 1) : SubSeq(c, m, n)[i] = c[m + i - 1]
    BY <1>3, <2>1, SubSeqProperties
  <2>3. QED
    BY <2>2 DEF c
<1>5. Len(u) = Len(t)
  BY <1>2, <1>4
<1>6. ASSUME NEW i \in 1..Len(u) PROVE u[i] = t[i]
  <2>1. i \in 1..(n - m + 1) /\ m + i - 1 = Len(s) + i /\ Len(s) + i \in 1..(Len(s) + Len(t))
    BY <1>2, <1>5
  <2>2. u[i] = (s \o t)[Len(s) + i]
    BY <1>4, <2>1
  <2>3. ~(Len(s) + i <= Len(s)) /\ (Len(s) + i) - Len(s) = i
    BY <1>2, <2>1
  <2>4. QED
    BY <1>1, <2>1, <2>2, <2>3
<1>7. u = t
  <2> HIDE DEF u
  <2>1. QED
    BY <1>4, <1>5, <1>6, SeqEqual
<1>8. QED
  BY <1>1, <1>7

-----------------------------------------------------------------------------
(* Induction.                                                              *)

\* A set of natural numbers that is not empty has a least element.
LEMMA LeastElement ==
    ASSUME NEW T \in SUBSET Nat, T # {}
    PROVE  \E n \in T : \A m \in T : n <= m
<1> DEFINE Down == {0..n : n \in T}
<1>1. \A n \in T : n \in Nat
  OBVIOUS
<1>2. Down \subseteq FiniteSubsetsOf(Nat)
  <2>1. ASSUME NEW n \in T PROVE IsFiniteSet(0..n) /\ 0..n \in SUBSET Nat
    BY <1>1, FS_Interval
  <2>2. QED
    BY <2>1 DEF FiniteSubsetsOf
<1>3. \E d \in Down : \A e \in Down : ~(<<e, d>> \in StrictSubsetOrdering(Nat))
  <2>1. Down # {}
    OBVIOUS
  <2>2. IsWellFoundedOn(StrictSubsetOrdering(Nat), FiniteSubsetsOf(Nat))
    BY FS_StrictSubsetOrderingWellFounded
  <2> HIDE DEF Down
  <2>3. QED
    BY <1>2, <2>1, <2>2, WFMin
<1>4. PICK n \in T : \A e \in Down : ~(<<e, 0..n>> \in StrictSubsetOrdering(Nat))
  BY <1>3
<1>5. ASSUME NEW m \in T, m < n PROVE FALSE
  <2>1. 0..m \in Down
    OBVIOUS
  <2>2. 0..m \subseteq 0..n /\ 0..m # 0..n
    <3>1. n \in 0..n /\ n \notin 0..m
      BY <1>1, <1>5
    <3>2. QED
      BY <1>1, <1>5, <3>1
  <2>3. <<0..m, 0..n>> \in StrictSubsetOrdering(Nat)
    <3>1. 0..m \in SUBSET Nat /\ 0..n \in SUBSET Nat
      BY <1>1
    <3>2. QED
      BY <2>2, <3>1 DEF StrictSubsetOrdering
  <2>4. QED
    BY <1>4, <2>1, <2>3
<1>6. QED
  BY <1>1, <1>5

\* A set with 0 and the successor of each of its elements is that of all
\* natural numbers.
LEMMA Induction ==
    ASSUME NEW T \in SUBSET Nat, 0 \in T, \A n \in T : n + 1 \in T
    PROVE  T = Nat
<1> SUFFICES ASSUME Nat \ T # {} PROVE FALSE
  OBVIOUS
<1>1. PICK n \in Nat \ T : \A m \in Nat \ T : n <= m
  BY LeastElement
<1>2. n # 0 /\ n - 1 \in Nat /\ (n - 1) + 1 = n
  OBVIOUS
<1>3. n - 1 \in T
  BY <1>1, <1>2
<1>4. QED
  BY <1>2, <1>3

-----------------------------------------------------------------------------
(* FlattenSeq.                                                             *)

\* Flattens(f, s, n): f is the recursive function of FlattenSeq, up to n.
Flattens(f, s, n) == f = [i \in 1..n |-> IF i = 1 THEN s[i] ELSE f[i - 1] \o s[i]]

\* There is such a function for every n.
LEMMA FlattenExists == ASSUME NEW s, NEW n \in Nat PROVE \E f : Flattens(f, s, n)
<1> DEFINE T == {k \in Nat : \E f : Flattens(f, s, k)}
<1>1. 0 \in T
  <2> DEFINE e == [i \in {} |-> s]
  <2>1. 1..0 = {}
    OBVIOUS
  <2>2. e = [i \in 1..0 |-> IF i = 1 THEN s[i] ELSE e[i - 1] \o s[i]]
    BY <2>1
  <2>3. Flattens(e, s, 0)
    BY <2>2 DEF Flattens
  <2>4. QED
    BY <2>3
<1>2. ASSUME NEW k \in T PROVE k + 1 \in T
  <2>1. PICK f : Flattens(f, s, k)
    OBVIOUS
  <2> DEFINE g == [i \in 1..(k + 1) |-> IF i = 1 THEN s[i] ELSE f[i - 1] \o s[i]]
  <2>2. ASSUME NEW i \in 1..k PROVE g[i] = f[i]
    <3>1. k \in Nat /\ i \in 1..(k + 1)
      OBVIOUS
    <3>2. g[i] = IF i = 1 THEN s[i] ELSE f[i - 1] \o s[i]
      BY <3>1
    <3>3. f[i] = IF i = 1 THEN s[i] ELSE f[i - 1] \o s[i]
      BY <2>1 DEF Flattens
    <3>4. QED
      BY <3>2, <3>3
  <2>3. ASSUME NEW i \in 1..(k + 1), i # 1 PROVE g[i - 1] = f[i - 1]
    BY <2>2, <2>3, i - 1 \in 1..k
  <2>4. g = [i \in 1..(k + 1) |-> IF i = 1 THEN s[i] ELSE g[i - 1] \o s[i]]
    BY <2>3
  <2>5. Flattens(g, s, k + 1)
    BY <2>4 DEF Flattens
  <2>6. QED
    BY <2>5
<1>3. T = Nat
  <2> HIDE DEF T
  <2>1. T \in SUBSET Nat
    BY DEF T
  <2>2. QED
    BY <1>1, <1>2, <2>1, Induction
<1>4. QED
  BY <1>3

\* What FlattenSeq is for a list of sequences.
LEMMA FlattenIs ==
    ASSUME NEW S, NEW s \in Seq(Seq(S)), s # <<>>
    PROVE  \E f : /\ Flattens(f, s, Len(s)) /\ FlattenSeq(s) = f[Len(s)]
                  /\ \A i \in 1..Len(s) : f[i] \in Seq(S)
<1> DEFINE f == CHOOSE g : Flattens(g, s, Len(s))
<1>1. Len(s) \in Nat /\ Len(s) # 0 /\ \A i \in 1..Len(s) : s[i] \in Seq(S)
  OBVIOUS
<1>2. Flattens(f, s, Len(s))
  BY <1>1, FlattenExists
<1>3. FlattenSeq(s) = f[Len(s)]
  BY <1>1 DEF FlattenSeq, Flattens
<1> HIDE DEF f
<1> DEFINE T == {k \in Nat : k + 1 \in 1..Len(s) => f[k + 1] \in Seq(S)}
<1>4. 0 \in T
  BY <1>1, <1>2 DEF Flattens
<1>5. ASSUME NEW k \in T PROVE k + 1 \in T
  <2> SUFFICES ASSUME k + 2 \in 1..Len(s) PROVE f[k + 2] \in Seq(S)
    OBVIOUS
  <2>1. k + 1 \in 1..Len(s) /\ k + 2 # 1 /\ (k + 2) - 1 = k + 1
    BY <1>1
  <2>2. f[k + 2] = f[k + 1] \o s[k + 2]
    BY <1>2, <2>1 DEF Flattens
  <2>3. f[k + 1] \in Seq(S) /\ s[k + 2] \in Seq(S)
    BY <1>1, <2>1
  <2>4. QED
    BY <2>2, <2>3, ConcatProperties
<1>6. T = Nat
  <2> HIDE DEF T
  <2>1. T \in SUBSET Nat
    BY DEF T
  <2>2. QED
    BY <1>4, <1>5, <2>1, Induction
<1>7. ASSUME NEW i \in 1..Len(s) PROVE f[i] \in Seq(S)
  <2>1. i - 1 \in Nat /\ (i - 1) + 1 = i
    BY <1>1
  <2>2. i - 1 \in T
    BY <1>6, <2>1
  <2>3. QED
    BY <2>1, <2>2
<1>8. QED
  BY <1>2, <1>3, <1>7

\* Nothing flattens to nothing.
LEMMA FlattenNothing == FlattenSeq(<<>>) = <<>>
BY DEF FlattenSeq

\* Flattening takes the first sequence and flattens the others.
LEMMA FlattenUnrolls ==
    ASSUME NEW S, NEW s \in Seq(Seq(S)), s # <<>>
    PROVE  /\ Head(s) \in Seq(S) /\ FlattenSeq(Tail(s)) \in Seq(S)
           /\ FlattenSeq(s) = Head(s) \o FlattenSeq(Tail(s))
<1> DEFINE t == Tail(s)
           n == Len(s)
<1>1. /\ n \in Nat /\ n # 0 /\ t \in Seq(Seq(S)) /\ Len(t) = n - 1
      /\ \A i \in 1..n : s[i] \in Seq(S)
      /\ \A i \in 1..(n - 1) : t[i] = s[i + 1] /\ t[i] \in Seq(S)
      /\ Head(s) = s[1]
  <2>1. t \in Seq(Seq(S)) /\ Len(t) = n - 1 /\ \A i \in 1..Len(t) : t[i] = s[i + 1]
    BY HeadTailProperties
  <2>2. n \in Nat /\ n # 0 /\ Head(s) = s[1] /\ \A i \in 1..n : s[i] \in Seq(S)
    OBVIOUS
  <2>3. QED
    BY <2>1, <2>2
<1>2. PICK f : Flattens(f, s, n) /\ FlattenSeq(s) = f[n] /\ \A i \in 1..n : f[i] \in Seq(S)
  BY FlattenIs
<1> HIDE DEF t, n
<1>3. f[1] = s[1]
  BY <1>1, <1>2 DEF Flattens
<1>4. CASE n = 1
  <2>1. t = <<>>
    BY <1>1, <1>4
  <2>2. FlattenSeq(t) = <<>> /\ <<>> \in Seq(S)
    BY <2>1, FlattenNothing
  <2>3. Head(s) \o <<>> = Head(s)
    BY <1>1, <1>4, ConcatEmptySeq
  <2>4. Head(s) \in Seq(S) /\ FlattenSeq(s) = Head(s)
    BY <1>1, <1>2, <1>3, <1>4
  <2>5. FlattenSeq(Tail(s)) = <<>>
    BY <2>2 DEF t
  <2>6. QED
    BY <2>2, <2>3, <2>4, <2>5
<1>5. CASE n # 1
  <2>1. t # <<>>
    BY <1>1, <1>5
  <2>2. PICK g : Flattens(g, t, n - 1) /\ FlattenSeq(t) = g[n - 1] /\ \A i \in 1..(n - 1) : g[i] \in Seq(S)
    <3>1. \E g : /\ Flattens(g, t, Len(t)) /\ FlattenSeq(t) = g[Len(t)]
                 /\ \A i \in 1..Len(t) : g[i] \in Seq(S)
      BY <1>1, <2>1, FlattenIs
    <3>2. QED
      BY <1>1, <3>1
  <2> DEFINE T == {k \in Nat : k + 1 \in 1..(n - 1) => f[k + 2] = s[1] \o g[k + 1]}
  <2>3. 0 \in T
    <3>1. 1 \in 1..(n - 1) /\ 2 \in 1..n
      BY <1>1, <1>5
    <3>2. g[1] = t[1]
      BY <2>2, <3>1 DEF Flattens
    <3>3. f[2] = f[1] \o s[2]
      <4>1. ASSUME NEW i \in 1..n, i # 1 PROVE f[i] = f[i - 1] \o s[i]
        BY <1>2, <4>1 DEF Flattens
      <4>2. 2 # 1 /\ 2 - 1 = 1
        OBVIOUS
      <4>3. QED
        BY <3>1, <4>1, <4>2
    <3>4. t[1] = s[2]
      BY <1>1, <3>1
    <3>5. f[2] = s[1] \o g[1]
      BY <1>3, <3>2, <3>3, <3>4
    <3>6. 0 \in Nat /\ 0 + 1 = 1 /\ 0 + 2 = 2
      OBVIOUS
    <3>7. QED
      BY <3>5, <3>6
  <2>4. ASSUME NEW k \in T PROVE k + 1 \in T
    <3> DEFINE m == k + 1
    <3>0. k \in Nat /\ m \in Nat /\ m + 1 = k + 2 /\ m + 2 = k + 3
      OBVIOUS
    <3> HIDE DEF m
    <3> SUFFICES ASSUME k + 2 \in 1..(n - 1) PROVE f[k + 3] = s[1] \o g[k + 2]
      <4>1. (m + 1 \in 1..(n - 1) => f[m + 2] = s[1] \o g[m + 1]) => m \in T
        BY <3>0
      <4>2. m \in T => k + 1 \in T
        BY DEF m
      <4>3. QED
        BY <3>0, <4>1, <4>2
    <3>1. k + 1 \in 1..(n - 1) /\ k + 3 \in 1..n /\ k + 3 # 1 /\ k + 2 # 1
      BY <1>1
    <3>2. f[k + 3] = f[k + 2] \o s[k + 3]
      <4>1. (k + 3) - 1 = k + 2
        OBVIOUS
      <4>2. QED
        BY <1>2, <3>1, <4>1 DEF Flattens
    <3>3. g[k + 2] = g[k + 1] \o t[k + 2]
      <4>1. (k + 2) - 1 = k + 1
        OBVIOUS
      <4>2. QED
        BY <2>2, <3>1, <4>1 DEF Flattens
    <3>4. s[k + 3] = t[k + 2]
      <4>1. (k + 2) + 1 = k + 3
        OBVIOUS
      <4>2. QED
        BY <1>1, <4>1
    <3>5. f[k + 2] = s[1] \o g[k + 1]
      BY <3>1
    <3>6. s[1] \in Seq(S) /\ g[k + 1] \in Seq(S) /\ t[k + 2] \in Seq(S)
      BY <1>1, <2>2, <3>1
    <3>7. (s[1] \o g[k + 1]) \o t[k + 2] = s[1] \o (g[k + 1] \o t[k + 2])
      <4> DEFINE a == s[1]
                 b == g[k + 1]
                 c == t[k + 2]
      <4>1. a \in Seq(S) /\ b \in Seq(S) /\ c \in Seq(S)
        BY <3>6
      <4> HIDE DEF a, b, c
      <4>2. (a \o b) \o c = a \o (b \o c)
        BY <4>1, ConcatAssociative, SMTT(30)
      <4>3. QED
        BY <4>2 DEF a, b, c
    <3>8. QED
      BY <3>2, <3>3, <3>4, <3>5, <3>7
  <2>5. T = Nat
    <3> HIDE DEF T
    <3>1. T \in SUBSET Nat
      BY DEF T
    <3>2. QED
      BY <2>3, <2>4, <3>1, Induction
  <2>6. f[n] = s[1] \o g[n - 1]
    <3>1. n - 2 \in Nat /\ (n - 2) + 1 = n - 1 /\ (n - 2) + 2 = n /\ n - 1 \in 1..(n - 1)
      BY <1>1, <1>5
    <3>2. n - 2 \in T
      BY <2>5, <3>1
    <3>3. QED
      BY <3>1, <3>2
  <2>7. g[n - 1] \in Seq(S)
    BY <1>1, <1>5, <2>2
  <2>8. Head(s) \in Seq(S) /\ FlattenSeq(s) = Head(s) \o FlattenSeq(t) /\ FlattenSeq(t) \in Seq(S)
    <3>1. FlattenSeq(s) = f[n] /\ FlattenSeq(t) = g[n - 1] /\ Head(s) = s[1]
      BY <1>1, <1>2, <2>2
    <3>2. s[1] \in Seq(S)
      BY <1>1
    <3>3. QED
      BY <2>6, <2>7, <3>1, <3>2
  <2>9. QED
    BY <2>8 DEF t
<1>6. QED
  BY <1>4, <1>5

\* Flattening loses nothing and adds nothing.
LEMMA FlattenHolds ==
    ASSUME NEW S, NEW s \in Seq(Seq(S))
    PROVE  FlattenSeq(s) \in Seq(S) /\ ToSet(FlattenSeq(s)) = UNION {ToSet(q) : q \in ToSet(s)}
<1> DEFINE Holds(r) == FlattenSeq(r) \in Seq(S) /\ ToSet(FlattenSeq(r)) = UNION {ToSet(q) : q \in ToSet(r)}
           T == {k \in Nat : \A r \in Seq(Seq(S)) : Len(r) = k => Holds(r)}
<1>1. 0 \in T
  <2>1. ASSUME NEW r \in Seq(Seq(S)), Len(r) = 0 PROVE Holds(r)
    <3>1. r = <<>> /\ FlattenSeq(r) = <<>>
      BY <2>1, FlattenNothing
    <3>2. ToSet(<<>>) = {}
      BY DEF ToSet
    <3>3. UNION {ToSet(q) : q \in {}} = {} /\ <<>> \in Seq(S)
      OBVIOUS
    <3>4. ToSet(FlattenSeq(r)) = {} /\ UNION {ToSet(q) : q \in ToSet(r)} = {}
      BY <3>1, <3>2, <3>3, Zenon
    <3>5. FlattenSeq(r) \in Seq(S)
      BY <3>1, <3>3
    <3>6. QED
      BY <3>4, <3>5
  <2>2. QED
    BY <2>1
<1>2. ASSUME NEW k \in T PROVE k + 1 \in T
  <2>1. ASSUME NEW r \in Seq(Seq(S)), Len(r) = k + 1 PROVE Holds(r)
    <3>0. k \in Nat /\ r # <<>>
      BY <2>1
    <3>1. /\ Head(r) \in Seq(S) /\ Tail(r) \in Seq(Seq(S)) /\ Len(Tail(r)) = k
          /\ ToSet(r) = {Head(r)} \cup ToSet(Tail(r))
      BY <2>1, <3>0, TailHolds
    <3>2. Holds(Tail(r))
      BY <3>1
    <3>3. FlattenSeq(r) = Head(r) \o FlattenSeq(Tail(r))
      BY <3>0, FlattenUnrolls
    <3>4. /\ FlattenSeq(r) \in Seq(S)
          /\ ToSet(FlattenSeq(r)) = ToSet(Head(r)) \cup ToSet(FlattenSeq(Tail(r)))
      BY <3>1, <3>2, <3>3, ConcatHolds
    <3>5. UNION {ToSet(q) : q \in ToSet(r)} = ToSet(Head(r)) \cup UNION {ToSet(q) : q \in ToSet(Tail(r))}
      BY <3>1
    <3>6. QED
      BY <3>2, <3>4, <3>5
  <2> HIDE DEF Holds
  <2>2. k + 1 \in Nat
    OBVIOUS
  <2>3. QED
    BY <2>1, <2>2
<1>3. T = Nat
  <2> HIDE DEF T
  <2>1. T \in SUBSET Nat
    BY DEF T
  <2>2. QED
    BY <1>1, <1>2, <2>1, Induction
<1>4. Holds(s)
  <2>1. Len(s) \in T
    BY <1>3
  <2> HIDE DEF Holds
  <2>2. QED
    BY <2>1
<1>5. QED
  BY <1>4

\* Flattening selects: it holds what the sequence and the set share.
LEMMA SelectionHolds ==
    ASSUME NEW S, NEW s \in Seq(S), NEW set
    PROVE  LET selection == FlattenSeq([i \in DOMAIN s |-> IF s[i] \in set THEN <<s[i]>> ELSE <<>>])
           IN  selection \in Seq(S) /\ ToSet(selection) = ToSet(s) \cap set
<1> DEFINE parts == [i \in DOMAIN s |-> IF s[i] \in set THEN <<s[i]>> ELSE <<>>]
<1>1. DOMAIN s = 1..Len(s) /\ Len(s) \in Nat /\ \A i \in 1..Len(s) : s[i] \in S
  OBVIOUS
<1>2. \A x \in S : <<x>> \in Seq(S) /\ ToSet(<<x>>) = {x}
  BY DEF ToSet
<1>3. <<>> \in Seq(S) /\ ToSet(<<>>) = {}
  BY DEF ToSet
<1>4. parts \in Seq(Seq(S)) /\ DOMAIN parts = 1..Len(s)
  BY <1>1, <1>2, <1>3
<1>5. FlattenSeq(parts) \in Seq(S) /\ ToSet(FlattenSeq(parts)) = UNION {ToSet(q) : q \in ToSet(parts)}
  <2> HIDE DEF parts
  <2>1. QED
    BY <1>4, FlattenHolds
<1>6. ASSUME NEW x \in UNION {ToSet(q) : q \in ToSet(parts)} PROVE x \in ToSet(s) \cap set
  <2>1. PICK i \in 1..Len(s) : x \in ToSet(parts[i])
    BY <1>4 DEF ToSet
  <2>2. s[i] \in set /\ x = s[i]
    BY <1>1, <1>2, <1>3, <2>1
  <2>3. QED
    BY <1>1, <2>2 DEF ToSet
<1>7. ASSUME NEW x \in ToSet(s) \cap set PROVE x \in UNION {ToSet(q) : q \in ToSet(parts)}
  <2>1. PICK i \in 1..Len(s) : x = s[i]
    BY <1>1 DEF ToSet
  <2>2. parts[i] = <<x>> /\ parts[i] \in ToSet(parts)
    BY <1>1, <1>4, <2>1 DEF ToSet
  <2>3. QED
    BY <1>1, <1>2, <2>1, <2>2
<1>8. QED
  BY <1>5, <1>6, <1>7

-----------------------------------------------------------------------------
(* The order of what FlattenSeq yields.                                    *)

\* A set with the empty sequence, and with each sequence whose tail it has, is
\* that of all sequences.
LEMMA TailInduction ==
    ASSUME NEW S, NEW T \in SUBSET Seq(S), <<>> \in T,
           \A s \in Seq(S) : s # <<>> /\ Tail(s) \in T => s \in T
    PROVE  T = Seq(S)
<1> DEFINE N == {k \in Nat : \A s \in Seq(S) : Len(s) = k => s \in T}
<1>1. 0 \in N
  <2>1. \A s \in Seq(S) : Len(s) = 0 => s = <<>>
    OBVIOUS
  <2>2. QED
    BY <2>1
<1>2. ASSUME NEW k \in N PROVE k + 1 \in N
  <2>1. ASSUME NEW s \in Seq(S), Len(s) = k + 1 PROVE s \in T
    <3>1. k \in Nat /\ s # <<>>
      BY <2>1
    <3>2. Tail(s) \in Seq(S) /\ Len(Tail(s)) = k
      BY <2>1, <3>1, HeadTailProperties
    <3>3. QED
      BY <3>1, <3>2
  <2>2. k + 1 \in Nat
    OBVIOUS
  <2>3. QED
    BY <2>1, <2>2
<1>3. N = Nat
  <2> HIDE DEF N
  <2>1. N \in SUBSET Nat
    BY DEF N
  <2>2. QED
    BY <1>1, <1>2, <2>1, Induction
<1>4. ASSUME NEW s \in Seq(S) PROVE s \in T
  <2>1. Len(s) \in N
    BY <1>3
  <2>2. QED
    BY <2>1
<1>5. QED
  BY <1>4

\* A single sequence is flattened to itself.
LEMMA FlattenOne == ASSUME NEW S, NEW s \in Seq(S) PROVE FlattenSeq(<<s>>) = s
<1>1. <<s>> \in Seq(Seq(S)) /\ <<s>> # <<>> /\ Head(<<s>>) = s /\ Tail(<<s>>) = <<>>
  OBVIOUS
<1>2. FlattenSeq(<<s>>) = s \o FlattenSeq(<<>>)
  BY <1>1, FlattenUnrolls
<1>3. QED
  BY <1>2, FlattenNothing, ConcatEmptySeq

\* Two lists of sequences are flattened one after the other.
LEMMA FlattenJoined ==
    ASSUME NEW S, NEW s \in Seq(Seq(S)), NEW t \in Seq(Seq(S))
    PROVE  FlattenSeq(s \o t) = FlattenSeq(s) \o FlattenSeq(t)
<1> DEFINE T == {r \in Seq(Seq(S)) : FlattenSeq(r \o t) = FlattenSeq(r) \o FlattenSeq(t)}
<1>1. FlattenSeq(t) \in Seq(S)
  BY FlattenHolds
<1>2. <<>> \in T
  <2>1. <<>> \in Seq(Seq(S)) /\ <<>> \o t = t
    BY ConcatEmptySeq
  <2>2. FlattenSeq(<<>>) \o FlattenSeq(t) = FlattenSeq(t)
    BY <1>1, FlattenNothing, ConcatEmptySeq
  <2>3. QED
    BY <2>1, <2>2
<1>3. ASSUME NEW r \in Seq(Seq(S)), r # <<>>, Tail(r) \in T PROVE r \in T
  <2>1. /\ r \o t # <<>> /\ Head(r \o t) = Head(r) /\ Tail(r \o t) = Tail(r) \o t
        /\ r \o t \in Seq(Seq(S))
    BY <1>3, ConcatHeadTail, ConcatProperties
  <2>2. /\ Head(r) \in Seq(S) /\ FlattenSeq(Tail(r)) \in Seq(S)
        /\ FlattenSeq(r) = Head(r) \o FlattenSeq(Tail(r))
    BY <1>3, FlattenUnrolls
  <2>3. FlattenSeq(r \o t) = Head(r) \o FlattenSeq(Tail(r) \o t)
    BY <2>1, FlattenUnrolls
  <2>4. FlattenSeq(Tail(r) \o t) = FlattenSeq(Tail(r)) \o FlattenSeq(t)
    BY <1>3
  <2>5. (Head(r) \o FlattenSeq(Tail(r))) \o FlattenSeq(t) = Head(r) \o (FlattenSeq(Tail(r)) \o FlattenSeq(t))
    <3> DEFINE a == Head(r)
               b == FlattenSeq(Tail(r))
               c == FlattenSeq(t)
    <3>1. a \in Seq(S) /\ b \in Seq(S) /\ c \in Seq(S)
      BY <1>1, <2>2
    <3> HIDE DEF a, b, c
    <3>2. (a \o b) \o c = a \o (b \o c)
      BY <3>1, ConcatAssociative, SMTT(30)
    <3>3. QED
      BY <3>2 DEF a, b, c
  <2>6. FlattenSeq(r \o t) = FlattenSeq(r) \o FlattenSeq(t)
    BY <2>2, <2>3, <2>4, <2>5
  <2>7. QED
    BY <2>6
<1>4. T = Seq(Seq(S))
  <2> HIDE DEF T
  <2>1. T \in SUBSET Seq(Seq(S))
    BY DEF T
  <2>2. QED
    BY <1>2, <1>3, <2>1, TailInduction
<1>5. QED
  BY <1>4

=============================================================================
