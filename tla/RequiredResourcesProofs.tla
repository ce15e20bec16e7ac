------------------------ MODULE RequiredResourcesProofs ------------------------
(***************************************************************************)
(* Lemmas about the offline client's answers (MustGather) and about what   *)
(* is pruned (RequiredResources), for any directory and list: what a get,  *)
(* a list and the reading of a required-resources list find, which files   *)
(* the found resources are written to, and what reading them back gives.   *)
(***************************************************************************)
EXTENDS RequiredResources, SequenceLemmas

-----------------------------------------------------------------------------
(* Sequences of whatever they hold.                                        *)

\* A sequence is one over any set that its elements are in.
LEMMA Widen == ASSUME NEW s, IsSequence(s), NEW S, ToSet(s) \subseteq S PROVE s \in Seq(S)
<1>1. s \in Seq(ToSet(s))
  BY DEF IsSequence
<1>2. QED
  BY <1>1

\* A sequence over some set is one over its elements.
LEMMA Narrow == ASSUME NEW S, NEW s \in Seq(S) PROVE IsSequence(s)
<1>1. Len(s) \in Nat /\ s = [i \in 1..Len(s) |-> s[i]]
  OBVIOUS
<1>2. \A i \in 1..Len(s) : s[i] \in ToSet(s)
  BY DEF ToSet
<1>3. QED
  BY <1>1, <1>2 DEF IsSequence

\* A function over 1..n is a sequence.
LEMMA Built == ASSUME NEW n \in Nat, NEW f, f = [i \in 1..n |-> f[i]] PROVE IsSequence(f)
<1>1. \A i \in 1..n : f[i] \in ToSet(f)
  BY DEF ToSet
<1>2. QED
  BY <1>1 DEF IsSequence

\* The places of a sequence and what is there.
LEMMA Places1 == ASSUME NEW s, IsSequence(s)
                 PROVE  /\ Len(s) \in Nat /\ DOMAIN s = 1..Len(s) /\ s = [i \in 1..Len(s) |-> s[i]]
                        /\ \A i \in 1..Len(s) : s[i] \in ToSet(s)
<1>1. s \in Seq(ToSet(s))
  BY DEF IsSequence
<1>2. QED
  BY <1>1 DEF ToSet

\* The sequence of one element.
LEMMA Singleton == ASSUME NEW x PROVE IsSequence(<<x>>) /\ ToSet(<<x>>) = {x}
<1>1. ToSet(<<x>>) = {x}
  BY DEF ToSet
<1>2. QED
  BY <1>1 DEF IsSequence

\* The empty sequence.
LEMMA Nothing1 == IsSequence(<<>>) /\ ToSet(<<>>) = {}
BY DEF IsSequence, ToSet

\* A concatenation has the elements of both.
LEMMA Joined == ASSUME NEW s, IsSequence(s), NEW t, IsSequence(t)
                PROVE  IsSequence(s \o t) /\ ToSet(s \o t) = ToSet(s) \cup ToSet(t)
<1> DEFINE S == ToSet(s) \cup ToSet(t)
<1>1. s \in Seq(S) /\ t \in Seq(S)
  BY Widen
<1> HIDE DEF S
<1>2. s \o t \in Seq(S) /\ ToSet(s \o t) = ToSet(s) \cup ToSet(t)
  BY <1>1, ConcatHolds
<1>3. QED
  BY <1>2, Narrow

\* Flattening yields the elements of all parts.
LEMMA Flattened == ASSUME NEW s, IsSequence(s), \A q \in ToSet(s) : IsSequence(q)
                   PROVE  /\ IsSequence(FlattenSeq(s))
                          /\ ToSet(FlattenSeq(s)) = UNION {ToSet(q) : q \in ToSet(s)}
<1> DEFINE S == UNION {ToSet(q) : q \in ToSet(s)}
<1>1. ASSUME NEW q \in ToSet(s) PROVE q \in Seq(S)
  <2>1. ToSet(q) \subseteq S
    OBVIOUS
  <2> HIDE DEF S
  <2>2. QED
    BY <2>1, Widen
<1> HIDE DEF S
<1>2. s \in Seq(Seq(S))
  BY <1>1, Widen
<1>3. FlattenSeq(s) \in Seq(S) /\ ToSet(FlattenSeq(s)) = UNION {ToSet(q) : q \in ToSet(s)}
  BY <1>2, FlattenHolds
<1>4. QED
  BY <1>3, Narrow

AreSequences(s) == IsSequence(s) /\ \A q \in ToSet(s) : IsSequence(q)

\* A concatenation, place by place.
LEMMA JoinedIs ==
    ASSUME NEW s, IsSequence(s), NEW t, IsSequence(t)
    PROVE  /\ Len(s \o t) = Len(s) + Len(t)
           /\ \A i \in 1..(Len(s) + Len(t)) : (s \o t)[i] = IF i <= Len(s) THEN s[i] ELSE t[i - Len(s)]
<1> DEFINE S == ToSet(s) \cup ToSet(t)
<1>1. s \in Seq(S) /\ t \in Seq(S)
  BY Widen
<1> HIDE DEF S
<1>2. QED
  BY <1>1, ConcatProperties

\* Sequences that agree in every place are equal.
LEMMA Same ==
    ASSUME NEW s, IsSequence(s), NEW t, IsSequence(t), Len(s) = Len(t), \A i \in 1..Len(s) : s[i] = t[i]
    PROVE  s = t
BY Places1

\* The empty sequence adds nothing.
LEMMA WithNothing == ASSUME NEW s, IsSequence(s) PROVE s \o <<>> = s /\ <<>> \o s = s
<1>1. s \in Seq(ToSet(s))
  BY DEF IsSequence
<1>2. QED
  BY <1>1, ConcatEmptySeq

\* A sequence is its head and its tail.
LEMMA HeadAndTail ==
    ASSUME NEW s, IsSequence(s), s # <<>>
    PROVE  /\ Head(s) \in ToSet(s) /\ Head(s) = s[1] /\ Len(s) \in Nat /\ Len(s) # 0
           /\ IsSequence(Tail(s)) /\ Len(Tail(s)) = Len(s) - 1
           /\ \A i \in 1..Len(Tail(s)) : Tail(s)[i] = s[i + 1]
           /\ ToSet(s) = {Head(s)} \cup ToSet(Tail(s)) /\ s = <<Head(s)>> \o Tail(s)
<1>1. s \in Seq(ToSet(s))
  BY DEF IsSequence
<1>2. /\ Head(s) \in ToSet(s) /\ Tail(s) \in Seq(ToSet(s)) /\ Len(Tail(s)) = Len(s) - 1
      /\ \A i \in 1..Len(Tail(s)) : Tail(s)[i] = s[i + 1]
      /\ Len(s) \in Nat /\ Len(s) # 0 /\ Head(s) = s[1]
  BY <1>1, HeadTailProperties
<1>3. ToSet(s) = {Head(s)} \cup ToSet(Tail(s))
  BY <1>1, TailHolds
<1>4. IsSequence(Tail(s)) /\ IsSequence(<<Head(s)>>)
  BY <1>2, Narrow, Singleton
<1> DEFINE u == <<Head(s)>> \o Tail(s)
<1>5. Len(<<Head(s)>>) = 1 /\ <<Head(s)>>[1] = Head(s)
  OBVIOUS
<1>6. /\ IsSequence(u) /\ Len(u) = Len(s)
      /\ \A i \in 1..Len(s) : u[i] = IF i <= 1 THEN <<Head(s)>>[i] ELSE Tail(s)[i - 1]
  <2> DEFINE h == <<Head(s)>>
             t == Tail(s)
  <2>1. IsSequence(h) /\ IsSequence(t) /\ Len(h) = 1 /\ Len(t) = Len(s) - 1
    BY <1>2, <1>4, <1>5
  <2> HIDE DEF h, t
  <2>2. IsSequence(h \o t)
    BY <2>1, Joined
  <2>3. /\ Len(h \o t) = Len(h) + Len(t)
        /\ \A i \in 1..(Len(h) + Len(t)) : (h \o t)[i] = IF i <= Len(h) THEN h[i] ELSE t[i - Len(h)]
    BY <2>1, JoinedIs
  <2>4. /\ Len(h \o t) = Len(s)
        /\ \A i \in 1..Len(s) : (h \o t)[i] = IF i <= 1 THEN h[i] ELSE t[i - 1]
    BY <1>2, <2>1, <2>3
  <2>5. QED
    BY <2>2, <2>4 DEF h, t
<1> HIDE DEF u
<1>7. ASSUME NEW i \in 1..Len(s) PROVE s[i] = u[i]
  <2>1. CASE i = 1
    BY <1>2, <1>5, <1>6, <2>1
  <2>2. CASE i # 1
    <3>1. i - 1 \in 1..Len(Tail(s)) /\ (i - 1) + 1 = i /\ ~(i <= 1)
      BY <1>2, <2>2
    <3>2. u[i] = Tail(s)[i - 1]
      BY <1>6, <3>1
    <3>3. QED
      BY <1>2, <3>1, <3>2
  <2>3. QED
    BY <2>1, <2>2
<1>8. s = u
  BY <1>6, <1>7, Same
<1>9. QED
  BY <1>2, <1>3, <1>4, <1>8 DEF u

\* Flattening is the first part before the flattened rest.
LEMMA Unrolled ==
    ASSUME NEW s, AreSequences(s), s # <<>>
    PROVE  /\ IsSequence(Head(s)) /\ Head(s) \in ToSet(s) /\ AreSequences(Tail(s))
           /\ ToSet(s) = {Head(s)} \cup ToSet(Tail(s))
           /\ FlattenSeq(s) = Head(s) \o FlattenSeq(Tail(s))
<1>1. /\ IsSequence(Head(s)) /\ Head(s) \in ToSet(s) /\ AreSequences(Tail(s))
      /\ ToSet(s) = {Head(s)} \cup ToSet(Tail(s))
  BY HeadAndTail DEF AreSequences
<1> DEFINE S == UNION {ToSet(q) : q \in ToSet(s)}
<1>2. ASSUME NEW q \in ToSet(s) PROVE q \in Seq(S)
  <2>1. ToSet(q) \subseteq S /\ IsSequence(q)
    BY DEF AreSequences
  <2> HIDE DEF S
  <2>2. QED
    BY <2>1, Widen
<1> HIDE DEF S
<1>3. s \in Seq(Seq(S))
  BY <1>2, Widen DEF AreSequences
<1>4. FlattenSeq(s) = Head(s) \o FlattenSeq(Tail(s))
  BY <1>3, FlattenUnrolls
<1>5. QED
  BY <1>1, <1>4

\* What is chosen from two sequences.
LEMMA ThoseJoined ==
    ASSUME NEW s, IsSequence(s), NEW t, IsSequence(t), NEW set
    PROVE  Those(s \o t, set) = Those(s, set) \o Those(t, set)
<1> DEFINE Part(x) == IF x \in set THEN <<x>> ELSE <<>>
           Parts(q) == [i \in DOMAIN q |-> IF q[i] \in set THEN <<q[i]>> ELSE <<>>]
           S == ToSet(s) \cup ToSet(t)
<1>1. s \in Seq(S) /\ t \in Seq(S)
  BY Widen
<1> HIDE DEF S
<1>2. ASSUME NEW q, IsSequence(q), q \in Seq(S)
      PROVE  Parts(q) \in Seq(Seq(S)) /\ Len(Parts(q)) = Len(q) /\ IsSequence(Parts(q))
  <2>1. DOMAIN q = 1..Len(q) /\ Len(q) \in Nat /\ \A i \in 1..Len(q) : q[i] \in S
    BY <1>2
  <2>2. \A i \in 1..Len(q) : (IF q[i] \in set THEN <<q[i]>> ELSE <<>>) \in Seq(S)
    BY <2>1
  <2> DEFINE p == Parts(q)
  <2>3. p \in Seq(Seq(S)) /\ Len(p) = Len(q)
    BY <2>1, <2>2
  <2> HIDE DEF p
  <2>4. IsSequence(p)
    BY <2>3, Narrow
  <2>5. QED
    BY <2>3, <2>4 DEF p
<1>3. IsSequence(s \o t) /\ s \o t \in Seq(S)
  BY <1>1, Joined, ConcatProperties
<1> DEFINE a == Parts(s)
           b == Parts(t)
           u == s \o t
           c == Parts(u)
<1>4. a \in Seq(Seq(S)) /\ Len(a) = Len(s) /\ IsSequence(a)
  BY <1>1, <1>2
<1>5. b \in Seq(Seq(S)) /\ Len(b) = Len(t) /\ IsSequence(b)
  BY <1>1, <1>2
<1>6. c \in Seq(Seq(S)) /\ Len(c) = Len(u) /\ IsSequence(c)
  BY <1>2, <1>3
<1>7. c = a \o b
  <2>1. /\ Len(s) \in Nat /\ DOMAIN s = 1..Len(s) /\ Len(t) \in Nat /\ DOMAIN t = 1..Len(t)
        /\ Len(u) \in Nat /\ DOMAIN u = 1..Len(u)
    BY <1>3, Places1
  <2>2. /\ \A i \in 1..Len(s) : a[i] = Part(s[i])
        /\ \A i \in 1..Len(t) : b[i] = Part(t[i])
        /\ \A i \in 1..Len(u) : c[i] = Part(u[i])
    BY <2>1
  <2>3. /\ Len(u) = Len(s) + Len(t)
        /\ \A i \in 1..(Len(s) + Len(t)) : u[i] = IF i <= Len(s) THEN s[i] ELSE t[i - Len(s)]
    BY JoinedIs
  <2> HIDE DEF a, b, c, u, Part, Parts
  <2>4. /\ IsSequence(a \o b) /\ Len(a \o b) = Len(a) + Len(b)
        /\ \A i \in 1..(Len(a) + Len(b)) : (a \o b)[i] = IF i <= Len(a) THEN a[i] ELSE b[i - Len(a)]
    BY <1>4, <1>5, Joined, JoinedIs
  <2>5. ASSUME NEW i \in 1..Len(c) PROVE c[i] = (a \o b)[i]
    <3>1. i \in 1..Len(u) /\ i \in 1..(Len(s) + Len(t)) /\ i \in 1..(Len(a) + Len(b))
      BY <1>4, <1>5, <1>6, <2>3
    <3>2. CASE i <= Len(s)
      <4>1. i \in 1..Len(s) /\ u[i] = s[i] /\ (a \o b)[i] = a[i]
        BY <1>4, <2>1, <2>3, <2>4, <3>1, <3>2
      <4>2. QED
        BY <2>2, <3>1, <4>1
    <3>3. CASE ~(i <= Len(s))
      <4>1. i - Len(s) \in 1..Len(t) /\ u[i] = t[i - Len(s)] /\ (a \o b)[i] = b[i - Len(s)]
        BY <1>4, <2>1, <2>3, <2>4, <3>1, <3>3
      <4>2. QED
        BY <2>2, <3>1, <4>1
    <3>4. QED
      BY <3>2, <3>3
  <2>6. QED
    BY <1>4, <1>5, <1>6, <2>3, <2>4, <2>5, Same
<1>8. /\ Those(s, set) = FlattenSeq(a) /\ Those(t, set) = FlattenSeq(b)
      /\ Those(s \o t, set) = FlattenSeq(c)
  BY DEF Those
<1> HIDE DEF a, b, c, u, Parts, Part
<1>9. FlattenSeq(a \o b) = FlattenSeq(a) \o FlattenSeq(b)
  BY <1>4, <1>5, FlattenJoined
<1>10. QED
  BY <1>7, <1>8, <1>9

\* Of nothing there is nothing to choose.
LEMMA ThoseOfNothing == ASSUME NEW set PROVE Those(<<>>, set) = <<>>
<1>1. [i \in DOMAIN <<>> |-> IF <<>>[i] \in set THEN <<<<>>[i]>> ELSE <<>>] = <<>>
  OBVIOUS
<1>2. QED
  BY <1>1, FlattenNothing DEF Those

\* Of one element there is that or nothing to choose.
LEMMA ThoseOne ==
    ASSUME NEW x, NEW set
    PROVE  /\ x \in set => Those(<<x>>, set) = <<x>>
           /\ x \notin set => Those(<<x>>, set) = <<>>
<1> DEFINE s == <<x>>
<1>1. DOMAIN s = 1..1 /\ s[1] = x /\ \A i \in 1..1 : i = 1
  OBVIOUS
<1>2. x \in set => [i \in DOMAIN s |-> IF s[i] \in set THEN <<s[i]>> ELSE <<>>] = <<<<x>>>>
  BY <1>1
<1>3. x \notin set => [i \in DOMAIN s |-> IF s[i] \in set THEN <<s[i]>> ELSE <<>>] = <<<<>>>>
  BY <1>1
<1>4. FlattenSeq(<<<<x>>>>) = <<x>> /\ FlattenSeq(<<<<>>>>) = <<>>
  <2>1. <<x>> \in Seq({x}) /\ <<>> \in Seq({x})
    OBVIOUS
  <2>2. QED
    BY <2>1, FlattenOne
<1>5. QED
  BY <1>2, <1>3, <1>4 DEF Those

\* If all are chosen the sequence is as it was, if none is nothing is left.
LEMMA AllOrNone ==
    ASSUME NEW s, IsSequence(s), NEW set
    PROVE  /\ ToSet(s) \subseteq set => Those(s, set) = s
           /\ ToSet(s) \cap set = {} => Those(s, set) = <<>>
<1> DEFINE S == ToSet(s)
           Right(q) == /\ ToSet(q) \subseteq set => Those(q, set) = q
                       /\ ToSet(q) \cap set = {} => Those(q, set) = <<>>
           T == {q \in Seq(S) : Right(q)}
<1>1. <<>> \in T
  <2>1. Those(<<>>, set) = <<>> /\ <<>> \in Seq(S)
    BY ThoseOfNothing
  <2>2. QED
    BY <2>1
<1>2. ASSUME NEW q \in Seq(S), q # <<>>, Right(Tail(q)) PROVE Right(q)
  <2> DEFINE h == Head(q)
             t == Tail(q)
  <2>1. /\ IsSequence(q) /\ h \in ToSet(q) /\ IsSequence(t)
        /\ ToSet(q) = {h} \cup ToSet(t) /\ q = <<h>> \o t
    BY <1>2, Narrow, HeadAndTail
  <2>2. Right(t)
    BY <1>2
  <2> HIDE DEF h, t
  <2>3. Those(q, set) = Those(<<h>>, set) \o Those(t, set)
    <3> DEFINE u == <<h>>
    <3>1. IsSequence(u) /\ q = u \o t
      BY <2>1, Singleton
    <3> HIDE DEF u
    <3>2. Those(u \o t, set) = Those(u, set) \o Those(t, set)
      BY <2>1, <3>1, ThoseJoined
    <3>3. QED
      BY <3>1, <3>2 DEF u
  <2>4. ASSUME ToSet(q) \subseteq set PROVE Those(q, set) = q
    <3>1. Those(<<h>>, set) = <<h>> /\ Those(t, set) = t
      BY <2>1, <2>2, <2>4, ThoseOne
    <3>2. QED
      BY <2>1, <2>3, <3>1
  <2>5. ASSUME ToSet(q) \cap set = {} PROVE Those(q, set) = <<>>
    <3>1. Those(<<h>>, set) = <<>> /\ Those(t, set) = <<>>
      BY <2>1, <2>2, <2>5, ThoseOne
    <3>2. <<>> \o <<>> = <<>>
      BY Nothing1, WithNothing
    <3>3. QED
      BY <2>3, <3>1, <3>2
  <2>6. QED
    BY <2>4, <2>5
<1> HIDE DEF Right
<1>3. T = Seq(S)
  <2>1. \A q \in Seq(S) : q # <<>> /\ Tail(q) \in T => q \in T
    BY <1>2
  <2>2. T \in SUBSET Seq(S)
    OBVIOUS
  <2> HIDE DEF T, S
  <2>3. QED
    BY <1>1, <2>1, <2>2, TailInduction
<1>4. s \in Seq(S)
  BY DEF IsSequence
<1>5. Right(s)
  BY <1>3, <1>4
<1>6. QED
  BY <1>5 DEF Right

\* Of sequences that are flattened one holds what is chosen, the others hold
\* nothing of it: that one is what is chosen.
LEMMA ThoseOfParts ==
    ASSUME NEW parts, AreSequences(parts), NEW set, NEW j \in 1..Len(parts), ToSet(parts[j]) \subseteq set,
           \A i \in 1..Len(parts) : i # j => ToSet(parts[i]) \cap set = {}
    PROVE  Those(FlattenSeq(parts), set) = parts[j]
<1> DEFINE S == ToSet(parts)
           Only(p, k) == /\ ToSet(p[k]) \subseteq set
                         /\ \A i \in 1..Len(p) : i # k => ToSet(p[i]) \cap set = {}
           Right(p) == \A k \in 1..Len(p) : Only(p, k) => Those(FlattenSeq(p), set) = p[k]
           T == {p \in Seq(S) : Right(p)}
<1>0. \A q \in S : IsSequence(q)
  BY DEF AreSequences
<1>1. <<>> \in T
  OBVIOUS
<1>2. ASSUME NEW p \in Seq(S), p # <<>>, Right(Tail(p)) PROVE Right(p)
  <2> SUFFICES ASSUME NEW k \in 1..Len(p), Only(p, k) PROVE Those(FlattenSeq(p), set) = p[k]
    OBVIOUS
  <2> DEFINE h == Head(p)
             t == Tail(p)
             f == FlattenSeq(t)
  <2>1. AreSequences(p)
    <3>1. IsSequence(p) /\ ToSet(p) \subseteq S
      BY Narrow DEF ToSet
    <3>2. QED
      BY <1>0, <3>1 DEF AreSequences
  <2>2. /\ IsSequence(h) /\ AreSequences(t) /\ FlattenSeq(p) = h \o f
    BY <1>2, <2>1, Unrolled
  <2>3. /\ IsSequence(t) /\ Len(t) = Len(p) - 1 /\ Len(p) \in Nat /\ h = p[1]
        /\ \A i \in 1..Len(t) : t[i] = p[i + 1]
    BY <1>2, <2>1, HeadAndTail DEF AreSequences
  <2>4. IsSequence(f) /\ ToSet(f) = UNION {ToSet(q) : q \in ToSet(t)}
    BY <2>2, Flattened DEF AreSequences
  <2>5. Right(t)
    BY <1>2
  <2> HIDE DEF h, t, f
  <2>6. Those(FlattenSeq(p), set) = Those(h, set) \o Those(f, set)
    BY <2>2, <2>4, ThoseJoined
  <2>7. CASE k = 1
    <3>1. Those(h, set) = h
      BY <2>2, <2>3, <2>7, AllOrNone
    <3>2. ASSUME NEW i \in 1..Len(t) PROVE ToSet(t[i]) \cap set = {}
      <4>1. i + 1 \in 1..Len(p) /\ i + 1 # k /\ t[i] = p[i + 1]
        BY <2>3, <2>7
      <4>2. QED
        BY <4>1
    <3>3. ToSet(f) \cap set = {}
      <4>1. \A q \in ToSet(t) : \E i \in DOMAIN t : q = t[i]
        BY DEF ToSet
      <4>2. DOMAIN t = 1..Len(t)
        BY <2>3, Places1
      <4>3. QED
        BY <2>4, <3>2, <4>1, <4>2
    <3>4. Those(f, set) = <<>>
      BY <2>4, <3>3, AllOrNone
    <3>5. h \o <<>> = h
      BY <2>2, WithNothing
    <3>6. QED
      BY <2>3, <2>6, <2>7, <3>1, <3>4, <3>5
  <2>8. CASE k # 1
    <3>1. ToSet(h) \cap set = {}
      BY <2>3, <2>8
    <3>2. Those(h, set) = <<>>
      BY <2>2, <3>1, AllOrNone
    <3>3. k - 1 \in 1..Len(t) /\ t[k - 1] = p[k]
      <4>1. k - 1 \in 1..Len(t) /\ (k - 1) + 1 = k
        BY <2>3, <2>8
      <4>2. QED
        BY <2>3, <4>1
    <3>4. Only(t, k - 1)
      <4>1. ASSUME NEW i \in 1..Len(t), i # k - 1 PROVE ToSet(t[i]) \cap set = {}
        <5>1. i + 1 \in 1..Len(p) /\ i + 1 # k /\ t[i] = p[i + 1]
          BY <2>3, <4>1
        <5>2. QED
          BY <5>1
      <4>2. QED
        BY <3>3, <4>1
    <3>5. Those(f, set) = t[k - 1]
      BY <2>5, <3>3, <3>4 DEF f
    <3>6. IsSequence(p[k])
      BY <2>1, Places1 DEF AreSequences
    <3>7. <<>> \o p[k] = p[k]
      BY <3>6, WithNothing
    <3>8. QED
      BY <2>6, <3>2, <3>3, <3>5, <3>7
  <2>9. QED
    BY <2>7, <2>8
<1> HIDE DEF Right
<1>3. T = Seq(S)
  <2>1. \A q \in Seq(S) : q # <<>> /\ Tail(q) \in T => q \in T
    BY <1>2
  <2>2. T \in SUBSET Seq(S)
    OBVIOUS
  <2> HIDE DEF T, S
  <2>3. QED
    BY <1>1, <2>1, <2>2, TailInduction
<1>4. Right(parts)
  <2>1. parts \in Seq(S)
    BY DEF IsSequence, AreSequences
  <2>2. QED
    BY <1>3, <2>1
<1>5. QED
  BY <1>4 DEF Right

\* SetToSeq enumerates a finite set.
LEMMA Enumerated ==
    ASSUME NEW S, IsFiniteSet(S)
    PROVE  LET s == SetToSeq(S)
           IN  /\ IsSequence(s) /\ ToSet(s) = S
               /\ \A i, j \in 1..Len(s) : s[i] = s[j] => i = j
<1> DEFINE n == Cardinality(S)
           s == SetToSeq(S)
<1>1. n \in Nat /\ IsFiniteSet(1..n) /\ Cardinality(1..n) = n
  <2>1. n \in Nat
    BY FS_CardinalityType
  <2>2. QED
    BY <2>1, FS_Interval
<1>2. ExistsBijection(1..n, S)
  BY <1>1, FS_SameCardinalityBij
<1>3. \E f \in [1..n -> S] : IsInjective(f)
  BY <1>2 DEF ExistsBijection, Bijection, Injection
<1>4. s \in [1..n -> S] /\ IsInjective(s)
  BY <1>3 DEF SetToSeq
<1> HIDE DEF s
<1>5. s \in Surjection(1..n, S)
  <2>1. s \in Injection(1..n, S)
    BY <1>4 DEF Injection
  <2>2. QED
    BY <1>1, <2>1, FS_Injection
<1>6. IsSequence(s) /\ Len(s) = n /\ DOMAIN s = 1..n
  <2>1. s = [i \in 1..n |-> s[i]]
    BY <1>4
  <2> HIDE DEF n
  <2>2. QED
    BY <1>1, <1>4, <2>1, Built
<1>7. ToSet(s) = S
  <2> HIDE DEF n
  <2>1. QED
    BY <1>4, <1>5, <1>6 DEF ToSet, Surjection
<1>8. \A i, j \in 1..Len(s) : s[i] = s[j] => i = j
  BY <1>4, <1>6 DEF IsInjective
<1>9. QED
  BY <1>6, <1>7, <1>8 DEF s

-----------------------------------------------------------------------------
(* What is read, for any directory.                                        *)

\* A selection from a sequence holds what the sequence and the set share.
LEMMA ThoseHold ==
    ASSUME NEW S, NEW s \in Seq(S), NEW set
    PROVE  Those(s, set) \in Seq(S) /\ ToSet(Those(s, set)) = ToSet(s) \cap set
BY SelectionHolds DEF Those

\* Choosing keeps the elements that are in the set.
LEMMA Chosen == ASSUME NEW s, IsSequence(s), NEW set
                PROVE  IsSequence(Those(s, set)) /\ ToSet(Those(s, set)) = ToSet(s) \cap set
<1>1. Those(s, set) \in Seq(ToSet(s)) /\ ToSet(Those(s, set)) = ToSet(s) \cap set
  BY ThoseHold DEF IsSequence
<1>2. QED
  BY <1>1, Narrow

\* A set of resources keeps one resource of each identity.
LEMMA UniqueHolds ==
    ASSUME NEW S, NEW rs \in Seq(S)
    PROVE  /\ Unique(rs) \in Seq(S) /\ ToSet(Unique(rs)) \subseteq ToSet(rs)
           /\ \A r \in ToSet(rs) : \E q \in ToSet(Unique(rs)) : ID(q) = ID(r)
<1> DEFINE First(i) == ~\E j \in 1..(i - 1) : ID(rs[j]) = ID(rs[i])
           parts == [i \in DOMAIN rs |-> IF \E j \in 1..(i - 1) : ID(rs[j]) = ID(rs[i]) THEN <<>> ELSE <<rs[i]>>]
<1>1. DOMAIN rs = 1..Len(rs) /\ Len(rs) \in Nat /\ \A i \in 1..Len(rs) : rs[i] \in S
  OBVIOUS
<1>2. \A x \in S : <<x>> \in Seq(S) /\ ToSet(<<x>>) = {x}
  BY DEF ToSet
<1>3. <<>> \in Seq(S) /\ ToSet(<<>>) = {}
  BY DEF ToSet
<1>4. DOMAIN parts = 1..Len(rs) /\ \A i \in 1..Len(rs) : parts[i] = IF First(i) THEN <<rs[i]>> ELSE <<>>
  BY <1>1
<1>5. parts \in Seq(Seq(S))
  BY <1>1, <1>2, <1>3
<1> HIDE DEF parts, First
<1>6. FlattenSeq(parts) \in Seq(S) /\ ToSet(FlattenSeq(parts)) = UNION {ToSet(q) : q \in ToSet(parts)}
  BY <1>5, FlattenHolds
<1>7. Unique(rs) = FlattenSeq(parts)
  BY DEF Unique, parts
<1>8. ToSet(Unique(rs)) = {rs[i] : i \in {k \in 1..Len(rs) : First(k)}}
  <2>1. ToSet(parts) = {parts[i] : i \in 1..Len(rs)}
    BY <1>4 DEF ToSet
  <2>2. \A i \in 1..Len(rs) : ToSet(parts[i]) = IF First(i) THEN {rs[i]} ELSE {}
    BY <1>1, <1>2, <1>3, <1>4
  <2> DEFINE P == {ToSet(q) : q \in ToSet(parts)}
  <2>3. P = {ToSet(parts[i]) : i \in 1..Len(rs)}
    BY <2>1
  <2>4. ToSet(Unique(rs)) = UNION P
    BY <1>6, <1>7
  <2> HIDE DEF P
  <2>5. ASSUME NEW x \in UNION P PROVE \E i \in 1..Len(rs) : First(i) /\ x = rs[i]
    <3>1. PICK i \in 1..Len(rs) : x \in ToSet(parts[i])
      BY <2>3, <2>5
    <3>2. QED
      BY <2>2, <3>1
  <2>6. ASSUME NEW i \in 1..Len(rs), First(i) PROVE rs[i] \in UNION P
    <3>1. ToSet(parts[i]) \in P /\ rs[i] \in ToSet(parts[i])
      BY <2>2, <2>3, <2>6
    <3>2. QED
      BY <3>1
  <2>7. QED
    BY <2>4, <2>5, <2>6
<1>9. ASSUME NEW r \in ToSet(rs) PROVE \E q \in ToSet(Unique(rs)) : ID(q) = ID(r)
  <2> DEFINE Twins == {i \in 1..Len(rs) : ID(rs[i]) = ID(r)}
  <2>1. Twins \in SUBSET Nat /\ Twins # {}
    BY <1>1 DEF ToSet
  <2>2. PICK i \in Twins : \A j \in Twins : i <= j
    <3> HIDE DEF Twins
    <3>1. QED
      BY <2>1, LeastElement
  <2>3. ASSUME NEW j \in 1..(i - 1) PROVE ID(rs[j]) # ID(rs[i])
    BY <1>1, <2>2
  <2>4. First(i)
    BY <2>3 DEF First
  <2>5. QED
    BY <1>8, <2>2, <2>4
<1>10. ToSet(Unique(rs)) \subseteq ToSet(rs)
  BY <1>1, <1>8 DEF ToSet
<1>11. QED
  BY <1>6, <1>7, <1>9, <1>10

\* A get yields one object, of the version that was asked for, or none.
LEMMA VersionYields ==
    ASSUME NEW object, NEW version, NEW answer, answer = InVersion(object, version)
    PROVE  \/ answer.status = "error" /\ answer.objects = <<>>
           \/ answer.status = "ok" /\ answer.objects = <<object>> /\ object # Broken /\ object.version = version
BY DEF InVersion, Found, Failed

\* Where it has an object from: a file of its own, or a list.
GotFrom(dir, id, o) ==
    LET own  == IndividualFile(id)
        list == ListFile(RequestNamespace(id), id.type)
        named == ItemsNamed(dir[list], id.name)
    IN  \/ own \in DOMAIN dir /\ o = dir[own]
        \/ /\ list \in DOMAIN dir /\ dir[list] # Broken /\ named # <<>>
           /\ o = [Head(named) EXCEPT !.kind = dir[list].kind]

\* A get answers with nothing, or with one object in the version asked for, found in the directory.
LEMMA GetYields ==
    ASSUME NEW dir, NEW id, NEW answer, answer = Get(dir, id)
    PROVE  \/ answer.status \in {"notfound", "error"} /\ answer.objects = <<>>
           \/ \E o : /\ answer.status = "ok" /\ answer.objects = <<o>> /\ o # Broken /\ o.version = id.version
                    /\ id.name # None /\ GotFrom(dir, id, o)
<1> DEFINE own  == IndividualFile(id)
           list == ListFile(RequestNamespace(id), id.type)
           named == ItemsNamed(dir[list], id.name)
           first == [Head(named) EXCEPT !.kind = dir[list].kind]
<1>1. CASE id.name = None
  BY <1>1 DEF Get, Failed
<1>2. CASE id.name # None /\ own \in DOMAIN dir
  <2>1. answer = InVersion(dir[own], id.version)
    BY <1>2 DEF Get
  <2>2. QED
    BY <1>2, <2>1, VersionYields DEF GotFrom
<1>3. CASE id.name # None /\ own \notin DOMAIN dir /\ list \notin DOMAIN dir
  BY <1>3 DEF Get, NotFound
<1>4. CASE id.name # None /\ own \notin DOMAIN dir /\ list \in DOMAIN dir /\ dir[list] = Broken
  BY <1>4 DEF Get, Failed
<1>5. CASE id.name # None /\ own \notin DOMAIN dir /\ list \in DOMAIN dir /\ dir[list] # Broken /\ named = <<>>
  BY <1>5 DEF Get, NotFound
<1>6. CASE id.name # None /\ own \notin DOMAIN dir /\ list \in DOMAIN dir /\ dir[list] # Broken /\ named # <<>>
  <2>1. answer = InVersion(first, id.version)
    BY <1>6 DEF Get
  <2>2. QED
    BY <1>6, <2>1, VersionYields DEF GotFrom
<1>7. QED
  BY <1>1, <1>2, <1>3, <1>4, <1>5, <1>6

\* Of a directory it is an object like those of the directory.
LEMMA GetYieldsObject ==
    ASSUME NEW dir, IsDirectory(dir), NEW id, Get(dir, id).status = "ok"
    PROVE  \E o : Get(dir, id).objects = <<o>> /\ IsObject(o) /\ o.version = id.version /\ id.name # None
<1> DEFINE own  == IndividualFile(id)
           list == ListFile(RequestNamespace(id), id.type)
           named == ItemsNamed(dir[list], id.name)
<1>1. PICK o : /\ Get(dir, id).objects = <<o>> /\ o # Broken /\ o.version = id.version /\ id.name # None
               /\ \/ own \in DOMAIN dir /\ o = dir[own]
                  \/ /\ list \in DOMAIN dir /\ dir[list] # Broken /\ named # <<>>
                     /\ o = [Head(named) EXCEPT !.kind = dir[list].kind]
  <2> DEFINE answer == Get(dir, id)
  <2>1. answer.status \notin {"notfound", "error"}
    OBVIOUS
  <2> HIDE DEF answer
  <2>2. answer = Get(dir, id)
    BY DEF answer
  <2>3. \E o : /\ answer.objects = <<o>> /\ o # Broken /\ o.version = id.version /\ id.name # None
               /\ GotFrom(dir, id, o)
    BY <2>1, <2>2, GetYields
  <2>4. QED
    BY <2>2, <2>3 DEF GotFrom
<1>2. CASE own \in DOMAIN dir /\ o = dir[own]
  <2>1. own.name # None
    BY <1>1 DEF IndividualFile
  <2>2. "items" \notin DOMAIN dir[own] /\ \A x \in ToSet(ObjectsOf(dir[own])) : IsObject(x)
    BY <1>1, <1>2, <2>1 DEF IsDirectory
  <2>3. o \in ToSet(ObjectsOf(dir[own]))
    BY <1>2, <2>2 DEF ObjectsOf, ToSet
  <2>4. QED
    BY <1>1, <2>2, <2>3
<1>3. CASE /\ list \in DOMAIN dir /\ dir[list] # Broken /\ named # <<>>
           /\ o = [Head(named) EXCEPT !.kind = dir[list].kind]
  <2>1. list.name = None
    BY DEF ListFile
  <2>2. /\ "items" \in DOMAIN dir[list] /\ dir[list].items \in Seq(ToSet(dir[list].items))
        /\ \A x \in ToSet(ObjectsOf(dir[list])) : IsObject(x)
    BY <1>3, <2>1 DEF IsDirectory, IsSequence
  <2>3. named \in Seq(ToSet(dir[list].items)) /\ ToSet(named) \subseteq ToSet(dir[list].items)
    BY <2>2, ThoseHold DEF ItemsNamed
  <2>4. Head(named) \in ToSet(named)
    BY <1>3, <2>3 DEF ToSet
  <2>5. IsObject(Head(named))
    BY <2>2, <2>3, <2>4 DEF ObjectsOf
  <2>6. IsObject([Head(named) EXCEPT !.kind = dir[list].kind])
    BY <2>5 DEF IsObject
  <2>7. QED
    BY <1>1, <1>3, <2>6
<1>4. QED
  BY <1>1, <1>2, <1>3

\* What a read finds are resources of the answer's objects.
LEMMA ReadFinds ==
    ASSUME NEW type, NEW answer, IsSequence(answer.objects)
    PROVE  /\ IsSequence(Read1(type, answer).found)
           /\ ToSet(Read1(type, answer).found) = {[type |-> type, object |-> o] : o \in ToSet(answer.objects)}
<1> DEFINE objects == answer.objects
           found == [i \in DOMAIN objects |-> [type |-> type, object |-> objects[i]]]
<1>1. DOMAIN objects = 1..Len(objects) /\ Len(objects) \in Nat
  BY Places1
<1>2. Read1(type, answer).found = found
  BY DEF Read1
<1>3. ToSet(found) = {[type |-> type, object |-> o] : o \in ToSet(objects)}
  BY DEF ToSet
<1>4. found = [i \in 1..Len(objects) |-> found[i]]
  BY <1>1
<1> HIDE DEF found
<1>5. IsSequence(found)
  BY <1>1, <1>4, Built
<1>6. QED
  BY <1>2, <1>3, <1>5

-----------------------------------------------------------------------------
(* What a list answers.                                                    *)

\* There are finitely many namespaces with data.
LEMMA PlacesAreFinite ==
    ASSUME NEW dir, IsDirectory(dir)
    PROVE  /\ IsFiniteSet(NamespacesWithData(dir)) /\ Cardinality(NamespacesWithData(dir)) \in Nat
           /\ NamespacesWithData(dir) \in SUBSET Nat
<1> DEFINE N == {p.ns : p \in DOMAIN dir}
           ns == [p \in DOMAIN dir |-> p.ns]
<1>1. ns \in Surjection(DOMAIN dir, N)
  BY DEF Surjection
<1>2. IsFiniteSet(N)
  BY <1>1, FS_Surjection DEF ExistsSurjection, IsDirectory
<1> HIDE DEF N
<1>3. NamespacesWithData(dir) \subseteq N
  BY DEF NamespacesWithData, N
<1>4. IsFiniteSet(NamespacesWithData(dir))
  BY <1>2, <1>3, FS_Subset
<1>5. NamespacesWithData(dir) \in SUBSET Nat
  BY DEF NamespacesWithData, IsDirectory
<1>6. QED
  BY <1>4, <1>5, FS_CardinalityType

\* The contents of files are those of the directory.
LEMMA ContentsOf == ASSUME NEW dir, NEW files, IsSequence(files)
                    PROVE  /\ IsSequence(Contents(dir, files))
                           /\ ToSet(Contents(dir, files)) = {dir[f] : f \in ToSet(files)}
<1> DEFINE c == [i \in DOMAIN files |-> dir[files[i]]]
<1>1. DOMAIN files = 1..Len(files) /\ Len(files) \in Nat
  BY Places1
<1>2. ToSet(c) = {dir[f] : f \in ToSet(files)}
  BY DEF ToSet
<1>3. c = [i \in 1..Len(files) |-> c[i]]
  BY <1>1
<1>4. Contents(dir, files) = c
  BY DEF Contents
<1> HIDE DEF c
<1>5. IsSequence(c)
  BY <1>1, <1>3, Built
<1>6. QED
  BY <1>2, <1>4, <1>5

\* A finite set of numbers put in order is that set.
LEMMA InOrderHolds ==
    ASSUME NEW S \in SUBSET Nat, IsFiniteSet(S)
    PROVE  IsSequence(InOrder(S)) /\ ToSet(InOrder(S)) = S /\ DOMAIN InOrder(S) = 1..Cardinality(S)
<1> DEFINE D == 1..Cardinality(S)
           below(n) == {m \in S : m < n}
           rank(n) == Cardinality(below(n))
           place == [n \in S |-> rank(n) + 1]
           c == InOrder(S)
<1>1. Cardinality(S) \in Nat /\ IsFiniteSet(D) /\ Cardinality(D) = Cardinality(S)
  BY FS_CardinalityType, FS_Interval
<1>2. ASSUME NEW n \in S PROVE IsFiniteSet(below(n)) /\ rank(n) \in Nat /\ rank(n) < Cardinality(S)
  <2>1. below(n) \subseteq S /\ n \notin below(n)
    OBVIOUS
  <2> HIDE DEF below
  <2>2. IsFiniteSet(below(n)) /\ rank(n) <= Cardinality(S) /\ rank(n) # Cardinality(S)
    BY <2>1, FS_Subset
  <2>3. QED
    BY <1>1, <2>2, FS_CardinalityType
<1>3. ASSUME NEW m \in S, NEW n \in S, m < n PROVE rank(m) < rank(n)
  <2>1. below(m) \subseteq below(n) /\ m \in below(n) /\ m \notin below(m)
    <3>1. \A x \in S : x \in Nat
      OBVIOUS
    <3>2. \A x \in S : x < m => x < n
      BY <1>3, <3>1
    <3>3. ~(m < m)
      BY <3>1
    <3>4. QED
      BY <1>3, <3>2, <3>3
  <2> HIDE DEF below
  <2>2. rank(m) <= rank(n) /\ rank(m) # rank(n)
    BY <1>2, <2>1, FS_Subset
  <2>3. QED
    BY <1>2, <2>2
<1>4. c = [i \in D |-> CHOOSE n \in S : rank(n) = i - 1]
  BY DEF InOrder
<1> HIDE DEF rank, c, below
<1>5. \A m, n \in S : rank(m) = rank(n) => m = n
  BY <1>2, <1>3
<1>6. place \in Injection(S, D)
  <2>1. place \in [S -> D]
    BY <1>1, <1>2
  <2>2. \A m, n \in S : place[m] = place[n] => m = n
    BY <1>2, <1>5
  <2> HIDE DEF place, D
  <2>3. QED
    BY <2>1, <2>2 DEF Injection, IsInjective
<1>7. place \in Surjection(S, D)
  <2> HIDE DEF place, D
  <2>1. QED
    BY <1>1, <1>6, FS_Injection
<1>8. \A i \in D : \E n \in S : rank(n) = i - 1
  <2>1. ASSUME NEW i \in D PROVE \E n \in S : rank(n) = i - 1
    <3>1. PICK n \in S : place[n] = i
      <4> HIDE DEF place
      <4>1. QED
        BY <1>7 DEF Surjection
    <3>2. QED
      BY <1>2, <3>1
  <2>2. QED
    BY <2>1
<1>9. \A i \in D : c[i] \in S /\ rank(c[i]) = i - 1
  BY <1>4, <1>8
<1>10. DOMAIN c = D /\ c = [i \in D |-> c[i]]
  BY <1>4
<1>11. ASSUME NEW n \in S PROVE \E i \in D : c[i] = n
  <2>1. rank(n) + 1 \in D /\ (rank(n) + 1) - 1 = rank(n)
    BY <1>1, <1>2
  <2>2. QED
    BY <1>5, <1>9, <2>1
<1>12. ToSet(c) = S
  BY <1>9, <1>10, <1>11 DEF ToSet
<1>13. IsSequence(c)
  BY <1>1, <1>10, Built
<1>14. QED
  BY <1>10, <1>12, <1>13 DEF c

\* Places: the one asked for, or all.
LEMMA PlacesHold ==
    ASSUME NEW dir, IsDirectory(dir), NEW n
    PROVE  /\ IsSequence(Places(dir, n))
           /\ ToSet(Places(dir, n)) = IF n # None THEN {n} ELSE {None} \cup NamespacesWithData(dir)
<1> DEFINE all == NamespacesWithData(dir)
<1>1. IsFiniteSet(all) /\ all \in SUBSET Nat
  BY PlacesAreFinite
<1> HIDE DEF all
<1>2. IsSequence(InOrder(all)) /\ ToSet(InOrder(all)) = all
  BY <1>1, InOrderHolds
<1>3. IsSequence(<<None>> \o InOrder(all)) /\ ToSet(<<None>> \o InOrder(all)) = {None} \cup all
  BY <1>2, Singleton, Joined
<1>4. IsSequence(<<n>>) /\ ToSet(<<n>>) = {n}
  BY Singleton
<1>5. Places(dir, n) = IF n # None THEN <<n>> ELSE <<None>> \o InOrder(all)
  BY DEF Places, all
<1>6. QED
  BY <1>3, <1>4, <1>5 DEF all

\* The list files that are read: those of the type, at these places.
LEMMA ListFilesHold ==
    ASSUME NEW dir, IsDirectory(dir), NEW s
    PROVE  /\ IsSequence(ListFiles(dir, s))
           /\ ToSet(ListFiles(dir, s)) =
                  {p \in DOMAIN dir : p.type = s.type /\ p.name = None /\ p.ns \in ToSet(Places(dir, s.ns))}
<1> DEFINE places == Places(dir, s.ns)
           all == [i \in DOMAIN places |-> ListFile(places[i], s.type)]
           those == {p \in DOMAIN dir : p.type = s.type /\ p.name = None /\ p.ns \in ToSet(places)}
<1>1. IsSequence(places)
  BY PlacesHold
<1> HIDE DEF places
<1>2. DOMAIN places = 1..Len(places) /\ Len(places) \in Nat
  BY <1>1, Places1
<1>3. all = [i \in 1..Len(places) |-> all[i]]
  BY <1>2
<1>4. ToSet(all) = {ListFile(n, s.type) : n \in ToSet(places)}
  BY DEF ToSet
<1>5. ListFiles(dir, s) = Those(all, DOMAIN dir)
  BY DEF ListFiles, places
<1> HIDE DEF all
<1>6. IsSequence(all)
  BY <1>2, <1>3, Built
<1>7. ToSet(all) \cap DOMAIN dir = those
  <2>1. ASSUME NEW p \in ToSet(all) \cap DOMAIN dir PROVE p \in those
    BY <1>4, <2>1 DEF ListFile
  <2>2. ASSUME NEW p \in those PROVE p \in ToSet(all)
    <3>1. p = [ns |-> p.ns, type |-> p.type, name |-> p.name]
      BY DEF IsDirectory
    <3>2. p = ListFile(p.ns, s.type)
      BY <3>1 DEF ListFile
    <3>3. QED
      BY <1>4, <3>2
  <2>3. QED
    BY <2>1, <2>2
<1>8. QED
  BY <1>5, <1>6, <1>7, Chosen DEF places

\* The single files of a type in one place.
LEMMA IndividualFilesHold ==
    ASSUME NEW dir, IsDirectory(dir), NEW n, NEW type
    PROVE  /\ IsSequence(IndividualFiles(dir, n, type))
           /\ ToSet(IndividualFiles(dir, n, type)) =
                  {p \in DOMAIN dir : p.ns = n /\ p.type = type /\ p.name # None}
<1> DEFINE S == {q \in DOMAIN dir : q.ns = n /\ q.type = type}
           N == {p.name : p \in S}
           name == [p \in S |-> p.name]
           M == N \ {None}
           files == [i \in 1..Cardinality(M) |-> [ns |-> n, type |-> type, name |-> InOrder(M)[i]]]
           those == {p \in DOMAIN dir : p.ns = n /\ p.type = type /\ p.name # None}
<1>1. name \in Surjection(S, N)
  BY DEF Surjection
<1>2. S \subseteq DOMAIN dir
  OBVIOUS
<1>3. IsFiniteSet(S)
  <2> HIDE DEF S
  <2>1. QED
    BY <1>2, FS_Subset DEF IsDirectory
<1>4. IsFiniteSet(N)
  <2> HIDE DEF N, name, S
  <2>1. QED
    BY <1>1, <1>3, FS_Surjection
<1>5. M \in SUBSET Nat
  BY DEF IsDirectory
<1>6. M = {p.name : p \in those}
  OBVIOUS
<1>7. IndividualFiles(dir, n, type) = files
  BY DEF IndividualFiles
<1> HIDE DEF N
<1>8. IsFiniteSet(M)
  BY <1>4, FS_Subset
<1> HIDE DEF M, those
<1>9. /\ IsSequence(InOrder(M)) /\ ToSet(InOrder(M)) = M /\ DOMAIN InOrder(M) = 1..Cardinality(M)
      /\ Cardinality(M) \in Nat
  BY <1>5, <1>8, InOrderHolds, FS_CardinalityType
<1>10. files = [i \in 1..Cardinality(M) |-> files[i]]
  OBVIOUS
<1>11. ToSet(files) = {[ns |-> n, type |-> type, name |-> m] : m \in M}
  BY <1>9 DEF ToSet
<1>12. {[ns |-> n, type |-> type, name |-> m] : m \in M} = those
  <2>1. \A p \in those : p = [ns |-> n, type |-> type, name |-> p.name] /\ p \in DOMAIN dir
    BY DEF those, IsDirectory
  <2>2. QED
    BY <1>6, <2>1
<1> HIDE DEF files
<1>13. IsSequence(files)
  BY <1>9, <1>10, Built
<1>14. QED
  BY <1>7, <1>11, <1>12, <1>13 DEF those

Lists(dir, s) == Contents(dir, ListFiles(dir, s))
Singles(dir, s) ==
    FlattenSeq([i \in DOMAIN Places(dir, s.ns) |->
                   Contents(dir, IndividualFiles(dir, Places(dir, s.ns)[i], s.type))])
ItemsOf(lists) == FlattenSeq([i \in DOMAIN lists |-> lists[i].items])

\* What a list reads: the list files where it looks, or the single files.
LEMMA ListReads ==
    ASSUME NEW dir, IsDirectory(dir), NEW s
    PROVE  /\ IsSequence(Lists(dir, s)) /\ IsSequence(Singles(dir, s))
           /\ ToSet(Lists(dir, s)) = {dir[p] : p \in {q \in LookedAt(dir, s) : q.name = None}}
           /\ ToSet(Singles(dir, s)) = {dir[p] : p \in {q \in LookedAt(dir, s) : q.name # None}}
<1> DEFINE places == Places(dir, s.ns)
           part(n) == Contents(dir, IndividualFiles(dir, n, s.type))
           parts == [i \in DOMAIN places |-> part(places[i])]
<1>1. IsSequence(Lists(dir, s)) /\ ToSet(Lists(dir, s)) = {dir[p] : p \in ToSet(ListFiles(dir, s))}
  BY ListFilesHold, ContentsOf DEF Lists
<1>2. ToSet(ListFiles(dir, s)) = {q \in LookedAt(dir, s) : q.name = None}
  BY ListFilesHold DEF LookedAt
<1>3. \A n : /\ IsSequence(part(n))
             /\ ToSet(part(n)) = {dir[p] : p \in {q \in DOMAIN dir : q.ns = n /\ q.type = s.type /\ q.name # None}}
  BY IndividualFilesHold, ContentsOf
<1>4. IsSequence(places)
  BY PlacesHold
<1>5. Singles(dir, s) = FlattenSeq(parts)
  BY DEF Singles
<1>6. \A p \in DOMAIN dir : p \in LookedAt(dir, s) <=> p.type = s.type /\ p.ns \in ToSet(places)
  BY DEF LookedAt
<1> HIDE DEF places
<1>7. DOMAIN places = 1..Len(places) /\ Len(places) \in Nat
  BY <1>4, Places1
<1>8. ToSet(parts) = {part(n) : n \in ToSet(places)}
  BY DEF ToSet
<1>9. parts = [i \in 1..Len(places) |-> parts[i]]
  BY <1>7
<1> HIDE DEF parts
<1>10. IsSequence(parts)
  BY <1>7, <1>9, Built
<1>11. /\ IsSequence(Singles(dir, s))
       /\ ToSet(Singles(dir, s)) = UNION {ToSet(q) : q \in ToSet(parts)}
  BY <1>3, <1>5, <1>8, <1>10, Flattened
<1>12. ToSet(Singles(dir, s)) = UNION {ToSet(part(n)) : n \in ToSet(places)}
  BY <1>8, <1>11
<1>13. ToSet(Singles(dir, s)) = {dir[p] : p \in {q \in LookedAt(dir, s) : q.name # None}}
  <2> HIDE DEF part
  <2>1. ASSUME NEW x \in ToSet(Singles(dir, s))
        PROVE  \E p \in LookedAt(dir, s) : p.name # None /\ x = dir[p]
    <3>1. PICK n \in ToSet(places) : x \in ToSet(part(n))
      BY <1>12, <2>1
    <3>2. PICK p \in DOMAIN dir : x = dir[p] /\ p.ns = n /\ p.type = s.type /\ p.name # None
      BY <1>3, <3>1
    <3>3. QED
      BY <1>6, <3>2
  <2>2. ASSUME NEW p \in LookedAt(dir, s), p.name # None PROVE dir[p] \in ToSet(Singles(dir, s))
    <3>1. p \in DOMAIN dir /\ p.type = s.type /\ p.ns \in ToSet(places)
      BY <1>6 DEF LookedAt
    <3>2. dir[p] \in ToSet(part(p.ns))
      BY <1>3, <2>2, <3>1
    <3>3. QED
      BY <1>12, <3>1, <3>2
  <2>3. QED
    BY <2>1, <2>2
<1>14. QED
  BY <1>1, <1>2, <1>11, <1>13

\* The items of the list files that can be read.
LEMMA ItemsHold ==
    ASSUME NEW dir, IsDirectory(dir), NEW s, Broken \notin ToSet(Lists(dir, s))
    PROVE  /\ IsSequence(ItemsOf(Lists(dir, s)))
           /\ ToSet(ItemsOf(Lists(dir, s))) = UNION {ToSet(l.items) : l \in ToSet(Lists(dir, s))}
<1> DEFINE lists == Lists(dir, s)
           listed == [i \in DOMAIN lists |-> lists[i].items]
<1>1. IsSequence(lists) /\ \A l \in ToSet(lists) : \E p \in DOMAIN dir : p.name = None /\ l = dir[p]
  BY ListReads DEF LookedAt
<1>2. \A l \in ToSet(lists) : IsSequence(l.items)
  BY <1>1 DEF IsDirectory
<1>3. ItemsOf(lists) = FlattenSeq(listed)
  BY DEF ItemsOf
<1> HIDE DEF lists
<1>4. DOMAIN lists = 1..Len(lists) /\ Len(lists) \in Nat /\ \A i \in 1..Len(lists) : lists[i] \in ToSet(lists)
  BY <1>1, Places1
<1>5. ToSet(listed) = {l.items : l \in ToSet(lists)}
  BY DEF ToSet
<1>6. listed = [i \in 1..Len(lists) |-> listed[i]]
  BY <1>4
<1> HIDE DEF listed
<1>7. IsSequence(listed)
  BY <1>4, <1>6, Built
<1>8. IsSequence(FlattenSeq(listed)) /\ ToSet(FlattenSeq(listed)) = UNION {ToSet(q) : q \in ToSet(listed)}
  BY <1>2, <1>5, <1>7, Flattened
<1>9. QED
  BY <1>3, <1>5, <1>8 DEF lists

\* An object that a list answers with lies where it looks.
LiesIn(dir, s, o) == \E p \in LookedAt(dir, s) : dir[p] # Broken /\ o \in ToSet(ObjectsOf(dir[p]))

\* A list answers with what its selector selects, but for namespaces.
LEMMA ListYields ==
    ASSUME NEW dir, IsDirectory(dir), NEW s
    PROVE  /\ List(dir, s).status \in {"ok", "error"}
           /\ IsSequence(List(dir, s).objects) /\ \A o \in ToSet(List(dir, s).objects) : IsObject(o)
           /\ s.type # Namespaces =>
                 /\ \A o \in ToSet(List(dir, s).objects) : Selects(s, o) /\ LiesIn(dir, s, o)
                 /\ List(dir, s).status = "ok" => <<s.type, s.version>> \in DOMAIN Discovery
<1> DEFINE lists == Lists(dir, s)
           own == Singles(dir, s)
           Right(answer) == /\ answer.status \in {"ok", "error"} /\ IsSequence(answer.objects)
                            /\ \A o \in ToSet(answer.objects) : Selects(s, o) /\ LiesIn(dir, s, o)
<1>1. Right(Failed) /\ Right(Found(<<>>))
  BY Nothing1 DEF Failed, Found
<1>2. ASSUME NEW first, NEW objects, IsSequence(objects), \A o \in ToSet(objects) : LiesIn(dir, s, o)
      PROVE  Right(Checked(first, objects, s))
  <2> DEFINE some == {o \in ToSet(objects) : Selects(s, o)}
  <2>1. IsSequence(Those(objects, some)) /\ ToSet(Those(objects, some)) = ToSet(objects) \cap some
    BY <1>2, Chosen
  <2>2. Right(Found(Those(objects, some)))
    BY <1>2, <2>1 DEF Found
  <2>3. Checked(first, objects, s) \in {Found(Those(objects, some)), Failed}
    BY DEF Checked
  <2>4. QED
    BY <1>1, <2>2, <2>3
<1>3. Broken \notin ToSet(own) => IsSequence(own) /\ \A o \in ToSet(own) : LiesIn(dir, s, o)
  <2>1. ASSUME Broken \notin ToSet(own), NEW p \in LookedAt(dir, s), p.name # None PROVE LiesIn(dir, s, dir[p])
    <3>1. dir[p] # Broken /\ p \in DOMAIN dir
      BY <2>1, ListReads DEF LookedAt
    <3>2. ObjectsOf(dir[p]) = <<dir[p]>>
      BY <2>1, <3>1 DEF IsDirectory, ObjectsOf
    <3>3. QED
      BY <3>1, <3>2, Singleton DEF LiesIn
  <2>2. QED
    BY <2>1, ListReads
<1>4. Broken \notin ToSet(lists) => IsSequence(ItemsOf(lists)) /\ \A o \in ToSet(ItemsOf(lists)) : LiesIn(dir, s, o)
  <2>1. ASSUME Broken \notin ToSet(lists), NEW p \in LookedAt(dir, s), p.name = None, NEW o \in ToSet(dir[p].items)
        PROVE  LiesIn(dir, s, o)
    <3>1. dir[p] # Broken /\ p \in DOMAIN dir
      BY <2>1, ListReads DEF LookedAt
    <3>2. ObjectsOf(dir[p]) = dir[p].items
      BY <2>1, <3>1 DEF IsDirectory, ObjectsOf
    <3>3. QED
      BY <2>1, <3>1, <3>2 DEF LiesIn
  <2>2. QED
    BY <2>1, ListReads, ItemsHold
<1>5. CASE s.type = Namespaces
  <2> DEFINE found == Contents(dir, NamespaceFiles(dir))
             all == [i \in 1..Cardinality(NamespacesWithData(dir)) |->
                        IndividualFile([type |-> Namespaces, name |-> InOrder(NamespacesWithData(dir))[i]])]
  <2>1. IsSequence(all)
    <3>1. all = [i \in 1..Cardinality(NamespacesWithData(dir)) |-> all[i]]
      OBVIOUS
    <3> HIDE DEF all
    <3>2. QED
      BY <3>1, PlacesAreFinite, Built
  <2>2. \A p \in ToSet(all) : p.name # None
    <3>1. /\ ToSet(InOrder(NamespacesWithData(dir))) = NamespacesWithData(dir)
          /\ DOMAIN InOrder(NamespacesWithData(dir)) = 1..Cardinality(NamespacesWithData(dir))
      BY PlacesAreFinite, InOrderHolds
    <3>2. None \notin NamespacesWithData(dir)
      BY DEF NamespacesWithData
    <3>3. QED
      BY <3>1, <3>2 DEF ToSet, IndividualFile
  <2>3. NamespaceFiles(dir) = Those(all, DOMAIN dir)
    BY DEF NamespaceFiles
  <2> HIDE DEF all
  <2>4. /\ IsSequence(found)
        /\ \A x \in ToSet(found) : \E p \in DOMAIN dir : p.name # None /\ x = dir[p]
    BY <2>1, <2>2, <2>3, Chosen, ContentsOf
  <2>5. ASSUME NEW p \in DOMAIN dir, p.name # None, dir[p] # Broken PROVE IsObject(dir[p])
    <3>1. ObjectsOf(dir[p]) = <<dir[p]>>
      BY <2>5 DEF IsDirectory, ObjectsOf
    <3>2. QED
      BY <2>5, <3>1, Singleton DEF IsDirectory
  <2>6. List(dir, s) = Failed \/ (Broken \notin ToSet(found) /\ List(dir, s) = Found(found))
    BY <1>5 DEF List, ListNamespaces
  <2> HIDE DEF found
  <2>7. Broken \notin ToSet(found) => \A x \in ToSet(found) : IsObject(x)
    BY <2>4, <2>5
  <2>8. QED
    BY <1>5, <2>4, <2>6, <2>7, Nothing1 DEF Failed, Found
<1>6. CASE s.type # Namespaces
  <2>1. /\ \/ List(dir, s) \in {Failed, Found(<<>>)}
           \/ Broken \notin ToSet(own) /\ List(dir, s) = Checked(Head(own), own, s)
           \/ Broken \notin ToSet(lists) /\ List(dir, s) = Checked(Head(lists), ItemsOf(lists), s)
        /\ <<s.type, s.version>> \notin DOMAIN Discovery => List(dir, s) = Failed
    BY <1>6 DEF List, Lists, Singles, ItemsOf
  <2>2. Right(List(dir, s))
    <3> HIDE DEF lists, own, Right
    <3>1. QED
      BY <1>1, <1>2, <1>3, <1>4, <2>1
  <2>3. Failed.status # "ok"
    BY DEF Failed
  <2>4. \A o : LiesIn(dir, s, o) => IsObject(o)
    BY DEF LiesIn, LookedAt, IsDirectory
  <2>5. QED
    BY <2>1, <2>2, <2>3, <2>4
<1>7. QED
  BY <1>5, <1>6

\* If there are only list files where a list looks, all of them good, it
\* answers with all that it selects in them.
LEMMA ListFinds ==
    ASSUME NEW dir, IsDirectory(dir), NEW s, s.type # Namespaces,
           <<s.type, s.version>> \in DOMAIN Discovery,
           \A p \in LookedAt(dir, s) :
               /\ p.name = None /\ dir[p] # Broken
               /\ dir[p].kind = Discovery[<<s.type, s.version>>] /\ dir[p].version = s.version
    PROVE  /\ List(dir, s).status = "ok"
           /\ \A p \in LookedAt(dir, s) : \A o \in ToSet(dir[p].items) :
                 Selects(s, o) => o \in ToSet(List(dir, s).objects)
<1> DEFINE lists == Lists(dir, s)
           own == Singles(dir, s)
           items == ItemsOf(lists)
           some == {o \in ToSet(items) : Selects(s, o)}
<1>1. /\ IsSequence(lists) /\ IsSequence(own)
      /\ ToSet(lists) = {dir[p] : p \in LookedAt(dir, s)} /\ ToSet(own) = {}
  BY ListReads
<1>2. Broken \notin ToSet(lists)
  BY <1>1
<1>3. own = <<>>
  <2>1. own \in Seq(ToSet(own))
    BY <1>1 DEF IsSequence
  <2> HIDE DEF own
  <2>2. QED
    BY <1>1, <2>1
<1>4. CASE lists = <<>>
  <2>1. List(dir, s) = Found(<<>>)
    BY <1>2, <1>3, <1>4, Nothing1 DEF List, Lists, Singles
  <2>2. LookedAt(dir, s) = {}
    BY <1>1, <1>4, Nothing1
  <2>3. QED
    BY <2>1, <2>2 DEF Found
<1>5. CASE lists # <<>>
  <2>1. Head(lists) \in ToSet(lists)
    <3> HIDE DEF lists
    <3>1. DOMAIN lists = 1..Len(lists) /\ Len(lists) \in Nat /\ lists \in Seq(ToSet(lists))
      BY <1>1, Places1 DEF IsSequence
    <3>2. QED
      BY <1>5, <3>1 DEF ToSet
  <2>2. Head(lists).kind = Discovery[<<s.type, s.version>>] /\ Head(lists).version = s.version
    BY <1>1, <2>1
  <2>3. List(dir, s) = Checked(Head(lists), items, s)
    BY <1>2, <1>5 DEF List, Lists, ItemsOf
  <2>4. Checked(Head(lists), items, s) = Found(Those(items, some))
    BY <2>2 DEF Checked
  <2>5. IsSequence(items) /\ ToSet(items) = UNION {ToSet(l.items) : l \in ToSet(lists)}
    BY <1>2, ItemsHold
  <2>6. ToSet(Those(items, some)) = some
    <3> HIDE DEF items
    <3>1. QED
      BY <2>5, Chosen
  <2>7. List(dir, s).status = "ok" /\ ToSet(List(dir, s).objects) = some
    BY <2>3, <2>4, <2>6 DEF Found
  <2>8. QED
    BY <1>1, <2>5, <2>7
<1>6. QED
  BY <1>4, <1>5

\* Where it looks there is a list file, so that single files are not read.
HasLists(dir, s) == \E p \in LookedAt(dir, s) : p.name = None

\* What a list has that selects everything: all that is in the list files where
\* it looks, or else in the single files.
LEMMA ListHas ==
    ASSUME NEW dir, IsDirectory(dir), NEW s, s.type # Namespaces, s.labels = {}, s.without = {},
           List(dir, s).status = "ok"
    PROVE  /\ ToSet(List(dir, s).objects) =
                  UNION {ToSet(ObjectsOf(dir[p])) : p \in {q \in LookedAt(dir, s) : q.name = None <=> HasLists(dir, s)}}
           /\ \A p \in LookedAt(dir, s) : (p.name = None <=> HasLists(dir, s)) => dir[p] # Broken
           /\ HasLists(dir, s) => \E p \in LookedAt(dir, s) : p.name = None /\ dir[p].kind = Discovery[<<s.type, s.version>>]
<1> DEFINE lists == Lists(dir, s)
           own == Singles(dir, s)
           items == ItemsOf(lists)
<1>1. /\ IsSequence(lists) /\ ToSet(lists) = {dir[p] : p \in {q \in LookedAt(dir, s) : q.name = None}}
      /\ IsSequence(own) /\ ToSet(own) = {dir[p] : p \in {q \in LookedAt(dir, s) : q.name # None}}
  BY ListReads
<1>2. /\ Broken \notin ToSet(lists)
      /\ \/ lists # <<>> /\ List(dir, s) = Checked(Head(lists), items, s)
         \/ lists = <<>> /\ own = <<>> /\ List(dir, s) = Found(<<>>)
         \/ lists = <<>> /\ Broken \notin ToSet(own) /\ own # <<>> /\ List(dir, s) = Checked(Head(own), own, s)
  <2>1. List(dir, s) # Failed
    BY DEF Failed
  <2>2. QED
    BY <2>1 DEF List, Lists, Singles, ItemsOf
<1>3. ASSUME NEW first, NEW objects, IsSequence(objects), List(dir, s) = Checked(first, objects, s)
      PROVE  ToSet(List(dir, s).objects) = ToSet(objects) /\ first.kind = Discovery[<<s.type, s.version>>]
  <2> DEFINE some == {o \in ToSet(objects) : Selects(s, o)}
  <2>1. /\ List(dir, s).objects = Those(objects, some)
        /\ first.kind = Discovery[<<s.type, s.version>>]
    <3>1. Checked(first, objects, s) # Failed
      BY <1>3 DEF Failed
    <3>2. QED
      BY <1>3, <3>1 DEF Checked, Found
  <2>2. some = ToSet(objects)
    BY DEF Selects
  <2>3. ToSet(Those(objects, some)) = ToSet(objects) \cap some
    BY <1>3, Chosen
  <2>4. QED
    BY <2>1, <2>2, <2>3
<1>4. \A p \in DOMAIN dir : dir[p] # Broken =>
          /\ p.name = None => ObjectsOf(dir[p]) = dir[p].items
          /\ p.name # None => ToSet(ObjectsOf(dir[p])) = {dir[p]}
  BY Singleton DEF IsDirectory, ObjectsOf
<1>5. \A p \in LookedAt(dir, s) : p \in DOMAIN dir
  BY DEF LookedAt
<1>6. lists = <<>> <=> ~HasLists(dir, s)
  <2> HIDE DEF lists
  <2>1. lists = <<>> <=> ToSet(lists) = {}
    BY <1>1, Nothing1, HeadAndTail
  <2>2. ToSet(lists) = {} <=> ~HasLists(dir, s)
    <3>1. ASSUME HasLists(dir, s) PROVE ToSet(lists) # {}
      BY <1>1, <3>1 DEF HasLists
    <3>2. ASSUME ~HasLists(dir, s) PROVE ToSet(lists) = {}
      BY <1>1, <3>2 DEF HasLists
    <3>3. QED
      BY <3>1, <3>2
  <2>3. QED
    BY <2>1, <2>2
<1>7. CASE HasLists(dir, s)
  <2>1. lists # <<>> /\ List(dir, s) = Checked(Head(lists), items, s)
    BY <1>2, <1>6, <1>7
  <2>2. IsSequence(items) /\ ToSet(items) = UNION {ToSet(l.items) : l \in ToSet(lists)}
    BY <1>2, ItemsHold
  <2>3. ToSet(List(dir, s).objects) = ToSet(items) /\ Head(lists).kind = Discovery[<<s.type, s.version>>]
    <3> HIDE DEF items, lists
    <3>1. QED
      BY <1>3, <2>1, <2>2
  <2>4. Head(lists) \in ToSet(lists)
    <3> HIDE DEF lists
    <3>1. QED
      BY <1>1, <2>1, HeadAndTail
  <2> HIDE DEF items, lists
  <2>5. \A p \in LookedAt(dir, s) : p.name = None => dir[p] # Broken /\ ToSet(ObjectsOf(dir[p])) = ToSet(dir[p].items)
    BY <1>1, <1>2, <1>4, <1>5
  <2>6. UNION {ToSet(l.items) : l \in ToSet(lists)} =
            UNION {ToSet(ObjectsOf(dir[p])) : p \in {q \in LookedAt(dir, s) : q.name = None}}
    BY <1>1, <2>5
  <2>7. QED
    BY <1>1, <1>7, <2>2, <2>3, <2>4, <2>5, <2>6
<1>8. CASE ~HasLists(dir, s)
  <2>1. ToSet(List(dir, s).objects) = ToSet(own) /\ Broken \notin ToSet(own)
    <3>1. CASE own = <<>>
      <4>1. List(dir, s).objects = <<>>
        BY <1>2, <1>6, <1>8, <3>1 DEF Found
      <4>2. QED
        BY <3>1, <4>1, Nothing1
    <3>2. CASE own # <<>>
      <4>1. Broken \notin ToSet(own) /\ List(dir, s) = Checked(Head(own), own, s)
        BY <1>2, <1>6, <1>8, <3>2
      <4> HIDE DEF own
      <4>2. QED
        BY <1>1, <1>3, <4>1
    <3>3. QED
      BY <3>1, <3>2
  <2> HIDE DEF own
  <2>2. \A p \in LookedAt(dir, s) : p.name # None => dir[p] # Broken /\ ToSet(ObjectsOf(dir[p])) = {dir[p]}
    BY <1>1, <1>4, <1>5, <2>1
  <2>3. ToSet(own) = UNION {ToSet(ObjectsOf(dir[p])) : p \in {q \in LookedAt(dir, s) : q.name # None}}
    BY <1>1, <2>2
  <2>4. QED
    BY <1>8, <2>1, <2>2, <2>3
<1>9. QED
  BY <1>7, <1>8

\* Where files are well kept, and in one place not both a list and single files,
\* a get finds what a list does.
LEMMA ListAnswersGet ==
    ASSUME NEW dir, IsDirectory(dir), NEW s, s.type # Namespaces, s.labels = {}, s.without = {},
           List(dir, s).status = "ok", IsWellKept(dir, s),
           NEW id, id = [type |-> s.type, version |-> s.version, ns |-> id.ns, name |-> id.name], id.name # None,
           id.ns \in ToSet(Places(dir, s.ns)), \A p \in LookedAt(dir, s) : p.ns = id.ns,
           \A p, q \in LookedAt(dir, s) : p.name = None => q.name = None
    PROVE  ToSet(Get(dir, id).objects) = {o \in ToSet(List(dir, s).objects) : o.name = id.name}
<1> DEFINE own == IndividualFile(id)
           list == ListFile(RequestNamespace(id), id.type)
           named == ItemsNamed(dir[list], id.name)
<1>1. /\ id.type = s.type /\ id.version = s.version
      /\ own = [ns |-> id.ns, type |-> s.type, name |-> id.name]
      /\ list = [ns |-> id.ns, type |-> s.type, name |-> None]
  <2>1. id.type = s.type /\ id.version = s.version
    OBVIOUS
  <2>2. QED
    BY <2>1 DEF IndividualFile, ListFile, RequestNamespace
<1>2. /\ ToSet(List(dir, s).objects) =
             UNION {ToSet(ObjectsOf(dir[p])) : p \in {q \in LookedAt(dir, s) : q.name = None <=> HasLists(dir, s)}}
      /\ \A p \in LookedAt(dir, s) : (p.name = None <=> HasLists(dir, s)) => dir[p] # Broken
  BY ListHas
<1>3. \A p \in LookedAt(dir, s) : p = [ns |-> id.ns, type |-> s.type, name |-> p.name] /\ p \in DOMAIN dir
  BY DEF LookedAt, IsDirectory
<1>4. /\ own \in DOMAIN dir => own \in LookedAt(dir, s)
      /\ list \in DOMAIN dir => list \in LookedAt(dir, s)
  BY <1>1 DEF LookedAt
<1>5. \A p \in LookedAt(dir, s) : dir[p] # Broken =>
          \A x \in {dir[p]} \cup ToSet(ObjectsOf(dir[p])) :
              x.kind = Discovery[<<s.type, s.version>>] /\ x.version = s.version
  BY DEF IsWellKept, AsListed
<1> HIDE DEF own, list
<1>6. CASE HasLists(dir, s)
  <2>1. list \in LookedAt(dir, s) /\ \A p \in LookedAt(dir, s) : p = list
    BY <1>1, <1>3, <1>6 DEF HasLists
  <2>2. own \notin DOMAIN dir /\ list \in DOMAIN dir /\ dir[list] # Broken /\ list.name = None
    BY <1>1, <1>2, <1>3, <1>4, <1>6, <2>1
  <2>3. /\ ObjectsOf(dir[list]) = dir[list].items /\ IsSequence(dir[list].items)
        /\ \A o \in ToSet(dir[list].items) : IsObject(o)
    BY <2>2 DEF IsDirectory, ObjectsOf
  <2>4. ToSet(List(dir, s).objects) = ToSet(dir[list].items)
    BY <1>2, <1>6, <2>1, <2>2, <2>3
  <2>5. \A o, q \in ToSet(dir[list].items) : o.name = q.name => o = q
    BY <2>1, <2>2 DEF IsWellKept
  <2> DEFINE some == {o \in ToSet(dir[list].items) : o.name = id.name}
  <2>6. IsSequence(named) /\ ToSet(named) = some
    <3>1. named = Those(dir[list].items, some)
      BY DEF ItemsNamed
    <3>2. QED
      BY <2>3, <3>1, Chosen
  <2> HIDE DEF some, named
  <2>7. CASE named = <<>>
    <3>1. Get(dir, id).objects = <<>>
      BY <2>2, <2>7 DEF Get, NotFound, own, list, named
    <3>2. QED
      BY <2>4, <2>6, <2>7, <3>1, Nothing1 DEF some
  <2>8. CASE named # <<>>
    <3> DEFINE h == Head(named)
    <3>1. h \in some
      BY <2>6, <2>8, HeadAndTail
    <3> HIDE DEF h
    <3>2. h \in ToSet(dir[list].items) /\ some = {h} /\ IsObject(h)
      BY <2>3, <2>5, <3>1 DEF some
    <3>3. h.kind = dir[list].kind /\ h.version = s.version
      BY <1>5, <2>1, <2>2, <2>3, <3>2
    <3>4. [h EXCEPT !.kind = dir[list].kind] = h /\ h # Broken
      BY <3>2, <3>3 DEF IsObject, Broken
    <3>5. Get(dir, id) = InVersion([h EXCEPT !.kind = dir[list].kind], id.version)
      BY <2>2, <2>8 DEF Get, own, list, named, h
    <3>6. Get(dir, id).objects = <<h>>
      BY <1>1, <3>3, <3>4, <3>5 DEF InVersion, Found
    <3>7. QED
      BY <2>4, <3>2, <3>6, Singleton DEF some
  <2>9. QED
    BY <2>7, <2>8
<1>7. CASE ~HasLists(dir, s)
  <2>1. list \notin DOMAIN dir /\ \A p \in LookedAt(dir, s) : p.name # None
    BY <1>1, <1>4, <1>7 DEF HasLists
  <2>2. \A p \in LookedAt(dir, s) : dir[p] # Broken /\ ToSet(ObjectsOf(dir[p])) = {dir[p]} /\ dir[p].name = p.name
    BY <1>2, <1>3, <1>7, <2>1, Singleton DEF IsDirectory, ObjectsOf, IsWellKept
  <2>3. ToSet(List(dir, s).objects) = {dir[p] : p \in LookedAt(dir, s)}
    <3>1. {q \in LookedAt(dir, s) : q.name = None <=> HasLists(dir, s)} = LookedAt(dir, s)
      BY <1>7, <2>1
    <3>2. UNION {ToSet(ObjectsOf(dir[p])) : p \in LookedAt(dir, s)} = {dir[p] : p \in LookedAt(dir, s)}
      BY <2>2
    <3>3. QED
      BY <1>2, <3>1, <3>2
  <2>4. CASE own \in DOMAIN dir
    <3>1. own \in LookedAt(dir, s) /\ dir[own] # Broken /\ dir[own].version = s.version /\ own.name = id.name
      BY <1>1, <1>4, <1>5, <2>2, <2>4
    <3>2. Get(dir, id).objects = <<dir[own]>>
      BY <1>1, <2>4, <3>1 DEF Get, own, InVersion, Found
    <3>3. \A p \in LookedAt(dir, s) : dir[p].name = id.name <=> p = own
      BY <1>1, <1>3, <2>2, <3>1
    <3>4. QED
      BY <2>3, <3>1, <3>2, <3>3, Singleton
  <2>5. CASE own \notin DOMAIN dir
    <3>1. Get(dir, id).objects = <<>>
      BY <2>1, <2>5 DEF Get, own, list, NotFound
    <3>2. \A p \in LookedAt(dir, s) : dir[p].name # id.name
      BY <1>1, <1>3, <2>2, <2>5
    <3>3. QED
      BY <2>3, <3>1, <3>2, Nothing1
  <2>6. QED
    BY <2>4, <2>5
<1>8. QED
  BY <1>6, <1>7

-----------------------------------------------------------------------------
(* What a list of resources makes read.                                    *)

\* An answer without success has no objects.
LEMMA GetAnswers ==
    ASSUME NEW dir, NEW id
    PROVE  /\ IsSequence(Get(dir, id).objects)
           /\ Get(dir, id).status # "ok" => Get(dir, id).objects = <<>>
<1> DEFINE answer == Get(dir, id)
<1>1. answer.objects = <<>> \/ \E o : answer.status = "ok" /\ answer.objects = <<o>>
  <2> HIDE DEF answer
  <2>1. answer = Get(dir, id)
    BY DEF answer
  <2>2. QED
    BY <2>1, GetYields
<1>2. answer.status # "ok" => answer.objects = <<>>
  <2> HIDE DEF answer
  <2>1. answer = Get(dir, id)
    BY DEF answer
  <2>2. QED
    BY <2>1, GetYields
<1>3. ASSUME NEW o PROVE IsSequence(<<o>>)
  BY Singleton
<1>4. IsSequence(answer.objects)
  <2> HIDE DEF answer
  <2>1. QED
    BY <1>1, <1>3, Nothing1
<1>5. QED
  BY <1>2, <1>4

\* A dead reference: its path leads nowhere on the object.
Dead(dir, r) ==
    /\ r.implicit # Nil /\ Get(dir, r.referring).status = "ok"
    /\ r.implicit.path \notin DOMAIN Get(dir, r.referring).objects[1].refs

Leads(dir, r) == {r.referring} \cup Targets(dir, r)

\* With a reference the referring object and all its targets are read, and
\* reading fails if one of them does or the reference is dead.
LEMMA ReferenceReads ==
    ASSUME NEW dir, IsDirectory(dir), NEW r
    PROVE  /\ IsSequence(ReadReference(dir, r))
           /\ \A x \in ToSet(ReadReference(dir, r)) :
                 \E id \in Leads(dir, r) : x.found = ReadExact(dir, id).found
           /\ \A id \in Leads(dir, r) :
                 \E x \in ToSet(ReadReference(dir, r)) : x.found = ReadExact(dir, id).found
           /\ (\E x \in ToSet(ReadReference(dir, r)) : x.failed) <=>
                 (\E id \in Leads(dir, r) : Get(dir, id).status = "error") \/ Dead(dir, r)
<1> DEFINE answer    == Get(dir, r.referring)
           referring == Read1(r.referring.type, answer)
           refs      == answer.objects[1].refs
           names     == refs[r.implicit.path]
           dead      == [referring EXCEPT !.failed = TRUE]
           led       == [i \in DOMAIN names |-> ReadExact(dir, Target(r, names[i]))]
<1>1. referring = ReadExact(dir, r.referring)
  BY DEF ReadExact
<1>2. \A id : ReadExact(dir, id).failed <=> Get(dir, id).status = "error"
  BY DEF ReadExact, Read1
<1>3. dead.found = referring.found /\ dead.failed
  BY DEF Read1
<1>4. CASE answer.status # "ok" \/ r.implicit = Nil
  <2>1. ReadReference(dir, r) = <<referring>>
    BY <1>4 DEF ReadReference
  <2>2. Leads(dir, r) = {r.referring} /\ ~Dead(dir, r)
    BY <1>4 DEF Leads, Targets, Dead
  <2> HIDE DEF referring
  <2>3. QED
    BY <1>1, <1>2, <2>1, <2>2, Singleton
<1>5. CASE answer.status = "ok" /\ r.implicit # Nil /\ r.implicit.path \notin DOMAIN refs
  <2>1. ReadReference(dir, r) = <<dead>>
    BY <1>5 DEF ReadReference
  <2>2. Leads(dir, r) = {r.referring} /\ Dead(dir, r)
    BY <1>5 DEF Leads, Targets, Dead
  <2> HIDE DEF referring, dead
  <2>3. QED
    BY <1>1, <1>3, <2>1, <2>2, Singleton
<1>6. CASE answer.status = "ok" /\ r.implicit # Nil /\ r.implicit.path \in DOMAIN refs
  <2>1. ReadReference(dir, r) = <<referring>> \o led
    BY <1>6 DEF ReadReference
  <2>2. Targets(dir, r) = {Target(r, name) : name \in ToSet(names)} /\ ~Dead(dir, r)
    BY <1>6 DEF Targets, Dead
  <2>3. IsSequence(names)
    <3>1. PICK o : answer.objects = <<o>> /\ IsObject(o)
      BY <1>6, GetYieldsObject
    <3>2. QED
      BY <1>6, <3>1 DEF IsObject
  <2>4. DOMAIN names = 1..Len(names) /\ Len(names) \in Nat
    BY <2>3, Places1
  <2>5. ToSet(led) = {ReadExact(dir, Target(r, name)) : name \in ToSet(names)}
    BY DEF ToSet
  <2>6. led = [i \in 1..Len(names) |-> led[i]]
    BY <2>4
  <2> HIDE DEF referring, led, names
  <2>7. IsSequence(led)
    BY <2>4, <2>6, Built
  <2>8. IsSequence(ReadReference(dir, r)) /\ ToSet(ReadReference(dir, r)) = {referring} \cup ToSet(led)
    BY <2>1, <2>7, Singleton, Joined
  <2>9. ToSet(led) = {ReadExact(dir, id) : id \in Targets(dir, r)}
    BY <2>2, <2>5
  <2>10. ToSet(ReadReference(dir, r)) = {ReadExact(dir, id) : id \in Leads(dir, r)}
    BY <1>1, <2>8, <2>9 DEF Leads
  <2>11. QED
    BY <1>2, <2>2, <2>8, <2>10
<1>7. QED
  BY <1>4, <1>5, <1>6

IsList(list) == IsSequence(list.exact) /\ IsSequence(list.selected) /\ IsSequence(list.references)

\* All that is read for a list: what is wanted by name and what is selected.
LEMMA ReadsHold ==
    ASSUME NEW dir, IsDirectory(dir), NEW list, IsList(list)
    PROVE  /\ IsSequence(Reads(dir, list))
           /\ ToSet(Reads(dir, list)) = {ReadExact(dir, id) : id \in ToSet(list.exact)}
                  \cup {ReadSelected(dir, s) : s \in ToSet(list.selected)}
                  \cup UNION {ToSet(ReadReference(dir, r)) : r \in ToSet(list.references)}
<1> DEFINE exact == [i \in DOMAIN list.exact |-> ReadExact(dir, list.exact[i])]
           selected == [i \in DOMAIN list.selected |-> ReadSelected(dir, list.selected[i])]
           parts == [i \in DOMAIN list.references |-> ReadReference(dir, list.references[i])]
           references == FlattenSeq(parts)
<1>1. /\ DOMAIN list.exact = 1..Len(list.exact) /\ Len(list.exact) \in Nat
      /\ DOMAIN list.selected = 1..Len(list.selected) /\ Len(list.selected) \in Nat
      /\ DOMAIN list.references = 1..Len(list.references) /\ Len(list.references) \in Nat
  BY Places1 DEF IsList
<1>2. /\ exact = [i \in 1..Len(list.exact) |-> exact[i]]
      /\ selected = [i \in 1..Len(list.selected) |-> selected[i]]
      /\ parts = [i \in 1..Len(list.references) |-> parts[i]]
  BY <1>1
<1>3. /\ ToSet(exact) = {ReadExact(dir, id) : id \in ToSet(list.exact)}
      /\ ToSet(selected) = {ReadSelected(dir, s) : s \in ToSet(list.selected)}
      /\ ToSet(parts) = {ReadReference(dir, r) : r \in ToSet(list.references)}
  BY DEF ToSet
<1>4. Reads(dir, list) = exact \o selected \o references
  BY DEF Reads
<1> HIDE DEF exact, selected, parts
<1>5. IsSequence(exact) /\ IsSequence(selected) /\ IsSequence(parts)
  BY <1>1, <1>2, Built
<1>6. \A q \in ToSet(parts) : IsSequence(q)
  BY <1>3, ReferenceReads
<1>7. IsSequence(references) /\ ToSet(references) = UNION {ToSet(q) : q \in ToSet(parts)}
  BY <1>5, <1>6, Flattened
<1> DEFINE P == {ToSet(q) : q \in ToSet(parts)}
<1>8. P = {ToSet(ReadReference(dir, r)) : r \in ToSet(list.references)}
  BY <1>3
<1> HIDE DEF references
<1>9. IsSequence(exact \o selected) /\ ToSet(exact \o selected) = ToSet(exact) \cup ToSet(selected)
  BY <1>5, Joined
<1> DEFINE both == exact \o selected
<1> HIDE DEF both
<1>10. IsSequence(both) /\ ToSet(both) = ToSet(exact) \cup ToSet(selected)
  BY <1>9 DEF both
<1>11. IsSequence(both \o references) /\ ToSet(both \o references) = ToSet(both) \cup ToSet(references)
  BY <1>7, <1>10, Joined
<1>12. Reads(dir, list) = both \o references
  BY <1>4 DEF both
<1>13. ToSet(references) = UNION P
  BY <1>7
<1> HIDE DEF P
<1>14. QED
  BY <1>3, <1>8, <1>10, <1>11, <1>12, <1>13

\* Reading fails if and only if something required cannot be read.
LEMMA ReadFails ==
    ASSUME NEW dir, IsDirectory(dir), NEW list, IsList(list)
    PROVE  ReadRequired(dir, list).failed <=> ~Readable(dir, list)
<1> DEFINE reads == Reads(dir, list)
           references == ToSet(list.references)
           Error(id) == Get(dir, id).status = "error"
<1>1. \A id : ReadExact(dir, id).failed <=> Error(id)
  BY DEF ReadExact, Read1
<1>2. \A s : ReadSelected(dir, s).failed <=> List(dir, s).status = "error"
  BY DEF ReadSelected, Read1
<1>3. \A r : (\E x \in ToSet(ReadReference(dir, r)) : x.failed) <=> (\E id \in Leads(dir, r) : Error(id)) \/ Dead(dir, r)
  BY ReferenceReads
<1>4. ReadRequired(dir, list).failed <=> \E x \in ToSet(reads) : x.failed
  BY DEF ReadRequired, ToSet
<1>5. (\E x \in ToSet(reads) : x.failed) <=>
          \/ \E id \in ToSet(list.exact) : Error(id)
          \/ \E s \in ToSet(list.selected) : List(dir, s).status = "error"
          \/ \E r \in references : (\E id \in Leads(dir, r) : Error(id)) \/ Dead(dir, r)
  <2> DEFINE exact == {ReadExact(dir, id) : id \in ToSet(list.exact)}
             selected == {ReadSelected(dir, s) : s \in ToSet(list.selected)}
             led == UNION {ToSet(ReadReference(dir, r)) : r \in references}
  <2>1. ToSet(reads) = exact \cup selected \cup led
    BY ReadsHold
  <2>2. (\E x \in exact : x.failed) <=> \E id \in ToSet(list.exact) : Error(id)
    <3> HIDE DEF Error
    <3>1. QED
      BY <1>1
  <2>3. (\E x \in selected : x.failed) <=> \E s \in ToSet(list.selected) : List(dir, s).status = "error"
    BY <1>2
  <2>4. (\E x \in led : x.failed) <=> \E r \in references : \E x \in ToSet(ReadReference(dir, r)) : x.failed
    OBVIOUS
  <2> HIDE DEF exact, selected, led, reads, references, Error
  <2>5. QED
    BY <1>3, <2>1, <2>2, <2>3, <2>4
<1>6. Readable(dir, list) <=>
          ~\/ \E id \in ToSet(list.exact) : Error(id)
           \/ \E s \in ToSet(list.selected) : List(dir, s).status = "error"
           \/ \E r \in references : (\E id \in Leads(dir, r) : Error(id)) \/ Dead(dir, r)
  <2> DEFINE targets == UNION {Targets(dir, r) : r \in references}
             referring == {r.referring : r \in references}
  <2>1. Wanted(dir, list) = ToSet(list.exact) \cup referring \cup targets
    BY DEF Wanted
  <2>2. (\E id \in targets : Error(id)) <=> \E r \in references : \E id \in Targets(dir, r) : Error(id)
    OBVIOUS
  <2>3. (\E id \in referring : Error(id)) <=> \E r \in references : Error(r.referring)
    OBVIOUS
  <2>4. \A r : (\E id \in Leads(dir, r) : Error(id)) <=> Error(r.referring) \/ \E id \in Targets(dir, r) : Error(id)
    BY DEF Leads
  <2>5. Readable(dir, list) <=>
            /\ \A id \in Wanted(dir, list) : ~Error(id)
            /\ \A s \in ToSet(list.selected) : List(dir, s).status # "error"
            /\ \A r \in references : ~Dead(dir, r)
    BY DEF Readable, Dead
  <2> HIDE DEF targets, referring, references, Error
  <2>6. QED
    BY <2>1, <2>2, <2>3, <2>4, <2>5
<1>7. QED
  BY <1>4, <1>5, <1>6

\* Each read finds what there is at its place.
LEMMA AllFoundHolds ==
    ASSUME NEW dir, IsDirectory(dir), NEW list, IsList(list)
    PROVE  /\ IsSequence(AllFound(Reads(dir, list)))
           /\ ToSet(AllFound(Reads(dir, list))) = UNION {ToSet(x.found) : x \in ToSet(Reads(dir, list))}
<1> DEFINE reads == Reads(dir, list)
           found == [i \in DOMAIN reads |-> reads[i].found]
<1>1. \A id : IsSequence(ReadExact(dir, id).found)
  BY GetAnswers, ReadFinds DEF ReadExact
<1>2. \A s : IsSequence(ReadSelected(dir, s).found)
  BY ListYields, ReadFinds DEF ReadSelected
<1>3. \A r : \A x \in ToSet(ReadReference(dir, r)) : IsSequence(x.found)
  BY <1>1, ReferenceReads
<1>4. IsSequence(reads) /\ \A x \in ToSet(reads) : IsSequence(x.found)
  BY <1>1, <1>2, <1>3, ReadsHold
<1>5. DOMAIN reads = 1..Len(reads) /\ Len(reads) \in Nat
  BY <1>4, Places1
<1>6. found = [i \in 1..Len(reads) |-> found[i]]
  BY <1>5
<1>7. ToSet(found) = {x.found : x \in ToSet(reads)}
  BY DEF ToSet
<1>8. AllFound(reads) = FlattenSeq(found)
  BY DEF AllFound
<1> HIDE DEF found
<1>9. IsSequence(found)
  BY <1>5, <1>6, Built
<1>10. \A q \in ToSet(found) : IsSequence(q)
  BY <1>4, <1>7
<1>11. IsSequence(FlattenSeq(found)) /\ ToSet(FlattenSeq(found)) = UNION {ToSet(q) : q \in ToSet(found)}
  BY <1>9, <1>10, Flattened
<1> DEFINE P == {ToSet(q) : q \in ToSet(found)}
<1>12. P = {ToSet(x.found) : x \in ToSet(reads)}
  BY <1>7
<1>13. ToSet(AllFound(reads)) = UNION P
  BY <1>8, <1>11
<1> HIDE DEF P, reads
<1>14. QED
  BY <1>8, <1>11, <1>12, <1>13 DEF reads

\* Of what is found, and of what is wanted.
FromGet(dir, id, r) == r.type = id.type /\ r.object \in ToSet(Get(dir, id).objects)
FromList(dir, s, r) == r.type = s.type /\ r.object \in ToSet(List(dir, s).objects)

\* What was read was asked for, by a get or by a list.
LEMMA FoundIsAskedFor ==
    ASSUME NEW dir, IsDirectory(dir), NEW list, IsList(list), NEW r \in ToSet(AllFound(Reads(dir, list)))
    PROVE  \/ \E id \in Wanted(dir, list) : FromGet(dir, id, r)
           \/ \E s \in ToSet(list.selected) : FromList(dir, s, r)
<1>1. PICK x \in ToSet(Reads(dir, list)) : r \in ToSet(x.found)
  BY AllFoundHolds
<1>2. ASSUME NEW id, r \in ToSet(ReadExact(dir, id).found) PROVE FromGet(dir, id, r)
  BY <1>2, GetAnswers, ReadFinds DEF ReadExact, FromGet
<1>3. ASSUME NEW s, r \in ToSet(ReadSelected(dir, s).found) PROVE FromList(dir, s, r)
  <2>1. IsSequence(List(dir, s).objects)
    BY ListYields
  <2>2. QED
    BY <1>3, <2>1, ReadFinds DEF ReadSelected, FromList
<1>4. CASE \E id \in ToSet(list.exact) : x = ReadExact(dir, id)
  BY <1>1, <1>2, <1>4 DEF Wanted
<1>5. CASE \E s \in ToSet(list.selected) : x = ReadSelected(dir, s)
  BY <1>1, <1>3, <1>5
<1>6. CASE \E q \in ToSet(list.references) : x \in ToSet(ReadReference(dir, q))
  <2>1. PICK q \in ToSet(list.references) : x \in ToSet(ReadReference(dir, q))
    BY <1>6
  <2>2. PICK id \in Leads(dir, q) : x.found = ReadExact(dir, id).found
    BY <2>1, ReferenceReads
  <2>3. id \in Wanted(dir, list)
    BY <2>1, <2>2 DEF Leads, Wanted
  <2>4. QED
    BY <1>1, <1>2, <2>2, <2>3
<1>7. QED
  BY <1>1, <1>4, <1>5, <1>6, ReadsHold

\* What a selecting list finds is read.
LEMMA SelectedIsFound ==
    ASSUME NEW dir, IsDirectory(dir), NEW list, IsList(list),
           NEW s \in ToSet(list.selected), NEW o \in ToSet(List(dir, s).objects)
    PROVE  [type |-> s.type, object |-> o] \in ToSet(AllFound(Reads(dir, list)))
<1>1. IsSequence(List(dir, s).objects)
  BY ListYields
<1>2. [type |-> s.type, object |-> o] \in ToSet(ReadSelected(dir, s).found)
  BY <1>1, ReadFinds DEF ReadSelected
<1>3. ReadSelected(dir, s) \in ToSet(Reads(dir, list))
  BY ReadsHold
<1>4. QED
  BY <1>2, <1>3, AllFoundHolds

\* What was read are objects.
LEMMA FoundAreObjects ==
    ASSUME NEW dir, IsDirectory(dir), NEW list, IsList(list), NEW r \in ToSet(AllFound(Reads(dir, list)))
    PROVE  IsObject(r.object)
<1>1. CASE \E id : FromGet(dir, id, r)
  <2>1. PICK id : r.object \in ToSet(Get(dir, id).objects)
    BY <1>1 DEF FromGet
  <2>2. Get(dir, id).status = "ok"
    BY <2>1, GetAnswers, Nothing1
  <2>3. PICK o : Get(dir, id).objects = <<o>> /\ IsObject(o)
    BY <2>2, GetYieldsObject
  <2>4. QED
    BY <2>1, <2>3, Singleton
<1>2. CASE \E s : FromList(dir, s, r)
  BY <1>2, ListYields DEF FromList
<1>3. QED
  BY <1>1, <1>2, FoundIsAskedFor

\* What is found of a type where a selector looks has the kind and the version
\* that a list with the selector checks.
LEMMA FoundAsListed ==
    ASSUME NEW dir, IsDirectory(dir), NEW list, IsList(list), IsConsistent(dir, list), Readable(dir, list),
           NEW s \in ToSet(list.selected), s.type # Namespaces,
           NEW r \in ToSet(AllFound(Reads(dir, list))), r.type = s.type, s.ns = None \/ r.object.ns = s.ns
    PROVE  /\ <<s.type, s.version>> \in DOMAIN Discovery
           /\ r.object.kind = Discovery[<<s.type, s.version>>] /\ r.object.version = s.version
<1>1. \A t \in ToSet(list.selected) : List(dir, t).status = "ok"
  BY ListYields DEF Readable
<1>2. <<s.type, s.version>> \in DOMAIN Discovery
  BY <1>1, ListYields
<1>3. \A t \in ToSet(list.selected) : t.type # Namespaces => AsListed(dir, t)
  BY <1>1 DEF IsConsistent
<1>4. ASSUME NEW p \in DOMAIN dir, p.type = s.type, p.ns = r.object.ns, dir[p] # Broken
      PROVE  \A x \in {dir[p]} \cup ToSet(ObjectsOf(dir[p])) :
                x.kind = Discovery[<<s.type, s.version>>] /\ x.version = s.version
  <2>1. p.ns \in ToSet(Places(dir, s.ns))
    <3>1. CASE s.ns = None
      <4>1. ToSet(Places(dir, s.ns)) = {None} \cup NamespacesWithData(dir)
        BY <3>1, PlacesHold
      <4>2. QED
        BY <4>1 DEF NamespacesWithData
    <3>2. CASE s.ns # None
      BY <1>4, <3>2, PlacesHold
    <3>3. QED
      BY <3>1, <3>2
  <2>2. p \in LookedAt(dir, s)
    BY <1>4, <2>1 DEF LookedAt
  <2>3. QED
    BY <1>3, <1>4, <2>2 DEF AsListed
<1>5. CASE \E id \in Wanted(dir, list) : FromGet(dir, id, r)
  <2>1. PICK id \in Wanted(dir, list) : r.type = id.type /\ r.object \in ToSet(Get(dir, id).objects)
    BY <1>5 DEF FromGet
  <2> DEFINE own == IndividualFile(id)
             listed == ListFile(RequestNamespace(id), id.type)
             named == ItemsNamed(dir[listed], id.name)
  <2>2. r.object.ns = id.ns
    BY <2>1 DEF IsConsistent
  <2>3. r.object # Broken /\ GotFrom(dir, id, r.object)
    <3> DEFINE answer == Get(dir, id)
    <3>1. answer.objects # <<>>
      BY <2>1, Nothing1
    <3>2. answer = Get(dir, id)
      OBVIOUS
    <3> HIDE DEF answer
    <3>3. PICK o : answer.objects = <<o>> /\ o # Broken /\ GotFrom(dir, id, o)
      BY <3>1, <3>2, GetYields
    <3>4. r.object = o
      BY <2>1, <3>2, <3>3, Singleton
    <3>5. QED
      BY <3>3, <3>4
  <2>4. own.type = s.type /\ own.ns = id.ns /\ listed.type = s.type /\ listed.ns = id.ns /\ listed.name = None
    BY <2>1 DEF IndividualFile, ListFile, RequestNamespace
  <2>5. CASE own \in DOMAIN dir /\ r.object = dir[own]
    BY <1>2, <1>4, <2>2, <2>3, <2>4, <2>5
  <2>6. CASE /\ listed \in DOMAIN dir /\ dir[listed] # Broken /\ named # <<>>
             /\ r.object = [Head(named) EXCEPT !.kind = dir[listed].kind]
    <3>1. /\ "items" \in DOMAIN dir[listed] /\ IsSequence(dir[listed].items)
          /\ \A x \in ToSet(ObjectsOf(dir[listed])) : IsObject(x)
      BY <2>4, <2>6 DEF IsDirectory
    <3>2. named \in Seq(ToSet(dir[listed].items)) /\ ToSet(named) \subseteq ToSet(dir[listed].items)
      BY <3>1, ThoseHold DEF ItemsNamed, IsSequence
    <3>3. Head(named) \in ToSet(named)
      BY <2>6, <3>2 DEF ToSet
    <3>4. Head(named) \in ToSet(ObjectsOf(dir[listed]))
      BY <3>1, <3>2, <3>3 DEF ObjectsOf
    <3>5. /\ dir[listed].kind = Discovery[<<s.type, s.version>>]
          /\ Head(named).version = s.version
      BY <1>4, <2>2, <2>4, <2>6, <3>4
    <3>6. IsObject(Head(named))
      BY <3>1, <3>4
    <3>7. r.object.kind = dir[listed].kind /\ r.object.version = Head(named).version
      BY <2>6, <3>6 DEF IsObject
    <3>8. QED
      BY <1>2, <3>5, <3>7
  <2>7. QED
    BY <2>3, <2>5, <2>6 DEF GotFrom
<1>6. CASE \E t \in ToSet(list.selected) : FromList(dir, t, r)
  <2>1. PICK t \in ToSet(list.selected) : r.type = t.type /\ r.object \in ToSet(List(dir, t).objects)
    BY <1>6 DEF FromList
  <2>2. t.type # Namespaces /\ LiesIn(dir, t, r.object)
    BY <2>1, ListYields
  <2>3. PICK p \in LookedAt(dir, t) : dir[p] # Broken /\ r.object \in ToSet(ObjectsOf(dir[p]))
    BY <2>2 DEF LiesIn
  <2>4. r.object.ns = p.ns /\ p \in DOMAIN dir /\ p.type = s.type
    BY <1>3, <2>1, <2>2, <2>3 DEF AsListed, LookedAt
  <2>5. QED
    BY <1>2, <1>4, <2>3, <2>4
<1>7. QED
  BY <1>5, <1>6, FoundIsAskedFor

\* What a get finds that is wanted is read.
LEMMA WantedIsFound ==
    ASSUME NEW dir, IsDirectory(dir), NEW list, IsList(list),
           NEW id \in Wanted(dir, list), NEW o \in ToSet(Get(dir, id).objects)
    PROVE  [type |-> id.type, object |-> o] \in ToSet(AllFound(Reads(dir, list)))
<1>1. [type |-> id.type, object |-> o] \in ToSet(ReadExact(dir, id).found)
  BY GetAnswers, ReadFinds DEF ReadExact
<1>2. \E x \in ToSet(Reads(dir, list)) : x.found = ReadExact(dir, id).found
  <2>1. CASE id \in ToSet(list.exact)
    BY <2>1, ReadsHold
  <2>2. CASE \E r \in ToSet(list.references) : id \in Leads(dir, r)
    BY <2>2, ReadsHold, ReferenceReads
  <2>3. QED
    BY <2>1, <2>2 DEF Wanted, Leads
<1>3. QED
  BY <1>1, <1>2, AllFoundHolds

-----------------------------------------------------------------------------
(* What is written for a set of resources.                                 *)

\* Resources of the same type are of the same kind, and only they.
KindsAreTypes(set) == \A q, r \in ToSet(set) : q.type = r.type <=> q.object.kind = r.object.kind

Alike(set, r) == {q \in ToSet(set) : q.object.kind = r.object.kind /\ q.object.ns = r.object.ns}

FileOf(set, r) ==
    [path    |-> ListFile(r.object.ns, Last(OfKind(set, r.object.kind)).type),
     content |-> [kind    |-> r.object.kind,
                  version |-> Head(Those(set, Alike(set, r))).object.version,
                  items   |-> Objects(Those(set, Alike(set, r)))]]

\* Every file written is that of a resource read.
LEMMA FilesAre == ASSUME NEW set PROVE FilesOf(set) = {FileOf(set, r) : r \in ToSet(set)}
BY DEF FilesOf, FileOf, Alike

\* Each resource is written to the list of its type in its namespace, with
\* all others of that kind and namespace.
LEMMA FileHolds ==
    ASSUME NEW set, IsSequence(set), KindsAreTypes(set), NEW r \in ToSet(set)
    PROVE  /\ FileOf(set, r).path = ListFile(r.object.ns, r.type)
           /\ IsSequence(FileOf(set, r).content.items)
           /\ ToSet(FileOf(set, r).content.items) = {q.object : q \in Alike(set, r)}
           /\ \E q \in Alike(set, r) : FileOf(set, r).content.version = q.object.version
<1> DEFINE kind == {q \in ToSet(set) : q.object.kind = r.object.kind}
           ofKind == OfKind(set, r.object.kind)
           items == Those(set, Alike(set, r))
<1>1. IsSequence(ofKind) /\ ToSet(ofKind) = kind
  <2>1. ofKind = Those(set, kind) /\ kind \subseteq ToSet(set)
    BY DEF OfKind
  <2> HIDE DEF kind, ofKind
  <2>2. QED
    BY <2>1, Chosen
<1>2. Last(ofKind) \in ToSet(ofKind)
  <2>1. r \in ToSet(ofKind)
    BY <1>1
  <2> HIDE DEF ofKind
  <2>2. Len(ofKind) \in Nat /\ DOMAIN ofKind = 1..Len(ofKind) /\ \A i \in 1..Len(ofKind) : ofKind[i] \in ToSet(ofKind)
    BY <1>1, Places1
  <2>3. Len(ofKind) \in 1..Len(ofKind)
    BY <2>1, <2>2 DEF ToSet
  <2>4. QED
    BY <2>2, <2>3 DEF Last
<1>3. Last(ofKind).type = r.type
  BY <1>1, <1>2 DEF KindsAreTypes
<1>4. IsSequence(items) /\ ToSet(items) = Alike(set, r)
  BY Chosen DEF Alike
<1>5. r \in Alike(set, r)
  BY DEF Alike
<1> HIDE DEF ofKind, items
<1>6. DOMAIN items = 1..Len(items) /\ Len(items) \in Nat
  BY <1>4, Places1
<1> DEFINE objects == [i \in DOMAIN items |-> items[i].object]
<1>7. ToSet(objects) = {q.object : q \in ToSet(items)}
  BY DEF ToSet
<1>8. objects = [i \in 1..Len(items) |-> objects[i]]
  BY <1>6
<1>9. Head(items) \in Alike(set, r)
  <2>1. items \in Seq(ToSet(items)) /\ items # <<>>
    BY <1>4, <1>5, Nothing1 DEF IsSequence
  <2>2. QED
    BY <1>4, <1>6, <2>1 DEF ToSet
<1>10. Objects(items) = objects
  BY DEF Objects
<1> HIDE DEF objects
<1>11. IsSequence(objects)
  BY <1>6, <1>8, Built
<1>12. QED
  BY <1>3, <1>4, <1>7, <1>9, <1>10, <1>11 DEF FileOf, ofKind, items

\* No two files have the same path.
LEMMA PathsDiffer ==
    ASSUME NEW set, IsSequence(set), KindsAreTypes(set), NEW f \in FilesOf(set), NEW g \in FilesOf(set),
           f.path = g.path
    PROVE  f = g
<1>1. PICK q \in ToSet(set) : f = FileOf(set, q)
  BY FilesAre
<1>2. PICK r \in ToSet(set) : g = FileOf(set, r)
  BY FilesAre
<1>3. f.path = ListFile(q.object.ns, q.type) /\ g.path = ListFile(r.object.ns, r.type)
  BY <1>1, <1>2, FileHolds
<1>4. q.object.ns = r.object.ns /\ q.type = r.type
  <2>1. ListFile(q.object.ns, q.type) = ListFile(r.object.ns, r.type)
    BY <1>3
  <2>2. ListFile(q.object.ns, q.type).ns = q.object.ns /\ ListFile(q.object.ns, q.type).type = q.type
    BY DEF ListFile
  <2>3. ListFile(r.object.ns, r.type).ns = r.object.ns /\ ListFile(r.object.ns, r.type).type = r.type
    BY DEF ListFile
  <2>4. QED
    BY <2>1, <2>2, <2>3
<1>5. q.object.kind = r.object.kind
  BY <1>4 DEF KindsAreTypes
<1>6. Alike(set, q) = Alike(set, r)
  BY <1>4, <1>5 DEF Alike
<1>7. QED
  BY <1>1, <1>2, <1>4, <1>5, <1>6 DEF FileOf

\* What a directory that is consistent yields for a list.
LEMMA InstancesHold ==
    ASSUME NEW dir, IsDirectory(dir), NEW list, IsList(list), IsConsistent(dir, list),
           NEW set, set = ReadRequired(dir, list).instances
    PROVE  /\ IsSequence(set) /\ KindsAreTypes(set)
           /\ ToSet(set) = ToSet(AllFound(Reads(dir, list)))
<1> DEFINE all == AllFound(Reads(dir, list))
<1>1. IsSequence(all)
  BY AllFoundHolds
<1>2. set = Unique(all)
  BY DEF ReadRequired
<1>3. \A q, r \in ToSet(all) : ID(q) = ID(r) => q = r
  BY DEF IsConsistent, ID
<1>4. \A q, r \in ToSet(all) : q.type = r.type <=> q.object.kind = r.object.kind
  BY DEF IsConsistent
<1> HIDE DEF all
<1>5. /\ set \in Seq(ToSet(all)) /\ ToSet(set) \subseteq ToSet(all)
      /\ \A r \in ToSet(all) : \E q \in ToSet(set) : ID(q) = ID(r)
  BY <1>1, <1>2, UniqueHolds DEF IsSequence
<1>6. ToSet(all) \subseteq ToSet(set)
  BY <1>3, <1>5
<1>7. QED
  BY <1>4, <1>5, <1>6, Narrow DEF KindsAreTypes, all

\* A pruned directory holds the files of what was read, and no others.
LEMMA PrunedHolds ==
    ASSUME NEW dir, IsDirectory(dir), NEW list, IsList(list), IsConsistent(dir, list),
           NEW set, set = ReadRequired(dir, list).instances
    PROVE  /\ \A p \in DOMAIN Pruned(dir, list) :
                 \E r \in ToSet(set) : p = FileOf(set, r).path /\ Pruned(dir, list)[p] = FileOf(set, r).content
           /\ \A r \in ToSet(set) :
                 /\ FileOf(set, r).path \in DOMAIN Pruned(dir, list)
                 /\ Pruned(dir, list)[FileOf(set, r).path] = FileOf(set, r).content
<1> DEFINE files == FilesOf(set)
           pruned == [p \in {f.path : f \in files} |-> (CHOOSE f \in files : f.path = p).content]
<1>1. Pruned(dir, list) = pruned
  BY DEF Pruned
<1>2. IsSequence(set) /\ KindsAreTypes(set)
  BY InstancesHold
<1>3. files = {FileOf(set, r) : r \in ToSet(set)}
  BY FilesAre
<1>4. ASSUME NEW f \in files PROVE f.path \in DOMAIN pruned /\ pruned[f.path] = f.content
  <2> DEFINE g == CHOOSE x \in files : x.path = f.path
  <2>1. g \in files /\ g.path = f.path
    OBVIOUS
  <2>2. g = f
    <3> HIDE DEF g
    <3>1. QED
      BY <1>2, <2>1, PathsDiffer
  <2>3. QED
    BY <2>2
<1>5. DOMAIN pruned = {f.path : f \in files}
  OBVIOUS
<1> HIDE DEF files, pruned
<1>6. QED
  BY <1>1, <1>3, <1>4, <1>5

-----------------------------------------------------------------------------
(* Reading back.                                                           *)

\* The objects of a concatenation are the objects of its parts.
LEMMA ObjectsAre ==
    ASSUME NEW s, IsSequence(s)
    PROVE  /\ IsSequence(Objects(s)) /\ Len(Objects(s)) = Len(s)
           /\ \A i \in 1..Len(s) : Objects(s)[i] = s[i].object
<1>1. DOMAIN s = 1..Len(s) /\ Len(s) \in Nat
  BY Places1
<1> DEFINE o == Objects(s)
<1>2. o = [i \in 1..Len(s) |-> o[i]] /\ \A i \in 1..Len(s) : o[i] = s[i].object
  BY <1>1 DEF Objects
<1> HIDE DEF o
<1>3. IsSequence(o) /\ Len(o) = Len(s)
  BY <1>1, <1>2, Built
<1>4. QED
  BY <1>2, <1>3 DEF o

\* The objects of a concatenation are those of its parts, in order.
LEMMA ObjectsJoined ==
    ASSUME NEW s, IsSequence(s), NEW t, IsSequence(t)
    PROVE  Objects(s \o t) = Objects(s) \o Objects(t)
<1> DEFINE u == s \o t
           a == Objects(s)
           b == Objects(t)
           c == Objects(u)
<1>1. /\ IsSequence(u) /\ Len(u) = Len(s) + Len(t) /\ Len(s) \in Nat /\ Len(t) \in Nat
      /\ \A i \in 1..(Len(s) + Len(t)) : u[i] = IF i <= Len(s) THEN s[i] ELSE t[i - Len(s)]
  BY Joined, JoinedIs, Places1
<1> HIDE DEF u
<1>2. /\ IsSequence(a) /\ Len(a) = Len(s) /\ \A i \in 1..Len(s) : a[i] = s[i].object
      /\ IsSequence(b) /\ Len(b) = Len(t) /\ \A i \in 1..Len(t) : b[i] = t[i].object
      /\ IsSequence(c) /\ Len(c) = Len(u) /\ \A i \in 1..Len(u) : c[i] = u[i].object
  BY <1>1, ObjectsAre
<1> HIDE DEF a, b, c
<1>3. /\ IsSequence(a \o b) /\ Len(a \o b) = Len(a) + Len(b)
      /\ \A i \in 1..(Len(a) + Len(b)) : (a \o b)[i] = IF i <= Len(a) THEN a[i] ELSE b[i - Len(a)]
  BY <1>2, Joined, JoinedIs
<1>4. ASSUME NEW i \in 1..Len(c) PROVE c[i] = (a \o b)[i]
  <2>1. i \in 1..(Len(s) + Len(t)) /\ i \in 1..(Len(a) + Len(b)) /\ i \in 1..Len(u)
    BY <1>1, <1>2
  <2>2. CASE i <= Len(s)
    BY <1>1, <1>2, <1>3, <2>1, <2>2
  <2>3. CASE ~(i <= Len(s))
    <3>1. i - Len(s) \in 1..Len(t)
      BY <1>1, <2>1, <2>3
    <3>2. u[i] = t[i - Len(s)] /\ (a \o b)[i] = b[i - Len(s)]
      BY <1>1, <1>2, <1>3, <2>1, <2>3
    <3>3. QED
      BY <1>2, <2>1, <3>1, <3>2
  <2>4. QED
    BY <2>2, <2>3
<1>5. c = a \o b
  BY <1>1, <1>2, <1>3, <1>4, Same
<1>6. QED
  BY <1>5 DEF a, b, c, u

\* The same of many parts.
LEMMA ObjectsOfParts ==
    ASSUME NEW parts, AreSequences(parts)
    PROVE  FlattenSeq([i \in DOMAIN parts |-> Objects(parts[i])]) = Objects(FlattenSeq(parts))
<1> DEFINE S == ToSet(parts)
           Each(p) == [i \in DOMAIN p |-> Objects(p[i])]
           Right(p) == FlattenSeq(Each(p)) = Objects(FlattenSeq(p))
           T == {p \in Seq(S) : Right(p)}
<1>0. \A q \in S : IsSequence(q)
  BY DEF AreSequences
<1>1. <<>> \in T
  <2>1. Each(<<>>) = <<>> /\ Objects(<<>>) = <<>>
    BY DEF Objects
  <2>2. QED
    BY <2>1, FlattenNothing
<1>2. ASSUME NEW p \in Seq(S), p # <<>>, Right(Tail(p)) PROVE Right(p)
  <2> DEFINE h == Head(p)
             t == Tail(p)
             f == FlattenSeq(t)
  <2>1. AreSequences(p)
    <3>1. IsSequence(p) /\ ToSet(p) \subseteq S
      BY Narrow DEF ToSet
    <3>2. QED
      BY <1>0, <3>1 DEF AreSequences
  <2>2. /\ IsSequence(h) /\ AreSequences(t) /\ FlattenSeq(p) = h \o f
    BY <1>2, <2>1, Unrolled
  <2>3. /\ IsSequence(t) /\ Len(t) = Len(p) - 1 /\ Len(p) \in Nat /\ h = p[1] /\ Len(p) # 0
        /\ \A i \in 1..Len(t) : t[i] = p[i + 1]
    BY <1>2, <2>1, HeadAndTail DEF AreSequences
  <2>4. IsSequence(f)
    BY <2>2, Flattened DEF AreSequences
  <2>5. FlattenSeq(Each(t)) = Objects(f)
    BY <1>2
  <2>6. ASSUME NEW q, AreSequences(q)
        PROVE  AreSequences(Each(q)) /\ Len(Each(q)) = Len(q) /\ \A i \in 1..Len(q) : Each(q)[i] = Objects(q[i])
    <3>1. IsSequence(q) /\ Len(q) \in Nat /\ DOMAIN q = 1..Len(q) /\ \A i \in 1..Len(q) : IsSequence(q[i])
      BY <2>6, Places1 DEF AreSequences
    <3> DEFINE e == Each(q)
    <3>2. e = [i \in 1..Len(q) |-> e[i]] /\ \A i \in 1..Len(q) : e[i] = Objects(q[i])
      BY <3>1
    <3> HIDE DEF e
    <3>3. \A i \in 1..Len(q) : IsSequence(e[i])
      BY <3>1, <3>2, ObjectsAre
    <3>4. IsSequence(e) /\ Len(e) = Len(q) /\ DOMAIN e = 1..Len(q)
      BY <3>1, <3>2, Built
    <3>5. AreSequences(e)
      BY <3>3, <3>4 DEF AreSequences, ToSet
    <3>6. QED
      BY <3>2, <3>4, <3>5 DEF e
  <2> DEFINE e == Each(p)
             g == Each(t)
  <2>7. /\ AreSequences(e) /\ Len(e) = Len(p) /\ \A i \in 1..Len(p) : e[i] = Objects(p[i])
        /\ AreSequences(g) /\ Len(g) = Len(t) /\ \A i \in 1..Len(t) : g[i] = Objects(t[i])
    BY <2>1, <2>2, <2>6
  <2> HIDE DEF h, t, f, e, g
  <2>8. /\ e # <<>> /\ Head(e) = Objects(h) /\ Tail(e) = g
    <3>1. e # <<>> /\ IsSequence(e) /\ IsSequence(g)
      BY <2>3, <2>7 DEF AreSequences
    <3>2. /\ IsSequence(Tail(e)) /\ Len(Tail(e)) = Len(e) - 1 /\ Head(e) = e[1]
          /\ \A i \in 1..Len(Tail(e)) : Tail(e)[i] = e[i + 1]
      BY <3>1, HeadAndTail
    <3>3. ASSUME NEW i \in 1..Len(Tail(e)) PROVE Tail(e)[i] = g[i]
      <4>1. i \in 1..Len(t) /\ i + 1 \in 1..Len(p)
        BY <2>3, <2>7, <3>2
      <4>2. QED
        BY <2>3, <2>7, <3>2, <4>1
    <3>4. Tail(e) = g
      BY <2>3, <2>7, <3>1, <3>2, <3>3, Same
    <3>5. QED
      BY <2>3, <2>7, <3>1, <3>2, <3>4
  <2>9. FlattenSeq(e) = Objects(h) \o FlattenSeq(g)
    BY <2>7, <2>8, Unrolled
  <2>10. Objects(FlattenSeq(p)) = Objects(h) \o Objects(f)
    BY <2>2, <2>4, ObjectsJoined
  <2>11. QED
    BY <2>5, <2>9, <2>10 DEF e, g
<1> HIDE DEF Right
<1>3. T = Seq(S)
  <2>1. \A q \in Seq(S) : q # <<>> /\ Tail(q) \in T => q \in T
    BY <1>2
  <2>2. T \in SUBSET Seq(S)
    OBVIOUS
  <2> HIDE DEF T, S
  <2>3. QED
    BY <1>1, <2>1, <2>2, TailInduction
<1>4. Right(parts)
  <2>1. parts \in Seq(S)
    BY DEF IsSequence, AreSequences
  <2>2. QED
    BY <1>3, <2>1
<1>5. QED
  BY <1>4 DEF Right

\* A resource that is found is a type and an object.
LEMMA FoundAreResources ==
    ASSUME NEW dir, IsDirectory(dir), NEW list, IsList(list), NEW r \in ToSet(AllFound(Reads(dir, list)))
    PROVE  r = [type |-> r.type, object |-> r.object]
<1>1. PICK x \in ToSet(Reads(dir, list)) : r \in ToSet(x.found)
  BY AllFoundHolds
<1>2. ASSUME NEW type, NEW answer, IsSequence(answer.objects), NEW q \in ToSet(Read1(type, answer).found)
      PROVE  q = [type |-> q.type, object |-> q.object]
  <2>1. q \in {[type |-> type, object |-> o] : o \in ToSet(answer.objects)}
    BY <1>2, ReadFinds
  <2>2. QED
    BY <2>1
<1>3. ASSUME NEW id, NEW q \in ToSet(ReadExact(dir, id).found) PROVE q = [type |-> q.type, object |-> q.object]
  BY <1>2, GetAnswers DEF ReadExact
<1>4. ASSUME NEW s, NEW q \in ToSet(ReadSelected(dir, s).found) PROVE q = [type |-> q.type, object |-> q.object]
  BY <1>2, ListYields DEF ReadSelected
<1>5. CASE \E q \in ToSet(list.references) : x \in ToSet(ReadReference(dir, q))
  <2>1. PICK q \in ToSet(list.references) : x \in ToSet(ReadReference(dir, q))
    BY <1>5
  <2>2. PICK id \in Leads(dir, q) : x.found = ReadExact(dir, id).found
    BY <2>1, ReferenceReads
  <2>3. QED
    BY <1>1, <1>3, <2>2
<1>6. CASE \E id \in ToSet(list.exact) : x = ReadExact(dir, id)
  BY <1>1, <1>3, <1>6
<1>7. CASE \E s \in ToSet(list.selected) : x = ReadSelected(dir, s)
  BY <1>1, <1>4, <1>7
<1>8. QED
  BY <1>5, <1>6, <1>7, ReadsHold

\* A directory that holds the files of a set, and no other.
HoldsFilesOf(dir, set) ==
    /\ IsFiniteSet(DOMAIN dir) /\ DOMAIN dir = {FileOf(set, r).path : r \in ToSet(set)}
    /\ \A r \in ToSet(set) : dir[FileOf(set, r).path] = FileOf(set, r).content

\* Resources that discovery knows are read back, file by file and in the order
\* of the files' items.
LEMMA FilesReadBack ==
    ASSUME NEW set, IsSequence(set), KindsAreTypes(set),
           \A r \in ToSet(set) : r = [type |-> r.type, object |-> r.object] /\ TypesOf(r.object) = {r.type},
           NEW dir, HoldsFilesOf(dir, set)
    PROVE  /\ ~ResourcesFromDir(dir).failed
           /\ FilesOf(ResourcesFromDir(dir).instances) = FilesOf(set)
<1> DEFINE files   == SetToSeq(DOMAIN dir)
           n       == Len(files)
           rep(i)  == CHOOSE r \in ToSet(set) : FileOf(set, r).path = files[i]
           parts   == [i \in 1..n |-> Those(set, Alike(set, rep(i)))]
           all     == FlattenSeq(parts)
           objects == FlattenSeq([i \in DOMAIN files |-> ObjectsOf(dir[files[i]])])
<1>1. /\ IsSequence(files) /\ ToSet(files) = DOMAIN dir /\ n \in Nat /\ DOMAIN files = 1..n
      /\ \A i, j \in 1..n : files[i] = files[j] => i = j
  <2>1. IsFiniteSet(DOMAIN dir)
    BY DEF HoldsFilesOf
  <2>2. IsSequence(files) /\ ToSet(files) = DOMAIN dir /\ \A i, j \in 1..n : files[i] = files[j] => i = j
    BY <2>1, Enumerated
  <2> HIDE DEF files
  <2>3. QED
    BY <2>2, Places1
<1> HIDE DEF files
<1>2. \A i \in 1..n : files[i] \in DOMAIN dir
  BY <1>1 DEF ToSet
<1>3. ASSUME NEW i \in 1..n PROVE rep(i) \in ToSet(set) /\ FileOf(set, rep(i)).path = files[i]
  <2>1. \E r \in ToSet(set) : FileOf(set, r).path = files[i]
    BY <1>2 DEF HoldsFilesOf
  <2>2. QED
    BY <2>1
<1> HIDE DEF n
<1>4. /\ AreSequences(parts) /\ Len(parts) = n /\ DOMAIN parts = 1..n
      /\ \A i \in 1..n : parts[i] = Those(set, Alike(set, rep(i))) /\ ToSet(parts[i]) = Alike(set, rep(i))
  <2>1. \A i \in 1..n : parts[i] = Those(set, Alike(set, rep(i)))
    OBVIOUS
  <2>2. parts = [i \in 1..n |-> parts[i]]
    OBVIOUS
  <2> HIDE DEF parts, rep
  <2>3. ASSUME NEW i \in 1..n PROVE IsSequence(parts[i]) /\ ToSet(parts[i]) = Alike(set, rep(i))
    <3>1. Alike(set, rep(i)) \subseteq ToSet(set)
      BY DEF Alike
    <3> DEFINE alike == Alike(set, rep(i))
    <3>2. IsSequence(Those(set, alike)) /\ ToSet(Those(set, alike)) = ToSet(set) \cap alike
      BY Chosen
    <3>3. QED
      BY <2>1, <3>1, <3>2
  <2>4. IsSequence(parts) /\ DOMAIN parts = 1..n /\ Len(parts) = n
    BY <1>1, <2>2, Built
  <2>5. QED
    BY <2>1, <2>3, <2>4 DEF AreSequences, ToSet
<1> HIDE DEF rep
\* Who shares a file with a resource.
<1>5. ASSUME NEW q \in ToSet(set), NEW r \in ToSet(set)
      PROVE  q \in Alike(set, r) <=> FileOf(set, q).path = FileOf(set, r).path
  <2>1. FileOf(set, q).path = ListFile(q.object.ns, q.type) /\ FileOf(set, r).path = ListFile(r.object.ns, r.type)
    BY FileHolds
  <2>2. FileOf(set, q).path = FileOf(set, r).path <=> q.object.ns = r.object.ns /\ q.type = r.type
    BY <2>1 DEF ListFile
  <2>3. QED
    BY <2>2 DEF Alike, KindsAreTypes
<1>6. IsSequence(all) /\ ToSet(all) = ToSet(set)
  <2>1. IsSequence(all) /\ ToSet(all) = UNION {ToSet(q) : q \in ToSet(parts)}
    <3> HIDE DEF parts
    <3>1. QED
      BY <1>4, Flattened DEF AreSequences
  <2> HIDE DEF parts, all
  <2>2. ToSet(all) \subseteq ToSet(set)
    <3>1. \A q \in ToSet(parts) : \E i \in 1..n : q = parts[i]
      BY <1>4 DEF ToSet
    <3>2. \A q \in ToSet(parts) : ToSet(q) \subseteq ToSet(set)
      BY <1>4, <3>1 DEF Alike
    <3>3. QED
      BY <2>1, <3>2
  <2>3. ASSUME NEW r \in ToSet(set) PROVE r \in ToSet(all)
    <3>1. PICK i \in 1..n : files[i] = FileOf(set, r).path
      <4>1. FileOf(set, r).path \in DOMAIN dir
        BY DEF HoldsFilesOf
      <4>2. FileOf(set, r).path \in ToSet(files)
        BY <1>1, <4>1
      <4>3. QED
        BY <1>1, <4>2 DEF ToSet
    <3>2. r \in Alike(set, rep(i))
      BY <1>3, <1>5, <3>1
    <3>3. r \in ToSet(parts[i]) /\ parts[i] \in ToSet(parts)
      BY <1>4, <3>2 DEF ToSet
    <3>4. QED
      BY <2>1, <3>3
  <2>4. QED
    BY <2>1, <2>2, <2>3
<1>7. objects = Objects(all)
  <2>1. ASSUME NEW i \in 1..n PROVE ObjectsOf(dir[files[i]]) = Objects(parts[i])
    <3>1. dir[files[i]] = FileOf(set, rep(i)).content
      BY <1>3 DEF HoldsFilesOf
    <3>2. ObjectsOf(dir[files[i]]) = Objects(Those(set, Alike(set, rep(i))))
      BY <3>1 DEF ObjectsOf, FileOf
    <3>3. QED
      BY <1>4, <3>2
  <2>2. [i \in DOMAIN files |-> ObjectsOf(dir[files[i]])] = [i \in DOMAIN parts |-> Objects(parts[i])]
    <3> HIDE DEF parts
    <3>1. QED
      BY <1>1, <1>4, <2>1
  <2>3. FlattenSeq([i \in DOMAIN parts |-> Objects(parts[i])]) = Objects(all)
    <3> HIDE DEF parts
    <3>1. QED
      BY <1>4, ObjectsOfParts
  <2>4. QED
    BY <2>2, <2>3
<1>8. Broken \notin Range(dir)
  <2>1. ASSUME NEW p \in DOMAIN dir PROVE dir[p] # Broken
    <3>1. PICK r \in ToSet(set) : dir[p] = FileOf(set, r).content
      BY DEF HoldsFilesOf
    <3>2. "items" \in DOMAIN dir[p] /\ "items" \notin DOMAIN Broken
      BY <3>1 DEF FileOf, Broken
    <3>3. QED
      BY <3>2
  <2>2. QED
    BY <2>1 DEF Range
<1>9. FilesOf(all) = FilesOf(set)
  <2>1. ASSUME NEW r \in ToSet(set) PROVE FileOf(all, r) = FileOf(set, r)
    <3>1. KindsAreTypes(all) /\ Alike(all, r) = Alike(set, r)
      BY <1>6 DEF KindsAreTypes, Alike
    <3>2. FileOf(all, r).path = FileOf(set, r).path
      <4> HIDE DEF all
      <4>1. QED
        BY <1>6, <3>1, FileHolds
    <3>3. PICK j \in 1..n : files[j] = FileOf(set, r).path
      <4>1. FileOf(set, r).path \in DOMAIN dir
        BY DEF HoldsFilesOf
      <4>2. FileOf(set, r).path \in ToSet(files)
        BY <1>1, <4>1
      <4>3. QED
        BY <1>1, <4>2 DEF ToSet
    <3>4. Alike(set, rep(j)) = Alike(set, r)
      <4>1. rep(j) \in ToSet(set) /\ FileOf(set, rep(j)).path = FileOf(set, r).path
        BY <1>3, <3>3
      <4>2. rep(j) \in Alike(set, r)
        BY <1>5, <4>1
      <4>3. QED
        BY <4>2 DEF Alike
    <3>5. parts[j] = Those(set, Alike(set, r)) /\ ToSet(parts[j]) \subseteq Alike(set, r)
      <4> HIDE DEF parts
      <4>1. QED
        BY <1>4, <3>4
    <3>6. ASSUME NEW i \in 1..n, i # j PROVE ToSet(parts[i]) \cap Alike(set, r) = {}
      <4>1. SUFFICES ASSUME NEW q \in Alike(set, r), q \in Alike(set, rep(i)) PROVE FALSE
        <5> HIDE DEF parts
        <5>1. QED
          BY <1>4
      <4>2. q \in ToSet(set)
        BY DEF Alike
      <4>3. FileOf(set, q).path = files[i] /\ FileOf(set, q).path = files[j]
        BY <1>3, <1>5, <3>3, <4>1, <4>2
      <4>4. QED
        BY <1>1, <3>6, <4>3
    <3>7. Those(all, Alike(set, r)) = parts[j]
      <4> HIDE DEF parts
      <4>1. QED
        BY <1>4, <3>5, <3>6, ThoseOfParts
    <3>8. QED
      BY <3>1, <3>2, <3>5, <3>7 DEF FileOf
  <2> HIDE DEF all
  <2>2. FilesOf(all) = {FileOf(all, r) : r \in ToSet(set)}
    BY <1>6, FilesAre
  <2>3. FilesOf(set) = {FileOf(set, r) : r \in ToSet(set)}
    BY FilesAre
  <2>4. QED
    BY <2>1, <2>2, <2>3
<1> HIDE DEF parts, all
<1>10. /\ DOMAIN objects = 1..Len(all) /\ Len(all) \in Nat /\ DOMAIN all = 1..Len(all)
       /\ all = [i \in 1..Len(all) |-> all[i]]
       /\ \A i \in 1..Len(all) : all[i] \in ToSet(set) /\ objects[i] = all[i].object
  <2> HIDE DEF objects
  <2>1. QED
    BY <1>6, <1>7, ObjectsAre, Places1
<1> HIDE DEF objects
<1>11. ASSUME NEW i \in 1..Len(all) PROVE TypesOf(objects[i]) = {all[i].type} /\ Cardinality(TypesOf(objects[i])) = 1
  <2>1. TypesOf(objects[i]) = {all[i].type}
    BY <1>10
  <2>2. QED
    BY <2>1, FS_Singleton
<1>12. \A o \in ToSet(objects) : Cardinality(TypesOf(o)) = 1
  BY <1>10, <1>11 DEF ToSet
<1>13. /\ ~ResourcesFromDir(dir).failed
       /\ ResourcesFromDir(dir).instances =
              [i \in DOMAIN objects |-> [type |-> CHOOSE t \in TypesOf(objects[i]) : TRUE, object |-> objects[i]]]
  BY <1>8, <1>12 DEF ResourcesFromDir, objects, files
<1>14. ASSUME NEW i \in 1..Len(all)
       PROVE  [type |-> CHOOSE t \in TypesOf(objects[i]) : TRUE, object |-> objects[i]] = all[i]
  <2>1. (CHOOSE t \in TypesOf(objects[i]) : TRUE) = all[i].type
    BY <1>11
  <2>2. all[i] = [type |-> all[i].type, object |-> all[i].object]
    BY <1>10
  <2>3. QED
    BY <1>10, <2>1, <2>2
<1>15. ResourcesFromDir(dir).instances = all
  BY <1>10, <1>13, <1>14
<1>16. QED
  BY <1>9, <1>13, <1>15

=============================================================================
