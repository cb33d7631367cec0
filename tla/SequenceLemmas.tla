---------------------------- MODULE SequenceLemmas ----------------------------
(***************************************************************************)
(* Induction over the naturals, with a set for the predicate, and what it  *)
(* gives about the parts of a sequence.  A recursive function is what its  *)
(* equation says only if a function satisfies the equation, which is shown *)
(* by building it up from its base.                                        *)
(***************************************************************************)
EXTENDS Selections, SequenceTheorems, WellFoundedInduction, TLAPS

\* A non-empty set of naturals has a least element.
LEMMA LeastNatural ==
  ASSUME NEW P \in SUBSET Nat, P # {}
  PROVE  \E m \in P : \A n \in P : m <= n
  <1> DEFINE Less == {p \in Nat \X Nat : p[1] < p[2]}
  <1>1. IsWellFoundedOn(Less, Nat)
    BY NatLessThanWellFounded DEF OpToRel
  <1>2. PICK m \in P : \A n \in P : ~ (<<n, m>> \in Less)
    BY <1>1, WFMin
  <1>3. \A k, n \in Nat : n < k => <<n, k>> \in Less
    OBVIOUS
  <1>4. \A n \in P : n \in Nat /\ ~ (n < m)
    BY <1>2, <1>3
  <1> QED BY <1>2, <1>4

\* A set that has 0, and each number with the one before it, has them all.
LEMMA Induction ==
  ASSUME NEW P, 0 \in P, \A n \in Nat : n \in P => n + 1 \in P
  PROVE  \A n \in Nat : n \in P
  <1> SUFFICES ASSUME Nat \ P # {} PROVE FALSE
    OBVIOUS
  <1>1. PICK n \in Nat \ P : \A m \in Nat \ P : n <= m
    BY LeastNatural
  <1>2. n # 0 /\ n - 1 \in Nat /\ n - 1 \in P
    BY <1>1
  <1> QED BY <1>1, <1>2

----------------------------------------------------------------------------
(* Picked.                                                                 *)

\* The function Picked is defined by exists, and gives sequences.
LEMMA PickedDefined ==
  ASSUME NEW S, NEW s \in Seq(S), NEW I
  PROVE  /\ PickedUpTo(s, I)[0] = <<>>
         /\ \A i \in 1..Len(s) :
              PickedUpTo(s, I)[i] = IF i \in I THEN Append(PickedUpTo(s, I)[i - 1], s[i])
                                    ELSE PickedUpTo(s, I)[i - 1]
  <1> DEFINE Value(f, i) == IF i = 0 THEN <<>>
                            ELSE IF i \in I THEN Append(f[i - 1], s[i]) ELSE f[i - 1]
             P == {n \in Nat : \E f : f = [i \in 0..n |-> Value(f, i)]}
  <1>1. \A f, g : \A i \in Nat : (i # 0 => f[i - 1] = g[i - 1]) => Value(f, i) = Value(g, i)
    OBVIOUS
  <1> HIDE DEF Value
  <1>2. 0 \in P
    <2> DEFINE f == [i \in 0..0 |-> Value(<<>>, i)]
    <2>1. \A i \in 0..0 : Value(<<>>, i) = Value(f, i)
      BY <1>1
    <2>2. f = [i \in 0..0 |-> Value(f, i)]
      BY <2>1
    <2> QED BY <2>2
  <1>3. ASSUME NEW n \in Nat, n \in P PROVE n + 1 \in P
    <2>1. PICK f : f = [i \in 0..n |-> Value(f, i)]
      BY <1>3
    <2> DEFINE g == [i \in 0..(n + 1) |-> IF i = n + 1 THEN Value(f, i) ELSE f[i]]
    <2>2. ASSUME NEW i \in 0..(n + 1) PROVE g[i] = Value(g, i)
      <3>1. i # 0 => g[i - 1] = f[i - 1]
        OBVIOUS
      <3>2. Value(f, i) = Value(g, i)
        <4> HIDE DEF g
        <4> QED BY <1>1, <3>1
      <3>3. i # n + 1 => i \in 0..n
        OBVIOUS
      <3>4. i # n + 1 => f[i] = Value(f, i)
        BY <2>1, <3>3, Zenon
      <3> QED BY <3>2, <3>4
    <2>3. g = [i \in 0..(n + 1) |-> Value(g, i)]
      <3>1. g = [i \in 0..(n + 1) |-> g[i]]
        OBVIOUS
      <3> HIDE DEF g
      <3> QED BY <2>2, <3>1
    <2> HIDE DEF g
    <2> QED BY <2>3
  <1>4. Len(s) \in P
    <2> HIDE DEF P
    <2> QED BY <1>2, <1>3, Induction
  <1>5. PickedUpTo(s, I) = [i \in 0..Len(s) |-> Value(PickedUpTo(s, I), i)]
    BY <1>4 DEF PickedUpTo, Value
  <1>6. \A i \in 0..Len(s) : PickedUpTo(s, I)[i] = Value(PickedUpTo(s, I), i)
    BY <1>5, Zenon
  <1> QED BY <1>6 DEF Value

\* What is picked is a sequence of elements of s, no longer than s.
LEMMA PickedUpToType ==
  ASSUME NEW S, NEW s \in Seq(S), NEW I, NEW n \in 0..Len(s)
  PROVE  PickedUpTo(s, I)[n] \in Seq(S) /\ Len(PickedUpTo(s, I)[n]) <= n
  <1> DEFINE f == PickedUpTo(s, I)
             P == {k \in Nat : k <= Len(s) => f[k] \in Seq(S) /\ Len(f[k]) <= k}
  <1> HIDE DEF f
  <1>1. Len(s) \in Nat /\ \A i \in 1..Len(s) : s[i] \in S
    BY ElementOfSeq
  <1>2. /\ f[0] = <<>>
        /\ \A i \in 1..Len(s) : f[i] = IF i \in I THEN Append(f[i - 1], s[i]) ELSE f[i - 1]
    BY PickedDefined DEF f
  <1>3. 0 \in P
    <2>1. <<>> \in Seq(S) /\ Len(<<>>) = 0
      BY EmptySeq
    <2>2. f[0] \in Seq(S) /\ Len(f[0]) <= 0
      BY <1>2, <2>1
    <2> QED BY <2>2
  <1>4. ASSUME NEW k \in Nat, k \in P PROVE k + 1 \in P
    <2> SUFFICES ASSUME k + 1 <= Len(s) PROVE f[k + 1] \in Seq(S) /\ Len(f[k + 1]) <= k + 1
      BY <1>1
    <2>1. f[k] \in Seq(S) /\ Len(f[k]) <= k /\ s[k + 1] \in S
      BY <1>1, <1>4
    <2>2. f[k + 1] = IF k + 1 \in I THEN Append(f[k], s[k + 1]) ELSE f[k]
      BY <1>1, <1>2
    <2>3. Append(f[k], s[k + 1]) \in Seq(S) /\ Len(Append(f[k], s[k + 1])) = Len(f[k]) + 1
      BY <2>1, AppendProperties
    <2>4. Len(f[k]) \in Nat
      BY <2>1
    <2> QED BY <2>1, <2>2, <2>3, <2>4
  <1>5. \A k \in Nat : k \in P
    <2> HIDE DEF P
    <2> QED BY <1>3, <1>4, Induction
  <1> QED BY <1>1, <1>5 DEF f

\* Picked gives a sequence of the same elements, no longer than the first.
LEMMA PickedType ==
  ASSUME NEW S, NEW s \in Seq(S), NEW I
  PROVE  Picked(s, I) \in Seq(S) /\ Len(Picked(s, I)) <= Len(s)
  <1>1. Len(s) \in 0..Len(s)
    OBVIOUS
  <1> QED BY <1>1, PickedUpToType DEF Picked

\* If no index of s is in the set, nothing is picked.
LEMMA PickedNone ==
  ASSUME NEW S, NEW s \in Seq(S), NEW I, \A i \in 1..Len(s) : i \notin I
  PROVE  Picked(s, I) = <<>>
  <1> DEFINE f == PickedUpTo(s, I)
             P == {k \in Nat : k <= Len(s) => f[k] = <<>>}
  <1> HIDE DEF f
  <1>1. /\ f[0] = <<>>
        /\ \A i \in 1..Len(s) : f[i] = IF i \in I THEN Append(f[i - 1], s[i]) ELSE f[i - 1]
    BY PickedDefined DEF f
  <1>2. 0 \in P
    BY <1>1
  <1>3. ASSUME NEW k \in Nat, k \in P PROVE k + 1 \in P
    BY <1>1, <1>3
  <1>4. \A k \in Nat : k \in P
    <2> HIDE DEF P
    <2> QED BY <1>2, <1>3, Induction
  <1>5. Len(s) \in Nat
    OBVIOUS
  <1> QED BY <1>4, <1>5 DEF f, Picked

\* What is picked depends on the elements and the indices in the set.
LEMMA PickedEqual ==
  ASSUME NEW S, NEW s \in Seq(S), NEW t \in Seq(S), NEW I, NEW J, Len(s) = Len(t),
         \A i \in 1..Len(s) : s[i] = t[i] /\ (i \in I <=> i \in J)
  PROVE  Picked(s, I) = Picked(t, J)
  <1> DEFINE f == PickedUpTo(s, I)
             g == PickedUpTo(t, J)
             P == {k \in Nat : k <= Len(s) => f[k] = g[k]}
  <1> HIDE DEF f, g
  <1>1. f[0] = g[0]
    BY PickedDefined DEF f, g
  <1>2. \A i \in 1..Len(s) : /\ f[i] = IF i \in I THEN Append(f[i - 1], s[i]) ELSE f[i - 1]
                             /\ g[i] = IF i \in J THEN Append(g[i - 1], t[i]) ELSE g[i - 1]
    BY PickedDefined DEF f, g
  <1>3. 0 \in P
    BY <1>1
  <1>4. ASSUME NEW k \in Nat, k \in P PROVE k + 1 \in P
    <2> SUFFICES ASSUME k + 1 <= Len(s) PROVE f[k + 1] = g[k + 1]
      OBVIOUS
    <2>1. f[k] = g[k] /\ k + 1 \in 1..Len(s) /\ s[k + 1] = t[k + 1]
      BY <1>4
    <2> QED BY <1>2, <2>1
  <1>5. \A k \in Nat : k \in P
    <2> HIDE DEF P
    <2> QED BY <1>3, <1>4, Induction
  <1>6. Len(s) \in Nat
    OBVIOUS
  <1> QED BY <1>5, <1>6 DEF f, g, Picked

\* What is picked of the head and of the tail make up what is picked.
LEMMA PickedHead ==
  ASSUME NEW S, NEW s \in Seq(S), NEW I, s # <<>>,
         NEW J, \A i \in 1..(Len(s) - 1) : i \in J <=> i + 1 \in I
  PROVE  Picked(s, I) = (IF 1 \in I THEN <<Head(s)>> ELSE <<>>) \o Picked(Tail(s), J)
  <1> DEFINE t == Tail(s)
             f == PickedUpTo(s, I)
             g == PickedUpTo(t, J)
             h == IF 1 \in I THEN <<Head(s)>> ELSE <<>>
             P == {k \in Nat : k < Len(s) => f[k + 1] = h \o g[k]}
  <1>1. /\ Len(s) \in Nat \ {0} /\ Len(t) = Len(s) - 1 /\ t \in Seq(S)
        /\ \A i \in 1..Len(t) : t[i] = s[i + 1]
        /\ s[1] = Head(s) /\ Head(s) \in S
        /\ \A i \in 1..Len(s) : s[i] \in S
    BY EmptySeq, HeadTailProperties, ElementOfSeq
  <1> HIDE DEF t, f, g
  <1>2. h \in Seq(S)
    BY <1>1
  <1>3. /\ f[0] = <<>>
        /\ \A i \in 1..Len(s) : f[i] = IF i \in I THEN Append(f[i - 1], s[i]) ELSE f[i - 1]
    BY PickedDefined DEF f
  <1>4. /\ g[0] = <<>>
        /\ \A i \in 1..Len(t) : g[i] = IF i \in J THEN Append(g[i - 1], t[i]) ELSE g[i - 1]
        /\ \A i \in 0..Len(t) : g[i] \in Seq(S)
    BY <1>1, PickedDefined, PickedUpToType DEF g
  <1>5. 0 \in P
    <2>0. 1 \in 1..Len(s) /\ 1 - 1 = 0
      BY <1>1
    <2>1. f[1] = IF 1 \in I THEN Append(f[0], s[1]) ELSE f[0]
      BY <1>3, <2>0
    <2>2. f[1] = h
      <3>1. Append(<<>>, s[1]) = <<s[1]>>
        OBVIOUS
      <3> QED BY <1>1, <1>3, <2>1, <3>1
    <2> HIDE DEF h
    <2>3. h \o g[0] = h
      BY <1>2, <1>4, ConcatEmptySeq
    <2> QED BY <2>2, <2>3
  <1> HIDE DEF h
  <1>6. ASSUME NEW k \in Nat, k \in P PROVE k + 1 \in P
    <2> SUFFICES ASSUME k + 1 < Len(s) PROVE f[k + 2] = h \o g[k + 1]
      BY <1>1
    <2>1. f[k + 1] = h \o g[k]
      BY <1>1, <1>6
    <2>2. k + 1 \in 1..Len(t) /\ k + 2 \in 1..Len(s) /\ s[k + 2] = t[k + 1]
      BY <1>1
    <2>3. /\ f[k + 2] = IF k + 2 \in I THEN Append(f[k + 1], s[k + 2]) ELSE f[k + 1]
          /\ g[k + 1] = IF k + 1 \in J THEN Append(g[k], s[k + 2]) ELSE g[k]
          /\ k + 1 \in J <=> k + 2 \in I
      BY <1>1, <1>3, <1>4, <2>2
    <2>4. g[k] \in Seq(S)
      BY <1>1, <1>4, <2>2
    <2>5. s[k + 2] \in S
      BY <1>1, <2>2
    <2>6. \A e \in S : Append(h \o g[k], e) = h \o Append(g[k], e)
      <3> SUFFICES ASSUME NEW e \in S PROVE Append(h \o g[k], e) = h \o Append(g[k], e)
        OBVIOUS
      <3> DEFINE v == g[k]
                 one == <<e>>
      <3>1. one \in Seq(S) /\ h \o v \in Seq(S) /\ v \in Seq(S)
        BY <1>2, <2>4, ConcatProperties
      <3> HIDE DEF v, one
      <3>2. (h \o v) \o one = h \o (v \o one)
        BY <1>2, <3>1, ConcatAssociative
      <3> USE DEF v, one
      <3>3. Append(h \o g[k], e) = (h \o g[k]) \o <<e>> /\ Append(g[k], e) = g[k] \o <<e>>
        BY <3>1, <2>4, AppendIsConcat
      <3> QED BY <3>2, <3>3
    <2> QED BY <2>1, <2>3, <2>5, <2>6
  <1>7. \A k \in Nat : k \in P
    <2> HIDE DEF P
    <2> QED BY <1>5, <1>6, Induction
  <1>8. f[Len(s)] = h \o g[Len(t)]
    <2> DEFINE k == Len(s) - 1
    <2>1. k \in Nat /\ k < Len(s) /\ k + 1 = Len(s) /\ k = Len(t)
      BY <1>1
    <2> HIDE DEF k
    <2>2. f[k + 1] = h \o g[k]
      BY <1>7, <2>1
    <2> QED BY <2>1, <2>2
  <1> QED BY <1>8 DEF t, f, g, h, Picked

==============================================================================
