----------------------------- MODULE Setup_proofs -----------------------------
(***************************************************************************)
(* What is proved of setup and uninstall, in three parts: what the edits   *)
(* of a hook list do to every list; the protocol that writes the list to a *)
(* file (SettingsFile), for any number of commands, hook lists and saves,  *)
(* and the atomic replacement it implements; and the trust of the hook     *)
(* that was installed (CodexTrust).                                        *)
(***************************************************************************)
EXTENDS SettingsFile, CodexTrust, TLAPS, SequenceTheorems, WellFoundedInduction

-----------------------------------------------------------------------------
(* The edits of a hook list *)

LEMMA Least ==
  ASSUME NEW S \in SUBSET Nat, S # {}
  PROVE  \E n \in S : \A m \in S : n <= m
<1> DEFINE R == OpToRel(<, Nat)
<1>1. IsWellFoundedOn(R, Nat)
  BY NatLessThanWellFounded
<1>2. \A x, y \in Nat : x < y => <<x, y>> \in R
  BY DEF OpToRel
<1> HIDE DEF R
<1>3. PICK n \in S : \A m \in S : <<m, n>> \notin R
  BY <1>1, WFMin
<1>4. \A m \in S : ~(m < n)
  BY <1>2, <1>3
<1>5. n \in Nat /\ \A m \in S : m \in Nat
  OBVIOUS
<1>6. \A m \in S : n <= m
  BY <1>4, <1>5
<1> QED BY <1>6

\* Induction over sequences: what holds of the empty one and survives an
\* appended element holds of all.
LEMMA SeqInduct ==
  ASSUME NEW S, NEW T, <<>> \in T, \A s \in T \cap Seq(S), e \in S : Append(s, e) \in T
  PROVE  Seq(S) \subseteq T
<1> SUFFICES ASSUME NEW s \in Seq(S), s \notin T PROVE FALSE
  OBVIOUS
<1> DEFINE N == {Len(t) : t \in Seq(S) \ T}
<1>1. N \in SUBSET Nat /\ N # {}
  <2>1. \A t \in Seq(S) : Len(t) \in Nat
    OBVIOUS
  <2>2. Len(s) \in N
    OBVIOUS
  <2> QED BY <2>1, <2>2
<1>2. PICK n \in N : \A m \in N : n <= m
  BY <1>1, Least
<1>3. PICK t \in Seq(S) \ T : Len(t) = n
  BY <1>2
<1>4. t # <<>>
  BY <1>3
<1>5. PICK u \in Seq(S), e \in S : t = Append(u, e)
  BY <1>4, SequenceEmptyOrAppend
<1>6. Len(u) < Len(t)
  BY <1>5
<1>7. Len(u) \in Nat /\ Len(t) \in Nat /\ ~(Len(t) <= Len(u))
  BY <1>6
<1>8. u \in T
  BY <1>2, <1>3, <1>7
<1> QED BY <1>3, <1>5, <1>8

\* f[i] is the concatenation of the first i sequences of l.
IsFlattening(f, l) == f = [i \in 1..Len(l) |-> IF i = 1 THEN l[i] ELSE f[i - 1] \o l[i]]

\* FlattenSeq chooses the function of partial concatenations; there is one,
\* for every sequence of sequences.
LEMMA FlatteningExists ==
  ASSUME NEW S
  PROVE  \A l \in Seq(Seq(S)) : \E f \in [1..Len(l) -> Seq(S)] : IsFlattening(f, l)
<1> DEFINE T == {l \in Seq(Seq(S)) : \E f \in [1..Len(l) -> Seq(S)] : IsFlattening(f, l)}
<1>1. <<>> \in T
  <2> DEFINE f == [i \in 1..0 |-> <<>>]
  <2>1. f \in [1..Len(<<>>) -> Seq(S)] /\ IsFlattening(f, <<>>)
    BY DEF IsFlattening
  <2>2. <<>> \in Seq(Seq(S))
    OBVIOUS
  <2> HIDE DEF f
  <2> QED BY <2>1, <2>2
<1>2. ASSUME NEW l \in T, NEW g \in Seq(S) PROVE Append(l, g) \in T
  <2>1. l \in Seq(Seq(S)) /\ \E f \in [1..Len(l) -> Seq(S)] : IsFlattening(f, l)
    OBVIOUS
  <2> HIDE DEF T
  <2>2. PICK f \in [1..Len(l) -> Seq(S)] : IsFlattening(f, l)
    BY <2>1
  <2> DEFINE n == Len(l)
             t == Append(l, g)
             e == [i \in 1..(n + 1) |-> IF i <= n THEN f[i] ELSE IF n = 0 THEN g ELSE f[n] \o g]
  <2>3. /\ n \in Nat /\ Len(t) = n + 1 /\ t \in Seq(Seq(S)) /\ t[n + 1] = g
        /\ \A i \in 1..n : t[i] = l[i]
    BY <2>1
  <2>4. e \in [1..(n + 1) -> Seq(S)]
    <3>1. \A i \in 1..n : f[i] \in Seq(S)
      BY <2>2
    <3>2. n # 0 => n \in 1..n
      BY <2>3
    <3>3. n # 0 => f[n] \o g \in Seq(S)
      BY <3>1, <3>2, ConcatProperties
    <3> HIDE DEF n
    <3>4. \A i \in 1..(n + 1) : i <= n => i \in 1..n
      BY <2>3
    <3> QED BY <3>1, <3>3, <3>4
  <2>5. \A i \in 1..n : f[i] = IF i = 1 THEN l[i] ELSE f[i - 1] \o l[i]
    BY <2>2, <2>3 DEF IsFlattening
  <2>6. \A i \in 1..(n + 1) : e[i] = IF i = 1 THEN t[i] ELSE e[i - 1] \o t[i]
    <3> HIDE DEF t
    <3> TAKE i \in 1..(n + 1)
    <3>1. CASE i = n + 1
      BY <2>3, <3>1
    <3>2. CASE i # n + 1
      <4>1. i \in 1..n /\ (i # 1 => i - 1 \in 1..n)
        BY <2>3, <3>2
      <4>2. e[i] = f[i] /\ (i # 1 => e[i - 1] = f[i - 1]) /\ t[i] = l[i]
        BY <2>3, <4>1
      <4> QED BY <2>5, <4>1, <4>2
    <3> QED BY <3>1, <3>2
  <2> HIDE DEF e, t
  <2>7. IsFlattening(e, t)
    BY <2>3, <2>4, <2>6 DEF IsFlattening
  <2> QED BY <2>3, <2>4, <2>7 DEF T, t
<1> HIDE DEF T
<1>3. Seq(Seq(S)) \subseteq T
  BY <1>1, <1>2, SeqInduct
<1> QED BY <1>3 DEF T

\* FlattenSeq(l) is the last partial concatenation.
LEMMA FlattenRec ==
  ASSUME NEW S, NEW l \in Seq(Seq(S))
  PROVE  \E f \in [1..Len(l) -> Seq(S)] :
           /\ \A i \in 1..Len(l) : f[i] = IF i = 1 THEN l[i] ELSE f[i - 1] \o l[i]
           /\ FlattenSeq(l) = IF Len(l) = 0 THEN <<>> ELSE f[Len(l)]
<1> DEFINE F == CHOOSE f : IsFlattening(f, l)
<1>1. FlattenSeq(l) = IF Len(l) = 0 THEN l ELSE F[Len(l)]
  BY DEF FlattenSeq, IsFlattening
<1>2. IsFlattening(F, l)
  BY FlatteningExists
<1>3. PICK f \in [1..Len(l) -> Seq(S)] : IsFlattening(f, l)
  BY FlatteningExists
<1> HIDE DEF F
<1>4. DOMAIN F = 1..Len(l) /\ \A i \in 1..Len(l) : F[i] = IF i = 1 THEN l[i] ELSE F[i - 1] \o l[i]
  BY <1>2 DEF IsFlattening
<1>5. F \in [1..Len(l) -> Seq(S)]
  <2> DEFINE B == {i \in 1..Len(l) : F[i] \notin Seq(S)}
  <2> SUFFICES ASSUME B # {} PROVE FALSE
    BY <1>2, <1>4 DEF IsFlattening
  <2>1. B \in SUBSET Nat
    OBVIOUS
  <2>2. PICK i \in B : \A j \in B : i <= j
    BY <2>1, Least
  <2>3. i \in 1..Len(l) /\ Len(l) \in Nat /\ l[i] \in Seq(S)
    OBVIOUS
  <2>4. i # 1
    BY <1>4, <2>2, <2>3
  <2>5. i - 1 \in 1..Len(l) /\ ~(i <= i - 1)
    BY <2>3, <2>4
  <2>6. F[i - 1] \in Seq(S)
    BY <2>2, <2>5
  <2>7. F[i] = F[i - 1] \o l[i]
    BY <1>4, <2>3, <2>4
  <2>8. F[i] \in Seq(S)
    BY <2>3, <2>6, <2>7, ConcatProperties
  <2> QED BY <2>2, <2>8
<1>6. Len(l) = 0 => l = <<>>
  OBVIOUS
<1> QED BY <1>1, <1>4, <1>5, <1>6

\* FlattenSeq, element by element from the end.
LEMMA FlattenProps ==
  ASSUME NEW S
  PROVE  /\ FlattenSeq(<<>>) = <<>>
         /\ \A l \in Seq(Seq(S)) : FlattenSeq(l) \in Seq(S)
         /\ \A l \in Seq(Seq(S)), g \in Seq(S) : FlattenSeq(Append(l, g)) = FlattenSeq(l) \o g
<1>1. FlattenSeq(<<>>) = <<>>
  BY DEF FlattenSeq
<1>2. ASSUME NEW l \in Seq(Seq(S)) PROVE FlattenSeq(l) \in Seq(S)
  <2>1. Len(l) \in Nat
    OBVIOUS
  <2> QED BY <2>1, FlattenRec
<1>3. ASSUME NEW l \in Seq(Seq(S)), NEW g \in Seq(S)
      PROVE  FlattenSeq(Append(l, g)) = FlattenSeq(l) \o g
  <2> DEFINE n == Len(l)
             t == Append(l, g)
  <2>1. /\ n \in Nat /\ Len(t) = n + 1 /\ t \in Seq(Seq(S)) /\ t[n + 1] = g
        /\ \A i \in 1..n : t[i] = l[i]
    OBVIOUS
  <2> HIDE DEF t
  <2>2. PICK f \in [1..n -> Seq(S)] :
           /\ \A i \in 1..n : f[i] = IF i = 1 THEN l[i] ELSE f[i - 1] \o l[i]
           /\ FlattenSeq(l) = IF n = 0 THEN <<>> ELSE f[n]
    BY FlattenRec
  <2>3. PICK e \in [1..(n + 1) -> Seq(S)] :
           /\ \A i \in 1..(n + 1) : e[i] = IF i = 1 THEN t[i] ELSE e[i - 1] \o t[i]
           /\ FlattenSeq(t) = IF n + 1 = 0 THEN <<>> ELSE e[n + 1]
    <3>1. \E e \in [1..Len(t) -> Seq(S)] :
             /\ \A i \in 1..Len(t) : e[i] = IF i = 1 THEN t[i] ELSE e[i - 1] \o t[i]
             /\ FlattenSeq(t) = IF Len(t) = 0 THEN <<>> ELSE e[Len(t)]
      BY <2>1, FlattenRec
    <3> QED BY <2>1, <3>1
  <2>4. \A i \in 1..n : e[i] = f[i]
    <3> DEFINE B == {i \in 1..n : e[i] # f[i]}
    <3> SUFFICES ASSUME B # {} PROVE FALSE
      OBVIOUS
    <3>1. B \in SUBSET Nat
      OBVIOUS
    <3>2. PICK i \in B : \A j \in B : i <= j
      BY <3>1, Least
    <3>3. i \in 1..n /\ i \in 1..(n + 1)
      BY <2>1
    <3>4. i # 1
      BY <2>1, <2>2, <2>3, <3>2, <3>3
    <3>5. i - 1 \in 1..n /\ ~(i <= i - 1)
      <4> HIDE DEF n, B
      <4> QED BY <2>1, <3>3, <3>4
    <3>6. e[i - 1] = f[i - 1]
      BY <3>2, <3>5
    <3>7. e[i] = e[i - 1] \o t[i] /\ f[i] = f[i - 1] \o l[i] /\ t[i] = l[i]
      BY <2>1, <2>2, <2>3, <3>3, <3>4
    <3>8. e[i] # f[i]
      BY <3>2
    <3> QED BY <3>6, <3>7, <3>8
  <2>5. FlattenSeq(t) = e[n + 1] /\ e[n + 1] = IF n = 0 THEN g ELSE e[n] \o g
    <3>1. n + 1 \in 1..(n + 1) /\ n + 1 # 0 /\ (n + 1) - 1 = n /\ (n + 1 = 1 <=> n = 0)
      BY <2>1
    <3> QED BY <2>1, <2>3, <3>1
  <2>6. CASE n = 0
    <3>1. FlattenSeq(l) = <<>>
      BY <2>2, <2>6
    <3>2. <<>> \o g = g
      BY ConcatEmptySeq
    <3> QED BY <2>5, <2>6, <3>1, <3>2 DEF t
  <2>7. CASE n # 0
    <3>1. n \in 1..n
      BY <2>1, <2>7
    <3> QED BY <2>2, <2>4, <2>5, <2>7, <3>1 DEF t
  <2> QED BY <2>6, <2>7
<1> QED BY <1>1, <1>2, <1>3

\* The pieces P gives for the elements of s, joined.
FlatMap(P, s) == FlattenSeq([i \in DOMAIN s |-> P[s[i]]])

\* The pieces joined are a sequence of what the pieces hold.
LEMMA FlatMapType ==
  ASSUME NEW S, NEW R, NEW P \in [S -> Seq(R)], NEW s \in Seq(S)
  PROVE  [i \in DOMAIN s |-> P[s[i]]] \in Seq(Seq(R)) /\ FlatMap(P, s) \in Seq(R)
<1> DEFINE l == [i \in 1..Len(s) |-> P[s[i]]]
<1>1. \A i \in 1..Len(s) : P[s[i]] \in Seq(R)
  OBVIOUS
<1>2. l \in Seq(Seq(R))
  BY <1>1, IsASeq
<1>3. DOMAIN s = 1..Len(s)
  OBVIOUS
<1>4. [i \in DOMAIN s |-> P[s[i]]] \in Seq(Seq(R))
  BY <1>2, <1>3
<1> QED BY <1>4, FlattenProps DEF FlatMap

\* One more element adds its piece.
LEMMA FlatMapAppend ==
  ASSUME NEW S, NEW R, NEW P \in [S -> Seq(R)], NEW s \in Seq(S), NEW e \in S
  PROVE  FlatMap(P, Append(s, e)) = FlatMap(P, s) \o P[e]
<1> DEFINE t == Append(s, e)
           l == [i \in DOMAIN s |-> P[s[i]]]
           m == [i \in DOMAIN t |-> P[t[i]]]
           a == Append(l, P[e])
<1>1. /\ DOMAIN s = 1..Len(s) /\ Len(s) \in Nat /\ DOMAIN t = 1..(Len(s) + 1)
      /\ t[Len(s) + 1] = e /\ \A i \in 1..Len(s) : t[i] = s[i]
  OBVIOUS
<1>2. l \in Seq(Seq(R))
  BY FlatMapType
<1>3. DOMAIN l = 1..Len(s) /\ \A i \in 1..Len(s) : l[i] = P[s[i]]
  BY <1>1
<1> HIDE DEF t
<1>4. DOMAIN m = 1..(Len(s) + 1) /\ \A i \in 1..(Len(s) + 1) : m[i] = P[t[i]]
  BY <1>1
<1> HIDE DEF l
<1>5. Len(l) = Len(s) /\ P[e] \in Seq(R)
  BY <1>1, <1>2, <1>3
<1>6. /\ DOMAIN a = 1..(Len(s) + 1) /\ a[Len(s) + 1] = P[e] /\ a = [i \in DOMAIN a |-> a[i]]
      /\ \A i \in 1..Len(s) : a[i] = l[i]
  BY <1>1, <1>2, <1>5
<1>7. m = [i \in DOMAIN m |-> m[i]]
  OBVIOUS
<1> HIDE DEF m, a
<1>8. \A i \in 1..(Len(s) + 1) : m[i] = a[i]
  <2> TAKE i \in 1..(Len(s) + 1)
  <2>1. CASE i = Len(s) + 1
    BY <1>1, <1>4, <1>6, <2>1
  <2>2. CASE i # Len(s) + 1
    <3>1. i \in 1..Len(s)
      BY <1>1, <2>2
    <3> QED BY <1>1, <1>3, <1>4, <1>6, <3>1
  <2> QED BY <2>1, <2>2
<1>9. m = Append(l, P[e])
  BY <1>4, <1>6, <1>7, <1>8 DEF a
<1>10. FlattenSeq(Append(l, P[e])) = FlattenSeq(l) \o P[e]
  BY <1>2, <1>5, FlattenProps
<1>11. FlatMap(P, t) = FlattenSeq(m) /\ FlatMap(P, s) = FlattenSeq(l)
  BY DEF FlatMap, m, l
<1> QED BY <1>9, <1>10, <1>11 DEF t

\* Without joins, for every handler, itself or nothing.
LEMMA WithoutAsMap ==
  ASSUME NEW S, NEW C
  PROVE  \E P \in [S -> Seq(S)] :
           /\ \A e \in S : P[e] = IF e.command \in C THEN <<>> ELSE <<e>>
           /\ \A s \in Seq(S) : Without(s, C) = FlatMap(P, s)
<1> DEFINE P == [h \in S |-> IF h.command \in C THEN <<>> ELSE <<h>>]
<1>1. P \in [S -> Seq(S)]
  OBVIOUS
<1>2. ASSUME NEW s \in Seq(S)
      PROVE  Without(s, C) = FlatMap(P, s)
  <2>1. [i \in DOMAIN s |-> P[s[i]]]
          = [i \in DOMAIN s |-> IF s[i].command \in C THEN <<>> ELSE <<s[i]>>]
    OBVIOUS
  <2> QED BY <2>1 DEF Without, FlatMap
<1>3. \A e \in S : P[e] = IF e.command \in C THEN <<>> ELSE <<e>>
  OBVIOUS
<1> HIDE DEF P
<1> QED BY <1>1, <1>2, <1>3

\* An empty group stays empty.
LEMMA WithoutEmpty == ASSUME NEW C PROVE Without(<<>>, C) = <<>>
<1>1. [i \in DOMAIN <<>> |-> IF <<>>[i].command \in C THEN <<>> ELSE << <<>>[i] >>] = <<>>
  OBVIOUS
<1> QED BY <1>1, FlattenProps DEF Without

\* What is left of a group is a group.
LEMMA WithoutType ==
  ASSUME NEW S, NEW C, NEW s \in Seq(S)
  PROVE  Without(s, C) \in Seq(S)
<1>1. PICK P \in [S -> Seq(S)] :
        /\ \A h \in S : P[h] = IF h.command \in C THEN <<>> ELSE <<h>>
        /\ \A r \in Seq(S) : Without(r, C) = FlatMap(P, r)
  BY WithoutAsMap
<1>2. FlatMap(P, s) \in Seq(S)
  BY FlatMapType
<1> QED BY <1>1, <1>2

\* The last handler stays, or goes.
LEMMA WithoutAppend ==
  ASSUME NEW S, NEW C, NEW s \in Seq(S), NEW e \in S
  PROVE  Without(Append(s, e), C) =
           IF e.command \in C THEN Without(s, C) ELSE Append(Without(s, C), e)
<1>1. PICK P \in [S -> Seq(S)] :
        /\ \A h \in S : P[h] = IF h.command \in C THEN <<>> ELSE <<h>>
        /\ \A r \in Seq(S) : Without(r, C) = FlatMap(P, r)
  BY WithoutAsMap
<1>2. FlatMap(P, Append(s, e)) = FlatMap(P, s) \o P[e]
  BY FlatMapAppend
<1>3. Append(s, e) \in Seq(S) /\ Without(s, C) \in Seq(S)
  BY WithoutType
<1>4. Without(Append(s, e), C) = Without(s, C) \o P[e]
  BY <1>1, <1>2, <1>3
<1>5. Without(s, C) \o <<>> = Without(s, C) /\ Without(s, C) \o <<e>> = Append(Without(s, C), e)
  BY <1>3, ConcatEmptySeq, AppendIsConcat
<1> QED BY <1>1, <1>4, <1>5

\* Handlers go from two groups as they go from the two joined.
LEMMA WithoutConcat ==
  ASSUME NEW S, NEW C, NEW s \in Seq(S)
  PROVE  \A t \in Seq(S) : Without(s \o t, C) = Without(s, C) \o Without(t, C)
<1> DEFINE T == {t \in Seq(S) : Without(s \o t, C) = Without(s, C) \o Without(t, C)}
<1>1. <<>> \in T
  <2>1. Without(s, C) \in Seq(S)
    BY WithoutType
  <2> QED BY <2>1, WithoutEmpty, ConcatEmptySeq
<1>2. ASSUME NEW t \in T \cap Seq(S), NEW e \in S PROVE Append(t, e) \in T
  <2>1. t \in Seq(S) /\ Without(s \o t, C) = Without(s, C) \o Without(t, C)
    OBVIOUS
  <2>2. s \o t \in Seq(S) /\ s \o Append(t, e) = Append(s \o t, e) /\ Append(t, e) \in Seq(S)
    OBVIOUS
  <2> HIDE DEF T
  <2>3. Without(s, C) \in Seq(S) /\ Without(t, C) \in Seq(S)
    BY <2>1, WithoutType
  <2> DEFINE st == s \o t
  <2>6. st \in Seq(S)
    BY <2>2
  <2> HIDE DEF st
  <2>4. Without(s, C) \o Append(Without(t, C), e) = Append(Without(s, C) \o Without(t, C), e)
    BY <2>3
  <2>5. Without(s \o Append(t, e), C) = Without(s, C) \o Without(Append(t, e), C)
    <3>1. CASE e.command \in C
      <4>1. Without(Append(t, e), C) = Without(t, C)
        BY <2>1, <3>1, WithoutAppend
      <4>2. Without(Append(s \o t, e), C) = Without(s \o t, C)
        BY <2>2, <3>1, WithoutAppend
      <4> QED BY <2>1, <2>2, <4>1, <4>2
    <3>2. CASE e.command \notin C
      <4>1. Without(Append(t, e), C) = Append(Without(t, C), e)
        BY <2>1, <3>2, WithoutAppend
      <4>2. Without(Append(st, e), C) = Append(Without(st, C), e)
        BY <2>6, <3>2, WithoutAppend
      <4> QED BY <2>1, <2>2, <2>4, <4>1, <4>2 DEF st
    <3> QED BY <3>1, <3>2
  <2> QED BY <2>2, <2>5 DEF T
<1> HIDE DEF T
<1>3. Seq(S) \subseteq T
  BY <1>1, <1>2, SeqInduct
<1> QED BY <1>3 DEF T

\* Removing one set of commands, then another, removes both.
LEMMA WithoutTwice ==
  ASSUME NEW S, NEW C, NEW D
  PROVE  \A s \in Seq(S) : Without(Without(s, C), D) = Without(s, C \cup D)
<1> DEFINE T == {s \in Seq(S) : Without(Without(s, C), D) = Without(s, C \cup D)}
<1>1. <<>> \in T
  BY WithoutEmpty
<1>2. ASSUME NEW s \in T \cap Seq(S), NEW e \in S PROVE Append(s, e) \in T
  <2>1. s \in Seq(S) /\ Without(Without(s, C), D) = Without(s, C \cup D)
    OBVIOUS
  <2> HIDE DEF T
  <2>2. Without(s, C) \in Seq(S) /\ Append(s, e) \in Seq(S)
    BY <2>1, WithoutType
  <2>3. Without(Without(Append(s, e), C), D) = Without(Append(s, e), C \cup D)
    <3>1. CASE e.command \in C
      BY <2>1, <3>1, WithoutAppend
    <3>2. CASE e.command \in D \ C
      <4>1. Without(Append(s, e), C) = Append(Without(s, C), e)
        BY <2>1, <3>2, WithoutAppend
      <4>2. Without(Append(Without(s, C), e), D) = Without(Without(s, C), D)
        BY <2>2, <3>2, WithoutAppend
      <4>3. Without(Append(s, e), C \cup D) = Without(s, C \cup D)
        BY <2>1, <3>2, WithoutAppend
      <4> QED BY <2>1, <4>1, <4>2, <4>3
    <3>3. CASE e.command \notin C \cup D
      <4>1. Without(Append(s, e), C) = Append(Without(s, C), e)
        BY <2>1, <3>3, WithoutAppend
      <4>2. Without(Append(Without(s, C), e), D) = Append(Without(Without(s, C), D), e)
        BY <2>2, <3>3, WithoutAppend
      <4>3. Without(Append(s, e), C \cup D) = Append(Without(s, C \cup D), e)
        BY <2>1, <3>3, WithoutAppend
      <4> QED BY <2>1, <4>1, <4>2, <4>3
    <3> QED BY <3>1, <3>2, <3>3
  <2> QED BY <2>2, <2>3 DEF T
<1> HIDE DEF T
<1>3. Seq(S) \subseteq T
  BY <1>1, <1>2, SeqInduct
<1> QED BY <1>3 DEF T

\* Nothing is left when every command goes ...
LEMMA WithoutAll ==
  ASSUME NEW S, NEW C, \A e \in S : e.command \in C
  PROVE  \A s \in Seq(S) : Without(s, C) = <<>>
<1> DEFINE T == {s \in Seq(S) : Without(s, C) = <<>>}
<1>1. <<>> \in T
  BY WithoutEmpty
<1>2. ASSUME NEW s \in T \cap Seq(S), NEW e \in S PROVE Append(s, e) \in T
  BY WithoutAppend
<1> HIDE DEF T
<1>3. Seq(S) \subseteq T
  BY <1>1, <1>2, SeqInduct
<1> QED BY <1>3 DEF T

\* ... and everything when none does.
LEMMA WithoutNone ==
  ASSUME NEW S, NEW C
  PROVE  \A s \in Seq(S) : (\A i \in DOMAIN s : s[i].command \notin C) => Without(s, C) = s
<1> DEFINE Clean(s) == \A i \in DOMAIN s : s[i].command \notin C
           T == {s \in Seq(S) : Clean(s) => Without(s, C) = s}
<1>1. <<>> \in T
  BY WithoutEmpty
<1>2. ASSUME NEW s \in T \cap Seq(S), NEW e \in S PROVE Append(s, e) \in T
  <2>4. Append(s, e) \in Seq(S) /\ (Clean(s) => Without(s, C) = s)
    OBVIOUS
  <2> SUFFICES ASSUME Clean(Append(s, e)) PROVE Without(Append(s, e), C) = Append(s, e)
    BY <2>4
  <2>1. DOMAIN s = 1..Len(s) /\ DOMAIN Append(s, e) = 1..(Len(s) + 1) /\ Len(s) \in Nat
    OBVIOUS
  <2>2. Append(s, e)[Len(s) + 1] = e /\ \A i \in 1..Len(s) : Append(s, e)[i] = s[i]
    OBVIOUS
  <2>3. e.command \notin C /\ Clean(s)
    BY <2>1, <2>2
  <2> QED BY <2>3, <2>4, WithoutAppend
<1> HIDE DEF T
<1>3. Seq(S) \subseteq T
  BY <1>1, <1>2, SeqInduct
<1> QED BY <1>3 DEF T

\* Removal joins, for every group, what is kept of it or nothing.
LEMMA RemoveAsMap ==
  ASSUME NEW S
  PROVE  \E P \in [Seq(S) -> Seq(Seq(S))] :
           /\ \A g \in Seq(S) : P[g] = IF Kept(g) = <<>> THEN <<>> ELSE <<Kept(g)>>
           /\ \A l \in Seq(Seq(S)) : RemoveGatekeeperHook(l) = FlatMap(P, l)
<1> DEFINE P == [g \in Seq(S) |-> IF Kept(g) = <<>> THEN <<>> ELSE <<Kept(g)>>]
<1>1. P \in [Seq(S) -> Seq(Seq(S))]
  <2>1. \A g \in Seq(S) : Kept(g) \in Seq(S)
    BY WithoutType DEF Kept
  <2> QED BY <2>1
<1>2. ASSUME NEW l \in Seq(Seq(S))
      PROVE  RemoveGatekeeperHook(l) = FlatMap(P, l)
  <2>1. [i \in DOMAIN l |-> P[l[i]]]
          = [i \in DOMAIN l |-> IF Kept(l[i]) = <<>> THEN <<>> ELSE <<Kept(l[i])>>]
    OBVIOUS
  <2> QED BY <2>1 DEF RemoveGatekeeperHook, FlatMap
<1>3. \A g \in Seq(S) : P[g] = IF Kept(g) = <<>> THEN <<>> ELSE <<Kept(g)>>
  OBVIOUS
<1> HIDE DEF P
<1> QED BY <1>1, <1>2, <1>3

\* An empty list stays empty.
LEMMA RemoveEmpty == RemoveGatekeeperHook(<<>>) = <<>>
<1> DEFINE l == <<>>
<1>1. [i \in DOMAIN l |-> IF Kept(l[i]) = <<>> THEN <<>> ELSE <<Kept(l[i])>>] = <<>>
  OBVIOUS
<1> QED BY <1>1, FlattenProps DEF RemoveGatekeeperHook

\* What is left of a list is a list.
LEMMA RemoveType ==
  ASSUME NEW S, NEW l \in Seq(Seq(S))
  PROVE  RemoveGatekeeperHook(l) \in Seq(Seq(S))
<1>1. PICK P \in [Seq(S) -> Seq(Seq(S))] :
        \A k \in Seq(Seq(S)) : RemoveGatekeeperHook(k) = FlatMap(P, k)
  BY RemoveAsMap
<1>2. FlatMap(P, l) \in Seq(Seq(S))
  BY FlatMapType
<1> QED BY <1>1, <1>2

\* The last group stays with what is kept of it, or goes.
LEMMA RemoveAppend ==
  ASSUME NEW S, NEW l \in Seq(Seq(S)), NEW g \in Seq(S)
  PROVE  RemoveGatekeeperHook(Append(l, g)) =
           IF Kept(g) = <<>> THEN RemoveGatekeeperHook(l) ELSE Append(RemoveGatekeeperHook(l), Kept(g))
<1>1. PICK P \in [Seq(S) -> Seq(Seq(S))] :
        /\ \A h \in Seq(S) : P[h] = IF Kept(h) = <<>> THEN <<>> ELSE <<Kept(h)>>
        /\ \A k \in Seq(Seq(S)) : RemoveGatekeeperHook(k) = FlatMap(P, k)
  BY RemoveAsMap
<1>2. FlatMap(P, Append(l, g)) = FlatMap(P, l) \o P[g]
  BY FlatMapAppend
<1>3. Append(l, g) \in Seq(Seq(S)) /\ RemoveGatekeeperHook(l) \in Seq(Seq(S)) /\ Kept(g) \in Seq(S)
  BY RemoveType, WithoutType DEF Kept
<1>4. RemoveGatekeeperHook(Append(l, g)) = RemoveGatekeeperHook(l) \o P[g]
  BY <1>1, <1>2, <1>3
<1>5. /\ RemoveGatekeeperHook(l) \o <<>> = RemoveGatekeeperHook(l)
      /\ RemoveGatekeeperHook(l) \o <<Kept(g)>> = Append(RemoveGatekeeperHook(l), Kept(g))
  BY <1>3, ConcatEmptySeq, AppendIsConcat
<1> QED BY <1>1, <1>4, <1>5

\* The handlers of a list, group by group.
LEMMA FlattenAppend ==
  ASSUME NEW S, NEW l \in Seq(Seq(S)), NEW g \in Seq(S)
  PROVE  FlattenSeq(l) \in Seq(S) /\ FlattenSeq(Append(l, g)) = FlattenSeq(l) \o g
BY FlattenProps

\* Dropping emptied groups loses no handler: those of the list after removal
\* are those before, without the ones that have the gatekeeper's name.
LEMMA FlattenRemoved ==
  ASSUME NEW S
  PROVE  \A l \in Seq(Seq(S)) :
           FlattenSeq(RemoveGatekeeperHook(l)) = Without(FlattenSeq(l), GatekeeperCommand)
<1> DEFINE T == {l \in Seq(Seq(S)) :
                   FlattenSeq(RemoveGatekeeperHook(l)) = Without(FlattenSeq(l), GatekeeperCommand)}
<1>1. <<>> \in T
  <2>1. FlattenSeq(<<>>) = <<>>
    BY FlattenProps
  <2> QED BY <2>1, RemoveEmpty, WithoutEmpty
<1>2. ASSUME NEW l \in T \cap Seq(Seq(S)), NEW g \in Seq(S) PROVE Append(l, g) \in T
  <2> DEFINE f == FlattenSeq(l)
             r == RemoveGatekeeperHook(l)
             w == Without(f, GatekeeperCommand)
  <2>1. l \in Seq(Seq(S)) /\ FlattenSeq(r) = w /\ Append(l, g) \in Seq(Seq(S))
    OBVIOUS
  <2> HIDE DEF T
  <2>2. f \in Seq(S) /\ FlattenSeq(Append(l, g)) = f \o g
    BY <2>1, FlattenAppend
  <2>3. r \in Seq(Seq(S)) /\ Kept(g) \in Seq(S)
    BY <2>1, RemoveType, WithoutType DEF Kept
  <2>4. w \in Seq(S)
    BY <2>2, WithoutType
  <2>5. Without(f \o g, GatekeeperCommand) = w \o Kept(g)
    BY <2>2, WithoutConcat DEF Kept
  <2>6. RemoveGatekeeperHook(Append(l, g)) = IF Kept(g) = <<>> THEN r ELSE Append(r, Kept(g))
    BY <2>1, RemoveAppend
  <2>7. FlattenSeq(Append(r, Kept(g))) = FlattenSeq(r) \o Kept(g)
    BY <2>3, FlattenAppend
  <2>8. w \o <<>> = w
    BY <2>4, ConcatEmptySeq
  <2> HIDE DEF f, r, w
  <2>9. FlattenSeq(RemoveGatekeeperHook(Append(l, g))) = w \o Kept(g)
    BY <2>1, <2>6, <2>7, <2>8
  <2> QED BY <2>1, <2>2, <2>5, <2>9 DEF T
<1> HIDE DEF T
<1>3. Seq(Seq(S)) \subseteq T
  BY <1>1, <1>2, SeqInduct
<1> QED BY <1>3 DEF T

\* A second removal finds nothing.
LEMMA RemoveTwice ==
  ASSUME NEW S
  PROVE  \A l \in Seq(Seq(S)) :
           RemoveGatekeeperHook(RemoveGatekeeperHook(l)) = RemoveGatekeeperHook(l)
<1> DEFINE T == {l \in Seq(Seq(S)) :
                   RemoveGatekeeperHook(RemoveGatekeeperHook(l)) = RemoveGatekeeperHook(l)}
<1>1. <<>> \in T
  BY RemoveEmpty
<1>2. ASSUME NEW l \in T \cap Seq(Seq(S)), NEW g \in Seq(S) PROVE Append(l, g) \in T
  <2> DEFINE r == RemoveGatekeeperHook(l)
  <2>1. l \in Seq(Seq(S)) /\ RemoveGatekeeperHook(r) = r /\ Append(l, g) \in Seq(Seq(S))
    OBVIOUS
  <2> HIDE DEF T
  <2>2. r \in Seq(Seq(S)) /\ Kept(g) \in Seq(S)
    BY <2>1, RemoveType, WithoutType DEF Kept
  <2>3. Kept(Kept(g)) = Kept(g)
    BY WithoutTwice DEF Kept
  <2>4. RemoveGatekeeperHook(Append(l, g)) = IF Kept(g) = <<>> THEN r ELSE Append(r, Kept(g))
    BY <2>1, RemoveAppend
  <2> HIDE DEF r
  <2>5. Kept(g) # <<>> => RemoveGatekeeperHook(Append(r, Kept(g))) = Append(RemoveGatekeeperHook(r), Kept(g))
    BY <2>2, <2>3, RemoveAppend
  <2> QED BY <2>1, <2>4, <2>5 DEF T
<1> HIDE DEF T
<1>3. Seq(Seq(S)) \subseteq T
  BY <1>1, <1>2, SeqInduct
<1> QED BY <1>3 DEF T

\* No handler of the list has a command in C.
NoCommandOf(C, l) == \A i \in DOMAIN l : \A j \in DOMAIN l[i] : l[i][j].command \notin C

\* Where the code finds no gatekeeper hook, none is.
LEMMA NothingFound ==
  ASSUME NEW l, ~HasGatekeeperHook(l)
  PROVE  NoCommandOf(GatekeeperCommand, l)
BY DEF HasGatekeeperHook, NoCommandOf, Commands, Handlers, ToSet

\* A list's last group and the others.
LEMMA NoCommandAppend ==
  ASSUME NEW S, NEW C, NEW l \in Seq(S), NEW g, g \in S, NoCommandOf(C, Append(l, g))
  PROVE  NoCommandOf(C, l) /\ \A j \in DOMAIN g : g[j].command \notin C
<1>1. DOMAIN l = 1..Len(l) /\ DOMAIN Append(l, g) = 1..(Len(l) + 1) /\ Len(l) \in Nat
  OBVIOUS
<1>2. Append(l, g)[Len(l) + 1] = g /\ \A i \in 1..Len(l) : Append(l, g)[i] = l[i]
  OBVIOUS
<1> QED BY <1>1, <1>2 DEF NoCommandOf

\* A list without commands in C is not changed by dropping them ...
LEMMA FlattenClean ==
  ASSUME NEW S, NEW C
  PROVE  \A l \in Seq(Seq(S)) : NoCommandOf(C, l) => Without(FlattenSeq(l), C) = FlattenSeq(l)
<1> DEFINE T == {l \in Seq(Seq(S)) : NoCommandOf(C, l) => Without(FlattenSeq(l), C) = FlattenSeq(l)}
<1>1. <<>> \in T
  <2>1. FlattenSeq(<<>>) = <<>>
    BY FlattenProps
  <2> QED BY <2>1, WithoutEmpty
<1>2. ASSUME NEW l \in T \cap Seq(Seq(S)), NEW g \in Seq(S) PROVE Append(l, g) \in T
  <2>1. l \in Seq(Seq(S)) /\ Append(l, g) \in Seq(Seq(S))
        /\ (NoCommandOf(C, l) => Without(FlattenSeq(l), C) = FlattenSeq(l))
    OBVIOUS
  <2> HIDE DEF T
  <2> SUFFICES ASSUME NoCommandOf(C, Append(l, g))
               PROVE  Without(FlattenSeq(Append(l, g)), C) = FlattenSeq(Append(l, g))
    BY <2>1 DEF T
  <2>2. NoCommandOf(C, l) /\ \A j \in DOMAIN g : g[j].command \notin C
    BY <2>1, NoCommandAppend
  <2>3. Without(g, C) = g
    BY <2>2, WithoutNone
  <2>4. FlattenSeq(l) \in Seq(S) /\ FlattenSeq(Append(l, g)) = FlattenSeq(l) \o g
    BY <2>1, FlattenAppend
  <2>5. Without(FlattenSeq(l) \o g, C) = Without(FlattenSeq(l), C) \o Without(g, C)
    BY <2>4, WithoutConcat
  <2> QED BY <2>1, <2>2, <2>3, <2>4, <2>5
<1> HIDE DEF T
<1>3. Seq(Seq(S)) \subseteq T
  BY <1>1, <1>2, SeqInduct
<1> QED BY <1>3 DEF T

\* ... and removal leaves it as it is, group by group, if no group is empty.
LEMMA RemoveNothing ==
  ASSUME NEW S
  PROVE  \A l \in Seq(Seq(S)) :
           NoCommandOf(GatekeeperCommand, l) /\ <<>> \notin ToSet(l) => RemoveGatekeeperHook(l) = l
<1> DEFINE Clean(l) == NoCommandOf(GatekeeperCommand, l) /\ \A i \in DOMAIN l : l[i] # <<>>
           T == {l \in Seq(Seq(S)) : Clean(l) => RemoveGatekeeperHook(l) = l}
<1>1. <<>> \in T
  BY RemoveEmpty
<1>2. ASSUME NEW l \in T \cap Seq(Seq(S)), NEW g \in Seq(S) PROVE Append(l, g) \in T
  <2>1. l \in Seq(Seq(S)) /\ Append(l, g) \in Seq(Seq(S))
        /\ (Clean(l) => RemoveGatekeeperHook(l) = l)
    OBVIOUS
  <2> HIDE DEF T
  <2> SUFFICES ASSUME Clean(Append(l, g))
               PROVE  RemoveGatekeeperHook(Append(l, g)) = Append(l, g)
    BY <2>1 DEF T
  <2>2. NoCommandOf(GatekeeperCommand, l) /\ \A j \in DOMAIN g : g[j].command \notin GatekeeperCommand
    BY <2>1, NoCommandAppend
  <2>3. Kept(g) = g
    BY <2>2, WithoutNone DEF Kept
  <2>4. DOMAIN l = 1..Len(l) /\ DOMAIN Append(l, g) = 1..(Len(l) + 1) /\ Len(l) \in Nat
    BY <2>1
  <2>5. Append(l, g)[Len(l) + 1] = g /\ \A i \in 1..Len(l) : Append(l, g)[i] = l[i]
    BY <2>1
  <2>6. g # <<>> /\ \A i \in DOMAIN l : l[i] # <<>>
    BY <2>4, <2>5
  <2>7. RemoveGatekeeperHook(l) = l
    BY <2>1, <2>2, <2>6
  <2> QED BY <2>1, <2>3, <2>6, <2>7, RemoveAppend
<1> HIDE DEF T
<1>3. Seq(Seq(S)) \subseteq T
  BY <1>1, <1>2, SeqInduct
<1>4. \A l : <<>> \notin ToSet(l) => \A i \in DOMAIN l : l[i] # <<>>
  BY DEF ToSet
<1> QED BY <1>3, <1>4 DEF T

\* What setup writes is a list.
LEMMA RegisteredType ==
  ASSUME NEW S, NEW l \in Seq(Seq(S)), NEW own \in S
  PROVE  Registered(l, own) \in Seq(Seq(S))
<1>1. RemoveGatekeeperHook(l) \in Seq(Seq(S)) /\ <<own>> \in Seq(S)
  BY RemoveType
<1> QED BY <1>1 DEF Registered

\* What setup keeps of a list: everything but the hooks it takes for its own.
LEMMA RegisteredFlat ==
  ASSUME NEW S, NEW l \in Seq(Seq(S)), NEW own \in S
  PROVE  FlattenSeq(Registered(l, own)) = Append(Without(FlattenSeq(l), GatekeeperCommand), own)
<1> DEFINE k == IF HasGatekeeperHook(l) THEN RemoveGatekeeperHook(l) ELSE l
           w == Without(FlattenSeq(l), GatekeeperCommand)
<1>1. k \in Seq(Seq(S)) /\ <<own>> \in Seq(S)
  BY RemoveType
<1>2. FlattenSeq(k) = w
  <2>1. CASE HasGatekeeperHook(l)
    BY <2>1, FlattenRemoved
  <2>2. CASE ~HasGatekeeperHook(l)
    BY <2>2, NothingFound, FlattenClean
  <2> QED BY <2>1, <2>2
<1>3. FlattenSeq(l) \in Seq(S)
  BY FlattenProps
<1>4. w \in Seq(S)
  BY <1>3, WithoutType
<1>5. Registered(l, own) = Append(k, <<own>>)
  BY DEF Registered
<1> HIDE DEF k, w
<1>6. FlattenSeq(Append(k, <<own>>)) = FlattenSeq(k) \o <<own>>
  BY <1>1, FlattenAppend
<1>7. w \o <<own>> = Append(w, own)
  BY <1>4, AppendIsConcat
<1> QED BY <1>2, <1>5, <1>6, <1>7 DEF w

\* The other hooks stay, in their order.
LEMMA ForeignRemoved ==
  ASSUME NEW S, NEW l \in Seq(Seq(S))
  PROVE  Foreign(RemoveGatekeeperHook(l)) = Foreign(l)
<1>1. FlattenSeq(l) \in Seq(S)
  BY FlattenProps
<1>2. Without(Without(FlattenSeq(l), GatekeeperCommand), RunsGatekeeper)
        = Without(FlattenSeq(l), GatekeeperCommand \cup RunsGatekeeper)
  BY <1>1, WithoutTwice
<1>3. GatekeeperCommand \cup RunsGatekeeper = RunsGatekeeper
  BY DEF GatekeeperCommand, RunsGatekeeper
<1> QED BY <1>2, <1>3, FlattenRemoved DEF Foreign

\* Nor does setup touch them.
LEMMA ForeignRegistered ==
  ASSUME NEW S, NEW l \in Seq(Seq(S)), NEW own \in S, own.command \in RunsGatekeeper
  PROVE  Foreign(Registered(l, own)) = Foreign(l)
<1> DEFINE w == Without(FlattenSeq(l), GatekeeperCommand)
<1>1. w \in Seq(S)
  BY FlattenProps, WithoutType
<1>2. Foreign(Registered(l, own)) = Without(Append(w, own), RunsGatekeeper)
  BY RegisteredFlat DEF Foreign
<1>3. w = FlattenSeq(RemoveGatekeeperHook(l))
  BY FlattenRemoved
<1> HIDE DEF w
<1>4. Without(Append(w, own), RunsGatekeeper) = Without(w, RunsGatekeeper)
  BY <1>1, WithoutAppend
<1>5. Without(w, RunsGatekeeper) = Foreign(RemoveGatekeeperHook(l))
  BY <1>3 DEF Foreign
<1> QED BY <1>2, <1>4, <1>5, ForeignRemoved

\* No hook with the gatekeeper's name is left.
LEMMA NoneRecognised ==
  ASSUME NEW S, \A h \in S : h.command \in Command, NEW l \in Seq(Seq(S))
  PROVE  Without(Without(FlattenSeq(l), GatekeeperCommand), Command \ GatekeeperCommand) = <<>>
<1>1. FlattenSeq(l) \in Seq(S)
  BY FlattenProps
<1>2. Without(Without(FlattenSeq(l), GatekeeperCommand), Command \ GatekeeperCommand)
        = Without(FlattenSeq(l), GatekeeperCommand \cup (Command \ GatekeeperCommand))
  BY <1>1, WithoutTwice
<1>3. \A h \in S : h.command \in GatekeeperCommand \cup (Command \ GatekeeperCommand)
  OBVIOUS
<1>4. Without(FlattenSeq(l), GatekeeperCommand \cup (Command \ GatekeeperCommand)) = <<>>
  BY <1>1, <1>3, WithoutAll
<1> QED BY <1>2, <1>4

\* Uninstall leaves no hook with the gatekeeper's name ...
LEMMA RecognisedRemoved ==
  ASSUME NEW S, \A h \in S : h.command \in Command, NEW l \in Seq(Seq(S))
  PROVE  Recognised(RemoveGatekeeperHook(l)) = <<>>
BY NoneRecognised, FlattenRemoved DEF Recognised

\* ... setup its own, and no other with that name.
LEMMA RecognisedRegistered ==
  ASSUME NEW S, \A h \in S : h.command \in Command, NEW l \in Seq(Seq(S)), NEW own \in S
  PROVE  /\ HasCommand(Registered(l, own), own.command)
         /\ Recognised(Registered(l, own)) = Recognised(<< <<own>> >>)
<1> DEFINE w == Without(FlattenSeq(l), GatekeeperCommand)
           C == Command \ GatekeeperCommand
           k == IF HasGatekeeperHook(l) THEN RemoveGatekeeperHook(l) ELSE l
<1>1. w \in Seq(S) /\ <<>> \in Seq(S)
  BY FlattenProps, WithoutType
<1>2. Recognised(Registered(l, own)) = Without(Append(w, own), C)
  BY RegisteredFlat DEF Recognised
<1>3. Without(w, C) = <<>>
  BY NoneRecognised
<1>4. FlattenSeq(<< <<own>> >>) = Append(<<>>, own)
  <2>1. << <<own>> >> = Append(<<>>, <<own>>) /\ <<>> \in Seq(Seq(S)) /\ <<own>> \in Seq(S)
    OBVIOUS
  <2>2. FlattenSeq(Append(<<>>, <<own>>)) = FlattenSeq(<<>>) \o <<own>>
    BY <2>1, FlattenAppend
  <2>3. FlattenSeq(<<>>) = <<>>
    BY FlattenProps
  <2>4. <<>> \o <<own>> = Append(<<>>, own)
    BY <1>1, AppendIsConcat
  <2> QED BY <2>1, <2>2, <2>3, <2>4
<1>5. Registered(l, own) = Append(k, <<own>>) /\ k \in Seq(Seq(S))
  BY RemoveType DEF Registered
<1> HIDE DEF w, C, k
<1>6. Without(Append(w, own), C) = IF own.command \in C THEN <<>> ELSE Append(<<>>, own)
  <2>1. Without(Append(w, own), C)
          = IF own.command \in C THEN Without(w, C) ELSE Append(Without(w, C), own)
    BY <1>1, WithoutAppend
  <2> QED BY <2>1, <1>3
<1>7. Without(Append(<<>>, own), C) = IF own.command \in C THEN <<>> ELSE Append(<<>>, own)
  <2> DEFINE z == <<>>
  <2> HIDE DEF z
  <2>1. z \in Seq(S) /\ Without(z, C) = z
    BY <1>1, WithoutEmpty DEF z
  <2>2. Without(Append(z, own), C)
          = IF own.command \in C THEN Without(z, C) ELSE Append(Without(z, C), own)
    BY <2>1, WithoutAppend
  <2>3. Without(Append(z, own), C) = IF own.command \in C THEN z ELSE Append(z, own)
    BY <2>1, <2>2
  <2> QED BY <2>3 DEF z
<1>8. HasCommand(Append(k, <<own>>), own.command)
  <2> DEFINE a == Append(k, <<own>>)
  <2>1. Len(k) + 1 \in DOMAIN a /\ a[Len(k) + 1] = <<own>>
    BY <1>5
  <2>2. own \in ToSet(<<own>>)
    BY DEF ToSet
  <2> HIDE DEF a
  <2>3. own \in Handlers(a)
    BY <2>1, <2>2 DEF Handlers
  <2>4. HasCommand(a, own.command)
    BY <2>3 DEF HasCommand, Commands
  <2> QED BY <2>4 DEF a
<1> QED BY <1>2, <1>4, <1>5, <1>6, <1>7, <1>8 DEF Recognised, C

\* Registering once more moves nothing, unless a group without handlers goes.
LEMMA RegisteredTwice ==
  ASSUME NEW S, NEW l \in Seq(Seq(S)), <<>> \notin ToSet(l),
         NEW own \in S, own.command \in GatekeeperCommand
  PROVE  Registered(Registered(l, own), own) = Registered(l, own)
<1> DEFINE k == IF HasGatekeeperHook(l) THEN RemoveGatekeeperHook(l) ELSE l
           r == Registered(l, own)
<1>1. r = Append(k, <<own>>) /\ k \in Seq(Seq(S)) /\ <<own>> \in Seq(S)
  BY RemoveType DEF Registered
<1>2. RemoveGatekeeperHook(k) = k
  <2>1. CASE HasGatekeeperHook(l)
    BY <2>1, RemoveTwice
  <2>2. CASE ~HasGatekeeperHook(l)
    BY <2>2, NothingFound, RemoveNothing
  <2> QED BY <2>1, <2>2
<1>3. Kept(<<own>>) = <<>>
  <2>1. <<own>> = Append(<<>>, own) /\ <<>> \in Seq(S)
    OBVIOUS
  <2>2. Without(Append(<<>>, own), GatekeeperCommand) = <<>>
    BY <2>1, WithoutAppend, WithoutEmpty
  <2> QED BY <2>1, <2>2 DEF Kept
<1>4. HasGatekeeperHook(r)
  <2> HIDE DEF k
  <2>1. Len(k) + 1 \in DOMAIN r /\ r[Len(k) + 1] = <<own>>
    BY <1>1
  <2>2. own \in ToSet(<<own>>)
    BY DEF ToSet
  <2> HIDE DEF r
  <2>3. own \in Handlers(r)
    BY <2>1, <2>2 DEF Handlers
  <2> QED BY <2>3 DEF HasGatekeeperHook, Commands
<1> HIDE DEF k, r
<1>5. RemoveGatekeeperHook(r) = k
  BY <1>1, <1>2, <1>3, RemoveAppend
<1> QED BY <1>1, <1>4, <1>5 DEF Registered, r

-----------------------------------------------------------------------------
(* SettingsFile: the protocol that writes the file *)

\* The part of the state's shape the arguments need.
Shape ==
  /\ clock \in 0..MaxClock
  /\ backups = [t \in 0..MaxClock |-> backups[t]]
  /\ pc \in [Procs -> PC]
  /\ fd \in [Procs -> {"none", "tmp", "live", "gone"}]
  /\ buf = [p \in Procs |-> buf[p]]
  /\ hist = [overlap |-> hist.overlap, lateSave |-> hist.lateSave,
             sameSecond |-> hist.sameSecond, docs |-> hist.docs, foreign |-> hist.foreign]
  /\ hist.overlap \in BOOLEAN /\ hist.lateSave \in BOOLEAN /\ hist.sameSecond \in BOOLEAN
  /\ Absent \notin hist.docs

\* Without overlap the one running command owns the .tmp file, and renames it
\* only when it is complete.
Solo ==
  ~hist.overlap =>
    /\ \A p, q \in Procs : Running(p) /\ Running(q) => p = q
    /\ \A p \in Procs : fd[p] # "none" => pc[p] = "write"
    /\ \A p \in Procs : pc[p] = "write" => fd[p] = "tmp" /\ tmp = Empty
    /\ \A p \in Procs : pc[p] = "rename" => tmp.kind = "json"
    /\ Readable

InBackup(c) == \E t \in 0..MaxClock : backups[t] = c

\* As long as what a user had is in no backup it is in place, every command
\* about to write its backup holds it, and none has got past that.
Backed ==
  ~hist.lateSave /\ ~hist.sameSecond =>
    \A doc \in hist.docs :
      \/ InBackup(doc)
      \/ /\ live = doc
         /\ \A p \in Procs : pc[p] = "backupWrite" => buf[p] = doc
         /\ \A p \in Procs : pc[p] \notin {"edit", "open", "write", "rename"}


\* JSON documents are neither missing nor torn.
LEMMA JsonKind ==
  ASSUME NEW list
  PROVE  /\ Json(list).kind = "json"
         /\ Json(list) # Absent /\ Empty # Absent /\ Empty.kind = "empty"
         /\ Absent.kind = "absent" /\ Torn.kind = "torn" /\ Torn # Absent
BY DEF Json, Absent, Empty, Torn

\* Reading ends or leads to the backup.
LEMMA AfterOpenType ==
  ASSUME NEW o PROVE AfterOpen(o) \in {"ok", "failed", "crashed", "backup"}
BY DEF AfterOpen, AfterRead

\* What a save does to the history.
LEMMA SaveHist ==
  ASSUME Shape, Save
  PROVE  \E doc \in Saves :
           /\ live' = Json(doc)
           /\ hist'.docs = (hist.docs \ {live}) \cup {Json(doc)}
           /\ hist'.overlap = hist.overlap /\ hist'.sameSecond = hist.sameSecond
           /\ hist'.lateSave = (hist.lateSave \/ \E p \in Procs : Running(p))
           /\ hist' = [overlap |-> hist'.overlap, lateSave |-> hist'.lateSave,
                       sameSecond |-> hist'.sameSecond, docs |-> hist'.docs,
                       foreign |-> hist'.foreign]
           /\ hist'.foreign = Foreign(doc)
<1> DEFINE Met == \E p \in Procs : Running(p)
<1>1. PICK doc \in Saves :
        /\ live' = Json(doc)
        /\ hist' = [hist EXCEPT !.docs = (@ \ {live}) \cup {Json(doc)},
                                !.foreign = Foreign(doc), !.lateSave = @ \/ Met]
  BY DEF Save
<1> HIDE DEF Met
<1>2. hist' = [overlap |-> hist.overlap, lateSave |-> hist.lateSave \/ Met,
               sameSecond |-> hist.sameSecond,
               docs |-> (hist.docs \ {live}) \cup {Json(doc)}, foreign |-> Foreign(doc)]
  BY <1>1 DEF Shape
<1> QED BY <1>1, <1>2 DEF Met

\* What reading does to the history: it notes the commands it meets.
LEMMA ReadHist ==
  ASSUME Shape, NEW p \in Procs, Read(p)
  PROVE  LET met == \E q \in Procs \ {p} : Running(q)
         IN /\ hist'.overlap = (hist.overlap \/ met)
            /\ hist'.lateSave = hist.lateSave
            /\ hist'.sameSecond = hist.sameSecond /\ hist'.docs = hist.docs
            /\ hist'.foreign = hist.foreign
<1> DEFINE Met == \E q \in Procs \ {p} : Running(q)
<1>1. hist' = [hist EXCEPT !.overlap = @ \/ Met]
  BY DEF Read
<1> HIDE DEF Met
<1>2. /\ hist'.overlap = (hist.overlap \/ Met) /\ hist'.lateSave = hist.lateSave
      /\ hist'.sameSecond = hist.sameSecond /\ hist'.docs = hist.docs
      /\ hist'.foreign = hist.foreign
  BY <1>1 DEF Shape
<1> QED BY <1>2 DEF Met

\* Every step of a command keeps the shapes.
LEMMA ShapeStep ==
  ASSUME Shape, [Next]_vars PROVE Shape'
<1> USE DEF Shape
<1>1. ASSUME NEW p \in Procs, Step(p) PROVE Shape'
  <2>1. CASE Read(p)
    BY <2>1, AfterOpenType DEF Read, Goto, PC
  <2>2. CASE BackupName(p) \/ BackupRead(p) \/ BackupWrite(p)
    BY <2>2 DEF BackupName, BackupRead, BackupWrite, Goto, PC
  <2>3. CASE EditList(p) \/ OpenTmp(p)
    BY <2>3 DEF EditList, OpenTmp, Goto, PC
  <2>4. CASE WriteTmp(p) \/ WriteFails(p)
    BY <2>4 DEF WriteTmp, WriteFails, Put, Goto, PC
  <2>5. CASE Rename(p)
    BY <2>5 DEF Rename, Goto, PC
  <2>6. CASE Stop(p)
    BY <2>6 DEF Stop, PC
  <2> QED BY <1>1, <2>1, <2>2, <2>3, <2>4, <2>5, <2>6 DEF Step
<1>2. CASE Save
  <2>1. Absent \notin hist'.docs /\ hist'.lateSave \in BOOLEAN
    BY <1>2, SaveHist, JsonKind
  <2>2. fd' \in [Procs -> {"none", "tmp", "live", "gone"}]
    BY <1>2 DEF Save
  <2> QED BY <1>2, <2>1, <2>2, SaveHist DEF Save
<1>3. CASE Tick
  BY <1>3, BoundsAssumption DEF Tick, procs
<1>4. CASE UNCHANGED vars
  BY <1>4 DEF vars, procs
<1> QED BY <1>1, <1>2, <1>3, <1>4 DEF Next

\* The ownership of .tmp survives every step; a step that starts an overlap
\* ends the promise.
LEMMA SoloStep ==
  ASSUME Shape, Solo, Shape', [Next]_vars PROVE Solo'
<1> USE DEF Shape, Solo, Running, Ended, PC, Readable
<1>1. ASSUME NEW p \in Procs, Step(p) PROVE Solo'
  <2>1. CASE Read(p)
    <3> SUFFICES ASSUME ~hist'.overlap PROVE Solo'
      OBVIOUS
    <3>1. ~hist.overlap /\ \A q \in Procs \ {p} : ~Running(q)
      BY <2>1, ReadHist
    <3>2. \A q \in Procs \ {p} : pc'[q] = pc[q]
      BY <2>1 DEF Read, Goto
    <3>3. pc[p] = "idle" /\ pc'[p] \in {"ok", "failed", "crashed", "backup"}
      BY <2>1, AfterOpenType DEF Read, Goto
    <3>4. live' = live /\ tmp' = tmp /\ fd' = fd
      BY <2>1 DEF Read
    <3> QED BY <3>1, <3>2, <3>3, <3>4
  <2>2. CASE BackupName(p) \/ BackupRead(p)
    BY <2>2 DEF BackupName, BackupRead, Goto
  <2>3. CASE BackupWrite(p)
    BY <2>3 DEF BackupWrite, Goto
  <2>4. CASE EditList(p)
    BY <2>4 DEF EditList, Goto
  <2>5. CASE OpenTmp(p)
    BY <2>5 DEF OpenTmp, Goto
  <2>6. CASE WriteTmp(p)
    BY <2>6, JsonKind DEF WriteTmp, Goto, Put, Opened, WrittenOver
  <2>7. CASE WriteFails(p)
    BY <2>7 DEF WriteFails, Goto, Put, Opened
  <2>8. CASE Rename(p)
    BY <2>8 DEF Rename, Goto
  <2>9. CASE Stop(p)
    BY <2>9 DEF Stop
  <2> QED BY <1>1, <2>1, <2>2, <2>3, <2>4, <2>5, <2>6, <2>7, <2>8, <2>9 DEF Step
<1>2. CASE Save
  BY <1>2, JsonKind DEF Save
<1>3. CASE Tick
  BY <1>3 DEF Tick, procs
<1>4. CASE UNCHANGED vars
  BY <1>4 DEF vars, procs
<1> QED BY <1>1, <1>2, <1>3, <1>4 DEF Next

\* Backups are named after seconds of the clock.
Stamped == stamp \in [Procs -> 0..MaxClock]

\* A name is taken from the clock, and kept.
LEMMA StampedStep ==
  ASSUME Shape, Stamped, [Next]_vars PROVE Stamped'
<1>1. (UNCHANGED stamp) \/ \E p \in Procs : stamp' = [stamp EXCEPT ![p] = clock]
  BY DEF Next, Step, Read, BackupName, BackupRead, BackupWrite, EditList, OpenTmp, WriteTmp,
         WriteFails, Rename, Stop, Save, Tick, vars, procs
<1> QED BY <1>1 DEF Shape, Stamped

\* The values of the variables, and files opened only to write them.
Typed ==
  /\ live \in File /\ tmp \in File
  /\ backups \in [0..MaxClock -> File]
  /\ saves \in 0..MaxSaves
  /\ op \in [Procs -> UNION OpsOnOneFile]
  /\ mem \in [Procs -> Doc] /\ buf \in [Procs -> File]
  /\ \A p \in Procs : fd[p] # "none" => pc[p] = "write"

\* The three contents without a list, and the others.
LEMMA FileKinds ==
  /\ Absent \in File /\ Empty \in File /\ Torn \in File
  /\ \A list \in Doc : Json(list) \in File
  /\ \A c \in File : c.list \in Doc
<1>1. <<>> \in Doc
  BY DEF Doc
<1> QED BY <1>1 DEF Absent, Empty, Torn, Json, File

\* A handler of a hook list, and the one that setup registers.
LEMMA OwnType ==
  /\ Own \in [command : Command] /\ Own.command = OwnCommand
  /\ OwnCommand \in RunsGatekeeper /\ << <<Own>> >> \in Doc
BY OwnAssumption DEF Own, Command, RunsGatekeeper, Doc

\* The edit turns a list into a list with the job done.
LEMMA EditedDone ==
  ASSUME NEW o, NEW list \in Doc
  PROVE  Edited(o, list) \in Doc /\ JobDone(o, Edited(o, list))
<1> DEFINE H == [command : Command]
<1>1. list \in Seq(Seq(H)) /\ Own \in H /\ \A h \in H : h.command \in Command
  BY OwnType DEF Doc
<1>2. CASE o = "uninstall"
  <2>1. RemoveGatekeeperHook(list) \in Seq(Seq(H))
    BY <1>1, RemoveType
  <2>2. Recognised(RemoveGatekeeperHook(list)) = <<>>
    BY <1>1, RecognisedRemoved
  <2> QED BY <1>2, <2>1, <2>2 DEF Edited, JobDone, Doc
<1>3. CASE o = "grok"
  <2>1. HasCommand(<< <<Own>> >>, OwnCommand)
    BY OwnType DEF HasCommand, Commands, Handlers, ToSet
  <2> QED BY <1>3, <2>1, OwnType DEF Edited, JobDone
<1>4. CASE o \notin {"uninstall", "grok"}
  <2>1. Registered(list, Own) \in Seq(Seq(H))
    BY <1>1, RegisteredType
  <2>2. /\ HasCommand(Registered(list, Own), Own.command)
        /\ Recognised(Registered(list, Own)) = Recognised(<< <<Own>> >>)
    BY <1>1, RecognisedRegistered
  <2>3. Edited(o, list) = Registered(list, Own)
    BY <1>4 DEF Edited
  <2> HIDE DEF H
  <2> QED BY <1>4, <2>1, <2>2, <2>3, OwnType DEF JobDone, Doc, H
<1> QED BY <1>2, <1>3, <1>4

\* No edit but grok's touches another's hook.
LEMMA EditedForeign ==
  ASSUME NEW o, o # "grok", NEW list \in Doc
  PROVE  Foreign(Edited(o, list)) = Foreign(list)
<1> DEFINE H == [command : Command]
<1>1. list \in Seq(Seq(H)) /\ Own \in H /\ Own.command \in RunsGatekeeper
  BY OwnType DEF Doc
<1>2. CASE o = "uninstall"
  <2>1. Foreign(RemoveGatekeeperHook(list)) = Foreign(list)
    BY <1>1, ForeignRemoved
  <2> QED BY <1>2, <2>1 DEF Edited
<1>3. CASE o # "uninstall"
  <2>1. Foreign(Registered(list, Own)) = Foreign(list)
    BY <1>1, ForeignRegistered
  <2> QED BY <1>3, <2>1 DEF Edited
<1> QED BY <1>2, <1>3

\* The variables start with values of their types, and keep them.
LEMMA TypedInit == Init => Typed
<1> SUFFICES ASSUME Init PROVE Typed
  OBVIOUS
<1>1. live \in File
  BY FileKinds, DocsAssumption DEF Init
<1>2. <<>> \in Doc
  BY DEF Doc
<1>3. op \in [Procs -> UNION OpsOnOneFile]
  BY DEF Init
<1> QED BY <1>1, <1>2, <1>3, FileKinds, BoundsAssumption DEF Init, Typed

\* The edit of a list is a list, and what is written is a file.
LEMMA TypedStep ==
  ASSUME Shape, Typed, [Next]_vars PROVE Typed'
<1> USE FileKinds DEF Typed
<1>1. ASSUME NEW p \in Procs, Step(p) PROVE Typed'
  <2>1. CASE Read(p)
    BY <2>1 DEF Read, Goto, Shape
  <2>2. CASE BackupName(p) \/ BackupRead(p)
    BY <2>2 DEF BackupName, BackupRead, Goto, Shape
  <2>3. CASE BackupWrite(p)
    BY <2>3 DEF BackupWrite, Goto, Shape
  <2>4. CASE EditList(p)
    <3>1. Edited(op[p], mem[p]) \in Doc
      BY EditedDone
    <3> QED BY <2>4, <3>1 DEF EditList, Goto, Shape
  <2>5. CASE OpenTmp(p)
    BY <2>5 DEF OpenTmp, Goto, Shape
  <2>6. CASE WriteTmp(p)
    <3>1. PICK c \in WrittenOver(Opened(p), Json(mem[p])) : Put(p, c)
      BY <2>6 DEF WriteTmp
    <3>2. c \in File
      BY <3>1 DEF WrittenOver
    <3> QED BY <2>6, <3>1, <3>2 DEF WriteTmp, Put, Goto, Shape
  <2>7. CASE WriteFails(p)
    <3>1. PICK c \in {Opened(p), Torn} : Put(p, c)
      BY <2>7 DEF WriteFails
    <3>2. c \in File
      BY <3>1 DEF Opened
    <3> QED BY <2>7, <3>1, <3>2 DEF WriteFails, Put, Goto, Shape
  <2>8. CASE Rename(p)
    BY <2>8 DEF Rename, Goto, Shape
  <2>9. CASE Stop(p)
    BY <2>9 DEF Stop, Shape
  <2> QED BY <1>1, <2>1, <2>2, <2>3, <2>4, <2>5, <2>6, <2>7, <2>8, <2>9 DEF Step
<1>2. CASE Save
  <2>1. live' \in File /\ saves' \in 0..MaxSaves
    BY <1>2, DocsAssumption, BoundsAssumption DEF Save
  <2> QED BY <1>2, <2>1 DEF Save, Shape
<1>3. CASE Tick
  BY <1>3 DEF Tick, procs
<1>4. CASE UNCHANGED vars
  BY <1>4 DEF vars, procs
<1> QED BY <1>1, <1>2, <1>3, <1>4 DEF Next

\* A backup is taken before, and kept after, everything a command destroys.
LEMMA BackedStep ==
  ASSUME Shape, Stamped, Typed, Backed, Shape', [Next]_vars PROVE Backed'
<1> USE DEF Shape
<1> SUFFICES ASSUME ~hist'.lateSave, ~hist'.sameSecond, NEW doc \in hist'.docs, ~InBackup(doc)'
             PROVE  /\ live' = doc
                    /\ \A p \in Procs : pc'[p] = "backupWrite" => buf'[p] = doc
                    /\ \A p \in Procs : pc'[p] \notin {"edit", "open", "write", "rename"}
  BY DEF Backed
<1> DEFINE Waiting ==
      /\ live = doc
      /\ \A p \in Procs : pc[p] = "backupWrite" => buf[p] = doc
      /\ \A p \in Procs : pc[p] \notin {"edit", "open", "write", "rename"}
<1>1. ASSUME NEW p \in Procs, Step(p)
      PROVE  Waiting'
  <2>1. ~hist.lateSave /\ ~hist.sameSecond /\ doc \in hist.docs
    <3>1. CASE Read(p)
      BY <3>1, ReadHist
    <3>2. CASE BackupWrite(p)
      BY <3>2 DEF BackupWrite
    <3>3. CASE ~Read(p) /\ ~BackupWrite(p)
      BY <1>1, <3>3 DEF Step, BackupName, BackupRead, EditList, OpenTmp, WriteTmp, WriteFails, Rename, Stop
    <3> QED BY <3>1, <3>2, <3>3
  <2>2. doc # Absent
    BY <2>1
  <2>3. InBackup(doc) => InBackup(doc)'
    <3>1. CASE BackupWrite(p)
      <4>1. backups[stamp[p]] = Absent
        BY <3>1 DEF BackupWrite
      <4> QED BY <2>2, <3>1, <4>1 DEF BackupWrite, InBackup
    <3>2. CASE ~BackupWrite(p)
      BY <1>1, <3>2 DEF Step, Read, BackupName, BackupRead, EditList, OpenTmp, WriteTmp, WriteFails,
                        Rename, Stop, InBackup
    <3> QED BY <3>1, <3>2
  <2>4. Waiting
    BY <2>1, <2>3 DEF Backed
  <2>5. CASE Read(p)
    BY <2>4, <2>5, AfterOpenType DEF Read, Goto
  <2>6. CASE BackupName(p)
    BY <2>2, <2>4, <2>6 DEF BackupName, Goto
  <2>7. CASE BackupRead(p)
    BY <2>4, <2>7 DEF BackupRead, Goto, Typed
  <2>8. CASE BackupWrite(p)
    <3>1. pc'[p] # "edit"
      BY <2>4, <2>8 DEF BackupWrite, Goto, Stamped, InBackup
    <3> QED BY <2>4, <2>8, <3>1 DEF BackupWrite, Goto
  <2>9. CASE EditList(p) \/ OpenTmp(p) \/ WriteTmp(p) \/ WriteFails(p) \/ Rename(p)
    BY <2>4, <2>9 DEF EditList, OpenTmp, WriteTmp, WriteFails, Rename, Goto
  <2>10. CASE Stop(p)
    BY <2>4, <2>10 DEF Stop
  <2> QED BY <1>1, <2>5, <2>6, <2>7, <2>8, <2>9, <2>10 DEF Step
<1>2. CASE Save
  <2>1. UNCHANGED <<backups, pc, buf>>
    BY <1>2 DEF Save
  <2>2. \A p \in Procs : ~Running(p)
    BY <1>2, SaveHist
  <2>3. live' = doc
    BY <1>2, <2>1, SaveHist DEF Backed, InBackup
  <2> QED BY <2>1, <2>2, <2>3 DEF Running, Ended
<1>3. CASE Tick
  BY <1>3 DEF Tick, procs, Backed, InBackup
<1>4. CASE UNCHANGED vars
  BY <1>4 DEF vars, procs, Backed, InBackup
<1> QED BY <1>1, <1>2, <1>3, <1>4 DEF Next

\* Without a race the list in memory carries the other hooks of the file
\* through the edit, and is what the rename puts in place.
Carried ==
  ~Raced =>
    /\ \A p \in Procs : pc[p] = "rename" => tmp = Json(mem[p])
    /\ \A p \in Procs : pc[p] \in {"open", "write", "rename"} => JobDone(op[p], mem[p])
    /\ (\A p \in Procs : op[p] # "grok") =>
         /\ Foreign(live.list) = hist.foreign
         /\ \A p \in Procs : pc[p] \in {"backup", "backupRead", "backupWrite", "edit", "open", "write", "rename"} =>
              Foreign(mem[p]) = hist.foreign

\* Nothing is in memory at first ...
LEMMA CarriedInit == Init => Carried
BY DEF Init, Carried

\* ... and every step carries the list on, or ends the promise with a race.
LEMMA CarriedStep ==
  ASSUME Shape, Solo, Typed, Carried, Shape', [Next]_vars PROVE Carried'
<1> USE DEF Carried, Raced
<1>0. \A list : Json(list).list = list
  BY DEF Json
<1>1. ASSUME NEW p \in Procs, Step(p) PROVE Carried'
  <2> SUFFICES ASSUME ~Raced' PROVE Carried'
    OBVIOUS
  <2>1. CASE Read(p)
    <3>1. ~Raced /\ hist'.foreign = hist.foreign
      BY <2>1, ReadHist
    <3>2. pc'[p] \in {"ok", "failed", "crashed", "backup"} /\ mem'[p] = live.list
      BY <2>1, AfterOpenType DEF Read, Goto, Shape, Typed
    <3>3. \A q \in Procs \ {p} : pc'[q] = pc[q] /\ mem'[q] = mem[q]
      BY <2>1 DEF Read, Goto, Shape, Typed
    <3>4. live' = live /\ tmp' = tmp /\ op' = op
      BY <2>1 DEF Read
    <3> QED BY <3>1, <3>2, <3>3, <3>4
  <2>2. CASE BackupName(p) \/ BackupRead(p)
    BY <2>2 DEF BackupName, BackupRead, Goto, Shape
  <2>3. CASE BackupWrite(p)
    BY <2>3 DEF BackupWrite, Goto, Shape
  <2>4. CASE EditList(p)
    <3>1. ~Raced /\ hist' = hist /\ live' = live /\ tmp' = tmp /\ op' = op
      BY <2>4 DEF EditList
    <3>2. pc[p] = "edit" /\ \A q \in Procs \ {p} : pc'[q] = pc[q] /\ mem'[q] = mem[q]
      BY <2>4 DEF EditList, Goto, Shape, Typed
    <3>3. CASE op[p] # "grok" /\ Unscannable(mem[p])
      BY <2>4, <3>1, <3>2, <3>3 DEF EditList, Goto, Shape
    <3>4. CASE ~(op[p] # "grok" /\ Unscannable(mem[p]))
      <4>1. pc'[p] = "open" /\ mem'[p] = Edited(op[p], mem[p])
        BY <2>4, <3>4 DEF EditList, Goto, Shape, Typed
      <4>2. JobDone(op[p], mem'[p])
        BY <4>1, EditedDone DEF Typed
      <4>3. op[p] # "grok" => Foreign(mem'[p]) = Foreign(mem[p])
        BY <4>1, EditedForeign DEF Typed
      <4>4. \A o, q : JobDone(o, mem[q])' = JobDone(o, mem'[q])
        BY DEF JobDone
      <4> QED BY <3>1, <3>2, <4>1, <4>2, <4>3
    <3> QED BY <3>3, <3>4
  <2>5. CASE OpenTmp(p)
    <3>1. \A q \in Procs \ {p} : pc'[q] # "rename"
      BY <2>5 DEF OpenTmp, Goto, Shape, Solo, Running, Ended
    <3> QED BY <2>5, <3>1 DEF OpenTmp, Goto, Shape
  <2>6. CASE WriteTmp(p)
    <3>1. ~Raced /\ hist' = hist /\ op' = op /\ mem' = mem /\ pc[p] = "write"
      BY <2>6 DEF WriteTmp, Goto
    <3>2. fd[p] = "tmp" /\ Opened(p) = Empty
      BY <3>1 DEF Solo, Shape, Opened
    <3>3. tmp' = Json(mem[p]) /\ live' = live
      BY <2>6, <3>2 DEF WriteTmp, Put, WrittenOver
    <3>4. \A q \in Procs \ {p} : pc'[q] # "rename" /\ pc'[q] = pc[q]
      BY <2>6, <3>1 DEF WriteTmp, Goto, Shape, Solo, Running, Ended
    <3> QED BY <3>1, <3>3, <3>4
  <2>7. CASE WriteFails(p)
    <3>1. ~Raced /\ hist' = hist /\ op' = op /\ mem' = mem /\ pc[p] = "write" /\ pc'[p] = "failed"
      BY <2>7 DEF WriteFails, Goto, Shape
    <3>2. fd[p] = "tmp"
      BY <3>1 DEF Solo, Shape
    <3>3. live' = live
      BY <2>7, <3>2 DEF WriteFails, Put
    <3>4. \A q \in Procs \ {p} : pc'[q] # "rename" /\ pc'[q] = pc[q]
      BY <2>7, <3>1 DEF WriteFails, Goto, Shape, Solo, Running, Ended
    <3> QED BY <3>1, <3>3, <3>4
  <2>8. CASE Rename(p)
    <3>1. ~Raced /\ hist' = hist /\ op' = op /\ mem' = mem /\ pc[p] = "rename"
      BY <2>8 DEF Rename, Goto
    <3>2. tmp = Json(mem[p]) /\ tmp # Absent
      BY <3>1, JsonKind
    <3>3. live' = tmp /\ pc'[p] = "ok"
      BY <2>8, <3>2 DEF Rename, Goto, Shape
    <3>4. \A q \in Procs \ {p} : pc'[q] # "rename" /\ pc'[q] = pc[q]
      BY <2>8, <3>1 DEF Rename, Goto, Shape, Solo, Running, Ended
    <3> QED BY <1>0, <3>1, <3>2, <3>3, <3>4
  <2>9. CASE Stop(p)
    BY <2>9 DEF Stop, Shape
  <2> QED BY <1>1, <2>1, <2>2, <2>3, <2>4, <2>5, <2>6, <2>7, <2>8, <2>9 DEF Step
<1>2. CASE Save
  <2> SUFFICES ASSUME ~Raced' PROVE Carried'
    OBVIOUS
  <2>1. PICK doc \in Saves : live' = Json(doc) /\ hist'.foreign = Foreign(doc)
    BY <1>2, SaveHist
  <2>2. \A p \in Procs : ~Running(p)
    BY <1>2, SaveHist
  <2>3. pc' = pc
    BY <1>2 DEF Save
  <2> QED BY <1>0, <2>1, <2>2, <2>3 DEF Running, Ended
<1>3. CASE Tick
  BY <1>3 DEF Tick, procs
<1>4. CASE UNCHANGED vars
  BY <1>4 DEF vars, procs
<1> QED BY <1>1, <1>2, <1>3, <1>4 DEF Next

FileInv == Shape /\ Solo /\ Stamped /\ Backed /\ Typed /\ Carried

\* No command runs, and the file is whole.
LEMMA FileInit == Init => FileInv
<1> SUFFICES ASSUME Init PROVE FileInv
  OBVIOUS
<1>1. Readable
  BY JsonKind DEF Init, Readable
<1>2. Shape
  BY BoundsAssumption DEF Init, Shape, PC
<1>3. \A p \in Procs : ~Running(p)
  BY DEF Init, Running, Ended
<1>4. Solo
  BY <1>1, <1>3 DEF Init, Solo
<1>5. Backed
  BY DEF Init, Backed
<1>6. Stamped
  BY BoundsAssumption DEF Init, Stamped
<1> QED BY <1>2, <1>4, <1>5, <1>6, TypedInit, CarriedInit DEF FileInv

\* FileInv is inductive.
LEMMA FileInvariant == Spec => []FileInv
<1>1. FileInv /\ [Next]_vars => FileInv'
  BY ShapeStep, SoloStep, StampedStep, TypedStep, BackedStep, CarriedStep DEF FileInv
<1> QED BY FileInit, <1>1, PTL DEF Spec

\* Commands that never overlap never show the harness a torn hook file.
THEOREM NeverTornHolds == Spec => []NeverTorn
<1>1. FileInv => NeverTorn
  BY DEF FileInv, Solo, NeverTorn
<1> QED BY FileInvariant, <1>1, PTL

\* What the user had in the file is in place or in a backup, as long as there
\* was no save under a running command and no two backups in one second.
THEOREM UserDocsRecoverableHolds == Spec => []UserDocsRecoverable
<1>1. FileInv => UserDocsRecoverable
  BY DEF FileInv, Shape, Backed, InBackup, UserDocsRecoverable
<1> QED BY FileInvariant, <1>1, PTL

\* Every variable keeps its shape, and a command has a file open only while it
\* writes.
THEOREM TypeCorrect == Spec => []TypeOK
<1>1. FileInv => TypeOK
  BY DEF FileInv, Shape, Stamped, Typed, TypeOK
<1> QED BY FileInvariant, <1>1, PTL

\* The hooks that are not the gatekeeper's survive every sequence of installs
\* and uninstalls, crashes and errors that race with nobody, in their order.
THEOREM ForeignHooksKeptHolds == Spec => []ForeignHooksKept
<1>1. FileInv => ForeignHooksKept
  BY DEF FileInv, Carried, ForeignHooksKept
<1> QED BY FileInvariant, <1>1, PTL

\* A rename that races with nobody leaves the one command asked for, or none.
THEOREM RenameDoesItsJobHolds == Spec => RenameDoesItsJob
<1>1. FileInv /\ [Next]_vars =>
        [\A p \in Procs :
           pc[p] = "rename" /\ pc'[p] = "ok" /\ ~Raced => JobDone(op[p], live'.list)]_vars
  <2> SUFFICES ASSUME FileInv, [Next]_vars, NEW p \in Procs,
                      pc[p] = "rename", pc'[p] = "ok", ~Raced
               PROVE  JobDone(op[p], live'.list)
    OBVIOUS
  <2> USE DEF FileInv, Shape, Raced
  <2>1. Rename(p)
    <3>1. ASSUME NEW q \in Procs, Step(q) PROVE Rename(p)
      <4>1. CASE q # p
        <5>1. pc'[p] = pc[p]
          <6>1. CASE Read(q) \/ BackupName(q) \/ BackupRead(q) \/ BackupWrite(q) \/ EditList(q)
            BY <4>1, <6>1 DEF Read, BackupName, BackupRead, BackupWrite, EditList, Goto
          <6>2. CASE OpenTmp(q) \/ WriteTmp(q) \/ WriteFails(q) \/ Rename(q) \/ Stop(q)
            BY <4>1, <6>2 DEF OpenTmp, WriteTmp, WriteFails, Rename, Stop, Goto
          <6> QED BY <3>1, <6>1, <6>2 DEF Step
        <5> QED BY <5>1
      <4>2. CASE q = p
        BY <3>1, <4>2 DEF Step, Read, BackupName, BackupRead, BackupWrite, EditList, OpenTmp, WriteTmp,
                          WriteFails, Stop, Goto
      <4> QED BY <4>1, <4>2
    <3>2. ~Save /\ ~Tick /\ ~UNCHANGED vars
      BY DEF Save, Tick, procs, vars
    <3> QED BY <3>1, <3>2 DEF Next
  <2>2. tmp = Json(mem[p]) /\ JobDone(op[p], mem[p])
    BY DEF Carried
  <2>3. live' = Json(mem[p])
    BY <2>1, <2>2, JsonKind DEF Rename
  <2>4. live'.list = mem[p]
    BY <2>3 DEF Json
  <2> QED BY <2>2, <2>4
<1> QED BY FileInvariant, <1>1, PTL DEF Spec, RenameDoesItsJob

-----------------------------------------------------------------------------
(* SettingsFile implements AtomicFile as long as commands do not overlap *)

\* Without an overlap the temporary file holds, once it is written, what its
\* command has in memory, whatever the user saves meanwhile.
Ready == ~hist.overlap => \A p \in Procs : pc[p] = "rename" => tmp = Json(mem[p])

\* Only the one command that runs touches the temporary file.
LEMMA ReadyStep ==
  ASSUME Shape, Solo, Typed, Ready, [Next]_vars PROVE Ready'
<1> USE DEF Ready
<1>1. ASSUME NEW p \in Procs, Step(p) PROVE Ready'
  <2> SUFFICES ASSUME ~hist'.overlap PROVE Ready'
    OBVIOUS
  <2>1. CASE Read(p)
    <3>1. ~hist.overlap /\ tmp' = tmp /\ \A q \in Procs \ {p} : pc'[q] = pc[q] /\ mem'[q] = mem[q]
      BY <2>1, ReadHist DEF Read, Goto, Shape, Typed
    <3>2. pc'[p] # "rename"
      BY <2>1, AfterOpenType DEF Read, Goto, Shape
    <3> QED BY <3>1, <3>2
  <2>2. CASE BackupName(p) \/ BackupRead(p)
    BY <2>2 DEF BackupName, BackupRead, Goto, Shape
  <2>3. CASE BackupWrite(p)
    BY <2>3 DEF BackupWrite, Goto, Shape
  <2>4. CASE EditList(p)
    <3>1. hist' = hist /\ tmp' = tmp /\ pc'[p] # "rename"
      BY <2>4 DEF EditList, Goto, Shape
    <3>2. \A q \in Procs \ {p} : pc'[q] = pc[q] /\ mem'[q] = mem[q]
      BY <2>4 DEF EditList, Goto, Shape, Typed
    <3> QED BY <3>1, <3>2
  <2>5. CASE OpenTmp(p) \/ WriteTmp(p) \/ WriteFails(p) \/ Rename(p)
    <3>1. hist' = hist /\ mem' = mem
      BY <2>5 DEF OpenTmp, WriteTmp, WriteFails, Rename
    <3>2. pc[p] \in {"open", "write", "rename"}
      BY <2>5 DEF OpenTmp, WriteTmp, WriteFails, Rename, Goto
    <3>3. \A q \in Procs \ {p} : pc'[q] # "rename"
      BY <2>5, <3>1, <3>2 DEF OpenTmp, WriteTmp, WriteFails, Rename, Goto, Shape, Solo, Running, Ended
    <3>4. pc'[p] = "rename" => tmp' = Json(mem[p])
      <4> SUFFICES ASSUME pc'[p] = "rename" PROVE tmp' = Json(mem[p])
        OBVIOUS
      <4>1. WriteTmp(p)
        BY <2>5 DEF OpenTmp, WriteFails, Rename, Goto, Shape
      <4>2. fd[p] = "tmp" /\ Opened(p) = Empty
        BY <3>1, <4>1 DEF WriteTmp, Goto, Solo, Shape, Opened
      <4> QED BY <4>1, <4>2 DEF WriteTmp, Put, WrittenOver
    <3> QED BY <3>1, <3>3, <3>4
  <2>6. CASE Stop(p)
    BY <2>6 DEF Stop, Shape
  <2> QED BY <1>1, <2>1, <2>2, <2>3, <2>4, <2>5, <2>6 DEF Step
<1>2. CASE Save
  BY <1>2, SaveHist DEF Save
<1>3. CASE Tick
  BY <1>3 DEF Tick, procs
<1>4. CASE UNCHANGED vars
  BY <1>4 DEF vars, procs
<1> QED BY <1>1, <1>2, <1>3, <1>4 DEF Next

\* No command has looked at the file.
LEMMA AtomicInit == Init => Atomic!Init
BY DEF Init, Atomic!Init, Planned, Running, Ended

\* What one sees of the commands.
Plans == [p \in Procs |-> Planned(p)]
Begun == {p \in Procs : pc[p] # "idle"}

\* A step that changes neither the file nor what one sees of the commands.
LEMMA SeenSame ==
  ASSUME live' = live, op' = op, Begun' = Begun, Plans' = Plans, hist'.overlap = hist.overlap
  PROVE  [Atomic!Next]_(Atomic!vars)
BY DEF Plans, Begun, Atomic!vars

\* Nothing is promised once two commands were running at once.
LEMMA Overlapped ==
  ASSUME hist.overlap, hist'.overlap PROVE [Atomic!Next]_(Atomic!vars)
BY DEF Atomic!Next, Atomic!Collision

\* A step of p leaves the plans of the others alone.
LEMMA OthersPlans ==
  ASSUME Shape, Typed, NEW p \in Procs, op' = op,
         \A q \in Procs \ {p} : pc'[q] = pc[q] /\ mem'[q] = mem[q]
  PROVE  /\ Plans' = [Plans EXCEPT ![p] = Planned(p)']
         /\ (Planned(p)' = Planned(p) => Plans' = Plans)
         /\ (pc[p] # "idle" /\ pc'[p] # "idle" => Begun' = Begun)
<1>1. \A q \in Procs \ {p} : Planned(q)' = Planned(q)
  BY DEF Planned, Running, Ended
<1>2. Plans' = [q \in Procs |-> IF q = p THEN Planned(p)' ELSE Planned(q)]
  BY <1>1 DEF Plans
<1>3. pc[p] # "idle" /\ pc'[p] # "idle" => Begun' = Begun
  BY DEF Begun
<1> QED BY <1>2, <1>3 DEF Plans

\* A step of a command that is under way and keeps its plan is not seen.
LEMMA Hidden ==
  ASSUME Shape, Typed, NEW p \in Procs, op' = op, live' = live, hist'.overlap = hist.overlap,
         \A q \in Procs \ {p} : pc'[q] = pc[q] /\ mem'[q] = mem[q],
         pc[p] # "idle", pc'[p] # "idle", Planned(p)' = Planned(p)
  PROVE  [Atomic!Next]_(Atomic!vars)
BY OthersPlans, SeenSame

\* One that loses its plan gives up.
LEMMA Forsaken ==
  ASSUME Shape, Typed, NEW p \in Procs, op' = op, live' = live, hist'.overlap = hist.overlap,
         \A q \in Procs \ {p} : pc'[q] = pc[q] /\ mem'[q] = mem[q],
         pc[p] # "idle", pc'[p] # "idle", Planned(p)' = {}
  PROVE  [Atomic!Next]_(Atomic!vars)
<1>1. Plans' = [Plans EXCEPT ![p] = {}] /\ Begun' = Begun
  BY OthersPlans
<1>2. Atomic!GiveUp(p)
  BY <1>1 DEF Plans, Begun, Atomic!GiveUp
<1> QED BY <1>2 DEF Atomic!Next

\* Reading the file is the beginning of a command.
LEMMA ReadBegins ==
  ASSUME Shape, Typed, NEW p \in Procs, Read(p)
  PROVE  Atomic!Begin(p)
<1>1. pc[p] = "idle" /\ mem' = [mem EXCEPT ![p] = live.list] /\ pc' = [pc EXCEPT ![p] = AfterOpen(op[p])]
  BY DEF Read, Goto
<1>2. live' = live /\ op' = op
  BY DEF Read
<1>3. \A q \in Procs \ {p} : pc'[q] = pc[q] /\ mem'[q] = mem[q]
  BY <1>1 DEF Shape, Typed
<1>4. pc'[p] \in {"ok", "failed", "crashed", "backup"} /\ mem'[p] = live.list
  BY <1>1, AfterOpenType DEF Shape, Typed
<1>5. p \notin Begun /\ Begun' = Begun \cup {p}
  BY <1>1, <1>3, <1>4 DEF Begun
<1>6. Planned(p) = {}
  BY <1>1 DEF Planned, Running
<1>7. Planned(p)' \in {{}, {EditedFile(op[p], live)}}
  BY <1>2, <1>4 DEF Planned, Running, Ended, EditedFile
<1>8. Plans' \in {Plans, [Plans EXCEPT ![p] = {EditedFile(op[p], live)}]}
  BY <1>2, <1>3, <1>6, <1>7, OthersPlans
<1>9. \A q \in Procs : Plans[q] # {} <=> q # p /\ Running(q)
  BY <1>1 DEF Plans, Planned, Running
<1>10. hist'.overlap = (hist.overlap \/ \E q \in Procs : Plans[q] # {})
  BY <1>9, ReadHist
<1> QED BY <1>2, <1>5, <1>8, <1>10 DEF Plans, Begun, Atomic!Begin

\* The rename is the one step that replaces the file.
LEMMA RenameReplaces ==
  ASSUME Shape, Typed, Ready, NEW p \in Procs, Rename(p), ~hist.overlap
  PROVE  Atomic!Replace(p)
<1>1. pc[p] = "rename" /\ tmp = Json(mem[p])
  BY DEF Rename, Goto, Ready
<1>2. live' = Json(mem[p]) /\ pc' = [pc EXCEPT ![p] = "ok"] /\ UNCHANGED <<op, mem, hist>>
  BY <1>1, JsonKind DEF Rename, Goto
<1>3. \A q \in Procs \ {p} : pc'[q] = pc[q] /\ mem'[q] = mem[q]
  BY <1>2 DEF Shape
<1>4. pc'[p] = "ok"
  BY <1>2 DEF Shape
<1>5. Planned(p) = {Json(mem[p])} /\ Planned(p)' = {}
  BY <1>1, <1>4 DEF Planned, Running, Ended
<1>6. Plans' = [Plans EXCEPT ![p] = {}] /\ Begun' = Begun
  BY <1>1, <1>2, <1>3, <1>4, <1>5, OthersPlans
<1>7. live' \in Plans[p]
  BY <1>2, <1>5 DEF Plans
<1> QED BY <1>2, <1>6, <1>7 DEF Plans, Begun, Atomic!Replace

\* Every step of the protocol is a step of AtomicFile, or is not seen.
LEMMA AtomicStep ==
  ASSUME FileInv, Ready, [Next]_vars PROVE [Atomic!Next]_(Atomic!vars)
<1> USE DEF FileInv
<1>1. ASSUME NEW p \in Procs, Step(p) PROVE [Atomic!Next]_(Atomic!vars)
  <2>1. CASE Read(p)
    BY <2>1, ReadBegins DEF Atomic!Next
  <2>2. CASE BackupName(p) \/ BackupRead(p) \/ BackupWrite(p)
    <3>1. op' = op /\ live' = live /\ mem' = mem /\ hist'.overlap = hist.overlap
      BY <2>2 DEF BackupName, BackupRead, BackupWrite, Shape
    <3>2. pc[p] \in {"backup", "backupRead", "backupWrite"} /\ pc'[p] \in {"backupRead", "backupWrite", "edit", "failed"}
      BY <2>2 DEF BackupName, BackupRead, BackupWrite, Goto, Shape
    <3>3. \A q \in Procs \ {p} : pc'[q] = pc[q]
      BY <2>2 DEF BackupName, BackupRead, BackupWrite, Goto, Shape
    <3>4. Planned(p)' \in {{}, Planned(p)}
      BY <3>1, <3>2 DEF Planned, Running, Ended
    <3> QED BY <3>1, <3>2, <3>3, <3>4, Hidden, Forsaken
  <2>3. CASE EditList(p)
    <3>1. op' = op /\ live' = live /\ hist' = hist /\ pc[p] = "edit"
      BY <2>3 DEF EditList, Goto
    <3>2. \A q \in Procs \ {p} : pc'[q] = pc[q] /\ mem'[q] = mem[q]
      BY <2>3 DEF EditList, Goto, Shape, Typed
    <3>3. \/ pc'[p] = "crashed"
          \/ pc'[p] = "open" /\ mem'[p] = Edited(op[p], mem[p])
      BY <2>3 DEF EditList, Goto, Shape, Typed
    <3>4. Planned(p)' \in {{}, Planned(p)}
      BY <3>1, <3>3 DEF Planned, Running, Ended
    <3> QED BY <3>1, <3>2, <3>3, <3>4, Hidden, Forsaken
  <2>4. CASE OpenTmp(p)
    <3>1. UNCHANGED <<op, live, mem, hist>> /\ pc[p] = "open" /\ pc' = [pc EXCEPT ![p] = "write"]
      BY <2>4 DEF OpenTmp, Goto
    <3>2. pc'[p] = "write" /\ \A q \in Procs \ {p} : pc'[q] = pc[q]
      BY <3>1 DEF Shape
    <3>3. Planned(p)' = Planned(p)
      BY <3>1, <3>2 DEF Planned, Running, Ended
    <3> QED BY <3>1, <3>2, <3>3, Hidden
  <2>5. CASE WriteTmp(p) \/ WriteFails(p)
    <3>1. UNCHANGED <<op, mem, hist>> /\ pc[p] = "write"
      BY <2>5 DEF WriteTmp, WriteFails, Goto
    <3>2. pc'[p] \in {"rename", "failed"} /\ \A q \in Procs \ {p} : pc'[q] = pc[q]
      BY <2>5 DEF WriteTmp, WriteFails, Goto, Shape
    <3>3. CASE hist.overlap
      BY <3>1, <3>3, Overlapped
    <3>4. CASE ~hist.overlap
      <4>1. live' = live
        BY <2>5, <3>1, <3>4 DEF WriteTmp, WriteFails, Put, Solo
      <4>2. Planned(p)' \in {{}, Planned(p)}
        BY <3>1, <3>2 DEF Planned, Running, Ended
      <4> QED BY <3>1, <3>2, <4>1, <4>2, Hidden, Forsaken
    <3> QED BY <3>3, <3>4
  <2>6. CASE Rename(p)
    <3>1. CASE hist.overlap
      BY <2>6, <3>1, Overlapped DEF Rename
    <3>2. CASE ~hist.overlap
      BY <2>6, <3>2, RenameReplaces DEF Atomic!Next
    <3> QED BY <3>1, <3>2
  <2>7. CASE Stop(p)
    <3>1. UNCHANGED <<op, live, mem, hist>> /\ pc[p] # "idle"
      BY <2>7 DEF Stop, Running
    <3>2. pc'[p] \in Ended /\ \A q \in Procs \ {p} : pc'[q] = pc[q]
      BY <2>7 DEF Stop, Shape, Ended
    <3>3. Planned(p)' = {} /\ pc'[p] # "idle"
      BY <3>2 DEF Planned, Running, Ended
    <3> QED BY <3>1, <3>2, <3>3, Forsaken
  <2> QED BY <1>1, <2>1, <2>2, <2>3, <2>4, <2>5, <2>6, <2>7 DEF Step
<1>2. CASE Save
  <2>1. live' \in {Json(doc) : doc \in Saves} /\ hist'.overlap = hist.overlap
    BY <1>2, SaveHist
  <2>2. UNCHANGED <<op, pc, mem>>
    BY <1>2 DEF Save
  <2>3. Plans' = Plans /\ Begun' = Begun
    BY <2>2 DEF Plans, Begun, Planned, Running
  <2>4. Atomic!Save
    BY <2>1, <2>2, <2>3 DEF Plans, Begun, Atomic!Save
  <2> QED BY <2>4 DEF Atomic!Next
<1>3. CASE Tick \/ UNCHANGED vars
  <2>1. UNCHANGED <<live, op, pc, mem, hist>>
    BY <1>3 DEF Tick, vars, procs
  <2>2. Plans' = Plans /\ Begun' = Begun
    BY <2>1 DEF Plans, Begun, Planned, Running
  <2> QED BY <2>1, <2>2, SeenSame
<1> QED BY <1>1, <1>2, <1>3 DEF Next

\* Commands that run one after the other replace the hook file at once, each
\* at most once, by the edit of what it had found, or leave it alone.
THEOREM ReplacedAtOnceHolds == Spec => ReplacedAtOnce
<1>1. Init => Ready
  BY DEF Init, Ready
<1>2. FileInv /\ Ready /\ [Next]_vars => Ready'
  BY ReadyStep DEF FileInv
<1>3. FileInv /\ Ready /\ [Next]_vars => [Atomic!Next]_(Atomic!vars)
  BY AtomicStep
<1> QED BY AtomicInit, FileInvariant, <1>1, <1>2, <1>3, PTL DEF Spec, ReplacedAtOnce, Atomic!Spec

-----------------------------------------------------------------------------
(* CodexTrust: the trust of the installed hook *)

\* A position of a list: two numbers, and a handler there.
LEMMA PositionType ==
  ASSUME NEW S, NEW list \in Seq(Seq(S)), NEW pos \in InList(list)
  PROVE  pos \in Nat \X Nat /\ At(list, pos) \in S
<1>1. PICK i \in DOMAIN list : pos \in {i} \X DOMAIN list[i]
  BY DEF InList
<1>2. pos[1] = i /\ pos[2] \in DOMAIN list[i] /\ pos = <<pos[1], pos[2]>>
  BY <1>1
<1>3. i \in Nat /\ list[i] \in Seq(S)
  OBVIOUS
<1>4. pos[2] \in Nat /\ list[i][pos[2]] \in S
  BY <1>2, <1>3
<1> QED BY <1>2, <1>3, <1>4 DEF At

\* The gatekeeper and Codex hash a hook alike.
LEMMA HashesAgree ==
  ASSUME NEW h \in Handler
  PROVE  Hash(h) = CodexHash(h) /\ Hash(h) \in Handler
<1>1. h.timeout \in Nat \cup {-1}
  BY DEF Handler
<1>2. (h.timeout = 0 <=> h.timeout < 1 /\ h.timeout # -1)
  BY <1>1
<1>3. Hash(h) = CodexHash(h)
  BY <1>1, <1>2 DEF Hash, CodexHash
<1>4. Hash(h) \in Handler
  BY <1>1 DEF Hash, Handler
<1> QED BY <1>3, <1>4

\* Our hook has one first position.
LEMMA FirstOwnUnique ==
  ASSUME NEW list \in Seq(Seq(Handler)), NEW p \in FirstOwn(list), NEW q \in FirstOwn(list)
  PROVE  p = q
<1> SUFFICES ASSUME p # q PROVE FALSE
  OBVIOUS
<1>1. p \in Nat \X Nat /\ q \in Nat \X Nat
  BY PositionType DEF FirstOwn, OwnAt
<1>2. Before(p, q) /\ Before(q, p)
  BY DEF FirstOwn
<1>3. p[1] \in Nat /\ p[2] \in Nat /\ q[1] \in Nat /\ q[2] \in Nat
  BY <1>1
<1> QED BY <1>2, <1>3 DEF Before

\* Between the two reads, and unless the user edits the list, Inspect holds
\* the key and the hash of the first of our hooks, one that Codex looks at.
FoundIsFirst ==
  step = "compare" /\ ~edited =>
    found.key \in Eligible(groups) /\ found.hash = Hash(At(groups, found.key))

\* The inductive invariant.
TrustInv == TrustTypeOK /\ FoundIsFirst

\* What setup registers is a handler with the gatekeeper's name.
LEMMA OwnHandlerType == OwnHandler \in Handler /\ OwnHandler.command \in GatekeeperCommand
BY DEF OwnHandler, Handler, Command, GatekeeperCommand

\* An edit by the user leaves a list of handlers.
LEMMA EditsType ==
  ASSUME groups \in Seq(Seq(Handler)), EditHooks
  PROVE  groups' \in Seq(Seq(Handler))
<1> DEFINE G == Seq(Handler)
<1>1. ASSUME NEW h \in UserHooks, NEW i \in 1..(Len(groups) + 1), groups' = InsertAt(groups, i, <<h>>)
      PROVE  groups' \in Seq(G)
  <2>1. <<h>> \in G /\ groups \in Seq(G)
    BY HooksAssumption
  <2> HIDE DEF G
  <2>2. Len(groups) \in Nat /\ i \in Nat
    BY <2>1
  <2>3. SubSeq(groups, 1, i - 1) \in Seq(G) /\ SubSeq(groups, i, Len(groups)) \in Seq(G)
    <3>1. i - 1 \in Nat /\ i - 1 <= Len(groups)
      BY <2>2
    <3>2. \A j \in 1..(i - 1) : j \in DOMAIN groups
      BY <2>1, <2>2, <3>1
    <3>3. \A j \in i..Len(groups) : j \in DOMAIN groups
      BY <2>1, <2>2
    <3> QED BY <2>1, <2>2, <3>1, <3>2, <3>3
  <2>4. SubSeq(groups, 1, i - 1) \o << <<h>> >> \in Seq(G)
    BY <2>1, <2>3
  <2> QED BY <1>1, <2>3, <2>4, ConcatProperties DEF InsertAt
<1>2. ASSUME NEW h \in UserHooks, NEW i \in DOMAIN groups, Len(groups[i]) \in 1..(MaxHandlers - 1),
             groups' = [groups EXCEPT ![i] = << [h EXCEPT !.matcher = groups[i][1].matcher] >> \o @]
      PROVE  groups' \in Seq(G)
  <2>1. groups[i] \in Seq(Handler) /\ h \in Handler
    BY HooksAssumption
  <2>2. 1 \in DOMAIN groups[i]
    BY <1>2, <2>1
  <2>3. groups[i][1] \in Handler
    BY <2>1, <2>2
  <2>4. [h EXCEPT !.matcher = groups[i][1].matcher] \in Handler
    BY <2>1, <2>3 DEF Handler
  <2> DEFINE n == [h EXCEPT !.matcher = groups[i][1].matcher]
  <2> HIDE DEF n
  <2>5. <<n>> \o groups[i] \in G
    BY <2>1, <2>4, ConcatProperties DEF n
  <2> HIDE DEF G
  <2> QED BY <1>2, <2>5 DEF n, G
<1>3. ASSUME NEW i \in DOMAIN groups, groups' = RemoveAt(groups, i) PROVE groups' \in Seq(G)
  <2>1. groups \in Seq(G)
    OBVIOUS
  <2> HIDE DEF G
  <2>2. Len(groups) \in Nat /\ i \in Nat /\ i - 1 \in Nat /\ i - 1 <= Len(groups)
    BY <2>1
  <2>3. SubSeq(groups, 1, i - 1) \in Seq(G) /\ SubSeq(groups, i + 1, Len(groups)) \in Seq(G)
    <3>2. \A j \in 1..(i - 1) : j \in DOMAIN groups
      BY <2>1, <2>2
    <3>3. \A j \in (i + 1)..Len(groups) : j \in DOMAIN groups
      BY <2>1, <2>2
    <3> QED BY <2>1, <2>2, <3>2, <3>3
  <2> QED BY <1>3, <2>3, ConcatProperties DEF RemoveAt
<1> QED BY <1>1, <1>2, <1>3 DEF EditHooks

\* Nothing was looked up yet.
LEMMA TrustInitOK == TrustInit => TrustInv
<1> SUFFICES ASSUME TrustInit PROVE TrustInv
  OBVIOUS
<1>1. PICK start \in StartLists :
        /\ groups = start.groups
        /\ trust = [pos \in start.approved |-> CodexHash(At(start.groups, pos))]
  BY DEF TrustInit
<1>2. groups \in Seq(Seq(Handler)) /\ start.approved \subseteq InList(groups)
  BY <1>1, StartAssumption
<1>3. \A pos \in start.approved : pos \in Nat \X Nat /\ CodexHash(At(groups, pos)) \in Handler
  BY <1>2, PositionType, HashesAgree
<1>4. DOMAIN trust \subseteq Nat \X Nat /\ trust \in [DOMAIN trust -> Handler]
  BY <1>1, <1>3
<1>5. found \in [key : Nat \X Nat, hash : Handler \cup {NoHash}]
  BY DEF TrustInit
<1>6. step = "idle" /\ purpose = "setup" /\ result = "none" /\ edits \in 0..MaxEdits /\ edited = FALSE
      /\ readable = TRUE
  BY LimitsAssumption DEF TrustInit
<1> QED BY <1>2, <1>4, <1>5, <1>6 DEF TrustInv, TrustTypeOK, FoundIsFirst

\* Every step keeps the types, and what Inspect found, unless the user edits.
LEMMA TrustStep ==
  ASSUME TrustInv, [TrustNext]_trustVars PROVE TrustInv'
<1> USE DEF TrustInv, TrustTypeOK, FoundIsFirst
<1>1. CASE SetupWrite
  <2>1. groups' \in Seq(Seq(Handler))
    BY <1>1, OwnHandlerType, RegisteredType DEF SetupWrite
  <2> QED BY <1>1, <2>1 DEF SetupWrite
<1>2. CASE Doctor
  BY <1>2 DEF Doctor
<1>3. CASE InspectHooks
  <2>1. CASE Eligible(groups) = {} /\ step' = "idle" /\ result' = "error" /\ UNCHANGED found
    BY <1>3, <2>1 DEF InspectHooks
  <2>2. ASSUME NEW pos \in Eligible(groups), step' = "compare", UNCHANGED result,
               found' = [key |-> Key(pos), hash |-> Hash(At(groups, pos))]
        PROVE  TrustInv'
    <3>1. pos \in InList(groups)
      BY DEF Eligible, FirstOwn, OwnAt
    <3>2. pos \in Nat \X Nat /\ Hash(At(groups, pos)) \in Handler
      BY <3>1, PositionType, HashesAgree
    <3>3. found'.key = pos /\ found'.hash = Hash(At(groups, pos))
          /\ found' \in [key : Nat \X Nat, hash : Handler \cup {NoHash}]
      BY <2>2, <3>2 DEF Key
    <3>4. UNCHANGED <<groups, trust, readable, purpose, edits, edited>>
      BY <1>3 DEF InspectHooks
    <3>5. InList(groups)' = InList(groups) /\ Eligible(groups)' = Eligible(groups)
      BY <3>4
    <3> QED BY <2>2, <3>1, <3>3, <3>4, <3>5
  <2> QED BY <1>3, <2>1, <2>2 DEF InspectHooks
<1>4. CASE InspectTrust
  BY <1>4 DEF InspectTrust
<1>5. CASE Approve
  <2>1. PICK pos \in InList(groups) : ApproveAt(pos)
    BY <1>5 DEF Approve
  <2>2. pos \in Nat \X Nat /\ CodexHash(At(groups, pos)) \in Handler
    BY PositionType, HashesAgree
  <2>3. DOMAIN trust' \subseteq Nat \X Nat /\ trust' \in [DOMAIN trust' -> Handler]
    BY <2>1, <2>2 DEF ApproveAt
  <2> QED BY <2>1, <2>3 DEF ApproveAt
<1>6. CASE EditHooks
  <2>1. groups' \in Seq(Seq(Handler))
    BY <1>6, EditsType
  <2>2. edits' \in 0..MaxEdits
    BY <1>6, LimitsAssumption DEF EditHooks
  <2> QED BY <1>6, <2>1, <2>2 DEF EditHooks
<1>7. CASE EditConfig
  BY <1>7, LimitsAssumption DEF EditConfig
<1>8. CASE UNCHANGED trustVars
  BY <1>8 DEF trustVars
<1> QED BY <1>1, <1>2, <1>3, <1>4, <1>5, <1>6, <1>7, <1>8 DEF TrustNext

\* TrustInv is inductive.
LEMMA TrustInvariant == TrustSpec => []TrustInv
BY TrustInitOK, TrustStep, PTL DEF TrustSpec

\* What Inspect looks up is the key of a hook, under any list and trust.
THEOREM TrustTypeCorrect == TrustSpec => []TrustTypeOK
<1>1. TrustInv => TrustTypeOK
  BY DEF TrustInv
<1> QED BY TrustInvariant, <1>1, PTL

\* Setup and doctor report trust if and only if Codex runs the hook then.
THEOREM ReportIsTrueHolds == TrustSpec => ReportIsTrue
<1>1. TrustInv /\ [TrustNext]_trustVars =>
        [step # "idle" /\ step' = "idle" /\ ~edited =>
           (result' = "verified" <=>
             readable /\ \E pos \in FirstOwn(groups) : Runs(groups, trust, pos))]_trustVars
  <2> SUFFICES ASSUME TrustInv, [TrustNext]_trustVars, step # "idle", step' = "idle", ~edited
               PROVE  result' = "verified" <=>
                        readable /\ \E pos \in FirstOwn(groups) : Runs(groups, trust, pos)
    OBVIOUS
  <2> USE DEF TrustInv, TrustTypeOK
  <2>1. CASE InspectHooks
    <3>1. Eligible(groups) = {} /\ result' = "error"
      BY <2>1 DEF InspectHooks
    <3> QED BY <3>1 DEF Eligible, Runs
  <2>2. CASE InspectTrust
    <3> DEFINE key == found.key
               h == At(groups, key)
    <3>1. key \in Eligible(groups) /\ found.hash = Hash(h)
      BY <2>2 DEF InspectTrust, FoundIsFirst
    <3>2. key \in FirstOwn(groups) /\ h.type = "command" /\ ~h.async /\ h.matcher # "invalid" /\ h \in Handler
      BY <3>1, PositionType DEF Eligible, FirstOwn, OwnAt
    <3>3. found.hash = CodexHash(h)
      BY <3>1, <3>2, HashesAgree
    <3>4. result' = "verified" <=> readable /\ key \in DOMAIN trust /\ trust[key] = CodexHash(h)
      BY <2>2, <3>3 DEF InspectTrust
    <3>5. result' = "verified" <=> readable /\ Runs(groups, trust, key)
      BY <3>2, <3>4 DEF Runs
    <3> HIDE DEF key
    <3>6. \A pos \in FirstOwn(groups) : pos = key
      BY <3>2, FirstOwnUnique
    <3> QED BY <3>2, <3>5, <3>6
  <2>3. ~SetupWrite /\ ~Doctor /\ ~UNCHANGED trustVars /\ ~EditHooks /\ ~EditConfig /\ ~Approve
    BY DEF SetupWrite, Doctor, trustVars, EditHooks, EditConfig, Approve, ApproveAt
  <2> QED BY <2>1, <2>2, <2>3 DEF TrustNext
<1> QED BY TrustInvariant, <1>1, PTL DEF TrustSpec, ReportIsTrue

\* A rerun of setup rewrites the list it wrote, so no approved hook moves.
THEOREM RerunMovesNothingHolds == TrustSpec => RerunMovesNothing
<1>1. TrustInv =>
        [SetupWrite /\ <<>> \notin ToSet(groups) =>
           Registered(groups', OwnHandler) = groups']_trustVars
  <2> SUFFICES ASSUME TrustInv, SetupWrite, <<>> \notin ToSet(groups)
               PROVE  Registered(groups', OwnHandler) = groups'
    OBVIOUS
  <2>1. groups \in Seq(Seq(Handler)) /\ groups' = Registered(groups, OwnHandler)
    BY DEF TrustInv, TrustTypeOK, SetupWrite
  <2> QED BY <2>1, OwnHandlerType, RegisteredTwice
<1> QED BY TrustInvariant, <1>1, PTL DEF TrustSpec, RerunMovesNothing
=============================================================================
