------------------------------ MODULE Induction ------------------------------
(***************************************************************************)
(* Induction over the numbers up to n and over sequences, and what it says *)
(* of functions that are defined by recursion.  The proofs of the other    *)
(* modules use these lemmas wherever something grows step by step.         *)
(***************************************************************************)
EXTENDS Integers, SequencesExt, SequenceTheorems, WellFoundedInduction, TLAPS

(* A set of numbers that is not empty has a least one.                     *)
LEMMA LeastNumber ==
  ASSUME NEW T \in SUBSET Nat, T # {}
  PROVE  \E n \in T : \A m \in T : n <= m
<1> DEFINE R == OpToRel(<, Nat)
<1>1. IsWellFoundedOn(R, Nat)
  BY NatLessThanWellFounded
<1>2. \A x, y \in Nat : <<x, y>> \in R <=> x < y
  BY DEF OpToRel
<1> HIDE DEF R
<1>3. PICK n \in T : \A m \in T : ~(<<m, n>> \in R)
  BY <1>1, WFMin
<1>4. \A m \in T : ~(m < n)
  BY <1>2, <1>3
<1> QED BY <1>4

(* What holds of 0, and of k when it holds of k - 1, holds of all up to n. *)
LEMMA UpTo ==
  ASSUME NEW n \in Nat, NEW S, 0 \in S, \A k \in 1..n : k - 1 \in S => k \in S
  PROVE  0..n \subseteq S
<1> DEFINE T == (0..n) \ S
<1> SUFFICES ASSUME T # {} PROVE FALSE
  OBVIOUS
<1>0. T \in SUBSET Nat
  OBVIOUS
<1>1. \E k \in T : \A m \in T : k <= m
  <2> HIDE DEF T
  <2> QED BY <1>0, LeastNumber
<1> PICK k \in T : \A m \in T : k <= m
  BY <1>1
<1>2. k \in 1..n /\ k - 1 \notin T
  OBVIOUS
<1> QED BY <1>2

(* Step k of n takes the values of S to values of S.                       *)
Steps(n, S) == [1..n -> [S -> S]]

(* f begins with base, and each value of it comes from the one before.     *)
Runs(f, n, S, base, step) ==
  f \in [0..n -> S] /\ f[0] = base /\ \A k \in 1..n : f[k] = step[k][f[k - 1]]

(* A function can be defined on 0..n by its value at 0 and by how each     *)
(* value comes from the one before.                                        *)
LEMMA RecursionExists ==
  ASSUME NEW S, NEW base \in S, NEW n \in Nat, NEW step \in Steps(n, S)
  PROVE  \E f : Runs(f, n, S, base, step)
<1> DEFINE Fits(f, m) == f[0] = base /\ \A k \in 1..m : f[k] = step[k][f[k - 1]]
           Defined == {m \in 0..n : \E f \in [0..m -> S] : Fits(f, m)}
<1>1. 0 \in Defined
  <2> DEFINE f == [k \in 0..0 |-> base]
  <2>1. f \in [0..0 -> S] /\ Fits(f, 0)
    OBVIOUS
  <2> HIDE DEF f, Fits
  <2> QED BY <2>1
<1>2. ASSUME NEW m \in 1..n, m - 1 \in Defined PROVE m \in Defined
  <2>1. PICK g \in [0..(m - 1) -> S] : Fits(g, m - 1)
    BY <1>2
  <2> DEFINE f == [k \in 0..m |-> IF k = m THEN step[m][g[m - 1]] ELSE g[k]]
  <2>2. m - 1 \in 0..(m - 1) /\ step[m] \in [S -> S]
    BY DEF Steps
  <2>3. step[m][g[m - 1]] \in S
    BY <2>2
  <2>4. f \in [0..m -> S]
    BY <2>3
  <2>5. f[0] = base
    BY <2>1
  <2>6. ASSUME NEW k \in 1..m PROVE f[k] = step[k][f[k - 1]]
    <3>1. f[k - 1] = g[k - 1]
      OBVIOUS
    <3>2. CASE k = m
      BY <3>1, <3>2
    <3>3. CASE k # m
      <4>1. k \in 1..(m - 1)
        BY <3>3
      <4>2. g[k] = step[k][g[k - 1]]
        BY <2>1, <4>1
      <4>3. f[k] = g[k]
        BY <3>3
      <4> HIDE DEF f
      <4> QED BY <3>1, <4>2, <4>3
    <3> QED BY <3>2, <3>3
  <2>7. Fits(f, m)
    BY <2>5, <2>6
  <2> HIDE DEF f, Fits
  <2> QED BY <2>4, <2>7
<1>3. n \in Defined
  <2>1. 0..n \subseteq Defined
    <3> HIDE DEF Defined
    <3> QED BY <1>1, <1>2, UpTo
  <2> QED BY <2>1
<1> QED BY <1>3 DEF Runs

(* A function on 0..n that begins with base and makes these steps from     *)
(* values of S has all its values in S.                                    *)
LEMMA StaysInSet ==
  ASSUME NEW S, NEW base \in S, NEW n \in Nat, NEW step \in Steps(n, S),
         NEW f, f = [k \in 0..n |-> f[k]], f[0] = base,
         \A k \in 1..n : f[k - 1] \in S => f[k] = step[k][f[k - 1]]
  PROVE  Runs(f, n, S, base, step)
<1> DEFINE T == {k \in 0..n : f[k] \in S}
<1>1. 0 \in T
  OBVIOUS
<1>2. ASSUME NEW k \in 1..n, k - 1 \in T PROVE f[k] = step[k][f[k - 1]] /\ k \in T
  <2>1. step[k] \in [S -> S] /\ f[k - 1] \in S /\ k \in 0..n
    BY <1>2 DEF Steps
  <2>2. f[k] = step[k][f[k - 1]]
    BY <2>1
  <2> QED BY <2>1, <2>2
<1>3. 0..n \subseteq T
  <2> HIDE DEF T
  <2> QED BY <1>1, <1>2, UpTo
<1>4. \A k \in 1..n : k - 1 \in 0..n
  OBVIOUS
<1>5. f \in [0..n -> S]
  BY <1>3
<1> QED BY <1>2, <1>3, <1>4, <1>5 DEF Runs

Agree(f, g, m, n) == \A k \in m..n : f[k] = g[k]

(* Functions that begin with the same base and have the same steps agree.  *)
LEMMA RunsAgree ==
  ASSUME NEW S, NEW base, NEW n \in Nat, NEW m \in Nat, n <= m,
         NEW step, NEW other, Agree(step, other, 1, n),
         NEW f, NEW g, Runs(f, n, S, base, step), Runs(g, m, S, base, other)
  PROVE  Agree(f, g, 0, n)
<1> USE DEF Agree
<1> DEFINE T == {k \in 0..n : f[k] = g[k]}
<1>1. 0 \in T
  BY DEF Runs
<1>2. ASSUME NEW k \in 1..n, k - 1 \in T PROVE k \in T
  <2>1. f[k] = step[k][f[k - 1]]
    BY DEF Runs
  <2>2. k \in 1..m
    OBVIOUS
  <2>3. g[k] = other[k][g[k - 1]]
    BY <2>2 DEF Runs
  <2> QED BY <1>2, <2>1, <2>3
<1>3. 0..n \subseteq T
  <2> HIDE DEF T
  <2> QED BY <1>1, <1>2, UpTo
<1> QED BY <1>3
-----------------------------------------------------------------------------
(***************************************************************************)
(* Sequences.                                                              *)
(***************************************************************************)
(* What holds of the empty sequence, and of s with an element behind it    *)
(* when it holds of s, holds of all sequences.                             *)
LEMMA AllSequences ==
  ASSUME NEW S, NEW T, <<>> \in T,
         \A s \in Seq(S), e \in S : s \in T => Append(s, e) \in T
  PROVE  Seq(S) \subseteq T
<1> SUFFICES ASSUME NEW s \in Seq(S) PROVE s \in T
  OBVIOUS
<1> DEFINE n == Len(s)
           P == {k \in 0..n : SubSeq(s, 1, k) \in T}
<1>0. n \in Nat /\ \A k \in 1..n : s[k] \in S
  OBVIOUS
<1>1. 0 \in P
  <2>1. SubSeq(s, 1, 0) = <<>>
    BY SubSeqEmpty
  <2>2. 0 \in 0..n
    BY <1>0
  <2> QED BY <2>1, <2>2, Zenon
<1>2. ASSUME NEW k \in 1..n, k - 1 \in P PROVE k \in P
  <2>1. /\ SubSeq(s, 1, k - 1) \in Seq(S)
        /\ SubSeq(s, 1, k) = Append(SubSeq(s, 1, k - 1), s[k])
    <3>1. k \in Nat /\ 1 \in 1..Len(s) /\ k \in 1..Len(s) /\ \A j \in 1..(k - 1) : s[j] \in S
      BY <1>0
    <3>2. SubSeq(s, 1, k) = SubSeq(s, 1, k - 1) \o <<s[k]>>
      BY <3>1, SubSeqRecursiveSecond
    <3>3. SubSeq(s, 1, k - 1) \in Seq(S)
      BY <3>1, SubSeqProperties
    <3> QED BY <1>0, <3>2, <3>3, AppendIsConcat
  <2>2. s[k] \in S /\ SubSeq(s, 1, k - 1) \in T
    BY <1>0, <1>2
  <2> HIDE DEF n
  <2>3. SubSeq(s, 1, k) \in T
    BY <2>1, <2>2
  <2> QED BY <1>0, <2>3
<1>3. n \in P
  <2>1. 0..n \subseteq P
    <3> HIDE DEF P
    <3> QED BY <1>0, <1>1, <1>2, UpTo
  <2> QED BY <1>0, <2>1
<1>4. SubSeq(s, 1, Len(s)) = s
  BY SubSeqFull
<1> QED BY <1>3, <1>4

(* Appending leaves what is there where it is.                             *)
LEMMA InConcat ==
  ASSUME NEW S, NEW a \in Seq(S), NEW b \in Seq(S), NEW i \in Nat \ {0}
  PROVE  /\ a \o b \in Seq(S) /\ Len(a \o b) = Len(a) + Len(b)
         /\ i <= Len(a) => (a \o b)[i] = a[i]
         /\ i <= Len(b) => (a \o b)[Len(a) + i] = b[i]
<1>1. Len(a) \in Nat /\ Len(b) \in Nat
  OBVIOUS
<1>2. /\ a \o b \in Seq(S) /\ Len(a \o b) = Len(a) + Len(b)
      /\ \A j \in 1..(Len(a) + Len(b)) :
           (a \o b)[j] = IF j <= Len(a) THEN a[j] ELSE b[j - Len(a)]
  BY ConcatProperties
<1>3. ASSUME i <= Len(a) PROVE (a \o b)[i] = a[i]
  <2>1. i \in 1..(Len(a) + Len(b))
    BY <1>1, <1>3
  <2> QED BY <1>2, <1>3, <2>1
<1>4. ASSUME i <= Len(b) PROVE (a \o b)[Len(a) + i] = b[i]
  <2> DEFINE j == Len(a) + i
  <2>1. j \in 1..(Len(a) + Len(b)) /\ ~(j <= Len(a)) /\ j - Len(a) = i
    BY <1>1, <1>4
  <2>2. (a \o b)[j] = b[j - Len(a)]
    BY <1>2, <2>1
  <2> QED BY <2>1, <2>2
<1> QED BY <1>2, <1>3, <1>4

(* There is a function as the recursive definition in FlattenSeq wants it. *)
LEMMA FlattenExists ==
  ASSUME NEW s, NEW n \in Nat
  PROVE  \E f : f = [i \in 1..n |-> IF i = 1 THEN s[i] ELSE f[i - 1] \o s[i]]
<1> DEFINE S == {m \in Nat : \E f : f = [i \in 1..m |-> IF i = 1 THEN s[i] ELSE f[i - 1] \o s[i]]}
<1>1. 0 \in S
  <2> DEFINE f == [i \in 1..0 |-> s[i]]
  <2>1. f = [i \in 1..0 |-> IF i = 1 THEN s[i] ELSE f[i - 1] \o s[i]]
    OBVIOUS
  <2> HIDE DEF f
  <2> QED BY <2>1
<1>2. ASSUME NEW k \in 1..n, k - 1 \in S PROVE k \in S
  <2>1. PICK g : g = [i \in 1..(k - 1) |-> IF i = 1 THEN s[i] ELSE g[i - 1] \o s[i]]
    BY <1>2
  <2> DEFINE f == [i \in 1..k |->
                     IF i = 1 THEN s[i] ELSE IF i = k THEN g[k - 1] \o s[k] ELSE g[i]]
             e == [i \in 1..k |-> IF i = 1 THEN s[i] ELSE f[i - 1] \o s[i]]
  <2>2. ASSUME NEW i \in 1..k PROVE f[i] = e[i]
    <3>0. k \in Nat /\ i \in Nat
      OBVIOUS
    <3>1. CASE i = 1
      BY <3>1
    <3>2. CASE i # 1
      <4>1. i - 1 \in 1..(k - 1) /\ i - 1 # k
        BY <3>0, <3>2
      <4>2. g[i - 1] = f[i - 1]
        <5>1. CASE i - 1 = 1
          BY <2>1, <4>1, <5>1
        <5>2. CASE i - 1 # 1
          BY <4>1, <5>2
        <5> QED BY <5>1, <5>2
      <4>3. CASE i = k
        BY <3>2, <4>2, <4>3
      <4>4. CASE i # k
        <5>1. i \in 1..(k - 1)
          BY <3>0, <4>4
        <5>2. g[i] = g[i - 1] \o s[i]
          BY <2>1, <3>2, <5>1
        <5> QED BY <3>2, <4>2, <4>4, <5>2
      <4> QED BY <4>3, <4>4
    <3> QED BY <3>1, <3>2
  <2>3. f = e
    BY <2>2
  <2>4. \E h : h = [i \in 1..k |-> IF i = 1 THEN s[i] ELSE h[i - 1] \o s[i]]
    <3> HIDE DEF f
    <3> QED BY <2>3
  <2> HIDE DEF f, e
  <2>5. k \in Nat
    OBVIOUS
  <2> QED BY <2>4, <2>5, Zenon
<1> HIDE DEF S
<1>3. n \in S
  BY <1>1, <1>2, UpTo
<1> QED BY <1>3 DEF S

(* FlattenSeq takes its result from such a function.                       *)
LEMMA FlattenIsRecursive ==
  ASSUME NEW s, Len(s) \in Nat, Len(s) # 0
  PROVE  \E f : /\ f = [i \in 1..Len(s) |-> IF i = 1 THEN s[i] ELSE f[i - 1] \o s[i]]
                /\ FlattenSeq(s) = f[Len(s)]
<1> DEFINE P(f) == f = [i \in 1..Len(s) |-> IF i = 1 THEN s[i] ELSE f[i - 1] \o s[i]]
           f0 == CHOOSE f : P(f)
<1>1. FlattenSeq(s) = f0[Len(s)]
  BY DEF FlattenSeq
<1>2. \E f : P(f)
  BY FlattenExists
<1>3. P(f0)
  <2> HIDE DEF P
  <2> QED BY <1>2
<1> HIDE DEF f0
<1> QED BY <1>1, <1>3

(* FlattenSeq of one sequence more has that sequence at its end.           *)
LEMMA FlattenAppend ==
  ASSUME NEW S, NEW s \in Seq(Seq(S)), NEW e \in Seq(S)
  PROVE  FlattenSeq(Append(s, e)) = FlattenSeq(s) \o e
<1> DEFINE n == Len(s)
           t == Append(s, e)
           Fits(f, u, k) == f = [i \in 1..k |-> IF i = 1 THEN u[i] ELSE f[i - 1] \o u[i]]
<1>0. /\ n \in Nat /\ t \in Seq(Seq(S)) /\ Len(t) = n + 1 /\ t[n + 1] = e
      /\ \A k \in 1..n : t[k] = s[k]
  BY AppendProperties
<1>1. PICK f : Fits(f, t, n + 1) /\ FlattenSeq(t) = f[n + 1]
  <2> HIDE DEF t
  <2>1. Len(t) \in Nat /\ Len(t) # 0
    BY <1>0
  <2>2. \E f : Fits(f, t, Len(t)) /\ FlattenSeq(t) = f[Len(t)]
    BY <2>1, FlattenIsRecursive
  <2> HIDE DEF Fits, n
  <2> QED BY <1>0, <2>2
<1>2. CASE n = 0
  <2>1. s = <<>> /\ FlattenSeq(s) = <<>>
    BY <1>2, EmptySeq DEF FlattenSeq
  <2>2. f[1] = e
    BY <1>0, <1>1, <1>2
  <2> QED BY <1>1, <1>2, <2>1, <2>2, ConcatEmptySeq
<1>3. CASE n # 0
  <2>1. PICK g : Fits(g, s, n) /\ FlattenSeq(s) = g[n]
    BY <1>0, <1>3, FlattenIsRecursive
  <2> HIDE DEF t
  <2> DEFINE T == {k \in 0..n : k = 0 \/ f[k] = g[k]}
  <2>2. 0 \in T
    BY <1>0
  <2>3. ASSUME NEW k \in 1..n, k - 1 \in T PROVE k \in T
    <3>0. k \in 1..(n + 1) /\ k \in Nat
      BY <1>0
    <3> HIDE DEF n
    <3>1. g[k] = IF k = 1 THEN s[k] ELSE g[k - 1] \o s[k]
      BY <2>1
    <3>2. f[k] = IF k = 1 THEN t[k] ELSE f[k - 1] \o t[k]
      BY <1>1, <3>0
    <3>3. t[k] = s[k] /\ (k = 1 \/ f[k - 1] = g[k - 1])
      BY <1>0, <2>3, <3>0
    <3> QED BY <3>0, <3>1, <3>2, <3>3
  <2>4. f[n] = g[n]
    <3> HIDE DEF n, Fits
    <3>1. 0..n \subseteq T
      <4> HIDE DEF T
      <4> QED BY <1>0, <2>2, <2>3, UpTo
    <3>2. n \in T
      <4> HIDE DEF T
      <4> QED BY <1>0, <3>1
    <3> QED BY <1>3, <3>2
  <2>5. f[n + 1] = f[n] \o e
    <3>1. n + 1 \in 1..(n + 1) /\ n + 1 # 1 /\ (n + 1) - 1 = n
      BY <1>0, <1>3
    <3> HIDE DEF n
    <3> QED BY <1>0, <1>1, <3>1
  <2> QED BY <1>1, <2>1, <2>4, <2>5 DEF t
<1> QED BY <1>2, <1>3

(* It is a sequence of what the parts are sequences of.                    *)
LEMMA FlattenType ==
  ASSUME NEW S, NEW s \in Seq(Seq(S))
  PROVE  FlattenSeq(s) \in Seq(S)
<1> DEFINE T == {t \in Seq(Seq(S)) : FlattenSeq(t) \in Seq(S)}
<1>1. <<>> \in T
  BY EmptySeq DEF FlattenSeq
<1>2. ASSUME NEW t \in Seq(Seq(S)), NEW e \in Seq(S), t \in T PROVE Append(t, e) \in T
  <2>1. FlattenSeq(t) \o e \in Seq(S)
    BY <1>2, ConcatProperties
  <2> QED BY <2>1, FlattenAppend, AppendProperties
<1>3. Seq(Seq(S)) \subseteq T
  <2> HIDE DEF T
  <2> QED BY <1>1, <1>2, AllSequences
<1> QED BY <1>3

(* It begins with the first part, and the others follow.                   *)
LEMMA FlattenFirst ==
  ASSUME NEW S, NEW s \in Seq(Seq(S)), s # <<>>
  PROVE  FlattenSeq(s) = Head(s) \o FlattenSeq(Tail(s))
<1> DEFINE T == {t \in Seq(Seq(S)) :
                   t = <<>> \/ FlattenSeq(t) = Head(t) \o FlattenSeq(Tail(t))}
<1>0. ASSUME NEW a \in Seq(S), NEW b \in Seq(S), NEW c \in Seq(S)
      PROVE  (a \o b) \o c = a \o (b \o c)
  BY ConcatAssociative, SMTT(30)
<1>1. <<>> \in T
  BY EmptySeq
<1>2. ASSUME NEW t \in Seq(Seq(S)), NEW e \in Seq(S), t \in T PROVE Append(t, e) \in T
  <2> DEFINE u == Append(t, e)
  <2>1. u \in Seq(Seq(S)) /\ FlattenSeq(u) = FlattenSeq(t) \o e
    BY FlattenAppend, AppendProperties
  <2>2. CASE t = <<>>
    <3>1. Head(u) = e /\ Tail(u) = <<>>
      BY <2>2, HeadTailAppend
    <3>2. FlattenSeq(<<>>) = <<>>
      BY EmptySeq DEF FlattenSeq
    <3>3. FlattenSeq(t) \o e = e /\ e \o FlattenSeq(<<>>) = e
      BY <2>2, <3>2, ConcatEmptySeq
    <3> QED BY <2>1, <3>1, <3>3
  <2>3. CASE t # <<>>
    <3>1. Head(u) = Head(t) /\ Tail(u) = Append(Tail(t), e)
      BY <2>3, HeadTailAppend
    <3>2. Head(t) \in Seq(S) /\ Tail(t) \in Seq(Seq(S))
      BY <2>3, HeadTailProperties
    <3>3. FlattenSeq(Tail(u)) = FlattenSeq(Tail(t)) \o e /\ FlattenSeq(Tail(t)) \in Seq(S)
      BY <3>1, <3>2, FlattenAppend, FlattenType
    <3>4. FlattenSeq(t) = Head(t) \o FlattenSeq(Tail(t))
      BY <1>2, <2>3
    <3> HIDE DEF T, u
    <3>5. (Head(t) \o FlattenSeq(Tail(t))) \o e = Head(t) \o (FlattenSeq(Tail(t)) \o e)
      BY <1>0, <3>2, <3>3
    <3> QED BY <2>1, <3>1, <3>3, <3>4, <3>5 DEF T, u
  <2> QED BY <2>2, <2>3
<1>3. Seq(Seq(S)) \subseteq T
  <2> HIDE DEF T
  <2> QED BY <1>1, <1>2, AllSequences
<1> QED BY <1>3
=============================================================================
