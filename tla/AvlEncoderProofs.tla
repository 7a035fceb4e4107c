-------------------------- MODULE AvlEncoderProofs --------------------------
(***************************************************************************)
(* What the encoder writes, for packets of any size: that the bytes of the *)
(* fields are those its first pass adds up, in which order the fields      *)
(* come, and in which order the elements of a record do.                   *)
(***************************************************************************)
EXTENDS AvlRoundTrip, Induction
-----------------------------------------------------------------------------
(***************************************************************************)
(* Running totals.                                                         *)
(***************************************************************************)
AddSteps(numbers) == [k \in 1..Len(numbers) |-> [x \in Nat |-> x + numbers[k]]]

(* Add takes its result from a function that adds one number at a time.    *)
LEMMA AddIsRecursive ==
  ASSUME NEW base \in Nat, NEW s \in Seq(Nat)
  PROVE  \E f : Runs(f, Len(s), Nat, base, AddSteps(s)) /\ Add(base, s) = f[Len(s)]
<1> DEFINE n == Len(s)
           P(f) == f = [k \in 0..n |-> IF k = 0 THEN base ELSE f[k - 1] + s[k]]
           f0 == CHOOSE f : P(f)
           step == AddSteps(s)
<1>0. n \in Nat /\ \A k \in 1..n : s[k] \in Nat
  OBVIOUS
<1>1. Add(base, s) = f0[n]
  BY DEF Add
<1>2. step \in Steps(n, Nat) /\ \A k \in 1..n, x \in Nat : step[k][x] = x + s[k]
  BY <1>0 DEF AddSteps, Steps
<1> HIDE DEF step
<1>3. \E f : P(f)
  <2>1. PICK f : Runs(f, n, Nat, base, step)
    <3> HIDE DEF n, P, f0
    <3> QED BY <1>0, <1>2, RecursionExists
  <2>2. ASSUME NEW k \in 1..n PROVE f[k] = f[k - 1] + s[k]
    <3>1. f[k - 1] \in Nat
      BY <1>0, <2>1 DEF Runs
    <3> QED BY <1>2, <2>1, <3>1 DEF Runs
  <2>3. P(f)
    <3> HIDE DEF n
    <3>1. \A k \in 0..n : k = 0 \/ k \in 1..n
      BY <1>0
    <3> QED BY <2>1, <2>2, <3>1 DEF Runs
  <2> HIDE DEF P
  <2> QED BY <2>3
<1>4. P(f0)
  <2> HIDE DEF P
  <2> QED BY <1>3
<1> HIDE DEF f0
<1>5. Runs(f0, n, Nat, base, step)
  <2> DEFINE T == {k \in 0..n : f0[k] \in Nat}
  <2>1. 0 \in T
    BY <1>0, <1>4
  <2>2. ASSUME NEW k \in 1..n, k - 1 \in T PROVE f0[k] = f0[k - 1] + s[k] /\ k \in T
    <3>1. k \in 0..n /\ k # 0
      BY <1>0
    <3> HIDE DEF n
    <3>2. f0[k] = f0[k - 1] + s[k]
      BY <1>4, <3>1
    <3> QED BY <1>0, <2>2, <3>1, <3>2
  <2>3. 0..n \subseteq T
    <3> HIDE DEF T, n, P
    <3> QED BY <1>0, <2>1, <2>2, UpTo
  <2>4. \A k \in 1..n : k - 1 \in 0..n
    BY <1>0
  <2> HIDE DEF n
  <2>5. f0 \in [0..n -> Nat]
    BY <1>4, <2>3
  <2> QED BY <1>0, <1>2, <1>4, <2>1, <2>2, <2>3, <2>4, <2>5 DEF Runs
<1> QED BY <1>1, <1>5 DEF step

(* A total is a number, and grows by each number behind the others.        *)
LEMMA AddAppend ==
  ASSUME NEW base \in Nat
  PROVE  /\ Add(base, <<>>) = base
         /\ \A s \in Seq(Nat) : Add(base, s) \in Nat
         /\ \A s \in Seq(Nat), x \in Nat : Add(base, Append(s, x)) = Add(base, s) + x
<1>1. Add(base, <<>>) = base
  <2>1. <<>> \in Seq(Nat) /\ Len(<<>>) = 0
    OBVIOUS
  <2>2. PICK f : Runs(f, 0, Nat, base, AddSteps(<<>>)) /\ Add(base, <<>>) = f[0]
    BY <2>1, AddIsRecursive
  <2> QED BY <2>2 DEF Runs
<1>2. ASSUME NEW s \in Seq(Nat) PROVE Add(base, s) \in Nat
  <2>1. PICK f : Runs(f, Len(s), Nat, base, AddSteps(s)) /\ Add(base, s) = f[Len(s)]
    BY AddIsRecursive
  <2>2. Len(s) \in 0..Len(s)
    OBVIOUS
  <2> QED BY <2>1, <2>2 DEF Runs
<1>3. ASSUME NEW s \in Seq(Nat), NEW x \in Nat
      PROVE  Add(base, Append(s, x)) = Add(base, s) + x
  <2> DEFINE n == Len(s)
             t == Append(s, x)
  <2>0. /\ n \in Nat /\ t \in Seq(Nat) /\ Len(t) = n + 1 /\ t[n + 1] = x
        /\ \A k \in 1..n : t[k] = s[k]
    BY AppendProperties
  <2>1. PICK f : Runs(f, n, Nat, base, AddSteps(s)) /\ Add(base, s) = f[n]
    BY AddIsRecursive
  <2>2. PICK g : Runs(g, n + 1, Nat, base, AddSteps(t)) /\ Add(base, t) = g[n + 1]
    <3> HIDE DEF t, n
    <3>1. \E g : Runs(g, Len(t), Nat, base, AddSteps(t)) /\ Add(base, t) = g[Len(t)]
      BY <2>0, AddIsRecursive
    <3> QED BY <2>0, <3>1
  <2> HIDE DEF t
  <2>3. \A k \in 1..n : AddSteps(t)[k] = AddSteps(s)[k]
    <3> TAKE k \in 1..n
    <3>1. k \in 1..Len(s) /\ k \in 1..Len(t) /\ t[k] = s[k]
      BY <2>0
    <3> HIDE DEF n
    <3> QED BY <3>1 DEF AddSteps
  <2>4. f[n] = g[n]
    <3> DEFINE one == AddSteps(s)
               two == AddSteps(t)
    <3>1. /\ n \in Nat /\ n + 1 \in Nat /\ n <= n + 1 /\ n \in 0..n
      BY <2>0
    <3>2. Runs(f, n, Nat, base, one) /\ Runs(g, n + 1, Nat, base, two)
      BY <2>1, <2>2
    <3>3. Agree(one, two, 1, n)
      BY <2>3 DEF Agree
    <3> HIDE DEF one, two, n
    <3> DEFINE m == n + 1
    <3> HIDE DEF m
    <3>4. m \in Nat /\ n <= m /\ Runs(g, m, Nat, base, two)
      BY <3>1, <3>2 DEF m
    <3>5. Agree(f, g, 0, n)
      BY <3>1, <3>2, <3>3, <3>4, RunsAgree
    <3> QED BY <3>1, <3>5 DEF Agree
  <2>5. g[n + 1] = g[n] + x
    <3>1. n + 1 \in 1..(n + 1) /\ n \in 0..(n + 1) /\ (n + 1) - 1 = n
      BY <2>0
    <3> HIDE DEF n
    <3>2. g[n + 1] = AddSteps(t)[n + 1][g[n]] /\ g[n] \in Nat
      BY <2>2, <3>1 DEF Runs
    <3> QED BY <2>0, <3>1, <3>2 DEF AddSteps
  <2> QED BY <2>1, <2>2, <2>4, <2>5 DEF t
<1> QED BY <1>1, <1>2, <1>3

(* The total of two sequences is that of one and that of the other.        *)
LEMMA AddConcat ==
  ASSUME NEW base \in Nat, NEW s \in Seq(Nat), NEW t \in Seq(Nat)
  PROVE  Add(base, s \o t) = Add(base, s) + Add(0, t)
<1> DEFINE T == {u \in Seq(Nat) : Add(base, s \o u) = Add(base, s) + Add(0, u)}
<1>0. Add(base, s) \in Nat
  BY AddAppend
<1>1. <<>> \in T
  <2>1. s \o <<>> = s /\ <<>> \in Seq(Nat)
    BY ConcatEmptySeq
  <2>2. Add(0, <<>>) = 0
    BY AddAppend
  <2> QED BY <1>0, <2>1, <2>2
<1>2. ASSUME NEW u \in Seq(Nat), NEW x \in Nat, u \in T PROVE Append(u, x) \in T
  <2> DEFINE v == s \o u
  <2>1. s \o Append(u, x) = Append(v, x) /\ v \in Seq(Nat)
    OBVIOUS
  <2>2. Add(base, Append(v, x)) = Add(base, v) + x
    <3> HIDE DEF v, T
    <3> QED BY <2>1, AddAppend
  <2>3. Add(0, Append(u, x)) = Add(0, u) + x /\ Add(0, u) \in Nat
    BY AddAppend, SMTT(30)
  <2>4. Append(u, x) \in Seq(Nat)
    OBVIOUS
  <2>5. Add(base, v) = Add(base, s) + Add(0, u)
    BY <1>2
  <2> HIDE DEF v
  <2>6. Add(base, s \o Append(u, x)) = Add(base, s) + Add(0, Append(u, x))
    BY <1>0, <2>1, <2>2, <2>3, <2>5
  <2> QED BY <2>4, <2>6
<1>3. Seq(Nat) \subseteq T
  <2> HIDE DEF T
  <2> QED BY <1>1, <1>2, AllSequences
<1> QED BY <1>3

-----------------------------------------------------------------------------
(***************************************************************************)
(* Elements of some lengths.                                               *)
(***************************************************************************)
Elem == [id : Nat, len : Nat]

(* An element is put behind the chosen ones if its length is asked for.    *)
ChooseOne(elements, e, lengths) ==
  IF e.len \in lengths THEN Append(elements, e) ELSE elements

ChooseSteps(s, lengths) ==
  [k \in 1..Len(s) |-> [u \in Seq(Elem) |-> ChooseOne(u, s[k], lengths)]]

(* Chosen takes its result from a function that looks at one at a time.    *)
LEMMA ChosenIsRecursive ==
  ASSUME NEW lengths, NEW s \in Seq(Elem)
  PROVE  \E f : /\ Runs(f, Len(s), Seq(Elem), <<>>, ChooseSteps(s, lengths))
                /\ Chosen(s, lengths) = f[Len(s)]
<1> DEFINE n == Len(s)
           P(f) == f = [k \in 0..n |->
                          IF k = 0 THEN <<>>
                          ELSE IF s[k].len \in lengths THEN Append(f[k - 1], s[k])
                          ELSE f[k - 1]]
           f0 == CHOOSE f : P(f)
           step == ChooseSteps(s, lengths)
           S == Seq(Elem)
<1>0. n \in Nat /\ (\A k \in 1..n : s[k] \in Elem) /\ <<>> \in S
  OBVIOUS
<1>1. Chosen(s, lengths) = f0[n]
  BY DEF Chosen
<1>2. \A k \in 1..n, u \in S : ChooseOne(u, s[k], lengths) \in S
  BY <1>0 DEF ChooseOne
<1>3. step \in Steps(n, S) /\ \A k \in 1..n, u \in S : step[k][u] = ChooseOne(u, s[k], lengths)
  BY <1>0, <1>2 DEF ChooseSteps, Steps
<1> HIDE DEF step, S
<1>4. \E f : P(f)
  <2>1. PICK f : Runs(f, n, S, <<>>, step)
    <3> DEFINE base == <<>>
    <3>1. base \in S
      BY <1>0
    <3> HIDE DEF n, P, f0, base
    <3>2. \E f : Runs(f, n, S, base, step)
      BY <1>0, <1>3, <3>1, RecursionExists
    <3> QED BY <3>2 DEF base
  <2>2. ASSUME NEW k \in 1..n PROVE f[k] = ChooseOne(f[k - 1], s[k], lengths)
    <3>1. f[k - 1] \in S
      BY <1>0, <2>1 DEF Runs
    <3> QED BY <1>3, <2>1, <3>1 DEF Runs
  <2>3. P(f)
    <3> HIDE DEF n
    <3>1. \A k \in 0..n : k = 0 \/ k \in 1..n
      BY <1>0
    <3> QED BY <2>1, <2>2, <3>1 DEF Runs, ChooseOne
  <2> HIDE DEF P
  <2> QED BY <2>3
<1>5. P(f0)
  <2> HIDE DEF P
  <2> QED BY <1>4
<1> HIDE DEF f0
<1>6. Runs(f0, n, S, <<>>, step)
  <2> DEFINE T == {k \in 0..n : f0[k] \in S}
  <2>1. 0 \in T /\ f0[0] = <<>>
    BY <1>0, <1>5
  <2>2. ASSUME NEW k \in 1..n, k - 1 \in T
        PROVE  f0[k] = ChooseOne(f0[k - 1], s[k], lengths) /\ k \in T
    <3>1. k \in 0..n /\ k # 0
      BY <1>0
    <3> HIDE DEF n
    <3>2. f0[k] = ChooseOne(f0[k - 1], s[k], lengths)
      BY <1>5, <3>1 DEF ChooseOne
    <3> QED BY <1>2, <2>2, <3>1, <3>2
  <2>3. 0..n \subseteq T
    <3> HIDE DEF T, n, P
    <3> QED BY <1>0, <2>1, <2>2, UpTo
  <2>4. \A k \in 1..n : k - 1 \in 0..n
    BY <1>0
  <2> HIDE DEF n
  <2>5. f0 \in [0..n -> S]
    BY <1>5, <2>3
  <2> QED BY <1>3, <2>1, <2>2, <2>3, <2>4, <2>5 DEF Runs
<1> QED BY <1>1, <1>6 DEF step, S

(* An element more is chosen or not.                                       *)
LEMMA ChosenAppend ==
  ASSUME NEW lengths
  PROVE  /\ Chosen(<<>>, lengths) = <<>>
         /\ \A s \in Seq(Elem) : Chosen(s, lengths) \in Seq(Elem)
         /\ \A s \in Seq(Elem), e \in Elem :
              Chosen(Append(s, e), lengths) = ChooseOne(Chosen(s, lengths), e, lengths)
<1>1. Chosen(<<>>, lengths) = <<>>
  <2>1. <<>> \in Seq(Elem) /\ Len(<<>>) = 0
    OBVIOUS
  <2>2. PICK f : /\ Runs(f, 0, Seq(Elem), <<>>, ChooseSteps(<<>>, lengths))
                 /\ Chosen(<<>>, lengths) = f[0]
    BY <2>1, ChosenIsRecursive
  <2> QED BY <2>2 DEF Runs
<1>2. ASSUME NEW s \in Seq(Elem) PROVE Chosen(s, lengths) \in Seq(Elem)
  <2>1. PICK f : /\ Runs(f, Len(s), Seq(Elem), <<>>, ChooseSteps(s, lengths))
                 /\ Chosen(s, lengths) = f[Len(s)]
    BY ChosenIsRecursive
  <2>2. Len(s) \in 0..Len(s)
    OBVIOUS
  <2> QED BY <2>1, <2>2 DEF Runs
<1>3. ASSUME NEW s \in Seq(Elem), NEW e \in Elem
      PROVE  Chosen(Append(s, e), lengths) = ChooseOne(Chosen(s, lengths), e, lengths)
  <2> DEFINE n == Len(s)
             t == Append(s, e)
             base == <<>>
             S == Seq(Elem)
  <2>0. /\ n \in Nat /\ t \in Seq(Elem) /\ Len(t) = n + 1 /\ t[n + 1] = e
        /\ \A k \in 1..n : t[k] = s[k]
    BY AppendProperties
  <2>1. PICK f : Runs(f, n, S, base, ChooseSteps(s, lengths)) /\ Chosen(s, lengths) = f[n]
    BY ChosenIsRecursive
  <2>2. PICK g : Runs(g, n + 1, S, base, ChooseSteps(t, lengths)) /\ Chosen(t, lengths) = g[n + 1]
    <3> HIDE DEF t, n
    <3>1. \E g : /\ Runs(g, Len(t), S, base, ChooseSteps(t, lengths))
                 /\ Chosen(t, lengths) = g[Len(t)]
      BY <2>0, ChosenIsRecursive
    <3> QED BY <2>0, <3>1
  <2> HIDE DEF t, base
  <2>3. \A k \in 1..n : ChooseSteps(t, lengths)[k] = ChooseSteps(s, lengths)[k]
    <3> TAKE k \in 1..n
    <3>1. k \in 1..Len(s) /\ k \in 1..Len(t) /\ t[k] = s[k]
      BY <2>0
    <3> HIDE DEF n
    <3> QED BY <3>1 DEF ChooseSteps
  <2>4. f[n] = g[n]
    <3> DEFINE one == ChooseSteps(s, lengths)
               two == ChooseSteps(t, lengths)
               m == n + 1
    <3>1. n \in Nat /\ m \in Nat /\ n <= m /\ n \in 0..n
      BY <2>0
    <3>2. Runs(f, n, S, base, one) /\ Runs(g, m, S, base, two)
      BY <2>1, <2>2
    <3>3. Agree(one, two, 1, n)
      BY <2>3 DEF Agree
    <3> HIDE DEF one, two, n, m, S
    <3>4. Agree(f, g, 0, n)
      BY <3>1, <3>2, <3>3, RunsAgree
    <3> QED BY <3>1, <3>4 DEF Agree
  <2>5. g[n + 1] = ChooseOne(g[n], e, lengths)
    <3>1. n + 1 \in 1..(n + 1) /\ n \in 0..(n + 1) /\ (n + 1) - 1 = n
      BY <2>0
    <3> HIDE DEF n
    <3>2. g[n + 1] = ChooseSteps(t, lengths)[n + 1][g[n]] /\ g[n] \in Seq(Elem)
      BY <2>2, <3>1 DEF Runs
    <3> QED BY <2>0, <3>1, <3>2 DEF ChooseSteps
  <2> QED BY <2>1, <2>2, <2>4, <2>5 DEF t
<1> QED BY <1>1, <1>2, <1>3

(* It is put behind both sequences when it is put behind the second.       *)
LEMMA ChooseBehind ==
  ASSUME NEW lengths, NEW a \in Seq(Elem), NEW b \in Seq(Elem), NEW e \in Elem
  PROVE  ChooseOne(a \o b, e, lengths) = a \o ChooseOne(b, e, lengths)
<1>1. Append(a \o b, e) = a \o Append(b, e)
  OBVIOUS
<1> QED BY <1>1 DEF ChooseOne

(* What is chosen of two sequences is that of one and that of the other.   *)
LEMMA ChosenConcat ==
  ASSUME NEW lengths, NEW s \in Seq(Elem), NEW t \in Seq(Elem)
  PROVE  Chosen(s \o t, lengths) = Chosen(s, lengths) \o Chosen(t, lengths)
<1> DEFINE T == {u \in Seq(Elem) :
                   Chosen(s \o u, lengths) = Chosen(s, lengths) \o Chosen(u, lengths)}
           c == Chosen(s, lengths)
<1>0. c \in Seq(Elem)
  BY ChosenAppend
<1>1. <<>> \in T
  <2>1. s \o <<>> = s /\ <<>> \in Seq(Elem)
    BY ConcatEmptySeq
  <2>2. Chosen(<<>>, lengths) = <<>>
    BY ChosenAppend
  <2>3. c \o <<>> = c
    <3> HIDE DEF c
    <3> QED BY <1>0, ConcatEmptySeq
  <2> QED BY <2>1, <2>2, <2>3
<1>2. ASSUME NEW u \in Seq(Elem), NEW e \in Elem, u \in T PROVE Append(u, e) \in T
  <2> DEFINE v == s \o u
             w == Append(u, e)
             d == Chosen(u, lengths)
  <2>1. s \o w = Append(v, e) /\ v \in Seq(Elem) /\ w \in Seq(Elem)
    OBVIOUS
  <2>2. /\ Chosen(Append(v, e), lengths) = ChooseOne(Chosen(v, lengths), e, lengths)
        /\ Chosen(w, lengths) = ChooseOne(d, e, lengths)
        /\ d \in Seq(Elem)
    <3> HIDE DEF v, T
    <3> QED BY <2>1, ChosenAppend
  <2>3. Chosen(v, lengths) = c \o d
    BY <1>2
  <2> HIDE DEF v, c, d, w
  <2>4. ChooseOne(c \o d, e, lengths) = c \o ChooseOne(d, e, lengths)
    BY <1>0, <2>2, ChooseBehind
  <2>5. Chosen(s \o w, lengths) = c \o Chosen(w, lengths)
    BY <2>1, <2>2, <2>3, <2>4
  <2> QED BY <2>1, <2>5 DEF w, c
<1>3. Seq(Elem) \subseteq T
  <2> HIDE DEF T
  <2> QED BY <1>1, <1>2, AllSequences
<1> QED BY <1>3

(* All that was chosen has one of the lengths.                             *)
LEMMA ChosenHave ==
  ASSUME NEW lengths, NEW s \in Seq(Elem)
  PROVE  \A i \in 1..Len(Chosen(s, lengths)) : Chosen(s, lengths)[i].len \in lengths
<1> DEFINE T == {u \in Seq(Elem) :
                   \A i \in 1..Len(Chosen(u, lengths)) : Chosen(u, lengths)[i].len \in lengths}
<1>1. <<>> \in T
  <2>1. Chosen(<<>>, lengths) = <<>> /\ <<>> \in Seq(Elem) /\ Len(<<>>) = 0
    BY ChosenAppend
  <2> QED BY <2>1
<1>2. ASSUME NEW u \in Seq(Elem), NEW e \in Elem, u \in T PROVE Append(u, e) \in T
  <2> DEFINE w == Append(u, e)
             d == Chosen(u, lengths)
  <2>1. w \in Seq(Elem)
    OBVIOUS
  <2>2. Chosen(w, lengths) = ChooseOne(d, e, lengths) /\ d \in Seq(Elem)
    BY ChosenAppend
  <2>3. \A i \in 1..Len(d) : d[i].len \in lengths
    BY <1>2
  <2> HIDE DEF w, d
  <2>4. \A i \in 1..Len(ChooseOne(d, e, lengths)) : ChooseOne(d, e, lengths)[i].len \in lengths
    BY <2>2, <2>3 DEF ChooseOne
  <2>5. \A i \in 1..Len(Chosen(w, lengths)) : Chosen(w, lengths)[i].len \in lengths
    BY <2>2, <2>4
  <2> QED BY <2>1, <2>5 DEF w
<1>3. Seq(Elem) \subseteq T
  <2> HIDE DEF T
  <2> QED BY <1>1, <1>2, AllSequences
<1> QED BY <1>3

(* Of elements that all have one of some lengths, these choose all, and    *)
(* lengths that have none in common with them choose none.                 *)
LEMMA ChosenAgain ==
  ASSUME NEW lengths, NEW others, NEW s \in Seq(Elem),
         \A i \in 1..Len(s) : s[i].len \in lengths
  PROVE  /\ lengths \subseteq others => Chosen(s, others) = s
         /\ lengths \cap others = {} => Chosen(s, others) = <<>>
<1> DEFINE Has(u) == \A i \in 1..Len(u) : u[i].len \in lengths
           T == {u \in Seq(Elem) : Has(u) =>
                   /\ lengths \subseteq others => Chosen(u, others) = u
                   /\ lengths \cap others = {} => Chosen(u, others) = <<>>}
<1>1. <<>> \in T
  <2>1. Chosen(<<>>, others) = <<>> /\ <<>> \in Seq(Elem)
    BY ChosenAppend
  <2> QED BY <2>1
<1>2. ASSUME NEW u \in Seq(Elem), NEW e \in Elem, u \in T PROVE Append(u, e) \in T
  <2> DEFINE w == Append(u, e)
             d == Chosen(u, others)
  <2>1. /\ w \in Seq(Elem) /\ Len(u) \in Nat /\ Len(w) = Len(u) + 1 /\ w[Len(u) + 1] = e
        /\ \A i \in 1..Len(u) : w[i] = u[i]
    BY AppendProperties
  <2>2. Chosen(w, others) = ChooseOne(d, e, others)
    BY ChosenAppend
  <2>3. Has(u) => /\ lengths \subseteq others => d = u
                  /\ lengths \cap others = {} => d = <<>>
    BY <1>2
  <2>4. w = Append(u, e)
    OBVIOUS
  <2> HIDE DEF w, d
  <2>5. Has(w) => Has(u) /\ e.len \in lengths
    BY <2>1
  <2> HIDE DEF Has
  <2>6. Has(w) => /\ lengths \subseteq others => Chosen(w, others) = w
                  /\ lengths \cap others = {} => Chosen(w, others) = <<>>
    BY <2>2, <2>3, <2>4, <2>5 DEF ChooseOne
  <2> QED BY <2>1, <2>6 DEF w
<1>3. Seq(Elem) \subseteq T
  <2> HIDE DEF T
  <2> QED BY <1>1, <1>2, AllSequences
<1> QED BY <1>3

-----------------------------------------------------------------------------
(***************************************************************************)
(* The fields of an encoded packet and their bytes.                        *)
(***************************************************************************)
Put ==
  [kind : {"frame"}, zero : BOOLEAN, length : Nat, whole : BOOLEAN, w : Nat]
  \cup [kind : {"prefix"}, imei : Nat, w : Nat]
  \cup [kind : {"header"}, codec : Codecs, count : Nat, w : Nat]
  \cup [kind : {"record"}, event : Nat, gen : Nat, total : Nat, w : Nat]
  \cup [kind : {"group"}, n : Nat, w : Nat]
  \cup [kind : {"element"}, id : Nat, len : Nat, w : Nat]
  \cup [kind : {"message"}, type : MessageTypes, declared : Nat, imei : Imei, w : Nat]
  \cup [kind : {"tail"}, n : Nat, w : Nat]
  \cup [kind : {"crc"}, matches : BOOLEAN, w : Nat]

(* Each field has its bytes.                                               *)
LEMMA PutHasBytes == \A f \in Put : f.w \in Nat
BY DEF Put

Widths(fields) == [i \in DOMAIN fields |-> fields[i].w]

(* The bytes of a field more.                                              *)
LEMMA BytesAppend ==
  /\ BytesOf(<<>>) = 0
  /\ \A s \in Seq(Put) : BytesOf(s) \in Nat
  /\ \A s \in Seq(Put), f \in Put : BytesOf(Append(s, f)) = BytesOf(s) + f.w
<1>0. \A s \in Seq(Put) : Widths(s) \in Seq(Nat) /\ BytesOf(s) = Add(0, Widths(s))
  <2> TAKE s \in Seq(Put)
  <2>1. Len(s) \in Nat /\ DOMAIN s = 1..Len(s) /\ \A i \in 1..Len(s) : s[i].w \in Nat
    BY PutHasBytes
  <2> QED BY <2>1 DEF Widths, BytesOf
<1>1. BytesOf(<<>>) = 0
  <2>1. Widths(<<>>) = <<>> /\ <<>> \in Seq(Put)
    BY DEF Widths
  <2> QED BY <1>0, <2>1, AddAppend
<1>2. \A s \in Seq(Put) : BytesOf(s) \in Nat
  BY <1>0, AddAppend
<1>3. ASSUME NEW s \in Seq(Put), NEW f \in Put PROVE BytesOf(Append(s, f)) = BytesOf(s) + f.w
  <2>1. Append(s, f) \in Seq(Put)
    OBVIOUS
  <2>2. Widths(Append(s, f)) = Append(Widths(s), f.w)
    <3>1. /\ Len(Append(s, f)) = Len(s) + 1 /\ Len(s) \in Nat /\ Append(s, f)[Len(s) + 1] = f
          /\ \A i \in 1..Len(s) : Append(s, f)[i] = s[i]
      BY AppendProperties
    <3> QED BY <3>1, <2>1 DEF Widths
  <2>3. f.w \in Nat
    BY PutHasBytes
  <2>4. Add(0, Append(Widths(s), f.w)) = Add(0, Widths(s)) + f.w
    <3> DEFINE x == f.w
               v == Widths(s)
    <3>1. x \in Nat /\ v \in Seq(Nat)
      BY <1>0, <2>3
    <3> HIDE DEF x, v
    <3>2. Add(0, Append(v, x)) = Add(0, v) + x
      BY <3>1, AddAppend
    <3> QED BY <3>2 DEF x, v
  <2>5. BytesOf(Append(s, f)) = Add(0, Widths(Append(s, f))) /\ BytesOf(s) = Add(0, Widths(s))
    <3> DEFINE t == Append(s, f)
    <3>1. t \in Seq(Put)
      BY <2>1
    <3> HIDE DEF t
    <3>2. BytesOf(t) = Add(0, Widths(t)) /\ BytesOf(s) = Add(0, Widths(s))
      BY <1>0, <3>1
    <3> QED BY <3>2 DEF t
  <2> QED BY <2>2, <2>4, <2>5
<1> QED BY <1>1, <1>2, <1>3

(* The bytes of fields behind others.                                      *)
LEMMA BytesConcat ==
  ASSUME NEW s \in Seq(Put), NEW t \in Seq(Put)
  PROVE  s \o t \in Seq(Put) /\ BytesOf(s \o t) = BytesOf(s) + BytesOf(t)
<1> DEFINE T == {u \in Seq(Put) : BytesOf(s \o u) = BytesOf(s) + BytesOf(u)}
<1>0. BytesOf(s) \in Nat
  BY BytesAppend
<1>1. <<>> \in T
  <2>1. s \o <<>> = s /\ <<>> \in Seq(Put)
    BY ConcatEmptySeq
  <2> QED BY <1>0, <2>1, BytesAppend
<1>2. ASSUME NEW u \in Seq(Put), NEW f \in Put, u \in T PROVE Append(u, f) \in T
  <2> DEFINE v == s \o u
             x == Append(u, f)
  <2>1. s \o x = Append(v, f) /\ v \in Seq(Put) /\ x \in Seq(Put)
    OBVIOUS
  <2>2. BytesOf(v) = BytesOf(s) + BytesOf(u)
    BY <1>2
  <2>3. BytesOf(Append(v, f)) = BytesOf(v) + f.w /\ BytesOf(x) = BytesOf(u) + f.w
    <3> HIDE DEF v, T
    <3> QED BY <2>1, BytesAppend
  <2>4. BytesOf(u) \in Nat /\ f.w \in Nat
    BY BytesAppend, PutHasBytes
  <2> HIDE DEF v, x
  <2>5. BytesOf(s \o x) = BytesOf(s) + BytesOf(x)
    BY <1>0, <2>1, <2>2, <2>3, <2>4
  <2> QED BY <2>1, <2>5 DEF x
<1>3. Seq(Put) \subseteq T
  <2> HIDE DEF T
  <2> QED BY <1>1, <1>2, AllSequences
<1> QED BY <1>3

(* The bytes of a field by itself, and before others.                      *)
LEMMA BytesFirst ==
  ASSUME NEW f \in Put
  PROVE  /\ <<f>> \in Seq(Put) /\ BytesOf(<<f>>) = f.w
         /\ \A s \in Seq(Put) :
              <<f>> \o s \in Seq(Put) /\ BytesOf(<<f>> \o s) = f.w + BytesOf(s)
<1>1. <<f>> \in Seq(Put) /\ <<f>> = Append(<<>>, f) /\ <<>> \in Seq(Put) /\ f.w \in Nat
  BY PutHasBytes
<1>2. BytesOf(<<f>>) = f.w
  <2> DEFINE e == <<>>
  <2>1. e \in Seq(Put) /\ <<f>> = Append(e, f) /\ BytesOf(e) = 0
    BY <1>1, BytesAppend
  <2> HIDE DEF e
  <2>2. BytesOf(Append(e, f)) = BytesOf(e) + f.w
    BY <2>1, BytesAppend
  <2>3. BytesOf(<<f>>) = BytesOf(e) + f.w
    BY <2>1, <2>2, Zenon
  <2> QED BY <1>1, <2>1, <2>3
<1> QED BY <1>1, <1>2, BytesConcat

(* What is left when the first field was taken.                            *)
LEMMA BytesRest ==
  ASSUME NEW s \in Seq(Put), s # <<>>
  PROVE  /\ Head(s) \in Put /\ Tail(s) \in Seq(Put)
         /\ BytesOf(s) = Head(s).w + BytesOf(Tail(s))
<1>1. Head(s) \in Put /\ Tail(s) \in Seq(Put) /\ s = <<Head(s)>> \o Tail(s)
  OBVIOUS
<1> DEFINE f == Head(s)
           t == Tail(s)
<1> HIDE DEF f, t
<1>2. f \in Put /\ t \in Seq(Put) /\ s = <<f>> \o t
  BY <1>1 DEF f, t
<1>3. BytesOf(s) = f.w + BytesOf(t)
  BY <1>2, BytesFirst
<1> QED BY <1>1, <1>3 DEF f, t

-----------------------------------------------------------------------------
(***************************************************************************)
(* The encoder's two passes agree.                                         *)
(***************************************************************************)
(* The lengths of the values in each group, and its elements.              *)
Lens(g) == CASE g = 1 -> {1} [] g = 2 -> {2} [] g = 3 -> {4} [] g = 4 -> {8}
             [] g = 5 -> Nat \ FixedWidths

InGroup(elements, g) == Chosen(elements, Lens(g))

(* The groups are those that the encoder makes.                            *)
LEMMA GroupsAre ==
  ASSUME NEW elements
  PROVE  /\ OfWidth(elements, 1) = InGroup(elements, 1)
         /\ OfWidth(elements, 2) = InGroup(elements, 2)
         /\ OfWidth(elements, 4) = InGroup(elements, 3)
         /\ OfWidth(elements, 8) = InGroup(elements, 4)
         /\ OfNoFixedWidth(elements) = InGroup(elements, 5)
BY DEF OfWidth, OfNoFixedWidth, InGroup, Lens

(* Every length belongs to one group.                                      *)
LEMMA OneGroup ==
  ASSUME NEW n \in Nat
  PROVE  \E g \in 1..5 : n \in Lens(g) /\ \A h \in 1..5 : n \in Lens(h) => h = g
<1>1. /\ n \in Lens(1) <=> n = 1
      /\ n \in Lens(2) <=> n = 2
      /\ n \in Lens(3) <=> n = 4
      /\ n \in Lens(4) <=> n = 8
      /\ n \in Lens(5) <=> n \notin {1, 2, 4, 8}
  BY DEF Lens, FixedWidths
<1>2. \A h \in 1..5 : h = 1 \/ h = 2 \/ h = 3 \/ h = 4 \/ h = 5
  OBVIOUS
<1>3. CASE n = 1
  <2>1. \A h \in 1..5 : n \in Lens(h) => h = 1
    BY <1>1, <1>2, <1>3
  <2> QED BY <1>1, <1>3, <2>1
<1>4. CASE n = 2
  <2>1. \A h \in 1..5 : n \in Lens(h) => h = 2
    BY <1>1, <1>2, <1>4
  <2> QED BY <1>1, <1>4, <2>1
<1>5. CASE n = 4
  <2>1. \A h \in 1..5 : n \in Lens(h) => h = 3
    BY <1>1, <1>2, <1>5
  <2> QED BY <1>1, <1>5, <2>1
<1>6. CASE n = 8
  <2>1. \A h \in 1..5 : n \in Lens(h) => h = 4
    BY <1>1, <1>2, <1>6
  <2> QED BY <1>1, <1>6, <2>1
<1>7. CASE n \notin {1, 2, 4, 8}
  <2>1. \A h \in 1..5 : n \in Lens(h) => h = 5
    BY <1>1, <1>2, <1>7
  <2> QED BY <1>1, <1>7, <2>1
<1> QED BY <1>3, <1>4, <1>5, <1>6, <1>7

(* The elements of a group as the encoder writes them.                     *)
ElementFields(c, chosen) == [i \in 1..Len(chosen) |-> PutElement(c, chosen[i])]

(* An element's field.                                                     *)
LEMMA ElementField ==
  ASSUME NEW c, NEW e \in Elem
  PROVE  PutElement(c, e) \in Put
<1>1. e.id \in Nat /\ e.len \in Nat
  BY DEF Elem
<1> DEFINE w == (IF c = "8" THEN 1 ELSE 2) + (IF e.len \in FixedWidths THEN 0 ELSE 2) + e.len
<1>2. w \in Nat
  BY <1>1
<1> HIDE DEF w
<1>3. [kind |-> "element", id |-> e.id, len |-> e.len, w |-> w] \in Put
  BY <1>1, <1>2 DEF Put
<1> QED BY <1>3 DEF PutElement, w

(* An element more is a field more.                                        *)
LEMMA ElementFieldsAppend ==
  ASSUME NEW c
  PROVE  /\ ElementFields(c, <<>>) = <<>>
         /\ \A s \in Seq(Elem) : ElementFields(c, s) \in Seq(Put)
         /\ \A s \in Seq(Elem), e \in Elem :
              ElementFields(c, Append(s, e)) = Append(ElementFields(c, s), PutElement(c, e))
<1>1. ElementFields(c, <<>>) = <<>>
  BY DEF ElementFields
<1>2. ASSUME NEW s \in Seq(Elem) PROVE ElementFields(c, s) \in Seq(Put)
  <2>1. Len(s) \in Nat /\ \A i \in 1..Len(s) : PutElement(c, s[i]) \in Put
    BY ElementField
  <2> QED BY <2>1 DEF ElementFields
<1>3. ASSUME NEW s \in Seq(Elem), NEW e \in Elem
      PROVE  ElementFields(c, Append(s, e)) = Append(ElementFields(c, s), PutElement(c, e))
  <2> DEFINE t == Append(s, e)
             a == ElementFields(c, t)
             b == Append(ElementFields(c, s), PutElement(c, e))
  <2>1. /\ t \in Seq(Elem) /\ Len(t) = Len(s) + 1 /\ Len(s) \in Nat /\ t[Len(s) + 1] = e
        /\ \A i \in 1..Len(s) : t[i] = s[i]
    BY AppendProperties
  <2>2. ElementFields(c, s) \in Seq(Put) /\ PutElement(c, e) \in Put
    BY <1>2, ElementField
  <2>3. Len(ElementFields(c, s)) = Len(s)
    BY <2>1 DEF ElementFields
  <2>4. /\ b \in Seq(Put) /\ Len(b) = Len(s) + 1 /\ b[Len(s) + 1] = PutElement(c, e)
        /\ \A i \in 1..Len(s) : b[i] = ElementFields(c, s)[i]
    BY <2>2, <2>3, AppendProperties
  <2> HIDE DEF t
  <2>5. a \in Seq(Put) /\ Len(a) = Len(s) + 1
    BY <1>2, <2>1 DEF ElementFields
  <2>6. \A i \in 1..(Len(s) + 1) : a[i] = PutElement(c, t[i])
    BY <2>1 DEF ElementFields
  <2>7. \A i \in 1..Len(s) : ElementFields(c, s)[i] = PutElement(c, s[i])
    BY <2>1 DEF ElementFields
  <2> HIDE DEF a, b
  <2>8. \A i \in 1..(Len(s) + 1) : a[i] = b[i]
    <3> TAKE i \in 1..(Len(s) + 1)
    <3>1. i \in 1..Len(s) \/ i = Len(s) + 1
      BY <2>1
    <3> QED BY <2>1, <2>4, <2>6, <2>7, <3>1
  <2>9. a = b
    BY <2>4, <2>5, <2>8, SeqEqual
  <2> QED BY <2>9 DEF a, b, t
<1> QED BY <1>1, <1>2, <1>3

ElementBytes(c, s) == BytesOf(ElementFields(c, s))

(* The bytes of an element more.                                           *)
LEMMA ElementBytesAppend ==
  ASSUME NEW c
  PROVE  /\ ElementBytes(c, <<>>) = 0
         /\ \A s \in Seq(Elem) : ElementBytes(c, s) \in Nat
         /\ \A s \in Seq(Elem), e \in Elem :
              ElementBytes(c, Append(s, e)) = ElementBytes(c, s) + PutElement(c, e).w
<1>1. ElementBytes(c, <<>>) = 0
  BY ElementFieldsAppend, BytesAppend DEF ElementBytes
<1>2. ASSUME NEW s \in Seq(Elem) PROVE ElementBytes(c, s) \in Nat
  <2>1. ElementFields(c, s) \in Seq(Put)
    BY ElementFieldsAppend
  <2> QED BY <2>1, BytesAppend DEF ElementBytes
<1>3. ASSUME NEW s \in Seq(Elem), NEW e \in Elem
      PROVE  ElementBytes(c, Append(s, e)) = ElementBytes(c, s) + PutElement(c, e).w
  <2> DEFINE a == ElementFields(c, s)
             f == PutElement(c, e)
  <2>1. a \in Seq(Put) /\ f \in Put /\ ElementFields(c, Append(s, e)) = Append(a, f)
    BY ElementFieldsAppend, ElementField
  <2> HIDE DEF a, f
  <2>2. BytesOf(Append(a, f)) = BytesOf(a) + f.w
    BY <2>1, BytesAppend
  <2> QED BY <2>1, <2>2 DEF ElementBytes, a, f
<1> QED BY <1>1, <1>2, <1>3

(* A group grows by an element that belongs to it.                         *)
LEMMA GroupGrows ==
  ASSUME NEW c, NEW s \in Seq(Elem), NEW e \in Elem, NEW g \in 1..5
  PROVE  /\ InGroup(s, g) \in Seq(Elem)
         /\ Len(InGroup(s, g)) \in Nat /\ ElementBytes(c, InGroup(s, g)) \in Nat
         /\ e.len \in Lens(g) =>
              /\ Len(InGroup(Append(s, e), g)) = Len(InGroup(s, g)) + 1
              /\ ElementBytes(c, InGroup(Append(s, e), g))
                   = ElementBytes(c, InGroup(s, g)) + PutElement(c, e).w
         /\ e.len \notin Lens(g) => InGroup(Append(s, e), g) = InGroup(s, g)
<1> DEFINE u == InGroup(s, g)
<1>1. /\ u \in Seq(Elem)
      /\ InGroup(Append(s, e), g) = IF e.len \in Lens(g) THEN Append(u, e) ELSE u
  BY ChosenAppend DEF InGroup, ChooseOne
<1> HIDE DEF u
<1>2. /\ ElementBytes(c, u) \in Nat
      /\ ElementBytes(c, Append(u, e)) = ElementBytes(c, u) + PutElement(c, e).w
  BY <1>1, ElementBytesAppend
<1>3. Len(u) \in Nat /\ Len(Append(u, e)) = Len(u) + 1
  BY <1>1
<1> QED BY <1>1, <1>2, <1>3 DEF u

(* A group's count is written in so many bytes.                            *)
CountWidth(c) == IF c = "8E" THEN 2 ELSE 1

(* The encoder takes the elements.                                         *)
ElementsOK(c, s) == \A i \in 1..Len(s) : ElementOK(c, s[i])

Sized(c, base, s) == Add(base, [i \in DOMAIN s |-> ElementSize(c, s[i])])

GroupsBytes(c, s) ==
  ElementBytes(c, InGroup(s, 1)) + ElementBytes(c, InGroup(s, 2))
    + ElementBytes(c, InGroup(s, 3)) + ElementBytes(c, InGroup(s, 4))
    + ElementBytes(c, InGroup(s, 5))

GroupsLength(s) ==
  Len(InGroup(s, 1)) + Len(InGroup(s, 2)) + Len(InGroup(s, 3)) + Len(InGroup(s, 4))
    + Len(InGroup(s, 5))

(* What is added for an element is what it will take.                      *)
LEMMA ElementSizeIsWidth ==
  ASSUME NEW c \in DataCodecs, NEW e \in Elem, ElementOK(c, e)
  PROVE  /\ ElementSize(c, e) \in Nat /\ ElementSize(c, e) = PutElement(c, e).w
         /\ c # "8E" => e.len \notin Lens(5)
<1>1. e.len \in Nat /\ c \in {"8", "8E", "16"}
  BY DEF Elem, DataCodecs
<1>2. PutElement(c, e).w
        = (IF c = "8" THEN 1 ELSE 2) + (IF e.len \in FixedWidths THEN 0 ELSE 2) + e.len
  BY SMTT(30) DEF PutElement
<1>3. ASSUME c # "8E" PROVE e.len \in FixedWidths
  BY <1>3 DEF ElementOK
<1>4. CASE c = "8"
  BY <1>1, <1>2, <1>3, <1>4 DEF ElementSize, Lens
<1>5. CASE c = "16"
  BY <1>1, <1>2, <1>3, <1>5 DEF ElementSize, Lens
<1>6. CASE c = "8E"
  BY <1>1, <1>2, <1>3, <1>6 DEF ElementSize, Lens
<1> QED BY <1>1, <1>4, <1>5, <1>6

SumOf(f) == f[1] + f[2] + f[3] + f[4] + f[5]

(* One of five grows by x.                                                 *)
GrowsAt(a, b, h, x) ==
  /\ h \in 1..5 /\ x \in Nat
  /\ \A g \in 1..5 : a[g] \in Nat /\ b[g] = a[g] + (IF g = h THEN x ELSE 0)

(* What one of five grows by, their sum grows by.                          *)
LEMMA SumGrows ==
  ASSUME NEW a, NEW b, NEW x, NEW h, GrowsAt(a, b, h, x)
  PROVE  SumOf(b) = SumOf(a) + x /\ SumOf(a) \in Nat
<1>1. h = 1 \/ h = 2 \/ h = 3 \/ h = 4 \/ h = 5
  BY DEF GrowsAt
<1>2. /\ b[1] = a[1] + (IF h = 1 THEN x ELSE 0) /\ a[1] \in Nat
      /\ b[2] = a[2] + (IF h = 2 THEN x ELSE 0) /\ a[2] \in Nat
      /\ b[3] = a[3] + (IF h = 3 THEN x ELSE 0) /\ a[3] \in Nat
      /\ b[4] = a[4] + (IF h = 4 THEN x ELSE 0) /\ a[4] \in Nat
      /\ b[5] = a[5] + (IF h = 5 THEN x ELSE 0) /\ a[5] \in Nat
      /\ x \in Nat
  BY DEF GrowsAt
<1> QED BY <1>1, <1>2 DEF SumOf

(* An element more is in one group more, and adds its bytes there.         *)
LEMMA GroupsGrow ==
  ASSUME NEW c, NEW s \in Seq(Elem), NEW e \in Elem
  PROVE  /\ GroupsLength(s) \in Nat /\ GroupsBytes(c, s) \in Nat
         /\ GroupsLength(Append(s, e)) = GroupsLength(s) + 1
         /\ GroupsBytes(c, Append(s, e)) = GroupsBytes(c, s) + PutElement(c, e).w
<1> DEFINE L == [g \in 1..5 |-> Len(InGroup(s, g))]
           M == [g \in 1..5 |-> Len(InGroup(Append(s, e), g))]
           B == [g \in 1..5 |-> ElementBytes(c, InGroup(s, g))]
           D == [g \in 1..5 |-> ElementBytes(c, InGroup(Append(s, e), g))]
           w == PutElement(c, e).w
<1>1. \A g \in 1..5 : /\ L[g] \in Nat /\ B[g] \in Nat
                      /\ e.len \in Lens(g) => M[g] = L[g] + 1 /\ D[g] = B[g] + w
                      /\ e.len \notin Lens(g) => M[g] = L[g] /\ D[g] = B[g]
  BY GroupGrows
<1>2. w \in Nat
  BY ElementField, PutHasBytes
<1>3. PICK h \in 1..5 : e.len \in Lens(h) /\ \A g \in 1..5 : e.len \in Lens(g) => g = h
  BY OneGroup DEF Elem
<1> HIDE DEF L, M, B, D, w
<1>4. GrowsAt(L, M, h, 1)
  <2> SUFFICES ASSUME NEW g \in 1..5
               PROVE  L[g] \in Nat /\ M[g] = L[g] + (IF g = h THEN 1 ELSE 0)
    BY DEF GrowsAt
  <2>1. g = h => M[g] = L[g] + 1
    BY <1>1, <1>3
  <2>2. g # h => M[g] = L[g]
    BY <1>1, <1>3
  <2>3. L[g] \in Nat
    BY <1>1
  <2> QED BY <2>1, <2>2, <2>3
<1>7. GrowsAt(B, D, h, w)
  <2> SUFFICES ASSUME NEW g \in 1..5
               PROVE  B[g] \in Nat /\ D[g] = B[g] + (IF g = h THEN w ELSE 0)
    BY <1>2 DEF GrowsAt
  <2>1. g = h => D[g] = B[g] + w
    BY <1>1, <1>3
  <2>2. g # h => D[g] = B[g]
    BY <1>1, <1>3
  <2>3. B[g] \in Nat
    BY <1>1
  <2> QED BY <2>1, <2>2, <2>3
<1>5. SumOf(M) = SumOf(L) + 1 /\ SumOf(L) \in Nat
  BY <1>4, SumGrows
<1>6. SumOf(D) = SumOf(B) + w /\ SumOf(B) \in Nat
  BY <1>7, SumGrows
<1> QED BY <1>5, <1>6 DEF SumOf, GroupsLength, GroupsBytes, L, M, B, D, w

(* The sizes that are added up are the bytes of all groups, every element  *)
(* is in one, and only codec 8 extended has any in the fifth.              *)
LEMMA ElementsAddUp ==
  ASSUME NEW c \in DataCodecs, NEW base \in Nat, NEW s \in Seq(Elem), ElementsOK(c, s)
  PROVE  /\ Sized(c, base, s) = base + GroupsBytes(c, s)
         /\ Len(s) = GroupsLength(s)
         /\ c # "8E" => InGroup(s, 5) = <<>>
<1> DEFINE Good(u) == /\ Sized(c, base, u) = base + GroupsBytes(c, u)
                      /\ Len(u) = GroupsLength(u)
                      /\ c # "8E" => InGroup(u, 5) = <<>>
           T == {u \in Seq(Elem) : ElementsOK(c, u) => Good(u)}
<1>1. <<>> \in T
  <2>1. <<>> \in Seq(Elem) /\ Len(<<>>) = 0
    OBVIOUS
  <2>2. \A g \in 1..5 : InGroup(<<>>, g) = <<>>
    BY ChosenAppend DEF InGroup
  <2>3. ElementBytes(c, <<>>) = 0
    BY ElementBytesAppend
  <2>4. Sized(c, base, <<>>) = base
    <3>1. [i \in DOMAIN <<>> |-> ElementSize(c, <<>>[i])] = <<>>
      OBVIOUS
    <3> QED BY <3>1, AddAppend DEF Sized
  <2>5. GroupsBytes(c, <<>>) = 0 /\ GroupsLength(<<>>) = 0 /\ InGroup(<<>>, 5) = <<>>
    BY <2>1, <2>2, <2>3 DEF GroupsBytes, GroupsLength
  <2> QED BY <2>1, <2>4, <2>5
<1>2. ASSUME NEW u \in Seq(Elem), NEW e \in Elem, u \in T PROVE Append(u, e) \in T
  <2> DEFINE t == Append(u, e)
  <2>1. /\ t \in Seq(Elem) /\ Len(t) = Len(u) + 1 /\ Len(u) \in Nat /\ t[Len(u) + 1] = e
        /\ \A i \in 1..Len(u) : t[i] = u[i]
    BY AppendProperties
  <2>2. /\ GroupsLength(u) \in Nat /\ GroupsBytes(c, u) \in Nat
        /\ GroupsLength(t) = GroupsLength(u) + 1
        /\ GroupsBytes(c, t) = GroupsBytes(c, u) + PutElement(c, e).w
    BY GroupsGrow
  <2>3. e.len \notin Lens(5) => InGroup(t, 5) = InGroup(u, 5)
    <3>1. 5 \in 1..5
      OBVIOUS
    <3> QED BY <3>1, GroupGrows
  <2> HIDE DEF t
  <2> SUFFICES ASSUME ElementsOK(c, t) PROVE Good(t)
    BY <2>1 DEF t
  <2>4. ElementsOK(c, u) /\ ElementOK(c, e)
    BY <2>1 DEF ElementsOK
  <2>5. Good(u)
    BY <1>2, <2>4
  <2>6. /\ ElementSize(c, e) \in Nat /\ ElementSize(c, e) = PutElement(c, e).w
        /\ c # "8E" => e.len \notin Lens(5)
    BY <2>4, ElementSizeIsWidth
  <2>7. Sized(c, base, t) = Sized(c, base, u) + ElementSize(c, e)
    <3> DEFINE v == [i \in DOMAIN u |-> ElementSize(c, u[i])]
               w == [i \in DOMAIN t |-> ElementSize(c, t[i])]
               x == ElementSize(c, e)
    <3>1. DOMAIN u = 1..Len(u) /\ DOMAIN t = 1..(Len(u) + 1)
      BY <2>1
    <3>2. \A i \in 1..Len(u) : ElementSize(c, u[i]) \in Nat
      <4> TAKE i \in 1..Len(u)
      <4>1. u[i] \in Elem /\ ElementOK(c, u[i])
        BY <2>4 DEF ElementsOK
      <4> QED BY <4>1, ElementSizeIsWidth
    <3>3. v \in Seq(Nat) /\ w = Append(v, x)
      <4>1. v \in Seq(Nat) /\ Len(v) = Len(u)
        BY <2>1, <3>1, <3>2
      <4>2. w \in Seq(Nat) /\ Len(w) = Len(u) + 1
        <5>1. \A i \in 1..(Len(u) + 1) : ElementSize(c, t[i]) \in Nat
          BY <2>1, <2>6, <3>2
        <5> QED BY <2>1, <3>1, <5>1
      <4>3. \A i \in 1..(Len(u) + 1) : w[i] = Append(v, x)[i]
        BY <2>1, <2>6, <3>1, <4>1
      <4>4. Append(v, x) \in Seq(Nat) /\ Len(Append(v, x)) = Len(u) + 1
        BY <2>6, <4>1
      <4> HIDE DEF v, w, x
      <4> QED BY <4>1, <4>2, <4>3, <4>4, SeqEqual
    <3> HIDE DEF v, w, x
    <3>4. Add(base, Append(v, x)) = Add(base, v) + x
      BY <2>6, <3>3, AddAppend DEF x
    <3> QED BY <3>3, <3>4 DEF Sized, v, w, x
  <2> QED BY <2>1, <2>2, <2>3, <2>5, <2>6, <2>7
<1>3. Seq(Elem) \subseteq T
  <2> HIDE DEF T
  <2> QED BY <1>1, <1>2, AllSequences
<1> QED BY <1>3

-----------------------------------------------------------------------------
(***************************************************************************)
(* Records and messages.                                                   *)
(***************************************************************************)
DataRecord == [event : Nat, gen : Nat, elements : Seq(Elem)]
DataMessage == [type : MessageTypes, text : Nat, imei : Imei]

GroupFields(c, s, g) == PutElements(c, InGroup(s, g))

(* A group's fields: its number of elements, and these.                    *)
LEMMA GroupBytes ==
  ASSUME NEW c, NEW s \in Seq(Elem), NEW g \in 1..5
  PROVE  /\ GroupFields(c, s, g) \in Seq(Put)
         /\ GroupFields(c, s, g)
              = <<[kind |-> "group", n |-> Len(InGroup(s, g)), w |-> CountWidth(c)]>>
                  \o ElementFields(c, InGroup(s, g))
         /\ BytesOf(GroupFields(c, s, g)) = CountWidth(c) + ElementBytes(c, InGroup(s, g))
<1> DEFINE u == InGroup(s, g)
           f == [kind |-> "group", n |-> Len(u), w |-> CountWidth(c)]
           t == ElementFields(c, u)
<1>1. u \in Seq(Elem) /\ Len(u) \in Nat
  <2>1. u \in Seq(Elem)
    BY ChosenAppend DEF InGroup
  <2> HIDE DEF u
  <2> QED BY <2>1
<1>2. GroupFields(c, s, g) = <<f>> \o t
  BY DEF GroupFields, PutElements, ElementFields, CountWidth
<1> HIDE DEF u
<1>3. CountWidth(c) \in Nat /\ f.w = CountWidth(c)
  BY DEF CountWidth
<1>4. f \in Put
  BY <1>1, <1>3 DEF Put
<1>5. t \in Seq(Put)
  BY <1>1, ElementFieldsAppend
<1> HIDE DEF f, t
<1>6. <<f>> \o t \in Seq(Put) /\ BytesOf(<<f>> \o t) = f.w + BytesOf(t)
  BY <1>4, <1>5, BytesFirst
<1> QED BY <1>2, <1>3, <1>6 DEF f, t, u, ElementBytes

(* The groups from g on.                                                   *)
FromFifth(c, s)  == IF c = "8E" THEN GroupFields(c, s, 5) ELSE <<>>
FromFourth(c, s) == GroupFields(c, s, 4) \o FromFifth(c, s)
FromThird(c, s)  == GroupFields(c, s, 3) \o FromFourth(c, s)
FromSecond(c, s) == GroupFields(c, s, 2) \o FromThird(c, s)
FromFirst(c, s)  == GroupFields(c, s, 1) \o FromSecond(c, s)

GroupsFrom(c, s, g) ==
  CASE g = 1 -> FromFirst(c, s)
    [] g = 2 -> FromSecond(c, s)
    [] g = 3 -> FromThird(c, s)
    [] g = 4 -> FromFourth(c, s)
    [] g = 5 -> FromFifth(c, s)
    [] g = 6 -> <<>>

GroupsOf(c) == IF c = "8E" THEN 5 ELSE 4

(* Putting sequences together, under a name the provers do not expand.     *)
Cat(a, b) == a \o b

(* Concatenation stays among the sequences and does not depend on order.   *)
LEMMA CatAssociative ==
  ASSUME NEW S
  PROVE  /\ \A x, y \in Seq(S) : Cat(x, y) \in Seq(S)
         /\ \A x, y, z \in Seq(S) : Cat(Cat(x, y), z) = Cat(x, Cat(y, z))
BY ConcatAssociative, ConcatProperties DEF Cat

(* Five sequences may be put together from either end.                     *)
LEMMA FiveConcat ==
  ASSUME NEW S, NEW a \in Seq(S), NEW b \in Seq(S), NEW d \in Seq(S), NEW e \in Seq(S),
         NEW f \in Seq(S)
  PROVE  Cat(Cat(Cat(Cat(a, b), d), e), f) = Cat(a, Cat(b, Cat(d, Cat(e, f))))
<1>1. /\ Cat(a, b) \in Seq(S) /\ Cat(Cat(a, b), d) \in Seq(S)
      /\ Cat(e, f) \in Seq(S) /\ Cat(d, Cat(e, f)) \in Seq(S)
  BY CatAssociative
<1>2. Cat(Cat(Cat(Cat(a, b), d), e), f) = Cat(Cat(Cat(a, b), d), Cat(e, f))
  BY <1>1, CatAssociative
<1>3. Cat(Cat(Cat(a, b), d), Cat(e, f)) = Cat(Cat(a, b), Cat(d, Cat(e, f)))
  BY <1>1, CatAssociative
<1>4. Cat(Cat(a, b), Cat(d, Cat(e, f))) = Cat(a, Cat(b, Cat(d, Cat(e, f))))
  BY <1>1, CatAssociative
<1> QED BY <1>2, <1>3, <1>4

(* The groups of a record come one after the other.                        *)
LEMMA GroupsInOrder ==
  ASSUME NEW c \in DataCodecs, NEW s \in Seq(Elem)
  PROVE  /\ PutGroups(c, s) = GroupsFrom(c, s, 1)
         /\ \A g \in 1..6 : GroupsFrom(c, s, g) \in Seq(Put)
         /\ GroupsFrom(c, s, GroupsOf(c) + 1) = <<>>
         /\ \A g \in 1..GroupsOf(c) :
              GroupsFrom(c, s, g) = GroupFields(c, s, g) \o GroupsFrom(c, s, g + 1)
<1>1. /\ GroupFields(c, s, 1) \in Seq(Put) /\ GroupFields(c, s, 2) \in Seq(Put)
      /\ GroupFields(c, s, 3) \in Seq(Put) /\ GroupFields(c, s, 4) \in Seq(Put)
      /\ GroupFields(c, s, 5) \in Seq(Put)
  <2>1. ASSUME NEW g \in 1..5 PROVE GroupFields(c, s, g) \in Seq(Put)
    BY GroupBytes, Zenon
  <2> QED BY <2>1
<1> DEFINE a == GroupFields(c, s, 1)
           b == GroupFields(c, s, 2)
           d == GroupFields(c, s, 3)
           e == GroupFields(c, s, 4)
           f == FromFifth(c, s)
<1>2. f \in Seq(Put)
  BY <1>1 DEF FromFifth
<1>3. PutGroups(c, s) = (((a \o b) \o d) \o e) \o f
  BY GroupsAre DEF PutGroups, GroupFields, FromFifth
<1>4. a \in Seq(Put) /\ b \in Seq(Put) /\ d \in Seq(Put) /\ e \in Seq(Put)
  BY <1>1
<1>5. /\ GroupsFrom(c, s, 1) = a \o (b \o (d \o (e \o f)))
      /\ GroupsFrom(c, s, 2) = b \o (d \o (e \o f))
      /\ GroupsFrom(c, s, 3) = d \o (e \o f)
      /\ GroupsFrom(c, s, 4) = e \o f
      /\ GroupsFrom(c, s, 5) = f /\ GroupsFrom(c, s, 6) = <<>>
  <2>1. GroupsFrom(c, s, 1) = a \o (b \o (d \o (e \o f)))
    <3>1. GroupsFrom(c, s, 1) = FromFirst(c, s)
      BY DEF GroupsFrom
    <3> QED BY <3>1 DEF FromFirst, FromSecond, FromThird, FromFourth
  <2>2. GroupsFrom(c, s, 2) = b \o (d \o (e \o f))
    BY SMTT(30) DEF GroupsFrom, FromFirst, FromSecond, FromThird, FromFourth
  <2>3. GroupsFrom(c, s, 3) = d \o (e \o f)
    BY DEF GroupsFrom, FromFirst, FromSecond, FromThird, FromFourth
  <2>4. GroupsFrom(c, s, 4) = e \o f
    BY DEF GroupsFrom, FromFirst, FromSecond, FromThird, FromFourth
  <2>5. GroupsFrom(c, s, 5) = f
    BY DEF GroupsFrom, FromFirst, FromSecond, FromThird, FromFourth
  <2>6. GroupsFrom(c, s, 6) = <<>>
    BY DEF GroupsFrom, FromFirst, FromSecond, FromThird, FromFourth
  <2> HIDE DEF a, b, d, e, f
  <2> QED BY <2>1, <2>2, <2>3, <2>4, <2>5, <2>6, Zenon
<1>6. /\ c = "8E" => f = GroupFields(c, s, 5)
      /\ c # "8E" => f = <<>>
  BY DEF FromFifth
<1> HIDE DEF a, b, d, e, f
<1>7. PutGroups(c, s) = GroupsFrom(c, s, 1)
  <2>1. Cat(Cat(Cat(Cat(a, b), d), e), f) = Cat(a, Cat(b, Cat(d, Cat(e, f))))
    BY <1>2, <1>4, FiveConcat
  <2> QED BY <1>3, <1>5, <2>1, Zenon DEF Cat
<1>8. \A g \in 1..6 : GroupsFrom(c, s, g) \in Seq(Put)
  <2>1. /\ e \o f \in Seq(Put) /\ d \o (e \o f) \in Seq(Put)
        /\ b \o (d \o (e \o f)) \in Seq(Put) /\ a \o (b \o (d \o (e \o f))) \in Seq(Put)
        /\ <<>> \in Seq(Put)
    BY <1>2, <1>4, ConcatProperties
  <2>2. \A g \in 1..6 : g = 1 \/ g = 2 \/ g = 3 \/ g = 4 \/ g = 5 \/ g = 6
    OBVIOUS
  <2> QED BY <1>2, <1>5, <2>1, <2>2
<1>9. GroupsFrom(c, s, GroupsOf(c) + 1) = <<>>
  BY <1>5, <1>6 DEF GroupsOf
<1>10. ASSUME NEW g \in 1..GroupsOf(c)
       PROVE  GroupsFrom(c, s, g) = GroupFields(c, s, g) \o GroupsFrom(c, s, g + 1)
  <2>1. g = 1 \/ g = 2 \/ g = 3 \/ g = 4 \/ (c = "8E" /\ g = 5)
    BY DEF GroupsOf
  <2>2. CASE g = 5
    <3>1. f = f \o <<>>
      BY <1>2, ConcatEmptySeq
    <3>2. GroupsFrom(c, s, 6) = <<>> /\ GroupsFrom(c, s, 5) = GroupFields(c, s, 5)
      BY <1>5, <1>6, <2>1, <2>2
    <3>3. g + 1 = 6 /\ f = GroupFields(c, s, 5)
      BY <1>6, <2>1, <2>2
    <3> QED BY <2>2, <3>1, <3>2, <3>3
  <2>3. CASE g \in {1, 2, 3, 4}
    <3>1. /\ GroupFields(c, s, 1) = a /\ GroupFields(c, s, 2) = b
          /\ GroupFields(c, s, 3) = d /\ GroupFields(c, s, 4) = e
      BY DEF a, b, d, e
    <3>2. g + 1 = (IF g = 1 THEN 2 ELSE IF g = 2 THEN 3 ELSE IF g = 3 THEN 4 ELSE 5)
      BY <2>3
    <3>3. GroupsFrom(c, s, 1) = Cat(a, GroupsFrom(c, s, 2))
      BY <1>5 DEF Cat
    <3>4. GroupsFrom(c, s, 2) = Cat(b, GroupsFrom(c, s, 3))
      BY <1>5 DEF Cat
    <3>5. GroupsFrom(c, s, 3) = Cat(d, GroupsFrom(c, s, 4))
      BY <1>5 DEF Cat
    <3>6. GroupsFrom(c, s, 4) = Cat(e, GroupsFrom(c, s, 5))
      BY <1>5 DEF Cat
    <3>7. GroupsFrom(c, s, g) = Cat(GroupFields(c, s, g), GroupsFrom(c, s, g + 1))
      BY <2>3, <3>1, <3>2, <3>3, <3>4, <3>5, <3>6
    <3> QED BY <3>7 DEF Cat
  <2> QED BY <2>1, <2>2, <2>3
<1> QED BY <1>7, <1>8, <1>9, <1>10

(* All groups together take the bytes of their counts and of all elements. *)
LEMMA AllGroupsBytes ==
  ASSUME NEW c \in DataCodecs, NEW s \in Seq(Elem), ElementsOK(c, s)
  PROVE  BytesOf(PutGroups(c, s)) = CountWidth(c) * GroupsOf(c) + GroupsBytes(c, s)
<1>2. \A g \in 1..GroupsOf(c) : BytesOf(GroupsFrom(c, s, g))
          = (CountWidth(c) + ElementBytes(c, InGroup(s, g))) + BytesOf(GroupsFrom(c, s, g + 1))
  <2> TAKE g \in 1..GroupsOf(c)
  <2>1. g \in 1..5 /\ g \in 1..6 /\ g + 1 \in 1..6
    BY DEF GroupsOf
  <2> DEFINE x == GroupFields(c, s, g)
             y == GroupsFrom(c, s, g + 1)
  <2>2. /\ x \in Seq(Put) /\ y \in Seq(Put) /\ GroupsFrom(c, s, g) = x \o y
        /\ BytesOf(x) = CountWidth(c) + ElementBytes(c, InGroup(s, g))
    BY <2>1, GroupBytes, GroupsInOrder
  <2> HIDE DEF x, y
  <2>3. BytesOf(x \o y) = BytesOf(x) + BytesOf(y)
    BY <2>2, BytesConcat
  <2> QED BY <2>2, <2>3 DEF y
<1>3. BytesOf(GroupsFrom(c, s, GroupsOf(c) + 1)) = 0
  BY GroupsInOrder, BytesAppend
<1>4. c # "8E" => ElementBytes(c, InGroup(s, 5)) = 0
  <2>1. 0 \in Nat
    OBVIOUS
  <2>2. c # "8E" => InGroup(s, 5) = <<>>
    BY <2>1, ElementsAddUp
  <2> QED BY <2>2, ElementBytesAppend
<1>5. CountWidth(c) \in Nat
  BY DEF CountWidth
<1>6. PutGroups(c, s) = GroupsFrom(c, s, 1)
  BY GroupsInOrder
<1> DEFINE w == CountWidth(c)
           n1 == ElementBytes(c, InGroup(s, 1))
           n2 == ElementBytes(c, InGroup(s, 2))
           n3 == ElementBytes(c, InGroup(s, 3))
           n4 == ElementBytes(c, InGroup(s, 4))
           n5 == ElementBytes(c, InGroup(s, 5))
           b1 == BytesOf(GroupsFrom(c, s, 1))
           b2 == BytesOf(GroupsFrom(c, s, 2))
           b3 == BytesOf(GroupsFrom(c, s, 3))
           b4 == BytesOf(GroupsFrom(c, s, 4))
           b5 == BytesOf(GroupsFrom(c, s, 5))
           b6 == BytesOf(GroupsFrom(c, s, 6))
<1>1. /\ n1 \in Nat /\ n2 \in Nat /\ n3 \in Nat /\ n4 \in Nat /\ n5 \in Nat
  BY ChosenAppend, ElementBytesAppend DEF InGroup
<1>7. GroupsBytes(c, s) = n1 + n2 + n3 + n4 + n5
  BY DEF GroupsBytes
<1>8. CASE c = "8E"
  <2>1. /\ b1 = (w + n1) + b2 /\ b2 = (w + n2) + b3 /\ b3 = (w + n3) + b4
        /\ b4 = (w + n4) + b5 /\ b5 = (w + n5) + b6
    BY <1>2, <1>8 DEF GroupsOf
  <2>2. b6 = 0 /\ w = 2 /\ GroupsOf(c) = 5
    BY <1>3, <1>8 DEF GroupsOf, CountWidth
  <2> HIDE DEF w, n1, n2, n3, n4, n5, b1, b2, b3, b4, b5, b6
  <2>3. b1 = 10 + (n1 + n2 + n3 + n4 + n5)
    BY <1>1, <2>1, <2>2
  <2> QED BY <1>6, <1>7, <2>2, <2>3 DEF b1, w
<1>9. CASE c # "8E"
  <2>1. /\ b1 = (w + n1) + b2 /\ b2 = (w + n2) + b3 /\ b3 = (w + n3) + b4
        /\ b4 = (w + n4) + b5
    BY <1>2, <1>9 DEF GroupsOf
  <2>2. b5 = 0 /\ w = 1 /\ GroupsOf(c) = 4 /\ n5 = 0
    BY <1>3, <1>4, <1>9 DEF GroupsOf, CountWidth
  <2> HIDE DEF w, n1, n2, n3, n4, n5, b1, b2, b3, b4, b5, b6
  <2>3. b1 = 4 + (n1 + n2 + n3 + n4 + n5)
    BY <1>1, <2>1, <2>2
  <2> QED BY <1>6, <1>7, <2>2, <2>3 DEF b1, w
<1> QED BY <1>8, <1>9

(* A record's bytes are those that calculateElementsSize* adds up.         *)
LEMMA RecordBytes ==
  ASSUME NEW c \in DataCodecs, NEW r \in DataRecord, RecordOK(c, r)
  PROVE  /\ PutRecord(c, r) \in Seq(Put)
         /\ ElementsSize(c, r.elements) \in Nat
         /\ BytesOf(PutRecord(c, r)) = 24 + ElementsSize(c, r.elements)
<1> DEFINE s == r.elements
           f == [kind |-> "record", event |-> r.event, gen |-> r.gen, total |-> Len(s),
                 w |-> 24 + IF c = "8" THEN 2 ELSE 4]
           t == PutGroups(c, s)
           base == IF c = "8" THEN 6 ELSE IF c = "16" THEN 8 ELSE 14
<1>1. s \in Seq(Elem) /\ r.event \in Nat /\ r.gen \in Nat
  BY DEF DataRecord
<1>2. PutRecord(c, r) = <<f>> \o t
  BY DEF PutRecord
<1>3. ElementsSize(c, s) = Sized(c, base, s)
  BY DEF ElementsSize, Sized, DataCodecs
<1>4. ElementsOK(c, s)
  BY DEF RecordOK, ElementsOK
<1>5. base \in Nat
  OBVIOUS
<1>6. f.w = 24 + IF c = "8" THEN 2 ELSE 4
  OBVIOUS
<1>7. f \in Put
  <2>1. Len(s) \in Nat
    BY <1>1
  <2> HIDE DEF s
  <2> QED BY <1>1, <2>1 DEF Put
<1> HIDE DEF s, f
<1>8. t = GroupsFrom(c, s, 1) /\ t \in Seq(Put)
  BY <1>1, GroupsInOrder
<1>9. BytesOf(t) = CountWidth(c) * GroupsOf(c) + GroupsBytes(c, s)
  BY <1>1, <1>4, AllGroupsBytes
<1>10. Sized(c, base, s) = base + GroupsBytes(c, s)
  <2> HIDE DEF base
  <2> QED BY <1>1, <1>4, <1>5, ElementsAddUp
<1>11. GroupsBytes(c, s) \in Nat
  <2>1. ASSUME NEW g \in 1..5 PROVE ElementBytes(c, InGroup(s, g)) \in Nat
    BY <1>1, ChosenAppend, ElementBytesAppend DEF InGroup
  <2> QED BY <2>1 DEF GroupsBytes
<1>12. CountWidth(c) * GroupsOf(c) = IF c = "8E" THEN 10 ELSE 4
  BY DEF CountWidth, GroupsOf
<1> HIDE DEF t
<1>13. <<f>> \o t \in Seq(Put) /\ BytesOf(<<f>> \o t) = f.w + BytesOf(t)
  BY <1>7, <1>8, BytesFirst
<1>14. f.w + BytesOf(t) = 24 + (base + GroupsBytes(c, s))
  BY <1>6, <1>9, <1>11, <1>12 DEF DataCodecs
<1> QED BY <1>2, <1>3, <1>5, <1>10, <1>11, <1>13, <1>14 DEF s, t

ExtraBytes(c) == CASE c = "12" -> 0 [] c = "13" -> 4 [] c = "14" -> 8 [] c = "15" -> 12

(* A message is one field, of the bytes that are added up for it.          *)
LEMMA MessageBytes ==
  ASSUME NEW c \in CommandCodecs, NEW m \in DataMessage
  PROVE  /\ Head(PutMessage(c, m)) \in Put
         /\ PutMessage(c, m) = <<Head(PutMessage(c, m))>>
         /\ Head(PutMessage(c, m))
              = [kind |-> "message", type |-> m.type, declared |-> m.text + ExtraBytes(c),
                 imei |-> Pad(m.imei), w |-> 5 + ExtraBytes(c) + m.text]
         /\ MessageSize(c, m) \in Nat
         /\ BytesOf(PutMessage(c, m)) = MessageSize(c, m)
<1> DEFINE n == ExtraBytes(c)
           f == [kind |-> "message", type |-> m.type, declared |-> m.text + n,
                 imei |-> Pad(m.imei), w |-> 5 + n + m.text]
<1>1. n \in Nat
  BY DEF ExtraBytes, CommandCodecs
<1>2. m.type \in MessageTypes /\ m.text \in Nat /\ m.imei \in Imei
  BY DEF DataMessage
<1>3. Pad(m.imei) \in Imei
  BY <1>2 DEF Pad, Imei
<1>4. PutMessage(c, m) = <<f>>
  BY DEF PutMessage, ExtraBytes
<1>5. MessageSize(c, m) = m.text + 5 + n
  BY DEF MessageSize, ExtraBytes
<1>6. f.w = 5 + n + m.text
  OBVIOUS
<1>7. f \in Put
  <2> HIDE DEF n
  <2> QED BY <1>1, <1>2, <1>3 DEF Put
<1>8. BytesOf(<<f>>) = f.w
  <2> HIDE DEF f
  <2> QED BY <1>7, BytesFirst
<1> HIDE DEF n
<1>9. f.w = MessageSize(c, m) /\ f.w \in Nat
  BY <1>1, <1>2, <1>5, <1>6
<1>10. Head(<<f>>) = f
  OBVIOUS
<1> HIDE DEF f
<1>11. /\ Head(PutMessage(c, m)) = f /\ PutMessage(c, m) = <<f>>
       /\ BytesOf(PutMessage(c, m)) = MessageSize(c, m) /\ MessageSize(c, m) \in Nat
  BY <1>4, <1>8, <1>9, <1>10
<1> QED BY <1>7, <1>11 DEF f, n

(* What the encoder is given and does not refuse.                          *)
IsPacket(c, its) ==
  /\ Encodable(c, its)
  /\ \/ c \in DataCodecs /\ its \in Seq(DataRecord)
     \/ c \in CommandCodecs /\ its \in Seq(DataMessage)

(* A record or message takes the bytes that are added up for it.           *)
LEMMA ItemBytes ==
  ASSUME NEW c, NEW its, IsPacket(c, its), NEW i \in 1..Len(its)
  PROVE  /\ PutItem(c, its[i]) \in Seq(Put)
         /\ ItemSize(c, its[i]) \in Nat
         /\ BytesOf(PutItem(c, its[i])) = ItemSize(c, its[i])
<1>1. CASE c \in DataCodecs /\ its \in Seq(DataRecord)
  <2>1. ~IsCommandCodec(c)
    BY <1>1 DEF IsCommandCodec, DataCodecs
  <2>2. its[i] \in DataRecord /\ RecordOK(c, its[i])
    BY <1>1, <2>1 DEF IsPacket, Encodable
  <2> QED BY <1>1, <2>1, <2>2, RecordBytes DEF PutItem, ItemSize
<1>2. CASE c \in CommandCodecs /\ its \in Seq(DataMessage)
  <2>1. IsCommandCodec(c)
    BY <1>2 DEF IsCommandCodec, CommandCodecs
  <2>2. its[i] \in DataMessage
    BY <1>2
  <2> DEFINE m == its[i]
             t == PutMessage(c, m)
             f == Head(t)
  <2>3. f \in Put /\ t = <<f>> /\ MessageSize(c, m) \in Nat /\ BytesOf(t) = MessageSize(c, m)
    BY <1>2, <2>2, MessageBytes
  <2>4. PutItem(c, m) = t /\ ItemSize(c, m) = MessageSize(c, m)
    BY <2>1 DEF PutItem, ItemSize
  <2> HIDE DEF m, t, f
  <2>5. t \in Seq(Put)
    BY <2>3
  <2> QED BY <2>3, <2>4, <2>5 DEF m
<1> QED BY <1>1, <1>2 DEF IsPacket

(* The total of any sequences put together.                                *)
LEMMA FlattenBytes ==
  ASSUME NEW t \in Seq(Seq(Put))
  PROVE  /\ [i \in DOMAIN t |-> BytesOf(t[i])] \in Seq(Nat)
         /\ BytesOf(FlattenSeq(t)) = Add(0, [i \in DOMAIN t |-> BytesOf(t[i])])
<1> DEFINE Each(u) == [i \in DOMAIN u |-> BytesOf(u[i])]
           T == {u \in Seq(Seq(Put)) : BytesOf(FlattenSeq(u)) = Add(0, Each(u))}
<1>0. ASSUME NEW u \in Seq(Seq(Put)) PROVE Each(u) \in Seq(Nat) /\ Len(Each(u)) = Len(u)
  <2>1. Len(u) \in Nat /\ DOMAIN u = 1..Len(u) /\ \A i \in 1..Len(u) : u[i] \in Seq(Put)
    OBVIOUS
  <2>2. \A i \in 1..Len(u) : BytesOf(u[i]) \in Nat
    BY <2>1, BytesAppend
  <2> QED BY <2>1, <2>2
<1>1. <<>> \in T
  <2>1. <<>> \in Seq(Seq(Put)) /\ Each(<<>>) = <<>>
    OBVIOUS
  <2>2. FlattenSeq(<<>>) = <<>>
    BY EmptySeq DEF FlattenSeq
  <2>3. BytesOf(<<>>) = 0 /\ Add(0, <<>>) = 0
    BY BytesAppend, AddAppend
  <2> QED BY <2>1, <2>2, <2>3
<1>2. ASSUME NEW u \in Seq(Seq(Put)), NEW e \in Seq(Put), u \in T PROVE Append(u, e) \in T
  <2> DEFINE v == Append(u, e)
  <2>1. /\ v \in Seq(Seq(Put)) /\ Len(v) = Len(u) + 1 /\ Len(u) \in Nat /\ v[Len(u) + 1] = e
        /\ \A i \in 1..Len(u) : v[i] = u[i]
    BY AppendProperties
  <2>2. FlattenSeq(v) = FlattenSeq(u) \o e /\ FlattenSeq(u) \in Seq(Put)
    BY FlattenAppend, FlattenType
  <2>3. BytesOf(FlattenSeq(v)) = BytesOf(FlattenSeq(u)) + BytesOf(e)
    <3> DEFINE a == FlattenSeq(u)
    <3>1. a \in Seq(Put)
      BY <2>2
    <3> HIDE DEF a
    <3>2. BytesOf(a \o e) = BytesOf(a) + BytesOf(e)
      BY <3>1, BytesConcat
    <3> QED BY <2>2, <3>2 DEF a
  <2>4. Each(v) = Append(Each(u), BytesOf(e))
    <3> DEFINE x == BytesOf(e)
               a == Each(u)
               b == Each(v)
    <3> HIDE DEF v
    <3>1. x \in Nat
      BY BytesAppend
    <3>2. a \in Seq(Nat) /\ Len(a) = Len(u) /\ b \in Seq(Nat) /\ Len(b) = Len(u) + 1
      BY <1>0, <2>1
    <3>3. \A i \in 1..Len(u) : a[i] = BytesOf(u[i])
      OBVIOUS
    <3>4. \A i \in 1..(Len(u) + 1) : b[i] = BytesOf(v[i])
      BY <2>1
    <3> HIDE DEF a, b, x
    <3>5. /\ Append(a, x) \in Seq(Nat) /\ Len(Append(a, x)) = Len(u) + 1
          /\ Append(a, x)[Len(u) + 1] = x
          /\ \A i \in 1..Len(u) : Append(a, x)[i] = a[i]
      BY <3>1, <3>2, AppendProperties
    <3>6. \A i \in 1..(Len(u) + 1) : Append(a, x)[i] = b[i]
      <4> TAKE i \in 1..(Len(u) + 1)
      <4>1. i \in 1..Len(u) \/ i = Len(u) + 1
        BY <2>1
      <4>2. CASE i \in 1..Len(u)
        BY <2>1, <3>3, <3>4, <3>5, <4>2
      <4>3. CASE i = Len(u) + 1
        BY <2>1, <3>4, <3>5, <4>3 DEF x
      <4> QED BY <4>1, <4>2, <4>3
    <3>7. b = Append(a, x)
      BY <3>2, <3>5, <3>6, SeqEqual
    <3> QED BY <3>7 DEF a, b, x
  <2>5. Add(0, Append(Each(u), BytesOf(e))) = Add(0, Each(u)) + BytesOf(e)
    <3> DEFINE x == BytesOf(e)
               a == Each(u)
    <3>1. x \in Nat /\ a \in Seq(Nat) /\ 0 \in Nat
      BY <1>0, BytesAppend
    <3> HIDE DEF a, x
    <3>2. Add(0, Append(a, x)) = Add(0, a) + x
      BY <3>1, AddAppend
    <3> QED BY <3>2 DEF a, x
  <2>6. BytesOf(FlattenSeq(u)) = Add(0, Each(u))
    BY <1>2
  <2>7. BytesOf(FlattenSeq(v)) = Add(0, Each(v))
    BY <2>3, <2>4, <2>5, <2>6
  <2> QED BY <2>1, <2>7
<1>3. Seq(Seq(Put)) \subseteq T
  <2> HIDE DEF T
  <2> QED BY <1>1, <1>2, AllSequences
<1> QED BY <1>0, <1>3

(* What is added to a base is added to it at the end.                      *)
LEMMA AddBase ==
  ASSUME NEW base \in Nat, NEW s \in Seq(Nat)
  PROVE  Add(base, s) = base + Add(0, s) /\ Add(0, s) \in Nat
<1> DEFINE e == <<>>
<1>1. e \in Seq(Nat) /\ e \o s = s
  BY ConcatEmptySeq
<1>2. Add(base, e) = base /\ Add(0, s) \in Nat
  BY AddAppend
<1> HIDE DEF e
<1>3. Add(base, e \o s) = Add(base, e) + Add(0, s)
  BY <1>1, AddConcat
<1> QED BY <1>1, <1>2, <1>3

(* The fields of the items after the first k.                              *)
ItemFields(c, its, k) == [i \in 1..(Len(its) - k) |-> PutItem(c, its[k + i])]
ItemsAfter(c, its, k) == FlattenSeq(ItemFields(c, its, k))

(* They begin with those of the next item, and take what is added up.      *)
LEMMA ItemsInOrder ==
  ASSUME NEW c, NEW its, IsPacket(c, its)
  PROVE  /\ Len(its) \in Nat
         /\ \A k \in 0..Len(its) : ItemsAfter(c, its, k) \in Seq(Put)
         /\ ItemsAfter(c, its, Len(its)) = <<>>
         /\ \A k \in 0..(Len(its) - 1) :
              ItemsAfter(c, its, k) = PutItem(c, its[k + 1]) \o ItemsAfter(c, its, k + 1)
<1>1. Len(its) \in Nat
  BY DEF IsPacket
<1>2. ASSUME NEW k \in 0..Len(its)
      PROVE  ItemFields(c, its, k) \in Seq(Seq(Put)) /\ Len(ItemFields(c, its, k)) = Len(its) - k
  <2>1. Len(its) - k \in Nat /\ \A i \in 1..(Len(its) - k) : k + i \in 1..Len(its)
    BY <1>1
  <2>2. \A i \in 1..(Len(its) - k) : PutItem(c, its[k + i]) \in Seq(Put)
    BY <2>1, ItemBytes
  <2> QED BY <2>1, <2>2 DEF ItemFields
<1>3. \A k \in 0..Len(its) : ItemsAfter(c, its, k) \in Seq(Put)
  BY <1>2, FlattenType DEF ItemsAfter
<1>4. ItemsAfter(c, its, Len(its)) = <<>>
  <2>1. Len(its) - Len(its) = 0
    BY <1>1
  <2>2. ItemFields(c, its, Len(its)) = <<>>
    BY <2>1 DEF ItemFields
  <2> QED BY <2>2 DEF ItemsAfter, FlattenSeq
<1>5. ASSUME NEW k \in 0..(Len(its) - 1)
      PROVE  ItemsAfter(c, its, k) = PutItem(c, its[k + 1]) \o ItemsAfter(c, its, k + 1)
  <2> DEFINE t == ItemFields(c, its, k)
             u == ItemFields(c, its, k + 1)
             n == Len(its) - k
  <2>1. k \in 0..Len(its) /\ k + 1 \in 0..Len(its) /\ n \in Nat /\ n > 0
        /\ Len(its) - (k + 1) = n - 1
    BY <1>1
  <2>2. /\ t \in Seq(Seq(Put)) /\ Len(t) = n
        /\ u \in Seq(Seq(Put)) /\ Len(u) = n - 1
    BY <1>2, <2>1, Zenon
  <2>3. \A i \in 1..n : t[i] = PutItem(c, its[k + i])
    BY DEF ItemFields
  <2>4. \A i \in 1..(n - 1) : u[i] = PutItem(c, its[k + (i + 1)])
    <3> TAKE i \in 1..(n - 1)
    <3>1. (k + 1) + i = k + (i + 1)
      BY <2>1
    <3> QED BY <2>1, <3>1 DEF ItemFields
  <2> HIDE DEF t, u, n
  <2>5. t # <<>> /\ Head(t) = PutItem(c, its[k + 1])
    BY <2>1, <2>2, <2>3
  <2>6. Tail(t) = u
    <3>1. Tail(t) \in Seq(Seq(Put)) /\ Len(Tail(t)) = n - 1
      BY <2>1, <2>2, <2>5
    <3>2. \A i \in 1..(n - 1) : Tail(t)[i] = t[i + 1] /\ i + 1 \in 1..n
      BY <2>1, <2>2, <2>5
    <3>3. \A i \in 1..(n - 1) : Tail(t)[i] = u[i]
      BY <2>3, <2>4, <3>2
    <3> QED BY <2>2, <3>1, <3>3, SeqEqual
  <2>7. FlattenSeq(t) = Head(t) \o FlattenSeq(Tail(t))
    BY <2>2, <2>5, FlattenFirst
  <2> QED BY <2>5, <2>6, <2>7, Zenon DEF ItemsAfter, t, u
<1> QED BY <1>1, <1>3, <1>4, <1>5

-----------------------------------------------------------------------------
(***************************************************************************)
(* Whole packets and frames.                                               *)
(***************************************************************************)
HeaderField(c, its) == [kind |-> "header", codec |-> c, count |-> Len(its), w |-> 2]
TailField(its)      == [kind |-> "tail", n |-> Len(its), w |-> 1]
CrcField            == [kind |-> "crc", matches |-> TRUE, w |-> 4]
PrefixField(n)      == [kind |-> "prefix", imei |-> n, w |-> 3 + n]
FrameField(length, w) ==
  [kind |-> "frame", zero |-> TRUE, length |-> length, whole |-> TRUE, w |-> w]

(* What comes after the first k items, and after the frame and its prefix. *)
Closing(its, tr) == <<TailField(its)>> \o IF tr = "tcp" THEN <<CrcField>> ELSE <<>>
LeftAfter(c, its, tr, k) == ItemsAfter(c, its, k) \o Closing(its, tr)
PacketFields(c, its, tr) == <<HeaderField(c, its)>> \o LeftAfter(c, its, tr, 0)

(* These are fields, and of so many bytes.                                 *)
LEMMA SingleFields ==
  ASSUME NEW c \in Codecs, NEW its, Len(its) \in Nat, NEW n \in Nat, NEW length \in Nat,
         NEW w \in Nat
  PROVE  /\ HeaderField(c, its) \in Put /\ HeaderField(c, its).w = 2
         /\ TailField(its) \in Put /\ TailField(its).w = 1
         /\ CrcField \in Put /\ CrcField.w = 4
         /\ PrefixField(n) \in Put /\ PrefixField(n).w = 3 + n
         /\ FrameField(length, w) \in Put
BY DEF HeaderField, TailField, CrcField, PrefixField, FrameField, Put

(* What closes a packet.                                                   *)
LEMMA ClosingBytes ==
  ASSUME NEW its, Len(its) \in Nat, NEW tr
  PROVE  /\ Closing(its, tr) \in Seq(Put)
         /\ BytesOf(Closing(its, tr)) = IF tr = "tcp" THEN 5 ELSE 1
<1> DEFINE t == TailField(its)
           e == IF tr = "tcp" THEN <<CrcField>> ELSE <<>>
<1>1. t \in Put /\ t.w = 1 /\ CrcField \in Put /\ CrcField.w = 4
  <2>1. "8" \in Codecs /\ 0 \in Nat
    BY DEF Codecs, DataCodecs
  <2> QED BY <2>1, SingleFields
<1>2. e \in Seq(Put) /\ BytesOf(e) = IF tr = "tcp" THEN 4 ELSE 0
  <2>1. /\ <<CrcField>> \in Seq(Put) /\ BytesOf(<<CrcField>>) = 4
        /\ <<>> \in Seq(Put) /\ BytesOf(<<>>) = 0
    BY <1>1, BytesFirst, BytesAppend
  <2> QED BY <2>1
<1> HIDE DEF t, e
<1>3. <<t>> \o e \in Seq(Put) /\ BytesOf(<<t>> \o e) = t.w + BytesOf(e)
  BY <1>1, <1>2, BytesFirst
<1>4. t.w + BytesOf(e) = IF tr = "tcp" THEN 5 ELSE 1
  BY <1>1, <1>2
<1> QED BY <1>3, <1>4 DEF Closing, t, e

(* All items take what is added up.                                        *)
LEMMA AllItemsBytes ==
  ASSUME NEW c, NEW its, IsPacket(c, its), NEW base \in Nat
  PROVE  /\ DataSize(c, its, 0) \in Nat
         /\ DataSize(c, its, base) = base + DataSize(c, its, 0)
         /\ BytesOf(ItemsAfter(c, its, 0)) = DataSize(c, its, 0)
<1> DEFINE s == [i \in DOMAIN its |-> ItemSize(c, its[i])]
           t == ItemFields(c, its, 0)
           b == [i \in DOMAIN t |-> BytesOf(t[i])]
<1>1. Len(its) \in Nat /\ DOMAIN its = 1..Len(its)
  BY DEF IsPacket
<1>2. \A i \in 1..Len(its) : /\ PutItem(c, its[i]) \in Seq(Put) /\ ItemSize(c, its[i]) \in Nat
                             /\ BytesOf(PutItem(c, its[i])) = ItemSize(c, its[i])
  BY ItemBytes
<1>3. s \in Seq(Nat)
  BY <1>1, <1>2
<1>4. t = [i \in 1..Len(its) |-> PutItem(c, its[i])]
  BY <1>1 DEF ItemFields
<1>5. t \in Seq(Seq(Put))
  BY <1>1, <1>2, <1>4
<1>6. b = s
  BY <1>1, <1>2, <1>4
<1>7. BytesOf(FlattenSeq(t)) = Add(0, b)
  <2> HIDE DEF t
  <2> QED BY <1>5, FlattenBytes
<1>8. Add(base, s) = base + Add(0, s) /\ Add(0, s) \in Nat
  <2> HIDE DEF s
  <2> QED BY <1>3, AddBase
<1> HIDE DEF t, b, s
<1>9. DataSize(c, its, base) = Add(base, s) /\ DataSize(c, its, 0) = Add(0, s)
  BY DEF DataSize, s
<1> QED BY <1>6, <1>7, <1>8, <1>9 DEF ItemsAfter, t

(* What comes behind the frame's header takes what is added up.            *)
LEMMA PacketBytes ==
  ASSUME NEW c, NEW its, IsPacket(c, its), NEW tr
  PROVE  /\ LeftAfter(c, its, tr, 0) \in Seq(Put)
         /\ PacketFields(c, its, tr) \in Seq(Put)
         /\ BytesOf(PacketFields(c, its, tr))
              = DataSize(c, its, 3) + IF tr = "tcp" THEN 4 ELSE 0
<1> DEFINE i == ItemsAfter(c, its, 0)
           k == Closing(its, tr)
           h == HeaderField(c, its)
           l == LeftAfter(c, its, tr, 0)
           d == DataSize(c, its, 0)
           e == DataSize(c, its, 3)
<1>1. Len(its) \in Nat /\ c \in Codecs
  BY DEF IsPacket, Codecs
<1>2. i \in Seq(Put)
  BY <1>1, ItemsInOrder
<1>3. k \in Seq(Put) /\ BytesOf(k) = IF tr = "tcp" THEN 5 ELSE 1
  BY <1>1, ClosingBytes
<1>4. h \in Put /\ h.w = 2
  BY <1>1, SingleFields
<1>5. BytesOf(i) = d /\ d \in Nat /\ e = 3 + d
  BY AllItemsBytes
<1>6. l = i \o k
  BY DEF LeftAfter
<1> HIDE DEF i, k, h, l, d, e
<1>7. l \in Seq(Put) /\ BytesOf(l) = BytesOf(i) + BytesOf(k)
  BY <1>2, <1>3, <1>6, BytesConcat
<1>8. <<h>> \o l \in Seq(Put) /\ BytesOf(<<h>> \o l) = h.w + BytesOf(l)
  BY <1>4, <1>7, BytesFirst
<1>9. h.w + BytesOf(l) = e + IF tr = "tcp" THEN 4 ELSE 0
  BY <1>3, <1>4, <1>5, <1>7
<1> QED BY <1>7, <1>8, <1>9 DEF PacketFields, h, l, e

(* PutPacket, with what closes the frame, is that.                         *)
LEMMA PacketIsFields ==
  ASSUME NEW c, NEW its, IsPacket(c, its)
  PROVE  /\ PutPacket(c, its) \in Seq(Put)
         /\ PutPacket(c, its) = PacketFields(c, its, "udp")
         /\ PutPacket(c, its) \o <<CrcField>> = PacketFields(c, its, "tcp")
<1> DEFINE h == <<HeaderField(c, its)>>
           i == ItemsAfter(c, its, 0)
           t == <<TailField(its)>>
           z == <<CrcField>>
           p == PutPacket(c, its)
<1>1. Len(its) \in Nat /\ c \in Codecs
  BY DEF IsPacket, Codecs
<1>2. ItemFields(c, its, 0) = [j \in 1..Len(its) |-> PutItem(c, its[j])]
  BY <1>1 DEF ItemFields
<1>3. p = (h \o i) \o t
  BY <1>2 DEF PutPacket, HeaderField, TailField, ItemsAfter
<1>4. i \in Seq(Put)
  BY <1>1, ItemsInOrder
<1>5. h \in Seq(Put) /\ t \in Seq(Put) /\ z \in Seq(Put)
  <2>1. 0 \in Nat
    OBVIOUS
  <2>2. HeaderField(c, its) \in Put /\ TailField(its) \in Put /\ CrcField \in Put
    BY <1>1, <2>1, SingleFields
  <2> QED BY <2>2
<1>6. t \o <<>> = t
  BY <1>5, ConcatEmptySeq
<1>7. /\ PacketFields(c, its, "udp") = h \o (i \o (t \o <<>>))
      /\ PacketFields(c, its, "tcp") = h \o (i \o (t \o z))
  BY DEF PacketFields, LeftAfter, Closing
<1> HIDE DEF h, i, t, z, p
<1>8. /\ p = Cat(Cat(h, i), t)
      /\ PacketFields(c, its, "udp") = Cat(h, Cat(i, t))
      /\ PacketFields(c, its, "tcp") = Cat(h, Cat(i, Cat(t, z)))
  BY <1>3, <1>6, <1>7 DEF Cat
<1>9. Cat(h, i) \in Seq(Put) /\ Cat(i, t) \in Seq(Put) /\ Cat(Cat(h, i), t) \in Seq(Put)
  BY <1>4, <1>5, CatAssociative
<1>10. Cat(Cat(h, i), t) = Cat(h, Cat(i, t))
  BY <1>4, <1>5, CatAssociative
<1>11. Cat(Cat(Cat(h, i), t), z) = Cat(h, Cat(i, Cat(t, z)))
  <2>1. Cat(Cat(Cat(h, i), t), z) = Cat(Cat(h, i), Cat(t, z)) /\ Cat(t, z) \in Seq(Put)
    BY <1>4, <1>5, <1>9, CatAssociative
  <2>2. Cat(Cat(h, i), Cat(t, z)) = Cat(h, Cat(i, Cat(t, z)))
    BY <1>4, <1>5, <2>1, CatAssociative
  <2> QED BY <2>1, <2>2
<1>12. p \in Seq(Put) /\ p = PacketFields(c, its, "udp")
  BY <1>8, <1>9, <1>10
<1>13. Cat(p, z) = PacketFields(c, its, "tcp")
  BY <1>8, <1>11
<1> QED BY <1>12, <1>13 DEF Cat, p, z

(* Two fields are one and the other.                                       *)
LEMMA TwoConcat ==
  ASSUME NEW S, NEW a \in S, NEW b \in S
  PROVE  <<a>> \o <<b>> = <<a, b>>
<1>1. /\ <<a>> \in Seq(S) /\ <<b>> \in Seq(S) /\ <<a, b>> \in Seq(S)
      /\ Len(<<a>>) = 1 /\ Len(<<b>>) = 1 /\ Len(<<a, b>>) = 2
  OBVIOUS
<1>2. /\ <<a>> \o <<b>> \in Seq(S) /\ Len(<<a>> \o <<b>>) = 2
      /\ \A i \in 1..2 : (<<a>> \o <<b>>)[i] = IF i <= 1 THEN <<a>>[i] ELSE <<b>>[i - 1]
  BY <1>1, ConcatProperties
<1>3. \A i \in 1..2 : (<<a>> \o <<b>>)[i] = <<a, b>>[i]
  BY <1>2
<1> QED BY <1>1, <1>2, <1>3, SeqEqual

(* The frames as the decoder takes them apart: a header whose length is    *)
(* that of what follows.                                                   *)
LEMMA FramesAre ==
  ASSUME NEW c, NEW its, IsPacket(c, its), NEW n \in Nat
  PROVE  /\ EncodeTCP(c, its) = <<FrameField(DataSize(c, its, 3), 8)>>
                                  \o PacketFields(c, its, "tcp")
         /\ EncodeTCP(c, its) \in Seq(Put)
         /\ DataSize(c, its, 3) \in Nat
         /\ BytesOf(PacketFields(c, its, "tcp")) = DataSize(c, its, 3) + 4
         /\ EncodeUDP(c, its, n) = <<FrameField(UDPSize(c, its, n) - 2, 5)>>
                                  \o (<<PrefixField(n)>> \o PacketFields(c, its, "udp"))
         /\ EncodeUDP(c, its, n) \in Seq(Put)
         /\ <<PrefixField(n)>> \o PacketFields(c, its, "udp") \in Seq(Put)
         /\ UDPSize(c, its, n) \in Nat
         /\ UDPSize(c, its, n) - 2 \in Nat /\ UDPSize(c, its, n) - 2 >= 3
         /\ BytesOf(<<PrefixField(n)>> \o PacketFields(c, its, "udp"))
              = UDPSize(c, its, n) - 2 - 3
<1> DEFINE d == DataSize(c, its, 3)
           u == UDPSize(c, its, n)
           f == FrameField(d, 8)
           g == FrameField(u - 2, 5)
           x == PrefixField(n)
           p == PutPacket(c, its)
           pt == PacketFields(c, its, "tcp")
           pu == PacketFields(c, its, "udp")
           z == <<CrcField>>
<1>1. Len(its) \in Nat /\ c \in Codecs /\ n \in Nat
  BY DEF IsPacket, Codecs
<1>2. d \in Nat /\ u = d + (8 + n)
  <2>1. DataSize(c, its, 0) \in Nat /\ DataSize(c, its, 3) = 3 + DataSize(c, its, 0)
    BY AllItemsBytes
  <2>2. 11 + n \in Nat
    BY <1>1
  <2> DEFINE e == 11 + n
  <2>3. UDPSize(c, its, n) = DataSize(c, its, e)
    BY DEF UDPSize
  <2> HIDE DEF e
  <2>4. DataSize(c, its, e) = e + DataSize(c, its, 0)
    BY <2>2, AllItemsBytes DEF e
  <2> QED BY <1>1, <2>1, <2>3, <2>4 DEF e
<1>3. u \in Nat /\ u - 2 \in Nat /\ u - 2 >= 3
  BY <1>1, <1>2
<1>4. f \in Put /\ g \in Put /\ x \in Put /\ x.w = 3 + n /\ z \in Seq(Put)
  <2>1. 8 \in Nat /\ 5 \in Nat
    OBVIOUS
  <2> HIDE DEF d, u
  <2>2. f \in Put /\ g \in Put /\ x \in Put /\ x.w = 3 + n /\ CrcField \in Put
    BY <1>1, <1>2, <1>3, <2>1, SingleFields
  <2> QED BY <2>2
<1>5. /\ pt \in Seq(Put) /\ pu \in Seq(Put)
      /\ BytesOf(pt) = d + 4 /\ BytesOf(pu) = d + 0
  <2>1. \A tr \in {"tcp", "udp"} :
          /\ PacketFields(c, its, tr) \in Seq(Put)
          /\ BytesOf(PacketFields(c, its, tr)) = d + IF tr = "tcp" THEN 4 ELSE 0
    BY PacketBytes
  <2> HIDE DEF d
  <2> QED BY <2>1
<1>6. p \in Seq(Put) /\ p = pu /\ p \o z = pt
  BY PacketIsFields
<1>7. EncodeTCP(c, its) = (<<f>> \o p) \o z
  BY DEF EncodeTCP, FrameField, CrcField
<1>8. EncodeUDP(c, its, n) = <<g, x>> \o p
  BY DEF EncodeUDP, FrameField, PrefixField
<1> HIDE DEF d, u, f, g, x, p, pt, pu, z
<1>9. <<f>> \in Seq(Put) /\ (<<f>> \o p) \o z = <<f>> \o pt /\ <<f>> \o pt \in Seq(Put)
  <2> DEFINE s == <<f>>
  <2>1. s \in Seq(Put)
    BY <1>4
  <2> HIDE DEF s
  <2>2. Cat(Cat(s, p), z) = Cat(s, Cat(p, z)) /\ Cat(s, pt) \in Seq(Put)
    BY <1>4, <1>5, <1>6, <2>1, CatAssociative
  <2>3. (s \o p) \o z = s \o (p \o z)
    BY <2>2 DEF Cat
  <2>4. s \o pt \in Seq(Put)
    BY <2>2 DEF Cat
  <2> QED BY <1>6, <2>1, <2>3, <2>4 DEF s
<1>10. <<x>> \o pu \in Seq(Put) /\ BytesOf(<<x>> \o pu) = x.w + BytesOf(pu)
  BY <1>4, <1>5, BytesFirst
<1>11. <<g, x>> \o p = <<g>> \o (<<x>> \o pu) /\ <<g>> \o (<<x>> \o pu) \in Seq(Put)
  <2> DEFINE s == <<g>>
             r == <<x>>
  <2>1. s \in Seq(Put) /\ r \in Seq(Put) /\ <<g, x>> = s \o r
    <3>1. s \in Seq(Put)
      BY <1>4
    <3>2. r \in Seq(Put)
      BY <1>4
    <3>3. <<g, x>> = s \o r
      BY <1>4, TwoConcat
    <3> QED BY <3>1, <3>2, <3>3
  <2> HIDE DEF s, r
  <2>2. Cat(Cat(s, r), p) = Cat(s, Cat(r, p)) /\ Cat(s, Cat(r, p)) \in Seq(Put)
    BY <1>6, <2>1, CatAssociative
  <2>3. (s \o r) \o p = s \o (r \o p) /\ s \o (r \o p) \in Seq(Put)
    BY <2>2 DEF Cat
  <2> QED BY <1>6, <2>1, <2>3 DEF s, r
<1>12. BytesOf(<<x>> \o pu) = u - 2 - 3
  BY <1>1, <1>2, <1>4, <1>5, <1>10
<1>13. BytesOf(pt) = d + 4
  BY <1>5
<1>14. EncodeTCP(c, its) = <<f>> \o pt /\ EncodeTCP(c, its) \in Seq(Put)
  BY <1>7, <1>9
<1>15. EncodeUDP(c, its, n) = <<g>> \o (<<x>> \o pu) /\ EncodeUDP(c, its, n) \in Seq(Put)
  BY <1>8, <1>11
<1> QED BY <1>2, <1>3, <1>10, <1>12, <1>13, <1>14, <1>15 DEF d, u, f, g, x, pt, pu

-----------------------------------------------------------------------------
(***************************************************************************)
(* The elements of a record in the order of their groups.                  *)
(***************************************************************************)
Grouped5(s) == InGroup(s, 5)
Grouped4(s) == InGroup(s, 4) \o Grouped5(s)
Grouped3(s) == InGroup(s, 3) \o Grouped4(s)
Grouped2(s) == InGroup(s, 2) \o Grouped3(s)
Grouped(s)  == InGroup(s, 1) \o Grouped2(s)

GroupedFrom(s, g) ==
  CASE g = 1 -> Grouped(s)
    [] g = 2 -> Grouped2(s)
    [] g = 3 -> Grouped3(s)
    [] g = 4 -> Grouped4(s)
    [] g = 5 -> Grouped5(s)
    [] g = 6 -> <<>>

(* How many elements are in the groups before g.                           *)
Size(s, g) == Len(InGroup(s, g))

Before(s, g) ==
  CASE g = 1 -> 0
    [] g = 2 -> Size(s, 1)
    [] g = 3 -> Size(s, 1) + Size(s, 2)
    [] g = 4 -> Size(s, 1) + Size(s, 2) + Size(s, 3)
    [] g = 5 -> Size(s, 1) + Size(s, 2) + Size(s, 3) + Size(s, 4)
    [] g = 6 -> Size(s, 1) + Size(s, 2) + Size(s, 3) + Size(s, 4) + Size(s, 5)

(* Every group is a sequence of elements.                                  *)
LEMMA GroupIsSeq ==
  ASSUME NEW s \in Seq(Elem), NEW g
  PROVE  InGroup(s, g) \in Seq(Elem) /\ Size(s, g) \in Nat
<1>1. InGroup(s, g) \in Seq(Elem)
  BY ChosenAppend DEF InGroup
<1> DEFINE u == InGroup(s, g)
<1> HIDE DEF u
<1>2. u \in Seq(Elem) => Len(u) \in Nat
  OBVIOUS
<1> QED BY <1>1, <1>2 DEF u, Size

(* The groups from g on begin with group g.                                *)
LEMMA GroupedInOrder ==
  ASSUME NEW s \in Seq(Elem)
  PROVE  /\ \A g \in 1..6 : GroupedFrom(s, g) \in Seq(Elem)
         /\ \A g \in 1..5 : GroupedFrom(s, g) = InGroup(s, g) \o GroupedFrom(s, g + 1)
         /\ \A g \in 1..6 : Before(s, g) \in Nat
         /\ \A g \in 1..5 : Before(s, g + 1) = Before(s, g) + Size(s, g)
         /\ Before(s, 6) = GroupsLength(s)
<1>1. ASSUME NEW g \in 1..5 PROVE InGroup(s, g) \in Seq(Elem) /\ Size(s, g) \in Nat
  BY GroupIsSeq
<1> DEFINE a == InGroup(s, 1)
           b == InGroup(s, 2)
           c == InGroup(s, 3)
           d == InGroup(s, 4)
           e == InGroup(s, 5)
<1>2. a \in Seq(Elem) /\ b \in Seq(Elem) /\ c \in Seq(Elem) /\ d \in Seq(Elem) /\ e \in Seq(Elem)
  BY <1>1
<1>3. /\ Grouped5(s) = e /\ Grouped4(s) = Cat(d, Grouped5(s))
      /\ Grouped3(s) = Cat(c, Grouped4(s)) /\ Grouped2(s) = Cat(b, Grouped3(s))
      /\ Grouped(s) = Cat(a, Grouped2(s))
  BY DEF Grouped5, Grouped4, Grouped3, Grouped2, Grouped, Cat
<1> HIDE DEF a, b, c, d, e
<1>4. /\ Grouped5(s) \in Seq(Elem) /\ Grouped4(s) \in Seq(Elem) /\ Grouped3(s) \in Seq(Elem)
      /\ Grouped2(s) \in Seq(Elem) /\ Grouped(s) \in Seq(Elem)
  BY <1>2, <1>3, CatAssociative
<1>5. \A g \in 1..6 : g = 1 \/ g = 2 \/ g = 3 \/ g = 4 \/ g = 5 \/ g = 6
  OBVIOUS
<1>6. /\ GroupedFrom(s, 1) = Grouped(s) /\ GroupedFrom(s, 2) = Grouped2(s)
      /\ GroupedFrom(s, 3) = Grouped3(s) /\ GroupedFrom(s, 4) = Grouped4(s)
      /\ GroupedFrom(s, 5) = Grouped5(s) /\ GroupedFrom(s, 6) = <<>>
  BY DEF GroupedFrom
<1>7. \A g \in 1..6 : GroupedFrom(s, g) \in Seq(Elem)
  <2>1. <<>> \in Seq(Elem)
    OBVIOUS
  <2> QED BY <1>4, <1>5, <1>6, <2>1
<1>8. ASSUME NEW g \in 1..5
      PROVE  GroupedFrom(s, g) = InGroup(s, g) \o GroupedFrom(s, g + 1)
  <2>1. g = 1 \/ g = 2 \/ g = 3 \/ g = 4 \/ g = 5
    OBVIOUS
  <2>2. CASE g = 5
    <3>1. Cat(e, <<>>) = e
      BY <1>2, ConcatEmptySeq DEF Cat
    <3>2. g + 1 = 6 /\ InGroup(s, g) = e
      BY <2>2 DEF e
    <3>3. GroupedFrom(s, g) = Cat(InGroup(s, g), GroupedFrom(s, g + 1))
      BY <1>3, <1>6, <2>2, <3>1, <3>2
    <3> QED BY <3>3 DEF Cat
  <2>3. CASE g # 5
    <3>1. GroupedFrom(s, g) = Cat(InGroup(s, g), GroupedFrom(s, g + 1))
      BY <1>3, <1>6, <2>1, <2>3 DEF a, b, c, d
    <3> QED BY <3>1 DEF Cat
  <2> QED BY <2>2, <2>3
<1>9. /\ Size(s, 1) \in Nat /\ Size(s, 2) \in Nat /\ Size(s, 3) \in Nat /\ Size(s, 4) \in Nat
      /\ Size(s, 5) \in Nat
  BY <1>1
<1>10. /\ Before(s, 1) = 0 /\ Before(s, 2) = Size(s, 1)
       /\ Before(s, 3) = Size(s, 1) + Size(s, 2)
       /\ Before(s, 4) = Size(s, 1) + Size(s, 2) + Size(s, 3)
       /\ Before(s, 5) = Size(s, 1) + Size(s, 2) + Size(s, 3) + Size(s, 4)
       /\ Before(s, 6) = Size(s, 1) + Size(s, 2) + Size(s, 3) + Size(s, 4) + Size(s, 5)
  BY DEF Before
<1>11. \A g \in 1..6 : Before(s, g) \in Nat
  BY <1>5, <1>9, <1>10, SMTT(30)
<1>12. ASSUME NEW g \in 1..5 PROVE Before(s, g + 1) = Before(s, g) + Size(s, g)
  <2>1. g = 1 \/ g = 2 \/ g = 3 \/ g = 4 \/ g = 5
    OBVIOUS
  <2> QED BY <1>9, <1>10, <2>1, SMTT(30)
<1>13. Before(s, 6) = GroupsLength(s)
  BY <1>10 DEF GroupsLength, Size
<1> QED BY <1>7, <1>8, <1>11, <1>12, <1>13

(* An element of a group stands behind all groups before it.               *)
LEMMA GroupedAt ==
  ASSUME NEW s \in Seq(Elem)
  PROVE  /\ Grouped(s) \in Seq(Elem) /\ Len(Grouped(s)) = GroupsLength(s)
         /\ \A g \in 1..5 : \A m \in 1..Size(s, g) :
              Grouped(s)[Before(s, g) + m] = InGroup(s, g)[m]
<1> DEFINE Y(g) == GroupedFrom(s, g)
           B(g) == Before(s, g)
           Follows(g) == /\ B(g) + Len(Y(g)) = Len(Grouped(s))
                      /\ \A i \in 1..Len(Y(g)) : Grouped(s)[B(g) + i] = Y(g)[i]
           T == {k \in 0..5 : Follows(k + 1)}
<1>0. /\ Y(1) = Grouped(s) /\ B(1) = 0 /\ Y(6) = <<>> /\ Grouped(s) \in Seq(Elem)
      /\ Len(Grouped(s)) \in Nat
  <2>1. Y(1) = Grouped(s) /\ B(1) = 0 /\ Y(6) = <<>>
    BY DEF GroupedFrom, Before
  <2>2. Grouped(s) \in Seq(Elem)
    BY <2>1, GroupedInOrder
  <2> DEFINE u == Grouped(s)
  <2> HIDE DEF u
  <2>3. u \in Seq(Elem) => Len(u) \in Nat
    OBVIOUS
  <2> QED BY <2>1, <2>2, <2>3 DEF u
<1>1. 0 \in T
  <2>1. Follows(1)
    BY <1>0
  <2> QED BY <2>1
<1>2. ASSUME NEW k \in 1..5, k - 1 \in T PROVE k \in T
  <2> DEFINE x == InGroup(s, k)
             y == Y(k)
             z == Y(k + 1)
             b == B(k)
             d == B(k + 1)
             w == Grouped(s)
  <2>1. k \in 1..6 /\ k + 1 \in 1..6 /\ (k - 1) + 1 = k /\ k \in 0..5
    OBVIOUS
  <2>2. Follows(k)
    BY <1>2, <2>1
  <2>3. /\ x \in Seq(Elem) /\ z \in Seq(Elem) /\ y = x \o z
        /\ b \in Nat /\ d = b + Len(x)
    BY <2>1, GroupIsSeq, GroupedInOrder DEF Size
  <2>4. b + Len(y) = Len(w) /\ \A i \in 1..Len(y) : w[b + i] = y[i]
    BY <2>2
  <2> HIDE DEF x, y, z, b, d, w, T, Follows
  <2>5. Len(x) \in Nat /\ Len(z) \in Nat /\ Len(y) = Len(x) + Len(z)
    BY <2>3, ConcatProperties
  <2>6. ASSUME NEW i \in 1..Len(z) PROVE w[d + i] = z[i]
    <3>1. Len(x) + i \in 1..Len(y) /\ i \in Nat \ {0} /\ i <= Len(z)
      BY <2>5
    <3>2. y[Len(x) + i] = z[i]
      BY <2>3, <3>1, InConcat
    <3>3. d + i = b + (Len(x) + i)
      BY <2>3, <2>5
    <3> QED BY <2>4, <3>1, <3>2, <3>3
  <2>7. d + Len(z) = Len(w)
    BY <2>3, <2>4, <2>5
  <2>8. Follows(k + 1)
    BY <2>6, <2>7 DEF Follows, d, z, w
  <2> QED BY <2>1, <2>8 DEF T
<1>3. 0..5 \subseteq T
  <2> HIDE DEF T
  <2> QED BY <1>1, <1>2, UpTo
<1>4. ASSUME NEW g \in 1..6 PROVE Follows(g)
  <2>1. g - 1 \in T /\ (g - 1) + 1 = g
    <3> HIDE DEF T
    <3>1. g - 1 \in 0..5 /\ (g - 1) + 1 = g
      OBVIOUS
    <3> QED BY <1>3, <3>1
  <2> HIDE DEF Follows
  <2> QED BY <2>1
<1>5. Len(Grouped(s)) = GroupsLength(s)
  <2>1. Follows(6) /\ B(6) = GroupsLength(s) /\ B(6) \in Nat
    <3>1. 6 \in 1..6
      OBVIOUS
    <3> HIDE DEF Follows
    <3> QED BY <1>4, <3>1, GroupedInOrder
  <2>2. Len(Y(6)) = 0
    BY <1>0
  <2> QED BY <2>1, <2>2
<1>6. ASSUME NEW g \in 1..5, NEW m \in 1..Size(s, g)
      PROVE  Grouped(s)[Before(s, g) + m] = InGroup(s, g)[m]
  <2> DEFINE x == InGroup(s, g)
             y == Y(g)
             z == Y(g + 1)
  <2>1. g \in 1..6 /\ g + 1 \in 1..6
    OBVIOUS
  <2>2. /\ x \in Seq(Elem) /\ z \in Seq(Elem) /\ y = x \o z /\ Size(s, g) = Len(x)
    BY <2>1, GroupIsSeq, GroupedInOrder DEF Size
  <2>3. \A i \in 1..Len(y) : Grouped(s)[B(g) + i] = y[i]
    BY <1>4, <2>1
  <2> HIDE DEF x, y, z
  <2>4. Len(y) = Len(x) + Len(z) /\ Len(x) \in Nat /\ Len(z) \in Nat
    BY <2>2, ConcatProperties
  <2>5. m \in Nat \ {0} /\ m <= Len(x) /\ m \in 1..Len(y)
    BY <2>2, <2>4
  <2>6. y[m] = x[m]
    BY <2>2, <2>5, InConcat
  <2> QED BY <2>3, <2>5, <2>6 DEF x
<1> QED BY <1>0, <1>5, <1>6

(* The lengths of one group are not those of another.                      *)
LEMMA GroupsDiffer ==
  ASSUME NEW g \in 1..5, NEW h \in 1..5
  PROVE  /\ Lens(g) \subseteq Nat
         /\ g = h => Lens(h) \subseteq Lens(g)
         /\ g # h => Lens(h) \cap Lens(g) = {}
<1>1. Lens(g) \subseteq Nat
  <2>1. g = 1 \/ g = 2 \/ g = 3 \/ g = 4 \/ g = 5
    OBVIOUS
  <2> QED BY <2>1 DEF Lens
<1>2. ASSUME g # h, NEW n \in Lens(h) \cap Lens(g) PROVE FALSE
  <2>1. n \in Nat
    BY <1>1, <1>2
  <2> QED BY <1>2, <2>1, OneGroup
<1> QED BY <1>1, <1>2

(* Of the elements in order of their groups, each group has its own.       *)
LEMMA GroupedChosen ==
  ASSUME NEW s \in Seq(Elem), NEW g \in 1..5
  PROVE  InGroup(Grouped(s), g) = InGroup(s, g)
<1> DEFINE L == Lens(g)
           u == InGroup(s, g)
           Y(h) == GroupedFrom(s, h)
           Holds(h) == Chosen(Y(h), L) = IF h <= g THEN u ELSE <<>>
           T == {k \in 0..5 : Holds(6 - k)}
<1>0. u \in Seq(Elem)
  BY GroupIsSeq
<1>1. 0 \in T
  <2>1. Y(6) = <<>> /\ 6 - 0 = 6 /\ ~(6 <= g)
    BY DEF GroupedFrom
  <2>2. Chosen(<<>>, L) = <<>>
    BY ChosenAppend
  <2> QED BY <2>1, <2>2
<1>2. ASSUME NEW k \in 1..5, k - 1 \in T PROVE k \in T
  <2> DEFINE h == 6 - k
             x == InGroup(s, h)
             z == Y(h + 1)
             d == Chosen(z, L)
  <2>1. h \in 1..5 /\ h + 1 \in 1..6 /\ 6 - (k - 1) = h + 1 /\ k \in 0..5
    OBVIOUS
  <2>2. d = IF h + 1 <= g THEN u ELSE <<>>
    BY <1>2, <2>1
  <2> HIDE DEF h
  <2>3. x \in Seq(Elem) /\ z \in Seq(Elem) /\ Y(h) = x \o z
    BY <2>1, GroupIsSeq, GroupedInOrder
  <2>4. Chosen(x \o z, L) = Chosen(x, L) \o d
    <3> HIDE DEF x, z, L
    <3> QED BY <2>3, ChosenConcat
  <2>5. Chosen(x, L) = IF h = g THEN u ELSE <<>>
    <3>1. \A i \in 1..Len(x) : x[i].len \in Lens(h)
      BY ChosenHave DEF InGroup
    <3>2. /\ g = h => Lens(h) \subseteq L
          /\ g # h => Lens(h) \cap L = {}
      BY <2>1, GroupsDiffer
    <3> DEFINE M == Lens(h)
    <3> HIDE DEF x, L, M
    <3>3. /\ M \subseteq L => Chosen(x, L) = x
          /\ M \cap L = {} => Chosen(x, L) = <<>>
      <4>1. \A i \in 1..Len(x) : x[i].len \in M
        BY <3>1 DEF M
      <4> QED BY <2>3, <4>1, ChosenAgain
    <3> QED BY <3>2, <3>3 DEF M, x
  <2> HIDE DEF x, z, d, u, L
  <2>6. u \o <<>> = u /\ <<>> \o u = u /\ <<>> \o <<>> = <<>>
    <3>1. <<>> \in Seq(Elem)
      OBVIOUS
    <3> QED BY <1>0, <3>1, ConcatEmptySeq
  <2>7. Chosen(Y(h), L) = IF h <= g THEN u ELSE <<>>
    <3>1. Chosen(Y(h), L) = Chosen(x, L) \o d
      BY <2>3, <2>4
    <3>2. CASE h < g
      <4>1. h + 1 <= g /\ h # g /\ h <= g
        BY <2>1, <3>2
      <4>2. Chosen(x, L) = <<>> /\ d = u
        BY <2>2, <2>5, <4>1
      <4> QED BY <2>6, <3>1, <4>1, <4>2
    <3>3. CASE h = g
      <4>1. ~(h + 1 <= g) /\ h <= g
        BY <2>1, <3>3
      <4>2. Chosen(x, L) = u /\ d = <<>>
        BY <2>2, <2>5, <3>3, <4>1
      <4> QED BY <2>6, <3>1, <4>1, <4>2
    <3>4. CASE h > g
      <4>1. ~(h + 1 <= g) /\ h # g /\ ~(h <= g)
        BY <2>1, <3>4
      <4>2. Chosen(x, L) = <<>> /\ d = <<>>
        BY <2>2, <2>5, <4>1
      <4> QED BY <2>6, <3>1, <4>1, <4>2
    <3> QED BY <2>1, <3>2, <3>3, <3>4
  <2> QED BY <2>1, <2>7 DEF h, u, L
<1>3. 0..5 \subseteq T
  <2> HIDE DEF T
  <2> QED BY <1>1, <1>2, UpTo
<1>4. Holds(1)
  <2>1. 5 \in T /\ 6 - 5 = 1
    <3> HIDE DEF T
    <3> QED BY <1>3
  <2> HIDE DEF Holds
  <2> QED BY <2>1
<1>5. Y(1) = Grouped(s) /\ 1 <= g
  BY DEF GroupedFrom
<1> QED BY <1>4, <1>5 DEF InGroup

ClassOf(g) == IF g = 1 THEN 1 ELSE IF g = 2 THEN 2 ELSE IF g = 3 THEN 4
              ELSE IF g = 4 THEN 8 ELSE 9

(* Every element stands in its group.                                      *)
LEMMA GroupedClass ==
  ASSUME NEW s \in Seq(Elem), NEW i \in 1..Len(Grouped(s))
  PROVE  \E g \in 1..5 : /\ Before(s, g) < i /\ i <= Before(s, g + 1)
                         /\ Class(Grouped(s)[i]) = ClassOf(g)
<1> DEFINE B(g) == Before(s, g)
<1>0. i \in Nat
  OBVIOUS
<1>1. /\ \A g \in 1..6 : B(g) \in Nat
      /\ \A g \in 1..5 : B(g + 1) = B(g) + Size(s, g)
      /\ B(1) = 0 /\ B(6) = Len(Grouped(s))
  BY GroupedInOrder, GroupedAt DEF Before
<1>2. i <= B(6) /\ i > 0
  BY <1>0, <1>1
<1>3. \E g \in 1..5 : B(g) < i /\ i <= B(g + 1)
  <2>1. /\ B(1) \in Nat /\ B(2) \in Nat /\ B(3) \in Nat /\ B(4) \in Nat /\ B(5) \in Nat
        /\ B(6) \in Nat
    BY <1>1
  <2>2. /\ 1 \in 1..5 /\ 1 + 1 = 2 /\ 2 \in 1..5 /\ 2 + 1 = 3 /\ 3 \in 1..5 /\ 3 + 1 = 4
        /\ 4 \in 1..5 /\ 4 + 1 = 5 /\ 5 \in 1..5 /\ 5 + 1 = 6
    OBVIOUS
  <2>3. \/ B(1) < i /\ i <= B(2)
        \/ B(2) < i /\ i <= B(3)
        \/ B(3) < i /\ i <= B(4)
        \/ B(4) < i /\ i <= B(5)
        \/ B(5) < i /\ i <= B(6)
    BY <1>0, <1>1, <1>2, <2>1
  <2> QED BY <2>2, <2>3
<1>4. PICK g \in 1..5 : B(g) < i /\ i <= B(g + 1)
  BY <1>3
<1> DEFINE m == i - B(g)
           e == InGroup(s, g)[m]
<1>5. m \in 1..Size(s, g) /\ B(g) + m = i
  <2>1. Size(s, g) \in Nat
    BY GroupIsSeq
  <2>2. B(g) \in Nat /\ B(g + 1) = B(g) + Size(s, g)
    BY <1>1
  <2> QED BY <1>0, <1>4, <2>1, <2>2
<1>6. Grouped(s)[i] = e
  <2> HIDE DEF m
  <2> QED BY <1>5, GroupedAt
<1>7. e.len \in Lens(g)
  <2> HIDE DEF m
  <2>1. \A j \in 1..Len(InGroup(s, g)) : InGroup(s, g)[j].len \in Lens(g)
    BY ChosenHave DEF InGroup
  <2> QED BY <1>5, <2>1 DEF Size
<1> HIDE DEF e
<1>8. Class(e) = ClassOf(g)
  <2>1. g = 1 \/ g = 2 \/ g = 3 \/ g = 4 \/ g = 5
    OBVIOUS
  <2> QED BY <1>7, <2>1 DEF Class, ClassOf, Lens, FixedWidths
<1> QED BY <1>4, <1>6, <1>8

(* All of them are there, and they stand in the order of their groups.     *)
LEMMA GroupedIsRearranged ==
  ASSUME NEW c \in DataCodecs, NEW s \in Seq(Elem), ElementsOK(c, s)
  PROVE  Rearranged(s, Grouped(s))
<1> DEFINE t == Grouped(s)
           B(g) == Before(s, g)
<1>1. Len(t) = Len(s)
  <2>1. 0 \in Nat
    OBVIOUS
  <2> QED BY <2>1, GroupedAt, ElementsAddUp
<1>2. ASSUME NEW i \in 1..Len(t), NEW j \in 1..Len(t), i < j
      PROVE  Class(t[i]) <= Class(t[j])
  <2>1. PICK g \in 1..5 : B(g) < i /\ i <= B(g + 1) /\ Class(t[i]) = ClassOf(g)
    BY GroupedClass
  <2>2. PICK h \in 1..5 : B(h) < j /\ j <= B(h + 1) /\ Class(t[j]) = ClassOf(h)
    BY GroupedClass
  <2>3. g <= h
    <3> SUFFICES ASSUME h < g PROVE FALSE
      OBVIOUS
    <3>1. /\ B(1) \in Nat /\ B(2) \in Nat /\ B(3) \in Nat /\ B(4) \in Nat /\ B(5) \in Nat
          /\ B(6) \in Nat
      BY GroupedInOrder
    <3>2. \A k \in 1..5 : B(k) <= B(k + 1)
      <4> TAKE k \in 1..5
      <4>1. B(k) \in Nat /\ B(k + 1) = B(k) + Size(s, k) /\ Size(s, k) \in Nat
        BY GroupedInOrder, GroupIsSeq
      <4> QED BY <4>1
    <3>3. B(1) <= B(2) /\ B(2) <= B(3) /\ B(3) <= B(4) /\ B(4) <= B(5) /\ B(5) <= B(6)
      BY <3>2
    <3>4. B(h + 1) <= B(g)
      <4>1. /\ h = 1 \/ h = 2 \/ h = 3 \/ h = 4
            /\ g = 2 \/ g = 3 \/ g = 4 \/ g = 5
        OBVIOUS
      <4> HIDE DEF B
      <4> QED BY <3>1, <3>3, <4>1, SMTT(30)
    <3>5. B(h + 1) \in Nat /\ B(g) \in Nat /\ i \in Int /\ j \in Int
      <4>1. h + 1 \in 1..6 /\ g \in 1..6
        OBVIOUS
      <4>2. i \in Int /\ j \in Int
        OBVIOUS
      <4> HIDE DEF t
      <4> QED BY <4>1, <4>2, GroupedInOrder
    <3> HIDE DEF B, t
    <3> QED BY <1>2, <2>1, <2>2, <3>4, <3>5
  <2>4. ClassOf(g) <= ClassOf(h)
    BY <2>3 DEF ClassOf
  <2> QED BY <2>1, <2>2, <2>4
<1>3. /\ Chosen(t, Lens(1)) = Chosen(s, Lens(1)) /\ Chosen(t, Lens(2)) = Chosen(s, Lens(2))
      /\ Chosen(t, Lens(3)) = Chosen(s, Lens(3)) /\ Chosen(t, Lens(4)) = Chosen(s, Lens(4))
      /\ Chosen(t, Lens(5)) = Chosen(s, Lens(5))
  <2>1. \A g \in 1..5 : Chosen(t, Lens(g)) = Chosen(s, Lens(g))
    BY GroupedChosen DEF InGroup
  <2> HIDE DEF t
  <2> QED BY <2>1
<1>4. /\ Lens(1) = {1} /\ Lens(2) = {2} /\ Lens(3) = {4} /\ Lens(4) = {8}
      /\ Lens(5) = Nat \ FixedWidths
  BY DEF Lens
<1>5. \A k \in FixedWidths : Chosen(t, {k}) = Chosen(s, {k})
  <2> HIDE DEF t
  <2>1. /\ Chosen(t, {1}) = Chosen(s, {1}) /\ Chosen(t, {2}) = Chosen(s, {2})
        /\ Chosen(t, {4}) = Chosen(s, {4}) /\ Chosen(t, {8}) = Chosen(s, {8})
    BY <1>3, <1>4, Zenon
  <2> QED BY <2>1 DEF FixedWidths
<1>6. Chosen(t, Nat \ FixedWidths) = Chosen(s, Nat \ FixedWidths)
  <2> HIDE DEF t
  <2> QED BY <1>3, <1>4, Zenon
<1> QED BY <1>1, <1>2, <1>5, <1>6 DEF Rearranged

(* The buffer that is made for a frame is filled to its last byte and not  *)
(* beyond: dataSize+12 bytes for TCP, dataSize for UDP.                    *)
THEOREM BufferIsFilled ==
  ASSUME NEW c, NEW its, IsPacket(c, its), NEW n \in Nat
  PROVE  /\ BytesOf(EncodeTCP(c, its)) = DataSize(c, its, 3) + 12
         /\ BytesOf(EncodeUDP(c, its, n)) = UDPSize(c, its, n)
<1> DEFINE d == DataSize(c, its, 3)
           u == UDPSize(c, its, n)
           f == FrameField(d, 8)
           g == FrameField(u - 2, 5)
           p == PacketFields(c, its, "tcp")
           q == <<PrefixField(n)>> \o PacketFields(c, its, "udp")
<1>1. /\ EncodeTCP(c, its) = <<f>> \o p /\ EncodeUDP(c, its, n) = <<g>> \o q
      /\ d \in Nat /\ u \in Nat /\ u - 2 \in Nat /\ q \in Seq(Put)
      /\ BytesOf(p) = d + 4 /\ BytesOf(q) = u - 2 - 3
  BY FramesAre
<1>2. p \in Seq(Put)
  BY PacketBytes
<1>3. f \in Put /\ f.w = 8 /\ g \in Put /\ g.w = 5
  <2> HIDE DEF d, u
  <2> QED BY <1>1 DEF FrameField, Put
<1> HIDE DEF d, u, f, g, p, q
<1>4. /\ BytesOf(<<f>> \o p) = f.w + BytesOf(p)
      /\ BytesOf(<<g>> \o q) = g.w + BytesOf(q)
  BY <1>1, <1>2, <1>3, BytesFirst
<1>5. 8 + (d + 4) = d + 12 /\ 5 + (u - 2 - 3) = u
  BY <1>1
<1> QED BY <1>1, <1>3, <1>4, <1>5 DEF d, u
=============================================================================
