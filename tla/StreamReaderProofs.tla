------------------------- MODULE StreamReaderProofs -------------------------
(***************************************************************************)
(* Theorems about StreamReader, for conversations of any length, frames of *)
(* any size and every way to cut the stream into segments.                 *)
(***************************************************************************)
EXTENDS StreamReader, Induction, FiniteSetTheorems, SequenceTheorems, TLAPS

(***************************************************************************)
(* Where the units end.                                                    *)
(***************************************************************************)
(* Bytes of a unit.                                                        *)
SizeOf(k) == IF units[k] = "ping" THEN 1 ELSE HeaderSize + RestSize

(* Every unit has bytes.                                                   *)
LEMMA Sizes ==
  /\ ImeiSize \in Nat \ {0} /\ HeaderSize \in Nat \ {0} /\ RestSize \in Nat \ {0}
  /\ \A k : SizeOf(k) \in Nat \ {0}
BY StreamAssumption DEF SizeOf

(* A conversation is a sequence of units.                                  *)
LEMMA UnitsType ==
  ASSUME units \in Conversations
  PROVE  /\ units \in Seq(UnitKinds)
         /\ Len(units) \in Nat /\ DOMAIN units = 1..Len(units)
         /\ \A k \in 1..Len(units) : units[k] \in UnitKinds
BY StreamAssumption

PingsTo(k) == {i \in DOMAIN units : i <= k /\ units[i] = "ping"}

(* There are no more pings than units.                                     *)
LEMMA PingsAreCounted ==
  ASSUME units \in Conversations, NEW k \in 0..Len(units)
  PROVE  IsFiniteSet(PingsTo(k)) /\ Cardinality(PingsTo(k)) \in 0..k
<1>1. PingsTo(k) \in SUBSET (1..k)
  BY UnitsType DEF PingsTo
<1>2. IsFiniteSet(1..k) /\ Cardinality(1..k) = k
  BY UnitsType, FS_Interval
<1> QED BY <1>1, <1>2, FS_Subset, FS_CardinalityType

(* The first unit begins behind the length and the IMEI.                   *)
LEMMA EndOfGreeting ==
  ASSUME units \in Conversations
  PROVE  EndOf(0) = 2 + ImeiSize
<1>1. PingsTo(0) = {}
  BY UnitsType DEF PingsTo
<1>2. Cardinality(PingsTo(0)) = 0
  BY <1>1, FS_EmptySet
<1>3. (0 - 0) * (HeaderSize + RestSize) = 0
  BY Sizes
<1> QED BY <1>2, <1>3, Sizes DEF EndOf, PingsTo

(* What SMT does not find for products of two variables.                   *)
LEMMA OneMore == \A a, s \in Nat : (a + 1) * s = a * s + s
OBVIOUS

(* A unit ends its size behind the end of the one before it.               *)
LEMMA EndOfStep ==
  ASSUME units \in Conversations, NEW k \in 1..Len(units)
  PROVE  EndOf(k) = EndOf(k - 1) + SizeOf(k)
<1> DEFINE p == Cardinality(PingsTo(k - 1))
           q == Cardinality(PingsTo(k))
           s == HeaderSize + RestSize
<1>0. k \in Nat /\ k - 1 \in 0..Len(units) /\ k \in 0..Len(units)
  BY UnitsType
<1>1. IsFiniteSet(PingsTo(k - 1)) /\ p \in Nat /\ p <= k - 1 /\ s \in Nat
  BY <1>0, PingsAreCounted, Sizes
<1>2. k \notin PingsTo(k - 1)
  BY <1>0 DEF PingsTo
<1>3. EndOf(k) = 2 + ImeiSize + q + (k - q) * s
  BY DEF EndOf, PingsTo
<1>4. EndOf(k - 1) = 2 + ImeiSize + p + (k - 1 - p) * s
  BY DEF EndOf, PingsTo
<1>5. CASE units[k] = "ping"
  <2>1. PingsTo(k) = PingsTo(k - 1) \cup {k}
    BY <1>0, <1>5, UnitsType DEF PingsTo
  <2>2. q = p + 1
    BY <1>1, <1>2, <2>1, FS_AddElement
  <2>3. k - q = k - 1 - p
    BY <1>0, <1>1, <2>2
  <2>4. (k - q) * s \in Nat
    BY <1>0, <1>1, <2>3
  <2> HIDE DEF p, q, s
  <2> QED BY <1>1, <1>3, <1>4, <1>5, <2>2, <2>3, <2>4, Sizes DEF SizeOf
<1>6. CASE units[k] # "ping"
  <2>1. PingsTo(k) = PingsTo(k - 1)
    BY <1>0, <1>6, UnitsType DEF PingsTo
  <2>2. q = p
    BY <2>1
  <2> DEFINE a == k - 1 - p
  <2>3. a \in Nat /\ k - q = a + 1
    BY <1>0, <1>1, <2>2
  <2>4. (k - q) * s = a * s + s /\ a * s \in Nat
    BY <1>1, <2>3, OneMore
  <2>5. SizeOf(k) = s
    BY <1>6 DEF SizeOf
  <2> HIDE DEF p, q, s, a
  <2>6. EndOf(k - 1) = 2 + ImeiSize + p + a * s
    BY <1>4 DEF a
  <2> QED BY <1>1, <1>3, <2>2, <2>4, <2>5, <2>6, Sizes, SMTT(30)
<1> QED BY <1>5, <1>6

(* EndOf gives numbers.                                                    *)
LEMMA EndsAreNumbers ==
  ASSUME units \in Conversations
  PROVE  \A k \in 0..Len(units) : EndOf(k) \in Nat
<1> DEFINE S == {k \in Nat : EndOf(k) \in Nat}
<1>1. 0 \in S
  BY EndOfGreeting, Sizes
<1>2. ASSUME NEW k \in 1..Len(units), k - 1 \in S PROVE k \in S
  BY <1>2, EndOfStep, Sizes
<1> HIDE DEF S
<1>3. 0..Len(units) \subseteq S
  BY <1>1, <1>2, UnitsType, UpTo
<1> QED BY <1>3 DEF S

(* A later unit ends later.                                                *)
LEMMA EndsAreInOrder ==
  ASSUME units \in Conversations, NEW j \in 0..Len(units), NEW k \in 0..Len(units), j < k
  PROVE  EndOf(j) < EndOf(k)
<1> DEFINE S == {m \in Nat : j < m => EndOf(j) < EndOf(m)}
<1>1. 0 \in S
  BY UnitsType
<1>2. ASSUME NEW m \in 1..Len(units), m - 1 \in S PROVE m \in S
  <2>1. EndOf(m) = EndOf(m - 1) + SizeOf(m) /\ SizeOf(m) \in Nat \ {0}
    BY EndOfStep, Sizes
  <2>2. m \in Nat /\ m - 1 \in Nat /\ j \in Nat
    BY UnitsType
  <2>3. EndOf(j) \in Nat /\ EndOf(m - 1) \in Nat
    BY EndsAreNumbers, UnitsType
  <2>4. m - 1 = j \/ m - 1 > j \/ ~(j < m)
    BY <2>2
  <2> QED BY <1>2, <2>1, <2>2, <2>3, <2>4
<1> HIDE DEF S
<1>3. 0..Len(units) \subseteq S
  BY <1>1, <1>2, UnitsType, UpTo
<1> QED BY <1>3 DEF S

(* Unit m, with its bytes, lies between the greeting and the end of a      *)
(* later unit k.                                                           *)
LEMMA UnitPlace ==
  ASSUME units \in Conversations, NEW k \in 0..Len(units), NEW m \in 1..k
  PROVE  /\ m \in Nat /\ k \in Nat /\ m \in 1..Len(units)
         /\ EndOf(0) \in Nat /\ EndOf(m - 1) \in Nat /\ EndOf(m) \in Nat /\ EndOf(k) \in Nat
         /\ EndOf(0) <= EndOf(m - 1)
         /\ EndOf(m) = EndOf(m - 1) + SizeOf(m)
         /\ EndOf(m) <= EndOf(k)
         /\ SizeOf(m) \in Nat
<1>1. /\ m \in Nat /\ k \in Nat /\ m \in 1..Len(units)
      /\ 0 \in 0..Len(units) /\ m - 1 \in 0..Len(units) /\ m \in 0..Len(units)
  BY UnitsType
<1>2. /\ EndOf(0) \in Nat /\ EndOf(m - 1) \in Nat /\ EndOf(m) \in Nat /\ EndOf(k) \in Nat
  BY <1>1, EndsAreNumbers
<1>3. EndOf(0) <= EndOf(m - 1)
  <2>1. CASE m - 1 = 0
    BY <1>2, <2>1
  <2>2. CASE 0 < m - 1
    <3>1. EndOf(0) < EndOf(m - 1)
      BY <1>1, <2>2, EndsAreInOrder
    <3> QED BY <1>2, <3>1
  <2> QED BY <1>1, <2>1, <2>2
<1>4. EndOf(m) <= EndOf(k)
  <2>1. CASE m = k
    BY <1>2, <2>1
  <2>2. CASE m < k
    <3>1. EndOf(m) < EndOf(k)
      BY <1>1, <2>2, EndsAreInOrder
    <3> QED BY <1>2, <3>1
  <2> QED BY <1>1, <2>1, <2>2
<1>5. EndOf(m) = EndOf(m - 1) + SizeOf(m) /\ SizeOf(m) \in Nat
  BY <1>1, EndOfStep, Sizes
<1> QED BY <1>1, <1>2, <1>3, <1>4, <1>5

-----------------------------------------------------------------------------
(***************************************************************************)
(* Where the bytes of a unit are in the stream.                            *)
(***************************************************************************)
(* Byte i of a frame that is unit k.                                       *)
FrameByte(k, i) ==
  IF i <= HeaderSize THEN [unit |-> k, part |-> "header", nr |-> i]
  ELSE [unit |-> k, part |-> "rest", nr |-> i - HeaderSize]

(* What BytesOf gives.                                                     *)
LEMMA BytesType ==
  ASSUME NEW k \in Nat, NEW n \in Nat,
         NEW part \in {"length", "imei", "ping", "header", "rest", "none"}
  PROVE  /\ BytesOf(k, part, n) \in Seq(Byte)
         /\ Len(BytesOf(k, part, n)) = n
         /\ \A i \in 1..n : BytesOf(k, part, n)[i] = [unit |-> k, part |-> part, nr |-> i]
<1>1. \A i \in 1..n : [unit |-> k, part |-> part, nr |-> i] \in Byte
  BY DEF Byte
<1>2. BytesOf(k, part, n) \in [1..n -> Byte]
  BY <1>1 DEF BytesOf
<1> QED BY <1>2 DEF BytesOf

(* The bytes of a unit, one by one.                                        *)
LEMMA UnitLayout ==
  ASSUME NEW k \in Nat
  PROVE  /\ UnitBytes(k) \in Seq(Byte) /\ Len(UnitBytes(k)) = SizeOf(k)
         /\ \A i \in 1..SizeOf(k) :
              UnitBytes(k)[i] = IF units[k] = "ping" THEN [unit |-> k, part |-> "ping", nr |-> 1]
                                ELSE FrameByte(k, i)
<1>1. CASE units[k] = "ping"
  <2>1. UnitBytes(k) = BytesOf(k, "ping", 1) /\ SizeOf(k) = 1
    BY <1>1 DEF UnitBytes, SizeOf
  <2> DEFINE b == BytesOf(k, "ping", 1)
  <2>2. /\ b \in Seq(Byte) /\ Len(b) = 1
        /\ \A i \in 1..1 : b[i] = [unit |-> k, part |-> "ping", nr |-> i]
    <3>1. \A n \in Nat :
            /\ BytesOf(k, "ping", n) \in Seq(Byte) /\ Len(BytesOf(k, "ping", n)) = n
            /\ \A i \in 1..n :
                 BytesOf(k, "ping", n)[i] = [unit |-> k, part |-> "ping", nr |-> i]
      BY BytesType
    <3> QED BY <3>1
  <2> HIDE DEF b
  <2>3. UnitBytes(k) = b
    BY <2>1 DEF b
  <2> QED BY <1>1, <2>1, <2>2, <2>3
<1>2. CASE units[k] # "ping"
  <2> DEFINE h == BytesOf(k, "header", HeaderSize)
             r == BytesOf(k, "rest", RestSize)
  <2>1. UnitBytes(k) = h \o r /\ SizeOf(k) = HeaderSize + RestSize
    BY <1>2 DEF UnitBytes, SizeOf
  <2>2. /\ h \in Seq(Byte) /\ Len(h) = HeaderSize
        /\ \A i \in 1..HeaderSize : h[i] = [unit |-> k, part |-> "header", nr |-> i]
    BY BytesType, Sizes
  <2>3. /\ r \in Seq(Byte) /\ Len(r) = RestSize
        /\ \A i \in 1..RestSize : r[i] = [unit |-> k, part |-> "rest", nr |-> i]
    BY BytesType, Sizes
  <2> HIDE DEF h, r
  <2>4. h \o r \in Seq(Byte) /\ Len(h \o r) = HeaderSize + RestSize
    BY <2>2, <2>3, Sizes, ConcatProperties
  <2>5. ASSUME NEW i \in 1..(HeaderSize + RestSize) PROVE (h \o r)[i] = FrameByte(k, i)
    <3>1. CASE i <= HeaderSize
      <4>1. i \in 1..HeaderSize
        BY <3>1, Sizes
      <4>2. (h \o r)[i] = h[i]
        BY <2>2, <2>3, <4>1, Sizes, ConcatProperties
      <4> QED BY <2>2, <3>1, <4>1, <4>2 DEF FrameByte
    <3>2. CASE ~(i <= HeaderSize)
      <4>1. i - HeaderSize \in 1..RestSize
        BY <3>2, Sizes
      <4>2. (h \o r)[i] = r[i - HeaderSize]
        BY <2>2, <2>3, <3>2, <4>1, Sizes, ConcatProperties
      <4> QED BY <2>3, <3>2, <4>1, <4>2 DEF FrameByte
    <3> QED BY <3>1, <3>2
  <2> QED BY <1>2, <2>1, <2>4, <2>5
<1> QED BY <1>1, <1>2

(* The bytes of the first k units, one unit behind the other.              *)
IsLayout(bytes, k) ==
  /\ bytes \in Seq(Byte) /\ Len(bytes) = EndOf(k) - EndOf(0)
  /\ \A m \in 1..k : \A i \in 1..SizeOf(m) :
       bytes[EndOf(m - 1) - EndOf(0) + i] = UnitBytes(m)[i]

(* One unit more.                                                          *)
LEMMA LayoutStep ==
  ASSUME units \in Conversations, NEW k \in 1..Len(units), NEW bytes,
         IsLayout(bytes, k - 1)
  PROVE  IsLayout(bytes \o UnitBytes(k), k)
<1> DEFINE unit == UnitBytes(k)
<1>0. k \in Nat /\ k \in 0..Len(units) /\ k - 1 \in 0..Len(units) /\ k \in 1..k
  BY UnitsType
<1>1. /\ EndOf(k) = EndOf(k - 1) + SizeOf(k) /\ SizeOf(k) \in Nat
      /\ EndOf(k - 1) \in Nat /\ EndOf(0) \in Nat /\ EndOf(0) <= EndOf(k - 1)
  BY <1>0, UnitPlace
<1>2. /\ unit \in Seq(Byte) /\ Len(unit) = SizeOf(k)
  BY <1>0, UnitLayout
<1>3. /\ bytes \in Seq(Byte) /\ Len(bytes) = EndOf(k - 1) - EndOf(0)
  BY DEF IsLayout
<1> HIDE DEF unit
<1>4. /\ bytes \o unit \in Seq(Byte) /\ Len(bytes \o unit) = EndOf(k) - EndOf(0)
  <2>1. bytes \o unit \in Seq(Byte) /\ Len(bytes \o unit) = Len(bytes) + Len(unit)
    BY <1>2, <1>3, ConcatProperties
  <2> QED BY <1>1, <1>2, <1>3, <2>1
<1>5. ASSUME NEW m \in 1..k, NEW i \in 1..SizeOf(m)
      PROVE  (bytes \o unit)[EndOf(m - 1) - EndOf(0) + i] = UnitBytes(m)[i]
  <2>1. CASE m = k
    <3>1. i \in Nat \ {0} /\ i <= Len(unit)
      BY <1>1, <1>2, <2>1
    <3>2. (bytes \o unit)[Len(bytes) + i] = unit[i]
      BY <1>2, <1>3, <3>1, InConcat
    <3>3. EndOf(m - 1) - EndOf(0) + i = Len(bytes) + i
      BY <1>3, <2>1
    <3> QED BY <2>1, <3>2, <3>3 DEF unit
  <2>2. CASE m # k
    <3>1. m \in 1..(k - 1)
      BY <1>0, <2>2
    <3>2. /\ EndOf(m) = EndOf(m - 1) + SizeOf(m) /\ SizeOf(m) \in Nat
          /\ EndOf(m - 1) \in Nat /\ EndOf(0) <= EndOf(m - 1)
          /\ EndOf(m) <= EndOf(k - 1)
      BY <1>0, <3>1, UnitPlace
    <3> DEFINE place == EndOf(m - 1) - EndOf(0) + i
    <3>3. place \in Nat \ {0} /\ place <= Len(bytes)
      <4>1. i \in Nat /\ 1 <= i /\ i <= SizeOf(m)
        BY <3>2
      <4>2. EndOf(m - 1) + i <= EndOf(k - 1)
        BY <1>1, <3>2, <4>1
      <4> HIDE DEF place
      <4>3. place = EndOf(m - 1) - EndOf(0) + i
        BY DEF place
      <4>4. place \in Nat \ {0} /\ place <= EndOf(k - 1) - EndOf(0)
        BY <1>1, <3>2, <4>1, <4>2, <4>3, SMTT(30)
      <4> QED BY <1>3, <4>4
    <3>4. bytes[place] = UnitBytes(m)[i]
      BY <3>1 DEF IsLayout
    <3> HIDE DEF place
    <3>5. (bytes \o unit)[place] = bytes[place]
      BY <1>2, <1>3, <3>3, InConcat
    <3> QED BY <3>4, <3>5 DEF place
  <2> QED BY <2>1, <2>2
<1> QED BY <1>4, <1>5 DEF IsLayout, unit

(* All units of a conversation.                                            *)
LEMMA UnitsLayout ==
  ASSUME units \in Conversations
  PROVE  IsLayout(FlattenSeq([k \in DOMAIN units |-> UnitBytes(k)]), Len(units))
<1> DEFINE s == [k \in DOMAIN units |-> UnitBytes(k)]
           n == Len(units)
<1>0. n \in Nat /\ DOMAIN units = 1..n
  BY UnitsType
<1>1. Len(s) = n /\ \A k \in 1..n : s[k] = UnitBytes(k)
  BY <1>0
<1>2. EndOf(0) \in Nat /\ 0 \in 0..n
  BY <1>0, EndsAreNumbers
<1>3. IsLayout(<<>>, 0)
  BY <1>2 DEF IsLayout
<1>4. CASE n = 0
  <2>1. FlattenSeq(s) = s
    BY <1>1, <1>4 DEF FlattenSeq
  <2>2. s = <<>>
    BY <1>0, <1>4
  <2> QED BY <1>3, <1>4, <2>1, <2>2
<1>5. CASE n # 0
  <2>1. PICK f : /\ f = [i \in 1..Len(s) |-> IF i = 1 THEN s[i] ELSE f[i - 1] \o s[i]]
                 /\ FlattenSeq(s) = f[Len(s)]
    <3> HIDE DEF s
    <3> QED BY <1>0, <1>1, <1>5, FlattenIsRecursive
  <2> DEFINE S == {k \in Nat : k = 0 \/ IsLayout(f[k], k)}
  <2>2. 0 \in S
    OBVIOUS
  <2>3. ASSUME NEW k \in 1..n, k - 1 \in S PROVE k \in S
    <3>0. k \in Nat
      BY <1>0
    <3>1. f[k] = IF k = 1 THEN UnitBytes(k) ELSE f[k - 1] \o UnitBytes(k)
      <4> HIDE DEF s
      <4> QED BY <1>1, <2>1
    <3>2. CASE k = 1
      <4>0. IsLayout(<<>>, k - 1)
        BY <1>3, <3>2
      <4>1. IsLayout(<<>> \o UnitBytes(k), k)
        BY <4>0, LayoutStep
      <4>2. UnitBytes(k) \in Seq(Byte)
        BY <3>0, UnitLayout
      <4>3. <<>> \o UnitBytes(k) = UnitBytes(k)
        BY <4>2, ConcatEmptySeq
      <4> QED BY <3>0, <3>1, <3>2, <4>1, <4>3
    <3>3. CASE k # 1
      <4>1. IsLayout(f[k - 1], k - 1)
        BY <2>3, <3>0, <3>3
      <4>2. IsLayout(f[k - 1] \o UnitBytes(k), k)
        BY <4>1, LayoutStep
      <4> QED BY <3>0, <3>1, <3>3, <4>2
    <3> QED BY <3>2, <3>3
  <2> HIDE DEF S
  <2>4. n \in S
    <3>1. 0..n \subseteq S
      BY <1>0, <2>2, <2>3, UpTo
    <3> QED BY <1>0, <3>1
  <2>5. IsLayout(f[n], n)
    BY <1>5, <2>4 DEF S
  <2> HIDE DEF s
  <2>6. IsLayout(FlattenSeq(s), n)
    BY <1>1, <2>1, <2>5
  <2> QED BY <2>6 DEF s
<1> QED BY <1>4, <1>5

(* The whole stream: where unit k - 1 ends, unit k begins.                 *)
LEMMA StreamLayout ==
  ASSUME units \in Conversations
  PROVE  /\ Stream \in Seq(Byte) /\ Len(Stream) = EndOf(Len(units))
         /\ \A k \in 1..Len(units) : \A i \in 1..SizeOf(k) :
              Stream[EndOf(k - 1) + i] =
                IF units[k] = "ping" THEN [unit |-> k, part |-> "ping", nr |-> 1]
                ELSE FrameByte(k, i)
<1> DEFINE l == BytesOf(0, "length", 2)
           m == BytesOf(0, "imei", ImeiSize)
           bytes == FlattenSeq([k \in DOMAIN units |-> UnitBytes(k)])
           n == Len(units)
<1>0. n \in Nat /\ 0 \in 0..n /\ n \in 0..n /\ \A k \in 1..n : k \in Nat
  BY UnitsType
<1>1. l \in Seq(Byte) /\ Len(l) = 2
  <2>1. \A s \in Nat : BytesOf(0, "length", s) \in Seq(Byte) /\ Len(BytesOf(0, "length", s)) = s
    BY BytesType
  <2> QED BY <2>1
<1>2. m \in Seq(Byte) /\ Len(m) = ImeiSize
  BY BytesType, Sizes
<1>3. bytes \in Seq(Byte) /\ Len(bytes) = EndOf(n) - EndOf(0)
  BY UnitsLayout DEF IsLayout
<1>4. Stream = (l \o m) \o bytes
  BY DEF Stream
<1>5. EndOf(0) \in Nat /\ EndOf(n) \in Nat
  BY <1>0, EndsAreNumbers
<1> HIDE DEF l, m
<1>6. l \o m \in Seq(Byte) /\ Len(l \o m) = EndOf(0)
  <2>1. l \o m \in Seq(Byte) /\ Len(l \o m) = Len(l) + Len(m)
    BY <1>1, <1>2, ConcatProperties
  <2> QED BY <1>1, <1>2, <2>1, EndOfGreeting
<1>7. Stream \in Seq(Byte) /\ Len(Stream) = EndOf(n)
  <2> HIDE DEF bytes
  <2>1. /\ (l \o m) \o bytes \in Seq(Byte)
        /\ Len((l \o m) \o bytes) = Len(l \o m) + Len(bytes)
    BY <1>3, <1>6, ConcatProperties
  <2> QED BY <1>3, <1>4, <1>5, <1>6, <2>1
<1>8. ASSUME NEW k \in 1..n, NEW i \in 1..SizeOf(k)
      PROVE  Stream[EndOf(k - 1) + i] = UnitBytes(k)[i]
  <2>1. /\ EndOf(k) = EndOf(k - 1) + SizeOf(k) /\ SizeOf(k) \in Nat
        /\ EndOf(k - 1) \in Nat /\ EndOf(k) \in Nat
        /\ EndOf(0) <= EndOf(k - 1) /\ EndOf(k) <= EndOf(n)
    BY <1>0, UnitPlace
  <2> DEFINE place == EndOf(k - 1) - EndOf(0) + i
  <2>2. bytes[place] = UnitBytes(k)[i]
    BY UnitsLayout DEF IsLayout
  <2>3. place \in Nat \ {0} /\ place <= Len(bytes) /\ EndOf(k - 1) + i = EndOf(0) + place
    <3> HIDE DEF bytes
    <3>1. i \in Nat /\ 1 <= i /\ i <= SizeOf(k)
      BY <2>1
    <3>2. EndOf(k - 1) + i <= EndOf(n)
      BY <1>5, <2>1, <3>1
    <3>3. place \in Nat \ {0} /\ place <= EndOf(n) - EndOf(0)
      BY <1>5, <2>1, <3>1, <3>2, SMTT(30)
    <3>4. EndOf(k - 1) + i = EndOf(0) + place
      BY <1>5, <2>1, <3>1
    <3> QED BY <1>3, <3>3, <3>4
  <2> HIDE DEF place, bytes
  <2>4. ((l \o m) \o bytes)[Len(l \o m) + place] = bytes[place]
    BY <1>3, <1>6, <2>3, InConcat, SMTT(30)
  <2> QED BY <1>4, <1>6, <2>2, <2>3, <2>4
<1> QED BY <1>0, <1>7, <1>8, UnitLayout

-----------------------------------------------------------------------------
(***************************************************************************)
(* The inductive invariant.                                                *)
(***************************************************************************)

(* Of the first k units all data and messages were decoded, and no others. *)
DecodedUpTo(k) == ToSet(frames) = {i \in 1..k : units[i] \in {"data", "message"}}

(* The first n bytes of unit k are at the front of readBuffer.             *)
Holds(n, k) == \A i \in 1..n : readBuffer[i] = FrameByte(k, i)

(* The bufio.Reader is not in use, and each Read gets all or closes.       *)
InGreeting ==
  /\ consumed < EndOf(0) /\ read = consumed
  /\ frames = <<>>
  /\ at \in {"length", "imei", "closed"}
  /\ at = "length" => consumed = 0
  /\ at = "imei" => consumed = 2

BetweenUnits(k) == at = "peek" /\ consumed = EndOf(k)

InFrame(k) ==
  /\ k < Len(units) /\ units[k + 1] # "ping"
  /\ \/ at = "header" /\ need \in 0..HeaderSize
     \/ at = "rest" /\ need \in 0..RestSize /\ units[k + 1] # "oversized"
  /\ consumed = EndOf(k) + Filled
  /\ Holds(Filled, k + 1)

WithPacket(k) ==
  /\ \/ at = "answer" /\ units[k] = "data"
     \/ at = "onpacket" /\ units[k] \in {"data", "message"}
  /\ k > 0 /\ consumed = EndOf(k)
  /\ frames # <<>> /\ Last(frames) = k

AfterRefusal(k) ==
  /\ at = "refused"
  /\ k < Len(units) /\ units[k + 1] \in {"oversized", "malformed"}
  /\ EndOf(k) < consumed /\ consumed <= EndOf(k + 1)

AfterClose(k) ==
  /\ at = "closed"
  /\ EndOf(k) <= consumed /\ (k < Len(units) => consumed < EndOf(k + 1))

InConversation ==
  \E k \in 0..Len(units) :
    /\ DecodedUpTo(k)
    /\ BetweenUnits(k) \/ InFrame(k) \/ WithPacket(k) \/ AfterRefusal(k) \/ AfterClose(k)

Data == {k \in ToSet(frames) : units[k] = "data"}

(* Only the last frame may be without its answer.                          *)
AnswersFollow ==
  /\ InOrder(frames) /\ InOrder(acks)
  /\ \/ at # "answer" /\ ToSet(acks) = Data
     \/ /\ at \in {"answer", "closed"} /\ frames # <<>>
        /\ Last(frames) \in Data /\ ToSet(acks) = Data \ {Last(frames)}

(* A packet is handed on once, after its answer, and posted once.          *)
HooksFollow ==
  /\ hooks \subseteq ToSet(acks)
  /\ at \in {"answer", "onpacket"} => Last(frames) \notin hooks
  /\ \A p \in posts :
       /\ p.from = {p.packet} /\ p.packet \in ToSet(acks) \ hooks
       /\ at \in {"answer", "onpacket"} => p.packet # Last(frames)

StreamInv ==
  /\ StreamTypeOK
  /\ InGreeting \/ InConversation
  /\ AnswersFollow /\ HooksFollow
-----------------------------------------------------------------------------
(* Smaller is the minimum.                                                 *)
LEMMA SmallerType ==
  ASSUME NEW m \in Nat, NEW n \in Nat
  PROVE  /\ Smaller(m, n) \in Nat /\ Smaller(m, n) <= m /\ Smaller(m, n) <= n
         /\ m > 0 /\ n > 0 => Smaller(m, n) > 0
BY DEF Smaller

(* What a step says about the stream, it says about the same stream.       *)
LEMMA SameStream ==
  ASSUME UNCHANGED units
  PROVE  /\ Stream' = Stream /\ \A k : EndOf(k)' = EndOf(k)
BY DEF Stream, UnitBytes, BytesOf, EndOf

(* A greater number at the end leaves a sequence in order.                 *)
LEMMA Appended ==
  ASSUME NEW s \in Seq(Nat), NEW x \in Nat
  PROVE  /\ ToSet(Append(s, x)) = ToSet(s) \cup {x}
         /\ Last(Append(s, x)) = x /\ Append(s, x) # <<>>
         /\ InOrder(s) /\ (\A y \in ToSet(s) : y < x) => InOrder(Append(s, x))
<1> DEFINE t == Append(s, x)
<1>1. /\ Len(t) = Len(s) + 1 /\ Len(s) \in Nat
      /\ DOMAIN t = 1..(Len(s) + 1) /\ DOMAIN s = 1..Len(s)
      /\ \A i \in 1..Len(s) : t[i] = s[i]
      /\ t[Len(s) + 1] = x
  OBVIOUS
<1> HIDE DEF t
<1>2. ToSet(t) = ToSet(s) \cup {x}
  <2>1. ASSUME NEW y \in ToSet(t) PROVE y \in ToSet(s) \cup {x}
    <3>1. PICK i \in DOMAIN t : y = t[i]
      BY DEF ToSet
    <3> QED BY <1>1, <3>1 DEF ToSet
  <2>2. ASSUME NEW y \in ToSet(s) PROVE y \in ToSet(t)
    <3>1. PICK i \in DOMAIN s : y = s[i]
      BY DEF ToSet
    <3>2. i \in DOMAIN t /\ t[i] = y
      BY <1>1, <3>1
    <3> QED BY <3>2 DEF ToSet
  <2>3. x \in ToSet(t)
    <3>1. Len(s) + 1 \in DOMAIN t
      BY <1>1
    <3> QED BY <1>1, <3>1 DEF ToSet
  <2> QED BY <2>1, <2>2, <2>3
<1>3. ASSUME InOrder(s), \A y \in ToSet(s) : y < x PROVE InOrder(t)
  <2> SUFFICES ASSUME NEW i \in DOMAIN t, NEW j \in DOMAIN t, i < j PROVE t[i] < t[j]
    BY DEF InOrder
  <2>1. i \in DOMAIN s /\ t[i] = s[i]
    BY <1>1
  <2>2. CASE j \in DOMAIN s
    <3>1. s[i] < s[j]
      BY <1>3, <2>1, <2>2 DEF InOrder
    <3> QED BY <1>1, <2>1, <2>2, <3>1
  <2>3. CASE j \notin DOMAIN s
    <3>1. t[j] = x
      BY <1>1, <2>3
    <3>2. s[i] < x
      BY <1>3, <2>1 DEF ToSet
    <3> QED BY <2>1, <3>1, <3>2
  <2> QED BY <2>2, <2>3
<1>4. Last(t) = x
  BY <1>1 DEF Last
<1>5. t # <<>>
  BY <1>1
<1> QED BY <1>2, <1>3, <1>4, <1>5 DEF t

(* The actions that StreamNext consists of.                                *)
LEMMA StreamStepCases ==
  ASSUME NEW ACTION P, StreamNext,
         Arrive => P, Fail => P, ReadLength => P, ReadImei => P, Fill => P, DiscardPing => P,
         BeginFrame => P, ReadSome => P, HeaderRead => P, FrameRead => P, Answer => P,
         OnPacket => P,
         \A k \in DOMAIN units : Post(k) => P,
         \A k \in DOMAIN units : PostFails(k) => P
  PROVE  P
BY Zenon DEF StreamNext, Connection

(* The types hold at first.                                                *)
LEMMA StreamTypeInit == StreamInit => StreamTypeOK
<1> SUFFICES ASSUME StreamInit PROVE StreamTypeOK
  OBVIOUS
<1>1. Stream \in Seq(Byte)
  BY StreamLayout DEF StreamInit
<1>2. HeaderSize + RestSize \in Nat
  BY Sizes
<1>3. EmptyBuffer \in [1..(HeaderSize + RestSize) -> Byte]
  BY <1>2 DEF EmptyBuffer, BytesOf, Byte
<1> QED BY <1>1, <1>2, <1>3 DEF StreamInit, StreamTypeOK, ReaderState

(* Every step keeps them: what is read has arrived, and what is consumed   *)
(* was read.                                                               *)
LEMMA StreamTypeStep == StreamTypeOK /\ [StreamNext]_streamVars => StreamTypeOK'
<1> SUFFICES ASSUME StreamTypeOK, [StreamNext]_streamVars PROVE StreamTypeOK'
  OBVIOUS
<1> DEFINE Goal == StreamTypeOK'
<1>0. ASSUME UNCHANGED units PROVE Stream' = Stream
  BY <1>0, SameStream
<1>1. Stream \in Seq(Byte) /\ Len(Stream) \in Nat
  BY StreamLayout DEF StreamTypeOK
<1> USE DEF StreamTypeOK, ReaderState, tracker, input, output
<1>2. Arrive => Goal
  BY <1>0, <1>1 DEF Arrive
<1>3. Fail => Goal
  BY <1>0 DEF Fail
<1>4. ASSUME NEW n \in Nat, Read(n) PROVE read' \in 0..arrived /\ consumed' = read'
  <2>1. Smaller(n, arrived - read) \in Nat /\ Smaller(n, arrived - read) <= arrived - read
    <3>1. arrived - read \in Nat
      BY <1>1, <1>4 DEF Read
    <3> QED BY <3>1, SmallerType
  <2> QED BY <1>1, <1>4, <2>1 DEF Read
<1>5. ReadLength => Goal
  <2> SUFFICES ASSUME ReadLength PROVE Goal
    OBVIOUS
  <2>1. read' \in 0..arrived /\ consumed' = read'
    BY <1>4 DEF ReadLength
  <2> QED BY <1>0, <1>1, <2>1 DEF ReadLength, Read
<1>6. ReadImei => Goal
  <2> SUFFICES ASSUME ReadImei PROVE Goal
    OBVIOUS
  <2>1. read' \in 0..arrived /\ consumed' = read'
    BY <1>4, Sizes DEF ReadImei
  <2> QED BY <1>0, <1>1, <2>1 DEF ReadImei, Read
<1>7. Fill => Goal
  BY <1>0, <1>1 DEF Fill
<1>8. DiscardPing => Goal
  BY <1>0, <1>1 DEF DiscardPing
<1>9. BeginFrame => Goal
  BY <1>0, Sizes DEF BeginFrame
<1>10. ReadSome => Goal
  <2> SUFFICES ASSUME ReadSome PROVE Goal
    OBVIOUS
  <2> DEFINE n == Smaller(need, read - consumed)
             bytes == SubSeq(Stream, consumed + 1, consumed + n)
  <2>1. n \in Nat /\ n <= need /\ n <= read - consumed
    <3>1. read - consumed \in Nat /\ need \in Nat
      BY <1>1, Sizes DEF ReadSome
    <3> QED BY <3>1, SmallerType
  <2>2. bytes \in Seq(Byte)
    <3> HIDE DEF n
    <3>1. consumed + 1 \in 1..(Len(Stream) + 1) /\ consumed + n \in 0..Len(Stream)
      BY <1>1, <2>1
    <3> QED BY <1>1, <3>1, SubSeqProperties
  <2>3. Overwrite(readBuffer, Filled, bytes) \in [1..(HeaderSize + RestSize) -> Byte]
    <3>1. Filled \in Int
      BY Sizes DEF Filled
    <3> HIDE DEF bytes
    <3>2. ASSUME NEW i \in (Filled + 1)..(Filled + Len(bytes)) PROVE bytes[i - Filled] \in Byte
      <4>1. i - Filled \in 1..Len(bytes)
        BY <2>2, <3>1
      <4> QED BY <2>2, <4>1
    <3> QED BY <3>2 DEF Overwrite
  <2>4. /\ readBuffer' = Overwrite(readBuffer, Filled, bytes)
        /\ consumed' = consumed + n /\ need' = need - n
        /\ UNCHANGED <<greeting, units, arrived, read, at, frames, acks, hooks, posts>>
    BY DEF ReadSome
  <2> HIDE DEF bytes, n
  <2>5. consumed' \in 0..read /\ need' \in 0..(HeaderSize + RestSize)
    BY <1>1, <2>1, <2>4, Sizes
  <2> QED BY <1>0, <2>3, <2>4, <2>5
<1>11. HeaderRead => Goal
  BY <1>0, Sizes DEF HeaderRead
<1>12. FrameRead => Goal
  <2> SUFFICES ASSUME FrameRead PROVE Goal
    OBVIOUS
  <2> DEFINE k == readBuffer[1].unit
  <2>1. UNCHANGED <<greeting, units, arrived, read, consumed, need, readBuffer, acks, hooks, posts>>
    BY DEF FrameRead
  <2>2. \/ k \in DOMAIN units /\ frames' = Append(frames, k) /\ at' \in {"answer", "onpacket"}
        \/ frames' = frames /\ at' = "refused"
    BY DEF FrameRead
  <2> HIDE DEF k
  <2>3. frames' \in Seq(DOMAIN units) /\ (at' \in {"answer", "onpacket"} => frames' # <<>>)
    <3>1. CASE k \in DOMAIN units /\ frames' = Append(frames, k)
      <4>1. Append(frames, k) \in Seq(DOMAIN units) /\ Append(frames, k) # <<>>
        BY <3>1, AppendProperties
      <4> QED BY <3>1, <4>1
    <3>2. CASE frames' = frames /\ at' = "refused"
      BY <3>2
    <3> QED BY <2>2, <3>1, <3>2
  <2> QED BY <1>0, <2>1, <2>2, <2>3
<1>13. ASSUME at \in {"answer", "onpacket"} PROVE Last(frames) \in DOMAIN units
  BY <1>13 DEF Last
<1>14. Answer => Goal
  BY <1>0, <1>13 DEF Answer
<1>15. OnPacket => Goal
  BY <1>0, <1>13 DEF OnPacket
<1>16. ASSUME NEW k \in DOMAIN units PROVE Post(k) => Goal
  <2>1. k \in Nat
    BY UnitsType
  <2> QED BY <1>0, <2>1 DEF Post
<1>17. ASSUME NEW k \in DOMAIN units PROVE PostFails(k) => Goal
  BY <1>0 DEF PostFails
<1>18. UNCHANGED streamVars => Goal
  BY <1>0 DEF streamVars
<1> HIDE DEF Goal
<1>19. StreamNext => Goal
  BY <1>2, <1>3, <1>5, <1>6, <1>7, <1>8, <1>9, <1>10, <1>11, <1>12, <1>14, <1>15, <1>16,
     <1>17, StreamStepCases
<1> QED BY <1>18, <1>19 DEF Goal

-----------------------------------------------------------------------------
(* What one Read brings.                                                   *)
LEMMA Slice ==
  ASSUME NEW S, NEW s \in Seq(S), NEW c \in Nat, NEW n \in Nat, c + n <= Len(s),
         NEW a, a = c + 1, NEW b, b = c + n
  PROVE  /\ SubSeq(s, a, b) \in Seq(S) /\ Len(SubSeq(s, a, b)) = n
         /\ \A i \in 1..n : SubSeq(s, a, b)[i] = s[c + i]
<1> DEFINE t == SubSeq(s, a, b)
<1>1. /\ a \in Int /\ b \in Int /\ b - a + 1 = n
      /\ (IF a <= b THEN b - a + 1 ELSE 0) = n
      /\ \A i \in a..b : i \in 1..Len(s)
      /\ \A i \in 1..n : a + i - 1 = c + i
  OBVIOUS
<1>2. \A i \in a..b : s[i] \in S
  BY <1>1
<1>3. /\ t \in Seq(S) /\ Len(t) = IF a <= b THEN b - a + 1 ELSE 0
      /\ \A i \in 1..(b - a + 1) : t[i] = s[a + i - 1]
  BY <1>1, <1>2, SubSeqProperties
<1> HIDE DEF t
<1>4. t \in Seq(S) /\ Len(t) = n /\ \A i \in 1..n : t[i] = s[c + i]
  BY <1>1, <1>3
<1> QED BY <1>4 DEF t

(* A tracker writes what it set out to write.                              *)
LEMMA UnitsStay == [StreamNext]_streamVars => UNCHANGED <<greeting, units>>
<1> SUFFICES ASSUME [StreamNext]_streamVars PROVE UNCHANGED <<greeting, units>>
  OBVIOUS
<1> DEFINE Goal == UNCHANGED <<greeting, units>>
<1> USE DEF tracker
<1>1. /\ Arrive => Goal
      /\ Fail => Goal
      /\ ReadLength => Goal
      /\ ReadImei => Goal
      /\ Fill => Goal
      /\ DiscardPing => Goal
      /\ BeginFrame => Goal
      /\ ReadSome => Goal
  BY DEF Arrive, Fail, ReadLength, ReadImei, Read, Fill, DiscardPing, BeginFrame, ReadSome
<1>2. /\ HeaderRead => Goal
      /\ FrameRead => Goal
      /\ Answer => Goal
      /\ OnPacket => Goal
      /\ \A k \in DOMAIN units : Post(k) => Goal
      /\ \A k \in DOMAIN units : PostFails(k) => Goal
  BY DEF HeaderRead, FrameRead, Answer, OnPacket, Post, PostFails
<1>3. UNCHANGED streamVars => Goal
  BY DEF streamVars
<1> HIDE DEF Goal
<1>4. StreamNext => Goal
  BY <1>1, <1>2, StreamStepCases
<1> QED BY <1>3, <1>4 DEF Goal

(* The unit that begins where unit k ends.                                 *)
LEMMA NextUnit ==
  ASSUME StreamTypeOK, NEW k \in 0..Len(units)
  PROVE  /\ EndOf(k) \in Nat
         /\ EndOf(k) <= Len(Stream) /\ (k = Len(units) => EndOf(k) = Len(Stream))
         /\ k < Len(units) =>
              /\ k + 1 \in 1..Len(units) /\ EndOf(k + 1) \in Nat
              /\ EndOf(k + 1) = EndOf(k) + SizeOf(k + 1)
              /\ EndOf(k + 1) <= Len(Stream)
              /\ units[k + 1] = "ping" => Stream[EndOf(k) + 1].part = "ping"
              /\ units[k + 1] # "ping" =>
                   \A i \in 1..(HeaderSize + RestSize) : Stream[EndOf(k) + i] = FrameByte(k + 1, i)
<1>0. units \in Conversations
  BY DEF StreamTypeOK
<1>1. Len(units) \in Nat /\ k \in Nat /\ Len(units) \in 0..Len(units)
  BY <1>0, UnitsType
<1>2. /\ EndOf(k) \in Nat /\ EndOf(Len(units)) = Len(Stream)
      /\ EndOf(k) <= EndOf(Len(units))
  <2>1. k = Len(units) \/ k \in 1..Len(units) \/ k = 0
    BY <1>1
  <2>2. EndOf(k) \in Nat /\ EndOf(Len(units)) \in Nat
    BY <1>0, <1>1, EndsAreNumbers
  <2>3. CASE k = Len(units)
    BY <1>0, <2>2, <2>3, StreamLayout
  <2>4. CASE k < Len(units)
    <3>1. EndOf(k) < EndOf(Len(units))
      BY <1>0, <1>1, <2>4, EndsAreInOrder
    <3> QED BY <1>0, <2>2, <3>1, StreamLayout
  <2> QED BY <1>1, <2>3, <2>4
<1>3. ASSUME k < Len(units)
      PROVE  /\ k + 1 \in 1..Len(units) /\ EndOf(k + 1) \in Nat
             /\ EndOf(k + 1) = EndOf(k) + SizeOf(k + 1)
             /\ EndOf(k + 1) <= Len(Stream)
             /\ units[k + 1] = "ping" => Stream[EndOf(k) + 1].part = "ping"
             /\ units[k + 1] # "ping" =>
                  \A i \in 1..(HeaderSize + RestSize) : Stream[EndOf(k) + i] = FrameByte(k + 1, i)
  <2> DEFINE n == k + 1
  <2>1. n \in 1..Len(units) /\ n - 1 = k
    BY <1>1, <1>3
  <2>2. /\ EndOf(n) \in Nat /\ EndOf(n) = EndOf(k) + SizeOf(n)
        /\ EndOf(n) <= EndOf(Len(units))
    BY <1>0, <1>1, <2>1, UnitPlace
  <2>3. \A i \in 1..SizeOf(n) :
          Stream[EndOf(k) + i] = IF units[n] = "ping" THEN [unit |-> n, part |-> "ping", nr |-> 1]
                                 ELSE FrameByte(n, i)
    BY <1>0, <2>1, StreamLayout
  <2> HIDE DEF n
  <2>4. units[n] = "ping" => Stream[EndOf(k) + 1].part = "ping"
    <3>1. 1 \in 1..SizeOf(n)
      BY Sizes
    <3> QED BY <2>3, <3>1
  <2>5. units[n] # "ping" =>
          \A i \in 1..(HeaderSize + RestSize) : Stream[EndOf(k) + i] = FrameByte(n, i)
    BY <2>3 DEF SizeOf
  <2> QED BY <1>2, <2>1, <2>2, <2>4, <2>5 DEF n
<1> QED BY <1>2, <1>3

(* Where the reader is depends on these variables alone.                   *)
LEMMA SamePlace ==
  ASSUME UNCHANGED <<units, consumed, at, need, readBuffer, frames>>
  PROVE  /\ InGreeting /\ UNCHANGED read => InGreeting'
         /\ InConversation => InConversation'
<1>1. \A k : EndOf(k)' = EndOf(k)
  BY SameStream
<1>2. InGreeting /\ UNCHANGED read => InGreeting'
  BY <1>1 DEF InGreeting
<1>3. ASSUME InConversation PROVE InConversation'
  <2>1. PICK k \in 0..Len(units) :
          /\ DecodedUpTo(k)
          /\ BetweenUnits(k) \/ InFrame(k) \/ WithPacket(k) \/ AfterRefusal(k) \/ AfterClose(k)
    BY <1>3 DEF InConversation
  <2>2. DecodedUpTo(k)'
    BY <2>1 DEF DecodedUpTo
  <2>3. \/ BetweenUnits(k)' \/ InFrame(k)' \/ WithPacket(k)' \/ AfterRefusal(k)' \/ AfterClose(k)'
    BY <1>1, <2>1 DEF BetweenUnits, InFrame, WithPacket, AfterRefusal, AfterClose, Holds, Filled,
                      FrameByte
  <2> QED BY <2>2, <2>3 DEF InConversation
<1> QED BY <1>2, <1>3

(* A whole part of a frame at the front of the buffer is told to be whole. *)
LEMMA BufferHolds ==
  ASSUME StreamTypeOK, NEW k \in Nat
  PROVE  /\ Holds(HeaderSize, k) => /\ readBuffer[1].unit = k
                                    /\ SubSeq(readBuffer, 1, HeaderSize)
                                         = BytesOf(k, "header", HeaderSize)
         /\ Holds(HeaderSize + RestSize, k) =>
              /\ readBuffer[1].unit = k
              /\ SubSeq(readBuffer, HeaderSize + 1, HeaderSize + RestSize)
                   = BytesOf(k, "rest", RestSize)
<1>1. readBuffer \in Seq(Byte) /\ Len(readBuffer) = HeaderSize + RestSize
  BY Sizes DEF StreamTypeOK
<1>2. HeaderSize \in Nat \ {0} /\ RestSize \in Nat \ {0}
  BY Sizes
<1>3. ASSUME NEW n \in Nat \ {0}, Holds(n, k) PROVE readBuffer[1].unit = k
  <2>1. readBuffer[1] = FrameByte(k, 1)
    BY <1>3 DEF Holds
  <2> QED BY <1>2, <2>1 DEF FrameByte
<1>4. ASSUME Holds(HeaderSize, k)
      PROVE  SubSeq(readBuffer, 1, HeaderSize) = BytesOf(k, "header", HeaderSize)
  <2> DEFINE t == SubSeq(readBuffer, 1, HeaderSize)
  <2>1. /\ t \in Seq(Byte) /\ Len(t) = HeaderSize
        /\ \A i \in 1..HeaderSize : t[i] = readBuffer[0 + i]
    BY <1>1, <1>2, Slice
  <2> HIDE DEF t
  <2>2. ASSUME NEW i \in 1..HeaderSize PROVE t[i] = [unit |-> k, part |-> "header", nr |-> i]
    <3>1. 0 + i = i /\ i <= HeaderSize
      BY <1>2
    <3>2. t[i] = readBuffer[i]
      BY <2>1, <3>1
    <3>3. readBuffer[i] = FrameByte(k, i)
      BY <1>4 DEF Holds
    <3> QED BY <3>1, <3>2, <3>3 DEF FrameByte
  <2>3. t = [i \in 1..HeaderSize |-> t[i]]
    BY <2>1
  <2> QED BY <2>2, <2>3 DEF BytesOf, t
<1>5. ASSUME Holds(HeaderSize + RestSize, k)
      PROVE  SubSeq(readBuffer, HeaderSize + 1, HeaderSize + RestSize)
               = BytesOf(k, "rest", RestSize)
  <2> DEFINE t == SubSeq(readBuffer, HeaderSize + 1, HeaderSize + RestSize)
  <2>1. /\ t \in Seq(Byte) /\ Len(t) = RestSize
        /\ \A i \in 1..RestSize : t[i] = readBuffer[HeaderSize + i]
    BY <1>1, <1>2, Slice
  <2> HIDE DEF t
  <2>2. ASSUME NEW i \in 1..RestSize PROVE t[i] = [unit |-> k, part |-> "rest", nr |-> i]
    <3> DEFINE j == HeaderSize + i
    <3>1. j \in 1..(HeaderSize + RestSize) /\ ~(j <= HeaderSize) /\ j - HeaderSize = i
      BY <1>2
    <3>2. t[i] = readBuffer[j]
      BY <2>1
    <3> HIDE DEF j
    <3>3. readBuffer[j] = FrameByte(k, j)
      BY <1>5, <3>1 DEF Holds
    <3>4. FrameByte(k, j) = [unit |-> k, part |-> "rest", nr |-> j - HeaderSize]
      BY <3>1 DEF FrameByte
    <3> QED BY <3>1, <3>2, <3>3, <3>4
  <2>3. t = [i \in 1..RestSize |-> t[i]]
    BY <2>1
  <2> QED BY <2>2, <2>3 DEF BytesOf, t
<1>6. HeaderSize + RestSize \in Nat \ {0}
  BY <1>2
<1> QED BY <1>2, <1>3, <1>4, <1>5, <1>6

(* Inside a frame the invariant says which.                                *)
LEMMA InsideAFrame ==
  ASSUME StreamInv, at \in {"header", "rest"}
  PROVE  \E k \in 0..Len(units) : DecodedUpTo(k) /\ InFrame(k)
BY DEF StreamInv, InGreeting, InConversation, BetweenUnits, WithPacket, AfterRefusal, AfterClose

(* A header is refused only for its length.                                *)
LEMMA HeaderIsJudged ==
  ASSUME StreamInv, HeaderRead
  PROVE  \E k \in 0..Len(units) :
           /\ DecodedUpTo(k) /\ InFrame(k) /\ consumed = EndOf(k) + HeaderSize
           /\ Holds(HeaderSize, k + 1)
           /\ IF units[k + 1] # "oversized" THEN at' = "rest" /\ need' = RestSize
              ELSE at' = "refused" /\ need' = need
<1>1. at = "header" /\ need = 0 /\ StreamTypeOK
  BY DEF HeaderRead, StreamInv
<1>2. PICK k \in 0..Len(units) : DecodedUpTo(k) /\ InFrame(k)
  BY <1>1, InsideAFrame
<1>3. k + 1 \in Nat /\ k + 1 \in DOMAIN units
  BY <1>1, <1>2, UnitsType DEF InFrame, StreamTypeOK
<1>4. Filled = HeaderSize
  BY <1>1, Sizes DEF Filled
<1>5. Holds(HeaderSize, k + 1) /\ consumed = EndOf(k) + HeaderSize
  BY <1>2, <1>4 DEF InFrame
<1>6. /\ readBuffer[1].unit = k + 1
      /\ SubSeq(readBuffer, 1, HeaderSize) = BytesOf(k + 1, "header", HeaderSize)
  BY <1>1, <1>3, <1>5, BufferHolds
<1>7. IF units[k + 1] # "oversized" THEN at' = "rest" /\ need' = RestSize
      ELSE at' = "refused" /\ need' = need
  BY <1>3, <1>6 DEF HeaderRead
<1> QED BY <1>2, <1>5, <1>7

(* A frame is refused only for its contents.                               *)
LEMMA FrameIsJudged ==
  ASSUME StreamInv, FrameRead
  PROVE  \E k \in 0..Len(units) :
           /\ DecodedUpTo(k) /\ k < Len(units) /\ consumed = EndOf(k + 1)
           /\ IF units[k + 1] # "malformed"
              THEN /\ units[k + 1] \in {"data", "message"}
                   /\ frames' = Append(frames, k + 1)
                   /\ at' = IF units[k + 1] = "data" THEN "answer" ELSE "onpacket"
              ELSE at' = "refused" /\ frames' = frames
<1>1. at = "rest" /\ need = 0 /\ StreamTypeOK /\ units \in Conversations
  BY DEF FrameRead, StreamInv, StreamTypeOK
<1>2. PICK k \in 0..Len(units) : DecodedUpTo(k) /\ InFrame(k)
  BY <1>1, InsideAFrame
<1>3. k < Len(units) /\ k + 1 \in Nat /\ k + 1 \in DOMAIN units
  BY <1>1, <1>2, UnitsType DEF InFrame
<1>4. Filled = HeaderSize + RestSize
  BY <1>1, Sizes DEF Filled
<1>5. Holds(HeaderSize + RestSize, k + 1) /\ consumed = EndOf(k + 1)
  <2>1. EndOf(k + 1) = EndOf(k) + SizeOf(k + 1)
    BY <1>1, <1>3, NextUnit
  <2> QED BY <1>2, <1>4, <2>1 DEF InFrame, SizeOf
<1>6. /\ readBuffer[1].unit = k + 1
      /\ SubSeq(readBuffer, HeaderSize + 1, HeaderSize + RestSize)
           = BytesOf(k + 1, "rest", RestSize)
  BY <1>1, <1>3, <1>5, BufferHolds
<1>7. units[k + 1] # "malformed" => units[k + 1] \in {"data", "message"}
  <2>1. units[k + 1] \in UnitKinds
    BY <1>1, <1>3, UnitsType
  <2> QED BY <1>1, <1>2, <2>1 DEF UnitKinds, FrameKinds, InFrame
<1>8. IF units[k + 1] # "malformed"
      THEN /\ frames' = Append(frames, k + 1)
           /\ at' = IF units[k + 1] = "data" THEN "answer" ELSE "onpacket"
      ELSE at' = "refused" /\ frames' = frames
  BY <1>3, <1>6 DEF FrameRead
<1> QED BY <1>2, <1>3, <1>5, <1>7, <1>8

(* Every step leaves the reader where the invariant says.                  *)
LEMMA PlaceStep ==
  StreamInv /\ [StreamNext]_streamVars => (InGreeting \/ InConversation)'
<1> SUFFICES ASSUME StreamInv, [StreamNext]_streamVars PROVE (InGreeting \/ InConversation)'
  OBVIOUS
<1> DEFINE Goal == InGreeting' \/ InConversation'
<1>0. /\ StreamTypeOK
      /\ InGreeting \/ InConversation
      /\ units \in Conversations /\ units' = units
  BY UnitsStay DEF StreamInv, StreamTypeOK
<1>1. Stream' = Stream /\ \A k : EndOf(k)' = EndOf(k)
  BY <1>0, SameStream
<1>2. Len(units) \in Nat /\ EndOf(0) = 2 + ImeiSize
  BY <1>0, UnitsType, EndOfGreeting
<1>3. /\ read \in Nat /\ consumed \in Nat /\ consumed <= read /\ read <= Len(Stream)
      /\ read <= arrived /\ arrived \in Nat /\ need \in Nat
  <2>1. Len(Stream) \in Nat
    BY <1>0, StreamLayout
  <2> QED BY <1>0, <2>1, Sizes DEF StreamTypeOK
<1>4. ASSUME NEW k \in 0..Len(units), DecodedUpTo(k)',
             \/ BetweenUnits(k)' \/ InFrame(k)' \/ WithPacket(k)'
             \/ AfterRefusal(k)' \/ AfterClose(k)'
      PROVE  Goal
  BY <1>0, <1>4 DEF InConversation
<1>5. ASSUME UNCHANGED <<read, consumed, at, need, readBuffer, frames>> PROVE Goal
  BY <1>0, <1>5, SamePlace
<1>6. ASSUME NEW k, UNCHANGED frames, DecodedUpTo(k) PROVE DecodedUpTo(k)'
  BY <1>0, <1>6 DEF DecodedUpTo
<1>7. ASSUME at \in {"peek", "header", "rest", "answer", "onpacket", "refused"}
      PROVE  InConversation
  BY <1>0, <1>7 DEF InGreeting
<1> USE DEF tracker, input, output
<1>8. Arrive => Goal
  BY <1>5 DEF Arrive
<1>9. ASSUME Fail PROVE Goal
  <2>0. UNCHANGED <<read, consumed, need, readBuffer, frames>> /\ at' = "closed"
    BY <1>9 DEF Fail
  <2>1. CASE InGreeting
    BY <1>0, <1>1, <2>0, <2>1 DEF InGreeting
  <2>2. CASE InConversation
    <3>1. PICK k \in 0..Len(units) :
            /\ DecodedUpTo(k)
            /\ BetweenUnits(k) \/ InFrame(k) \/ WithPacket(k) \/ AfterRefusal(k) \/ AfterClose(k)
      BY <2>2 DEF InConversation
    <3>2. EndOf(k) <= consumed /\ (k < Len(units) => consumed < EndOf(k + 1))
      <4>1. /\ EndOf(k) \in Nat
            /\ k < Len(units) => /\ EndOf(k + 1) \in Nat /\ SizeOf(k + 1) \in Nat \ {0}
                                 /\ EndOf(k + 1) = EndOf(k) + SizeOf(k + 1)
        BY <1>0, NextUnit, Sizes
      <4>2. CASE BetweenUnits(k) \/ WithPacket(k)
        BY <4>1, <4>2 DEF BetweenUnits, WithPacket
      <4>3. CASE InFrame(k)
        BY <1>3, <1>9, <4>1, <4>3, Sizes, SMTT(30) DEF InFrame, Filled, SizeOf, Fail
      <4>4. CASE AfterRefusal(k) \/ AfterClose(k)
        BY <1>9, <4>4 DEF AfterRefusal, AfterClose, Fail
      <4> QED BY <3>1, <4>2, <4>3, <4>4
    <3>3. AfterClose(k)'
      BY <1>0, <1>1, <2>0, <3>2 DEF AfterClose
    <3> QED BY <1>4, <1>6, <2>0, <3>1, <3>3
  <2> QED BY <1>0, <2>1, <2>2
<1>10. ASSUME ReadLength PROVE Goal
  <2>1. /\ at = "length" /\ InGreeting
    BY <1>0, <1>10 DEF ReadLength, InConversation, BetweenUnits, InFrame, WithPacket,
                       AfterRefusal, AfterClose
  <2>2. /\ consumed = 0 /\ read = 0 /\ frames' = <<>>
        /\ read' = read + Smaller(2, arrived - read) /\ consumed' = read' /\ arrived > read
        /\ at' \in {"imei", "closed"} /\ (at' = "imei" => read' = 2)
    BY <1>10, <2>1 DEF ReadLength, Read, InGreeting
  <2>3. Smaller(2, arrived - read) \in Nat /\ Smaller(2, arrived - read) <= 2
    BY <1>3, <2>2, SmallerType
  <2>4. consumed' < EndOf(0)
    BY <1>2, <2>2, <2>3, Sizes
  <2> QED BY <1>1, <2>2, <2>4 DEF InGreeting
<1>11. ASSUME ReadImei PROVE Goal
  <2>1. /\ at = "imei" /\ InGreeting
    BY <1>0, <1>11 DEF ReadImei, InConversation, BetweenUnits, InFrame, WithPacket,
                       AfterRefusal, AfterClose
  <2>2. /\ consumed = 2 /\ read = 2 /\ frames = <<>> /\ frames' = frames
        /\ read' = read + Smaller(ImeiSize, arrived - read) /\ consumed' = read'
        /\ arrived > read
        /\ at' \in {"peek", "closed"} /\ (at' = "peek" => read' = 2 + ImeiSize)
    BY <1>11, <2>1 DEF ReadImei, Read, InGreeting
  <2>3. /\ Smaller(ImeiSize, arrived - read) \in Nat
        /\ Smaller(ImeiSize, arrived - read) <= ImeiSize
    <3>1. arrived - read \in Nat
      BY <1>3, <2>2
    <3> QED BY <3>1, Sizes, SmallerType
  <2>4. CASE consumed' < EndOf(0)
    BY <1>1, <1>2, <2>2, <2>4, Sizes DEF InGreeting
  <2>5. CASE ~(consumed' < EndOf(0))
    <3>1. consumed' = EndOf(0)
      BY <1>2, <2>2, <2>3, <2>5, Sizes
    <3>2. DecodedUpTo(0)'
      BY <2>2 DEF DecodedUpTo, ToSet
    <3>3. 0 \in 0..Len(units) /\ (0 < Len(units) => EndOf(0) < EndOf(0 + 1))
      <4>1. 0 \in 0..Len(units)
        BY <1>2
      <4>2. 0 < Len(units) => /\ EndOf(0 + 1) = EndOf(0) + SizeOf(0 + 1)
                              /\ SizeOf(0 + 1) \in Nat \ {0}
        BY <1>0, <4>1, NextUnit, Sizes
      <4> QED BY <1>2, <4>1, <4>2, Sizes
    <3>4. BetweenUnits(0)' \/ AfterClose(0)'
      BY <1>0, <1>1, <1>2, <2>2, <3>1, <3>3, Sizes DEF BetweenUnits, AfterClose
    <3> QED BY <1>4, <3>2, <3>3, <3>4
  <2> QED BY <2>4, <2>5
<1>12. ASSUME Fill PROVE Goal
  <2>1. InConversation
    BY <1>7, <1>12 DEF Fill
  <2> QED BY <1>0, <1>12, <2>1, SamePlace DEF Fill
<1>13. ASSUME at = "peek"
       PROVE  \E k \in 0..Len(units) : DecodedUpTo(k) /\ consumed = EndOf(k)
  <2>1. InConversation
    BY <1>7, <1>13
  <2> QED BY <1>13, <2>1 DEF InConversation, BetweenUnits, InFrame, WithPacket, AfterRefusal,
                             AfterClose
<1>14. ASSUME at = "peek", consumed < read
       PROVE  \E k \in 0..Len(units) :
                /\ DecodedUpTo(k) /\ consumed = EndOf(k) /\ k < Len(units)
                /\ units[k + 1] = "ping" <=> NextByte.part = "ping"
  <2>1. PICK k \in 0..Len(units) : DecodedUpTo(k) /\ consumed = EndOf(k)
    BY <1>13, <1>14
  <2>2. k < Len(units)
    <3>1. k # Len(units)
      BY <1>0, <1>3, <1>14, <2>1, NextUnit
    <3> QED BY <1>2, <3>1
  <2>3. units[k + 1] = "ping" <=> NextByte.part = "ping"
    <3>1. CASE units[k + 1] = "ping"
      BY <1>0, <2>1, <2>2, <3>1, NextUnit DEF NextByte
    <3>2. CASE units[k + 1] # "ping"
      <4>1. 1 \in 1..(HeaderSize + RestSize) /\ 1 <= HeaderSize
        BY Sizes
      <4>2. Stream[EndOf(k) + 1] = FrameByte(k + 1, 1)
        BY <1>0, <2>2, <3>2, <4>1, NextUnit
      <4> QED BY <2>1, <3>2, <4>1, <4>2 DEF NextByte, FrameByte
    <3> QED BY <3>1, <3>2
  <2> QED BY <2>1, <2>2, <2>3
<1>15. ASSUME DiscardPing PROVE Goal
  <2>1. PICK k \in 0..Len(units) : /\ DecodedUpTo(k) /\ consumed = EndOf(k) /\ k < Len(units)
                                   /\ units[k + 1] = "ping"
    BY <1>14, <1>15 DEF DiscardPing
  <2>2. /\ consumed' = consumed + 1 /\ at' = "peek" /\ frames' = frames
    BY <1>15 DEF DiscardPing
  <2>3. k + 1 \in 0..Len(units) /\ EndOf(k + 1) = EndOf(k) + 1
    BY <1>0, <1>2, <2>1, NextUnit DEF SizeOf
  <2>4. DecodedUpTo(k + 1)
    <3>1. 1..(k + 1) = (1..k) \cup {k + 1}
      BY <1>2
    <3> QED BY <2>1, <3>1 DEF DecodedUpTo
  <2> DEFINE n == k + 1
  <2>5. BetweenUnits(n)'
    BY <1>1, <2>1, <2>2, <2>3 DEF BetweenUnits
  <2> HIDE DEF n
  <2>6. n \in 0..Len(units) /\ DecodedUpTo(n)
    BY <2>3, <2>4 DEF n
  <2> QED BY <1>4, <1>6, <2>2, <2>5, <2>6
<1>16. ASSUME BeginFrame PROVE Goal
  <2>1. PICK k \in 0..Len(units) : /\ DecodedUpTo(k) /\ consumed = EndOf(k) /\ k < Len(units)
                                   /\ units[k + 1] # "ping"
    BY <1>14, <1>16 DEF BeginFrame
  <2>2. /\ at' = "header" /\ need' = HeaderSize /\ UNCHANGED <<consumed, frames>>
    BY <1>16 DEF BeginFrame
  <2>3. InFrame(k)'
    <3>1. Filled' = 0
      BY <2>2, Sizes DEF Filled
    <3>2. EndOf(k) + 0 = EndOf(k)
      BY <1>3, <2>1
    <3> QED BY <1>0, <1>1, <2>1, <2>2, <3>1, <3>2, Sizes DEF InFrame, Holds
  <2> QED BY <1>4, <1>6, <2>1, <2>2, <2>3
<1>17. ASSUME ReadSome PROVE Goal
  <2>1. PICK k \in 0..Len(units) : DecodedUpTo(k) /\ InFrame(k)
    BY <1>17, InsideAFrame DEF ReadSome
  <2> DEFINE n == Smaller(need, read - consumed)
             bytes == SubSeq(Stream, consumed + 1, consumed + n)
  <2>2. n \in Nat /\ n <= need /\ n <= read - consumed
    <3>1. read - consumed \in Nat
      BY <1>3
    <3> QED BY <1>3, <3>1, SmallerType
  <2>3. /\ readBuffer' = Overwrite(readBuffer, Filled, bytes)
        /\ consumed' = consumed + n /\ need' = need - n
        /\ UNCHANGED <<at, frames>>
    BY <1>17 DEF ReadSome
  <2>4. /\ bytes \in Seq(Byte) /\ Len(bytes) = n
        /\ \A i \in 1..n : bytes[i] = Stream[consumed + i]
    <3> HIDE DEF n
    <3>1. consumed + n <= Len(Stream) /\ Stream \in Seq(Byte)
      BY <1>0, <1>3, <2>2, StreamLayout
    <3> QED BY <1>3, <2>2, <3>1, Slice
  <2> HIDE DEF bytes, n
  <2>5. /\ Filled \in Nat /\ Filled + need <= HeaderSize + RestSize
        /\ at = "header" => Filled + need = HeaderSize
        /\ at = "rest" => Filled + need = HeaderSize + RestSize
        /\ at \in {"header", "rest"}
    BY <1>3, <2>1, Sizes DEF InFrame, Filled
  <2>6. Filled' = Filled + n
    BY <1>3, <2>2, <2>3, Sizes DEF Filled
  <2>7. readBuffer \in [1..(HeaderSize + RestSize) -> Byte]
    BY <1>0 DEF StreamTypeOK
  <2>8. ASSUME NEW i \in 1..(Filled + n) PROVE readBuffer'[i] = FrameByte(k + 1, i)
    <3>1. i \in 1..(HeaderSize + RestSize)
      BY <1>3, <2>2, <2>5, Sizes
    <3>2. CASE i <= Filled
      <4>1. readBuffer'[i] = readBuffer[i]
        BY <2>3, <2>4, <2>5, <2>7, <3>1, <3>2 DEF Overwrite
      <4>2. i \in 1..Filled
        BY <2>5, <3>2
      <4> QED BY <2>1, <4>1, <4>2 DEF InFrame, Holds
    <3>3. CASE ~(i <= Filled)
      <4>1. i - Filled \in 1..n /\ i \in (Filled + 1)..(Filled + Len(bytes))
        BY <2>2, <2>4, <2>5, <3>3
      <4>2. readBuffer'[i] = bytes[i - Filled]
        BY <2>3, <2>7, <3>1, <4>1 DEF Overwrite
      <4>3. bytes[i - Filled] = Stream[consumed + (i - Filled)]
        BY <2>4, <4>1
      <4>4. consumed + (i - Filled) = EndOf(k) + i
        <5>1. consumed = EndOf(k) + Filled /\ EndOf(k) \in Nat
          BY <1>0, <2>1, NextUnit DEF InFrame
        <5> QED BY <2>5, <5>1
      <4>5. Stream[EndOf(k) + i] = FrameByte(k + 1, i)
        BY <1>0, <2>1, <3>1, NextUnit DEF InFrame
      <4> QED BY <4>2, <4>3, <4>4, <4>5
    <3> QED BY <3>2, <3>3
  <2>9. InFrame(k)'
    <3>1. Holds(Filled, k + 1)'
      BY <2>6, <2>8 DEF Holds, FrameByte
    <3>2. consumed' = EndOf(k) + Filled'
      <4>1. consumed = EndOf(k) + Filled /\ EndOf(k) \in Nat
        BY <1>0, <2>1, NextUnit DEF InFrame
      <4> QED BY <2>2, <2>3, <2>5, <2>6, <4>1
    <3>3. /\ at = "header" => need' \in 0..HeaderSize
          /\ at = "rest" => need' \in 0..RestSize
      BY <1>3, <2>1, <2>2, <2>3, Sizes, SMTT(30) DEF InFrame
    <3> QED BY <1>0, <1>1, <2>1, <2>3, <3>1, <3>2, <3>3 DEF InFrame
  <2> QED BY <1>4, <1>6, <2>1, <2>3, <2>9
<1>18. ASSUME HeaderRead PROVE Goal
  <2>1. PICK k \in 0..Len(units) :
          /\ DecodedUpTo(k) /\ InFrame(k) /\ consumed = EndOf(k) + HeaderSize
          /\ Holds(HeaderSize, k + 1)
          /\ IF units[k + 1] # "oversized" THEN at' = "rest" /\ need' = RestSize
             ELSE at' = "refused" /\ need' = need
    BY <1>18, HeaderIsJudged
  <2>2. UNCHANGED <<consumed, readBuffer, frames>>
    BY <1>18 DEF HeaderRead
  <2>3. CASE units[k + 1] # "oversized"
    <3>1. Filled' = HeaderSize
      BY <2>1, <2>3, Sizes DEF Filled
    <3>2. Holds(Filled, k + 1)'
      BY <2>1, <2>2, <3>1 DEF Holds, FrameByte
    <3>3. RestSize \in 0..RestSize
      BY Sizes
    <3>4. InFrame(k)'
      BY <1>0, <1>1, <2>1, <2>2, <2>3, <3>1, <3>2, <3>3 DEF InFrame
    <3> QED BY <1>4, <1>6, <2>1, <2>2, <3>4
  <2>4. CASE units[k + 1] = "oversized"
    <3>1. /\ k < Len(units) /\ EndOf(k) \in Nat
          /\ EndOf(k + 1) = EndOf(k) + HeaderSize + RestSize
      <4>1. k < Len(units) /\ EndOf(k) \in Nat /\ EndOf(k + 1) = EndOf(k) + SizeOf(k + 1)
        BY <1>0, <2>1, NextUnit DEF InFrame
      <4>2. SizeOf(k + 1) = HeaderSize + RestSize
        BY <2>4 DEF SizeOf
      <4> QED BY <4>1, <4>2, Sizes
    <3>2. EndOf(k) < consumed /\ consumed <= EndOf(k + 1)
      BY <2>1, <3>1, Sizes
    <3>3. AfterRefusal(k)'
      BY <1>0, <1>1, <2>1, <2>2, <2>4, <3>1, <3>2 DEF AfterRefusal
    <3> QED BY <1>4, <1>6, <2>1, <2>2, <3>3
  <2> QED BY <2>3, <2>4
<1>19. ASSUME FrameRead PROVE Goal
  <2>1. PICK k \in 0..Len(units) :
          /\ DecodedUpTo(k) /\ k < Len(units) /\ consumed = EndOf(k + 1)
          /\ IF units[k + 1] # "malformed"
             THEN /\ units[k + 1] \in {"data", "message"}
                  /\ frames' = Append(frames, k + 1)
                  /\ at' = IF units[k + 1] = "data" THEN "answer" ELSE "onpacket"
             ELSE at' = "refused" /\ frames' = frames
    BY <1>19, FrameIsJudged
  <2>2. consumed' = consumed
    BY <1>19 DEF FrameRead
  <2> DEFINE n == k + 1
  <2>3. n \in 0..Len(units) /\ n \in Nat /\ n > 0 /\ 1..n = (1..k) \cup {n}
    BY <1>2, <2>1
  <2>4. CASE units[n] # "malformed"
    <3>1. /\ units[n] \in {"data", "message"} /\ frames' = Append(frames, n)
          /\ at' = IF units[n] = "data" THEN "answer" ELSE "onpacket"
      BY <2>1, <2>4
    <3>2. frames \in Seq(Nat)
      BY <1>0, UnitsType DEF StreamTypeOK
    <3> HIDE DEF n
    <3>3. ToSet(frames') = ToSet(frames) \cup {n} /\ Last(frames') = n /\ frames' # <<>>
      BY <2>3, <3>1, <3>2, Appended
    <3>4. DecodedUpTo(n)'
      BY <1>0, <2>1, <2>3, <3>1, <3>3 DEF DecodedUpTo
    <3>5. consumed = EndOf(n)
      BY <2>1 DEF n
    <3>6. WithPacket(n)'
      BY <1>0, <1>1, <2>2, <2>3, <3>1, <3>3, <3>5 DEF WithPacket
    <3> QED BY <1>4, <2>3, <3>4, <3>6
  <2>5. CASE units[n] = "malformed"
    <3>1. EndOf(k) < EndOf(k + 1)
      BY <1>0, <2>1, NextUnit, Sizes
    <3>2. EndOf(k + 1) \in Nat
      BY <1>0, <2>1, NextUnit
    <3>3. AfterRefusal(k)'
      BY <1>0, <1>1, <2>1, <2>2, <2>5, <3>1, <3>2 DEF AfterRefusal
    <3> QED BY <1>4, <1>6, <2>1, <2>5, <3>3
  <2> QED BY <2>4, <2>5
<1>20. ASSUME at \in {"answer", "onpacket"}
       PROVE  \E k \in 0..Len(units) : DecodedUpTo(k) /\ WithPacket(k)
  <2>1. InConversation
    BY <1>7, <1>20
  <2> QED BY <1>20, <2>1 DEF InConversation, BetweenUnits, InFrame, AfterRefusal, AfterClose
<1>21. ASSUME Answer PROVE Goal
  <2>1. PICK k \in 0..Len(units) : DecodedUpTo(k) /\ WithPacket(k)
    BY <1>20, <1>21 DEF Answer
  <2>2. UNCHANGED <<consumed, frames>> /\ at = "answer" /\ at' = "onpacket"
    BY <1>21 DEF Answer
  <2>3. WithPacket(k)'
    BY <1>0, <1>1, <2>1, <2>2 DEF WithPacket
  <2> QED BY <1>4, <1>6, <2>1, <2>2, <2>3
<1>22. ASSUME OnPacket PROVE Goal
  <2>1. PICK k \in 0..Len(units) : DecodedUpTo(k) /\ WithPacket(k)
    BY <1>20, <1>22 DEF OnPacket
  <2>2. UNCHANGED <<consumed, frames>> /\ at' = "peek"
    BY <1>22 DEF OnPacket
  <2>3. BetweenUnits(k)'
    BY <1>1, <2>1, <2>2 DEF WithPacket, BetweenUnits
  <2> QED BY <1>4, <1>6, <2>1, <2>2, <2>3
<1>23. \A k \in DOMAIN units : (Post(k) => Goal) /\ (PostFails(k) => Goal)
  BY <1>5 DEF Post, PostFails
<1>24. UNCHANGED streamVars => Goal
  BY <1>5 DEF streamVars
<1> HIDE DEF Goal
<1>25. StreamNext => Goal
  BY <1>8, <1>9, <1>10, <1>11, <1>12, <1>15, <1>16, <1>17, <1>18, <1>19, <1>21, <1>22, <1>23,
     StreamStepCases
<1> QED BY <1>24, <1>25 DEF Goal

-----------------------------------------------------------------------------
(* With a packet in hand, it is the last one of frames.                    *)
LEMMA PacketInHand ==
  ASSUME StreamInv, at \in {"answer", "onpacket"}
  PROVE  /\ frames \in Seq(Nat) /\ acks \in Seq(Nat)
         /\ Last(frames) \in Nat /\ Last(frames) \in ToSet(frames)
         /\ \A m \in ToSet(frames) : m \in Nat /\ m <= Last(frames)
         /\ at = "answer" => units[Last(frames)] = "data"
<1>0. units \in Conversations /\ frames \in Seq(DOMAIN units) /\ acks \in Seq(DOMAIN units)
  BY DEF StreamInv, StreamTypeOK
<1>1. PICK k \in 0..Len(units) : DecodedUpTo(k) /\ WithPacket(k)
  BY DEF StreamInv, InGreeting, InConversation, BetweenUnits, InFrame, AfterRefusal, AfterClose
<1>2. k \in Nat /\ k \in 1..k /\ DOMAIN units \subseteq Nat
  BY <1>0, <1>1, UnitsType DEF WithPacket
<1>3. Last(frames) = k /\ units[k] \in {"data", "message"}
  BY <1>1 DEF WithPacket
<1>4. \A m \in ToSet(frames) : m \in Nat /\ m <= k
  BY <1>1, <1>2 DEF DecodedUpTo
<1>5. k \in ToSet(frames)
  BY <1>1, <1>2, <1>3 DEF DecodedUpTo
<1>6. at = "answer" => units[k] = "data"
  BY <1>1 DEF WithPacket
<1> QED BY <1>0, <1>2, <1>3, <1>4, <1>5, <1>6

(* Answers are of data that was decoded.                                   *)
LEMMA AnsweredIsData == AnswersFollow => ToSet(acks) \subseteq Data
BY DEF AnswersFollow

(* Every step leaves frames and answers in order, and at most the last     *)
(* frame without its answer.                                               *)
LEMMA AnswersStep == StreamInv /\ [StreamNext]_streamVars => AnswersFollow'
<1> SUFFICES ASSUME StreamInv, [StreamNext]_streamVars PROVE AnswersFollow'
  OBVIOUS
<1> DEFINE Goal == AnswersFollow'
<1>0. StreamTypeOK /\ AnswersFollow /\ units' = units
  BY UnitsStay DEF StreamInv
<1>1. ASSUME UNCHANGED <<frames, acks>>, at' = at \/ at' = "closed" PROVE Goal
  BY <1>0, <1>1 DEF AnswersFollow, InOrder, Data
<1>2. ASSUME UNCHANGED <<frames, acks>>, at' # "answer", at \notin {"answer", "closed"} PROVE Goal
  BY <1>0, <1>2 DEF AnswersFollow, InOrder, Data
<1> USE DEF tracker, input, output
<1>3. ASSUME FrameRead PROVE Goal
  <2>1. PICK k \in 0..Len(units) :
          /\ DecodedUpTo(k) /\ k < Len(units)
          /\ IF units[k + 1] # "malformed"
             THEN /\ units[k + 1] \in {"data", "message"}
                  /\ frames' = Append(frames, k + 1)
                  /\ at' = IF units[k + 1] = "data" THEN "answer" ELSE "onpacket"
             ELSE at' = "refused" /\ frames' = frames
    BY <1>3, FrameIsJudged
  <2>2. at = "rest" /\ acks' = acks
    BY <1>3 DEF FrameRead
  <2>3. CASE frames' = frames /\ at' = "refused"
    BY <1>2, <2>2, <2>3
  <2> DEFINE n == k + 1
  <2>4. CASE /\ units[n] \in {"data", "message"} /\ frames' = Append(frames, n)
             /\ at' = IF units[n] = "data" THEN "answer" ELSE "onpacket"
    <3>1. n \in Nat /\ k \in Nat /\ n > k
      BY <1>0, UnitsType DEF StreamTypeOK
    <3>2. frames \in Seq(Nat)
      BY <1>0, UnitsType DEF StreamTypeOK
    <3>3. \A m \in ToSet(frames) : m < n
      BY <2>1, <3>1 DEF DecodedUpTo
    <3> HIDE DEF n
    <3>4. /\ ToSet(frames') = ToSet(frames) \cup {n} /\ Last(frames') = n /\ frames' # <<>>
          /\ InOrder(frames')
      BY <1>0, <2>4, <3>1, <3>2, <3>3, Appended DEF AnswersFollow
    <3>5. ToSet(acks) = Data /\ n \notin Data
      BY <1>0, <2>2, <3>1, <3>3 DEF AnswersFollow, Data
    <3>6. Data' = IF units[n] = "data" THEN Data \cup {n} ELSE Data
      BY <1>0, <3>4 DEF Data
    <3>7. InOrder(acks)'
      BY <1>0, <2>2 DEF AnswersFollow, InOrder
    <3>8. CASE units[n] = "data"
      BY <2>2, <2>4, <3>4, <3>5, <3>6, <3>7, <3>8 DEF AnswersFollow
    <3>9. CASE units[n] # "data"
      BY <2>2, <2>4, <3>4, <3>5, <3>6, <3>7, <3>9 DEF AnswersFollow
    <3> QED BY <3>8, <3>9
  <2> QED BY <2>1, <2>3, <2>4
<1>4. ASSUME Answer PROVE Goal
  <2> DEFINE n == Last(frames)
  <2>1. at = "answer" /\ at' = "onpacket" /\ acks' = Append(acks, n) /\ frames' = frames
    BY <1>4 DEF Answer
  <2>2. /\ acks \in Seq(Nat) /\ n \in Nat
        /\ \A m \in ToSet(frames) : m \in Nat /\ m <= n
    BY <2>1, PacketInHand
  <2>3. ToSet(acks) = Data \ {n} /\ n \in Data /\ InOrder(acks) /\ InOrder(frames)
    BY <1>0, <2>1 DEF AnswersFollow
  <2> HIDE DEF n
  <2>4. \A m \in ToSet(acks) : m < n
    BY <2>2, <2>3 DEF Data
  <2>5. ToSet(acks') = ToSet(acks) \cup {n} /\ InOrder(acks')
    BY <2>1, <2>2, <2>3, <2>4, Appended
  <2>6. Data' = Data /\ InOrder(frames)'
    BY <1>0, <2>1, <2>3 DEF Data, InOrder
  <2> QED BY <2>1, <2>3, <2>5, <2>6 DEF AnswersFollow
<1>5. OnPacket => Goal
  BY <1>2 DEF OnPacket
<1>6. /\ Arrive => Goal
      /\ Fail => Goal
      /\ ReadLength => Goal
      /\ ReadImei => Goal
  BY <1>1, <1>2 DEF Arrive, Fail, ReadLength, ReadImei, Read
<1>7. /\ Fill => Goal
      /\ DiscardPing => Goal
      /\ BeginFrame => Goal
      /\ ReadSome => Goal
      /\ HeaderRead => Goal
  BY <1>1, <1>2 DEF Fill, DiscardPing, BeginFrame, ReadSome, HeaderRead
<1>8. \A k \in DOMAIN units : (Post(k) => Goal) /\ (PostFails(k) => Goal)
  BY <1>1 DEF Post, PostFails
<1>9. UNCHANGED streamVars => Goal
  BY <1>1 DEF streamVars
<1> HIDE DEF Goal
<1>10. StreamNext => Goal
  BY <1>3, <1>4, <1>5, <1>6, <1>7, <1>8, StreamStepCases
<1> QED BY <1>9, <1>10 DEF Goal

(* Every step leaves each packet with its one hook or its one post.        *)
LEMMA HooksStep == StreamInv /\ [StreamNext]_streamVars => HooksFollow'
<1> SUFFICES ASSUME StreamInv, [StreamNext]_streamVars PROVE HooksFollow'
  OBVIOUS
<1> DEFINE Goal == HooksFollow'
<1>0. StreamTypeOK /\ AnswersFollow /\ HooksFollow /\ units' = units
  BY UnitsStay DEF StreamInv
<1>1. ASSUME UNCHANGED <<frames, hooks, posts>>, ToSet(acks) \subseteq ToSet(acks'),
             at' \in {"answer", "onpacket"} => at \in {"answer", "onpacket"}
      PROVE  Goal
  BY <1>0, <1>1 DEF HooksFollow
<1> USE DEF tracker, input, output
<1>2. ASSUME FrameRead PROVE Goal
  <2>1. PICK k \in 0..Len(units) :
          /\ DecodedUpTo(k) /\ k < Len(units)
          /\ IF units[k + 1] # "malformed"
             THEN /\ units[k + 1] \in {"data", "message"}
                  /\ frames' = Append(frames, k + 1)
                  /\ at' = IF units[k + 1] = "data" THEN "answer" ELSE "onpacket"
             ELSE at' = "refused" /\ frames' = frames
    BY <1>2, FrameIsJudged
  <2>2. UNCHANGED <<acks, hooks, posts>>
    BY <1>2 DEF FrameRead
  <2>3. CASE frames' = frames /\ at' = "refused"
    BY <1>1, <2>2, <2>3
  <2>4. CASE frames' = Append(frames, k + 1)
    <3>1. k + 1 \in Nat /\ frames \in Seq(Nat) /\ k \in Nat
      BY <1>0, UnitsType DEF StreamTypeOK
    <3>2. Last(frames') = k + 1
      BY <2>4, <3>1, Appended
    <3>3. k + 1 \notin ToSet(acks)
      <4>1. k + 1 \notin ToSet(frames)
        BY <2>1, <3>1 DEF DecodedUpTo
      <4> QED BY <1>0, <4>1, AnsweredIsData DEF Data
    <3> QED BY <1>0, <2>2, <3>2, <3>3 DEF HooksFollow
  <2> QED BY <2>1, <2>3, <2>4
<1>3. ASSUME Answer PROVE Goal
  <2>1. /\ at = "answer" /\ at' = "onpacket" /\ acks' = Append(acks, Last(frames))
        /\ UNCHANGED <<frames, hooks, posts>>
    BY <1>3 DEF Answer
  <2>2. acks \in Seq(Nat) /\ Last(frames) \in Nat
    BY <2>1, PacketInHand
  <2>3. ToSet(acks) \subseteq ToSet(acks')
    BY <2>1, <2>2, Appended
  <2> QED BY <1>1, <2>1, <2>3
<1>4. ASSUME OnPacket PROVE Goal
  <2> DEFINE n == Last(frames)
  <2>1. /\ at = "onpacket" /\ at' = "peek" /\ UNCHANGED <<frames, acks, posts>>
        /\ hooks' = IF units[n] = "data" THEN hooks \cup {n} ELSE hooks
    BY <1>4 DEF OnPacket
  <2>2. units[n] = "data" => n \in ToSet(acks)
    BY <1>0, <2>1, PacketInHand DEF AnswersFollow, Data
  <2>3. \A p \in posts : p.packet # n
    BY <1>0, <2>1 DEF HooksFollow
  <2> HIDE DEF n
  <2> QED BY <1>0, <2>1, <2>2, <2>3 DEF HooksFollow
<1>5. ASSUME NEW k \in DOMAIN units, Post(k) PROVE Goal
  <2>1. /\ k \in hooks /\ hooks' = hooks \ {k} /\ UNCHANGED <<at, frames, acks>>
        /\ posts' = posts \cup {[packet |-> k, from |-> {k}]}
    BY <1>5 DEF Post
  <2>2. ASSUME NEW p \in posts'
        PROVE  /\ p.from = {p.packet} /\ p.packet \in ToSet(acks) \ hooks'
               /\ at \in {"answer", "onpacket"} => p.packet # Last(frames)
    <3>1. CASE p \in posts
      BY <1>0, <2>1, <3>1 DEF HooksFollow
    <3>2. CASE p = [packet |-> k, from |-> {k}]
      BY <1>0, <2>1, <3>2 DEF HooksFollow
    <3> QED BY <2>1, <3>1, <3>2
  <2> QED BY <1>0, <2>1, <2>2 DEF HooksFollow
<1>6. ASSUME NEW k \in DOMAIN units, PostFails(k) PROVE Goal
  BY <1>0, <1>6 DEF PostFails, HooksFollow
<1>7. /\ Arrive => Goal
      /\ Fail => Goal
      /\ ReadLength => Goal
      /\ ReadImei => Goal
  BY <1>1 DEF Arrive, Fail, ReadLength, ReadImei, Read
<1>8. /\ Fill => Goal
      /\ DiscardPing => Goal
      /\ BeginFrame => Goal
      /\ ReadSome => Goal
      /\ HeaderRead => Goal
  BY <1>1 DEF Fill, DiscardPing, BeginFrame, ReadSome, HeaderRead
<1>9. UNCHANGED streamVars => Goal
  BY <1>1 DEF streamVars
<1> HIDE DEF Goal
<1>10. StreamNext => Goal
  BY <1>2, <1>3, <1>4, <1>5, <1>6, <1>7, <1>8, StreamStepCases
<1> QED BY <1>9, <1>10 DEF Goal

(* The invariant holds at first.                                           *)
LEMMA StreamInvInit == StreamInit => StreamInv
<1> SUFFICES ASSUME StreamInit PROVE StreamInv
  OBVIOUS
<1>1. 0 < EndOf(0)
  BY EndOfGreeting, Sizes DEF StreamInit
<1>2. InGreeting
  BY <1>1 DEF StreamInit, InGreeting
<1>3. AnswersFollow
  BY DEF StreamInit, AnswersFollow, InOrder, Data, ToSet
<1>4. HooksFollow
  BY DEF StreamInit, HooksFollow
<1> QED BY <1>2, <1>3, <1>4, StreamTypeInit DEF StreamInv

(* Whatever arrives when, the reader knows its place in the conversation,  *)
(* and all that was decoded, answered and posted follows from it.          *)
THEOREM StreamInvariance == StreamSpec => []StreamInv
<1>1. StreamInv /\ [StreamNext]_streamVars => StreamInv'
  BY StreamTypeStep, PlaceStep, AnswersStep, HooksStep DEF StreamInv
<1> QED BY <1>1, StreamInvInit, PTL DEF StreamSpec
-----------------------------------------------------------------------------
(* The numbers of bytes stay in their order and readBuffer keeps its size, *)
(* however the stream is cut (readFromReader, handleConnection).           *)
THEOREM StreamTypes == StreamSpec => []StreamTypeOK
<1>1. StreamInv => StreamTypeOK
  BY DEF StreamInv
<1> QED BY <1>1, StreamInvariance, PTL

(* handleConnection looks for a ping or a frame only where the tracker     *)
(* began one.                                                              *)
THEOREM TheReaderIsAligned == StreamSpec => []ReaderIsAligned
<1>1. StreamInv => ReaderIsAligned
  <2> SUFFICES ASSUME StreamInv PROVE ReaderIsAligned
    OBVIOUS
  <2>1. at = "peek" => \E k \in 0..Len(units) : consumed = EndOf(k)
    BY DEF StreamInv, InGreeting, InConversation, BetweenUnits, InFrame, WithPacket, AfterRefusal,
           AfterClose
  <2>2. at \in {"header", "rest"} => \E k \in 0..Len(units) : consumed = EndOf(k) + Filled
    BY InsideAFrame DEF InFrame
  <2> QED BY <2>1, <2>2 DEF ReaderIsAligned
<1> QED BY <1>1, StreamInvariance, PTL

(* No frame is refused for the pieces it came in: readFromReader puts it   *)
(* together.                                                               *)
THEOREM RefusalsAreDeserved == StreamSpec => []OnlyBadFramesAreRefused
<1>1. StreamInv => OnlyBadFramesAreRefused
  <2> SUFFICES ASSUME StreamInv, at = "refused" PROVE OnlyBadFramesAreRefused
    BY DEF OnlyBadFramesAreRefused
  <2>1. PICK k \in 0..Len(units) : AfterRefusal(k)
    BY DEF StreamInv, InGreeting, InConversation, BetweenUnits, InFrame, WithPacket, AfterClose
  <2> DEFINE n == k + 1
  <2>2. n \in DOMAIN units /\ n - 1 = k
    BY <2>1, UnitsType DEF StreamInv, StreamTypeOK, AfterRefusal
  <2>3. /\ units[n] \in {"oversized", "malformed"}
        /\ EndOf(n - 1) < consumed /\ consumed <= EndOf(n)
    BY <2>1, <2>2 DEF AfterRefusal
  <2> HIDE DEF n
  <2> QED BY <2>2, <2>3 DEF OnlyBadFramesAreRefused
<1> QED BY <1>1, StreamInvariance, PTL

(* hookSend posts what it copied from its own packet, although readBuffer  *)
(* was filled again meanwhile.                                             *)
THEOREM PostsAreFaithful == StreamSpec => []PostsAreOfTheirPacket
<1>1. StreamInv => PostsAreOfTheirPacket
  BY DEF StreamInv, HooksFollow, PostsAreOfTheirPacket
<1> QED BY <1>1, StreamInvariance, PTL

(* Which units end within what was consumed.                               *)
LEMMA WholeUnits ==
  ASSUME StreamInv, NEW k \in 0..Len(units), ~(at = "rest" /\ need = 0),
         BetweenUnits(k) \/ InFrame(k) \/ WithPacket(k) \/ AfterRefusal(k) \/ AfterClose(k),
         NEW i \in DOMAIN units, units[i] \in {"data", "message"}
  PROVE  EndOf(i) <= consumed <=> i <= k
<1>0. /\ StreamTypeOK /\ units \in Conversations /\ k \in Nat /\ i \in Nat
      /\ i \in 1..Len(units) /\ i \in 0..Len(units) /\ Len(units) \in Nat
  BY UnitsType DEF StreamInv, StreamTypeOK
<1>1. EndOf(k) \in Nat /\ EndOf(i) \in Nat
  BY <1>0, EndsAreNumbers
<1>2. EndOf(k) <= consumed /\ consumed \in Nat
  <2>1. consumed \in Nat
    <3>1. Len(Stream) \in Nat
      BY <1>0, StreamLayout
    <3> QED BY <1>0, <3>1 DEF StreamTypeOK
  <2>2. InFrame(k) => Filled \in Nat
    BY Sizes DEF InFrame, Filled
  <2> QED BY <1>1, <2>1, <2>2 DEF BetweenUnits, InFrame, WithPacket, AfterRefusal, AfterClose
<1>3. ASSUME i <= k PROVE EndOf(i) <= consumed
  <2>1. i \in 1..k
    BY <1>0, <1>3
  <2>2. EndOf(i) <= EndOf(k)
    BY <1>0, <2>1, UnitPlace
  <2> QED BY <1>1, <1>2, <2>2
<1>4. ASSUME k < i PROVE consumed < EndOf(i)
  <2>1. /\ k < Len(units) /\ k + 1 \in 0..Len(units) /\ k + 1 \in 1..i
    BY <1>0, <1>4
  <2>2. /\ EndOf(k + 1) \in Nat /\ EndOf(k + 1) = EndOf(k) + SizeOf(k + 1)
        /\ SizeOf(k + 1) \in Nat \ {0}
    BY <1>0, <2>1, NextUnit, Sizes
  <2>3. EndOf(k + 1) <= EndOf(i)
    BY <1>0, <2>1, UnitPlace
  <2>4. CASE AfterRefusal(k)
    <3>1. k + 1 # i
      BY <2>4 DEF AfterRefusal
    <3>2. k + 1 < i
      BY <1>0, <1>4, <3>1
    <3>3. EndOf(k + 1) < EndOf(i)
      BY <1>0, <2>1, <3>2, EndsAreInOrder
    <3>4. consumed <= EndOf(k + 1)
      BY <2>4 DEF AfterRefusal
    <3> QED BY <1>1, <1>2, <2>2, <3>3, <3>4
  <2>5. CASE BetweenUnits(k) \/ WithPacket(k) \/ AfterClose(k)
    <3>1. consumed < EndOf(k + 1)
      BY <1>1, <2>1, <2>2, <2>5 DEF BetweenUnits, WithPacket, AfterClose
    <3> QED BY <1>1, <1>2, <2>2, <2>3, <3>1
  <2>6. CASE InFrame(k)
    <3>1. consumed < EndOf(k + 1)
      BY <1>1, <2>2, <2>6, Sizes, SMTT(30) DEF InFrame, Filled, SizeOf
    <3> QED BY <1>1, <1>2, <2>2, <2>3, <3>1
  <2> QED BY <2>4, <2>5, <2>6
<1> QED BY <1>0, <1>1, <1>2, <1>3, <1>4

(* Exactly the data and messages that lie whole in what was consumed are   *)
(* decoded, once and in order, and answered in order.                      *)
THEOREM FramesComeOutWhole == StreamSpec => []FramesAreTheStreams
<1>1. StreamInv => FramesAreTheStreams
  <2> SUFFICES ASSUME StreamInv PROVE FramesAreTheStreams
    OBVIOUS
  <2> DEFINE whole == {k \in DOMAIN units :
                         EndOf(k) <= consumed /\ units[k] \in {"data", "message"}}
  <2>0. units \in Conversations /\ DOMAIN units = 1..Len(units) /\ Len(units) \in Nat
    BY UnitsType DEF StreamInv, StreamTypeOK
  <2>1. ASSUME ~(at = "rest" /\ need = 0) PROVE ToSet(frames) = whole
    <3>1. CASE InGreeting
      <4>1. ASSUME NEW k \in DOMAIN units PROVE ~(EndOf(k) <= consumed)
        <5>1. /\ EndOf(0) \in Nat /\ EndOf(k) \in Nat /\ EndOf(0) < EndOf(k)
          BY <2>0, EndsAreNumbers, EndsAreInOrder
        <5>2. consumed \in Nat
          <6>1. Len(Stream) \in Nat
            BY <2>0, StreamLayout
          <6> QED BY <6>1 DEF StreamInv, StreamTypeOK
        <5> QED BY <3>1, <5>1, <5>2 DEF InGreeting
      <4>2. ToSet(frames) = {}
        BY <3>1 DEF InGreeting, ToSet
      <4> QED BY <4>1, <4>2
    <3>2. CASE InConversation
      <4>1. PICK k \in 0..Len(units) :
              /\ DecodedUpTo(k)
              /\ BetweenUnits(k) \/ InFrame(k) \/ WithPacket(k) \/ AfterRefusal(k) \/ AfterClose(k)
        BY <3>2 DEF InConversation
      <4>2. \A i \in DOMAIN units :
              units[i] \in {"data", "message"} => (EndOf(i) <= consumed <=> i <= k)
        BY <2>1, <4>1, WholeUnits
      <4>3. \A i \in DOMAIN units : i <= k <=> i \in 1..k
        BY <2>0
      <4>4. 1..k \subseteq DOMAIN units
        BY <2>0
      <4> QED BY <4>1, <4>2, <4>3, <4>4 DEF DecodedUpTo
    <3> QED BY <3>1, <3>2 DEF StreamInv
  <2> QED BY <2>1 DEF StreamInv, AnswersFollow, Data, FramesAreTheStreams
<1> QED BY <1>1, StreamInvariance, PTL

-----------------------------------------------------------------------------
(***************************************************************************)
(* The server implements AvlDelivery.                                      *)
(***************************************************************************)
(* Where packet k was answered, and its posts.                             *)
AnswersTo(s, k) == {i \in DOMAIN s : s[i] = k}

PostsOf(s, k) == {p \in s : p.packet = k}

(* AvlDelivery's variables.                                                *)
Acked == [k \in Places |-> Cardinality(AnswersTo(acks, k))]

Owed ==
  [k \in Places |->
     IF k \in hooks \/ (at = "onpacket" /\ Last(frames) = k /\ k \in ToSet(acks)) THEN 1 ELSE 0]

Reported == [k \in Places |-> Cardinality(PostsOf(posts, k))]

(* These are what AvlDelivery's variables are mapped to.                   *)
LEMMA TheMapping ==
  /\ Delivery!deliveryVars = <<Acked, Owed, Reported>>
  /\ Delivery!deliveryVars' = <<Acked', Owed', Reported'>>
BY DEF Delivery!deliveryVars, Acked, Owed, Reported, AnswersTo, PostsOf

(* Changes of one packet that are steps of AvlDelivery.                    *)
LEMMA MappedSteps ==
  ASSUME NEW k \in Places
  PROVE  /\ /\ Acked' = [Acked EXCEPT ![k] = @ + 1]
            /\ Owed' = [Owed EXCEPT ![k] = @ + 1]
            /\ Reported' = Reported
            => Delivery!Next
         /\ /\ Acked' = Acked
            /\ Owed[k] > 0 /\ Owed' = [Owed EXCEPT ![k] = @ - 1]
            /\ \/ Reported' = [Reported EXCEPT ![k] = @ + 1]
               \/ Reported' = Reported
            => Delivery!Next
<1>1. ASSUME Acked' = [Acked EXCEPT ![k] = @ + 1], Owed' = [Owed EXCEPT ![k] = @ + 1],
             Reported' = Reported
      PROVE  Delivery!Next
  <2>1. Delivery!Acknowledge(k)
    BY <1>1 DEF Delivery!Acknowledge, Acked, Owed, Reported, AnswersTo, PostsOf
  <2> QED BY <2>1 DEF Delivery!Next
<1>2. ASSUME Acked' = Acked, Owed[k] > 0, Owed' = [Owed EXCEPT ![k] = @ - 1],
             \/ Reported' = [Reported EXCEPT ![k] = @ + 1]
             \/ Reported' = Reported
      PROVE  Delivery!Next
  <2>1. Delivery!Settle(k)
    BY <1>2 DEF Delivery!Settle, Acked, Owed, Reported, AnswersTo, PostsOf
  <2>2. Delivery!Report(k) \/ Delivery!Lose(k)
    BY <1>2, <2>1 DEF Delivery!Report, Delivery!Lose, Reported, PostsOf
  <2> QED BY <2>2 DEF Delivery!Next
<1> QED BY <1>1, <1>2

(* An answer that is appended is one more to its packet.                   *)
LEMMA OneAnswerMore ==
  ASSUME NEW s \in Seq(Nat), NEW x \in Nat, NEW k
  PROVE  Cardinality(AnswersTo(Append(s, x), k)) =
           IF x = k THEN Cardinality(AnswersTo(s, k)) + 1 ELSE Cardinality(AnswersTo(s, k))
<1>1. IsFiniteSet(AnswersTo(s, k))
  <2>1. IsFiniteSet(1..Len(s)) /\ AnswersTo(s, k) \in SUBSET (1..Len(s))
    BY FS_Interval DEF AnswersTo
  <2> QED BY <2>1, FS_Subset
<1>2. CASE x = k
  <2>1. /\ AnswersTo(Append(s, x), k) = AnswersTo(s, k) \cup {Len(s) + 1}
        /\ Len(s) + 1 \notin AnswersTo(s, k)
    BY <1>2 DEF AnswersTo
  <2> QED BY <1>1, <1>2, <2>1, FS_AddElement
<1>3. CASE x # k
  <2>1. AnswersTo(Append(s, x), k) = AnswersTo(s, k)
    BY <1>3 DEF AnswersTo
  <2> QED BY <1>3, <2>1
<1> QED BY <1>2, <1>3

(* Places are the places of all conversations.                             *)
LEMMA UnitsHavePlaces == StreamTypeOK => DOMAIN units \subseteq Places
BY DEF StreamTypeOK, Places

(* Nothing is owed at first.                                               *)
LEMMA StreamDeliveryInit == StreamInit => Delivery!Init
<1> SUFFICES ASSUME StreamInit PROVE Delivery!Init
  OBVIOUS
<1>1. \A k \in Places : AnswersTo(acks, k) = {} /\ PostsOf(posts, k) = {}
  BY DEF StreamInit, AnswersTo, PostsOf
<1>2. /\ Acked = [k \in Places |-> 0] /\ Reported = [k \in Places |-> 0]
  BY <1>1, FS_EmptySet DEF Acked, Reported
<1>3. Owed = [k \in Places |-> 0]
  BY DEF StreamInit, Owed
<1> QED BY <1>2, <1>3 DEF Delivery!Init, Acked, Owed, Reported, AnswersTo, PostsOf

(* Each step of the reader is a step of AvlDelivery or leaves it alone.    *)
LEMMA StreamDeliveryStep ==
  StreamInv /\ [StreamNext]_streamVars => [Delivery!Next]_<<Acked, Owed, Reported>>
<1> DEFINE Goal == [Delivery!Next]_<<Acked, Owed, Reported>>
<1> SUFFICES ASSUME StreamInv, [StreamNext]_streamVars PROVE Goal
  OBVIOUS
<1>0. /\ StreamTypeOK /\ AnswersFollow /\ HooksFollow
      /\ DOMAIN units \subseteq Places
  BY UnitsHavePlaces DEF StreamInv
<1>1. ASSUME UNCHANGED <<acks, hooks, posts, frames>>,
             at' = at \/ (at # "onpacket" /\ at' # "onpacket")
      PROVE  Goal
  BY <1>1 DEF Acked, Owed, Reported
<1>2. DOMAIN Acked = Places /\ DOMAIN Owed = Places /\ DOMAIN Reported = Places
  BY DEF Acked, Owed, Reported
<1> USE DEF tracker, input, output
<1>3. ASSUME FrameRead PROVE Goal
  <2>1. PICK k \in 0..Len(units) :
          /\ DecodedUpTo(k) /\ k < Len(units)
          /\ IF units[k + 1] # "malformed"
             THEN /\ units[k + 1] \in {"data", "message"}
                  /\ frames' = Append(frames, k + 1)
                  /\ at' = IF units[k + 1] = "data" THEN "answer" ELSE "onpacket"
             ELSE at' = "refused" /\ frames' = frames
    BY <1>3, FrameIsJudged
  <2>2. UNCHANGED <<acks, hooks, posts>> /\ at = "rest"
    BY <1>3 DEF FrameRead
  <2>3. CASE frames' = frames /\ at' = "refused"
    BY <1>1, <2>2, <2>3
  <2>4. CASE frames' = Append(frames, k + 1)
    <3>1. k + 1 \in Nat /\ frames \in Seq(Nat) /\ k \in Nat
      BY <1>0, UnitsType DEF StreamTypeOK
    <3>2. Last(frames') = k + 1
      BY <2>4, <3>1, Appended
    <3>3. k + 1 \notin ToSet(acks)
      <4>1. k + 1 \notin ToSet(frames)
        BY <2>1, <3>1 DEF DecodedUpTo
      <4> QED BY <1>0, <4>1, AnsweredIsData DEF Data
    <3>4. Owed' = Owed
      BY <2>2, <3>2, <3>3 DEF Owed
    <3>5. Acked' = Acked /\ Reported' = Reported
      BY <2>2 DEF Acked, Reported
    <3> QED BY <3>4, <3>5
  <2> QED BY <2>1, <2>3, <2>4
<1>4. ASSUME Answer PROVE Goal
  <2> DEFINE n == Last(frames)
  <2>1. /\ at = "answer" /\ at' = "onpacket" /\ acks' = Append(acks, n)
        /\ UNCHANGED <<frames, hooks, posts>>
    BY <1>4 DEF Answer
  <2>2. acks \in Seq(Nat) /\ n \in Nat /\ n \in ToSet(frames)
    BY <2>1, PacketInHand
  <2>3. n \in Places
    <3>1. ToSet(frames) \subseteq DOMAIN units
      BY <1>0 DEF StreamTypeOK, ToSet
    <3> QED BY <1>0, <2>2, <3>1
  <2>4. n \notin hooks
    BY <1>0, <2>1 DEF HooksFollow
  <2> HIDE DEF n
  <2>5. n \in ToSet(acks')
    BY <2>1, <2>2, Appended
  <2>6. Acked' = [Acked EXCEPT ![n] = @ + 1]
    <3>1. \A k \in Places : Acked'[k] = IF n = k THEN Acked[k] + 1 ELSE Acked[k]
      BY <2>1, <2>2, OneAnswerMore DEF Acked
    <3>2. DOMAIN Acked' = Places /\ Acked' = [k \in Places |-> Acked'[k]]
      BY DEF Acked
    <3> HIDE DEF Acked
    <3> QED BY <1>2, <2>3, <3>1, <3>2
  <2>7. Owed' = [Owed EXCEPT ![n] = @ + 1]
    <3>1. \A k \in Places : Owed'[k] = IF n = k THEN 1 ELSE Owed[k]
      BY <2>1, <2>4, <2>5 DEF Owed, n
    <3>2. Owed[n] = 0
      BY <2>1, <2>3, <2>4 DEF Owed
    <3>3. DOMAIN Owed' = Places /\ Owed' = [k \in Places |-> Owed'[k]]
      BY DEF Owed
    <3> QED BY <1>2, <2>3, <3>1, <3>2, <3>3
  <2>8. Reported' = Reported
    BY <2>1 DEF Reported
  <2> QED BY <2>3, <2>6, <2>7, <2>8, MappedSteps
<1>5. ASSUME OnPacket PROVE Goal
  <2> DEFINE n == Last(frames)
  <2>1. /\ at = "onpacket" /\ at' = "peek" /\ UNCHANGED <<frames, acks, posts>>
        /\ hooks' = IF units[n] = "data" THEN hooks \cup {n} ELSE hooks
    BY <1>5 DEF OnPacket
  <2>2. units[n] = "data" <=> n \in ToSet(acks)
    BY <1>0, <2>1, PacketInHand DEF AnswersFollow, Data
  <2>3. Owed' = Owed
    BY <2>1, <2>2 DEF Owed
  <2>4. Acked' = Acked /\ Reported' = Reported
    BY <2>1 DEF Acked, Reported
  <2> QED BY <2>3, <2>4
<1>6. ASSUME NEW k \in DOMAIN units, k \in hooks, hooks' = hooks \ {k},
             UNCHANGED <<at, frames, acks>>
      PROVE  /\ k \in Places /\ Acked' = Acked
             /\ Owed[k] > 0 /\ Owed' = [Owed EXCEPT ![k] = @ - 1]
  <2>1. k \in Places /\ Acked' = Acked
    BY <1>0, <1>6 DEF Acked
  <2>2. at = "onpacket" => Last(frames) # k
    BY <1>0, <1>6 DEF HooksFollow
  <2>3. Owed[k] = 1
    BY <1>6, <2>1 DEF Owed
  <2>4. \A m \in Places : Owed'[m] = IF m = k THEN 0 ELSE Owed[m]
    BY <1>6, <2>2 DEF Owed
  <2>5. DOMAIN Owed' = Places /\ Owed' = [m \in Places |-> Owed'[m]]
    BY DEF Owed
  <2> QED BY <1>2, <2>1, <2>3, <2>4, <2>5
<1>7. ASSUME NEW k \in DOMAIN units, Post(k) PROVE Goal
  <2> DEFINE post == [packet |-> k, from |-> {k}]
  <2>1. /\ k \in hooks /\ hooks' = hooks \ {k} /\ UNCHANGED <<at, frames, acks>>
        /\ posts' = posts \cup {post}
    BY <1>7 DEF Post
  <2>2. /\ k \in Places /\ Acked' = Acked
        /\ Owed[k] > 0 /\ Owed' = [Owed EXCEPT ![k] = @ - 1]
    BY <1>6, <2>1
  <2>3. PostsOf(posts, k) = {} /\ PostsOf(posts', k) = {post}
    BY <1>0, <2>1 DEF HooksFollow, PostsOf
  <2>4. Reported[k] = 0 /\ Reported'[k] = 1
    BY <2>2, <2>3, FS_EmptySet, FS_Singleton DEF Reported
  <2>5. \A m \in Places : m # k => PostsOf(posts', m) = PostsOf(posts, m)
    BY <2>1 DEF PostsOf
  <2>6. \A m \in Places : Reported'[m] = IF m = k THEN 1 ELSE Reported[m]
    BY <2>4, <2>5 DEF Reported
  <2>7. DOMAIN Reported' = Places /\ Reported' = [m \in Places |-> Reported'[m]]
    BY DEF Reported
  <2>8. Reported' = [Reported EXCEPT ![k] = @ + 1]
    <3>1. k \in Places /\ Reported[k] + 1 = 1
      BY <2>2, <2>4
    <3>2. DOMAIN Reported = Places
      BY <1>2
    <3> HIDE DEF post
    <3> QED BY <2>6, <2>7, <3>1, <3>2
  <2> QED BY <2>2, <2>8, MappedSteps
<1>8. ASSUME NEW k \in DOMAIN units, PostFails(k) PROVE Goal
  <2>1. /\ k \in hooks /\ hooks' = hooks \ {k} /\ UNCHANGED <<at, frames, acks, posts>>
    BY <1>8 DEF PostFails
  <2>2. /\ k \in Places /\ Acked' = Acked
        /\ Owed[k] > 0 /\ Owed' = [Owed EXCEPT ![k] = @ - 1]
    BY <1>6, <2>1
  <2>3. Reported' = Reported
    BY <2>1 DEF Reported
  <2> QED BY <2>2, <2>3, MappedSteps
<1>9. /\ Arrive => Goal
      /\ Fail => Goal
      /\ ReadLength => Goal
      /\ ReadImei => Goal
  BY <1>1 DEF Arrive, Fail, ReadLength, ReadImei, Read
<1>10. /\ Fill => Goal
       /\ DiscardPing => Goal
       /\ BeginFrame => Goal
       /\ ReadSome => Goal
       /\ HeaderRead => Goal
  BY <1>1 DEF Fill, DiscardPing, BeginFrame, ReadSome, HeaderRead
<1>11. UNCHANGED streamVars => Goal
  BY <1>1 DEF streamVars
<1> HIDE DEF Goal
<1>12. StreamNext => Goal
  BY <1>3, <1>4, <1>5, <1>7, <1>8, <1>9, <1>10, StreamStepCases
<1> QED BY <1>11, <1>12 DEF Goal

(* Data is handed on only after its answer was written, once, and posted   *)
(* at most once (handleConnection, OnPacket and hookSend of the TCP        *)
(* server).                                                                *)
THEOREM StreamImplementsDelivery == StreamSpec => StreamDeliverySpec
<1>1. StreamInit => Delivery!Init
  BY StreamDeliveryInit
<1>2. StreamInv /\ [StreamNext]_streamVars => [Delivery!Next]_(Delivery!deliveryVars)
  BY StreamDeliveryStep, TheMapping
<1> QED BY <1>1, <1>2, StreamInvariance, PTL DEF StreamSpec, StreamDeliverySpec, Delivery!Spec
=============================================================================
