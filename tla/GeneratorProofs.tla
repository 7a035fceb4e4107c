--------------------------- MODULE GeneratorProofs ---------------------------
(***************************************************************************)
(* Theorems about Generator, for any models, any wiki, any number of runs  *)
(* and of failures.                                                        *)
(***************************************************************************)
EXTENDS Generator, Induction, FiniteSetTheorems, SequenceTheorems, TLAPS

(***************************************************************************)
(* The work list.                                                          *)
(***************************************************************************)
(* One link is put on the work list unless it is there.                    *)
AddLink(urls, link) == IF link \in ToSet(urls) THEN urls ELSE Append(urls, link)

(* urls is a work list that has grown from old by the links.               *)
GrownBy(old, urls, links) ==
  /\ urls \in Seq(Models) /\ IsInjective(urls)
  /\ Len(old) <= Len(urls) /\ \A h \in 1..Len(old) : urls[h] = old[h]
  /\ ToSet(urls) = ToSet(old) \cup links

(* AddLinks takes its result from a function that adds one link at a time. *)
LEMMA AddLinksIsRecursive ==
  ASSUME NEW urls \in Seq(Models), NEW links \in Seq(Models)
  PROVE  \E f : /\ f[0] = urls
                /\ \A k \in 1..Len(links) : f[k] = AddLink(f[k - 1], links[k])
                /\ AddLinks(urls, links) = f[Len(links)]
<1> DEFINE n == Len(links)
           P(f) == f = [k \in 0..n |->
                          IF k = 0 THEN urls
                          ELSE IF links[k] \in ToSet(f[k - 1]) THEN f[k - 1]
                          ELSE Append(f[k - 1], links[k])]
           f0 == CHOOSE f : P(f)
           step == [k \in 1..n |-> [u \in Seq(Models) |-> AddLink(u, links[k])]]
<1>0. n \in Nat /\ \A k \in 1..n : links[k] \in Models
  OBVIOUS
<1>1. AddLinks(urls, links) = f0[n]
  BY DEF AddLinks
<1>2. \E f : P(f)
  <2>1. step \in Steps(n, Seq(Models))
    <3>1. \A k \in 1..n, u \in Seq(Models) : AddLink(u, links[k]) \in Seq(Models)
      BY <1>0 DEF AddLink
    <3> QED BY <3>1 DEF Steps
  <2>2. PICK f : Runs(f, n, Seq(Models), urls, step)
    <3> DEFINE S == Seq(Models)
    <3>1. n \in Nat /\ urls \in S /\ step \in Steps(n, S)
      BY <2>1
    <3> HIDE DEF n, step, S, P, f0
    <3>2. \E f : Runs(f, n, S, urls, step)
      BY <3>1, RecursionExists
    <3> QED BY <3>2 DEF S
  <2>3. ASSUME NEW k \in 1..n PROVE f[k] = AddLink(f[k - 1], links[k])
    <3>1. f[k - 1] \in Seq(Models)
      BY <1>0, <2>2, SMTT(30) DEF Runs
    <3> QED BY <2>2, <3>1 DEF Runs
  <2>4. P(f)
    <3> HIDE DEF n
    <3>1. \A k \in 0..n : k = 0 \/ k \in 1..n
      BY <1>0
    <3> QED BY <2>2, <2>3, <3>1 DEF AddLink, Runs
  <2> HIDE DEF P
  <2> QED BY <2>4
<1>3. P(f0)
  <2> HIDE DEF P
  <2> QED BY <1>2
<1>4. ASSUME NEW k \in 1..n PROVE f0[k] = AddLink(f0[k - 1], links[k])
  <2> HIDE DEF f0
  <2>1. k \in 0..n /\ k # 0
    BY <1>0
  <2> HIDE DEF n
  <2> QED BY <1>3, <2>1 DEF AddLink
<1>5. f0[0] = urls
  <2> HIDE DEF f0
  <2> QED BY <1>0, <1>3
<1> HIDE DEF f0
<1> QED BY <1>1, <1>4, <1>5

(* A work list on which no page is twice has none twice with another link. *)
LEMMA AddLinkAdds ==
  ASSUME NEW old \in Seq(Models), NEW links, NEW urls, GrownBy(old, urls, links),
         NEW link \in Models
  PROVE  GrownBy(old, AddLink(urls, link), links \cup {link})
<1> USE DEF GrownBy
<1>1. CASE link \in ToSet(urls)
  BY <1>1 DEF AddLink
<1>2. CASE link \notin ToSet(urls)
  <2> DEFINE new == Append(urls, link)
  <2>1. /\ new \in Seq(Models) /\ Len(new) = Len(urls) + 1 /\ DOMAIN new = 1..(Len(urls) + 1)
        /\ \A h \in 1..Len(urls) : new[h] = urls[h]
        /\ new[Len(urls) + 1] = link
    OBVIOUS
  <2>2. DOMAIN urls = 1..Len(urls) /\ Len(urls) \in Nat /\ Len(old) \in Nat
    OBVIOUS
  <2> HIDE DEF new
  <2>3. \A h \in 1..Len(urls) : urls[h] # link
    BY <1>2, <2>2 DEF ToSet
  <2>4. IsInjective(new)
    <3>1. \A h \in DOMAIN new : h \in 1..Len(urls) \/ h = Len(urls) + 1
      BY <2>1, <2>2
    <3> QED BY <2>1, <2>2, <2>3, <3>1 DEF IsInjective
  <2>5. ToSet(new) = ToSet(urls) \cup {link}
    <3>1. \A h \in DOMAIN new : h \in 1..Len(urls) \/ h = Len(urls) + 1
      BY <2>1, <2>2
    <3>2. Len(urls) + 1 \in DOMAIN new /\ \A h \in 1..Len(urls) : h \in DOMAIN new
      BY <2>1, <2>2
    <3> QED BY <2>1, <2>2, <3>1, <3>2, SMTT(30) DEF ToSet
  <2>6. /\ Len(old) <= Len(new)
        /\ \A h \in 1..Len(old) : new[h] = old[h]
    BY <2>1, <2>2
  <2>7. AddLink(urls, link) = new
    BY <1>2 DEF AddLink, new
  <2>8. ToSet(new) = ToSet(old) \cup (links \cup {link})
    BY <2>5
  <2> QED BY <2>1, <2>4, <2>6, <2>7, <2>8
<1> QED BY <1>1, <1>2

(* AddLinks adds the links that were not there, each once.                 *)
LEMMA AddLinksAdds ==
  ASSUME NEW urls \in Seq(Models), IsInjective(urls), NEW links \in Seq(Models)
  PROVE  GrownBy(urls, AddLinks(urls, links), ToSet(links))
<1> DEFINE n == Len(links)
           FirstLinks(k) == {links[j] : j \in 1..k}
<1>0. n \in Nat /\ DOMAIN links = 1..n /\ \A k \in 1..n : links[k] \in Models
  OBVIOUS
<1>1. PICK f : /\ f[0] = urls
               /\ \A k \in 1..n : f[k] = AddLink(f[k - 1], links[k])
               /\ AddLinks(urls, links) = f[n]
  BY AddLinksIsRecursive
<1> DEFINE S == {k \in 0..n : GrownBy(urls, f[k], FirstLinks(k))}
<1> HIDE DEF n
<1>2. 0 \in S
  <2>1. FirstLinks(0) = {}
    OBVIOUS
  <2>2. GrownBy(urls, urls, {})
    BY DEF GrownBy
  <2>3. GrownBy(urls, f[0], FirstLinks(0))
    BY <1>1, <2>1, <2>2
  <2> QED BY <1>0, <2>3
<1>3. ASSUME NEW k \in 1..n, k - 1 \in S PROVE k \in S
  <2>1. GrownBy(urls, f[k - 1], FirstLinks(k - 1))
    BY <1>3
  <2>2. GrownBy(urls, f[k], FirstLinks(k - 1) \cup {links[k]})
    <3> HIDE DEF FirstLinks
    <3> QED BY <1>0, <1>1, <2>1, AddLinkAdds
  <2>3. FirstLinks(k) = FirstLinks(k - 1) \cup {links[k]}
    <3>1. k \in Nat /\ \A j \in 1..k : j = k \/ j \in 1..(k - 1)
      BY <1>0
    <3>2. \A j \in 1..(k - 1) : j \in 1..k
      BY <3>1
    <3> QED BY <3>1, <3>2
  <2>4. GrownBy(urls, f[k], FirstLinks(k))
    <3> HIDE DEF FirstLinks
    <3> QED BY <2>2, <2>3
  <2>5. k \in 0..n
    BY <1>0
  <2> HIDE DEF FirstLinks
  <2> QED BY <2>4, <2>5
<1>4. n \in S
  <2>1. 0..n \subseteq S
    <3> HIDE DEF S
    <3> QED BY <1>0, <1>2, <1>3, UpTo
  <2>2. n \in 0..n
    BY <1>0
  <2> HIDE DEF S
  <2> QED BY <2>1, <2>2
<1>5. FirstLinks(n) = ToSet(links)
  BY <1>0 DEF ToSet
<1> QED BY <1>1, <1>4, <1>5
-----------------------------------------------------------------------------
(***************************************************************************)
(* The list of definitions.                                                *)
(***************************************************************************)
(* A place of the list can be taken out.                                   *)
LEMMA RemoveAtRemoves ==
  ASSUME NEW D, NEW defs \in Seq(D), NEW i0 \in 1..Len(defs)
  PROVE  /\ RemoveAt(defs, i0) \in Seq(D)
         /\ \A k \in 1..Len(defs) : k # i0 =>
              \E n \in DOMAIN RemoveAt(defs, i0) : RemoveAt(defs, i0)[n] = defs[k]
<1> DEFINE a == SubSeq(defs, 1, i0 - 1)
           b == SubSeq(defs, i0 + 1, Len(defs))
<1>0. Len(defs) \in Nat /\ i0 \in Nat /\ i0 # 0
  OBVIOUS
<1>1. /\ a \in Seq(D) /\ Len(a) = i0 - 1
      /\ \A k \in 1..(i0 - 1) : a[k] = defs[k]
  <2>1. 1 \in 1..(Len(defs) + 1) /\ i0 - 1 \in 0..Len(defs) /\ \A k \in 1..(i0 - 1) : 1 + k - 1 = k
    BY <1>0
  <2> QED BY <1>0, <2>1, SubSeqProperties
<1>2. /\ b \in Seq(D) /\ Len(b) = Len(defs) - i0
      /\ \A k \in 1..(Len(defs) - i0) : b[k] = defs[i0 + k]
  BY <1>0, SubSeqProperties
<1>3. RemoveAt(defs, i0) = a \o b
  BY DEF RemoveAt
<1> HIDE DEF a, b
<1>4. /\ a \o b \in Seq(D) /\ Len(a \o b) = Len(a) + Len(b)
      /\ \A j \in 1..(Len(a) + Len(b)) :
           (a \o b)[j] = IF j <= Len(a) THEN a[j] ELSE b[j - Len(a)]
  BY <1>1, <1>2, ConcatProperties
<1>5. ASSUME NEW k \in 1..Len(defs), k # i0
      PROVE  \E n \in DOMAIN (a \o b) : (a \o b)[n] = defs[k]
  <2>0. DOMAIN (a \o b) = 1..(Len(a) + Len(b))
    BY <1>4
  <2>1. CASE k < i0
    <3>1. k \in 1..(Len(a) + Len(b)) /\ k <= Len(a) /\ k \in 1..(i0 - 1)
      BY <1>0, <1>1, <1>2, <2>1
    <3> QED BY <1>1, <1>4, <2>0, <3>1
  <2>2. CASE k > i0
    <3> DEFINE n == k - 1
    <3>1. /\ n \in 1..(Len(a) + Len(b)) /\ ~(n <= Len(a))
          /\ n - Len(a) = k - i0 /\ k - i0 \in 1..(Len(defs) - i0) /\ i0 + (k - i0) = k
      BY <1>0, <1>1, <1>2, <1>5, <2>2
    <3>2. (a \o b)[n] = b[k - i0]
      BY <1>4, <3>1
    <3>3. b[k - i0] = defs[k]
      BY <1>2, <3>1
    <3> HIDE DEF n
    <3> QED BY <2>0, <3>1, <3>2, <3>3
  <2> QED BY <1>0, <1>5, <2>1, <2>2
<1> QED BY <1>3, <1>4, <1>5

(* One removal of RemoveAll.                                               *)
RemoveOne(r, i0) ==
  IF r.panicked \/ i0 > Len(r.list) THEN [r EXCEPT !.panicked = TRUE]
  ELSE [r EXCEPT !.list = RemoveAt(@, i0)]

(* RemoveAll takes its result from a function that removes one at a time.  *)
LEMMA RemoveAllIsRecursive ==
  ASSUME NEW D, NEW defs \in Seq(D), NEW indices \in Seq(Nat \ {0})
  PROVE  \E f \in [0..Len(indices) -> [list : Seq(D), panicked : BOOLEAN]] :
           /\ f[0] = [list |-> defs, panicked |-> FALSE]
           /\ \A k \in 1..Len(indices) : f[k] = RemoveOne(f[k - 1], indices[k])
           /\ RemoveAll(defs, indices) = f[Len(indices)]
<1> DEFINE n == Len(indices)
           S == [list : Seq(D), panicked : BOOLEAN]
           base == [list |-> defs, panicked |-> FALSE]
           P(f) == f = [k \in 0..n |->
                          IF k = 0 THEN [list |-> defs, panicked |-> FALSE]
                          ELSE IF f[k - 1].panicked \/ indices[k] > Len(f[k - 1].list)
                          THEN [f[k - 1] EXCEPT !.panicked = TRUE]
                          ELSE [f[k - 1] EXCEPT !.list = RemoveAt(@, indices[k])]]
           f0 == CHOOSE f : P(f)
           step == [k \in 1..n |-> [r \in S |-> RemoveOne(r, indices[k])]]
<1>0. n \in Nat /\ \A k \in 1..n : indices[k] \in Nat \ {0}
  OBVIOUS
<1>1. RemoveAll(defs, indices) = f0[n]
  BY DEF RemoveAll
<1>2. ASSUME NEW r \in S, NEW i0 \in Nat \ {0} PROVE RemoveOne(r, i0) \in S
  <2>1. CASE r.panicked \/ i0 > Len(r.list)
    BY <2>1 DEF RemoveOne
  <2>2. CASE ~(r.panicked \/ i0 > Len(r.list))
    <3>1. r.list \in Seq(D) /\ i0 \in 1..Len(r.list)
      BY <2>2
    <3>2. RemoveAt(r.list, i0) \in Seq(D)
      BY <3>1, RemoveAtRemoves
    <3> QED BY <2>2, <3>2 DEF RemoveOne
  <2> QED BY <2>1, <2>2
<1>3. base \in S
  OBVIOUS
<1>4. step \in Steps(n, S)
  <2> HIDE DEF S, n
  <2> QED BY <1>0, <1>2 DEF Steps
<1>5. PICK g : Runs(g, n, S, base, step)
  <2>1. n \in Nat
    OBVIOUS
  <2> HIDE DEF n, step, S, P, base, f0
  <2> QED BY <1>3, <1>4, <2>1, RecursionExists
<1>6. ASSUME NEW k \in 1..n PROVE g[k] = RemoveOne(g[k - 1], indices[k])
  <2> HIDE DEF S
  <2>1. g[k - 1] \in S
    BY <1>0, <1>5, SMTT(30) DEF Runs
  <2> QED BY <1>5, <2>1 DEF Runs
<1>7. \A k \in 0..n : k = 0 \/ k \in 1..n
  BY <1>0
<1>8. P(g)
  <2> HIDE DEF n, S, step
  <2> QED BY <1>5, <1>6, <1>7 DEF RemoveOne, Runs
<1>9. P(f0)
  <2> HIDE DEF P
  <2> QED BY <1>8
<1>10. ASSUME NEW k \in 1..n PROVE f0[k] = RemoveOne(f0[k - 1], indices[k])
  <2> HIDE DEF f0
  <2>1. k \in 0..n /\ k # 0
    BY <1>0
  <2> HIDE DEF n
  <2> QED BY <1>9, <2>1 DEF RemoveOne
<1>11. f0[0] = base /\ 0 \in 0..n
  <2> HIDE DEF f0
  <2> QED BY <1>0, <1>9
<1>12. f0 \in [0..n -> S]
  <2> DEFINE T == {k \in 0..n : f0[k] \in S}
  <2> HIDE DEF f0
  <2>1. 0 \in T
    BY <1>3, <1>11
  <2>2. ASSUME NEW k \in 1..n, k - 1 \in T PROVE k \in T
    <3>1. k \in 0..n /\ f0[k - 1] \in S /\ indices[k] \in Nat \ {0}
      BY <1>0, <2>2
    <3> HIDE DEF S
    <3> QED BY <1>2, <1>10, <3>1
  <2>3. 0..n \subseteq T
    <3> HIDE DEF T, n
    <3> QED BY <1>0, <2>1, <2>2, UpTo
  <2>4. DOMAIN f0 = 0..n /\ f0 = [k \in 0..n |-> f0[k]]
    BY <1>9
  <2> HIDE DEF S, n
  <2> QED BY <2>3, <2>4
<1> HIDE DEF f0
<1> QED BY <1>1, <1>10, <1>11, <1>12

(* RemoveAll leaves a list of definitions, without the one to be removed   *)
(* if there is one only.                                                   *)
LEMMA RemoveAllRemoves ==
  ASSUME NEW D, NEW defs \in Seq(D), NEW indices \in Seq(DOMAIN defs)
  PROVE  LET rest == RemoveAll(defs, indices)
         IN  /\ rest.list \in Seq(D) /\ rest.panicked \in BOOLEAN
             /\ Len(indices) = 0 => rest.list = defs
             /\ Len(indices) = 1 => rest.list = RemoveAt(defs, indices[1])
<1>0. /\ DOMAIN defs = 1..Len(defs) /\ Len(defs) \in Nat /\ Len(indices) \in Nat
      /\ \A k \in 1..Len(indices) : indices[k] \in 1..Len(defs)
  OBVIOUS
<1>1. indices \in Seq(Nat \ {0})
  BY <1>0
<1>2. PICK f \in [0..Len(indices) -> [list : Seq(D), panicked : BOOLEAN]] :
           /\ f[0] = [list |-> defs, panicked |-> FALSE]
           /\ \A k \in 1..Len(indices) : f[k] = RemoveOne(f[k - 1], indices[k])
           /\ RemoveAll(defs, indices) = f[Len(indices)]
  BY <1>1, RemoveAllIsRecursive
<1>3. f[Len(indices)] \in [list : Seq(D), panicked : BOOLEAN]
  BY <1>0
<1>4. ASSUME Len(indices) = 1
      PROVE  f[1] = RemoveOne(f[0], indices[1]) /\ indices[1] \in 1..Len(defs)
  <2>1. 1 \in 1..Len(indices) /\ 1 - 1 = 0
    BY <1>4
  <2> QED BY <1>0, <1>2, <2>1
<1>5. ASSUME Len(indices) = 1 PROVE f[1].list = RemoveAt(defs, indices[1])
  BY <1>0, <1>2, <1>4, <1>5 DEF RemoveOne
<1>6. ASSUME Len(indices) = 0 PROVE f[Len(indices)].list = defs
  BY <1>2, <1>6
<1> DEFINE rest == RemoveAll(defs, indices)
<1>7. rest = f[Len(indices)]
  BY <1>2
<1>8. rest.list \in Seq(D) /\ rest.panicked \in BOOLEAN
  BY <1>3, <1>7
<1>9. Len(indices) = 0 => rest.list = defs
  BY <1>6, <1>7
<1>10. Len(indices) = 1 => rest.list = RemoveAt(defs, indices[1])
  BY <1>5, <1>7
<1> QED BY <1>8, <1>9, <1>10
-----------------------------------------------------------------------------
(* Sorting rearranges a list: Earlier tells for each place which ones come *)
(* before it.                                                              *)
Earlier(defs, k) ==
  {m \in DOMAIN defs : defs[m].id < defs[k].id \/ (defs[m].id = defs[k].id /\ m < k)}

(* No two places have the same number of places before them, and that      *)
(* number is less than the length of the list.                             *)
LEMMA EarlierCounts ==
  ASSUME NEW defs \in Seq(Definition)
  PROVE  /\ \A k \in DOMAIN defs : Cardinality(Earlier(defs, k)) \in 0..(Len(defs) - 1)
         /\ \A k, m \in DOMAIN defs :
              Cardinality(Earlier(defs, k)) = Cardinality(Earlier(defs, m)) => k = m
<1>0. /\ DOMAIN defs = 1..Len(defs) /\ Len(defs) \in Nat
      /\ \A k \in DOMAIN defs : k \in Nat /\ defs[k].id \in Int
  <2>1. \A d \in Definition : d.id \in Int
    BY DEF Definition
  <2> HIDE DEF Definition
  <2>2. \A k \in DOMAIN defs : k \in 1..Len(defs) /\ defs[k] \in Definition
    OBVIOUS
  <2> QED BY <2>1, <2>2
<1>1. IsFiniteSet(DOMAIN defs) /\ Cardinality(DOMAIN defs) = Len(defs)
  BY <1>0, FS_Interval, SMTT(30)
<1>2. ASSUME NEW k \in DOMAIN defs
      PROVE  /\ IsFiniteSet(Earlier(defs, k))
             /\ Cardinality(Earlier(defs, k)) \in Nat
             /\ Cardinality(Earlier(defs, k)) < Len(defs)
  <2>1. Earlier(defs, k) \in SUBSET (DOMAIN defs) /\ Earlier(defs, k) # DOMAIN defs
    BY <1>0 DEF Earlier
  <2> QED BY <1>1, <2>1, FS_Subset, FS_CardinalityType
<1>3. ASSUME NEW k \in DOMAIN defs, NEW m \in DOMAIN defs, k \in Earlier(defs, m)
      PROVE  Cardinality(Earlier(defs, k)) < Cardinality(Earlier(defs, m))
  <2>1. Earlier(defs, k) \in SUBSET Earlier(defs, m) /\ Earlier(defs, k) # Earlier(defs, m)
    BY <1>0, <1>3 DEF Earlier
  <2> QED BY <1>2, <2>1, FS_Subset
<1>4. \A k, m \in DOMAIN defs : k = m \/ k \in Earlier(defs, m) \/ m \in Earlier(defs, k)
  BY <1>0 DEF Earlier
<1>5. ASSUME NEW k \in DOMAIN defs, NEW m \in DOMAIN defs,
             Cardinality(Earlier(defs, k)) = Cardinality(Earlier(defs, m))
      PROVE  k = m
  BY <1>2, <1>3, <1>4, <1>5
<1>6. ASSUME NEW k \in DOMAIN defs PROVE Cardinality(Earlier(defs, k)) \in 0..(Len(defs) - 1)
  BY <1>0, <1>2
<1> QED BY <1>5, <1>6

(* SortedById leaves a list of the same definitions.                       *)
LEMMA SortingKeeps ==
  ASSUME NEW defs \in Seq(Definition)
  PROVE  /\ SortedById(defs) \in Seq(Definition)
         /\ \A k \in DOMAIN defs :
              \E n \in DOMAIN SortedById(defs) : SortedById(defs)[n] = defs[k]
<1> DEFINE Rank(k) == Cardinality(Earlier(defs, k))
           At(n) == CHOOSE k \in DOMAIN defs : Rank(k) = n - 1
           sorted == [n \in DOMAIN defs |-> defs[At(n)]]
<1>0. DOMAIN defs = 1..Len(defs) /\ Len(defs) \in Nat
  OBVIOUS
<1>1. SortedById(defs) = sorted
  BY DEF SortedById, Earlier
<1>2. \A k \in DOMAIN defs : Rank(k) \in 0..(Len(defs) - 1)
  BY EarlierCounts
<1>3. \A k, m \in DOMAIN defs : Rank(k) = Rank(m) => k = m
  BY EarlierCounts
<1> HIDE DEF Rank
<1>4. ASSUME NEW k \in DOMAIN defs
      PROVE  Rank(k) + 1 \in DOMAIN defs /\ At(Rank(k) + 1) = k
  <2>1. Rank(k) + 1 \in DOMAIN defs /\ (Rank(k) + 1) - 1 = Rank(k)
    BY <1>0, <1>2
  <2>2. \E m \in DOMAIN defs : Rank(m) = (Rank(k) + 1) - 1
    BY <2>1
  <2>3. At(Rank(k) + 1) \in DOMAIN defs /\ Rank(At(Rank(k) + 1)) = (Rank(k) + 1) - 1
    BY <2>2
  <2> HIDE DEF At
  <2> QED BY <1>3, <2>1, <2>3
<1>5. ASSUME NEW n \in DOMAIN defs PROVE At(n) \in DOMAIN defs
  <2> DEFINE rank == [k \in DOMAIN defs |-> Rank(k) + 1]
  <2>1. IsFiniteSet(DOMAIN defs)
    BY <1>0, FS_Interval
  <2>2. rank \in [DOMAIN defs -> DOMAIN defs]
    BY <1>4
  <2>3. IsInjective(rank)
    BY <1>0, <1>2, <1>3 DEF IsInjective
  <2>4. rank \in Injection(DOMAIN defs, DOMAIN defs)
    BY <2>2, <2>3 DEF Injection
  <2>5. rank \in Surjection(DOMAIN defs, DOMAIN defs)
    <3> HIDE DEF rank
    <3> QED BY <2>1, <2>4, FS_Injection
  <2>6. PICK k \in DOMAIN defs : rank[k] = n
    BY <2>5 DEF Surjection
  <2> QED BY <1>4, <2>6
<1>6. sorted \in Seq(Definition)
  <2>1. sorted \in [1..Len(defs) -> Definition]
    <3> HIDE DEF At
    <3> QED BY <1>0, <1>5
  <2> HIDE DEF sorted
  <2> QED BY <1>0, <2>1
<1>7. ASSUME NEW k \in DOMAIN defs PROVE \E n \in DOMAIN sorted : sorted[n] = defs[k]
  <2> HIDE DEF At
  <2> QED BY <1>4
<1> HIDE DEF sorted
<1> QED BY <1>1, <1>6, <1>7
-----------------------------------------------------------------------------
(* What is found in a list of definitions.                                 *)
Documents(d, m, id) == d.id = id /\ m \in d.models

(* A model's element is found when some definition documents it.           *)
LEMMA LookUpFinds ==
  ASSUME NEW defs \in Seq(Definition), NEW m, NEW id,
         \E k \in DOMAIN defs : Documents(defs[k], m, id)
  PROVE  GetElementInfo(defs, m, id) # NotFound
<1> DEFINE fitting == {k \in DOMAIN defs : /\ defs[k].id = id
                                           /\ m = "*" \/ m \in defs[k].models}
<1>0. DOMAIN defs = 1..Len(defs) /\ Len(defs) \in Nat
  OBVIOUS
<1>1. fitting \in SUBSET Nat /\ fitting # {} /\ fitting \subseteq DOMAIN defs
  BY <1>0 DEF Documents
<1>2. Min(fitting) \in fitting
  <2> HIDE DEF fitting
  <2>1. \E k \in fitting : \A n \in fitting : k <= n
    BY <1>1, LeastNumber
  <2> QED BY <2>1 DEF Min
<1>3. m \in SupportedModels(defs)
  BY DEF Documents, SupportedModels
<1>4. GetElementInfo(defs, m, id) = defs[Min(fitting)]
  BY <1>1, <1>3 DEF GetElementInfo
<1>5. defs[Min(fitting)] \in Definition
  <2> HIDE DEF fitting
  <2>1. Min(fitting) \in 1..Len(defs)
    BY <1>0, <1>1, <1>2
  <2> QED BY <2>1
<1>6. \A d \in Definition : d # NotFound
  <2>1. \A d \in Definition : "id" \in DOMAIN d
    BY DEF Definition
  <2>2. "id" \notin DOMAIN NotFound
    BY DEF NotFound
  <2> QED BY <2>1, <2>2
<1> QED BY <1>4, <1>5, <1>6

(* The candidate is a definition of the current one's id.                  *)
LEMMA CandidateIsInTheList ==
  ASSUME next \in Nat \ {0}, result \in Seq(Definition), NEW c, IsCandidate(c)
  PROVE  c \in DOMAIN result /\ c >= next /\ result[c].id = current.id
<1> DEFINE same == {k \in next..Len(result) : result[k].id = current.id}
<1>0. Len(result) \in Nat /\ DOMAIN result = 1..Len(result)
  OBVIOUS
<1>1. c = IF same # {} THEN Min(same) ELSE 0
  BY DEF IsCandidate, SelectInSubSeq
<1>2. same # {} /\ c = Min(same)
  BY <1>1 DEF IsCandidate
<1>3. same \in SUBSET Nat
  BY <1>0
<1>4. c \in same
  <2> HIDE DEF same
  <2>1. \E k \in same : \A n \in same : k <= n
    BY <1>2, <1>3, LeastNumber
  <2> QED BY <1>2, <2>1 DEF Min
<1> QED BY <1>0, <1>4

(* The numbers in a row are numbers.                                       *)
LEMMA CellsAreNumbers ==
  ASSUME NEW cell \in Cell
  PROVE  cell.n \in Int /\ Scan(cell) \in Int
<1>1. cell.n \in Int
  BY DEF Cell
<1>2. \A n \in Int : 10 * (n \div 10) \in Int
  OBVIOUS
<1> QED BY <1>1, <1>2 DEF Scan, One

(* A definition stays one when it is normalised.                           *)
LEMMA NormalizeType ==
  ASSUME NEW d \in Definition
  PROVE  Normalize(d) \in Definition
<1> DEFINE type == Normalize(d).type
           numBytes == Normalize(d).numBytes
           max == Normalize(d).max
           units == Normalize(d).units
<1>1. /\ d.id \in Nat /\ d.numBytes \in Nat \cup {-1} /\ d.type \in ElementType
      /\ d.max \in Int /\ d.units \in Units
  BY DEF Definition
<1>2. DOMAIN d = {"id", "numBytes", "type", "min", "max",
                      "multiplier", "units", "description", "models"}
  BY DEF Definition
<1>3. type = IF d.id = 30 /\ d.type = "ascii" THEN "unsigned" ELSE d.type
  BY <1>2 DEF Normalize
<1>4. numBytes = d.numBytes \/ numBytes \in {1, 2, 4}
  BY <1>2 DEF Normalize
<1>5. max = d.max \/ max \in {0, 100, 65535, 16777215, 32767}
  BY <1>2 DEF Normalize
<1>6. units = d.units \/ units \in {"", "V", "ml", "min."}
  BY <1>2 DEF Normalize
<1>7. Normalize(d) = [d EXCEPT !.type = type, !.numBytes = numBytes, !.max = max, !.units = units]
  BY <1>2 DEF Normalize
<1>8. /\ type \in ElementType /\ numBytes \in Nat \cup {-1} /\ max \in Int /\ units \in Units
  <2> HIDE DEF type, numBytes, max, units
  <2>1. type \in ElementType
    BY <1>1, <1>3 DEF ElementType, Numeric
  <2>2. numBytes \in Nat \cup {-1}
    BY <1>1, <1>4
  <2>3. max \in Int
    BY <1>1, <1>5
  <2>4. units \in Units
    BY <1>1, <1>6, MergeAssumption
  <2> QED BY <2>1, <2>2, <2>3, <2>4
<1> HIDE DEF type, numBytes, max, units
<1> QED BY <1>7, <1>8 DEF Definition

(* A row's definitions are definitions.                                    *)
LEMMA ParseRowType ==
  ASSUME NEW m \in Models, NEW r \in Row
  PROVE  ParseRow(m, r) \in Seq(Definition)
<1>1. /\ r.ids \in Seq(Nat) /\ r.numBytes \in Nat \cup {-1} /\ r.type \in STRING
      /\ r.min \in Cell /\ r.max \in Cell /\ r.multiplier \in Cell
      /\ r.units \in Units /\ r.description \in BOOLEAN /\ r.hw \in Seq(Models)
  BY DEF Row
<1>2. CASE Skipped(r)
  BY <1>2 DEF ParseRow
<1>3. CASE ~Skipped(r)
  <2> DEFINE d(k) ==
            [id |-> r.ids[k],
             numBytes |-> IF r.type \in ElementType THEN r.numBytes ELSE -1,
             type |-> TypeOf(r),
             min |-> IF HasLimits(r) THEN r.min.n ELSE 0,
             max |-> IF HasLimits(r) THEN r.max.n ELSE 0,
             multiplier |-> IF r.multiplier.is = "blank" THEN One ELSE Scan(r.multiplier),
             units |-> r.units,
             description |-> r.description,
             models |-> ToSet(r.hw) \cup {m}]
  <2>1. TypeOf(r) \in ElementType
    BY DEF TypeOf, ElementType
  <2>2. /\ r.min.n \in Int /\ r.max.n \in Int
        /\ (IF r.multiplier.is = "blank" THEN One ELSE Scan(r.multiplier)) \in Int
    BY <1>1, CellsAreNumbers DEF One
  <2>3. ToSet(r.hw) \cup {m} \in SUBSET Models
    BY <1>1 DEF ToSet
  <2>4. (IF r.type \in ElementType THEN r.numBytes ELSE -1) \in Nat \cup {-1}
    BY <1>1
   <2>5. /\ (IF HasLimits(r) THEN r.min.n ELSE 0) \in Int
         /\ (IF HasLimits(r) THEN r.max.n ELSE 0) \in Int
    BY <2>2
  <2>6. DOMAIN r.ids = 1..Len(r.ids) /\ Len(r.ids) \in Nat
    BY <1>1
  <2>7. ASSUME NEW k \in 1..Len(r.ids) PROVE d(k) \in Definition
    <3>1. r.ids[k] \in Nat
      BY <1>1
    <3> QED BY <1>1, <2>1, <2>2, <2>3, <2>4, <2>5, <3>1 DEF Definition
  <2>8. ParseRow(m, r) = [k \in DOMAIN r.ids |-> Normalize(d(k))]
    BY <1>3 DEF ParseRow
  <2> HIDE DEF d
  <2>9. \A k \in 1..Len(r.ids) : Normalize(d(k)) \in Definition
    BY <2>7, NormalizeType
  <2> QED BY <2>6, <2>8, <2>9
<1> QED BY <1>2, <1>3
-----------------------------------------------------------------------------
(***************************************************************************)
(* The inductive invariant.                                                *)
(***************************************************************************)
Answers == {"page", "empty"}

IsPageMap(pages) ==
  DOMAIN pages \subseteq Models /\ \A m \in DOMAIN pages : pages[m] \in Answers

(* While a page is worked on, it is on the work list; while definitions    *)
(* are merged, there is a current one.                                     *)
AtWork == {"get", "create", "encode", "rows", "merge"}

WorkOK ==
  /\ at \in AtWork => i <= Len(urlsToProcess)
  /\ at = "merge" => items # <<>>
  /\ IsPageMap(decodedMap) /\ IsPageMap(cache.pages)
  /\ row # 0 /\ removals \in Nat

TypeInv == GeneratorTypeOK /\ WorkOK

(* The links that count for Reachable.                                     *)
Links(m) == IF noFollow \/ m \in unread THEN {}
            ELSE UNION {ToSet(wiki[m][k].hw) : k \in DOMAIN wiki[m]}

Place == 1..Len(urlsToProcess)

(* The page of place h has been asked for, and its rows may be read.       *)
Entered(h) == h < i \/ (h = i /\ at \in {"rows", "merge"})

(* What did not come is known by the time the next page is turned to.      *)
UnreadAreBehind ==
  /\ unread \subseteq ToSet(urlsToProcess)
  /\ \A h \in Place : urlsToProcess[h] \in unread =>
       \/ h < i
       \/ h = i /\ at \in {"create", "encode", "rows", "merge"} /\ decodedMap[url] = "empty"

PageIsThere ==
  at \in {"create", "encode", "rows", "merge"} =>
    /\ url \in DOMAIN decodedMap
    /\ decodedMap[url] = "empty" => url \in unread

(* The rows of a page begin with the first.                                *)
RowsBegin == at \in {"page", "get", "create", "encode"} => row = 1

(* The links of what was read are on the work list.                        *)
LinksAreFollowed ==
  /\ ToSet(Start) \subseteq ToSet(urlsToProcess)
  /\ \A h \in Place : h < i => Links(urlsToProcess[h]) \subseteq ToSet(urlsToProcess)
  /\ at \in {"rows", "merge"} /\ ~noFollow =>
       \A k \in DOMAIN Rows : k < row => ToSet(Rows[k].hw) \subseteq ToSet(urlsToProcess)

(* Every page on the work list was given at the start or linked before.    *)
LinksHaveSources ==
  \A h \in Place :
    \/ urlsToProcess[h] \in ToSet(Start)
    \/ \E g \in Place : g < h /\ Entered(g) /\ urlsToProcess[h] \in Links(urlsToProcess[g])

PageInv == PageIsThere /\ RowsBegin

CrawlInv ==
  at \notin {"fatal", "panicked", "killed"} =>
    /\ UnreadAreBehind /\ LinksAreFollowed /\ LinksHaveSources
    /\ at = "done" => i > Len(urlsToProcess)

(* What is about to be written has what was written before.                *)
StoreInv ==
  /\ CacheKeepsItsPages
  /\ at = "get" /\ ~noCache => stored \subseteq DOMAIN decodedMap
  /\ at \in {"create", "encode"} => stored \subseteq DOMAIN decodedMap

(* An element e[2] of model e[1] has a definition in the list.             *)
Kept(e) == \E k \in DOMAIN result : Documents(result[k], e[1], e[2])

(* A definition that is about to be replaced has no model that the current *)
(* one lacks, except those given up.                                       *)
ReplacedAreCovered ==
  at = "merge" =>
    \A n \in DOMAIN toReplace :
      LET d == result[toReplace[n]]
      IN  /\ d.id = current.id
          /\ \A m \in d.models \ current.models : <<m, d.id>> \in dropped

(* Outside the comparison nothing is marked for being replaced.            *)
NothingIsMarked ==
  at \in {"page", "get", "create", "encode", "rows"} => toReplace = <<>>

MergeInv ==
  /\ ReplacedAreCovered /\ NothingIsMarked
  /\ removals <= 1 /\ at # "panicked" => \A e \in seen \ dropped : Kept(e)

(* The variables have their types at the start.                            *)
LEMMA InitTyped ==
  ASSUME Init
  PROVE  TypeInv
<1>1. <<>> \in Seq(Definition)
  OBVIOUS
<1>2. IsPageMap(<<>>)
  BY DEF IsPageMap
<1>3. Absent.is = "absent" /\ Absent.pages = <<>>
  BY DEF Absent
<1>4. <<>> \in Seq(DOMAIN result)
  OBVIOUS
<1> QED BY <1>1, <1>2, <1>3, <1>4, GeneratorAssumption
        DEF Init, TypeInv, GeneratorTypeOK, WorkOK, AtWork, Ended

(* What the types say while a page or a definition is at work.             *)
LEMMA AtWorkTypes ==
  ASSUME TypeInv
  PROVE  /\ at \in AtWork => url \in Models
         /\ at = "merge" => /\ current \in Definition
                            /\ Tail(items) \in Seq(Definition)
                            /\ Len(items) # 1 => Tail(items) # <<>>
<1> USE DEF TypeInv, GeneratorTypeOK, WorkOK
<1>1. ASSUME at \in AtWork PROVE url \in Models
  <2>1. i \in 1..Len(urlsToProcess)
    BY <1>1
  <2> QED BY <2>1 DEF url
<1>2. ASSUME at = "merge" PROVE /\ Head(items) \in Definition
                                /\ Tail(items) \in Seq(Definition)
                                /\ Len(items) # 1 => Tail(items) # <<>>
  <2>1. items \in Seq(Definition) /\ items # <<>>
    BY <1>2
  <2> HIDE DEF TypeInv, GeneratorTypeOK, WorkOK
  <2>2. Len(items) \in Nat \ {0} /\ Len(Tail(items)) = Len(items) - 1
    BY <2>1
  <2>3. Len(items) # 1 => Tail(items) # <<>>
    BY <2>2
  <2> QED BY <2>1, <2>3
<1> QED BY <1>1, <1>2 DEF current

(* Loading a page.                                                         *)
LEMMA LoadPageTyped ==
  ASSUME TypeInv,
         \/ RefuseCache \/ OpenCache \/ GetFails \/ \E answer \in Answers : Get(answer)
         \/ CreateCache \/ EncodeCache \/ StoreFails
  PROVE  TypeInv'
<1> USE DEF Fault, NoFault, crawl, merging, list, options, disk, bounds
<1>0. /\ at \in AtWork => url \in Models
      /\ Len(urlsToProcess) \in Nat /\ i \in Nat
      /\ MaxFaults \in Nat
  BY AtWorkTypes, GeneratorAssumption DEF TypeInv, GeneratorTypeOK
<1>1. CASE RefuseCache
  BY <1>1 DEF RefuseCache, TypeInv, GeneratorTypeOK, WorkOK, AtWork, Ended
<1>2. CASE OpenCache
  <2>1. IsPageMap(KnownPages)
    BY DEF KnownPages, IsPageMap, TypeInv, WorkOK
  <2>2. url \in Models /\ i <= Len(urlsToProcess)
    <3>1. i \in 1..Len(urlsToProcess)
      BY <1>0, <1>2 DEF OpenCache, MorePages, TypeInv, GeneratorTypeOK
    <3> QED BY <3>1 DEF url, TypeInv, GeneratorTypeOK
  <2> QED BY <1>2, <2>1, <2>2 DEF OpenCache, TypeInv, GeneratorTypeOK, WorkOK, AtWork, Ended
<1>3. CASE GetFails
  BY <1>0, <1>3 DEF GetFails, TypeInv, GeneratorTypeOK, WorkOK, AtWork, Ended
<1>4. CASE \E answer \in Answers : Get(answer)
  <2>1. PICK answer \in Answers : Get(answer)
    BY <1>4
   <2>2. IsPageMap([m \in DOMAIN decodedMap \cup {url} |->
                      IF m = url THEN answer ELSE decodedMap[m]])
    BY <1>0, <2>1 DEF Get, AtWork, IsPageMap, TypeInv, WorkOK
  <2>3. at = "get" /\ at' \in {"rows", "create"} /\ runs' = runs /\ faults' \in 0..MaxFaults
        /\ unread' \in {unread, unread \cup {url}}
    BY <1>0, <2>1, SMTT(30) DEF Get, TypeInv, GeneratorTypeOK
  <2> QED BY <1>0, <2>1, <2>2, <2>3 DEF Get, TypeInv, GeneratorTypeOK, WorkOK, AtWork, Ended
<1>5. CASE CreateCache
  <2>1. IsPageMap(Torn.pages) /\ Torn.is = "torn"
    BY DEF Torn, IsPageMap
  <2> QED BY <1>5, <2>1 DEF CreateCache, TypeInv, GeneratorTypeOK, WorkOK, AtWork, Ended
<1>6. CASE EncodeCache
  BY <1>0, <1>6 DEF EncodeCache, TypeInv, GeneratorTypeOK, WorkOK, AtWork, Ended
<1>7. CASE StoreFails
  BY <1>0, <1>7 DEF StoreFails, TypeInv, GeneratorTypeOK, WorkOK, AtWork, Ended
<1> QED BY <1>1, <1>2, <1>3, <1>4, <1>5, <1>6, <1>7

(* The rows of the page that is being read.                                *)
LEMMA RowsType ==
  ASSUME TypeInv, at = "rows" \/ at = "merge"
  PROVE  Rows \in Seq(Row) /\ \A k \in DOMAIN Rows : Rows[k] \in Row /\ Rows[k].hw \in Seq(Models)
<1>1. url \in Models
  BY AtWorkTypes DEF AtWork
<1>2. wiki[url] \in Seq(Row)
  BY <1>1, GeneratorAssumption DEF TypeInv, GeneratorTypeOK
<1>3. Rows \in Seq(Row)
  BY <1>2 DEF Rows
<1>4. \A r \in Row : r.hw \in Seq(Models)
  BY DEF Row
<1> HIDE DEF Row
<1>5. \A k \in DOMAIN Rows : Rows[k] \in Row
  BY <1>3
<1> QED BY <1>3, <1>4, <1>5

(* A row adds its links behind the work list, and the page stays the same. *)
LEMMA ReadRowGrows ==
  ASSUME TypeInv, ReadRow
  PROVE  /\ row \in DOMAIN Rows /\ Rows[row] \in Row /\ Rows[row].hw \in Seq(Models)
         /\ GrownBy(urlsToProcess, urlsToProcess',
                    IF noFollow THEN {} ELSE ToSet(Rows[row].hw))
         /\ i \in 1..Len(urlsToProcess) /\ i' = i /\ url' = url
<1>0. /\ Len(urlsToProcess) \in Nat /\ i \in Nat /\ row \in Nat /\ at = "rows"
      /\ urlsToProcess \in Seq(Models) /\ IsInjective(urlsToProcess)
  BY DEF ReadRow, TypeInv, GeneratorTypeOK
<1>1. row \in DOMAIN Rows /\ Rows[row] \in Row /\ Rows[row].hw \in Seq(Models)
  <2>1. row \in 1..Len(Rows)
    BY <1>0, RowsType DEF ReadRow, TypeInv, WorkOK
  <2> QED BY <1>0, <2>1, RowsType
<1>2. GrownBy(urlsToProcess, urlsToProcess', IF noFollow THEN {} ELSE ToSet(Rows[row].hw))
  <2>1. CASE noFollow
    BY <1>0, <2>1 DEF ReadRow, GrownBy
  <2>2. CASE ~noFollow
    BY <1>0, <1>1, <2>2, AddLinksAdds DEF ReadRow
  <2> QED BY <2>1, <2>2
<1>3. i \in 1..Len(urlsToProcess) /\ i' = i
  BY <1>0 DEF ReadRow, TypeInv, GeneratorTypeOK, WorkOK, AtWork
<1>4. url' = url
  BY <1>2, <1>3 DEF url, GrownBy
<1> QED BY <1>1, <1>2, <1>3, <1>4

(* Reading the rows of a page.                                             *)
LEMMA ProcessPageTyped ==
  ASSUME TypeInv, ReadRow \/ EndPage
  PROVE  TypeInv'
<1> USE DEF crawl, merging, list, options, disk, bounds
<1>0. /\ Len(urlsToProcess) \in Nat /\ i \in Nat /\ row \in Nat
      /\ urlsToProcess \in Seq(Models) /\ IsInjective(urlsToProcess)
  BY DEF TypeInv, GeneratorTypeOK
<1>1. CASE ReadRow
  <2>1. /\ row \in DOMAIN Rows /\ Rows[row] \in Row /\ Rows[row].hw \in Seq(Models)
        /\ url \in Models /\ at = "rows"
    <3>1. at = "rows"
      BY <1>1 DEF ReadRow
    <3> QED BY <1>1, <3>1, ReadRowGrows, AtWorkTypes DEF AtWork
  <2>2. /\ urlsToProcess' \in Seq(Models) /\ IsInjective(urlsToProcess')
        /\ Len(urlsToProcess) <= Len(urlsToProcess')
    BY <1>1, ReadRowGrows DEF GrownBy
  <2>3. items' \in Seq(Definition)
    BY <1>1, <2>1, ParseRowType DEF ReadRow
  <2>4. i \in 1..(Len(urlsToProcess') + 1) /\ i <= Len(urlsToProcess')
    <3>1. i <= Len(urlsToProcess) /\ 1 <= i
      BY <1>0, <2>1 DEF TypeInv, GeneratorTypeOK, WorkOK, AtWork
    <3>2. Len(urlsToProcess') \in Nat
      BY <2>2
    <3> QED BY <1>0, <2>2, <3>1, <3>2
  <2>5. at' \in {"rows", "merge"} /\ (at' = "merge" => items' # <<>>)
    BY <1>1 DEF ReadRow
  <2>6. row + 1 \in Nat /\ row + 1 # 0
    BY <1>0
  <2> QED BY <1>1, <2>1, <2>2, <2>3, <2>4, <2>5, <2>6
          DEF ReadRow, TypeInv, GeneratorTypeOK, WorkOK, AtWork, Ended
<1>2. CASE EndPage
  BY <1>0, <1>2 DEF EndPage, TypeInv, GeneratorTypeOK, WorkOK, AtWork, Ended
<1> QED BY <1>1, <1>2

(* What Unite makes of two definitions.                                    *)
LEMMA UniteType ==
  ASSUME NEW a \in Definition, NEW b \in Definition
  PROVE  /\ Unite(a, b) \in Definition
         /\ Unite(a, b).id = a.id /\ Unite(a, b).models = a.models \cup b.models
BY DEF Unite, Definition

(* The pairs of a definition's models and its id.                          *)
LEMMA PairsType ==
  ASSUME NEW d \in Definition, NEW M \in SUBSET d.models
  PROVE  {<<m, d.id>> : m \in M} \subseteq Models \X Nat
BY DEF Definition

(* The types while definitions are merged, as far as steps change them.    *)
MergeTypes ==
  /\ at \in {"rows", "merge"} /\ (at = "merge" => items # <<>>)
  /\ items \in Seq(Definition) /\ result \in Seq(Definition)
  /\ next \in 1..(Len(result) + 1) /\ toReplace \in Seq(DOMAIN result)
  /\ seen \subseteq Models \X Nat /\ dropped \subseteq Models \X Nat

(* Nothing but these changes while definitions are merged.                 *)
LEMMA MergeFrame ==
  ASSUME TypeInv, at = "merge", MergeTypes', removals' \in Nat,
         UNCHANGED <<crawl, options, disk, bounds>>
  PROVE  TypeInv'
BY DEF TypeInv, GeneratorTypeOK, WorkOK, MergeTypes, AtWork, Ended,
       crawl, options, disk, bounds

(* Comparing the current definition with the next candidate.               *)
LEMMA CompareTyped ==
  ASSUME TypeInv, NEW c \in DOMAIN result, IsCandidate(c), PassOver(c) \/ Replace(c) \/ Keep(c)
  PROVE  TypeInv'
<1> USE DEF crawl, merging, list, options, disk, bounds
<1>0. /\ at = "merge" /\ result \in Seq(Definition) /\ items \in Seq(Definition) /\ items # <<>>
      /\ current \in Definition /\ Tail(items) \in Seq(Definition)
      /\ Len(items) # 1 => Tail(items) # <<>>
      /\ seen \subseteq Models \X Nat /\ dropped \subseteq Models \X Nat
      /\ next \in Nat \ {0} /\ toReplace \in Seq(DOMAIN result) /\ removals \in Nat
  <2>1. at = "merge"
    BY DEF IsCandidate
  <2>2. /\ current \in Definition /\ Tail(items) \in Seq(Definition)
        /\ Len(items) # 1 => Tail(items) # <<>>
    BY <2>1, AtWorkTypes
  <2>3. /\ result \in Seq(Definition) /\ items \in Seq(Definition)
        /\ seen \subseteq Models \X Nat /\ dropped \subseteq Models \X Nat
        /\ next \in Nat \ {0} /\ toReplace \in Seq(DOMAIN result)
    BY <2>1, SMTT(30) DEF TypeInv, GeneratorTypeOK
  <2>4. items # <<>> /\ removals \in Nat
    BY <2>1 DEF TypeInv, WorkOK
  <2> QED BY <2>1, <2>2, <2>3, <2>4
<1>1. /\ c \in 1..Len(result) /\ Len(result) \in Nat /\ DOMAIN result = 1..Len(result)
      /\ result[c] \in Definition
  BY <1>0
<1>2. ASSUME NEW d \in Definition
      PROVE  /\ [result EXCEPT ![c] = d] \in Seq(Definition)
             /\ DOMAIN [result EXCEPT ![c] = d] = DOMAIN result
             /\ Len([result EXCEPT ![c] = d]) = Len(result)
  BY <1>0, <1>1
<1>3. Unite(result[c], current) \in Definition /\ Unite(current, result[c]) \in Definition
  BY <1>0, <1>1, UniteType
<1>4. /\ [items EXCEPT ![1] = Unite(@, result[c])] \in Seq(Definition)
      /\ [items EXCEPT ![1] = Unite(@, result[c])] # <<>>
  <2>1. items[1] = current
    BY <1>0 DEF current
  <2>2. [items EXCEPT ![1] = Unite(@, result[c])] = [items EXCEPT ![1] = Unite(current, result[c])]
    BY <2>1
  <2>3. 1 \in 1..Len(items) /\ Len(items) \in Nat /\ DOMAIN items = 1..Len(items)
    BY <1>0
  <2>4. /\ [items EXCEPT ![1] = Unite(current, result[c])] \in Seq(Definition)
        /\ Len([items EXCEPT ![1] = Unite(current, result[c])]) = Len(items)
    BY <1>0, <1>3, <2>3
  <2> QED BY <2>2, <2>3, <2>4
<1>5. ASSUME GiveUp(result[c], current) \/ GiveUp(current, result[c])
      PROVE  dropped' \subseteq Models \X Nat
  BY <1>0, <1>1, <1>5, PairsType DEF GiveUp
<1>6. /\ c + 1 \in 1..(Len(result) + 1)
      /\ Append(toReplace, c) \in Seq(DOMAIN result)
  BY <1>0, <1>1
<1>7. CASE PassOver(c)
  <2>1. MergeTypes' /\ removals' \in Nat
    BY <1>0, <1>6, <1>7 DEF PassOver, CompareNext, MergeTypes
  <2> QED BY <1>0, <1>7, <2>1, MergeFrame DEF PassOver, CompareNext
<1>8. CASE Replace(c)
  <2>1. /\ result' \in Seq(Definition)
         /\ DOMAIN result' = DOMAIN result /\ Len(result') = Len(result)
        /\ items' \in Seq(Definition) /\ items' # <<>> /\ dropped' \subseteq Models \X Nat
    <3>1. result' = result \/ result' = [result EXCEPT ![c] = Unite(result[c], current)]
      BY <1>8 DEF Replace
    <3>2. items' = items \/ items' = [items EXCEPT ![1] = Unite(@, result[c])]
      BY <1>8 DEF Replace
    <3>3. dropped' = dropped \/ GiveUp(result[c], current)
      BY <1>8 DEF Replace
    <3>4. /\ result' \in Seq(Definition) /\ DOMAIN result' = DOMAIN result
          /\ Len(result') = Len(result)
      <4>1. CASE result' = result
        BY <1>0, <4>1
      <4>2. CASE result' = [result EXCEPT ![c] = Unite(result[c], current)]
        <5> DEFINE new == [result EXCEPT ![c] = Unite(result[c], current)]
        <5>1. new \in Seq(Definition) /\ DOMAIN new = DOMAIN result /\ Len(new) = Len(result)
          BY <1>2, <1>3
        <5> HIDE DEF new
        <5> QED BY <4>2, <5>1 DEF new
      <4> QED BY <3>1, <4>1, <4>2
    <3> QED BY <1>0, <1>4, <1>5, <3>2, <3>3, <3>4
  <2>2. MergeTypes' /\ removals' \in Nat
    BY <1>0, <1>6, <1>8, <2>1 DEF Replace, CompareNext, MergeTypes
  <2> QED BY <1>0, <1>8, <2>2, MergeFrame DEF Replace, CompareNext
<1>9. CASE Keep(c)
  <2>1. /\ result' \in Seq(Definition)
         /\ DOMAIN result' = DOMAIN result /\ Len(result') = Len(result)
        /\ dropped' \subseteq Models \X Nat
    <3>1. result' = result \/ result' = [result EXCEPT ![c] = Unite(result[c], current)]
      BY <1>9 DEF Keep
    <3>2. dropped' = dropped \/ GiveUp(current, result[c])
      BY <1>9 DEF Keep
    <3>3. /\ result' \in Seq(Definition) /\ DOMAIN result' = DOMAIN result
          /\ Len(result') = Len(result)
      <4>1. CASE result' = result
        BY <1>0, <4>1
      <4>2. CASE result' = [result EXCEPT ![c] = Unite(result[c], current)]
        <5> DEFINE new == [result EXCEPT ![c] = Unite(result[c], current)]
        <5>1. new \in Seq(Definition) /\ DOMAIN new = DOMAIN result /\ Len(new) = Len(result)
          BY <1>2, <1>3
        <5> HIDE DEF new
        <5> QED BY <4>2, <5>1 DEF new
      <4> QED BY <3>1, <4>1, <4>2
    <3> QED BY <1>0, <1>5, <3>2, <3>3
  <2>2. /\ items' \in Seq(Definition) /\ at' \in {"rows", "merge"}
         /\ (at' = "merge" => items' # <<>>)
        /\ next' = 1 /\ toReplace' = <<>> /\ seen' \subseteq Models \X Nat
    BY <1>0, <1>9, PairsType DEF Keep, NextItem, RowGoesOn
  <2>3. 1 \in 1..(Len(result) + 1) /\ <<>> \in Seq(DOMAIN result)
    BY <1>1
  <2>4. MergeTypes'
    BY <2>1, <2>2, <2>3 DEF MergeTypes
  <2> QED BY <1>0, <1>9, <2>4, MergeFrame DEF Keep
<1> QED BY <1>7, <1>8, <1>9

(* The end of the list.                                                    *)
LEMMA SettleTyped ==
  ASSUME TypeInv, Settle
  PROVE  TypeInv'
<1> USE DEF crawl, merging, list, options, disk, bounds
<1>0. /\ at = "merge" /\ result \in Seq(Definition) /\ items \in Seq(Definition) /\ items # <<>>
      /\ current \in Definition /\ Tail(items) \in Seq(Definition)
      /\ Len(items) # 1 => Tail(items) # <<>>
      /\ seen \subseteq Models \X Nat /\ dropped \subseteq Models \X Nat
      /\ toReplace \in Seq(DOMAIN result) /\ removals \in Nat
  BY AtWorkTypes DEF Settle, TypeInv, GeneratorTypeOK, WorkOK
<1> DEFINE rest == RemoveAll(result, toReplace)
<1>1. rest.list \in Seq(Definition)
  BY <1>0, RemoveAllRemoves
<1>2. removals' \in Nat
  <2>1. Len(toReplace) \in Nat
    BY <1>0
  <2>2. \E x \in {removals, Len(toReplace)} : \A y \in {removals, Len(toReplace)} : x >= y
    BY <1>0, <2>1
  <2>3. Max({removals, Len(toReplace)}) \in {removals, Len(toReplace)}
    BY <2>2 DEF Max
  <2> QED BY <1>0, <2>1, <2>3 DEF Settle
<1>3. CASE rest.panicked
  <2>1. /\ at' = "panicked" /\ result' = rest.list
         /\ UNCHANGED <<merging, seen, crawl, dropped, options, disk, bounds>>
    BY <1>3 DEF Settle
  <2> HIDE DEF rest
  <2> QED BY <1>0, <1>1, <1>2, <2>1 DEF TypeInv, GeneratorTypeOK, WorkOK, AtWork, Ended
<1>4. CASE ~rest.panicked
  <2>1. /\ NextItem /\ RowGoesOn /\ result' = Append(rest.list, current)
        /\ UNCHANGED <<crawl, dropped, options, disk, bounds>>
    BY <1>4 DEF Settle
  <2> HIDE DEF rest
  <2>2. result' \in Seq(Definition) /\ Len(result') \in Nat
    BY <1>0, <1>1, <2>1
  <2>3. /\ items' \in Seq(Definition) /\ at' \in {"rows", "merge"}
         /\ (at' = "merge" => items' # <<>>)
        /\ next' = 1 /\ toReplace' = <<>> /\ seen' \subseteq Models \X Nat
    BY <1>0, <2>1, PairsType DEF NextItem, RowGoesOn
  <2>4. 1 \in 1..(Len(result') + 1) /\ <<>> \in Seq(DOMAIN result')
    BY <2>2
  <2>5. MergeTypes'
    BY <1>0, <2>1, <2>2, <2>3, <2>4 DEF MergeTypes
  <2> QED BY <1>0, <1>2, <2>1, <2>5, MergeFrame
<1> QED BY <1>3, <1>4

(* The end of a run, and the next one.                                     *)
LEMMA RunsTyped ==
  ASSUME TypeInv, Finish \/ Kill \/ RunAgain
  PROVE  TypeInv'
<1> USE DEF Fault, crawl, merging, list, options, disk, bounds
<1>0. /\ MaxFaults \in Nat /\ MaxRuns \in Nat /\ Start \in Seq(Models) /\ IsInjective(Start)
      /\ Len(Start) \in Nat
  BY GeneratorAssumption
<1>1. CASE Finish
  <2>1. result \in Seq(Definition) /\ SortedById(result) \in Seq(Definition)
    BY SortingKeeps DEF TypeInv, GeneratorTypeOK
  <2>2. next \in 1..(Len(result) + 1) /\ toReplace \in Seq(DOMAIN result)
    BY <1>1 DEF Finish, TypeInv, GeneratorTypeOK
  <2>3. Len(SortedById(result)) = Len(result) /\ DOMAIN SortedById(result) = DOMAIN result
    <3>1. DOMAIN SortedById(result) = DOMAIN result
      BY DEF SortedById
    <3> QED BY <2>1, <3>1
  <2> QED BY <1>1, <2>1, <2>2, <2>3 DEF Finish, TypeInv, GeneratorTypeOK, WorkOK, AtWork, Ended
<1>2. CASE Kill
  BY <1>0, <1>2 DEF Kill, TypeInv, GeneratorTypeOK, WorkOK, AtWork, Ended
<1>3. CASE RunAgain
  <2>1. <<>> \in Seq(Definition) /\ <<>> \in Seq(DOMAIN <<>>) /\ Len(<<>>) = 0
    OBVIOUS
  <2>2. IsPageMap(<<>>)
    BY DEF IsPageMap
  <2>3. runs + 1 \in 1..MaxRuns
    BY <1>0, <1>3 DEF RunAgain, TypeInv, GeneratorTypeOK
  <2> QED
      BY <1>0, <1>3, <2>1, <2>2, <2>3 DEF RunAgain, TypeInv, GeneratorTypeOK, WorkOK, AtWork, Ended
<1> QED BY <1>1, <1>2, <1>3
(* The page that is being read is there, and its first row comes first.    *)
LEMMA PageStep ==
  ASSUME TypeInv, PageInv, [Next]_vars
  PROVE  PageInv'
<1> USE DEF PageInv, PageIsThere, RowsBegin, options
<1>1. CASE RefuseCache \/ StoreFails \/ Kill
  BY <1>1 DEF RefuseCache, StoreFails, Kill
<1>2. CASE OpenCache
  <2>1. url' = url /\ row' = row
    BY <1>2 DEF OpenCache, url
  <2> QED BY <1>2, <2>1 DEF OpenCache
<1>3. CASE GetFails
  BY <1>3 DEF GetFails
<1>4. CASE \E answer \in Answers : Get(answer)
  <2>1. PICK answer \in Answers : Get(answer)
    BY <1>4
  <2>2. /\ url' = url /\ row' = row /\ row = 1 /\ at' \in {"rows", "create"}
        /\ decodedMap' = [m \in DOMAIN decodedMap \cup {url}
                           |-> IF m = url THEN answer ELSE decodedMap[m]]
        /\ answer = "empty" => unread' = unread \cup {url}
    BY <2>1 DEF Get, url
  <2>3. url \in DOMAIN decodedMap' /\ decodedMap'[url] = answer
    BY <2>2
  <2> HIDE DEF PageInv
  <2> QED BY <2>2, <2>3 DEF PageInv
<1>5. CASE CreateCache \/ EncodeCache
  BY <1>5 DEF CreateCache, EncodeCache, crawl, url
<1>6. CASE ReadRow
  <2>1. /\ url' = url /\ decodedMap' = decodedMap /\ unread' = unread
         /\ at = "rows" /\ at' \in {"rows", "merge"}
    BY <1>6, ReadRowGrows DEF ReadRow
  <2> QED BY <2>1
<1>7. CASE EndPage
  BY <1>7 DEF EndPage
<1>8. CASE Finish
  BY <1>8 DEF Finish
<1>9. CASE \E c \in DOMAIN result : PassOver(c) \/ Replace(c) \/ Keep(c)
  <2>1. UNCHANGED crawl /\ at = "merge" /\ at' \in {"rows", "merge"}
    BY <1>9 DEF PassOver, Replace, Keep, CompareNext, RowGoesOn, IsCandidate, Contradict, Neither
  <2> QED BY <2>1 DEF crawl, url
<1>10. CASE Settle
  <2>1. UNCHANGED crawl /\ at = "merge" /\ at' \in {"rows", "merge", "panicked"}
    BY <1>10 DEF Settle, RowGoesOn
  <2> QED BY <2>1 DEF crawl, url
<1>11. CASE RunAgain
  BY <1>11 DEF RunAgain
<1>12. CASE UNCHANGED vars
  BY <1>12 DEF vars, crawl, url
<1> QED BY <1>1, <1>2, <1>3, <1>4, <1>5, <1>6, <1>7, <1>8, <1>9, <1>10, <1>11, <1>12
        DEF Next, Step, Answers
-----------------------------------------------------------------------------
(***************************************************************************)
(* The page cache.                                                         *)
(***************************************************************************)
(* A page is stored together with all that the file had, and the file is   *)
(* torn only while that goes on.                                           *)
LEMMA CacheStep ==
  ASSUME PageInv, StoreInv, CacheBreaksOnlyInTheMiddle, [Next]_vars
  PROVE  (StoreInv /\ CacheBreaksOnlyInTheMiddle)'
<1> USE DEF StoreInv, CacheKeepsItsPages, CacheBreaksOnlyInTheMiddle, disk, options
<1>1. CASE RefuseCache
  BY <1>1 DEF RefuseCache, CannotBeRead, crawl
<1>2. CASE OpenCache
  BY <1>2 DEF OpenCache, CannotBeRead, KnownPages
<1>3. CASE GetFails
  BY <1>3 DEF GetFails
<1>4. CASE \E answer \in Answers : Get(answer)
  <2>1. PICK answer \in Answers : Get(answer)
    BY <1>4
  <2>2. DOMAIN decodedMap' = DOMAIN decodedMap \cup {url}
    BY <2>1 DEF Get
  <2> QED BY <2>1, <2>2 DEF Get
<1>5. CASE CreateCache
  BY <1>5 DEF CreateCache, Torn, crawl
<1>6. CASE EncodeCache
  <2>1. /\ at = "encode" /\ at' = "rows" /\ cache'.is = "map" /\ cache'.pages = decodedMap
        /\ stored' = stored \cup {url}
    BY <1>6 DEF EncodeCache
  <2>2. url \in DOMAIN decodedMap
    BY <2>1 DEF PageInv, PageIsThere
  <2> QED BY <2>1, <2>2
<1>7. CASE StoreFails
  BY <1>7 DEF StoreFails, crawl
<1>8. CASE ReadRow \/ EndPage \/ Finish
  BY <1>8 DEF ReadRow, EndPage, Finish, crawl
<1>9. CASE \E c \in DOMAIN result : PassOver(c) \/ Replace(c) \/ Keep(c)
  BY <1>9 DEF PassOver, Replace, Keep, CompareNext, RowGoesOn, IsCandidate,
           Contradict, Neither, crawl
<1>10. CASE Settle
  BY <1>10 DEF Settle, RowGoesOn, crawl
<1>11. CASE Kill
  BY <1>11 DEF Kill, crawl
<1>12. CASE RunAgain
  BY <1>12 DEF RunAgain, Ended
<1>13. CASE UNCHANGED vars
  BY <1>13 DEF vars, crawl
<1> QED BY <1>1, <1>2, <1>3, <1>4, <1>5, <1>6, <1>7, <1>8, <1>9, <1>10, <1>11, <1>12, <1>13
        DEF Next, Step, Answers
-----------------------------------------------------------------------------
(***************************************************************************)
(* Merging.                                                                *)
(***************************************************************************)
(* A list that has each definition of the old one, perhaps for more models *)
(* and at another place, keeps what it has.                                *)
StillHas(defs, new) ==
  \A k \in DOMAIN defs : \E n \in DOMAIN new :
    new[n].id = defs[k].id /\ defs[k].models \subseteq new[n].models

(* With such a list, what was documented stays documented.                 *)
LEMMA StillKept ==
  ASSUME StillHas(result, result'), NEW e, Kept(e)
  PROVE  Kept(e)'
BY DEF StillHas, Kept, Documents

(* A step that loads or reads pages does not touch the list.               *)
LEMMA ElsewhereMergeInv ==
  ASSUME MergeInv, UNCHANGED list, at # "panicked", at' # "merge",
         \/ at \in {"page", "get", "create", "encode", "rows"} /\ UNCHANGED toReplace
         \/ at' \in Ended
  PROVE  MergeInv'
BY DEF MergeInv, ReplacedAreCovered, NothingIsMarked, Kept, Documents, list, Ended

(* The candidate, next to the current definition.                          *)
LEMMA CandidateTypes ==
  ASSUME TypeInv, NEW c, IsCandidate(c)
  PROVE  /\ at = "merge" /\ current \in Definition /\ items \in Seq(Definition) /\ items # <<>>
         /\ result \in Seq(Definition) /\ c \in DOMAIN result /\ result[c] \in Definition
         /\ result[c].id = current.id
         /\ toReplace \in Seq(DOMAIN result)
<1>1. /\ at = "merge" /\ current \in Definition /\ items \in Seq(Definition) /\ items # <<>>
      /\ result \in Seq(Definition) /\ next \in Nat \ {0} /\ toReplace \in Seq(DOMAIN result)
  BY AtWorkTypes, SMTT(30) DEF IsCandidate, TypeInv, GeneratorTypeOK, WorkOK
<1>2. c \in DOMAIN result /\ result[c].id = current.id
  BY <1>1, CandidateIsInTheList
<1>3. result[c] \in Definition
  BY <1>1, <1>2
<1> QED BY <1>1, <1>2, <1>3

(* A definition of the list may come to be united with the current one.    *)
LEMMA UnitedStillHas ==
  ASSUME TypeInv, NEW c, IsCandidate(c),
         \/ result' = result
         \/ result' = [result EXCEPT ![c] = Unite(@, current)]
  PROVE  /\ StillHas(result, result') /\ DOMAIN result' = DOMAIN result
         /\ \A k \in DOMAIN result : k # c => result'[k] = result[k]
         /\ result'[c].id = current.id
         /\ result'[c].models = result[c].models
              \/ result'[c].models = result[c].models \cup current.models
<1>1. /\ result \in Seq(Definition) /\ c \in DOMAIN result /\ result[c] \in Definition
      /\ current \in Definition /\ result[c].id = current.id
  BY CandidateTypes
<1>2. CASE result' = result
  BY <1>1, <1>2 DEF StillHas
<1>3. CASE result' = [result EXCEPT ![c] = Unite(@, current)]
  <2> DEFINE d == Unite(result[c], current)
  <2>1. d.id = current.id /\ d.models = result[c].models \cup current.models
    BY <1>1, UniteType
  <2> HIDE DEF d
  <2>2. /\ DOMAIN result' = DOMAIN result /\ result'[c] = d
        /\ \A k \in DOMAIN result : k # c => result'[k] = result[k]
    BY <1>1, <1>3 DEF d
  <2>3. StillHas(result, result')
    <3>1. ASSUME NEW k \in DOMAIN result
          PROVE  result'[k].id = result[k].id /\ result[k].models \subseteq result'[k].models
      <4>1. CASE k = c
        BY <1>1, <2>1, <2>2, <4>1
      <4>2. CASE k # c
        BY <2>2, <4>2
      <4> QED BY <4>1, <4>2
    <3> QED BY <2>2, <3>1 DEF StillHas
  <2> QED BY <2>1, <2>2, <2>3
<1> QED BY <1>2, <1>3

(* The current definition is marked to replace the candidate: it has the   *)
(* candidate's models, or those that it lacks are given up.                *)
LEMMA ReplaceMergeInv ==
  ASSUME TypeInv, MergeInv, NEW c \in DOMAIN result, IsCandidate(c), Replace(c)
  PROVE  MergeInv'
<1>1. /\ at = "merge" /\ current \in Definition /\ items \in Seq(Definition) /\ items # <<>>
      /\ result[c] \in Definition /\ result[c].id = current.id
      /\ toReplace \in Seq(DOMAIN result) /\ result \in Seq(Definition)
  BY CandidateTypes
<1>2. /\ StillHas(result, result') /\ DOMAIN result' = DOMAIN result
      /\ \A k \in DOMAIN result : k # c => result'[k] = result[k]
      /\ result'[c].id = current.id
  <2>1. result' = result \/ result' = [result EXCEPT ![c] = Unite(@, current)]
    BY DEF Replace
  <2> QED BY <2>1, UnitedStillHas
<1>3. /\ current'.id = current.id /\ current.models \subseteq current'.models
      /\ dropped \subseteq dropped'
      /\ \A m \in result'[c].models \ current'.models : <<m, current.id>> \in dropped'
  <2>1. CASE /\ Contradict(c) /\ ~Covers(result[c], current) /\ Covers(current, result[c])
             /\ UNCHANGED <<items, result, dropped>>
    BY <2>1 DEF Covers, current
  <2>2. CASE /\ Neither(c) /\ Preference(result[c], current) = 1
             /\ items' = [items EXCEPT ![1] = Unite(@, result[c])]
             /\ result' = [result EXCEPT ![c] = Unite(@, current)]
             /\ UNCHANGED dropped
    <3>1. items[1] = current /\ 1 \in DOMAIN items
      BY <1>1 DEF current
    <3>2. items'[1] = Unite(current, result[c]) /\ items' # <<>>
      BY <1>1, <2>2, <3>1
    <3>3. current' = Unite(current, result[c])
      BY <3>2 DEF current
    <3>4. current'.id = current.id /\ current'.models = current.models \cup result[c].models
      BY <1>1, <3>3, UniteType
    <3>5. result'[c].models \subseteq result[c].models \cup current.models
      BY <2>2, UnitedStillHas
    <3> QED BY <2>2, <3>4, <3>5
  <2>3. CASE /\ Neither(c) /\ Preference(result[c], current) = 0
             /\ IsWiderBattery(current, result[c])
             /\ GiveUp(result[c], current)
             /\ UNCHANGED <<items, result>>
    BY <1>1, <2>3 DEF GiveUp, current
  <2> QED BY <2>1, <2>2, <2>3 DEF Replace
<1>4. /\ at' = at /\ toReplace' = Append(toReplace, c) /\ seen' = seen /\ removals' = removals
  BY DEF Replace, CompareNext
<1>5. ReplacedAreCovered'
  <2> SUFFICES ASSUME NEW n \in DOMAIN toReplace'
               PROVE  /\ result'[toReplace'[n]].id = current'.id
                      /\ \A m \in result'[toReplace'[n]].models \ current'.models :
                           <<m, result'[toReplace'[n]].id>> \in dropped'
    BY DEF ReplacedAreCovered
  <2>1. toReplace'[n] = c \/ (n \in DOMAIN toReplace /\ toReplace'[n] = toReplace[n])
    BY <1>1, <1>4
  <2>2. CASE toReplace'[n] = c
    BY <1>2, <1>3, <2>2
  <2>3. CASE toReplace'[n] # c /\ n \in DOMAIN toReplace /\ toReplace'[n] = toReplace[n]
    <3>1. toReplace[n] \in DOMAIN result
      BY <1>1, <2>3
    <3>2. result'[toReplace'[n]] = result[toReplace[n]]
      BY <1>2, <2>3, <3>1
    <3>3. /\ result[toReplace[n]].id = current.id
          /\ \A m \in result[toReplace[n]].models \ current.models :
               <<m, result[toReplace[n]].id>> \in dropped
      BY <1>1, <2>3 DEF MergeInv, ReplacedAreCovered
    <3> QED BY <1>3, <3>2, <3>3
  <2> QED BY <2>1, <2>2, <2>3
<1>6. NothingIsMarked'
  BY <1>1, <1>4 DEF NothingIsMarked
<1>7. ASSUME removals' <= 1, NEW e \in seen' \ dropped' PROVE Kept(e)'
  <2>1. Kept(e)
    BY <1>1, <1>3, <1>4, <1>7 DEF MergeInv
  <2> QED BY <1>2, <2>1, StillKept
<1> QED BY <1>5, <1>6, <1>7 DEF MergeInv

(* The definition in the list stands: it has the current one's models, or  *)
(* those that it lacks are given up.                                       *)
LEMMA KeepMergeInv ==
  ASSUME TypeInv, MergeInv, NEW c \in DOMAIN result, IsCandidate(c), Keep(c)
  PROVE  MergeInv'
<1>1. /\ at = "merge" /\ current \in Definition
      /\ result[c] \in Definition /\ result[c].id = current.id
  BY CandidateTypes
<1>2. /\ StillHas(result, result') /\ DOMAIN result' = DOMAIN result
      /\ result'[c].id = current.id
  <2>1. result' = result \/ result' = [result EXCEPT ![c] = Unite(@, current)]
    BY DEF Keep
  <2> QED BY <2>1, UnitedStillHas
<1>3. /\ dropped \subseteq dropped'
      /\ \A m \in current.models : m \in result'[c].models \/ <<m, current.id>> \in dropped'
  <2>1. CASE /\ result' = [result EXCEPT ![c] = Unite(@, current)]
             /\ UNCHANGED dropped
    <3>1. result'[c] = Unite(result[c], current)
      BY <2>1
    <3> QED BY <1>1, <2>1, <3>1, UniteType
  <2>2. CASE Covers(result[c], current) /\ UNCHANGED <<result, dropped>>
    BY <2>2 DEF Covers
  <2>3. CASE GiveUp(current, result[c]) /\ UNCHANGED result
    BY <2>3 DEF GiveUp
  <2> QED BY <2>1, <2>2, <2>3 DEF Keep
<1>4. /\ at' \in {"rows", "merge"} /\ toReplace' = <<>> /\ removals' = removals
      /\ seen' = seen \cup {<<m, current.id>> : m \in current.models}
  BY DEF Keep, NextItem, RowGoesOn
<1>5. ReplacedAreCovered' /\ NothingIsMarked'
  BY <1>4 DEF ReplacedAreCovered, NothingIsMarked
<1>6. ASSUME removals' <= 1, NEW e \in seen' \ dropped' PROVE Kept(e)'
  <2>1. CASE e \in seen
    <3>1. Kept(e)
      BY <1>1, <1>3, <1>4, <1>6, <2>1 DEF MergeInv
    <3> QED BY <1>2, <3>1, StillKept
  <2>2. CASE e \notin seen
    <3>1. PICK m \in current.models : e = <<m, current.id>>
      BY <1>4, <1>6, <2>2
    <3>2. m \in result'[c].models
      BY <1>3, <1>6, <3>1
    <3>3. e[1] = m /\ e[2] = current.id
      BY <3>1
    <3> QED BY <1>2, <3>2, <3>3 DEF Kept, Documents
  <2> QED BY <2>1, <2>2
<1> QED BY <1>5, <1>6 DEF MergeInv

(* The current definition comes in place of the one that it replaces.      *)
LEMMA SettleMergeInv ==
  ASSUME TypeInv, MergeInv, Settle
  PROVE  MergeInv'
<1> DEFINE rest == RemoveAll(result, toReplace)
<1>1. /\ at = "merge" /\ result \in Seq(Definition) /\ current \in Definition
      /\ toReplace \in Seq(DOMAIN result) /\ removals \in Nat /\ Len(toReplace) \in Nat
  BY AtWorkTypes DEF Settle, TypeInv, GeneratorTypeOK, WorkOK
<1>2. /\ rest.list \in Seq(Definition)
      /\ Len(toReplace) = 0 => rest.list = result
      /\ Len(toReplace) = 1 => rest.list = RemoveAt(result, toReplace[1])
  BY <1>1, RemoveAllRemoves
<1>3. CASE at' = "panicked"
  BY <1>3 DEF MergeInv, ReplacedAreCovered, NothingIsMarked
<1>4. CASE at' # "panicked"
  <2>1. /\ NextItem /\ RowGoesOn /\ result' = Append(rest.list, current) /\ dropped' = dropped
        /\ removals' = Max({removals, Len(toReplace)})
    BY <1>4 DEF Settle
  <2> HIDE DEF rest
  <2>2. /\ at' \in {"rows", "merge"} /\ toReplace' = <<>>
        /\ seen' = seen \cup {<<m, current.id>> : m \in current.models}
    BY <2>1 DEF NextItem, RowGoesOn
  <2>3. ReplacedAreCovered' /\ NothingIsMarked'
    BY <2>2 DEF ReplacedAreCovered, NothingIsMarked
  <2>4. /\ Len(rest.list) + 1 \in DOMAIN result' /\ result'[Len(rest.list) + 1] = current
        /\ \A n \in DOMAIN rest.list : n \in DOMAIN result' /\ result'[n] = rest.list[n]
    BY <1>1, <1>2, <2>1
  <2>5. removals <= removals' /\ Len(toReplace) <= removals' /\ removals' \in Nat
    <3>1. \E x \in {removals, Len(toReplace)} : \A y \in {removals, Len(toReplace)} : x >= y
      BY <1>1
    <3>2. \A y \in {removals, Len(toReplace)} : removals' >= y
      BY <2>1, <3>1 DEF Max
    <3>3. removals' \in {removals, Len(toReplace)}
      BY <2>1, <3>1 DEF Max
    <3> QED BY <1>1, <3>2, <3>3
  <2>6. ASSUME removals' <= 1, NEW e \in seen' \ dropped' PROVE Kept(e)'
    <3>1. CASE \E m \in current.models : e = <<m, current.id>>
      BY <2>4, <3>1 DEF Kept, Documents
    <3>2. CASE ~\E m \in current.models : e = <<m, current.id>>
      <4>1. removals <= 1 /\ e \in seen \ dropped
        BY <1>1, <2>1, <2>2, <2>5, <2>6, <3>2
      <4>2. PICK k \in DOMAIN result : result[k].id = e[2] /\ e[1] \in result[k].models
        BY <1>1, <4>1 DEF MergeInv, Kept, Documents
      <4>3. ASSUME \E n \in DOMAIN rest.list : rest.list[n] = result[k] PROVE Kept(e)'
        BY <2>4, <4>2, <4>3 DEF Kept, Documents
      <4>4. CASE Len(toReplace) = 0
        BY <1>2, <4>3, <4>4
      <4>5. CASE Len(toReplace) = 1
        <5>1. 1 \in DOMAIN toReplace /\ toReplace[1] \in 1..Len(result) /\ k \in 1..Len(result)
          <6>1. DOMAIN toReplace = 1..Len(toReplace) /\ DOMAIN result = 1..Len(result)
            BY <1>1
          <6>2. 1 \in 1..Len(toReplace)
            BY <4>5
          <6>3. toReplace[1] \in DOMAIN result
            BY <1>1, <6>2
          <6> QED BY <6>1, <6>2, <6>3
        <5>2. CASE k # toReplace[1]
          BY <1>1, <1>2, <4>3, <4>5, <5>1, <5>2, RemoveAtRemoves
        <5>3. CASE k = toReplace[1]
          <6>1. /\ result[k].id = current.id
                /\ \A m \in result[k].models \ current.models : <<m, result[k].id>> \in dropped
            BY <1>1, <5>1, <5>3 DEF MergeInv, ReplacedAreCovered
          <6>2. seen \subseteq Models \X Nat
            BY DEF TypeInv, GeneratorTypeOK
          <6>3. e = <<e[1], e[2]>>
            BY <4>1, <6>2
          <6>4. e[1] \in current.models
            BY <4>1, <4>2, <6>1, <6>3
          <6> QED BY <3>2, <4>2, <6>1, <6>3, <6>4
        <5> QED BY <5>2, <5>3
      <4>6. Len(toReplace) = 0 \/ Len(toReplace) = 1
        <5> DEFINE n == Len(toReplace)
        <5>1. n \in Nat /\ n <= removals' /\ removals' \in Nat /\ removals' <= 1
          BY <1>1, <2>5, <2>6
        <5> HIDE DEF n
        <5>2. n = 0 \/ n = 1
          BY <5>1
        <5> QED BY <5>2 DEF n
      <4> QED BY <4>4, <4>5, <4>6
    <3> QED BY <3>1, <3>2
  <2> QED BY <2>3, <2>6 DEF MergeInv
<1> QED BY <1>3, <1>4

(* Sorting keeps what is there.                                            *)
LEMMA FinishMergeInv ==
  ASSUME TypeInv, MergeInv, Finish
  PROVE  MergeInv'
<1>1. result \in Seq(Definition)
  BY DEF TypeInv, GeneratorTypeOK
<1>2. /\ at = "page" /\ at' = "done" /\ result' = SortedById(result)
      /\ seen' = seen /\ dropped' = dropped /\ removals' = removals
  BY DEF Finish
<1>3. StillHas(result, result')
  BY <1>1, <1>2, SortingKeeps DEF StillHas
<1>4. ASSUME removals' <= 1, NEW e \in seen' \ dropped' PROVE Kept(e)'
  <2>1. Kept(e)
    BY <1>2, <1>4 DEF MergeInv
  <2> QED BY <1>3, <2>1, StillKept
<1> QED BY <1>2, <1>4 DEF MergeInv, ReplacedAreCovered, NothingIsMarked

(* Each step keeps the list as MergeInv says.                              *)
LEMMA MergeStep ==
  ASSUME TypeInv, MergeInv, [Next]_vars
  PROVE  MergeInv'
<1> USE DEF list, merging
<1>1. CASE \/ RefuseCache \/ OpenCache \/ GetFails \/ \E answer \in Answers : Get(answer)
           \/ CreateCache \/ EncodeCache \/ StoreFails \/ EndPage \/ Kill
  <2>1. /\ UNCHANGED <<list, toReplace>> /\ at # "panicked" /\ at' # "merge"
        /\ at \in {"page", "get", "create", "encode", "rows"} \/ at' \in Ended
    BY <1>1 DEF RefuseCache, OpenCache, GetFails, Get, CreateCache, EncodeCache, StoreFails,
                EndPage, Kill, Ended
  <2> QED BY <2>1, ElsewhereMergeInv
<1>2. CASE ReadRow
  <2>1. /\ UNCHANGED <<list, toReplace>> /\ at = "rows" /\ at' \in {"rows", "merge"}
    BY <1>2 DEF ReadRow
  <2>2. toReplace = <<>>
    BY <2>1 DEF MergeInv, NothingIsMarked
  <2> QED BY <2>1, <2>2 DEF MergeInv, ReplacedAreCovered, NothingIsMarked, Kept, Documents
<1>3. CASE \E c \in DOMAIN result : PassOver(c) \/ Replace(c) \/ Keep(c)
  <2>1. PICK c \in DOMAIN result : PassOver(c) \/ Replace(c) \/ Keep(c)
    BY <1>3
  <2>2. IsCandidate(c)
    BY <2>1 DEF PassOver, Replace, Keep, Contradict, Neither
  <2>3. CASE PassOver(c)
    <3>1. UNCHANGED <<at, items, toReplace, result, seen, dropped, removals>>
      BY <2>3 DEF PassOver, CompareNext
    <3>2. current' = current
      BY <3>1 DEF current
    <3> QED BY <3>1, <3>2 DEF MergeInv, ReplacedAreCovered, NothingIsMarked, Kept, Documents
  <2> QED BY <2>1, <2>2, <2>3, ReplaceMergeInv, KeepMergeInv
<1>4. CASE RunAgain
  <2>1. at' = "page" /\ toReplace' = <<>> /\ seen' = {}
    BY <1>4 DEF RunAgain
  <2> QED BY <2>1 DEF MergeInv, ReplacedAreCovered, NothingIsMarked
<1>5. CASE UNCHANGED vars
  <2>1. UNCHANGED <<at, items, toReplace, result, seen, dropped, removals>>
    BY <1>5 DEF vars
  <2>2. current' = current
    BY <2>1 DEF current
  <2> QED BY <2>1, <2>2 DEF MergeInv, ReplacedAreCovered, NothingIsMarked, Kept, Documents
<1> QED BY <1>1, <1>2, <1>3, <1>4, <1>5, SettleMergeInv, FinishMergeInv DEF Next, Step, Answers
-----------------------------------------------------------------------------
(***************************************************************************)
(* The crawl.                                                              *)
(***************************************************************************)
(* Whether a page other than the current one has come does not change.     *)
LEMMA LinksOfOthers ==
  ASSUME TypeInv, UNCHANGED <<urlsToProcess, wiki, noFollow>>,
         unread' = unread \/ unread' = unread \cup {url},
         NEW h \in Place, h # i, i \in Place
  PROVE  /\ Links(urlsToProcess[h])' = Links(urlsToProcess[h])
         /\ urlsToProcess[h] \in unread' <=> urlsToProcess[h] \in unread
<1>1. urlsToProcess[h] # url
  BY DEF TypeInv, GeneratorTypeOK, IsInjective, Place, url
<1>2. urlsToProcess[h] \in unread' <=> urlsToProcess[h] \in unread
  BY <1>1
<1> QED BY <1>2 DEF Links

(* A page that is opened or asked for: its rows are to be read next, or it *)
(* did not come and the next page's turn has come.                         *)
LEMMA PageComes ==
  ASSUME TypeInv, PageInv, CrawlInv, at = "page" \/ at = "get", i \in Place,
         UNCHANGED <<urlsToProcess, wiki, noFollow, row>>,
         unread' = unread \/ unread' = unread \cup {url},
         \/ /\ at' \in {"get", "create", "rows"} /\ i' = i
            /\ unread' # unread => at' # "get" /\ decodedMap'[url] = "empty"
         \/ at' = "page" /\ i' = i + 1 /\ unread' = unread \cup {url}
  PROVE  CrawlInv'
<1>0. /\ UnreadAreBehind /\ LinksAreFollowed /\ LinksHaveSources
      /\ i \in Nat /\ row' = 1 /\ url' = urlsToProcess[i'] /\ Place' = Place
      /\ \A h \in Place : h \in Nat
  BY DEF CrawlInv, PageInv, RowsBegin, TypeInv, GeneratorTypeOK, url, Place
<1>1. UnreadAreBehind'
  <2>1. unread' \subseteq ToSet(urlsToProcess')
    <3>1. url \in ToSet(urlsToProcess)
      BY DEF url, ToSet, Place, TypeInv, GeneratorTypeOK
    <3> QED BY <1>0, <3>1 DEF UnreadAreBehind
  <2>2. ASSUME NEW h \in Place, urlsToProcess[h] \in unread'
        PROVE  \/ h < i'
               \/ /\ h = i' /\ at' \in {"create", "encode", "rows", "merge"}
                  /\ decodedMap'[url'] = "empty"
    <3>1. CASE h # i
      <4>1. h < i
        BY <1>0, <2>2, <3>1, LinksOfOthers DEF UnreadAreBehind
      <4> QED BY <1>0, <4>1
    <3>2. CASE h = i
      <4>1. urlsToProcess[h] \notin unread
        BY <1>0, <3>2 DEF UnreadAreBehind
      <4>2. unread' # unread
        BY <2>2, <4>1
      <4>3. CASE i' = i
        BY <1>0, <3>2, <4>2, <4>3 DEF url
      <4>4. CASE i' = i + 1
        BY <1>0, <3>2, <4>4
      <4> QED BY <4>3, <4>4
    <3> QED BY <3>1, <3>2
  <2> QED BY <1>0, <2>1, <2>2 DEF UnreadAreBehind
<1>2. LinksAreFollowed'
  <2>1. ASSUME NEW h \in Place, h < i'
        PROVE  Links(urlsToProcess[h])' \subseteq ToSet(urlsToProcess)
    <3>1. CASE h # i
      <4>1. h < i
        BY <1>0, <2>1, <3>1
      <4> QED BY <1>0, <3>1, <4>1, LinksOfOthers DEF LinksAreFollowed
    <3>2. CASE h = i
      <4>1. urlsToProcess'[h] \in unread'
        BY <1>0, <2>1, <3>2 DEF url
      <4> QED BY <4>1 DEF Links
    <3> QED BY <3>1, <3>2
  <2>2. ASSUME at' = "rows" PROVE \A k \in DOMAIN Rows' : ~(k < row')
    <3>1. Rows' = <<>> \/ Rows' = wiki[url']
      BY DEF Rows
    <3>2. wiki[url'] \in Seq(Row)
      BY <1>0, <2>2, GeneratorAssumption DEF TypeInv, GeneratorTypeOK, Place
    <3>3. DOMAIN <<>> = {} /\ DOMAIN wiki[url'] = 1..Len(wiki[url'])
      BY <3>2
    <3> QED BY <1>0, <3>1, <3>3
  <2>3. at' \in {"rows", "merge"} => at' = "rows"
    OBVIOUS
  <2> QED BY <1>0, <2>1, <2>2, <2>3 DEF LinksAreFollowed
<1>3. LinksHaveSources'
  <2>1. ASSUME NEW h \in Place, urlsToProcess[h] \notin ToSet(Start)
        PROVE  \E g \in Place : /\ g < h /\ Entered(g)'
                                /\ urlsToProcess[h] \in Links(urlsToProcess[g])'
    <3>1. PICK g \in Place : g < h /\ Entered(g) /\ urlsToProcess[h] \in Links(urlsToProcess[g])
      BY <1>0, <2>1 DEF LinksHaveSources
    <3>2. g < i
      BY <3>1 DEF Entered
    <3>3. Entered(g)'
      BY <1>0, <3>2 DEF Entered
    <3>4. Links(urlsToProcess[g])' = Links(urlsToProcess[g])
      BY <1>0, <3>2, LinksOfOthers
    <3> QED BY <3>1, <3>3, <3>4
  <2> QED BY <1>0, <2>1 DEF LinksHaveSources
<1>4. at' # "done"
  OBVIOUS
<1> QED BY <1>1, <1>2, <1>3, <1>4 DEF CrawlInv

(* The links of a row are put on the work list.                            *)
LEMMA ReadRowCrawls ==
  ASSUME TypeInv, CrawlInv, ReadRow
  PROVE  CrawlInv'
<1> DEFINE added == IF noFollow THEN {} ELSE ToSet(Rows[row].hw)
<1>0. /\ at = "rows" /\ at' \in {"rows", "merge"} /\ row' = row + 1 /\ row \in Nat
      /\ unread' = unread /\ decodedMap' = decodedMap /\ wiki' = wiki /\ noFollow' = noFollow
      /\ UnreadAreBehind /\ LinksAreFollowed /\ LinksHaveSources
  BY DEF ReadRow, options, CrawlInv, TypeInv, GeneratorTypeOK
<1>1. /\ row \in DOMAIN Rows /\ GrownBy(urlsToProcess, urlsToProcess', added)
      /\ i \in Place /\ i' = i /\ url' = url
  BY ReadRowGrows DEF Place
<1> HIDE DEF added
<1>2. /\ Len(urlsToProcess) \in Nat /\ Len(urlsToProcess') \in Nat
      /\ Len(urlsToProcess) <= Len(urlsToProcess')
      /\ Place = 1..Len(urlsToProcess) /\ Place' = 1..Len(urlsToProcess')
      /\ \A h \in Place : h \in Place' /\ urlsToProcess'[h] = urlsToProcess[h]
      /\ ToSet(urlsToProcess') = ToSet(urlsToProcess) \cup added
      /\ i \in Nat
  BY <1>1 DEF GrownBy, Place, TypeInv, GeneratorTypeOK
<1>3. ASSUME NEW h \in Place', urlsToProcess'[h] \in ToSet(urlsToProcess) PROVE h \in Place
  <2>1. PICK g \in Place : urlsToProcess[g] = urlsToProcess'[h]
    <3>1. DOMAIN urlsToProcess = Place
      BY <1>2 DEF TypeInv, GeneratorTypeOK
    <3> QED BY <1>3, <3>1 DEF ToSet
  <2>2. IsInjective(urlsToProcess') /\ DOMAIN urlsToProcess' = Place'
    BY <1>1, <1>2 DEF GrownBy
  <2>3. g = h
    BY <1>2, <2>1, <2>2 DEF IsInjective
  <2> QED BY <2>3
<1>4. Rows' = Rows
  BY <1>0, <1>1 DEF Rows
<1>5. UnreadAreBehind'
  <2>1. ASSUME NEW h \in Place', urlsToProcess'[h] \in unread'
        PROVE  h < i' \/ (h = i' /\ decodedMap'[url'] = "empty")
    <3>1. h \in Place /\ urlsToProcess[h] \in unread
      BY <1>0, <1>2, <1>3, <2>1 DEF UnreadAreBehind
    <3> QED BY <1>0, <1>1, <3>1 DEF UnreadAreBehind
  <2> QED BY <1>0, <1>2, <2>1 DEF UnreadAreBehind
<1>6. LinksAreFollowed'
  <2>1. ASSUME NEW h \in Place', h < i'
        PROVE  Links(urlsToProcess[h])' \subseteq ToSet(urlsToProcess')
    <3>1. h \in Place
      BY <1>1, <1>2, <2>1
    <3>2. Links(urlsToProcess[h])' = Links(urlsToProcess[h])
      BY <1>0, <1>2, <3>1 DEF Links
    <3> QED BY <1>0, <1>1, <1>2, <2>1, <3>1, <3>2 DEF LinksAreFollowed
  <2>2. ASSUME ~noFollow, NEW k \in DOMAIN Rows, k < row + 1
        PROVE  ToSet(Rows[k].hw) \subseteq ToSet(urlsToProcess')
    <3>1. CASE k = row
      BY <1>2, <2>2, <3>1 DEF added
    <3>2. CASE k # row
      <4>1. k \in Nat
        <5>1. Rows \in Seq(Row)
          BY <1>0, RowsType
        <5> QED BY <2>2, <5>1
      <4>2. k < row
        BY <1>0, <2>2, <3>2, <4>1
      <4> QED BY <1>0, <1>2, <2>2, <4>2 DEF LinksAreFollowed
    <3> QED BY <3>1, <3>2
  <2> QED BY <1>0, <1>2, <1>4, <2>1, <2>2 DEF LinksAreFollowed
<1>7. LinksHaveSources'
  <2>1. ASSUME NEW h \in Place', urlsToProcess'[h] \notin ToSet(Start)
        PROVE  \E g \in Place' : /\ g < h /\ Entered(g)'
                                 /\ urlsToProcess'[h] \in Links(urlsToProcess[g])'
    <3>1. CASE h \in Place
      <4>1. PICK g \in Place : g < h /\ Entered(g) /\ urlsToProcess[h] \in Links(urlsToProcess[g])
        BY <1>0, <1>2, <2>1, <3>1 DEF LinksHaveSources
      <4>2. Entered(g)'
        BY <1>0, <1>1, <4>1 DEF Entered
      <4>3. Links(urlsToProcess[g])' = Links(urlsToProcess[g])
        BY <1>0, <1>2 DEF Links
      <4> QED BY <1>2, <3>1, <4>1, <4>2, <4>3
    <3>2. CASE h \notin Place
      <4>1. urlsToProcess'[h] \in added
        <5>1. urlsToProcess'[h] \in ToSet(urlsToProcess')
          BY <1>1, <1>2 DEF GrownBy, ToSet
        <5> QED BY <1>2, <1>3, <3>2, <5>1
      <4>2. PICK g \in Place' : g = i
        BY <1>1, <1>2
      <4>3. g < h /\ Entered(g)'
        BY <1>0, <1>1, <1>2, <3>2, <4>2 DEF Entered
      <4>4. ~noFollow /\ urlsToProcess'[h] \in ToSet(Rows[row].hw)
        BY <4>1 DEF added
      <4>5. decodedMap[url] = "page" /\ Rows = wiki[url]
        BY <1>1 DEF Rows
      <4>6. url \notin unread
        BY <1>0, <1>1, <1>2, <4>5 DEF UnreadAreBehind, url
      <4>7. urlsToProcess'[h] \in Links(url)
        BY <1>1, <4>4, <4>5, <4>6 DEF Links
      <4>8. Links(urlsToProcess[g])' = Links(url)
        <5>1. urlsToProcess'[g] = url
          BY <1>1, <1>2, <4>2 DEF url
        <5> QED BY <1>0, <5>1 DEF Links
      <4> QED BY <4>7, <4>8, <4>3
    <3> QED BY <3>1, <3>2
  <2> QED BY <2>1 DEF LinksHaveSources
<1> QED BY <1>0, <1>5, <1>6, <1>7 DEF CrawlInv

(* All rows of a page were read: its links are on the work list.           *)
LEMMA EndPageCrawls ==
  ASSUME TypeInv, PageInv, CrawlInv, EndPage
  PROVE  CrawlInv'
<1>0. /\ at = "rows" /\ at' = "page" /\ i' = i + 1 /\ i \in Nat /\ row > Len(Rows) /\ row \in Nat
      /\ UNCHANGED <<urlsToProcess, unread, decodedMap, wiki, noFollow>>
      /\ UnreadAreBehind /\ LinksAreFollowed /\ LinksHaveSources
      /\ Place' = Place /\ \A h \in Place : h \in Nat
  BY DEF EndPage, options, CrawlInv, TypeInv, GeneratorTypeOK, Place
<1>1. \A h : Links(urlsToProcess[h])' = Links(urlsToProcess[h])
  BY <1>0 DEF Links
<1>2. Links(url) \subseteq ToSet(urlsToProcess)
  <2>1. CASE noFollow \/ url \in unread
    BY <2>1 DEF Links
  <2>2. CASE ~(noFollow \/ url \in unread)
    <3>1. Rows = wiki[url]
      <4>1. decodedMap[url] \in Answers /\ decodedMap[url] # "empty"
        BY <1>0, <2>2 DEF PageInv, PageIsThere, TypeInv, WorkOK, IsPageMap
      <4> QED BY <4>1 DEF Answers, Rows
    <3>2. DOMAIN Rows = 1..Len(Rows) /\ Len(Rows) \in Nat
      BY <1>0, RowsType
    <3>3. \A k \in DOMAIN Rows : ToSet(Rows[k].hw) \subseteq ToSet(urlsToProcess)
      BY <1>0, <2>2, <3>2 DEF LinksAreFollowed
    <3> QED BY <2>2, <3>1, <3>3 DEF Links
  <2> QED BY <2>1, <2>2
<1>3. UnreadAreBehind'
  BY <1>0 DEF UnreadAreBehind
<1>4. LinksAreFollowed'
  <2>1. ASSUME NEW h \in Place, h < i'
        PROVE  Links(urlsToProcess[h]) \subseteq ToSet(urlsToProcess)
    <3>1. h < i \/ h = i
      BY <1>0, <2>1
    <3> QED BY <1>0, <1>2, <3>1 DEF LinksAreFollowed, url
  <2> QED BY <1>0, <1>1, <2>1 DEF LinksAreFollowed
<1>5. LinksHaveSources'
  <2>1. \A g \in Place : Entered(g) => Entered(g)'
    BY <1>0 DEF Entered
  <2> QED BY <1>0, <1>1, <2>1 DEF LinksHaveSources
<1> QED BY <1>0, <1>3, <1>4, <1>5 DEF CrawlInv

(* A step that leaves the crawl alone.                                     *)
LEMMA ElsewhereCrawls ==
  ASSUME CrawlInv, UNCHANGED <<crawl, wiki, noFollow>>, at' # "done" \/ i > Len(urlsToProcess),
         \/ at' = at
         \/ at' \in {"rows", "merge"} /\ at \in {"rows", "merge"}
         \/ at' \in {"fatal", "panicked", "killed"}
         \/ at = "page" /\ at' = "done"
  PROVE  CrawlInv'
<1>1. SUFFICES ASSUME at' \notin {"fatal", "panicked", "killed"} PROVE CrawlInv'
  BY DEF CrawlInv
<1>2. /\ UnreadAreBehind /\ LinksAreFollowed /\ LinksHaveSources
      /\ UNCHANGED <<urlsToProcess, i, decodedMap, row, unread, wiki, noFollow>>
      /\ url' = url /\ Place' = Place
  BY <1>1 DEF CrawlInv, crawl, url, Place
<1>3. \A h : Links(urlsToProcess[h])' = Links(urlsToProcess[h]) /\ (Entered(h) => Entered(h)')
  BY <1>1, <1>2 DEF Links, Entered
<1>4. Rows' = Rows
  BY <1>2 DEF Rows
<1>5. UnreadAreBehind'
  BY <1>1, <1>2 DEF UnreadAreBehind
<1>6. LinksAreFollowed'
  BY <1>1, <1>2, <1>3, <1>4 DEF LinksAreFollowed
<1>7. LinksHaveSources'
  <2>1. ASSUME NEW h \in Place, urlsToProcess[h] \notin ToSet(Start)
        PROVE  \E g \in Place : /\ g < h /\ Entered(g)'
                                /\ urlsToProcess[h] \in Links(urlsToProcess[g])'
    <3>1. PICK g \in Place : g < h /\ Entered(g) /\ urlsToProcess[h] \in Links(urlsToProcess[g])
      BY <1>2, <2>1 DEF LinksHaveSources
    <3> QED BY <1>3, <3>1
  <2> QED BY <1>2, <2>1 DEF LinksHaveSources
<1> QED BY <1>2, <1>5, <1>6, <1>7 DEF CrawlInv

(* Each step keeps the work list as CrawlInv says.                         *)
LEMMA CrawlStep ==
  ASSUME TypeInv, PageInv, CrawlInv, [Next]_vars
  PROVE  CrawlInv'
<1> USE DEF options
<1>0. i \in Nat /\ Place = 1..Len(urlsToProcess) /\ Len(urlsToProcess) \in Nat
      /\ (at \in AtWork => i \in Place)
  BY DEF TypeInv, GeneratorTypeOK, WorkOK, Place
<1>1. CASE RefuseCache \/ StoreFails \/ Kill
  BY <1>1 DEF RefuseCache, StoreFails, Kill, CrawlInv
<1>2. CASE OpenCache
  <2>1. i \in Place
    BY <1>0, <1>2 DEF OpenCache, MorePages, TypeInv, GeneratorTypeOK
  <2>2. /\ at = "page" /\ at' \in {"get", "rows"} /\ i' = i
        /\ UNCHANGED <<urlsToProcess, wiki, noFollow, row>>
        /\ unread' = unread \/ unread' = unread \cup {url}
        /\ unread' # unread => at' # "get" /\ decodedMap'[url] = "empty"
    BY <1>2 DEF OpenCache
  <2> QED BY <2>1, <2>2, PageComes
<1>3. CASE GetFails
  BY <1>0, <1>3, PageComes DEF GetFails, AtWork
<1>4. CASE \E answer \in Answers : Get(answer)
  <2>1. PICK answer \in Answers : Get(answer)
    BY <1>4
  <2>2. /\ at = "get" /\ at' \in {"create", "rows"} /\ i' = i
        /\ UNCHANGED <<urlsToProcess, wiki, noFollow, row>>
        /\ unread' = unread \/ (unread' = unread \cup {url} /\ answer = "empty")
        /\ decodedMap' = [m \in DOMAIN decodedMap \cup {url}
                           |-> IF m = url THEN answer ELSE decodedMap[m]]
    BY <2>1 DEF Get, Answers
  <2>3. decodedMap'[url] = answer
    BY <2>2
  <2>4. i \in Place
    BY <1>0, <2>2 DEF AtWork
  <2>5. unread' # unread => at' # "get" /\ decodedMap'[url] = "empty"
    BY <2>2, <2>3
  <2> QED BY <2>2, <2>4, <2>5, PageComes
<1>5. CASE CreateCache \/ EncodeCache
  <2>1. /\ UNCHANGED <<crawl, wiki, noFollow>> /\ row = 1
        /\ at \in {"create", "encode"} /\ at' \in {"encode", "rows"}
    BY <1>5 DEF CreateCache, EncodeCache, PageInv, RowsBegin
  <2>2. ASSUME at' = "rows" PROVE \A k \in DOMAIN Rows' : ~(k < row')
    <3>1. /\ row' = 1 /\ wiki' = wiki /\ url' = url /\ decodedMap' = decodedMap
      BY <2>1 DEF crawl, url
    <3>2. Rows = <<>> \/ Rows = wiki[url]
      BY DEF Rows
    <3>3. url \in Models
      BY <2>1, AtWorkTypes DEF AtWork
    <3>4. wiki[url] \in Seq(Row)
      BY <3>3, GeneratorAssumption DEF TypeInv, GeneratorTypeOK
    <3>5. DOMAIN <<>> = {} /\ DOMAIN wiki[url] = 1..Len(wiki[url])
      BY <3>4
    <3>6. Rows' = Rows
      BY <3>1 DEF Rows
    <3> QED BY <3>1, <3>2, <3>5, <3>6
  <2>3. \A g : Entered(g) => Entered(g)'
    BY <2>1 DEF Entered, crawl
  <2>4. UnreadAreBehind /\ LinksAreFollowed /\ LinksHaveSources
    BY <2>1 DEF CrawlInv
  <2>5. UnreadAreBehind'
    BY <2>1, <2>4 DEF UnreadAreBehind, crawl, url, Place
  <2>6. LinksAreFollowed'
    BY <2>1, <2>2, <2>4, SMTT(30) DEF LinksAreFollowed, crawl, Links, Place
  <2>7. LinksHaveSources'
    <3>1. Place' = Place /\ urlsToProcess' = urlsToProcess
      BY <2>1 DEF crawl, Place
    <3>2. \A h : Links(urlsToProcess[h])' = Links(urlsToProcess[h])
      BY <2>1 DEF crawl, Links
    <3>3. ASSUME NEW h \in Place, urlsToProcess[h] \notin ToSet(Start)
          PROVE  \E g \in Place : /\ g < h /\ Entered(g)'
                                  /\ urlsToProcess[h] \in Links(urlsToProcess[g])'
      <4>1. PICK g \in Place : g < h /\ Entered(g) /\ urlsToProcess[h] \in Links(urlsToProcess[g])
        BY <2>4, <3>3 DEF LinksHaveSources
      <4> QED BY <2>3, <3>2, <4>1
    <3> QED BY <3>1, <3>3 DEF LinksHaveSources
  <2> QED BY <2>1, <2>5, <2>6, <2>7 DEF CrawlInv
<1>6. CASE ReadRow
  BY <1>6, ReadRowCrawls
<1>7. CASE EndPage
  BY <1>7, EndPageCrawls
<1>8. CASE Finish
  <2>1. /\ UNCHANGED <<crawl, wiki, noFollow>> /\ at = "page" /\ at' = "done"
        /\ i > Len(urlsToProcess)
    BY <1>0, <1>8 DEF Finish, MorePages
  <2> QED BY <2>1, ElsewhereCrawls
<1>9. CASE \E c \in DOMAIN result : PassOver(c) \/ Replace(c) \/ Keep(c)
  <2>1. /\ UNCHANGED <<crawl, wiki, noFollow>> /\ at = "merge" /\ at' \in {"rows", "merge"}
    BY <1>9 DEF PassOver, Replace, Keep, CompareNext, RowGoesOn, IsCandidate, Contradict, Neither
  <2> QED BY <2>1, ElsewhereCrawls
<1>10. CASE Settle
  <2>1. /\ UNCHANGED <<crawl, wiki, noFollow>>
         /\ at = "merge" /\ at' \in {"rows", "merge", "panicked"}
    BY <1>10 DEF Settle, RowGoesOn
  <2> QED BY <2>1, ElsewhereCrawls
<1>11. CASE RunAgain
  <2>1. at' = "page" /\ urlsToProcess' = Start /\ i' = 1 /\ unread' = {}
    BY <1>11 DEF RunAgain
  <2>2. \A h \in Place' : ~(h < 1) /\ Start[h] \in ToSet(Start)
    BY <2>1, GeneratorAssumption DEF Place, ToSet
  <2> QED BY <2>1, <2>2 DEF CrawlInv, UnreadAreBehind, LinksAreFollowed, LinksHaveSources
<1>12. CASE UNCHANGED vars
  <2>1. UNCHANGED <<crawl, wiki, noFollow>> /\ at' = at
    BY <1>12 DEF vars
  <2>2. at' # "done" \/ i > Len(urlsToProcess)
    BY <2>1 DEF CrawlInv
  <2> QED BY <2>1, <2>2, ElsewhereCrawls
<1> QED BY <1>1, <1>2, <1>3, <1>4, <1>5, <1>6, <1>7, <1>8, <1>9, <1>10, <1>11, <1>12
        DEF Next, Step, Answers

(* At the end the work list is closed under links, and each page on it was *)
(* reached: the first one that was not would have a source before it.      *)
LEMMA CrawlIsComplete ==
  ASSUME TypeInv, CrawlInv
  PROVE  EveryReachablePageIsRead
<1> SUFFICES ASSUME at = "done" PROVE ToSet(urlsToProcess) = Reachable
  BY DEF EveryReachablePageIsRead
<1> DEFINE Closed == {S \in SUBSET Models : ToSet(Start) \subseteq S
                                            /\ \A m \in S : Links(m) \subseteq S}
<1>0. /\ urlsToProcess \in Seq(Models) /\ i \in Nat /\ i > Len(urlsToProcess)
      /\ LinksAreFollowed /\ LinksHaveSources
      /\ DOMAIN urlsToProcess = Place /\ Place \subseteq Nat
      /\ \A h \in Place : h < i
      /\ ToSet(urlsToProcess) = {urlsToProcess[h] : h \in Place}
      /\ ToSet(urlsToProcess) \subseteq Models
  BY DEF CrawlInv, TypeInv, GeneratorTypeOK, Place, ToSet
<1>1. Reachable = {m \in Models : \A S \in Closed : m \in S}
  BY DEF Reachable, Links
<1>2. ToSet(urlsToProcess) \in Closed
  BY <1>0 DEF LinksAreFollowed
<1>3. ASSUME NEW S \in Closed PROVE ToSet(urlsToProcess) \subseteq S
  <2> DEFINE T == {h \in Place : urlsToProcess[h] \notin S}
  <2>1. T = {}
    <3> SUFFICES ASSUME T # {} PROVE FALSE
      OBVIOUS
    <3>1. T \in SUBSET Nat
      BY <1>0
    <3>2. PICK h \in T : \A g \in T : h <= g
      <4> HIDE DEF T
      <4> QED BY <3>1, LeastNumber
    <3>3. h \in Place /\ urlsToProcess[h] \notin S /\ urlsToProcess[h] \notin ToSet(Start)
      BY <1>3, <3>2
    <3>4. PICK g \in Place : g < h /\ urlsToProcess[h] \in Links(urlsToProcess[g])
      BY <1>0, <3>3 DEF LinksHaveSources
    <3>5. urlsToProcess[g] \in S
      BY <1>0, <3>1, <3>2, <3>4
    <3> QED BY <1>3, <3>3, <3>4, <3>5
  <2> QED BY <1>0, <2>1
<1> HIDE DEF Closed
<1> QED BY <1>0, <1>1, <1>2, <1>3
-----------------------------------------------------------------------------

(***************************************************************************)
(* Numbers and their bytes.                                                *)
(***************************************************************************)
(* What a byte may be; half of the bytes have the sign bit.                *)
Digit == 0..(Byte - 1)

LEMMA ByteIsEven == Byte \in Nat /\ Byte >= 2 /\ Byte \div 2 \in Nat /\ Byte = 2 * (Byte \div 2)
BY IoElementsAssumption

ValueSteps(n) == [k \in 1..n |-> [x \in Nat |-> x * Byte]]

(* Values takes its result from a function that multiplies n times.        *)
LEMMA ValuesIsRecursive ==
  ASSUME NEW n \in Nat
  PROVE  \E f : Runs(f, n, Nat, 1, ValueSteps(n)) /\ Values(n) = f[n]
<1> DEFINE P(f) == f = [k \in 0..n |-> IF k = 0 THEN 1 ELSE f[k - 1] * Byte]
           f0 == CHOOSE f : P(f)
           step == ValueSteps(n)
<1>1. Values(n) = f0[n]
  BY DEF Values
<1>2. step \in Steps(n, Nat) /\ \A k \in 1..n, x \in Nat : step[k][x] = x * Byte
  BY ByteIsEven DEF ValueSteps, Steps
<1> HIDE DEF step
<1>3. \E f : P(f)
  <2>1. PICK f : Runs(f, n, Nat, 1, step)
    <3> HIDE DEF P, f0
    <3> QED BY <1>2, RecursionExists
  <2>2. ASSUME NEW k \in 1..n PROVE f[k] = f[k - 1] * Byte
    <3>1. f[k - 1] \in Nat
      BY <2>1 DEF Runs
    <3> QED BY <1>2, <2>1, <3>1 DEF Runs
  <2>3. P(f)
    <3>1. \A k \in 0..n : k = 0 \/ k \in 1..n
      OBVIOUS
    <3> QED BY <2>1, <2>2, <3>1 DEF Runs
  <2> HIDE DEF P
  <2> QED BY <2>3
<1>4. P(f0)
  <2> HIDE DEF P
  <2> QED BY <1>3
<1> HIDE DEF f0
<1>5. f0 = [k \in 0..n |-> f0[k]] /\ f0[0] = 1
  BY <1>4
<1>6. ASSUME NEW k \in 1..n, f0[k - 1] \in Nat PROVE f0[k] = step[k][f0[k - 1]]
  BY <1>2, <1>4, <1>6
<1>7. Runs(f0, n, Nat, 1, step)
  <2> HIDE DEF P
  <2> QED BY <1>2, <1>5, <1>6, StaysInSet
<1> QED BY <1>1, <1>7 DEF step

(* One byte more has Byte times as many values.                            *)
LEMMA ValuesGrow ==
  /\ Values(0) = 1
  /\ \A n \in Nat : Values(n) \in Nat \ {0} /\ Values(n + 1) = Values(n) * Byte
<1>1. Values(0) = 1
  <2>1. PICK f : Runs(f, 0, Nat, 1, ValueSteps(0)) /\ Values(0) = f[0]
    BY ValuesIsRecursive
  <2> QED BY <2>1 DEF Runs
<1>2. ASSUME NEW n \in Nat PROVE Values(n) \in Nat /\ Values(n + 1) = Values(n) * Byte
  <2> DEFINE m == n + 1
             one == ValueSteps(n)
             two == ValueSteps(m)
  <2>1. m \in Nat /\ n <= m /\ m \in 1..m /\ n \in 0..m /\ n \in 0..n /\ m - 1 = n
    OBVIOUS
  <2>2. PICK f : Runs(f, n, Nat, 1, one) /\ Values(n) = f[n]
    BY ValuesIsRecursive
  <2>3. PICK g : Runs(g, m, Nat, 1, two) /\ Values(m) = g[m]
    <3> HIDE DEF m
    <3> QED BY <2>1, ValuesIsRecursive
  <2>4. Agree(one, two, 1, n)
    BY DEF Agree, ValueSteps
  <2>5. two[m][g[n]] = g[n] * Byte /\ g[n] \in Nat
    <3>1. g[n] \in Nat
      BY <2>1, <2>3 DEF Runs
    <3> QED BY <2>1, <3>1 DEF ValueSteps
  <2> HIDE DEF one, two, m
  <2>6. f[n] = g[n]
    <3>1. Agree(f, g, 0, n)
      BY <2>1, <2>2, <2>3, <2>4, RunsAgree
    <3> QED BY <2>1, <3>1 DEF Agree
  <2>7. g[m] = two[m][g[n]]
    BY <2>1, <2>3 DEF Runs
  <2> QED BY <2>2, <2>3, <2>5, <2>6, <2>7 DEF m
<1>3. \A n \in Nat : Values(n) # 0
  <2> DEFINE T == {n \in Nat : Values(n) # 0}
  <2>1. ASSUME NEW m \in Nat PROVE m \in T
    <3>1. 0 \in T
      BY <1>1
    <3>2. ASSUME NEW k \in 1..m, k - 1 \in T PROVE k \in T
      <4>1. k - 1 \in Nat /\ (k - 1) + 1 = k /\ k \in Nat
        OBVIOUS
      <4>2. Values(k) = Values(k - 1) * Byte /\ Values(k - 1) \in Nat
        BY <1>2, <4>1
      <4>3. Values(k - 1) > 0
        BY <3>2, <4>2
      <4> QED BY <4>1, <4>2, <4>3, ByteIsEven
    <3>3. 0..m \subseteq T
      <4> HIDE DEF T
      <4> QED BY <3>1, <3>2, UpTo
    <3> QED BY <3>3
  <2> QED BY <2>1
<1> QED BY <1>1, <1>2, <1>3

HornerSteps(bytes) == [k \in 1..Len(bytes) |-> [x \in Nat |-> x * Byte + bytes[k]]]

(* Unsigned takes its result from a function that adds one byte at a time. *)
LEMMA UnsignedIsRecursive ==
  ASSUME NEW bytes \in Seq(Digit)
  PROVE  \E f : Runs(f, Len(bytes), Nat, 0, HornerSteps(bytes)) /\ Unsigned(bytes) = f[Len(bytes)]
<1> DEFINE n == Len(bytes)
           P(f) == f = [k \in 0..n |-> IF k = 0 THEN 0 ELSE f[k - 1] * Byte + bytes[k]]
           f0 == CHOOSE f : P(f)
           step == HornerSteps(bytes)
<1>1. n \in Nat /\ Unsigned(bytes) = f0[n]
  BY DEF Unsigned
<1>2. \A k \in 1..n, x \in Nat : x * Byte + bytes[k] \in Nat
  <2> TAKE k \in 1..n, x \in Nat
  <2>1. bytes[k] \in Nat
    BY ByteIsEven DEF Digit
  <2> QED BY <2>1, ByteIsEven
<1>3. step \in Steps(n, Nat) /\ \A k \in 1..n, x \in Nat : step[k][x] = x * Byte + bytes[k]
  BY <1>2 DEF HornerSteps, Steps
<1> HIDE DEF step, n
<1>4. \E f : P(f)
  <2>1. PICK f : Runs(f, n, Nat, 0, step)
    <3> HIDE DEF P, f0
    <3> QED BY <1>1, <1>3, RecursionExists
  <2>2. ASSUME NEW k \in 1..n PROVE f[k] = f[k - 1] * Byte + bytes[k]
    <3>1. f[k - 1] \in Nat
      BY <1>1, <2>1 DEF Runs
    <3> QED BY <1>3, <2>1, <3>1 DEF Runs
  <2>3. P(f)
    <3>1. \A k \in 0..n : k = 0 \/ k \in 1..n
      BY <1>1
    <3> QED BY <2>1, <2>2, <3>1 DEF Runs
  <2> HIDE DEF P
  <2> QED BY <2>3
<1>5. P(f0)
  <2> HIDE DEF P
  <2> QED BY <1>4
<1> HIDE DEF f0
<1>6. f0 = [k \in 0..n |-> f0[k]] /\ f0[0] = 0
  BY <1>1, <1>5
<1>7. ASSUME NEW k \in 1..n, f0[k - 1] \in Nat PROVE f0[k] = step[k][f0[k - 1]]
  <2>1. k \in 0..n /\ k # 0
    BY <1>1
  <2>2. f0[k] = f0[k - 1] * Byte + bytes[k]
    BY <1>5, <2>1
  <2> QED BY <1>3, <1>7, <2>2
<1>8. Runs(f0, n, Nat, 0, step)
  <2> HIDE DEF P
  <2> QED BY <1>1, <1>3, <1>6, <1>7, StaysInSet
<1> QED BY <1>1, <1>8 DEF step, n

PlaceSteps(bytes) ==
  [k \in 1..Len(bytes) |-> [x \in Nat |-> x + bytes[k] * Values(Len(bytes) - k)]]

(* The numbers of so many bytes.                                           *)
NumbersOf(type, w) ==
  IF type = "unsigned" THEN 0..(Values(w) - 1)
  ELSE -(Values(w) \div 2)..(Values(w) \div 2 - 1)

(* So does the sum in Denotes, one weighted byte at a time.                *)
LEMMA DenotesIsRecursive ==
  ASSUME NEW type, NEW bytes \in Seq(Digit)
  PROVE  \E f : /\ Runs(f, Len(bytes), Nat, 0, PlaceSteps(bytes))
                /\ Denotes(type, bytes) =
                     CHOOSE n \in NumbersOf(type, Len(bytes)) :
                       (n - f[Len(bytes)]) % Values(Len(bytes)) = 0
<1> DEFINE n == Len(bytes)
           P(f) == f = [k \in 0..n |-> IF k = 0 THEN 0
                                       ELSE f[k - 1] + bytes[k] * Values(n - k)]
           f0 == CHOOSE f : P(f)
           step == PlaceSteps(bytes)
<1>1. /\ n \in Nat
      /\ Denotes(type, bytes) =
           CHOOSE m \in NumbersOf(type, n) : (m - f0[n]) % Values(n) = 0
  BY DEF Denotes, NumbersOf
<1>2. \A k \in 1..n, x \in Nat : x + bytes[k] * Values(n - k) \in Nat
  <2> TAKE k \in 1..n, x \in Nat
  <2>1. bytes[k] \in Nat
    BY ByteIsEven DEF Digit
  <2>2. n - k \in Nat
    BY <1>1
  <2>3. Values(n - k) \in Nat
    BY <2>2, ValuesGrow
  <2> HIDE DEF n
  <2> QED BY <2>1, <2>3
<1>3. step \in Steps(n, Nat) /\ \A k \in 1..n, x \in Nat :
                                  step[k][x] = x + bytes[k] * Values(n - k)
  BY <1>2 DEF PlaceSteps, Steps
<1> HIDE DEF step, n
<1>4. \E f : P(f)
  <2>1. PICK f : Runs(f, n, Nat, 0, step)
    <3> HIDE DEF P, f0
    <3> QED BY <1>1, <1>3, RecursionExists
  <2>2. ASSUME NEW k \in 1..n PROVE f[k] = f[k - 1] + bytes[k] * Values(n - k)
    <3>1. f[k - 1] \in Nat
      BY <1>1, <2>1 DEF Runs
    <3> QED BY <1>3, <2>1, <3>1 DEF Runs
  <2>3. P(f)
    <3>1. \A k \in 0..n : k = 0 \/ k \in 1..n
      BY <1>1
    <3> QED BY <2>1, <2>2, <3>1 DEF Runs
  <2> HIDE DEF P
  <2> QED BY <2>3
<1>5. P(f0)
  <2> HIDE DEF P
  <2> QED BY <1>4
<1> HIDE DEF f0
<1>6. f0 = [k \in 0..n |-> f0[k]] /\ f0[0] = 0
  BY <1>1, <1>5
<1>7. ASSUME NEW k \in 1..n, f0[k - 1] \in Nat PROVE f0[k] = step[k][f0[k - 1]]
  <2>1. k \in 0..n /\ k # 0
    BY <1>1
  <2>2. f0[k] = f0[k - 1] + bytes[k] * Values(n - k)
    BY <1>5, <2>1
  <2> QED BY <1>3, <1>7, <2>2
<1>8. Runs(f0, n, Nat, 0, step)
  <2> HIDE DEF P
  <2> QED BY <1>1, <1>3, <1>6, <1>7, StaysInSet
<1> QED BY <1>1, <1>8 DEF step, n

(* Byte by byte or each at its place: the number is the same.  The first   *)
(* byte decides in which part of the range it lies.                        *)
LEMMA PlacesAddUp ==
  ASSUME NEW bytes \in Seq(Digit), Len(bytes) # 0,
         NEW f, Runs(f, Len(bytes), Nat, 0, HornerSteps(bytes)),
         NEW g, Runs(g, Len(bytes), Nat, 0, PlaceSteps(bytes))
  PROVE  /\ f[Len(bytes)] = g[Len(bytes)]
         /\ f[Len(bytes)] \in Nat
         /\ bytes[1] * Values(Len(bytes) - 1) <= f[Len(bytes)]
         /\ f[Len(bytes)] < (bytes[1] + 1) * Values(Len(bytes) - 1)
<1> DEFINE n == Len(bytes)
           b == bytes[1]
           Same(k) == g[k] = f[k] * Values(n - k)
           Near(k) == b * Values(k - 1) <= f[k] /\ f[k] < (b + 1) * Values(k - 1)
           T == {k \in 0..n : Same(k) /\ (k # 0 => Near(k))}
<1>1. n \in Nat /\ n # 0 /\ b \in Nat /\ \A k \in 1..n : bytes[k] \in Nat /\ bytes[k] < Byte
  BY ByteIsEven DEF Digit
<1>2. /\ \A k \in 0..n : f[k] \in Nat /\ g[k] \in Nat
      /\ f[0] = 0 /\ g[0] = 0
      /\ \A k \in 1..n : k - 1 \in 0..n /\ f[k] = HornerSteps(bytes)[k][f[k - 1]]
                         /\ g[k] = PlaceSteps(bytes)[k][g[k - 1]]
  BY SMTT(30) DEF Runs
<1>3. \A k \in 1..n : /\ f[k] = f[k - 1] * Byte + bytes[k]
                      /\ g[k] = g[k - 1] + bytes[k] * Values(n - k)
  BY <1>2 DEF HornerSteps, PlaceSteps
<1> HIDE DEF n, b
<1>4. 0 \in T
  <2>1. n - 0 \in Nat /\ 0 \in 0..n
    BY <1>1
  <2>2. Values(n - 0) \in Nat
    BY <2>1, ValuesGrow
  <2> QED BY <1>2, <2>1, <2>2
<1>5. ASSUME NEW k \in 1..n, k - 1 \in T PROVE k \in T
  <2>0. k \in Nat /\ k - 1 \in Nat /\ n - k \in Nat /\ (n - k) + 1 = n - (k - 1) /\ k \in 0..n
    BY <1>1
  <2> DEFINE v == Values(n - k)
             x == f[k - 1]
             c == bytes[k]
             u == Values(k - 1)
  <2>1. v \in Nat /\ Values(n - (k - 1)) = v * Byte /\ u \in Nat \ {0}
    BY <2>0, ValuesGrow
  <2>2. x \in Nat /\ c \in Nat /\ c < Byte /\ f[k] = x * Byte + c /\ g[k] = g[k - 1] + c * v
    BY <1>1, <1>2, <1>3
  <2>3. Same(k)
    <3>1. g[k - 1] = x * (v * Byte)
      BY <1>5, <2>1
    <3> HIDE DEF v, x, c, u
    <3>2. g[k] = x * (v * Byte) + c * v
      BY <2>2, <3>1
    <3>3. x * (v * Byte) + c * v = (x * Byte + c) * v
      BY <2>1, <2>2, ByteIsEven
    <3> QED BY <2>2, <3>2, <3>3 DEF v
  <2>4. CASE k = 1
    <3>1. u = 1 /\ x = 0 /\ c = b
      BY <1>2, <2>4, ValuesGrow DEF b
    <3>2. f[k] = b
      BY <2>2, <3>1, <1>1, ByteIsEven
    <3> QED BY <1>1, <2>0, <2>3, <3>1, <3>2
  <2>5. CASE k # 1
    <3>1. k - 2 \in Nat /\ (k - 2) + 1 = k - 1 /\ k - 1 # 0 /\ (k - 1) - 1 = k - 2
      BY <2>0, <2>5
    <3> DEFINE z == Values(k - 2)
    <3>2. z \in Nat /\ u = z * Byte
      BY <3>1, ValuesGrow
    <3>3. b * z <= x /\ x < (b + 1) * z
      BY <1>5, <3>1
    <3> HIDE DEF z, x, u, v, c
    <3>4. b * u <= f[k]
      <4>1. (b * z) * Byte <= x * Byte
        BY <1>1, <2>2, <3>2, <3>3, ByteIsEven
      <4>2. (b * z) * Byte = b * u
        BY <1>1, <3>2, ByteIsEven
      <4>3. x * Byte \in Nat /\ b * u \in Nat
        BY <1>1, <2>2, <3>2, ByteIsEven
      <4> QED BY <2>2, <4>1, <4>2, <4>3
    <3>5. f[k] < (b + 1) * u
      <4>1. (b + 1) * z \in Nat /\ x + 1 <= (b + 1) * z
        BY <1>1, <2>2, <3>2, <3>3
      <4>2. (x + 1) * Byte <= ((b + 1) * z) * Byte
        BY <2>2, <4>1, ByteIsEven, SMTT(30)
      <4>3. ((b + 1) * z) * Byte = (b + 1) * u
        BY <1>1, <3>2, ByteIsEven
      <4>4. (x + 1) * Byte = x * Byte + Byte /\ x * Byte \in Nat /\ (b + 1) * u \in Nat
        BY <1>1, <2>2, <3>2, ByteIsEven
      <4> QED BY <2>2, <4>2, <4>3, <4>4, ByteIsEven
    <3> QED BY <2>0, <2>3, <3>4, <3>5 DEF u
  <2> QED BY <2>4, <2>5
<1>6. n \in T
  <2>1. 0..n \subseteq T
    <3> HIDE DEF T
    <3> QED BY <1>1, <1>4, <1>5, UpTo
  <2> QED BY <1>1, <2>1
<1>7. Values(n - n) = 1 /\ n \in 0..n
  BY <1>1, ValuesGrow
<1>8. g[n] = f[n] * 1 /\ Near(n) /\ f[n] \in Nat
  BY <1>1, <1>2, <1>6, <1>7
<1> QED BY <1>8 DEF n, b

(* A range as long as p has one number that agrees with s modulo p.        *)
LEMMA OnlyNumber ==
  ASSUME NEW p \in Nat, p > 0, NEW low \in Int, NEW s \in Int, NEW r \in low..(low + p - 1),
         (r - s) % p = 0
  PROVE  r = CHOOSE n \in low..(low + p - 1) : (n - s) % p = 0
<1>1. ASSUME NEW n \in low..(low + p - 1), (n - s) % p = 0 PROVE n = r
  <2> DEFINE x == (n - s) \div p
             y == (r - s) \div p
  <2>1. n - r > -p /\ n - r < p /\ n - s \in Int /\ r - s \in Int
    OBVIOUS
  <2>2. x \in Int /\ y \in Int /\ n - s = p * x /\ r - s = p * y
    BY <1>1, <2>1
  <2> HIDE DEF x, y
  <2>3. n - r = p * (x - y)
    BY <2>1, <2>2
  <2>4. x - y < 1 /\ x - y > -1
    BY <2>1, <2>2, <2>3
  <2> QED BY <2>2, <2>3, <2>4
<1> QED BY <1>1

(* What is decoded, with the sign or without, is what the bytes stand for. *)
LEMMA NumbersAreDenoted ==
  ASSUME NEW bytes \in Seq(Digit), Len(bytes) # 0
  PROVE  /\ Unsigned(bytes) = Denotes("unsigned", bytes)
         /\ Signed(bytes) = Denotes("signed", bytes)
<1> DEFINE w == Len(bytes)
           p == Values(w)
           v == Values(w - 1)
           half == Byte \div 2
           b == bytes[1]
           s == Unsigned(bytes)
<1>1. PICK f : Runs(f, w, Nat, 0, HornerSteps(bytes)) /\ s = f[w]
  BY UnsignedIsRecursive
<1>2. w \in Nat /\ w - 1 \in Nat /\ (w - 1) + 1 = w /\ b \in Nat /\ b < Byte
  BY ByteIsEven DEF Digit
<1>3. p \in Nat /\ p > 0 /\ v \in Nat /\ v > 0 /\ p = v * Byte
  <2> DEFINE m == w - 1
  <2>1. m \in Nat /\ m + 1 = w
    BY <1>2
  <2> HIDE DEF w, m
  <2>2. Values(m) \in Nat \ {0} /\ Values(w) = Values(m) * Byte
    BY <2>1, ValuesGrow
  <2>3. Values(w) \in Nat \ {0}
    BY <1>2, ValuesGrow
  <2> QED BY <2>2, <2>3 DEF m
<1>4. \A type : Denotes(type, bytes) = CHOOSE n \in NumbersOf(type, w) : (n - s) % p = 0
  <2> TAKE type
  <2>1. PICK g : /\ Runs(g, w, Nat, 0, PlaceSteps(bytes))
                 /\ Denotes(type, bytes) = CHOOSE n \in NumbersOf(type, w) : (n - g[w]) % p = 0
    BY DenotesIsRecursive
  <2>2. g[w] = f[w]
    BY <1>1, <2>1, PlacesAddUp
  <2> QED BY <1>1, <2>1, <2>2
<1>5. s \in Nat /\ b * v <= s /\ s < (b + 1) * v
  <2>1. PICK g : Runs(g, w, Nat, 0, PlaceSteps(bytes))
    BY DenotesIsRecursive
  <2> QED BY <1>1, <2>1, PlacesAddUp
<1>6. Signed(bytes) = IF b >= half THEN s - p ELSE s
  BY DEF Signed
<1>7. NumbersOf("unsigned", w) = 0..(p - 1) /\ NumbersOf("signed", w) = -(p \div 2)..(p \div 2 - 1)
  BY DEF NumbersOf
<1> HIDE DEF w, p, v, b, s, half
<1>8. (b + 1) * v <= p
  <2>1. Byte \in Nat /\ b + 1 <= Byte
    BY <1>2, ByteIsEven
  <2> QED BY <1>2, <1>3, <2>1
<1>9. half \in Nat /\ Byte = 2 * half
  BY ByteIsEven DEF half
<1>10. p = 2 * (half * v) /\ half * v \in Nat
  BY <1>3, <1>9
<1> DEFINE h == half * v
<1>11. p \div 2 = h /\ p = 2 * h /\ h \in Nat
  BY <1>10
<1>12. b >= half => s >= h
  <2>1. b >= half => b * v >= half * v
    BY <1>2, <1>3, <1>9
  <2> QED BY <1>2, <1>3, <1>5, <1>10, <2>1
<1>13. ~(b >= half) => s < h
  <2>1. ~(b >= half) => b + 1 <= half
    BY <1>2, <1>9
  <2>2. b + 1 <= half => (b + 1) * v <= half * v
    BY <1>2, <1>3, <1>9
  <2>3. (b + 1) * v \in Nat
    BY <1>2, <1>3
  <2> QED BY <1>5, <1>10, <2>1, <2>2, <2>3
<1>14. s \in Nat /\ s < p
  <2>1. (b + 1) * v \in Nat
    BY <1>2, <1>3
  <2> QED BY <1>3, <1>5, <1>8, <2>1
<1> HIDE DEF h
<1>15. s = Denotes("unsigned", bytes)
  <2>1. s \in 0..(0 + p - 1) /\ 0 + p - 1 = p - 1 /\ (s - s) % p = 0
    BY <1>3, <1>14
  <2>2. s = CHOOSE n \in 0..(0 + p - 1) : (n - s) % p = 0
    BY <1>3, <1>14, <2>1, OnlyNumber
  <2> QED BY <1>4, <1>7, <2>1, <2>2
<1>16. Signed(bytes) = Denotes("signed", bytes)
  <2> DEFINE r == Signed(bytes)
  <2>1. r \in (-h)..(-h + p - 1) /\ -h + p - 1 = h - 1 /\ -h \in Int
    BY <1>6, <1>11, <1>12, <1>13, <1>14
  <2>2. (r - s) % p = 0
    <3>1. r - s = 0 \/ r - s = -p
      BY <1>3, <1>6, <1>14
    <3> HIDE DEF r
    <3> QED BY <1>3, <3>1
  <2> HIDE DEF r
  <2>3. r = CHOOSE n \in (-h)..(-h + p - 1) : (n - s) % p = 0
    BY <1>3, <1>14, <2>1, <2>2, OnlyNumber
  <2> QED BY <1>4, <1>7, <1>11, <2>1, <2>3 DEF r
<1> QED BY <1>15, <1>16 DEF s

(* A definition that a look-up finds is one of the list.                   *)
LEMMA FoundIsInTheList ==
  ASSUME NEW found \in Seq(Definition), NEW model, NEW id, NEW d,
         d = GetElementInfo(found, model, id), d # NotFound
  PROVE  d \in Definition
<1> DEFINE fitting == {k \in DOMAIN found : /\ found[k].id = id
                                            /\ model = "*" \/ model \in found[k].models}
<1>1. fitting # {} /\ d = found[Min(fitting)]
  BY DEF GetElementInfo
<1>2. fitting \in SUBSET Nat
  OBVIOUS
<1>3. Min(fitting) \in fitting
  <2> HIDE DEF fitting
  <2>1. \E n \in fitting : \A m \in fitting : n <= m
    BY <1>1, <1>2, LeastNumber
  <2> QED BY <2>1 DEF Min
<1> QED BY <1>1, <1>3

(* Whatever a definition of the list decodes is what the bytes stand for.  *)
LEMMA DecodesTheNumber ==
  ASSUME GeneratorTypeOK
  PROVE  DecodedIsTheNumber
<1> SUFFICES ASSUME NEW model, NEW id, NEW bytes \in Buffers,
                    NEW element, NEW def,
                    element = Decode(result, model, id, bytes),
                    def = GetElementInfo(result, model, id),
                    element.kind \in {"integer", "float"}
             PROVE  element.value = def.multiplier * Denotes(def.type, bytes)
  BY DEF DecodedIsTheNumber
<1>1. def # NotFound /\ element = DecodeByDefinition(def, bytes)
  BY DEF Decode, NotFound
<1>2. def \in Definition
  <2>1. result \in Seq(Definition)
    BY DEF GeneratorTypeOK
  <2> QED BY <1>1, <2>1, FoundIsInTheList
<1>3. bytes \in Seq(Digit)
  BY GeneratorAssumption DEF Digit
<1>4. /\ Len(bytes) \in {1, 2, 4, 8} /\ def.type \in Numeric
      /\ element.value = def.multiplier
               * (IF def.type = "unsigned" THEN Unsigned(bytes) ELSE Signed(bytes))
  <2>1. def.type \in ElementType
    BY <1>2 DEF Definition
  <2> QED BY <1>1, <2>1 DEF DecodeByDefinition, NotDecoded, ElementType, Numeric
<1>5. Len(bytes) # 0
  <2>1. Len(bytes) \in {1, 2, 4, 8}
    BY <1>4
  <2> QED BY <2>1, SMTT(30)
<1>6. /\ Unsigned(bytes) = Denotes("unsigned", bytes)
      /\ Signed(bytes) = Denotes("signed", bytes)
  BY <1>3, <1>5, NumbersAreDenoted
<1> QED BY <1>4, <1>6 DEF Numeric
-----------------------------------------------------------------------------
(***************************************************************************)
(* The end of a run.                                                       *)
(***************************************************************************)
(* The tuple gets less when one part does and those before it stay.        *)
LEMMA LessByPart ==
  ASSUME NEW a1, NEW a2, NEW a3, NEW a4, NEW a5, NEW b1, NEW b2, NEW b3, NEW b4, NEW b5,
         \/ a1 < b1
         \/ a1 = b1 /\ a2 < b2
         \/ a1 = b1 /\ a2 = b2 /\ a3 < b3
         \/ a1 = b1 /\ a2 = b2 /\ a3 = b3 /\ a4 < b4
         \/ a1 = b1 /\ a2 = b2 /\ a3 = b3 /\ a4 = b4 /\ a5 < b5
  PROVE  Less(<<a1, a2, a3, a4, a5>>, <<b1, b2, b3, b4, b5>>)
<1> DEFINE s == <<a1, a2, a3, a4, a5>>
           t == <<b1, b2, b3, b4, b5>>
<1>1. /\ s[1] = a1 /\ s[2] = a2 /\ s[3] = a3 /\ s[4] = a4 /\ s[5] = a5
      /\ t[1] = b1 /\ t[2] = b2 /\ t[3] = b3 /\ t[4] = b4 /\ t[5] = b5
  OBVIOUS
<1> HIDE DEF s, t
<1>2. PICK k \in 1..5 : s[k] < t[k] /\ \A n \in 1..(k - 1) : s[n] = t[n]
  <2>1. 1..(1 - 1) = {} /\ 1..(2 - 1) = {1} /\ 1..(3 - 1) = {1, 2}
    OBVIOUS
  <2>2. 1..(4 - 1) = {1, 2, 3} /\ 1..(5 - 1) = {1, 2, 3, 4}
    OBVIOUS
  <2> QED BY <1>1, <2>1, <2>2
<1> QED BY <1>2 DEF Less, s, t

(* No model is on the work list twice, so it is no longer than there are   *)
(* models.                                                                 *)
LEMMA WorkListIsBounded ==
  ASSUME TypeInv
  PROVE  Cardinality(Models) \in Nat /\ Len(urlsToProcess) <= Cardinality(Models)
<1> DEFINE n == Len(urlsToProcess)
<1>1. n \in Nat /\ urlsToProcess \in [1..n -> Models] /\ IsInjective(urlsToProcess)
  BY DEF TypeInv, GeneratorTypeOK
<1>2. IsFiniteSet(Models) /\ Cardinality(Models) \in Nat
  BY GeneratorAssumption, FS_CardinalityType
<1> HIDE DEF n
<1>3. IsFiniteSet(1..n) /\ Cardinality(1..n) = n
  BY <1>1, FS_Interval
<1>4. SUFFICES ASSUME Cardinality(Models) < Cardinality(1..n) PROVE FALSE
  BY <1>1, <1>2, <1>3 DEF n
<1>5. PICK x, y \in 1..n : x # y /\ urlsToProcess[x] = urlsToProcess[y]
  BY <1>1, <1>2, <1>3, <1>4, FS_PigeonHole
<1> QED BY <1>1, <1>5 DEF IsInjective

(* A page is left with its last row behind it.                             *)
RowsInRange == at \in {"rows", "merge"} => row <= Len(Rows) + 1

(* What is left is counted by natural numbers.                             *)
LeftIsNatural == Left \in [1..5 -> Nat]

(* Nothing that counts what is left falls below zero.                      *)
LEMMA LeftIsCounted ==
  ASSUME TypeInv, RowsInRange
  PROVE  LeftIsNatural
<1>1. PagesLeft \in Nat
  <2>1. i \in Nat /\ i <= Len(urlsToProcess) + 1 /\ Len(urlsToProcess) \in Nat
    BY DEF TypeInv, GeneratorTypeOK
  <2> QED BY <2>1, WorkListIsBounded DEF PagesLeft
<1>2. StagesLeft \in Nat
  BY DEF StagesLeft, TypeInv, GeneratorTypeOK
<1>3. RowsLeft \in Nat
  <2>1. CASE at \in {"rows", "merge"}
    <3>1. Len(Rows) \in Nat
      BY <2>1, RowsType
    <3> QED BY <2>1, <3>1 DEF RowsLeft, RowsInRange, TypeInv, GeneratorTypeOK
  <2> QED BY <2>1 DEF RowsLeft
<1>4. Len(items) \in Nat
  BY DEF TypeInv, GeneratorTypeOK
<1>5. CandidatesLeft \in Nat
  <2>1. Len(result) \in Nat
    BY DEF TypeInv, GeneratorTypeOK
  <2> QED BY <2>1, SMTT(30) DEF CandidatesLeft, TypeInv, GeneratorTypeOK
<1> QED BY <1>1, <1>2, <1>3, <1>4, <1>5 DEF LeftIsNatural, Left

(* The rows are read one by one, from the first.                           *)
LEMMA RowsStep ==
  ASSUME TypeInv, TypeInv', PageInv, RowsInRange, [Next]_vars
  PROVE  RowsInRange'
<1>1. at' \in {"rows", "merge"} => Len(Rows') \in Nat
  <2> SUFFICES ASSUME at' \in {"rows", "merge"} PROVE Len(Rows') \in Nat
    OBVIOUS
  <2>1. /\ wiki' \in Wikis /\ urlsToProcess' \in Seq(Models)
        /\ i' \in 1..(Len(urlsToProcess') + 1) /\ i' <= Len(urlsToProcess')
    BY DEF TypeInv, GeneratorTypeOK, WorkOK, AtWork
  <2>2. url' \in Models
    BY <2>1 DEF url
  <2>3. wiki'[url'] \in Seq(Row)
    BY <2>1, <2>2, GeneratorAssumption
  <2> QED BY <2>3 DEF Rows
<1>2. CASE at \notin {"rows", "merge"} /\ ~RunAgain /\ at' \in {"rows", "merge"}
  <2>1. at \in {"page", "get", "create", "encode"} /\ row' = row
    BY <1>2 DEF Next, Step, RefuseCache, OpenCache, GetFails, Get, CreateCache, EncodeCache,
                StoreFails, ReadRow, EndPage, Finish, PassOver, Replace, Keep, Contradict,
                Neither, IsCandidate, Settle, Kill, vars, crawl, Ended
  <2>2. row' = 1
    BY <2>1 DEF PageInv, RowsBegin
  <2> QED BY <1>1, <1>2, <2>2 DEF RowsInRange
<1>3. CASE at \in {"rows", "merge"} /\ at' \in {"rows", "merge"} /\ ~ReadRow
  <2>1. UNCHANGED <<crawl, wiki>>
    BY <1>3 DEF Next, Step, RefuseCache, OpenCache, GetFails, Get, CreateCache, EncodeCache,
                StoreFails, EndPage, Finish, PassOver, Replace, CompareNext, Keep,
                Settle, Kill, RunAgain, vars, options, Ended
  <2> QED BY <1>3, <2>1 DEF RowsInRange, Rows, url, crawl
<1>4. CASE ReadRow
  <2>1. /\ Rows' = Rows
        /\ at = "rows" /\ row' = row + 1 /\ row <= Len(Rows)
    BY <1>4, ReadRowGrows DEF ReadRow, Rows, options
  <2>2. row \in Nat
    BY DEF TypeInv, GeneratorTypeOK
  <2>3. Len(Rows) \in Nat
    BY <2>1, RowsType
  <2> QED BY <2>1, <2>2, <2>3 DEF RowsInRange
<1>5. CASE RunAgain \/ at' \notin {"rows", "merge"}
  BY <1>5 DEF RunAgain, RowsInRange
<1> QED BY <1>2, <1>3, <1>4, <1>5

(* Each step of a run lowers one of the five numbers, and none before it   *)
(* grows.                                                                  *)
LEMMA StepsGetOn ==
  ASSUME TypeInv, at \notin Ended, Next
  PROVE  Less(Left', Left)
<1> USE DEF PagesLeft, StagesLeft
<1>0. /\ i \in Nat /\ row \in Nat /\ Cardinality(Models) \in Nat
      /\ Cardinality(Models) + 1 \in Int
      /\ at \in {"page", "get", "create", "encode", "rows", "merge"}
  BY WorkListIsBounded DEF TypeInv, GeneratorTypeOK
<1> SUFFICES
      \/ PagesLeft' < PagesLeft
      \/ PagesLeft' = PagesLeft /\ StagesLeft' < StagesLeft
      \/ PagesLeft' = PagesLeft /\ StagesLeft' = StagesLeft /\ RowsLeft' < RowsLeft
      \/ /\ PagesLeft' = PagesLeft /\ StagesLeft' = StagesLeft /\ RowsLeft' = RowsLeft
         /\ Len(items') < Len(items)
      \/ /\ PagesLeft' = PagesLeft /\ StagesLeft' = StagesLeft /\ RowsLeft' = RowsLeft
         /\ Len(items') = Len(items) /\ CandidatesLeft' < CandidatesLeft
  <2> HIDE DEF PagesLeft, StagesLeft
  <2> QED BY LessByPart DEF Left
<1>1. CASE \/ RefuseCache \/ OpenCache \/ \E answer \in Answers : Get(answer)
           \/ CreateCache \/ EncodeCache \/ StoreFails \/ Finish \/ Kill
  <2>1. i' = i
    BY <1>1 DEF RefuseCache, OpenCache, Get, CreateCache, EncodeCache, StoreFails, Finish, Kill,
                crawl
  <2>2. StagesLeft' < StagesLeft
    BY <1>0, <1>1 DEF RefuseCache, OpenCache, Get, CreateCache, EncodeCache, StoreFails, Finish,
                      Kill, Ended
  <2> QED BY <2>1, <2>2
<1>2. CASE GetFails \/ EndPage
  <2>1. i' = i + 1
    BY <1>2 DEF GetFails, EndPage
  <2> QED BY <1>0, <2>1
<1>3. CASE ReadRow
  <2>1. /\ Rows' = Rows /\ i' = i
        /\ at = "rows" /\ row' = row + 1 /\ at' \in {"rows", "merge"}
    BY <1>3, ReadRowGrows DEF ReadRow, Rows, options
  <2>2. Len(Rows) \in Nat
    BY <2>1, RowsType
  <2>3. RowsLeft' < RowsLeft
    BY <1>0, <2>1, <2>2 DEF RowsLeft
  <2> QED BY <2>1, <2>3 DEF Ended
<1>4. ASSUME at = "merge", UNCHANGED <<crawl, wiki>>
      PROVE  /\ PagesLeft' = PagesLeft
             /\ at' \in {"rows", "merge"} => StagesLeft' = StagesLeft /\ RowsLeft' = RowsLeft
             /\ at' \in Ended => StagesLeft' < StagesLeft
  <2>1. i' = i /\ Rows' = Rows /\ row' = row
    BY <1>4 DEF crawl, Rows, url
  <2> QED BY <1>4, <2>1 DEF RowsLeft, Ended
<1>5. ASSUME at = "merge"
      PROVE  /\ items \in Seq(Definition) /\ Len(items) \in Nat \ {0}
             /\ Len(Tail(items)) < Len(items)
  <2>1. items \in Seq(Definition) /\ items # <<>>
    BY <1>5 DEF TypeInv, GeneratorTypeOK, WorkOK
  <2>2. Len(items) \in Nat \ {0} /\ Len(Tail(items)) = Len(items) - 1
    BY <2>1
  <2> QED BY <2>1, <2>2
<1>6. CASE \E c \in DOMAIN result : PassOver(c) \/ Replace(c)
  <2>1. PICK c \in DOMAIN result : PassOver(c) \/ Replace(c)
    BY <1>6
  <2>2. IsCandidate(c) /\ at = "merge"
    BY <2>1 DEF PassOver, Replace, Contradict, Neither, IsCandidate
  <2>3. at' = at /\ next' = c + 1 /\ UNCHANGED <<crawl, wiki>>
    BY <2>1 DEF PassOver, Replace, CompareNext, options
  <2>4. /\ result \in Seq(Definition) /\ next \in Nat \ {0}
        /\ Len(result) \in Nat /\ DOMAIN result = 1..Len(result)
    BY <2>2 DEF TypeInv, GeneratorTypeOK
  <2>5. c \in Nat /\ c >= next
    BY <2>2, <2>4, CandidateIsInTheList
  <2>6. Len(items') = Len(items)
    <3>1. items' = items \/ items' = [items EXCEPT ![1] = Unite(@, result[c])]
      BY <2>1 DEF PassOver, Replace
    <3>2. DOMAIN items' = DOMAIN items
      BY <3>1
    <3>3. items' \in Seq(Definition) /\ items \in Seq(Definition)
      BY <2>1, <2>2, CompareTyped DEF TypeInv, GeneratorTypeOK
    <3> QED BY <3>2, <3>3
  <2>7. Len(result') = Len(result)
    <3>1. result' = result \/ result' = [result EXCEPT ![c] = Unite(@, current)]
      BY <2>1 DEF PassOver, Replace
    <3>2. DOMAIN result' = DOMAIN result
      BY <3>1
    <3>3. result' \in Seq(Definition)
      BY <2>1, <2>2, CompareTyped DEF TypeInv, GeneratorTypeOK
    <3> QED BY <2>4, <3>2, <3>3
  <2>8. CandidatesLeft' < CandidatesLeft
    BY <2>2, <2>3, <2>4, <2>5, <2>7 DEF CandidatesLeft
  <2> QED BY <1>4, <2>2, <2>3, <2>6, <2>8
<1>7. CASE \E c \in DOMAIN result : Keep(c)
  <2>1. PICK c \in DOMAIN result : Keep(c)
    BY <1>7
  <2>2. at = "merge" /\ UNCHANGED <<crawl, wiki>> /\ at' \in {"rows", "merge"}
        /\ items' = Tail(items)
    BY <2>1 DEF Keep, Contradict, Neither, IsCandidate, NextItem, RowGoesOn, options
  <2> HIDE DEF PagesLeft, StagesLeft
  <2> QED BY <1>4, <1>5, <2>2
<1>8. CASE Settle
  <2>1. at = "merge" /\ UNCHANGED <<crawl, wiki>>
    BY <1>8 DEF Settle, options
  <2>2. \/ at' \in Ended
        \/ at' \in {"rows", "merge"} /\ items' = Tail(items)
    BY <1>8 DEF Settle, NextItem, RowGoesOn, Ended
  <2> HIDE DEF PagesLeft, StagesLeft
  <2> QED BY <1>4, <1>5, <2>1, <2>2
<1>9. ~RunAgain
  BY DEF RunAgain
<1> QED BY <1>1, <1>2, <1>3, <1>6, <1>7, <1>8, <1>9 DEF Next, Step, Answers
-----------------------------------------------------------------------------
(***************************************************************************)
(* The invariant holds in every state.                                     *)
(***************************************************************************)
GeneratorInv ==
  /\ TypeInv /\ PageInv /\ RowsInRange /\ CrawlInv
  /\ StoreInv /\ CacheBreaksOnlyInTheMiddle
  /\ MergeInv

(* The invariant holds at the start.                                       *)
LEMMA InitInv ==
  ASSUME Init
  PROVE  GeneratorInv
<1>1. TypeInv
  BY InitTyped
<1>2. /\ at = "page" /\ urlsToProcess = Start /\ i = 1 /\ row = 1 /\ unread = {}
      /\ cache.is = "absent" /\ cache.pages = <<>> /\ stored = {}
      /\ toReplace = <<>> /\ seen = {}
  BY DEF Init, Absent
<1>3. PageInv /\ RowsInRange
  BY <1>2 DEF PageInv, PageIsThere, RowsBegin, RowsInRange
<1>4. CrawlInv
  <2>1. \A h \in Place : ~(h < 1) /\ Start[h] \in ToSet(Start)
    BY <1>2, GeneratorAssumption DEF Place, ToSet
  <2> QED BY <1>2, <2>1 DEF CrawlInv, UnreadAreBehind, LinksAreFollowed, LinksHaveSources
<1>5. StoreInv /\ CacheBreaksOnlyInTheMiddle
  BY <1>2 DEF StoreInv, CacheKeepsItsPages, CacheBreaksOnlyInTheMiddle
<1>6. MergeInv
  BY <1>2 DEF MergeInv, ReplacedAreCovered, NothingIsMarked
<1> QED BY <1>1, <1>3, <1>4, <1>5, <1>6 DEF GeneratorInv

(* The types are inductive by themselves.                                  *)
LEMMA TypedStep ==
  ASSUME TypeInv, [Next]_vars
  PROVE  TypeInv'
<1>1. CASE \E c \in DOMAIN result : PassOver(c) \/ Replace(c) \/ Keep(c)
  <2>1. PICK c \in DOMAIN result : PassOver(c) \/ Replace(c) \/ Keep(c)
    BY <1>1
  <2>2. IsCandidate(c)
    BY <2>1 DEF PassOver, Replace, Keep, Contradict, Neither
  <2> QED BY <2>1, <2>2, CompareTyped
<1>2. CASE UNCHANGED vars
  BY <1>2 DEF vars, crawl, merging, list, options, disk, bounds,
              TypeInv, GeneratorTypeOK, WorkOK
<1> QED BY <1>1, <1>2, LoadPageTyped, ProcessPageTyped, SettleTyped, RunsTyped
        DEF Next, Step, Answers

(* The invariant is inductive.                                             *)
LEMMA InvStep ==
  ASSUME GeneratorInv, [Next]_vars
  PROVE  GeneratorInv'
<1> USE DEF GeneratorInv
<1>1. TypeInv'
  BY TypedStep
<1>2. PageInv' /\ RowsInRange'
  BY <1>1, PageStep, RowsStep
<1>3. CrawlInv'
  BY CrawlStep
<1>4. (StoreInv /\ CacheBreaksOnlyInTheMiddle)'
  BY CacheStep
<1>5. MergeInv'
  BY MergeStep
<1> QED BY <1>1, <1>2, <1>3, <1>4, <1>5

(* The inductive invariant of the generator.                               *)
THEOREM GeneratorInvariance == Spec => []GeneratorInv
<1>1. Init => GeneratorInv
  BY InitInv
<1>2. GeneratorInv /\ [Next]_vars => GeneratorInv'
  BY InvStep
<1> QED BY <1>1, <1>2, PTL DEF Spec

(* The variables have their types, and no page is on the work list twice   *)
(* (io_elements_gen.go:497), for any wiki, pages with any links and rows,  *)
(* and any number of runs and failures.                                    *)
THEOREM GeneratorTypes == Spec => []GeneratorTypeOK
<1>1. GeneratorInv => GeneratorTypeOK
  BY DEF GeneratorInv, TypeInv
<1> QED BY <1>1, GeneratorInvariance, PTL

(* A run that ends has looked at every page that can be reached and at no  *)
(* other, however the pages link to each other (io_elements_gen.go:468).   *)
THEOREM ReachablePagesAreRead == Spec => []EveryReachablePageIsRead
<1>1. GeneratorInv => EveryReachablePageIsRead
  BY CrawlIsComplete DEF GeneratorInv
<1> QED BY <1>1, GeneratorInvariance, PTL

(* What was written to the cache file stays in it (io_elements_gen.go:521).*)
THEOREM PagesStayInTheCache == Spec => []CacheKeepsItsPages
<1>1. GeneratorInv => CacheKeepsItsPages
  BY DEF GeneratorInv, StoreInv
<1> QED BY <1>1, GeneratorInvariance, PTL

(* The cache file is only broken by a run that was stopped while it was    *)
(* writing (io_elements_gen.go:528, 554).                                  *)
THEOREM OnlyInterruptionsBreakTheCache == Spec => []CacheBreaksOnlyInTheMiddle
<1>1. GeneratorInv => CacheBreaksOnlyInTheMiddle
  BY DEF GeneratorInv
<1> QED BY <1>1, GeneratorInvariance, PTL

(* Merging loses no documented element, but for contradictions between     *)
(* pages and for definitions that replace two (io_elements_gen.go:263).    *)
THEOREM DocumentedElementsAreFound == Spec => []NothingIsLost
<1>1. GeneratorInv => NothingIsLost
  <2> SUFFICES ASSUME GeneratorInv, removals <= 1, at # "panicked", NEW e \in seen \ dropped
               PROVE  GetElementInfo(result, e[1], e[2]) # NotFound
    BY DEF NothingIsLost
  <2>1. Kept(e)
    BY DEF GeneratorInv, MergeInv
  <2>2. result \in Seq(Definition)
    BY DEF GeneratorInv, TypeInv, GeneratorTypeOK
  <2> QED BY <2>1, <2>2, LookUpFinds DEF Kept
<1> QED BY <1>1, GeneratorInvariance, PTL

(* What an application decodes with the generated definitions is what the  *)
(* bytes stand for, times the multiplier, for bytes of any number of       *)
(* values, any buffers, models and definitions (ioelements.go:113-166).    *)
THEOREM NumbersAreDecoded == Spec => []DecodedIsTheNumber
<1>1. GeneratorInv => DecodedIsTheNumber
  BY DecodesTheNumber DEF GeneratorInv, TypeInv
<1> QED BY <1>1, GeneratorInvariance, PTL

(* Every step of a run, a kill too, lowers what is left to do, so no run   *)
(* goes on for ever, however the pages link to each other and however many *)
(* definitions replace each other (io_elements_gen.go:468, 497, 275).      *)
THEOREM RunsGetOn == Spec => EveryStepGetsOn
<1>1. GeneratorInv => LeftIsNatural
  BY LeftIsCounted DEF GeneratorInv
<1>2. GeneratorInv /\ LeftIsNatural' /\ [Next]_vars =>
        [at \notin Ended => Left' \in [1..5 -> Nat] /\ Less(Left', Left)]_vars
  BY StepsGetOn DEF GeneratorInv, LeftIsNatural
<1> QED BY <1>1, <1>2, GeneratorInvariance, PTL DEF Spec, EveryStepGetsOn
=============================================================================
