------------------------- MODULE DocumentFold_proofs -------------------------
(***************************************************************************)
(* For every stream of every book: the document the fold builds is safe to *)
(* merge at each step, and the one that goes out tells of what was sent.   *)
(***************************************************************************)
EXTENDS DocumentFold, FiniteSetTheorems, SequenceTheorems, WellFoundedInduction, TLAPS

-----------------------------------------------------------------------------
(* Sets of positions, and what a sequence holds at them.                   *)

\* Every set of numbers that is not empty has a least.
LEMMA LeastNumber ==
    ASSUME NEW S \in SUBSET Nat, S # {}
    PROVE  Least(S) \in S /\ \A y \in S : Least(S) <= y
  <1>1. PICK x \in S : \A y \in S : ~ (<<y, x>> \in OpToRel(<, Nat))
    BY NatLessThanWellFounded, WFMin
  <1>2. \A y \in S : x <= y
    <2> SUFFICES ASSUME NEW y \in S PROVE x <= y
      OBVIOUS
    <2>1. x \in Nat /\ y \in Nat
      OBVIOUS
    <2>2. y < x => <<y, x>> \in OpToRel(<, Nat)
      BY <2>1 DEF OpToRel
    <2>3. ~(y < x)
      BY <1>1, <2>2
    <2> QED
      BY <2>1, <2>3
  <1> QED
    BY <1>1, <1>2 DEF Least

\* Sorted lists every member of a finite set of numbers, the lower first.
LEMMA SortedList ==
    ASSUME NEW S \in SUBSET Nat, IsFiniteSet(S)
    PROVE  /\ Cardinality(S) \in Nat
           /\ \A i \in 1..Cardinality(S) : Sorted(S)[i] \in S
           /\ \A i, j \in 1..Cardinality(S) : i < j => Sorted(S)[i] < Sorted(S)[j]
           /\ \A e \in S : \E i \in 1..Cardinality(S) : Sorted(S)[i] = e
           /\ \A e \in S, i \in 1..Cardinality(S) :
                Sorted(S)[i] = e <=> Cardinality({d \in S : d < e}) = i - 1
  <1> DEFINE below(e) == {d \in S : d < e}
             rank(e) == Cardinality(below(e))
             n == Cardinality(S)
             f == [e \in S |-> rank(e)]
  <1>1. n \in Nat
    BY FS_CardinalityType
  <1>2. ASSUME NEW e \in S PROVE IsFiniteSet(below(e)) /\ rank(e) \in 0..n - 1
    <2>1. below(e) \in SUBSET S /\ e \notin below(e)
      OBVIOUS
    <2>2. IsFiniteSet(below(e)) /\ rank(e) <= n /\ (n = rank(e) => S = below(e))
      <3> HIDE DEF below
      <3> QED
        BY <2>1, FS_Subset
    <2>3. rank(e) \in Nat
      BY <2>2, FS_CardinalityType
    <2> QED
      BY <1>1, <2>1, <2>2, <2>3
  <1>3. ASSUME NEW d \in S, NEW e \in S, d < e PROVE rank(d) < rank(e)
    <2>1. below(d) \in SUBSET below(e) /\ d \in below(e) /\ d \notin below(d)
      <3>1. ASSUME NEW c \in S, c < d PROVE c < e
        <4>1. c \in Nat /\ d \in Nat /\ e \in Nat
          OBVIOUS
        <4> QED
          BY <1>3, <3>1, <4>1
      <3>2. ~(d < d)
        <4>1. d \in Nat
          OBVIOUS
        <4> QED
          BY <4>1
      <3> QED
        BY <1>3, <3>1, <3>2
    <2>2. rank(d) <= rank(e) /\ (rank(e) = rank(d) => below(e) = below(d))
      <3> HIDE DEF below
      <3> QED
        BY <1>2, <2>1, FS_Subset
    <2> QED
      BY <1>2, <2>1, <2>2
  <1>4. ASSUME NEW d \in S, NEW e \in S, rank(d) = rank(e) PROVE d = e
    <2>1. ~(d < e) /\ ~(e < d)
      <3>1. rank(d) \in Int
        BY <1>1, <1>2
      <3> HIDE DEF rank
      <3>2. ~(rank(d) < rank(e)) /\ ~(rank(e) < rank(d))
        BY <1>4, <3>1
      <3> QED
        BY <1>3, <3>2
    <2>2. d \in Nat /\ e \in Nat
      OBVIOUS
    <2> QED
      BY <2>1, <2>2
  <1>5. \A i \in 0..n - 1 : \E e \in S : rank(e) = i
    <2> HIDE DEF rank
    <2>1. f \in Injection(S, 0..n - 1)
      BY <1>2, <1>4 DEF Injection, IsInjective
    <2>2. IsFiniteSet(0..n - 1) /\ Cardinality(0..n - 1) = n
      <3> HIDE DEF n
      <3>1. n - 1 \in Int /\ 0 \in Int
        BY <1>1
      <3>2. /\ IsFiniteSet(0..n - 1)
            /\ Cardinality(0..n - 1) = IF 0 > n - 1 THEN 0 ELSE n - 1 - 0 + 1
        BY <3>1, FS_Interval
      <3> QED
        BY <1>1, <3>2
    <2>3. f \in Surjection(S, 0..n - 1)
      <3> HIDE DEF f
      <3> QED
        BY <2>1, <2>2, FS_Injection
    <2> QED
      BY <2>3 DEF Surjection
  <1>6. ASSUME NEW i \in 1..n PROVE Sorted(S)[i] \in S /\ rank(Sorted(S)[i]) = i - 1
    <2>1. \E e \in S : rank(e) = i - 1
      BY <1>1, <1>5
    <2>2. Sorted(S)[i] = CHOOSE e \in S : rank(e) = i - 1
      BY DEF Sorted
    <2> QED
      BY <2>1, <2>2
  <1> HIDE DEF rank
  <1>7. ASSUME NEW i \in 1..n, NEW j \in 1..n, i < j PROVE Sorted(S)[i] < Sorted(S)[j]
    <2> DEFINE x == Sorted(S)[i]
               y == Sorted(S)[j]
    <2>1. x \in S /\ y \in S /\ rank(x) = i - 1 /\ rank(y) = j - 1
      BY <1>6
    <2> HIDE DEF x, y
    <2>2. ~(rank(y) < rank(x)) /\ rank(x) # rank(y)
      BY <1>7, <2>1
    <2>3. ~(y < x) /\ x # y
      BY <1>3, <2>1, <2>2
    <2>4. x < y
      BY <2>1, <2>3
    <2> QED
      BY <2>4 DEF x, y
  <1>8. ASSUME NEW e \in S PROVE \E i \in 1..n : Sorted(S)[i] = e
    <2>1. PICK i \in 1..n : i - 1 = rank(e)
      <3>1. rank(e) \in 0..n - 1
        BY <1>2
      <3> HIDE DEF n
      <3>2. ASSUME NEW r \in 0..n - 1 PROVE r + 1 \in 1..n /\ (r + 1) - 1 = r
        BY <1>1
      <3>3. \A r \in 0..n - 1 : \E i \in 1..n : i - 1 = r
        BY <3>2
      <3> QED
        BY <3>1, <3>3
    <2>2. Sorted(S)[i] \in S /\ rank(Sorted(S)[i]) = rank(e)
      BY <1>6, <2>1
    <2> QED
      BY <1>4, <2>2
  <1>9. ASSUME NEW e \in S, NEW i \in 1..n PROVE Sorted(S)[i] = e <=> rank(e) = i - 1
    BY <1>4, <1>6
  <1> QED
    BY <1>1, <1>6, <1>7, <1>8, <1>9 DEF rank

\* Every bounded set of numbers that is not empty has a greatest.
LEMMA GreatestNumber ==
    ASSUME NEW S \in SUBSET Nat, S # {}, NEW n \in Nat, \A y \in S : y <= n
    PROVE  Greatest(S) \in S /\ \A y \in S : Greatest(S) >= y
  <1> DEFINE bounds == {m \in Nat : \A y \in S : y <= m}
  <1>1. bounds \in SUBSET Nat /\ n \in bounds
    OBVIOUS
  <1>2. PICK m \in bounds : \A b \in bounds : m <= b
    <2> HIDE DEF bounds
    <2> QED
      BY <1>1, LeastNumber
  <1>3. m \in S
    <2> SUFFICES ASSUME m \notin S PROVE FALSE
      OBVIOUS
    <2>1. \A y \in S : y \in Nat /\ y <= m /\ y # m
      BY <1>2
    <2>2. m \in Nat /\ m # 0
      <3>1. PICK y \in S : TRUE
        OBVIOUS
      <3> QED
        BY <1>2, <2>1, <3>1
    <2>3. \A y \in S : y <= m - 1
      BY <2>1, <2>2
    <2>4. m - 1 \in bounds
      BY <2>2, <2>3
    <2> QED
      BY <1>2, <2>2, <2>4
  <1>4. \A y \in S : m >= y
    BY <1>2
  <1> QED
    BY <1>3, <1>4 DEF Greatest

\* One more number above all others comes last.
LEMMA SortedMore ==
    ASSUME NEW S \in SUBSET Nat, IsFiniteSet(S), NEW m \in Nat, \A i \in S : i < m
    PROVE  /\ IsFiniteSet(S \cup {m}) /\ Cardinality(S \cup {m}) = Cardinality(S) + 1
           /\ \A k \in 1..Cardinality(S) : Sorted(S \cup {m})[k] = Sorted(S)[k]
           /\ Sorted(S \cup {m})[Cardinality(S) + 1] = m
  <1> DEFINE T == S \cup {m}
             n == Cardinality(S)
  <1>1. m \notin S /\ T \in SUBSET Nat
    OBVIOUS
  <1>2. IsFiniteSet(T) /\ Cardinality(T) = n + 1 /\ n \in Nat
    BY <1>1, FS_AddElement, FS_CardinalityType
  <1>3. ASSUME NEW k \in 1..n PROVE Sorted(T)[k] = Sorted(S)[k]
    <2>1. PICK e \in S : e = Sorted(S)[k]
      BY SortedList
    <2>2. {d \in T : d < e} = {d \in S : d < e}
      BY DEF T
    <2>3. Cardinality({d \in S : d < e}) = k - 1
      BY <2>1, SortedList
    <2>4. e \in T /\ k \in 1..Cardinality(T)
      BY <1>2
    <2> HIDE DEF T, n
    <2> QED
      BY <1>1, <1>2, <2>1, <2>2, <2>3, <2>4, SortedList
  <1>4. Sorted(T)[n + 1] = m
    <2>1. {d \in T : d < m} = S
      <3>1. ~(m < m)
        OBVIOUS
      <3> QED
        BY <3>1
    <2>2. m \in T /\ n + 1 \in 1..Cardinality(T) /\ Cardinality({d \in T : d < m}) = (n + 1) - 1
      <3>1. n + 1 \in 1..n + 1 /\ (n + 1) - 1 = n
        BY <1>2
      <3> QED
        BY <1>2, <2>1, <3>1
    <2> HIDE DEF T, n
    <2> QED
      BY <1>1, <1>2, <2>2, SortedList
  <1> QED
    BY <1>2, <1>3, <1>4

\* What is chosen from a sequence is in it, as many items as positions.
LEMMA ChosenItems ==
    ASSUME NEW T, NEW s \in Seq(T), NEW S \in SUBSET DOMAIN s
    PROVE  /\ IsFiniteSet(S) /\ S \in SUBSET Nat /\ Cardinality(S) \in Nat
           /\ Chosen(s, S) \in Seq(T)
           /\ Len(Chosen(s, S)) = Cardinality(S) /\ DOMAIN Chosen(s, S) = 1..Cardinality(S)
           /\ \A k \in DOMAIN Chosen(s, S) : Sorted(S)[k] \in S /\ Chosen(s, S)[k] = s[Sorted(S)[k]]
  <1>1. Len(s) \in Nat /\ DOMAIN s = 1..Len(s) /\ \A i \in DOMAIN s : s[i] \in T
    OBVIOUS
  <1>2. IsFiniteSet(DOMAIN s)
    BY <1>1, FS_Interval
  <1>3. IsFiniteSet(S) /\ S \in SUBSET Nat
    BY <1>1, <1>2, FS_Subset
  <1>4. Cardinality(S) \in Nat /\ \A k \in 1..Cardinality(S) : Sorted(S)[k] \in S
    BY <1>3, SortedList
  <1> DEFINE n == Cardinality(S)
  <1>5. Chosen(s, S) = [k \in 1..n |-> s[Sorted(S)[k]]]
    BY DEF Chosen
  <1> HIDE DEF n
  <1>6. n \in Nat /\ \A k \in 1..n : s[Sorted(S)[k]] \in T
    BY <1>1, <1>4 DEF n
  <1>7. /\ Chosen(s, S) \in Seq(T) /\ Len(Chosen(s, S)) = n /\ DOMAIN Chosen(s, S) = 1..n
        /\ \A k \in 1..n : Chosen(s, S)[k] = s[Sorted(S)[k]]
    BY <1>5, <1>6
  <1> QED
    BY <1>3, <1>4, <1>7 DEF n

\* What is chosen when the sequence grows.
IsChosenMore(s, x, S) ==
    /\ Chosen(Append(s, x), S) = Chosen(s, S)
    /\ Chosen(Append(s, x), S \cup {Len(s) + 1}) = Append(Chosen(s, S), x)

\* What is chosen stays when the sequence grows, and grows with it.
LEMMA ChosenGrows ==
    ASSUME NEW T, NEW s \in Seq(T), NEW S \in SUBSET DOMAIN s, NEW x \in T
    PROVE  IsChosenMore(s, x, S)
  <1> DEFINE t == Append(s, x)
             n == Cardinality(S)
             m == Len(s) + 1
             U == S \cup {m}
  <1>1. /\ t \in Seq(T) /\ Len(s) \in Nat /\ DOMAIN s = 1..Len(s) /\ m \in Nat
        /\ \A i \in DOMAIN s : i \in DOMAIN t /\ t[i] = s[i] /\ i < m
        /\ m \in DOMAIN t /\ t[m] = x
    OBVIOUS
  <1>2. /\ IsFiniteSet(S) /\ S \in SUBSET Nat /\ n \in Nat /\ \A k \in 1..n : Sorted(S)[k] \in S
        /\ Chosen(s, S) \in Seq(T) /\ Len(Chosen(s, S)) = n
    BY ChosenItems
  <1>3. /\ Cardinality(U) = n + 1
        /\ \A k \in 1..n : Sorted(U)[k] = Sorted(S)[k]
        /\ Sorted(U)[n + 1] = m
    <2>1. \A i \in S : i < m
      BY <1>1
    <2> HIDE DEF m
    <2> QED
      BY <1>1, <1>2, <2>1, SortedMore
  <1> HIDE DEF t
  <1>4. Chosen(t, S) = [k \in 1..n |-> t[Sorted(S)[k]]] /\ Chosen(s, S) = [k \in 1..n |-> s[Sorted(S)[k]]]
    BY DEF Chosen
  <1>5. \A k \in 1..n : t[Sorted(S)[k]] = s[Sorted(S)[k]]
    BY <1>1, <1>2
  <1> HIDE DEF U, n, m
  <1>6. Chosen(t, U) = [k \in 1..n + 1 |-> t[Sorted(U)[k]]]
    BY <1>3 DEF Chosen
  <1>7. /\ Append(Chosen(s, S), x) \in Seq(T) /\ Len(Append(Chosen(s, S), x)) = n + 1
        /\ \A k \in 1..n + 1 : Append(Chosen(s, S), x)[k] = IF k = n + 1 THEN x ELSE Chosen(s, S)[k]
    <2>1. PICK c \in Seq(T) : c = Chosen(s, S) /\ Len(c) = n
      BY <1>2
    <2>2. Append(c, x) \in Seq(T) /\ Len(Append(c, x)) = n + 1 /\ n \in Nat
      BY <2>1
    <2>3. \A k \in 1..n + 1 : Append(c, x)[k] = IF k = n + 1 THEN x ELSE c[k]
      BY <2>1
    <2> QED
      BY <2>1, <2>2, <2>3
  <1>8. \A k \in 1..n + 1 : k \in 1..n \/ k = n + 1
    BY <1>2
  <1>9. ASSUME NEW k \in 1..n + 1 PROVE t[Sorted(U)[k]] = IF k = n + 1 THEN x ELSE Chosen(s, S)[k]
    <2>1. CASE k = n + 1
      BY <1>1, <1>3, <2>1
    <2>2. CASE k \in 1..n /\ k # n + 1
      BY <1>3, <1>4, <1>5, <2>2
    <2> QED
      BY <1>8, <2>1, <2>2
  <1>10. Chosen(t, U) = Append(Chosen(s, S), x)
    <2>1. PICK a \in Seq(T) : a = Append(Chosen(s, S), x) /\ Len(a) = n + 1
      BY <1>7
    <2>2. Chosen(t, U) = [k \in 1..n + 1 |-> a[k]]
      BY <1>6, <1>7, <1>9, <2>1
    <2>3. a = [k \in 1..n + 1 |-> a[k]]
      <3>1. a \in [1..Len(a) -> T]
        OBVIOUS
      <3>2. a \in [1..n + 1 -> T]
        BY <2>1, <3>1
      <3> QED
        BY <3>2
    <2> QED
      BY <2>1, <2>2, <2>3
  <1> QED
    BY <1>4, <1>5, <1>10 DEF t, U, m, IsChosenMore

-----------------------------------------------------------------------------
(* Links.                                                                  *)

\* A list names a reference, and names none twice.
Names(s, r) == \E j \in DOMAIN s : s[j] = r
Once(s) == \A i, j \in DOMAIN s : s[i] = s[j] => i = j

\* What the code writes to is there.
HasFields(d) ==
    /\ {"name", "binary_hash", "source_meta", "body", "furniture", "groups", "pictures", "outline", "media"}
         \subseteq DOMAIN d
    /\ {"self_ref", "children", "meta"} \subseteq DOMAIN d.body

PictureNamed(d, i) ==
    /\ d.pictures[i].self_ref = PictureRef(i - 1)
    /\ \/ d.pictures[i].parent = BodyRef
       \/ \E k \in DOMAIN d.groups : d.pictures[i].parent = GroupRef(k - 1)

\* The pictures a parent holds.
PictureUnder(d, parent, r) ==
    \E i \in DOMAIN d.pictures : d.pictures[i].parent = parent /\ r = PictureRef(i - 1)
IsGroup(d, r) == \E i \in DOMAIN d.groups : r = GroupRef(i - 1)

\* The groups are the children of the body, and every picture is the child of
\* the parent it names, once.
Linked(d) ==
    /\ d.body.self_ref = BodyRef /\ d.furniture.self_ref = FurnitureRef /\ d.furniture.children = <<>>
    /\ d.groups \in Seq(GroupItem) /\ d.pictures \in Seq(PictureItem) /\ d.body.children \in Seq(Refs)
    /\ \A i \in DOMAIN d.groups : d.groups[i].self_ref = GroupRef(i - 1)
    /\ \A i \in DOMAIN d.pictures : PictureNamed(d, i)
    /\ \A r : Names(d.body.children, r) <=> (IsGroup(d, r) \/ PictureUnder(d, BodyRef, r))
    /\ \A k \in DOMAIN d.groups : \A r : Names(d.groups[k].children, r) <=> PictureUnder(d, GroupRef(k - 1), r)
    /\ Once(d.body.children)
    /\ \A k \in DOMAIN d.groups : Once(d.groups[k].children)

\* The arena is the groups and then the pictures.
LEMMA ArenaItems ==
    ASSUME NEW d, Linked(d)
    PROVE  /\ \A i \in DOMAIN Arena(d) :
                \/ i \in DOMAIN d.groups /\ Arena(d)[i] = d.groups[i]
                \/ /\ i - Len(d.groups) \in DOMAIN d.pictures
                   /\ Arena(d)[i] = d.pictures[i - Len(d.groups)]
           /\ \A i \in DOMAIN d.groups : i \in DOMAIN Arena(d) /\ Arena(d)[i] = d.groups[i]
           /\ \A i \in DOMAIN d.pictures :
                i + Len(d.groups) \in DOMAIN Arena(d) /\ Arena(d)[i + Len(d.groups)] = d.pictures[i]
           /\ DOMAIN Arena(d) \subseteq Nat /\ Len(d.groups) \in Nat
           /\ DOMAIN d.groups \subseteq Nat /\ DOMAIN d.pictures \subseteq Nat
  <1> DEFINE gs == d.groups
             ps == d.pictures
  <1>1. /\ gs \in Seq(GroupItem) /\ ps \in Seq(PictureItem)
        /\ Len(gs) \in Nat /\ Len(ps) \in Nat /\ DOMAIN gs = 1..Len(gs) /\ DOMAIN ps = 1..Len(ps)
    BY DEF Linked
  <1>2. gs \in Seq(GroupItem \cup PictureItem) /\ ps \in Seq(GroupItem \cup PictureItem)
    BY <1>1
  <1>3. Arena(d) = gs \o ps
    BY DEF Arena
  <1> HIDE DEF gs, ps
  <1>4. /\ DOMAIN (gs \o ps) = 1..Len(gs) + Len(ps)
        /\ \A i \in 1..Len(gs) + Len(ps) : (gs \o ps)[i] = IF i <= Len(gs) THEN gs[i] ELSE ps[i - Len(gs)]
    BY <1>1, <1>2
  <1>5. ASSUME NEW i \in 1..Len(gs) + Len(ps)
        PROVE  \/ i \in DOMAIN gs /\ (gs \o ps)[i] = gs[i]
               \/ i - Len(gs) \in DOMAIN ps /\ (gs \o ps)[i] = ps[i - Len(gs)]
    BY <1>1, <1>4
  <1>6. ASSUME NEW i \in DOMAIN gs PROVE i \in 1..Len(gs) + Len(ps) /\ (gs \o ps)[i] = gs[i]
    BY <1>1, <1>4
  <1>7. ASSUME NEW i \in DOMAIN ps
        PROVE  i + Len(gs) \in 1..Len(gs) + Len(ps) /\ (gs \o ps)[i + Len(gs)] = ps[i]
    <2>1. i + Len(gs) \in 1..Len(gs) + Len(ps) /\ ~(i + Len(gs) <= Len(gs)) /\ (i + Len(gs)) - Len(gs) = i
      BY <1>1
    <2> QED
      BY <1>4, <2>1
  <1>8. /\ DOMAIN Arena(d) = 1..Len(gs) + Len(ps) /\ Len(gs) \in Nat
        /\ DOMAIN Arena(d) \subseteq Nat /\ DOMAIN gs \subseteq Nat /\ DOMAIN ps \subseteq Nat
    BY <1>1, <1>4, <1>3
  <1>9. /\ \A i \in DOMAIN Arena(d) :
             \/ i \in DOMAIN gs /\ Arena(d)[i] = gs[i]
             \/ i - Len(gs) \in DOMAIN ps /\ Arena(d)[i] = ps[i - Len(gs)]
        /\ \A i \in DOMAIN gs : i \in DOMAIN Arena(d) /\ Arena(d)[i] = gs[i]
        /\ \A i \in DOMAIN ps : i + Len(gs) \in DOMAIN Arena(d) /\ Arena(d)[i + Len(gs)] = ps[i]
    BY <1>5, <1>6, <1>7, <1>3, <1>8
  <1> QED
    BY <1>8, <1>9 DEF gs, ps

\* What a linked document links.
LEMMA LinkedRefs ==
    ASSUME NEW d, Linked(d)
    PROVE  /\ \A r : r \in RefsOf(d) <=>
                \/ r \in {BodyRef, FurnitureRef}
                \/ IsGroup(d, r)
                \/ \E i \in DOMAIN d.pictures : r = PictureRef(i - 1)
           /\ \A e : e \in Up(d) <=>
                \/ \E i \in DOMAIN d.groups : e = <<GroupRef(i - 1), BodyRef>>
                \/ \E i \in DOMAIN d.pictures : e = <<PictureRef(i - 1), d.pictures[i].parent>>
           /\ \A e : e \in Down(d) <=>
                \/ \E r : e = <<BodyRef, r>> /\ Names(d.body.children, r)
                \/ \E k \in DOMAIN d.groups : \E r : e = <<GroupRef(k - 1), r>> /\ Names(d.groups[k].children, r)
  <1>1. \A i \in DOMAIN d.groups : d.groups[i].self_ref = GroupRef(i - 1) /\ d.groups[i].parent = BodyRef
    <2>1. \A i \in DOMAIN d.groups : d.groups[i] \in GroupItem /\ d.groups[i].self_ref = GroupRef(i - 1)
      BY DEF Linked
    <2> QED
      BY <2>1 DEF GroupItem
  <1>2. \A i \in DOMAIN d.pictures : d.pictures[i].self_ref = PictureRef(i - 1) /\ d.pictures[i].children = <<>>
    <2>1. \A i \in DOMAIN d.pictures : d.pictures[i] \in PictureItem /\ d.pictures[i].self_ref = PictureRef(i - 1)
      BY DEF Linked, PictureNamed
    <2> QED
      BY <2>1 DEF PictureItem
  <1>3. ASSUME NEW r
        PROVE  (\E i \in DOMAIN Arena(d) : r = Arena(d)[i].self_ref) <=>
                 IsGroup(d, r) \/ \E i \in DOMAIN d.pictures : r = PictureRef(i - 1)
    BY <1>1, <1>2, ArenaItems DEF IsGroup
  <1>4. ASSUME NEW e
        PROVE  (\E i \in DOMAIN Arena(d) : e = <<Arena(d)[i].self_ref, Arena(d)[i].parent>>) <=>
                 \/ \E i \in DOMAIN d.groups : e = <<GroupRef(i - 1), BodyRef>>
                 \/ \E i \in DOMAIN d.pictures : e = <<PictureRef(i - 1), d.pictures[i].parent>>
    <2>1. ASSUME NEW i \in DOMAIN Arena(d), e = <<Arena(d)[i].self_ref, Arena(d)[i].parent>>
          PROVE  \/ \E k \in DOMAIN d.groups : e = <<GroupRef(k - 1), BodyRef>>
                 \/ \E k \in DOMAIN d.pictures : e = <<PictureRef(k - 1), d.pictures[k].parent>>
      BY <1>1, <1>2, <2>1, ArenaItems
    <2>2. ASSUME NEW k \in DOMAIN d.groups, e = <<GroupRef(k - 1), BodyRef>>
          PROVE  \E i \in DOMAIN Arena(d) : e = <<Arena(d)[i].self_ref, Arena(d)[i].parent>>
      BY <1>1, <2>2, ArenaItems
    <2>3. ASSUME NEW k \in DOMAIN d.pictures, e = <<PictureRef(k - 1), d.pictures[k].parent>>
          PROVE  \E i \in DOMAIN Arena(d) : e = <<Arena(d)[i].self_ref, Arena(d)[i].parent>>
      BY <1>2, <2>3, ArenaItems
    <2> QED
      BY <2>1, <2>2, <2>3
  <1> DEFINE listed(item) == {<<item.self_ref, item.children[i]>> : i \in DOMAIN item.children}
  <1>5. ASSUME NEW e
        PROVE  (\E i \in DOMAIN Arena(d) : e \in listed(Arena(d)[i])) <=>
                 \E k \in DOMAIN d.groups : \E r : e = <<GroupRef(k - 1), r>> /\ Names(d.groups[k].children, r)
    <2>1. ASSUME NEW i \in DOMAIN Arena(d), e \in listed(Arena(d)[i])
          PROVE  \E k \in DOMAIN d.groups : \E r : e = <<GroupRef(k - 1), r>> /\ Names(d.groups[k].children, r)
      <3>1. CASE i \in DOMAIN d.groups /\ Arena(d)[i] = d.groups[i]
        <4>1. PICK j \in DOMAIN d.groups[i].children : e = <<d.groups[i].self_ref, d.groups[i].children[j]>>
          BY <2>1, <3>1
        <4>2. Names(d.groups[i].children, d.groups[i].children[j])
          BY DEF Names
        <4> QED
          BY <1>1, <3>1, <4>1, <4>2
      <3>2. CASE i - Len(d.groups) \in DOMAIN d.pictures /\ Arena(d)[i] = d.pictures[i - Len(d.groups)]
        <4>1. Arena(d)[i].children = <<>>
          BY <1>2, <3>2
        <4> QED
          BY <2>1, <4>1
      <3> QED
        BY <3>1, <3>2, ArenaItems
    <2>2. ASSUME NEW k \in DOMAIN d.groups, NEW r, e = <<GroupRef(k - 1), r>>, Names(d.groups[k].children, r)
          PROVE  \E i \in DOMAIN Arena(d) : e \in listed(Arena(d)[i])
      <3>1. k \in DOMAIN Arena(d) /\ Arena(d)[k] = d.groups[k]
        BY ArenaItems
      <3>2. e \in listed(d.groups[k])
        BY <1>1, <2>2 DEF Names
      <3> QED
        BY <3>1, <3>2
    <2> QED
      BY <2>1, <2>2
  <1>6. \A e : e \in listed(d.body) <=> \E r : e = <<BodyRef, r>> /\ Names(d.body.children, r)
    BY DEF Linked, Names
  <1>7. listed(d.furniture) = {}
    BY DEF Linked
  <1>8. Down(d) = listed(d.body) \cup listed(d.furniture) \cup UNION {listed(Arena(d)[i]) : i \in DOMAIN Arena(d)}
    BY DEF Down
  <1> HIDE DEF listed
  <1>9. \A e : e \in Down(d) <=> e \in listed(d.body) \/ \E i \in DOMAIN Arena(d) : e \in listed(Arena(d)[i])
    BY <1>7, <1>8
  <1> QED
    BY <1>3, <1>4, <1>5, <1>6, <1>9 DEF RefsOf, Up

\* A linked document is safe to merge.
LEMMA LinkedSafe ==
    ASSUME NEW d, Linked(d)
    PROVE  /\ IntegrityErrors(d) = {}
           /\ \A i \in DOMAIN d.groups : d.groups[i].self_ref = GroupRef(i - 1)
           /\ \A i \in DOMAIN d.pictures : d.pictures[i].self_ref = PictureRef(i - 1)
           /\ Down(d) = {<<e[2], e[1]>> : e \in Up(d)}
           /\ \A g \in {d.body} \cup {d.groups[i] : i \in DOMAIN d.groups} :
                  \A i, j \in DOMAIN g.children : g.children[i] = g.children[j] => i = j
  <1>1. /\ \A i \in DOMAIN d.groups : d.groups[i].self_ref = GroupRef(i - 1)
        /\ \A i \in DOMAIN d.pictures : d.pictures[i].self_ref = PictureRef(i - 1)
        /\ \A i \in DOMAIN d.pictures :
             \/ d.pictures[i].parent = BodyRef
             \/ \E k \in DOMAIN d.groups : d.pictures[i].parent = GroupRef(k - 1)
        /\ \A r : Names(d.body.children, r) <=> (IsGroup(d, r) \/ PictureUnder(d, BodyRef, r))
        /\ \A k \in DOMAIN d.groups : \A r : Names(d.groups[k].children, r) <=> PictureUnder(d, GroupRef(k - 1), r)
        /\ Once(d.body.children)
        /\ \A k \in DOMAIN d.groups : Once(d.groups[k].children)
        /\ d.body.self_ref = BodyRef /\ d.furniture.self_ref = FurnitureRef
    BY DEF Linked, PictureNamed
  <1>2. ASSUME NEW a, NEW b PROVE <<a, b>> \in Down(d) <=> <<b, a>> \in Up(d)
    <2>1. <<b, a>> \in Up(d) <=>
            \/ IsGroup(d, b) /\ a = BodyRef
            \/ \E i \in DOMAIN d.pictures : b = PictureRef(i - 1) /\ a = d.pictures[i].parent
      BY LinkedRefs DEF IsGroup
    <2>2. <<a, b>> \in Down(d) <=>
            \/ a = BodyRef /\ Names(d.body.children, b)
            \/ \E k \in DOMAIN d.groups : a = GroupRef(k - 1) /\ Names(d.groups[k].children, b)
      BY LinkedRefs
    <2>3. ASSUME NEW i \in DOMAIN d.pictures, b = PictureRef(i - 1), a = d.pictures[i].parent
          PROVE  <<a, b>> \in Down(d)
      <3>1. PictureUnder(d, a, b)
        BY <2>3 DEF PictureUnder
      <3>2. CASE a = BodyRef
        BY <1>1, <2>2, <3>1, <3>2
      <3>3. CASE \E k \in DOMAIN d.groups : a = GroupRef(k - 1)
        BY <1>1, <2>2, <3>1, <3>3
      <3> QED
        BY <1>1, <2>3, <3>2, <3>3
    <2>4. IsGroup(d, b) /\ a = BodyRef => <<a, b>> \in Down(d)
      BY <1>1, <2>2
    <2>5. ASSUME PictureUnder(d, a, b) PROVE <<b, a>> \in Up(d)
      BY <2>1, <2>5 DEF PictureUnder
    <2>6. <<a, b>> \in Down(d) => <<b, a>> \in Up(d)
      <3>1. CASE a = BodyRef /\ Names(d.body.children, b)
        BY <1>1, <2>1, <2>5, <3>1
      <3>2. CASE \E k \in DOMAIN d.groups : a = GroupRef(k - 1) /\ Names(d.groups[k].children, b)
        BY <1>1, <2>5, <3>2
      <3> QED
        BY <2>2, <3>1, <3>2
    <2> QED
      BY <2>1, <2>3, <2>4, <2>6
  <1>3. /\ \A e \in Up(d) : e = <<e[1], e[2]>> /\ e[1] \in RefsOf(d) /\ e[2] \in RefsOf(d)
        /\ \A e \in Down(d) : e = <<e[1], e[2]>>
    <2>1. ASSUME NEW e \in Up(d) PROVE e = <<e[1], e[2]>> /\ e[1] \in RefsOf(d) /\ e[2] \in RefsOf(d)
      <3>1. CASE \E i \in DOMAIN d.groups : e = <<GroupRef(i - 1), BodyRef>>
        BY <3>1, LinkedRefs DEF IsGroup
      <3>2. CASE \E i \in DOMAIN d.pictures : e = <<PictureRef(i - 1), d.pictures[i].parent>>
        <4>1. PICK i \in DOMAIN d.pictures : e = <<PictureRef(i - 1), d.pictures[i].parent>>
          BY <3>2
        <4>2. d.pictures[i].parent \in RefsOf(d)
          BY <1>1, LinkedRefs DEF IsGroup
        <4>3. PictureRef(i - 1) \in RefsOf(d)
          BY LinkedRefs
        <4> QED
          BY <4>1, <4>2, <4>3
      <3> QED
        BY <3>1, <3>2, LinkedRefs
    <2>2. ASSUME NEW e \in Down(d) PROVE e = <<e[1], e[2]>>
      BY LinkedRefs
    <2> QED
      BY <2>1, <2>2
  <1>4. Down(d) = {<<e[2], e[1]>> : e \in Up(d)}
    <2>1. ASSUME NEW x \in Down(d) PROVE x \in {<<e[2], e[1]>> : e \in Up(d)}
      <3>1. x = <<x[1], x[2]>> /\ <<x[2], x[1]>> \in Up(d)
        BY <1>2, <1>3
      <3>2. PICK y \in Up(d) : y = <<x[2], x[1]>>
        BY <3>1
      <3>3. y[1] = x[2] /\ y[2] = x[1]
        BY <3>2
      <3> QED
        BY <3>1, <3>3
    <2>2. ASSUME NEW e \in Up(d) PROVE <<e[2], e[1]>> \in Down(d)
      BY <1>2, <1>3
    <2> QED
      BY <2>1, <2>2
  <1>5. IntegrityErrors(d) = {}
    <2>1. {x \in {<<BodyRef, d.body>>, <<FurnitureRef, d.furniture>>} : x[2].self_ref # x[1]} = {}
      BY <1>1
    <2>2. {k \in DOMAIN Arena(d) :
              \/ Arena(d)[k].self_ref \in {BodyRef, FurnitureRef}
              \/ \E j \in 1..k - 1 : Arena(d)[j].self_ref = Arena(d)[k].self_ref} = {}
      <3> SUFFICES ASSUME NEW k \in DOMAIN Arena(d)
                   PROVE  /\ Arena(d)[k].self_ref \notin {BodyRef, FurnitureRef}
                          /\ \A j \in 1..k - 1 : Arena(d)[j].self_ref # Arena(d)[k].self_ref
        OBVIOUS
      <3>1. ASSUME NEW i \in DOMAIN Arena(d)
            PROVE  \/ i \in DOMAIN d.groups /\ Arena(d)[i].self_ref = GroupRef(i - 1)
                   \/ /\ i - Len(d.groups) \in DOMAIN d.pictures
                      /\ Arena(d)[i].self_ref = PictureRef(i - Len(d.groups) - 1)
        BY <1>1, ArenaItems
      <3>2. Len(d.groups) \in Nat /\ DOMAIN Arena(d) \subseteq Nat
        BY ArenaItems
      <3>3. ASSUME NEW j \in 1..k - 1 PROVE Arena(d)[j].self_ref # Arena(d)[k].self_ref
        <4>1. j \in DOMAIN Arena(d) /\ j # k /\ j \in Int /\ k \in Int
          <5>1. Arena(d) \in Seq(GroupItem \cup PictureItem)
            <6>1. d.groups \in Seq(GroupItem) /\ d.pictures \in Seq(PictureItem)
              BY DEF Linked
            <6>2. d.groups \in Seq(GroupItem \cup PictureItem) /\ d.pictures \in Seq(GroupItem \cup PictureItem)
              BY <6>1
            <6> QED
              BY <6>2 DEF Arena
          <5> HIDE DEF Arena
          <5>2. DOMAIN Arena(d) = 1..Len(Arena(d)) /\ Len(Arena(d)) \in Nat
            BY <5>1
          <5> QED
            BY <5>2
        <4>2. ASSUME Arena(d)[j].self_ref = Arena(d)[k].self_ref PROVE FALSE
          <5>1. \/ /\ Arena(d)[j].self_ref = GroupRef(j - 1)
                   /\ Arena(d)[k].self_ref = GroupRef(k - 1)
                \/ /\ Arena(d)[j].self_ref = PictureRef(j - Len(d.groups) - 1)
                   /\ Arena(d)[k].self_ref = PictureRef(k - Len(d.groups) - 1)
            BY <3>1, <4>1, <4>2 DEF GroupRef, PictureRef
          <5> QED
            BY <3>2, <4>1, <4>2, <5>1 DEF GroupRef, PictureRef
        <4> QED
          BY <4>2
      <3>4. Arena(d)[k].self_ref \notin {BodyRef, FurnitureRef}
        BY <3>1 DEF GroupRef, PictureRef, BodyRef, FurnitureRef
      <3> QED
        BY <3>3, <3>4
    <2>3. {x \in Down(d) : x[2] \notin RefsOf(d)} = {}
      <3> SUFFICES ASSUME NEW x \in Down(d) PROVE x[2] \in RefsOf(d)
        OBVIOUS
      <3>1. x = <<x[1], x[2]>> /\ <<x[2], x[1]>> \in Up(d)
        BY <1>2, <1>3
      <3>2. <<x[2], x[1]>>[1] \in RefsOf(d)
        BY <1>3, <3>1
      <3> QED
        BY <3>2
    <2>4. {x \in Up(d) : x[2] \notin RefsOf(d)} = {}
      BY <1>3
    <2>5. {x \in Up(d) : x[2] \in RefsOf(d) /\ <<x[2], x[1]>> \notin Down(d)} = {}
      BY <1>2, <1>3
    <2> QED
      BY <2>1, <2>2, <2>3, <2>4, <2>5 DEF IntegrityErrors, LinkErrors
  <1> QED
    BY <1>1, <1>4, <1>5 DEF Once

-----------------------------------------------------------------------------
(* What the fold adds.                                                     *)

\* One more name on a list.
LEMMA NameAdded ==
    ASSUME NEW S, NEW s \in Seq(S), NEW x \in S, NEW t, t = Append(s, x)
    PROVE  /\ t \in Seq(S) /\ Len(s) \in Nat /\ Len(t) = Len(s) + 1
           /\ DOMAIN s = 1..Len(s) /\ DOMAIN t = 1..Len(s) + 1
           /\ \A i : i \in DOMAIN t <=> i \in DOMAIN s \/ i = Len(s) + 1
           /\ Len(s) + 1 \notin DOMAIN s
           /\ \A i \in DOMAIN s : t[i] = s[i]
           /\ t[Len(s) + 1] = x
           /\ \A r : Names(t, r) <=> Names(s, r) \/ r = x
           /\ Once(s) /\ ~Names(s, x) => Once(t)
  <1>1. /\ t \in Seq(S) /\ Len(s) \in Nat /\ Len(t) = Len(s) + 1
        /\ DOMAIN s = 1..Len(s) /\ DOMAIN t = 1..Len(s) + 1
        /\ \A i \in DOMAIN s : t[i] = s[i]
        /\ t[Len(s) + 1] = x
    OBVIOUS
  <1>2. (\A i : i \in DOMAIN t <=> i \in DOMAIN s \/ i = Len(s) + 1) /\ Len(s) + 1 \notin DOMAIN s
    BY <1>1
  <1>3. \A r : Names(t, r) <=> Names(s, r) \/ r = x
    BY <1>1, <1>2 DEF Names
  <1>4. Once(s) /\ ~Names(s, x) => Once(t)
    BY <1>1, <1>2 DEF Names, Once
  <1> QED
    BY <1>1, <1>2, <1>3, <1>4

\* Who can have children.
IsParent(d, parent) == parent = BodyRef \/ \E k \in DOMAIN d.groups : parent = GroupRef(k - 1)

\* One more child of a group, and another item in the place of one.
LEMMA ChildOfGroup ==
    ASSUME NEW g \in GroupItem, NEW child \in Refs, NEW h, h = [g EXCEPT !.children = Append(@, child)]
    PROVE  /\ h \in GroupItem /\ h.children = Append(g.children, child)
           /\ h.self_ref = g.self_ref /\ h.name = g.name /\ h.cues = g.cues
  <1>1. Append(g.children, child) \in Seq(Refs)
    BY DEF GroupItem
  <1> HIDE DEF Refs
  <1> QED
    BY <1>1 DEF GroupItem

\* The rest of a sequence stays when one item is replaced.
LEMMA ItemReplaced ==
    ASSUME NEW S, NEW s \in Seq(S), NEW k \in DOMAIN s, NEW x \in S, NEW t, t = [s EXCEPT ![k] = x]
    PROVE  /\ t \in Seq(S) /\ Len(t) = Len(s) /\ DOMAIN t = DOMAIN s
           /\ t[k] = x /\ \A i \in DOMAIN s : i # k => t[i] = s[i]
  <1>1. DOMAIN s = 1..Len(s) /\ Len(s) \in Nat /\ \A i \in DOMAIN s : s[i] \in S
    OBVIOUS
  <1>2. t = [i \in 1..Len(s) |-> IF i = k THEN x ELSE s[i]]
    BY <1>1
  <1>3. \A i \in 1..Len(s) : (IF i = k THEN x ELSE s[i]) \in S
    BY <1>1
  <1> QED
    BY <1>1, <1>2, <1>3

\* The same document, with one more child of a parent.
Gained(d, e, parent, child) ==
    /\ HasFields(e)
    /\ e.pictures = d.pictures /\ e.furniture = d.furniture /\ e.outline = d.outline /\ e.media = d.media
    /\ e.name = d.name /\ e.binary_hash = d.binary_hash /\ e.source_meta = d.source_meta
    /\ e.body.self_ref = d.body.self_ref /\ e.body.meta = d.body.meta
    /\ e.groups \in Seq(GroupItem) /\ Len(e.groups) = Len(d.groups) /\ DOMAIN e.groups = DOMAIN d.groups
    /\ \A i \in DOMAIN d.groups :
         /\ e.groups[i].self_ref = d.groups[i].self_ref /\ e.groups[i].name = d.groups[i].name
         /\ e.groups[i].cues = d.groups[i].cues
         /\ e.groups[i].children = IF parent = GroupRef(i - 1) THEN Append(d.groups[i].children, child)
                                   ELSE d.groups[i].children
    /\ e.body.children = IF parent = BodyRef THEN Append(d.body.children, child) ELSE d.body.children

\* link_child puts a reference at the end of the list of the parent it names.
LEMMA ChildLinked ==
    ASSUME NEW d, HasFields(d), d.groups \in Seq(GroupItem), d.body.children \in Seq(Refs),
           NEW parent, IsParent(d, parent), NEW child \in Refs, NEW e, e = LinkChild(d, parent, child)
    PROVE  Gained(d, e, parent, child)
  <1>1. CASE parent = BodyRef
    <2>1. parent # FurnitureRef /\ parent[1] # "groups" /\ \A i : parent # GroupRef(i)
      BY <1>1 DEF BodyRef, FurnitureRef, GroupRef
    <2>2. e = [d EXCEPT !.body.children = Append(@, child)]
      BY <2>1 DEF LinkChild
    <2>3. /\ HasFields(e)
          /\ e.pictures = d.pictures /\ e.furniture = d.furniture /\ e.outline = d.outline /\ e.media = d.media
          /\ e.name = d.name /\ e.binary_hash = d.binary_hash /\ e.source_meta = d.source_meta
          /\ e.body.self_ref = d.body.self_ref /\ e.body.meta = d.body.meta /\ e.groups = d.groups
          /\ e.body.children = Append(d.body.children, child)
      BY <2>2 DEF HasFields
    <2> QED
      BY <1>1, <2>1, <2>3 DEF Gained
  <1>2. CASE parent # BodyRef
    <2>1. PICK k \in DOMAIN d.groups : parent = GroupRef(k - 1)
      BY <1>2 DEF IsParent
    <2>2. k \in 1..Len(d.groups) /\ Len(d.groups) \in Nat /\ DOMAIN d.groups = 1..Len(d.groups)
      OBVIOUS
    <2>3. /\ parent # FurnitureRef /\ parent[1] = "groups" /\ parent[2] = k - 1
          /\ \A i \in DOMAIN d.groups : parent = GroupRef(i - 1) <=> i = k
      BY <2>1, <2>2 DEF FurnitureRef, GroupRef
    <2> DEFINE gs == d.groups
               group == [gs[k] EXCEPT !.children = Append(@, child)]
               more == [gs EXCEPT ![k] = group]
    <2>4. e = [d EXCEPT !.groups = more]
      <3>1. parent[2] < Len(d.groups) /\ parent[2] + 1 = k
        BY <2>2, <2>3
      <3>2. e = [d EXCEPT !.groups[parent[2] + 1].children = Append(@, child)]
        BY <2>3, <3>1 DEF LinkChild
      <3>3. e = [d EXCEPT !.groups[k].children = Append(@, child)]
        BY <3>1, <3>2
      <3> QED
        BY <3>3
    <2>5. gs \in Seq(GroupItem) /\ gs[k] \in GroupItem /\ k \in DOMAIN gs
      BY <2>2
    <2>6. /\ group \in GroupItem /\ group.children = Append(gs[k].children, child)
          /\ group.self_ref = gs[k].self_ref /\ group.name = gs[k].name /\ group.cues = gs[k].cues
      <3> HIDE DEF gs
      <3> QED
        BY <2>5, ChildOfGroup
    <2> HIDE DEF group
    <2>7. /\ more \in Seq(GroupItem) /\ Len(more) = Len(gs) /\ DOMAIN more = DOMAIN gs
          /\ more[k] = group /\ \A i \in DOMAIN gs : i # k => more[i] = gs[i]
      <3> HIDE DEF gs
      <3> QED
        BY <2>5, <2>6, ItemReplaced
    <2> HIDE DEF more
    <2>8. /\ HasFields(e)
          /\ e.pictures = d.pictures /\ e.furniture = d.furniture /\ e.outline = d.outline /\ e.media = d.media
          /\ e.name = d.name /\ e.binary_hash = d.binary_hash /\ e.source_meta = d.source_meta
          /\ e.body = d.body /\ e.groups = more
      BY <2>4 DEF HasFields
    <2>9. ASSUME NEW i \in DOMAIN d.groups
          PROVE  /\ e.groups[i].self_ref = d.groups[i].self_ref /\ e.groups[i].name = d.groups[i].name
                 /\ e.groups[i].cues = d.groups[i].cues
                 /\ e.groups[i].children = IF parent = GroupRef(i - 1) THEN Append(d.groups[i].children, child)
                                           ELSE d.groups[i].children
      <3>1. CASE i = k
        BY <2>3, <2>6, <2>7, <2>8, <3>1
      <3>2. CASE i # k
        BY <2>3, <2>7, <2>8, <3>2
      <3> QED
        BY <3>1, <3>2
    <2> QED
      BY <1>2, <2>7, <2>8, <2>9 DEF Gained
  <1> QED
    BY <1>1, <1>2

\* The same of a list of references.
LEMMA NameListed ==
    ASSUME NEW s \in Seq(Refs), NEW x \in Refs
    PROVE  /\ Append(s, x) \in Seq(Refs)
           /\ \A r : Names(Append(s, x), r) <=> Names(s, r) \/ r = x
           /\ Once(s) /\ ~Names(s, x) => Once(Append(s, x))
  <1> DEFINE t == Append(s, x)
  <1>1. /\ t \in Seq(Refs) /\ Len(s) \in Nat /\ DOMAIN s = 1..Len(s)
        /\ \A i : i \in DOMAIN t <=> i \in DOMAIN s \/ i = Len(s) + 1
        /\ Len(s) + 1 \notin DOMAIN s
        /\ \A i \in DOMAIN s : t[i] = s[i]
        /\ t[Len(s) + 1] = x
    BY NameAdded
  <1> HIDE DEF t
  <1>2. \A r : Names(t, r) <=> Names(s, r) \/ r = x
    BY <1>1 DEF Names
  <1>3. Once(s) /\ ~Names(s, x) => Once(t)
    BY <1>1 DEF Names, Once
  <1> QED
    BY <1>1, <1>2, <1>3 DEF t

\* A picture's item.
LEMMA PictureType ==
    ASSUME NEW n \in Nat, NEW parent \in Refs, NEW href \in Hrefs, NEW cover \in BOOLEAN, NEW p,
           p = [self_ref |-> PictureRef(n), parent |-> parent, children |-> <<>>, uri |-> href,
                cover |-> cover, source |-> Collector]
    PROVE  p \in PictureItem
  <1>1. PictureRef(n) \in Refs
    BY DEF PictureRef, Refs
  <1> QED
    BY <1>1, Zenon DEF PictureItem

\* A document with one more picture, under the body or a group.
Pictured(d, e, parent, href) ==
    /\ Linked(e) /\ HasFields(e)
    /\ e.outline = d.outline /\ e.media = d.media
    /\ e.name = d.name /\ e.binary_hash = d.binary_hash /\ e.source_meta = d.source_meta
    /\ e.body.meta = d.body.meta
    /\ Len(e.groups) = Len(d.groups) /\ DOMAIN e.groups = DOMAIN d.groups
    /\ \A i \in DOMAIN d.groups :
         e.groups[i].name = d.groups[i].name /\ e.groups[i].cues = d.groups[i].cues
    /\ \E p \in PictureItem : /\ e.pictures = Append(d.pictures, p) /\ p.uri = href
                              /\ p.cover = (cover_href # Empty /\ href = cover_href)
    /\ e.body.children = IF parent = BodyRef THEN Append(d.body.children, PictureRef(Len(d.pictures)))
                         ELSE d.body.children

\* add_picture: a linked document stays linked.
LEMMA PictureAdded ==
    ASSUME NEW d, Linked(d), HasFields(d), NEW parent, IsParent(d, parent), NEW href \in Hrefs,
           NEW e, e = AddPicture(d, parent, href)
    PROVE  Pictured(d, e, parent, href)
  <1> DEFINE n == Len(d.pictures)
             self == PictureRef(n)
             p == [self_ref |-> self, parent |-> parent, children |-> <<>>, uri |-> href,
                   cover |-> cover_href # Empty /\ href = cover_href, source |-> Collector]
             d1 == [d EXCEPT !.pictures = Append(@, p)]
  <1>1. /\ d.groups \in Seq(GroupItem) /\ d.pictures \in Seq(PictureItem) /\ d.body.children \in Seq(Refs)
        /\ n \in Nat /\ DOMAIN d.pictures = 1..n /\ Len(d.groups) \in Nat /\ DOMAIN d.groups = 1..Len(d.groups)
    BY DEF Linked
  <1>2. self \in Refs /\ parent \in Refs
    BY <1>1 DEF IsParent, Refs, PictureRef, BodyRef, GroupRef
  <1>3. p \in PictureItem /\ p.uri = href /\ p.cover = (cover_href # Empty /\ href = cover_href) /\ p.self_ref = self /\ p.parent = parent
    <2>1. (cover_href # Empty /\ href = cover_href) \in BOOLEAN
      OBVIOUS
    <2>2. p \in PictureItem
      BY <1>1, <1>2, <2>1, PictureType
    <2>3. p.cover = (cover_href # Empty /\ href = cover_href)
      BY Zenon
    <2> QED
      BY <2>2, <2>3
  <1> HIDE DEF p
  <1>4. /\ HasFields(d1) /\ d1.pictures = Append(d.pictures, p) /\ d1.groups = d.groups /\ d1.body = d.body
        /\ d1.furniture = d.furniture /\ d1.outline = d.outline /\ d1.media = d.media
        /\ d1.name = d.name /\ d1.binary_hash = d.binary_hash /\ d1.source_meta = d.source_meta
    BY DEF HasFields
  <1>5. e = LinkChild(d1, parent, self)
    BY DEF AddPicture, p
  <1>6. /\ IsParent(d1, parent) /\ d1.groups \in Seq(GroupItem) /\ d1.body.children \in Seq(Refs)
        /\ HasFields(d1) /\ self \in Refs
    BY <1>1, <1>2, <1>4 DEF IsParent
  <1> HIDE DEF d1, n, self
  <1>7. /\ HasFields(e)
        /\ e.pictures = d1.pictures /\ e.furniture = d1.furniture /\ e.outline = d1.outline /\ e.media = d1.media
        /\ e.name = d1.name /\ e.binary_hash = d1.binary_hash /\ e.source_meta = d1.source_meta
        /\ e.body.self_ref = d1.body.self_ref /\ e.body.meta = d1.body.meta
        /\ e.groups \in Seq(GroupItem) /\ Len(e.groups) = Len(d1.groups) /\ DOMAIN e.groups = DOMAIN d1.groups
        /\ \A i \in DOMAIN d1.groups :
             /\ e.groups[i].self_ref = d1.groups[i].self_ref /\ e.groups[i].name = d1.groups[i].name
             /\ e.groups[i].cues = d1.groups[i].cues
             /\ e.groups[i].children = IF parent = GroupRef(i - 1) THEN Append(d1.groups[i].children, self)
                                       ELSE d1.groups[i].children
        /\ e.body.children = IF parent = BodyRef THEN Append(d1.body.children, self) ELSE d1.body.children
    <2>1. Gained(d1, e, parent, self)
      BY <1>5, <1>6, ChildLinked
    <2> QED
      BY <2>1 DEF Gained
  <1>8. e.pictures = Append(d.pictures, p)
    BY <1>4, <1>7
  <1>9. /\ e.pictures = Append(d.pictures, p) /\ e.pictures \in Seq(PictureItem)
        /\ \A i : i \in DOMAIN e.pictures <=> i \in DOMAIN d.pictures \/ i = n + 1
        /\ n + 1 \notin DOMAIN d.pictures
        /\ e.pictures[n + 1] = p
        /\ \A i \in DOMAIN d.pictures : e.pictures[i] = d.pictures[i]
    BY <1>1, <1>3, <1>8, NameAdded DEF n
  <1>10. ASSUME NEW par, NEW r
        PROVE  PictureUnder(e, par, r) <=> PictureUnder(d, par, r) \/ (par = parent /\ r = self)
    <2>1. PictureRef((n + 1) - 1) = self
      BY <1>1 DEF self
    <2> QED
      BY <1>3, <1>9, <2>1 DEF PictureUnder
  <1>11. \A r : IsGroup(e, r) <=> IsGroup(d, r)
    BY <1>4, <1>7 DEF IsGroup
  <1>12. /\ \A r : Names(d.body.children, r) <=> (IsGroup(d, r) \/ PictureUnder(d, BodyRef, r))
         /\ \A k \in DOMAIN d.groups : \A r : Names(d.groups[k].children, r) <=> PictureUnder(d, GroupRef(k - 1), r)
         /\ Once(d.body.children)
         /\ \A k \in DOMAIN d.groups : Once(d.groups[k].children)
    BY DEF Linked
  <1>13. (\A par : ~PictureUnder(d, par, self)) /\ ~IsGroup(d, self)
    BY <1>1 DEF PictureUnder, IsGroup, self, PictureRef, GroupRef
  <1>14. /\ e.body.children \in Seq(Refs) /\ Once(e.body.children)
         /\ \A r : Names(e.body.children, r) <=> (IsGroup(e, r) \/ PictureUnder(e, BodyRef, r))
    <2>1. CASE parent = BodyRef
      <3>1. e.body.children = Append(d.body.children, self)
        BY <1>4, <1>7, <2>1
      <3>2. /\ e.body.children \in Seq(Refs)
            /\ \A r : Names(e.body.children, r) <=> Names(d.body.children, r) \/ r = self
            /\ Once(d.body.children) /\ ~Names(d.body.children, self) => Once(e.body.children)
        BY <1>1, <1>2, <3>1, NameListed
      <3>3. ~Names(d.body.children, self)
        BY <1>12, <1>13
      <3> QED
        BY <1>10, <1>11, <1>12, <2>1, <3>2, <3>3
    <2>2. CASE parent # BodyRef
      <3>1. e.body.children = d.body.children
        BY <1>4, <1>7, <2>2
      <3> QED
        BY <1>1, <1>10, <1>11, <1>12, <2>2, <3>1
    <2> QED
      BY <2>1, <2>2
  <1>15. ASSUME NEW k \in DOMAIN e.groups
         PROVE  /\ Once(e.groups[k].children)
                /\ \A r : Names(e.groups[k].children, r) <=> PictureUnder(e, GroupRef(k - 1), r)
    <2>1. k \in DOMAIN d.groups /\ d.groups[k].children \in Seq(Refs)
      <3>1. k \in DOMAIN d.groups
        BY <1>4, <1>7
      <3>2. d.groups[k] \in GroupItem
        BY <1>1, <3>1
      <3> QED
        BY <3>1, <3>2 DEF GroupItem
    <2>2. CASE parent = GroupRef(k - 1)
      <3>1. e.groups[k].children = Append(d.groups[k].children, self)
        BY <1>4, <1>7, <2>1, <2>2
      <3>2. /\ \A r : Names(e.groups[k].children, r) <=> Names(d.groups[k].children, r) \/ r = self
            /\ Once(d.groups[k].children) /\ ~Names(d.groups[k].children, self) => Once(e.groups[k].children)
        BY <1>2, <2>1, <3>1, NameListed
      <3>3. ~Names(d.groups[k].children, self)
        BY <1>12, <1>13, <2>1
      <3> QED
        BY <1>10, <1>12, <2>1, <2>2, <3>2, <3>3
    <2>3. CASE parent # GroupRef(k - 1)
      <3>1. e.groups[k].children = d.groups[k].children
        BY <1>4, <1>7, <2>1, <2>3
      <3> QED
        BY <1>10, <1>12, <2>1, <2>3, <3>1
    <2> QED
      BY <2>2, <2>3
  <1>16. \A i \in DOMAIN e.groups : e.groups[i].self_ref = GroupRef(i - 1)
    BY <1>4, <1>7 DEF Linked
  <1>17. ASSUME NEW i \in DOMAIN e.pictures PROVE PictureNamed(e, i)
    <2>1. CASE i \in DOMAIN d.pictures
      BY <1>4, <1>7, <1>9, <2>1 DEF Linked, PictureNamed
    <2>2. CASE i = n + 1
      <3>1. PictureRef(i - 1) = self
        BY <1>1, <2>2 DEF self
      <3> QED
        BY <1>3, <1>4, <1>7, <1>9, <2>2, <3>1 DEF PictureNamed, IsParent
    <2> QED
      BY <1>9, <2>1, <2>2
  <1>18. Linked(e)
    <2>1. e.body.self_ref = BodyRef /\ e.furniture.self_ref = FurnitureRef /\ e.furniture.children = <<>>
      BY <1>4, <1>7 DEF Linked
    <2> QED
      BY <1>7, <1>9, <1>14, <1>15, <1>16, <1>17, <2>1 DEF Linked
  <1>19. /\ Linked(e) /\ HasFields(e)
         /\ e.outline = d.outline /\ e.media = d.media
         /\ e.name = d.name /\ e.binary_hash = d.binary_hash /\ e.source_meta = d.source_meta
         /\ e.body.meta = d.body.meta
         /\ Len(e.groups) = Len(d.groups) /\ DOMAIN e.groups = DOMAIN d.groups
         /\ \A i \in DOMAIN d.groups :
              e.groups[i].name = d.groups[i].name /\ e.groups[i].cues = d.groups[i].cues
         /\ \E x \in PictureItem : /\ e.pictures = Append(d.pictures, x) /\ x.uri = href
                                   /\ x.cover = (cover_href # Empty /\ href = cover_href)
         /\ e.body.children = IF parent = BodyRef THEN Append(d.body.children, PictureRef(Len(d.pictures)))
                              ELSE d.body.children
    BY <1>3, <1>4, <1>7, <1>9, <1>18 DEF n, self
  <1> QED
    BY <1>19 DEF Pictured

\* A document with one more group in the body.
Grown(d, e, group) ==
    /\ Linked(e) /\ HasFields(e)
    /\ e.outline = d.outline /\ e.media = d.media /\ e.pictures = d.pictures
    /\ e.name = d.name /\ e.binary_hash = d.binary_hash /\ e.source_meta = d.source_meta
    /\ e.body.meta = d.body.meta
    /\ Len(e.groups) = Len(d.groups) + 1
    /\ \A i \in DOMAIN d.groups :
         e.groups[i].name = d.groups[i].name /\ e.groups[i].cues = d.groups[i].cues
    /\ e.groups[Len(d.groups) + 1].name = group.name /\ e.groups[Len(d.groups) + 1].cues = group.cues
    /\ e.body.children = Append(d.body.children, GroupRef(Len(d.groups)))

\* A new group under the body: a linked document stays linked.
LEMMA GroupAdded ==
    ASSUME NEW d, Linked(d), HasFields(d), NEW group \in GroupItem,
           group.self_ref = GroupRef(Len(d.groups)), group.children = <<>>,
           NEW e, e = LinkChild([d EXCEPT !.groups = Append(@, group)], BodyRef, GroupRef(Len(d.groups)))
    PROVE  Grown(d, e, group)
  <1> DEFINE n == Len(d.groups)
             self == GroupRef(n)
             d1 == [d EXCEPT !.groups = Append(@, group)]
  <1>1. /\ d.groups \in Seq(GroupItem) /\ d.pictures \in Seq(PictureItem) /\ d.body.children \in Seq(Refs)
        /\ n \in Nat /\ DOMAIN d.groups = 1..n
    BY DEF Linked
  <1>2. self \in Refs
    BY <1>1 DEF Refs, GroupRef
  <1>3. /\ HasFields(d1) /\ d1.groups = Append(d.groups, group) /\ d1.pictures = d.pictures /\ d1.body = d.body
        /\ d1.furniture = d.furniture /\ d1.outline = d.outline /\ d1.media = d.media
        /\ d1.name = d.name /\ d1.binary_hash = d.binary_hash /\ d1.source_meta = d.source_meta
    BY DEF HasFields
  <1>4. e = LinkChild(d1, BodyRef, self)
    OBVIOUS
  <1>5. /\ d1.groups \in Seq(GroupItem) /\ Len(d1.groups) = n + 1
        /\ \A i : i \in DOMAIN d1.groups <=> i \in DOMAIN d.groups \/ i = n + 1
        /\ n + 1 \notin DOMAIN d.groups
        /\ d1.groups[n + 1] = group
        /\ \A i \in DOMAIN d.groups : d1.groups[i] = d.groups[i]
    <2>1. PICK gs : gs = Append(d.groups, group)
      OBVIOUS
    <2>2. /\ gs \in Seq(GroupItem) /\ Len(gs) = n + 1
          /\ \A i : i \in DOMAIN gs <=> i \in DOMAIN d.groups \/ i = n + 1
          /\ n + 1 \notin DOMAIN d.groups
          /\ gs[n + 1] = group
          /\ \A i \in DOMAIN d.groups : gs[i] = d.groups[i]
      BY <1>1, <2>1, NameAdded
    <2> QED
      BY <1>3, <2>1, <2>2
  <1>6. /\ HasFields(d1) /\ d1.groups \in Seq(GroupItem) /\ d1.body.children \in Seq(Refs)
        /\ IsParent(d1, BodyRef) /\ self \in Refs
    <2>1. HasFields(d1) /\ d1.body = d.body
      BY <1>3
    <2>2. d1.groups \in Seq(GroupItem)
      BY <1>5
    <2>3. IsParent(d1, BodyRef)
      BY DEF IsParent
    <2> QED
      BY <1>1, <1>2, <2>1, <2>2, <2>3
  <1> HIDE DEF d1, n, self
  <1>7. PICK par : par = BodyRef
    OBVIOUS
  <1>8. /\ HasFields(d1) /\ d1.groups \in Seq(GroupItem) /\ d1.body.children \in Seq(Refs)
         /\ IsParent(d1, par) /\ self \in Refs /\ e = LinkChild(d1, par, self)
    BY <1>4, <1>6, <1>7
  <1>9. /\ HasFields(e)
        /\ e.pictures = d1.pictures /\ e.furniture = d1.furniture /\ e.outline = d1.outline /\ e.media = d1.media
        /\ e.name = d1.name /\ e.binary_hash = d1.binary_hash /\ e.source_meta = d1.source_meta
        /\ e.body.self_ref = d1.body.self_ref /\ e.body.meta = d1.body.meta
        /\ e.groups \in Seq(GroupItem) /\ Len(e.groups) = Len(d1.groups) /\ DOMAIN e.groups = DOMAIN d1.groups
        /\ \A i \in DOMAIN d1.groups :
             /\ e.groups[i].self_ref = d1.groups[i].self_ref /\ e.groups[i].name = d1.groups[i].name
             /\ e.groups[i].cues = d1.groups[i].cues
             /\ e.groups[i].children = IF par = GroupRef(i - 1) THEN Append(d1.groups[i].children, self)
                                       ELSE d1.groups[i].children
        /\ e.body.children = IF par = BodyRef THEN Append(d1.body.children, self) ELSE d1.body.children
    <2>1. Gained(d1, e, par, self)
      BY <1>8, ChildLinked
    <2> QED
      BY <2>1 DEF Gained
  <1>10. /\ \A i \in DOMAIN d1.groups : e.groups[i].children = d1.groups[i].children
        /\ e.body.children = Append(d.body.children, self)
    BY <1>3, <1>9, <1>7 DEF BodyRef, GroupRef
  <1>11. \A q, r : PictureUnder(e, q, r) <=> PictureUnder(d, q, r)
    BY <1>3, <1>9 DEF PictureUnder
  <1>12. \A r : IsGroup(e, r) <=> IsGroup(d, r) \/ r = self
    <2>1. GroupRef((n + 1) - 1) = self
      BY <1>1 DEF self
    <2> QED
      BY <1>5, <1>9, <2>1 DEF IsGroup
  <1>13. /\ \A r : Names(d.body.children, r) <=> (IsGroup(d, r) \/ PictureUnder(d, BodyRef, r))
         /\ \A k \in DOMAIN d.groups : \A r : Names(d.groups[k].children, r) <=> PictureUnder(d, GroupRef(k - 1), r)
         /\ Once(d.body.children)
         /\ \A k \in DOMAIN d.groups : Once(d.groups[k].children)
         /\ \A i \in DOMAIN d.pictures : PictureNamed(d, i)
    BY DEF Linked
  <1>14. (\A q : ~PictureUnder(d, q, self)) /\ ~IsGroup(d, self) /\ \A r : ~PictureUnder(d, self, r)
    <2>1. \A q : ~PictureUnder(d, q, self)
      BY <1>1 DEF PictureUnder, self, PictureRef, GroupRef
    <2>2. ~IsGroup(d, self)
      BY <1>1 DEF IsGroup, self, GroupRef
    <2>3. ASSUME NEW i \in DOMAIN d.pictures PROVE d.pictures[i].parent # self
      <3>1. d.pictures[i].parent = BodyRef => d.pictures[i].parent # self
        BY DEF self, BodyRef, GroupRef
      <3>2. ASSUME NEW k \in DOMAIN d.groups PROVE GroupRef(k - 1) # self
        BY <1>1 DEF self, GroupRef
      <3> QED
        BY <1>13, <3>1, <3>2 DEF PictureNamed
    <2> QED
      BY <2>1, <2>2, <2>3 DEF PictureUnder
  <1>15. /\ e.body.children \in Seq(Refs) /\ Once(e.body.children)
         /\ \A r : Names(e.body.children, r) <=> (IsGroup(e, r) \/ PictureUnder(e, BodyRef, r))
    <2>1. d.body.children \in Seq(Refs) /\ e.body.children = Append(d.body.children, self)
      BY <1>1, <1>10
    <2>2. /\ e.body.children \in Seq(Refs)
          /\ \A r : Names(e.body.children, r) <=> Names(d.body.children, r) \/ r = self
          /\ Once(d.body.children) /\ ~Names(d.body.children, self) => Once(e.body.children)
      <3>1. PICK s \in Seq(Refs) : s = d.body.children
        BY <2>1
      <3>2. /\ Append(s, self) \in Seq(Refs)
            /\ \A r : Names(Append(s, self), r) <=> Names(s, r) \/ r = self
            /\ Once(s) /\ ~Names(s, self) => Once(Append(s, self))
        BY <1>2, NameListed
      <3> QED
        BY <2>1, <3>1, <3>2
    <2>3. ~Names(d.body.children, self)
      BY <1>13, <1>14
    <2> QED
      BY <1>11, <1>12, <1>13, <2>2, <2>3
  <1>16. \A k \in DOMAIN e.groups : k \in DOMAIN d.groups \/ k = n + 1
    BY <1>5, <1>9
  <1>17. \A k \in DOMAIN d.groups : k \in DOMAIN d1.groups /\ d1.groups[k] = d.groups[k]
    BY <1>5
  <1>18. n + 1 \in DOMAIN d1.groups /\ d1.groups[n + 1] = group
    BY <1>5
  <1>19. ASSUME NEW k \in DOMAIN e.groups
         PROVE  /\ Once(e.groups[k].children)
                /\ \A r : Names(e.groups[k].children, r) <=> PictureUnder(e, GroupRef(k - 1), r)
                /\ e.groups[k].self_ref = GroupRef(k - 1)
    <2>1. CASE k \in DOMAIN d.groups
      <3>1. e.groups[k].children = d.groups[k].children /\ e.groups[k].self_ref = d.groups[k].self_ref
        <4>1. k \in DOMAIN d1.groups /\ d1.groups[k] = d.groups[k]
          BY <1>17, <2>1
        <4>2. e.groups[k].children = d1.groups[k].children
          BY <1>10, <4>1
        <4>3. e.groups[k].self_ref = d1.groups[k].self_ref
          BY <1>9, <4>1
        <4> QED
          BY <4>1, <4>2, <4>3
      <3>2. d.groups[k].self_ref = GroupRef(k - 1)
        BY <2>1 DEF Linked
      <3> QED
        BY <1>11, <1>13, <2>1, <3>1, <3>2
    <2>2. CASE k = n + 1
      <3>1. e.groups[k].children = <<>> /\ e.groups[k].self_ref = self /\ GroupRef(k - 1) = self
        <4>1. e.groups[k].children = group.children
          BY <1>10, <1>18, <2>2
        <4>2. e.groups[k].self_ref = group.self_ref
          BY <1>9, <1>18, <2>2
        <4>3. group.children = <<>> /\ group.self_ref = self
          BY DEF self, n
        <4>4. k - 1 = n
          BY <1>1, <2>2
        <4> QED
          BY <4>1, <4>2, <4>3, <4>4 DEF self
      <3> QED
        BY <1>11, <1>14, <3>1 DEF Names, Once
    <2> QED
      BY <1>16, <2>1, <2>2
  <1>20. ASSUME NEW i \in DOMAIN e.pictures PROVE PictureNamed(e, i)
    <2>1. e.pictures = d.pictures
      BY <1>3, <1>9
    <2>2. \A k \in DOMAIN d.groups : k \in DOMAIN e.groups
      BY <1>9, <1>17
    <2>3. PictureNamed(d, i)
      BY <1>13, <2>1
    <2> QED
      BY <2>1, <2>2, <2>3 DEF PictureNamed
  <1>21. Linked(e)
    <2>1. e.body.self_ref = BodyRef /\ e.furniture.self_ref = FurnitureRef /\ e.furniture.children = <<>>
      BY <1>3, <1>9 DEF Linked
    <2>2. e.pictures \in Seq(PictureItem)
      BY <1>1, <1>3, <1>9
    <2> QED
      BY <1>9, <1>15, <1>19, <1>20, <2>1, <2>2 DEF Linked
  <1>22. /\ HasFields(e)
         /\ e.outline = d.outline /\ e.media = d.media /\ e.pictures = d.pictures
         /\ e.name = d.name /\ e.binary_hash = d.binary_hash /\ e.source_meta = d.source_meta
         /\ e.body.meta = d.body.meta
    BY <1>3, <1>9
  <1>23. Len(e.groups) = n + 1
    BY <1>5, <1>9
  <1>24. \A i \in DOMAIN d.groups : e.groups[i].name = d.groups[i].name /\ e.groups[i].cues = d.groups[i].cues
    BY <1>9, <1>17
  <1>25. e.groups[n + 1].name = group.name /\ e.groups[n + 1].cues = group.cues
    BY <1>9, <1>18
  <1> QED
    BY <1>10, <1>21, <1>22, <1>23, <1>24, <1>25 DEF Grown, n, self

\* A chapter's group: what the code gives it.
LEMMA GroupType ==
    ASSUME NEW n \in Nat, NEW href \in Hrefs, NEW spine_index \in Nat, NEW g,
           g = [self_ref |-> GroupRef(n), parent |-> BodyRef, children |-> <<>>, name |-> href,
                meta |-> [spine_index |-> spine_index, collector |-> Collector], cues |-> 0]
    PROVE  g \in GroupItem
  <1>1. GroupRef(n) \in Refs
    BY DEF GroupRef, Refs
  <1>2. [spine_index |-> spine_index, collector |-> Collector] \in ChapterMeta
    BY DEF ChapterMeta
  <1>3. <<>> \in Seq(Refs)
    OBVIOUS
  <1> HIDE DEF Refs
  <1> QED
    BY <1>1, <1>2, <1>3 DEF GroupItem

\* A document with one more chapter.
Chaptered(d, e, c) ==
    /\ Linked(e) /\ HasFields(e)
    /\ e.outline = d.outline /\ e.media = d.media
    /\ e.name = d.name /\ e.binary_hash = d.binary_hash /\ e.source_meta = d.source_meta
    /\ e.body.meta = d.body.meta
    /\ Len(d.groups) \in Nat /\ Len(e.groups) = Len(d.groups) + 1
    /\ \A i \in DOMAIN d.groups :
         e.groups[i].name = d.groups[i].name /\ e.groups[i].cues = d.groups[i].cues
    /\ e.groups[Len(d.groups) + 1].name = c.href /\ e.groups[Len(d.groups) + 1].cues = 0
    /\ c.image =>
         \E p \in PictureItem : /\ e.pictures = Append(d.pictures, p) /\ p.uri = c.href
                                /\ p.cover = (cover_href # Empty /\ c.href = cover_href)
    /\ ~c.image => e.pictures = d.pictures
    /\ e.body.children = Append(d.body.children, GroupRef(Len(d.groups)))

\* A chapter: a group under the body, and the picture in it.
LEMMA ChapterAdded ==
    ASSUME NEW d, Linked(d), HasFields(d), NEW c, c.href \in Hrefs, c.spine_index \in Nat,
           NEW e, e = AddChapter(d, c)
    PROVE  Chaptered(d, e, c)
  <1> DEFINE n == Len(d.groups)
             self == GroupRef(n)
             group == [self_ref |-> self, parent |-> BodyRef, children |-> <<>>, name |-> c.href,
                       meta |-> [spine_index |-> c.spine_index, collector |-> Collector], cues |-> 0]
             linked == LinkChild([d EXCEPT !.groups = Append(@, group)], BodyRef, self)
  <1>1. n \in Nat /\ DOMAIN d.groups = 1..n
    BY DEF Linked
  <1>2. group \in GroupItem /\ group.self_ref = self /\ group.children = <<>> /\ group.name = c.href /\ group.cues = 0
    BY <1>1, GroupType
  <1>3. e = IF c.image THEN AddPicture(linked, self, c.href) ELSE linked
    BY DEF AddChapter
  <1> HIDE DEF group
  <1>4. PICK l : l = linked
    OBVIOUS
  <1>5. /\ Linked(l) /\ HasFields(l)
        /\ l.outline = d.outline /\ l.media = d.media /\ l.pictures = d.pictures
        /\ l.name = d.name /\ l.binary_hash = d.binary_hash /\ l.source_meta = d.source_meta
        /\ l.body.meta = d.body.meta
        /\ Len(l.groups) = n + 1
        /\ \A i \in DOMAIN d.groups :
             l.groups[i].name = d.groups[i].name /\ l.groups[i].cues = d.groups[i].cues
        /\ l.groups[n + 1].name = c.href /\ l.groups[n + 1].cues = 0
        /\ l.body.children = Append(d.body.children, self)
    <2>1. group.self_ref = GroupRef(Len(d.groups)) /\ group \in GroupItem /\ group.children = <<>>
      BY <1>2
    <2>2. l = LinkChild([d EXCEPT !.groups = Append(@, group)], BodyRef, GroupRef(Len(d.groups)))
      BY <1>4
    <2>3. group.name = c.href /\ group.cues = 0
      BY <1>2
    <2> HIDE DEF linked, self, n
    <2>4. Linked(d) /\ HasFields(d)
      OBVIOUS
    <2>5. /\ Linked(l) /\ HasFields(l)
          /\ l.outline = d.outline /\ l.media = d.media /\ l.pictures = d.pictures
          /\ l.name = d.name /\ l.binary_hash = d.binary_hash /\ l.source_meta = d.source_meta
          /\ l.body.meta = d.body.meta
          /\ Len(l.groups) = Len(d.groups) + 1
          /\ \A i \in DOMAIN d.groups :
               l.groups[i].name = d.groups[i].name /\ l.groups[i].cues = d.groups[i].cues
          /\ l.groups[Len(d.groups) + 1].name = group.name /\ l.groups[Len(d.groups) + 1].cues = group.cues
          /\ l.body.children = Append(d.body.children, GroupRef(Len(d.groups)))
      <3> HIDE DEF group
      <3>1. PICK g \in GroupItem : g = group
        BY <2>1
      <3>2. g.self_ref = GroupRef(Len(d.groups)) /\ g.children = <<>>
        BY <2>1, <3>1
      <3>3. l = LinkChild([d EXCEPT !.groups = Append(@, g)], BodyRef, GroupRef(Len(d.groups)))
        BY <2>2, <3>1
      <3>4. Grown(d, l, g)
        BY <2>4, <3>2, <3>3, GroupAdded
      <3> QED
        BY <3>1, <3>4 DEF Grown
    <2> QED
      BY <2>3, <2>5 DEF self, n
  <1>6. DOMAIN l.groups = 1..n + 1 /\ n + 1 \in 1..n + 1 /\ DOMAIN d.groups \subseteq 1..n + 1
    BY <1>1, <1>5 DEF Linked
  <1>7. IsParent(l, self) /\ self # BodyRef
    <2>1. GroupRef((n + 1) - 1) = self
      BY <1>1
    <2> QED
      BY <1>6, <2>1 DEF IsParent, GroupRef, BodyRef
  <1> HIDE DEF linked, self, n
  <1>8. CASE ~c.image
    <2>1. e = l
      BY <1>3, <1>4, <1>8
    <2> QED
      BY <1>1, <1>5, <1>8, <2>1 DEF n, self, Chaptered
  <1>9. CASE c.image
    <2>1. e = AddPicture(l, self, c.href)
      BY <1>3, <1>4, <1>9
    <2>2. /\ Linked(e) /\ HasFields(e)
          /\ e.outline = l.outline /\ e.media = l.media
          /\ e.name = l.name /\ e.binary_hash = l.binary_hash /\ e.source_meta = l.source_meta
          /\ e.body.meta = l.body.meta
          /\ Len(e.groups) = Len(l.groups) /\ DOMAIN e.groups = DOMAIN l.groups
          /\ \A i \in DOMAIN l.groups :
               e.groups[i].name = l.groups[i].name /\ e.groups[i].cues = l.groups[i].cues
          /\ \E p \in PictureItem : /\ e.pictures = Append(l.pictures, p) /\ p.uri = c.href
                                    /\ p.cover = (cover_href # Empty /\ c.href = cover_href)
          /\ e.body.children = IF self = BodyRef THEN Append(l.body.children, PictureRef(Len(l.pictures)))
                               ELSE l.body.children
      <3>1. Linked(l) /\ HasFields(l) /\ IsParent(l, self)
        BY <1>5, <1>7
      <3>2. PICK href \in Hrefs : href = c.href
        OBVIOUS
      <3>3. e = AddPicture(l, self, href)
        BY <2>1, <3>2
      <3>4. Pictured(l, e, self, href)
        BY <3>1, <3>3, PictureAdded
      <3> QED
        BY <3>2, <3>4 DEF Pictured
    <2>3. /\ \A i \in DOMAIN d.groups :
                e.groups[i].name = d.groups[i].name /\ e.groups[i].cues = d.groups[i].cues
          /\ e.groups[n + 1].name = c.href /\ e.groups[n + 1].cues = 0
      BY <1>5, <1>6, <2>2
    <2>4. \E p \in PictureItem : /\ e.pictures = Append(d.pictures, p) /\ p.uri = c.href
                                 /\ p.cover = (cover_href # Empty /\ c.href = cover_href)
      BY <1>5, <2>2
    <2> QED
      BY <1>1, <1>5, <1>7, <1>9, <2>2, <2>3, <2>4 DEF n, self, Chaptered
  <1> QED
    BY <1>8, <1>9
-----------------------------------------------------------------------------
(* The walk of a table of contents: that its recursion defines it.         *)

IsToc(toc) == toc \in Seq(NavPoint) /\ \A i \in DOMAIN toc : toc[i].parent < i

\* The entries below entry i, when f says what is below each of them: the
\* lists so far, and the function they are.
ChildrenTo(toc, f, i, m, g) ==
    g = [j \in 0..m |->
            IF j = 0 THEN <<>>
            ELSE IF toc[j].parent = i THEN g[j - 1] \o <<j>> \o f[j]
            ELSE g[j - 1]]
ChildrenOf(toc, f, i) == CHOOSE g : ChildrenTo(toc, f, i, Len(toc), g)
IsBelow(toc, f) == f = [i \in 0..Len(toc) |-> ChildrenOf(toc, f, i)[Len(toc)]]
BelowOf(toc) == CHOOSE f : IsBelow(toc, f)

\* This is the walk of the specification.
LEMMA WalkIs == \A toc : Walk(toc) = BelowOf(toc)[0]
  BY DEF Walk, BelowOf, IsBelow, ChildrenOf, ChildrenTo

\* What a table of contents is made of.
LEMMA TocType ==
    ASSUME NEW toc, IsToc(toc)
    PROVE  /\ Len(toc) \in Nat /\ DOMAIN toc = 1..Len(toc)
           /\ \A j \in 1..Len(toc) : toc[j].parent \in Nat /\ toc[j].parent < j
  <1>1. Len(toc) \in Nat /\ DOMAIN toc = 1..Len(toc) /\ \A j \in DOMAIN toc : toc[j] \in NavPoint /\ toc[j].parent < j
    BY DEF IsToc
  <1>2. \A j \in DOMAIN toc : toc[j].parent \in Nat
    BY <1>1 DEF NavPoint
  <1> QED
    BY <1>1, <1>2

\* The inner recursion has a solution.
LEMMA ChildrenExist ==
    ASSUME NEW toc, NEW f, NEW i, NEW n \in Nat
    PROVE  \E g : ChildrenTo(toc, f, i, n, g)
  <1> DEFINE bad == {m \in Nat : ~ \E g : ChildrenTo(toc, f, i, m, g)}
  <1> SUFFICES ASSUME bad # {} PROVE FALSE
    OBVIOUS
  <1>1. PICK m \in bad : \A y \in bad : m <= y
    <2>1. bad \in SUBSET Nat
      OBVIOUS
    <2> HIDE DEF bad
    <2> QED
      BY <2>1, LeastNumber
  <1>2. m \in Nat /\ ~ \E g : ChildrenTo(toc, f, i, m, g)
    BY <1>1
  <1>3. CASE m = 0
    <2> DEFINE g == [j \in 0..m |-> <<>>]
    <2>1. \A j \in 0..m : j = 0
      BY <1>3
    <2>2. ChildrenTo(toc, f, i, m, g)
      BY <2>1 DEF ChildrenTo
    <2> QED
      BY <1>2, <2>2
  <1>4. CASE m # 0
    <2>1. m - 1 \in Nat /\ ~(m <= m - 1)
      BY <1>2, <1>4
    <2>2. PICK h : ChildrenTo(toc, f, i, m - 1, h)
      BY <1>1, <2>1
    <2>3. /\ DOMAIN h = 0..m - 1
          /\ \A j \in 0..m - 1 : h[j] = IF j = 0 THEN <<>>
                                        ELSE IF toc[j].parent = i THEN h[j - 1] \o <<j>> \o f[j]
                                        ELSE h[j - 1]
      BY <2>2 DEF ChildrenTo
    <2> DEFINE last == IF toc[m].parent = i THEN h[m - 1] \o <<m>> \o f[m] ELSE h[m - 1]
               g == [j \in 0..m |-> IF j = m THEN last ELSE h[j]]
    <2>4. ASSUME NEW j \in 0..m
          PROVE  g[j] = IF j = 0 THEN <<>>
                        ELSE IF toc[j].parent = i THEN g[j - 1] \o <<j>> \o f[j]
                        ELSE g[j - 1]
      <3>1. CASE j = m
        <4>1. j - 1 \in 0..m /\ j - 1 # m
          BY <1>2, <1>4, <3>1
        <4>2. g[j - 1] = h[m - 1] /\ g[j] = last
          BY <3>1, <4>1
        <4> QED
          BY <1>4, <3>1, <4>2
      <3>2. CASE j = 0
        <4>1. 0 \in 0..m - 1
          BY <2>1
        <4>2. g[j] = h[0] /\ h[0] = <<>>
          BY <1>4, <2>3, <3>2, <4>1
        <4> QED
          BY <3>2, <4>2
      <3>3. CASE j # m /\ j # 0
        <4>1. j \in 0..m - 1 /\ j - 1 \in 0..m /\ j - 1 # m
          BY <1>2, <3>3
        <4>2. g[j] = h[j] /\ g[j - 1] = h[j - 1]
          BY <3>3, <4>1
        <4>3. h[j] = IF toc[j].parent = i THEN h[j - 1] \o <<j>> \o f[j] ELSE h[j - 1]
          BY <2>3, <3>3, <4>1
        <4> QED
          BY <3>3, <4>2, <4>3
      <3> QED
        BY <3>1, <3>2, <3>3
    <2>5. DOMAIN g = 0..m /\ g = [j \in 0..m |-> g[j]]
      OBVIOUS
    <2>6. ChildrenTo(toc, f, i, m, g)
      <3> HIDE DEF g
      <3> QED
        BY <2>4, <2>5 DEF ChildrenTo
    <2> QED
      BY <1>2, <2>6
  <1> QED
    BY <1>3, <1>4

\* What the inner recursion computes.
IsChildren(toc, f, i, c) ==
    /\ c[0] = <<>>
    /\ \A j \in 1..Len(toc) :
         /\ toc[j].parent = i => c[j] = c[j - 1] \o <<j>> \o f[j]
         /\ toc[j].parent # i => c[j] = c[j - 1]

\* The inner recursion computes it.
LEMMA ChildrenAre ==
    ASSUME NEW toc, IsToc(toc), NEW f, NEW i, NEW c, c = ChildrenOf(toc, f, i)
    PROVE  IsChildren(toc, f, i, c)
  <1>1. Len(toc) \in Nat
    BY TocType
  <1>2. ChildrenTo(toc, f, i, Len(toc), c)
    BY <1>1, ChildrenExist DEF ChildrenOf
  <1>3. 0 \in 0..Len(toc) /\ \A j \in 1..Len(toc) : j \in 0..Len(toc) /\ j # 0
    BY <1>1
  <1>4. \A j \in 0..Len(toc) : c[j] = IF j = 0 THEN <<>>
                                      ELSE IF toc[j].parent = i THEN c[j - 1] \o <<j>> \o f[j]
                                      ELSE c[j - 1]
    BY <1>2 DEF ChildrenTo
  <1> QED
    BY <1>3, <1>4 DEF IsChildren

\* It depends on what is below the children only.
LEMMA ChildrenSame ==
    ASSUME NEW toc, IsToc(toc), NEW f, NEW h, NEW i,
           \A j \in 1..Len(toc) : toc[j].parent = i => f[j] = h[j]
    PROVE  ChildrenOf(toc, f, i)[Len(toc)] = ChildrenOf(toc, h, i)[Len(toc)]
  <1>1. PICK c, d : c = ChildrenOf(toc, f, i) /\ d = ChildrenOf(toc, h, i)
    OBVIOUS
  <1>2. IsChildren(toc, f, i, c) /\ IsChildren(toc, h, i, d)
    BY <1>1, ChildrenAre
  <1>3. /\ c[0] = <<>> /\ d[0] = <<>>
        /\ \A j \in 1..Len(toc) :
             /\ toc[j].parent = i => c[j] = c[j - 1] \o <<j>> \o f[j]
             /\ toc[j].parent # i => c[j] = c[j - 1]
             /\ toc[j].parent = i => d[j] = d[j - 1] \o <<j>> \o h[j]
             /\ toc[j].parent # i => d[j] = d[j - 1]
    BY <1>2 DEF IsChildren
  <1> DEFINE n == Len(toc)
             bad == {m \in Nat : m <= n /\ c[m] # d[m]}
  <1> SUFFICES ASSUME c[n] # d[n] PROVE FALSE
    BY <1>1
  <1>4. n \in Nat
    BY TocType
  <1>5. PICK m \in bad : \A y \in bad : m <= y
    <2>1. bad \in SUBSET Nat /\ n \in bad
      BY <1>4
    <2> HIDE DEF bad
    <2> QED
      BY <2>1, LeastNumber
  <1>6. m \in Nat /\ m <= n /\ c[m] # d[m]
    BY <1>5
  <1> HIDE DEF n
  <1>7. m \in 1..n /\ m - 1 \in Nat /\ m - 1 <= n /\ ~(m <= m - 1)
    <2>1. m # 0
      BY <1>3, <1>6
    <2> QED
      BY <1>4, <1>6, <2>1
  <1>8. c[m - 1] = d[m - 1]
    BY <1>5, <1>7
  <1>9. toc[m].parent = i => f[m] = h[m]
    BY <1>7 DEF n
  <1> QED
    BY <1>3, <1>6, <1>7, <1>8, <1>9 DEF n

\* The outer recursion has a solution too.
LEMMA BelowIs ==
    ASSUME NEW toc, IsToc(toc)
    PROVE  \A i \in 0..Len(toc) : BelowOf(toc)[i] = ChildrenOf(toc, BelowOf(toc), i)[Len(toc)]
  <1> DEFINE n == Len(toc)
             Solves(f, k) == f[k] = ChildrenOf(toc, f, k)[n]
             bad == {m \in Nat : m <= n /\ ~ \E f : \A k \in n - m..n : Solves(f, k)}
  <1>1. n \in Nat /\ \A j \in 1..n : toc[j].parent \in Nat /\ toc[j].parent < j
    BY TocType
  <1>2. bad = {}
    <2> SUFFICES ASSUME bad # {} PROVE FALSE
      OBVIOUS
    <2>1. PICK m \in bad : \A y \in bad : m <= y
      <3>1. bad \in SUBSET Nat
        OBVIOUS
      <3> HIDE DEF bad
      <3> QED
        BY <3>1, LeastNumber
    <2>2. m \in Nat /\ m <= n /\ ~ \E f : \A k \in n - m..n : Solves(f, k)
      BY <2>1
    <2> HIDE DEF n
    <2>3. PICK f : \A k \in n - m + 1..n : Solves(f, k)
      <3>1. CASE m = 0
        <4>1. \A k \in n - m + 1..n : FALSE
          BY <1>1, <3>1
        <4> QED
          BY <4>1
      <3>2. CASE m # 0
        <4>1. m - 1 \in Nat /\ m - 1 <= n /\ ~(m <= m - 1) /\ n - (m - 1) = n - m + 1
          BY <1>1, <2>2, <3>2
        <4>2. \E f : \A k \in n - (m - 1)..n : Solves(f, k)
          <5> HIDE DEF Solves
          <5> QED
            BY <2>1, <4>1
        <4> QED
          BY <4>1, <4>2
      <3> QED
        BY <3>1, <3>2
    <2>4. n \in Nat /\ m \in Nat /\ m <= n
      BY <1>1, <2>2 DEF n
    <2> DEFINE i == n - m
               g == [k \in 0..n |-> IF k > i THEN f[k] ELSE ChildrenOf(toc, f, i)[n]]
    <2>5. ASSUME NEW k \in i..n PROVE Solves(g, k)
      <3>1. \A j \in 1..n : toc[j].parent = k => f[j] = g[j]
        <4> SUFFICES ASSUME NEW j \in 1..n, toc[j].parent = k PROVE f[j] = g[j]
          OBVIOUS
        <4>1. j \in 0..n /\ j > i
          <5>1. toc[j].parent < j
            BY <1>1
          <5>2. toc[j].parent = k
            OBVIOUS
          <5>3. k < j /\ j \in Nat /\ j <= n
            BY <2>4, <5>1, <5>2
          <5>4. k \in Int /\ i <= k /\ i \in Int
            BY <2>4
          <5> HIDE DEF i
          <5> QED
            BY <5>3, <5>4
        <4> QED
          BY <4>1
      <3>2. ChildrenOf(toc, f, k)[n] = ChildrenOf(toc, g, k)[n]
        <4> HIDE DEF g
        <4> QED
          BY <3>1, ChildrenSame DEF n
      <3>3. k \in 0..n /\ (k > i => k \in n - m + 1..n) /\ (~(k > i) => k = i)
        BY <2>4
      <3>4. g[k] = ChildrenOf(toc, f, k)[n]
        BY <2>3, <3>3
      <3> HIDE DEF g
      <3> QED
        BY <3>2, <3>4
    <2> HIDE DEF Solves, g
    <2> QED
      BY <2>2, <2>5
  <1>3. PICK f : \A k \in 0..n : Solves(f, k)
    <2>1. n <= n /\ n - n = 0
      BY <1>1
    <2> HIDE DEF Solves
    <2> QED
      BY <1>1, <1>2, <2>1
  <1> DEFINE g == [k \in 0..n |-> f[k]]
  <1>4. IsBelow(toc, g)
    <2>1. ASSUME NEW k \in 0..n PROVE g[k] = ChildrenOf(toc, g, k)[n]
      <3>1. \A j \in 1..n : f[j] = g[j]
        BY <1>1
      <3>2. ChildrenOf(toc, f, k)[n] = ChildrenOf(toc, g, k)[n]
        <4> HIDE DEF g
        <4> QED
          BY <3>1, ChildrenSame DEF n
      <3>3. g[k] = ChildrenOf(toc, f, k)[n]
        BY <1>3
      <3> HIDE DEF g
      <3> QED
        BY <3>2, <3>3
    <2>2. g = [k \in 0..n |-> g[k]]
      OBVIOUS
    <2> HIDE DEF g
    <2> QED
      BY <2>1, <2>2 DEF IsBelow
  <1>5. IsBelow(toc, BelowOf(toc))
    <2> HIDE DEF g
    <2> QED
      BY <1>4 DEF BelowOf
  <1> QED
    BY <1>5 DEF IsBelow

\* Two lists, one after the other.
LEMMA Joined ==
    ASSUME NEW S, NEW s \in Seq(S), NEW t \in Seq(S), NEW u, u = s \o t
    PROVE  /\ u \in Seq(S) /\ Len(u) = Len(s) + Len(t) /\ Len(s) \in Nat
           /\ DOMAIN s \subseteq Nat /\ DOMAIN t \subseteq Nat /\ DOMAIN u \subseteq Nat
           /\ \A a \in DOMAIN s : a \in DOMAIN u /\ u[a] = s[a] /\ a <= Len(s)
           /\ \A b \in DOMAIN t : b + Len(s) \in DOMAIN u /\ u[b + Len(s)] = t[b]
           /\ \A c \in DOMAIN u :
                \/ c \in DOMAIN s /\ u[c] = s[c] /\ c <= Len(s)
                \/ c - Len(s) \in DOMAIN t /\ u[c] = t[c - Len(s)] /\ c > Len(s)
  <1>1. /\ Len(s) \in Nat /\ Len(t) \in Nat /\ DOMAIN s = 1..Len(s) /\ DOMAIN t = 1..Len(t)
        /\ u \in Seq(S) /\ Len(u) = Len(s) + Len(t) /\ DOMAIN u = 1..Len(s) + Len(t)
        /\ \A i \in 1..Len(s) + Len(t) : u[i] = IF i <= Len(s) THEN s[i] ELSE t[i - Len(s)]
    OBVIOUS
  <1>2. \A a \in DOMAIN s : a \in DOMAIN u /\ u[a] = s[a] /\ a <= Len(s)
    BY <1>1
  <1>3. ASSUME NEW b \in DOMAIN t PROVE b + Len(s) \in DOMAIN u /\ u[b + Len(s)] = t[b]
    <2>1. b + Len(s) \in DOMAIN u /\ ~(b + Len(s) <= Len(s)) /\ (b + Len(s)) - Len(s) = b
      BY <1>1
    <2> QED
      BY <1>1, <2>1
  <1>4. ASSUME NEW c \in DOMAIN u
        PROVE  \/ c \in DOMAIN s /\ u[c] = s[c] /\ c <= Len(s)
               \/ c - Len(s) \in DOMAIN t /\ u[c] = t[c - Len(s)] /\ c > Len(s)
    BY <1>1
  <1> QED
    BY <1>1, <1>2, <1>3, <1>4

\* What joined lists name.
LEMMA JoinedNames ==
    ASSUME NEW S, NEW s \in Seq(S), NEW t \in Seq(S), NEW u, u = s \o t
    PROVE  /\ u \in Seq(S)
           /\ \A r : Names(u, r) <=> Names(s, r) \/ Names(t, r)
           /\ Once(s) /\ Once(t) /\ (\A r : ~(Names(s, r) /\ Names(t, r))) => Once(u)
  <1>1. /\ u \in Seq(S) /\ Len(s) \in Nat
        /\ DOMAIN s \subseteq Nat /\ DOMAIN t \subseteq Nat /\ DOMAIN u \subseteq Nat
        /\ \A a \in DOMAIN s : a \in DOMAIN u /\ u[a] = s[a] /\ a <= Len(s)
        /\ \A b \in DOMAIN t : b + Len(s) \in DOMAIN u /\ u[b + Len(s)] = t[b]
        /\ \A c \in DOMAIN u :
             \/ c \in DOMAIN s /\ u[c] = s[c] /\ c <= Len(s)
             \/ c - Len(s) \in DOMAIN t /\ u[c] = t[c - Len(s)] /\ c > Len(s)
    BY Joined
  <1>2. ASSUME NEW r PROVE Names(u, r) <=> Names(s, r) \/ Names(t, r)
    <2>1. Names(s, r) => Names(u, r)
      BY <1>1 DEF Names
    <2>2. ASSUME NEW b \in DOMAIN t, t[b] = r PROVE Names(u, r)
      BY <1>1, <2>2 DEF Names
    <2>3. Names(u, r) => Names(s, r) \/ Names(t, r)
      BY <1>1 DEF Names
    <2> QED
      BY <2>1, <2>2, <2>3 DEF Names
  <1>3. ASSUME Once(s), Once(t), \A r : ~(Names(s, r) /\ Names(t, r)) PROVE Once(u)
    <2> SUFFICES ASSUME NEW a \in DOMAIN u, NEW b \in DOMAIN u, u[a] = u[b] PROVE a = b
      BY DEF Once
    <2>1. CASE a \in DOMAIN s /\ u[a] = s[a] /\ b \in DOMAIN s /\ u[b] = s[b]
      BY <1>3, <2>1 DEF Once
    <2>2. CASE a \in DOMAIN s /\ u[a] = s[a] /\ b - Len(s) \in DOMAIN t /\ u[b] = t[b - Len(s)]
      BY <1>3, <2>2 DEF Names
    <2>3. CASE b \in DOMAIN s /\ u[b] = s[b] /\ a - Len(s) \in DOMAIN t /\ u[a] = t[a - Len(s)]
      BY <1>3, <2>3 DEF Names
    <2>4. CASE a - Len(s) \in DOMAIN t /\ u[a] = t[a - Len(s)] /\ b - Len(s) \in DOMAIN t /\ u[b] = t[b - Len(s)]
      <3>1. a - Len(s) = b - Len(s)
        BY <1>3, <2>4 DEF Once
      <3>2. a \in Nat /\ b \in Nat /\ Len(s) \in Nat
        BY <1>1
      <3> QED
        BY <3>1, <3>2
    <2> QED
      BY <1>1, <2>1, <2>2, <2>3, <2>4
  <1> QED
    BY <1>1, <1>2, <1>3

\* A parent comes before its children, and siblings keep their order.
Before(toc, x, y) == x = toc[y].parent \/ (x < y /\ toc[x].parent = toc[y].parent)
Follows(toc, s) == \A a, b \in DOMAIN s : Before(toc, s[a], s[b]) => a < b

\* Joined lists are in order when nothing of the second comes before any of the first.
LEMMA JoinedFollows ==
    ASSUME NEW toc, NEW S, NEW s \in Seq(S), NEW t \in Seq(S), Follows(toc, s), Follows(toc, t),
           \A x, y : Names(t, x) /\ Names(s, y) => ~Before(toc, x, y)
    PROVE  Follows(toc, s \o t)
  <1>1. PICK u : u = s \o t
    OBVIOUS
  <1>2. /\ u \in Seq(S) /\ Len(s) \in Nat
        /\ DOMAIN s \subseteq Nat /\ DOMAIN t \subseteq Nat /\ DOMAIN u \subseteq Nat
        /\ \A c \in DOMAIN u :
             \/ c \in DOMAIN s /\ u[c] = s[c] /\ c <= Len(s)
             \/ c - Len(s) \in DOMAIN t /\ u[c] = t[c - Len(s)] /\ c > Len(s)
    BY <1>1, Joined
  <1>3. ASSUME NEW a \in DOMAIN u, NEW b \in DOMAIN u, Before(toc, u[a], u[b]) PROVE a < b
    <2>1. a \in Nat /\ b \in Nat /\ Len(s) \in Nat
      BY <1>2
    <2>2. CASE a \in DOMAIN s /\ u[a] = s[a] /\ b \in DOMAIN s /\ u[b] = s[b]
      BY <1>3, <2>2 DEF Follows
    <2>3. CASE a <= Len(s) /\ b > Len(s)
      BY <2>1, <2>3
    <2>4. CASE b \in DOMAIN s /\ u[b] = s[b] /\ a - Len(s) \in DOMAIN t /\ u[a] = t[a - Len(s)]
      <3>1. Names(t, u[a]) /\ Names(s, u[b])
        BY <2>4 DEF Names
      <3> QED
        BY <1>3, <3>1
    <2>5. CASE a - Len(s) \in DOMAIN t /\ u[a] = t[a - Len(s)] /\ b - Len(s) \in DOMAIN t /\ u[b] = t[b - Len(s)]
      <3>1. a - Len(s) < b - Len(s)
        BY <1>3, <2>5 DEF Follows
      <3> QED
        BY <2>1, <3>1
    <2> QED
      BY <1>2, <2>2, <2>3, <2>4, <2>5
  <1> QED
    BY <1>1, <1>3 DEF Follows

\* A list of what is below entry i: all of it, once, in order.
ListsBelow(toc, i, s) ==
    /\ s \in Seq(i + 1..Len(toc))
    /\ Once(s)
    /\ \A x \in 1..Len(toc) : Names(s, x) <=> toc[x].parent = i \/ Names(s, toc[x].parent)
    /\ Follows(toc, s)

InBranch(k, s, x) == x = k \/ Names(s, x)

\* What a list of numbers names is one of them.
LEMMA NamesType ==
    ASSUME NEW S, NEW s \in Seq(S), NEW x, Names(s, x)
    PROVE  x \in S
  BY DEF Names

\* No entry is in the branches of two siblings.
LEMMA BranchesApart ==
    ASSUME NEW toc, IsToc(toc), NEW i \in Nat,
           NEW j \in 1..Len(toc), NEW k \in 1..Len(toc), j # k, toc[j].parent = i, toc[k].parent = i,
           NEW s, NEW t, ListsBelow(toc, j, s), ListsBelow(toc, k, t)
    PROVE  \A x : ~(InBranch(j, s, x) /\ InBranch(k, t, x))
  <1> DEFINE n == Len(toc)
             shared == {x \in 1..n : InBranch(j, s, x) /\ InBranch(k, t, x)}
  <1>1. n \in Nat /\ \A x \in 1..n : toc[x].parent \in Nat /\ toc[x].parent < x
    BY TocType
  <1>2. i < j /\ i < k /\ j \in 1..n /\ k \in 1..n
    BY <1>1
  <1>3. \A x : InBranch(j, s, x) => x \in j..n
    <2>1. s \in Seq(j + 1..n)
      BY DEF ListsBelow
    <2>2. \A x : Names(s, x) => x \in j + 1..n
      <3> HIDE DEF n
      <3> QED
        BY <2>1, NamesType
    <2> QED
      BY <1>1, <1>2, <2>2 DEF InBranch
  <1>4. \A x : InBranch(k, t, x) => x \in k..n
    <2>1. t \in Seq(k + 1..n)
      BY DEF ListsBelow
    <2>2. \A x : Names(t, x) => x \in k + 1..n
      <3> HIDE DEF n
      <3> QED
        BY <2>1, NamesType
    <2> QED
      BY <1>1, <1>2, <2>2 DEF InBranch
  <1>5. shared = {}
    <2> SUFFICES ASSUME shared # {} PROVE FALSE
      OBVIOUS
    <2>1. PICK x \in shared : \A y \in shared : x <= y
      <3>1. shared \in SUBSET Nat
        BY <1>1
      <3> HIDE DEF shared
      <3> QED
        BY <3>1, LeastNumber
    <2>2. x \in 1..n /\ InBranch(j, s, x) /\ InBranch(k, t, x)
      BY <2>1
    <2> DEFINE p == toc[x].parent
    <2>3. p \in Nat /\ p < x /\ x \in Nat
      BY <1>1, <2>2
    <2>4. x = j \/ InBranch(j, s, p)
      BY <2>2 DEF InBranch, ListsBelow
    <2>5. x = k \/ InBranch(k, t, p)
      BY <2>2 DEF InBranch, ListsBelow
    <2> HIDE DEF p, n, shared
    <2>6. CASE x = j
      <3>1. p = i /\ InBranch(k, t, i)
        BY <2>5, <2>6 DEF p
      <3> QED
        BY <1>1, <1>2, <1>4, <3>1
    <2>7. CASE x = k
      <3>1. p = i /\ InBranch(j, s, i)
        BY <2>4, <2>7 DEF p
      <3> QED
        BY <1>1, <1>2, <1>3, <3>1
    <2>8. CASE x # j /\ x # k
      <3>1. InBranch(j, s, p) /\ InBranch(k, t, p) /\ p \in j..n
        BY <1>3, <2>4, <2>5, <2>8
      <3>2. p \in 1..n
        BY <1>1, <1>2, <3>1
      <3>3. p \in shared
        BY <3>1, <3>2 DEF shared, n
      <3> QED
        BY <2>1, <2>3, <3>3
    <2> QED
      BY <2>6, <2>7, <2>8
  <1>6. \A x : InBranch(j, s, x) => x \in 1..n
    BY <1>1, <1>2, <1>3
  <1> QED
    BY <1>5, <1>6

\* The list of the branches of the first j entries.
ListsTo(toc, b, i, j, c) ==
    /\ c \in Seq(i + 1..Len(toc))
    /\ Once(c)
    /\ \A x : Names(c, x) <=> \E k \in 1..j : toc[k].parent = i /\ InBranch(k, b[k], x)
    /\ Follows(toc, c)

\* Joining is associative.
LEMMA ThreeJoined ==
    ASSUME NEW S, NEW s \in Seq(S), NEW t \in Seq(S), NEW u \in Seq(S)
    PROVE  (s \o t) \o u = s \o (t \o u)
  BY ConcatAssociative

\* One more branch at the end of the list.
LEMMA BranchListed ==
    ASSUME NEW toc, IsToc(toc), NEW b, NEW i \in 0..Len(toc),
           \A k \in i + 1..Len(toc) : ListsBelow(toc, k, b[k]),
           NEW j \in 1..Len(toc), NEW c, ListsTo(toc, b, i, j - 1, c), toc[j].parent = i
    PROVE  ListsTo(toc, b, i, j, c \o <<j>> \o b[j])
  <1> DEFINE n == Len(toc)
             S == i + 1..n
             v == <<j>> \o b[j]
             u == c \o <<j>> \o b[j]
  <1>1. n \in Nat /\ \A x \in 1..n : toc[x].parent \in Nat /\ toc[x].parent < x
    BY TocType
  <1>2. i \in Nat /\ j \in S /\ j \in Nat /\ i < j /\ j \in 1..n
    BY <1>1
  <1>3. c \in Seq(S) /\ Once(c) /\ Follows(toc, c)
    BY DEF ListsTo
  <1>4. b[j] \in Seq(j + 1..n) /\ Once(b[j]) /\ Follows(toc, b[j])
        /\ \A x \in 1..n : Names(b[j], x) <=> toc[x].parent = j \/ Names(b[j], toc[x].parent)
    BY <1>2 DEF ListsBelow
  <1>5. b[j] \in Seq(S)
    <2>1. j + 1..n \subseteq S
      BY <1>1, <1>2
    <2> HIDE DEF n, S
    <2> QED
      BY <1>4, <2>1, SeqMonotonic
  <1>6. <<j>> \in Seq(S) /\ Once(<<j>>) /\ (\A x : Names(<<j>>, x) <=> x = j) /\ Follows(toc, <<j>>)
    <2>1. <<j>> \in Seq(S) /\ DOMAIN <<j>> = {1} /\ <<j>>[1] = j
      <3> HIDE DEF S
      <3> QED
        BY <1>2
    <2>2. ~Before(toc, j, j)
      <3>1. toc[j].parent < j /\ toc[j].parent \in Nat
        BY <1>1
      <3> QED
        BY <1>2, <3>1 DEF Before
    <2> QED
      BY <2>1, <2>2 DEF Once, Names, Follows
  <1>7. \A x : Names(b[j], x) => x \in j + 1..n
    <2> HIDE DEF n
    <2> QED
      BY <1>4, NamesType
  <1>8. v \in Seq(S) /\ Once(v) /\ \A x : Names(v, x) <=> InBranch(j, b[j], x)
    <2>1. \A x : ~(Names(<<j>>, x) /\ Names(b[j], x))
      BY <1>1, <1>2, <1>6, <1>7
    <2> HIDE DEF S, n
    <2>2. PICK w, t : w = <<j>> /\ t = b[j] /\ w \in Seq(S) /\ t \in Seq(S)
      BY <1>5, <1>6
    <2>3. Once(w) /\ Once(t) /\ (\A x : ~(Names(w, x) /\ Names(t, x))) /\ \A x : Names(w, x) <=> x = j
      BY <1>4, <1>6, <2>1, <2>2
    <2>4. w \o t \in Seq(S) /\ Once(w \o t) /\ \A x : Names(w \o t, x) <=> Names(w, x) \/ Names(t, x)
      <3>1. w \in Seq(S) /\ t \in Seq(S)
        BY <2>2
      <3>2. Once(w) /\ Once(t) /\ (\A x : ~(Names(w, x) /\ Names(t, x)))
        BY <2>3
      <3> QED
        BY <3>1, <3>2, JoinedNames
    <2>5. v = w \o t
      BY <2>2
    <2> HIDE DEF v
    <2> QED
      BY <2>2, <2>3, <2>4, <2>5 DEF InBranch
  <1>9. \A x : InBranch(j, b[j], x) => x \in j..n /\ x \in 1..n /\ x \in Nat /\ (x = j \/ InBranch(j, b[j], toc[x].parent))
    <2> SUFFICES ASSUME NEW x, InBranch(j, b[j], x)
                 PROVE  x \in j..n /\ x \in 1..n /\ x \in Nat /\ (x = j \/ InBranch(j, b[j], toc[x].parent))
      OBVIOUS
    <2>1. x \in j..n
      BY <1>1, <1>2, <1>7 DEF InBranch
    <2>2. x \in 1..n /\ x \in Nat
      BY <1>1, <1>2, <2>1
    <2>3. x = j \/ InBranch(j, b[j], toc[x].parent)
      BY <1>4, <2>2 DEF InBranch
    <2> QED
      BY <2>1, <2>2, <2>3
  <1>10. Follows(toc, v)
    <2>1. ASSUME NEW x, NEW y, Names(b[j], x), Names(<<j>>, y) PROVE ~Before(toc, x, y)
      <3>1. y = j /\ x \in j + 1..n /\ toc[y].parent = i
        BY <1>6, <1>7, <2>1
      <3>2. x \in Nat /\ i < x /\ j < x
        BY <1>1, <1>2, <3>1
      <3> QED
        BY <1>2, <3>1, <3>2 DEF Before
    <2> HIDE DEF S, n
    <2> QED
      BY <1>4, <1>5, <1>6, <2>1, JoinedFollows
  <1>11. \A x : Names(c, x) => /\ x \in S /\ x \in 1..n
                               /\ \E k \in 1..j - 1 : toc[k].parent = i /\ InBranch(k, b[k], x)
    <2>1. \A x : Names(c, x) => \E k \in 1..j - 1 : toc[k].parent = i /\ InBranch(k, b[k], x)
      BY DEF ListsTo
    <2>2. \A x : Names(c, x) => x \in S
      <3> HIDE DEF S
      <3> QED
        BY <1>3, NamesType
    <2>3. \A x \in S : x \in 1..n
      BY <1>1, <1>2
    <2> HIDE DEF S
    <2> QED
      BY <2>1, <2>2, <2>3
  <1>12. ASSUME NEW x, NEW y, Names(v, x), Names(c, y)
         PROVE  x # y /\ ~Before(toc, x, y)
    <2>1. PICK k \in 1..j - 1 : toc[k].parent = i /\ InBranch(k, b[k], y)
      BY <1>11, <1>12
    <2>2. k \in 1..n /\ k # j /\ k < j /\ k \in Nat /\ k \in i + 1..n
      <3>1. k \in 1..n /\ k # j /\ k < j /\ k \in Nat
        BY <1>1, <1>2
      <3>2. i < k
        BY <1>1, <2>1, <3>1
      <3> QED
        BY <1>1, <1>2, <3>1, <3>2
    <2>3. InBranch(j, b[j], x)
      BY <1>8, <1>12
    <2>4. ListsBelow(toc, k, b[k]) /\ ListsBelow(toc, j, b[j])
      BY <1>2, <2>2
    <2>5. \A z : ~(InBranch(j, b[j], z) /\ InBranch(k, b[k], z))
      <3> HIDE DEF n
      <3>1. k \in 1..Len(toc)
        BY <2>2 DEF n
      <3> QED
        BY <1>2, <2>1, <2>2, <2>4, <3>1, BranchesApart
    <2>6. y = k \/ InBranch(k, b[k], toc[y].parent)
      <3>1. y \in 1..n
        BY <1>11, <1>12
      <3> QED
        BY <2>1, <2>4, <3>1 DEF InBranch, ListsBelow
    <2>7. x # y
      BY <2>1, <2>3, <2>5
    <2>8. x \in j..n /\ x \in Nat /\ (x = j \/ InBranch(j, b[j], toc[x].parent))
      BY <1>9, <2>3
    <2>9. x # toc[y].parent
      <3>1. x # i
        BY <1>1, <1>2, <2>8
      <3> QED
        BY <2>1, <2>3, <2>5, <2>6, <3>1
    <2>10. ~(x < y /\ toc[x].parent = toc[y].parent)
      <3> SUFFICES ASSUME x < y, toc[x].parent = toc[y].parent PROVE FALSE
        OBVIOUS
      <3>1. \A z : InBranch(k, b[k], z) => z \in k..n
        <4>1. b[k] \in Seq(k + 1..n)
          BY <2>4 DEF ListsBelow
        <4>2. \A z : Names(b[k], z) => z \in k + 1..n
          <5> HIDE DEF n
          <5> QED
            BY <4>1, NamesType
        <4> QED
          BY <1>1, <2>2, <4>2 DEF InBranch
      <3>2. ~InBranch(k, b[k], i) /\ ~InBranch(j, b[j], i)
        <4>1. i < k
          BY <1>1, <2>1, <2>2
        <4> QED
          BY <1>1, <1>2, <1>9, <2>2, <3>1, <4>1
      <3>3. x = j /\ y = k
        <4>1. CASE x = j
          BY <2>6, <3>2, <4>1
        <4>2. CASE InBranch(j, b[j], toc[x].parent)
          BY <2>1, <2>5, <2>6, <3>2, <4>2
        <4> QED
          BY <2>8, <4>1, <4>2
      <3> QED
        BY <1>2, <2>2, <3>3
    <2> QED
      BY <2>7, <2>9, <2>10 DEF Before
  <1>13. u = c \o v
    <2> HIDE DEF S
    <2> QED
      <3>1. PICK w, t : w = <<j>> /\ t = b[j] /\ w \in Seq(S) /\ t \in Seq(S)
        BY <1>5, <1>6
      <3>2. (c \o w) \o t = c \o (w \o t)
        <4>1. PICK T : c \in Seq(T) /\ w \in Seq(T) /\ t \in Seq(T)
          BY <1>3, <3>1
        <4> HIDE DEF v, u, n
        <4> QED
          BY <4>1, ThreeJoined
      <3> QED
        BY <3>1, <3>2
  <1>14. c \o v \in Seq(S) /\ Once(c \o v) /\ \A x : Names(c \o v, x) <=> Names(c, x) \/ Names(v, x)
    <2>1. \A x : ~(Names(c, x) /\ Names(v, x))
      BY <1>12
    <2> HIDE DEF S, v, n
    <2> QED
      BY <1>3, <1>8, <2>1, JoinedNames
  <1>15. Follows(toc, c \o v)
    <2>1. \A x, y : Names(v, x) /\ Names(c, y) => ~Before(toc, x, y)
      BY <1>12
    <2> HIDE DEF S, v, n
    <2> QED
      BY <1>3, <1>8, <1>10, <2>1, JoinedFollows
  <1>16. \A x : Names(c \o v, x) <=> \E k \in 1..j : toc[k].parent = i /\ InBranch(k, b[k], x)
    <2>1. \A k : k \in 1..j <=> k \in 1..j - 1 \/ k = j
      BY <1>2
    <2>2. \A x : Names(c, x) <=> \E k \in 1..j - 1 : toc[k].parent = i /\ InBranch(k, b[k], x)
      BY DEF ListsTo
    <2> HIDE DEF v
    <2> QED
      BY <1>8, <1>14, <2>1, <2>2
  <1> QED
    BY <1>13, <1>14, <1>15, <1>16 DEF ListsTo

\* The inner recursion lists the branches of all children.
LEMMA ChildrenListed ==
    ASSUME NEW toc, IsToc(toc), NEW b, NEW i \in 0..Len(toc),
           \A k \in i + 1..Len(toc) : ListsBelow(toc, k, b[k])
    PROVE  ListsTo(toc, b, i, Len(toc), ChildrenOf(toc, b, i)[Len(toc)])
  <1>1. PICK c : c = ChildrenOf(toc, b, i)
    OBVIOUS
  <1>2. IsChildren(toc, b, i, c)
    BY <1>1, ChildrenAre
  <1> DEFINE n == Len(toc)
             bad == {m \in Nat : m <= n /\ ~ListsTo(toc, b, i, m, c[m])}
  <1>3. n \in Nat /\ i \in Nat
    BY TocType
  <1> SUFFICES ASSUME ~ListsTo(toc, b, i, n, c[n]) PROVE FALSE
    BY <1>1
  <1>4. PICK m \in bad : \A y \in bad : m <= y
    <2>1. bad \in SUBSET Nat /\ n \in bad
      BY <1>3
    <2> HIDE DEF bad
    <2> QED
      BY <2>1, LeastNumber
  <1>5. m \in Nat /\ m <= n /\ ~ListsTo(toc, b, i, m, c[m])
    BY <1>4
  <1>6. ListsTo(toc, b, i, 0, c[0])
    <2>1. c[0] = <<>>
      BY <1>2 DEF IsChildren
    <2>2. c[0] \in Seq(i + 1..Len(toc)) /\ DOMAIN c[0] = {}
      BY <2>1
    <2>3. \A k \in 1..0 : FALSE
      OBVIOUS
    <2>4. (\A x : ~Names(c[0], x)) /\ Once(c[0]) /\ Follows(toc, c[0])
      BY <2>2 DEF Names, Once, Follows
    <2> HIDE DEF n
    <2> QED
      BY <2>2, <2>3, <2>4 DEF ListsTo
  <1>7. m # 0
    BY <1>5, <1>6
  <1> HIDE DEF n
  <1>8. m \in 1..n /\ m - 1 \in Nat /\ m - 1 <= n /\ ~(m <= m - 1)
    BY <1>3, <1>5, <1>7
  <1>9. ListsTo(toc, b, i, m - 1, c[m - 1])
    BY <1>4, <1>8
  <1>10. CASE toc[m].parent = i
    <2>1. c[m] = c[m - 1] \o <<m>> \o b[m]
      BY <1>2, <1>8, <1>10 DEF IsChildren, n
    <2>2. m \in 1..Len(toc)
      BY <1>8 DEF n
    <2>3. PICK d : d = c[m - 1]
      OBVIOUS
    <2>4. ListsTo(toc, b, i, m, d \o <<m>> \o b[m])
      <3>1. ListsTo(toc, b, i, m - 1, d)
        BY <1>9, <2>3
      <3> QED
        BY <1>10, <2>2, <3>1, BranchListed
    <2> QED
      BY <1>5, <2>1, <2>3, <2>4
  <1>11. CASE toc[m].parent # i
    <2>1. c[m] = c[m - 1]
      BY <1>2, <1>8, <1>11 DEF IsChildren, n
    <2>2. \A k : k \in 1..m <=> k \in 1..m - 1 \/ k = m
      BY <1>5, <1>7
    <2>3. ListsTo(toc, b, i, m, c[m])
      BY <1>9, <1>11, <2>1, <2>2 DEF ListsTo
    <2> QED
      BY <1>5, <2>3
  <1> QED
    BY <1>10, <1>11

\* What is listed so is what is below.
LEMMA BelowListed ==
    ASSUME NEW toc, IsToc(toc), NEW b, NEW i \in 0..Len(toc),
           \A k \in i + 1..Len(toc) : ListsBelow(toc, k, b[k]),
           NEW s, ListsTo(toc, b, i, Len(toc), s)
    PROVE  ListsBelow(toc, i, s)
  <1> DEFINE n == Len(toc)
  <1>1. n \in Nat /\ \A x \in 1..n : toc[x].parent \in Nat /\ toc[x].parent < x
    BY TocType
  <1>2. \A x : Names(s, x) <=> \E k \in 1..n : toc[k].parent = i /\ InBranch(k, b[k], x)
    BY DEF ListsTo
  <1>3. ASSUME NEW k \in 1..n, toc[k].parent = i
        PROVE  \A x \in 1..n : Names(b[k], x) <=> toc[x].parent = k \/ Names(b[k], toc[x].parent)
    <2>1. i < k /\ k \in Nat /\ k <= n /\ i \in Nat
      BY <1>1, <1>3
    <2>2. k \in i + 1..n
      <3> HIDE DEF n
      <3> QED
        BY <1>1, <2>1
    <2> QED
      BY <2>2 DEF ListsBelow
  <1>4. ASSUME NEW x \in 1..n, Names(s, x) PROVE toc[x].parent = i \/ Names(s, toc[x].parent)
    <2>1. PICK k \in 1..n : toc[k].parent = i /\ InBranch(k, b[k], x)
      BY <1>2, <1>4
    <2>2. x = k \/ InBranch(k, b[k], toc[x].parent)
      BY <1>3, <2>1 DEF InBranch
    <2> QED
      BY <1>2, <2>1, <2>2
  <1>5. ASSUME NEW x \in 1..n, toc[x].parent = i PROVE Names(s, x)
    BY <1>2, <1>5 DEF InBranch
  <1>6. ASSUME NEW x \in 1..n, Names(s, toc[x].parent) PROVE Names(s, x)
    <2>1. PICK k \in 1..n : toc[k].parent = i /\ InBranch(k, b[k], toc[x].parent)
      BY <1>2, <1>6
    <2>2. InBranch(k, b[k], x)
      BY <1>3, <2>1 DEF InBranch
    <2> QED
      BY <1>2, <2>1, <2>2
  <1>7. s \in Seq(i + 1..n) /\ Once(s) /\ Follows(toc, s)
    BY DEF ListsTo
  <1> QED
    BY <1>4, <1>5, <1>6, <1>7 DEF ListsBelow

\* The walk lists every entry once, a parent before its children, siblings in
\* the order of the table.
THEOREM WalkLists ==
    ASSUME NEW toc, IsToc(toc), NEW w, w = Walk(toc)
    PROVE  /\ Len(toc) \in Nat /\ DOMAIN toc = 1..Len(toc)
           /\ w \in Seq(1..Len(toc)) /\ Len(w) = Len(toc) /\ DOMAIN w = 1..Len(toc)
           /\ Once(w) /\ Follows(toc, w)
  <1> DEFINE n == Len(toc)
  <1>1. PICK b : b = BelowOf(toc)
    OBVIOUS
  <1>2. n \in Nat /\ DOMAIN toc = 1..n /\ \A x \in 1..n : toc[x].parent \in Nat /\ toc[x].parent < x
    BY TocType
  <1>3. \A i \in 0..n : b[i] = ChildrenOf(toc, b, i)[n]
    BY <1>1, BelowIs
  <1> DEFINE bad == {i \in Nat : i <= n /\ ~ListsBelow(toc, i, b[i])}
  <1>4. bad = {}
    <2> SUFFICES ASSUME bad # {} PROVE FALSE
      OBVIOUS
    <2>1. PICK i \in bad : \A y \in bad : i >= y
      <3>1. bad \in SUBSET Nat /\ \A y \in bad : y <= n
        OBVIOUS
      <3> HIDE DEF bad, n
      <3> QED
        BY <1>2, <3>1, GreatestNumber
    <2>2. i \in Nat /\ i <= n /\ ~ListsBelow(toc, i, b[i])
      BY <2>1
    <2>3. ASSUME NEW k \in i + 1..n PROVE ListsBelow(toc, k, b[k])
      <3>1. k \in Nat /\ k <= n /\ ~(i >= k)
        <4> HIDE DEF n, bad
        <4> QED
          BY <1>2, <2>2
      <3> QED
        BY <2>1, <3>1
    <2>4. i \in 0..Len(toc) /\ \A k \in i + 1..Len(toc) : ListsBelow(toc, k, b[k])
      BY <1>2, <2>2, <2>3
    <2>5. PICK s : s = b[i]
      OBVIOUS
    <2>6. ListsTo(toc, b, i, Len(toc), s)
      <3>1. s = ChildrenOf(toc, b, i)[Len(toc)]
        BY <1>3, <2>4, <2>5
      <3>2. ListsTo(toc, b, i, Len(toc), ChildrenOf(toc, b, i)[Len(toc)])
        BY <2>4, ChildrenListed
      <3> QED
        BY <3>1, <3>2
    <2>7. ListsBelow(toc, i, s)
      BY <2>4, <2>6, BelowListed
    <2> QED
      BY <2>2, <2>5, <2>7
  <1>5. ListsBelow(toc, 0, w)
    <2>1. w = b[0]
      BY <1>1, WalkIs
    <2> QED
      BY <1>2, <1>4, <2>1
  <1>6. w \in Seq(1..n) /\ Once(w) /\ Follows(toc, w)
    <2>1. 0 + 1 = 1
      OBVIOUS
    <2> QED
      BY <1>5, <2>1 DEF ListsBelow
  <1>7. \A x \in 1..n : Names(w, x) <=> toc[x].parent = 0 \/ Names(w, toc[x].parent)
    BY <1>5 DEF ListsBelow
  <1> DEFINE lost == {x \in 1..n : ~Names(w, x)}
  <1>8. lost = {}
    <2> SUFFICES ASSUME lost # {} PROVE FALSE
      OBVIOUS
    <2>1. PICK x \in lost : \A y \in lost : x <= y
      <3>1. lost \in SUBSET Nat
        BY <1>2
      <3> HIDE DEF lost
      <3> QED
        BY <3>1, LeastNumber
    <2>2. x \in 1..n /\ ~Names(w, x) /\ toc[x].parent \in Nat /\ toc[x].parent < x
      BY <1>2, <2>1
    <2>3. toc[x].parent # 0 /\ ~Names(w, toc[x].parent)
      BY <1>7, <2>2
    <2>4. toc[x].parent \in 1..n /\ ~(x <= toc[x].parent)
      <3> HIDE DEF n
      <3> QED
        BY <1>2, <2>2, <2>3
    <2> QED
      BY <2>1, <2>3, <2>4
  <1>9. Len(w) \in Nat /\ DOMAIN w = 1..Len(w) /\ w \in [1..Len(w) -> 1..n]
    <2> HIDE DEF n
    <2>1. w \in Seq(1..n)
      BY <1>6
    <2> QED
      BY <2>1, LenProperties
  <1>10. w \in Bijection(1..Len(w), 1..n)
    <2>1. \A x \in 1..n : \E j \in 1..Len(w) : w[j] = x
      BY <1>8, <1>9 DEF Names
    <2>2. \A j, k \in 1..Len(w) : w[j] = w[k] => j = k
      BY <1>6, <1>9 DEF Once
    <2> HIDE DEF n
    <2> QED
      BY <1>9, <2>1, <2>2 DEF Bijection, Injection, Surjection, IsInjective
  <1>11. Len(w) = n
    <2> HIDE DEF n
    <2>1. IsFiniteSet(1..Len(w)) /\ Cardinality(1..Len(w)) = Len(w) /\ Cardinality(1..n) = n
      <3>1. PICK m \in Nat : m = Len(w)
        BY <1>9
      <3>2. IsFiniteSet(1..m) /\ Cardinality(1..m) = IF 1 > m THEN 0 ELSE m - 1 + 1
        BY FS_Interval
      <3>3. Cardinality(1..n) = IF 1 > n THEN 0 ELSE n - 1 + 1
        BY <1>2, FS_Interval
      <3> QED
        BY <1>2, <3>1, <3>2, <3>3
    <2>2. ExistsBijection(1..Len(w), 1..n)
      BY <1>10 DEF ExistsBijection
    <2> QED
      BY <2>1, <2>2, FS_Bijection
  <1> QED
    BY <1>2, <1>6, <1>9, <1>11

\* What a sequence holds of a set, in its order.
Picked(s, G) == Chosen(s, {i \in DOMAIN s : s[i] \in G})

\* What choosing from a longer sequence adds.
IsPickedMore(s, x, G) ==
    /\ x \in G => Picked(Append(s, x), G) = Append(Picked(s, G), x)
    /\ x \notin G => Picked(Append(s, x), G) = Picked(s, G)

\* It grows with the sequence.
LEMMA PickedGrows ==
    ASSUME NEW T, NEW s \in Seq(T), NEW x \in T, NEW G
    PROVE  /\ Picked(s, G) \in Seq(T)
           /\ IsPickedMore(s, x, G)
  <1> DEFINE S == {i \in DOMAIN s : s[i] \in G}
             t == Append(s, x)
             U == {i \in DOMAIN t : t[i] \in G}
  <1>1. S \in SUBSET DOMAIN s
    OBVIOUS
  <1>2. /\ \A i : i \in DOMAIN t <=> i \in DOMAIN s \/ i = Len(s) + 1
        /\ Len(s) + 1 \notin DOMAIN s
        /\ \A i \in DOMAIN s : t[i] = s[i]
        /\ t[Len(s) + 1] = x
    BY NameAdded
  <1> HIDE DEF t
  <1>3. x \in G => U = S \cup {Len(s) + 1}
    BY <1>2
  <1>4. x \notin G => U = S
    BY <1>2
  <1>5. Picked(s, G) = Chosen(s, S) /\ Picked(t, G) = Chosen(t, U)
    BY DEF Picked
  <1> HIDE DEF S, U
  <1>6. Chosen(s, S) \in Seq(T)
    BY <1>1, ChosenItems
  <1>7. Chosen(t, S) = Chosen(s, S) /\ Chosen(t, S \cup {Len(s) + 1}) = Append(Chosen(s, S), x)
    <2>1. /\ Chosen(Append(s, x), S) = Chosen(s, S)
          /\ Chosen(Append(s, x), S \cup {Len(s) + 1}) = Append(Chosen(s, S), x)
      <3>1. PICK R \in SUBSET DOMAIN s : R = S
        BY <1>1
      <3>2. IsChosenMore(s, x, R)
        BY ChosenGrows
      <3> QED
        BY <3>1, <3>2, Zenon DEF IsChosenMore
    <2> QED
      BY <2>1 DEF t
  <1> QED
    BY <1>3, <1>4, <1>5, <1>6, <1>7 DEF t, IsPickedMore

\* The numbers of a sequence are bounded.
LEMMA Bounded ==
    ASSUME NEW n \in Nat, NEW f, \A k \in 1..n : f[k] \in Nat
    PROVE  \E m \in Nat : \A k \in 1..n : f[k] <= m
  <1> DEFINE bad == {j \in Nat : j <= n /\ ~ \E m \in Nat : \A k \in 1..j : f[k] <= m}
  <1> SUFFICES ASSUME ~ \E m \in Nat : \A k \in 1..n : f[k] <= m PROVE FALSE
    OBVIOUS
  <1>1. PICK j \in bad : \A y \in bad : j <= y
    <2>1. bad \in SUBSET Nat /\ n \in bad
      OBVIOUS
    <2> HIDE DEF bad
    <2> QED
      BY <2>1, LeastNumber
  <1>2. j \in Nat /\ j <= n /\ ~ \E m \in Nat : \A k \in 1..j : f[k] <= m
    BY <1>1
  <1>3. j # 0
    <2>1. 0 \in Nat /\ \A k \in 1..0 : f[k] <= 0
      OBVIOUS
    <2> QED
      BY <1>2, <2>1
  <1>4. j - 1 \in Nat /\ j - 1 <= n /\ ~(j <= j - 1)
    BY <1>2, <1>3
  <1>5. PICK m \in Nat : \A k \in 1..j - 1 : f[k] <= m
    BY <1>1, <1>4
  <1>6. f[j] \in Nat
    BY <1>2, <1>3
  <1>7. m + f[j] \in Nat /\ \A k \in 1..j : f[k] <= m + f[j]
    <2>1. ASSUME NEW k \in 1..j PROVE f[k] <= m + f[j]
      <3>1. CASE k = j
        BY <1>6, <3>1
      <3>2. CASE k # j
        <4>1. k \in 1..j - 1 /\ k \in 1..n
          BY <1>2, <3>2
        <4>2. f[k] <= m /\ f[k] \in Nat
          BY <1>5, <4>1
        <4> QED
          BY <1>6, <4>2
      <3> QED
        BY <3>1, <3>2
    <2> QED
      BY <1>6, <2>1
  <1> QED
    BY <1>2, <1>7

-----------------------------------------------------------------------------
(* The projections at the end of the fold.                                 *)

\* A document whose items are linked alike is linked.
LEMMA LinkedSame ==
    ASSUME NEW d, Linked(d), NEW e,
           e.groups \in Seq(GroupItem), DOMAIN e.groups = DOMAIN d.groups,
           \A i \in DOMAIN d.groups : /\ e.groups[i].self_ref = d.groups[i].self_ref
                                      /\ e.groups[i].children = d.groups[i].children,
           e.pictures = d.pictures, e.furniture = d.furniture,
           e.body.self_ref = d.body.self_ref, e.body.children = d.body.children
    PROVE  Linked(e)
  <1>1. /\ \A par, r : PictureUnder(e, par, r) <=> PictureUnder(d, par, r)
        /\ \A r : IsGroup(e, r) <=> IsGroup(d, r)
    BY DEF PictureUnder, IsGroup
  <1>2. \A i \in DOMAIN e.pictures : PictureNamed(e, i)
    BY DEF Linked, PictureNamed
  <1> QED
    BY <1>1, <1>2 DEF Linked

\* The overlays that name the chapter of a group.
NamingGroup(i) ==
    {k \in DOMAIN overlays : overlays[k].chapter_href \in DOMAIN chapter_refs
                              /\ chapter_refs[overlays[k].chapter_href] = GroupRef(i - 1)}
Ends == {overlays[k].end_time : k \in DOMAIN overlays} \cup {0}
EntryOf(point) == [title |-> point.label, level |-> point.depth, target |-> ChapterTarget(point)]
Overlays == [chapter_href : Hrefs, end_time : EndTimes]

\* The state the projections find.
Foldable ==
    /\ outline \in Tocs \cup {<<>>}
    /\ overlays \in Seq(Overlays)
    /\ \A h \in DOMAIN chapter_refs : chapter_refs[h] \in Refs
    /\ Linked(document) /\ HasFields(document)
    /\ document.outline = <<>> /\ document.media = 0 /\ document.binary_hash \in Nat

\* What they make of the document.
IsProjected(e) ==
    /\ Linked(e)
    /\ DOMAIN e.groups = DOMAIN document.groups
    /\ \A i \in DOMAIN e.groups :
         /\ e.groups[i].name = document.groups[i].name
         /\ NamingGroup(i) = {} => e.groups[i].cues = document.groups[i].cues
         /\ NamingGroup(i) # {} => e.groups[i].cues \in NamingGroup(i)
         /\ \A k \in NamingGroup(i) : e.groups[i].cues >= k
    /\ e.pictures = document.pictures /\ e.body = document.body
    /\ e.binary_hash = document.binary_hash /\ e.source_meta = document.source_meta
    /\ e.outline \in Seq(OutlineEntry)
    /\ DOMAIN e.outline = DOMAIN outline
    /\ \A i \in DOMAIN outline : e.outline[i] = EntryOf(outline[Walk(outline)[i]])
    /\ e.media \in Ends /\ e.media \in Nat /\ \A m \in Ends : e.media >= m

\* What the outline is projected to.
LEMMA OutlineProjected ==
    ASSUME Foldable, NEW e, e = ProjectOutline(document)
    PROVE  /\ e = [document EXCEPT !.outline = e.outline]
           /\ e.outline \in Seq(OutlineEntry) /\ DOMAIN e.outline = DOMAIN outline
           /\ \A i \in DOMAIN outline : e.outline[i] = EntryOf(outline[Walk(outline)[i]])
  <1>1. IsToc(outline)
    <2>1. CASE outline \in Tocs
      BY <2>1, FoldAssumption DEF IsToc
    <2>2. CASE outline = <<>>
      BY <2>2 DEF IsToc
    <2> QED
      BY <2>1, <2>2 DEF Foldable
  <1>2. PICK w : w = Walk(outline)
    OBVIOUS
  <1>3. /\ Len(outline) \in Nat /\ DOMAIN outline = 1..Len(outline)
        /\ w \in Seq(1..Len(outline)) /\ Len(w) = Len(outline) /\ DOMAIN w = 1..Len(outline)
    BY <1>1, <1>2, WalkLists
  <1> DEFINE entries == [i \in DOMAIN w |-> EntryOf(outline[w[i]])]
  <1>4. \A i \in DOMAIN w : EntryOf(outline[w[i]]) \in OutlineEntry
    <2> SUFFICES ASSUME NEW i \in DOMAIN w PROVE EntryOf(outline[w[i]]) \in OutlineEntry
      OBVIOUS
    <2>1. w[i] \in DOMAIN outline
      BY <1>3
    <2>2. outline[w[i]] \in NavPoint
      BY <1>1, <2>1 DEF IsToc
    <2>3. PICK p \in NavPoint : p = outline[w[i]]
      BY <2>2
    <2>4. ChapterTarget(p) \in Refs \cup {<<>>}
      BY DEF ChapterTarget, Foldable
    <2>5. p.label \in STRING /\ p.depth \in Nat
      BY DEF NavPoint
    <2>6. EntryOf(p) \in OutlineEntry
      <3> HIDE DEF Refs
      <3> QED
        BY <2>4, <2>5 DEF EntryOf, OutlineEntry
    <2> QED
      BY <2>3, <2>6
  <1>5. entries \in Seq(OutlineEntry)
    <2>1. entries = [i \in 1..Len(outline) |-> EntryOf(outline[w[i]])]
      BY <1>3
    <2>2. \A i \in 1..Len(outline) : EntryOf(outline[w[i]]) \in OutlineEntry
      BY <1>3, <1>4
    <2> HIDE DEF entries
    <2> QED
      BY <1>3, <2>1, <2>2
  <1>6. e = [document EXCEPT !.outline = @ \o entries]
    BY <1>2 DEF ProjectOutline, EntryOf
  <1>7. document.outline \o entries = entries
    <2>1. <<>> \o entries = entries
      <3> HIDE DEF entries
      <3> QED
        BY <1>5, ConcatEmptySeq
    <2> QED
      BY <2>1 DEF Foldable
  <1> HIDE DEF entries
  <1>8. e = [document EXCEPT !.outline = entries] /\ "outline" \in DOMAIN document
    BY <1>6, <1>7 DEF Foldable, HasFields
  <1>9. e.outline = entries
    BY <1>8
  <1>10. e = [document EXCEPT !.outline = e.outline]
    BY <1>8, <1>9
  <1>11. DOMAIN entries = DOMAIN outline /\ \A i \in DOMAIN outline : entries[i] = EntryOf(outline[w[i]])
    BY <1>3 DEF entries
  <1> QED
    BY <1>2, <1>5, <1>9, <1>10, <1>11

\* The last overlay that names a group is one, and so is the longest.
LEMMA OverlayNumbers ==
    ASSUME overlays \in Seq(Overlays)
    PROVE  /\ \A i : NamingGroup(i) \in SUBSET Nat
           /\ \A i : NamingGroup(i) # {} => /\ Greatest(NamingGroup(i)) \in NamingGroup(i)
                                            /\ \A k \in NamingGroup(i) : Greatest(NamingGroup(i)) >= k
           /\ Greatest(Ends) \in Ends /\ Greatest(Ends) \in Nat /\ \A m \in Ends : Greatest(Ends) >= m
  <1>1. Len(overlays) \in Nat /\ DOMAIN overlays = 1..Len(overlays)
    OBVIOUS
  <1>2. \A i : NamingGroup(i) \in SUBSET Nat /\ \A k \in NamingGroup(i) : k <= Len(overlays)
    BY <1>1 DEF NamingGroup
  <1>3. ASSUME NEW i, NamingGroup(i) # {}
        PROVE  /\ Greatest(NamingGroup(i)) \in NamingGroup(i)
               /\ \A k \in NamingGroup(i) : Greatest(NamingGroup(i)) >= k
    BY <1>1, <1>2, <1>3, GreatestNumber
  <1>4. \A k \in 1..Len(overlays) : overlays[k].end_time \in Nat
    <2>1. \A k \in 1..Len(overlays) : overlays[k] \in Overlays
      BY <1>1
    <2> QED
      BY <2>1, FoldAssumption DEF Overlays
  <1>5. PICK b \in Nat : \A k \in 1..Len(overlays) : overlays[k].end_time <= b
    <2> DEFINE f == [k \in 1..Len(overlays) |-> overlays[k].end_time]
    <2>1. \A k \in 1..Len(overlays) : f[k] \in Nat
      BY <1>4
    <2>2. \E m \in Nat : \A k \in 1..Len(overlays) : f[k] <= m
      <3> HIDE DEF f
      <3> QED
        BY <1>1, <2>1, Bounded
    <2> QED
      BY <2>2
  <1>6. Ends \in SUBSET Nat /\ Ends # {} /\ \A m \in Ends : m <= b
    BY <1>1, <1>4, <1>5 DEF Ends
  <1>7. Greatest(Ends) \in Ends /\ \A m \in Ends : Greatest(Ends) >= m
    BY <1>6, GreatestNumber
  <1> QED
    BY <1>2, <1>3, <1>6, <1>7

\* A group keeps all but its cues.
LEMMA CuesSet ==
    ASSUME NEW g \in GroupItem, NEW k \in Nat, NEW h, h = [g EXCEPT !.cues = k]
    PROVE  /\ h \in GroupItem /\ h.self_ref = g.self_ref /\ h.children = g.children /\ h.name = g.name
           /\ h.cues = k
  <1> QED
    BY DEF GroupItem

\* The projections, one after the other.
LEMMA Projected ==
    ASSUME Foldable
    PROVE  IsProjected(ProjectOverlays(ProjectOutline(document)))
  <1>1. PICK o : o = ProjectOutline(document)
    OBVIOUS
  <1>2. /\ o = [document EXCEPT !.outline = o.outline]
        /\ o.outline \in Seq(OutlineEntry) /\ DOMAIN o.outline = DOMAIN outline
        /\ \A i \in DOMAIN outline : o.outline[i] = EntryOf(outline[Walk(outline)[i]])
    BY <1>1, OutlineProjected
  <1>3. /\ o.groups = document.groups /\ o.pictures = document.pictures /\ o.body = document.body
        /\ o.furniture = document.furniture /\ o.media = 0
        /\ o.binary_hash = document.binary_hash /\ o.source_meta = document.source_meta
        /\ HasFields(o)
    BY <1>2 DEF HasFields, Foldable
  <1>4. \A i \in DOMAIN document.groups : document.groups[i].self_ref = GroupRef(i - 1)
    BY DEF Foldable, Linked
  <1> DEFINE put(i) == IF NamingGroup(i) = {} THEN document.groups[i]
                       ELSE [document.groups[i] EXCEPT !.cues = Greatest(NamingGroup(i))]
             gs == [i \in DOMAIN document.groups |-> put(i)]
             e == ProjectOverlays(o)
  <1>5. \A i \in DOMAIN o.groups :
          {k \in DOMAIN overlays : overlays[k].chapter_href \in DOMAIN chapter_refs
             /\ chapter_refs[overlays[k].chapter_href] = o.groups[i].self_ref} = NamingGroup(i)
    BY <1>3, <1>4 DEF NamingGroup
  <1>6. e = [o EXCEPT !.groups = gs, !.media = IF Greatest(Ends) > 0 THEN Greatest(Ends) ELSE 0]
    BY <1>3, <1>5 DEF ProjectOverlays, Ends
  <1>7. /\ \A i : NamingGroup(i) \in SUBSET Nat
        /\ \A i : NamingGroup(i) # {} => /\ Greatest(NamingGroup(i)) \in NamingGroup(i)
                                         /\ \A k \in NamingGroup(i) : Greatest(NamingGroup(i)) >= k
        /\ Greatest(Ends) \in Ends /\ Greatest(Ends) \in Nat /\ \A m \in Ends : Greatest(Ends) >= m
    <2>1. overlays \in Seq(Overlays)
      BY DEF Foldable
    <2> HIDE DEF e, gs
    <2> QED
      BY <2>1, OverlayNumbers
  <1> HIDE DEF put
  <1>8. /\ document.groups \in Seq(GroupItem) /\ Len(document.groups) \in Nat
        /\ DOMAIN document.groups = 1..Len(document.groups)
        /\ \A i \in DOMAIN document.groups : document.groups[i] \in GroupItem
    BY DEF Foldable, Linked
  <1>9. ASSUME NEW i \in DOMAIN document.groups
        PROVE  /\ put(i) \in GroupItem /\ put(i).self_ref = document.groups[i].self_ref
               /\ put(i).children = document.groups[i].children /\ put(i).name = document.groups[i].name
               /\ NamingGroup(i) = {} => put(i).cues = document.groups[i].cues
               /\ NamingGroup(i) # {} => put(i).cues \in NamingGroup(i)
               /\ \A k \in NamingGroup(i) : put(i).cues >= k
    <2>1. CASE NamingGroup(i) = {}
      BY <1>8, <2>1 DEF put
    <2>2. CASE NamingGroup(i) # {}
      <3>1. PICK g \in GroupItem : g = document.groups[i]
        BY <1>8
      <3>2. PICK m \in Nat : m = Greatest(NamingGroup(i)) /\ m \in NamingGroup(i) /\ \A k \in NamingGroup(i) : m >= k
        BY <1>7, <2>2
      <3>3. PICK h : h = [g EXCEPT !.cues = m]
        OBVIOUS
      <3>4. put(i) = h
        BY <2>2, <3>1, <3>2, <3>3 DEF put
      <3>5. h \in GroupItem /\ h.self_ref = g.self_ref /\ h.children = g.children /\ h.name = g.name /\ h.cues = m
        BY <3>3, CuesSet
      <3> QED
        BY <2>2, <3>1, <3>2, <3>4, <3>5
    <2> QED
      BY <2>1, <2>2
  <1>10. gs \in Seq(GroupItem) /\ DOMAIN gs = DOMAIN document.groups /\ \A i \in DOMAIN document.groups : gs[i] = put(i)
    <2>1. gs = [i \in 1..Len(document.groups) |-> put(i)]
      BY <1>8
    <2>2. \A i \in 1..Len(document.groups) : put(i) \in GroupItem
      BY <1>8, <1>9
    <2>3. gs \in Seq(GroupItem)
      <3> HIDE DEF gs
      <3> QED
        BY <1>8, <2>1, <2>2
    <2> QED
      BY <2>3
  <1> HIDE DEF gs, e
  <1>11. /\ e.groups = gs /\ e.pictures = document.pictures /\ e.body = document.body
         /\ e.furniture = document.furniture /\ e.outline = o.outline
         /\ e.binary_hash = document.binary_hash /\ e.source_meta = document.source_meta
    BY <1>3, <1>6 DEF HasFields
  <1>12. e.media = Greatest(Ends)
    <2>1. e.media = IF Greatest(Ends) > 0 THEN Greatest(Ends) ELSE 0
      BY <1>3, <1>6 DEF HasFields
    <2>2. Greatest(Ends) \in Nat
      BY <1>7
    <2> QED
      BY <2>1, <2>2
  <1>13. Linked(e)
    <2>1. Linked(document)
      BY DEF Foldable
    <2>2. /\ e.groups \in Seq(GroupItem) /\ DOMAIN e.groups = DOMAIN document.groups
          /\ \A i \in DOMAIN document.groups : /\ e.groups[i].self_ref = document.groups[i].self_ref
                                               /\ e.groups[i].children = document.groups[i].children
      BY <1>9, <1>10, <1>11
    <2>3. e.pictures = document.pictures /\ e.furniture = document.furniture /\ e.body = document.body
      BY <1>11
    <2> QED
      BY <2>1, <2>2, <2>3, LinkedSame
  <1>14. \A i \in DOMAIN e.groups :
           /\ e.groups[i].name = document.groups[i].name
           /\ NamingGroup(i) = {} => e.groups[i].cues = document.groups[i].cues
           /\ NamingGroup(i) # {} => e.groups[i].cues \in NamingGroup(i)
           /\ \A k \in NamingGroup(i) : e.groups[i].cues >= k
    BY <1>9, <1>10, <1>11
  <1>15. e.media \in Ends /\ e.media \in Nat /\ \A m \in Ends : e.media >= m
    BY <1>7, <1>12
  <1>16. DOMAIN e.groups = DOMAIN document.groups
    BY <1>10, <1>11
  <1>17. IsProjected(e)
    BY <1>2, <1>11, <1>13, <1>14, <1>15, <1>16 DEF IsProjected
  <1> QED
    BY <1>1, <1>17 DEF e

-----------------------------------------------------------------------------
(* The fold, step by step.                                                 *)

Phases == {"hash", "info", "navigation", "overlays", "walk", "done", "gone"}
Running == phase \notin {"done", "gone"}

\* What the client is given.
Complete(d) ==
    Linked(d) /\ d.outline \in Seq(OutlineEntry) /\ d.binary_hash \in Nat /\ d.media \in Nat

NoStatus == \A i \in DOMAIN folded : folded[i].type # "status"

\* The document can be closed at any time, and is given away once at most.
FoldInv ==
    /\ phase \in Phases
    /\ cover_href \in Hrefs \cup {Empty}
    /\ source_hash \in {0, Hash}
    /\ folded \in Seq(Event)
    /\ Foldable
    /\ DOMAIN chapter_refs \subseteq Hrefs
    /\ delivered \in 0..Len(folded)
    /\ NoStatus \/ (outline = <<>> /\ overlays = <<>> /\ chapter_refs = <<>>)
    /\ Running => received = <<>> /\ delivered = Len(folded) /\ NoStatus
    /\ received = <<>> \/ \E d : received = <<d>> /\ Complete(d)

\* The document the fold starts from is linked.
LEMMA SkeletonLinked ==
    /\ Linked(Skeleton) /\ HasFields(Skeleton) /\ Skeleton.outline = <<>> /\ Skeleton.media = 0
    /\ Skeleton.binary_hash = 0 /\ Skeleton.groups = <<>> /\ Skeleton.pictures = <<>>
    /\ Skeleton.body.children = <<>>
  <1>1. /\ Skeleton.groups = <<>> /\ Skeleton.pictures = <<>> /\ Skeleton.body.children = <<>>
        /\ Skeleton.furniture.children = <<>> /\ Skeleton.body.self_ref = BodyRef
        /\ Skeleton.furniture.self_ref = FurnitureRef
    BY DEF Skeleton, Root
  <1>2. <<>> \in Seq(GroupItem) /\ <<>> \in Seq(PictureItem) /\ <<>> \in Seq(Refs) /\ DOMAIN <<>> = {}
    BY EmptySeq
  <1>3. \A r : ~Names(<<>>, r)
    BY <1>2 DEF Names
  <1>4. Once(<<>>)
    BY <1>2 DEF Once
  <1>5. /\ \A r : ~IsGroup(Skeleton, r)
        /\ \A par, r : ~PictureUnder(Skeleton, par, r)
    BY <1>1, <1>2 DEF IsGroup, PictureUnder
  <1>6. Linked(Skeleton)
    BY <1>1, <1>2, <1>3, <1>4, <1>5 DEF Linked
  <1>7. HasFields(Skeleton) /\ Skeleton.outline = <<>> /\ Skeleton.media = 0 /\ Skeleton.binary_hash = 0
    BY DEF HasFields, Skeleton, Root
  <1> QED
    BY <1>1, <1>6, <1>7

\* The events the driver makes.
LEMMA EventTypes ==
    /\ \A info \in Infos : [type |-> "info", info |-> info] \in Event
    /\ \A toc \in Tocs : [type |-> "navigation", toc |-> toc] \in Event
    /\ \A href \in Hrefs, end \in EndTimes : [type |-> "overlay", href |-> href, end |-> end] \in Event
    /\ \A href \in Hrefs, image \in BOOLEAN, primary \in Primaries \cup {Empty}, n \in Nat :
         [type |-> "chapter", href |-> href, image |-> image, primary |-> primary, spine_index |-> n] \in Event
    /\ \A href \in Hrefs, image \in BOOLEAN : [type |-> "resource", href |-> href, image |-> image] \in Event
    /\ [type |-> "status"] \in Event
  <1>1. \A info \in Infos : [type |-> "info", info |-> info] \in Event
    BY DEF Event
  <1>2. \A toc \in Tocs : [type |-> "navigation", toc |-> toc] \in Event
    BY DEF Event
  <1>3. \A href \in Hrefs, end \in EndTimes : [type |-> "overlay", href |-> href, end |-> end] \in Event
    BY DEF Event, MediaOverlay
  <1>4. \A href \in Hrefs, image \in BOOLEAN, primary \in Primaries \cup {Empty}, n \in Nat :
         [type |-> "chapter", href |-> href, image |-> image, primary |-> primary, spine_index |-> n] \in Event
    <2> SUFFICES ASSUME NEW href \in Hrefs, NEW image \in BOOLEAN, NEW primary \in Primaries \cup {Empty}, NEW n \in Nat
                 PROVE  [type |-> "chapter", href |-> href, image |-> image, primary |-> primary, spine_index |-> n]
                          \in Event
      OBVIOUS
    <2>1. primary \in Hrefs \cup {Empty}
      BY FoldAssumption
    <2>2. [type |-> "chapter", href |-> href, image |-> image, primary |-> primary, spine_index |-> n] \in Chapter
      BY <2>1, Zenon DEF Chapter
    <2> QED
      BY <2>2 DEF Event
  <1>5. \A href \in Hrefs, image \in BOOLEAN : [type |-> "resource", href |-> href, image |-> image] \in Event
    <2> SUFFICES ASSUME NEW href \in Hrefs, NEW image \in BOOLEAN
                 PROVE  [type |-> "resource", href |-> href, image |-> image] \in Event
      OBVIOUS
    <2>1. [type |-> "resource", href |-> href, image |-> image] \in Resource
      BY Zenon DEF Resource
    <2> QED
      BY <2>1 DEF Event
  <1>6. [type |-> "status"] \in Event
    BY DEF Event
  <1> QED
    BY <1>1, <1>2, <1>3, <1>4, <1>5, <1>6

\* What sending an event other than the trailer does.
LEMMA Emitted ==
    ASSUME FoldInv, Running, NEW e \in Event, e.type # "status",
           NEW next \in {"navigation", "overlays", "walk"}, Emit(e, next)
    PROVE  /\ folded' = Append(folded, e) /\ folded' \in Seq(Event) /\ Len(folded') = Len(folded) + 1
           /\ delivered' \in 0..Len(folded') /\ phase' \in {next, "gone"} /\ phase' \in Phases
           /\ received' = <<>> /\ NoStatus' /\ (Running' => delivered' = Len(folded'))
  <1>1. /\ folded \in Seq(Event) /\ received = <<>> /\ NoStatus /\ delivered = Len(folded) /\ Len(folded) \in Nat
    BY DEF FoldInv
  <1>2. /\ folded' = Append(folded, e) /\ received' = received
        /\ \/ phase' = next /\ delivered' = delivered + 1
           \/ phase' = "gone" /\ delivered' = delivered
    BY DEF Emit
  <1>3. /\ \A i : i \in DOMAIN folded' <=> i \in DOMAIN folded \/ i = Len(folded) + 1
        /\ \A i \in DOMAIN folded : folded'[i] = folded[i]
        /\ folded'[Len(folded) + 1] = e
        /\ folded' \in Seq(Event) /\ Len(folded') = Len(folded) + 1
    BY <1>1, <1>2, NameAdded
  <1>4. NoStatus'
    BY <1>1, <1>3 DEF NoStatus
  <1>5. phase' \in {next, "gone"} /\ phase' \in Phases
    BY <1>2 DEF Phases
  <1>6. delivered' \in 0..Len(folded') /\ (Running' => delivered' = Len(folded'))
    BY <1>1, <1>2, <1>3 DEF Running
  <1> QED
    BY <1>1, <1>2, <1>3, <1>4, <1>5, <1>6

\* The events of a type so far.
LEMMA FoldedType ==
    ASSUME folded \in Seq(Event), NEW t
    PROVE  Folded(t) \in Seq(Event) /\ Len(Folded(t)) \in Nat
  <1> DEFINE S == {i \in DOMAIN folded : folded[i].type = t}
  <1>1. S \in SUBSET DOMAIN folded
    OBVIOUS
  <1>2. Folded(t) = Chosen(folded, S)
    BY DEF Folded
  <1> HIDE DEF S
  <1>3. Chosen(folded, S) \in Seq(Event)
    BY <1>1, ChosenItems
  <1> QED
    BY <1>2, <1>3

\* The invariant at the start.
LEMMA FoldStart == Init => FoldInv
  <1> SUFFICES ASSUME Init PROVE FoldInv
    OBVIOUS
  <1>1. Foldable /\ DOMAIN chapter_refs = {}
    <2>1. document = Skeleton /\ chapter_refs = <<>> /\ outline = <<>> /\ overlays = <<>>
      BY DEF Init
    <2>2. overlays \in Seq(Overlays) /\ DOMAIN chapter_refs = {}
      BY <2>1
    <2> QED
      BY <2>1, <2>2, SkeletonLinked DEF Foldable
  <1>2. folded \in Seq(Event) /\ Len(folded) = 0 /\ NoStatus /\ delivered = 0 /\ received = <<>>
    <2>1. folded = <<>> /\ delivered = 0 /\ received = <<>>
      BY DEF Init
    <2> QED
      BY <2>1 DEF NoStatus
  <1>3. phase \in Phases /\ cover_href \in Hrefs \cup {Empty} /\ source_hash \in {0, Hash}
    BY DEF Init, Phases
  <1> QED
    BY <1>1, <1>2, <1>3 DEF FoldInv

\* An event that leaves the document as it is, or only adds to it.
LEMMA FoldKept ==
    ASSUME FoldInv, Running, NEW e \in Event, e.type # "status",
           NEW next \in {"navigation", "overlays", "walk"}, Emit(e, next),
           cover_href' \in Hrefs \cup {Empty}, source_hash' = source_hash,
           Foldable', DOMAIN chapter_refs' \subseteq Hrefs
    PROVE  FoldInv'
  <1>1. /\ folded' \in Seq(Event) /\ delivered' \in 0..Len(folded') /\ phase' \in Phases
        /\ received' = <<>> /\ NoStatus' /\ (Running' => delivered' = Len(folded'))
    BY Emitted
  <1>2. source_hash' \in {0, Hash}
    BY DEF FoldInv
  <1> QED
    BY <1>1, <1>2 DEF FoldInv

\* FoldInv: SetSourceHash.
LEMMA FoldHash == FoldInv /\ SetSourceHash => FoldInv'
  <1> SUFFICES ASSUME FoldInv, SetSourceHash PROVE FoldInv'
    OBVIOUS
  <1>1. /\ phase = "hash" /\ phase' = "info" /\ source_hash' = Hash
        /\ UNCHANGED <<document, cover_href, chapter_refs, outline, overlays, folded, delivered, received>>
    BY DEF SetSourceHash
  <1>2. Foldable' /\ (NoStatus' <=> NoStatus)
    BY <1>1 DEF FoldInv, Foldable, NoStatus
  <1>3. Running /\ phase' \in Phases
    BY <1>1 DEF Running, Phases
  <1> QED
    BY <1>1, <1>2, <1>3 DEF FoldInv

\* FoldInv: EmitInfo.
LEMMA FoldInfo == FoldInv /\ EmitInfo => FoldInv'
  <1> SUFFICES ASSUME FoldInv, EmitInfo PROVE FoldInv'
    OBVIOUS
  <1>1. PICK info \in Infos :
          /\ cover_href' = info.cover_href
          /\ document' = [document EXCEPT !.name = info.title, !.binary_hash = source_hash,
                                         !.source_meta = SourceMeta(info), !.body.meta = BodyMeta(info)]
          /\ Emit([type |-> "info", info |-> info], "navigation")
    BY DEF EmitInfo
  <1>2. phase = "info" /\ UNCHANGED <<source_hash, chapter_refs, outline, overlays>>
    BY DEF EmitInfo
  <1>3. /\ HasFields(document') /\ document'.groups = document.groups /\ document'.pictures = document.pictures
        /\ document'.furniture = document.furniture /\ document'.body.self_ref = document.body.self_ref
        /\ document'.body.children = document.body.children /\ document'.outline = document.outline
        /\ document'.media = document.media /\ document'.binary_hash = source_hash
    BY <1>1 DEF FoldInv, Foldable, HasFields
  <1>4. Linked(document)
    BY DEF FoldInv, Foldable
  <1>5. Linked(document')
    <2>1. document'.groups \in Seq(GroupItem) /\ DOMAIN document'.groups = DOMAIN document.groups
      BY <1>3, <1>4 DEF Linked
    <2> QED
      BY <1>3, <1>4, <2>1, LinkedSame
  <1>6. source_hash \in Nat
    BY FoldAssumption DEF FoldInv
  <1>7. Foldable' /\ DOMAIN chapter_refs' \subseteq Hrefs
    BY <1>2, <1>3, <1>5, <1>6 DEF FoldInv, Foldable
  <1>8. cover_href' \in Hrefs \cup {Empty}
    BY <1>1, FoldAssumption DEF EpubInfo
  <1>9. [type |-> "info", info |-> info] \in Event /\ [type |-> "info", info |-> info].type # "status"
    BY EventTypes
  <1>10. Running /\ source_hash' = source_hash
    BY <1>2 DEF Running
  <1>11. Emit([type |-> "info", info |-> info], "navigation")
    BY <1>1
  <1> QED
    BY <1>7, <1>8, <1>9, <1>10, <1>11, FoldKept

\* FoldInv: EmitNavigation.
LEMMA FoldNavigation == FoldInv /\ EmitNavigation => FoldInv'
  <1> SUFFICES ASSUME FoldInv, EmitNavigation PROVE FoldInv'
    OBVIOUS
  <1>1. PICK toc \in Tocs : outline' = toc /\ Emit([type |-> "navigation", toc |-> toc], "overlays")
    BY DEF EmitNavigation
  <1>2. phase = "navigation" /\ UNCHANGED <<document, cover_href, source_hash, chapter_refs, overlays>>
    BY DEF EmitNavigation
  <1>3. Foldable' /\ DOMAIN chapter_refs' \subseteq Hrefs
    BY <1>1, <1>2 DEF FoldInv, Foldable
  <1>4. [type |-> "navigation", toc |-> toc] \in Event /\ [type |-> "navigation", toc |-> toc].type # "status"
    BY EventTypes
  <1>5. Running /\ source_hash' = source_hash /\ cover_href' \in Hrefs \cup {Empty}
    BY <1>2 DEF Running, FoldInv
  <1>6. Emit([type |-> "navigation", toc |-> toc], "overlays")
    BY <1>1
  <1> QED
    BY <1>3, <1>4, <1>5, <1>6, FoldKept

\* FoldInv: EmitOverlay.
LEMMA FoldOverlay == FoldInv /\ EmitOverlay => FoldInv'
  <1> SUFFICES ASSUME FoldInv, EmitOverlay PROVE FoldInv'
    OBVIOUS
  <1>1. PICK href \in Hrefs, end \in EndTimes :
          /\ overlays' = Append(overlays, [chapter_href |-> href, end_time |-> end])
          /\ Emit([type |-> "overlay", href |-> href, end |-> end], "overlays")
    BY DEF EmitOverlay
  <1>2. phase \in {"navigation", "overlays"} /\ UNCHANGED <<document, cover_href, source_hash, chapter_refs, outline>>
    BY DEF EmitOverlay
  <1>3. overlays' \in Seq(Overlays)
    <2>1. [chapter_href |-> href, end_time |-> end] \in Overlays /\ overlays \in Seq(Overlays)
      BY DEF Overlays, FoldInv, Foldable
    <2> QED
      BY <1>1, <2>1
  <1>4. Foldable' /\ DOMAIN chapter_refs' \subseteq Hrefs
    BY <1>2, <1>3 DEF FoldInv, Foldable
  <1>5. /\ [type |-> "overlay", href |-> href, end |-> end] \in Event
        /\ [type |-> "overlay", href |-> href, end |-> end].type # "status"
    BY EventTypes
  <1>6. Running /\ source_hash' = source_hash /\ cover_href' \in Hrefs \cup {Empty}
    BY <1>2 DEF Running, FoldInv
  <1>7. Emit([type |-> "overlay", href |-> href, end |-> end], "overlays")
    BY <1>1
  <1> QED
    BY <1>4, <1>5, <1>6, <1>7, FoldKept

\* FoldInv: EmitChapter.
LEMMA FoldChapter == FoldInv /\ EmitChapter => FoldInv'
  <1> SUFFICES ASSUME FoldInv, EmitChapter PROVE FoldInv'
    OBVIOUS
  <1>1. PICK href, image, primary, c :
          /\ href \in Hrefs /\ image \in BOOLEAN /\ primary \in Primaries \cup {Empty}
          /\ c = [type |-> "chapter", href |-> href, image |-> image, primary |-> primary,
                  spine_index |-> Len(Folded("chapter"))]
          /\ document' = AddChapter(document, c)
          /\ chapter_refs' = [h \in DOMAIN chapter_refs \cup {href} |->
                                 IF h = href THEN GroupRef(Len(document.groups)) ELSE chapter_refs[h]]
          /\ Emit(c, "walk")
    BY DEF EmitChapter
  <1>2. phase \in {"navigation", "overlays", "walk"} /\ UNCHANGED <<cover_href, source_hash, outline, overlays>>
    BY DEF EmitChapter, Walking
  <1>3. folded \in Seq(Event) /\ Linked(document) /\ HasFields(document) /\ Foldable
    BY DEF FoldInv, Foldable
  <1>4. Len(Folded("chapter")) \in Nat
    BY <1>3, FoldedType
  <1>5. c \in Event
    BY <1>1, <1>4, EventTypes
  <1>6. c.href = href /\ c.href \in Hrefs /\ c.spine_index \in Nat /\ c.type # "status"
    BY <1>1, <1>4
  <1>7. document' = AddChapter(document, c)
    BY <1>1
  <1>8. /\ Linked(document') /\ HasFields(document')
        /\ document'.outline = document.outline /\ document'.media = document.media
        /\ document'.binary_hash = document.binary_hash
        /\ Len(document.groups) \in Nat
    <2>1. Chaptered(document, document', c)
      <3>1. PICK e : e = document'
        OBVIOUS
      <3>2. Chaptered(document, e, c)
        BY <1>3, <1>6, <1>7, <3>1, ChapterAdded
      <3> QED
        BY <3>1, <3>2
    <2> QED
      BY <2>1 DEF Chaptered
  <1>9. \A h \in DOMAIN chapter_refs' : chapter_refs'[h] \in Refs
    <2>1. GroupRef(Len(document.groups)) \in Refs
      BY <1>8 DEF GroupRef, Refs
    <2> QED
      BY <1>1, <1>3, <2>1 DEF Foldable
  <1>10. Foldable'
    BY <1>2, <1>3, <1>8, <1>9 DEF Foldable
  <1>11. DOMAIN chapter_refs' \subseteq Hrefs
    BY <1>1 DEF FoldInv
  <1>12. Running /\ source_hash' = source_hash /\ cover_href' \in Hrefs \cup {Empty}
    BY <1>2 DEF Running, FoldInv
  <1>13. Emit(c, "walk") /\ c \in Event /\ c.type # "status"
    BY <1>1, <1>5, <1>6
  <1> QED
    BY <1>10, <1>11, <1>12, <1>13, FoldKept

\* FoldInv: EmitResource.
LEMMA FoldResource == FoldInv /\ EmitResource => FoldInv'
  <1> SUFFICES ASSUME FoldInv, EmitResource PROVE FoldInv'
    OBVIOUS
  <1>1. PICK href, image, c :
          /\ href \in Hrefs /\ image \in BOOLEAN
          /\ c = [type |-> "resource", href |-> href, image |-> image]
          /\ document' = IF image THEN AddPicture(document, BodyRef, href) ELSE document
          /\ Emit(c, "walk")
    BY DEF EmitResource
  <1>2. /\ phase \in {"navigation", "overlays", "walk"}
        /\ UNCHANGED <<cover_href, source_hash, chapter_refs, outline, overlays>>
    BY DEF EmitResource, Walking
  <1>3. Linked(document) /\ HasFields(document) /\ Foldable
    BY DEF FoldInv, Foldable
  <1>4. c \in Event /\ c.type # "status"
    BY <1>1, EventTypes
  <1>5. /\ Linked(document') /\ HasFields(document')
        /\ document'.outline = document.outline /\ document'.media = document.media
        /\ document'.binary_hash = document.binary_hash
    <2>1. CASE image
      <3>1. document' = AddPicture(document, BodyRef, href) /\ IsParent(document, BodyRef)
        BY <1>1, <2>1 DEF IsParent
      <3>2. Pictured(document, document', BodyRef, href)
        <4>1. PICK e : e = document'
          OBVIOUS
        <4>2. Pictured(document, e, BodyRef, href)
          BY <1>1, <1>3, <3>1, <4>1, PictureAdded
        <4> QED
          BY <4>1, <4>2
      <3> QED
        BY <3>2 DEF Pictured
    <2>2. CASE ~image
      <3>1. document' = document
        BY <1>1, <2>2
      <3> QED
        BY <1>3, <3>1
    <2> QED
      BY <2>1, <2>2
  <1>6. Foldable' /\ DOMAIN chapter_refs' \subseteq Hrefs
    BY <1>2, <1>3, <1>5 DEF Foldable, FoldInv
  <1>7. Running /\ source_hash' = source_hash /\ cover_href' \in Hrefs \cup {Empty}
    BY <1>2 DEF Running, FoldInv
  <1>8. Emit(c, "walk")
    BY <1>1
  <1> QED
    BY <1>4, <1>6, <1>7, <1>8, FoldKept

\* What the fold is once it was taken.
LEMMA Taken ==
    ASSUME Take
    PROVE  /\ Foldable' /\ DOMAIN chapter_refs' \subseteq Hrefs
           /\ outline' = <<>> /\ overlays' = <<>> /\ chapter_refs' = <<>>
           /\ cover_href' \in Hrefs \cup {Empty} /\ source_hash' = source_hash
           /\ document' = Skeleton
  <1>1. /\ document' = Skeleton /\ cover_href' = Empty /\ chapter_refs' = <<>> /\ outline' = <<>>
        /\ overlays' = <<>> /\ source_hash' = source_hash
    BY DEF Take
  <1>2. DOMAIN chapter_refs' = {} /\ overlays' \in Seq(Overlays)
    BY <1>1
  <1> QED
    BY <1>1, <1>2, SkeletonLinked DEF Foldable

\* FoldInv: EmitStatus.
LEMMA FoldStatus == FoldInv /\ EmitStatus => FoldInv'
  <1> SUFFICES ASSUME FoldInv, EmitStatus PROVE FoldInv'
    OBVIOUS
  <1> DEFINE e == ProjectOverlays(ProjectOutline(document))
  <1>1. /\ Walking /\ Take /\ folded' = Append(folded, [type |-> "status"])
        /\ \/ phase' = "gone" /\ UNCHANGED <<delivered, received>>
           \/ /\ received' = <<e>>
              /\ \/ phase' = "gone" /\ UNCHANGED delivered
                 \/ phase' = "done" /\ delivered' = delivered + 1
    BY DEF EmitStatus
  <1>2. Complete(e)
    <2>1. IsProjected(e)
      BY Projected DEF FoldInv
    <2>2. e.binary_hash \in Nat
      BY <2>1 DEF IsProjected, FoldInv, Foldable
    <2> QED
      BY <2>1, <2>2 DEF IsProjected, Complete
  <1> HIDE DEF e
  <1>3. /\ Foldable' /\ DOMAIN chapter_refs' \subseteq Hrefs
        /\ outline' = <<>> /\ overlays' = <<>> /\ chapter_refs' = <<>>
        /\ cover_href' \in Hrefs \cup {Empty} /\ source_hash' = source_hash
    BY <1>1, Taken
  <1>4. folded' \in Seq(Event) /\ Len(folded') = Len(folded) + 1 /\ Len(folded) \in Nat
    BY <1>1, EventTypes, NameAdded DEF FoldInv
  <1>5. Running
    BY <1>1 DEF Walking, Running
  <1>6. received = <<>> /\ delivered = Len(folded)
    BY <1>5 DEF FoldInv
  <1>7. phase' \in Phases /\ ~Running' /\ delivered' \in 0..Len(folded')
    BY <1>1, <1>4, <1>6 DEF Phases, Running
  <1>8. received' = <<>> \/ received' = <<e>>
    BY <1>1, <1>6
  <1>9. source_hash' \in {0, Hash}
    BY <1>3 DEF FoldInv
  <1> QED
    BY <1>2, <1>3, <1>4, <1>7, <1>8, <1>9 DEF FoldInv

\* FoldInv is inductive.
LEMMA FoldStep == FoldInv /\ [Next]_vars => FoldInv'
  <1> SUFFICES ASSUME FoldInv, [Next]_vars PROVE FoldInv'
    OBVIOUS
  <1>1. CASE UNCHANGED vars
    <2>1. /\ UNCHANGED <<phase, folded, delivered, received>>
          /\ UNCHANGED <<document, cover_href, source_hash, chapter_refs, outline, overlays>>
      BY <1>1 DEF vars, fold
    <2>2. (Foldable' <=> Foldable) /\ (NoStatus' <=> NoStatus) /\ (Running' <=> Running)
      BY <2>1 DEF Foldable, NoStatus, Running
    <2> QED
      BY <2>1, <2>2 DEF FoldInv
  <1> QED
    BY <1>1, FoldHash, FoldInfo, FoldNavigation, FoldOverlay, FoldChapter, FoldResource, FoldStatus DEF Next

\* The invariant at hand.
LEMMA FoldTypeOK == FoldInv => TypeOK
  <1> SUFFICES ASSUME FoldInv PROVE TypeOK
    OBVIOUS
  <1>1. Len(received) <= 1
    <2>1. PICK d : received = <<>> \/ received = <<d>>
      BY DEF FoldInv
    <2>2. Len(<<>>) = 0 /\ Len(<<d>>) = 1
      OBVIOUS
    <2>3. PICK n : n = Len(received)
      OBVIOUS
    <2>4. n = 0 \/ n = 1
      BY <2>1, <2>2, <2>3, Zenon
    <2>5. n <= 1
      BY <2>4
    <2> QED
      BY <2>3, <2>5, Zenon
  <1>2. \A d \in Documents : Complete(d)
    <2>1. Complete(document)
      <3>1. document.outline = <<>> /\ <<>> \in Seq(OutlineEntry)
        BY DEF FoldInv, Foldable
      <3> QED
        BY <3>1 DEF FoldInv, Foldable, Complete
    <2>2. \A i \in DOMAIN received : Complete(received[i])
      BY DEF FoldInv
    <2> QED
      BY <2>1, <2>2 DEF Documents
  <1>3. /\ \A d \in Documents :
           /\ d.groups \in Seq(GroupItem)
           /\ d.pictures \in Seq(PictureItem)
           /\ d.outline \in Seq(OutlineEntry)
           /\ {d.binary_hash, d.media} \subseteq Nat
    BY <1>2 DEF Complete, Linked
  <1>4. Folded("status") # <<>> => outline = <<>> /\ overlays = <<>> /\ chapter_refs = <<>>
    <2>1. CASE NoStatus
      <3>1. Folded("status") = Chosen(folded, {})
        <4>1. {i \in DOMAIN folded : folded[i].type = "status"} = {}
          BY <2>1 DEF NoStatus
        <4> QED
          BY <4>1 DEF Folded
      <3>2. Cardinality({}) = 0 /\ {} \in SUBSET DOMAIN folded /\ folded \in Seq(Event)
        BY FS_EmptySet DEF FoldInv
      <3>3. Chosen(folded, {}) \in Seq(Event) /\ Len(Chosen(folded, {})) = 0
        BY <3>2, ChosenItems
      <3>4. Folded("status") = <<>>
        BY <3>1, <3>3, EmptySeq
      <3> QED
        BY <3>4
    <2> QED
      BY <2>1 DEF FoldInv
  <1> QED
    BY <1>1, <1>3, <1>4 DEF TypeOK, FoldInv, Foldable, Phases, Overlays

\* FoldInv makes the documents safe to merge.
LEMMA FoldMakesMergeSafe == FoldInv => MergeSafe
  <1> SUFFICES ASSUME FoldInv PROVE MergeSafe
    OBVIOUS
  <1>1. \A d \in Documents : Linked(d)
    BY DEF FoldInv, Foldable, Documents, Complete
  <1> QED
    BY <1>1, FoldTypeOK, LinkedSafe DEF MergeSafe

\* Whatever the stream, the document the fold builds and the one it gives away
\* are safe to merge: typed, without an integrity error, every item listed once
\* and by the parent it names.
THEOREM FoldIsMergeSafe == Spec => []MergeSafe
  <1> QED
    BY FoldStart, FoldStep, FoldMakesMergeSafe, PTL DEF Spec

-----------------------------------------------------------------------------
(* What the document tells of the stream.                                  *)

\* The events that have an item, and those of them that are pictures.
Items == Chosen(folded, {i \in DOMAIN folded : HasItem(folded[i])})
Images == Chosen(Items, {i \in DOMAIN Items : Items[i].image})

\* What the event just folded adds to the lists of events.
ListsGrow(e) ==
    /\ \A t : e.type = t => Folded(t)' = Append(Folded(t), e)
    /\ \A t : e.type # t => Folded(t)' = Folded(t)
    /\ HasItem(e) => Items' = Append(Items, e)
    /\ ~HasItem(e) => Items' = Items
    /\ HasItem(e) /\ e.image => Images' = Append(Images, e)
    /\ ~HasItem(e) \/ ~e.image => Images' = Images

\* Choosing from a longer list of events.
LEMMA PickedMore == \A s \in Seq(Event), x \in Event : \A G : IsPickedMore(s, x, G)
  <1> SUFFICES ASSUME NEW s \in Seq(Event), NEW x \in Event, NEW G PROVE IsPickedMore(s, x, G)
    OBVIOUS
  <1> QED
    BY PickedGrows

\* The lists of events are lists of events.
LEMMA ListTypes ==
    ASSUME folded \in Seq(Event)
    PROVE  /\ \A t : Folded(t) \in Seq(Event)
           /\ Items \in Seq(Event) /\ Images \in Seq(Event)
  <1>1. Items \in Seq(Event)
    <2> DEFINE S == {i \in DOMAIN folded : HasItem(folded[i])}
    <2>1. S \in SUBSET DOMAIN folded /\ Items = Chosen(folded, S)
      BY DEF Items
    <2> HIDE DEF S
    <2> QED
      BY <2>1, ChosenItems
  <1>2. Images \in Seq(Event)
    <2> DEFINE S == {i \in DOMAIN Items : Items[i].image}
    <2>1. S \in SUBSET DOMAIN Items /\ Images = Chosen(Items, S)
      BY DEF Images
    <2> HIDE DEF S
    <2> QED
      BY <1>1, <2>1, ChosenItems
  <1> QED
    BY <1>1, <1>2, FoldedType

\* An event is added to the lists it belongs to, at their ends.
LEMMA ListsGrown ==
    ASSUME folded \in Seq(Event), NEW e \in Event, folded' = Append(folded, e)
    PROVE  ListsGrow(e)
  <1> DEFINE H == {x \in Event : HasItem(x)}
             G == {x \in Event : x.image}
  <1>1. \A s \in Seq(Event) : Chosen(s, {i \in DOMAIN s : HasItem(s[i])}) = Picked(s, H)
    <2> SUFFICES ASSUME NEW s \in Seq(Event)
                 PROVE  Chosen(s, {i \in DOMAIN s : HasItem(s[i])}) = Picked(s, H)
      OBVIOUS
    <2>1. {i \in DOMAIN s : HasItem(s[i])} = {i \in DOMAIN s : s[i] \in H}
      OBVIOUS
    <2> QED
      BY <2>1 DEF Picked
  <1>2. \A s \in Seq(Event) : Chosen(s, {i \in DOMAIN s : s[i].image}) = Picked(s, G)
    <2> SUFFICES ASSUME NEW s \in Seq(Event)
                 PROVE  Chosen(s, {i \in DOMAIN s : s[i].image}) = Picked(s, G)
      OBVIOUS
    <2>1. {i \in DOMAIN s : s[i].image} = {i \in DOMAIN s : s[i] \in G}
      OBVIOUS
    <2> QED
      BY <2>1 DEF Picked
  <1>3. \A t : \A s \in Seq(Event) :
          Chosen(s, {i \in DOMAIN s : s[i].type = t}) = Picked(s, {x \in Event : x.type = t})
    <2> SUFFICES ASSUME NEW t, NEW s \in Seq(Event)
                 PROVE  Chosen(s, {i \in DOMAIN s : s[i].type = t}) = Picked(s, {x \in Event : x.type = t})
      OBVIOUS
    <2>1. {i \in DOMAIN s : s[i].type = t} = {i \in DOMAIN s : s[i] \in {x \in Event : x.type = t}}
      OBVIOUS
    <2> QED
      BY <2>1 DEF Picked
  <1>4. folded' \in Seq(Event)
    OBVIOUS
  <1>5. Items \in Seq(Event)
    BY ListTypes
  <1>6. /\ e \in H <=> HasItem(e)
        /\ e \in G <=> e.image
    OBVIOUS
  <1>7. Items = Picked(folded, H) /\ Items' = Picked(Append(folded, e), H)
    BY <1>1, <1>4 DEF Items
  <1> HIDE DEF H, G
  <1>8. (HasItem(e) => Items' = Append(Items, e)) /\ (~HasItem(e) => Items' = Items)
    <2>1. IsPickedMore(folded, e, H)
      BY PickedMore
    <2> QED
      BY <1>6, <1>7, <2>1, Zenon DEF IsPickedMore
  <1>9. Images = Picked(Items, G) /\ Images' = Picked(Items', G)
    <2>1. Items' \in Seq(Event)
      <3>1. Append(Items, e) \in Seq(Event)
        BY <1>5
      <3> QED
        BY <1>5, <1>8, <3>1, Zenon
    <2> QED
      BY <1>2, <1>5, <2>1 DEF Images
  <1>10. /\ HasItem(e) /\ e.image => Images' = Append(Images, e)
         /\ ~HasItem(e) \/ ~e.image => Images' = Images
    <2>1. IsPickedMore(Items, e, G)
      BY <1>5, PickedMore
    <2>2. CASE HasItem(e)
      <3>1. Images' = Picked(Append(Items, e), G)
        BY <1>8, <1>9, <2>2, Zenon
      <3> QED
        BY <1>6, <1>9, <2>1, <2>2, <3>1, Zenon DEF IsPickedMore
    <2>3. CASE ~HasItem(e)
      BY <1>8, <1>9, <2>3, Zenon
    <2> QED
      BY <2>2, <2>3, Zenon
  <1>11. ASSUME NEW t
         PROVE  (e.type = t => Folded(t)' = Append(Folded(t), e)) /\ (e.type # t => Folded(t)' = Folded(t))
    <2> DEFINE F == {x \in Event : x.type = t}
    <2>1. Folded(t) = Picked(folded, F) /\ Folded(t)' = Picked(Append(folded, e), F)
      BY <1>3, <1>4 DEF Folded
    <2>2. e \in F <=> e.type = t
      OBVIOUS
    <2> HIDE DEF F
    <2>3. IsPickedMore(folded, e, F)
      BY PickedMore
    <2> QED
      BY <2>1, <2>2, <2>3, Zenon DEF IsPickedMore
  <1> QED
    BY <1>8, <1>10, <1>11 DEF ListsGrow

\* Chapters and groups, images and pictures, items and the body's children.
GroupsMatch(groups, chapters) ==
    /\ Len(groups) = Len(chapters)
    /\ \A i \in DOMAIN groups : groups[i].name = chapters[i].href
PicturesMatch(pictures, images) ==
    /\ Len(pictures) = Len(images)
    /\ \A i \in DOMAIN pictures : pictures[i].uri = images[i].href
ChildrenMatch(children, items) ==
    /\ Len(children) = Len(items)
    /\ \A i \in DOMAIN children : (children[i][1] = "groups") <=> (items[i].type = "chapter")
CoversMarked(pictures, href) ==
    \A i \in DOMAIN pictures : pictures[i].cover <=> pictures[i].uri = href

Told(d) ==
    /\ GroupsMatch(d.groups, Folded("chapter"))
    /\ PicturesMatch(d.pictures, Images)
    /\ ChildrenMatch(d.body.children, Items)

\* What the first event said of the book.
Booked(d) ==
    /\ folded # <<>> /\ folded[1].info \in Infos
    /\ d.binary_hash = Hash
    /\ d.source_meta = SourceMeta(folded[1].info) /\ d.body.meta = BodyMeta(folded[1].info)
    /\ CoversMarked(d.pictures, folded[1].info.cover_href)

\* The document tells of the events so far, and the one given away of all.
TellInv ==
    /\ Running =>
         /\ phase # "hash" => source_hash = Hash
         /\ phase \in {"hash", "info"} => folded = <<>> /\ document = Skeleton
         /\ phase \notin {"hash", "info"} => Booked(document) /\ cover_href = folded[1].info.cover_href
         /\ Told(document)
    /\ \A n \in DOMAIN received :
         Told(received[n]) /\ Booked(received[n]) /\ delivered >= Len(folded) - 1

\* One group, one picture, one child more.
LEMMA GroupMatched ==
    ASSUME NEW groups \in Seq(GroupItem), NEW chapters \in Seq(Event), GroupsMatch(groups, chapters),
           NEW more \in Seq(GroupItem), Len(more) = Len(groups) + 1,
           \A i \in DOMAIN groups : more[i].name = groups[i].name,
           NEW c \in Event, more[Len(groups) + 1].name = c.href
    PROVE  GroupsMatch(more, Append(chapters, c))
  <1>1. /\ Len(Append(chapters, c)) = Len(chapters) + 1
        /\ DOMAIN chapters = 1..Len(chapters) /\ Len(chapters) \in Nat
        /\ \A i \in DOMAIN chapters : Append(chapters, c)[i] = chapters[i]
        /\ Append(chapters, c)[Len(chapters) + 1] = c
    BY NameAdded
  <1>2. DOMAIN more = 1..Len(groups) + 1 /\ DOMAIN groups = 1..Len(groups) /\ Len(groups) = Len(chapters)
    BY DEF GroupsMatch
  <1>3. \A i \in DOMAIN more : i \in DOMAIN groups \/ i = Len(groups) + 1
    BY <1>1, <1>2
  <1>4. \A i \in DOMAIN groups : groups[i].name = chapters[i].href
    BY DEF GroupsMatch
  <1>5. \A i \in DOMAIN more : more[i].name = Append(chapters, c)[i].href
    BY <1>1, <1>2, <1>3, <1>4
  <1> QED
    BY <1>1, <1>2, <1>5 DEF GroupsMatch

\* One picture more.
LEMMA PictureMatched ==
    ASSUME NEW pictures \in Seq(PictureItem), NEW images \in Seq(Event), PicturesMatch(pictures, images),
           NEW p \in PictureItem, NEW c \in Event, p.uri = c.href
    PROVE  PicturesMatch(Append(pictures, p), Append(images, c))
  <1>1. /\ Len(Append(images, c)) = Len(images) + 1
        /\ DOMAIN images = 1..Len(images) /\ Len(images) \in Nat
        /\ \A i \in DOMAIN images : Append(images, c)[i] = images[i]
        /\ Append(images, c)[Len(images) + 1] = c
    BY NameAdded
  <1>2. /\ Len(Append(pictures, p)) = Len(pictures) + 1
        /\ DOMAIN pictures = 1..Len(pictures) /\ DOMAIN Append(pictures, p) = 1..Len(pictures) + 1
        /\ \A i : i \in DOMAIN Append(pictures, p) <=> i \in DOMAIN pictures \/ i = Len(pictures) + 1
        /\ \A i \in DOMAIN pictures : Append(pictures, p)[i] = pictures[i]
        /\ Append(pictures, p)[Len(pictures) + 1] = p
    BY NameAdded
  <1>3. Len(pictures) = Len(images) /\ \A i \in DOMAIN pictures : pictures[i].uri = images[i].href
    BY DEF PicturesMatch
  <1>4. \A i \in DOMAIN Append(pictures, p) : Append(pictures, p)[i].uri = Append(images, c)[i].href
    BY <1>1, <1>2, <1>3
  <1> QED
    BY <1>1, <1>2, <1>3, <1>4 DEF PicturesMatch

\* One child more.
LEMMA ChildMatched ==
    ASSUME NEW children \in Seq(Refs), NEW items \in Seq(Event), ChildrenMatch(children, items),
           NEW r \in Refs, NEW c \in Event, r[1] = "groups" <=> c.type = "chapter"
    PROVE  ChildrenMatch(Append(children, r), Append(items, c))
  <1>1. /\ Len(Append(items, c)) = Len(items) + 1
        /\ DOMAIN items = 1..Len(items) /\ Len(items) \in Nat
        /\ \A i \in DOMAIN items : Append(items, c)[i] = items[i]
        /\ Append(items, c)[Len(items) + 1] = c
    BY NameAdded
  <1>2. /\ Len(Append(children, r)) = Len(children) + 1
        /\ DOMAIN children = 1..Len(children)
        /\ \A i : i \in DOMAIN Append(children, r) <=> i \in DOMAIN children \/ i = Len(children) + 1
        /\ \A i \in DOMAIN children : Append(children, r)[i] = children[i]
        /\ Append(children, r)[Len(children) + 1] = r
    BY NameAdded
  <1>3. /\ Len(children) = Len(items)
        /\ \A i \in DOMAIN children : (children[i][1] = "groups") <=> (items[i].type = "chapter")
    BY DEF ChildrenMatch
  <1>4. \A i \in DOMAIN Append(children, r) :
          (Append(children, r)[i][1] = "groups") <=> (Append(items, c)[i].type = "chapter")
    BY <1>1, <1>2, <1>3
  <1> QED
    BY <1>1, <1>2, <1>3, <1>4 DEF ChildrenMatch

\* One picture more, the cover or not.
LEMMA CoverMarked ==
    ASSUME NEW pictures \in Seq(PictureItem), NEW href \in Hrefs \cup {Empty}, CoversMarked(pictures, href),
           NEW p \in PictureItem, p.cover = (href # Empty /\ p.uri = href)
    PROVE  CoversMarked(Append(pictures, p), href)
  <1>1. /\ \A i : i \in DOMAIN Append(pictures, p) <=> i \in DOMAIN pictures \/ i = Len(pictures) + 1
        /\ \A i \in DOMAIN pictures : Append(pictures, p)[i] = pictures[i]
        /\ Append(pictures, p)[Len(pictures) + 1] = p
    BY NameAdded
  <1>2. p.uri # Empty
    BY FoldAssumption DEF PictureItem
  <1>3. p.cover <=> p.uri = href
    BY <1>2
  <1> QED
    BY <1>1, <1>3 DEF CoversMarked

\* TellInv holds at the start.
LEMMA TellStart == Init => TellInv
  <1> SUFFICES ASSUME Init PROVE TellInv
    OBVIOUS
  <1>1. phase = "hash" /\ folded = <<>> /\ document = Skeleton /\ received = <<>>
    BY DEF Init
  <1>2. Told(document)
    <2>1. folded \in Seq(Event) /\ \A S : S \in SUBSET DOMAIN folded => S = {}
      BY <1>1
    <2>2. Chosen(<<>>, {}) = <<>>
      <3>1. Cardinality({}) = 0
        BY FS_EmptySet
      <3> QED
        BY <3>1 DEF Chosen
    <2>3. Folded("chapter") = <<>>
      <3>1. {i \in DOMAIN folded : folded[i].type = "chapter"} = {}
        BY <1>1
      <3> QED
        BY <1>1, <2>2, <3>1, Zenon DEF Folded
    <2>4. Items = <<>>
      <3>1. {i \in DOMAIN folded : HasItem(folded[i])} = {}
        BY <1>1
      <3> QED
        BY <1>1, <2>2, <3>1, Zenon DEF Items
    <2>5. Images = <<>>
      <3>1. {i \in DOMAIN Items : Items[i].image} = {}
        BY <2>4
      <3> QED
        BY <2>2, <2>4, <3>1, Zenon DEF Images
    <2>6. document.groups = <<>> /\ document.pictures = <<>> /\ document.body.children = <<>>
      BY <1>1, SkeletonLinked
    <2> QED
      BY <2>3, <2>4, <2>5, <2>6 DEF Told, GroupsMatch, PicturesMatch, ChildrenMatch
  <1> QED
    BY <1>1, <1>2 DEF TellInv

\* An event folded after the first one.
LEMMA TellKept ==
    ASSUME FoldInv, TellInv, Running, phase \notin {"hash", "info"},
           NEW e \in Event, e.type # "status",
           NEW next \in {"navigation", "overlays", "walk"}, Emit(e, next),
           cover_href' = cover_href, source_hash' = source_hash, Told(document)',
           document'.binary_hash = document.binary_hash, document'.source_meta = document.source_meta,
           document'.body.meta = document.body.meta,
           CoversMarked(document'.pictures, cover_href)
    PROVE  TellInv'
  <1>1. /\ folded' = Append(folded, e) /\ phase' \in {next, "gone"} /\ received' = <<>>
    BY Emitted
  <1>2. /\ folded # <<>> /\ folded[1].info \in Infos /\ source_hash = Hash
        /\ document.binary_hash = Hash
        /\ document.source_meta = SourceMeta(folded[1].info) /\ document.body.meta = BodyMeta(folded[1].info)
        /\ cover_href = folded[1].info.cover_href
    BY DEF TellInv, Booked
  <1>3. folded' # <<>> /\ folded'[1] = folded[1]
    <2>1. folded \in Seq(Event)
      BY DEF FoldInv
    <2>2. /\ DOMAIN folded = 1..Len(folded) /\ Len(folded) \in Nat
          /\ \A i \in DOMAIN folded : folded'[i] = folded[i]
          /\ Len(folded') = Len(folded) + 1
      BY <1>1, <2>1, NameAdded
    <2>3. Len(folded) # 0
      BY <1>2, <2>1, EmptySeq
    <2> QED
      BY <2>2, <2>3
  <1>4. Booked(document)' /\ cover_href' = folded'[1].info.cover_href
    BY <1>2, <1>3 DEF Booked
  <1>5. phase' \notin {"hash", "info"}
    BY <1>1
  <1>6. source_hash' = Hash /\ received' = <<>>
    BY <1>1, <1>2
  <1> QED
    BY <1>4, <1>5, <1>6 DEF TellInv

\* TellInv: EmitInfo.
LEMMA TellInfo == FoldInv /\ TellInv /\ EmitInfo => TellInv'
  <1> SUFFICES ASSUME FoldInv, TellInv, EmitInfo PROVE TellInv'
    OBVIOUS
  <1>1. PICK info, e :
          /\ info \in Infos
          /\ e = [type |-> "info", info |-> info]
          /\ cover_href' = info.cover_href
          /\ document' = [document EXCEPT !.name = info.title, !.binary_hash = source_hash,
                                         !.source_meta = SourceMeta(info), !.body.meta = BodyMeta(info)]
          /\ Emit(e, "navigation")
    BY DEF EmitInfo
  <1>2. phase = "info" /\ Running /\ source_hash' = source_hash
    BY DEF EmitInfo, Running
  <1>3. source_hash = Hash /\ folded = <<>> /\ document = Skeleton /\ Told(document)
    BY <1>2 DEF TellInv
  <1>4. HasFields(document)
    BY DEF FoldInv, Foldable
  <1>5. /\ document'.groups = document.groups /\ document'.pictures = document.pictures
        /\ document'.body.children = document.body.children
        /\ document'.binary_hash = Hash /\ document'.source_meta = SourceMeta(info)
        /\ document'.body.meta = BodyMeta(info)
    BY <1>1, <1>3, <1>4 DEF HasFields
  <1>6. e \in Event /\ e.type # "status" /\ e.type = "info" /\ ~HasItem(e) /\ e.info = info
    BY <1>1, EventTypes DEF HasItem
  <1>7. Emit(e, "navigation")
    BY <1>1
  <1>8. folded' = Append(folded, e) /\ phase' \in {"navigation", "gone"} /\ received' = <<>>
    BY <1>2, <1>6, <1>7, Emitted
  <1>9. Told(document)'
    <2>1. ListsGrow(e)
      BY <1>6, <1>8, ListsGrown DEF FoldInv
    <2>2. Folded("chapter")' = Folded("chapter") /\ Items' = Items /\ Images' = Images
      BY <1>6, <2>1 DEF ListsGrow
    <2> QED
      BY <1>3, <1>5, <2>2 DEF Told
  <1>10. folded' # <<>> /\ folded'[1] = e
    BY <1>3, <1>8
  <1>11. document'.pictures = <<>>
    BY <1>3, <1>5, SkeletonLinked
  <1>12. Booked(document)'
    BY <1>1, <1>5, <1>6, <1>10, <1>11 DEF Booked, CoversMarked
  <1>13. cover_href' = folded'[1].info.cover_href
    BY <1>1, <1>6, <1>10
  <1> QED
    BY <1>2, <1>3, <1>8, <1>9, <1>12, <1>13 DEF TellInv

\* TellInv: SetSourceHash.
LEMMA TellHash == FoldInv /\ TellInv /\ SetSourceHash => TellInv'
  <1> SUFFICES ASSUME FoldInv, TellInv, SetSourceHash PROVE TellInv'
    OBVIOUS
  <1>1. /\ phase = "hash" /\ phase' = "info" /\ source_hash' = Hash
        /\ UNCHANGED <<document, cover_href, chapter_refs, outline, overlays, folded, delivered, received>>
    BY DEF SetSourceHash
  <1>2. Running
    BY <1>1 DEF Running
  <1>3. folded = <<>> /\ document = Skeleton /\ Told(document) /\ received = <<>>
    BY <1>1, <1>2 DEF TellInv, FoldInv
  <1>4. Told(document)'
    <2>1. Folded("chapter")' = Folded("chapter") /\ Items' = Items
      BY <1>1 DEF Folded, Items
    <2>2. Images' = Images
      BY <2>1 DEF Images
    <2> QED
      BY <1>1, <1>3, <2>1, <2>2 DEF Told
  <1> QED
    BY <1>1, <1>3, <1>4 DEF TellInv

\* TellInv: EmitNavigation and EmitOverlay add nothing.
LEMMA TellHeld == FoldInv /\ TellInv /\ (EmitNavigation \/ EmitOverlay) => TellInv'
  <1> SUFFICES ASSUME FoldInv, TellInv, EmitNavigation \/ EmitOverlay PROVE TellInv'
    OBVIOUS
  <1>1. PICK e \in Event, next \in {"navigation", "overlays", "walk"} :
          e.type \in {"navigation", "overlay"} /\ Emit(e, next)
    <2>1. CASE EmitNavigation
      BY <2>1, EventTypes DEF EmitNavigation
    <2>2. CASE EmitOverlay
      <3>1. PICK href \in Hrefs, end \in EndTimes : Emit([type |-> "overlay", href |-> href, end |-> end], "overlays")
        BY <2>2 DEF EmitOverlay
      <3>2. [type |-> "overlay", href |-> href, end |-> end] \in Event
        BY EventTypes
      <3>3. [type |-> "overlay", href |-> href, end |-> end].type = "overlay"
        OBVIOUS
      <3> QED
        BY <3>1, <3>2, <3>3
    <2> QED
      BY <2>1, <2>2
  <1>2. /\ phase \in {"navigation", "overlays"} /\ document' = document
        /\ cover_href' = cover_href /\ source_hash' = source_hash
    BY DEF EmitNavigation, EmitOverlay
  <1>3. Running /\ phase \notin {"hash", "info"}
    BY <1>2 DEF Running
  <1>4. Told(document) /\ CoversMarked(document.pictures, cover_href)
    BY <1>3 DEF TellInv, Booked
  <1>5. ~HasItem(e) /\ e.type # "status" /\ Emit(e, next)
    BY <1>1 DEF HasItem
  <1>6. folded' = Append(folded, e)
    BY <1>1 DEF Emit
  <1>7. Told(document)'
    <2>1. ListsGrow(e)
      BY <1>6, ListsGrown DEF FoldInv
    <2>2. Folded("chapter")' = Folded("chapter") /\ Items' = Items /\ Images' = Images
      BY <1>1, <1>5, <2>1 DEF ListsGrow
    <2> QED
      BY <1>2, <1>4, <2>2 DEF Told
  <1> QED
    BY <1>2, <1>3, <1>4, <1>5, <1>7, TellKept

\* What a chapter adds to what the document tells.
LEMMA ChapterTold ==
    ASSUME FoldInv, TellInv, Running, phase \notin {"hash", "info"},
           NEW c \in Chapter, c \in Event, folded' = Append(folded, c), document' = AddChapter(document, c)
    PROVE  /\ Told(document)'
           /\ document'.binary_hash = document.binary_hash /\ document'.source_meta = document.source_meta
           /\ document'.body.meta = document.body.meta
           /\ CoversMarked(document'.pictures, cover_href)
  <1>1. /\ folded \in Seq(Event) /\ Linked(document) /\ HasFields(document) /\ Told(document)
        /\ cover_href \in Hrefs \cup {Empty} /\ CoversMarked(document.pictures, cover_href)
    BY DEF FoldInv, Foldable, TellInv, Booked
  <1>2. c.href \in Hrefs /\ c.spine_index \in Nat /\ c.type = "chapter" /\ HasItem(c)
    BY DEF Chapter, HasItem
  <1>3. PICK e : e = AddChapter(document, c)
    OBVIOUS
  <1>4. /\ Linked(e)
        /\ e.binary_hash = document.binary_hash /\ e.source_meta = document.source_meta
        /\ e.body.meta = document.body.meta
        /\ Len(document.groups) \in Nat /\ Len(e.groups) = Len(document.groups) + 1
        /\ \A i \in DOMAIN document.groups : e.groups[i].name = document.groups[i].name
        /\ e.groups[Len(document.groups) + 1].name = c.href
        /\ c.image =>
             \E p \in PictureItem : /\ e.pictures = Append(document.pictures, p) /\ p.uri = c.href
                                    /\ p.cover = (cover_href # Empty /\ c.href = cover_href)
        /\ ~c.image => e.pictures = document.pictures
        /\ e.body.children = Append(document.body.children, GroupRef(Len(document.groups)))
    <2>1. Chaptered(document, e, c)
      BY <1>1, <1>2, <1>3, ChapterAdded
    <2> QED
      BY <2>1 DEF Chaptered
  <1>5. /\ document.groups \in Seq(GroupItem) /\ e.groups \in Seq(GroupItem)
        /\ document.pictures \in Seq(PictureItem) /\ document.body.children \in Seq(Refs)
    BY <1>1, <1>4 DEF Linked
  <1>6. Folded("chapter") \in Seq(Event) /\ Items \in Seq(Event) /\ Images \in Seq(Event)
    BY <1>1, ListTypes
  <1>7. ListsGrow(c)
    BY <1>1, ListsGrown
  <1>8. Folded("chapter")' = Append(Folded("chapter"), c) /\ Items' = Append(Items, c)
    BY <1>2, <1>7 DEF ListsGrow
  <1>9. GroupsMatch(e.groups, Append(Folded("chapter"), c))
    <2>1. PICK f \in Seq(Event) : f = Folded("chapter")
      BY <1>6
    <2>2. GroupsMatch(document.groups, f)
      BY <1>1, <2>1 DEF Told
    <2>3. GroupsMatch(e.groups, Append(f, c))
      BY <1>2, <1>4, <1>5, <2>2, GroupMatched
    <2> QED
      BY <2>1, <2>3
  <1>10. ChildrenMatch(e.body.children, Append(Items, c))
    <2>1. PICK s \in Seq(Event) : s = Items
      BY <1>6
    <2>2. ChildrenMatch(document.body.children, s)
      BY <1>1, <2>1 DEF Told
    <2>3. PICK r \in Refs : r = GroupRef(Len(document.groups))
      BY <1>4 DEF GroupRef, Refs
    <2>4. r[1] = "groups" <=> c.type = "chapter"
      BY <1>2, <2>3 DEF GroupRef
    <2>5. ChildrenMatch(Append(document.body.children, r), Append(s, c))
      BY <1>5, <2>2, <2>4, ChildMatched
    <2> QED
      BY <1>4, <2>1, <2>3, <2>5
  <1>11. PicturesMatch(e.pictures, Images') /\ CoversMarked(e.pictures, cover_href)
    <2>1. PICK s \in Seq(Event) : s = Images
      BY <1>6
    <2>2. PicturesMatch(document.pictures, s)
      BY <1>1, <2>1 DEF Told
    <2>3. CASE c.image
      <3>1. PICK p \in PictureItem : /\ e.pictures = Append(document.pictures, p) /\ p.uri = c.href
                                     /\ p.cover = (cover_href # Empty /\ c.href = cover_href)
        BY <1>4, <2>3
      <3>2. PicturesMatch(Append(document.pictures, p), Append(s, c))
        BY <1>5, <2>2, <3>1, PictureMatched
      <3>3. CoversMarked(Append(document.pictures, p), cover_href)
        BY <1>1, <1>5, <3>1, CoverMarked
      <3>4. Images' = Append(Images, c)
        BY <1>2, <1>7, <2>3, Zenon DEF ListsGrow
      <3> QED
        BY <2>1, <3>1, <3>2, <3>3, <3>4
    <2>4. CASE ~c.image
      <3>1. Images' = Images /\ e.pictures = document.pictures
        BY <1>4, <1>7, <2>4, Zenon DEF ListsGrow
      <3> QED
        BY <1>1, <2>1, <2>2, <3>1
    <2> QED
      BY <2>3, <2>4
  <1>12. document' = e
    BY <1>3
  <1>13. Told(document)'
    BY <1>8, <1>9, <1>10, <1>11, <1>12 DEF Told
  <1> QED
    BY <1>4, <1>11, <1>12, <1>13

\* TellInv: EmitChapter.
LEMMA TellChapter == FoldInv /\ TellInv /\ EmitChapter => TellInv'
  <1> SUFFICES ASSUME FoldInv, TellInv, EmitChapter PROVE TellInv'
    OBVIOUS
  <1>1. PICK href, image, primary, c :
          /\ href \in Hrefs /\ image \in BOOLEAN /\ primary \in Primaries \cup {Empty}
          /\ c = [type |-> "chapter", href |-> href, image |-> image, primary |-> primary,
                  spine_index |-> Len(Folded("chapter"))]
          /\ document' = AddChapter(document, c)
          /\ Emit(c, "walk")
    BY DEF EmitChapter
  <1>2. phase \in {"navigation", "overlays", "walk"} /\ UNCHANGED <<cover_href, source_hash>>
    BY DEF EmitChapter, Walking
  <1>3. Running /\ phase \notin {"hash", "info"}
    BY <1>2 DEF Running
  <1>4. Len(Folded("chapter")) \in Nat
    BY FoldedType DEF FoldInv
  <1>5. c \in Chapter /\ c \in Event /\ c.type # "status"
    <2>1. primary \in Hrefs \cup {Empty}
      BY <1>1, FoldAssumption
    <2>2. [type |-> "chapter", href |-> href, image |-> image, primary |-> primary,
           spine_index |-> Len(Folded("chapter"))] \in Chapter
      BY <1>1, <1>4, <2>1, Zenon DEF Chapter
    <2> QED
      BY <1>1, <2>2 DEF Event
  <1>6. folded' = Append(folded, c) /\ document' = AddChapter(document, c)
    BY <1>1 DEF Emit
  <1>7. /\ Told(document)'
        /\ document'.binary_hash = document.binary_hash /\ document'.source_meta = document.source_meta
        /\ document'.body.meta = document.body.meta
        /\ CoversMarked(document'.pictures, cover_href)
    BY <1>3, <1>5, <1>6, ChapterTold
  <1>8. Emit(c, "walk")
    BY <1>1
  <1> QED
    BY <1>2, <1>3, <1>5, <1>7, <1>8, TellKept

\* What a picture of the body adds to what the document tells.
LEMMA PictureTold ==
    ASSUME FoldInv, TellInv, Running, phase \notin {"hash", "info"},
           NEW c \in Event, c.type = "resource", c.href \in Hrefs, c.image,
           folded' = Append(folded, c), document' = AddPicture(document, BodyRef, c.href)
    PROVE  /\ Told(document)'
           /\ document'.binary_hash = document.binary_hash /\ document'.source_meta = document.source_meta
           /\ document'.body.meta = document.body.meta
           /\ CoversMarked(document'.pictures, cover_href)
  <1>1. /\ folded \in Seq(Event) /\ Linked(document) /\ HasFields(document) /\ Told(document)
        /\ cover_href \in Hrefs \cup {Empty} /\ CoversMarked(document.pictures, cover_href)
    BY DEF FoldInv, Foldable, TellInv, Booked
  <1>2. HasItem(c)
    BY DEF HasItem
  <1>3. PICK e : e = AddPicture(document, BodyRef, c.href)
    OBVIOUS
  <1>4. IsParent(document, BodyRef)
    BY DEF IsParent
  <1>5. /\ Linked(e)
        /\ e.binary_hash = document.binary_hash /\ e.source_meta = document.source_meta
        /\ e.body.meta = document.body.meta
        /\ Len(e.groups) = Len(document.groups) /\ DOMAIN e.groups = DOMAIN document.groups
        /\ \A i \in DOMAIN document.groups : e.groups[i].name = document.groups[i].name
        /\ \E p \in PictureItem : /\ e.pictures = Append(document.pictures, p) /\ p.uri = c.href
                                  /\ p.cover = (cover_href # Empty /\ c.href = cover_href)
        /\ e.body.children = Append(document.body.children, PictureRef(Len(document.pictures)))
    <2>1. PICK href \in Hrefs : href = c.href
      OBVIOUS
    <2>2. Pictured(document, e, BodyRef, href)
      BY <1>1, <1>3, <1>4, <2>1, PictureAdded
    <2> QED
      BY <2>1, <2>2 DEF Pictured
  <1>6. document.pictures \in Seq(PictureItem) /\ document.body.children \in Seq(Refs)
    BY <1>1 DEF Linked
  <1>7. Folded("chapter") \in Seq(Event) /\ Items \in Seq(Event) /\ Images \in Seq(Event)
    BY <1>1, ListTypes
  <1>8. ListsGrow(c)
    BY <1>1, ListsGrown
  <1>9. Folded("chapter")' = Folded("chapter") /\ Items' = Append(Items, c)
    BY <1>2, <1>8 DEF ListsGrow
  <1>10. Images' = Append(Images, c)
    BY <1>2, <1>8, Zenon DEF ListsGrow
  <1>11. GroupsMatch(e.groups, Folded("chapter"))
    BY <1>1, <1>5 DEF Told, GroupsMatch
  <1>12. ChildrenMatch(e.body.children, Append(Items, c))
    <2>1. PICK s \in Seq(Event) : s = Items
      BY <1>7
    <2>2. ChildrenMatch(document.body.children, s)
      BY <1>1, <2>1 DEF Told
    <2>3. PICK r \in Refs : r = PictureRef(Len(document.pictures))
      <3>1. Len(document.pictures) \in Nat
        BY <1>6
      <3> QED
        BY <3>1 DEF PictureRef, Refs
    <2>4. r[1] = "groups" <=> c.type = "chapter"
      BY <2>3 DEF PictureRef
    <2>5. ChildrenMatch(Append(document.body.children, r), Append(s, c))
      BY <1>6, <2>2, <2>4, ChildMatched
    <2> QED
      BY <1>5, <2>1, <2>3, <2>5
  <1>13. PicturesMatch(e.pictures, Append(Images, c)) /\ CoversMarked(e.pictures, cover_href)
    <2>1. PICK s \in Seq(Event) : s = Images
      BY <1>7
    <2>2. PicturesMatch(document.pictures, s)
      BY <1>1, <2>1 DEF Told
    <2>3. PICK p \in PictureItem : /\ e.pictures = Append(document.pictures, p) /\ p.uri = c.href
                                   /\ p.cover = (cover_href # Empty /\ c.href = cover_href)
      BY <1>5
    <2>4. PicturesMatch(Append(document.pictures, p), Append(s, c))
      BY <1>6, <2>2, <2>3, PictureMatched
    <2>5. CoversMarked(Append(document.pictures, p), cover_href)
      BY <1>1, <1>6, <2>3, CoverMarked
    <2> QED
      BY <2>1, <2>3, <2>4, <2>5
  <1>14. document' = e
    BY <1>3
  <1>15. Told(document)'
    BY <1>9, <1>10, <1>11, <1>12, <1>13, <1>14 DEF Told
  <1> QED
    BY <1>5, <1>13, <1>14, <1>15

\* TellInv: EmitResource.
LEMMA TellResource == FoldInv /\ TellInv /\ EmitResource => TellInv'
  <1> SUFFICES ASSUME FoldInv, TellInv, EmitResource PROVE TellInv'
    OBVIOUS
  <1>1. PICK href, image, c :
          /\ href \in Hrefs /\ image \in BOOLEAN
          /\ c = [type |-> "resource", href |-> href, image |-> image]
          /\ document' = IF image THEN AddPicture(document, BodyRef, href) ELSE document
          /\ Emit(c, "walk")
    BY DEF EmitResource
  <1>2. phase \in {"navigation", "overlays", "walk"} /\ UNCHANGED <<cover_href, source_hash>>
    BY DEF EmitResource, Walking
  <1>3. Running /\ phase \notin {"hash", "info"}
    BY <1>2 DEF Running
  <1>4. c \in Event /\ c.type = "resource" /\ c.type # "status" /\ c.href = href /\ c.image = image
    BY <1>1, EventTypes
  <1>5. folded' = Append(folded, c)
    BY <1>1 DEF Emit
  <1>6. /\ Told(document)'
        /\ document'.binary_hash = document.binary_hash /\ document'.source_meta = document.source_meta
        /\ document'.body.meta = document.body.meta
        /\ CoversMarked(document'.pictures, cover_href)
    <2>1. CASE image
      <3>1. document' = AddPicture(document, BodyRef, c.href) /\ c.href \in Hrefs
        BY <1>1, <1>4, <2>1
      <3>2. c.image
        BY <1>4, <2>1
      <3> QED
        BY <1>3, <1>4, <1>5, <3>1, <3>2, PictureTold
    <2>2. CASE ~image
      <3>1. document' = document
        BY <1>1, <2>2
      <3>2. ~HasItem(c)
        BY <1>4, <2>2 DEF HasItem
      <3>3. ListsGrow(c)
        BY <1>4, <1>5, ListsGrown DEF FoldInv
      <3>4. Folded("chapter")' = Folded("chapter") /\ Items' = Items /\ Images' = Images
        BY <1>4, <3>2, <3>3, Zenon DEF ListsGrow
      <3>5. Told(document) /\ CoversMarked(document.pictures, cover_href)
        BY <1>3 DEF TellInv, Booked
      <3> QED
        BY <3>1, <3>4, <3>5 DEF Told
    <2> QED
      BY <2>1, <2>2
  <1>7. Emit(c, "walk")
    BY <1>1
  <1> QED
    BY <1>2, <1>3, <1>4, <1>6, <1>7, TellKept

\* The trailer is folded after the first event, and is in no list but its own.
LEMMA TrailerFolded ==
    ASSUME FoldInv, TellInv, EmitStatus
    PROVE  /\ Running /\ ~Running' /\ phase \notin {"hash", "info"}
           /\ folded' # <<>> /\ folded'[1] = folded[1]
           /\ \A t : t # "status" => Folded(t)' = Folded(t)
           /\ Items' = Items /\ Images' = Images
           /\ received' = <<>> \/ received' = <<ProjectOverlays(ProjectOutline(document))>>
           /\ delivered' >= Len(folded') - 1
  <1> DEFINE e == ProjectOverlays(ProjectOutline(document))
  <1>1. /\ Walking /\ Take /\ folded' = Append(folded, [type |-> "status"])
        /\ \/ phase' = "gone" /\ UNCHANGED <<delivered, received>>
           \/ /\ received' = <<e>>
              /\ \/ phase' = "gone" /\ UNCHANGED delivered
                 \/ phase' = "done" /\ delivered' = delivered + 1
    BY DEF EmitStatus
  <1> HIDE DEF e
  <1>2. Running /\ ~Running' /\ phase \notin {"hash", "info"}
    BY <1>1 DEF Walking, Running
  <1>3. /\ received = <<>> /\ delivered = Len(folded) /\ folded \in Seq(Event) /\ folded # <<>>
        /\ Len(folded) \in Nat
    BY <1>2 DEF FoldInv, TellInv, Booked
  <1>4. PICK s \in Event : s = [type |-> "status"]
    BY EventTypes
  <1>5. ListsGrow(s)
    BY <1>1, <1>3, <1>4, ListsGrown
  <1>6. s.type = "status" /\ ~HasItem(s)
    BY <1>4 DEF HasItem
  <1>7. /\ \A t : t # "status" => Folded(t)' = Folded(t)
        /\ Items' = Items /\ Images' = Images
    BY <1>5, <1>6, Zenon DEF ListsGrow
  <1>8. /\ \A i \in DOMAIN folded : folded'[i] = folded[i]
        /\ DOMAIN folded = 1..Len(folded) /\ Len(folded') = Len(folded) + 1
    BY <1>1, <1>3, <1>4, NameAdded
  <1>9. folded' # <<>> /\ folded'[1] = folded[1]
    <2>1. Len(folded) # 0
      BY <1>3, EmptySeq
    <2> QED
      BY <1>3, <1>8, <2>1
  <1>10. delivered' >= Len(folded') - 1
    BY <1>1, <1>3, <1>8
  <1>11. received' = <<>> \/ received' = <<e>>
    BY <1>1, <1>3
  <1> QED
    BY <1>2, <1>7, <1>9, <1>10, <1>11 DEF e

\* TellInv: EmitStatus.
LEMMA TellStatus == FoldInv /\ TellInv /\ EmitStatus => TellInv'
  <1> SUFFICES ASSUME FoldInv, TellInv, EmitStatus PROVE TellInv'
    OBVIOUS
  <1>1. PICK e : e = ProjectOverlays(ProjectOutline(document))
    OBVIOUS
  <1>2. /\ Running /\ ~Running' /\ phase \notin {"hash", "info"}
        /\ folded' # <<>> /\ folded'[1] = folded[1]
        /\ Folded("chapter")' = Folded("chapter")
        /\ Items' = Items /\ Images' = Images
        /\ received' = <<>> \/ received' = <<e>>
        /\ delivered' >= Len(folded') - 1
    BY <1>1, TrailerFolded
  <1>3. /\ DOMAIN e.groups = DOMAIN document.groups
        /\ \A i \in DOMAIN e.groups : e.groups[i].name = document.groups[i].name
        /\ e.pictures = document.pictures /\ e.body = document.body
        /\ e.binary_hash = document.binary_hash /\ e.source_meta = document.source_meta
        /\ e.groups \in Seq(GroupItem)
    <2>1. IsProjected(e)
      BY <1>1, Projected DEF FoldInv
    <2> QED
      BY <2>1 DEF IsProjected, Linked
  <1>4. document.groups \in Seq(GroupItem)
    BY DEF FoldInv, Foldable, Linked
  <1>5. Told(document) /\ Booked(document)
    BY <1>2 DEF TellInv
  <1>6. GroupsMatch(e.groups, Folded("chapter"))
    <2>1. GroupsMatch(document.groups, Folded("chapter"))
      BY <1>5 DEF Told
    <2>2. Len(e.groups) = Len(document.groups)
      BY <1>3, <1>4
    <2> QED
      BY <1>3, <2>1, <2>2 DEF GroupsMatch
  <1>7. PicturesMatch(e.pictures, Images) /\ ChildrenMatch(e.body.children, Items)
    BY <1>3, <1>5 DEF Told
  <1>8. /\ e.binary_hash = Hash /\ folded[1].info \in Infos
        /\ e.source_meta = SourceMeta(folded[1].info) /\ e.body.meta = BodyMeta(folded[1].info)
        /\ CoversMarked(e.pictures, folded[1].info.cover_href)
    BY <1>3, <1>5 DEF Booked
  <1>9. ASSUME NEW n \in DOMAIN received'
        PROVE  (Told(received[n]) /\ Booked(received[n]))'
    <2>1. received'[n] = e
      BY <1>2
    <2> QED
      BY <1>2, <1>6, <1>7, <1>8, <2>1 DEF Told, Booked
  <1> QED
    BY <1>2, <1>9 DEF TellInv

\* TellInv is inductive, together with FoldInv.
LEMMA TellStep == FoldInv /\ TellInv /\ [Next]_vars => TellInv'
  <1> SUFFICES ASSUME FoldInv, TellInv, [Next]_vars PROVE TellInv'
    OBVIOUS
  <1>1. CASE UNCHANGED vars
    <2>1. /\ UNCHANGED <<phase, folded, delivered, received>>
          /\ UNCHANGED <<document, cover_href, source_hash, chapter_refs, outline, overlays>>
      BY <1>1 DEF vars, fold
    <2>2. Folded("chapter")' = Folded("chapter") /\ Items' = Items
      BY <2>1 DEF Folded, Items
    <2>3. Images' = Images /\ (Running' <=> Running)
      BY <2>1, <2>2 DEF Images, Running
    <2>4. Told(document)' <=> Told(document)
      BY <2>1, <2>2, <2>3 DEF Told
    <2>5. \A n : (Told(received[n]))' <=> Told(received[n])
      BY <2>1, <2>2, <2>3 DEF Told
    <2>6. Booked(document)' <=> Booked(document)
      BY <2>1 DEF Booked
    <2>7. \A n : (Booked(received[n]))' <=> Booked(received[n])
      BY <2>1 DEF Booked
    <2> QED
      BY <2>1, <2>3, <2>4, <2>5, <2>6, <2>7 DEF TellInv
  <1> QED
    BY <1>1, TellHash, TellInfo, TellHeld, TellChapter, TellResource, TellStatus DEF Next

\* TellInv says what the property does.
LEMMA ToldWhatWasDelivered == FoldInv /\ TellInv => TellsWhatWasDelivered
  <1> SUFFICES ASSUME FoldInv, TellInv, NEW n \in DOMAIN received, NEW d, d = received[n]
               PROVE  /\ delivered >= Len(folded) - 1
                      /\ [i \in DOMAIN d.groups |-> d.groups[i].name]
                           = [i \in DOMAIN Folded("chapter") |-> Folded("chapter")[i].href]
                      /\ [i \in DOMAIN d.pictures |-> d.pictures[i].uri] = [i \in DOMAIN Images |-> Images[i].href]
                      /\ \A i \in DOMAIN d.pictures :
                           d.pictures[i].cover <=> d.pictures[i].uri = folded[1].info.cover_href
                      /\ Len(d.body.children) = Len(Items)
                      /\ \A i \in DOMAIN Items : (d.body.children[i][1] = "groups") <=> (Items[i].type = "chapter")
                      /\ d.binary_hash = Hash
    BY DEF TellsWhatWasDelivered, Items, Images
  <1>1. Told(d) /\ Booked(d) /\ delivered >= Len(folded) - 1
    BY DEF TellInv
  <1>2. Linked(d)
    BY DEF FoldInv, Complete
  <1>3. /\ d.groups \in Seq(GroupItem) /\ d.pictures \in Seq(PictureItem) /\ d.body.children \in Seq(Refs)
    BY <1>2 DEF Linked
  <1>4. Folded("chapter") \in Seq(Event) /\ Items \in Seq(Event) /\ Images \in Seq(Event)
    BY ListTypes DEF FoldInv
  <1>5. PICK f \in Seq(Event) : f = Folded("chapter")
    BY <1>4
  <1>6. PICK s \in Seq(Event) : s = Items
    BY <1>4
  <1>7. PICK p \in Seq(Event) : p = Images
    BY <1>4
  <1>8. DOMAIN d.groups = DOMAIN f /\ \A i \in DOMAIN d.groups : d.groups[i].name = f[i].href
    BY <1>1, <1>3, <1>5 DEF Told, GroupsMatch
  <1>9. DOMAIN d.pictures = DOMAIN p /\ \A i \in DOMAIN d.pictures : d.pictures[i].uri = p[i].href
    BY <1>1, <1>3, <1>7 DEF Told, PicturesMatch
  <1>10. /\ Len(d.body.children) = Len(s)
         /\ \A i \in DOMAIN s : (d.body.children[i][1] = "groups") <=> (s[i].type = "chapter")
    <2>1. Len(d.body.children) = Len(s) /\ DOMAIN d.body.children = DOMAIN s
      BY <1>1, <1>3, <1>6 DEF Told, ChildrenMatch
    <2> QED
      BY <1>1, <1>6, <2>1 DEF Told, ChildrenMatch
  <1>11. [i \in DOMAIN d.groups |-> d.groups[i].name] = [i \in DOMAIN f |-> f[i].href]
    BY <1>8
  <1>12. [i \in DOMAIN d.pictures |-> d.pictures[i].uri] = [i \in DOMAIN p |-> p[i].href]
    BY <1>9
  <1>13. /\ d.binary_hash = Hash
         /\ \A i \in DOMAIN d.pictures : d.pictures[i].cover <=> d.pictures[i].uri = folded[1].info.cover_href
    BY <1>1 DEF Booked, CoversMarked
  <1> QED
    BY <1>1, <1>5, <1>6, <1>7, <1>10, <1>11, <1>12, <1>13

\* The document a client gets tells of the events it got and of no others: its
\* chapters and pictures in their order, the body interleaved as they came, the
\* cover marked wherever it turned up.
THEOREM DocumentTellsAll == Spec => []TellsWhatWasDelivered
  <1> QED
    BY FoldStart, FoldStep, TellStart, TellStep, ToldWhatWasDelivered, PTL DEF Spec

-----------------------------------------------------------------------------
(* What is held until the trailer.                                         *)

\* The table of contents, once it came.
NavigationHeld ==
    /\ phase \in {"hash", "info", "navigation"} => Folded("navigation") = <<>>
    /\ outline = IF Folded("navigation") = <<>> THEN <<>> ELSE Folded("navigation")[1].toc

\* Every overlay, in the order they came.
OverlaysHeld ==
    /\ Len(overlays) = Len(Folded("overlay"))
    /\ \A k \in DOMAIN overlays :
         /\ overlays[k].chapter_href = Folded("overlay")[k].href
         /\ overlays[k].end_time = Folded("overlay")[k].end

\* The last group with a name.
IsLastNamed(groups, h, i) ==
    i \in DOMAIN groups /\ groups[i].name = h /\ \A j \in DOMAIN groups : groups[j].name = h => j <= i

\* The groups, by name.
ChaptersHeld ==
    /\ \A i \in DOMAIN document.groups : document.groups[i].name \in DOMAIN chapter_refs
    /\ \A i \in DOMAIN document.groups : document.groups[i].cues = 0
    /\ \A h \in DOMAIN chapter_refs :
         \E i : chapter_refs[h] = GroupRef(i - 1) /\ IsLastNamed(document.groups, h, i)

\* What waits for the trailer is what was folded.
HeldInv == Running => NavigationHeld /\ OverlaysHeld /\ ChaptersHeld

\* HeldInv holds at the start.
LEMMA HeldStart == Init => HeldInv
  <1> SUFFICES ASSUME Init PROVE HeldInv
    OBVIOUS
  <1>1. phase = "hash" /\ folded = <<>> /\ document = Skeleton /\ outline = <<>> /\ overlays = <<>>
        /\ chapter_refs = <<>>
    BY DEF Init
  <1>2. \A t : Folded(t) = <<>>
    <2> SUFFICES ASSUME NEW t PROVE Folded(t) = <<>>
      OBVIOUS
    <2>1. Chosen(<<>>, {}) = <<>>
      <3>1. Cardinality({}) = 0
        BY FS_EmptySet
      <3> QED
        BY <3>1 DEF Chosen
    <2>2. {i \in DOMAIN folded : folded[i].type = t} = {}
      BY <1>1
    <2> QED
      BY <1>1, <2>1, <2>2, Zenon DEF Folded
  <1>3. document.groups = <<>>
    BY <1>1, SkeletonLinked
  <1> QED
    BY <1>1, <1>2, <1>3 DEF HeldInv, NavigationHeld, OverlaysHeld, ChaptersHeld

\* HeldInv: SetSourceHash.
LEMMA HeldHash == HeldInv /\ SetSourceHash => HeldInv'
  <1> SUFFICES ASSUME HeldInv, SetSourceHash PROVE HeldInv'
    OBVIOUS
  <1>1. /\ phase = "hash" /\ phase' = "info"
        /\ UNCHANGED <<document, cover_href, chapter_refs, outline, overlays, folded, delivered, received>>
    BY DEF SetSourceHash
  <1>2. NavigationHeld /\ OverlaysHeld /\ ChaptersHeld
    BY <1>1 DEF HeldInv, Running
  <1>3. \A t : Folded(t)' = Folded(t)
    BY <1>1 DEF Folded
  <1> QED
    BY <1>1, <1>2, <1>3 DEF HeldInv, NavigationHeld, OverlaysHeld, ChaptersHeld

\* HeldInv: EmitInfo holds nothing.
LEMMA HeldInfo == FoldInv /\ HeldInv /\ EmitInfo => HeldInv'
  <1> SUFFICES ASSUME FoldInv, HeldInv, EmitInfo PROVE HeldInv'
    OBVIOUS
  <1>1. PICK info, e :
          /\ info \in Infos
          /\ e = [type |-> "info", info |-> info]
          /\ document' = [document EXCEPT !.name = info.title, !.binary_hash = source_hash,
                                         !.source_meta = SourceMeta(info), !.body.meta = BodyMeta(info)]
          /\ Emit(e, "navigation")
    BY DEF EmitInfo
  <1>2. phase = "info" /\ UNCHANGED <<chapter_refs, outline, overlays>>
    BY DEF EmitInfo
  <1>3. NavigationHeld /\ OverlaysHeld /\ ChaptersHeld
    BY <1>2 DEF HeldInv, Running
  <1>4. document'.groups = document.groups
    BY <1>1 DEF FoldInv, Foldable, HasFields
  <1>5. e \in Event /\ e.type = "info" /\ folded' = Append(folded, e)
    BY <1>1, EventTypes DEF Emit
  <1>6. \A t : t # "info" => Folded(t)' = Folded(t)
    <2>1. ListsGrow(e)
      BY <1>5, ListsGrown DEF FoldInv
    <2> QED
      BY <1>5, <2>1, Zenon DEF ListsGrow
  <1>7. NavigationHeld'
    BY <1>2, <1>3, <1>6 DEF NavigationHeld
  <1>8. OverlaysHeld' /\ ChaptersHeld'
    BY <1>2, <1>3, <1>4, <1>6 DEF OverlaysHeld, ChaptersHeld
  <1> QED
    BY <1>7, <1>8 DEF HeldInv

\* HeldInv: EmitNavigation.
LEMMA HeldNavigation == FoldInv /\ HeldInv /\ EmitNavigation => HeldInv'
  <1> SUFFICES ASSUME FoldInv, HeldInv, EmitNavigation PROVE HeldInv'
    OBVIOUS
  <1>1. PICK toc, e :
          /\ toc \in Tocs
          /\ e = [type |-> "navigation", toc |-> toc] /\ outline' = toc /\ Emit(e, "overlays")
    BY DEF EmitNavigation
  <1>2. phase = "navigation" /\ UNCHANGED <<document, chapter_refs, overlays>>
    BY DEF EmitNavigation
  <1>3. NavigationHeld /\ OverlaysHeld /\ ChaptersHeld
    BY <1>2 DEF HeldInv, Running
  <1>4. e \in Event /\ e.type = "navigation" /\ e.toc = toc /\ folded' = Append(folded, e)
    BY <1>1, EventTypes DEF Emit
  <1>5. /\ Folded("navigation")' = Append(Folded("navigation"), e)
        /\ \A t : t # "navigation" => Folded(t)' = Folded(t)
    <2>1. ListsGrow(e)
      BY <1>4, ListsGrown DEF FoldInv
    <2> QED
      BY <1>4, <2>1, Zenon DEF ListsGrow
  <1>6. Folded("navigation")' = Append(<<>>, e)
    BY <1>2, <1>3, <1>5 DEF NavigationHeld
  <1>7. Append(<<>>, e) # <<>> /\ Append(<<>>, e)[1] = e
    OBVIOUS
  <1>8. phase' \in {"overlays", "gone"}
    BY <1>1 DEF Emit
  <1>9. NavigationHeld'
    BY <1>1, <1>4, <1>6, <1>7, <1>8 DEF NavigationHeld
  <1>10. OverlaysHeld' /\ ChaptersHeld'
    BY <1>2, <1>3, <1>5 DEF OverlaysHeld, ChaptersHeld
  <1> QED
    BY <1>9, <1>10 DEF HeldInv

\* HeldInv: EmitOverlay.
LEMMA HeldOverlay == FoldInv /\ HeldInv /\ EmitOverlay => HeldInv'
  <1> SUFFICES ASSUME FoldInv, HeldInv, EmitOverlay PROVE HeldInv'
    OBVIOUS
  <1>1. PICK href, end, e, o :
          /\ href \in Hrefs /\ end \in EndTimes
          /\ e = [type |-> "overlay", href |-> href, end |-> end]
          /\ o = [chapter_href |-> href, end_time |-> end]
          /\ overlays' = Append(overlays, o) /\ Emit(e, "overlays")
    BY DEF EmitOverlay
  <1>2. phase \in {"navigation", "overlays"} /\ UNCHANGED <<document, chapter_refs, outline>>
    BY DEF EmitOverlay
  <1>3. NavigationHeld /\ OverlaysHeld /\ ChaptersHeld
    BY <1>2 DEF HeldInv, Running
  <1>4. e \in Event /\ e.type = "overlay" /\ e.href = href /\ e.end = end /\ folded' = Append(folded, e)
    BY <1>1, EventTypes DEF Emit
  <1>5. /\ Folded("overlay")' = Append(Folded("overlay"), e)
        /\ \A t : t # "overlay" => Folded(t)' = Folded(t)
    <2>1. ListsGrow(e)
      BY <1>4, ListsGrown DEF FoldInv
    <2> QED
      BY <1>4, <2>1, Zenon DEF ListsGrow
  <1>6. phase' \in {"overlays", "gone"}
    BY <1>1 DEF Emit
  <1>7. NavigationHeld'
    BY <1>2, <1>3, <1>5, <1>6 DEF NavigationHeld
  <1>8. OverlaysHeld'
    <2>1. PICK f \in Seq(Event) : f = Folded("overlay")
      BY FoldedType DEF FoldInv
    <2>2. o \in Overlays /\ overlays \in Seq(Overlays)
      BY <1>1 DEF Overlays, FoldInv, Foldable
    <2>3. /\ Len(Append(f, e)) = Len(f) + 1 /\ DOMAIN f = 1..Len(f)
          /\ \A i \in DOMAIN f : Append(f, e)[i] = f[i]
          /\ Append(f, e)[Len(f) + 1] = e
      BY <1>4, <2>1, NameAdded
    <2>4. /\ Len(overlays') = Len(overlays) + 1 /\ DOMAIN overlays = 1..Len(overlays)
          /\ \A i : i \in DOMAIN overlays' <=> i \in DOMAIN overlays \/ i = Len(overlays) + 1
          /\ \A i \in DOMAIN overlays : overlays'[i] = overlays[i]
          /\ overlays'[Len(overlays) + 1] = o
      BY <1>1, <2>2, NameAdded
    <2>5. /\ Len(overlays) = Len(f)
          /\ \A k \in DOMAIN overlays : overlays[k].chapter_href = f[k].href /\ overlays[k].end_time = f[k].end
      BY <1>3, <2>1 DEF OverlaysHeld
    <2>6. o.chapter_href = e.href /\ o.end_time = e.end
      BY <1>1
    <2>7. ASSUME NEW k \in DOMAIN overlays'
          PROVE  overlays'[k].chapter_href = Append(f, e)[k].href /\ overlays'[k].end_time = Append(f, e)[k].end
      BY <2>3, <2>4, <2>5, <2>6
    <2>8. Folded("overlay")' = Append(f, e)
      BY <1>5, <2>1
    <2> QED
      BY <2>3, <2>4, <2>5, <2>7, <2>8 DEF OverlaysHeld
  <1>9. ChaptersHeld'
    BY <1>2, <1>3 DEF ChaptersHeld
  <1> QED
    BY <1>7, <1>8, <1>9 DEF HeldInv

\* HeldInv: EmitChapter; the new group is the last of its name.
LEMMA HeldChapter == FoldInv /\ HeldInv /\ EmitChapter => HeldInv'
  <1> SUFFICES ASSUME FoldInv, HeldInv, EmitChapter PROVE HeldInv'
    OBVIOUS
  <1>1. PICK href, image, primary, c :
          /\ href \in Hrefs /\ image \in BOOLEAN /\ primary \in Primaries \cup {Empty}
          /\ c = [type |-> "chapter", href |-> href, image |-> image, primary |-> primary,
                  spine_index |-> Len(Folded("chapter"))]
          /\ document' = AddChapter(document, c)
          /\ chapter_refs' = [h \in DOMAIN chapter_refs \cup {href} |->
                                 IF h = href THEN GroupRef(Len(document.groups)) ELSE chapter_refs[h]]
          /\ Emit(c, "walk")
    BY DEF EmitChapter
  <1>2. phase \in {"navigation", "overlays", "walk"} /\ UNCHANGED <<outline, overlays>>
    BY DEF EmitChapter, Walking
  <1>3. NavigationHeld /\ OverlaysHeld /\ ChaptersHeld
    BY <1>2 DEF HeldInv, Running
  <1>4. folded \in Seq(Event) /\ Linked(document) /\ HasFields(document)
    BY DEF FoldInv, Foldable
  <1>5. Len(Folded("chapter")) \in Nat
    BY <1>4, FoldedType
  <1>6. c \in Event
    BY <1>1, <1>5, EventTypes
  <1>7. c.type = "chapter" /\ c.href = href /\ c.spine_index \in Nat /\ folded' = Append(folded, c)
    BY <1>1, <1>5 DEF Emit
  <1>8. \A t : t # "chapter" => Folded(t)' = Folded(t)
    <2>1. ListsGrow(c)
      BY <1>4, <1>6, <1>7, ListsGrown
    <2> QED
      BY <1>7, <2>1, Zenon DEF ListsGrow
  <1>9. phase' \in {"walk", "gone"}
    BY <1>1 DEF Emit
  <1>10. NavigationHeld' /\ OverlaysHeld'
    BY <1>2, <1>3, <1>8, <1>9 DEF NavigationHeld, OverlaysHeld
  <1>11. ChaptersHeld'
    <2>1. PICK e, n : e = document' /\ n = Len(document.groups)
      OBVIOUS
    <2>2. Chaptered(document, e, c)
      BY <1>1, <1>4, <1>7, <2>1, ChapterAdded
    <2>3. /\ Linked(e) /\ n \in Nat /\ Len(e.groups) = n + 1
          /\ \A i \in DOMAIN document.groups :
               e.groups[i].name = document.groups[i].name /\ e.groups[i].cues = document.groups[i].cues
          /\ e.groups[n + 1].name = href /\ e.groups[n + 1].cues = 0
      BY <1>7, <2>1, <2>2 DEF Chaptered
    <2>4. DOMAIN document.groups = 1..n /\ DOMAIN e.groups = 1..n + 1
      BY <1>4, <2>1, <2>3 DEF Linked
    <2>5. DOMAIN chapter_refs' = DOMAIN chapter_refs \cup {href}
      BY <1>1
    <2>6. \A i \in DOMAIN e.groups : i \in DOMAIN document.groups \/ i = n + 1
      BY <2>3, <2>4
    <2>7. \A i \in DOMAIN e.groups : e.groups[i].name \in DOMAIN chapter_refs' /\ e.groups[i].cues = 0
      BY <1>3, <2>3, <2>5, <2>6 DEF ChaptersHeld
    <2>8. ASSUME NEW h \in DOMAIN chapter_refs'
          PROVE  \E i : chapter_refs'[h] = GroupRef(i - 1) /\ IsLastNamed(e.groups, h, i)
      <3>1. CASE h = href
        <4>1. chapter_refs'[h] = GroupRef((n + 1) - 1)
          BY <1>1, <2>1, <2>3, <3>1
        <4>2. IsLastNamed(e.groups, h, n + 1)
          BY <2>3, <2>4, <3>1 DEF IsLastNamed
        <4> QED
          BY <4>1, <4>2
      <3>2. CASE h # href
        <4>1. h \in DOMAIN chapter_refs /\ chapter_refs'[h] = chapter_refs[h]
          BY <1>1, <2>5, <3>2
        <4>2. PICK i : chapter_refs[h] = GroupRef(i - 1) /\ IsLastNamed(document.groups, h, i)
          BY <1>3, <4>1 DEF ChaptersHeld
        <4>3. /\ i \in DOMAIN document.groups /\ document.groups[i].name = h
              /\ \A j \in DOMAIN document.groups : document.groups[j].name = h => j <= i
          BY <4>2 DEF IsLastNamed
        <4>4. i \in DOMAIN e.groups /\ e.groups[i].name = h
          BY <2>3, <2>4, <4>3
        <4>5. ASSUME NEW j \in DOMAIN e.groups, e.groups[j].name = h PROVE j <= i
          <5>1. j \in DOMAIN document.groups
            BY <2>3, <2>6, <3>2, <4>5
          <5> QED
            BY <2>3, <4>3, <4>5, <5>1
        <4>6. IsLastNamed(e.groups, h, i)
          BY <4>4, <4>5 DEF IsLastNamed
        <4> QED
          BY <4>1, <4>2, <4>6
      <3> QED
        BY <3>1, <3>2
    <2> QED
      BY <2>1, <2>7, <2>8 DEF ChaptersHeld
  <1> QED
    BY <1>10, <1>11 DEF HeldInv

\* HeldInv: EmitResource.
LEMMA HeldResource == FoldInv /\ HeldInv /\ EmitResource => HeldInv'
  <1> SUFFICES ASSUME FoldInv, HeldInv, EmitResource PROVE HeldInv'
    OBVIOUS
  <1>1. PICK href, image, c :
          /\ href \in Hrefs /\ image \in BOOLEAN
          /\ c = [type |-> "resource", href |-> href, image |-> image]
          /\ document' = IF image THEN AddPicture(document, BodyRef, href) ELSE document
          /\ Emit(c, "walk")
    BY DEF EmitResource
  <1>2. phase \in {"navigation", "overlays", "walk"} /\ UNCHANGED <<chapter_refs, outline, overlays>>
    BY DEF EmitResource, Walking
  <1>3. NavigationHeld /\ OverlaysHeld /\ ChaptersHeld
    BY <1>2 DEF HeldInv, Running
  <1>4. Linked(document) /\ HasFields(document)
    BY DEF FoldInv, Foldable
  <1>5. c \in Event /\ c.type = "resource" /\ folded' = Append(folded, c)
    BY <1>1, EventTypes DEF Emit
  <1>6. \A t : t # "resource" => Folded(t)' = Folded(t)
    <2>1. ListsGrow(c)
      BY <1>5, ListsGrown DEF FoldInv
    <2> QED
      BY <1>5, <2>1, Zenon DEF ListsGrow
  <1>7. phase' \in {"walk", "gone"}
    BY <1>1 DEF Emit
  <1>8. NavigationHeld' /\ OverlaysHeld'
    BY <1>2, <1>3, <1>6, <1>7 DEF NavigationHeld, OverlaysHeld
  <1>9. PICK e : e = document'
    OBVIOUS
  <1>10. /\ DOMAIN e.groups = DOMAIN document.groups
         /\ \A i \in DOMAIN document.groups :
              e.groups[i].name = document.groups[i].name /\ e.groups[i].cues = document.groups[i].cues
    <2>1. CASE image
      <3>1. Pictured(document, e, BodyRef, href)
        BY <1>1, <1>4, <1>9, <2>1, PictureAdded DEF IsParent
      <3> QED
        BY <3>1 DEF Pictured
    <2>2. CASE ~image
      BY <1>1, <1>9, <2>2
    <2> QED
      BY <2>1, <2>2
  <1>11. \A h, i : IsLastNamed(document.groups, h, i) => IsLastNamed(e.groups, h, i)
    BY <1>10 DEF IsLastNamed
  <1>12. ChaptersHeld'
    BY <1>2, <1>3, <1>9, <1>10, <1>11 DEF ChaptersHeld
  <1> QED
    BY <1>8, <1>12 DEF HeldInv

\* HeldInv is inductive, together with FoldInv.
LEMMA HeldStep == FoldInv /\ HeldInv /\ [Next]_vars => HeldInv'
  <1> SUFFICES ASSUME FoldInv, HeldInv, [Next]_vars PROVE HeldInv'
    OBVIOUS
  <1>1. CASE UNCHANGED vars
    <2>1. UNCHANGED <<phase, folded, document, chapter_refs, outline, overlays>>
      BY <1>1 DEF vars, fold
    <2>2. \A t : Folded(t)' = Folded(t)
      BY <2>1 DEF Folded
    <2>3. Running' <=> Running
      BY <2>1 DEF Running
    <2> QED
      BY <2>1, <2>2, <2>3 DEF HeldInv, NavigationHeld, OverlaysHeld, ChaptersHeld
  <1>2. CASE EmitStatus
    <2>1. phase' \in {"done", "gone"}
      BY <1>2 DEF EmitStatus
    <2> QED
      BY <2>1 DEF HeldInv, Running
  <1> QED
    BY <1>1, <1>2, HeldHash, HeldInfo, HeldNavigation, HeldOverlay, HeldChapter, HeldResource DEF Next

\* A document is given away by the trailer only.
LEMMA GivenByTrailer ==
    FoldInv /\ [Next]_vars => EmitStatus \/ (received' = received /\ folded' = folded) \/ received' = <<>>
  <1> SUFFICES ASSUME FoldInv, [Next]_vars
               PROVE  EmitStatus \/ (received' = received /\ folded' = folded) \/ received' = <<>>
    OBVIOUS
  <1>1. CASE UNCHANGED vars
    BY <1>1 DEF vars
  <1>2. CASE SetSourceHash
    BY <1>2 DEF SetSourceHash
  <1>3. CASE EmitInfo \/ EmitNavigation \/ EmitOverlay \/ EmitChapter \/ EmitResource
    <2>1. Running
      BY <1>3 DEF EmitInfo, EmitNavigation, EmitOverlay, EmitChapter, EmitResource, Walking, Running
    <2>2. received' = received
      BY <1>3 DEF EmitInfo, EmitNavigation, EmitOverlay, EmitChapter, EmitResource, Emit
    <2> QED
      BY <2>1, <2>2 DEF FoldInv
  <1> QED
    BY <1>1, <1>2, <1>3 DEF Next

-----------------------------------------------------------------------------
(* The outline.                                                            *)

\* What the outline of a document is, given the chapters and the toc.
NamedBy(chapters, path) == {i \in DOMAIN chapters : chapters[i].href = path}
ExpectedOf(chapters, point) ==
    [title |-> point.label, level |-> point.depth,
     target |-> IF NamedBy(chapters, point.path) = {} THEN <<>>
                ELSE GroupRef(Greatest(NamedBy(chapters, point.path)) - 1)]
OutlineIs(d, chapters, toc) ==
    \E order \in [DOMAIN toc -> DOMAIN toc] :
        /\ \A i, j \in DOMAIN toc : order[i] = order[j] => i = j
        /\ d.outline = [i \in DOMAIN toc |-> ExpectedOf(chapters, toc[order[i]])]
        /\ \A i, j \in DOMAIN toc : Before(toc, order[i], order[j]) => i < j

TocFolded == IF Folded("navigation") = <<>> THEN <<>> ELSE Folded("navigation")[1].toc

\* The property, document by document.
OutlineInv == \A n \in DOMAIN received : OutlineIs(received[n], Folded("chapter"), TocFolded)

\* It is the property.
LEMMA OutlineInvIs == OutlineInv => OutlineResolves
  <1> SUFFICES ASSUME OutlineInv PROVE OutlineResolves
    OBVIOUS
  <1> QED
    BY DEF OutlineInv, OutlineIs, ExpectedOf, NamedBy, Before, TocFolded, OutlineResolves

\* The group an entry points at is the last chapter of its path.
LEMMA TargetExpected ==
    ASSUME FoldInv, TellInv, HeldInv, Running, NEW point, NEW chapters, chapters = Folded("chapter")
    PROVE  EntryOf(point) = ExpectedOf(chapters, point)
  <1> DEFINE S == NamedBy(chapters, point.path)
             groups == document.groups
  <1>1. chapters \in Seq(Event) /\ groups \in Seq(GroupItem)
    BY FoldedType DEF FoldInv, Foldable, Linked
  <1>2. /\ DOMAIN groups = DOMAIN chapters /\ DOMAIN chapters = 1..Len(chapters) /\ Len(chapters) \in Nat
        /\ \A i \in DOMAIN groups : groups[i].name = chapters[i].href
    BY <1>1 DEF TellInv, Told, GroupsMatch
  <1>3. S \in SUBSET Nat /\ \A i : i \in S <=> i \in DOMAIN groups /\ groups[i].name = point.path
    BY <1>2 DEF NamedBy
  <1> HIDE DEF S
  <1>4. CASE point.path \in DOMAIN chapter_refs
    <2>1. PICK i : chapter_refs[point.path] = GroupRef(i - 1) /\ IsLastNamed(groups, point.path, i)
      BY <1>4 DEF HeldInv, ChaptersHeld
    <2>2. i \in S /\ \A j \in S : j <= i
      BY <1>3, <2>1 DEF IsLastNamed
    <2>3. i \in Nat
      BY <1>3, <2>2
    <2>4. Greatest(S) \in S /\ \A y \in S : Greatest(S) >= y
      BY <1>3, <2>2, <2>3, GreatestNumber
    <2>5. Greatest(S) = i
      <3>1. PICK g : g = Greatest(S)
        OBVIOUS
      <3>2. g \in Nat /\ g <= i /\ i <= g
        BY <1>3, <2>2, <2>4, <3>1
      <3> QED
        BY <2>3, <3>1, <3>2
    <2>6. ChapterTarget(point) = GroupRef(Greatest(S) - 1) /\ S # {}
      BY <1>4, <2>1, <2>2, <2>5 DEF ChapterTarget
    <2> QED
      BY <2>6 DEF EntryOf, ExpectedOf, S
  <1>5. CASE point.path \notin DOMAIN chapter_refs
    <2>1. S = {}
      BY <1>3, <1>5 DEF HeldInv, ChaptersHeld
    <2>2. ChapterTarget(point) = <<>>
      BY <1>5 DEF ChapterTarget
    <2> QED
      BY <2>1, <2>2 DEF EntryOf, ExpectedOf, S
  <1> QED
    BY <1>4, <1>5

\* The trailer gives away the whole outline.
LEMMA OutlineGiven == FoldInv /\ TellInv /\ HeldInv /\ EmitStatus => OutlineInv'
  <1> SUFFICES ASSUME FoldInv, TellInv, HeldInv, EmitStatus PROVE OutlineInv'
    OBVIOUS
  <1>1. PICK e, chapters, w :
          e = ProjectOverlays(ProjectOutline(document)) /\ chapters = Folded("chapter") /\ w = Walk(outline)
    OBVIOUS
  <1>2. /\ Running /\ Folded("chapter")' = chapters /\ Folded("navigation")' = Folded("navigation")
        /\ received' = <<>> \/ received' = <<e>>
    BY <1>1, TrailerFolded
  <1>3. TocFolded' = outline
    BY <1>2 DEF HeldInv, NavigationHeld, TocFolded
  <1>4. IsToc(outline)
    <2>1. outline \in Tocs \cup {<<>>}
      BY DEF FoldInv, Foldable
    <2>2. CASE outline = <<>>
      <3>1. outline \in Seq(NavPoint) /\ DOMAIN outline = {}
        BY <2>2, EmptySeq
      <3> QED
        BY <3>1 DEF IsToc
    <2>3. \A toc \in Tocs : toc \in Seq(NavPoint) /\ \A i \in DOMAIN toc : toc[i].parent < i
      BY FoldAssumption
    <2> QED
      BY <2>1, <2>2, <2>3 DEF IsToc
  <1>5. /\ Len(outline) \in Nat /\ DOMAIN outline = 1..Len(outline)
        /\ w \in Seq(1..Len(outline)) /\ DOMAIN w = 1..Len(outline)
        /\ Once(w) /\ Follows(outline, w)
    BY <1>1, <1>4, WalkLists
  <1>6. w \in [DOMAIN outline -> DOMAIN outline]
    BY <1>5
  <1>7. e.outline \in Seq(OutlineEntry) /\ DOMAIN e.outline = DOMAIN outline
        /\ \A i \in DOMAIN outline : e.outline[i] = EntryOf(outline[w[i]])
    <2>1. IsProjected(e)
      BY <1>1, Projected DEF FoldInv
    <2> QED
      BY <1>1, <2>1 DEF IsProjected
  <1>8. \A i \in DOMAIN outline : e.outline[i] = ExpectedOf(chapters, outline[w[i]])
    BY <1>1, <1>2, <1>7, TargetExpected
  <1>9. e.outline = [i \in DOMAIN outline |-> ExpectedOf(chapters, outline[w[i]])]
    BY <1>7, <1>8
  <1>10. \A i, j \in DOMAIN outline : w[i] = w[j] => i = j
    BY <1>5 DEF Once
  <1>11. \A i, j \in DOMAIN outline : Before(outline, w[i], w[j]) => i < j
    BY <1>5 DEF Follows
  <1>12. OutlineIs(e, chapters, outline)
    BY <1>6, <1>9, <1>10, <1>11 DEF OutlineIs
  <1> QED
    BY <1>2, <1>3, <1>12 DEF OutlineInv

\* OutlineInv is inductive, together with the others.
LEMMA OutlineStep == FoldInv /\ TellInv /\ HeldInv /\ OutlineInv /\ [Next]_vars => OutlineInv'
  <1> SUFFICES ASSUME FoldInv, TellInv, HeldInv, OutlineInv, [Next]_vars PROVE OutlineInv'
    OBVIOUS
  <1>1. CASE received' = <<>>
    BY <1>1 DEF OutlineInv
  <1>2. CASE received' = received /\ folded' = folded
    <2>1. \A t : Folded(t)' = Folded(t)
      BY <1>2 DEF Folded
    <2>2. TocFolded' = TocFolded
      BY <2>1 DEF TocFolded
    <2> QED
      BY <1>2, <2>1, <2>2 DEF OutlineInv
  <1> QED
    BY <1>1, <1>2, OutlineGiven, GivenByTrailer

\* OutlineInv holds at the start.
LEMMA OutlineStart == Init => OutlineInv
  <1> SUFFICES ASSUME Init PROVE OutlineInv
    OBVIOUS
  <1>1. received = <<>>
    BY DEF Init
  <1> QED
    BY <1>1 DEF OutlineInv

\* Every entry of the table of contents is in the outline once, parents before
\* their children and siblings in their order, and points at the last chapter
\* with its path, wherever in the stream the chapter came.
THEOREM OutlineIsResolved == Spec => []OutlineResolves
  <1> QED
    BY FoldStart, FoldStep, TellStart, TellStep, HeldStart, HeldStep, OutlineStart, OutlineStep, OutlineInvIs, PTL
       DEF Spec

-----------------------------------------------------------------------------
(* The cues.                                                               *)

\* Where the cues of a document are, given the overlays.
LastHeard(heard, k) == \A j \in DOMAIN heard : heard[j].href = heard[k].href => j <= k
Carrying(d, k) == {i \in DOMAIN d.groups : d.groups[i].cues = k}
IsTold(d, heard, k) == LastHeard(heard, k) /\ \E i \in DOMAIN d.groups : d.groups[i].name = heard[k].href
CuesAre(d, heard) ==
    /\ \A k \in DOMAIN heard :
         /\ Cardinality(Carrying(d, k)) = IF IsTold(d, heard, k) THEN 1 ELSE 0
         /\ \A i \in Carrying(d, k) : d.groups[i].name = heard[k].href
    /\ \A k \in DOMAIN heard : d.media >= heard[k].end
    /\ d.media = 0 \/ \E k \in DOMAIN heard : d.media = heard[k].end

\* The property, document by document.
CuesInv == \A n \in DOMAIN received : CuesAre(received[n], Folded("overlay"))

\* It is the property.
LEMMA CuesInvIs == CuesInv => CuesReachTheirChapter
  <1> SUFFICES ASSUME CuesInv PROVE CuesReachTheirChapter
    OBVIOUS
  <1> QED
    BY DEF CuesInv, CuesAre, Carrying, LastHeard, IsTold, CuesReachTheirChapter

\* An overlay names the last group of its chapter.
LEMMA NamesLastGroup ==
    ASSUME FoldInv, HeldInv, Running, NEW k \in DOMAIN overlays, NEW i \in DOMAIN document.groups
    PROVE  k \in NamingGroup(i) <=> IsLastNamed(document.groups, overlays[k].chapter_href, i)
  <1> DEFINE h == overlays[k].chapter_href
             groups == document.groups
  <1>1. ChaptersHeld
    BY DEF HeldInv
  <1>2. DOMAIN groups \subseteq Nat
    BY DEF FoldInv, Foldable, Linked
  <1>3. ASSUME k \in NamingGroup(i) PROVE IsLastNamed(groups, h, i)
    <2>1. h \in DOMAIN chapter_refs /\ chapter_refs[h] = GroupRef(i - 1)
      BY <1>3 DEF NamingGroup
    <2>2. PICK l : chapter_refs[h] = GroupRef(l - 1) /\ IsLastNamed(groups, h, l)
      BY <1>1, <2>1 DEF ChaptersHeld
    <2>3. l - 1 = i - 1
      BY <2>1, <2>2 DEF GroupRef
    <2>4. l \in Nat /\ i \in Nat
      BY <1>2, <2>2 DEF IsLastNamed
    <2>5. l = i
      BY <2>3, <2>4
    <2> QED
      BY <2>2, <2>5
  <1>4. ASSUME IsLastNamed(groups, h, i) PROVE k \in NamingGroup(i)
    <2>1. h \in DOMAIN chapter_refs
      BY <1>1, <1>4 DEF ChaptersHeld, IsLastNamed
    <2>2. PICK l : chapter_refs[h] = GroupRef(l - 1) /\ IsLastNamed(groups, h, l)
      BY <1>1, <2>1 DEF ChaptersHeld
    <2>3. l \in Nat /\ i \in Nat /\ l <= i /\ i <= l
      BY <1>2, <1>4, <2>2 DEF IsLastNamed
    <2>4. l = i
      BY <2>3
    <2> QED
      BY <2>1, <2>2, <2>4 DEF NamingGroup
  <1> QED
    BY <1>3, <1>4

\* The cues of an overlay are on the last group of its chapter if no later
\* overlay names it, and nowhere else.
LEMMA CuesLanded ==
    ASSUME FoldInv, HeldInv, Running, NEW e, IsProjected(e), NEW heard, heard = Folded("overlay"),
           NEW k \in DOMAIN heard, NEW i \in DOMAIN e.groups
    PROVE  e.groups[i].cues = k <=> LastHeard(heard, k) /\ IsLastNamed(e.groups, heard[k].href, i)
  <1>1. /\ DOMAIN e.groups = DOMAIN document.groups
        /\ e.groups[i].name = document.groups[i].name
        /\ NamingGroup(i) = {} => e.groups[i].cues = document.groups[i].cues
        /\ NamingGroup(i) # {} => e.groups[i].cues \in NamingGroup(i)
        /\ \A j \in NamingGroup(i) : e.groups[i].cues >= j
    BY DEF IsProjected
  <1>2. /\ DOMAIN overlays = DOMAIN heard
        /\ \A j \in DOMAIN heard : overlays[j].chapter_href = heard[j].href
        /\ DOMAIN heard \subseteq Nat \ {0}
    <2>1. heard \in Seq(Event) /\ overlays \in Seq(Overlays)
      BY FoldedType DEF FoldInv, Foldable
    <2> QED
      BY <2>1 DEF HeldInv, OverlaysHeld
  <1>3. document.groups[i].cues = 0
    BY <1>1 DEF HeldInv, ChaptersHeld
  <1>4. \A h : IsLastNamed(document.groups, h, i) <=> IsLastNamed(e.groups, h, i)
    <2>1. \A j \in DOMAIN e.groups : e.groups[j].name = document.groups[j].name
      BY DEF IsProjected
    <2> QED
      BY <1>1, <2>1 DEF IsLastNamed
  <1>5. \A j \in DOMAIN heard : j \in NamingGroup(i) <=> IsLastNamed(e.groups, heard[j].href, i)
    BY <1>1, <1>2, <1>4, NamesLastGroup
  <1>6. NamingGroup(i) \subseteq DOMAIN heard
    BY <1>2 DEF NamingGroup
  <1>7. ASSUME e.groups[i].cues = k
        PROVE  LastHeard(heard, k) /\ IsLastNamed(e.groups, heard[k].href, i)
    <2>1. k \in NamingGroup(i)
      BY <1>1, <1>2, <1>3, <1>7
    <2>2. IsLastNamed(e.groups, heard[k].href, i)
      BY <1>5, <2>1
    <2>3. ASSUME NEW j \in DOMAIN heard, heard[j].href = heard[k].href PROVE j <= k
      <3>1. j \in NamingGroup(i)
        BY <1>5, <2>2, <2>3
      <3> QED
        BY <1>1, <1>2, <1>7, <3>1
    <2> QED
      BY <2>2, <2>3 DEF LastHeard
  <1>8. ASSUME LastHeard(heard, k), IsLastNamed(e.groups, heard[k].href, i)
        PROVE  e.groups[i].cues = k
    <2>1. k \in NamingGroup(i)
      BY <1>5, <1>8
    <2>2. PICK m : m = e.groups[i].cues
      OBVIOUS
    <2>3. m \in NamingGroup(i) /\ m >= k
      BY <1>1, <2>1, <2>2
    <2>4. heard[m].href = heard[k].href /\ m \in DOMAIN heard
      BY <1>5, <1>6, <1>8, <2>3 DEF IsLastNamed
    <2>5. m <= k
      BY <1>8, <2>4 DEF LastHeard
    <2>6. m \in Nat /\ k \in Nat
      BY <1>2, <2>4
    <2>7. m = k
      BY <2>3, <2>5, <2>6
    <2> QED
      BY <2>2, <2>7
  <1> QED
    BY <1>7, <1>8

\* The cues of an overlay are on one group, or on none.
LEMMA CuesCounted ==
    ASSUME FoldInv, HeldInv, Running, NEW e, IsProjected(e), NEW heard, heard = Folded("overlay"),
           NEW k \in DOMAIN heard
    PROVE  /\ Cardinality(Carrying(e, k)) = IF IsTold(e, heard, k) THEN 1 ELSE 0
           /\ \A i \in Carrying(e, k) : e.groups[i].name = heard[k].href
  <1>1. \A i \in DOMAIN e.groups :
          e.groups[i].cues = k <=> LastHeard(heard, k) /\ IsLastNamed(e.groups, heard[k].href, i)
    BY CuesLanded
  <1>2. \A i \in Carrying(e, k) : e.groups[i].name = heard[k].href
    BY <1>1 DEF Carrying, IsLastNamed
  <1>3. CASE IsTold(e, heard, k)
    <2>1. PICK j \in DOMAIN e.groups : e.groups[j].name = heard[k].href
      BY <1>3 DEF IsTold
    <2>2. PICK i \in DOMAIN e.groups : IsLastNamed(e.groups, heard[k].href, i)
      <3>1. /\ DOMAIN e.groups = DOMAIN document.groups
            /\ \A l \in DOMAIN e.groups : e.groups[l].name = document.groups[l].name
        BY DEF IsProjected
      <3>2. heard[k].href \in DOMAIN chapter_refs
        BY <2>1, <3>1 DEF HeldInv, ChaptersHeld
      <3>3. PICK i : IsLastNamed(document.groups, heard[k].href, i)
        BY <3>2 DEF HeldInv, ChaptersHeld
      <3> QED
        BY <3>1, <3>3 DEF IsLastNamed
    <2>3. Carrying(e, k) = {i}
      <3>1. i \in Carrying(e, k)
        BY <1>1, <1>3, <2>2 DEF Carrying, IsTold
      <3>2. ASSUME NEW l \in Carrying(e, k) PROVE l = i
        <4>1. l \in DOMAIN e.groups /\ IsLastNamed(e.groups, heard[k].href, l)
          BY <1>1, <3>2 DEF Carrying
        <4>2. DOMAIN e.groups \subseteq Nat
          BY DEF IsProjected, Linked
        <4>3. l \in Nat /\ i \in Nat /\ l <= i /\ i <= l
          BY <2>2, <4>1, <4>2 DEF IsLastNamed
        <4> QED
          BY <4>3
      <3> QED
        BY <3>1, <3>2
    <2>4. Cardinality({i}) = 1
      BY FS_Singleton
    <2> QED
      BY <1>2, <1>3, <2>3, <2>4
  <1>4. CASE ~IsTold(e, heard, k)
    <2>1. Carrying(e, k) = {}
      BY <1>1, <1>4 DEF Carrying, IsTold, IsLastNamed
    <2>2. Cardinality({}) = 0
      BY FS_EmptySet
    <2> QED
      BY <1>2, <1>4, <2>1, <2>2
  <1> QED
    BY <1>3, <1>4

\* The trailer gives away the cues.
LEMMA CuesGiven == FoldInv /\ TellInv /\ HeldInv /\ EmitStatus => CuesInv'
  <1> SUFFICES ASSUME FoldInv, TellInv, HeldInv, EmitStatus PROVE CuesInv'
    OBVIOUS
  <1>1. PICK e, heard : e = ProjectOverlays(ProjectOutline(document)) /\ heard = Folded("overlay")
    OBVIOUS
  <1>2. /\ Running /\ Folded("overlay")' = heard
        /\ received' = <<>> \/ received' = <<e>>
    BY <1>1, TrailerFolded
  <1>3. IsProjected(e)
    BY <1>1, Projected DEF FoldInv
  <1>4. \A k \in DOMAIN heard :
          /\ Cardinality(Carrying(e, k)) = IF IsTold(e, heard, k) THEN 1 ELSE 0
          /\ \A i \in Carrying(e, k) : e.groups[i].name = heard[k].href
    BY <1>1, <1>2, <1>3, CuesCounted
  <1>5. /\ \A k \in DOMAIN heard : e.media >= heard[k].end
        /\ e.media = 0 \/ \E k \in DOMAIN heard : e.media = heard[k].end
    <2>1. heard \in Seq(Event) /\ overlays \in Seq(Overlays)
      BY <1>1, FoldedType DEF FoldInv, Foldable
    <2>2. DOMAIN overlays = DOMAIN heard /\ \A j \in DOMAIN heard : overlays[j].end_time = heard[j].end
      BY <1>1, <1>2, <2>1 DEF HeldInv, OverlaysHeld
    <2>3. e.media \in Ends /\ \A m \in Ends : e.media >= m
      BY <1>3 DEF IsProjected
    <2> QED
      BY <2>2, <2>3 DEF Ends
  <1>6. CuesAre(e, heard)
    BY <1>4, <1>5 DEF CuesAre
  <1> QED
    BY <1>2, <1>6 DEF CuesInv

\* CuesInv is inductive, together with the others.
LEMMA CuesStep == FoldInv /\ TellInv /\ HeldInv /\ CuesInv /\ [Next]_vars => CuesInv'
  <1> SUFFICES ASSUME FoldInv, TellInv, HeldInv, CuesInv, [Next]_vars PROVE CuesInv'
    OBVIOUS
  <1>1. CASE received' = <<>>
    BY <1>1 DEF CuesInv
  <1>2. CASE received' = received /\ folded' = folded
    <2>1. \A t : Folded(t)' = Folded(t)
      BY <1>2 DEF Folded
    <2> QED
      BY <1>2, <2>1 DEF CuesInv
  <1> QED
    BY <1>1, <1>2, CuesGiven, GivenByTrailer

\* CuesInv holds at the start.
LEMMA CuesStart == Init => CuesInv
  <1> SUFFICES ASSUME Init PROVE CuesInv
    OBVIOUS
  <1>1. received = <<>>
    BY DEF Init
  <1> QED
    BY <1>1 DEF CuesInv

\* The cues of the last overlay that names a chapter are on one group, which has
\* the chapter's name; nothing else carries cues, and the length of the
\* narration is that of the longest overlay.
THEOREM CuesReachChapters == Spec => []CuesReachTheirChapter
  <1> QED
    BY FoldStart, FoldStep, TellStart, TellStep, HeldStart, HeldStep, CuesStart, CuesStep, CuesInvIs, PTL
       DEF Spec

-----------------------------------------------------------------------------
(* The credits.                                                            *)

\* A list arranges two sets of positions, the first before the second.
Arranges(s, M, A, B, g) ==
    /\ g \in [DOMAIN s -> A \cup B]
    /\ \A k, l \in DOMAIN s : g[k] = g[l] => k = l
    /\ \A a \in A \cup B : \E k \in DOMAIN s : g[k] = a
    /\ \A k \in DOMAIN s : s[k] = M[g[k]]
    /\ \A k, l \in DOMAIN s : g[k] \in A /\ g[l] \in B => k < l

\* The chosen of one set and then of another are such a list.
LEMMA TwoChosen ==
    ASSUME NEW T, NEW M \in Seq(T), NEW A \in SUBSET DOMAIN M, NEW B \in SUBSET DOMAIN M, A \cap B = {},
           NEW s, s = Chosen(M, A) \o Chosen(M, B)
    PROVE  s \in Seq(T) /\ \E g : Arranges(s, M, A, B, g)
  <1>1. PICK a, b, m, n : a = Chosen(M, A) /\ b = Chosen(M, B) /\ m = Cardinality(A) /\ n = Cardinality(B)
    OBVIOUS
  <1>2. PICK p, q : p = Sorted(A) /\ q = Sorted(B)
    OBVIOUS
  <1>3. /\ IsFiniteSet(A) /\ A \in SUBSET Nat /\ m \in Nat /\ a \in Seq(T) /\ Len(a) = m /\ DOMAIN a = 1..m
        /\ \A k \in 1..m : p[k] \in A /\ a[k] = M[p[k]]
    BY <1>1, <1>2, ChosenItems
  <1>4. /\ IsFiniteSet(B) /\ B \in SUBSET Nat /\ n \in Nat /\ b \in Seq(T) /\ Len(b) = n /\ DOMAIN b = 1..n
        /\ \A k \in 1..n : q[k] \in B /\ b[k] = M[q[k]]
    BY <1>1, <1>2, ChosenItems
  <1>5. /\ \A k, l \in 1..m : k < l => p[k] < p[l]
        /\ \A x \in A : \E k \in 1..m : p[k] = x
    <2>1. /\ \A k, l \in 1..Cardinality(A) : k < l => Sorted(A)[k] < Sorted(A)[l]
          /\ \A x \in A : \E k \in 1..Cardinality(A) : Sorted(A)[k] = x
      <3>1. A \in SUBSET Nat /\ IsFiniteSet(A)
        BY <1>3
      <3> QED
        BY <3>1, SortedList
    <2> QED
      BY <1>1, <1>2, <2>1
  <1>6. /\ \A k, l \in 1..n : k < l => q[k] < q[l]
        /\ \A x \in B : \E k \in 1..n : q[k] = x
    <2>1. /\ \A k, l \in 1..Cardinality(B) : k < l => Sorted(B)[k] < Sorted(B)[l]
          /\ \A x \in B : \E k \in 1..Cardinality(B) : Sorted(B)[k] = x
      <3>1. B \in SUBSET Nat /\ IsFiniteSet(B)
        BY <1>4
      <3> QED
        BY <3>1, SortedList
    <2> QED
      BY <1>1, <1>2, <2>1
  <1>7. /\ s \in Seq(T) /\ Len(s) = m + n
        /\ \A k \in 1..m : k \in DOMAIN s /\ s[k] = a[k]
        /\ \A k \in 1..n : k + m \in DOMAIN s /\ s[k + m] = b[k]
    <2>1. s = a \o b
      BY <1>1
    <2>2. /\ s \in Seq(T) /\ Len(s) = Len(a) + Len(b)
          /\ \A k \in DOMAIN a : k \in DOMAIN s /\ s[k] = a[k]
          /\ \A k \in DOMAIN b : k + Len(a) \in DOMAIN s /\ s[k + Len(a)] = b[k]
      <3>1. a \in Seq(T) /\ b \in Seq(T)
        BY <1>3, <1>4
      <3>2. PICK u : u = a \o b
        OBVIOUS
      <3>3. /\ u \in Seq(T) /\ Len(u) = Len(a) + Len(b)
            /\ \A k \in DOMAIN a : k \in DOMAIN u /\ u[k] = a[k] /\ k <= Len(a)
            /\ \A k \in DOMAIN b : k + Len(a) \in DOMAIN u /\ u[k + Len(a)] = b[k]
        BY <3>1, <3>2, Joined
      <3> QED
        BY <2>1, <3>2, <3>3
    <2> QED
      BY <1>3, <1>4, <2>2
  <1>8. DOMAIN s = 1..m + n
    BY <1>3, <1>4, <1>7
  <1>9. PICK g : g = [k \in 1..m + n |-> IF k <= m THEN p[k] ELSE q[k - m]]
    OBVIOUS
  <1>10. /\ \A k \in 1..m : k \in 1..m + n /\ g[k] = p[k]
         /\ \A k \in 1..n : k + m \in 1..m + n /\ g[k + m] = q[k]
    <2>1. ASSUME NEW k \in 1..n PROVE k + m \in 1..m + n /\ ~(k + m <= m) /\ (k + m) - m = k
      BY <1>3, <1>4
    <2>2. ASSUME NEW k \in 1..m PROVE k \in 1..m + n /\ k <= m
      BY <1>3, <1>4
    <2> QED
      BY <1>9, <2>1, <2>2
  <1>11. \A k \in 1..m + n : k \in 1..m \/ \E l \in 1..n : k = l + m
    <2> SUFFICES ASSUME NEW k \in 1..m + n, k \notin 1..m PROVE \E l \in 1..n : k = l + m
      OBVIOUS
    <2>1. k - m \in 1..n /\ k = (k - m) + m
      BY <1>3, <1>4
    <2> QED
      BY <2>1
  <1>12. \A k \in 1..m + n : g[k] \in A \cup B /\ s[k] = M[g[k]]
    <2> SUFFICES ASSUME NEW k \in 1..m + n PROVE g[k] \in A \cup B /\ s[k] = M[g[k]]
      OBVIOUS
    <2>1. CASE k \in 1..m
      BY <1>3, <1>7, <1>10, <2>1
    <2>2. CASE k \notin 1..m
      <3>1. PICK l \in 1..n : k = l + m
        BY <1>11, <2>2
      <3> QED
        BY <1>4, <1>7, <1>10, <3>1
    <2> QED
      BY <2>1, <2>2
  <1>13. \A k \in 1..m + n : (k \in 1..m <=> g[k] \in A) /\ (k \notin 1..m <=> g[k] \in B)
    <2> SUFFICES ASSUME NEW k \in 1..m + n
                 PROVE  (k \in 1..m => g[k] \in A) /\ (k \notin 1..m => g[k] \in B)
      OBVIOUS
    <2>1. k \in 1..m => g[k] \in A
      BY <1>3, <1>10
    <2>2. k \notin 1..m => g[k] \in B
      BY <1>4, <1>10, <1>11
    <2> QED
      BY <2>1, <2>2
  <1>14. ASSUME NEW k \in 1..m + n, NEW l \in 1..m + n, g[k] = g[l] PROVE k = l
    <2>1. CASE k \in 1..m
      <3>1. l \in 1..m
        BY <1>13, <1>14, <2>1
      <3>2. p[k] = p[l]
        BY <1>10, <1>14, <2>1, <3>1
      <3>3. p[k] \in Nat
        BY <1>3, <2>1
      <3>4. ~(k < l) /\ ~(l < k)
        BY <1>5, <2>1, <3>1, <3>2, <3>3
      <3> QED
        BY <1>3, <2>1, <3>1, <3>4
    <2>2. CASE k \notin 1..m
      <3>1. l \notin 1..m
        BY <1>13, <1>14, <2>2
      <3>2. PICK i \in 1..n, j \in 1..n : k = i + m /\ l = j + m
        BY <1>11, <2>2, <3>1
      <3>3. q[i] = q[j] /\ q[i] \in Nat
        BY <1>4, <1>10, <1>14, <3>2
      <3>4. ~(i < j) /\ ~(j < i)
        BY <1>6, <3>3
      <3>5. i = j
        BY <1>4, <3>4
      <3> QED
        BY <3>2, <3>5
    <2> QED
      BY <2>1, <2>2
  <1>15. \A x \in A \cup B : \E k \in 1..m + n : g[k] = x
    BY <1>5, <1>6, <1>10
  <1>16. ASSUME NEW k \in 1..m + n, NEW l \in 1..m + n, g[k] \in A, g[l] \in B PROVE k < l
    <2>1. k \in 1..m /\ l \notin 1..m
      BY <1>13, <1>16
    <2> QED
      BY <1>3, <1>4, <2>1
  <1>17. g \in [DOMAIN s -> A \cup B]
    BY <1>8, <1>9, <1>12
  <1>18. Arranges(s, M, A, B, g)
    BY <1>8, <1>12, <1>14, <1>15, <1>16, <1>17 DEF Arranges
  <1> QED
    BY <1>7, <1>18

\* The positions with a value.
WithValue(s, S, v) == {k \in S : s[k].value = v}

\* An arrangement has each value as often as the positions arranged.
LEMMA ArrangedCount ==
    ASSUME NEW T, NEW s \in Seq(T), NEW M, NEW A, NEW B, NEW g, Arranges(s, M, A, B, g), NEW v
    PROVE  Cardinality(WithValue(M, A \cup B, v)) = Cardinality(WithValue(s, DOMAIN s, v))
  <1> DEFINE X == WithValue(s, DOMAIN s, v)
             Y == WithValue(M, A \cup B, v)
             h == [k \in X |-> g[k]]
  <1>1. /\ g \in [DOMAIN s -> A \cup B]
        /\ \A k, l \in DOMAIN s : g[k] = g[l] => k = l
        /\ \A a \in A \cup B : \E k \in DOMAIN s : g[k] = a
        /\ \A k \in DOMAIN s : s[k] = M[g[k]]
    BY DEF Arranges
  <1>2. h \in [X -> Y]
    BY <1>1 DEF WithValue
  <1>3. \A k, l \in X : h[k] = h[l] => k = l
    BY <1>1 DEF WithValue
  <1>4. ASSUME NEW y \in Y PROVE \E k \in X : h[k] = y
    <2>1. PICK k \in DOMAIN s : g[k] = y
      BY <1>1 DEF WithValue
    <2>2. k \in X
      BY <1>1, <2>1 DEF WithValue
    <2> QED
      BY <2>1, <2>2
  <1>5. IsFiniteSet(X)
    <2>1. Len(s) \in Nat /\ DOMAIN s = 1..Len(s)
      OBVIOUS
    <2>2. IsFiniteSet(1..Len(s))
      BY <2>1, FS_Interval
    <2>3. X \in SUBSET (1..Len(s))
      BY <2>1 DEF WithValue
    <2> QED
      BY <2>2, <2>3, FS_Subset
  <1> HIDE DEF X, Y, h
  <1>6. h \in Bijection(X, Y)
    <2>1. h \in Injection(X, Y)
      BY <1>2, <1>3 DEF Injection, IsInjective
    <2>2. h \in Surjection(X, Y)
      BY <1>2, <1>4 DEF Surjection
    <2> QED
      BY <2>1, <2>2 DEF Bijection
  <1>7. ExistsBijection(X, Y)
    BY <1>6 DEF ExistsBijection
  <1>8. Cardinality(Y) = Cardinality(X)
    BY <1>5, <1>7, FS_Bijection
  <1> QED
    BY <1>8 DEF X, Y

Refinement == [property : STRING, value : STRING]
Entry == [element : STRING, value : STRING, refinements : Seq(Refinement)]

\* What the authors and the credits of a book are.
IsCreator(said, i) == i \in DOMAIN said /\ said[i].element = "creator"
IsAuthor(said, i) == IsCreator(said, i) /\ Refined(said[i], "role") = "aut"

Marked(said) == {i \in DOMAIN said : IsAuthor(said, i)}
Unmarked(said) == {i \in DOMAIN said : IsCreator(said, i) /\ ~IsAuthor(said, i)}
ArrangedAuthors(said, authors) ==
    \E s, g : /\ s \in Seq(Entry) /\ Arranges(s, said, Marked(said), Unmarked(said), g)
              /\ authors = [i \in DOMAIN s |-> s[i].value]

\* The authors are the creators, those marked as authors first.
LEMMA AuthorsArranged ==
    ASSUME NEW info, NEW said \in Seq(Entry), said = info.metadata, NEW c, IsCreator(said, c)
    PROVE  ArrangedAuthors(said, Authors(info))
  <1> DEFINE C == {i \in DOMAIN said : said[i].element = "creator"}
             A == {i \in C : Refined(said[i], "role") = "aut"}
             B == C \ A
  <1>1. Marked(said) = A /\ Unmarked(said) = B
    BY DEF Marked, Unmarked, IsAuthor, IsCreator
  <1>2. A \in SUBSET DOMAIN said /\ B \in SUBSET DOMAIN said /\ A \cap B = {} /\ C # {}
    BY DEF IsCreator
  <1>3. PICK s : s = Chosen(said, A) \o Chosen(said, B)
    OBVIOUS
  <1>4. Authors(info) = [i \in DOMAIN s |-> s[i].value]
    BY <1>2, <1>3 DEF Authors
  <1> HIDE DEF A, B
  <1>5. s \in Seq(Entry) /\ \E g : Arranges(s, said, A, B, g)
    BY <1>2, <1>3, TwoChosen
  <1> QED
    BY <1>1, <1>4, <1>5 DEF ArrangedAuthors

\* The creators with a name, and the authors with it.
Creators(said) == {i \in DOMAIN said : said[i].element = "creator"}
Named(authors, v) == {k \in DOMAIN authors : authors[k] = v}

\* Every creator is among the authors as often as the book names it.
CreatorsKept(said, authors) ==
    /\ \A v : Cardinality(WithValue(said, Creators(said), v)) = Cardinality(Named(authors, v))
    /\ \A i, j : IsAuthor(said, i) /\ IsCreator(said, j) /\ ~IsAuthor(said, j) =>
         \E k, l \in DOMAIN authors : k < l /\ authors[k] = said[i].value /\ authors[l] = said[j].value

\* The authors of a book with a creator.
LEMMA AuthorsKept ==
    ASSUME NEW said \in Seq(Entry), NEW authors, ArrangedAuthors(said, authors)
    PROVE  CreatorsKept(said, authors)
  <1>1. PICK A, B : A = Marked(said) /\ B = Unmarked(said)
    OBVIOUS
  <1>2. PICK s, g :
          /\ s \in Seq(Entry)
          /\ Arranges(s, said, A, B, g) /\ authors = [i \in DOMAIN s |-> s[i].value]
    BY <1>1 DEF ArrangedAuthors
  <1>3. \A i : i \in A \cup B <=> IsCreator(said, i)
    BY <1>1 DEF Marked, Unmarked, IsAuthor, IsCreator
  <1>4. DOMAIN authors = DOMAIN s /\ \A k \in DOMAIN s : authors[k] = s[k].value
    BY <1>2
  <1>5. ASSUME NEW v
        PROVE  Cardinality(WithValue(said, Creators(said), v)) = Cardinality(Named(authors, v))
    <2>1. Creators(said) = A \cup B
      BY <1>3 DEF Creators, IsCreator
    <2>2. Named(authors, v) = WithValue(s, DOMAIN s, v)
      BY <1>4 DEF Named, WithValue
    <2>3. Cardinality(WithValue(said, A \cup B, v)) = Cardinality(WithValue(s, DOMAIN s, v))
      BY <1>2, ArrangedCount
    <2> QED
      BY <2>1, <2>2, <2>3
  <1>6. ASSUME NEW i, NEW j, i \in A, j \in B
        PROVE  \E k, l \in DOMAIN s : k < l /\ s[k].value = said[i].value /\ s[l].value = said[j].value
    <2>1. PICK k \in DOMAIN s, l \in DOMAIN s : g[k] = i /\ g[l] = j
      BY <1>2, <1>6 DEF Arranges
    <2>2. k < l /\ s[k] = said[i] /\ s[l] = said[j]
      BY <1>2, <1>6, <2>1 DEF Arranges
    <2> QED
      BY <2>2
  <1>7. ASSUME NEW i, NEW j, IsAuthor(said, i), IsCreator(said, j), ~IsAuthor(said, j)
        PROVE  \E k, l \in DOMAIN authors :
                 k < l /\ authors[k] = said[i].value /\ authors[l] = said[j].value
    <2>1. i \in A /\ j \in B
      BY <1>1, <1>7 DEF Marked, Unmarked, IsAuthor, IsCreator
    <2>2. PICK k \in DOMAIN s, l \in DOMAIN s : k < l /\ s[k].value = said[i].value /\ s[l].value = said[j].value
      BY <1>6, <2>1
    <2> QED
      BY <1>4, <2>2
  <1> QED
    BY <1>5, <1>7 DEF CreatorsKept

\* A stated role is in the credits.
RolesKept(said, credits) ==
    \A i \in DOMAIN said : IsCredit(said[i]) /\ Refined(said[i], "role") # Empty =>
        \E k \in DOMAIN credits :
            credits[k].name = said[i].value /\ credits[k].role = Refined(said[i], "role")

\* The credits of a book.
LEMMA CreditsListed ==
    ASSUME NEW info, info.metadata \in Seq(Entry)
    PROVE  RolesKept(info.metadata, Credits(info))
  <1>1. PICK said \in Seq(Entry) : said = info.metadata
    OBVIOUS
  <1> DEFINE S == {i \in DOMAIN said : IsCredit(said[i]) /\ IsQualified(said[i])}
  <1>2. PICK s : s = Chosen(said, S)
    OBVIOUS
  <1>3. Credits(info) = [i \in DOMAIN s |-> Credit(s[i])]
    BY <1>1, <1>2 DEF Credits
  <1>4. S \in SUBSET DOMAIN said
    OBVIOUS
  <1>5. ASSUME NEW i \in DOMAIN said, IsCredit(said[i]), Refined(said[i], "role") # Empty PROVE i \in S
    BY <1>5 DEF IsQualified
  <1> HIDE DEF S
  <1>6. /\ IsFiniteSet(S) /\ S \in SUBSET Nat /\ DOMAIN s = 1..Cardinality(S)
        /\ \A k \in DOMAIN s : s[k] = said[Sorted(S)[k]]
    BY <1>2, <1>4, ChosenItems
  <1>7. \A i \in S : \E k \in 1..Cardinality(S) : Sorted(S)[k] = i
    BY <1>6, SortedList
  <1>8. ASSUME NEW i \in DOMAIN said, IsCredit(said[i]), Refined(said[i], "role") # Empty
        PROVE  \E k \in DOMAIN Credits(info) :
                 Credits(info)[k].name = said[i].value /\ Credits(info)[k].role = Refined(said[i], "role")
    <2>1. PICK k \in DOMAIN s : Sorted(S)[k] = i
      BY <1>5, <1>6, <1>7, <1>8
    <2>2. s[k] = said[i]
      BY <1>6, <2>1
    <2>3. k \in DOMAIN Credits(info) /\ Credits(info)[k] = Credit(said[i])
      BY <1>3, <2>2
    <2> QED
      BY <2>3 DEF Credit
  <1> QED
    BY <1>1, <1>8 DEF RolesKept

\* The authors and the credits of a document, given what the book says.
CreditsOf(d, said) ==
    LET creators == {i \in DOMAIN said : said[i].element = "creator"}
        authors == d.source_meta.authors
    IN  /\ creators # {} =>
             \A i \in creators :
                 Cardinality({k \in creators : said[k].value = said[i].value})
                     = Cardinality({k \in DOMAIN authors : authors[k] = said[i].value})
        /\ \A i, j \in creators :
               (Refined(said[i], "role") = "aut" /\ Refined(said[j], "role") # "aut") =>
                 \E k, l \in DOMAIN authors :
                     k < l /\ authors[k] = said[i].value /\ authors[l] = said[j].value
        /\ RolesKept(said, d.body.meta.creator_roles)

\* The document given away has the credits.
LEMMA CreditsTold == TellInv => CreditsKept
  <1> SUFFICES ASSUME TellInv PROVE \A n \in DOMAIN received : CreditsOf(received[n], folded[1].info.metadata)
    BY DEF CreditsKept, CreditsOf, RolesKept
  <1> SUFFICES ASSUME NEW n \in DOMAIN received, NEW d, d = received[n],
                      NEW said, said = folded[1].info.metadata
               PROVE  CreditsOf(d, said)
    OBVIOUS
  <1> DEFINE creators == {i \in DOMAIN said : said[i].element = "creator"}
  <1>1. PICK info \in Infos : info = folded[1].info
    BY DEF TellInv, Booked
  <1>2. d.source_meta = SourceMeta(info) /\ d.body.meta = BodyMeta(info)
    BY <1>1 DEF TellInv, Booked
  <1>3. PICK authors, credits : authors = Authors(info) /\ credits = Credits(info)
    OBVIOUS
  <1>4. d.source_meta.authors = authors
    BY <1>2, <1>3 DEF SourceMeta
  <1>5. d.body.meta.creator_roles = credits
    BY <1>2, <1>3 DEF BodyMeta
  <1>6. said = info.metadata /\ said \in Seq(Entry)
    <2>1. info \in EpubInfo
      BY FoldAssumption
    <2>2. info.metadata \in Seq([element : STRING, value : STRING,
                                 refinements : Seq([property : STRING, value : STRING])])
      BY <2>1 DEF EpubInfo
    <2> QED
      BY <1>1, <2>2 DEF Entry, Refinement
  <1>7. (creators # {} => CreatorsKept(said, authors)) /\ RolesKept(said, credits)
    <2>1. RolesKept(said, credits)
      BY <1>3, <1>6, CreditsListed
    <2>2. ASSUME NEW c \in creators PROVE CreatorsKept(said, authors)
      <3>1. IsCreator(said, c)
        BY DEF IsCreator
      <3> QED
        BY <1>3, <1>6, <3>1, AuthorsArranged, AuthorsKept
    <2> QED
      BY <2>1, <2>2
  <1>8. ASSUME NEW i \in creators
        PROVE  Cardinality({k \in creators : said[k].value = said[i].value})
                 = Cardinality({k \in DOMAIN authors : authors[k] = said[i].value})
    <2>1. PICK v : v = said[i].value
      OBVIOUS
    <2>2. /\ {k \in creators : said[k].value = v} = WithValue(said, Creators(said), v)
          /\ {k \in DOMAIN authors : authors[k] = v} = Named(authors, v)
      BY DEF WithValue, Creators, Named
    <2>3. Cardinality(WithValue(said, Creators(said), v)) = Cardinality(Named(authors, v))
      BY <1>7 DEF CreatorsKept
    <2> QED
      BY <2>1, <2>2, <2>3
  <1>9. ASSUME NEW i \in creators, NEW j \in creators,
               Refined(said[i], "role") = "aut", Refined(said[j], "role") # "aut"
        PROVE  \E k, l \in DOMAIN authors : k < l /\ authors[k] = said[i].value /\ authors[l] = said[j].value
    <2>1. IsAuthor(said, i) /\ IsCreator(said, j) /\ ~IsAuthor(said, j)
      BY <1>9 DEF IsAuthor, IsCreator
    <2> QED
      BY <1>7, <2>1 DEF CreatorsKept
  <1> QED
    BY <1>4, <1>5, <1>7, <1>8, <1>9 DEF CreditsOf

\* No name the book credits is lost on the way into the document: every creator
\* is an author as often as the book names it, those marked as authors first,
\* and every stated role is among the credits.
THEOREM CreditsAreKept == Spec => []CreditsKept
  <1> QED
    BY FoldStart, FoldStep, TellStart, TellStep, CreditsTold, PTL DEF Spec
=============================================================================
