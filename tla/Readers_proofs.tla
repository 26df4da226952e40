--------------------------- MODULE Readers_proofs ---------------------------
(***************************************************************************)
(* Theorems about the readers of the book's XML, for every set of tags,    *)
(* every length of a document and every cap.                               *)
(*                                                                         *)
(* Of an outline being read, the entries finished are counted where they   *)
(* are: at the root, or below an item that is still open.  None is counted *)
(* twice, so all of them together are no more than `entries', and what     *)
(* drains at the end of the document adds the open items to them.          *)
(*                                                                         *)
(* Of the documents of META-INF and of overlays, what a reader keeps is    *)
(* what the document it has read says so far: the first rootfile until a   *)
(* typed one comes, the records that are open and the ones that were       *)
(* found, the cues of the pars before the last and the cue of the last.    *)
(***************************************************************************)
EXTENDS MCReaders, WellFoundedInduction, SequenceTheorems, FiniteSetTheorems, TLAPS

-----------------------------------------------------------------------------
(* Recursion over the first natural numbers.                               *)

\* A set that numbers enter one after the other has all of them.
LEMMA UpTo ==
    ASSUME NEW n \in Nat, NEW G, 0 \in G, \A i \in 1..n : i - 1 \in G => i \in G
    PROVE  \A i \in 0..n : i \in G
  <1> DEFINE Missing == {i \in 0..n : i \notin G}
  <1> SUFFICES ASSUME Missing # {} PROVE FALSE
    OBVIOUS
  <1>1. Missing \in SUBSET Nat
    OBVIOUS
  <1> HIDE DEF Missing
  <1>2. PICK x \in Missing : \A y \in Missing : ~ (<<y, x>> \in OpToRel(<, Nat))
    BY <1>1, NatLessThanWellFounded, WFMin
  <1>3. x \in 0..n /\ x # 0 /\ x \notin G
    BY DEF Missing
  <1>4. x - 1 \in Missing
    BY <1>3 DEF Missing
  <1>5. <<x - 1, x>> \in OpToRel(<, Nat)
    BY <1>3 DEF OpToRel
  <1> QED
    BY <1>2, <1>4, <1>5

\* What is computed from a on by the steps 1 to n.
Steps(n, S, a, step, f) ==
    /\ f \in [0..n -> S]
    /\ f[0] = a
    /\ \A i \in 1..n : f[i] = step[<<i, f[i - 1]>>]

\* There is something that is computed so.
LEMMA StepsExist ==
    ASSUME NEW n \in Nat, NEW S, NEW a \in S, NEW step \in [(1..n) \X S -> S]
    PROVE  \E f : Steps(n, S, a, step, f)
  <1> DEFINE G == {k \in 0..n : \E f : Steps(k, S, a, step, f)}
  <1>1. 0 \in G
    <2>1. Steps(0, S, a, step, [i \in 0..0 |-> a])
      BY DEF Steps
    <2> QED
      BY <2>1
  <1>2. ASSUME NEW k \in 1..n, k - 1 \in G PROVE k \in G
    <2>1. PICK f : Steps(k - 1, S, a, step, f)
      BY <1>2
    <2> DEFINE g == [i \in 0..k |-> IF i = k THEN step[<<k, f[k - 1]>>] ELSE f[i]]
    <2>2. k \in Nat /\ k >= 1 /\ f[k - 1] \in S /\ <<k, f[k - 1]>> \in (1..n) \X S
      BY <2>1 DEF Steps
    <2>3. step[<<k, f[k - 1]>>] \in S
      BY <2>2
    <2>4. g \in [0..k -> S] /\ g[0] = a
      BY <2>1, <2>2, <2>3 DEF Steps
    <2>5. ASSUME NEW i \in 1..k PROVE g[i] = step[<<i, g[i - 1]>>]
      <3>1. i - 1 \in 0..k /\ i - 1 # k /\ g[i - 1] = f[i - 1]
        BY <2>2
      <3>2. CASE i = k
        BY <3>1, <3>2
      <3>3. CASE i # k
        <4>1. i \in 1..(k - 1)
          BY <2>2, <3>3
        <4>2. g[i] = f[i] /\ f[i] = step[<<i, f[i - 1]>>]
          BY <2>1, <3>3, <4>1 DEF Steps
        <4> QED
          BY <3>1, <4>2
      <3> QED
        BY <3>2, <3>3
    <2> HIDE DEF g
    <2>6. Steps(k, S, a, step, g)
      BY <2>4, <2>5 DEF Steps
    <2> QED
      BY <2>6
  <1> HIDE DEF G
  <1>3. \A k \in 0..n : k \in G
    BY <1>1, <1>2, UpTo
  <1> QED
    BY <1>3 DEF G

\* What goes on by the steps as long as it has the type has it all along.
LEMMA StepsFound ==
    ASSUME NEW n \in Nat, NEW S, NEW a \in S, NEW step \in [(1..n) \X S -> S],
           NEW P, P = [i \in 0..n |-> P[i]], P[0] = a,
           \A i \in 1..n : P[i - 1] \in S => P[i] = step[<<i, P[i - 1]>>]
    PROVE  Steps(n, S, a, step, P)
  <1> DEFINE G == {i \in 0..n : P[i] \in S}
  <1>1. 0 \in G
    OBVIOUS
  <1>2. ASSUME NEW i \in 1..n, i - 1 \in G PROVE i \in G
    <2>1. P[i - 1] \in S /\ <<i, P[i - 1]>> \in (1..n) \X S
      BY <1>2
    <2>2. step[<<i, P[i - 1]>>] \in S
      BY <2>1
    <2>3. P[i] = step[<<i, P[i - 1]>>]
      BY <2>1
    <2>4. P[i] \in S
      BY <2>2, <2>3
    <2> QED
      BY <2>4
  <1>3. \A i \in 0..n : i \in G
    <2> HIDE DEF G
    <2> QED
      BY <1>1, <1>2, UpTo
  <1>4. P \in [0..n -> S]
    BY <1>3
  <1>5. ASSUME NEW i \in 1..n PROVE P[i] = step[<<i, P[i - 1]>>]
    <2>1. i - 1 \in 0..n
      OBVIOUS
    <2> QED
      BY <1>3, <2>1
  <1> QED
    BY <1>4, <1>5 DEF Steps

-----------------------------------------------------------------------------
(* An outline within its caps.                                             *)

\* The entries and the items there are with texts and hrefs of a set.
EntryOf(L) == [label : L, href : L, depth : Nat]
PointOf(L) == [label : L, href : L, below : Seq(EntryOf(L)), depth : Nat]

\* No entry of a sequence is too deep when it stands n deep itself.
Within(s, n) == \A i \in DOMAIN s : s[i].depth + n < MaxDepth

\* How many entries are finished, those below the k outermost items counted.
Counts(s, r, f) ==
    /\ f \in [0..Len(s) -> Nat]
    /\ f[0] = Len(r)
    /\ \A k \in 1..Len(s) : f[k] = f[k - 1] + Len(s[k].below)

\* Open items s and entries r are of these types,
Typed(L, s, r) ==
    /\ NoHref \in L /\ <<>> \in L
    /\ s \in Seq(PointOf(L))
    /\ r \in Seq(EntryOf(L))

\* not too deep,
Shallow(s, r) ==
    /\ Len(s) <= MaxDepth
    /\ Within(r, 0)
    /\ \A k \in 1..Len(s) : Within(s[k].below, k)

\* and hold at most n finished entries.
Holds(s, r, n) == \E f : Counts(s, r, f) /\ f[Len(s)] <= n

Fits(L, s, r, n) == Typed(L, s, r) /\ Shallow(s, r) /\ Holds(s, r, n)

\* The cap on the depth is a number.
LEMMA DepthCap == MaxDepth \in Nat \ {0}
  BY NavAssumption

\* A sequence with one element more.
LEMMA Longer ==
    ASSUME NEW S, NEW s \in Seq(S), NEW e \in S
    PROVE  /\ Append(s, e) \in Seq(S) /\ Len(Append(s, e)) = Len(s) + 1
           /\ Append(s, e)[Len(s) + 1] = e
           /\ \A k \in 1..Len(s) : Append(s, e)[k] = s[k]
  OBVIOUS

\* The same of one with another last element.
LEMMA Replaced ==
    ASSUME NEW S, NEW s \in Seq(S), NEW e \in S, s # <<>>
    PROVE  /\ [s EXCEPT ![Len(s)] = e] \in Seq(S)
           /\ Len([s EXCEPT ![Len(s)] = e]) = Len(s)
           /\ \A k \in 1..Len(s) : [s EXCEPT ![Len(s)] = e][k] = IF k = Len(s) THEN e ELSE s[k]
  <1>1. Len(s) \in Nat /\ s \in [1..Len(s) -> S]
    OBVIOUS
  <1>2. PICK t : t = [s EXCEPT ![Len(s)] = e]
    OBVIOUS
  <1>3. t \in [1..Len(s) -> S]
    BY <1>1, <1>2
  <1>4. t \in Seq(S) /\ Len(t) = Len(s)
    BY <1>1, <1>3
  <1>5. \A k \in 1..Len(s) : t[k] = IF k = Len(s) THEN e ELSE s[k]
    BY <1>1, <1>2
  <1> QED
    BY <1>2, <1>4, <1>5

\* There is room for n entries if there is for fewer, whatever is in the set.
LEMMA FitsMore ==
    ASSUME NEW L, NEW s, NEW r, NEW n \in Nat, Fits(L, s, r, n),
           NEW M, L \subseteq M, NEW m \in Nat, n <= m
    PROVE  Fits(M, s, r, m)
  <1>1. EntryOf(L) \subseteq EntryOf(M)
    BY DEF EntryOf
  <1>2. Seq(EntryOf(L)) \subseteq Seq(EntryOf(M))
    BY <1>1
  <1>3. PointOf(L) \subseteq PointOf(M)
    BY <1>2 DEF PointOf
  <1>4. Seq(PointOf(L)) \subseteq Seq(PointOf(M))
    BY <1>3
  <1>5. Typed(M, s, r)
    BY <1>2, <1>4 DEF Fits, Typed
  <1>6. Holds(s, r, m)
    <2>1. Len(s) \in Nat
      BY DEF Fits, Typed
    <2>2. PICK f : Counts(s, r, f) /\ f[Len(s)] <= n
      BY DEF Fits, Holds
    <2>3. f[Len(s)] \in Nat
      BY <2>1, <2>2 DEF Counts
    <2> QED
      BY <2>2, <2>3 DEF Holds
  <1> QED
    BY <1>5, <1>6 DEF Fits

\* An item that begins has nothing below it.
LEMMA FitsBegun ==
    ASSUME NEW L, NEW s, NEW r, NEW n \in Nat, Fits(L, s, r, n),
           Len(s) < MaxDepth, NEW d \in Nat
    PROVE  Fits(L, Append(s, Open(d)), r, n)
  <1>1. /\ s \in Seq(PointOf(L)) /\ r \in Seq(EntryOf(L)) /\ Len(s) \in Nat
        /\ \A k \in 1..Len(s) : s[k] \in PointOf(L)
    BY DEF Fits, Typed
  <1>2. Open(d) \in PointOf(L) /\ Open(d).below = <<>>
    BY DEF Open, PointOf, Fits, Typed
  <1>3. PICK p \in PointOf(L) : p = Open(d) /\ p.below = <<>>
    BY <1>2
  <1>4. PICK t : t = Append(s, p)
    OBVIOUS
  <1>5. /\ t \in Seq(PointOf(L))
        /\ Len(t) = Len(s) + 1 /\ t[Len(t)] = p
        /\ \A k \in 1..Len(s) : t[k] = s[k]
    BY <1>1, <1>4, Longer
  <1>6. Typed(L, t, r)
    BY <1>5 DEF Fits, Typed
  <1>7. Shallow(t, r)
    <2>1. ASSUME NEW k \in 1..Len(t) PROVE Within(t[k].below, k)
      <3>1. CASE k = Len(t)
        <4>1. t[k].below = <<>>
          BY <1>3, <1>5, <3>1
        <4> QED
          BY <4>1 DEF Within
      <3>2. CASE k # Len(t)
        <4>1. k \in 1..Len(s)
          BY <1>1, <1>5, <3>2
        <4> QED
          BY <1>5, <4>1 DEF Fits, Shallow
      <3> QED
        BY <3>1, <3>2
    <2>2. Len(t) <= MaxDepth
      BY <1>1, <1>5, DepthCap
    <2> QED
      BY <2>1, <2>2 DEF Fits, Shallow
  <1>8. Holds(t, r, n)
    <2>1. PICK f : Counts(s, r, f) /\ f[Len(s)] <= n
      BY DEF Fits, Holds
    <2> DEFINE g == [k \in 0..Len(t) |-> IF k = Len(t) THEN f[Len(s)] ELSE f[k]]
    <2>2. g \in [0..Len(t) -> Nat] /\ g[0] = Len(r) /\ g[Len(t)] = f[Len(s)]
      BY <1>1, <1>5, <2>1 DEF Counts
    <2>3. ASSUME NEW k \in 1..Len(t) PROVE g[k] = g[k - 1] + Len(t[k].below)
      <3>1. k - 1 \in 0..Len(s) /\ g[k - 1] = f[k - 1]
        BY <1>1, <1>5
      <3>2. CASE k = Len(t)
        <4>1. k - 1 = Len(s) /\ g[k] = f[Len(s)] /\ Len(t[k].below) = 0
          BY <1>1, <1>3, <1>5, <3>2
        <4>2. f[Len(s)] \in Nat
          BY <1>1, <2>1 DEF Counts
        <4> QED
          BY <3>1, <4>1, <4>2
      <3>3. CASE k # Len(t)
        <4>1. k \in 1..Len(s) /\ g[k] = f[k]
          BY <1>1, <1>5, <3>3
        <4> QED
          BY <1>5, <2>1, <3>1, <4>1 DEF Counts
      <3> QED
        BY <3>2, <3>3
    <2> HIDE DEF g
    <2>4. Counts(t, r, g)
      BY <2>2, <2>3 DEF Counts
    <2> QED
      BY <2>1, <2>2, <2>4 DEF Holds
  <1> QED
    BY <1>3, <1>4, <1>6, <1>7, <1>8 DEF Fits

\* An item with the same entries below it takes its place.
LEMMA FitsRetitled ==
    ASSUME NEW L, NEW s, NEW r, NEW n \in Nat, Fits(L, s, r, n), s # <<>>,
           NEW q \in PointOf(L), q.below = s[Len(s)].below
    PROVE  Fits(L, [s EXCEPT ![Len(s)] = q], r, n)
  <1>1. /\ s \in Seq(PointOf(L)) /\ r \in Seq(EntryOf(L)) /\ Len(s) \in Nat
        /\ DOMAIN s = 1..Len(s)
    BY DEF Fits, Typed
  <1>2. PICK t : t = [s EXCEPT ![Len(s)] = q]
    OBVIOUS
  <1>3. /\ t \in Seq(PointOf(L)) /\ Len(t) = Len(s)
        /\ \A k \in 1..Len(s) : t[k].below = s[k].below
    BY <1>1, <1>2, Replaced
  <1>4. Typed(L, t, r)
    BY <1>3 DEF Fits, Typed
  <1>5. Shallow(t, r)
    BY <1>3 DEF Fits, Shallow
  <1>6. Holds(t, r, n)
    BY <1>3 DEF Fits, Holds, Counts
  <1> QED
    BY <1>2, <1>4, <1>5, <1>6 DEF Fits

\* Two sequences one after the other.
LEMMA Joined ==
    ASSUME NEW S, NEW s \in Seq(S), NEW t \in Seq(S)
    PROVE  /\ s \o t \in Seq(S) /\ Len(s \o t) = Len(s) + Len(t)
           /\ \A k \in 1..Len(s) + Len(t) :
                 (s \o t)[k] = IF k <= Len(s) THEN s[k] ELSE t[k - Len(s)]
  OBVIOUS

\* A sequence without its last element.
LEMMA Fronted ==
    ASSUME NEW S, NEW s \in Seq(S), s # <<>>
    PROVE  /\ Front(s) \in Seq(S) /\ Len(Front(s)) = Len(s) - 1 /\ Len(s) \in Nat \ {0}
           /\ \A k \in 1..Len(s) - 1 : Front(s)[k] = s[k]
           /\ Last(s) = s[Len(s)] /\ Last(s) \in S
  <1>1. Len(s) \in Nat \ {0} /\ \A k \in 1..Len(s) : s[k] \in S
    OBVIOUS
  <1>2. PICK n \in Nat : n = Len(s) - 1
    BY <1>1
  <1>3. PICK t : t = Front(s)
    OBVIOUS
  <1>4. t = [k \in 1..n |-> s[k]]
    BY <1>1, <1>2, <1>3 DEF Front
  <1>5. t \in Seq(S) /\ Len(t) = n
    BY <1>1, <1>2, <1>4
  <1>6. Last(s) = s[Len(s)] /\ Last(s) \in S
    BY <1>1 DEF Last
  <1> QED
    BY <1>1, <1>2, <1>3, <1>4, <1>5, <1>6

\* Entries that are not too deep, one after the other.
LEMMA WithinJoined ==
    ASSUME NEW L, NEW s \in Seq(EntryOf(L)), NEW t \in Seq(EntryOf(L)), NEW n \in Nat,
           Within(s, n), Within(t, n)
    PROVE  Within(s \o t, n)
  <1>1. PICK u : u = s \o t
    OBVIOUS
  <1>2. /\ u \in Seq(EntryOf(L)) /\ Len(u) = Len(s) + Len(t)
        /\ \A k \in 1..Len(s) + Len(t) :
              u[k] = IF k <= Len(s) THEN s[k] ELSE t[k - Len(s)]
    BY <1>1, Joined
  <1>3. /\ DOMAIN u = 1..Len(s) + Len(t) /\ DOMAIN s = 1..Len(s) /\ DOMAIN t = 1..Len(t)
        /\ Len(s) \in Nat /\ Len(t) \in Nat
    BY <1>2
  <1>4. ASSUME NEW k \in DOMAIN u PROVE u[k].depth + n < MaxDepth
    <2>1. CASE k <= Len(s)
      <3>1. k \in DOMAIN s /\ u[k] = s[k]
        BY <1>2, <1>3, <2>1
      <3> QED
        BY <3>1 DEF Within
    <2>2. CASE ~(k <= Len(s))
      <3>1. k - Len(s) \in DOMAIN t /\ u[k] = t[k - Len(s)]
        BY <1>2, <1>3, <2>2
      <3> QED
        BY <3>1 DEF Within
    <2> QED
      BY <2>1, <2>2
  <1> QED
    BY <1>1, <1>4 DEF Within

\* An item and what is below it are one entry more, and one level.
LEMMA Flattened ==
    ASSUME NEW L, NEW p \in PointOf(L)
    PROVE  /\ Flatten(p) \in Seq(EntryOf(L)) /\ Len(Flatten(p)) = 1 + Len(p.below)
           /\ \A n \in Nat : n < MaxDepth /\ Within(p.below, n + 1) => Within(Flatten(p), n)
  <1> DEFINE b == p.below
             e == Entry(p, 0)
             d == Deeper(b)
  <1>1. b \in Seq(EntryOf(L)) /\ e \in EntryOf(L) /\ e.depth = 0
    BY DEF Entry, EntryOf, PointOf
  <1>2. /\ Len(b) \in Nat /\ DOMAIN b = 1..Len(b) /\ DOMAIN d = 1..Len(b)
        /\ \A i \in 1..Len(b) : b[i] \in EntryOf(L) /\ d[i] = [b[i] EXCEPT !.depth = @ + 1]
    BY <1>1 DEF Deeper
  <1>3. Flatten(p) = <<e>> \o d
    BY DEF Flatten
  <1> HIDE DEF b, e, d
  <1>4. \A i \in 1..Len(b) : d[i] \in EntryOf(L) /\ d[i].depth = b[i].depth + 1
    <2> SUFFICES ASSUME NEW i \in 1..Len(b)
                 PROVE  d[i] \in EntryOf(L) /\ d[i].depth = b[i].depth + 1
      OBVIOUS
    <2>1. PICK c \in EntryOf(L) : c = b[i] /\ d[i] = [c EXCEPT !.depth = @ + 1]
      BY <1>2
    <2> QED
      BY <2>1 DEF EntryOf
  <1>5. d \in Seq(EntryOf(L)) /\ Len(d) = Len(b)
    <2>1. d \in [1..Len(b) -> EntryOf(L)]
      <3>1. d = [i \in 1..Len(b) |-> d[i]]
        BY <1>2 DEF d, Deeper
      <3> QED
        BY <1>4, <3>1
    <2> QED
      BY <1>2, <2>1
  <1>6. <<e>> \in Seq(EntryOf(L)) /\ Len(<<e>>) = 1 /\ <<e>>[1] = e
    BY <1>1
  <1>7. Flatten(p) \in Seq(EntryOf(L)) /\ Len(Flatten(p)) = 1 + Len(b)
    BY <1>3, <1>5, <1>6, Joined
  <1>8. ASSUME NEW n \in Nat, n < MaxDepth, Within(b, n + 1) PROVE Within(Flatten(p), n)
    <2>1. Within(<<e>>, n)
      BY <1>1, <1>6, <1>8 DEF Within
    <2>2. Within(d, n)
      <3> SUFFICES ASSUME NEW i \in 1..Len(b) PROVE d[i].depth + n < MaxDepth
        BY <1>2 DEF Within
      <3>1. b[i].depth \in Nat
        BY <1>2 DEF EntryOf
      <3>2. b[i].depth + (n + 1) < MaxDepth
        BY <1>2, <1>8 DEF Within
      <3> QED
        BY <1>4, <3>1, <3>2, DepthCap
    <2> QED
      BY <1>3, <1>5, <1>6, <2>1, <2>2, WithinJoined
  <1> QED
    BY <1>7, <1>8 DEF b

\* An item that is dropped takes what is below it along.
LEMMA FitsDropped ==
    ASSUME NEW L, NEW s, NEW r, NEW n \in Nat, Fits(L, s, r, n), s # <<>>
    PROVE  Fits(L, Front(s), r, n)
  <1>1. PICK t : t = Front(s)
    OBVIOUS
  <1>2. s \in Seq(PointOf(L)) /\ r \in Seq(EntryOf(L))
    BY DEF Fits, Typed
  <1>3. /\ t \in Seq(PointOf(L)) /\ Len(t) = Len(s) - 1 /\ Len(s) \in Nat \ {0}
        /\ \A k \in 1..Len(s) - 1 : t[k] = s[k]
    BY <1>1, <1>2, Fronted
  <1>4. Typed(L, t, r)
    BY <1>3 DEF Fits, Typed
  <1>5. Shallow(t, r)
    BY <1>3, DepthCap DEF Fits, Shallow
  <1>6. Holds(t, r, n)
    <2>1. PICK f : Counts(s, r, f) /\ f[Len(s)] <= n
      BY DEF Fits, Holds
    <2> DEFINE g == [k \in 0..Len(t) |-> f[k]]
    <2>2. g \in [0..Len(t) -> Nat] /\ g[0] = Len(r) /\ g[Len(t)] = f[Len(s) - 1]
      BY <1>3, <2>1 DEF Counts
    <2>3. ASSUME NEW k \in 1..Len(t) PROVE g[k] = g[k - 1] + Len(t[k].below)
      BY <1>3, <2>1 DEF Counts
    <2> HIDE DEF g
    <2>4. g[Len(t)] <= n
      <3>1. f[Len(s) - 1] \in Nat /\ f[Len(s)] = f[Len(s) - 1] + Len(s[Len(s)].below)
        <4>1. Len(s) - 1 \in 0..Len(s) /\ Len(s) \in 1..Len(s)
          BY <1>3
        <4> QED
          BY <2>1, <4>1 DEF Counts
      <3>2. Len(s[Len(s)].below) \in Nat
        BY <1>2, <1>3 DEF PointOf
      <3> QED
        BY <2>1, <2>2, <3>1, <3>2
    <2>5. Counts(t, r, g)
      BY <2>2, <2>3 DEF Counts
    <2> QED
      BY <2>4, <2>5 DEF Holds
  <1> QED
    BY <1>1, <1>4, <1>5, <1>6 DEF Fits

\* The entries below an item.
LEMMA Below ==
    ASSUME NEW L, NEW p \in PointOf(L)
    PROVE  p.below \in Seq(EntryOf(L)) /\ Len(p.below) \in Nat
  <1>1. p.below \in Seq(EntryOf(L))
    BY DEF PointOf
  <1> QED
    BY <1>1

\* What fits is what it is made of.
LEMMA FitsParts ==
    ASSUME NEW L, NEW s, NEW r, NEW n \in Nat, Fits(L, s, r, n)
    PROVE  /\ s \in Seq(PointOf(L)) /\ r \in Seq(EntryOf(L)) /\ Len(s) \in Nat /\ Len(r) \in Nat
           /\ Len(s) <= MaxDepth /\ Within(r, 0) /\ \A k \in 1..Len(s) : Within(s[k].below, k)
  <1>1. s \in Seq(PointOf(L)) /\ r \in Seq(EntryOf(L))
    BY DEF Fits, Typed
  <1>2. Len(s) <= MaxDepth /\ Within(r, 0) /\ \A k \in 1..Len(s) : Within(s[k].below, k)
    BY DEF Fits, Shallow
  <1> QED
    BY <1>1, <1>2

\* w is s with the innermost item finished.
Merges(s, w) == w = [Front(s) EXCEPT ![Len(Front(s))].below = @ \o Flatten(Last(s))]

\* What is finished last goes below the item around it, when there is one.
LEMMA FitsFinished ==
    ASSUME NEW L, NEW s, NEW r, NEW n \in Nat, Fits(L, s, r, n), Len(s) > 1,
           NEW w, Merges(s, w)
    PROVE  Fits(L, w, r, n + 1)
  <1> DEFINE z == Len(s)
  <1>1. /\ s \in Seq(PointOf(L)) /\ r \in Seq(EntryOf(L)) /\ s # <<>> /\ z \in Nat /\ z > 1
        /\ z <= MaxDepth /\ Within(r, 0) /\ \A k \in 1..z : Within(s[k].below, k)
    <2>1. s # <<>>
      OBVIOUS
    <2> QED
      BY <2>1, FitsParts
  <1>2. PICK t : t = Front(s)
    OBVIOUS
  <1>3. PICK p : p = Last(s)
    OBVIOUS
  <1>4. /\ t \in Seq(PointOf(L)) /\ Len(t) = z - 1
        /\ \A k \in 1..z - 1 : t[k] = s[k]
        /\ p \in PointOf(L) /\ p = s[z]
    BY <1>1, <1>2, <1>3, Fronted
  <1> HIDE DEF z
  <1>5. PICK o : o = t[z - 1]
    OBVIOUS
  <1>6. o = s[z - 1] /\ o \in PointOf(L) /\ o.below \in Seq(EntryOf(L)) /\ t # <<>>
        /\ p.below \in Seq(EntryOf(L))
    <2>1. z - 1 \in 1..z - 1 /\ t # <<>>
      BY <1>1, <1>4
    <2>2. o = s[z - 1] /\ o \in PointOf(L)
      BY <1>4, <1>5, <2>1
    <2> QED
      BY <1>4, <2>1, <2>2, Below
  <1>7. PICK b : b = o.below \o Flatten(p)
    OBVIOUS
  <1>8. Within(o.below, z - 1) /\ Within(p.below, z)
    <2>1. z - 1 \in 1..z /\ z \in 1..z
      BY <1>1
    <2> QED
      BY <1>1, <1>4, <1>6, <2>1
  <1>9. Within(Flatten(p), z - 1) /\ Flatten(p) \in Seq(EntryOf(L))
        /\ Len(Flatten(p)) = 1 + Len(p.below)
    <2>1. PICK m \in Nat : m = z - 1 /\ m + 1 = z /\ m < MaxDepth
      BY <1>1, DepthCap
    <2>2. Within(Flatten(p), m)
      BY <1>4, <1>8, <2>1, Flattened
    <2> QED
      BY <1>4, <2>1, <2>2, Flattened
  <1>10. b \in Seq(EntryOf(L)) /\ Len(b) = Len(o.below) + 1 + Len(p.below) /\ Within(b, z - 1)
    <2>1. b \in Seq(EntryOf(L)) /\ Len(b) = Len(o.below) + Len(Flatten(p))
      BY <1>6, <1>7, <1>9, Joined
    <2>2. Within(b, z - 1)
      <3>1. z - 1 \in Nat
        BY <1>1
      <3> QED
        BY <1>6, <1>7, <1>8, <1>9, <3>1, WithinJoined
    <2>3. Len(o.below) \in Nat /\ Len(p.below) \in Nat
      BY <1>4, <1>6, Below
    <2>4. PICK x \in Nat, y \in Nat : x = Len(o.below) /\ y = Len(p.below)
      BY <2>3
    <2>5. Len(b) = x + (1 + y)
      BY <1>9, <2>1, <2>4
    <2>6. x + (1 + y) = x + 1 + y
      OBVIOUS
    <2> QED
      BY <2>1, <2>2, <2>4, <2>5, <2>6
  <1>11. PICK q : q = [o EXCEPT !.below = b]
    OBVIOUS
  <1>12. q \in PointOf(L) /\ q.below = b
    BY <1>6, <1>10, <1>11 DEF PointOf
  <1>13. w = [t EXCEPT ![Len(t)] = q]
    <2>1. Len(t) \in DOMAIN t
      BY <1>1, <1>4
    <2>2. w = [t EXCEPT ![Len(t)] = [t[Len(t)] EXCEPT !.below = t[Len(t)].below \o Flatten(p)]]
      BY <1>2, <1>3, <2>1 DEF Merges
    <2> QED
      BY <1>4, <1>5, <1>7, <1>11, <2>2
  <1>14. w \in Seq(PointOf(L)) /\ Len(w) = z - 1
         /\ \A k \in 1..z - 1 : w[k] = IF k = z - 1 THEN q ELSE s[k]
    <2>1. /\ w \in Seq(PointOf(L)) /\ Len(w) = Len(t)
          /\ \A k \in 1..Len(t) : w[k] = IF k = Len(t) THEN q ELSE t[k]
      BY <1>4, <1>6, <1>12, <1>13, Replaced
    <2> QED
      BY <1>4, <2>1
  <1>15. Typed(L, w, r)
    BY <1>14 DEF Fits, Typed
  <1>16. Shallow(w, r)
    <2>1. ASSUME NEW k \in 1..Len(w) PROVE Within(w[k].below, k)
      <3>1. k \in 1..z - 1 /\ k \in 1..z
        BY <1>1, <1>14
      <3>2. CASE k = z - 1
        BY <1>10, <1>12, <1>14, <3>1, <3>2
      <3>3. CASE k # z - 1
        BY <1>1, <1>14, <3>1, <3>3
      <3> QED
        BY <3>2, <3>3
    <2>2. Len(w) <= MaxDepth
      BY <1>1, <1>14, DepthCap
    <2> QED
      BY <1>1, <2>1, <2>2 DEF Shallow
  <1>17. Holds(w, r, n + 1)
    <2>1. PICK f : Counts(s, r, f) /\ f[z] <= n
      BY DEF Fits, Holds, z
    <2>2. /\ \A k \in 0..z : f[k] \in Nat
          /\ f[0] = Len(r)
          /\ \A k \in 1..z : f[k] = f[k - 1] + Len(s[k].below)
      BY <2>1 DEF Counts, z
    <2> DEFINE g == [k \in 0..z - 1 |-> IF k = z - 1 THEN f[z] + 1 ELSE f[k]]
    <2>3. g \in [0..z - 1 -> Nat] /\ g[0] = Len(r) /\ g[z - 1] = f[z] + 1
      BY <1>1, <2>2
    <2>4. ASSUME NEW k \in 1..z - 1 PROVE g[k] = g[k - 1] + Len(w[k].below)
      <3>1. k - 1 \in 0..z /\ k \in 1..z /\ g[k - 1] = f[k - 1] /\ f[k - 1] \in Nat
        BY <1>1, <2>2
      <3>2. CASE k = z - 1
        <4>1. Len(w[k].below) = Len(o.below) + 1 + Len(p.below)
          BY <1>10, <1>12, <1>14, <3>2
        <4>2. f[k] = f[k - 1] + Len(o.below)
          BY <1>6, <2>2, <3>1, <3>2
        <4>3. f[z] = f[k] + Len(p.below)
          <5>1. z \in 1..z /\ z - 1 = k
            BY <1>1, <3>2
          <5> QED
            BY <1>4, <2>2, <5>1
        <4>4. Len(o.below) \in Nat /\ Len(p.below) \in Nat
          BY <1>4, <1>6, Below
        <4>5. g[k] = f[z] + 1
          BY <2>3, <3>2
        <4>6. PICK x \in Nat, y \in Nat, c \in Nat :
                 x = Len(o.below) /\ y = Len(p.below) /\ c = f[k - 1]
          BY <3>1, <4>4
        <4>7. f[z] = (c + x) + y
          BY <4>2, <4>3, <4>6
        <4>8. (c + x) + y + 1 = c + (x + 1 + y)
          OBVIOUS
        <4> QED
          BY <3>1, <4>1, <4>5, <4>6, <4>7, <4>8
      <3>3. CASE k # z - 1
        <4>1. g[k] = f[k] /\ w[k] = s[k]
          BY <1>1, <1>14, <3>3
        <4> QED
          BY <2>2, <3>1, <4>1
      <3> QED
        BY <3>2, <3>3
    <2> HIDE DEF g
    <2>5. Counts(w, r, g)
      BY <1>14, <2>3, <2>4 DEF Counts
    <2>6. g[Len(w)] <= n + 1
      <3>1. f[z] \in Nat
        BY <1>1, <2>2
      <3> QED
        BY <1>14, <2>1, <2>3, <3>1
    <2> QED
      BY <2>5, <2>6 DEF Holds
  <1> QED
    BY <1>15, <1>16, <1>17 DEF Fits

\* What is finished with no item around it is at the root.
LEMMA FitsRooted ==
    ASSUME NEW L, NEW s, NEW r, NEW n \in Nat, Fits(L, s, r, n), Len(s) = 1
    PROVE  Fits(L, <<>>, r \o Flatten(Last(s)), n + 1)
  <1>1. /\ s \in Seq(PointOf(L)) /\ r \in Seq(EntryOf(L)) /\ s # <<>>
        /\ Within(r, 0) /\ Within(s[1].below, 1)
    <2>1. s # <<>> /\ 1 \in 1..Len(s)
      OBVIOUS
    <2> QED
      BY <2>1, FitsParts
  <1>2. PICK p : p = Last(s)
    OBVIOUS
  <1>3. p = s[1] /\ p \in PointOf(L) /\ p.below \in Seq(EntryOf(L)) /\ Len(p.below) \in Nat
    <2>1. p = s[1] /\ p \in PointOf(L)
      BY <1>1, <1>2, Fronted
    <2> QED
      BY <2>1, Below
  <1>4. /\ Within(Flatten(p), 0) /\ Flatten(p) \in Seq(EntryOf(L))
        /\ Len(Flatten(p)) = 1 + Len(p.below)
    <2>1. 0 \in Nat /\ 0 + 1 = 1 /\ 0 < MaxDepth
      BY DepthCap
    <2>2. Within(p.below, 0 + 1)
      BY <1>1, <1>3, <2>1
    <2> QED
      BY <1>3, <2>1, <2>2, Flattened
  <1>5. PICK q : q = r \o Flatten(p)
    OBVIOUS
  <1>6. q \in Seq(EntryOf(L)) /\ Len(q) = Len(r) + Len(Flatten(p)) /\ Within(q, 0)
    <2>1. 0 \in Nat
      OBVIOUS
    <2> QED
      BY <1>1, <1>4, <1>5, <2>1, Joined, WithinJoined
  <1>7. Typed(L, <<>>, q)
    BY <1>6 DEF Fits, Typed
  <1>8. Shallow(<<>>, q)
    BY <1>6, DepthCap DEF Shallow
  <1>9. Holds(<<>>, q, n + 1)
    <2>1. PICK f : Counts(s, r, f) /\ f[1] <= n
      BY DEF Fits, Holds
    <2>2. f[0] = Len(r) /\ f[1] = f[0] + Len(p.below)
      <3>1. 1 \in 1..Len(s) /\ 1 - 1 = 0
        OBVIOUS
      <3> QED
        BY <1>3, <2>1, <3>1 DEF Counts
    <2>3. Len(r) \in Nat /\ Len(p.below) \in Nat
      BY <1>1, <1>3
    <2>4. Len(q) \in Nat /\ Len(q) <= n + 1
      BY <1>4, <1>6, <2>1, <2>2, <2>3
    <2>5. Counts(<<>>, q, [k \in 0..0 |-> Len(q)])
      BY <2>4 DEF Counts
    <2> QED
      BY <2>4, <2>5 DEF Holds
  <1> QED
    BY <1>2, <1>5, <1>7, <1>8, <1>9 DEF Fits

\* What is left of an open item is no more than it has and is handed, and itself.
LEMMA KeptOfItem ==
    ASSUME NEW L, NEW p \in PointOf(L), NEW b \in Seq(EntryOf(L))
    PROVE  /\ Keep(p, b) \in Seq(EntryOf(L)) /\ Len(Keep(p, b)) <= 1 + Len(p.below) + Len(b)
           /\ \A n \in Nat : n < MaxDepth /\ Within(p.below, n + 1) /\ Within(b, n + 1)
                           => Within(Keep(p, b), n)
  <1>1. PICK x \in Nat, y \in Nat : x = Len(p.below) /\ y = Len(b)
    BY Below
  <1>2. CASE p.label = <<>>
    <2>1. Keep(p, b) = <<>>
      BY <1>2 DEF Keep
    <2>2. Len(Keep(p, b)) = 0 /\ Keep(p, b) \in Seq(EntryOf(L))
      BY <2>1
    <2>3. \A n : Within(Keep(p, b), n)
      BY <2>1 DEF Within
    <2>4. 0 <= 1 + x + y
      OBVIOUS
    <2> QED
      BY <1>1, <2>2, <2>3, <2>4
  <1>3. CASE p.label # <<>>
    <2>1. PICK c : c = p.below \o b
      OBVIOUS
    <2>2. c \in Seq(EntryOf(L)) /\ Len(c) = x + y
      BY <1>1, <2>1, Below, Joined
    <2>3. PICK q : q = [p EXCEPT !.below = c]
      OBVIOUS
    <2>4. q \in PointOf(L) /\ q.below = c
      BY <2>2, <2>3 DEF PointOf
    <2>5. Keep(p, b) = Flatten(q)
      BY <1>3, <2>1, <2>3 DEF Keep
    <2>6. /\ Flatten(q) \in Seq(EntryOf(L)) /\ Len(Flatten(q)) = 1 + Len(q.below)
          /\ \A n \in Nat : n < MaxDepth /\ Within(q.below, n + 1) => Within(Flatten(q), n)
      BY <2>4, Flattened
    <2>7. \A n \in Nat : Within(p.below, n + 1) /\ Within(b, n + 1) => Within(c, n + 1)
      <3> SUFFICES ASSUME NEW n \in Nat, Within(p.below, n + 1), Within(b, n + 1)
                   PROVE  Within(c, n + 1)
        OBVIOUS
      <3>1. n + 1 \in Nat
        OBVIOUS
      <3> QED
        BY <2>1, <3>1, Below, WithinJoined
    <2>8. 1 + (x + y) <= 1 + x + y
      OBVIOUS
    <2> QED
      BY <1>1, <2>2, <2>4, <2>5, <2>6, <2>7, <2>8
  <1> QED
    BY <1>2, <1>3

\* The steps that drain the open items s, innermost first.
DrainSteps(L, s) ==
    [x \in (1..Len(s)) \X Seq(EntryOf(L)) |-> Keep(s[Len(s) - x[1] + 1], x[2])]

\* What Drain computes on the way.
IsKept(s, P) ==
    P = [n \in 0..Len(s) |-> IF n = 0 THEN <<>> ELSE Keep(s[Len(s) - n + 1], P[n - 1])]

\* Drain goes from the innermost item to the outermost.
LEMMA DrainRuns ==
    ASSUME NEW L, NEW s \in Seq(PointOf(L)), NEW r
    PROVE  \E P : Steps(Len(s), Seq(EntryOf(L)), <<>>, DrainSteps(L, s), P)
                 /\ Drain(s, r) = r \o P[Len(s)]
  <1> DEFINE n == Len(s)
             S == Seq(EntryOf(L))
             step == DrainSteps(L, s)
             P == CHOOSE P : IsKept(s, P)
  <1>1. n \in Nat /\ \A k \in 1..n : s[k] \in PointOf(L)
    OBVIOUS
  <1>2. <<>> \in S
    OBVIOUS
  <1>3. \A i \in 1..n, b \in S : step[<<i, b>>] = Keep(s[n - i + 1], b) /\ Keep(s[n - i + 1], b) \in S
    <2> SUFFICES ASSUME NEW i \in 1..n, NEW b \in S
                 PROVE  step[<<i, b>>] = Keep(s[n - i + 1], b) /\ Keep(s[n - i + 1], b) \in S
      OBVIOUS
    <2>1. <<i, b>> \in (1..n) \X S /\ <<i, b>>[1] = i /\ <<i, b>>[2] = b
      OBVIOUS
    <2>2. n - i + 1 \in 1..n
      BY <1>1
    <2>3. PICK p \in PointOf(L) : p = s[n - i + 1]
      BY <1>1, <2>2
    <2>4. Keep(p, b) \in S
      BY <2>3, KeptOfItem
    <2> QED
      BY <2>1, <2>3, <2>4 DEF DrainSteps
  <1>4. step \in [(1..n) \X S -> S]
    <2>1. step = [x \in (1..n) \X S |-> step[x]]
      BY DEF DrainSteps
    <2>2. ASSUME NEW x \in (1..n) \X S PROVE step[x] \in S
      <3>1. PICK i \in 1..n, b \in S : x = <<i, b>>
        OBVIOUS
      <3> HIDE DEF step, S, n
      <3> QED
        BY <1>3, <3>1
    <2> HIDE DEF step, S, n
    <2> QED
      BY <2>1, <2>2
  <1>5. Drain(s, r) = r \o P[n]
    BY DEF Drain, IsKept
  <1> HIDE DEF S, step, P
  <1>6. PICK f : Steps(n, S, <<>>, step, f)
    BY <1>1, <1>2, <1>4, StepsExist
  <1>7. IsKept(s, f)
    <2>1. f \in [0..n -> S] /\ f[0] = <<>> /\ \A i \in 1..n : f[i] = step[<<i, f[i - 1]>>]
      BY <1>6 DEF Steps
    <2>2. ASSUME NEW i \in 0..n, i # 0 PROVE f[i] = Keep(s[n - i + 1], f[i - 1])
      <3>1. i \in 1..n /\ f[i - 1] \in S
        BY <1>1, <2>1, <2>2
      <3> QED
        BY <1>3, <2>1, <3>1
    <2> QED
      BY <2>1, <2>2 DEF IsKept
  <1>8. IsKept(s, P)
    BY <1>7 DEF P
  <1>9. Steps(n, S, <<>>, step, P)
    <2>1. P[0] = <<>> /\ \A i \in 1..n : P[i] = Keep(s[n - i + 1], P[i - 1])
      <3>1. 0 \in 0..n /\ \A i \in 1..n : i \in 0..n /\ i # 0
        BY <1>1
      <3> QED
        BY <1>8, <3>1 DEF IsKept
    <2>2. ASSUME NEW i \in 1..n, P[i - 1] \in S PROVE P[i] = step[<<i, P[i - 1]>>]
      BY <1>3, <2>1, <2>2
    <2>3. P = [i \in 0..n |-> P[i]]
      BY <1>8 DEF IsKept
    <2> QED
      BY <1>1, <1>2, <1>4, <2>1, <2>2, <2>3, StepsFound
  <1> QED
    BY <1>5, <1>9 DEF S, step

\* An outline within its caps is no longer and no deeper once it is drained,
\* but for the items that were open.
LEMMA DrainFits ==
    ASSUME NEW L, NEW s, NEW r, NEW n \in Nat, Fits(L, s, r, n)
    PROVE  /\ Drain(s, r) \in Seq(EntryOf(L)) /\ Len(Drain(s, r)) <= n + Len(s)
           /\ Within(Drain(s, r), 0)
  <1>1. /\ s \in Seq(PointOf(L)) /\ r \in Seq(EntryOf(L)) /\ Len(s) \in Nat /\ Len(r) \in Nat
        /\ Len(s) <= MaxDepth /\ Within(r, 0) /\ \A k \in 1..Len(s) : Within(s[k].below, k)
    BY FitsParts
  <1>2. PICK z \in Nat : z = Len(s)
    BY <1>1
  <1>3. PICK P : Steps(z, Seq(EntryOf(L)), <<>>, DrainSteps(L, s), P) /\ Drain(s, r) = r \o P[z]
    BY <1>1, <1>2, DrainRuns
  <1>4. /\ \A i \in 0..z : P[i] \in Seq(EntryOf(L))
        /\ P[0] = <<>>
        /\ \A i \in 1..z : P[i] = DrainSteps(L, s)[<<i, P[i - 1]>>]
    BY <1>3 DEF Steps
  <1>5. PICK f : Counts(s, r, f) /\ f[z] <= n
    BY <1>2 DEF Fits, Holds
  <1>6. /\ \A k \in 0..z : f[k] \in Nat
        /\ f[0] = Len(r)
        /\ \A k \in 1..z : f[k] = f[k - 1] + Len(s[k].below)
    BY <1>2, <1>5 DEF Counts
  <1> DEFINE G == {i \in 0..z : Within(P[i], z - i) /\ Len(P[i]) + f[z - i] <= f[z] + i}
  <1>7. 0 \in G
    <2>1. Within(<<>>, z - 0) /\ Len(<<>>) = 0 /\ z - 0 = z /\ f[z] \in Nat
      BY <1>6 DEF Within
    <2> QED
      BY <1>4, <2>1
  <1>8. ASSUME NEW i \in 1..z, i - 1 \in G PROVE i \in G
    <2>1. PICK m \in Nat : m = z - i /\ m + 1 \in 1..z /\ m < MaxDepth /\ z - (i - 1) = m + 1
                           /\ z - i + 1 = m + 1 /\ m \in 0..z /\ m + 1 \in 0..z
      <3>1. z <= MaxDepth /\ i \in Nat /\ 1 <= i /\ i <= z
        BY <1>1, <1>2
      <3>2. z - i \in Nat /\ z - i < MaxDepth
        BY <3>1, DepthCap
      <3>3. (z - i) + 1 \in 1..z /\ z - (i - 1) = (z - i) + 1 /\ z - i \in 0..z /\ (z - i) + 1 \in 0..z
        BY <3>1
      <3> QED
        BY <3>2, <3>3
    <2>2. PICK p \in PointOf(L) : p = s[m + 1]
      BY <1>1, <1>2, <2>1
    <2>3. PICK b \in Seq(EntryOf(L)) : b = P[i - 1]
      BY <1>4
    <2>4. P[i] = Keep(p, b)
      <3>1. <<i, b>> \in (1..Len(s)) \X Seq(EntryOf(L)) /\ <<i, b>>[1] = i /\ <<i, b>>[2] = b
        BY <1>2
      <3> QED
        BY <1>2, <1>4, <2>1, <2>2, <2>3, <3>1 DEF DrainSteps
    <2>5. Within(p.below, m + 1) /\ Within(b, m + 1)
      BY <1>1, <1>2, <1>8, <2>1, <2>2, <2>3
    <2>6. Within(P[i], m)
      BY <2>1, <2>4, <2>5, KeptOfItem
    <2>7. PICK x \in Nat, y \in Nat, w \in Nat :
             x = Len(p.below) /\ y = Len(b) /\ w = Len(P[i]) /\ w <= 1 + x + y
      BY <1>4, <2>4, Below, KeptOfItem
    <2>8. PICK c \in Nat, d \in Nat, e \in Nat :
             c = f[m] /\ d = f[m + 1] /\ e = f[z] /\ d = c + x /\ y + d <= e + (i - 1)
      <3>1. f[m + 1] = f[m] + Len(p.below)
        <4>1. (m + 1) - 1 = m
          OBVIOUS
        <4> QED
          BY <1>6, <2>1, <2>2, <4>1
      <3>2. Len(b) + f[m + 1] <= f[z] + (i - 1)
        BY <1>8, <2>1, <2>3
      <3>3. z \in 0..z
        OBVIOUS
      <3> QED
        BY <1>6, <2>1, <2>7, <3>1, <3>2, <3>3
    <2>9. w + c <= e + i
      <3>1. i \in Nat /\ w <= 1 + x + y /\ y + (c + x) <= e + (i - 1)
        BY <2>7, <2>8
      <3> HIDE DEF G
      <3> QED
        BY <3>1
    <2> QED
      BY <2>1, <2>6, <2>7, <2>8, <2>9
  <1> HIDE DEF G
  <1>9. z \in G
    <2>1. \A i \in 0..z : i \in G
      BY <1>7, <1>8, UpTo
    <2>2. z \in 0..z
      OBVIOUS
    <2> QED
      BY <2>1, <2>2
  <1>10. Within(P[z], 0) /\ Len(P[z]) + Len(r) <= n + z /\ P[z] \in Seq(EntryOf(L))
    <2>1. z - z = 0 /\ z \in 0..z /\ f[z] \in Nat /\ P[z] \in Seq(EntryOf(L))
      BY <1>4, <1>6
    <2>2. Within(P[z], z - z) /\ Len(P[z]) + f[z - z] <= f[z] + z
      BY <1>9 DEF G
    <2>3. Len(P[z]) \in Nat
      BY <2>1
    <2> QED
      BY <1>1, <1>5, <1>6, <2>1, <2>2, <2>3
  <1>11. /\ r \o P[z] \in Seq(EntryOf(L)) /\ Len(r \o P[z]) = Len(r) + Len(P[z])
         /\ Within(r \o P[z], 0)
    <2>1. 0 \in Nat
      OBVIOUS
    <2> QED
      BY <1>1, <1>10, <2>1, Joined, WithinJoined
  <1>12. Len(r) + Len(P[z]) <= n + z
    <2>1. PICK x \in Nat, y \in Nat : x = Len(r) /\ y = Len(P[z])
      BY <1>1, <1>10
    <2> QED
      BY <1>10, <2>1
  <1> QED
    BY <1>2, <1>3, <1>11, <1>12

-----------------------------------------------------------------------------
(* The steps of a table of contents.                                       *)

\* What is read of a table of contents is within its caps.
NavInv ==
    /\ maxEntries \in Nat /\ entries \in Nat /\ entries <= maxEntries /\ depth \in Nat
    /\ \E L : Fits(L, stack, roots, entries)

\* A table of contents is begun with no entry.
LEMMA NavStarts == NavInit => NavInv
  <1> SUFFICES ASSUME NavInit PROVE NavInv
    OBVIOUS
  <1>1. maxEntries \in Nat
    BY NavAssumption DEF NavInit
  <1>2. PICK s : s = <<>>
    OBVIOUS
  <1>3. Fits({NoHref, s}, s, s, 0)
    <2>1. Typed({NoHref, s}, s, s)
      BY <1>2 DEF Typed
    <2>2. Shallow(s, s)
      BY <1>2, DepthCap DEF Shallow, Within
    <2>3. Counts(s, s, [k \in 0..0 |-> 0])
      BY <1>2 DEF Counts
    <2>4. Holds(s, s, 0)
      BY <1>2, <2>3 DEF Holds
    <2> QED
      BY <2>1, <2>2, <2>4 DEF Fits
  <1> QED
    BY <1>1, <1>2, <1>3 DEF NavInv, NavInit

\* A tag that begins no item and links none leaves the outline as it is.
LEMMA NavPasses ==
    ASSUME NavInv, UNCHANGED <<maxEntries, stack, roots, entries>>, depth' \in Nat
    PROVE  NavInv'
  BY DEF NavInv

\* An item that begins.
LEMMA NavBegins ==
    ASSUME NavInv, UNCHANGED <<maxEntries, roots, entries>>, depth' \in Nat,
           Len(stack) < MaxDepth, stack' = Append(stack, Open(depth'))
    PROVE  NavInv'
  <1>1. PICK L : Fits(L, stack, roots, entries)
    BY DEF NavInv
  <1>2. PICK d \in Nat : d = depth'
    OBVIOUS
  <1>3. Fits(L, Append(stack, Open(d)), roots, entries)
    BY <1>1, FitsBegun DEF NavInv
  <1> QED
    BY <1>2, <1>3 DEF NavInv

\* The innermost item with another href, or another label.
LEMMA NavRenames ==
    ASSUME NavInv, stack # <<>>, NEW x,
           NEW q, q = [Top EXCEPT !.href = x] \/ q = [Top EXCEPT !.label = x]
    PROVE  \E M : Fits(M, Retitled(q), roots, entries)
  <1>1. PICK L : Fits(L, stack, roots, entries)
    BY DEF NavInv
  <1> DEFINE M == L \cup {x}
  <1>2. Fits(M, stack, roots, entries)
    BY <1>1, FitsMore DEF NavInv
  <1>3. stack \in Seq(PointOf(M)) /\ Len(stack) \in Nat
    BY <1>2, FitsParts DEF NavInv
  <1>4. PICK p \in PointOf(M) : p = stack[Len(stack)]
    BY <1>3
  <1>5. q \in PointOf(M) /\ q.below = p.below
    <2>1. x \in M
      OBVIOUS
    <2>2. q = [p EXCEPT !.href = x] \/ q = [p EXCEPT !.label = x]
      BY <1>4 DEF Top
    <2> HIDE DEF M
    <2> QED
      BY <2>1, <2>2 DEF PointOf
  <1>6. Fits(M, [stack EXCEPT ![Len(stack)] = q], roots, entries)
    BY <1>2, <1>4, <1>5, FitsRetitled DEF NavInv
  <1> QED
    BY <1>6 DEF Retitled

\* The innermost item is linked.
LEMMA NavLinks ==
    ASSUME NavInv, UNCHANGED <<maxEntries, roots, entries>>, depth' \in Nat, stack # <<>>,
           NEW x, stack' = Retitled([Top EXCEPT !.href = x])
    PROVE  NavInv'
  <1>1. \E M : Fits(M, Retitled([Top EXCEPT !.href = x]), roots, entries)
    BY NavRenames
  <1> QED
    BY <1>1 DEF NavInv

\* An end tag finishes the innermost item, drops it, or does neither.
LEMMA NavCloses ==
    ASSUME NavInv, NEW items, NEW M, Fits(M, items, roots, entries), NEW e, Close(items, e)
    PROVE  NavInv'
  <1>1. entries \in Nat /\ maxEntries \in Nat /\ depth \in Nat /\ entries <= maxEntries
    BY DEF NavInv
  <1>2. PICK f : f = Finish(items)
    OBVIOUS
  <1>3. /\ stack' = f.stack /\ roots' = f.roots /\ entries' = entries + f.n
        /\ maxEntries' = maxEntries /\ depth' = IF depth = 0 THEN 0 ELSE depth - 1
    BY <1>2 DEF Close
  <1>4. depth' \in Nat
    BY <1>1, <1>3
  <1>5. items \in Seq(PointOf(M)) /\ Len(items) \in Nat
    BY <1>1, FitsParts
  <1>6. CASE items = <<>> \/ Last(items).depth # depth
    <2>1. f = [stack |-> items, roots |-> roots, n |-> 0]
      BY <1>2, <1>6 DEF Finish
    <2>2. stack' = items /\ roots' = roots /\ entries' = entries
      BY <1>1, <1>3, <2>1
    <2> QED
      BY <1>1, <1>3, <1>4, <2>2 DEF NavInv
  <1>7. CASE /\ items # <<>> /\ Last(items).depth = depth
             /\ Full \/ Last(items).label = <<>>
    <2>1. f = [stack |-> Front(items), roots |-> roots, n |-> 0]
      BY <1>2, <1>7 DEF Finish
    <2>2. stack' = Front(items) /\ roots' = roots /\ entries' = entries
      BY <1>1, <1>3, <2>1
    <2>3. Fits(M, Front(items), roots, entries)
      BY <1>1, <1>7, FitsDropped
    <2> QED
      BY <1>1, <1>3, <1>4, <2>2, <2>3 DEF NavInv
  <1>8. CASE /\ items # <<>> /\ Last(items).depth = depth
             /\ ~Full /\ Last(items).label # <<>>
    <2>1. entries + 1 \in Nat /\ entries + 1 <= maxEntries
      BY <1>1, <1>8 DEF Full
    <2>2. Len(Front(items)) = Len(items) - 1 /\ Len(items) \in Nat \ {0} /\ Front(items) \in Seq(PointOf(M))
      BY <1>5, <1>8, Fronted
    <2>3. CASE Front(items) = <<>>
      <3>1. f = [stack |-> <<>>, roots |-> roots \o Flatten(Last(items)), n |-> 1]
        BY <1>2, <1>8, <2>3 DEF Finish
      <3>2. stack' = <<>> /\ roots' = roots \o Flatten(Last(items)) /\ entries' = entries + 1
        BY <1>3, <3>1
      <3>3. Len(items) = 1
        BY <2>2, <2>3
      <3>4. Fits(M, <<>>, roots \o Flatten(Last(items)), entries + 1)
        BY <1>1, <3>3, FitsRooted
      <3> QED
        BY <1>3, <1>1, <1>4, <2>1, <3>2, <3>4 DEF NavInv
    <2>4. CASE Front(items) # <<>>
      <3>1. PICK w : Merges(items, w)
        BY DEF Merges
      <3>2. f = [stack |-> w, roots |-> roots, n |-> 1]
        BY <1>2, <1>8, <2>4, <3>1 DEF Finish, Merges
      <3>3. stack' = w /\ roots' = roots /\ entries' = entries + 1
        BY <1>3, <3>2
      <3>4. Len(items) > 1
        BY <2>2, <2>4
      <3>5. Fits(M, w, roots, entries + 1)
        BY <1>1, <3>1, <3>4, FitsFinished
      <3> QED
        BY <1>1, <1>3, <1>4, <2>1, <3>3, <3>5 DEF NavInv
    <2> QED
      BY <2>3, <2>4
  <1> QED
    BY <1>6, <1>7, <1>8

\* An end tag that titles the innermost item first, or does not.
LEMMA NavEnds ==
    ASSUME NavInv, NEW titles, NEW x, NEW e,
           titles => stack # <<>>,
           Close(IF titles THEN Retitled([Top EXCEPT !.label = x]) ELSE stack, e)
    PROVE  NavInv'
  <1>1. CASE titles
    <2>1. PICK M : Fits(M, Retitled([Top EXCEPT !.label = x]), roots, entries)
      BY <1>1, NavRenames
    <2>2. Close(Retitled([Top EXCEPT !.label = x]), e)
      BY <1>1
    <2> QED
      BY <2>1, <2>2, NavCloses
  <1>2. CASE ~titles
    <2>1. PICK M : Fits(M, stack, roots, entries)
      BY DEF NavInv
    <2>2. Close(stack, e)
      BY <1>2
    <2> QED
      BY <2>1, <2>2, NavCloses
  <1> QED
    BY <1>1, <1>2

\* Every step of a table of contents keeps it within its caps.
LEMMA NavSteps ==
    ASSUME NavInv, NavNext
    PROVE  NavInv'
  <1>1. depth \in Nat /\ depth + 1 \in Nat
    BY DEF NavInv
  <1>2. CASE NavStart
    <2>1. PICK tag \in NavTags : StartNav(tag) \/ StartItem(tag) \/ StartTitle(tag) \/ NavIgnores(tag)
      BY <1>2 DEF NavStart
    <2>2. depth' \in Nat /\ maxEntries' = maxEntries
      BY <1>1, <1>2 DEF NavStart
    <2>3. CASE StartNav(tag)
      BY <2>2, <2>3, NavPasses DEF StartNav
    <2>4. CASE StartItem(tag)
      BY <2>2, <2>4, NavBegins DEF StartItem
    <2>5. CASE StartTitle(tag)
      BY <2>2, <2>5, NavLinks DEF StartTitle, Titles
    <2>6. CASE NavIgnores(tag)
      BY <2>2, <2>6, NavPasses DEF NavIgnores
    <2> QED
      BY <2>1, <2>3, <2>4, <2>5, <2>6
  <1>3. CASE NcxStart
    <2>1. PICK tag \in NcxTags :
             NcxMap(tag) \/ NcxPoint(tag) \/ NcxText(tag) \/ NcxContent(tag) \/ NcxIgnores(tag)
      BY <1>3 DEF NcxStart
    <2>2. depth' \in Nat /\ maxEntries' = maxEntries
      BY <1>1, <1>3 DEF NcxStart
    <2>3. CASE NcxMap(tag)
      BY <2>2, <2>3, NavPasses DEF NcxMap
    <2>4. CASE NcxPoint(tag)
      BY <2>2, <2>4, NavBegins DEF NcxPoint
    <2>5. CASE NcxText(tag)
      BY <2>2, <2>5, NavPasses DEF NcxText
    <2>6. CASE NcxContent(tag)
      BY <2>2, <2>6, NavLinks DEF NcxContent
    <2>7. CASE NcxIgnores(tag)
      BY <2>2, <2>7, NavPasses DEF NcxIgnores
    <2> QED
      BY <2>1, <2>3, <2>4, <2>5, <2>6, <2>7
  <1>4. CASE NcxEmpty
    <2>1. PICK tag \in NcxTags :
             NcxContent(tag) \/ UNCHANGED <<inToc, tocDepth, stack, roots, inLabel, label, entries>>
      BY <1>4 DEF NcxEmpty
    <2>2. depth' \in Nat /\ maxEntries' = maxEntries
      BY <1>1, <1>4 DEF NcxEmpty
    <2>3. CASE NcxContent(tag)
      BY <2>2, <2>3, NavLinks DEF NcxContent
    <2>4. CASE UNCHANGED <<inToc, tocDepth, stack, roots, inLabel, label, entries>>
      BY <2>2, <2>4, NavPasses
    <2> QED
      BY <2>1, <2>3, <2>4
  <1>5. ASSUME NEW tag, NavEnd(tag) PROVE NavInv'
    <2> DEFINE ends == inLabel /\ tag.name \in {"a", "span"}
               titles == ends /\ stack # <<>>
    <2>1. Close(IF titles THEN Retitled([Top EXCEPT !.label = Collapse(label)]) ELSE stack, ends)
      BY <1>5 DEF NavEnd
    <2> QED
      BY <2>1, NavEnds
  <1>6. ASSUME NEW tag, NcxEnd(tag) PROVE NavInv'
    <2> DEFINE ends == inLabel /\ tag.name = "text"
               titles == ends /\ NcxUntitled
    <2>1. Close(IF titles THEN Retitled([Top EXCEPT !.label = Collapse(label)]) ELSE stack, ends)
      BY <1>6 DEF NcxEnd
    <2>2. titles => stack # <<>>
      BY DEF NcxUntitled
    <2> QED
      BY <2>1, <2>2, NavEnds
  <1>7. ASSUME NEW kind, ReadText(kind) PROVE NavInv'
    BY <1>1, <1>7, NavPasses DEF ReadText
  <1>8. CASE UNCHANGED navState
    BY <1>8 DEF NavInv, navState
  <1>9. NavEmpty => UNCHANGED navState
    BY DEF NavEmpty
  <1>10. \A kind : PassText(kind) => UNCHANGED navState
    BY DEF PassText
  <1> QED
    BY <1>2, <1>3, <1>4, <1>5, <1>6, <1>7, <1>8, <1>9, <1>10 DEF NavNext, PlainNext, OddNext

\* Within its caps, an outline is bounded.
LEMMA NavBounded == NavInv => OutlineBounded
  <1> SUFFICES ASSUME NavInv PROVE OutlineBounded
    OBVIOUS
  <1>1. PICK L : Fits(L, stack, roots, entries)
    BY DEF NavInv
  <1>2. entries \in Nat /\ maxEntries \in Nat /\ entries <= maxEntries
    BY DEF NavInv
  <1>3. PICK o : o = NavOutline
    OBVIOUS
  <1>4. /\ o \in Seq(EntryOf(L)) /\ Len(o) <= entries + Len(stack) /\ Within(o, 0)
    BY <1>1, <1>2, <1>3, DrainFits DEF NavOutline
  <1>5. /\ stack \in Seq(PointOf(L)) /\ Len(stack) \in Nat /\ Len(roots) \in Nat
    BY <1>1, <1>2, FitsParts
  <1>6. Len(o) <= maxEntries + Len(stack)
    <2>1. Len(o) \in Nat
      BY <1>4
    <2> QED
      BY <1>2, <1>4, <1>5, <2>1
  <1>7. \A i \in DOMAIN o : o[i].depth < MaxDepth
    <2> SUFFICES ASSUME NEW i \in DOMAIN o PROVE o[i].depth < MaxDepth
      OBVIOUS
    <2>1. o[i] \in EntryOf(L)
      BY <1>4
    <2>2. o[i].depth \in Nat
      BY <2>1 DEF EntryOf
    <2>3. o[i].depth + 0 < MaxDepth
      BY <1>4 DEF Within
    <2> QED
      BY <2>2, <2>3, DepthCap
  <1>8. Len(roots) <= maxEntries
    <2>1. PICK f : Counts(stack, roots, f) /\ f[Len(stack)] <= entries
      BY <1>1 DEF Fits, Holds
    <2>2. PICK z \in Nat : z = Len(stack)
      BY <1>5
    <2>3. /\ \A k \in 0..z : f[k] \in Nat
          /\ f[0] = Len(roots)
          /\ \A k \in 1..z : f[k] = f[k - 1] + Len(stack[k].below)
      BY <2>1, <2>2 DEF Counts
    <2> DEFINE G == {k \in 0..z : f[0] <= f[k]}
    <2>4. 0 \in G
      BY <2>3
    <2>5. ASSUME NEW k \in 1..z, k - 1 \in G PROVE k \in G
      <3>1. PICK x \in Nat : x = Len(stack[k].below)
        <4>1. stack[k] \in PointOf(L)
          BY <1>5, <2>2
        <4> QED
          BY <4>1, Below
      <3>2. f[k] = f[k - 1] + x /\ f[k - 1] \in Nat /\ f[0] \in Nat /\ f[0] <= f[k - 1] /\ k \in 0..z
        BY <2>3, <2>5, <3>1
      <3> QED
        BY <3>2
    <2> HIDE DEF G
    <2>6. \A k \in 0..z : k \in G
      BY <2>4, <2>5, UpTo
    <2>7. f[0] <= f[z] /\ f[z] \in Nat /\ f[0] \in Nat
      BY <2>3, <2>6 DEF G
    <2> QED
      BY <1>2, <2>1, <2>2, <2>3, <2>7
  <1> QED
    BY <1>3, <1>6, <1>7, <1>8 DEF OutlineBounded, NcxOutline

-----------------------------------------------------------------------------
(* The cues of an overlay.                                                 *)

\* The cues there are with references and ids of a set.
CueOf(X) == [text : X, audio : X, start : Int, end : Int, id : X]

\* Clock values as they are written.
IsClock(raw) == raw.fields \in Seq(Seq(Int)) /\ raw.unit \in DOMAIN Scale \cup {""}

\* What Fold computes on the way.
IsSeconds(s, P) ==
    P = [n \in 0..Len(s) |-> IF n = 0 THEN 0 ELSE P[n - 1] * 60 + s[n][1]]

\* A field that is there is a number.
LEMMA FieldNumber ==
    ASSUME NEW s \in Seq(Seq(Int)), NEW i \in 1..Len(s), s[i] # <<>>
    PROVE  s[i][1] \in Int
  <1>1. PICK q \in Seq(Int) : q = s[i] /\ q # <<>>
    OBVIOUS
  <1>2. q[1] \in Int
    BY <1>1
  <1> QED
    BY <1>1, <1>2

\* Fields that are numbers are folded field by field, to a number.
LEMMA FoldRuns ==
    ASSUME NEW s \in Seq(Seq(Int)), \A i \in DOMAIN s : s[i] # <<>>
    PROVE  \E P : IsSeconds(s, P) /\ Fold(s) = P[Len(s)] /\ Fold(s) \in Int
  <1> DEFINE n == Len(s)
             S == Int
             step == [x \in (1..n) \X S |-> x[2] * 60 + s[x[1]][1]]
             P == CHOOSE P : IsSeconds(s, P)
  <1>1. n \in Nat /\ \A i \in 1..n : s[i][1] \in Int
    <2>1. \A i \in 1..n : s[i] # <<>>
      OBVIOUS
    <2> QED
      BY <2>1, FieldNumber
  <1>2. \A i \in 1..n, b \in S : step[<<i, b>>] = b * 60 + s[i][1]
    OBVIOUS
  <1>3. step \in [(1..n) \X S -> S]
    BY <1>1
  <1>4. Fold(s) = P[n]
    BY DEF Fold, IsSeconds
  <1>5. 0 \in S /\ (P[n] \in S => P[n] \in Int) /\ n = Len(s)
    OBVIOUS
  <1> HIDE DEF step, P, S, n
  <1>6. PICK f : Steps(n, S, 0, step, f)
    BY <1>1, <1>3, <1>5, StepsExist
  <1>7. IsSeconds(s, f)
    <2>1. f \in [0..n -> S] /\ f[0] = 0 /\ \A i \in 1..n : f[i] = step[<<i, f[i - 1]>>]
      BY <1>6 DEF Steps
    <2>2. ASSUME NEW i \in 0..n, i # 0 PROVE f[i] = f[i - 1] * 60 + s[i][1]
      <3>1. i \in 1..n /\ f[i - 1] \in S
        BY <1>1, <2>1, <2>2
      <3> QED
        BY <1>2, <2>1, <3>1
    <2> QED
      BY <1>5, <2>1, <2>2 DEF IsSeconds
  <1>8. IsSeconds(s, P)
    BY <1>7 DEF P
  <1>9. Steps(n, S, 0, step, P)
    <2>1. P[0] = 0 /\ \A i \in 1..n : P[i] = P[i - 1] * 60 + s[i][1]
      <3>1. 0 \in 0..n /\ \A i \in 1..n : i \in 0..n /\ i # 0
        BY <1>1
      <3> QED
        BY <1>5, <1>8, <3>1 DEF IsSeconds
    <2>2. ASSUME NEW i \in 1..n, P[i - 1] \in S PROVE P[i] = step[<<i, P[i - 1]>>]
      BY <1>2, <2>1, <2>2
    <2>3. P = [i \in 0..n |-> P[i]]
      BY <1>5, <1>8 DEF IsSeconds
    <2> QED
      BY <1>1, <1>3, <1>5, <2>1, <2>2, <2>3, StepsFound
  <1>10. n \in 0..n
    BY <1>1
  <1>11. Fold(s) \in Int
    BY <1>4, <1>5, <1>9, <1>10 DEF Steps
  <1> QED
    BY <1>4, <1>5, <1>8, <1>11

\* And so they are a number of seconds.
LEMMA FoldNumber ==
    ASSUME NEW s \in Seq(Seq(Int)), \A i \in DOMAIN s : s[i] # <<>>
    PROVE  Fold(s) \in Int
  BY FoldRuns

\* The scales of the units are numbers.
LEMMA Scales == \A u \in DOMAIN Scale : Scale[u] \in Int
  BY DEF Scale

\* A clock value is a number of milliseconds, and so is one that is none.
LEMMA ClockNumber ==
    ASSUME NEW raw, IsClock(raw)
    PROVE  Clock(raw) \in Int
  <1> DEFINE readable == \A i \in DOMAIN raw.fields : raw.fields[i] # <<>> /\ raw.fields[i][1] >= 0
             value == IF raw.unit = "" THEN 1000 * Fold(raw.fields)
                      ELSE raw.fields[1][1] * Scale[raw.unit]
  <1>1. ParseClock(raw) = IF readable /\ Len(raw.fields) \in 1..3 THEN <<value>> ELSE <<>>
    BY DEF ParseClock
  <1>2. ASSUME readable, Len(raw.fields) \in 1..3 PROVE value \in Int
    <2>1. PICK s \in Seq(Seq(Int)) : s = raw.fields
      BY DEF IsClock
    <2>2. \A i \in DOMAIN s : s[i] # <<>>
      BY <1>2, <2>1
    <2>3. PICK v \in Int : v = Fold(s)
      BY <2>2, FoldNumber
    <2>4. CASE raw.unit = ""
      <3>1. value = 1000 * Fold(raw.fields)
        BY <2>4, Zenon
      <3> HIDE DEF value
      <3>2. Fold(raw.fields) = v
        BY <2>1, <2>3, Zenon
      <3>3. value = 1000 * v
        BY <3>1, <3>2, Zenon
      <3>4. 1000 * v \in Int
        OBVIOUS
      <3> QED
        BY <3>3, <3>4, Zenon
    <2>5. CASE raw.unit # ""
      <3>1. PICK k \in Int : k = Scale[raw.unit]
        <4>1. raw.unit \in DOMAIN Scale
          BY <2>5 DEF IsClock
        <4> QED
          BY <4>1, Scales
      <3>2. PICK q \in Seq(Int) : q = s[1] /\ q # <<>>
        <4>1. 1 \in DOMAIN s
          BY <1>2, <2>1
        <4> QED
          BY <2>1, <2>2, <4>1
      <3>3. PICK h \in Int : h = q[1]
        BY <3>2
      <3>4. value = raw.fields[1][1] * Scale[raw.unit]
        BY <2>5, Zenon
      <3> HIDE DEF value
      <3>5. raw.fields[1][1] = h
        BY <2>1, <3>2, <3>3, Zenon
      <3>6. value = h * k
        BY <3>1, <3>4, <3>5, Zenon
      <3>7. h * k \in Int
        OBVIOUS
      <3> QED
        BY <3>6, <3>7, Zenon
    <2> QED
      BY <2>4, <2>5
  <1> HIDE DEF readable, value
  <1>3. ParseClock(raw) = <<>> \/ (ParseClock(raw) = <<value>> /\ value \in Int)
    BY <1>1, <1>2
  <1> QED
    BY <1>3 DEF Clock

\* No clock is a clock value.
LEMMA NoClockIsClock == IsClock(NoClock)
  <1>1. <<>> \in Seq(Seq(Int))
    OBVIOUS
  <1> QED
    BY <1>1 DEF IsClock, NoClock

\* The times an overlay's tag gives are clock values.
LEMMA TagClocks ==
    ASSUME NEW tag \in SmilTags, NEW a \in {"clipBegin", "clipEnd"}
    PROVE  Clock(Attribute(tag, a, NoClock)) \in Int
  <1>1. IsClock(Attribute(tag, a, NoClock))
    <2>1. CASE a \in DOMAIN tag.attrs
      <3>1. IsClock(tag.attrs[a])
        BY <2>1, SmilAssumption DEF IsClock
      <3> QED
        BY <2>1, <3>1 DEF Attribute
    <2>2. CASE a \notin DOMAIN tag.attrs
      BY <2>2, NoClockIsClock DEF Attribute
    <2> QED
      BY <2>1, <2>2
  <1> QED
    BY <1>1, ClockNumber

\* The cues are cues, and there is room for the one that is read, unless it
\* says nothing yet.
SmilInv ==
    /\ \E X : cues \in Seq(CueOf(X)) /\ current \in Seq(CueOf(X))
    /\ \/ Len(cues) < MaxCues
       \/ Len(cues) = MaxCues /\ (current = <<>> \/ ~Says(current[1]))

\* The cap on the cues is a number.
LEMMA CueCap == MaxCues \in Nat \ {0}
  BY SmilAssumption

\* A larger set of references has no fewer cues.
LEMMA CuesMore ==
    ASSUME NEW X, NEW Y, X \subseteq Y
    PROVE  CueOf(X) \subseteq CueOf(Y) /\ Seq(CueOf(X)) \subseteq Seq(CueOf(Y))
  <1>1. CueOf(X) \subseteq CueOf(Y)
    BY DEF CueOf
  <1> QED
    BY <1>1

\* What Push makes of the cues.
LEMMA Pushed ==
    ASSUME NEW X, NEW s \in Seq(CueOf(X)), NEW c \in Seq(CueOf(X))
    PROVE  /\ Push(s, c) \in Seq(CueOf(X))
           /\ Len(Push(s, c)) <= Len(s) + 1
           /\ c = <<>> \/ ~Says(c[1]) => Push(s, c) = s
  <1>1. CASE c # <<>> /\ Says(c[1])
    <2>1. c[1] \in CueOf(X)
      BY <1>1
    <2>2. Push(s, c) = Append(s, c[1])
      BY <1>1 DEF Push
    <2>3. PICK e \in CueOf(X) : e = c[1]
      BY <2>1
    <2>4. Append(s, e) \in Seq(CueOf(X)) /\ Len(Append(s, e)) = Len(s) + 1
      BY Longer
    <2>5. Len(s) \in Nat
      OBVIOUS
    <2> QED
      BY <1>1, <2>2, <2>3, <2>4, <2>5
  <1>2. CASE c = <<>> \/ ~Says(c[1])
    <2>1. Push(s, c) = s
      BY <1>2 DEF Push
    <2>2. Len(s) \in Nat /\ Len(s) <= Len(s) + 1
      OBVIOUS
    <2> QED
      BY <2>1, <2>2
  <1> QED
    BY <1>1, <1>2

\* An overlay is begun without a cue.
LEMMA SmilStarts == SmilInit => SmilInv
  <1> SUFFICES ASSUME SmilInit PROVE SmilInv
    OBVIOUS
  <1>1. cues \in Seq(CueOf({})) /\ current \in Seq(CueOf({})) /\ Len(cues) = 0
    BY DEF SmilInit
  <1> QED
    BY <1>1, CueCap DEF SmilInv

\* Every step of an overlay keeps it within its cap.
LEMMA SmilSteps ==
    ASSUME SmilInv, SmilNext
    PROVE  SmilInv'
  <1>1. PICK X : cues \in Seq(CueOf(X)) /\ current \in Seq(CueOf(X))
    BY DEF SmilInv
  <1>2. Len(cues) \in Nat /\ Len(cues) < MaxCues
    BY <1>1 DEF SmilNext, SmilStart, SmilEnd, Reading
  <1>3. PICK s : s = Push(cues, current)
    OBVIOUS
  <1>4. s \in Seq(CueOf(X)) /\ Len(s) \in Nat /\ Len(s) <= MaxCues
    <2>1. s \in Seq(CueOf(X)) /\ Len(s) <= Len(cues) + 1
      BY <1>1, <1>3, Pushed
    <2>2. Len(s) \in Nat
      BY <2>1
    <2> QED
      BY <1>2, <2>1, <2>2, CueCap
  <1>5. CASE UNCHANGED smilState
    BY <1>1, <1>2, <1>5 DEF SmilInv, smilState
  <1>6. ASSUME NEW tag \in SmilTags, StartPar(tag) PROVE SmilInv'
    <2>1. PICK c : c = Cue(tag)
      OBVIOUS
    <2>2. cues' = s /\ current' = <<c>>
      BY <1>3, <1>6, <2>1 DEF StartPar, Outer
    <2> DEFINE Y == X \cup {NoSrc, c.id}
    <2>3. c \in CueOf(Y)
      <3>1. c = [text |-> NoSrc, audio |-> NoSrc, start |-> 0, end |-> 0, id |-> c.id]
        BY <2>1 DEF Cue
      <3>2. NoSrc \in Y /\ c.id \in Y
        OBVIOUS
      <3> HIDE DEF Y
      <3> QED
        BY <3>1, <3>2 DEF CueOf
    <2>4. ~Says(c)
      BY <2>1 DEF Cue, Says
    <2>5. <<c>> \in Seq(CueOf(Y)) /\ <<c>>[1] = c
      BY <2>3
    <2>6. s \in Seq(CueOf(Y))
      BY <1>4, CuesMore
    <2> HIDE DEF Y
    <2>7. Len(s) < MaxCues \/ Len(s) = MaxCues
      BY <1>4, CueCap
    <2> QED
      BY <2>2, <2>4, <2>5, <2>6, <2>7 DEF SmilInv
  <1>7. ASSUME NEW c, current' = c, \E Y : c \in Seq(CueOf(Y)), UNCHANGED cues
        PROVE  SmilInv'
    <2>1. PICK Y : c \in Seq(CueOf(Y))
      BY <1>7
    <2>2. cues \in Seq(CueOf(X \cup Y)) /\ c \in Seq(CueOf(X \cup Y))
      <3>1. X \subseteq X \cup Y /\ Y \subseteq X \cup Y
        OBVIOUS
      <3> QED
        BY <1>1, <2>1, <3>1, CuesMore
    <2> QED
      BY <1>2, <1>7, <2>2 DEF SmilInv
  <1>8. /\ Len(current) \in Nat /\ DOMAIN current = 1..Len(current)
        /\ \A i \in 1..Len(current) : current[i] \in CueOf(X)
    BY <1>1
  <1>9. ASSUME NEW tag \in SmilTags, StartText(tag) PROVE SmilInv'
    <2>1. PICK x : x = ResolveSrc(Attribute(tag, "src", NoSrc))
      OBVIOUS
    <2>2. PICK c : c = [i \in DOMAIN current |-> [current[i] EXCEPT !.text = x]]
      OBVIOUS
    <2>3. current' = c /\ UNCHANGED cues
      BY <1>9, <2>1, <2>2 DEF StartText
    <2> DEFINE Y == X \cup {x}
    <2>4. CueOf(X) \subseteq CueOf(Y) /\ x \in Y
      BY CuesMore
    <2>5. ASSUME NEW i \in 1..Len(current) PROVE [current[i] EXCEPT !.text = x] \in CueOf(Y)
      <3>1. PICK e \in CueOf(Y) : e = current[i]
        BY <1>8, <2>4
      <3> HIDE DEF Y
      <3> QED
        BY <2>4, <3>1 DEF CueOf
    <2> HIDE DEF Y
    <2>6. c \in [1..Len(current) -> CueOf(Y)]
      BY <1>8, <2>2, <2>5
    <2>7. c \in Seq(CueOf(Y))
      BY <1>8, <2>6
    <2> QED
      BY <1>7, <2>3, <2>7
  <1>10. ASSUME NEW tag \in SmilTags, StartAudio(tag) PROVE SmilInv'
    <2>1. PICK x : x = ResolveSrc(Attribute(tag, "src", NoSrc))
      OBVIOUS
    <2>2. PICK a \in Int, b \in Int :
             /\ a = Clock(Attribute(tag, "clipBegin", NoClock))
             /\ b = Clock(Attribute(tag, "clipEnd", NoClock))
      BY TagClocks
    <2>3. PICK c : c = [i \in DOMAIN current |->
                          [current[i] EXCEPT !.audio = x, !.start = a, !.end = b]]
      OBVIOUS
    <2>4. current' = c /\ UNCHANGED cues
      BY <1>10, <2>1, <2>2, <2>3 DEF StartAudio
    <2> DEFINE Y == X \cup {x}
    <2>5. CueOf(X) \subseteq CueOf(Y) /\ x \in Y
      BY CuesMore
    <2>6. ASSUME NEW i \in 1..Len(current)
          PROVE  [current[i] EXCEPT !.audio = x, !.start = a, !.end = b] \in CueOf(Y)
      <3>1. PICK e \in CueOf(Y) : e = current[i]
        BY <1>8, <2>5
      <3> HIDE DEF Y
      <3> QED
        BY <2>5, <3>1 DEF CueOf
    <2> HIDE DEF Y
    <2>7. c \in [1..Len(current) -> CueOf(Y)]
      BY <1>8, <2>3, <2>6
    <2>8. c \in Seq(CueOf(Y))
      BY <1>8, <2>7
    <2> QED
      BY <1>7, <2>4, <2>8
  <1>11. CASE SmilStart
    <2>1. PICK tag \in SmilTags : StartPar(tag) \/ StartText(tag) \/ StartAudio(tag) \/ SmilIgnores(tag)
      BY <1>11 DEF SmilStart
    <2> QED
      BY <1>5, <1>6, <1>9, <1>10, <2>1 DEF SmilIgnores
  <1>12. ASSUME NEW tag, SmilEnd(tag) PROVE SmilInv'
    <2>1. CASE tag.name = "par"
      <3>1. cues' = s /\ current' = <<>>
        BY <1>3, <1>12, <2>1 DEF SmilEnd
      <3>2. <<>> \in Seq(CueOf(X)) /\ (Len(s) < MaxCues \/ Len(s) = MaxCues)
        BY <1>4, CueCap
      <3> QED
        BY <1>4, <3>1, <3>2 DEF SmilInv
    <2>2. CASE tag.name # "par"
      BY <1>5, <1>12, <2>2 DEF SmilEnd
    <2> QED
      BY <2>1, <2>2
  <1> QED
    BY <1>11, <1>12 DEF SmilNext

\* What DurationMs computes on the way.
IsLatest(s, P) ==
    P = [n \in 0..Len(s) |-> IF n = 0 THEN 0
                             ELSE IF s[n].end > P[n - 1] THEN s[n].end ELSE P[n - 1]]

\* No cue ends after the last one does.
LEMMA LatestIsLast ==
    ASSUME NEW X, NEW s \in Seq(CueOf(X)), s = Overlay
    PROVE  \A i \in DOMAIN Overlay : Overlay[i].end <= DurationMs
  <1> DEFINE n == Len(s)
             S == Int
             End(i) == s[i].end
             step == [x \in (1..n) \X S |-> IF End(x[1]) > x[2] THEN End(x[1]) ELSE x[2]]
             P == CHOOSE P : IsLatest(s, P)
  <1>1. n \in Nat /\ DOMAIN s = 1..n /\ \A i \in 1..n : End(i) \in Int
    <2>1. ASSUME NEW i \in 1..n PROVE End(i) \in Int
      <3>1. s[i] \in CueOf(X)
        OBVIOUS
      <3> QED
        BY <3>1 DEF CueOf
    <2> QED
      BY <2>1
  <1>2. DurationMs = P[n]
    BY DEF DurationMs, IsLatest
  <1>3. \A i \in DOMAIN Overlay : Overlay[i].end = End(i)
    OBVIOUS
  <1>4. 0 \in S /\ n = Len(s) /\ (\A x : x \in S <=> x \in Int) /\ \A i : End(i) = s[i].end
    OBVIOUS
  <1> HIDE DEF n, S, End
  <1>5. \A i \in 1..n, b \in S : step[<<i, b>>] = IF End(i) > b THEN End(i) ELSE b
    OBVIOUS
  <1>6. step \in [(1..n) \X S -> S]
    BY <1>1, <1>4
  <1> HIDE DEF step, P
  <1>7. PICK f : Steps(n, S, 0, step, f)
    BY <1>1, <1>4, <1>6, StepsExist
  <1>8. IsLatest(s, f)
    <2>1. f \in [0..n -> S] /\ f[0] = 0 /\ \A i \in 1..n : f[i] = step[<<i, f[i - 1]>>]
      BY <1>7 DEF Steps
    <2>2. ASSUME NEW i \in 0..n, i # 0
          PROVE  f[i] = IF s[i].end > f[i - 1] THEN s[i].end ELSE f[i - 1]
      <3>1. i \in 1..n /\ f[i - 1] \in S
        BY <1>1, <2>1, <2>2
      <3> QED
        BY <1>4, <1>5, <2>1, <3>1
    <2> QED
      BY <1>4, <2>1, <2>2 DEF IsLatest
  <1>9. IsLatest(s, P)
    BY <1>8 DEF P
  <1>10. P[0] = 0 /\ \A i \in 1..n : P[i] = IF End(i) > P[i - 1] THEN End(i) ELSE P[i - 1]
    <2>1. 0 \in 0..n /\ \A i \in 1..n : i \in 0..n /\ i # 0
      BY <1>1
    <2> QED
      BY <1>4, <1>9, <2>1 DEF IsLatest
  <1>11. Steps(n, S, 0, step, P)
    <2>1. ASSUME NEW i \in 1..n, P[i - 1] \in S PROVE P[i] = step[<<i, P[i - 1]>>]
      BY <1>5, <1>10, <2>1
    <2>2. P = [i \in 0..n |-> P[i]]
      BY <1>4, <1>9 DEF IsLatest
    <2> QED
      BY <1>1, <1>4, <1>6, <1>10, <2>1, <2>2, StepsFound
  <1>12. \A i \in 0..n : P[i] \in Int
    BY <1>4, <1>11 DEF Steps
  <1> DEFINE G == {k \in 0..n : \A i \in 1..k : End(i) <= P[k]}
  <1>13. 0 \in G
    BY <1>1
  <1>14. ASSUME NEW k \in 1..n, k - 1 \in G PROVE k \in G
    <2>1. PICK x \in Int, y \in Int, z \in Int :
             x = End(k) /\ y = P[k - 1] /\ z = P[k] /\ z = IF x > y THEN x ELSE y
      <3>1. k - 1 \in 0..n /\ k \in 0..n
        BY <1>1
      <3> QED
        BY <1>1, <1>10, <1>12, <3>1
    <2>2. x <= z /\ y <= z
      BY <2>1
    <2>3. ASSUME NEW i \in 1..k PROVE End(i) <= P[k]
      <3>1. CASE i = k
        BY <2>1, <2>2, <3>1
      <3>2. CASE i # k
        <4>1. i \in 1..k - 1 /\ i \in 1..n
          BY <1>1, <3>2
        <4>2. PICK e \in Int : e = End(i) /\ e <= y
          BY <1>1, <1>14, <2>1, <4>1
        <4>3. e <= z
          <5>1. e <= y /\ y <= z
            BY <2>2, <4>2
          <5> HIDE DEF G
          <5> QED
            BY <5>1
        <4> QED
          BY <2>1, <4>2, <4>3
      <3> QED
        BY <3>1, <3>2
    <2>4. k \in 0..n
      BY <1>1
    <2> QED
      BY <2>3, <2>4
  <1> HIDE DEF G
  <1>15. \A k \in 0..n : k \in G
    BY <1>1, <1>13, <1>14, UpTo
  <1>16. \A i \in 1..n : End(i) <= P[n]
    <2>1. n \in 0..n
      BY <1>1
    <2> QED
      BY <1>15, <2>1 DEF G
  <1> QED
    BY <1>1, <1>2, <1>3, <1>16

\* Within its cap, what an overlay returns is bounded.
LEMMA SmilBounded == SmilInv => CuesBounded
  <1> SUFFICES ASSUME SmilInv PROVE CuesBounded
    OBVIOUS
  <1>1. PICK X : cues \in Seq(CueOf(X)) /\ current \in Seq(CueOf(X))
    BY DEF SmilInv
  <1>2. PICK s : s = Overlay
    OBVIOUS
  <1>3. /\ s \in Seq(CueOf(X)) /\ Len(s) <= Len(cues) + 1
        /\ current = <<>> \/ ~Says(current[1]) => s = cues
    BY <1>1, <1>2, Pushed DEF Overlay
  <1>4. Len(s) \in Nat /\ Len(cues) \in Nat
    BY <1>1, <1>3
  <1>5. Len(s) <= MaxCues
    <2>1. CASE Len(cues) < MaxCues
      BY <1>3, <1>4, <2>1, CueCap
    <2>2. CASE Len(cues) = MaxCues /\ (current = <<>> \/ ~Says(current[1]))
      BY <1>3, <1>4, <2>2, CueCap
    <2> QED
      BY <2>1, <2>2 DEF SmilInv
  <1>6. \A i \in DOMAIN Overlay : Overlay[i].end <= DurationMs
    BY <1>2, <1>3, LatestIsLast
  <1> QED
    BY <1>2, <1>5, <1>6 DEF CuesBounded

-----------------------------------------------------------------------------
(* The caps of the readers.                                                *)

readerVars == <<reader, xmlVars, navState, smilState, containerState, opfState>>

\* What holds of an outline and of an overlay goes on holding.
LEMMA CapsStep == NavInv /\ SmilInv /\ [Next]_readerVars => (NavInv /\ SmilInv)'
  <1> SUFFICES ASSUME NavInv, SmilInv, [Next]_readerVars PROVE NavInv' /\ SmilInv'
    OBVIOUS
  <1>1. UNCHANGED navState => NavInv'
    BY DEF NavInv, navState
  <1>2. UNCHANGED smilState => SmilInv'
    BY DEF SmilInv, smilState
  <1>3. CASE UNCHANGED readerVars
    BY <1>1, <1>2, <1>3 DEF readerVars
  <1>4. CASE Next
    <2>1. (NavNext /\ UNCHANGED smilState) \/ (SmilNext /\ UNCHANGED navState)
          \/ UNCHANGED <<navState, smilState>>
      BY <1>4 DEF Next
    <2> QED
      BY <1>1, <1>2, <2>1, NavSteps, SmilSteps
  <1> QED
    BY <1>3, <1>4

\* CapsHold always holds: however long, deep and broken a document is, its
\* outline holds no more entries than its cap, and none deeper than the
\* deepest allowed, but for the items still open where it breaks, and its
\* overlay no more cues than its cap, none of them after the end of the
\* narration (nav.rs MAX_ENTRIES and MAX_DEPTH; smil.rs MAX_CUES, push,
\* duration_ms).
THEOREM CapsAlwaysHold == Spec => []CapsHold
  <1>1. Init => NavInv /\ SmilInv
    BY NavStarts, SmilStarts DEF Init
  <1>2. NavInv /\ SmilInv => CapsHold
    BY NavBounded, SmilBounded DEF CapsHold
  <1> QED
    BY <1>1, <1>2, CapsStep, PTL DEF Spec, readerVars

-----------------------------------------------------------------------------
(* What is read of a document.                                             *)

\* The largest and the smallest of some numbers.
LEMMA GreatestIs ==
    ASSUME NEW S \in SUBSET Nat, NEW x \in S, \A y \in S : y <= x
    PROVE  Greatest(S) = x
  <1>1. Greatest(S) \in S /\ \A y \in S : y <= Greatest(S)
    BY DEF Greatest
  <1>2. PICK g \in Nat : g = Greatest(S)
    BY <1>1
  <1>3. x <= g /\ g <= x /\ x \in Nat
    BY <1>1, <1>2
  <1> QED
    BY <1>2, <1>3

\* Likewise of the smallest.
LEMMA SmallestIs ==
    ASSUME NEW S \in SUBSET Nat, NEW x \in S, \A y \in S : x <= y
    PROVE  Smallest(S) = x
  <1>1. Smallest(S) \in S /\ \A y \in S : Smallest(S) <= y
    BY DEF Smallest
  <1>2. PICK g \in Nat : g = Smallest(S)
    BY <1>1
  <1>3. x <= g /\ g <= x /\ x \in Nat
    BY <1>1, <1>2
  <1> QED
    BY <1>2, <1>3

\* And some numbers have a smallest.
LEMMA SmallestExists ==
    ASSUME NEW S \in SUBSET Nat, S # {}
    PROVE  Smallest(S) \in S /\ \A y \in S : Smallest(S) <= y
  <1>1. PICK x \in S : \A y \in S : ~ (<<y, x>> \in OpToRel(<, Nat))
    BY NatLessThanWellFounded, WFMin
  <1>2. \A y \in S : x <= y
    <2> SUFFICES ASSUME NEW y \in S PROVE x <= y
      OBVIOUS
    <2>1. x \in Nat /\ y \in Nat
      OBVIOUS
    <2>2. ~(y < x)
      BY <1>1, <2>1 DEF OpToRel
    <2> QED
      BY <2>1, <2>2
  <1>3. Smallest(S) = x
    BY <1>2, SmallestIs
  <1> QED
    BY <1>2, <1>3

\* And some numbers up to another have a largest.
LEMMA GreatestExists ==
    ASSUME NEW m \in Nat, NEW S \in SUBSET (0..m), S # {}
    PROVE  Greatest(S) \in S /\ \A y \in S : y <= Greatest(S)
  <1> DEFINE D == {m - y : y \in S}
  <1>1. D \in SUBSET Nat /\ D # {}
    OBVIOUS
  <1>2. Smallest(D) \in D /\ \A d \in D : Smallest(D) <= d
    BY <1>1, SmallestExists
  <1>3. PICK x \in S : Smallest(D) = m - x
    BY <1>2
  <1>4. \A y \in S : y <= x
    <2> SUFFICES ASSUME NEW y \in S PROVE y <= x
      OBVIOUS
    <2>1. m - x <= m - y
      BY <1>2, <1>3
    <2>2. x \in Nat /\ y \in Nat
      OBVIOUS
    <2> QED
      BY <2>1, <2>2
  <1>5. S \in SUBSET Nat
    OBVIOUS
  <1>6. Greatest(S) = x
    BY <1>4, <1>5, GreatestIs
  <1> QED
    BY <1>4, <1>6

\* The events are a sequence, every one within start tags before it, and the
\* elements that are open are start tags, in their order.
XmlInv ==
    /\ \E S : doc \in Seq(S)
    /\ opened \in Seq(Nat)
    /\ \A k \in DOMAIN opened : opened[k] \in DOMAIN doc /\ doc[opened[k]].kind = "start"
    /\ \A k, l \in DOMAIN opened : k < l => opened[k] < opened[l]
    /\ \A i \in DOMAIN doc : \A k \in Range(doc[i].within) :
           k \in DOMAIN doc /\ k < i /\ doc[k].kind = "start"

\* The event a tag is.
Event(tag, around) ==
    [kind |-> tag.kind, name |-> tag.name, attrs |-> tag.attrs, within |-> around]

\* The document is longer by the event of a tag.
Grows(tag) ==
    /\ Len(doc) \in Nat /\ DOMAIN doc = 1..Len(doc)
    /\ DOMAIN doc' = 1..Len(doc) + 1 /\ Len(doc') = Len(doc) + 1
    /\ \A i \in 1..Len(doc) : doc'[i] = doc[i]
    /\ doc'[Len(doc) + 1] = Event(tag, opened)

\* The elements open after a tag.
Opens(tag) ==
    /\ Len(opened) \in Nat /\ DOMAIN opened = 1..Len(opened)
    /\ tag.kind = "start" =>
          /\ Len(opened') = Len(opened) + 1 /\ opened'[Len(opened) + 1] = Len(doc) + 1
          /\ \A k \in 1..Len(opened) : opened'[k] = opened[k]
    /\ tag.kind \notin {"start", "end"} => opened' = opened
    /\ tag.kind = "end" =>
          \/ opened' = opened /\ (opened = <<>> \/ tag.name # doc[opened[Len(opened)]].name)
          \/ /\ opened # <<>> /\ tag.name = doc[opened[Len(opened)]].name
             /\ Len(opened') = Len(opened) - 1
             /\ \A k \in 1..Len(opened) - 1 : opened'[k] = opened[k]

\* A document is begun empty.
LEMMA XmlStarts == XmlInit => XmlInv
  <1> SUFFICES ASSUME XmlInit PROVE XmlInv
    OBVIOUS
  <1>1. doc \in Seq({}) /\ opened \in Seq(Nat) /\ DOMAIN doc = {} /\ DOMAIN opened = {}
    BY DEF XmlInit
  <1> QED
    BY <1>1 DEF XmlInv

\* What an event that is handed does to the document.
LEMMA Handed ==
    ASSUME XmlInv, NEW tag, Hand(tag)
    PROVE  Grows(tag) /\ Opens(tag) /\ XmlInv'
  <1>1. PICK S : doc \in Seq(S)
    BY DEF XmlInv
  <1>2. PICK e : e = Event(tag, opened)
    OBVIOUS
  <1>3. doc' = Append(doc, e)
    BY <1>2 DEF Hand, Recorded, Event
  <1> DEFINE T == S \cup {e}
  <1>4. doc \in Seq(T) /\ e \in T
    BY <1>1
  <1> HIDE DEF T
  <1>5. /\ doc' \in Seq(T) /\ Len(doc') = Len(doc) + 1 /\ doc'[Len(doc) + 1] = e
        /\ \A i \in 1..Len(doc) : doc'[i] = doc[i]
    BY <1>3, <1>4, Longer
  <1>6. /\ Len(doc) \in Nat /\ DOMAIN doc = 1..Len(doc)
        /\ DOMAIN doc' = 1..Len(doc) + 1
    BY <1>4, <1>5
  <1>7. Grows(tag)
    BY <1>2, <1>5, <1>6 DEF Grows
  <1>8. opened \in Seq(Nat) /\ Len(opened) \in Nat /\ DOMAIN opened = 1..Len(opened)
    BY DEF XmlInv
  <1>9. Opens(tag) /\ opened' \in Seq(Nat)
    <2>1. CASE tag.kind = "start"
      <3>1. opened' = Append(opened, Len(doc) + 1)
        BY <2>1 DEF Hand
      <3>2. PICK n \in Nat : n = Len(doc) + 1
        BY <1>6
      <3>3. /\ opened' \in Seq(Nat) /\ Len(opened') = Len(opened) + 1
            /\ opened'[Len(opened) + 1] = n
            /\ \A k \in 1..Len(opened) : opened'[k] = opened[k]
        BY <1>8, <3>1, <3>2, Longer
      <3> QED
        BY <1>8, <2>1, <3>2, <3>3 DEF Opens
    <2>2. CASE tag.kind = "end" /\ opened # <<>> /\ tag.name = doc[Last(opened)].name
      <3>1. opened' = Front(opened)
        BY <2>2 DEF Hand
      <3>2. /\ opened' \in Seq(Nat) /\ Len(opened') = Len(opened) - 1
            /\ \A k \in 1..Len(opened) - 1 : opened'[k] = opened[k]
            /\ Last(opened) = opened[Len(opened)]
        BY <1>8, <2>2, <3>1, Fronted
      <3> QED
        BY <1>8, <2>2, <3>2 DEF Opens
    <2>3. CASE /\ tag.kind # "start"
               /\ ~(tag.kind = "end" /\ opened # <<>> /\ tag.name = doc[Last(opened)].name)
      <3>1. opened' = opened
        BY <2>3 DEF Hand
      <3>2. opened # <<>> => Last(opened) = opened[Len(opened)]
        BY DEF Last
      <3> QED
        BY <1>8, <2>3, <3>1, <3>2 DEF Opens
    <2> QED
      BY <2>1, <2>2, <2>3
  <1>10. DOMAIN opened' = 1..Len(opened') /\ Len(opened') \in Nat
    BY <1>9
  <1>11. \A k \in DOMAIN opened' : \/ k \in DOMAIN opened /\ opened'[k] = opened[k]
                                   \/ /\ tag.kind = "start" /\ k = Len(opened) + 1
                                      /\ opened'[k] = Len(doc) + 1
    <2> SUFFICES ASSUME NEW k \in DOMAIN opened'
                 PROVE  \/ k \in DOMAIN opened /\ opened'[k] = opened[k]
                        \/ /\ tag.kind = "start" /\ k = Len(opened) + 1
                           /\ opened'[k] = Len(doc) + 1
      OBVIOUS
    <2>1. PICK m \in Nat : m = Len(opened)
      BY <1>8
    <2>2. k \in 1..Len(opened')
      BY <1>10
    <2>3. CASE tag.kind = "start"
      <3>1. /\ Len(opened') = m + 1 /\ opened'[m + 1] = Len(doc) + 1
            /\ \A l \in 1..m : opened'[l] = opened[l]
        BY <1>9, <2>1, <2>3 DEF Opens
      <3>2. k \in 1..m \/ k = m + 1
        BY <2>1, <2>2, <3>1
      <3> QED
        BY <1>8, <2>1, <2>3, <3>1, <3>2
    <2>4. CASE opened' = opened
      BY <2>4
    <2>5. CASE Len(opened') = m - 1 /\ \A l \in 1..m - 1 : opened'[l] = opened[l]
      <3>1. k \in 1..m - 1 /\ k \in 1..m
        BY <2>1, <2>2, <2>5
      <3> QED
        BY <1>8, <2>1, <2>5, <3>1
    <2>6. tag.kind = "start" \/ opened' = opened
            \/ (Len(opened') = m - 1 /\ \A l \in 1..m - 1 : opened'[l] = opened[l])
      BY <1>9, <2>1 DEF Opens
    <2> QED
      BY <2>3, <2>4, <2>5, <2>6
  <1>12. \A k \in DOMAIN opened' : opened'[k] \in DOMAIN doc' /\ doc'[opened'[k]].kind = "start"
    <2> SUFFICES ASSUME NEW k \in DOMAIN opened'
                 PROVE  opened'[k] \in DOMAIN doc' /\ doc'[opened'[k]].kind = "start"
      OBVIOUS
    <2>1. CASE k \in DOMAIN opened /\ opened'[k] = opened[k]
      <3>1. opened[k] \in 1..Len(doc) /\ doc[opened[k]].kind = "start"
        BY <1>6, <2>1 DEF XmlInv
      <3> QED
        BY <1>5, <1>6, <2>1, <3>1
    <2>2. CASE tag.kind = "start" /\ opened'[k] = Len(doc) + 1
      <3>1. Len(doc) + 1 \in DOMAIN doc' /\ e.kind = "start"
        BY <1>2, <1>6, <2>2 DEF Event
      <3> QED
        BY <1>5, <2>2, <3>1
    <2> QED
      BY <1>11, <2>1, <2>2
  <1>13. \A k, l \in DOMAIN opened' : k < l => opened'[k] < opened'[l]
    <2> SUFFICES ASSUME NEW k \in DOMAIN opened', NEW l \in DOMAIN opened', k < l
                 PROVE  opened'[k] < opened'[l]
      OBVIOUS
    <2>1. k \in Nat /\ l \in Nat
      BY <1>10
    <2>2. CASE l \in DOMAIN opened /\ opened'[l] = opened[l]
      <3>1. k \in DOMAIN opened /\ opened'[k] = opened[k]
        BY <1>8, <1>10, <1>11, <2>1, <2>2
      <3> QED
        BY <2>2, <3>1 DEF XmlInv
    <2>3. CASE l = Len(opened) + 1 /\ opened'[l] = Len(doc) + 1
      <3>1. k \in DOMAIN opened /\ opened'[k] = opened[k]
        BY <1>8, <1>10, <1>11, <2>1, <2>3
      <3>2. opened[k] \in 1..Len(doc)
        BY <1>6, <3>1 DEF XmlInv
      <3> QED
        BY <1>6, <2>3, <3>1, <3>2
    <2> QED
      BY <1>11, <2>2, <2>3
  <1>14. \A i \in DOMAIN doc' : \A k \in Range(doc'[i].within) :
            k \in DOMAIN doc' /\ k < i /\ doc'[k].kind = "start"
    <2> SUFFICES ASSUME NEW i \in DOMAIN doc', NEW k \in Range(doc'[i].within)
                 PROVE  k \in DOMAIN doc' /\ k < i /\ doc'[k].kind = "start"
      OBVIOUS
    <2>1. k \in 1..Len(doc) /\ k < i /\ doc[k].kind = "start"
      <3>1. CASE i \in 1..Len(doc)
        <4>1. k \in Range(doc[i].within)
          BY <1>5, <3>1
        <4> QED
          BY <1>6, <3>1, <4>1 DEF XmlInv
      <3>2. CASE i = Len(doc) + 1
        <4>1. k \in Range(opened)
          BY <1>2, <1>5, <3>2 DEF Event
        <4>2. PICK l \in DOMAIN opened : k = opened[l]
          BY <4>1 DEF Range
        <4>3. k \in 1..Len(doc) /\ doc[k].kind = "start"
          BY <1>6, <4>2 DEF XmlInv
        <4> QED
          BY <1>6, <3>2, <4>3
      <3> QED
        BY <1>6, <3>1, <3>2
    <2> QED
      BY <1>5, <1>6, <2>1
  <1>15. XmlInv'
    <2>1. \E U : doc' \in Seq(U)
      BY <1>5
    <2> QED
      BY <1>9, <1>12, <1>13, <1>14, <2>1 DEF XmlInv
  <1> QED
    BY <1>7, <1>9, <1>15

\* The places of some kinds and names, and the place of the event just read.
PlacesMore(tag, kinds, names) ==
    Places(kinds, names)' =
        Places(kinds, names) \cup {i \in {Len(doc) + 1} : tag.kind \in kinds /\ tag.name \in names}

\* The open elements of some names, and the innermost of them.
Around(names) == {j \in Range(opened) : doc[j].name \in names}
Inmost(names) == IF Around(names) = {} THEN 0 ELSE Greatest(Around(names))

\* An event that is read leaves the places of the ones before it.
LEMMA PlacesGrow ==
    ASSUME NEW tag, Grows(tag), NEW kinds, NEW names
    PROVE  PlacesMore(tag, kinds, names)
  <1>1. PICK m \in Nat : m = Len(doc)
    BY DEF Grows
  <1>2. /\ DOMAIN doc = 1..m /\ DOMAIN doc' = 1..m + 1
        /\ \A i \in 1..m : doc'[i] = doc[i]
        /\ doc'[m + 1].kind = tag.kind /\ doc'[m + 1].name = tag.name
    BY <1>1 DEF Grows, Event
  <1>3. 1..m + 1 = 1..m \cup {m + 1}
    OBVIOUS
  <1>4. Places(kinds, names)' =
           {i \in 1..m \cup {m + 1} : doc'[i].kind \in kinds /\ doc'[i].name \in names}
    BY <1>2, <1>3 DEF Places
  <1>5. Places(kinds, names) = {i \in 1..m : doc[i].kind \in kinds /\ doc[i].name \in names}
    BY <1>2 DEF Places
  <1>6. Places(kinds, names)' =
           Places(kinds, names) \cup {i \in {m + 1} : tag.kind \in kinds /\ tag.name \in names}
    BY <1>2, <1>4, <1>5
  <1> QED
    BY <1>1, <1>6 DEF PlacesMore

\* What stands around an event is not changed by the ones after it.
LEMMA EnclosingKept ==
    ASSUME XmlInv, NEW tag, Grows(tag), NEW names, NEW i \in 1..Len(doc)
    PROVE  Enclosing(i, names)' = Enclosing(i, names) /\ Nearest(i, names)' = Nearest(i, names)
  <1>1. doc'[i] = doc[i] /\ DOMAIN doc = 1..Len(doc)
    BY DEF Grows
  <1>2. \A k \in Range(doc[i].within) : doc'[k] = doc[k]
    BY <1>1 DEF XmlInv, Grows
  <1>3. Enclosing(i, names)' = Enclosing(i, names)
    BY <1>1, <1>2 DEF Enclosing
  <1> QED
    BY <1>3 DEF Nearest

\* The event just read stands in the open elements.
LEMMA EnclosingNew ==
    ASSUME XmlInv, NEW tag, Grows(tag), NEW names, NEW n, n = Len(doc) + 1
    PROVE  Nearest(n, names)' = Inmost(names)
  <1>1. doc'[n].within = opened
    BY DEF Grows, Event
  <1>2. \A k \in Range(opened) : doc'[k] = doc[k]
    BY DEF XmlInv, Grows, Range
  <1>3. Enclosing(n, names)' = Around(names)
    BY <1>1, <1>2 DEF Enclosing, Around
  <1> QED
    BY <1>3 DEF Nearest, Inmost

\* The nearest element stands before what it is around.
LEMMA NearestBefore ==
    ASSUME XmlInv, NEW i \in DOMAIN doc, NEW names
    PROVE  /\ Nearest(i, names) \in Nat /\ Nearest(i, names) < i
           /\ Nearest(i, names) # 0 =>
                 Nearest(i, names) \in DOMAIN doc /\ doc[Nearest(i, names)].kind = "start"
  <1>1. DOMAIN doc \subseteq Nat \ {0} /\ i \in Nat \ {0}
    BY DEF XmlInv
  <1>2. \A k \in Enclosing(i, names) : k \in DOMAIN doc /\ k < i /\ doc[k].kind = "start"
    BY DEF XmlInv, Enclosing
  <1>3. CASE Enclosing(i, names) = {}
    BY <1>1, <1>3 DEF Nearest
  <1>4. CASE Enclosing(i, names) # {}
    <2>1. Enclosing(i, names) \subseteq 0..i
      BY <1>1, <1>2
    <2>2. Greatest(Enclosing(i, names)) \in Enclosing(i, names)
      BY <1>1, <1>4, <2>1, GreatestExists
    <2> QED
      BY <1>1, <1>2, <1>4, <2>2 DEF Nearest
  <1> QED
    BY <1>3, <1>4

\* An innermost open element is open.
LEMMA InmostOpen ==
    ASSUME XmlInv, NEW names
    PROVE  Inmost(names) = 0 \/ Inmost(names) \in Range(opened)
  <1>1. PICK m \in Nat : m = Len(doc) /\ DOMAIN doc = 1..m
    BY DEF XmlInv
  <1>2. Around(names) \subseteq 0..m
    BY <1>1 DEF XmlInv, Around, Range
  <1>3. Around(names) # {} => Greatest(Around(names)) \in Around(names)
    BY <1>1, <1>2, GreatestExists
  <1> QED
    BY <1>3 DEF Inmost, Around

\* The places of what a record says of an attribute.
SaidAt(i, name, attribute) ==
    {j \in Places({"start", "empty"}, {name}) :
        Nearest(j, RecordNames) = i /\ Attribute(doc[j], attribute, "") # ""}

\* The event at place n is one of them or not.
SaidMoreAt(tag, i, name, attribute, n) ==
    SaidAt(i, name, attribute)' =
        SaidAt(i, name, attribute)
        \cup {j \in {n} : /\ tag.kind \in {"start", "empty"} /\ tag.name = name
                          /\ Inmost(RecordNames) = i
                          /\ Attribute(tag, attribute, "") # ""}

\* What an event adds to what is said of a record: the first word holds.
SaysMore(tag, i, name, attribute) ==
    Declared(i, name, attribute)' =
        IF /\ tag.kind \in {"start", "empty"} /\ tag.name = name
           /\ Inmost(RecordNames) = i /\ Declared(i, name, attribute) = ""
        THEN Attribute(tag, attribute, "") ELSE Declared(i, name, attribute)

\* What a record says is what it says first.
LEMMA DeclaredIs ==
    ASSUME XmlInv, NEW i, NEW name, NEW attribute
    PROVE  /\ SaidAt(i, name, attribute) \in SUBSET Nat
           /\ Declared(i, name, attribute) = "" <=> SaidAt(i, name, attribute) = {}
           /\ SaidAt(i, name, attribute) # {} =>
                 Declared(i, name, attribute) =
                     Attribute(doc[Smallest(SaidAt(i, name, attribute))], attribute, "")
  <1> DEFINE at == SaidAt(i, name, attribute)
  <1>1. at \in SUBSET Nat
    <2>1. DOMAIN doc \subseteq Nat
      BY DEF XmlInv
    <2>2. at \subseteq DOMAIN doc
      BY DEF SaidAt, Places
    <2> QED
      BY <2>1, <2>2
  <1>2. Declared(i, name, attribute) =
           IF at = {} THEN "" ELSE Attribute(doc[Smallest(at)], attribute, "")
    BY DEF Declared, SaidAt
  <1>3. at # {} => Smallest(at) \in at
    BY <1>1, SmallestExists
  <1>4. at # {} => Attribute(doc[Smallest(at)], attribute, "") # ""
    BY <1>3 DEF SaidAt
  <1> QED
    BY <1>1, <1>2, <1>4

\* The places of what a record says, after one more event.
LEMMA SaidAtGrows ==
    ASSUME XmlInv, NEW tag, Grows(tag), NEW i, NEW name, NEW attribute,
           NEW n, n = Len(doc) + 1
    PROVE  SaidMoreAt(tag, i, name, attribute, n)
  <1> DEFINE tags == {"start", "empty"}
             places == Places(tags, {name})
  <1>1. places' = places \cup {j \in {n} : tag.kind \in tags /\ tag.name \in {name}}
    BY PlacesGrow DEF PlacesMore
  <1>2. /\ Nearest(n, RecordNames)' = Inmost(RecordNames)
        /\ \A j \in 1..Len(doc) : Nearest(j, RecordNames)' = Nearest(j, RecordNames)
    BY EnclosingNew, EnclosingKept
  <1>3. Attribute(doc'[n], attribute, "") = Attribute(tag, attribute, "")
    <2>1. doc'[n] = Event(tag, opened)
      BY DEF Grows
    <2>2. doc'[n].attrs = tag.attrs
      BY <2>1 DEF Event
    <2> QED
      BY <2>2 DEF Attribute
  <1>4. \A j \in places : j \in 1..Len(doc) /\ doc'[j] = doc[j]
    BY DEF Grows, Places
  <1>5. SaidAt(i, name, attribute)' =
           {j \in places' : Nearest(j, RecordNames)' = i /\ Attribute(doc'[j], attribute, "") # ""}
    BY DEF SaidAt, Attribute
  <1>6. SaidAt(i, name, attribute) =
           {j \in places : Nearest(j, RecordNames) = i /\ Attribute(doc[j], attribute, "") # ""}
    BY DEF SaidAt
  <1> HIDE DEF places, tags
  <1>7. \A j \in places : Nearest(j, RecordNames)' = Nearest(j, RecordNames)
    BY <1>2, <1>4
  <1>8. \A j : j \in places' <=>
           j \in places \/ (j = n /\ tag.kind \in tags /\ tag.name = name)
    BY <1>1
  <1> DEFINE more == {j \in {n} : /\ tag.kind \in tags /\ tag.name = name
                                  /\ Inmost(RecordNames) = i
                                  /\ Attribute(tag, attribute, "") # ""}
  <1>9. \A j : j \in SaidAt(i, name, attribute)' <=>
           j \in SaidAt(i, name, attribute) \/ j \in more
    <2> SUFFICES ASSUME NEW j
                 PROVE  j \in SaidAt(i, name, attribute)' <=>
                           j \in SaidAt(i, name, attribute) \/ j \in more
      OBVIOUS
    <2>1. CASE j \in places
      <3>1. j # n
        BY <1>4, <2>1 DEF Grows
      <3> QED
        BY <1>4, <1>5, <1>6, <1>7, <1>8, <2>1, <3>1
    <2>2. CASE j \notin places
      BY <1>2, <1>3, <1>5, <1>6, <1>8, <2>2
    <2> QED
      BY <2>1, <2>2
  <1> QED
    BY <1>9 DEF tags, SaidMoreAt

\* An event says more of the innermost record that is open, and of no other.
LEMMA DeclaredGrows ==
    ASSUME XmlInv, NEW tag, Grows(tag), NEW i, NEW name, NEW attribute
    PROVE  SaysMore(tag, i, name, attribute)
  <1>1. PICK n \in Nat \ {0} : n = Len(doc) + 1
    BY DEF Grows
  <1> DEFINE at == SaidAt(i, name, attribute)
             says == /\ tag.kind \in {"start", "empty"} /\ tag.name = name
                     /\ Inmost(RecordNames) = i
             word == Attribute(tag, attribute, "")
             more == {j \in {n} : says /\ word # ""}
  <1>2. at' = at \cup more
    <2>1. SaidMoreAt(tag, i, name, attribute, n)
      BY <1>1, SaidAtGrows
    <2> QED
      BY <2>1 DEF SaidMoreAt
  <1>3. /\ at \in SUBSET Nat
        /\ Declared(i, name, attribute) = "" <=> at = {}
        /\ at # {} => Declared(i, name, attribute) = Attribute(doc[Smallest(at)], attribute, "")
    BY DeclaredIs
  <1>4. Declared(i, name, attribute)' =
           IF at' = {} THEN "" ELSE Attribute(doc'[Smallest(at')], attribute, "")
    BY DEF Declared, SaidAt, Attribute
  <1>5. \A j \in at : j \in 1..Len(doc) /\ j < n /\ doc'[j] = doc[j]
    <2>1. at \subseteq DOMAIN doc
      BY DEF SaidAt, Places
    <2>2. /\ Len(doc) \in Nat /\ DOMAIN doc = 1..Len(doc)
          /\ \A j \in 1..Len(doc) : doc'[j] = doc[j]
      BY DEF Grows
    <2> HIDE DEF at
    <2> QED
      BY <1>1, <2>1, <2>2
  <1>6. Attribute(doc'[n], attribute, "") = word
    <2>1. doc'[n] = Event(tag, opened)
      BY <1>1 DEF Grows
    <2>2. doc'[n].attrs = tag.attrs
      BY <2>1 DEF Event
    <2> QED
      BY <2>2 DEF Attribute
  <1>7. SaysMore(tag, i, name, attribute) <=>
           Declared(i, name, attribute)' =
               IF says /\ Declared(i, name, attribute) = "" THEN word
               ELSE Declared(i, name, attribute)
    BY DEF SaysMore
  <1>8. at # {} => Smallest(at) \in at /\ \A y \in at : Smallest(at) <= y
    BY <1>3, SmallestExists
  <1> HIDE DEF at, says, word
  <1>9. CASE at # {}
    <2>1. PICK x \in at : x = Smallest(at)
      BY <1>8, <1>9
    <2>2. /\ at' \in SUBSET Nat /\ x \in at'
          /\ \A y \in at' : x <= y
      <3>1. at' \in SUBSET Nat /\ x \in at'
        BY <1>1, <1>2, <1>3, <2>1
      <3>2. ASSUME NEW y \in at' PROVE x <= y
        <4>1. y \in at \/ y = n
          BY <1>2
        <4>2. x \in Nat /\ x < n
          BY <1>3, <1>5, <2>1
        <4>3. y \in at => x <= y
          BY <1>8, <1>9, <2>1
        <4> HIDE DEF more
        <4> QED
          BY <1>1, <4>1, <4>2, <4>3
      <3> QED
        BY <3>1, <3>2
    <2>3. Smallest(at') = x
      BY <2>2, SmallestIs
    <2>4. Declared(i, name, attribute)' = Declared(i, name, attribute)
      <3>1. doc'[x] = doc[x]
        BY <1>5
      <3> QED
        BY <1>3, <1>4, <1>9, <2>1, <2>2, <2>3, <3>1
    <2> QED
      BY <1>3, <1>7, <1>9, <2>4
  <1>10. CASE at = {} /\ says /\ word # ""
    <2>1. at' = {n}
      BY <1>2, <1>10
    <2>2. Smallest(at') = n
      BY <1>1, <2>1, SmallestIs
    <2> QED
      BY <1>3, <1>4, <1>6, <1>7, <1>10, <2>1, <2>2
  <1>11. CASE at = {} /\ ~(says /\ word # "")
    <2>1. at' = {}
      BY <1>2, <1>11
    <2> QED
      BY <1>3, <1>4, <1>7, <1>11, <2>1
  <1> QED
    BY <1>9, <1>10, <1>11

\* The record of the open element at a place of opened: what it says so far.
RecordAt(a) ==
    [at |-> a, algorithm |-> Declared(opened[a], "EncryptionMethod", "Algorithm"),
     uri |-> Declared(opened[a], "CipherReference", "URI")]

\* The open records are those of the open record elements, in their order.
RecordsInv ==
    /\ level = Len(opened)
    /\ \E S : records \in Seq(S)
    /\ \A n \in DOMAIN records : \E a \in DOMAIN opened :
           records[n].at = a /\ records[n] = RecordAt(a) /\ doc[opened[a]].name \in RecordNames
    /\ \A k, l \in DOMAIN records : k < l => records[k].at < records[l].at
    /\ \A a \in DOMAIN opened : doc[opened[a]].name \in RecordNames =>
           \E n \in DOMAIN records : records[n].at = a

\* A record with what a tag says of it.
Told(tag, record) ==
    IF tag.name = "EncryptionMethod" /\ record.algorithm = ""
    THEN [record EXCEPT !.algorithm = Attribute(tag, "Algorithm", "")]
    ELSE IF tag.name = "CipherReference" /\ record.uri = ""
    THEN [record EXCEPT !.uri = Attribute(tag, "URI", "")]
    ELSE record

\* The innermost open record is that of the innermost record element.
LEMMA InnermostIs ==
    ASSUME XmlInv, RecordsInv
    PROVE  /\ records = <<>> => Inmost(RecordNames) = 0
           /\ records # <<>> =>
                 /\ Len(records) \in DOMAIN records
                 /\ Inmost(RecordNames) = opened[records[Len(records)].at]
  <1>1. PICK S : records \in Seq(S)
    BY DEF RecordsInv
  <1>2. PICK m \in Nat : m = Len(records) /\ DOMAIN records = 1..m
    BY <1>1
  <1>3. /\ \A j \in Around(RecordNames) : \E n \in DOMAIN records : j = opened[records[n].at]
        /\ \A n \in DOMAIN records : opened[records[n].at] \in Around(RecordNames)
    BY DEF RecordsInv, Around, Range
  <1>4. CASE records = <<>>
    <2>1. Around(RecordNames) = {}
      BY <1>2, <1>3, <1>4
    <2> QED
      BY <1>4, <2>1 DEF Inmost
  <1>5. CASE records # <<>>
    <2>1. m \in DOMAIN records /\ m = Len(records)
      BY <1>1, <1>2, <1>5
    <2>2. PICK p : p = opened[records[m].at]
      OBVIOUS
    <2>3. Around(RecordNames) \in SUBSET Nat
      BY DEF XmlInv, Around, Range
    <2>4. p \in Around(RecordNames)
      BY <1>3, <2>1, <2>2
    <2>5. ASSUME NEW j \in Around(RecordNames) PROVE j <= p
      <3>1. PICK n \in DOMAIN records : j = opened[records[n].at]
        BY <1>3
      <3>2. CASE n = m
        BY <2>2, <2>3, <3>1, <3>2
      <3>3. CASE n # m
        <4>1. n < m
          BY <1>2, <3>3
        <4>2. /\ records[n].at < records[m].at
              /\ records[n].at \in DOMAIN opened /\ records[m].at \in DOMAIN opened
          BY <2>1, <4>1 DEF RecordsInv
        <4>3. j < p
          BY <2>2, <3>1, <4>2 DEF XmlInv
        <4> QED
          BY <2>3, <2>4, <4>3
      <3> QED
        BY <3>2, <3>3
    <2>6. Greatest(Around(RecordNames)) = p
      BY <2>3, <2>4, <2>5, GreatestIs
    <2> QED
      BY <1>5, <2>1, <2>2, <2>4, <2>6 DEF Inmost
  <1> QED
    BY <1>4, <1>5

\* The record of an element that stays open, after one more event.
LEMMA RecordAfter ==
    ASSUME XmlInv, NEW tag, Grows(tag), NEW a, opened'[a] = opened[a]
    PROVE  /\ tag.kind \in {"start", "empty"} /\ Inmost(RecordNames) = opened[a] =>
                 RecordAt(a)' = Told(tag, RecordAt(a))
           /\ \/ tag.kind \notin {"start", "empty"}
              \/ Inmost(RecordNames) # opened[a]
              \/ tag.name \in RecordNames
              => RecordAt(a)' = RecordAt(a)
  <1>1. PICK i : i = opened[a] /\ i = opened'[a]
    OBVIOUS
  <1>2. /\ SaysMore(tag, i, "EncryptionMethod", "Algorithm")
        /\ SaysMore(tag, i, "CipherReference", "URI")
    BY DeclaredGrows
  <1>3. RecordAt(a) =
           [at |-> a, algorithm |-> Declared(i, "EncryptionMethod", "Algorithm"),
            uri |-> Declared(i, "CipherReference", "URI")]
    BY <1>1 DEF RecordAt
  <1>4. PICK algorithm, uri, saysAlgorithm, saysUri :
            /\ algorithm = Declared(i, "EncryptionMethod", "Algorithm")
            /\ uri = Declared(i, "CipherReference", "URI")
            /\ saysAlgorithm = Declared(i, "EncryptionMethod", "Algorithm")'
            /\ saysUri = Declared(i, "CipherReference", "URI")'
    OBVIOUS
  <1>5. RecordAt(a)' = [at |-> a, algorithm |-> saysAlgorithm, uri |-> saysUri]
    BY <1>1, <1>4 DEF RecordAt
  <1>6. RecordAt(a) = [at |-> a, algorithm |-> algorithm, uri |-> uri]
    BY <1>3, <1>4
  <1> DEFINE says == tag.kind \in {"start", "empty"} /\ Inmost(RecordNames) = i
  <1>7. saysAlgorithm = IF says /\ tag.name = "EncryptionMethod" /\ algorithm = ""
                        THEN Attribute(tag, "Algorithm", "") ELSE algorithm
    BY <1>2, <1>4 DEF SaysMore
  <1>8. saysUri = IF says /\ tag.name = "CipherReference" /\ uri = ""
                  THEN Attribute(tag, "URI", "") ELSE uri
    BY <1>2, <1>4 DEF SaysMore
  <1>9. says <=> tag.kind \in {"start", "empty"} /\ Inmost(RecordNames) = opened[a]
    BY <1>1
  <1> HIDE DEF says
  <1>10. says => RecordAt(a)' = Told(tag, RecordAt(a))
    <2> SUFFICES ASSUME says PROVE RecordAt(a)' = Told(tag, RecordAt(a))
      OBVIOUS
    <2>1. PICK word, address : /\ word = Attribute(tag, "Algorithm", "")
                               /\ address = Attribute(tag, "URI", "")
      OBVIOUS
    <2>2. PICK record : record = [at |-> a, algorithm |-> algorithm, uri |-> uri]
      OBVIOUS
    <2>3. /\ record.algorithm = algorithm /\ record.uri = uri
          /\ [record EXCEPT !.algorithm = word] = [at |-> a, algorithm |-> word, uri |-> uri]
          /\ [record EXCEPT !.uri = address] = [at |-> a, algorithm |-> algorithm, uri |-> address]
      BY <2>2
    <2>4. Told(tag, record) =
             IF tag.name = "EncryptionMethod" /\ algorithm = ""
             THEN [at |-> a, algorithm |-> word, uri |-> uri]
             ELSE IF tag.name = "CipherReference" /\ uri = ""
             THEN [at |-> a, algorithm |-> algorithm, uri |-> address] ELSE record
      BY <2>1, <2>3 DEF Told
    <2>5. CASE tag.name = "EncryptionMethod"
      <3>1. saysUri = uri /\ saysAlgorithm = IF algorithm = "" THEN word ELSE algorithm
        BY <1>7, <1>8, <2>1, <2>5
      <3> QED
        BY <1>5, <1>6, <2>2, <2>4, <2>5, <3>1
    <2>6. CASE tag.name # "EncryptionMethod"
      <3>1. /\ saysAlgorithm = algorithm
            /\ saysUri = IF tag.name = "CipherReference" /\ uri = "" THEN address ELSE uri
        BY <1>7, <1>8, <2>1, <2>6
      <3> QED
        BY <1>5, <1>6, <2>2, <2>4, <2>6, <3>1
    <2> QED
      BY <2>5, <2>6
  <1>11. ~says \/ tag.name \in RecordNames => RecordAt(a)' = RecordAt(a)
    BY <1>5, <1>6, <1>7, <1>8 DEF RecordNames
  <1> QED
    BY <1>9, <1>10, <1>11

\* Nothing is said yet of what is not an open element.
LEMMA NothingSaid ==
    ASSUME XmlInv, NEW k \in Nat \ {0}, k \in DOMAIN doc => doc[k].kind # "start",
           NEW name, NEW attribute
    PROVE  Declared(k, name, attribute) = "" /\ Inmost(RecordNames) # k
  <1>1. SaidAt(k, name, attribute) = {}
    <2> SUFFICES ASSUME NEW j \in SaidAt(k, name, attribute) PROVE FALSE
      OBVIOUS
    <2>1. j \in DOMAIN doc /\ Nearest(j, RecordNames) = k
      BY DEF SaidAt, Places
    <2> QED
      BY <2>1, NearestBefore
  <1>2. k \notin Range(opened)
    BY DEF XmlInv, Range
  <1> QED
    BY <1>1, <1>2, DeclaredIs, InmostOpen

\* What an event that is not an end tag leaves of the open elements.
LEMMA OpenStay ==
    ASSUME XmlInv, NEW tag, Grows(tag), Opens(tag), tag.kind # "end"
    PROVE  /\ \A a \in DOMAIN opened :
                 /\ a \in DOMAIN opened' /\ opened'[a] = opened[a]
                 /\ doc'[opened[a]] = doc[opened[a]]
           /\ tag.kind # "start" => opened' = opened
  <1>1. \A a \in DOMAIN opened : doc'[opened[a]] = doc[opened[a]]
    BY DEF XmlInv, Grows
  <1>2. CASE tag.kind # "start"
    BY <1>1, <1>2 DEF Opens
  <1>3. CASE tag.kind = "start"
    <2>1. /\ Len(opened) \in Nat /\ DOMAIN opened = 1..Len(opened) /\ Len(opened') = Len(opened) + 1
          /\ \A k \in 1..Len(opened) : opened'[k] = opened[k]
      BY <1>3 DEF Opens
    <2> QED
      BY <1>1, <1>3, <2>1
  <1> QED
    BY <1>2, <1>3

\* While no record element is opened or closed, the records need only say more.
LEMMA RecordsKept ==
    ASSUME XmlInv, XmlInv', RecordsInv, NEW tag, Grows(tag), Opens(tag),
           tag.kind # "end", tag.kind = "start" => tag.name \notin RecordNames,
           \E S : records' \in Seq(S), DOMAIN records' = DOMAIN records,
           \A n \in DOMAIN records : \E a : a = records[n].at /\ records'[n] = RecordAt(a)',
           level' = Len(opened')
    PROVE  RecordsInv'
  <1>1. \A n \in DOMAIN records : records'[n].at = records[n].at
    <2> SUFFICES ASSUME NEW n \in DOMAIN records PROVE records'[n].at = records[n].at
      OBVIOUS
    <2>1. PICK a : a = records[n].at /\ records'[n] = RecordAt(a)'
      OBVIOUS
    <2>2. RecordAt(a)'.at = a
      BY DEF RecordAt
    <2> QED
      BY <2>1, <2>2
  <1>2. /\ \A a \in DOMAIN opened :
                 /\ a \in DOMAIN opened' /\ opened'[a] = opened[a]
                 /\ doc'[opened[a]] = doc[opened[a]]
        /\ tag.kind # "start" => opened' = opened
    BY OpenStay
  <1>3. \A n \in DOMAIN records' :
           \E a \in DOMAIN opened' :
               /\ records'[n].at = a /\ records'[n] = RecordAt(a)'
               /\ doc'[opened'[a]].name \in RecordNames
    <2> SUFFICES ASSUME NEW n \in DOMAIN records
                 PROVE  \E a \in DOMAIN opened' :
                            /\ records'[n].at = a /\ records'[n] = RecordAt(a)'
                            /\ doc'[opened'[a]].name \in RecordNames
      OBVIOUS
    <2>1. PICK a \in DOMAIN opened : a = records[n].at /\ doc[opened[a]].name \in RecordNames
      BY DEF RecordsInv
    <2>2. records'[n].at = a /\ records'[n] = RecordAt(a)' /\ doc[opened[a]].name \in RecordNames
      BY <1>1, <2>1
    <2>3. doc'[opened'[a]].name \in RecordNames
      BY <1>2, <2>2
    <2>4. opened'[a] \in DOMAIN doc' /\ a \in DOMAIN opened'
      BY <1>2 DEF XmlInv
    <2> QED
      BY <2>2, <2>3, <2>4
  <1>4. \A k, l \in DOMAIN records' : k < l => records'[k].at < records'[l].at
    BY <1>1 DEF RecordsInv
  <1>5. \A a \in DOMAIN opened' : doc'[opened'[a]].name \in RecordNames =>
           \E n \in DOMAIN records' : records'[n].at = a
    <2> SUFFICES ASSUME NEW a \in DOMAIN opened', doc'[opened'[a]].name \in RecordNames
                 PROVE  \E n \in DOMAIN records' : records'[n].at = a
      OBVIOUS
    <2>1. a \in DOMAIN opened
      <3>1. CASE tag.kind # "start"
        BY <1>2, <3>1
      <3>2. CASE tag.kind = "start"
        <4>1. PICK m \in Nat : m = Len(opened)
          BY DEF Opens
        <4>2. /\ DOMAIN opened = 1..m /\ Len(opened') = m + 1 /\ opened'[m + 1] = Len(doc) + 1
          BY <3>2, <4>1 DEF Opens
        <4>3. DOMAIN opened' = 1..Len(opened')
          BY DEF XmlInv
        <4>4. doc'[Len(doc) + 1].name = tag.name
          BY DEF Grows, Event
        <4>5. a # m + 1
          BY <3>2, <4>2, <4>4
        <4> QED
          BY <4>2, <4>3, <4>5
      <3> QED
        BY <3>1, <3>2
    <2>2. doc[opened[a]].name \in RecordNames
      BY <1>2, <2>1
    <2>3. PICK n \in DOMAIN records : records[n].at = a
      BY <2>1, <2>2 DEF RecordsInv
    <2> QED
      BY <1>1, <2>3
  <1> QED
    BY <1>3, <1>4, <1>5 DEF RecordsInv

\* A tag that is no record says something of the innermost record.
LEMMA RecordsDescribed ==
    ASSUME XmlInv, XmlInv', RecordsInv, NEW tag, Grows(tag), Opens(tag),
           tag.kind \in {"start", "empty"}, tag.name \notin RecordNames,
           records' = Describe(tag), level' = Len(opened')
    PROVE  RecordsInv'
  <1>1. PICK S : records \in Seq(S)
    BY DEF RecordsInv
  <1>2. PICK m \in Nat : m = Len(records) /\ DOMAIN records = 1..m
    BY <1>1
  <1>3. records' = [n \in 1..m |-> IF n # m THEN records[n] ELSE Told(tag, records[n])]
    BY <1>2 DEF Describe, Innermost, Told
  <1> DEFINE T == {records'[n] : n \in 1..m}
  <1>4. records' \in [1..m -> T]
    BY <1>3
  <1>5. records' \in Seq(T) /\ DOMAIN records' = DOMAIN records
    <2> HIDE DEF T
    <2>1. PICK f : f = records'
      OBVIOUS
    <2>2. f \in [1..m -> T]
      BY <1>4, <2>1
    <2>3. f \in Seq(T) /\ DOMAIN f = 1..m
      BY <2>2
    <2> QED
      BY <1>2, <2>1, <2>3
  <1>6. ASSUME NEW n \in DOMAIN records
        PROVE  \E a : a = records[n].at /\ records'[n] = RecordAt(a)'
    <2>1. PICK a \in DOMAIN opened : a = records[n].at /\ records[n] = RecordAt(a)
      BY DEF RecordsInv
    <2>2. opened'[a] = opened[a] /\ records[n] = RecordAt(a)
      BY <2>1, OpenStay
    <2>3. m \in DOMAIN records /\ Inmost(RecordNames) = opened[records[m].at]
      BY <1>2, InnermostIs
    <2>4. CASE n = m
      <3>1. RecordAt(a)' = Told(tag, RecordAt(a))
        BY <2>1, <2>2, <2>3, <2>4, RecordAfter
      <3> QED
        BY <1>2, <1>3, <2>1, <2>2, <2>4, <3>1
    <2>5. CASE n # m
      <3>1. n < m
        BY <1>2, <2>5
      <3>2. a < records[m].at /\ records[m].at \in DOMAIN opened
        BY <2>1, <2>3, <3>1 DEF RecordsInv
      <3>3. opened[a] < opened[records[m].at] /\ opened[a] \in Nat
        BY <3>2 DEF XmlInv
      <3>4. Inmost(RecordNames) # opened[a]
        BY <2>3, <3>3
      <3>5. RecordAt(a)' = RecordAt(a)
        BY <2>2, <3>4, RecordAfter
      <3> QED
        BY <1>2, <1>3, <2>1, <2>2, <2>5, <3>5
    <2> QED
      BY <2>4, <2>5
  <1> QED
    BY <1>5, <1>6, RecordsKept

\* An empty record leaves the open records, and so does what is no element.
LEMMA RecordsPassed ==
    ASSUME XmlInv, XmlInv', RecordsInv, NEW tag, Grows(tag), Opens(tag),
           tag.kind \notin {"start", "end"}, tag.kind = "empty" => tag.name \in RecordNames,
           records' = records, level' = level
    PROVE  RecordsInv'
  <1>1. opened' = opened
    BY DEF Opens
  <1>2. ASSUME NEW n \in DOMAIN records
        PROVE  \E a : a = records[n].at /\ records'[n] = RecordAt(a)'
    <2>1. PICK a \in DOMAIN opened : a = records[n].at /\ records[n] = RecordAt(a)
      BY DEF RecordsInv
    <2>2. RecordAt(a)' = RecordAt(a)
      BY <1>1, <2>1, RecordAfter
    <2> QED
      BY <2>1, <2>2
  <1>3. level' = Len(opened') /\ \E S : records' \in Seq(S)
    BY <1>1 DEF RecordsInv
  <1> QED
    BY <1>2, <1>3, RecordsKept

\* The record that is opened, and what becomes of the open records.
IsNew(record) == record = [at |-> level + 1, algorithm |-> "", uri |-> ""]
AddsRecord(record) == records' = Append(records, record) /\ level' = level + 1

\* A start tag that is a record opens one that says nothing yet.
LEMMA RecordsOpened ==
    ASSUME XmlInv, XmlInv', RecordsInv, NEW tag, Grows(tag), Opens(tag),
           tag.kind = "start", tag.name \in RecordNames,
           NEW record, IsNew(record), AddsRecord(record)
    PROVE  RecordsInv'
  <1>1. PICK S : records \in Seq(S)
    BY DEF RecordsInv
  <1>2. PICK m \in Nat : m = Len(records) /\ DOMAIN records = 1..m /\ records \in Seq(S)
    BY <1>1
  <1>3. PICK p \in Nat : /\ p = Len(opened) /\ DOMAIN opened = 1..p /\ level = p
                         /\ Len(opened') = p + 1 /\ DOMAIN opened' = 1..p + 1
                         /\ opened'[p + 1] = Len(doc) + 1
                         /\ \A k \in 1..p : opened'[k] = opened[k]
    <2>1. PICK p \in Nat : p = Len(opened)
      BY DEF Opens
    <2>2. /\ DOMAIN opened = 1..p /\ Len(opened') = p + 1 /\ opened'[p + 1] = Len(doc) + 1
          /\ \A k \in 1..p : opened'[k] = opened[k]
      BY <2>1 DEF Opens
    <2>3. DOMAIN opened' = 1..Len(opened') /\ level = p
      BY <2>1 DEF XmlInv, RecordsInv
    <2> QED
      BY <2>1, <2>2, <2>3
  <1>4. PICK i \in Nat \ {0} : i = Len(doc) + 1 /\ i \notin DOMAIN doc
    BY DEF Grows
  <1>5. record = [at |-> p + 1, algorithm |-> "", uri |-> ""]
    BY <1>3 DEF IsNew
  <1>6. record = RecordAt(p + 1)'
    <2>1. \A name, attribute : Declared(i, name, attribute) = "" /\ Inmost(RecordNames) # i
      BY <1>4, NothingSaid
    <2>2. \A name, attribute : SaysMore(tag, i, name, attribute)
      BY DeclaredGrows
    <2>3. /\ Declared(i, "EncryptionMethod", "Algorithm")' = ""
          /\ Declared(i, "CipherReference", "URI")' = ""
      BY <2>1, <2>2 DEF SaysMore
    <2>4. PICK a : a = p + 1 /\ opened'[a] = i
      BY <1>3, <1>4
    <2>5. RecordAt(a)' = [at |-> a, algorithm |-> "", uri |-> ""]
      BY <2>3, <2>4 DEF RecordAt
    <2> QED
      BY <1>5, <2>4, <2>5
  <1>7. record.at = p + 1
    BY <1>5
  <1> DEFINE T == S \cup {record}
  <1>8. records \in Seq(T) /\ record \in T
    BY <1>2
  <1> HIDE DEF T
  <1>9. /\ records' \in Seq(T) /\ Len(records') = m + 1 /\ records'[m + 1] = record
        /\ \A n \in 1..m : records'[n] = records[n]
    BY <1>2, <1>8, Longer DEF AddsRecord
  <1>10. DOMAIN records' = 1..m + 1
    BY <1>9
  <1>11. \A a \in 1..p : doc'[opened'[a]] = doc[opened[a]] /\ RecordAt(a)' = RecordAt(a)
    BY <1>3, OpenStay, RecordAfter
  <1>12. doc'[opened'[p + 1]].name \in RecordNames
    BY <1>3 DEF Grows, Event
  <1>13. \A n \in 1..m : \E a \in 1..p :
            records[n].at = a /\ records[n] = RecordAt(a) /\ doc[opened[a]].name \in RecordNames
    BY <1>2, <1>3 DEF RecordsInv
  <1>14. \A n \in DOMAIN records' : \E a \in DOMAIN opened' :
            records'[n].at = a /\ records'[n] = RecordAt(a)' /\ doc'[opened'[a]].name \in RecordNames
    <2> SUFFICES ASSUME NEW n \in 1..m + 1
                 PROVE  \E a \in 1..p + 1 :
                            /\ records'[n].at = a /\ records'[n] = RecordAt(a)'
                            /\ doc'[opened'[a]].name \in RecordNames
      BY <1>3, <1>10
    <2>1. CASE n \in 1..m
      <3>1. PICK a \in 1..p : /\ records[n].at = a /\ records[n] = RecordAt(a)
                              /\ doc[opened[a]].name \in RecordNames
        BY <1>13, <2>1
      <3>2. a \in 1..p + 1
        OBVIOUS
      <3>3. doc'[opened'[a]].name \in RecordNames /\ records'[n] = RecordAt(a)' /\ records'[n].at = a
        BY <1>9, <1>11, <2>1, <3>1
      <3> QED
        BY <3>2, <3>3
    <2>2. CASE n = m + 1
      <3>1. p + 1 \in 1..p + 1
        OBVIOUS
      <3> QED
        BY <1>6, <1>7, <1>9, <1>12, <2>2, <3>1
    <2> QED
      BY <2>1, <2>2
  <1>15. \A k, l \in DOMAIN records' : k < l => records'[k].at < records'[l].at
    <2> SUFFICES ASSUME NEW k \in 1..m + 1, NEW l \in 1..m + 1, k < l
                 PROVE  records'[k].at < records'[l].at
      BY <1>10
    <2>1. k \in 1..m
      OBVIOUS
    <2>2. records'[k].at = records[k].at /\ records[k].at \in 1..p
      BY <1>9, <1>13, <2>1
    <2>3. CASE l \in 1..m
      <3>1. records[k].at < records[l].at
        BY <1>2, <2>1, <2>3 DEF RecordsInv
      <3> QED
        BY <1>9, <2>2, <2>3, <3>1
    <2>4. CASE l = m + 1
      BY <1>7, <1>9, <2>2, <2>4
    <2> QED
      BY <2>3, <2>4
  <1>16. \A a \in DOMAIN opened' : doc'[opened'[a]].name \in RecordNames =>
            \E n \in DOMAIN records' : records'[n].at = a
    <2> SUFFICES ASSUME NEW a \in 1..p + 1, doc'[opened'[a]].name \in RecordNames
                 PROVE  \E n \in 1..m + 1 : records'[n].at = a
      BY <1>3, <1>10
    <2>1. CASE a \in 1..p
      <3>1. PICK n \in 1..m : records[n].at = a
        BY <1>2, <1>3, <1>11, <2>1 DEF RecordsInv
      <3>2. n \in 1..m + 1
        OBVIOUS
      <3> QED
        BY <1>9, <3>1, <3>2
    <2>2. CASE a = p + 1
      <3>1. m + 1 \in 1..m + 1
        OBVIOUS
      <3> QED
        BY <1>7, <1>9, <2>2, <3>1
    <2> QED
      BY <2>1, <2>2
  <1>17. level' = Len(opened') /\ \E U : records' \in Seq(U)
    BY <1>3, <1>9 DEF AddsRecord
  <1> QED
    BY <1>14, <1>15, <1>16, <1>17 DEF RecordsInv

\* Whether an end tag closes the innermost record, and what becomes of the records.
Closes == records # <<>> /\ Last(records).at = level
TakesRecord == records' = (IF Closes THEN Front(records) ELSE records) /\ level' = level - 1

\* An end tag closes the innermost record when it closes its element.
LEMMA RecordsClosed ==
    ASSUME XmlInv, XmlInv', RecordsInv, NEW tag, Grows(tag), Opens(tag),
           tag.kind = "end", opened # <<>>, tag.name = doc[opened[Len(opened)]].name, TakesRecord
    PROVE  /\ RecordsInv'
           /\ Closes <=> doc[opened[Len(opened)]].name \in RecordNames
           /\ Closes => Last(records) = RecordAt(Len(opened))
  <1>1. PICK S : records \in Seq(S)
    BY DEF RecordsInv
  <1>2. PICK m \in Nat : m = Len(records) /\ DOMAIN records = 1..m /\ records \in Seq(S)
    BY <1>1
  <1>3. PICK p \in Nat \ {0} :
            /\ p = Len(opened) /\ DOMAIN opened = 1..p /\ level = p
            /\ Len(opened') = p - 1 /\ DOMAIN opened' = 1..p - 1
            /\ \A k \in 1..p - 1 : opened'[k] = opened[k]
    <2>1. PICK p \in Nat : p = Len(opened)
      BY DEF Opens
    <2>2. opened \in Seq(Nat) /\ opened' \in Seq(Nat) /\ level = p
      BY <2>1 DEF XmlInv, RecordsInv
    <2>3. DOMAIN opened = 1..p /\ DOMAIN opened' = 1..Len(opened') /\ p # 0
      BY <2>1, <2>2
    <2>4. Len(opened') = p - 1 /\ \A k \in 1..p - 1 : opened'[k] = opened[k]
      BY <2>1 DEF Opens
    <2> QED
      BY <2>1, <2>2, <2>3, <2>4
  <1>4. \A n \in 1..m : \E a \in 1..p :
           records[n].at = a /\ records[n] = RecordAt(a) /\ doc[opened[a]].name \in RecordNames
    BY <1>2, <1>3 DEF RecordsInv
  <1>5. /\ \A k, l \in 1..m : k < l => records[k].at < records[l].at
        /\ \A a \in 1..p : doc[opened[a]].name \in RecordNames =>
              \E n \in 1..m : records[n].at = a
    BY <1>2, <1>3 DEF RecordsInv
  <1>6. Closes <=> m # 0 /\ records[m].at = p
    BY <1>2, <1>3 DEF Closes, Last
  <1>7. ASSUME NEW n \in 1..m, records[n].at = p PROVE n = m
    <2>1. CASE n < m
      <3>1. m \in 1..m
        BY <2>1
      <3>2. records[n].at < records[m].at
        BY <1>5, <2>1, <3>1
      <3>3. records[m].at \in 1..p
        BY <1>4, <3>1
      <3> QED
        BY <1>7, <3>2, <3>3
    <2> QED
      BY <2>1
  <1>8. Closes <=> doc[opened[p]].name \in RecordNames
    <2>1. ASSUME Closes PROVE doc[opened[p]].name \in RecordNames
      <3>1. m \in 1..m /\ records[m].at = p
        BY <1>6, <2>1
      <3> QED
        BY <1>4, <3>1
    <2>2. ASSUME doc[opened[p]].name \in RecordNames PROVE Closes
      <3>1. p \in 1..p
        OBVIOUS
      <3>2. PICK n \in 1..m : records[n].at = p
        BY <1>5, <2>2, <3>1
      <3>3. n = m
        BY <1>7, <3>2
      <3> QED
        BY <1>6, <3>2, <3>3
    <2> QED
      BY <2>1, <2>2
  <1>9. Closes => Last(records) = RecordAt(p)
    <2> SUFFICES ASSUME Closes PROVE Last(records) = RecordAt(p)
      OBVIOUS
    <2>1. m \in 1..m /\ records[m].at = p
      BY <1>6
    <2>2. records[m] = RecordAt(p)
      BY <1>4, <2>1
    <2> QED
      BY <1>2, <2>2 DEF Last
  <1>10. PICK k \in Nat : /\ DOMAIN records' = 1..k /\ k <= m /\ \E U : records' \in Seq(U)
                          /\ \A n \in 1..k : records'[n] = records[n] /\ records[n].at # p
                          /\ \A n \in 1..m : n \in 1..k \/ records[n].at = p
    <2>1. CASE Closes
      <3>1. m # 0 /\ records # <<>>
        BY <1>6, <2>1 DEF Closes
      <3>2. PICK t : t = Front(records)
        OBVIOUS
      <3>3. t \in Seq(S) /\ Len(t) = m - 1 /\ \A n \in 1..m - 1 : t[n] = records[n]
        BY <1>2, <3>1, <3>2, Fronted
      <3>4. records' = t
        BY <2>1, <3>2 DEF TakesRecord
      <3>5. m - 1 \in Nat /\ DOMAIN t = 1..m - 1
        BY <3>1, <3>3
      <3>6. \A n \in 1..m - 1 : records[n].at # p
        BY <1>7
      <3>7. \A n \in 1..m : n \in 1..m - 1 \/ n = m
        OBVIOUS
      <3>8. records[m].at = p
        BY <1>6, <2>1
      <3> QED
        BY <3>3, <3>4, <3>5, <3>6, <3>7, <3>8
    <2>2. CASE ~Closes
      <3>1. records' = records
        BY <2>2 DEF TakesRecord
      <3>2. \A n \in 1..m : records[n].at # p
        BY <1>6, <1>7, <2>2
      <3> QED
        BY <1>2, <3>1, <3>2
    <2> QED
      BY <2>1, <2>2
  <1>11. \A a \in 1..p - 1 : doc'[opened'[a]] = doc[opened[a]] /\ RecordAt(a)' = RecordAt(a)
    <2> SUFFICES ASSUME NEW a \in 1..p - 1
                 PROVE  doc'[opened'[a]] = doc[opened[a]] /\ RecordAt(a)' = RecordAt(a)
      OBVIOUS
    <2>1. opened'[a] = opened[a] /\ a \in DOMAIN opened
      BY <1>3
    <2>2. doc'[opened[a]] = doc[opened[a]]
      BY <2>1 DEF XmlInv, Grows
    <2> QED
      BY <2>1, <2>2, RecordAfter
  <1>12. \A n \in DOMAIN records' : \E a \in DOMAIN opened' :
            records'[n].at = a /\ records'[n] = RecordAt(a)' /\ doc'[opened'[a]].name \in RecordNames
    <2> SUFFICES ASSUME NEW n \in 1..k
                 PROVE  \E a \in 1..p - 1 :
                            /\ records'[n].at = a /\ records'[n] = RecordAt(a)'
                            /\ doc'[opened'[a]].name \in RecordNames
      BY <1>3, <1>10
    <2>1. n \in 1..m /\ records'[n] = records[n] /\ records[n].at # p
      BY <1>10
    <2>2. PICK a \in 1..p : /\ records[n].at = a /\ records[n] = RecordAt(a)
                            /\ doc[opened[a]].name \in RecordNames
      BY <1>4, <2>1
    <2>3. a \in 1..p - 1
      BY <2>1, <2>2
    <2> QED
      BY <1>11, <2>1, <2>2, <2>3
  <1>13. \A n, l \in DOMAIN records' : n < l => records'[n].at < records'[l].at
    <2> SUFFICES ASSUME NEW n \in 1..k, NEW l \in 1..k, n < l
                 PROVE  records'[n].at < records'[l].at
      BY <1>10
    <2>1. n \in 1..m /\ l \in 1..m
      BY <1>10
    <2> QED
      BY <1>5, <1>10, <2>1
  <1>14. \A a \in DOMAIN opened' : doc'[opened'[a]].name \in RecordNames =>
            \E n \in DOMAIN records' : records'[n].at = a
    <2> SUFFICES ASSUME NEW a \in 1..p - 1, doc'[opened'[a]].name \in RecordNames
                 PROVE  \E n \in 1..k : records'[n].at = a
      BY <1>3, <1>10
    <2>1. a \in 1..p /\ a # p
      OBVIOUS
    <2>2. PICK n \in 1..m : records[n].at = a
      BY <1>5, <1>11, <2>1
    <2>3. n \in 1..k
      BY <1>10, <2>1, <2>2
    <2> QED
      BY <1>10, <2>2, <2>3
  <1>15. level' = Len(opened') /\ \E U : records' \in Seq(U)
    BY <1>3, <1>10 DEF TakesRecord
  <1>16. RecordsInv'
    BY <1>12, <1>13, <1>14, <1>15 DEF RecordsInv
  <1> QED
    BY <1>3, <1>8, <1>9, <1>16

\* The record elements that are closed.
Ended == {i \in Places({"start", "empty"}, RecordNames) : Closed(i)}

\* Every record found is one of them, with what it says of itself, and none twice.
Reports(b) ==
    /\ b \in [DOMAIN found -> Ended]
    /\ \A k, l \in DOMAIN found : b[k] = b[l] => k = l
    /\ \A i \in Ended : \E n \in DOMAIN found : b[n] = i
    /\ \A n \in DOMAIN found : /\ found[n].algorithm = Declared(b[n], "EncryptionMethod", "Algorithm")
                               /\ found[n].uri = Declared(b[n], "CipherReference", "URI")

\* The records found are those of the record elements that are closed.
FoundInv == (\E S : found \in Seq(S)) /\ \E b : Reports(b)

\* One record is added to those found.
AddsFound(record) == found' = Append(found, record)

\* Nothing more is said of what is closed.
LEMMA SaidStays ==
    ASSUME XmlInv, NEW tag, Grows(tag), NEW i \in Ended, NEW name, NEW attribute
    PROVE  Declared(i, name, attribute)' = Declared(i, name, attribute)
  <1>1. i \in Nat \ {0} /\ i \notin Range(opened)
    <2>1. i \in DOMAIN doc /\ i \notin Range(opened)
      BY DEF Ended, Places, Closed
    <2> QED
      BY <2>1 DEF XmlInv
  <1>2. Inmost(RecordNames) # i
    BY <1>1, InmostOpen
  <1> QED
    BY <1>2, DeclaredGrows DEF SaysMore

\* While no record element is closed the records found stay.
LEMMA FoundStays ==
    ASSUME XmlInv, NEW tag, Grows(tag), FoundInv, found' = found, Ended' = Ended
    PROVE  FoundInv'
  <1>1. PICK b : Reports(b)
    BY DEF FoundInv
  <1>2. \A n \in DOMAIN found : b[n] \in Ended
    BY <1>1 DEF Reports
  <1>3. \A n \in DOMAIN found :
           /\ Declared(b[n], "EncryptionMethod", "Algorithm")'
                = Declared(b[n], "EncryptionMethod", "Algorithm")
           /\ Declared(b[n], "CipherReference", "URI")' = Declared(b[n], "CipherReference", "URI")
    <2> SUFFICES ASSUME NEW n \in DOMAIN found, NEW i, i = b[n]
                 PROVE  /\ Declared(i, "EncryptionMethod", "Algorithm")'
                             = Declared(i, "EncryptionMethod", "Algorithm")
                        /\ Declared(i, "CipherReference", "URI")' = Declared(i, "CipherReference", "URI")
      OBVIOUS
    <2> QED
      BY <1>2, SaidStays
  <1>4. Reports(b)'
    BY <1>1, <1>3 DEF Reports
  <1> QED
    BY <1>4 DEF FoundInv

\* A record element that is closed is one more record found.
LEMMA FoundGrows ==
    ASSUME XmlInv, NEW tag, Grows(tag), FoundInv, NEW record, AddsFound(record),
           NEW i, i \notin Ended, Ended' = Ended \cup {i},
           record.algorithm = Declared(i, "EncryptionMethod", "Algorithm")',
           record.uri = Declared(i, "CipherReference", "URI")'
    PROVE  FoundInv'
  <1>1. PICK b : Reports(b)
    BY DEF FoundInv
  <1>2. PICK S : found \in Seq(S)
    BY DEF FoundInv
  <1>3. PICK m \in Nat : m = Len(found) /\ DOMAIN found = 1..m
    BY <1>2
  <1> DEFINE T == S \cup {record}
  <1>4. found \in Seq(T) /\ record \in T
    BY <1>2
  <1> HIDE DEF T
  <1>5. /\ found' \in Seq(T) /\ Len(found') = m + 1 /\ found'[m + 1] = record
        /\ \A n \in 1..m : found'[n] = found[n]
    BY <1>3, <1>4, Longer DEF AddsFound
  <1>6. DOMAIN found' = 1..m + 1
    BY <1>5
  <1>7. PICK c : c = [n \in 1..m + 1 |-> IF n = m + 1 THEN i ELSE b[n]]
    OBVIOUS
  <1>8. c[m + 1] = i /\ \A n \in 1..m : c[n] = b[n] /\ c[n] \in Ended /\ c[n] # i
    BY <1>1, <1>3, <1>7 DEF Reports
  <1>9. c \in [1..m + 1 -> Ended']
    BY <1>7, <1>8
  <1>10. \A k, l \in 1..m + 1 : c[k] = c[l] => k = l
    <2> SUFFICES ASSUME NEW k \in 1..m + 1, NEW l \in 1..m + 1, c[k] = c[l] PROVE k = l
      OBVIOUS
    <2>1. (k = m + 1 \/ k \in 1..m) /\ (l = m + 1 \/ l \in 1..m)
      OBVIOUS
    <2> QED
      BY <1>1, <1>3, <1>8, <2>1 DEF Reports
  <1>11. \A j \in Ended' : \E n \in 1..m + 1 : c[n] = j
    <2> SUFFICES ASSUME NEW j \in Ended' PROVE \E n \in 1..m + 1 : c[n] = j
      OBVIOUS
    <2>1. CASE j = i
      BY <1>8, <2>1
    <2>2. CASE j \in Ended
      <3>1. PICK n \in 1..m : b[n] = j
        BY <1>1, <1>3, <2>2 DEF Reports
      <3>2. n \in 1..m + 1
        OBVIOUS
      <3> QED
        BY <1>8, <3>1, <3>2
    <2> QED
      BY <2>1, <2>2
  <1>12. \A n \in 1..m + 1 :
            /\ found'[n].algorithm = Declared(c[n], "EncryptionMethod", "Algorithm")'
            /\ found'[n].uri = Declared(c[n], "CipherReference", "URI")'
    <2> SUFFICES ASSUME NEW n \in 1..m + 1, NEW j, j = c[n]
                 PROVE  /\ found'[n].algorithm = Declared(j, "EncryptionMethod", "Algorithm")'
                        /\ found'[n].uri = Declared(j, "CipherReference", "URI")'
      OBVIOUS
    <2>1. CASE n = m + 1
      BY <1>5, <1>8, <2>1
    <2>2. CASE n \in 1..m
      <3>1. j = b[n] /\ j \in Ended /\ found'[n] = found[n]
        BY <1>5, <1>8, <2>2
      <3>2. /\ found[n].algorithm = Declared(j, "EncryptionMethod", "Algorithm")
            /\ found[n].uri = Declared(j, "CipherReference", "URI")
        BY <1>1, <1>3, <2>2, <3>1 DEF Reports
      <3> QED
        BY <3>1, <3>2, SaidStays
    <2> QED
      BY <2>1, <2>2
  <1>13. Reports(c)'
    BY <1>6, <1>9, <1>10, <1>11, <1>12 DEF Reports
  <1> QED
    BY <1>5, <1>13 DEF FoundInv

\* The open elements after an event.
LEMMA RangeAfter ==
    ASSUME XmlInv, XmlInv', NEW tag, Grows(tag), Opens(tag), NEW n, n = Len(doc) + 1
    PROVE  /\ n \notin Range(opened)
           /\ tag.kind = "start" => Range(opened') = Range(opened) \cup {n}
           /\ tag.kind \notin {"start", "end"} => Range(opened') = Range(opened)
           /\ tag.kind = "end" /\ opened # <<>> /\ tag.name = doc[opened[Len(opened)]].name =>
                 /\ opened[Len(opened)] \in Range(opened)
                 /\ Range(opened') = Range(opened) \ {opened[Len(opened)]}
  <1>1. PICK p \in Nat : p = Len(opened) /\ DOMAIN opened = 1..p /\ DOMAIN opened' = 1..Len(opened')
    BY DEF XmlInv
  <1>2. n \notin Range(opened)
    BY DEF XmlInv, Range, Grows
  <1>3. CASE tag.kind = "start"
    <2>1. Len(opened') = p + 1 /\ opened'[p + 1] = n /\ \A k \in 1..p : opened'[k] = opened[k]
      BY <1>1, <1>3 DEF Opens
    <2>2. \A i : i \in Range(opened') <=> i \in Range(opened) \cup {n}
      <3> SUFFICES ASSUME NEW i PROVE i \in Range(opened') <=> i \in Range(opened) \cup {n}
        OBVIOUS
      <3>1. i \in Range(opened') <=> \E k \in 1..p + 1 : opened'[k] = i
        BY <1>1, <2>1 DEF Range
      <3>2. i \in Range(opened) <=> \E k \in 1..p : opened[k] = i
        BY <1>1 DEF Range
      <3>3. ASSUME NEW k \in 1..p + 1 PROVE k \in 1..p \/ k = p + 1
        OBVIOUS
      <3>4. p + 1 \in 1..p + 1 /\ \A k \in 1..p : k \in 1..p + 1
        OBVIOUS
      <3> QED
        BY <2>1, <3>1, <3>2, <3>3, <3>4
    <2> QED
      BY <1>2, <1>3, <2>2
  <1>4. CASE tag.kind \notin {"start", "end"}
    BY <1>2, <1>4 DEF Opens
  <1>5. CASE tag.kind = "end" /\ opened # <<>> /\ tag.name = doc[opened[Len(opened)]].name
    <2>1. Len(opened') = p - 1 /\ \A k \in 1..p - 1 : opened'[k] = opened[k]
      BY <1>1, <1>5 DEF Opens
    <2>2. p # 0
      BY <1>1, <1>5 DEF XmlInv
    <2>3. \A k \in 1..p - 1 : opened[k] # opened[p]
      <3> SUFFICES ASSUME NEW k \in 1..p - 1 PROVE opened[k] # opened[p]
        OBVIOUS
      <3>1. k \in 1..p /\ p \in 1..p /\ k < p
        BY <2>2
      <3>2. opened[k] < opened[p] /\ opened[k] \in Nat /\ opened[p] \in Nat
        <4>1. opened[k] \in DOMAIN doc /\ opened[p] \in DOMAIN doc /\ opened[k] < opened[p]
          BY <1>1, <3>1 DEF XmlInv
        <4>2. DOMAIN doc \subseteq Nat
          BY DEF XmlInv
        <4> QED
          BY <4>1, <4>2
      <3> QED
        BY <3>2
    <2>4. \A i : i \in Range(opened') <=> i \in Range(opened) \ {opened[p]}
      <3> SUFFICES ASSUME NEW i PROVE i \in Range(opened') <=> i \in Range(opened) \ {opened[p]}
        OBVIOUS
      <3>1. i \in Range(opened') <=> \E k \in 1..p - 1 : opened'[k] = i
        BY <1>1, <2>1 DEF Range
      <3>2. i \in Range(opened) <=> \E k \in 1..p : opened[k] = i
        BY <1>1 DEF Range
      <3>3. ASSUME NEW k \in 1..p PROVE k \in 1..p - 1 \/ k = p
        OBVIOUS
      <3>4. \A k \in 1..p - 1 : k \in 1..p
        OBVIOUS
      <3> QED
        BY <2>1, <2>3, <3>1, <3>2, <3>3, <3>4
    <2>5. opened[p] \in Range(opened)
      BY <1>1, <2>2 DEF Range
    <2> QED
      BY <1>1, <1>2, <1>5, <2>4, <2>5
  <1> QED
    BY <1>2, <1>3, <1>4, <1>5

\* The record elements closed after an event.
LEMMA EndedAfter ==
    ASSUME XmlInv, XmlInv', NEW tag, Grows(tag), Opens(tag), NEW n, n = Len(doc) + 1
    PROVE  /\ tag.kind = "start" => Ended' = Ended
           /\ /\ tag.kind \notin {"start", "end"}
              /\ tag.kind = "empty" => tag.name \notin RecordNames
              => Ended' = Ended
           /\ tag.kind = "empty" /\ tag.name \in RecordNames =>
                 n \notin Ended /\ Ended' = Ended \cup {n}
           /\ tag.kind = "end" /\ opened # <<>> /\ tag.name = doc[opened[Len(opened)]].name =>
                 \A i : i = opened[Len(opened)] =>
                     /\ i \notin Ended
                     /\ doc[i].name \notin RecordNames => Ended' = Ended
                     /\ doc[i].name \in RecordNames => Ended' = Ended \cup {i}
  <1> DEFINE places == Places({"start", "empty"}, RecordNames)
  <1>1. \A i : i \in Ended <=> i \in places /\ i \notin Range(opened)
    BY DEF Ended, Closed
  <1>2. \A i : i \in Ended' <=> i \in places' /\ i \notin Range(opened')
    BY DEF Ended, Closed
  <1>3. \A i : i \in places' <=>
           \/ i \in places
           \/ i = n /\ tag.kind \in {"start", "empty"} /\ tag.name \in RecordNames
    BY PlacesGrow DEF PlacesMore
  <1>4. n \notin places
    BY DEF Places, Grows
  <1>5. \A i \in Range(opened) : i \in places <=> doc[i].name \in RecordNames
    BY DEF Places, XmlInv, Range
  <1>6. Ended \subseteq places
    BY <1>1
  <1> HIDE DEF places
  <1>7. CASE tag.kind = "start"
    <2>1. Range(opened') = Range(opened) \cup {n}
      BY <1>7, RangeAfter
    <2>2. \A i : i \in Ended' <=> i \in Ended
      BY <1>1, <1>2, <1>3, <1>4, <2>1
    <2>3. Ended' = Ended
      BY <2>2
    <2> QED
      BY <1>7, <2>3
  <1>8. CASE tag.kind \notin {"start", "end"}
    <2>1. Range(opened') = Range(opened) /\ n \notin Range(opened)
      BY <1>8, RangeAfter
    <2>2. tag.kind # "empty" \/ tag.name \notin RecordNames => \A i : i \in Ended' <=> i \in Ended
      BY <1>1, <1>2, <1>3, <1>8, <2>1
    <2>3. tag.kind = "empty" /\ tag.name \in RecordNames => \A i : i \in Ended' <=> i \in Ended \cup {n}
      BY <1>1, <1>2, <1>3, <1>8, <2>1
    <2>4. /\ tag.kind # "empty" \/ tag.name \notin RecordNames => Ended' = Ended
          /\ tag.kind = "empty" /\ tag.name \in RecordNames => Ended' = Ended \cup {n}
      BY <2>2, <2>3
    <2> QED
      BY <1>4, <1>6, <1>8, <2>4
  <1>9. CASE tag.kind = "end" /\ opened # <<>> /\ tag.name = doc[opened[Len(opened)]].name
    <2>1. PICK j : j = opened[Len(opened)]
      OBVIOUS
    <2>2. j \in Range(opened) /\ Range(opened') = Range(opened) \ {j}
      BY <1>9, <2>1, RangeAfter
    <2>3. j \notin Ended /\ (j \in places <=> doc[j].name \in RecordNames)
      BY <1>1, <1>5, <2>2
    <2>4. \A i : i \in Ended' <=> i \in Ended \/ (i = j /\ j \in places)
      BY <1>1, <1>2, <1>3, <1>9, <2>2
    <2>5. /\ doc[j].name \notin RecordNames => Ended' = Ended
          /\ doc[j].name \in RecordNames => Ended' = Ended \cup {j}
      BY <2>3, <2>4
    <2> QED
      BY <1>9, <2>1, <2>3, <2>5
  <1> QED
    BY <1>7, <1>8, <1>9

\* An encryption document: every record is read.
RecordInv ==
    reader = "encryption" =>
        metaInf = "encryption" /\ XmlInv /\ RecordsInv /\ FoundInv

\* Reading is begun with no record.
LEMMA RecordStarts == Init => RecordInv
  <1> SUFFICES ASSUME Init, reader = "encryption"
               PROVE  metaInf = "encryption" /\ XmlInv /\ RecordsInv /\ FoundInv
    BY DEF RecordInv
  <1>1. XmlInv /\ metaInf = "encryption"
    BY XmlStarts DEF Init
  <1>2. /\ doc = <<>> /\ opened = <<>> /\ level = 0 /\ records = <<>> /\ found = <<>>
    BY DEF Init, XmlInit, ContainerInit
  <1>3. /\ records \in Seq({}) /\ DOMAIN records = {} /\ found \in Seq({}) /\ DOMAIN found = {}
        /\ DOMAIN doc = {} /\ DOMAIN opened = {} /\ Len(opened) = 0
    BY <1>2
  <1>4. RecordsInv
    BY <1>2, <1>3 DEF RecordsInv
  <1>5. Ended = {}
    BY <1>3 DEF Ended, Places
  <1>6. \E b : b \in [{} -> {}]
    <2>1. [n \in {} |-> n] \in [{} -> {}]
      OBVIOUS
    <2> QED
      BY <2>1
  <1>7. \E b : Reports(b)
    BY <1>3, <1>5, <1>6 DEF Reports
  <1> QED
    BY <1>1, <1>3, <1>4, <1>7 DEF FoundInv

\* Every event of an encryption document keeps its records read.
LEMMA RecordSteps == RecordInv /\ [Next]_readerVars => RecordInv'
  <1> SUFFICES ASSUME RecordInv, [Next]_readerVars, reader = "encryption"
               PROVE  metaInf' = "encryption" /\ XmlInv' /\ RecordsInv' /\ FoundInv'
    <2>1. [Next]_readerVars => reader' = reader
      BY DEF Next, readerVars
    <2> QED
      BY <2>1 DEF RecordInv
  <1>1. metaInf = "encryption" /\ XmlInv /\ RecordsInv /\ FoundInv
    BY DEF RecordInv
  <1>2. CASE UNCHANGED readerVars
    <2>1. UNCHANGED <<xmlVars, containerState>>
      BY <1>2 DEF readerVars
    <2>2. UNCHANGED <<doc, opened, metaInf, level, records, found>>
      BY <2>1 DEF xmlVars, containerState
    <2>3. \A i, names : Nearest(i, names)' = Nearest(i, names)
      BY <2>2 DEF Nearest, Enclosing
    <2>4. \A kinds, names : Places(kinds, names)' = Places(kinds, names)
      BY <2>2 DEF Places
    <2>5. \A i, name, attribute : Declared(i, name, attribute)' = Declared(i, name, attribute)
      BY <2>2, <2>3, <2>4 DEF Declared
    <2>6. \A a : RecordAt(a)' = RecordAt(a)
      <3> SUFFICES ASSUME NEW a, NEW i, i = opened[a] PROVE RecordAt(a)' = RecordAt(a)
        OBVIOUS
      <3> QED
        BY <2>2, <2>5 DEF RecordAt
    <2>7. Ended' = Ended
      BY <2>2, <2>4 DEF Ended, Closed
    <2>8. XmlInv'
      BY <1>1, <2>2 DEF XmlInv
    <2>9. RecordsInv'
      BY <1>1, <2>2, <2>6 DEF RecordsInv
    <2>10. \A b : Reports(b) => Reports(b)'
      <3> SUFFICES ASSUME NEW b, Reports(b) PROVE Reports(b)'
        OBVIOUS
      <3>1. \A n : /\ Declared(b[n], "EncryptionMethod", "Algorithm")'
                        = Declared(b[n], "EncryptionMethod", "Algorithm")
                   /\ Declared(b[n], "CipherReference", "URI")' = Declared(b[n], "CipherReference", "URI")
        <4> SUFFICES ASSUME NEW i
                     PROVE  /\ Declared(i, "EncryptionMethod", "Algorithm")'
                                 = Declared(i, "EncryptionMethod", "Algorithm")
                            /\ Declared(i, "CipherReference", "URI")'
                                 = Declared(i, "CipherReference", "URI")
          OBVIOUS
        <4> QED
          BY <2>5
      <3> QED
        BY <2>2, <2>7, <3>1 DEF Reports
    <2>11. FoundInv'
      BY <1>1, <2>2, <2>10 DEF FoundInv
    <2> QED
      BY <1>1, <2>2, <2>8, <2>9, <2>11
  <1>3. CASE Next
    <2>1. ContainerNext
      BY <1>3 DEF Next
    <2>2. ReadDoctype \/ StartRecord \/ EmptyRecord \/ (opened # <<>> /\ EndRecord(EndTag))
      BY <1>1, <2>1 DEF ContainerNext, StartRootfile, EndContainer
    <2>3. CASE ReadDoctype
      <3>1. PICK tag : tag.kind = "doctype" /\ Hand(tag)
        BY <2>3 DEF ReadDoctype
      <3>2. metaInf' = metaInf /\ level' = level /\ records' = records /\ found' = found
        BY <2>3 DEF ReadDoctype
      <3>3. XmlInv' /\ Grows(tag) /\ Opens(tag)
        BY <1>1, <3>1, Handed
      <3>4. RecordsInv'
        BY <1>1, <3>1, <3>2, <3>3, RecordsPassed
      <3>5. Ended' = Ended
        BY <1>1, <3>1, <3>3, EndedAfter
      <3>6. FoundInv'
        BY <1>1, <3>2, <3>3, <3>5, FoundStays
      <3> QED
        BY <1>1, <3>2, <3>3, <3>4, <3>6
    <2>4. CASE StartRecord
      <3>1. PICK tag : /\ tag.kind = "start" /\ Hand(tag) /\ level' = level + 1
                       /\ records' = IF tag.name \in RecordNames
                                     THEN Append(records, [Encrypted EXCEPT !.at = level + 1])
                                     ELSE Describe(tag)
        BY <2>4 DEF StartRecord
      <3>2. metaInf' = metaInf /\ found' = found
        BY <2>4 DEF StartRecord
      <3>3. XmlInv' /\ Grows(tag) /\ Opens(tag)
        BY <1>1, <3>1, Handed
      <3>4. RecordsInv'
        <4>1. CASE tag.name \in RecordNames
          <5>1. PICK record : record = [Encrypted EXCEPT !.at = level + 1]
            OBVIOUS
          <5>2. IsNew(record)
            BY <5>1 DEF IsNew, Encrypted
          <5>3. AddsRecord(record)
            BY <3>1, <4>1, <5>1 DEF AddsRecord
          <5> QED
            BY <1>1, <3>1, <3>3, <4>1, <5>2, <5>3, RecordsOpened
        <4>2. CASE tag.name \notin RecordNames
          <5>1. level' = Len(opened')
            BY <1>1, <3>1, <3>3 DEF RecordsInv, Opens
          <5>2. records' = Describe(tag)
            BY <3>1, <4>2
          <5> QED
            BY <1>1, <3>1, <3>3, <4>2, <5>1, <5>2, RecordsDescribed
        <4> QED
          BY <4>1, <4>2
      <3>5. Ended' = Ended
        BY <1>1, <3>1, <3>3, EndedAfter
      <3>6. FoundInv'
        BY <1>1, <3>2, <3>3, <3>5, FoundStays
      <3> QED
        BY <1>1, <3>2, <3>3, <3>4, <3>6
    <2>5. CASE EmptyRecord
      <3>1. PICK tag : /\ tag.kind = "empty" /\ Hand(tag)
                       /\ IF tag.name \in RecordNames
                          THEN found' = Append(found, Encrypted) /\ UNCHANGED records
                          ELSE records' = Describe(tag) /\ UNCHANGED found
        BY <2>5 DEF EmptyRecord
      <3>2. metaInf' = metaInf /\ level' = level
        BY <2>5 DEF EmptyRecord
      <3>3. XmlInv' /\ Grows(tag) /\ Opens(tag)
        BY <1>1, <3>1, Handed
      <3>4. CASE tag.name \in RecordNames
        <4>1. RecordsInv'
          BY <1>1, <3>1, <3>2, <3>3, <3>4, RecordsPassed
        <4>2. PICK n \in Nat \ {0} : n = Len(doc) + 1 /\ n \notin DOMAIN doc
          BY <3>3 DEF Grows
        <4>3. n \notin Ended /\ Ended' = Ended \cup {n}
          BY <1>1, <3>1, <3>3, <3>4, <4>2, EndedAfter
        <4>4. PICK record : record = Encrypted
          OBVIOUS
        <4>5. record.algorithm = "" /\ record.uri = "" /\ AddsFound(record)
          BY <3>1, <3>4, <4>4 DEF Encrypted, AddsFound
        <4>6. \A name, attribute : Declared(n, name, attribute) = "" /\ Inmost(RecordNames) # n
          BY <1>1, <4>2, NothingSaid
        <4>7. \A name, attribute : SaysMore(tag, n, name, attribute)
          BY <1>1, <3>3, DeclaredGrows
        <4>8. /\ Declared(n, "EncryptionMethod", "Algorithm")' = ""
              /\ Declared(n, "CipherReference", "URI")' = ""
          BY <4>6, <4>7 DEF SaysMore
        <4>9. FoundInv'
          BY <1>1, <3>3, <4>3, <4>5, <4>8, FoundGrows
        <4> QED
          BY <1>1, <3>2, <3>3, <4>1, <4>9
      <3>5. CASE tag.name \notin RecordNames
        <4>1. level' = Len(opened')
          BY <1>1, <3>1, <3>2, <3>3 DEF RecordsInv, Opens
        <4>2. records' = Describe(tag) /\ found' = found
          BY <3>1, <3>5
        <4>3. RecordsInv'
          BY <1>1, <3>1, <3>3, <3>5, <4>1, <4>2, RecordsDescribed
        <4>4. Ended' = Ended
          BY <1>1, <3>1, <3>3, <3>5, EndedAfter
        <4>5. FoundInv'
          BY <1>1, <3>3, <4>2, <4>4, FoundStays
        <4> QED
          BY <1>1, <3>2, <3>3, <4>3, <4>5
      <3> QED
        BY <3>4, <3>5
    <2>6. CASE opened # <<>> /\ EndRecord(EndTag)
      <3>1. PICK tag : tag = EndTag
        OBVIOUS
      <3>2. /\ Hand(tag) /\ metaInf' = metaInf
            /\ found' = IF Closes THEN Append(found, Last(records)) ELSE found
            /\ records' = IF Closes THEN Front(records) ELSE records
            /\ level' = IF level = 0 THEN 0 ELSE level - 1
        BY <2>6, <3>1 DEF EndRecord, Closes
      <3>3. XmlInv' /\ Grows(tag) /\ Opens(tag)
        BY <1>1, <3>2, Handed
      <3>4. PICK i : i = opened[Len(opened)]
        OBVIOUS
      <3>5. tag.kind = "end" /\ tag.name = doc[i].name /\ opened # <<>>
        BY <2>6, <3>1, <3>4 DEF EndTag, Tag, Last
      <3>6. PICK p \in Nat \ {0} : p = Len(opened) /\ p = level
        BY <1>1, <3>5 DEF XmlInv, RecordsInv
      <3>7. TakesRecord
        BY <3>2, <3>6 DEF TakesRecord
      <3>8. /\ RecordsInv'
            /\ Closes <=> doc[i].name \in RecordNames
            /\ Closes => Last(records) = RecordAt(Len(opened))
        BY <1>1, <3>3, <3>4, <3>5, <3>7, RecordsClosed
      <3>9. /\ i \notin Ended
            /\ ~Closes => Ended' = Ended
            /\ Closes => Ended' = Ended \cup {i}
        BY <1>1, <3>3, <3>4, <3>5, <3>8, EndedAfter
      <3>10. FoundInv'
        <4>1. CASE ~Closes
          BY <1>1, <3>2, <3>3, <3>9, <4>1, FoundStays
        <4>2. CASE Closes
          <5>1. PICK record : record = Last(records)
            OBVIOUS
          <5>2. AddsFound(record)
            BY <3>2, <4>2, <5>1 DEF AddsFound
          <5>3. record = RecordAt(p)
            BY <3>6, <3>8, <4>2, <5>1
          <5>4. /\ record.algorithm = Declared(i, "EncryptionMethod", "Algorithm")
                /\ record.uri = Declared(i, "CipherReference", "URI")
            BY <3>4, <3>6, <5>3 DEF RecordAt
          <5>5. \A name, attribute : SaysMore(tag, i, name, attribute)
            BY <1>1, <3>3, DeclaredGrows
          <5>6. /\ record.algorithm = Declared(i, "EncryptionMethod", "Algorithm")'
                /\ record.uri = Declared(i, "CipherReference", "URI")'
            BY <3>5, <5>4, <5>5 DEF SaysMore
          <5> QED
            BY <1>1, <3>3, <3>9, <4>2, <5>2, <5>6, FoundGrows
        <4> QED
          BY <4>1, <4>2
      <3> QED
        BY <1>1, <3>2, <3>3, <3>8, <3>10
    <2> QED
      BY <2>2, <2>3, <2>4, <2>5, <2>6
  <1> QED
    BY <1>2, <1>3

\* What a record element says, and what the record found of it says.
SaidOf(i) == [algorithm |-> Declared(i, "EncryptionMethod", "Algorithm"),
              uri |-> Declared(i, "CipherReference", "URI")]
ReportedOf(n) == [algorithm |-> found[n].algorithm, uri |-> found[n].uri]

\* As many of two sets as one is another, name for name.
LEMMA SameNumber ==
    ASSUME NEW m \in Nat, NEW X \in SUBSET (1..m), NEW Y, NEW b \in [X -> Y],
           \A k, l \in X : b[k] = b[l] => k = l, \A y \in Y : \E x \in X : b[x] = y
    PROVE  Cardinality(Y) = Cardinality(X)
  <1>1. IsFiniteSet(1..m)
    BY FS_Interval
  <1>2. IsFiniteSet(X)
    BY <1>1, FS_Subset
  <1>3. b \in Injection(X, Y)
    BY DEF Injection, IsInjective
  <1>4. b \in Surjection(X, Y)
    BY DEF Surjection
  <1>5. ExistsBijection(X, Y)
    BY <1>3, <1>4 DEF Bijection, ExistsBijection
  <1> QED
    BY <1>2, <1>5, FS_Bijection

\* The records found are all there is to be reported.
LEMMA RecordsReported == FoundInv => EveryRecordIsReported
  <1> SUFFICES ASSUME FoundInv PROVE EveryRecordIsReported
    OBVIOUS
  <1>1. PICK b : Reports(b)
    BY DEF FoundInv
  <1>2. PICK S : found \in Seq(S)
    BY DEF FoundInv
  <1>3. PICK m \in Nat : m = Len(found) /\ DOMAIN found = 1..m
    BY <1>2
  <1>4. /\ b \in [1..m -> Ended]
        /\ \A k, l \in 1..m : b[k] = b[l] => k = l
        /\ \A i \in Ended : \E n \in 1..m : b[n] = i
    BY <1>1, <1>3 DEF Reports
  <1>5. \A n \in 1..m : /\ found[n].algorithm = Declared(b[n], "EncryptionMethod", "Algorithm")
                        /\ ReportedOf(n) = SaidOf(b[n])
    <2> SUFFICES ASSUME NEW n \in 1..m
                 PROVE  /\ found[n].algorithm = Declared(b[n], "EncryptionMethod", "Algorithm")
                        /\ ReportedOf(n) = SaidOf(b[n])
      OBVIOUS
    <2>1. /\ found[n].algorithm = Declared(b[n], "EncryptionMethod", "Algorithm")
          /\ found[n].uri = Declared(b[n], "CipherReference", "URI")
      BY <1>1, <1>3 DEF Reports
    <2> QED
      BY <2>1 DEF ReportedOf, SaidOf
  <1>6. Len(found) = Cardinality(Ended)
    <2>1. Cardinality(Ended) = Cardinality(1..m)
      BY <1>4, SameNumber
    <2>2. Cardinality(1..m) = m
      BY FS_Interval
    <2> QED
      BY <1>3, <2>1, <2>2
  <1>7. ASSUME NEW i \in Ended
        PROVE  Cardinality({j \in Ended : SaidOf(j) = SaidOf(i)})
                 = Cardinality({n \in DOMAIN found : ReportedOf(n) = SaidOf(i)})
    <2> DEFINE Y == {j \in Ended : SaidOf(j) = SaidOf(i)}
               X == {n \in 1..m : ReportedOf(n) = SaidOf(i)}
               c == [n \in X |-> b[n]]
    <2>1. c \in [X -> Y]
      BY <1>4, <1>5
    <2>2. \A k, l \in X : c[k] = c[l] => k = l
      BY <1>4
    <2>3. \A y \in Y : \E x \in X : c[x] = y
      <3> SUFFICES ASSUME NEW y \in Y PROVE \E x \in X : c[x] = y
        OBVIOUS
      <3>1. PICK n \in 1..m : b[n] = y
        BY <1>4
      <3>2. n \in X
        BY <1>5, <3>1
      <3> QED
        BY <3>1, <3>2
    <2>4. X \in SUBSET (1..m)
      OBVIOUS
    <2>5. Cardinality(Y) = Cardinality(X)
      <3> HIDE DEF X, Y, c
      <3> QED
        BY <2>1, <2>2, <2>3, <2>4, SameNumber
    <2> QED
      BY <1>3, <2>5
  <1>8. (\A n \in DOMAIN found : IsObfuscation(found[n]))
          <=> (\A i \in Ended : SaidOf(i).algorithm \in Obfuscations)
    <2>1. \A n \in 1..m : IsObfuscation(found[n]) <=> SaidOf(b[n]).algorithm \in Obfuscations
      BY <1>5 DEF IsObfuscation, SaidOf
    <2> QED
      BY <1>3, <1>4, <2>1
  <1> QED
    BY <1>6, <1>7, <1>8 DEF EveryRecordIsReported, Ended, SaidOf, ReportedOf

-----------------------------------------------------------------------------
(* The package document that is chosen.                                    *)

\* The rootfiles of the package media type, and the path of the first of some.
TypedRootfiles == {i \in Rootfiles : Attribute(doc[i], "media-type", "") = PackageType}
PathOf(S) == Attribute(doc[Smallest(S)], "full-path", "")

\* While no rootfile is of the package media type the first of all is kept;
\* one that is ends the reading, and so does an entity.
RootInv ==
    reader = "container" =>
        /\ metaInf = "container" /\ XmlInv
        /\ refusal # "" <=> DeclaresEntity
        /\ refusal # "" => rootfile = <<>>
        /\ rootfile = <<>> =>
              TypedRootfiles = {} /\ first = IF Rootfiles = {} THEN <<>> ELSE <<PathOf(Rootfiles)>>
        /\ rootfile # <<>> =>
              TypedRootfiles # {} /\ rootfile = <<PathOf(TypedRootfiles)>>

\* It is the rootfile that is meant.
LEMMA RootChosen == RootInv /\ reader = "container" => RootfileIsChosen
  <1> SUFFICES ASSUME RootInv, reader = "container" PROVE RootfileIsChosen
    OBVIOUS
  <1>1. TypedRootfiles \subseteq Rootfiles
    BY DEF TypedRootfiles
  <1>2. Rootfile = IF DeclaresEntity \/ Rootfiles = {} THEN <<>>
                   ELSE <<PathOf(IF TypedRootfiles # {} THEN TypedRootfiles ELSE Rootfiles)>>
    BY <1>1 DEF RootInv, Rootfile
  <1> QED
    BY <1>2 DEF RootfileIsChosen, TypedRootfiles, PathOf

\* A tag that is a rootfile.
NamesRootfile(tag) ==
    /\ tag.kind \in {"start", "empty"} /\ tag.name = "rootfile"
    /\ Attribute(tag, "full-path", "") # ""

\* An event that no rootfile is leaves them, and one that is comes after them.
LEMMA RootfilesAfter ==
    ASSUME XmlInv, NEW tag, Grows(tag), NEW n, n = Len(doc) + 1
    PROVE  /\ n \in Nat /\ \A i \in Rootfiles : i \in 1..Len(doc) /\ i < n /\ doc'[i] = doc[i]
           /\ doc'[n].attrs = tag.attrs
           /\ \A i : i \in Rootfiles' <=> i \in Rootfiles \/ (i = n /\ NamesRootfile(tag))
           /\ \A i : i \in TypedRootfiles' <=>
                 \/ i \in TypedRootfiles
                 \/ /\ i = n /\ NamesRootfile(tag)
                    /\ Attribute(tag, "media-type", "") = PackageType
  <1> DEFINE places == Places({"start", "empty"}, {"rootfile"})
             is == tag.kind \in {"start", "empty"} /\ tag.name = "rootfile"
  <1>1. /\ Len(doc) \in Nat /\ DOMAIN doc = 1..Len(doc) /\ \A i \in 1..Len(doc) : doc'[i] = doc[i]
        /\ doc'[n].attrs = tag.attrs
    BY DEF Grows, Event
  <1>2. \A i \in places : i \in 1..Len(doc) /\ i < n /\ doc'[i] = doc[i]
    BY <1>1 DEF Places
  <1>3. \A i : i \in places' <=> i \in places \/ (i = n /\ is)
    BY PlacesGrow DEF PlacesMore
  <1>4. \A i : i \in Rootfiles <=> i \in places /\ Attribute(doc[i], "full-path", "") # ""
    BY DEF Rootfiles
  <1>5. \A i : i \in Rootfiles' <=> i \in places' /\ Attribute(doc'[i], "full-path", "") # ""
    BY DEF Rootfiles, Attribute
  <1>6. \A name : Attribute(doc'[n], name, "") = Attribute(tag, name, "")
    BY <1>1 DEF Attribute
  <1>7. n \notin places
    BY <1>2
  <1> HIDE DEF places, is
  <1>8. \A i : i \in Rootfiles' <=>
           i \in Rootfiles \/ (i = n /\ is /\ Attribute(tag, "full-path", "") # "")
    BY <1>2, <1>3, <1>4, <1>5, <1>6, <1>7
  <1>9. \A i \in Rootfiles : i \in 1..Len(doc) /\ i < n /\ doc'[i] = doc[i]
    BY <1>2, <1>4
  <1>10. n \notin Rootfiles
    BY <1>4, <1>7
  <1>11. \A i : i \in TypedRootfiles' <=>
            i \in Rootfiles' /\ Attribute(doc'[i], "media-type", "") = PackageType
    BY DEF TypedRootfiles, Attribute
  <1>12. \A i : i \in TypedRootfiles <=>
            i \in Rootfiles /\ Attribute(doc[i], "media-type", "") = PackageType
    BY DEF TypedRootfiles
  <1>13. \A i : i \in TypedRootfiles' <=>
            \/ i \in TypedRootfiles
            \/ /\ i = n /\ is /\ Attribute(tag, "full-path", "") # ""
               /\ Attribute(tag, "media-type", "") = PackageType
    BY <1>6, <1>8, <1>9, <1>10, <1>11, <1>12
  <1>14. NamesRootfile(tag) <=> is /\ Attribute(tag, "full-path", "") # ""
    BY DEF NamesRootfile, is
  <1>15. n \in Nat
    BY <1>1
  <1>16. \A i : i \in Rootfiles' <=> i \in Rootfiles \/ (i = n /\ NamesRootfile(tag))
    BY <1>8, <1>14
  <1>17. \A i : i \in TypedRootfiles' <=>
            \/ i \in TypedRootfiles
            \/ /\ i = n /\ NamesRootfile(tag)
               /\ Attribute(tag, "media-type", "") = PackageType
    BY <1>13, <1>14
  <1> QED
    BY <1>1, <1>9, <1>15, <1>16, <1>17

\* The path of the first rootfile is not changed by the ones after it.
LEMMA PathStays ==
    ASSUME XmlInv, NEW tag, Grows(tag)
    PROVE  /\ Rootfiles' = Rootfiles /\ Rootfiles # {} => PathOf(Rootfiles)' = PathOf(Rootfiles)
           /\ Rootfiles' = Rootfiles \cup {Len(doc) + 1} =>
                 PathOf(Rootfiles)' = IF Rootfiles = {} THEN Attribute(tag, "full-path", "")
                                      ELSE PathOf(Rootfiles)
           /\ TypedRootfiles' = {Len(doc) + 1} =>
                 PathOf(TypedRootfiles)' = Attribute(tag, "full-path", "")
  <1>1. PICK n : n = Len(doc) + 1
    OBVIOUS
  <1>2. /\ n \in Nat /\ \A i \in Rootfiles : i \in 1..Len(doc) /\ i < n /\ doc'[i] = doc[i]
        /\ doc'[n].attrs = tag.attrs
    BY <1>1, RootfilesAfter
  <1>3. Attribute(doc'[n], "full-path", "") = Attribute(tag, "full-path", "")
    BY <1>2 DEF Attribute
  <1>4. /\ PathOf(Rootfiles)' = Attribute(doc'[Smallest(Rootfiles')], "full-path", "")
        /\ PathOf(TypedRootfiles)' = Attribute(doc'[Smallest(TypedRootfiles')], "full-path", "")
    BY DEF PathOf, Attribute
  <1>5. Rootfiles \in SUBSET Nat
    BY <1>2
  <1>6. ASSUME Rootfiles # {}
        PROVE  /\ Smallest(Rootfiles) \in Rootfiles
               /\ \A i \in Rootfiles : Smallest(Rootfiles) <= i
    BY <1>5, <1>6, SmallestExists
  <1>7. ASSUME Rootfiles # {} PROVE doc'[Smallest(Rootfiles)] = doc[Smallest(Rootfiles)]
    BY <1>2, <1>6, <1>7
  <1>8. ASSUME Rootfiles' = Rootfiles, Rootfiles # {} PROVE PathOf(Rootfiles)' = PathOf(Rootfiles)
    BY <1>4, <1>7, <1>8 DEF PathOf
  <1>9. ASSUME Rootfiles' = Rootfiles \cup {n}
        PROVE  PathOf(Rootfiles)' = IF Rootfiles = {} THEN Attribute(tag, "full-path", "")
                                    ELSE PathOf(Rootfiles)
    <2>1. CASE Rootfiles = {}
      <3>1. Smallest(Rootfiles') = n
        <4>1. Rootfiles' = {n}
          BY <1>9, <2>1
        <4> QED
          BY <1>2, <4>1, SmallestIs
      <3> QED
        BY <1>3, <1>4, <2>1, <3>1
    <2>2. CASE Rootfiles # {}
      <3>1. PICK x \in Nat : x = Smallest(Rootfiles) /\ x \in Rootfiles
        BY <1>5, <1>6, <2>2
      <3>2. Rootfiles' \in SUBSET Nat /\ x \in Rootfiles'
        BY <1>2, <1>5, <1>9, <3>1
      <3>3. \A i \in Rootfiles' : x <= i
        <4> SUFFICES ASSUME NEW i \in Rootfiles' PROVE x <= i
          OBVIOUS
        <4>1. i \in Rootfiles \/ i = n
          BY <1>9
        <4>2. i \in Rootfiles => x <= i
          BY <1>6, <2>2, <3>1
        <4>3. x <= n
          BY <1>2, <3>1
        <4> QED
          BY <4>1, <4>2, <4>3
      <3>4. Smallest(Rootfiles') = x
        BY <3>2, <3>3, SmallestIs
      <3> QED
        BY <1>4, <1>7, <2>2, <3>1, <3>4 DEF PathOf
    <2> QED
      BY <2>1, <2>2
  <1>10. ASSUME TypedRootfiles' = {n}
         PROVE  PathOf(TypedRootfiles)' = Attribute(tag, "full-path", "")
    <2>1. Smallest(TypedRootfiles') = n
      BY <1>2, <1>10, SmallestIs
    <2> QED
      BY <1>3, <1>4, <2>1
  <1> QED
    BY <1>1, <1>8, <1>9, <1>10

\* Only a document type declares an entity.
LEMMA EntityTags ==
    ASSUME NEW tag \in ContainerTags \cup EncryptionTags
    PROVE  /\ Attribute(tag, "entity", FALSE) \in BOOLEAN
           /\ tag.kind # "doctype" => Attribute(tag, "entity", FALSE) = FALSE
  BY ContainerAssumption DEF Attribute

\* An entity is declared when it was before, or when the event read declares it.
LEMMA EntityAfter ==
    ASSUME NEW tag, Grows(tag), Attribute(tag, "entity", FALSE) \in BOOLEAN
    PROVE  DeclaresEntity' <=> DeclaresEntity \/ Attribute(tag, "entity", FALSE) = TRUE
  <1>1. PICK m \in Nat : m = Len(doc)
    BY DEF Grows
  <1>2. /\ DOMAIN doc = 1..m /\ DOMAIN doc' = 1..m + 1 /\ \A i \in 1..m : doc'[i] = doc[i]
        /\ doc'[m + 1].attrs = tag.attrs
    BY <1>1 DEF Grows, Event
  <1>3. Attribute(doc'[m + 1], "entity", FALSE) = Attribute(tag, "entity", FALSE)
    BY <1>2 DEF Attribute
  <1>4. \A i : i \in 1..m + 1 <=> i \in 1..m \/ i = m + 1
    OBVIOUS
  <1>5. DeclaresEntity <=> \E i \in 1..m : Attribute(doc[i], "entity", FALSE)
    BY <1>2 DEF DeclaresEntity
  <1>6. DeclaresEntity' <=> \E i \in 1..m + 1 : Attribute(doc'[i], "entity", FALSE)
    BY <1>2 DEF DeclaresEntity, Attribute
  <1> QED
    BY <1>2, <1>3, <1>4, <1>5, <1>6, Zenon

\* What is returned of the rootfiles so far, and what a document begins with.
LEMMA RootStarts == Init => RootInv
  <1> SUFFICES ASSUME Init, reader = "container" PROVE RootInv
    BY DEF RootInv
  <1>1. XmlInv /\ metaInf = "container" /\ refusal = "" /\ rootfile = <<>> /\ first = <<>>
    BY XmlStarts DEF Init, ContainerInit
  <1>2. DOMAIN doc = {}
    BY DEF Init, XmlInit
  <1>3. Rootfiles = {} /\ TypedRootfiles = {} /\ ~DeclaresEntity
    BY <1>2 DEF Rootfiles, TypedRootfiles, Places, DeclaresEntity
  <1> QED
    BY <1>1, <1>3 DEF RootInv

\* Every event of a container document keeps what is returned of it.
LEMMA RootSteps == RootInv /\ [Next]_readerVars => RootInv'
  <1> SUFFICES ASSUME RootInv, [Next]_readerVars, reader = "container" PROVE RootInv'
    <2>1. [Next]_readerVars => reader' = reader
      BY DEF Next, readerVars
    <2> QED
      BY <2>1 DEF RootInv
  <1>1. /\ metaInf = "container" /\ XmlInv
        /\ refusal # "" <=> DeclaresEntity
        /\ refusal # "" => rootfile = <<>>
        /\ rootfile = <<>> =>
              TypedRootfiles = {} /\ first = IF Rootfiles = {} THEN <<>> ELSE <<PathOf(Rootfiles)>>
    BY DEF RootInv
  <1>2. CASE UNCHANGED readerVars
    <2>1. UNCHANGED <<reader, doc, opened, metaInf, refusal, rootfile, first>>
      BY <1>2 DEF readerVars, xmlVars, containerState
    <2>2. XmlInv'
      BY <1>1, <2>1 DEF XmlInv
    <2>3. /\ Rootfiles' = Rootfiles /\ TypedRootfiles' = TypedRootfiles
          /\ DeclaresEntity' = DeclaresEntity
          /\ PathOf(Rootfiles)' = PathOf(Rootfiles)
          /\ PathOf(TypedRootfiles)' = PathOf(TypedRootfiles)
      BY <2>1 DEF Rootfiles, TypedRootfiles, Places, DeclaresEntity, PathOf, Attribute
    <2> QED
      BY <2>1, <2>2, <2>3 DEF RootInv
  <1>3. CASE Next
    <2>1. ContainerNext /\ reader' = reader
      BY <1>3 DEF Next
    <2>2. ReadDoctype \/ StartRootfile \/ (opened # <<>> /\ EndContainer(EndTag))
      BY <1>1, <2>1 DEF ContainerNext, StartRecord, EmptyRecord, EndRecord
    <2>3. refusal = "" /\ rootfile = <<>>
      BY <2>2 DEF ReadDoctype, StartRootfile, EndContainer, ContainerReading
    <2>4. ~DeclaresEntity /\ TypedRootfiles = {}
          /\ first = IF Rootfiles = {} THEN <<>> ELSE <<PathOf(Rootfiles)>>
      BY <1>1, <2>3
    <2>5. CASE ReadDoctype \/ (opened # <<>> /\ EndContainer(EndTag))
      <3>1. PICK tag : /\ tag.kind \in {"doctype", "end"} /\ Hand(tag)
                       /\ Attribute(tag, "entity", FALSE) \in BOOLEAN
                       /\ refusal' # "" <=> Attribute(tag, "entity", FALSE) = TRUE
        <4>1. CASE ReadDoctype
          <5>1. PICK tag \in ContainerTags \cup EncryptionTags :
                    tag.kind = "doctype" /\ Hand(tag) /\ refusal' = CheckDoctype(tag)
            BY <4>1 DEF ReadDoctype
          <5>2. Attribute(tag, "entity", FALSE) \in BOOLEAN
            BY EntityTags
          <5>3. CASE Attribute(tag, "entity", FALSE) = TRUE
            BY <5>1, <5>2, <5>3 DEF CheckDoctype
          <5>4. CASE Attribute(tag, "entity", FALSE) = FALSE
            BY <2>3, <5>1, <5>2, <5>4 DEF CheckDoctype
          <5> QED
            BY <5>1, <5>2, <5>3, <5>4
        <4>2. CASE EndContainer(EndTag)
          <5>1. PICK tag : tag = EndTag
            OBVIOUS
          <5>2. tag.kind = "end" /\ Hand(tag) /\ refusal' = refusal
            BY <4>2, <5>1 DEF EndContainer, containerState, EndTag, Tag
          <5>3. Attribute(tag, "entity", FALSE) = FALSE
            BY <5>1 DEF EndTag, Tag, NoAttrs, Attribute
          <5> QED
            BY <2>3, <5>2, <5>3
        <4> QED
          BY <2>5, <4>1, <4>2
      <3>2. metaInf' = metaInf /\ rootfile' = rootfile /\ first' = first
        BY <2>5 DEF ReadDoctype, EndContainer, containerState
      <3>3. XmlInv' /\ Grows(tag)
        BY <1>1, <3>1, Handed
      <3>4. ~NamesRootfile(tag)
        BY <3>1 DEF NamesRootfile
      <3>5. /\ \A i : i \in Rootfiles' <=> i \in Rootfiles
            /\ \A i : i \in TypedRootfiles' <=> i \in TypedRootfiles
        BY <1>1, <3>3, <3>4, RootfilesAfter
      <3>6. Rootfiles' = Rootfiles /\ TypedRootfiles' = TypedRootfiles
        BY <3>5
      <3>7. Rootfiles # {} => PathOf(Rootfiles)' = PathOf(Rootfiles)
        BY <1>1, <3>3, <3>6, PathStays
      <3>8. refusal' # "" <=> DeclaresEntity'
        BY <2>4, <3>1, <3>3, EntityAfter
      <3> QED
        BY <1>1, <2>1, <2>3, <2>4, <3>2, <3>3, <3>6, <3>7, <3>8 DEF RootInv
    <2>6. CASE StartRootfile
      <3>1. PICK tag \in ContainerTags :
                /\ tag.kind \in {"start", "empty"} /\ Hand(tag)
                /\ rootfile' = IF /\ tag.name = "rootfile" /\ Attribute(tag, "full-path", "") # ""
                                  /\ Attribute(tag, "media-type", "") = PackageType
                               THEN <<Attribute(tag, "full-path", "")>> ELSE rootfile
                /\ first' = IF /\ tag.name = "rootfile" /\ Attribute(tag, "full-path", "") # ""
                               /\ Attribute(tag, "media-type", "") # PackageType
                            THEN OrFirst(Attribute(tag, "full-path", "")) ELSE first
        BY <2>6 DEF StartRootfile
      <3>2. metaInf' = metaInf /\ refusal' = refusal
        BY <2>6 DEF StartRootfile
      <3>3. XmlInv' /\ Grows(tag)
        BY <1>1, <3>1, Handed
      <3>4. Attribute(tag, "entity", FALSE) = FALSE
        BY <3>1, EntityTags
      <3>5. ~DeclaresEntity'
        BY <2>4, <3>3, <3>4, EntityAfter
      <3>6. PICK n, path : n = Len(doc) + 1 /\ path = Attribute(tag, "full-path", "")
        OBVIOUS
      <3> DEFINE typed == NamesRootfile(tag) /\ Attribute(tag, "media-type", "") = PackageType
      <3>7. /\ \A i : i \in Rootfiles' <=> i \in Rootfiles \/ (i = n /\ NamesRootfile(tag))
            /\ \A i : i \in TypedRootfiles' <=> i \in TypedRootfiles \/ (i = n /\ typed)
        BY <1>1, <3>3, <3>6, RootfilesAfter
      <3>8. /\ rootfile' = IF typed THEN <<path>> ELSE <<>>
            /\ first' = IF NamesRootfile(tag) /\ ~typed /\ first = <<>> THEN <<path>> ELSE first
        BY <2>3, <3>1, <3>6 DEF NamesRootfile, OrFirst
      <3> HIDE DEF typed
      <3>9. CASE typed
        <4>1. TypedRootfiles' = {n}
          BY <2>4, <3>7, <3>9
        <4>2. PathOf(TypedRootfiles)' = path
          BY <1>1, <3>3, <3>6, <4>1, PathStays
        <4>3. rootfile' = <<PathOf(TypedRootfiles)'>> /\ rootfile' # <<>>
          BY <3>8, <3>9, <4>2
        <4> QED
          BY <1>1, <2>1, <2>3, <3>2, <3>3, <3>5, <4>1, <4>3 DEF RootInv
      <3>10. CASE ~typed
        <4>1. TypedRootfiles' = {} /\ rootfile' = <<>>
          BY <2>4, <3>7, <3>8, <3>10
        <4>2. first' = IF Rootfiles' = {} THEN <<>> ELSE <<PathOf(Rootfiles)'>>
          <5>1. CASE NamesRootfile(tag)
            <6>1. Rootfiles' = Rootfiles \cup {n} /\ Rootfiles' # {}
              BY <3>7, <5>1
            <6>2. PathOf(Rootfiles)' = IF Rootfiles = {} THEN path ELSE PathOf(Rootfiles)
              BY <1>1, <3>3, <3>6, <6>1, PathStays
            <6>3. first = <<>> <=> Rootfiles = {}
              BY <2>4
            <6>4. first' = IF Rootfiles = {} THEN <<path>> ELSE first
              BY <3>8, <3>10, <5>1, <6>3
            <6> QED
              BY <2>4, <6>1, <6>2, <6>4
          <5>2. CASE ~NamesRootfile(tag)
            <6>1. Rootfiles' = Rootfiles
              BY <3>7, <5>2
            <6>2. Rootfiles # {} => PathOf(Rootfiles)' = PathOf(Rootfiles)
              BY <1>1, <3>3, <6>1, PathStays
            <6> QED
              BY <2>4, <3>8, <5>2, <6>1, <6>2
          <5> QED
            BY <5>1, <5>2
        <4> QED
          BY <1>1, <2>1, <2>3, <3>2, <3>3, <3>5, <4>1, <4>2 DEF RootInv
      <3> QED
        BY <3>9, <3>10
    <2> QED
      BY <2>2, <2>5, <2>6
  <1> QED
    BY <1>2, <1>3

\* MetaInfIsRead always holds: whatever the two documents of META-INF say, and
\* wherever they end, the package document is the rootfile that is meant, and
\* every record of what is encrypted that is closed is reported with what it
\* says of itself, nested in another or not (opf.rs parse_container and
\* parse_encryption).
THEOREM MetaInfIsAlwaysRead == Spec => []MetaInfIsRead
  <1>1. Init => RootInv /\ RecordInv
    BY RootStarts, RecordStarts
  <1>2. RootInv /\ RecordInv /\ [Next]_readerVars => RootInv' /\ RecordInv'
    BY RootSteps, RecordSteps
  <1>3. RootInv /\ RecordInv => MetaInfIsRead
    BY RootChosen, RecordsReported DEF RecordInv, MetaInfIsRead
  <1> QED
    BY <1>1, <1>2, <1>3, PTL DEF Spec, readerVars

-----------------------------------------------------------------------------
(* The cues that are narrated up to a place.                               *)

\* What Narrated computes on the way.
IsNarrated(written, n, P) ==
    P = [k \in 0..n |->
            IF k = 0 THEN <<>>
            ELSE IF k \in DOMAIN written /\ ~Silent(written[k])
                 THEN Append(P[k - 1], written[k]) ELSE P[k - 1]]

\* The cues up to a place, and the one there if it says something.
Tells(written, k, s, t) ==
    t = IF k \in DOMAIN written /\ ~Silent(written[k]) THEN Append(s, written[k]) ELSE s

\* What is narrated up to each of the places 0 to n.
NarratedBy(written, n, S, P) ==
    /\ P \in [0..n -> Seq(S)]
    /\ P[0] = <<>>
    /\ \A k \in 1..n : Tells(written, k, P[k - 1], P[k])

\* There is something that is narrated so.
LEMMA NarratedRuns ==
    ASSUME NEW n \in Nat, NEW w, NEW S, \A k \in DOMAIN w : w[k] \in S
    PROVE  \E P : NarratedBy(w, n, S, P) /\ Narrated(w, n) = P[n]
  <1> DEFINE T == Seq(S)
             Speaks(k) == k \in DOMAIN w /\ ~Silent(w[k])
             step == [x \in (1..n) \X T |-> IF Speaks(x[1]) THEN Append(x[2], w[x[1]]) ELSE x[2]]
             P == CHOOSE P : IsNarrated(w, n, P)
  <1>1. \A i \in 1..n, b \in T : step[<<i, b>>] = IF Speaks(i) THEN Append(b, w[i]) ELSE b
    OBVIOUS
  <1>2. step \in [(1..n) \X T -> T]
    <2>1. ASSUME NEW i \in 1..n, NEW b \in T
          PROVE  (IF Speaks(i) THEN Append(b, w[i]) ELSE b) \in T
      <3>1. CASE Speaks(i)
        <4>1. PICK e \in S : e = w[i]
          BY <3>1
        <4>2. Append(b, e) \in T
          BY Longer
        <4> QED
          BY <3>1, <4>1, <4>2
      <3>2. CASE ~Speaks(i)
        BY <3>2
      <3> QED
        BY <3>1, <3>2
    <2> HIDE DEF T, Speaks
    <2> QED
      BY <2>1
  <1>3. Narrated(w, n) = P[n]
    BY DEF Narrated, IsNarrated
  <1>4. <<>> \in T
    OBVIOUS
  <1>5. \A k : Speaks(k) <=> k \in DOMAIN w /\ ~Silent(w[k])
    OBVIOUS
  <1> HIDE DEF step, P, Speaks
  <1>6. PICK f : Steps(n, T, <<>>, step, f)
    <2> HIDE DEF T
    <2> QED
      BY <1>2, <1>4, StepsExist
  <1>7. IsNarrated(w, n, f)
    <2>1. f \in [0..n -> T] /\ f[0] = <<>> /\ \A i \in 1..n : f[i] = step[<<i, f[i - 1]>>]
      BY <1>6 DEF Steps
    <2>2. ASSUME NEW i \in 0..n, i # 0
          PROVE  f[i] = IF Speaks(i) THEN Append(f[i - 1], w[i]) ELSE f[i - 1]
      <3>1. i \in 1..n /\ f[i - 1] \in T
        <4> HIDE DEF T
        <4> QED
          BY <2>1, <2>2
      <3> HIDE DEF T
      <3> QED
        BY <1>1, <2>1, <3>1
    <2> HIDE DEF T
    <2> QED
      BY <1>5, <2>1, <2>2 DEF IsNarrated
  <1>8. IsNarrated(w, n, P)
    BY <1>7 DEF P
  <1> HIDE DEF T
  <1>9. P[0] = <<>> /\ \A i \in 1..n : P[i] = IF Speaks(i) THEN Append(P[i - 1], w[i]) ELSE P[i - 1]
    <2>1. 0 \in 0..n /\ \A i \in 1..n : i \in 0..n /\ i # 0
      OBVIOUS
    <2> QED
      BY <1>5, <1>8, <2>1 DEF IsNarrated
  <1>10. Steps(n, T, <<>>, step, P)
    <2>1. ASSUME NEW i \in 1..n, P[i - 1] \in T PROVE P[i] = step[<<i, P[i - 1]>>]
      BY <1>1, <1>9, <2>1
    <2>2. P = [i \in 0..n |-> P[i]]
      BY <1>8 DEF IsNarrated
    <2>3. P[0] = <<>>
      BY <1>9
    <2> QED
      BY <1>2, <1>4, <2>1, <2>2, <2>3, StepsFound
  <1>11. NarratedBy(w, n, S, P)
    <2>1. P \in [0..n -> Seq(S)] /\ P[0] = <<>>
      BY <1>10 DEF Steps, T
    <2>2. \A k \in 1..n : Tells(w, k, P[k - 1], P[k])
      BY <1>5, <1>9 DEF Tells
    <2> QED
      BY <2>1, <2>2 DEF NarratedBy
  <1> QED
    BY <1>3, <1>11

\* There is but one.
LEMMA NarratedOnce ==
    ASSUME NEW n \in Nat, NEW w, NEW v, NEW S, NEW R, NEW P, NEW Q,
           NarratedBy(w, n, S, P), NEW m \in 0..n, NarratedBy(v, m, R, Q),
           \A k \in 1..m : /\ k \in DOMAIN w <=> k \in DOMAIN v
                           /\ k \in DOMAIN w => w[k] = v[k]
    PROVE  Q[m] = P[m]
  <1> DEFINE G == {k \in 0..m : Q[k] = P[k]}
  <1>1. 0 \in G
    BY DEF NarratedBy
  <1>2. ASSUME NEW k \in 1..m, k - 1 \in G PROVE k \in G
    <2>1. Tells(w, k, P[k - 1], P[k]) /\ Tells(v, k, Q[k - 1], Q[k])
      <3>1. k \in 1..n
        OBVIOUS
      <3> QED
        BY <3>1 DEF NarratedBy
    <2>2. P[k - 1] = Q[k - 1] /\ k \in 0..m
      BY <1>2
    <2> QED
      BY <2>1, <2>2 DEF Tells
  <1> HIDE DEF G
  <1>3. m \in Nat /\ m \in 0..m
    OBVIOUS
  <1>4. \A k \in 0..m : k \in G
    BY <1>1, <1>2, <1>3, UpTo
  <1> QED
    BY <1>3, <1>4 DEF G

\* Nothing is narrated before the first place.
LEMMA NarratedNone ==
    ASSUME NEW w PROVE Narrated(w, 0) = <<>>
  <1> DEFINE S == {w[k] : k \in DOMAIN w}
  <1>1. \A k \in DOMAIN w : w[k] \in S
    OBVIOUS
  <1> HIDE DEF S
  <1> QED
    BY <1>1, NarratedRuns DEF NarratedBy

\* What is narrated up to a place is what is up to the one before, and what
\* the cue there says.
LEMMA NarratedNext ==
    ASSUME NEW w, NEW n \in Nat \ {0}
    PROVE  Tells(w, n, Narrated(w, n - 1), Narrated(w, n))
  <1> DEFINE S == {w[k] : k \in DOMAIN w}
  <1>1. \A k \in DOMAIN w : w[k] \in S
    OBVIOUS
  <1> HIDE DEF S
  <1>2. n \in Nat /\ n - 1 \in Nat /\ n - 1 \in 0..n /\ n \in 1..n
    OBVIOUS
  <1>3. PICK P : NarratedBy(w, n, S, P) /\ Narrated(w, n) = P[n]
    BY <1>1, <1>2, NarratedRuns
  <1>4. PICK Q : NarratedBy(w, n - 1, S, Q) /\ Narrated(w, n - 1) = Q[n - 1]
    BY <1>1, <1>2, NarratedRuns
  <1>5. Q[n - 1] = P[n - 1]
    BY <1>2, <1>3, <1>4, NarratedOnce
  <1> QED
    BY <1>2, <1>3, <1>4, <1>5 DEF NarratedBy

\* It depends on nothing but the cues there.
LEMMA NarratedAlike ==
    ASSUME NEW w, NEW v, NEW n \in Nat,
           \A k \in 1..n : /\ k \in DOMAIN w <=> k \in DOMAIN v
                           /\ k \in DOMAIN w => w[k] = v[k]
    PROVE  Narrated(w, n) = Narrated(v, n)
  <1> DEFINE S == {w[k] : k \in DOMAIN w}
             R == {v[k] : k \in DOMAIN v}
  <1>1. (\A k \in DOMAIN w : w[k] \in S) /\ \A k \in DOMAIN v : v[k] \in R
    OBVIOUS
  <1> HIDE DEF S, R
  <1>2. PICK P : NarratedBy(w, n, S, P) /\ Narrated(w, n) = P[n]
    BY <1>1, NarratedRuns
  <1>3. PICK Q : NarratedBy(v, n, R, Q) /\ Narrated(v, n) = Q[n]
    BY <1>1, NarratedRuns
  <1>4. n \in 0..n
    OBVIOUS
  <1> QED
    BY <1>2, <1>3, <1>4, NarratedOnce

\* And where there are none it stays.
LEMMA NarratedRests ==
    ASSUME NEW w, NEW n \in Nat, NEW m \in 0..n, \A k \in 1..n : k > m => k \notin DOMAIN w
    PROVE  Narrated(w, n) = Narrated(w, m)
  <1> DEFINE G == {k \in 0..n : k > m => Narrated(w, k) = Narrated(w, m)}
  <1>1. 0 \in G
    OBVIOUS
  <1>2. ASSUME NEW k \in 1..n, k - 1 \in G PROVE k \in G
    <2>1. CASE k > m
      <3>1. Tells(w, k, Narrated(w, k - 1), Narrated(w, k))
        <4>1. k \in Nat \ {0}
          OBVIOUS
        <4> QED
          BY <4>1, NarratedNext
      <3>2. Narrated(w, k) = Narrated(w, k - 1)
        BY <2>1, <3>1 DEF Tells
      <3>3. k - 1 = m \/ k - 1 > m
        BY <2>1
      <3> QED
        BY <1>2, <3>2, <3>3
    <2>2. CASE ~(k > m)
      BY <2>2
    <2> QED
      BY <2>1, <2>2
  <1>3. \A k \in 0..n : k \in G
    <2> HIDE DEF G
    <2> QED
      BY <1>1, <1>2, UpTo
  <1>4. n = m \/ n > m
    OBVIOUS
  <1> QED
    BY <1>3, <1>4

-----------------------------------------------------------------------------
(* A clock value.                                                          *)

\* A clock value with a unit has one field.
IsClockValue(raw) == IsClock(raw) /\ (raw.unit # "" => Len(raw.fields) = 1)

\* What Fold computes of up to three fields.
LEMMA FoldThree ==
    ASSUME NEW s \in Seq(Seq(Int)), \A i \in DOMAIN s : s[i] # <<>>
    PROVE  /\ Len(s) = 1 => Fold(s) = s[1][1]
           /\ Len(s) = 2 => Fold(s) = s[1][1] * 60 + s[2][1]
           /\ Len(s) = 3 => Fold(s) = (s[1][1] * 60 + s[2][1]) * 60 + s[3][1]
  <1>1. PICK P : IsSeconds(s, P) /\ Fold(s) = P[Len(s)]
    BY FoldRuns
  <1>2. PICK n \in Nat : n = Len(s)
    OBVIOUS
  <1>3. \A i \in 1..n : s[i][1] \in Int
    <2>1. \A i \in 1..Len(s) : s[i] # <<>>
      OBVIOUS
    <2> QED
      BY <1>2, <2>1, FieldNumber
  <1>4. P[0] = 0 /\ \A i \in 1..n : P[i] = P[i - 1] * 60 + s[i][1]
    <2>1. 0 \in 0..n /\ \A i \in 1..n : i \in 0..n /\ i # 0
      OBVIOUS
    <2> QED
      BY <1>1, <1>2, <2>1 DEF IsSeconds
  <1>5. ASSUME n \in 1..3 PROVE P[1] = s[1][1]
    <2>1. PICK a \in Int : a = s[1][1]
      BY <1>3, <1>5
    <2>2. P[1] = 0 * 60 + a
      <3>1. 1 \in 1..n /\ 1 - 1 = 0
        BY <1>5
      <3> QED
        BY <1>4, <2>1, <3>1
    <2> QED
      BY <2>1, <2>2
  <1>6. ASSUME n \in 2..3 PROVE P[2] = s[1][1] * 60 + s[2][1]
    <2>1. 2 \in 1..n /\ 2 - 1 = 1
      BY <1>6
    <2> QED
      BY <1>4, <1>5, <1>6, <2>1
  <1>7. ASSUME n = 3 PROVE P[3] = (s[1][1] * 60 + s[2][1]) * 60 + s[3][1]
    <2>1. 3 \in 1..n /\ 3 - 1 = 2
      BY <1>7
    <2> QED
      BY <1>4, <1>6, <1>7, <2>1
  <1>8. ASSUME Len(s) = 1 PROVE Fold(s) = s[1][1]
    <2>1. n = 1 /\ n \in 1..3
      BY <1>2, <1>8
    <2> QED
      BY <1>1, <1>5, <1>8, <2>1, Zenon
  <1>9. ASSUME Len(s) = 2 PROVE Fold(s) = s[1][1] * 60 + s[2][1]
    <2>1. n = 2 /\ n \in 2..3
      BY <1>2, <1>9
    <2> QED
      BY <1>1, <1>6, <1>9, <2>1, Zenon
  <1>10. ASSUME Len(s) = 3 PROVE Fold(s) = (s[1][1] * 60 + s[2][1]) * 60 + s[3][1]
    BY <1>1, <1>2, <1>7, <1>10, Zenon
  <1> QED
    BY <1>8, <1>9, <1>10, Zenon

\* A clock value is read as what it says.
LEMMA ClockIsRead ==
    ASSUME NEW raw, IsClockValue(raw)
    PROVE  Clock(raw) = Milliseconds(raw)
  <1>1. PICK s \in Seq(Seq(Int)) : s = raw.fields
    BY DEF IsClockValue, IsClock
  <1>2. PICK m \in Nat : s = raw.fields /\ m = Len(s) /\ DOMAIN s = 1..m
    BY <1>1
  <1> DEFINE readable == \A i \in 1..m : s[i] # <<>> /\ s[i][1] >= 0
             silent == <<>> \in Range(s) \/ \E i \in 1..m : s[i][1] < 0
  <1>3. DOMAIN s = 1..m /\ \A i \in 1..m : s[i] # <<>> => s[i][1] \in Int
    BY <1>2, FieldNumber
  <1>4. <<>> \in Range(s) <=> \E i \in 1..m : s[i] = <<>>
    BY <1>3 DEF Range
  <1>5. readable <=> ~silent
    <2>1. ASSUME readable PROVE ~silent
      <3>1. \A i \in 1..m : ~(s[i][1] < 0)
        BY <1>3, <2>1
      <3> QED
        BY <1>4, <2>1, <3>1
    <2>2. ASSUME ~silent PROVE readable
      <3>1. ASSUME NEW i \in 1..m PROVE s[i] # <<>> /\ s[i][1] >= 0
        <4>1. s[i] # <<>> /\ ~(s[i][1] < 0)
          BY <1>4, <2>2
        <4>2. s[i][1] \in Int
          BY <1>3, <4>1
        <4> QED
          BY <4>1, <4>2
      <3> QED
        BY <3>1
    <2> QED
      BY <2>1, <2>2
  <1> HIDE DEF readable, silent
  <1> DEFINE value == IF raw.unit = "" THEN 1000 * Fold(s) ELSE s[1][1] * Scale[raw.unit]
  <1>6. value = IF raw.unit = "" THEN 1000 * Fold(s) ELSE s[1][1] * Scale[raw.unit]
    OBVIOUS
  <1> HIDE DEF value
  <1>7. Clock(raw) = IF readable /\ m \in 1..3 THEN value ELSE 0
    <2> DEFINE can == \A i \in DOMAIN raw.fields : raw.fields[i] # <<>> /\ raw.fields[i][1] >= 0
               number == IF raw.unit = "" THEN 1000 * Fold(raw.fields)
                         ELSE raw.fields[1][1] * Scale[raw.unit]
    <2>1. ParseClock(raw) = IF can /\ Len(raw.fields) \in 1..3 THEN <<number>> ELSE <<>>
      BY DEF ParseClock
    <2>2. can <=> readable
      BY <1>2 DEF readable
    <2>3. number = value
      <3>1. \A t : t = s => number = IF raw.unit = "" THEN 1000 * Fold(t) ELSE t[1][1] * Scale[raw.unit]
        BY <1>2
      <3> HIDE DEF number
      <3> QED
        BY <1>6, <3>1
    <2> HIDE DEF can, number
    <2>4. ParseClock(raw) = IF readable /\ m \in 1..3 THEN <<value>> ELSE <<>>
      BY <1>2, <2>1, <2>2, <2>3
    <2> QED
      BY <2>4 DEF Clock
  <1>8. PICK scale : scale = Scale[IF raw.unit = "" THEN "s" ELSE raw.unit]
    OBVIOUS
  <1>9. /\ silent \/ m \notin 1..3 => Milliseconds(raw) = 0
        /\ ~silent /\ m = 1 => Milliseconds(raw) = s[1][1] * scale
        /\ ~silent /\ m = 2 => Milliseconds(raw) = (60 * s[1][1] + s[2][1]) * Scale["s"]
        /\ ~silent /\ m = 3 =>
              Milliseconds(raw) = (3600 * s[1][1] + 60 * s[2][1] + s[3][1]) * Scale["s"]
    <2> DEFINE n == [i \in DOMAIN raw.fields |-> raw.fields[i][1]]
    <2>1. DOMAIN n = 1..m /\ \A i \in 1..m : n[i] = s[i][1]
      BY <1>2, <1>3
    <2>2. Len(n) = m
      BY <1>2, <1>3
    <2>3. silent <=> <<>> \in Range(raw.fields) \/ \E i \in DOMAIN n : n[i] < 0
      BY <1>2, <2>1 DEF silent
    <2> DEFINE one == n[1] * Scale[IF raw.unit = "" THEN "s" ELSE raw.unit]
               two == (60 * n[1] + n[2]) * Scale["s"]
               three == (3600 * n[1] + 60 * n[2] + n[3]) * Scale["s"]
    <2>4. Milliseconds(raw) =
             IF <<>> \in Range(raw.fields) \/ \E i \in DOMAIN n : n[i] < 0 THEN 0
             ELSE CASE Len(n) = 1 -> one [] Len(n) = 2 -> two [] Len(n) = 3 -> three [] OTHER -> 0
      BY DEF Milliseconds
    <2> HIDE DEF one, two, three, n
    <2>5. silent \/ m \notin 1..3 => Milliseconds(raw) = 0
      BY <2>2, <2>3, <2>4
    <2>6. ASSUME ~silent, m = 1 PROVE Milliseconds(raw) = s[1][1] * scale
      <3>1. n[1] = s[1][1]
        BY <2>1, <2>6
      <3>2. Milliseconds(raw) = one
        BY <2>2, <2>3, <2>4, <2>6
      <3> QED
        BY <1>8, <3>1, <3>2, Zenon DEF one
    <2>7. ASSUME ~silent, m = 2 PROVE Milliseconds(raw) = (60 * s[1][1] + s[2][1]) * Scale["s"]
      <3>1. n[1] = s[1][1] /\ n[2] = s[2][1]
        BY <2>1, <2>7
      <3>2. Milliseconds(raw) = two
        BY <2>2, <2>3, <2>4, <2>7
      <3> QED
        BY <3>1, <3>2 DEF two
    <2>8. ASSUME ~silent, m = 3
          PROVE  Milliseconds(raw) = (3600 * s[1][1] + 60 * s[2][1] + s[3][1]) * Scale["s"]
      <3>1. n[1] = s[1][1] /\ n[2] = s[2][1] /\ n[3] = s[3][1]
        BY <2>1, <2>8
      <3>2. Milliseconds(raw) = three
        BY <2>2, <2>3, <2>4, <2>8
      <3> QED
        BY <3>1, <3>2 DEF three
    <2> QED
      BY <2>5, <2>6, <2>7, <2>8
  <1>10. CASE silent
    BY <1>5, <1>7, <1>9, <1>10
  <1>11. CASE ~silent /\ m \notin 1..3
    BY <1>7, <1>9, <1>11
  <1>12. CASE ~silent /\ m \in 1..3
    <2>1. Clock(raw) = value
      BY <1>5, <1>7, <1>12
    <2>2. \A i \in 1..m : s[i] # <<>>
      BY <1>5, <1>12 DEF readable
    <2>3. Scale["s"] = 1000
      BY DEF Scale
    <2>4. CASE raw.unit # ""
      <3>1. m = 1
        BY <1>2, <2>4 DEF IsClockValue
      <3> QED
        <4>1. value = s[1][1] * Scale[raw.unit] /\ scale = Scale[raw.unit]
          BY <1>6, <1>8, <2>4, Zenon
        <4>2. value = s[1][1] * scale
          BY <4>1, Zenon
        <4>3. Milliseconds(raw) = s[1][1] * scale
          BY <1>9, <1>12, <3>1
        <4> QED
          BY <2>1, <4>2, <4>3, Zenon
    <2>5. CASE raw.unit = ""
      <3>1. value = 1000 * Fold(s) /\ scale = 1000
        BY <1>6, <1>8, <2>3, <2>5
      <3>2. CASE m = 1
        <4>1. PICK a \in Int : a = s[1][1]
          BY <1>3, <2>2, <3>2
        <4>2. Fold(s) = a
          BY <1>2, <1>3, <2>2, <3>2, <4>1, FoldThree
        <4>3. Milliseconds(raw) = a * 1000
          BY <1>9, <1>12, <3>1, <3>2, <4>1
        <4> QED
          BY <2>1, <3>1, <4>2, <4>3
      <3>3. CASE m = 2
        <4>1. PICK a \in Int, b \in Int : a = s[1][1] /\ b = s[2][1]
          BY <1>3, <2>2, <3>3
        <4>2. Fold(s) = a * 60 + b
          BY <1>2, <1>3, <2>2, <3>3, <4>1, FoldThree
        <4>3. Milliseconds(raw) = (60 * a + b) * 1000
          BY <1>9, <1>12, <2>3, <3>3, <4>1
        <4> QED
          BY <2>1, <3>1, <4>2, <4>3
      <3>4. CASE m = 3
        <4>1. PICK a \in Int, b \in Int, c \in Int : a = s[1][1] /\ b = s[2][1] /\ c = s[3][1]
          BY <1>3, <2>2, <3>4
        <4>2. Fold(s) = (a * 60 + b) * 60 + c
          BY <1>2, <1>3, <2>2, <3>4, <4>1, FoldThree
        <4>3. Milliseconds(raw) = (3600 * a + 60 * b + c) * 1000
          BY <1>9, <1>12, <2>3, <3>4, <4>1
        <4> QED
          BY <2>1, <3>1, <4>2, <4>3
      <3> QED
        BY <1>12, <3>2, <3>3, <3>4
    <2> QED
      BY <2>4, <2>5
  <1> QED
    BY <1>10, <1>11, <1>12

\* No clock is one, of no time.
LEMMA NoClockIsRead == IsClockValue(NoClock) /\ Milliseconds(NoClock) = 0
  <1>1. IsClockValue(NoClock)
    BY NoClockIsClock DEF IsClockValue, NoClock
  <1>2. ParseClock(NoClock) = <<>>
    <2>1. Len(NoClock.fields) = 0
      BY DEF NoClock
    <2>2. Len(NoClock.fields) \notin 1..3
      BY <2>1
    <2> QED
      BY <2>2 DEF ParseClock
  <1>3. Clock(NoClock) = 0
    BY <1>2 DEF Clock
  <1> QED
    BY <1>1, <1>3, ClockIsRead

\* The times an overlay's tag gives are read as they are written.
LEMMA TagClocksRead ==
    ASSUME NEW tag \in SmilTags, NEW a \in {"clipBegin", "clipEnd"}
    PROVE  Clock(Attribute(tag, a, NoClock)) = Milliseconds(Attribute(tag, a, NoClock))
  <1>1. IsClockValue(Attribute(tag, a, NoClock))
    <2>1. CASE a \in DOMAIN tag.attrs
      <3>1. IsClockValue(tag.attrs[a])
        BY <2>1, SmilAssumption DEF IsClock, IsClockValue
      <3> QED
        BY <2>1, <3>1 DEF Attribute
    <2>2. CASE a \notin DOMAIN tag.attrs
      BY <2>2, NoClockIsRead DEF Attribute
    <2> QED
      BY <2>1, <2>2
  <1> QED
    BY <1>1, ClockIsRead

-----------------------------------------------------------------------------
(* The cues of an overlay as they are written.                             *)

\* Whether a tag is a text or an audio, by the name, of a par.
Joins(tag, i, name) ==
    tag.kind \in {"start", "empty"} /\ tag.name = name /\ Inmost({"par"}) = i

\* What the last text or audio of a par says in an attribute.
SaysLast(i, name, attribute, absent) == Attribute(LastOf(i, name), attribute, absent)

\* What an event adds to that: the last word holds.
SaysAfter(tag, i, name, attribute, absent) ==
    SaysLast(i, name, attribute, absent)' =
        IF Joins(tag, i, name) THEN Attribute(tag, attribute, absent)
        ELSE SaysLast(i, name, attribute, absent)

\* The texts and audios of a par stand after it.
LEMMA MembersAfter ==
    ASSUME XmlInv, NEW i \in Nat \ {0}, NEW name
    PROVE  \A j \in Members(i, name) : j \in DOMAIN doc /\ i < j
  <1> SUFFICES ASSUME NEW j \in Members(i, name) PROVE j \in DOMAIN doc /\ i < j
    OBVIOUS
  <1>1. j \in DOMAIN doc /\ Nearest(j, {"par"}) = i
    BY DEF Members, Places
  <1> QED
    BY <1>1, NearestBefore

\* An event is one of them, or none.
MembersMore(tag, i, name, n) ==
    \A j : j \in Members(i, name)' <=> j \in Members(i, name) \/ (j = n /\ Joins(tag, i, name))

\* The texts and audios of a par after an event.
LEMMA MembersGrow ==
    ASSUME XmlInv, NEW tag, Grows(tag), NEW i, NEW name, NEW n, n = Len(doc) + 1
    PROVE  MembersMore(tag, i, name, n)
  <1> DEFINE tags == {"start", "empty"}
             places == Places(tags, {name})
  <1>1. places' = places \cup {j \in {n} : tag.kind \in tags /\ tag.name \in {name}}
    BY PlacesGrow DEF PlacesMore
  <1>2. /\ Nearest(n, {"par"})' = Inmost({"par"})
        /\ \A j \in 1..Len(doc) : Nearest(j, {"par"})' = Nearest(j, {"par"})
    BY EnclosingNew, EnclosingKept
  <1>3. \A j \in places : j \in 1..Len(doc) /\ j # n
    BY DEF Grows, Places
  <1>4. Members(i, name)' = {j \in places' : Nearest(j, {"par"})' = i}
    BY DEF Members
  <1>5. Members(i, name) = {j \in places : Nearest(j, {"par"}) = i}
    BY DEF Members
  <1>6. Joins(tag, i, name) <=> tag.kind \in tags /\ tag.name = name /\ Inmost({"par"}) = i
    BY DEF Joins
  <1> HIDE DEF places, tags
  <1>7. ASSUME NEW j
        PROVE  j \in Members(i, name)' <=>
                   j \in Members(i, name) \/ (j = n /\ Joins(tag, i, name))
    <2>1. CASE j \in places
      BY <1>1, <1>2, <1>3, <1>4, <1>5, <2>1
    <2>2. CASE j \notin places
      BY <1>1, <1>2, <1>4, <1>5, <1>6, <2>2
    <2> QED
      BY <2>1, <2>2
  <1> QED
    BY <1>7 DEF MembersMore

\* An event is the last word of the innermost par, if it is one at all.
LEMMA LastWord ==
    ASSUME XmlInv, NEW tag, Grows(tag), NEW i \in Nat \ {0}, NEW name, NEW attribute, NEW absent
    PROVE  SaysAfter(tag, i, name, attribute, absent)
  <1>1. PICK n \in Nat \ {0} : n = Len(doc) + 1
    BY DEF Grows
  <1>2. \A j \in Members(i, name) : j \in Nat /\ j < n /\ doc'[j] = doc[j]
    <2>1. \A j \in Members(i, name) : j \in DOMAIN doc
      BY MembersAfter
    <2>2. /\ Len(doc) \in Nat /\ DOMAIN doc = 1..Len(doc)
          /\ \A j \in 1..Len(doc) : doc'[j] = doc[j]
      BY DEF Grows
    <2> QED
      BY <1>1, <2>1, <2>2
  <1>3. MembersMore(tag, i, name, n)
    BY <1>1, MembersGrow
  <1> DEFINE M == Members(i, name)
             none == Attribute(Tag("empty", name, NoAttrs), attribute, absent)
  <1>4. SaysLast(i, name, attribute, absent) =
           IF M = {} THEN none ELSE Attribute(doc[Greatest(M)], attribute, absent)
    BY DEF SaysLast, LastOf
  <1>5. SaysLast(i, name, attribute, absent)' =
           IF M' = {} THEN none ELSE Attribute(doc'[Greatest(M')], attribute, absent)
    BY DEF SaysLast, LastOf, Attribute
  <1>6. CASE Joins(tag, i, name)
    <2>1. n \in M' /\ M' \in SUBSET Nat /\ \A j \in M' : j <= n
      <3>1. n \in M'
        BY <1>3, <1>6 DEF MembersMore
      <3>2. ASSUME NEW j \in M' PROVE j \in Nat /\ j <= n
        BY <1>1, <1>2, <1>3 DEF MembersMore
      <3> HIDE DEF M
      <3> QED
        BY <3>1, <3>2
    <2>2. Greatest(M') = n
      <3> HIDE DEF M
      <3> QED
        BY <2>1, GreatestIs
    <2>3. Attribute(doc'[n], attribute, absent) = Attribute(tag, attribute, absent)
      <3>1. doc'[n] = Event(tag, opened)
        BY <1>1 DEF Grows
      <3>2. doc'[n].attrs = tag.attrs
        BY <3>1 DEF Event
      <3> QED
        BY <3>2 DEF Attribute
    <2>4. SaysLast(i, name, attribute, absent)' = Attribute(tag, attribute, absent)
      <3> HIDE DEF M, none
      <3> QED
        BY <1>5, <2>1, <2>2, <2>3
    <2> QED
      BY <1>6, <2>4 DEF SaysAfter
  <1>7. CASE ~Joins(tag, i, name)
    <2>1. M' = M
      BY <1>3, <1>7 DEF MembersMore
    <2>2. M # {} => Greatest(M) \in M
      <3>1. n \in Nat /\ M \in SUBSET (0..n)
        BY <1>1, <1>2
      <3> HIDE DEF M
      <3> QED
        BY <3>1, GreatestExists
    <2>3. M # {} => doc'[Greatest(M)] = doc[Greatest(M)]
      BY <1>2, <2>2
    <2>4. SaysLast(i, name, attribute, absent)' = SaysLast(i, name, attribute, absent)
      <3> HIDE DEF M, none
      <3> QED
        BY <1>4, <1>5, <2>1, <2>3
    <2> QED
      BY <1>7, <2>4 DEF SaysAfter
  <1> QED
    BY <1>6, <1>7

\* A cue as its par's texts and audios have it.
LEMMA WrittenAs ==
    ASSUME NEW i
    PROVE  /\ WrittenCue(i) =
                 [text |-> ResolveSrc(SaysLast(i, "text", "src", NoSrc)),
                  audio |-> ResolveSrc(SaysLast(i, "audio", "src", NoSrc)),
                  start |-> Milliseconds(SaysLast(i, "audio", "clipBegin", NoClock)),
                  end |-> Milliseconds(SaysLast(i, "audio", "clipEnd", NoClock)),
                  id |-> Attribute(doc[i], "id", "")]
           /\ WrittenCue(i)' =
                 [text |-> ResolveSrc(SaysLast(i, "text", "src", NoSrc)'),
                  audio |-> ResolveSrc(SaysLast(i, "audio", "src", NoSrc)'),
                  start |-> Milliseconds(SaysLast(i, "audio", "clipBegin", NoClock)'),
                  end |-> Milliseconds(SaysLast(i, "audio", "clipEnd", NoClock)'),
                  id |-> Attribute(doc'[i], "id", "")]
  BY DEF WrittenCue, SaysLast, ResolveSrc, Milliseconds, Attribute

\* A cue of some text, audio, times and id; one with another text; and one
\* with another audio and other times.
IsCue(c, x, y, u, v, w) == c = [text |-> x, audio |-> y, start |-> u, end |-> v, id |-> w]
OtherText(c, z, d) == d = [c EXCEPT !.text = z]
OtherAudio(c, z, f, g, d) == d = [c EXCEPT !.audio = z, !.start = f, !.end = g]

\* What a text, and what an audio, makes of a cue.
HasText(tag, c, d) == OtherText(c, ResolveSrc(Attribute(tag, "src", NoSrc)), d)
HasAudio(tag, c, d) ==
    OtherAudio(c, ResolveSrc(Attribute(tag, "src", NoSrc)),
               Clock(Attribute(tag, "clipBegin", NoClock)),
               Clock(Attribute(tag, "clipEnd", NoClock)), d)

\* A cue is changed field by field.
LEMMA OtherCue ==
    ASSUME NEW x, NEW y, NEW u, NEW v, NEW w, NEW c, IsCue(c, x, y, u, v, w)
    PROVE  /\ \A z, d : IsCue(d, z, y, u, v, w) => OtherText(c, z, d)
           /\ \A z, f, g, d : IsCue(d, x, z, f, g, w) => OtherAudio(c, z, f, g, d)
  <1> DEFINE These(p, q, k, l, m) == [text : {p}, audio : {q}, start : {k}, end : {l}, id : {m}]
  <1>1. \A p, q, k, l, m, e : e \in These(p, q, k, l, m) <=> IsCue(e, p, q, k, l, m)
    BY DEF IsCue
  <1>2. c \in These(x, y, u, v, w)
    BY <1>1
  <1>3. \A z : [c EXCEPT !.text = z] \in These(z, y, u, v, w)
    BY <1>2
  <1>4. \A z, f, g : [c EXCEPT !.audio = z, !.start = f, !.end = g] \in These(x, z, f, g, w)
    BY <1>2
  <1> HIDE DEF These
  <1>5. \A z, d : IsCue(d, z, y, u, v, w) => OtherText(c, z, d)
    <2> SUFFICES ASSUME NEW z, NEW d, IsCue(d, z, y, u, v, w) PROVE OtherText(c, z, d)
      OBVIOUS
    <2>1. PICK e : e = [c EXCEPT !.text = z]
      OBVIOUS
    <2>2. IsCue(e, z, y, u, v, w)
      BY <1>1, <1>3, <2>1
    <2>3. d = e
      BY <2>2 DEF IsCue
    <2> QED
      BY <2>1, <2>3 DEF OtherText
  <1>6. \A z, f, g, d : IsCue(d, x, z, f, g, w) => OtherAudio(c, z, f, g, d)
    <2> SUFFICES ASSUME NEW z, NEW f, NEW g, NEW d, IsCue(d, x, z, f, g, w)
                 PROVE  OtherAudio(c, z, f, g, d)
      OBVIOUS
    <2>1. PICK e : e = [c EXCEPT !.audio = z, !.start = f, !.end = g]
      OBVIOUS
    <2>2. IsCue(e, x, z, f, g, w)
      BY <1>1, <1>4, <2>1
    <2>3. d = e
      BY <2>2 DEF IsCue
    <2> QED
      BY <2>1, <2>3 DEF OtherAudio
  <1> QED
    BY <1>5, <1>6

\* The cue written by a par after one more event.
LEMMA WrittenAfter ==
    ASSUME XmlInv, NEW tag, Grows(tag), NEW i \in 1..Len(doc)
    PROVE  /\ Joins(tag, i, "text") => HasText(tag, WrittenCue(i), WrittenCue(i)')
           /\ Joins(tag, i, "audio") /\ tag \in SmilTags =>
                 HasAudio(tag, WrittenCue(i), WrittenCue(i)')
           /\ ~Joins(tag, i, "text") /\ ~Joins(tag, i, "audio") =>
                 WrittenCue(i)' = WrittenCue(i)
  <1>1. i \in Nat \ {0} /\ doc'[i] = doc[i]
    BY DEF Grows
  <1>2. /\ SaysAfter(tag, i, "text", "src", NoSrc)
        /\ SaysAfter(tag, i, "audio", "src", NoSrc)
        /\ SaysAfter(tag, i, "audio", "clipBegin", NoClock)
        /\ SaysAfter(tag, i, "audio", "clipEnd", NoClock)
    BY <1>1, LastWord
  <1>3. ~(Joins(tag, i, "text") /\ Joins(tag, i, "audio"))
    BY DEF Joins
  <1>4. PICK t, a, b, e : /\ t = SaysLast(i, "text", "src", NoSrc)
                          /\ a = SaysLast(i, "audio", "src", NoSrc)
                          /\ b = SaysLast(i, "audio", "clipBegin", NoClock)
                          /\ e = SaysLast(i, "audio", "clipEnd", NoClock)
    OBVIOUS
  <1>5. PICK c : c = WrittenCue(i)
    OBVIOUS
  <1>6. IsCue(c, ResolveSrc(t), ResolveSrc(a), Milliseconds(b), Milliseconds(e),
              Attribute(doc[i], "id", ""))
    BY <1>4, <1>5, WrittenAs, Zenon DEF IsCue
  <1>7. ASSUME Joins(tag, i, "text")
        PROVE  HasText(tag, c, WrittenCue(i)')
    <2>1. WrittenCue(i)' =
             [text |-> ResolveSrc(Attribute(tag, "src", NoSrc)), audio |-> ResolveSrc(a),
              start |-> Milliseconds(b), end |-> Milliseconds(e), id |-> Attribute(doc[i], "id", "")]
      BY <1>1, <1>2, <1>3, <1>4, <1>7, WrittenAs DEF SaysAfter
    <2>2. PICK z : z = ResolveSrc(Attribute(tag, "src", NoSrc))
      OBVIOUS
    <2>3. PICK d : d = WrittenCue(i)'
      OBVIOUS
    <2>4. IsCue(d, z, ResolveSrc(a), Milliseconds(b), Milliseconds(e), Attribute(doc[i], "id", ""))
      BY <2>1, <2>2, <2>3, Zenon DEF IsCue
    <2>5. OtherText(c, z, d)
      BY <1>6, <2>4, OtherCue
    <2> QED
      BY <2>2, <2>3, <2>5 DEF HasText
  <1>8. ASSUME Joins(tag, i, "audio"), tag \in SmilTags
        PROVE  HasAudio(tag, c, WrittenCue(i)')
    <2>1. WrittenCue(i)' =
             [text |-> ResolveSrc(t), audio |-> ResolveSrc(Attribute(tag, "src", NoSrc)),
              start |-> Milliseconds(Attribute(tag, "clipBegin", NoClock)),
              end |-> Milliseconds(Attribute(tag, "clipEnd", NoClock)),
              id |-> Attribute(doc[i], "id", "")]
      BY <1>1, <1>2, <1>3, <1>4, <1>8, WrittenAs DEF SaysAfter
    <2>2. /\ Clock(Attribute(tag, "clipBegin", NoClock)) = Milliseconds(Attribute(tag, "clipBegin", NoClock))
          /\ Clock(Attribute(tag, "clipEnd", NoClock)) = Milliseconds(Attribute(tag, "clipEnd", NoClock))
      BY <1>8, TagClocksRead
    <2>3. PICK z, f, g : /\ z = ResolveSrc(Attribute(tag, "src", NoSrc))
                         /\ f = Clock(Attribute(tag, "clipBegin", NoClock))
                         /\ g = Clock(Attribute(tag, "clipEnd", NoClock))
      OBVIOUS
    <2>4. PICK d : d = WrittenCue(i)'
      OBVIOUS
    <2>5. IsCue(d, ResolveSrc(t), z, f, g, Attribute(doc[i], "id", ""))
      BY <2>1, <2>2, <2>3, <2>4, Zenon DEF IsCue
    <2>6. OtherAudio(c, z, f, g, d)
      BY <1>6, <2>5, OtherCue
    <2> QED
      BY <2>3, <2>4, <2>6 DEF HasAudio
  <1>9. ASSUME ~Joins(tag, i, "text"), ~Joins(tag, i, "audio")
        PROVE  WrittenCue(i)' = c
    BY <1>1, <1>2, <1>4, <1>6, <1>9, WrittenAs DEF SaysAfter, IsCue
  <1> QED
    BY <1>5, <1>7, <1>8, <1>9

\* A par that begins has neither texts nor audios.
LEMMA WrittenNew ==
    ASSUME XmlInv, NEW tag, Grows(tag), tag.name = "par", NEW n, n = Len(doc) + 1
    PROVE  WrittenCue(n)' = Cue(tag)
  <1>1. \A name \in {"text", "audio"} : Members(n, name)' = {}
    <2> SUFFICES ASSUME NEW name \in {"text", "audio"}, NEW j \in Members(n, name)' PROVE FALSE
      OBVIOUS
    <2>1. MembersMore(tag, n, name, n)
      BY MembersGrow
    <2>2. ~Joins(tag, n, name)
      BY DEF Joins
    <2>3. j \in Members(n, name)
      BY <2>1, <2>2 DEF MembersMore
    <2>4. n \in Nat \ {0} /\ DOMAIN doc = 1..Len(doc) /\ Len(doc) \in Nat
      BY DEF Grows
    <2>5. j \in 1..Len(doc) /\ n < j
      BY <2>3, <2>4, MembersAfter
    <2> QED
      BY <2>4, <2>5
  <1>2. \A name \in {"text", "audio"} : \A attribute, absent :
           SaysLast(n, name, attribute, absent)' = absent
    <2> SUFFICES ASSUME NEW name \in {"text", "audio"}, NEW attribute, NEW absent
                 PROVE  SaysLast(n, name, attribute, absent)' = absent
      OBVIOUS
    <2>1. LastOf(n, name)' = Tag("empty", name, NoAttrs)
      BY <1>1 DEF LastOf
    <2>2. Attribute(Tag("empty", name, NoAttrs), attribute, absent) = absent
      BY DEF Attribute, Tag, NoAttrs
    <2> QED
      BY <2>1, <2>2 DEF SaysLast, Attribute
  <1>3. Attribute(doc'[n], "id", "") = Attribute(tag, "id", "")
    <2>1. doc'[n] = Event(tag, opened)
      BY DEF Grows
    <2>2. doc'[n].attrs = tag.attrs
      BY <2>1 DEF Event
    <2> QED
      BY <2>2 DEF Attribute
  <1>4. ResolveSrc(NoSrc) = NoSrc
    BY DEF ResolveSrc
  <1>5. Milliseconds(NoClock) = 0
    BY NoClockIsRead
  <1>6. WrittenCue(n)' = [text |-> NoSrc, audio |-> NoSrc, start |-> 0, end |-> 0,
                          id |-> Attribute(tag, "id", "")]
    <2>1. /\ SaysLast(n, "text", "src", NoSrc)' = NoSrc
          /\ SaysLast(n, "audio", "src", NoSrc)' = NoSrc
          /\ SaysLast(n, "audio", "clipBegin", NoClock)' = NoClock
          /\ SaysLast(n, "audio", "clipEnd", NoClock)' = NoClock
      BY <1>2
    <2>2. WrittenCue(n)' =
             [text |-> ResolveSrc(SaysLast(n, "text", "src", NoSrc)'),
              audio |-> ResolveSrc(SaysLast(n, "audio", "src", NoSrc)'),
              start |-> Milliseconds(SaysLast(n, "audio", "clipBegin", NoClock)'),
              end |-> Milliseconds(SaysLast(n, "audio", "clipEnd", NoClock)'),
              id |-> Attribute(doc'[n], "id", "")]
      BY WrittenAs
    <2> QED
      BY <1>3, <1>4, <1>5, <2>1, <2>2, Zenon
  <1> QED
    BY <1>6 DEF Cue

\* The par that began last, and the cues that are written.
LastPar == IF Pars = {} THEN 0 ELSE Greatest(Pars)
ParCues == [i \in Pars |-> WrittenCue(i)]

\* The cues s and c read of m events are those written as w: while p, which
\* began last, is one of the open elements r, its cue is kept apart.
Reads(p, w, m, r, s, c) ==
    /\ c = <<>> \/ c = <<w[p]>>
    /\ c # <<>> <=> p \in r
    /\ s = Narrated(w, IF c = <<>> THEN m ELSE p - 1)

\* The cues read are those written.
CuesRead ==
    \E p, w, r : /\ p = LastPar /\ w = ParCues /\ r = Range(opened)
                 /\ Reads(p, w, Len(doc), r, cues, current)

\* The par that began last is the innermost, if it is open.
LEMMA LastParIs ==
    ASSUME XmlInv
    PROVE  /\ Pars \subseteq 1..Len(doc)
           /\ LastPar \in 0..Len(doc)
           /\ LastPar # 0 => LastPar \in Pars
           /\ \A y \in Pars : y <= LastPar
           /\ LastPar \in Range(opened) =>
                 LastPar # 0 /\ LastPar \in Pars /\ Inmost({"par"}) = LastPar
           /\ Inmost({"par"}) # 0 => Pars # {} /\ Inmost({"par"}) \in Range(opened)
  <1>1. PICK m \in Nat : m = Len(doc) /\ DOMAIN doc = 1..m
    BY DEF XmlInv
  <1>2. Pars \in SUBSET (0..m) /\ Pars \subseteq 1..m
    BY <1>1 DEF Pars, Places
  <1>3. PICK p : p = LastPar
    OBVIOUS
  <1>4. CASE Pars = {}
    <2>1. Around({"par"}) = {}
      BY <1>4 DEF Around, Pars, Places, XmlInv, Range
    <2>2. Inmost({"par"}) = 0 /\ LastPar = 0 /\ 0 \notin Range(opened)
      BY <1>1, <1>4, <2>1 DEF Inmost, LastPar, XmlInv, Range
    <2> QED
      BY <1>1, <1>4, <2>2
  <1>5. CASE Pars # {}
    <2>1. p \in Pars /\ \A y \in Pars : y <= p
      BY <1>2, <1>3, <1>5, GreatestExists DEF LastPar
    <2>2. p \in 1..m /\ doc[p].name = "par"
      BY <1>2, <2>1 DEF Pars, Places
    <2>3. ASSUME p \in Range(opened) PROVE Inmost({"par"}) = p
      <3>1. \A j \in Around({"par"}) : j \in Pars
        BY DEF Around, Pars, Places, XmlInv, Range
      <3>2. p \in Around({"par"})
        BY <2>2, <2>3 DEF Around
      <3>3. Around({"par"}) \in SUBSET Nat
        <4>1. \A j \in Around({"par"}) : j \in 0..m
          BY <1>2, <3>1
        <4> HIDE DEF Around
        <4> QED
          BY <4>1
      <3>4. Greatest(Around({"par"})) = p
        BY <2>1, <3>1, <3>2, <3>3, GreatestIs
      <3> QED
        BY <3>2, <3>4 DEF Inmost
    <2> QED
      BY <1>1, <1>2, <1>3, <2>1, <2>2, <2>3, InmostOpen
  <1> QED
    BY <1>4, <1>5

\* The pars after an event.
LEMMA ParsAfter ==
    ASSUME XmlInv, NEW tag, Grows(tag), NEW n, n = Len(doc) + 1
    PROVE  /\ tag.kind \in {"start", "empty"} /\ tag.name = "par" =>
                 Pars' = Pars \cup {n} /\ LastPar' = n
           /\ tag.kind \notin {"start", "empty"} \/ tag.name # "par" =>
                 Pars' = Pars /\ LastPar' = LastPar
  <1>1. \A i : i \in Pars' <=>
           i \in Pars \/ (i = n /\ tag.kind \in {"start", "empty"} /\ tag.name = "par")
    BY PlacesGrow DEF PlacesMore, Pars
  <1>2. n \in Nat /\ Pars \subseteq 1..Len(doc) /\ Len(doc) \in Nat
    BY LastParIs DEF Grows
  <1>3. CASE tag.kind \in {"start", "empty"} /\ tag.name = "par"
    <2>1. Pars' = Pars \cup {n}
      BY <1>1, <1>3
    <2>2. Pars' \in SUBSET Nat /\ n \in Pars' /\ \A y \in Pars' : y <= n
      <3>1. \A y \in Pars' : y = n \/ y \in 1..Len(doc)
        BY <1>2, <2>1
      <3>2. \A y \in Pars' : y \in Nat /\ y <= n
        BY <1>2, <3>1
      <3> QED
        BY <2>1, <3>2
    <2>3. Greatest(Pars') = n
      BY <2>2, GreatestIs
    <2>4. LastPar' = n
      BY <2>2, <2>3 DEF LastPar
    <2> QED
      BY <1>3, <2>1, <2>4
  <1>4. CASE tag.kind \notin {"start", "empty"} \/ tag.name # "par"
    <2>1. Pars' = Pars
      BY <1>1, <1>4
    <2>2. LastPar' = LastPar
      BY <2>1 DEF LastPar
    <2> QED
      BY <1>4, <2>1, <2>2
  <1> QED
    BY <1>3, <1>4

\* What is written after an event.
LEMMA WrittenStays ==
    ASSUME XmlInv, NEW tag, Grows(tag)
    PROVE  /\ \A i \in Pars : ~Joins(tag, i, "text") /\ ~Joins(tag, i, "audio") =>
                                  WrittenCue(i)' = WrittenCue(i)
           /\ \A w, v : w = ParCues /\ v = ParCues' =>
                  /\ DOMAIN w = Pars /\ DOMAIN v = Pars'
                  /\ \A i \in Pars : w[i] = WrittenCue(i)
                  /\ \A i \in Pars' : v[i] = WrittenCue(i)'
  <1>1. Pars \subseteq 1..Len(doc)
    BY LastParIs
  <1>2. \A i \in Pars : ~Joins(tag, i, "text") /\ ~Joins(tag, i, "audio") =>
                            WrittenCue(i)' = WrittenCue(i)
    BY <1>1, WrittenAfter
  <1> QED
    BY <1>2 DEF ParCues

\* Taking up the open cue, the cues are those written up to the end.
LEMMA ReadUp ==
    ASSUME NEW m \in Nat, NEW p \in 0..m, NEW w, NEW r, NEW s, NEW c,
           Reads(p, w, m, r, s, c), \A k \in DOMAIN w : k \in 1..p,
           p \in r => p \in DOMAIN w
    PROVE  Push(s, c) = Narrated(w, m)
  <1>1. CASE c = <<>>
    BY <1>1 DEF Reads, Push
  <1>2. CASE c # <<>>
    <2>1. c = <<w[p]>> /\ p \in DOMAIN w /\ s = Narrated(w, p - 1)
      BY <1>2 DEF Reads
    <2>2. p \in Nat \ {0}
      BY <2>1
    <2>3. Tells(w, p, s, Narrated(w, p))
      BY <2>1, <2>2, NarratedNext
    <2>4. PICK e : e = w[p]
      OBVIOUS
    <2>5. Says(e) <=> ~Silent(e)
      BY DEF Says, Silent
    <2>6. Push(s, c) = IF Says(e) THEN Append(s, e) ELSE s
      BY <1>2, <2>1, <2>4 DEF Push
    <2>7. Push(s, c) = Narrated(w, p)
      BY <2>1, <2>3, <2>4, <2>5, <2>6 DEF Tells
    <2>8. Narrated(w, m) = Narrated(w, p)
      BY NarratedRests
    <2> QED
      BY <2>7, <2>8
  <1> QED
    BY <1>1, <1>2

\* What a longer document says was said before, if pars say it before others.
LEMMA OuterKept ==
    ASSUME XmlInv, NEW tag, Grows(tag), OuterFirst'
    PROVE  OuterFirst
  <1>1. PICK m \in Nat : m = Len(doc) /\ DOMAIN doc = 1..m
    BY DEF XmlInv
  <1>2. \A kinds, names : Places(kinds, names) \subseteq Places(kinds, names)'
    BY PlacesGrow DEF PlacesMore
  <1>3. Places({"empty"}, {"par"}) = {}
    BY <1>2 DEF OuterFirst
  <1>4. ASSUME NEW j \in Places({"start", "empty"}, {"text", "audio"}), Enclosing(j, {"par"}) # {}
        PROVE  Nearest(j, {"par"}) = Greatest({i \in Pars : i < j})
    <2>1. j \in 1..m
      BY <1>1, <1>4 DEF Places
    <2>2. Enclosing(j, {"par"})' # {} /\ Nearest(j, {"par"})' = Nearest(j, {"par"})
      BY <1>1, <1>4, <2>1, EnclosingKept
    <2>3. j \in Places({"start", "empty"}, {"text", "audio"})'
      BY <1>2, <1>4
    <2>4. Nearest(j, {"par"})' = Greatest({i \in Pars' : i < j})
      BY <2>2, <2>3 DEF OuterFirst
    <2>5. \A i : i \in Pars' => i \in Pars \/ i = m + 1
      BY <1>1, PlacesGrow DEF PlacesMore, Pars
    <2>6. \A i : i \in Pars => i \in Pars'
      BY <1>2 DEF Pars
    <2>7. ~(m + 1 < j)
      BY <2>1
    <2>8. {i \in Pars' : i < j} = {i \in Pars : i < j}
      BY <2>5, <2>6, <2>7
    <2> QED
      BY <2>2, <2>4, <2>8
  <1> QED
    BY <1>3, <1>4 DEF OuterFirst

\* Cues that are read go on being read: the one that is open becomes d, and no
\* other is written anew.
LEMMA ReadOn ==
    ASSUME NEW m \in Nat, NEW p \in 0..m, NEW w, NEW v, NEW r, NEW q, NEW s, NEW c, NEW d,
           Reads(p, w, m, r, s, c), p \in q <=> p \in r, p \in r => p # 0,
           c = <<>> => d = <<>>, c # <<>> => d = <<v[p]>>, m + 1 \notin DOMAIN v,
           \A k \in 1..m : /\ k \in DOMAIN w <=> k \in DOMAIN v
                           /\ k \in DOMAIN w /\ (k = p => c = <<>>) => w[k] = v[k]
    PROVE  Reads(p, v, m + 1, q, s, d)
  <1>1. CASE c = <<>>
    <2>1. s = Narrated(w, m) /\ d = <<>> /\ p \notin q
      BY <1>1 DEF Reads
    <2>2. Narrated(w, m) = Narrated(v, m)
      BY <1>1, NarratedAlike
    <2>3. Narrated(v, m + 1) = Narrated(v, m)
      <3>1. m + 1 \in Nat /\ m \in 0..m + 1 /\ \A k \in 1..m + 1 : k > m => k = m + 1
        OBVIOUS
      <3> QED
        BY <3>1, NarratedRests
    <2> QED
      BY <2>1, <2>2, <2>3 DEF Reads
  <1>2. CASE c # <<>>
    <2>1. s = Narrated(w, p - 1) /\ d = <<v[p]>> /\ d # <<>> /\ p \in q /\ p \in Nat \ {0}
      BY <1>2 DEF Reads
    <2>2. p - 1 \in Nat /\ \A k \in 1..p - 1 : k \in 1..m /\ k # p
      BY <2>1
    <2>3. Narrated(w, p - 1) = Narrated(v, p - 1)
      BY <2>2, NarratedAlike
    <2> QED
      BY <2>1, <2>3 DEF Reads
  <1> QED
    BY <1>1, <1>2

\* An event that is no part of a cue, nor ends one, leaves them read.
LEMMA CuesPassed ==
    ASSUME XmlInv, XmlInv', NEW tag, Grows(tag), Opens(tag), CuesRead, UNCHANGED smilState,
           \/ tag.kind \in {"start", "empty"} /\ tag.name \notin {"par", "text", "audio"}
           \/ /\ tag.kind = "end" /\ tag.name # "par" /\ opened # <<>>
              /\ tag.name = doc[opened[Len(opened)]].name
    PROVE  CuesRead'
  <1>1. PICK m \in Nat : m = Len(doc) /\ Len(doc') = m + 1
    BY DEF Grows
  <1>2. PICK p, w, r : /\ p = LastPar /\ w = ParCues /\ r = Range(opened)
                       /\ Reads(p, w, m, r, cues, current)
    BY <1>1 DEF CuesRead
  <1>3. PICK v, q : v = ParCues' /\ q = Range(opened')
    OBVIOUS
  <1>4. /\ Pars \subseteq 1..m /\ p \in 0..m
        /\ p \in r => p # 0 /\ p \in Pars
    BY <1>1, <1>2, LastParIs
  <1>5. Pars' = Pars /\ LastPar' = p
    BY <1>1, <1>2, ParsAfter
  <1>6. /\ DOMAIN w = Pars /\ DOMAIN v = Pars
        /\ \A i \in Pars : w[i] = v[i]
    BY <1>2, <1>3, <1>5, WrittenStays DEF Joins
  <1>7. p \in q <=> p \in r
    <2>1. CASE tag.kind # "end"
      <3>1. q = r \/ q = r \cup {m + 1}
        BY <1>1, <1>2, <1>3, <2>1, RangeAfter
      <3> QED
        BY <1>4, <3>1
    <2>2. CASE tag.kind = "end"
      <3>1. PICK j : j = opened[Len(opened)]
        OBVIOUS
      <3>2. q = r \ {j} /\ doc[j].name # "par"
        BY <1>1, <1>2, <1>3, <2>2, <3>1, RangeAfter
      <3>3. p \in r => doc[p].name = "par"
        BY <1>4 DEF Pars, Places
      <3> QED
        BY <3>2, <3>3
    <2> QED
      BY <2>1, <2>2
  <1>8. PICK s, c : s = cues /\ c = current /\ cues' = s /\ current' = c
    BY DEF smilState
  <1>9. Reads(p, v, m + 1, q, s, c)
    <2>1. /\ Reads(p, w, m, r, s, c)
          /\ c # <<>> => c = <<v[p]>>
      BY <1>2, <1>4, <1>6, <1>8 DEF Reads
    <2>2. m + 1 \notin DOMAIN v
      BY <1>4, <1>6
    <2> QED
      BY <1>4, <1>6, <1>7, <2>1, <2>2, ReadOn
  <1> QED
    BY <1>1, <1>3, <1>5, <1>8, <1>9 DEF CuesRead

\* A text or an audio goes to the cue that is open, if one is.
LEMMA CuesJoined ==
    ASSUME XmlInv, XmlInv', NEW tag \in SmilTags, Grows(tag), Opens(tag), CuesRead, OuterFirst',
           tag.kind \in {"start", "empty"}, StartText(tag) \/ StartAudio(tag)
    PROVE  CuesRead'
  <1>1. PICK m \in Nat : m = Len(doc) /\ Len(doc') = m + 1
    BY DEF Grows
  <1>2. PICK p, w, r : /\ p = LastPar /\ w = ParCues /\ r = Range(opened)
                       /\ Reads(p, w, m, r, cues, current)
    BY <1>1 DEF CuesRead
  <1>3. PICK v, q : v = ParCues' /\ q = Range(opened')
    OBVIOUS
  <1>4. /\ Pars \subseteq 1..m /\ p \in 0..m
        /\ p \in r => p # 0 /\ p \in Pars /\ Inmost({"par"}) = p
    BY <1>1, <1>2, LastParIs
  <1>5. tag.name \in {"text", "audio"}
    BY DEF StartText, StartAudio
  <1>6. Pars' = Pars /\ LastPar' = p
    BY <1>1, <1>2, <1>5, ParsAfter
  <1>7. /\ DOMAIN w = Pars /\ DOMAIN v = Pars
        /\ \A i \in Pars : w[i] = WrittenCue(i) /\ v[i] = WrittenCue(i)'
        /\ \A i \in Pars : Inmost({"par"}) # i => w[i] = v[i]
    BY <1>2, <1>3, <1>6, WrittenStays DEF Joins
  <1>8. p \in q <=> p \in r
    <2>1. q = r \/ q = r \cup {m + 1}
      BY <1>1, <1>2, <1>3, RangeAfter
    <2> QED
      BY <1>4, <2>1
  <1>9. PICK s, c, d : s = cues /\ c = current /\ cues' = s /\ current' = d
    BY DEF StartText, StartAudio
  <1>10. Reads(p, w, m, r, s, c)
    BY <1>2, <1>9
  <1>11. CASE c = <<>>
    <2>1. d = <<>>
      <3>1. DOMAIN current = {}
        BY <1>9, <1>11
      <3> QED
        BY <1>9, <3>1 DEF StartText, StartAudio
    <2>2. ASSUME Inmost({"par"}) # 0 PROVE FALSE
      <3>1. PICK n : n = m + 1
        OBVIOUS
      <3>2. Nearest(n, {"par"})' = Inmost({"par"})
        BY <1>1, <3>1, EnclosingNew
      <3>3. Enclosing(n, {"par"})' # {}
        BY <2>2, <3>2 DEF Nearest
      <3>4. n \in Places({"start", "empty"}, {"text", "audio"})'
        BY <1>1, <1>5, <3>1, PlacesGrow DEF PlacesMore
      <3>5. Nearest(n, {"par"})' = Greatest({i \in Pars' : i < n})
        BY <3>3, <3>4 DEF OuterFirst
      <3>6. {i \in Pars' : i < n} = Pars
        <4>1. \A i \in Pars : i < n
          BY <1>4, <3>1
        <4> QED
          BY <1>6, <4>1
      <3>7. Pars # {} /\ Inmost({"par"}) \in r
        BY <1>2, <2>2, LastParIs
      <3>8. p = Inmost({"par"})
        BY <1>2, <3>2, <3>5, <3>6, <3>7 DEF LastPar
      <3> QED
        BY <1>10, <1>11, <3>7, <3>8 DEF Reads
    <2>3. \A i \in Pars : w[i] = v[i]
      BY <1>4, <1>7, <2>2
    <2>4. m + 1 \notin DOMAIN v
      BY <1>4, <1>7
    <2>5. Reads(p, v, m + 1, q, s, d)
      BY <1>4, <1>7, <1>8, <1>10, <1>11, <2>1, <2>3, <2>4, ReadOn
    <2> QED
      BY <1>1, <1>3, <1>6, <1>9, <2>5 DEF CuesRead
  <1>12. CASE c # <<>>
    <2>1. c = <<w[p]>> /\ p \in r
      BY <1>10, <1>12 DEF Reads
    <2>2. p \in Pars /\ Inmost({"par"}) = p /\ p \in 1..Len(doc)
      BY <1>1, <1>4, <2>1
    <2>3. PICK a, b : a = w[p] /\ b = v[p] /\ a = WrittenCue(p) /\ b = WrittenCue(p)'
      BY <1>7, <2>2
    <2>4. d = <<b>>
      <3>1. current = <<a>>
        BY <1>9, <2>1, <2>3
      <3>2. DOMAIN <<a>> = {1} /\ <<a>>[1] = a
        OBVIOUS
      <3>3. CASE StartText(tag)
        <4>1. HasText(tag, a, b)
          <5>1. Joins(tag, p, "text")
            BY <2>2, <3>3 DEF Joins, StartText
          <5> QED
            BY <2>2, <2>3, <5>1, WrittenAfter
        <4>2. d = [i \in {1} |-> [a EXCEPT !.text = ResolveSrc(Attribute(tag, "src", NoSrc))]]
          BY <1>9, <3>1, <3>2, <3>3 DEF StartText
        <4>3. d = [i \in {1} |-> b]
          BY <4>1, <4>2 DEF HasText, OtherText
        <4> QED
          BY <4>3
      <3>4. CASE StartAudio(tag)
        <4>1. HasAudio(tag, a, b)
          <5>1. Joins(tag, p, "audio")
            BY <2>2, <3>4 DEF Joins, StartAudio
          <5> QED
            BY <2>2, <2>3, <5>1, WrittenAfter
        <4>2. d = [i \in {1} |->
                     [a EXCEPT !.audio = ResolveSrc(Attribute(tag, "src", NoSrc)),
                               !.start = Clock(Attribute(tag, "clipBegin", NoClock)),
                               !.end = Clock(Attribute(tag, "clipEnd", NoClock))]]
          BY <1>9, <3>1, <3>2, <3>4 DEF StartAudio
        <4>3. d = [i \in {1} |-> b]
          BY <4>1, <4>2 DEF HasAudio, OtherAudio
        <4> QED
          BY <4>3
      <3> QED
        BY <3>3, <3>4
    <2>5. \A k \in Pars : k # p => w[k] = v[k]
      BY <1>7, <2>2
    <2>6. m + 1 \notin DOMAIN v
      BY <1>4, <1>7
    <2>7. \A k \in 1..m : /\ k \in DOMAIN w <=> k \in DOMAIN v
                          /\ k \in DOMAIN w /\ (k = p => c = <<>>) => w[k] = v[k]
      BY <1>7, <1>12, <2>5
    <2>8. d = <<v[p]>> /\ p # 0
      BY <2>2, <2>3, <2>4
    <2>9. Reads(p, v, m + 1, q, s, d)
      BY <1>4, <1>8, <1>10, <1>12, <2>6, <2>7, <2>8, ReadOn
    <2> QED
      BY <1>1, <1>3, <1>6, <1>9, <2>9 DEF CuesRead
  <1> QED
    BY <1>11, <1>12

\* A par that begins takes the place of one that is open, which is kept.
LEMMA CuesBegun ==
    ASSUME XmlInv, XmlInv', NEW tag, Grows(tag), Opens(tag), CuesRead,
           tag.kind = "start", StartPar(tag)
    PROVE  CuesRead'
  <1>1. PICK m \in Nat : m = Len(doc) /\ Len(doc') = m + 1
    BY DEF Grows
  <1>2. PICK p, w, r : /\ p = LastPar /\ w = ParCues /\ r = Range(opened)
                       /\ Reads(p, w, m, r, cues, current)
    BY <1>1 DEF CuesRead
  <1>3. PICK n \in Nat \ {0} : n = m + 1
    BY <1>1
  <1>4. PICK v, q : v = ParCues' /\ q = Range(opened')
    OBVIOUS
  <1>5. /\ Pars \subseteq 1..m /\ p \in 0..m /\ \A y \in Pars : y <= p
        /\ p \in r => p # 0 /\ p \in Pars
    BY <1>1, <1>2, LastParIs
  <1>6. tag.name = "par"
    BY DEF StartPar
  <1>7. Pars' = Pars \cup {n} /\ LastPar' = n
    BY <1>1, <1>3, <1>6, ParsAfter
  <1>8. /\ DOMAIN w = Pars /\ DOMAIN v = Pars \cup {n}
        /\ \A i \in Pars : w[i] = v[i]
        /\ v[n] = WrittenCue(n)'
    BY <1>2, <1>4, <1>6, <1>7, WrittenStays DEF Joins
  <1>9. v[n] = Cue(tag)
    BY <1>1, <1>3, <1>6, <1>8, WrittenNew
  <1>10. n \in q
    BY <1>1, <1>3, <1>4, RangeAfter
  <1>11. PICK s, c : s = cues /\ c = current
    OBVIOUS
  <1>12. cues' = Narrated(v, m)
    <2>0. \A y \in Pars : y \in 1..p
      BY <1>5
    <2>1. \A k \in DOMAIN w : k \in 1..p
      BY <1>8, <2>0
    <2>2. Push(s, c) = Narrated(w, m)
      BY <1>2, <1>5, <1>8, <1>11, <2>1, ReadUp
    <2>3. Narrated(w, m) = Narrated(v, m)
      <3>1. \A k \in 1..m : k # n
        BY <1>3
      <3> QED
        BY <1>8, <3>1, NarratedAlike
    <2> QED
      BY <1>11, <2>2, <2>3 DEF StartPar, Outer
  <1>13. current' = <<v[n]>>
    BY <1>9 DEF StartPar
  <1>14. PICK t, d : t = cues' /\ d = current'
    OBVIOUS
  <1>15. Reads(n, v, n, q, t, d)
    <2>1. d = <<v[n]>> /\ d # <<>> /\ n - 1 = m
      BY <1>3, <1>13, <1>14
    <2> QED
      BY <1>10, <1>12, <1>14, <2>1 DEF Reads
  <1> QED
    BY <1>1, <1>3, <1>4, <1>7, <1>14, <1>15 DEF CuesRead

\* The end of a par is that of the one that is open, if one is.
LEMMA CuesEnded ==
    ASSUME XmlInv, XmlInv', NEW tag, Grows(tag), Opens(tag), CuesRead,
           tag.kind = "end", tag.name = "par", opened # <<>>,
           tag.name = doc[opened[Len(opened)]].name,
           cues' = Push(cues, current), current' = <<>>
    PROVE  CuesRead'
  <1>1. PICK m \in Nat : m = Len(doc) /\ Len(doc') = m + 1
    BY DEF Grows
  <1>2. PICK p, w, r : /\ p = LastPar /\ w = ParCues /\ r = Range(opened)
                       /\ Reads(p, w, m, r, cues, current)
    BY <1>1 DEF CuesRead
  <1>3. PICK v, q : v = ParCues' /\ q = Range(opened')
    OBVIOUS
  <1>4. /\ Pars \subseteq 1..m /\ p \in 0..m /\ \A y \in Pars : y <= p
        /\ p \in r => p # 0 /\ p \in Pars
    BY <1>1, <1>2, LastParIs
  <1>5. Pars' = Pars /\ LastPar' = p
    BY <1>1, <1>2, ParsAfter
  <1>6. /\ DOMAIN w = Pars /\ DOMAIN v = Pars
        /\ \A i \in Pars : w[i] = v[i]
    BY <1>2, <1>3, <1>5, WrittenStays DEF Joins
  <1>7. p \notin q
    <2>1. PICK j : j = opened[Len(opened)]
      OBVIOUS
    <2>2. q = r \ {j} /\ j \in r
      BY <1>1, <1>2, <1>3, <2>1, RangeAfter
    <2>3. j \in Pars
      BY <1>2, <2>1, <2>2 DEF Pars, Places, XmlInv, Range
    <2>4. ASSUME p \in r PROVE p <= j
      <3>1. PICK z \in Nat \ {0} : z = Len(opened) /\ DOMAIN opened = 1..z
        BY DEF XmlInv
      <3>2. PICK k \in 1..z : p = opened[k]
        BY <1>2, <2>4, <3>1 DEF Range
      <3>3. k = z \/ k < z
        BY <3>1, <3>2
      <3>4. k < z => p < j
        <4>1. \A x, y \in 1..z : x < y => opened[x] < opened[y]
          BY <3>1 DEF XmlInv
        <4>2. z \in 1..z
          OBVIOUS
        <4> QED
          BY <2>1, <3>1, <3>2, <4>1, <4>2
      <3>5. p \in Nat /\ j \in Nat
        BY <1>4, <2>3
      <3> QED
        BY <2>1, <3>1, <3>2, <3>3, <3>4, <3>5
    <2>5. j <= p /\ j \in Nat /\ p \in Nat
      BY <1>4, <2>3
    <2> QED
      BY <2>2, <2>4, <2>5
  <1>8. PICK s, c, t, d : s = cues /\ c = current /\ t = cues' /\ d = current'
    OBVIOUS
  <1>9. t = Narrated(v, m + 1) /\ d = <<>>
    <2>1. \A k \in DOMAIN w : k \in 1..p
      BY <1>4, <1>6
    <2>2. Push(s, c) = Narrated(w, m)
      BY <1>2, <1>4, <1>6, <1>8, <2>1, ReadUp
    <2>3. Narrated(w, m) = Narrated(v, m)
      BY <1>6, NarratedAlike
    <2>4. Narrated(v, m + 1) = Narrated(v, m)
      <3>1. /\ m + 1 \in Nat /\ m \in 0..m + 1
            /\ \A k \in 1..m + 1 : k > m => k \notin DOMAIN v
        BY <1>4, <1>6
      <3> QED
        BY <3>1, NarratedRests
    <2> QED
      BY <1>8, <2>2, <2>3, <2>4
  <1>10. Reads(p, v, m + 1, q, t, d)
    BY <1>7, <1>9 DEF Reads
  <1> QED
    BY <1>1, <1>3, <1>5, <1>8, <1>10 DEF CuesRead

\* An overlay: its cues are those written, as long as pars say theirs first.
CuesInv == reader = "smil" => XmlInv /\ (OuterFirst => CuesRead)

\* Reading is begun with no cue.
LEMMA CuesStart == Init => CuesInv
  <1> SUFFICES ASSUME Init PROVE XmlInv /\ CuesRead
    BY DEF CuesInv
  <1>1. XmlInv /\ doc = <<>> /\ opened = <<>> /\ cues = <<>> /\ current = <<>>
    BY XmlStarts DEF Init, XmlInit, SmilInit
  <1>2. DOMAIN doc = {} /\ DOMAIN opened = {} /\ Len(doc) = 0
    BY <1>1
  <1>3. PICK p, w, r : p = LastPar /\ w = ParCues /\ r = Range(opened)
    OBVIOUS
  <1>4. r = {}
    BY <1>2, <1>3 DEF Range
  <1>5. Narrated(w, 0) = <<>>
    BY NarratedNone
  <1>6. Reads(p, w, 0, r, cues, current)
    BY <1>1, <1>4, <1>5 DEF Reads
  <1> QED
    BY <1>1, <1>2, <1>3, <1>6 DEF CuesRead

\* Every event of an overlay keeps its cues read.
LEMMA CuesStep == CuesInv /\ [Next]_readerVars => CuesInv'
  <1> SUFFICES ASSUME CuesInv, [Next]_readerVars, reader = "smil"
               PROVE  XmlInv' /\ (OuterFirst' => CuesRead')
    <2>1. [Next]_readerVars => reader' = reader
      BY DEF Next, readerVars
    <2> QED
      BY <2>1 DEF CuesInv
  <1>1. XmlInv /\ (OuterFirst => CuesRead)
    BY DEF CuesInv
  <1>2. CASE UNCHANGED readerVars
    <2>1. UNCHANGED <<doc, opened, cues, current>>
      BY <1>2 DEF readerVars, xmlVars, smilState
    <2>2. XmlInv'
      BY <1>1, <2>1 DEF XmlInv
    <2>3. \A i, names : Enclosing(i, names)' = Enclosing(i, names)
      BY <2>1 DEF Enclosing
    <2>4. \A i, names : Nearest(i, names)' = Nearest(i, names)
      BY <2>3 DEF Nearest
    <2>5. \A kinds, names : Places(kinds, names)' = Places(kinds, names)
      BY <2>1 DEF Places
    <2>6. Pars' = Pars /\ LastPar' = LastPar
      BY <2>5 DEF Pars, LastPar
    <2>7. OuterFirst' <=> OuterFirst
      BY <2>3, <2>4, <2>5, <2>6 DEF OuterFirst
    <2>8. \A i, name : Members(i, name)' = Members(i, name)
      BY <2>4, <2>5 DEF Members
    <2>9. \A i, name : LastOf(i, name)' = LastOf(i, name)
      BY <2>1, <2>8 DEF LastOf
    <2>10. \A i : WrittenCue(i)' = WrittenCue(i)
      <3>1. \A i, name, attribute, absent :
               SaysLast(i, name, attribute, absent)' = SaysLast(i, name, attribute, absent)
        BY <2>9 DEF SaysLast, Attribute
      <3> SUFFICES ASSUME NEW i PROVE WrittenCue(i)' = WrittenCue(i)
        OBVIOUS
      <3>2. doc'[i] = doc[i]
        BY <2>1
      <3> QED
        BY <3>1, <3>2, WrittenAs
    <2>11. ParCues' = ParCues
      BY <2>6, <2>10 DEF ParCues
    <2>12. CuesRead => CuesRead'
      BY <2>1, <2>6, <2>11 DEF CuesRead
    <2> QED
      BY <1>1, <2>2, <2>7, <2>12
  <1>3. ASSUME NEW tag \in SmilTags, Hand(tag),
               StartPar(tag) \/ StartText(tag) \/ StartAudio(tag) \/ SmilIgnores(tag)
        PROVE  XmlInv' /\ (OuterFirst' => CuesRead')
    <2>1. Grows(tag) /\ Opens(tag) /\ XmlInv'
      BY <1>1, <1>3, Handed
    <2>2. tag.kind \in {"start", "empty"}
      BY SmilAssumption
    <2> SUFFICES ASSUME OuterFirst' PROVE CuesRead'
      BY <2>1
    <2>3. CuesRead
      BY <1>1, <2>1, OuterKept
    <2>4. CASE StartPar(tag)
      <3>1. tag.name = "par"
        BY <2>4 DEF StartPar
      <3>2. PICK n : n = Len(doc) + 1
        OBVIOUS
      <3>3. tag.kind = "empty" => n \in Places({"empty"}, {"par"})'
        BY <2>1, <3>1, <3>2, PlacesGrow DEF PlacesMore
      <3>4. tag.kind = "start"
        BY <2>2, <3>3 DEF OuterFirst
      <3> QED
        BY <1>1, <2>1, <2>3, <2>4, <3>4, CuesBegun
    <2>5. CASE StartText(tag) \/ StartAudio(tag)
      BY <1>1, <2>1, <2>2, <2>3, <2>5, CuesJoined
    <2>6. CASE SmilIgnores(tag)
      BY <1>1, <2>1, <2>2, <2>3, <2>6, CuesPassed DEF SmilIgnores
    <2> QED
      BY <1>3, <2>4, <2>5, <2>6
  <1>4. ASSUME NEW tag, tag = EndTag, opened # <<>>, SmilEnd(tag)
        PROVE  XmlInv' /\ (OuterFirst' => CuesRead')
    <2>1. Hand(tag)
      BY <1>4 DEF SmilEnd
    <2>2. Grows(tag) /\ Opens(tag) /\ XmlInv'
      BY <1>1, <2>1, Handed
    <2>3. tag.kind = "end" /\ tag.name = doc[opened[Len(opened)]].name
      BY <1>4 DEF EndTag, Tag, Last
    <2> SUFFICES ASSUME OuterFirst' PROVE CuesRead'
      BY <2>2
    <2>4. CuesRead
      BY <1>1, <2>2, OuterKept
    <2>5. CASE tag.name = "par"
      <3>1. cues' = Push(cues, current) /\ current' = <<>>
        BY <1>4, <2>5 DEF SmilEnd
      <3> QED
        BY <1>1, <1>4, <2>2, <2>3, <2>4, <2>5, <3>1, CuesEnded
    <2>6. CASE tag.name # "par"
      <3>1. UNCHANGED smilState
        BY <1>4, <2>6 DEF SmilEnd
      <3> QED
        BY <1>1, <1>4, <2>2, <2>3, <2>4, <2>6, <3>1, CuesPassed
    <2> QED
      BY <2>5, <2>6
  <1>5. CASE Next
    <2>1. SmilNext
      BY <1>5 DEF Next
    <2> QED
      BY <1>3, <1>4, <2>1 DEF SmilNext, SmilStart
  <1> QED
    BY <1>2, <1>5

\* Taking up the open cue and cutting at the cap, the cues are those written.
LEMMA CuesOfOverlay ==
    ASSUME XmlInv, OuterFirst => CuesRead, SmilInv
    PROVE  CuesAreWritten
  <1> SUFFICES ASSUME OuterFirst
               PROVE  LET said == Narrated(ParCues, Len(doc))
                      IN  Overlay = SubSeq(said, 1, IF Len(said) < MaxCues THEN Len(said) ELSE MaxCues)
    BY DEF CuesAreWritten, ParCues
  <1>1. PICK m \in Nat : m = Len(doc)
    BY DEF XmlInv
  <1>2. PICK p, w, r : /\ p = LastPar /\ w = ParCues /\ r = Range(opened)
                       /\ Reads(p, w, m, r, cues, current)
    BY <1>1 DEF CuesRead
  <1>3. /\ Pars \subseteq 1..m /\ p \in 0..m /\ \A y \in Pars : y <= p
        /\ p \in r => p # 0 /\ p \in Pars
    BY <1>1, <1>2, LastParIs
  <1>4. DOMAIN w = Pars
    BY <1>2 DEF ParCues
  <1>5. PICK said : said = Narrated(w, m)
    OBVIOUS
  <1>6. Overlay = said
    <2>1. PICK s, c : s = cues /\ c = current
      OBVIOUS
    <2>2. \A y \in Pars : y \in 1..p
      BY <1>3
    <2>3. Reads(p, w, m, r, s, c) /\ (p \in r => p \in DOMAIN w)
      BY <1>2, <1>3, <1>4, <2>1
    <2>4. \A k \in DOMAIN w : k \in 1..p
      BY <1>4, <2>2
    <2>5. Push(s, c) = said
      BY <1>3, <1>5, <2>3, <2>4, ReadUp
    <2> QED
      BY <2>1, <2>5 DEF Overlay
  <1>7. PICK X : cues \in Seq(CueOf(X)) /\ current \in Seq(CueOf(X))
    BY DEF SmilInv
  <1>8. said \in Seq(CueOf(X))
    BY <1>6, <1>7, Pushed DEF Overlay
  <1>9. Len(said) <= MaxCues /\ Len(said) \in Nat /\ MaxCues \in Nat
    BY <1>6, <1>8, SmilBounded, CueCap DEF CuesBounded
  <1>10. SubSeq(said, 1, Len(said)) = said
    BY <1>8
  <1>11. (IF Len(said) < MaxCues THEN Len(said) ELSE MaxCues) = Len(said)
    BY <1>9
  <1> QED
    BY <1>1, <1>2, <1>5, <1>6, <1>10, <1>11

\* OverlayIsRead always holds: wherever an overlay ends or breaks, its cues are
\* the pars that narrate something, in order and up to the cap, each with its
\* own text, audio and times (smil.rs parse_overlay and push).
THEOREM OverlayIsAlwaysRead == Spec => []OverlayIsRead
  <1>1. Init => CuesInv /\ NavInv /\ SmilInv
    BY CuesStart, NavStarts, SmilStarts DEF Init
  <1>2. CuesInv /\ NavInv /\ SmilInv /\ [Next]_readerVars => CuesInv' /\ (NavInv /\ SmilInv)'
    BY CuesStep, CapsStep
  <1>3. CuesInv /\ SmilInv => OverlayIsRead
    BY CuesOfOverlay DEF CuesInv, OverlayIsRead
  <1> QED
    BY <1>1, <1>2, <1>3, PTL DEF Spec, readerVars
=============================================================================
