--------------------------- MODULE Package_proofs ---------------------------
(***************************************************************************)
(* What the reader of the package document makes of it, for every set of   *)
(* tags and entities and every length of a document.                       *)
(*                                                                         *)
(* PackageInv says that the sections, the manifest and the spine read so   *)
(* far are those of the document so far, and why a document was refused.   *)
(* MetadataInv says the same of the metadata: what is stored are the       *)
(* elements that are closed (Stores), and the one that is collected is the *)
(* innermost that is open, with the text read so far (Collects).  What     *)
(* finish_metadata and derive then compute of that is a matter of lists    *)
(* (List, Picked, FirstOf).                                                *)
(***************************************************************************)
EXTENDS Readers_proofs

-----------------------------------------------------------------------------
(* Some places of a document in their order.                               *)

\* The places of a sequence are numbered.
LEMMA Ranged ==
    ASSUME NEW X, NEW s \in Seq(X) PROVE Len(s) \in Nat /\ DOMAIN s = 1..Len(s)
  OBVIOUS

\* What InOrder computes on the way.
IsOrder(S, n, P) ==
    P = [k \in 0..n |-> IF k = 0 THEN <<>>
                        ELSE IF k \in S THEN Append(P[k - 1], k) ELSE P[k - 1]]

\* The places up to one, and that one if it is one of them.
Includes(S, k, s, t) == t = IF k \in S THEN Append(s, k) ELSE s

\* What is in order up to each of the places 0 to n.
OrderedBy(S, n, P) ==
    P \in [0..n -> Seq(Nat)] /\ P[0] = <<>> /\ \A k \in 1..n : Includes(S, k, P[k - 1], P[k])

\* There is something that is ordered so.
LEMMA OrderRuns ==
    ASSUME NEW n \in Nat, NEW S
    PROVE  \E P : OrderedBy(S, n, P) /\ InOrder(S, n) = P[n]
  <1> DEFINE T == Seq(Nat)
             step == [x \in (1..n) \X T |-> IF x[1] \in S THEN Append(x[2], x[1]) ELSE x[2]]
             P == CHOOSE P : IsOrder(S, n, P)
  <1>1. \A i \in 1..n, b \in T : step[<<i, b>>] = IF i \in S THEN Append(b, i) ELSE b
    OBVIOUS
  <1>2. step \in [(1..n) \X T -> T]
    <2>1. ASSUME NEW i \in 1..n, NEW b \in T
          PROVE  (IF i \in S THEN Append(b, i) ELSE b) \in T
      <3>1. i \in Nat
        OBVIOUS
      <3>2. Append(b, i) \in T
        BY <3>1, Longer
      <3> QED
        BY <3>2
    <2> HIDE DEF T
    <2> QED
      BY <2>1
  <1>3. InOrder(S, n) = P[n]
    BY DEF InOrder, IsOrder
  <1>4. <<>> \in T
    OBVIOUS
  <1> HIDE DEF step, P
  <1>5. PICK f : Steps(n, T, <<>>, step, f)
    <2> HIDE DEF T
    <2> QED
      BY <1>2, <1>4, StepsExist
  <1>6. IsOrder(S, n, f)
    <2>1. f \in [0..n -> T] /\ f[0] = <<>> /\ \A i \in 1..n : f[i] = step[<<i, f[i - 1]>>]
      BY <1>5 DEF Steps
    <2>2. ASSUME NEW i \in 0..n, i # 0
          PROVE  f[i] = IF i \in S THEN Append(f[i - 1], i) ELSE f[i - 1]
      <3> HIDE DEF T
      <3>1. i \in 1..n /\ i - 1 \in 0..n
        BY <2>2
      <3>2. f[i - 1] \in T
        BY <2>1, <3>1
      <3> QED
        BY <1>1, <2>1, <3>1, <3>2
    <2> HIDE DEF T
    <2> QED
      BY <2>1, <2>2 DEF IsOrder
  <1>7. IsOrder(S, n, P)
    BY <1>6 DEF P
  <1> HIDE DEF T
  <1>8. P[0] = <<>> /\ \A i \in 1..n : P[i] = IF i \in S THEN Append(P[i - 1], i) ELSE P[i - 1]
    <2>1. 0 \in 0..n /\ \A i \in 1..n : i \in 0..n /\ i # 0
      OBVIOUS
    <2> QED
      BY <1>7, <2>1 DEF IsOrder
  <1>9. Steps(n, T, <<>>, step, P)
    <2>1. ASSUME NEW i \in 1..n, P[i - 1] \in T PROVE P[i] = step[<<i, P[i - 1]>>]
      BY <1>1, <1>8, <2>1
    <2>2. P = [i \in 0..n |-> P[i]] /\ P[0] = <<>>
      BY <1>7, <1>8 DEF IsOrder
    <2> QED
      BY <1>2, <1>4, <2>1, <2>2, StepsFound
  <1>10. OrderedBy(S, n, P)
    BY <1>8, <1>9 DEF Steps, T, OrderedBy, Includes
  <1> QED
    BY <1>3, <1>10

\* There is but one, whatever is beyond the place.
LEMMA OrderOnce ==
    ASSUME NEW n \in Nat, NEW S, NEW T, NEW P, NEW Q, OrderedBy(S, n, P),
           NEW m \in 0..n, OrderedBy(T, m, Q), \A k \in 1..m : k \in S <=> k \in T
    PROVE  Q[m] = P[m]
  <1> DEFINE G == {k \in 0..m : Q[k] = P[k]}
  <1>1. 0 \in G
    BY DEF OrderedBy
  <1>2. ASSUME NEW k \in 1..m, k - 1 \in G PROVE k \in G
    <2>1. Includes(S, k, P[k - 1], P[k]) /\ Includes(T, k, Q[k - 1], Q[k])
      <3>1. k \in 1..n
        OBVIOUS
      <3> QED
        BY <3>1 DEF OrderedBy
    <2>2. P[k - 1] = Q[k - 1] /\ k \in 0..m
      BY <1>2
    <2> QED
      BY <2>1, <2>2 DEF Includes
  <1> HIDE DEF G
  <1>3. m \in Nat /\ m \in 0..m
    OBVIOUS
  <1>4. \A k \in 0..m : k \in G
    BY <1>1, <1>2, <1>3, UpTo
  <1> QED
    BY <1>3, <1>4 DEF G

\* There are none before the first place.
LEMMA OrderNone ==
    ASSUME NEW S PROVE InOrder(S, 0) = <<>>
  BY OrderRuns DEF OrderedBy

\* Those up to a place are those up to the one before, and that one.
LEMMA OrderNext ==
    ASSUME NEW S, NEW n \in Nat \ {0}
    PROVE  InOrder(S, n) = IF n \in S THEN Append(InOrder(S, n - 1), n) ELSE InOrder(S, n - 1)
  <1>1. n \in Nat /\ n - 1 \in Nat /\ n - 1 \in 0..n /\ n \in 1..n
    OBVIOUS
  <1>2. PICK P : OrderedBy(S, n, P) /\ InOrder(S, n) = P[n]
    BY <1>1, OrderRuns
  <1>3. PICK Q : OrderedBy(S, n - 1, Q) /\ InOrder(S, n - 1) = Q[n - 1]
    BY <1>1, OrderRuns
  <1>4. Q[n - 1] = P[n - 1]
    BY <1>1, <1>2, <1>3, OrderOnce
  <1> QED
    BY <1>1, <1>2, <1>3, <1>4 DEF OrderedBy, Includes

\* They depend on nothing beyond.
LEMMA OrderAlike ==
    ASSUME NEW S, NEW T, NEW n \in Nat, \A k \in 1..n : k \in S <=> k \in T
    PROVE  InOrder(S, n) = InOrder(T, n)
  <1>1. PICK P : OrderedBy(S, n, P) /\ InOrder(S, n) = P[n]
    BY OrderRuns
  <1>2. PICK Q : OrderedBy(T, n, Q) /\ InOrder(T, n) = Q[n]
    BY OrderRuns
  <1>3. n \in 0..n
    OBVIOUS
  <1> QED
    BY <1>1, <1>2, <1>3, OrderOnce

\* The places of a set up to one, each of them once, in their order.
Orders(S, n, s) ==
    /\ s \in Seq(Nat)
    /\ \A k \in 1..Len(s) : s[k] \in S /\ s[k] \in 1..n
    /\ \A k, l \in 1..Len(s) : k < l => s[k] < s[l]
    /\ \A i \in 1..n : i \in S => \E k \in 1..Len(s) : s[k] = i

\* That is what they are.
LEMMA OrderIs ==
    ASSUME NEW S, NEW n \in Nat
    PROVE  Orders(S, n, InOrder(S, n))
  <1> DEFINE G == {m \in 0..n : Orders(S, m, InOrder(S, m))}
  <1>1. 0 \in G
    <2>1. Orders(S, 0, <<>>)
      BY DEF Orders
    <2> QED
      BY <2>1, OrderNone
  <1>2. ASSUME NEW m \in 1..n, m - 1 \in G PROVE m \in G
    <2>1. PICK s, t : s = InOrder(S, m - 1) /\ t = InOrder(S, m)
      OBVIOUS
    <2>2. Orders(S, m - 1, s)
      BY <1>2, <2>1
    <2>3. t = IF m \in S THEN Append(s, m) ELSE s
      <3>1. m \in Nat \ {0}
        OBVIOUS
      <3> QED
        BY <2>1, <3>1, OrderNext
    <2>4. PICK l \in Nat : l = Len(s)
      BY <2>2 DEF Orders
    <2>5. Orders(S, m, t)
      <3>1. CASE m \in S
        <4>1. /\ t \in Seq(Nat) /\ Len(t) = l + 1 /\ t[l + 1] = m
              /\ \A k \in 1..l : t[k] = s[k]
          <5>1. s \in Seq(Nat) /\ m \in Nat
            BY <2>2 DEF Orders
          <5> QED
            BY <2>3, <2>4, <3>1, <5>1, Longer
        <4>2. \A k \in 1..l : s[k] \in S /\ s[k] \in 1..m - 1
          BY <2>2, <2>4 DEF Orders
        <4>3. \A k \in 1..Len(t) : k \in 1..l \/ k = l + 1
          BY <4>1
        <4>4. \A k \in 1..Len(t) : t[k] \in S /\ t[k] \in 1..m
          BY <3>1, <4>1, <4>2, <4>3
        <4>5. \A k, j \in 1..Len(t) : k < j => t[k] < t[j]
          <5> SUFFICES ASSUME NEW k \in 1..Len(t), NEW j \in 1..Len(t), k < j PROVE t[k] < t[j]
            OBVIOUS
          <5>1. k \in 1..l
            BY <4>1
          <5>2. CASE j \in 1..l
            BY <2>2, <2>4, <4>1, <5>1, <5>2 DEF Orders
          <5>3. CASE j = l + 1
            <6>1. s[k] \in 1..m - 1
              BY <4>2, <5>1
            <6> QED
              BY <4>1, <5>1, <5>3, <6>1
          <5> QED
            BY <4>3, <5>2, <5>3
        <4>6. ASSUME NEW i \in 1..m, i \in S PROVE \E k \in 1..Len(t) : t[k] = i
          <5>1. CASE i = m
            BY <4>1, <5>1
          <5>2. CASE i # m
            <6>1. i \in 1..m - 1
              BY <5>2
            <6>2. PICK k \in 1..l : s[k] = i
              BY <2>2, <2>4, <4>6, <6>1 DEF Orders
            <6> QED
              BY <4>1, <6>2
          <5> QED
            BY <5>1, <5>2
        <4> QED
          BY <4>1, <4>4, <4>5, <4>6 DEF Orders
      <3>2. CASE m \notin S
        <4>1. \A i \in 1..m : i \in S => i \in 1..m - 1
          BY <3>2
        <4>2. \A i \in 1..m - 1 : i \in 1..m
          OBVIOUS
        <4> QED
          BY <2>2, <2>3, <3>2, <4>1, <4>2 DEF Orders
      <3> QED
        BY <3>1, <3>2
    <2> QED
      BY <2>1, <2>5
  <1>3. \A m \in 0..n : m \in G
    <2> HIDE DEF G
    <2> QED
      BY <1>1, <1>2, UpTo
  <1> QED
    BY <1>3

\* A place beyond all others is the last.
LEMMA OrderMore ==
    ASSUME NEW S, NEW T, NEW n \in Nat, NEW i \in 1..n, i \notin S,
           \A k \in 1..n : k \in T <=> k \in S \/ k = i,
           \A k \in 1..n : k \in S => k < i
    PROVE  InOrder(T, n) = Append(InOrder(S, n), i)
  <1> DEFINE G == {m \in 0..n : m >= i => InOrder(T, m) = Append(InOrder(S, m), i)}
  <1>1. 0 \in G
    OBVIOUS
  <1>2. ASSUME NEW m \in 1..n, m - 1 \in G PROVE m \in G
    <2> SUFFICES ASSUME m >= i PROVE InOrder(T, m) = Append(InOrder(S, m), i)
      OBVIOUS
    <2>1. m \in Nat \ {0}
      OBVIOUS
    <2>2. /\ InOrder(T, m) = IF m \in T THEN Append(InOrder(T, m - 1), m) ELSE InOrder(T, m - 1)
          /\ InOrder(S, m) = IF m \in S THEN Append(InOrder(S, m - 1), m) ELSE InOrder(S, m - 1)
      BY <2>1, OrderNext
    <2>3. m \notin S
      OBVIOUS
    <2>4. CASE m = i
      <3>1. m - 1 \in Nat /\ \A k \in 1..m - 1 : k \in S <=> k \in T
        BY <2>4
      <3>2. InOrder(T, m - 1) = InOrder(S, m - 1)
        BY <3>1, OrderAlike
      <3> QED
        BY <2>2, <2>3, <2>4, <3>2
    <2>5. CASE m # i
      <3>1. m \notin T /\ m - 1 >= i
        BY <2>3, <2>5
      <3> QED
        BY <1>2, <2>2, <2>3, <3>1
    <2> QED
      BY <2>4, <2>5
  <1>3. \A m \in 0..n : m \in G
    <2> HIDE DEF G
    <2> QED
      BY <1>1, <1>2, UpTo
  <1>4. n \in 0..n /\ n >= i
    OBVIOUS
  <1> QED
    BY <1>3, <1>4

-----------------------------------------------------------------------------
(* What stands at some places, in their order.                             *)

List(S, n, f) == [k \in DOMAIN InOrder(S, n) |-> f[InOrder(S, n)[k]]]

\* Before the first place nothing does.
LEMMA ListNone ==
    ASSUME NEW S, NEW f PROVE List(S, 0, f) = <<>>
  <1>1. PICK s : s = InOrder(S, 0) /\ s = <<>>
    BY OrderNone
  <1>2. DOMAIN s = {}
    BY <1>1
  <1>3. List(S, 0, f) = [k \in DOMAIN s |-> f[s[k]]]
    BY <1>1 DEF List
  <1> QED
    BY <1>2, <1>3

\* With a place more, what stands there comes last.
LEMMA MappedMore ==
    ASSUME NEW f, NEW g, NEW s \in Seq(Nat), NEW i \in Nat,
           \A k \in 1..Len(s) : g[s[k]] = f[s[k]]
    PROVE  [k \in DOMAIN Append(s, i) |-> g[Append(s, i)[k]]]
               = Append([k \in DOMAIN s |-> f[s[k]]], g[i])
  <1>1. PICK l \in Nat : l = Len(s) /\ DOMAIN s = 1..l
    OBVIOUS
  <1>2. PICK t : t = Append(s, i)
    OBVIOUS
  <1>3. /\ t \in Seq(Nat) /\ Len(t) = l + 1 /\ t[l + 1] = i /\ \A k \in 1..l : t[k] = s[k]
    BY <1>1, <1>2, Longer
  <1>4. DOMAIN t = 1..l + 1
    BY <1>3
  <1> DEFINE X == {f[s[k]] : k \in 1..l} \cup {g[i]}
  <1>5. PICK u : u = [k \in DOMAIN s |-> f[s[k]]]
    OBVIOUS
  <1>6. u \in Seq(X) /\ Len(u) = l /\ \A k \in 1..l : u[k] = f[s[k]]
    BY <1>1, <1>5
  <1>7. g[i] \in X
    OBVIOUS
  <1>8. PICK v : v = Append(u, g[i])
    OBVIOUS
  <1> HIDE DEF X
  <1>9. v \in Seq(X) /\ Len(v) = l + 1 /\ v[l + 1] = g[i] /\ \A k \in 1..l : v[k] = u[k]
    BY <1>6, <1>7, <1>8, Longer
  <1>10. PICK w : w = [k \in DOMAIN t |-> g[t[k]]]
    OBVIOUS
  <1>11. \A k \in 1..l + 1 : w[k] = v[k]
    <2> SUFFICES ASSUME NEW k \in 1..l + 1 PROVE w[k] = v[k]
      OBVIOUS
    <2>1. CASE k \in 1..l
      BY <1>1, <1>3, <1>4, <1>6, <1>9, <1>10, <2>1
    <2>2. CASE k = l + 1
      BY <1>3, <1>4, <1>9, <1>10, <2>2
    <2> QED
      BY <2>1, <2>2
  <1>12. v = w
    <2>1. DOMAIN v = 1..l + 1 /\ v = [k \in 1..l + 1 |-> v[k]]
      BY <1>9
    <2>2. DOMAIN w = 1..l + 1 /\ w = [k \in 1..l + 1 |-> w[k]]
      BY <1>4, <1>10
    <2> QED
      BY <1>11, <2>1, <2>2
  <1> QED
    BY <1>2, <1>5, <1>8, <1>10, <1>12

\* What is listed up to a place is what is up to the one before, and what
\* stands there.
LEMMA ListNext ==
    ASSUME NEW S, NEW f, NEW n \in Nat \ {0}
    PROVE  List(S, n, f) = IF n \in S THEN Append(List(S, n - 1, f), f[n]) ELSE List(S, n - 1, f)
  <1>1. PICK s, t : s = InOrder(S, n - 1) /\ t = InOrder(S, n)
    OBVIOUS
  <1>2. s \in Seq(Nat)
    <2>1. n - 1 \in Nat
      OBVIOUS
    <2> QED
      BY <1>1, <2>1, OrderIs DEF Orders
  <1>3. t = IF n \in S THEN Append(s, n) ELSE s
    BY <1>1, OrderNext
  <1>4. List(S, n, f) = [k \in DOMAIN t |-> f[t[k]]] /\ List(S, n - 1, f) = [k \in DOMAIN s |-> f[s[k]]]
    BY <1>1 DEF List
  <1>5. CASE n \in S
    BY <1>2, <1>3, <1>4, <1>5, MappedMore
  <1>6. CASE n \notin S
    BY <1>3, <1>4, <1>6
  <1> QED
    BY <1>5, <1>6

\* It depends on nothing but what stands at those places.
LEMMA ListAlike ==
    ASSUME NEW S, NEW T, NEW f, NEW g, NEW n \in Nat,
           \A k \in 1..n : k \in S <=> k \in T,
           \A k \in 1..n : k \in S => f[k] = g[k]
    PROVE  List(S, n, f) = List(T, n, g)
  <1>1. PICK s : s = InOrder(S, n)
    OBVIOUS
  <1>2. s = InOrder(T, n)
    BY <1>1, OrderAlike
  <1>3. s \in Seq(Nat) /\ \A k \in 1..Len(s) : s[k] \in S /\ s[k] \in 1..n
    BY <1>1, OrderIs DEF Orders
  <1>4. \A k \in DOMAIN s : f[s[k]] = g[s[k]]
    BY <1>3
  <1> QED
    BY <1>1, <1>2, <1>4 DEF List

\* What stands at a place beyond the others comes last.
LEMMA ListMore ==
    ASSUME NEW S, NEW T, NEW f, NEW g, NEW n \in Nat, NEW i \in 1..n, i \notin S,
           \A k \in 1..n : k \in T <=> k \in S \/ k = i,
           \A k \in 1..n : k \in S => k < i /\ f[k] = g[k]
    PROVE  List(T, n, g) = Append(List(S, n, f), g[i])
  <1>1. PICK s, t : s = InOrder(S, n) /\ t = InOrder(T, n)
    OBVIOUS
  <1>2. t = Append(s, i)
    BY <1>1, OrderMore
  <1>3. s \in Seq(Nat) /\ \A k \in 1..Len(s) : s[k] \in S /\ s[k] \in 1..n
    BY <1>1, OrderIs DEF Orders
  <1>4. \A k \in 1..Len(s) : g[s[k]] = f[s[k]]
    BY <1>3
  <1>5. i \in Nat
    OBVIOUS
  <1> QED
    BY <1>1, <1>2, <1>3, <1>4, <1>5, MappedMore DEF List

\* A list has the length of its places, and of each what stands there.
LEMMA ListIs ==
    ASSUME NEW S, NEW f, NEW n \in Nat, NEW X, \A k \in 1..n : k \in S => f[k] \in X
    PROVE  /\ List(S, n, f) \in Seq(X)
           /\ Len(List(S, n, f)) = Len(InOrder(S, n))
           /\ DOMAIN List(S, n, f) = DOMAIN InOrder(S, n)
           /\ \A k \in 1..Len(InOrder(S, n)) : List(S, n, f)[k] = f[InOrder(S, n)[k]]
  <1>1. PICK s : s = InOrder(S, n)
    OBVIOUS
  <1>2. s \in Seq(Nat) /\ \A k \in 1..Len(s) : s[k] \in S /\ s[k] \in 1..n
    BY <1>1, OrderIs DEF Orders
  <1>3. PICK t : t = [k \in DOMAIN s |-> f[s[k]]]
    OBVIOUS
  <1>4. \A k \in 1..Len(s) : f[s[k]] \in X
    BY <1>2
  <1>5. t \in Seq(X) /\ Len(t) = Len(s) /\ DOMAIN t = DOMAIN s /\ \A k \in 1..Len(s) : t[k] = f[s[k]]
    <2>1. PICK l \in Nat : l = Len(s) /\ DOMAIN s = 1..l
      BY <1>2
    <2>2. t \in [1..l -> X] /\ DOMAIN t = 1..l /\ \A k \in 1..l : t[k] = f[s[k]]
      BY <1>3, <1>4, <2>1
    <2>3. t \in Seq(X) /\ Len(t) = l
      BY <2>1, <2>2
    <2> QED
      BY <2>1, <2>2, <2>3
  <1> QED
    BY <1>1, <1>3, <1>5 DEF List

-----------------------------------------------------------------------------
(* The sections of a package.                                              *)

\* The section an event read now would stand in.
Here ==
    LET around == Around(Sections) IN IF around = {} THEN "" ELSE doc[Smallest(around)].name

\* An event that is read leaves the sections of the ones before it.
LEMMA SectionStays ==
    ASSUME XmlInv, NEW tag, Grows(tag), NEW i \in 1..Len(doc)
    PROVE  SectionOf(i)' = SectionOf(i)
  <1>1. Enclosing(i, Sections)' = Enclosing(i, Sections)
    BY EnclosingKept
  <1>2. \A j \in Enclosing(i, Sections) : j \in 1..Len(doc) /\ doc'[j] = doc[j]
    BY DEF Enclosing, XmlInv, Grows
  <1>3. PICK A : A = {j \in Enclosing(i, Sections) : doc[j].kind = "start"}
    OBVIOUS
  <1>4. {j \in Enclosing(i, Sections) : doc[j].kind = "start"}' = A
    BY <1>1, <1>2, <1>3
  <1>5. A # {} => doc'[Smallest(A)] = doc[Smallest(A)]
    <2> SUFFICES ASSUME A # {} PROVE doc'[Smallest(A)] = doc[Smallest(A)]
      OBVIOUS
    <2>1. \A j \in A : j \in 1..Len(doc) /\ doc'[j] = doc[j]
      BY <1>2, <1>3
    <2>2. A \subseteq Nat
      BY <2>1 DEF Grows
    <2>3. Smallest(A) \in A
      BY <2>2, SmallestExists
    <2> QED
      BY <2>1, <2>3
  <1> QED
    BY <1>3, <1>4, <1>5 DEF SectionOf

\* The event itself stands in the section that is open.
LEMMA SectionNew ==
    ASSUME XmlInv, NEW tag, Grows(tag), NEW n, n = Len(doc) + 1
    PROVE  SectionOf(n)' = Here
  <1>1. doc'[n].within = opened
    BY DEF Grows, Event
  <1>2. \A k \in Range(opened) : doc'[k] = doc[k] /\ doc[k].kind = "start" /\ k \in Nat
    BY DEF XmlInv, Grows, Range
  <1>3. PICK A : A = Around(Sections)
    OBVIOUS
  <1>4. {j \in Enclosing(n, Sections) : doc[j].kind = "start"}' = A
    BY <1>1, <1>2, <1>3 DEF Enclosing, Around
  <1>5. A # {} => doc'[Smallest(A)] = doc[Smallest(A)]
    <2>1. \A j \in A : doc'[j] = doc[j] /\ j \in Nat
      BY <1>2, <1>3 DEF Around
    <2>2. A # {} => Smallest(A) \in A
      BY <2>1, SmallestExists
    <2> QED
      BY <2>1, <2>2
  <1> QED
    BY <1>3, <1>4, <1>5 DEF SectionOf, Here

\* What an event adds to the elements of a section.
SectionMore(tag, names, where) ==
    InSection(names, where)' =
        InSection(names, where)
        \cup {i \in {Len(doc) + 1} : tag.kind \in Tags /\ tag.name \in names /\ Here = where}

LEMMA SectionGrows ==
    ASSUME XmlInv, NEW tag, Grows(tag), NEW names, NEW where
    PROVE  SectionMore(tag, names, where)
  <1>1. PICK n : n = Len(doc) + 1
    OBVIOUS
  <1>2. Places(Tags, names)' =
           Places(Tags, names) \cup {i \in {n} : tag.kind \in Tags /\ tag.name \in names}
    BY <1>1, PlacesGrow DEF PlacesMore
  <1>3. \A i \in Places(Tags, names) : SectionOf(i)' = SectionOf(i)
    <2>1. \A i \in Places(Tags, names) : i \in 1..Len(doc)
      BY DEF Places, Grows
    <2> QED
      BY <2>1, SectionStays
  <1>4. SectionOf(n)' = Here
    BY <1>1, SectionNew
  <1>5. InSection(names, where)' = {i \in Places(Tags, names)' : SectionOf(i)' = where}
    BY DEF InSection
  <1>6. InSection(names, where) = {i \in Places(Tags, names) : SectionOf(i) = where}
    BY DEF InSection
  <1>7. InSection(names, where)' =
           InSection(names, where)
           \cup {i \in {n} : tag.kind \in Tags /\ tag.name \in names /\ Here = where}
    BY <1>2, <1>3, <1>4, <1>5, <1>6
  <1> QED
    BY <1>1, <1>7 DEF SectionMore

\* The section the parser is in, by the elements that are open.
Sectioned ==
    /\ elements = Len(opened)
    /\ section = "outside" => \A k \in DOMAIN opened : doc[opened[k]].name \notin Sections
    /\ section # "outside" =>
          /\ section \in Sections /\ sectionDepth \in DOMAIN opened
          /\ doc[opened[sectionDepth]].name = section
          /\ \A k \in DOMAIN opened : k < sectionDepth => doc[opened[k]].name \notin Sections

\* It is the one of the document.
LEMMA SectionHere ==
    ASSUME XmlInv, Sectioned
    PROVE  Here = IF section = "outside" THEN "" ELSE section
  <1>1. \A k \in DOMAIN opened : opened[k] \in Nat /\ DOMAIN opened \subseteq Nat
    BY DEF XmlInv
  <1>2. PICK A : A = Around(Sections)
    OBVIOUS
  <1>3. \A j : j \in A <=> \E k \in DOMAIN opened : j = opened[k] /\ doc[opened[k]].name \in Sections
    BY <1>2 DEF Around, Range
  <1>4. CASE section = "outside"
    <2>1. A = {}
      BY <1>3, <1>4 DEF Sectioned
    <2> QED
      BY <1>2, <1>4, <2>1 DEF Here
  <1>5. CASE section # "outside"
    <2>1. PICK d : d = sectionDepth
      OBVIOUS
    <2>2. /\ d \in DOMAIN opened /\ doc[opened[d]].name = section /\ section \in Sections
          /\ \A k \in DOMAIN opened : k < d => doc[opened[k]].name \notin Sections
      BY <1>5, <2>1 DEF Sectioned
    <2>3. opened[d] \in A
      BY <1>3, <2>2
    <2>4. \A j \in A : opened[d] <= j
      <3> SUFFICES ASSUME NEW j \in A PROVE opened[d] <= j
        OBVIOUS
      <3>1. PICK k \in DOMAIN opened : j = opened[k] /\ doc[opened[k]].name \in Sections
        BY <1>3
      <3>2. ~(k < d) /\ k \in Nat /\ d \in Nat
        BY <1>1, <2>2, <3>1
      <3>3. k = d \/ d < k
        BY <3>2
      <3>4. d < k => opened[d] < opened[k]
        BY <2>2 DEF XmlInv
      <3> QED
        BY <1>1, <2>2, <3>1, <3>3, <3>4
    <2>5. A \in SUBSET Nat
      BY <1>1, <1>3
    <2>6. Smallest(A) = opened[d]
      BY <2>3, <2>4, <2>5, SmallestIs
    <2> QED
      BY <1>2, <1>5, <2>2, <2>3, <2>6 DEF Here
  <1> QED
    BY <1>4, <1>5

\* The names of the elements that were open stay.
LEMMA OpenNames ==
    ASSUME XmlInv, NEW tag, Grows(tag), NEW k \in DOMAIN opened
    PROVE  doc'[opened[k]] = doc[opened[k]] /\ opened[k] \in 1..Len(doc)
  BY DEF XmlInv, Grows

\* An element that is opened enters its section or not.
LEMMA SectionedOpen ==
    ASSUME XmlInv, Sectioned, NEW tag, Grows(tag), Opens(tag), XmlInv',
           tag.kind \in {"start", "empty"},
           elements' = IF tag.kind = "empty" THEN elements ELSE elements + 1,
           section' = IF Enters(tag) THEN tag.name ELSE section,
           sectionDepth' = IF Enters(tag) THEN elements' ELSE sectionDepth
    PROVE  Sectioned'
  <1>1. PICK m \in Nat : m = Len(opened) /\ DOMAIN opened = 1..m /\ elements = m
    BY DEF Opens, Sectioned
  <1>2. \A k \in 1..m : doc'[opened[k]] = doc[opened[k]]
    BY <1>1, OpenNames
  <1>3. CASE tag.kind = "empty"
    <2>1. opened' = opened /\ elements' = elements
      BY <1>3 DEF Opens
    <2>2. section' = section /\ sectionDepth' = sectionDepth
      BY <1>3 DEF Enters
    <2> QED
      BY <1>1, <1>2, <2>1, <2>2 DEF Sectioned
  <1>4. CASE tag.kind = "start"
    <2>1. /\ Len(opened') = m + 1 /\ opened'[m + 1] = Len(doc) + 1
          /\ \A k \in 1..m : opened'[k] = opened[k]
      BY <1>1, <1>4 DEF Opens
    <2>2. DOMAIN opened' = 1..m + 1
      BY <2>1 DEF XmlInv
    <2>3. doc'[opened'[m + 1]].name = tag.name
      BY <2>1 DEF Grows, Event
    <2>4. \A k \in 1..m : doc'[opened'[k]] = doc[opened[k]]
      BY <1>2, <2>1
    <2>5. elements' = m + 1
      BY <1>1, <1>4
    <2>6. \A k \in 1..m + 1 : k \in 1..m \/ k = m + 1
      OBVIOUS
    <2>7. CASE Enters(tag)
      <3>1. section = "outside" /\ tag.name \in Sections /\ tag.name # "outside"
        BY <2>7 DEF Enters, Sections
      <3>2. \A k \in 1..m : doc[opened[k]].name \notin Sections
        BY <1>1, <3>1 DEF Sectioned
      <3>3. section' = tag.name /\ sectionDepth' = m + 1
        BY <2>5, <2>7
      <3>4. \A k \in 1..m + 1 : k < m + 1 => doc'[opened'[k]].name \notin Sections
        BY <2>4, <3>2
      <3> QED
        BY <2>1, <2>2, <2>3, <2>5, <3>1, <3>3, <3>4 DEF Sectioned
    <2>8. CASE ~Enters(tag)
      <3>1. section' = section /\ sectionDepth' = sectionDepth
        BY <2>8
      <3>2. CASE section = "outside"
        <4>1. tag.name \notin Sections
          BY <1>4, <2>8, <3>2 DEF Enters
        <4>2. \A k \in 1..m + 1 : doc'[opened'[k]].name \notin Sections
          BY <1>1, <2>3, <2>4, <2>6, <3>2, <4>1 DEF Sectioned
        <4> QED
          BY <2>1, <2>2, <2>5, <3>1, <3>2, <4>2 DEF Sectioned
      <3>3. CASE section # "outside"
        <4>1. PICK d : d = sectionDepth
          OBVIOUS
        <4>2. /\ section \in Sections /\ d \in 1..m /\ doc[opened[d]].name = section
              /\ \A k \in 1..m : k < d => doc[opened[k]].name \notin Sections
          BY <1>1, <3>3, <4>1 DEF Sectioned
        <4>3. \A k \in 1..m + 1 : k < d => k \in 1..m
          BY <4>2
        <4>4. d \in 1..m + 1 /\ doc'[opened'[d]].name = section
          BY <2>4, <4>2
        <4>5. \A k \in 1..m + 1 : k < d => doc'[opened'[k]].name \notin Sections
          BY <2>4, <4>2, <4>3
        <4> QED
          BY <2>1, <2>2, <2>5, <3>1, <3>3, <4>1, <4>2, <4>4, <4>5 DEF Sectioned
      <3> QED
        BY <3>2, <3>3
    <2> QED
      BY <2>7, <2>8
  <1> QED
    BY <1>3, <1>4

\* One that is closed leaves it or not.
LEMMA SectionedClose ==
    ASSUME XmlInv, Sectioned, NEW tag, Grows(tag), Opens(tag), XmlInv', opened # <<>>,
           tag.kind = "end", tag.name = doc[opened[Len(opened)]].name,
           section' = IF section # "outside" /\ elements = sectionDepth THEN "outside" ELSE section,
           elements' = IF elements = 0 THEN 0 ELSE elements - 1, sectionDepth' = sectionDepth
    PROVE  Sectioned'
  <1>1. PICK m \in Nat : m = Len(opened) /\ DOMAIN opened = 1..m /\ elements = m
    BY DEF Opens, Sectioned
  <1>2. /\ Len(opened') = m - 1 /\ m # 0 /\ m - 1 \in Nat
        /\ \A k \in 1..m - 1 : opened'[k] = opened[k]
    <2>1. m # 0
      BY <1>1 DEF XmlInv
    <2>2. /\ Len(opened') = Len(opened) - 1
          /\ \A k \in 1..Len(opened) - 1 : opened'[k] = opened[k]
      BY Zenon DEF Opens
    <2> QED
      BY <1>1, <2>1, <2>2
  <1>3. DOMAIN opened' = 1..m - 1
    BY <1>2 DEF XmlInv
  <1>4. \A k \in 1..m - 1 : k \in 1..m /\ doc'[opened'[k]] = doc[opened[k]]
    <2>1. \A k \in 1..m : doc'[opened[k]] = doc[opened[k]]
      BY <1>1, OpenNames
    <2>2. \A k \in 1..m - 1 : k \in 1..m
      OBVIOUS
    <2> QED
      BY <1>2, <2>1, <2>2
  <1>5. elements' = m - 1
    BY <1>1, <1>2
  <1>6. CASE section = "outside"
    <2>1. section' = "outside"
      BY <1>6
    <2>2. \A k \in 1..m - 1 : doc'[opened'[k]].name \notin Sections
      BY <1>1, <1>4, <1>6 DEF Sectioned
    <2> QED
      BY <1>2, <1>3, <1>5, <2>1, <2>2 DEF Sectioned
  <1>7. CASE section # "outside"
    <2>1. PICK d : d = sectionDepth
      OBVIOUS
    <2>2. /\ section \in Sections /\ d \in 1..m /\ doc[opened[d]].name = section
          /\ \A k \in 1..m : k < d => doc[opened[k]].name \notin Sections
      BY <1>1, <1>7, <2>1 DEF Sectioned
    <2>3. CASE d = m
      <3>1. section' = "outside"
        BY <1>1, <1>7, <2>1, <2>3
      <3>2. \A k \in 1..m - 1 : k < d
        BY <2>3
      <3>3. \A k \in 1..m - 1 : doc'[opened'[k]].name \notin Sections
        BY <1>4, <2>2, <3>2
      <3> QED
        BY <1>2, <1>3, <1>5, <3>1, <3>3 DEF Sectioned
    <2>4. CASE d # m
      <3>1. section' = section
        BY <1>1, <2>1, <2>4
      <3>2. d \in 1..m - 1
        BY <2>2, <2>4
      <3>3. doc'[opened'[d]].name = section
        BY <1>4, <2>2, <3>2
      <3>4. \A k \in 1..m - 1 : k < d => doc'[opened'[k]].name \notin Sections
        BY <1>4, <2>2
      <3> QED
        BY <1>2, <1>3, <1>5, <1>7, <2>1, <2>2, <3>1, <3>2, <3>3, <3>4 DEF Sectioned
    <2> QED
      BY <2>3, <2>4
  <1> QED
    BY <1>6, <1>7

\* A text or a document type changes nothing of it.
LEMMA SectionedPassed ==
    ASSUME XmlInv, Sectioned, NEW tag, Grows(tag), Opens(tag), tag.kind \notin {"start", "end"},
           UNCHANGED <<elements, section, sectionDepth>>
    PROVE  Sectioned'
  <1>1. opened' = opened
    BY DEF Opens
  <1>2. \A k \in DOMAIN opened : doc'[opened[k]] = doc[opened[k]]
    BY OpenNames
  <1> QED
    BY <1>1, <1>2 DEF Sectioned

-----------------------------------------------------------------------------
(* What the parser recognizes.                                             *)

\* The fields of a package.
Fields ==
    {"version", "unique_identifier_id", "manifest", "spine", "toc_idref", "cover_id", "entries"}
IsPackage(p) == DOMAIN p = Fields

\* The files and the reading order of a package are those of another.
SameBook(p, q) == q.manifest = p.manifest /\ q.spine = p.spine
SameEntries(p, q) == q.entries = p.entries

\* What is put into a package leaves the rest of it.
LEMMA Put ==
    ASSUME NEW p, IsPackage(p), NEW e, NEW f
    PROVE  /\ LET q == [p EXCEPT !.manifest = e]
              IN  IsPackage(q) /\ q.manifest = e /\ q.spine = p.spine /\ SameEntries(p, q)
           /\ LET q == [p EXCEPT !.spine = e]
              IN  IsPackage(q) /\ q.spine = e /\ q.manifest = p.manifest /\ SameEntries(p, q)
           /\ LET q == [p EXCEPT !.entries = e]
              IN  IsPackage(q) /\ q.entries = e /\ SameBook(p, q)
           /\ LET q == [p EXCEPT !.cover_id = e]
              IN  IsPackage(q) /\ SameBook(p, q) /\ SameEntries(p, q)
           /\ LET q == [p EXCEPT !.toc_idref = e]
              IN  IsPackage(q) /\ SameBook(p, q) /\ SameEntries(p, q)
           /\ LET q == [p EXCEPT !.version = e, !.unique_identifier_id = f]
              IN  IsPackage(q) /\ SameBook(p, q) /\ SameEntries(p, q)
  BY DEF IsPackage, Fields, SameBook, SameEntries

LEMMA PutManifest ==
    ASSUME NEW p, IsPackage(p), NEW e, NEW q, q = [p EXCEPT !.manifest = e]
    PROVE  IsPackage(q) /\ q.manifest = e /\ q.spine = p.spine
  BY Put
LEMMA PutSpine ==
    ASSUME NEW p, IsPackage(p), NEW e, NEW q, q = [p EXCEPT !.spine = e]
    PROVE  IsPackage(q) /\ q.spine = e /\ q.manifest = p.manifest
  BY Put
LEMMA PutEntries ==
    ASSUME NEW p, IsPackage(p), NEW e, NEW q, q = [p EXCEPT !.entries = e]
    PROVE  IsPackage(q) /\ q.entries = e /\ SameBook(p, q)
  BY Put

\* The items and the itemrefs of the document.
Items == InSection({"item"}, "manifest")
Refs == InSection({"itemref"}, "spine")
ItemAt == [i \in DOMAIN doc |-> ManifestItem(doc[i])]
RefAt == [i \in DOMAIN doc |-> SpineItem(doc[i])]

\* They are what was recognized.
BookRead ==
    /\ IsPackage(package)
    /\ package.manifest = List(Items, Len(doc), ItemAt)
    /\ package.spine = List(Refs, Len(doc), RefAt)

\* What an event adds to the places of a list that grows only at its end.
LEMMA ListAdds ==
    ASSUME NEW m \in Nat, NEW S, NEW H \in SUBSET {m + 1}, NEW f, NEW g,
           \A k \in S : k \in 1..m, \A k \in 1..m : k \in S => g[k] = f[k]
    PROVE  List(S \cup H, m + 1, g) =
               IF m + 1 \in H THEN Append(List(S, m, f), g[m + 1]) ELSE List(S, m, f)
  <1>1. PICK n \in Nat \ {0} : n = m + 1 /\ n - 1 = m
    OBVIOUS
  <1> DEFINE T == S \cup H
  <1>2. List(T, m + 1, g) = IF m + 1 \in T THEN Append(List(T, m, g), g[m + 1]) ELSE List(T, m, g)
    <2> HIDE DEF T
    <2>1. PICK U : U = T
      OBVIOUS
    <2>2. List(U, n, g) = IF n \in U THEN Append(List(U, n - 1, g), g[n]) ELSE List(U, n - 1, g)
      BY ListNext
    <2> QED
      BY <1>1, <2>1, <2>2
  <1>3. m + 1 \in T <=> m + 1 \in H
    <2>1. m + 1 \notin S
      OBVIOUS
    <2> QED
      BY <2>1
  <1>4. \A k \in 1..m : k \in T <=> k \in S
    OBVIOUS
  <1>5. \A k \in 1..m : k \in T => g[k] = f[k]
    BY <1>4
  <1>6. List(T, m, g) = List(S, m, f)
    BY <1>4, <1>5, ListAlike
  <1> QED
    BY <1>2, <1>3, <1>6

\* What an event adds to the items and the itemrefs.
LEMMA BookGrows ==
    ASSUME XmlInv, NEW tag, Grows(tag)
    PROVE  /\ List(Items, Len(doc), ItemAt)' =
                IF tag.kind \in Tags /\ tag.name = "item" /\ Here = "manifest"
                THEN Append(List(Items, Len(doc), ItemAt), ManifestItem(tag))
                ELSE List(Items, Len(doc), ItemAt)
           /\ List(Refs, Len(doc), RefAt)' =
                IF tag.kind \in Tags /\ tag.name = "itemref" /\ Here = "spine"
                THEN Append(List(Refs, Len(doc), RefAt), SpineItem(tag))
                ELSE List(Refs, Len(doc), RefAt)
  <1>1. PICK m \in Nat : m = Len(doc)
    BY DEF Grows
  <1>2. /\ Len(doc') = m + 1 /\ DOMAIN doc = 1..m /\ DOMAIN doc' = 1..m + 1
        /\ \A i \in 1..m : doc'[i] = doc[i]
        /\ doc'[m + 1].attrs = tag.attrs
    BY <1>1 DEF Grows, Event
  <1>3. ManifestItem(doc'[m + 1]) = ManifestItem(tag)
    BY <1>2 DEF ManifestItem, Attribute
  <1>4. SpineItem(doc'[m + 1]) = SpineItem(tag)
    BY <1>2 DEF SpineItem, Attribute
  <1>5. \A i, x : InSection({i}, x) \subseteq 1..m
    BY <1>2 DEF InSection, Places
  <1>6. PICK H : H = {i \in {m + 1} : tag.kind \in Tags /\ tag.name = "item" /\ Here = "manifest"}
    OBVIOUS
  <1>7. PICK G : G = {i \in {m + 1} : tag.kind \in Tags /\ tag.name = "itemref" /\ Here = "spine"}
    OBVIOUS
  <1>8. PICK S, T, f, g : S = Items /\ T = Items' /\ f = ItemAt /\ g = ItemAt'
    OBVIOUS
  <1>9. PICK U, V, h, j : U = Refs /\ V = Refs' /\ h = RefAt /\ j = RefAt'
    OBVIOUS
  <1>10. List(T, m + 1, g) = IF m + 1 \in H THEN Append(List(S, m, f), g[m + 1]) ELSE List(S, m, f)
    <2>1. T = S \cup H
      <3>1. SectionMore(tag, {"item"}, "manifest")
        BY SectionGrows
      <3>2. tag.name \in {"item"} <=> tag.name = "item"
        OBVIOUS
      <3> QED
        BY <1>1, <1>6, <1>8, <3>1, <3>2, Zenon DEF SectionMore, Items
    <2>2. \A k \in S : k \in 1..m
      BY <1>5, <1>8 DEF Items
    <2>3. \A k \in 1..m : g[k] = f[k]
      <3> SUFFICES ASSUME NEW k \in 1..m PROVE g[k] = f[k]
        OBVIOUS
      <3>1. k \in DOMAIN doc /\ k \in DOMAIN doc' /\ doc'[k] = doc[k]
        BY <1>2
      <3>2. ManifestItem(doc'[k]) = ManifestItem(doc[k])
        BY <3>1
      <3>3. g[k] = ManifestItem(doc'[k]) /\ f[k] = ManifestItem(doc[k])
        BY <1>8, <3>1 DEF ItemAt
      <3> QED
        BY <3>2, <3>3
    <2>4. H \in SUBSET {m + 1}
      BY <1>6
    <2> QED
      BY <2>1, <2>2, <2>3, <2>4, ListAdds
  <1>11. List(V, m + 1, j) = IF m + 1 \in G THEN Append(List(U, m, h), j[m + 1]) ELSE List(U, m, h)
    <2>1. V = U \cup G
      <3>1. SectionMore(tag, {"itemref"}, "spine")
        BY SectionGrows
      <3>2. tag.name \in {"itemref"} <=> tag.name = "itemref"
        OBVIOUS
      <3> QED
        BY <1>1, <1>7, <1>9, <3>1, <3>2, Zenon DEF SectionMore, Refs
    <2>2. \A k \in U : k \in 1..m
      BY <1>5, <1>9 DEF Refs
    <2>3. \A k \in 1..m : j[k] = h[k]
      <3> SUFFICES ASSUME NEW k \in 1..m PROVE j[k] = h[k]
        OBVIOUS
      <3>1. k \in DOMAIN doc /\ k \in DOMAIN doc' /\ doc'[k] = doc[k]
        BY <1>2
      <3>2. SpineItem(doc'[k]) = SpineItem(doc[k])
        BY <3>1
      <3>3. j[k] = SpineItem(doc'[k]) /\ h[k] = SpineItem(doc[k])
        BY <1>9, <3>1 DEF RefAt
      <3> QED
        BY <3>2, <3>3
    <2>4. G \in SUBSET {m + 1}
      BY <1>7
    <2> QED
      BY <2>1, <2>2, <2>3, <2>4, ListAdds
  <1>12. m + 1 \in DOMAIN doc'
    BY <1>2
  <1>13. g[m + 1] = ManifestItem(tag)
    BY <1>3, <1>8, <1>12 DEF ItemAt
  <1>14. j[m + 1] = SpineItem(tag)
    BY <1>4, <1>9, <1>12 DEF RefAt
  <1>15. List(Items, Len(doc), ItemAt)' = List(T, m + 1, g)
    BY <1>2, <1>8
  <1>16. List(Refs, Len(doc), RefAt)' = List(V, m + 1, j)
    BY <1>2, <1>9
  <1> QED
    BY <1>1, <1>6, <1>7, <1>8, <1>9, <1>10, <1>11, <1>13, <1>14, <1>15, <1>16

-----------------------------------------------------------------------------
(* What is accepted.                                                       *)

\* The elements of the document, and whether the first of them is a package.
Elements == {i \in DOMAIN doc : doc[i].kind \in Tags}
Rooted == Elements # {} /\ doc[Smallest(Elements)].name = "package"

\* A document type declares an entity.
Declares == \E i \in DOMAIN doc : doc[i].kind = "doctype" /\ Attribute(doc[i], "entity", FALSE)

\* The first element stays the first.
LEMMA RootGrows ==
    ASSUME NEW tag, Grows(tag)
    PROVE  /\ Elements = {} =>
                IF tag.kind \in Tags THEN Elements' # {} /\ (Rooted' <=> tag.name = "package")
                ELSE Elements' = {} /\ ~Rooted'
           /\ Elements # {} => Elements' # {} /\ (Rooted' <=> Rooted)
  <1>1. PICK m \in Nat : m = Len(doc)
    BY DEF Grows
  <1>2. /\ DOMAIN doc = 1..m /\ DOMAIN doc' = 1..m + 1 /\ \A i \in 1..m : doc'[i] = doc[i]
        /\ doc'[m + 1].name = tag.name /\ doc'[m + 1].kind = tag.kind
    BY <1>1 DEF Grows, Event
  <1>3. PICK E, F : E = Elements /\ F = Elements'
    OBVIOUS
  <1>4. E = {i \in 1..m : doc[i].kind \in Tags}
    BY <1>2, <1>3 DEF Elements
  <1>5. F = {i \in 1..m + 1 : doc'[i].kind \in Tags}
    BY <1>2, <1>3 DEF Elements
  <1>6. \A i \in 1..m + 1 : i \in 1..m \/ i = m + 1
    OBVIOUS
  <1>7. \A i : i \in F <=> i \in E \/ (i = m + 1 /\ tag.kind \in Tags)
    BY <1>2, <1>4, <1>5, <1>6
  <1>8. E \in SUBSET Nat /\ F \in SUBSET Nat
    BY <1>4, <1>5
  <1>9. Rooted <=> E # {} /\ doc[Smallest(E)].name = "package"
    BY <1>3 DEF Rooted
  <1>10. Rooted' <=> F # {} /\ doc'[Smallest(F)].name = "package"
    BY <1>3 DEF Rooted
  <1>11. CASE E = {}
    <2>1. CASE tag.kind \in Tags
      <3>1. m + 1 \in F /\ \A i \in F : i = m + 1
        BY <1>7, <1>11, <2>1
      <3>2. Smallest(F) = m + 1
        BY <1>8, <3>1, SmallestExists
      <3> QED
        BY <1>2, <1>3, <1>10, <1>11, <2>1, <3>1, <3>2
    <2>2. CASE tag.kind \notin Tags
      BY <1>3, <1>7, <1>10, <1>11, <2>2
    <2> QED
      BY <2>1, <2>2
  <1>12. CASE E # {}
    <2>1. Smallest(E) \in E /\ \A y \in E : Smallest(E) <= y
      BY <1>8, <1>12, SmallestExists
    <2>2. PICK e \in E : e = Smallest(E)
      BY <2>1
    <2>3. e \in 1..m /\ e \in F
      BY <1>4, <1>7, <2>2
    <2>4. \A y \in F : e <= y
      <3>1. \A y \in F : y \in E \/ y = m + 1
        BY <1>7
      <3> QED
        BY <2>1, <2>2, <2>3, <3>1
    <2>5. Smallest(F) = e
      BY <1>8, <2>3, <2>4, SmallestIs
    <2> QED
      BY <1>2, <1>3, <1>9, <1>10, <1>12, <2>2, <2>3, <2>5
  <1> QED
    BY <1>3, <1>11, <1>12

\* An entity is declared when it was before, or when the event declares it.
LEMMA DeclaresAfter ==
    ASSUME NEW tag, Grows(tag)
    PROVE  Declares' <=> Declares \/ (tag.kind = "doctype" /\ Attribute(tag, "entity", FALSE))
  <1>1. PICK m \in Nat : m = Len(doc)
    BY DEF Grows
  <1>2. /\ DOMAIN doc = 1..m /\ DOMAIN doc' = 1..m + 1 /\ \A i \in 1..m : doc'[i] = doc[i]
        /\ doc'[m + 1].kind = tag.kind /\ doc'[m + 1].attrs = tag.attrs
    BY <1>1 DEF Grows, Event
  <1>3. Attribute(doc'[m + 1], "entity", FALSE) = Attribute(tag, "entity", FALSE)
    BY <1>2 DEF Attribute
  <1>4. \A i : i \in 1..m + 1 <=> i \in 1..m \/ i = m + 1
    OBVIOUS
  <1>5. Declares <=> \E i \in 1..m : doc[i].kind = "doctype" /\ Attribute(doc[i], "entity", FALSE)
    BY <1>2 DEF Declares
  <1>6. Declares' <=> \E i \in 1..m + 1 : doc'[i].kind = "doctype" /\ Attribute(doc'[i], "entity", FALSE)
    BY <1>2 DEF Declares, Attribute
  <1> QED
    BY <1>2, <1>3, <1>4, <1>5, <1>6, Zenon

\* While it is not refused, the document has been read so far as what it is;
\* when it is, it is not to be accepted.
Recognized ==
    /\ ~Declares
    /\ sawPackage \in BOOLEAN
    /\ IF sawPackage THEN Rooted
       ELSE /\ Elements = {} /\ opened = <<>> /\ section = "outside" /\ collecting = <<>>
    /\ Sectioned /\ BookRead
PackageInv ==
    reader = "package" =>
        /\ XmlInv
        /\ error = "" => Recognized
        /\ error # "" => Declares \/ (Elements # {} /\ ~Rooted)

\* The events of a document are numbered.
LEMMA Length ==
    ASSUME XmlInv PROVE Len(doc) \in Nat /\ DOMAIN doc = 1..Len(doc)
  <1>1. PICK X : doc \in Seq(X)
    BY DEF XmlInv
  <1> QED
    BY <1>1

\* What is accepted has a reading order.
LEMMA Accepted == PackageInv /\ reader = "package" => AcceptedIsSound
  <1> SUFFICES ASSUME PackageInv, reader = "package" PROVE AcceptedIsSound
    OBVIOUS
  <1>1. /\ XmlInv
        /\ error = "" => Recognized
        /\ error # "" => Declares \/ (Elements # {} /\ ~Rooted)
    BY DEF PackageInv
  <1>2. AcceptedIsSound <=> (Verdict = "" <=> Rooted /\ Refs # {} /\ ~Declares)
    BY DEF AcceptedIsSound, Rooted, Elements, Refs, Declares
  <1>3. CASE error # ""
    BY <1>1, <1>2, <1>3 DEF Verdict, Rooted
  <1>4. CASE error = "" /\ ~sawPackage
    BY <1>1, <1>2, <1>4 DEF Verdict, Recognized, Rooted
  <1>5. CASE error = "" /\ sawPackage
    <2>1. ~Declares /\ Rooted /\ package.spine = List(Refs, Len(doc), RefAt)
      BY <1>1, <1>5 DEF Recognized, BookRead
    <2>2. Verdict = "" <=> package.spine # <<>>
      BY <1>5 DEF Verdict
    <2>3. PICK m \in Nat : m = Len(doc) /\ DOMAIN doc = 1..m
      BY <1>1, Length
    <2>4. PICK S, f, s : S = Refs /\ f = RefAt /\ s = InOrder(S, m)
      OBVIOUS
    <2>5. Orders(S, m, s)
      BY <2>4, OrderIs
    <2>6. List(S, m, f) = [k \in DOMAIN s |-> f[s[k]]]
      BY <2>4 DEF List
    <2>7. S \subseteq 1..m
      BY <2>3, <2>4 DEF Refs, InSection, Places
    <2>8. CASE S = {}
      <3>1. Len(s) \in Nat /\ ~ \E k \in 1..Len(s) : TRUE
        BY <2>5, <2>8 DEF Orders
      <3>2. DOMAIN s = {}
        BY <2>5, <3>1 DEF Orders
      <3>3. List(S, m, f) = <<>>
        BY <2>6, <3>2
      <3> QED
        BY <1>2, <2>1, <2>2, <2>3, <2>4, <2>8, <3>3
    <2>9. CASE S # {}
      <3>1. PICK k \in 1..Len(s) : s[k] \in S
        BY <2>5, <2>7, <2>9 DEF Orders
      <3>2. k \in DOMAIN s
        BY <2>5, <3>1 DEF Orders
      <3>3. List(S, m, f) # <<>>
        <4>1. DOMAIN List(S, m, f) # {}
          BY <2>6, <3>2
        <4>2. DOMAIN <<>> = {}
          OBVIOUS
        <4> QED
          BY <4>1, <4>2
      <3> QED
        BY <1>2, <2>1, <2>2, <2>3, <2>4, <2>9, <3>3
    <2> QED
      BY <2>8, <2>9
  <1>6. error # "" \/ sawPackage \/ ~sawPackage
    OBVIOUS
  <1> QED
    BY <1>3, <1>4, <1>5

\* The manifest and the spine are as written.
LEMMA BookWritten == PackageInv /\ reader = "package" => SectionsAreWritten
  <1> SUFFICES ASSUME PackageInv, reader = "package", error = ""
               PROVE  LET items == Sorted(Items)
                          refs == Sorted(Refs)
                      IN  /\ [n \in DOMAIN package.manifest |-> package.manifest[n].id]
                               = [n \in DOMAIN items |-> Attribute(doc[items[n]], "id", "")]
                          /\ package.spine = [n \in DOMAIN refs |->
                                  [idref |-> Attribute(doc[refs[n]], "idref", ""),
                                   linear |-> Attribute(doc[refs[n]], "linear", "yes") # "no"]]
    BY DEF SectionsAreWritten, Items, Refs
  <1>1. /\ XmlInv /\ package.manifest = List(Items, Len(doc), ItemAt)
        /\ package.spine = List(Refs, Len(doc), RefAt)
    BY DEF PackageInv, Recognized, BookRead
  <1>2. PICK m \in Nat : m = Len(doc) /\ DOMAIN doc = 1..m
    BY <1>1, Length
  <1>3. PICK items, refs : items = Sorted(Items) /\ refs = Sorted(Refs)
    OBVIOUS
  <1>4. /\ items = InOrder(Items, m) /\ refs = InOrder(Refs, m)
    BY <1>2, <1>3 DEF Sorted
  <1>5. /\ \A n \in DOMAIN items : items[n] \in 1..m
        /\ \A n \in DOMAIN refs : refs[n] \in 1..m
    <2>1. Orders(Items, m, items) /\ Orders(Refs, m, refs)
      BY <1>4, OrderIs
    <2>2. items \in Seq(Nat) /\ \A n \in 1..Len(items) : items[n] \in 1..m
      BY <2>1 DEF Orders
    <2>3. refs \in Seq(Nat) /\ \A n \in 1..Len(refs) : refs[n] \in 1..m
      BY <2>1 DEF Orders
    <2>4. items \in Seq(Nat) /\ refs \in Seq(Nat)
      BY <2>2, <2>3
    <2>5. DOMAIN items = 1..Len(items) /\ DOMAIN refs = 1..Len(refs)
      BY <2>4, Ranged
    <2> QED
      BY <2>2, <2>3, <2>5
  <1>6. package.manifest = [n \in DOMAIN items |-> ManifestItem(doc[items[n]])]
    <2>1. package.manifest = [n \in DOMAIN items |-> ItemAt[items[n]]]
      BY <1>1, <1>2, <1>4 DEF List
    <2>2. \A n \in DOMAIN items : ItemAt[items[n]] = ManifestItem(doc[items[n]])
      BY <1>2, <1>5 DEF ItemAt
    <2> QED
      BY <2>1, <2>2
  <1>7. package.spine = [n \in DOMAIN refs |-> SpineItem(doc[refs[n]])]
    <2>1. package.spine = [n \in DOMAIN refs |-> RefAt[refs[n]]]
      BY <1>1, <1>2, <1>4 DEF List
    <2>2. \A n \in DOMAIN refs : RefAt[refs[n]] = SpineItem(doc[refs[n]])
      BY <1>2, <1>5 DEF RefAt
    <2> QED
      BY <2>1, <2>2
  <1>8. \A i : ManifestItem(doc[i]).id = Attribute(doc[i], "id", "")
    BY DEF ManifestItem
  <1>9. \A i : SpineItem(doc[i]) = [idref |-> Attribute(doc[i], "idref", ""),
                                    linear |-> Attribute(doc[i], "linear", "yes") # "no"]
    BY DEF SpineItem, Attribute
  <1>10. [n \in DOMAIN package.manifest |-> package.manifest[n].id]
             = [n \in DOMAIN items |-> Attribute(doc[items[n]], "id", "")]
    BY <1>6, <1>8
  <1> QED
    BY <1>3, <1>7, <1>9, <1>10

-----------------------------------------------------------------------------
(* The steps of the parser.                                                *)

\* An element that is opened is recognized where it stands.
LEMMA BookOpened ==
    ASSUME XmlInv, Sectioned, BookRead, NEW tag, Grows(tag), tag.kind \in {"start", "empty"},
           IF section = "metadata" /\ ~Enters(tag) THEN OpenMetadata(tag) ELSE Recognize(tag)
    PROVE  BookRead'
  <1>1. PICK p, q : p = package /\ q = package'
    OBVIOUS
  <1>2. PICK i, r : i = List(Items, Len(doc), ItemAt) /\ r = List(Refs, Len(doc), RefAt)
    OBVIOUS
  <1>3. IsPackage(p) /\ p.manifest = i /\ p.spine = r
    BY <1>1, <1>2 DEF BookRead
  <1>4. Here = IF section = "outside" THEN "" ELSE section
    BY SectionHere
  <1>5. tag.kind \in Tags
    BY DEF Tags
  <1>6. /\ List(Items, Len(doc), ItemAt)' =
                IF tag.name = "item" /\ section = "manifest" THEN Append(i, ManifestItem(tag)) ELSE i
        /\ List(Refs, Len(doc), RefAt)' =
                IF tag.name = "itemref" /\ section = "spine" THEN Append(r, SpineItem(tag)) ELSE r
    <2>1. Here = "manifest" <=> section = "manifest"
      BY <1>4
    <2>2. Here = "spine" <=> section = "spine"
      BY <1>4
    <2> QED
      BY <1>2, <1>5, <2>1, <2>2, BookGrows
  <1>7. SUFFICES /\ IsPackage(q)
                 /\ q.manifest = IF tag.name = "item" /\ section = "manifest"
                                 THEN Append(i, ManifestItem(tag)) ELSE i
                 /\ q.spine = IF tag.name = "itemref" /\ section = "spine"
                              THEN Append(r, SpineItem(tag)) ELSE r
    BY <1>1, <1>6 DEF BookRead
  <1>8. CASE section = "metadata" /\ ~Enters(tag)
    <2>1. \/ q = p
          \/ \E c : q = [p EXCEPT !.cover_id = c]
          \/ \E e : q = [p EXCEPT !.entries = e]
      BY <1>1, <1>8, Zenon DEF OpenMetadata
    <2>2. IsPackage(q) /\ SameBook(p, q)
      <3>1. CASE q = p
        BY <1>3, <3>1 DEF SameBook
      <3>2. CASE \E c : q = [p EXCEPT !.cover_id = c]
        <4>1. PICK c : q = [p EXCEPT !.cover_id = c]
          BY <3>2
        <4> QED
          BY <1>3, <4>1, Put
      <3>3. CASE \E e : q = [p EXCEPT !.entries = e]
        <4>1. PICK e : q = [p EXCEPT !.entries = e]
          BY <3>3
        <4> QED
          BY <1>3, <4>1, Put
      <3> QED
        BY <2>1, <3>1, <3>2, <3>3
    <2> QED
      BY <1>3, <1>8, <2>2 DEF SameBook
  <1>9. CASE Enters(tag)
    <2>1. section = "outside"
      BY <1>9 DEF Enters
    <2>2. q = p \/ \E t : q = [p EXCEPT !.toc_idref = t]
      <3>1. Recognize(tag)
        BY <1>9
      <3>2. q = IF tag.name = "spine" THEN [p EXCEPT !.toc_idref = Attribute(tag, "toc", "")] ELSE p
        BY <1>1, <1>9, <2>1, <3>1 DEF Recognize
      <3> QED
        BY <3>2
    <2>3. IsPackage(q) /\ SameBook(p, q)
      <3>1. CASE q = p
        BY <1>3, <3>1 DEF SameBook
      <3>2. CASE \E t : q = [p EXCEPT !.toc_idref = t]
        <4>1. PICK t : q = [p EXCEPT !.toc_idref = t]
          BY <3>2
        <4> QED
          BY <1>3, <4>1, Put
      <3> QED
        BY <2>2, <3>1, <3>2
    <2> QED
      BY <1>3, <2>1, <2>3 DEF SameBook
  <1>10. CASE ~Enters(tag) /\ section = "manifest" /\ tag.name = "item"
    <2>1. PICK e : e = Append(p.manifest, ManifestItem(tag)) /\ q = [p EXCEPT !.manifest = e]
      BY <1>1, <1>10 DEF Recognize
    <2>2. IsPackage(q) /\ q.manifest = Append(p.manifest, ManifestItem(tag)) /\ q.spine = p.spine
      <3>1. IsPackage(p)
        BY <1>3
      <3>2. q = [p EXCEPT !.manifest = e]
        BY <2>1
      <3>3. IsPackage(q) /\ q.manifest = e /\ q.spine = p.spine
        BY <3>1, <3>2, PutManifest
      <3> QED
        BY <2>1, <3>3
    <2> QED
      BY <1>3, <1>10, <2>2
  <1>11. CASE ~Enters(tag) /\ section = "spine" /\ tag.name = "itemref"
    <2>1. PICK e : e = Append(p.spine, SpineItem(tag)) /\ q = [p EXCEPT !.spine = e]
      BY <1>1, <1>11 DEF Recognize
    <2>2. IsPackage(q) /\ q.spine = Append(p.spine, SpineItem(tag)) /\ q.manifest = p.manifest
      <3>1. IsPackage(p)
        BY <1>3
      <3>2. q = [p EXCEPT !.spine = e]
        BY <2>1
      <3>3. IsPackage(q) /\ q.spine = e /\ q.manifest = p.manifest
        BY <3>1, <3>2, PutSpine
      <3> QED
        BY <2>1, <3>3
    <2> QED
      BY <1>3, <1>11, <2>2
  <1>12. CASE /\ ~Enters(tag) /\ section # "metadata"
              /\ ~(section = "manifest" /\ tag.name = "item")
              /\ ~(section = "spine" /\ tag.name = "itemref")
    <2>1. q = p
      BY <1>1, <1>12 DEF Recognize
    <2> QED
      BY <1>3, <1>12, <2>1
  <1> QED
    BY <1>8, <1>9, <1>10, <1>11, <1>12

\* What is no element of a section leaves the book.
LEMMA BookPassed ==
    ASSUME XmlInv, BookRead, NEW tag, Grows(tag), tag.kind \notin Tags \/ Here = "",
           IsPackage(package'), SameBook(package, package')
    PROVE  BookRead'
  <1>1. /\ List(Items, Len(doc), ItemAt)' = List(Items, Len(doc), ItemAt)
        /\ List(Refs, Len(doc), RefAt)' = List(Refs, Len(doc), RefAt)
    BY BookGrows
  <1> QED
    BY <1>1 DEF BookRead, SameBook

\* A document is begun with nothing read.
LEMMA PackageStarts == Init => PackageInv
  <1> SUFFICES ASSUME Init PROVE PackageInv
    OBVIOUS
  <1>1. XmlInv
    BY XmlStarts DEF Init
  <1>2. doc = <<>> /\ opened = <<>> /\ OpfInit
    BY DEF Init, XmlInit
  <1>3. DOMAIN doc = {} /\ DOMAIN opened = {} /\ Len(doc) = 0 /\ Len(opened) = 0
    BY <1>2
  <1>4. Elements = {} /\ ~Declares
    BY <1>3 DEF Elements, Declares
  <1>5. Sectioned
    BY <1>2, <1>3 DEF Sectioned, OpfInit
  <1>6. BookRead
    <2>1. List(Items, Len(doc), ItemAt) = <<>> /\ List(Refs, Len(doc), RefAt) = <<>>
      BY <1>3, ListNone
    <2>2. package = NoPackage
      BY <1>2 DEF OpfInit
    <2> QED
      BY <2>1, <2>2 DEF BookRead, IsPackage, NoPackage, Fields
  <1> QED
    BY <1>1, <1>2, <1>4, <1>5, <1>6 DEF PackageInv, Recognized, OpfInit

\* Every event of a package document keeps it recognized.
LEMMA PackageSteps == PackageInv /\ [Next]_readerVars => PackageInv'
  <1> SUFFICES ASSUME PackageInv, [Next]_readerVars, reader = "package" PROVE PackageInv'
    <2>1. [Next]_readerVars => reader' = reader
      BY DEF Next, readerVars
    <2> QED
      BY <2>1 DEF PackageInv
  <1>1. /\ XmlInv
        /\ error = "" => Recognized
        /\ error # "" => Declares \/ (Elements # {} /\ ~Rooted)
    BY DEF PackageInv
  <1>2. CASE UNCHANGED readerVars
    <2>1. UNCHANGED <<reader, doc, opened>> /\ UNCHANGED opfState
      BY <1>2 DEF readerVars, xmlVars
    <2>2. XmlInv'
      BY <1>1, <2>1 DEF XmlInv
    <2>3. Elements' = Elements /\ (Rooted' <=> Rooted) /\ (Declares' <=> Declares)
      BY <2>1 DEF Elements, Rooted, Declares, Attribute
    <2>4. Sectioned' <=> Sectioned
      BY <2>1 DEF Sectioned, opfState
    <2>5. Items' = Items /\ Refs' = Refs
      <3>1. \A i, names : Enclosing(i, names)' = Enclosing(i, names)
        BY <2>1 DEF Enclosing
      <3>2. \A i : SectionOf(i)' = SectionOf(i)
        BY <2>1, <3>1 DEF SectionOf
      <3>3. \A kinds, names : Places(kinds, names)' = Places(kinds, names)
        BY <2>1 DEF Places
      <3> QED
        BY <3>2, <3>3 DEF Items, Refs, InSection
    <2>6. ItemAt' = ItemAt /\ RefAt' = RefAt
      BY <2>1 DEF ItemAt, RefAt, ManifestItem, SpineItem, Attribute
    <2>7. BookRead' <=> BookRead
      BY <2>1, <2>5, <2>6 DEF BookRead, opfState
    <2>8. Recognized' <=> Recognized
      BY <2>1, <2>3, <2>4, <2>7 DEF Recognized, opfState
    <2>9. error' = error
      BY <2>1 DEF opfState
    <2> QED
      BY <1>1, <2>1, <2>2, <2>3, <2>8, <2>9 DEF PackageInv
  <1>3. ASSUME doc = <<>>, PackageDoctype PROVE PackageInv'
    <2>1. PICK tag \in PackageTags :
             /\ error = "" /\ tag.kind = "doctype" /\ Hand(tag)
             /\ error' = IF Attribute(tag, "entity", FALSE) THEN "EntityDeclaration" ELSE ""
      BY <1>3 DEF PackageDoctype
    <2>2. UNCHANGED <<sawPackage, package, section, elements, sectionDepth, collecting>>
      BY <1>3 DEF PackageDoctype
    <2>3. Grows(tag) /\ Opens(tag) /\ XmlInv'
      BY <1>1, <2>1, Handed
    <2>4. tag.kind \notin Tags /\ tag.kind \notin {"start", "end"}
      BY <2>1 DEF Tags
    <2>5. Recognized
      BY <1>1, <2>1
    <2>6. Declares' <=> Attribute(tag, "entity", FALSE)
      BY <2>1, <2>3, <2>5, DeclaresAfter DEF Recognized
    <2>7. error' # "" => Declares'
      BY <2>1, <2>6
    <2>8. ASSUME error' = "" PROVE Recognized'
      <3>1. ~Declares'
        BY <2>1, <2>6, <2>8
      <3>2. Sectioned'
        BY <1>1, <2>2, <2>3, <2>4, <2>5, SectionedPassed DEF Recognized
      <3>3. BookRead'
        BY <1>1, <2>2, <2>3, <2>4, <2>5, BookPassed DEF Recognized, SameBook, BookRead
      <3>4. IF sawPackage THEN Rooted' ELSE Elements' = {}
        <4>1. Rooted => Elements # {}
          BY DEF Rooted
        <4> QED
          BY <2>3, <2>4, <2>5, <4>1, RootGrows DEF Recognized
      <3>5. opened' = opened
        BY <2>3, <2>4 DEF Opens
      <3> QED
        BY <2>2, <2>5, <3>1, <3>2, <3>3, <3>4, <3>5 DEF Recognized
    <2> QED
      BY <2>3, <2>7, <2>8 DEF PackageInv
  <1>4. ASSUME NEW kind, NEW part, ReadPart(kind, part), kind \in References \cup {"word", "main", "space"}
        PROVE  PackageInv'
    <2>1. PICK tag : tag = TextOf(kind)
      OBVIOUS
    <2>2. /\ error = "" /\ Hand(tag)
          /\ UNCHANGED <<error, sawPackage, package, section, elements, sectionDepth, collecting>>
      BY <1>4, <2>1 DEF ReadPart
    <2>3. tag.kind = kind /\ tag.attrs = NoAttrs
      BY <2>1 DEF TextOf, Tag
    <2>4. Grows(tag) /\ Opens(tag) /\ XmlInv'
      BY <1>1, <2>2, Handed
    <2>5. tag.kind \notin Tags /\ tag.kind \notin {"start", "end"} /\ tag.kind # "doctype"
      BY <1>4, <2>3, OpfAssumption DEF Tags
    <2>6. Recognized
      BY <1>1, <2>2
    <2>7. ~Declares'
      BY <2>4, <2>5, <2>6, DeclaresAfter DEF Recognized
    <2>8. Sectioned'
      BY <1>1, <2>2, <2>4, <2>5, <2>6, SectionedPassed DEF Recognized
    <2>9. BookRead'
      BY <1>1, <2>2, <2>4, <2>5, <2>6, BookPassed DEF Recognized, SameBook, BookRead
    <2>10. IF sawPackage THEN Rooted' ELSE Elements' = {}
      <3>1. Rooted => Elements # {}
        BY DEF Rooted
      <3> QED
        BY <2>4, <2>5, <2>6, <3>1, RootGrows DEF Recognized
    <2>11. opened' = opened
      BY <2>4, <2>5 DEF Opens
    <2>12. Recognized'
      BY <2>2, <2>6, <2>7, <2>8, <2>9, <2>10, <2>11 DEF Recognized
    <2> QED
      BY <2>2, <2>4, <2>12 DEF PackageInv
  <1>5. ASSUME NEW tag \in PackageTags, error = "", tag.kind \in {"start", "empty"}, Hand(tag),
               elements' = IF tag.kind = "empty" THEN elements ELSE elements + 1,
               OpenRoot(tag) \/ OpenElement(tag)
        PROVE  PackageInv'
    <2>1. Grows(tag) /\ Opens(tag) /\ XmlInv'
      BY <1>1, <1>5, Handed
    <2>2. Recognized
      BY <1>1, <1>5
    <2>3. tag.kind \in Tags /\ tag.kind # "doctype"
      BY <1>5 DEF Tags
    <2>4. ~Declares'
      BY <2>1, <2>2, <2>3, DeclaresAfter DEF Recognized
    <2>5. CASE OpenRoot(tag)
      <3>1. ~sawPackage /\ Elements = {} /\ opened = <<>> /\ section = "outside"
        BY <2>2, <2>5 DEF OpenRoot, Recognized
      <3>2. UNCHANGED <<section, sectionDepth, collecting>>
        BY <2>5 DEF OpenRoot
      <3>3. Elements' # {} /\ (Rooted' <=> tag.name = "package")
        BY <2>1, <2>3, <3>1, RootGrows
      <3>4. CASE tag.name = "package"
        <4>1. /\ sawPackage' = TRUE /\ UNCHANGED error
              /\ package' = [package EXCEPT !.version = Attribute(tag, "version", ""),
                               !.unique_identifier_id = Attribute(tag, "unique-identifier", "")]
          BY <2>5, <3>4 DEF OpenRoot
        <4>2. ~Enters(tag)
          BY <3>4 DEF Enters, Sections
        <4>3. Sectioned'
          BY <1>1, <1>5, <2>1, <2>2, <3>2, <4>2, SectionedOpen DEF Recognized
        <4>4. IsPackage(package') /\ SameBook(package, package')
          <5>1. PICK p, v, u : /\ p = package /\ v = Attribute(tag, "version", "")
                               /\ u = Attribute(tag, "unique-identifier", "")
            OBVIOUS
          <5>2. IsPackage(p)
            BY <2>2, <5>1 DEF Recognized, BookRead
          <5>3. package' = [p EXCEPT !.version = v, !.unique_identifier_id = u]
            BY <4>1, <5>1
          <5>4. IsPackage(package') /\ SameBook(p, package')
            BY <5>2, <5>3, Put
          <5> QED
            BY <5>1, <5>4
        <4>5. Here = ""
          BY <1>1, <2>2, <3>1, SectionHere DEF Recognized
        <4>6. BookRead'
          BY <1>1, <2>1, <2>2, <4>4, <4>5, BookPassed DEF Recognized
        <4>7. Recognized'
          BY <2>4, <3>3, <3>4, <4>1, <4>3, <4>6 DEF Recognized
        <4> QED
          BY <1>5, <2>1, <4>1, <4>7 DEF PackageInv
      <3>5. CASE tag.name # "package"
        <4>1. error' = "NotAPackage"
          BY <2>5, <3>5 DEF OpenRoot
        <4> QED
          BY <2>1, <3>3, <3>5, <4>1 DEF PackageInv
      <3> QED
        BY <3>4, <3>5
    <2>6. CASE OpenElement(tag)
      <3>1. sawPackage /\ UNCHANGED <<error, sawPackage>> /\ Rooted
        BY <2>2, <2>6 DEF OpenElement, Recognized
      <3>2. /\ section' = IF Enters(tag) THEN tag.name ELSE section
            /\ sectionDepth' = IF Enters(tag) THEN elements' ELSE sectionDepth
            /\ IF section = "metadata" /\ ~Enters(tag) THEN OpenMetadata(tag) ELSE Recognize(tag)
        BY <2>6 DEF OpenElement
      <3>3. Sectioned'
        BY <1>1, <1>5, <2>1, <2>2, <3>2, SectionedOpen DEF Recognized
      <3>4. BookRead'
        BY <1>1, <1>5, <2>1, <2>2, <3>2, BookOpened DEF Recognized
      <3>5. Rooted'
        BY <2>1, <3>1, RootGrows DEF Rooted
      <3>6. Recognized'
        BY <2>2, <2>4, <3>1, <3>3, <3>4, <3>5 DEF Recognized
      <3> QED
        BY <1>5, <2>1, <3>1, <3>6 DEF PackageInv
    <2> QED
      BY <1>5, <2>5, <2>6
  <1>6. ASSUME NEW tag, tag = EndTag, opened # <<>>, PackageClose(tag) PROVE PackageInv'
    <2>1. /\ error = "" /\ Hand(tag) /\ UNCHANGED <<error, sawPackage, sectionDepth>>
          /\ section' = IF section # "outside" /\ elements = sectionDepth THEN "outside" ELSE section
          /\ elements' = IF elements = 0 THEN 0 ELSE elements - 1
      BY <1>6 DEF PackageClose
    <2>2. package' = package \/ \E e : package' = [package EXCEPT !.entries = e]
      BY <1>6, Zenon DEF PackageClose
    <2>3. Grows(tag) /\ Opens(tag) /\ XmlInv'
      BY <1>1, <2>1, Handed
    <2>4. tag.kind = "end" /\ tag.name = doc[opened[Len(opened)]].name
      BY <1>6 DEF EndTag, Tag, Last
    <2>5. Recognized
      BY <1>1, <2>1
    <2>6. ~Declares'
      BY <2>3, <2>4, <2>5, DeclaresAfter DEF Recognized
    <2>7. Sectioned'
      BY <1>1, <1>6, <2>1, <2>3, <2>4, <2>5, SectionedClose DEF Recognized
    <2>8. tag.kind \notin Tags
      BY <2>4 DEF Tags
    <2>9. IsPackage(package') /\ SameBook(package, package')
      <3>1. PICK p : p = package
        OBVIOUS
      <3>2. IsPackage(p)
        BY <2>5, <3>1 DEF Recognized, BookRead
      <3>3. CASE package' = p
        BY <3>1, <3>2, <3>3 DEF SameBook
      <3>4. CASE \E e : package' = [p EXCEPT !.entries = e]
        <4>1. PICK e : package' = [p EXCEPT !.entries = e]
          BY <3>4
        <4> QED
          BY <3>1, <3>2, <4>1, Put
      <3> QED
        BY <2>2, <3>1, <3>3, <3>4
    <2>10. BookRead'
      BY <1>1, <2>3, <2>5, <2>8, <2>9, BookPassed DEF Recognized
    <2>11. sawPackage /\ Rooted /\ Rooted'
      <3>1. sawPackage
        BY <1>6, <2>5 DEF Recognized
      <3> QED
        BY <2>3, <2>5, <3>1, RootGrows DEF Recognized, Rooted
    <2>12. Recognized'
      BY <2>1, <2>5, <2>6, <2>7, <2>10, <2>11 DEF Recognized
    <2> QED
      BY <2>1, <2>3, <2>12 DEF PackageInv
  <1>7. CASE Next
    <2>1. OpfNext
      BY <1>7 DEF Next
    <2>2. CASE PackageText
      BY <1>4, <2>2 DEF PackageText
    <2>3. CASE PackageRef
      BY <1>4, <2>3 DEF PackageRef
    <2>4. CASE PackageOpen
      BY <1>5, <2>4 DEF PackageOpen
    <2> QED
      BY <1>3, <1>6, <2>1, <2>2, <2>3, <2>4 DEF OpfNext
  <1> QED
    BY <1>2, <1>7

-----------------------------------------------------------------------------
(* The text of an element.                                                 *)

\* The places of its parts, and the part at each place.
Texts(i) == {j \in DOMAIN doc : i \in Range(doc[j].within) /\ doc[j].name = ""}
PartAt == [j \in DOMAIN doc |-> Part(j)]

\* The part that an event is.
PartOf(kind, at) ==
    CASE kind \in {"main", "space"}       -> <<kind, 0>>
      [] kind \in {"word"} \cup BuiltIn   -> <<"word", at>>
      [] OTHER                           -> <<"verbatim", kind>>

\* Its parts are listed, in whatever document.
LEMMA PartsListed ==
    ASSUME NEW m \in Nat, NEW S, NEW d, NEW f, \A j \in 1..m : f[j] = PartOf(d[j].kind, j)
    PROVE  [k \in DOMAIN InOrder(S, m) |-> PartOf(d[InOrder(S, m)[k]].kind, InOrder(S, m)[k])]
               = List(S, m, f)
  <1>1. PICK s : s = InOrder(S, m)
    OBVIOUS
  <1>2. Orders(S, m, s)
    BY <1>1, OrderIs
  <1>3. s \in Seq(Nat) /\ \A k \in 1..Len(s) : s[k] \in 1..m
    BY <1>2 DEF Orders
  <1>4. DOMAIN s = 1..Len(s)
    <2>1. s \in Seq(Nat)
      BY <1>3
    <2> QED
      BY <2>1, Ranged
  <1>5. \A k \in DOMAIN s : PartOf(d[s[k]].kind, s[k]) = f[s[k]]
    BY <1>3, <1>4
  <1> QED
    BY <1>1, <1>5 DEF List

\* A text grows with what is read within the element.
LEMMA PartsGrow ==
    ASSUME XmlInv, NEW tag, Grows(tag), NEW i
    PROVE  Parts(i)' = IF i \in Range(opened) /\ tag.name = ""
                       THEN Append(Parts(i), PartOf(tag.kind, Len(doc) + 1)) ELSE Parts(i)
  <1>1. PICK m \in Nat : m = Len(doc)
    BY DEF Grows
  <1>2. /\ DOMAIN doc = 1..m /\ DOMAIN doc' = 1..m + 1 /\ Len(doc') = m + 1
        /\ \A k \in 1..m : doc'[k] = doc[k]
        /\ doc'[m + 1].kind = tag.kind /\ doc'[m + 1].name = tag.name
        /\ doc'[m + 1].within = opened
    BY <1>1 DEF Grows, Event
  <1>3. PICK S, T, f, g : S = Texts(i) /\ T = Texts(i)' /\ f = PartAt /\ g = PartAt'
    OBVIOUS
  <1>4. PICK H : H = {k \in {m + 1} : i \in Range(opened) /\ tag.name = ""}
    OBVIOUS
  <1>5. T = S \cup H
    <2>1. S = {k \in 1..m : i \in Range(doc[k].within) /\ doc[k].name = ""}
      BY <1>2, <1>3 DEF Texts
    <2>2. T = {k \in 1..m + 1 : i \in Range(doc'[k].within) /\ doc'[k].name = ""}
      BY <1>2, <1>3 DEF Texts
    <2>3. \A k : k \in 1..m + 1 <=> k \in 1..m \/ k = m + 1
      OBVIOUS
    <2>4. \A k : k \in T <=> k \in S \/ k \in H
      BY <1>2, <1>4, <2>1, <2>2, <2>3
    <2> QED
      BY <2>4
  <1>6. \A k \in S : k \in 1..m
    BY <1>2, <1>3 DEF Texts
  <1>7. \A k \in 1..m : g[k] = f[k]
    <2> SUFFICES ASSUME NEW k \in 1..m PROVE g[k] = f[k]
      OBVIOUS
    <2>1. k \in DOMAIN doc /\ k \in DOMAIN doc' /\ doc'[k] = doc[k]
      BY <1>2
    <2>2. g[k] = Part(k)' /\ f[k] = Part(k)
      BY <1>3, <2>1 DEF PartAt
    <2>3. Part(k)' = Part(k)
      BY <2>1 DEF Part
    <2> QED
      BY <2>2, <2>3
  <1>8. H \in SUBSET {m + 1}
    BY <1>4
  <1>9. List(T, m + 1, g) = IF m + 1 \in H THEN Append(List(S, m, f), g[m + 1]) ELSE List(S, m, f)
    BY <1>5, <1>6, <1>7, <1>8, ListAdds
  <1>10. g[m + 1] = PartOf(tag.kind, m + 1)
    <2>1. m + 1 \in DOMAIN doc'
      BY <1>2
    <2>2. g[m + 1] = Part(m + 1)'
      BY <1>3, <2>1 DEF PartAt
    <2> QED
      BY <1>2, <2>2 DEF Part, PartOf
  <1>11. Parts(i) = List(S, m, f)
    <2>1. \A k \in 1..m : f[k] = PartOf(doc[k].kind, k)
      BY <1>2, <1>3 DEF PartAt, Part, PartOf
    <2>2. PICK s : s = InOrder(S, m)
      OBVIOUS
    <2>3. Parts(i) = [k \in DOMAIN s |-> Part(s[k])]
      BY <1>1, <1>3, <2>2 DEF Parts, Texts, Sorted
    <2>4. \A j : Part(j) = PartOf(doc[j].kind, j)
      BY DEF Part, PartOf
    <2>5. Parts(i) = [k \in DOMAIN s |-> PartOf(doc[s[k]].kind, s[k])]
      BY <2>3, <2>4
    <2>6. List(S, m, f) = [k \in DOMAIN s |-> PartOf(doc[s[k]].kind, s[k])]
      BY <2>1, <2>2, PartsListed
    <2> QED
      BY <2>5, <2>6
  <1>12. Parts(i)' = List(T, m + 1, g)
    <2>1. \A k \in 1..m + 1 : g[k] = PartOf(doc'[k].kind, k)
      BY <1>2, <1>3 DEF PartAt, Part, PartOf
    <2>2. PICK s : s = InOrder(T, m + 1)
      OBVIOUS
    <2>3. Parts(i)' = [k \in DOMAIN s |-> Part(s[k])']
      BY <1>2, <1>3, <2>2 DEF Parts, Texts, Sorted
    <2>4. \A j : Part(j)' = PartOf(doc'[j].kind, j)
      BY DEF Part, PartOf
    <2>5. Parts(i)' = [k \in DOMAIN s |-> PartOf(doc'[s[k]].kind, s[k])]
      BY <2>3, <2>4
    <2>6. PICK n \in Nat : n = m + 1
      OBVIOUS
    <2>7. List(T, n, g) = [k \in DOMAIN s |-> PartOf(doc'[s[k]].kind, s[k])]
      BY <2>1, <2>2, <2>6, PartsListed
    <2> QED
      BY <2>5, <2>6, <2>7
  <1> QED
    BY <1>1, <1>4, <1>9, <1>10, <1>11, <1>12

\* What is read elsewhere is no part of it.
LEMMA PartsStay ==
    ASSUME XmlInv, NEW tag, Grows(tag), NEW i, i \notin Range(opened) \/ tag.name # ""
    PROVE  Parts(i)' = Parts(i) /\ Content(i)' = Content(i)
  <1>1. Parts(i)' = Parts(i)
    BY PartsGrow
  <1> QED
    BY <1>1 DEF Content

\* An element has no text yet where it is opened.
LEMMA NoParts ==
    ASSUME XmlInv, NEW tag, Grows(tag), NEW n, n = Len(doc) + 1
    PROVE  Parts(n)' = <<>> /\ Content(n)' = <<>>
  <1>1. PICK m \in Nat : m = Len(doc)
    BY DEF Grows
  <1>2. n \notin Range(opened)
    <2>1. \A k \in Range(opened) : k \in 1..m
      BY <1>1, OpenNames DEF Range
    <2> QED
      BY <1>1, <2>1
  <1>3. Parts(n)' = Parts(n)
    BY <1>2, PartsStay
  <1>4. Texts(n) = {}
    <2>1. \A j \in DOMAIN doc : \A k \in Range(doc[j].within) : k \in DOMAIN doc
      BY DEF XmlInv
    <2>2. n \notin DOMAIN doc
      BY <1>1 DEF Grows
    <2> QED
      BY <2>1, <2>2 DEF Texts
  <1>5. Parts(n) = <<>>
    <2>1. PICK s : s = InOrder({}, m)
      OBVIOUS
    <2>2. Orders({}, m, s)
      BY <2>1, OrderIs
    <2>3. s \in Seq(Nat) /\ \A k \in 1..Len(s) : FALSE
      BY <2>2 DEF Orders
    <2>4. DOMAIN s = {}
      BY <2>3
    <2>5. Parts(n) = [k \in DOMAIN s |-> Part(s[k])]
      BY <1>1, <1>4, <2>1 DEF Parts, Texts, Sorted
    <2> QED
      BY <2>4, <2>5
  <1>6. Trimmed(<<>>) = <<>>
    BY DEF Trimmed
  <1>7. Content(n)' = Trimmed(Parts(n)')
    BY DEF Content
  <1> QED
    BY <1>3, <1>5, <1>6, <1>7

-----------------------------------------------------------------------------
(* The metadata elements.                                                  *)

\* Whether a tag is one that is kept, and one that refines another.
Property(tag) ==
    /\ tag.name = "meta"
    /\ Attribute(tag, "name", "") # "cover" /\ Attribute(tag, "property", "") # ""
Keeps(tag) == tag.name \in DublinCore \/ Property(tag)
Refers(tag) == Property(tag) /\ Attribute(tag, "refines", "") # ""

\* What a tag says with a text: an entry, or what refines another.
OwnOf(tag) == IF tag.name = "meta" THEN <<>> ELSE Epub2Refinements(tag)
EntrySaid(tag, value) ==
    [element |-> IF tag.name = "meta" THEN Attribute(tag, "property", "") ELSE tag.name,
     value |-> value, id |-> Attribute(tag, "id", ""), scheme |-> Attribute(tag, "scheme", ""),
     refinements |-> OwnOf(tag)]
RefiningBy(tag, value) ==
    Refinement(Attribute(tag, "property", ""), value, Attribute(tag, "scheme", ""))
MentionOf(tag, value) == <<Attribute(tag, "refines", ""), RefiningBy(tag, value)>>

\* The parser keeps those tags, and what they say.
LEMMA PendingIs ==
    ASSUME NEW tag
    PROVE  /\ Pending(tag) = <<>> <=> ~Keeps(tag)
           /\ Keeps(tag) => Pending(tag)[1].local = tag.name
  <1>1. "meta" \notin DublinCore
    BY DEF DublinCore
  <1> QED
    BY <1>1 DEF Pending, Keeps, Property

LEMMA StoredIs ==
    ASSUME NEW tag, Keeps(tag), NEW value
    PROVE  /\ Entries(Pending(tag)[1], value) =
                IF Refers(tag) THEN package.entries
                ELSE Append(package.entries, EntrySaid(tag, value))
           /\ Held(Pending(tag)[1], value) =
                IF Refers(tag) THEN Append(refinements, MentionOf(tag, value)) ELSE refinements
  <1>1. "meta" \notin DublinCore
    BY DEF DublinCore
  <1>2. PICK property, id, scheme, refines, own :
            /\ property = Attribute(tag, "property", "") /\ id = Attribute(tag, "id", "")
            /\ scheme = Attribute(tag, "scheme", "") /\ refines = Attribute(tag, "refines", "")
            /\ own = Epub2Refinements(tag)
    OBVIOUS
  <1>3. CASE Property(tag)
    <2>1. PICK e : e = [element |-> property, value |-> <<>>, id |-> id, scheme |-> scheme,
                        refinements |-> <<>>]
      OBVIOUS
    <2>2. PICK q : q = [local |-> tag.name, entry |-> e, refines |-> refines]
      OBVIOUS
    <2>3. MetaEntry(tag, property, <<>>) = e
      BY <1>2, <2>1 DEF MetaEntry
    <2>4. Pending(tag) = <<q>>
      <3>1. Pending(tag) = <<[local |-> tag.name, entry |-> MetaEntry(tag, property, <<>>),
                              refines |-> Attribute(tag, "refines", "")]>>
        BY <1>1, <1>2, <1>3 DEF Pending, Property
      <3> QED
        BY <1>2, <2>2, <2>3, <3>1
    <2>5. Pending(tag)[1] = q /\ q.entry = e /\ q.refines = refines
      BY <2>2, <2>4
    <2>6. EntrySaid(tag, value) = [element |-> property, value |-> value, id |-> id,
                                   scheme |-> scheme, refinements |-> <<>>]
      BY <1>2, <1>3 DEF EntrySaid, OwnOf, Property
    <2>7. [e EXCEPT !.value = value] = EntrySaid(tag, value)
      BY <2>1, <2>6
    <2>8. Stored(Pending(tag)[1], value) = EntrySaid(tag, value)
      BY <2>5, <2>7 DEF Stored
    <2>9. MentionOf(tag, value) = <<refines, Refinement(property, value, scheme)>>
      BY <1>2 DEF MentionOf, RefiningBy
    <2>10. Refers(tag) <=> refines # ""
      BY <1>2, <1>3 DEF Refers
    <2>11. Refines(Pending(tag)[1], package.entries) <=> refines # ""
      BY <2>5, Zenon DEF Refines
    <2>12. e.element = property /\ e.scheme = scheme
      BY <2>1
    <2> QED
      BY <2>5, <2>8, <2>9, <2>10, <2>11, <2>12 DEF Entries, Held
  <1>4. CASE tag.name \in DublinCore
    <2>1. PICK e : e = [element |-> tag.name, value |-> <<>>, id |-> id, scheme |-> scheme,
                        refinements |-> own]
      OBVIOUS
    <2>2. PICK q : q = [local |-> tag.name, refines |-> "", entry |-> e]
      OBVIOUS
    <2>3. MetaEntry(tag, tag.name, Epub2Refinements(tag)) = e
      BY <1>2, <2>1 DEF MetaEntry
    <2>4. Pending(tag) = <<q>>
      BY <1>1, <1>4, <2>2, <2>3 DEF Pending
    <2>5. Pending(tag)[1] = q /\ q.entry = e /\ q.refines = ""
      <3>1. <<q>>[1] = q
        OBVIOUS
      <3>2. q.entry = e /\ q.refines = ""
        BY <2>2
      <3> QED
        BY <2>4, <3>1, <3>2
    <2>6. EntrySaid(tag, value) = [element |-> tag.name, value |-> value, id |-> id,
                                   scheme |-> scheme, refinements |-> own]
      BY <1>1, <1>2, <1>4 DEF EntrySaid, OwnOf
    <2>7. [e EXCEPT !.value = value] = EntrySaid(tag, value)
      BY <2>1, <2>6
    <2>8. Stored(Pending(tag)[1], value) = EntrySaid(tag, value)
      BY <2>5, <2>7 DEF Stored
    <2>9. ~Refers(tag)
      BY <1>1, <1>4 DEF Refers, Property
    <2>10. ~Refines(Pending(tag)[1], package.entries)
      BY <2>5, Zenon DEF Refines
    <2> QED
      BY <2>8, <2>9, <2>10 DEF Entries, Held
  <1> QED
    BY <1>3, <1>4 DEF Keeps

\* An event says what its tag does.
LEMMA EventSays ==
    ASSUME NEW tag, NEW e, e.name = tag.name, e.attrs = tag.attrs
    PROVE  /\ Keeps(e) <=> Keeps(tag)
           /\ Refers(e) <=> Refers(tag)
           /\ Pending(e) = Pending(tag)
           /\ \A value : EntrySaid(e, value) = EntrySaid(tag, value)
           /\ \A value : MentionOf(e, value) = MentionOf(tag, value)
  <1>1. \A a, b : Attribute(e, a, b) = Attribute(tag, a, b)
    BY DEF Attribute
  <1>2. Epub2Refinements(e) = Epub2Refinements(tag)
    BY <1>1 DEF Epub2Refinements
  <1>3. Keeps(e) <=> Keeps(tag)
    BY <1>1 DEF Keeps, Property
  <1>4. Refers(e) <=> Refers(tag)
    BY <1>1 DEF Refers, Property
  <1>5. \A value : EntrySaid(e, value) = EntrySaid(tag, value)
    BY <1>1, <1>2 DEF EntrySaid, OwnOf
  <1>6. \A value : MentionOf(e, value) = MentionOf(tag, value)
    BY <1>1 DEF MentionOf, RefiningBy
  <1>7. Pending(e) = Pending(tag)
    BY <1>1, <1>2 DEF Pending, MetaEntry
  <1> QED
    BY <1>3, <1>4, <1>5, <1>6, <1>7

\* The metadata elements of the document.
Metadata == InSection(DublinCore \cup {"meta"}, "metadata")

\* Those that are kept and those that refine others are so by their tags.
LEMMA KeptAre ==
    /\ Kept = {i \in Metadata : Keeps(doc[i])}
    /\ Refining = {i \in Metadata : Refers(doc[i])}
  <1>1. \A i : /\ i \in InSection({"meta"}, "metadata") <=> i \in Metadata /\ doc[i].name = "meta"
               /\ i \in InSection(DublinCore, "metadata") <=> i \in Metadata /\ doc[i].name \in DublinCore
    <2>1. \A i : /\ doc[i].name \in {"meta"} <=> doc[i].name = "meta"
                 /\ doc[i].name \in DublinCore \cup {"meta"} <=>
                       doc[i].name \in DublinCore \/ doc[i].name = "meta"
      OBVIOUS
    <2> QED
      BY <2>1, Zenon DEF InSection, Metadata, Places
  <1>2. Properties = {i \in Metadata : Property(doc[i])}
    BY <1>1 DEF Properties, Property
  <1>3. Kept = {i \in Metadata : Keeps(doc[i])}
    BY <1>1, <1>2 DEF Kept, Keeps
  <1>4. Refining = {i \in Metadata : Refers(doc[i])}
    BY <1>2 DEF Refining, Refers
  <1> QED
    BY <1>3, <1>4

\* Whether an event that is read now is an element that is kept.
Begins(tag) == tag.kind \in Tags /\ Here = "metadata" /\ Keeps(tag)

\* Elements that are kept stand in the document.
LEMMA KeptHere ==
    ASSUME XmlInv
    PROVE  /\ Metadata \subseteq 1..Len(doc)
           /\ Kept \subseteq Metadata /\ Refining \subseteq Kept
           /\ \A i \in Kept : Keeps(doc[i]) /\ (i \in Refining <=> Refers(doc[i]))
           /\ \A i \in Kept : doc[i].name \in DublinCore \cup {"meta"}
  <1>1. Metadata \subseteq 1..Len(doc)
    <2>1. Metadata \subseteq DOMAIN doc
      BY DEF Metadata, InSection, Places
    <2> QED
      BY <2>1, Length
  <1>2. \A tag : /\ Refers(tag) => Keeps(tag)
                 /\ Keeps(tag) => tag.name \in DublinCore \/ tag.name = "meta"
    BY DEF Refers, Keeps, Property
  <1> QED
    BY <1>1, <1>2, KeptAre

\* What an event adds to them.
LEMMA KeptGrows ==
    ASSUME XmlInv, NEW tag, Grows(tag)
    PROVE  /\ \A i : i \in Kept' <=> i \in Kept \/ (i = Len(doc) + 1 /\ Begins(tag))
           /\ \A i : i \in Refining' <=>
                        i \in Refining \/ (i = Len(doc) + 1 /\ Begins(tag) /\ Refers(tag))
           /\ \A i \in Metadata : i \in Metadata' /\ doc'[i] = doc[i]
           /\ tag.kind \in Tags /\ Here = "metadata" /\ tag.name \in DublinCore \cup {"meta"} =>
                 Len(doc) + 1 \in Metadata'
  <1>1. PICK m \in Nat : m = Len(doc)
    BY DEF Grows
  <1>2. /\ DOMAIN doc = 1..m /\ \A i \in 1..m : doc'[i] = doc[i]
        /\ doc'[m + 1].name = tag.name /\ doc'[m + 1].attrs = tag.attrs
    BY <1>1 DEF Grows, Event
  <1>3. /\ SectionMore(tag, {"meta"}, "metadata") /\ SectionMore(tag, DublinCore, "metadata")
        /\ SectionMore(tag, DublinCore \cup {"meta"}, "metadata")
    BY SectionGrows
  <1>4. PICK M, Q : M = InSection({"meta"}, "metadata") /\ Q = InSection({"meta"}, "metadata")'
    OBVIOUS
  <1>5. PICK D, E : D = InSection(DublinCore, "metadata") /\ E = InSection(DublinCore, "metadata")'
    OBVIOUS
  <1>6. \A i : i \in Q <=> i \in M \/ (i = m + 1 /\ tag.kind \in Tags /\ tag.name = "meta"
                                      /\ Here = "metadata")
    BY <1>1, <1>3, <1>4 DEF SectionMore
  <1>7. \A i : i \in E <=> i \in D \/ (i = m + 1 /\ tag.kind \in Tags /\ tag.name \in DublinCore
                                      /\ Here = "metadata")
    BY <1>1, <1>3, <1>5 DEF SectionMore
  <1>8. M \subseteq 1..m /\ D \subseteq 1..m
    BY <1>2, <1>4, <1>5 DEF InSection, Places
  <1>9. \A i \in M : doc[i].name = "meta"
    BY <1>4 DEF InSection, Places
  <1>10. Properties = {i \in M : Property(doc[i])}
    BY <1>4, <1>9 DEF Properties, Property
  <1>11. Properties' = {i \in Q : Property(doc'[i])}
    <2>1. \A i \in Q : doc'[i].name = "meta"
      BY <1>2, <1>6, <1>8, <1>9
    <2>2. Properties' = {i \in Q : /\ Attribute(doc'[i], "property", "") # ""
                                   /\ Attribute(doc'[i], "name", "") # "cover"}
      BY <1>4 DEF Properties, Attribute
    <2> QED
      BY <2>1, <2>2 DEF Property
  <1>12. PICK e : e = doc'[m + 1]
    OBVIOUS
  <1>13. (Keeps(e) <=> Keeps(tag)) /\ (Refers(e) <=> Refers(tag))
    BY <1>2, <1>12, EventSays
  <1>14. Property(e) <=> Property(tag)
    BY <1>2, <1>12 DEF Property, Attribute
  <1>15. \A i : i \in Properties' <=>
            i \in Properties \/ (i = m + 1 /\ tag.kind \in Tags /\ Here = "metadata" /\ Property(tag))
    BY <1>2, <1>6, <1>8, <1>10, <1>11, <1>12, <1>14 DEF Property
  <1>16. Properties \subseteq 1..m
    BY <1>8, <1>10
  <1>17. Kept = D \cup Properties /\ Kept' = E \cup Properties'
    BY <1>5 DEF Kept
  <1>18. \A i : i \in Kept' <=> i \in Kept \/ (i = m + 1 /\ Begins(tag))
    BY <1>7, <1>15, <1>17 DEF Begins, Keeps
  <1>19. Refining = {i \in Properties : Attribute(doc[i], "refines", "") # ""}
    BY DEF Refining
  <1>20. Refining' = {i \in Properties' : Attribute(doc'[i], "refines", "") # ""}
    BY DEF Refining, Attribute
  <1>21. Attribute(e, "refines", "") = Attribute(tag, "refines", "")
    BY <1>2, <1>12 DEF Attribute
  <1>22. \A i : i \in Refining' <=> i \in Refining \/ (i = m + 1 /\ Begins(tag) /\ Refers(tag))
    BY <1>2, <1>12, <1>15, <1>16, <1>19, <1>20, <1>21 DEF Begins, Keeps, Refers
  <1>23. \A i \in Metadata : i \in Metadata' /\ doc'[i] = doc[i]
    <2>1. Metadata \subseteq Metadata'
      BY <1>3 DEF SectionMore, Metadata
    <2>2. Metadata \subseteq 1..m
      BY <1>1, KeptHere
    <2> QED
      BY <1>2, <2>1, <2>2
  <1>24. tag.kind \in Tags /\ Here = "metadata" /\ tag.name \in DublinCore \cup {"meta"} =>
            m + 1 \in Metadata'
    BY <1>1, <1>3 DEF SectionMore, Metadata
  <1> QED
    BY <1>1, <1>18, <1>22, <1>23, <1>24

\* A document without metadata in metadata was so before, and the event that
\* was read is no metadata element in an open one.
LEMMA PlainBefore ==
    ASSUME XmlInv, NEW tag, Grows(tag), PlainMetadata'
    PROVE  /\ PlainMetadata
           /\ tag.kind \in Tags /\ Here = "metadata" /\ tag.name \in DublinCore \cup {"meta"} =>
                 Range(opened) \cap Metadata = {}
  <1>1. PlainMetadata <=> \A i \in Metadata : Range(doc[i].within) \cap Metadata = {}
    BY DEF PlainMetadata, Metadata
  <1>2. \A i \in Metadata' : Range(doc'[i].within) \cap Metadata' = {}
    BY DEF PlainMetadata, Metadata
  <1>3. \A i \in Metadata : i \in Metadata' /\ doc'[i] = doc[i]
    BY KeptGrows
  <1>4. PlainMetadata
    BY <1>1, <1>2, <1>3
  <1>5. doc'[Len(doc) + 1].within = opened
    BY DEF Grows, Event
  <1>6. tag.kind \in Tags /\ Here = "metadata" /\ tag.name \in DublinCore \cup {"meta"} =>
           Len(doc) + 1 \in Metadata'
    BY KeptGrows
  <1> QED
    BY <1>2, <1>3, <1>4, <1>5, <1>6

-----------------------------------------------------------------------------
(* What has been read of the metadata.                                     *)

\* What stands at the places of the entries and of what refines them.
EntryAt == [i \in DOMAIN doc |-> EntrySaid(doc[i], Content(i))]
MentionAt == [i \in DOMAIN doc |-> MentionOf(doc[i], Content(i))]
Mentions == {j \in Refining : Closed(j)}

\* That is what was stored.
Stores ==
    /\ package.entries = List(Said, Len(doc), EntryAt)
    /\ refinements = List(Mentions, Len(doc), MentionAt)

\* The element that is collected is the innermost of the metadata.
Collected(k) ==
    /\ k \in DOMAIN opened /\ opened[k] \in Kept
    /\ section = "metadata" /\ sectionDepth < k
    /\ collecting = Pending(doc[opened[k]]) /\ text = Parts(opened[k])
    /\ \A j \in Kept : j # opened[k] => j < opened[k] /\ Closed(j)
    /\ \A l \in DOMAIN opened : k < l => doc[opened[l]].name \notin DublinCore \cup {"meta"}
Collects ==
    \/ collecting = <<>> /\ \A j \in Kept : Closed(j)
    \/ \E k : Collected(k)

\* The elements that are finished, and those that refine others.
LEMMA SaidAre ==
    ASSUME XmlInv
    PROVE  /\ \A i : i \in Said <=> i \in Kept /\ ~Refers(doc[i]) /\ Closed(i)
           /\ \A i : i \in Mentions <=> i \in Kept /\ Refers(doc[i]) /\ Closed(i)
  BY KeptHere DEF Said, Mentions

\* What is listed of some places of a document that is longer.
LEMMA ListTo ==
    ASSUME NEW m \in Nat, NEW S, NEW f, NEW g, \A k \in S : k \in 1..m /\ g[k] = f[k]
    PROVE  List(S, m + 1, g) = List(S, m, f)
  <1>1. PICK H : H = {}
    OBVIOUS
  <1>2. List(S \cup H, m + 1, g) =
           IF m + 1 \in H THEN Append(List(S, m, f), g[m + 1]) ELSE List(S, m, f)
    <2>1. H \in SUBSET {m + 1}
      BY <1>1
    <2>2. (\A k \in S : k \in 1..m) /\ \A k \in 1..m : k \in S => g[k] = f[k]
      OBVIOUS
    <2> QED
      BY <2>1, <2>2, ListAdds
  <1>3. S \cup H = S
    BY <1>1
  <1> QED
    BY <1>1, <1>2, <1>3

\* And of a place more, beyond them.
LEMMA ListWith ==
    ASSUME NEW m \in Nat, NEW S, NEW f, NEW g, \A k \in S : k \in 1..m /\ g[k] = f[k],
           NEW x \in 1..m + 1, x \notin S, \A k \in S : k < x,
           NEW T, \A k : k \in T <=> k \in S \/ k = x
    PROVE  List(T, m + 1, g) = Append(List(S, m, f), g[x])
  <1>1. PICK n \in Nat : n = m + 1
    OBVIOUS
  <1>2. List(T, n, g) = Append(List(S, n, g), g[x])
    <2>1. x \in 1..n
      BY <1>1
    <2>2. \A k \in 1..n : k \in S => k < x /\ g[k] = g[k]
      OBVIOUS
    <2> QED
      BY <2>1, <2>2, ListMore
  <1>3. List(S, m + 1, g) = List(S, m, f)
    BY ListTo
  <1> QED
    BY <1>1, <1>2, <1>3

\* An end tag is that of the innermost open element.
Ends(tag) == tag.kind = "end" => opened # <<>> /\ tag.name = doc[opened[Len(opened)]].name

\* What is closed stays so.
LEMMA ClosedStays ==
    ASSUME XmlInv, XmlInv', NEW tag, Grows(tag), Opens(tag), Ends(tag), NEW j \in 1..Len(doc), Closed(j)
    PROVE  Closed(j)'
  <1>1. PICK n : n = Len(doc) + 1
    OBVIOUS
  <1>2. j # n
    BY <1>1 DEF Grows
  <1>3. Range(opened') \subseteq Range(opened) \cup {n}
    BY <1>1, RangeAfter DEF Ends
  <1> QED
    BY <1>2, <1>3 DEF Closed

\* The finished elements after an event.
LEMMA SaidAfter ==
    ASSUME XmlInv, XmlInv', NEW tag, Grows(tag), Opens(tag), Ends(tag), NEW n, n = Len(doc) + 1,
           NEW x, tag.kind = "end" => x = opened[Len(opened)]
    PROVE  /\ tag.kind = "start" \/ (tag.kind \notin {"start", "end"} /\ ~Begins(tag)) =>
                Said' = Said /\ Mentions' = Mentions
           /\ tag.kind = "empty" /\ Begins(tag) =>
                /\ \A i : i \in Said' <=> i \in Said \/ (i = n /\ ~Refers(tag))
                /\ \A i : i \in Mentions' <=> i \in Mentions \/ (i = n /\ Refers(tag))
           /\ tag.kind = "end" =>
                /\ \A i : i \in Said' <=> i \in Said \/ (i = x /\ x \in Kept /\ ~Refers(doc[x]))
                /\ \A i : i \in Mentions' <=> i \in Mentions \/ (i = x /\ x \in Kept /\ Refers(doc[x]))
  <1>1. PICK K, L : K = Kept /\ L = Kept'
    OBVIOUS
  <1>2. PICK R, Q : R = Refining /\ Q = Refining'
    OBVIOUS
  <1>3. PICK P, U : P = Range(opened) /\ U = Range(opened')
    OBVIOUS
  <1>4. \A i : i \in L <=> i \in K \/ (i = n /\ Begins(tag))
    BY <1>1, KeptGrows
  <1>5. \A i : i \in Q <=> i \in R \/ (i = n /\ Begins(tag) /\ Refers(tag))
    BY <1>2, KeptGrows
  <1>6. n \notin K /\ n \notin P /\ R \subseteq K /\ \A i \in K : i \in R <=> Refers(doc[i])
    <2>1. n \notin 1..Len(doc)
      BY DEF Grows
    <2>2. n \notin P
      BY <1>3, RangeAfter
    <2> QED
      BY <1>1, <1>2, <2>1, <2>2, KeptHere
  <1>7. Said = {i \in K : i \notin R /\ i \notin P} /\ Mentions = {i \in R : i \notin P}
    BY <1>1, <1>2, <1>3 DEF Said, Mentions, Closed
  <1>8. Said' = {i \in L : i \notin Q /\ i \notin U} /\ Mentions' = {i \in Q : i \notin U}
    BY <1>1, <1>2, <1>3 DEF Said, Mentions, Closed
  <1>9. CASE tag.kind = "start"
    <2>1. U = P \cup {n}
      BY <1>3, <1>9, RangeAfter
    <2>2. Said' = Said
      BY <1>4, <1>5, <1>6, <1>7, <1>8, <2>1
    <2>3. Mentions' = Mentions
      BY <1>4, <1>5, <1>6, <1>7, <1>8, <2>1
    <2> QED
      BY <1>9, <2>2, <2>3
  <1>10. CASE tag.kind \notin {"start", "end"} /\ ~Begins(tag)
    <2>1. U = P /\ Q = R /\ L = K
      BY <1>3, <1>4, <1>5, <1>10, RangeAfter
    <2>2. Said' = Said /\ Mentions' = Mentions
      BY <1>7, <1>8, <2>1
    <2> QED
      BY <1>10, <2>2
  <1>11. CASE tag.kind = "empty" /\ Begins(tag)
    <2>1. U = P
      BY <1>3, <1>11, RangeAfter
    <2>2. \A i : i \in Said' <=> i \in Said \/ (i = n /\ ~Refers(tag))
      BY <1>4, <1>5, <1>6, <1>7, <1>8, <1>11, <2>1
    <2>3. \A i : i \in Mentions' <=> i \in Mentions \/ (i = n /\ Refers(tag))
      BY <1>4, <1>5, <1>6, <1>7, <1>8, <1>11, <2>1
    <2> QED
      BY <1>11, <2>2, <2>3
  <1>12. CASE tag.kind = "end"
    <2>1. x \in P /\ U = P \ {x}
      BY <1>3, <1>12, RangeAfter DEF Ends
    <2>2. ~Begins(tag)
      BY <1>12 DEF Begins, Tags
    <2>3. Q = R /\ L = K
      BY <1>4, <1>5, <2>2
    <2>4. \A i : i \in Said' <=> i \in Said \/ (i = x /\ x \in K /\ ~Refers(doc[x]))
      BY <1>6, <1>7, <1>8, <2>1, <2>3
    <2>5. \A i : i \in Mentions' <=> i \in Mentions \/ (i = x /\ x \in K /\ Refers(doc[x]))
      BY <1>6, <1>7, <1>8, <2>1, <2>3
    <2> QED
      BY <1>1, <1>12, <2>4, <2>5
  <1> QED
    BY <1>9, <1>10, <1>11, <1>12

\* What stands at an element that is finished stays.
LEMMA AtStays ==
    ASSUME XmlInv, NEW tag, Grows(tag)
    PROVE  /\ \A i \in Said : i \in 1..Len(doc) /\ EntryAt'[i] = EntryAt[i]
           /\ \A i \in Mentions : i \in 1..Len(doc) /\ MentionAt'[i] = MentionAt[i]
           /\ \A i \in 1..Len(doc) + 1 : /\ EntryAt'[i] = EntrySaid(doc'[i], Content(i)')
                                         /\ MentionAt'[i] = MentionOf(doc'[i], Content(i)')
  <1>1. PICK m \in Nat : m = Len(doc)
    BY DEF Grows
  <1>2. DOMAIN doc = 1..m /\ DOMAIN doc' = 1..m + 1 /\ \A i \in 1..m : doc'[i] = doc[i]
    BY <1>1 DEF Grows
  <1>3. \A i \in 1..m + 1 : /\ EntryAt'[i] = EntrySaid(doc'[i], Content(i)')
                            /\ MentionAt'[i] = MentionOf(doc'[i], Content(i)')
    <2> SUFFICES ASSUME NEW i \in 1..m + 1
                 PROVE  /\ EntryAt'[i] = EntrySaid(doc'[i], Content(i)')
                        /\ MentionAt'[i] = MentionOf(doc'[i], Content(i)')
      OBVIOUS
    <2>1. i \in DOMAIN doc'
      BY <1>2
    <2>2. EntryAt' = [j \in DOMAIN doc' |-> EntrySaid(doc[j], Content(j))']
      BY DEF EntryAt
    <2>3. MentionAt' = [j \in DOMAIN doc' |-> MentionOf(doc[j], Content(j))']
      BY DEF MentionAt
    <2>4. EntrySaid(doc[i], Content(i))' = EntrySaid(doc'[i], Content(i)')
      BY DEF EntrySaid, OwnOf, Epub2Refinements, Attribute, Refinement
    <2>5. MentionOf(doc[i], Content(i))' = MentionOf(doc'[i], Content(i)')
      BY DEF MentionOf, RefiningBy, Attribute, Refinement
    <2> QED
      BY <2>1, <2>2, <2>3, <2>4, <2>5
  <1>4. \A i \in 1..m : i \notin Range(opened) => Content(i)' = Content(i) /\ doc'[i] = doc[i]
    BY <1>1, <1>2, PartsStay
  <1>5. \A i \in 1..m : /\ EntryAt[i] = EntrySaid(doc[i], Content(i))
                        /\ MentionAt[i] = MentionOf(doc[i], Content(i))
    BY <1>2 DEF EntryAt, MentionAt
  <1>6. \A i : i \in Said \/ i \in Mentions => i \in 1..m /\ i \notin Range(opened)
    BY <1>1, SaidAre, KeptHere DEF Closed
  <1>7. \A i : i \in 1..m => i \in 1..m + 1
    OBVIOUS
  <1> QED
    BY <1>1, <1>3, <1>4, <1>5, <1>6, <1>7

\* What finishes no element that is kept leaves what is stored.
LEMMA StoresStay ==
    ASSUME XmlInv, NEW tag, Grows(tag), Stores, Said' = Said, Mentions' = Mentions,
           SameEntries(package, package'), refinements' = refinements
    PROVE  Stores'
  <1>1. PICK m \in Nat : m = Len(doc) /\ Len(doc') = m + 1
    BY DEF Grows
  <1>2. PICK S, f, g : S = Said /\ f = EntryAt /\ g = EntryAt'
    OBVIOUS
  <1>3. PICK T, h, j : T = Mentions /\ h = MentionAt /\ j = MentionAt'
    OBVIOUS
  <1>4. List(S, m + 1, g) = List(S, m, f)
    <2>1. \A k \in S : k \in 1..m /\ g[k] = f[k]
      BY <1>1, <1>2, AtStays
    <2> QED
      BY <2>1, ListTo
  <1>5. List(T, m + 1, j) = List(T, m, h)
    <2>1. \A k \in T : k \in 1..m /\ j[k] = h[k]
      BY <1>1, <1>3, AtStays
    <2> QED
      BY <2>1, ListTo
  <1>6. List(Said, Len(doc), EntryAt)' = List(S, m + 1, g)
    BY <1>1, <1>2
  <1>7. List(Mentions, Len(doc), MentionAt)' = List(T, m + 1, j)
    BY <1>1, <1>3
  <1> QED
    BY <1>1, <1>2, <1>3, <1>4, <1>5, <1>6, <1>7 DEF Stores, SameEntries

\* What an event stores with its text is what it says.
Adds(x, e, v) ==
    /\ \A i : i \in Said' <=> i \in Said \/ (i = x /\ ~Refers(e))
    /\ \A i : i \in Mentions' <=> i \in Mentions \/ (i = x /\ Refers(e))
    /\ package'.entries = IF Refers(e) THEN package.entries
                          ELSE Append(package.entries, EntrySaid(e, v))
    /\ refinements' = IF Refers(e) THEN Append(refinements, MentionOf(e, v)) ELSE refinements

\* One that finishes is stored with what it says.
LEMMA StoresGrow ==
    ASSUME XmlInv, NEW tag, Grows(tag), Stores, NEW x \in 1..Len(doc) + 1,
           x \notin Said, x \notin Mentions, \A k \in Said \cup Mentions : k < x,
           NEW e, NEW v, EntryAt'[x] = EntrySaid(e, v), MentionAt'[x] = MentionOf(e, v),
           Adds(x, e, v)
    PROVE  Stores'
  <1>1. PICK m \in Nat : m = Len(doc) /\ Len(doc') = m + 1
    BY DEF Grows
  <1>2. PICK S, A, f, g : S = Said /\ A = Said' /\ f = EntryAt /\ g = EntryAt'
    OBVIOUS
  <1>3. PICK T, B, h, j : T = Mentions /\ B = Mentions' /\ h = MentionAt /\ j = MentionAt'
    OBVIOUS
  <1>4. \A k \in S : k \in 1..m /\ g[k] = f[k]
    BY <1>1, <1>2, AtStays
  <1>5. \A k \in T : k \in 1..m /\ j[k] = h[k]
    BY <1>1, <1>3, AtStays
  <1>6. List(Said, Len(doc), EntryAt)' = List(A, m + 1, g)
    BY <1>1, <1>2
  <1>7. List(Mentions, Len(doc), MentionAt)' = List(B, m + 1, j)
    BY <1>1, <1>3
  <1>8. package.entries = List(S, m, f) /\ refinements = List(T, m, h)
    BY <1>1, <1>2, <1>3 DEF Stores
  <1>9. x \in 1..m + 1 /\ x \notin S /\ x \notin T /\ \A k \in S : k < x
    BY <1>1, <1>2, <1>3
  <1>10. \A k \in T : k < x
    BY <1>3
  <1>11. CASE Refers(e)
    <2>1. A = S /\ \A k : k \in B <=> k \in T \/ k = x
      BY <1>2, <1>3, <1>11 DEF Adds
    <2>2. List(S, m + 1, g) = List(S, m, f)
      BY <1>4, ListTo
    <2>3. List(B, m + 1, j) = Append(List(T, m, h), j[x])
      BY <1>5, <1>9, <1>10, <2>1, ListWith
    <2>4. package'.entries = package.entries /\ refinements' = Append(refinements, MentionOf(e, v))
      BY <1>11 DEF Adds
    <2>5. package'.entries = List(A, m + 1, g)
      BY <1>8, <2>1, <2>2, <2>4
    <2>6. refinements' = List(B, m + 1, j)
      BY <1>3, <1>8, <2>3, <2>4
    <2> QED
      BY <1>6, <1>7, <2>5, <2>6 DEF Stores
  <1>12. CASE ~Refers(e)
    <2>1. B = T /\ \A k : k \in A <=> k \in S \/ k = x
      BY <1>2, <1>3, <1>12 DEF Adds
    <2>2. List(T, m + 1, j) = List(T, m, h)
      BY <1>5, ListTo
    <2>3. List(A, m + 1, g) = Append(List(S, m, f), g[x])
      BY <1>4, <1>9, <2>1, ListWith
    <2>4. refinements' = refinements /\ package'.entries = Append(package.entries, EntrySaid(e, v))
      BY <1>12 DEF Adds
    <2>5. refinements' = List(B, m + 1, j)
      BY <1>8, <2>1, <2>2, <2>4
    <2>6. package'.entries = List(A, m + 1, g)
      BY <1>2, <1>8, <2>3, <2>4
    <2> QED
      BY <1>6, <1>7, <2>5, <2>6 DEF Stores
  <1> QED
    BY <1>11, <1>12

\* The element that is collected is so as long as it is open.
LEMMA CollectedStays ==
    ASSUME XmlInv, XmlInv', NEW tag, Grows(tag), Opens(tag), Ends(tag), PlainMetadata',
           Here = "metadata", ~Begins(tag), NEW k, Collected(k),
           tag.kind = "end" => k # Len(opened),
           UNCHANGED <<section, sectionDepth, collecting>>,
           NEW i, i = opened[k], text' = Parts(i)'
    PROVE  Collected(k)'
  <1>1. PICK p \in Nat : p = Len(opened) /\ DOMAIN opened = 1..p /\ DOMAIN opened' = 1..Len(opened')
    BY DEF XmlInv
  <1>2. i = opened[k]
    OBVIOUS
  <1>3. /\ k \in 1..p /\ i \in Kept /\ section = "metadata" /\ sectionDepth < k
        /\ collecting = Pending(doc[i])
        /\ \A j \in Kept : j # i => j < i /\ Closed(j)
        /\ \A l \in 1..p : k < l => doc[opened[l]].name \notin DublinCore \cup {"meta"}
    BY <1>1, <1>2 DEF Collected
  <1>4. \A l \in 1..p : doc'[opened[l]] = doc[opened[l]]
    BY <1>1, OpenNames
  <1>5. tag.kind = "start" => tag.name \notin DublinCore \cup {"meta"}
    <2>1. i \in Range(opened)
      BY <1>1, <1>2, <1>3 DEF Range
    <2>2. i \in Metadata
      BY <1>3, KeptHere
    <2>3. Range(opened) \cap Metadata # {}
      BY <2>1, <2>2
    <2>4. tag.kind = "start" => tag.kind \in Tags
      BY DEF Tags
    <2> QED
      BY <2>3, <2>4, PlainBefore
  <1>6. /\ k \in DOMAIN opened' /\ opened'[k] = i
        /\ \A l \in DOMAIN opened' : k < l => doc'[opened'[l]].name \notin DublinCore \cup {"meta"}
    <2>1. CASE tag.kind = "start"
      <3>1. /\ Len(opened') = p + 1 /\ opened'[p + 1] = Len(doc) + 1
            /\ \A l \in 1..p : opened'[l] = opened[l]
        BY <1>1, <2>1 DEF Opens
      <3>2. DOMAIN opened' = 1..p + 1
        BY <1>1, <3>1
      <3>3. doc'[opened'[p + 1]].name = tag.name
        BY <3>1 DEF Grows, Event
      <3>4. \A l \in 1..p + 1 : l \in 1..p \/ l = p + 1
        OBVIOUS
      <3>5. k \in 1..p + 1 /\ opened'[k] = i
        BY <1>2, <1>3, <3>1
      <3>6. \A l \in 1..p + 1 : k < l => doc'[opened'[l]].name \notin DublinCore \cup {"meta"}
        BY <1>3, <1>4, <1>5, <2>1, <3>1, <3>3, <3>4
      <3> QED
        BY <3>2, <3>5, <3>6
    <2>2. CASE tag.kind \notin {"start", "end"}
      <3>1. opened' = opened
        BY <2>2 DEF Opens
      <3> QED
        BY <1>1, <1>2, <1>3, <1>4, <3>1
    <2>3. CASE tag.kind = "end"
      <3>1. Len(opened') = p - 1 /\ \A l \in 1..p - 1 : opened'[l] = opened[l]
        BY <1>1, <2>3 DEF Opens, Ends
      <3>2. k \in 1..p - 1 /\ \A l \in 1..p - 1 : l \in 1..p
        BY <1>1, <1>3, <2>3
      <3>3. DOMAIN opened' = 1..p - 1
        BY <1>1, <3>1
      <3>4. \A l \in 1..p - 1 : k < l => doc'[opened'[l]].name \notin DublinCore \cup {"meta"}
        BY <1>3, <1>4, <3>1, <3>2
      <3> QED
        BY <1>2, <3>1, <3>2, <3>3, <3>4
    <2> QED
      BY <2>1, <2>2, <2>3
  <1>7. \A j : j \in Kept' <=> j \in Kept
    BY KeptGrows
  <1>8. \A j \in Kept' : j # i => j < i /\ Closed(j)'
    <2>1. \A j \in Kept : j \in 1..Len(doc)
      BY KeptHere
    <2> QED
      BY <1>3, <1>7, <2>1, ClosedStays
  <1>9. Pending(doc[i])' = Pending(doc[i])
    <2>1. doc'[i] = doc[i]
      BY <1>2, <1>3, <1>4
    <2>2. Pending(doc[i])' = Pending(doc'[i])
      BY DEF Pending, MetaEntry, Epub2Refinements, Refinement, Attribute
    <2> QED
      BY <2>1, <2>2
  <1>10. text' = Parts(i)'
    BY <1>2
  <1> QED
    BY <1>3, <1>6, <1>7, <1>8, <1>9, <1>10 DEF Collected

\* While nothing is collected, everything that is kept is closed.
LEMMA ClosedAll ==
    ASSUME XmlInv, XmlInv', NEW tag, Grows(tag), Opens(tag), Ends(tag), ~Begins(tag),
           \A j \in Kept : Closed(j)
    PROVE  \A j \in Kept' : Closed(j)'
  <1>1. \A j \in Kept' : j \in Kept
    BY KeptGrows
  <1>2. \A j \in Kept : j \in 1..Len(doc)
    BY KeptHere
  <1> QED
    BY <1>1, <1>2, ClosedStays

\* What the element collected is says whether it is.
LEMMA CollectedIs ==
    ASSUME XmlInv, NEW k, Collected(k)
    PROVE  /\ collecting = Pending(doc[opened[k]]) /\ collecting # <<>>
           /\ collecting[1].local = doc[opened[k]].name
           /\ opened[k] \in 1..Len(doc) /\ opened[k] \in Range(opened) /\ Keeps(doc[opened[k]])
  <1>1. Keeps(doc[opened[k]])
    BY KeptHere DEF Collected
  <1>2. opened[k] \in 1..Len(doc)
    BY KeptHere DEF Collected
  <1> QED
    BY <1>1, <1>2, PendingIs DEF Collected, Range

\* The elements that are open have names.
OpenNamed == \A k \in DOMAIN opened : doc[opened[k]].name # ""
IsNamed(tag) == tag.name # ""

LEMMA NamedAfter ==
    ASSUME XmlInv, XmlInv', NEW tag, Grows(tag), Opens(tag), OpenNamed,
           tag.kind = "start" => IsNamed(tag)
    PROVE  OpenNamed'
  <1>1. PICK p \in Nat : p = Len(opened) /\ DOMAIN opened = 1..p /\ DOMAIN opened' = 1..Len(opened')
    BY DEF XmlInv
  <1>2. \A l \in 1..p : doc'[opened[l]] = doc[opened[l]] /\ doc[opened[l]].name # ""
    BY <1>1, OpenNames DEF OpenNamed
  <1>3. CASE tag.kind = "start"
    <2>1. /\ Len(opened') = p + 1 /\ opened'[p + 1] = Len(doc) + 1
          /\ \A l \in 1..p : opened'[l] = opened[l]
      BY <1>1, <1>3 DEF Opens
    <2>2. doc'[opened'[p + 1]].name = tag.name
      BY <2>1 DEF Grows, Event
    <2>3. \A l \in 1..p + 1 : l \in 1..p \/ l = p + 1
      OBVIOUS
    <2>4. \A l \in 1..p + 1 : doc'[opened'[l]].name # ""
      BY <1>2, <1>3, <2>1, <2>2, <2>3 DEF IsNamed
    <2> QED
      BY <1>1, <2>1, <2>4 DEF OpenNamed
  <1>4. CASE opened' = opened
    BY <1>1, <1>2, <1>4 DEF OpenNamed
  <1>5. CASE Len(opened') = p - 1 /\ \A l \in 1..p - 1 : opened'[l] = opened[l]
    <2>1. \A l \in 1..p - 1 : l \in 1..p
      OBVIOUS
    <2>2. \A l \in 1..p - 1 : doc'[opened'[l]].name # ""
      BY <1>2, <1>5, <2>1
    <2> QED
      BY <1>1, <1>5, <2>2 DEF OpenNamed
  <1> QED
    BY <1>1, <1>3, <1>4, <1>5 DEF Opens

\* A document whose metadata are plain has been read so far.
MetadataInv ==
    reader = "package" /\ error = "" => OpenNamed /\ (PlainMetadata => Stores /\ Collects)

LEMMA MetadataStarts == Init => MetadataInv
  <1> SUFFICES ASSUME Init PROVE OpenNamed /\ Stores /\ Collects
    BY DEF MetadataInv
  <1>1. doc = <<>> /\ opened = <<>> /\ OpfInit
    BY DEF Init, XmlInit
  <1>2. DOMAIN doc = {} /\ DOMAIN opened = {} /\ Len(doc) = 0
    BY <1>1
  <1>3. package.entries = <<>> /\ refinements = <<>> /\ collecting = <<>>
    BY <1>1 DEF OpfInit, NoPackage
  <1>4. List(Said, Len(doc), EntryAt) = <<>> /\ List(Mentions, Len(doc), MentionAt) = <<>>
    BY <1>2, ListNone
  <1>5. \A j : Closed(j)
    BY <1>2 DEF Closed, Range
  <1> QED
    BY <1>2, <1>3, <1>4, <1>5 DEF OpenNamed, Stores, Collects

\* What is read where nothing is finished or begun.
LEMMA MetadataPassed ==
    ASSUME XmlInv, XmlInv', NEW tag, Grows(tag), Opens(tag), Ends(tag), ~Begins(tag),
           tag.kind # "end" \/ opened[Len(opened)] \notin Kept,
           Stores, SameEntries(package, package'), refinements' = refinements,
           collecting' = collecting,
           \/ collecting = <<>> /\ \A j \in Kept : Closed(j)
           \/ \E k : Collected(k)'
    PROVE  Stores' /\ Collects'
  <1>1. PICK n, x : n = Len(doc) + 1 /\ x = opened[Len(opened)]
    OBVIOUS
  <1>2. Said' = Said /\ Mentions' = Mentions
    <2>1. CASE tag.kind # "end"
      BY <1>1, <2>1, SaidAfter
    <2>2. CASE tag.kind = "end"
      <3>1. x \notin Kept
        BY <1>1, <2>2
      <3>2. (\A i : i \in Said' <=> i \in Said) /\ (\A i : i \in Mentions' <=> i \in Mentions)
        BY <1>1, <2>2, <3>1, SaidAfter
      <3> QED
        BY <3>2
    <2> QED
      BY <2>1, <2>2
  <1>3. Stores'
    BY <1>2, StoresStay
  <1>4. Collects'
    <2>1. CASE collecting = <<>> /\ \A j \in Kept : Closed(j)
      <3>1. \A j \in Kept' : Closed(j)'
        BY <2>1, ClosedAll
      <3> QED
        BY <2>1, <3>1 DEF Collects
    <2>2. CASE \E k : Collected(k)'
      BY <2>2 DEF Collects
    <2> QED
      BY <2>1, <2>2
  <1> QED
    BY <1>3, <1>4

\* A text is collected by the element it stands in.
LEMMA TextCollected ==
    ASSUME XmlInv, XmlInv', NEW tag, Grows(tag), Opens(tag), PlainMetadata', Sectioned,
           tag.name = "", tag.kind \notin {"start", "empty", "end"}, Stores, Collects,
           UNCHANGED <<package, section, sectionDepth, collecting, refinements>>,
           text' = IF collecting = <<>> THEN text
                   ELSE Append(text, PartOf(tag.kind, Len(doc) + 1))
    PROVE  Stores' /\ Collects'
  <1>1. ~Begins(tag) /\ Ends(tag)
    BY DEF Begins, Tags, Ends
  <1>2. SameEntries(package, package')
    BY DEF SameEntries
  <1>3. ASSUME NEW k, Collected(k) PROVE Collected(k)'
    <2>1. PICK i : i = opened[k]
      OBVIOUS
    <2>2. collecting # <<>> /\ i \in Range(opened)
      BY <1>3, <2>1, CollectedIs
    <2>3. text = Parts(i) /\ section = "metadata"
      BY <1>3, <2>1 DEF Collected
    <2>4. Parts(i)' = Append(Parts(i), PartOf(tag.kind, Len(doc) + 1))
      BY <2>2, PartsGrow
    <2>5. text' = Parts(i)'
      BY <2>2, <2>3, <2>4
    <2>6. Here = "metadata"
      BY <2>3, SectionHere
    <2> QED
      BY <1>1, <1>3, <2>1, <2>5, <2>6, CollectedStays
  <1>4. \/ collecting = <<>> /\ \A j \in Kept : Closed(j)
        \/ \E k : Collected(k)'
    BY <1>3 DEF Collects
  <1> QED
    BY <1>1, <1>2, <1>4, MetadataPassed

\* An element is opened outside of the metadata.
LEMMA OutsideOpened ==
    ASSUME XmlInv, XmlInv', NEW tag, Grows(tag), Opens(tag), Sectioned,
           tag.kind \in {"start", "empty"}, section # "metadata", Stores, Collects,
           SameEntries(package, package'), refinements' = refinements, collecting' = collecting
    PROVE  Stores' /\ Collects'
  <1>1. Here # "metadata"
    BY SectionHere
  <1>2. ~Begins(tag) /\ Ends(tag) /\ tag.kind # "end"
    BY <1>1 DEF Begins, Ends
  <1>3. collecting = <<>> /\ \A j \in Kept : Closed(j)
    BY DEF Collects, Collected
  <1> QED
    BY <1>2, <1>3, MetadataPassed

\* An element is opened in the metadata.
LEMMA MetadataOpened ==
    ASSUME XmlInv, XmlInv', NEW tag, Grows(tag), Opens(tag), PlainMetadata', Sectioned,
           tag.kind \in {"start", "empty"}, IsNamed(tag), section = "metadata",
           UNCHANGED <<section, sectionDepth>>, IsPackage(package), Stores, Collects,
           OpenMetadata(tag)
    PROVE  Stores' /\ Collects'
  <1>1. Here = "metadata" /\ tag.kind \in Tags
    BY SectionHere DEF Tags
  <1>2. Begins(tag) <=> Keeps(tag)
    BY <1>1 DEF Begins
  <1>3. Pending(tag) = <<>> <=> ~Keeps(tag)
    BY PendingIs
  <1>4. PICK p : p = package
    OBVIOUS
  <1>5. PICK n : n = Len(doc) + 1
    OBVIOUS
  <1>6. Ends(tag) /\ tag.kind # "end"
    BY DEF Ends
  <1>7. CASE ~Keeps(tag)
    <2>1. package' = [p EXCEPT !.cover_id = Cover(tag)] /\ UNCHANGED <<collecting, text, refinements>>
      BY <1>3, <1>4, <1>7 DEF OpenMetadata
    <2>2. SameEntries(package, package')
      <3>1. PICK c : c = Cover(tag)
        OBVIOUS
      <3>2. package' = [p EXCEPT !.cover_id = c] /\ IsPackage(p)
        BY <1>4, <2>1, <3>1
      <3>3. SameEntries(p, package')
        BY <3>2, Put
      <3> QED
        BY <1>4, <3>3
    <2>3. ASSUME NEW k, Collected(k) PROVE Collected(k)'
      <3>1. PICK i : i = opened[k]
        OBVIOUS
      <3>2. text = Parts(i)
        BY <2>3, <3>1 DEF Collected
      <3>3. Parts(i)' = Parts(i)
        BY PartsStay DEF IsNamed
      <3>4. text' = Parts(i)'
        BY <2>1, <3>2, <3>3
      <3> QED
        BY <1>1, <1>2, <1>6, <1>7, <2>1, <2>3, <3>1, <3>4, CollectedStays
    <2>4. \/ collecting = <<>> /\ \A j \in Kept : Closed(j)
          \/ \E k : Collected(k)'
      BY <2>3 DEF Collects
    <2> QED
      BY <1>2, <1>6, <1>7, <2>1, <2>2, <2>4, MetadataPassed
  <1>8. CASE Keeps(tag)
    <2>1. tag.name \in DublinCore \cup {"meta"}
      BY <1>8 DEF Keeps, Property
    <2>2. Range(opened) \cap Metadata = {}
      BY <1>1, <2>1, PlainBefore
    <2>3. \A k : ~Collected(k)
      BY <2>2, KeptHere DEF Collected, Range
    <2>4. collecting = <<>> /\ \A j \in Kept : Closed(j)
      BY <2>3 DEF Collects
    <2>5. text' = <<>>
      BY <1>3, <1>8 DEF OpenMetadata
    <2>6. \A i : i \in Kept' <=> i \in Kept \/ i = n
      BY <1>2, <1>5, <1>8, KeptGrows
    <2>7. Kept \subseteq 1..Len(doc) /\ Len(doc) \in Nat
      BY KeptHere, Length
    <2>8. \A j \in Kept : Closed(j)'
      BY <1>6, <2>4, <2>7, ClosedStays
    <2>9. CASE tag.kind = "start"
      <3>1. collecting' = Pending(tag) /\ UNCHANGED <<package, refinements>>
        BY <1>3, <1>8, <2>9 DEF OpenMetadata
      <3>2. Said' = Said /\ Mentions' = Mentions
        <4>1. PICK x : x = opened[Len(opened)]
          OBVIOUS
        <4> QED
          BY <1>5, <1>6, <2>9, <4>1, SaidAfter
      <3>3. Stores'
        BY <3>1, <3>2, StoresStay DEF SameEntries
      <3>4. PICK m \in Nat : m = Len(opened) /\ DOMAIN opened = 1..m
        BY DEF Opens
      <3>5. Len(opened') = m + 1 /\ opened'[m + 1] = n
        BY <1>5, <2>9, <3>4 DEF Opens
      <3>6. DOMAIN opened' = 1..m + 1 /\ m + 1 \in DOMAIN opened'
        <4>1. DOMAIN opened' = 1..Len(opened')
          BY DEF XmlInv
        <4> QED
          BY <3>5, <4>1
      <3>7. sectionDepth \in 1..m
        BY <3>4 DEF Sectioned
      <3>8. doc'[n].name = tag.name /\ doc'[n].attrs = tag.attrs
        BY <1>5 DEF Grows, Event
      <3>9. PICK e : e = doc'[n]
        OBVIOUS
      <3>10. Pending(doc[opened[m + 1]])' = Pending(tag)
        <4>1. Pending(doc[opened[m + 1]])' = Pending(e)
          BY <3>5, <3>9 DEF Pending, MetaEntry, Epub2Refinements, Refinement, Attribute
        <4>2. Pending(e) = Pending(tag)
          BY <3>8, <3>9, EventSays
        <4> QED
          BY <4>1, <4>2
      <3>11. Parts(opened[m + 1])' = <<>>
        <4>1. Parts(n)' = <<>>
          BY <1>5, NoParts
        <4> QED
          BY <3>5, <4>1
      <3>12. \A j \in Kept' : j # n => j < n /\ Closed(j)'
        <4>1. \A j \in Kept : j < n
          BY <1>5, <2>7
        <4> QED
          BY <2>6, <2>8, <4>1
      <3>13. Collected(m + 1)'
        <4>1. opened'[m + 1] \in Kept'
          BY <2>6, <3>5
        <4>2. section' = "metadata" /\ sectionDepth' < m + 1
          BY <3>7
        <4>3. \A l \in DOMAIN opened' : m + 1 < l => FALSE
          BY <3>6
        <4> QED
          BY <2>5, <3>1, <3>5, <3>6, <3>10, <3>11, <3>12, <4>1, <4>2, <4>3 DEF Collected
      <3> QED
        BY <3>3, <3>13 DEF Collects
    <2>10. CASE tag.kind = "empty"
      <3>1. /\ package' = [package EXCEPT !.entries = Entries(Pending(tag)[1], <<>>)]
            /\ refinements' = Held(Pending(tag)[1], <<>>) /\ UNCHANGED collecting
        BY <1>3, <1>8, <2>10 DEF OpenMetadata
      <3>2. PICK a, b : a = Entries(Pending(tag)[1], <<>>) /\ b = Held(Pending(tag)[1], <<>>)
        OBVIOUS
      <3>3. /\ a = IF Refers(tag) THEN package.entries
                   ELSE Append(package.entries, EntrySaid(tag, <<>>))
            /\ b = IF Refers(tag) THEN Append(refinements, MentionOf(tag, <<>>)) ELSE refinements
        BY <1>8, <3>2, StoredIs
      <3>4. package'.entries = a /\ refinements' = b
        <4>1. package' = [p EXCEPT !.entries = a] /\ IsPackage(p)
          BY <1>4, <3>1, <3>2
        <4>2. PICK q : q = package' /\ q = [p EXCEPT !.entries = a]
          BY <4>1
        <4>3. q.entries = a
          BY <4>1, <4>2, PutEntries
        <4>4. package'.entries = a
          BY <4>2, <4>3
        <4> QED
          BY <3>1, <3>2, <4>4
      <3>5. /\ \A i : i \in Said' <=> i \in Said \/ (i = n /\ ~Refers(tag))
            /\ \A i : i \in Mentions' <=> i \in Mentions \/ (i = n /\ Refers(tag))
        <4>1. PICK x : x = opened[Len(opened)]
          OBVIOUS
        <4> QED
          BY <1>2, <1>5, <1>6, <1>8, <2>10, <4>1, SaidAfter
      <3>6. Adds(n, tag, <<>>)
        BY <3>3, <3>4, <3>5 DEF Adds
      <3>7. n \in 1..Len(doc) + 1
        BY <1>5, <2>7
      <3>8. EntryAt'[n] = EntrySaid(tag, <<>>) /\ MentionAt'[n] = MentionOf(tag, <<>>)
        <4>1. Content(n)' = <<>>
          BY <1>5, NoParts
        <4>2. PICK e : e = doc'[n]
          OBVIOUS
        <4>3. e.name = tag.name /\ e.attrs = tag.attrs
          BY <1>5, <4>2 DEF Grows, Event
        <4>4. EntrySaid(e, <<>>) = EntrySaid(tag, <<>>) /\ MentionOf(e, <<>>) = MentionOf(tag, <<>>)
          BY <4>3, EventSays
        <4>5. EntryAt'[n] = EntrySaid(e, <<>>) /\ MentionAt'[n] = MentionOf(e, <<>>)
          BY <3>7, <4>1, <4>2, AtStays
        <4> QED
          BY <4>4, <4>5
      <3>9. \A k \in Said \cup Mentions : k < n
        <4>1. \A k \in Said \cup Mentions : k \in 1..Len(doc)
          BY AtStays
        <4> QED
          BY <1>5, <2>7, <4>1
      <3>10. n \notin Said /\ n \notin Mentions
        <4>1. ~(n < n)
          BY <3>7, <2>7
        <4> QED
          BY <3>9, <4>1
      <3>11. Stores'
        BY <3>6, <3>7, <3>8, <3>9, <3>10, StoresGrow
      <3>12. Closed(n)'
        <4>1. opened' = opened
          BY <2>10 DEF Opens
        <4>2. n \notin Range(opened)
          BY <1>5, RangeAfter
        <4> QED
          BY <4>1, <4>2 DEF Closed
      <3>13. \A j \in Kept' : Closed(j)'
        BY <2>6, <2>8, <3>12
      <3> QED
        BY <2>4, <3>1, <3>11, <3>13 DEF Collects
    <2> QED
      BY <2>9, <2>10
  <1> QED
    BY <1>7, <1>8

\* An element is closed: the one that is collected is stored.
LEMMA MetadataClosed ==
    ASSUME XmlInv, XmlInv', NEW tag, Grows(tag), Opens(tag), Ends(tag), PlainMetadata', Sectioned,
           tag.kind = "end", IsNamed(tag), IsPackage(package), Stores, Collects,
           PackageClose(tag)
    PROVE  Stores' /\ Collects'
  <1>1. PICK m \in Nat : m = Len(opened) /\ DOMAIN opened = 1..m /\ elements = m
    BY DEF Opens, Sectioned
  <1>2. PICK x : x = opened[m]
    OBVIOUS
  <1>3. m # 0 /\ tag.name = doc[x].name /\ x \in Range(opened)
    <2>1. m # 0
      BY <1>1 DEF Ends, XmlInv
    <2> QED
      BY <1>1, <1>2, <2>1 DEF Ends, Range
  <1>4. ~Begins(tag)
    BY DEF Begins, Tags
  <1>5. CASE collecting = <<>> /\ \A j \in Kept : Closed(j)
    <2>1. x \notin Kept
      BY <1>3, <1>5 DEF Closed
    <2>2. UNCHANGED <<package, refinements, collecting>>
      BY <1>5 DEF PackageClose
    <2> QED
      BY <1>1, <1>2, <1>4, <1>5, <2>1, <2>2, MetadataPassed DEF SameEntries
  <1>6. ASSUME NEW k, Collected(k) PROVE Stores' /\ Collects'
    <2>1. PICK i : i = opened[k]
      OBVIOUS
    <2>2. /\ k \in 1..m /\ i \in Kept /\ section = "metadata" /\ sectionDepth < k
          /\ text = Parts(i)
          /\ \A j \in Kept : j # i => j < i /\ Closed(j)
          /\ \A l \in 1..m : k < l => doc[opened[l]].name \notin DublinCore \cup {"meta"}
      BY <1>1, <1>6, <2>1 DEF Collected
    <2>3. /\ collecting = Pending(doc[i]) /\ collecting # <<>> /\ collecting[1].local = doc[i].name
          /\ i \in 1..Len(doc) /\ i \in Range(opened) /\ Keeps(doc[i])
      BY <1>6, <2>1, CollectedIs
    <2>4. Parts(i)' = Parts(i) /\ Content(i)' = Content(i)
      BY PartsStay DEF IsNamed
    <2>5. doc[i].name \in DublinCore \cup {"meta"}
      BY <2>2, KeptHere
    <2>6. CASE k = m
      <3>1. i = x
        BY <1>2, <2>1, <2>6
      <3>2. collecting[1].local = tag.name
        BY <1>3, <2>3, <3>1
      <3>3. /\ package' = [package EXCEPT !.entries = Entries(collecting[1], Trimmed(text))]
            /\ refinements' = Held(collecting[1], Trimmed(text)) /\ collecting' = <<>>
        BY <2>3, <3>2 DEF PackageClose
      <3>4. PICK e, v : e = doc[i] /\ v = Content(i)
        OBVIOUS
      <3>5. Trimmed(text) = v /\ collecting[1] = Pending(e)[1]
        BY <2>2, <2>3, <3>4 DEF Content
      <3>6. PICK a, b, p : a = Entries(Pending(e)[1], v) /\ b = Held(Pending(e)[1], v) /\ p = package
        OBVIOUS
      <3>7. /\ a = IF Refers(e) THEN package.entries ELSE Append(package.entries, EntrySaid(e, v))
            /\ b = IF Refers(e) THEN Append(refinements, MentionOf(e, v)) ELSE refinements
        BY <2>3, <3>4, <3>6, StoredIs
      <3>8. package'.entries = a /\ refinements' = b
        <4>1. package' = [p EXCEPT !.entries = a] /\ IsPackage(p)
          BY <3>3, <3>5, <3>6
        <4>2. PICK q : q = package' /\ q = [p EXCEPT !.entries = a]
          BY <4>1
        <4>3. q.entries = a
          BY <4>1, <4>2, PutEntries
        <4>4. package'.entries = a
          BY <4>2, <4>3
        <4> QED
          BY <3>3, <3>5, <3>6, <4>4
      <3>9. /\ \A j : j \in Said' <=> j \in Said \/ (j = i /\ ~Refers(e))
            /\ \A j : j \in Mentions' <=> j \in Mentions \/ (j = i /\ Refers(e))
        <4>1. PICK n : n = Len(doc) + 1
          OBVIOUS
        <4>2. i = opened[Len(opened)]
          BY <1>1, <1>2, <3>1
        <4> QED
          BY <2>2, <3>4, <4>1, <4>2, SaidAfter
      <3>10. Adds(i, e, v)
        BY <3>7, <3>8, <3>9 DEF Adds
      <3>11. PICK d \in Nat : d = Len(doc)
        BY DEF Grows
      <3>12. i \in 1..Len(doc) + 1 /\ doc'[i] = e
        <4>1. \A j \in 1..d : j \in 1..d + 1
          OBVIOUS
        <4> QED
          BY <2>3, <3>4, <3>11, <4>1 DEF Grows
      <3>13. EntryAt'[i] = EntrySaid(e, v) /\ MentionAt'[i] = MentionOf(e, v)
        BY <2>4, <3>4, <3>12, AtStays
      <3>14. \A j \in Said \cup Mentions : j \in Kept /\ Closed(j)
        BY SaidAre
      <3>15. ~Closed(i)
        BY <2>3 DEF Closed
      <3>16. i \notin Said /\ i \notin Mentions
        BY <3>14, <3>15
      <3>17. \A j \in Said \cup Mentions : j < i
        BY <2>2, <3>14, <3>15
      <3>18. Stores'
        BY <3>10, <3>12, <3>13, <3>16, <3>17, StoresGrow
      <3>19. Range(opened') = Range(opened) \ {x}
        <4>1. PICK n : n = Len(doc) + 1
          OBVIOUS
        <4> QED
          BY <1>1, <1>2, <4>1, RangeAfter DEF Ends
      <3>20. \A j \in Kept' : Closed(j)'
        <4>1. \A j \in Kept' : j \in Kept
          BY <1>4, KeptGrows
        <4> QED
          BY <2>2, <3>1, <3>19, <4>1 DEF Closed
      <3> QED
        BY <3>3, <3>18, <3>20 DEF Collects
    <2>7. CASE k # m
      <3>1. k < m /\ m \in 1..m
        BY <1>3, <2>2, <2>7
      <3>2. doc[x].name \notin DublinCore \cup {"meta"}
        BY <1>2, <2>2, <3>1
      <3>3. collecting[1].local # tag.name
        BY <1>3, <2>3, <2>5, <3>2
      <3>4. UNCHANGED <<package, refinements, collecting, text>>
        BY <3>3 DEF PackageClose
      <3>5. UNCHANGED <<section, sectionDepth>>
        <4>1. sectionDepth' = sectionDepth
          BY DEF PackageClose
        <4>2. sectionDepth \in 1..m
          BY <1>1, <2>2 DEF Sectioned
        <4>3. elements # sectionDepth
          BY <1>1, <2>2, <3>1, <4>2
        <4> QED
          BY <4>1, <4>3 DEF PackageClose
      <3>6. x \notin Kept
        BY <3>2, KeptHere
      <3>7. Here = "metadata"
        BY <2>2, SectionHere
      <3>8. text' = Parts(i)'
        BY <2>2, <2>4, <3>4
      <3>9. Collected(k)'
        BY <1>1, <1>4, <1>6, <2>1, <2>7, <3>4, <3>5, <3>7, <3>8, CollectedStays
      <3> QED
        BY <1>1, <1>2, <1>4, <3>4, <3>6, <3>9, MetadataPassed DEF SameEntries
    <2> QED
      BY <2>6, <2>7
  <1> QED
    BY <1>5, <1>6 DEF Collects

\* Nothing changes while nothing is read.
LEMMA MetadataRests == MetadataInv /\ UNCHANGED readerVars => MetadataInv'
  <1> SUFFICES ASSUME MetadataInv, UNCHANGED readerVars PROVE MetadataInv'
    OBVIOUS
  <1>1. /\ reader' = reader /\ doc' = doc /\ opened' = opened /\ error' = error
        /\ package' = package /\ section' = section /\ sectionDepth' = sectionDepth
        /\ collecting' = collecting /\ text' = text /\ refinements' = refinements
    BY DEF readerVars, xmlVars, opfState
  <1>2. OpenNamed' <=> OpenNamed
    BY <1>1 DEF OpenNamed
  <1>3. \A names, where : InSection(names, where)' = InSection(names, where)
    <2>1. \A i, names : Enclosing(i, names)' = Enclosing(i, names)
      BY <1>1 DEF Enclosing
    <2>2. \A i : SectionOf(i)' = SectionOf(i)
      BY <1>1, <2>1 DEF SectionOf
    <2>3. \A kinds, names : Places(kinds, names)' = Places(kinds, names)
      BY <1>1 DEF Places
    <2> QED
      BY <2>2, <2>3 DEF InSection
  <1>4. PlainMetadata' <=> PlainMetadata
    BY <1>1, <1>3 DEF PlainMetadata
  <1>5. Properties' = Properties
    BY <1>1, <1>3 DEF Properties, Attribute
  <1>6. Kept' = Kept /\ Refining' = Refining
    BY <1>1, <1>3, <1>5 DEF Kept, Refining, Attribute
  <1>7. \A i : Closed(i)' <=> Closed(i)
    BY <1>1 DEF Closed
  <1>8. Said' = Said /\ Mentions' = Mentions
    BY <1>6, <1>7 DEF Said, Mentions
  <1>9. \A i : Parts(i)' = Parts(i) /\ Content(i)' = Content(i)
    <2>1. \A i : Texts(i)' = Texts(i)
      BY <1>1 DEF Texts
    <2>2. \A j : Part(j)' = Part(j)
      BY <1>1 DEF Part
    <2>3. \A i : Sorted(Texts(i))' = Sorted(Texts(i))
      BY <1>1, <2>1 DEF Sorted
    <2>4. ASSUME NEW i PROVE Parts(i)' = Parts(i)
      <3>1. PICK s : s = Sorted(Texts(i))
        OBVIOUS
      <3>2. s = Sorted(Texts(i))'
        BY <2>3, <3>1
      <3>3. Parts(i) = [n \in DOMAIN s |-> Part(s[n])]
        BY <3>1 DEF Parts, Texts
      <3>4. Parts(i)' = [n \in DOMAIN s |-> Part(s[n])']
        BY <3>2 DEF Parts, Texts
      <3> QED
        BY <2>2, <3>3, <3>4
    <2> QED
      BY <2>4 DEF Content
  <1>10. EntryAt' = EntryAt /\ MentionAt' = MentionAt
    <2>1. \A i, v : EntrySaid(doc[i], v)' = EntrySaid(doc[i], v)
      BY <1>1 DEF EntrySaid, OwnOf, Epub2Refinements, Attribute, Refinement
    <2> QED
      BY <1>1, <1>9 DEF EntryAt, MentionAt, EntrySaid, OwnOf, Epub2Refinements, Attribute,
                        Refinement, MentionOf, RefiningBy
  <1>11. Stores' <=> Stores
    BY <1>1, <1>8, <1>10 DEF Stores
  <1>12. \A k : Collected(k)' <=> Collected(k)
    <2>1. \A k : Pending(doc[opened[k]])' = Pending(doc[opened[k]])
      BY <1>1 DEF Pending, MetaEntry, Epub2Refinements, Refinement, Attribute
    <2>2. \A k : Parts(opened[k])' = Parts(opened[k])
      BY <1>1, <1>9
    <2> QED
      BY <1>1, <1>6, <1>7, <2>1, <2>2 DEF Collected
  <1>13. Collects' <=> Collects
    BY <1>1, <1>6, <1>7, <1>12 DEF Collects
  <1> QED
    BY <1>1, <1>2, <1>4, <1>11, <1>13 DEF MetadataInv

\* There is no place in an empty document, and a last one among the elements
\* that are open.
LEMMA NoPlace ==
    ASSUME NEW s, s = <<>> PROVE DOMAIN s = {}
  OBVIOUS
LEMMA LastOpen ==
    ASSUME XmlInv, opened # <<>> PROVE Len(opened) \in DOMAIN opened
  <1>1. opened \in Seq(Nat)
    BY DEF XmlInv
  <1> QED
    BY <1>1

\* Every event of a package document keeps its metadata read.
LEMMA MetadataSteps == PackageInv /\ MetadataInv /\ [Next]_readerVars => MetadataInv'
  <1> SUFFICES ASSUME PackageInv, MetadataInv, Next, reader = "package", error = "", error' = ""
               PROVE  OpenNamed' /\ (PlainMetadata' => Stores' /\ Collects')
    <2>1. CASE UNCHANGED readerVars
      BY <2>1, MetadataRests
    <2>2. ASSUME Next PROVE reader' = reader /\ (error # "" => error' # "")
      <3>1. reader' = reader
        BY <2>2 DEF Next
      <3>2. OpfNext => error = ""
        BY DEF OpfNext, PackageDoctype, PackageOpen, PackageClose, PackageText, PackageRef, ReadPart
      <3>3. \/ error = "" \/ error' = error
        BY <2>2, <3>2 DEF Next, opfState
      <3> QED
        BY <3>1, <3>3
    <2> QED
      BY <2>1, <2>2 DEF MetadataInv
  <1>1. XmlInv /\ Recognized /\ Sectioned /\ BookRead /\ IsPackage(package)
    BY DEF PackageInv, Recognized, BookRead
  <1>2. OpenNamed /\ (PlainMetadata => Stores /\ Collects)
    BY DEF MetadataInv
  <1>3. \A tag : Grows(tag) /\ PlainMetadata' => Stores /\ Collects
    BY <1>1, <1>2, PlainBefore
  <1>4. ASSUME doc = <<>>, PackageDoctype
        PROVE  OpenNamed' /\ (PlainMetadata' => Stores' /\ Collects')
    <2>1. PICK tag \in PackageTags : tag.kind = "doctype" /\ Hand(tag)
      BY <1>4 DEF PackageDoctype
    <2>2. UNCHANGED <<package, section, sectionDepth, collecting, text, refinements>>
      BY <1>4 DEF PackageDoctype
    <2>3. Grows(tag) /\ Opens(tag) /\ XmlInv'
      BY <1>1, <2>1, Handed
    <2>4. OpenNamed'
      BY <1>1, <1>2, <2>1, <2>3, NamedAfter
    <2>5. ASSUME PlainMetadata' PROVE Stores' /\ Collects'
      <3>1. Stores /\ Collects
        BY <1>3, <2>3, <2>5
      <3>2. \A k : ~Collected(k)
        <4>1. DOMAIN doc = {}
          BY <1>4, NoPlace
        <4> QED
          BY <1>1, <4>1 DEF XmlInv, Collected
      <3>3. ~Begins(tag) /\ Ends(tag)
        BY <2>1 DEF Begins, Tags, Ends
      <3>4. collecting = <<>> /\ \A j \in Kept : Closed(j)
        BY <3>1, <3>2 DEF Collects
      <3> QED
        BY <1>1, <2>1, <2>2, <2>3, <3>1, <3>3, <3>4, MetadataPassed DEF SameEntries
    <2> QED
      BY <2>4, <2>5
  <1>5. ASSUME NEW kind, NEW part, ReadPart(kind, part), kind \in References \cup {"word", "main", "space"},
               part = Append(text, PartOf(kind, Len(doc) + 1))
        PROVE  OpenNamed' /\ (PlainMetadata' => Stores' /\ Collects')
    <2>1. PICK tag : tag = TextOf(kind)
      OBVIOUS
    <2>2. /\ Hand(tag) /\ UNCHANGED <<package, section, sectionDepth, collecting, refinements>>
          /\ text' = IF collecting = <<>> THEN text ELSE part
      BY <1>5, <2>1 DEF ReadPart
    <2>3. tag.kind = kind /\ tag.name = ""
      BY <2>1 DEF TextOf, Tag
    <2>4. Grows(tag) /\ Opens(tag) /\ XmlInv'
      BY <1>1, <2>2, Handed
    <2>5. tag.kind \notin {"start", "empty", "end"}
      BY <1>5, <2>3, OpfAssumption
    <2>6. OpenNamed'
      BY <1>1, <1>2, <2>4, <2>5, NamedAfter
    <2>7. ASSUME PlainMetadata' PROVE Stores' /\ Collects'
      <3>1. Stores /\ Collects
        BY <1>3, <2>4, <2>7
      <3>2. text' = IF collecting = <<>> THEN text
                    ELSE Append(text, PartOf(tag.kind, Len(doc) + 1))
        BY <1>5, <2>2, <2>3
      <3> QED
        BY <1>1, <2>2, <2>3, <2>4, <2>5, <2>7, <3>1, <3>2, TextCollected
    <2> QED
      BY <2>6, <2>7
  <1>6. ASSUME NEW tag \in PackageTags, tag.kind \in {"start", "empty"}, Hand(tag),
               OpenRoot(tag) \/ OpenElement(tag)
        PROVE  OpenNamed' /\ (PlainMetadata' => Stores' /\ Collects')
    <2>1. Grows(tag) /\ Opens(tag) /\ XmlInv'
      BY <1>1, <1>6, Handed
    <2>2. IsNamed(tag)
      BY <1>6, OpfAssumption DEF IsNamed
    <2>3. OpenNamed'
      BY <1>1, <1>2, <2>1, <2>2, NamedAfter
    <2>4. PICK p : p = package /\ IsPackage(p)
      BY <1>1
    <2>5. ASSUME PlainMetadata' PROVE Stores' /\ Collects'
      <3>1. Stores /\ Collects
        BY <1>3, <2>1, <2>5
      <3>2. CASE OpenRoot(tag)
        <4>1. section = "outside" /\ UNCHANGED <<collecting, refinements>>
          BY <1>1, <3>2 DEF OpenRoot, Recognized
        <4>2. tag.name = "package"
          BY <3>2 DEF OpenRoot
        <4>3. SameEntries(package, package')
          <5>1. PICK v, u : v = Attribute(tag, "version", "") /\ u = Attribute(tag, "unique-identifier", "")
            OBVIOUS
          <5>2. package' = [p EXCEPT !.version = v, !.unique_identifier_id = u]
            BY <2>4, <3>2, <4>2, <5>1 DEF OpenRoot
          <5>3. SameEntries(p, package')
            BY <2>4, <5>2, Put
          <5> QED
            BY <2>4, <5>3
        <4>4. section # "metadata"
          BY <4>1
        <4> QED
          BY <1>1, <1>6, <2>1, <3>1, <4>1, <4>3, <4>4, OutsideOpened
      <3>3. CASE OpenElement(tag) /\ section = "metadata"
        <4>1. ~Enters(tag)
          BY <3>3 DEF Enters
        <4>2. UNCHANGED <<section, sectionDepth>> /\ OpenMetadata(tag)
          BY <3>3, <4>1 DEF OpenElement
        <4> QED
          BY <1>1, <1>6, <2>1, <2>2, <2>5, <3>1, <3>3, <4>2, MetadataOpened
      <3>4. CASE OpenElement(tag) /\ section # "metadata"
        <4>1. Recognize(tag) /\ UNCHANGED <<collecting, refinements>>
          BY <3>4 DEF OpenElement
        <4>2. \/ package' = p
              \/ \E t : package' = [p EXCEPT !.toc_idref = t]
              \/ \E e : package' = [p EXCEPT !.manifest = e]
              \/ \E e : package' = [p EXCEPT !.spine = e]
          BY <2>4, <4>1, Zenon DEF Recognize
        <4>3. SameEntries(p, package')
          <5>1. CASE package' = p
            BY <5>1 DEF SameEntries
          <5>2. ASSUME NEW t, package' = [p EXCEPT !.toc_idref = t] PROVE SameEntries(p, package')
            BY <2>4, <5>2, Put
          <5>3. ASSUME NEW e, package' = [p EXCEPT !.manifest = e] PROVE SameEntries(p, package')
            BY <2>4, <5>3, Put
          <5>4. ASSUME NEW e, package' = [p EXCEPT !.spine = e] PROVE SameEntries(p, package')
            BY <2>4, <5>4, Put
          <5> QED
            BY <4>2, <5>1, <5>2, <5>3, <5>4
        <4> QED
          BY <1>1, <1>6, <2>1, <2>4, <3>1, <3>4, <4>1, <4>3, OutsideOpened
      <3> QED
        BY <1>6, <3>2, <3>3, <3>4
    <2> QED
      BY <2>3, <2>5
  <1>7. ASSUME NEW tag, tag = EndTag, opened # <<>>, PackageClose(tag)
        PROVE  OpenNamed' /\ (PlainMetadata' => Stores' /\ Collects')
    <2>1. Hand(tag)
      BY <1>7 DEF PackageClose
    <2>2. Grows(tag) /\ Opens(tag) /\ XmlInv'
      BY <1>1, <2>1, Handed
    <2>3. tag.kind = "end" /\ tag.name = doc[opened[Len(opened)]].name
      BY <1>7 DEF EndTag, Tag, Last
    <2>4. Ends(tag) /\ IsNamed(tag)
      <3>1. Len(opened) \in DOMAIN opened
        BY <1>1, <1>7, LastOpen
      <3> QED
        BY <1>2, <1>7, <2>3, <3>1 DEF Ends, IsNamed, OpenNamed
    <2>5. OpenNamed'
      BY <1>1, <1>2, <2>2, <2>3, NamedAfter
    <2>6. ASSUME PlainMetadata' PROVE Stores' /\ Collects'
      <3>1. Stores /\ Collects
        BY <1>3, <2>2, <2>6
      <3> QED
        BY <1>1, <1>7, <2>2, <2>3, <2>4, <2>6, <3>1, MetadataClosed
    <2> QED
      BY <2>5, <2>6
  <1>8. OpfNext
    BY DEF Next
  <1>9. CASE PackageText
    <2>1. PICK kind \in {"word", "main", "space"} :
             ReadPart(kind, Append(text, <<kind, IF kind = "word" THEN Len(doc) + 1 ELSE 0>>))
      BY <1>9 DEF PackageText
    <2>2. <<kind, IF kind = "word" THEN Len(doc) + 1 ELSE 0>> = PartOf(kind, Len(doc) + 1)
      BY DEF PartOf, BuiltIn
    <2> QED
      BY <1>5, <2>1, <2>2
  <1>10. CASE PackageRef
    <2>1. PICK name \in References : ReadPart(name, PushRef(name, Len(doc) + 1))
      BY <1>10 DEF PackageRef
    <2>2. name \notin {"word", "main", "space"}
      BY OpfAssumption
    <2>3. PushRef(name, Len(doc) + 1) = Append(text, PartOf(name, Len(doc) + 1))
      BY <2>2 DEF PushRef, PartOf
    <2> QED
      BY <1>5, <2>1, <2>3
  <1>11. CASE PackageOpen
    BY <1>6, <1>11 DEF PackageOpen
  <1> QED
    BY <1>4, <1>7, <1>8, <1>9, <1>10, <1>11 DEF OpfNext

-----------------------------------------------------------------------------
(* What is listed of a list.                                               *)

\* The numbers of those of a sequence that are some.
Numbers(s, M) == {j \in 1..Len(s) : s[j] \in M}
\* What stands at what is listed.
Through(s, g) == [j \in 1..Len(s) |-> g[s[j]]]

\* Some of the places that are in order are in order.
LEMMA Picked ==
    ASSUME NEW n \in Nat, NEW S, NEW M, \A x \in M : x \in S, NEW g, NEW s, s = InOrder(S, n)
    PROVE  List(Numbers(s, M), Len(s), Through(s, g)) = List(M, n, g)
  <1> DEFINE Agrees(m, t) == List(Numbers(t, M), Len(t), Through(t, g)) = List(M, m, g)
             G == {m \in 0..n : Agrees(m, InOrder(S, m))}
  <1>1. 0 \in G
    <2>1. Agrees(0, <<>>)
      BY ListNone
    <2> QED
      BY <2>1, OrderNone
  <1>2. ASSUME NEW m \in 1..n, m - 1 \in G PROVE m \in G
    <2>1. PICK q, t : q = InOrder(S, m - 1) /\ t = InOrder(S, m)
      OBVIOUS
    <2>2. q \in Seq(Nat)
      <3>1. m - 1 \in Nat
        OBVIOUS
      <3> QED
        BY <2>1, <3>1, OrderIs DEF Orders
    <2>3. m \in Nat \ {0}
      OBVIOUS
    <2>4. t = IF m \in S THEN Append(q, m) ELSE q
      BY <2>1, <2>3, OrderNext
    <2>5. List(M, m, g) = IF m \in M THEN Append(List(M, m - 1, g), g[m]) ELSE List(M, m - 1, g)
      BY <2>3, ListNext
    <2>6. Agrees(m - 1, q)
      BY <1>2, <2>1
    <2>7. Agrees(m, t)
      <3>1. CASE m \notin S
        BY <2>4, <2>5, <2>6, <3>1
      <3>2. CASE m \in S
        <4>1. PICK l \in Nat : l = Len(q)
          BY <2>2
        <4>2. Len(t) = l + 1 /\ t[l + 1] = m /\ \A k \in 1..l : t[k] = q[k]
          BY <2>2, <2>4, <3>2, <4>1, Longer
        <4>3. PICK K, O, f, h, c : /\ K = Numbers(q, M) /\ O = Numbers(t, M)
                                   /\ f = Through(q, g) /\ h = Through(t, g) /\ c = l + 1
          OBVIOUS
        <4>4. (\A k \in 1..l : k \in O <=> k \in K) /\ (c \in O <=> m \in M)
          <5>1. \A k : k \in O <=> k \in 1..c /\ t[k] \in M
            BY <4>2, <4>3 DEF Numbers
          <5>2. \A k : k \in K <=> k \in 1..l /\ q[k] \in M
            BY <4>1, <4>3 DEF Numbers
          <5>3. c \in 1..c /\ \A k \in 1..l : k \in 1..c
            BY <4>1, <4>3
          <5> QED
            BY <4>2, <4>3, <5>1, <5>2, <5>3
        <4>5. (\A k \in 1..l : h[k] = f[k]) /\ h[c] = g[m]
          <5>1. c \in 1..c /\ \A k \in 1..l : k \in 1..c
            BY <4>1, <4>3
          <5> QED
            BY <4>1, <4>2, <4>3, <5>1 DEF Through
        <4>6. List(O, l, h) = List(K, l, f)
          BY <4>1, <4>4, <4>5, ListAlike
        <4>7. c \in Nat \ {0} /\ c - 1 = l
          BY <4>1, <4>3
        <4>8. List(O, c, h) = IF c \in O THEN Append(List(O, c - 1, h), h[c]) ELSE List(O, c - 1, h)
          BY <4>7, ListNext
        <4>9. List(K, l, f) = List(M, m - 1, g)
          BY <2>6, <4>1, <4>3
        <4>10. List(O, c, h) = List(M, m, g)
          BY <2>5, <4>4, <4>5, <4>6, <4>7, <4>8, <4>9
        <4> QED
          BY <4>2, <4>3, <4>10
      <3> QED
        BY <3>1, <3>2
    <2> QED
      BY <2>1, <2>7
  <1>3. \A m \in 0..n : m \in G
    <2> HIDE DEF G
    <2> QED
      BY <1>1, <1>2, UpTo
  <1> QED
    BY <1>3

\* The first of some of the places that are in order.
LEMMA FirstOf ==
    ASSUME NEW n \in Nat, NEW S, NEW M, \A x \in M : x \in S /\ x \in 1..n,
           NEW s, s = InOrder(S, n), NEW J, J = Numbers(s, M)
    PROVE  /\ J = {} <=> M = {}
           /\ M # {} => Smallest(J) \in 1..Len(s) /\ s[Smallest(J)] = Smallest(M)
  <1>1. Orders(S, n, s)
    BY OrderIs
  <1>2. /\ \A k, l \in 1..Len(s) : k < l => s[k] < s[l]
        /\ \A k \in 1..Len(s) : s[k] \in 1..n
        /\ \A x \in M : \E k \in 1..Len(s) : s[k] = x
    BY <1>1 DEF Orders
  <1>3. \A k : k \in J <=> k \in 1..Len(s) /\ s[k] \in M
    BY DEF Numbers
  <1>4. J = {} <=> M = {}
    BY <1>2, <1>3
  <1>5. ASSUME M # {} PROVE Smallest(J) \in 1..Len(s) /\ s[Smallest(J)] = Smallest(M)
    <2>1. PICK l \in Nat : l = Len(s)
      BY <1>1 DEF Orders
    <2>2. J \in SUBSET Nat /\ J # {}
      BY <1>3, <1>4, <1>5, <2>1
    <2>3. PICK p : p = Smallest(J) /\ p \in J /\ \A y \in J : p <= y
      BY <2>2, SmallestExists
    <2>4. p \in 1..l /\ s[p] \in M
      BY <1>3, <2>1, <2>3
    <2>5. ASSUME NEW x \in M PROVE s[p] <= x
      <3>1. PICK k \in 1..l : s[k] = x
        BY <1>2, <2>1
      <3>2. k \in J
        BY <1>3, <2>1, <3>1
      <3>3. p <= k
        BY <2>3, <3>2
      <3>4. s[p] \in Nat /\ s[k] \in Nat
        BY <1>2, <2>1, <2>4
      <3>5. CASE p = k
        BY <3>1, <3>4, <3>5
      <3>6. CASE p < k
        <4>1. s[p] < s[k]
          BY <1>2, <2>1, <2>4, <3>6
        <4> QED
          BY <3>1, <3>4, <4>1
      <3>7. p = k \/ p < k
        BY <2>4, <3>3
      <3> QED
        BY <3>5, <3>6, <3>7
    <2>6. M \in SUBSET Nat
      OBVIOUS
    <2>7. Smallest(M) = s[p]
      BY <2>4, <2>5, <2>6, SmallestIs
    <2> QED
      BY <2>1, <2>3, <2>4, <2>7
  <1> QED
    BY <1>4, <1>5

-----------------------------------------------------------------------------
(* What refines which entry.                                               *)

\* An entry with other refinements.
RefinedBy(x, refined) == [x EXCEPT !.refinements = refined]
IsEntry(x) ==
    /\ x = [element |-> x.element, value |-> x.value, id |-> x.id, scheme |-> x.scheme,
            refinements |-> x.refinements]
    /\ \E X : x.refinements \in Seq(X)

LEMMA WithRefined ==
    ASSUME NEW x, IsEntry(x), NEW a, NEW b
    PROVE  /\ RefinedBy(x, a).refinements = a /\ RefinedBy(x, a).id = x.id
           /\ RefinedBy(RefinedBy(x, a), b) = RefinedBy(x, b)
           /\ RefinedBy(x, x.refinements) = x
  <1>1. PICK element, value, id, scheme, refined :
            x = [element |-> element, value |-> value, id |-> id, scheme |-> scheme,
                 refinements |-> refined]
    BY Zenon DEF IsEntry
  <1>2. PICK y : y = RefinedBy(x, a)
    OBVIOUS
  <1>3. y = [element |-> element, value |-> value, id |-> id, scheme |-> scheme, refinements |-> a]
    BY <1>1, <1>2 DEF RefinedBy
  <1>4. y.refinements = a /\ y.id = x.id
    BY <1>1, <1>3
  <1>5. RefinedBy(y, b) = RefinedBy(x, b)
    BY <1>1, <1>3 DEF RefinedBy
  <1>6. RefinedBy(x, x.refinements) = x
    BY <1>1 DEF RefinedBy
  <1> QED
    BY <1>2, <1>4, <1>5, <1>6

\* The entry that is the first of an id.
Names(e, i, id) == e[i].id = id /\ \A l \in 1..Len(e) : l < i => e[l].id # id

\* The entries, each with refinements of its own.
Refine(e, p) == [i \in 1..Len(e) |-> RefinedBy(e[i], p[i])]
Adding(e, p, held) ==
    [i \in 1..Len(e) |-> IF Names(e, i, held[1]) THEN Append(p[i], held[2]) ELSE p[i]]

\* A refinement is attached to that entry.
LEMMA AttachIs ==
    ASSUME NEW e, Len(e) \in Nat, \A i \in 1..Len(e) : IsEntry(e[i]), NEW p, NEW held
    PROVE  Attach(Refine(e, p), held) = Refine(e, Adding(e, p, held))
  <1>1. PICK n \in Nat : n = Len(e)
    OBVIOUS
  <1>2. PICK c, d, q : c = Refine(e, p) /\ q = Adding(e, p, held) /\ d = Refine(e, q)
    OBVIOUS
  <1>3. DOMAIN c = 1..n /\ \A i \in 1..n : c[i] = RefinedBy(e[i], p[i])
    BY <1>1, <1>2 DEF Refine
  <1>4. DOMAIN d = 1..n /\ d = [i \in 1..n |-> RefinedBy(e[i], q[i])]
    BY <1>1, <1>2 DEF Refine
  <1>5. \A i \in 1..n : q[i] = IF Names(e, i, held[1]) THEN Append(p[i], held[2]) ELSE p[i]
    BY <1>1, <1>2 DEF Adding
  <1>6. \A i \in 1..n : /\ c[i].id = e[i].id /\ c[i].refinements = p[i]
                        /\ \A b : RefinedBy(c[i], b) = RefinedBy(e[i], b)
    BY <1>1, <1>3, WithRefined
  <1>7. PICK K : K = {i \in 1..n : c[i].id = held[1]}
    OBVIOUS
  <1>8. Attach(c, held) =
           IF K = {} THEN c
           ELSE [c EXCEPT ![Smallest(K)].refinements = Append(@, held[2])]
    BY <1>3, <1>7 DEF Attach
  <1>9. CASE K = {}
    <2>1. \A i \in 1..n : ~Names(e, i, held[1])
      BY <1>6, <1>7, <1>9 DEF Names
    <2>2. \A i \in 1..n : q[i] = p[i]
      BY <1>5, <2>1
    <2>3. c = [i \in 1..n |-> RefinedBy(e[i], p[i])]
      BY <1>1, <1>2 DEF Refine
    <2>4. c = d
      BY <1>4, <2>2, <2>3
    <2> QED
      BY <1>2, <1>8, <1>9, <2>4
  <1>10. CASE K # {}
    <2>1. K \in SUBSET Nat
      BY <1>7
    <2>2. PICK j : j = Smallest(K) /\ j \in K /\ \A y \in K : j <= y
      BY <1>10, <2>1, SmallestExists
    <2>3. j \in 1..n
      BY <1>7, <2>2
    <2>4. \A i \in 1..n : Names(e, i, held[1]) <=> i = j
      <3>1. \A i \in 1..n : i \in K <=> e[i].id = held[1]
        BY <1>6, <1>7
      <3>2. \A i \in 1..n : Names(e, i, held[1]) <=> i \in K /\ \A l \in 1..n : l < i => l \notin K
        BY <1>1, <3>1 DEF Names
      <3>3. \A l \in 1..n : l < j => l \notin K
        BY <2>2, <2>3
      <3>4. \A i \in 1..n : i \in K /\ i # j => j < i
        BY <2>2, <2>3
      <3> QED
        BY <2>2, <2>3, <3>2, <3>3, <3>4
    <2>5. PICK x : x = Append(c[j].refinements, held[2])
      OBVIOUS
    <2>6. [c EXCEPT ![j].refinements = Append(@, held[2])] = [c EXCEPT ![j] = RefinedBy(c[j], x)]
      BY <2>5 DEF RefinedBy
    <2>7. PICK f : f = [c EXCEPT ![j] = RefinedBy(c[j], x)]
      OBVIOUS
    <2>8. PICK y : y = RefinedBy(c[j], x)
      OBVIOUS
    <2>9. f = [i \in 1..n |-> IF i = j THEN y ELSE c[i]]
      BY <1>3, <2>7, <2>8
    <2>10. \A i \in 1..n : RefinedBy(e[i], q[i]) = IF i = j THEN y ELSE c[i]
      <3>1. q[j] = x
        BY <1>5, <1>6, <2>3, <2>4, <2>5
      <3>2. y = RefinedBy(e[j], q[j])
        BY <1>6, <2>3, <2>8, <3>1
      <3>3. \A i \in 1..n : i # j => q[i] = p[i]
        BY <1>5, <2>4
      <3> QED
        BY <1>3, <3>2, <3>3
    <2>11. f = d
      BY <1>4, <2>9, <2>10
    <2> QED
      BY <1>2, <1>8, <1>10, <2>2, <2>6, <2>7, <2>11
  <1> QED
    BY <1>9, <1>10

\* Two sequences, one after the other.
LEMMA JoinedIs ==
    ASSUME NEW X, NEW a \in Seq(X), NEW b \in Seq(X)
    PROVE  /\ a \o b \in Seq(X) /\ Len(a \o b) = Len(a) + Len(b)
           /\ \A k \in 1..Len(a) + Len(b) :
                  (a \o b)[k] = IF k <= Len(a) THEN a[k] ELSE b[k - Len(a)]
  OBVIOUS

\* What is appended to the second of two is to both.
IsToBoth(a, b, x) == Append(a \o b, x) = a \o Append(b, x)
LEMMA JoinedMore ==
    ASSUME NEW X, NEW a \in Seq(X), NEW b \in Seq(X), NEW x \in X
    PROVE  IsToBoth(a, b, x)
  <1>1. PICK l, m \in Nat : l = Len(a) /\ m = Len(b)
    OBVIOUS
  <1>2. PICK c, d : c = a \o b /\ d = Append(b, x)
    OBVIOUS
  <1>3. /\ c \in Seq(X) /\ Len(c) = l + m
        /\ \A k \in 1..l + m : c[k] = IF k <= l THEN a[k] ELSE b[k - l]
    BY <1>1, <1>2, JoinedIs
  <1>4. d \in Seq(X) /\ Len(d) = m + 1 /\ d[m + 1] = x /\ \A k \in 1..m : d[k] = b[k]
    BY <1>1, <1>2, Longer
  <1>5. PICK f, g : f = Append(c, x) /\ g = a \o d
    OBVIOUS
  <1>6. /\ f \in Seq(X) /\ Len(f) = l + m + 1 /\ f[l + m + 1] = x
        /\ \A k \in 1..l + m : f[k] = c[k]
    BY <1>3, <1>5, Longer
  <1>7. /\ g \in Seq(X) /\ Len(g) = l + m + 1
        /\ \A k \in 1..l + m + 1 : g[k] = IF k <= l THEN a[k] ELSE d[k - l]
    <2>1. d \in Seq(X) /\ Len(a) + Len(d) = l + m + 1
      BY <1>1, <1>4
    <2> QED
      BY <1>1, <1>5, <2>1, JoinedIs
  <1>8. ASSUME NEW k \in 1..l + m + 1 PROVE f[k] = g[k]
    <2>1. CASE k <= l
      BY <1>3, <1>6, <1>7, <2>1
    <2>2. CASE k > l /\ k <= l + m
      <3>1. k - l \in 1..m /\ k \in 1..l + m
        BY <2>2
      <3> QED
        BY <1>3, <1>4, <1>6, <1>7, <2>2, <3>1
    <2>3. CASE k = l + m + 1
      BY <1>4, <1>6, <1>7, <2>3
    <2> QED
      BY <2>1, <2>2, <2>3
  <1>9. f = g
    <2>1. f = [k \in 1..l + m + 1 |-> f[k]] /\ g = [k \in 1..l + m + 1 |-> g[k]]
      BY <1>6, <1>7
    <2> QED
      BY <1>8, <2>1
  <1> QED
    BY <1>2, <1>5, <1>9 DEF IsToBoth

\* The refinements an entry gains, and what they say.
Gained(e, r, i) == {j \in 1..Len(r) : Names(e, i, r[j][1])}
Saying(r) == [j \in 1..Len(r) |-> r[j][2]]

\* The refinements of the entries once the first k are attached.
Got(e, r, k) == [i \in 1..Len(e) |-> e[i].refinements \o List(Gained(e, r, i), k, Saying(r))]

LEMMA GotNext ==
    ASSUME NEW e, \A i \in 1..Len(e) : IsEntry(e[i]), NEW r, Len(r) \in Nat, NEW k \in 1..Len(r)
    PROVE  Got(e, r, k) = Adding(e, Got(e, r, k - 1), r[k])
  <1>1. PICK j \in Nat : j = k - 1
    OBVIOUS
  <1>2. PICK p, q, f : p = Got(e, r, j) /\ q = Got(e, r, k) /\ f = Saying(r)
    OBVIOUS
  <1>3. ASSUME NEW i \in 1..Len(e)
        PROVE  q[i] = IF Names(e, i, r[k][1]) THEN Append(p[i], r[k][2]) ELSE p[i]
    <2>1. PICK J, a : J = Gained(e, r, i) /\ a = e[i].refinements
      OBVIOUS
    <2>2. PICK X : a \in Seq(X)
      BY <2>1 DEF IsEntry
    <2>3. PICK Y : Y = X \cup {f[n] : n \in 1..Len(r)}
      OBVIOUS
    <2>4. a \in Seq(Y) /\ f[k] \in Y
      BY <2>2, <2>3
    <2>5. PICK b : b = List(J, j, f)
      OBVIOUS
    <2>6. b \in Seq(Y)
      <3>1. \A n \in 1..j : n \in J => f[n] \in Y
        BY <1>1, <2>3
      <3> QED
        BY <2>5, <3>1, ListIs
    <2>7. List(J, k, f) = IF k \in J THEN Append(b, f[k]) ELSE b
      <3>1. k \in Nat \ {0} /\ k - 1 = j
        BY <1>1
      <3> QED
        BY <2>5, <3>1, ListNext
    <2>8. p[i] = a \o b /\ q[i] = a \o List(J, k, f)
      BY <1>2, <2>1, <2>5 DEF Got
    <2>9. f[k] = r[k][2] /\ (k \in J <=> Names(e, i, r[k][1]))
      BY <1>2, <2>1 DEF Saying, Gained
    <2>10. Append(a \o b, f[k]) = a \o Append(b, f[k])
      <3>1. PICK x \in Y : x = f[k]
        BY <2>4
      <3>2. a \in Seq(Y)
        BY <2>4
      <3>3. IsToBoth(a, b, x)
        BY <2>6, <3>1, <3>2, JoinedMore
      <3> QED
        BY <3>1, <3>3 DEF IsToBoth
    <2> QED
      BY <2>7, <2>8, <2>9, <2>10
  <1>4. q = [i \in 1..Len(e) |-> q[i]]
    BY <1>2 DEF Got
  <1>5. q = Adding(e, p, r[k])
    BY <1>3, <1>4 DEF Adding
  <1> QED
    BY <1>1, <1>2, <1>5

\* Before the first they are as they were.
LEMMA GotNone ==
    ASSUME NEW e, NEW X, e \in Seq(X), \A i \in 1..Len(e) : IsEntry(e[i]), NEW r
    PROVE  Refine(e, Got(e, r, 0)) = e
  <1>1. PICK p : p = Got(e, r, 0)
    OBVIOUS
  <1>2. ASSUME NEW i \in 1..Len(e) PROVE RefinedBy(e[i], p[i]) = e[i]
    <2>1. p[i] = e[i].refinements \o <<>>
      BY <1>1, ListNone DEF Got
    <2>2. PICK Y, a : a = e[i].refinements /\ a \in Seq(Y)
      BY DEF IsEntry
    <2>3. a \o <<>> = a
      BY <2>2
    <2>4. p[i] = e[i].refinements
      BY <2>1, <2>2, <2>3
    <2> QED
      BY <2>4, WithRefined
  <1>3. e = [i \in 1..Len(e) |-> e[i]]
    OBVIOUS
  <1> QED
    BY <1>1, <1>2, <1>3 DEF Refine

\* What FinishMetadata computes on the way.
IsAttached(e, r, P) ==
    P = [k \in 0..Len(r) |-> IF k = 0 THEN e ELSE Attach(P[k - 1], r[k])]

\* The entries in the end.
LEMMA AttachedIs ==
    ASSUME NEW e, e = package.entries, NEW X, e \in Seq(X), \A i \in 1..Len(e) : IsEntry(e[i]),
           NEW r, r = refinements, Len(r) \in Nat
    PROVE  FinishMetadata = Refine(e, Got(e, r, Len(r)))
  <1>1. PICK n \in Nat : n = Len(r)
    OBVIOUS
  <1> DEFINE P == CHOOSE P : IsAttached(e, r, P)
             F == [k \in 0..n |-> Refine(e, Got(e, r, k))]
  <1>2. FinishMetadata = P[n]
    BY <1>1 DEF FinishMetadata, IsAttached
  <1>3. F[0] = e
    BY GotNone
  <1>4. ASSUME NEW k \in 1..n PROVE F[k] = Attach(F[k - 1], r[k])
    <2>1. k \in 0..n /\ k - 1 \in 0..n /\ k \in 1..Len(r)
      BY <1>1
    <2>2. PICK p, held : p = Got(e, r, k - 1) /\ held = r[k]
      OBVIOUS
    <2>3. Got(e, r, k) = Adding(e, p, held)
      BY <2>1, <2>2, GotNext
    <2>4. Attach(Refine(e, p), held) = Refine(e, Adding(e, p, held))
      <3>1. Len(e) \in Nat
        OBVIOUS
      <3> QED
        BY <3>1, AttachIs
    <2> QED
      BY <2>1, <2>2, <2>3, <2>4
  <1>5. IsAttached(e, r, F)
    <2>1. F = [k \in 0..n |-> F[k]]
      OBVIOUS
    <2> HIDE DEF F
    <2>2. \A k \in 0..n : F[k] = IF k = 0 THEN e ELSE Attach(F[k - 1], r[k])
      <3> SUFFICES ASSUME NEW k \in 0..n PROVE F[k] = IF k = 0 THEN e ELSE Attach(F[k - 1], r[k])
        OBVIOUS
      <3>1. k # 0 => k \in 1..n
        OBVIOUS
      <3> QED
        BY <1>3, <1>4, <3>1
    <2> QED
      BY <1>1, <2>1, <2>2 DEF IsAttached
  <1>6. IsAttached(e, r, P)
    <2> HIDE DEF F
    <2> QED
      BY <1>5
  <1> HIDE DEF P
  <1>7. P[0] = e /\ \A k \in 1..n : P[k] = Attach(P[k - 1], r[k])
    <2>1. 0 \in 0..n /\ \A k \in 1..n : k \in 0..n /\ k # 0
      OBVIOUS
    <2> QED
      BY <1>1, <1>6, <2>1 DEF IsAttached
  <1> DEFINE G == {k \in 0..n : P[k] = F[k]}
  <1>8. 0 \in G
    BY <1>3, <1>7
  <1> HIDE DEF F
  <1>9. ASSUME NEW k \in 1..n, k - 1 \in G PROVE k \in G
    BY <1>4, <1>7, <1>9
  <1>10. \A k \in 0..n : k \in G
    <2> HIDE DEF G
    <2> QED
      BY <1>8, <1>9, UpTo
  <1>11. n \in 0..n
    OBVIOUS
  <1> QED
    BY <1>1, <1>2, <1>10, <1>11 DEF F

-----------------------------------------------------------------------------
(* The entries of the document.                                            *)

\* The entry at a place, with all that refines it.
EntryWritten(i) ==
    [element |-> ElementOf(i), value |-> Content(i), id |-> Attribute(doc[i], "id", ""),
     scheme |-> Attribute(doc[i], "scheme", ""),
     refinements |-> OwnOf(doc[i]) \o RefiningOf(i)]

\* An entry is one, with the refinements of its tag.
LEMMA SaidIsEntry ==
    ASSUME NEW tag, NEW value
    PROVE  IsEntry(EntrySaid(tag, value))
  <1>1. PICK x : x = EntrySaid(tag, value)
    OBVIOUS
  <1>2. PICK element, id, scheme, own :
            /\ own = OwnOf(tag)
            /\ x = [element |-> element, value |-> value, id |-> id, scheme |-> scheme,
                    refinements |-> own]
    BY <1>1 DEF EntrySaid
  <1>3. x = [element |-> x.element, value |-> x.value, id |-> x.id, scheme |-> x.scheme,
             refinements |-> x.refinements]
    BY <1>2
  <1>4. \E X : own \in Seq(X)
    <2> DEFINE At(a) == Refinement(a, <<<<"attribute", tag.attrs[a]>>>>, "")
    <2>1. PICK a, b : a = At("role") /\ b = At("file-as")
      OBVIOUS
    <2>2. PICK p, q : /\ p = IF Attribute(tag, "role", "") = "" THEN <<>> ELSE <<a>>
                      /\ q = IF Attribute(tag, "file-as", "") = "" THEN <<>> ELSE <<b>>
      OBVIOUS
    <2>3. Epub2Refinements(tag) = p \o q
      BY <2>1, <2>2 DEF Epub2Refinements
    <2>4. PICK X : X = {a, b}
      OBVIOUS
    <2> HIDE DEF At
    <2>5. p \in Seq(X) /\ q \in Seq(X)
      <3>1. a \in X /\ b \in X
        BY <2>4
      <3>2. <<a>> \in Seq(X) /\ <<b>> \in Seq(X) /\ <<>> \in Seq(X)
        BY <3>1
      <3> QED
        BY <2>2, <3>2
    <2>6. p \o q \in Seq(X)
      BY <2>5
    <2>7. <<>> \in Seq(X)
      OBVIOUS
    <2>8. own = <<>> \/ own = p \o q
      BY <1>2, <2>3 DEF OwnOf
    <2> QED
      BY <2>6, <2>7, <2>8
  <1>5. x.refinements = own
    BY <1>2
  <1> QED
    BY <1>1, <1>3, <1>4, <1>5 DEF IsEntry

\* With what refines it, it is the entry that is written.
LEMMA SaidIsWritten ==
    ASSUME NEW i, Keeps(doc[i]), NEW x, x = EntrySaid(doc[i], Content(i))
    PROVE  /\ RefinedBy(x, x.refinements \o RefiningOf(i)) = EntryWritten(i)
           /\ x.id = Attribute(doc[i], "id", "")
  <1>1. PICK tag : tag = doc[i]
    OBVIOUS
  <1>2. ElementOf(i) = IF tag.name = "meta" THEN Attribute(tag, "property", "") ELSE tag.name
    <2>1. "meta" \notin DublinCore
      BY DEF DublinCore
    <2>2. tag.name = "meta" => Attribute(tag, "property", "") # ""
      BY <1>1, <2>1 DEF Keeps, Property
    <2> QED
      BY <1>1, <2>2 DEF ElementOf, Attribute
  <1>3. PICK element, value, id, scheme, own, more :
            /\ element = ElementOf(i) /\ value = Content(i) /\ id = Attribute(tag, "id", "")
            /\ scheme = Attribute(tag, "scheme", "") /\ own = OwnOf(tag) /\ more = RefiningOf(i)
    OBVIOUS
  <1>4. x = [element |-> element, value |-> value, id |-> id, scheme |-> scheme,
             refinements |-> own]
    BY <1>1, <1>2, <1>3 DEF EntrySaid
  <1>5. x.refinements = own /\ x.id = id
    BY <1>4
  <1>6. PICK all : all = own \o more
    OBVIOUS
  <1>7. EntryWritten(i) = [element |-> element, value |-> value, id |-> id, scheme |-> scheme,
                      refinements |-> all]
    BY <1>1, <1>3, <1>6 DEF EntryWritten
  <1>8. [x EXCEPT !.refinements = all] = EntryWritten(i)
    BY <1>4, <1>7
  <1> QED
    BY <1>1, <1>3, <1>5, <1>6, <1>8 DEF RefinedBy

\* A list has the length of its places, and of each what stands there.
Lists(s, t, f) == Len(t) = Len(s) /\ \A k \in 1..Len(s) : t[k] = f[s[k]]
LEMMA ListLong ==
    ASSUME NEW n \in Nat, NEW S, NEW f
    PROVE  Lists(InOrder(S, n), List(S, n, f), f)
  <1>1. PICK s : s = InOrder(S, n)
    OBVIOUS
  <1>2. s \in Seq(Nat)
    BY <1>1, OrderIs DEF Orders
  <1>3. PICK l \in Nat : l = Len(s) /\ DOMAIN s = 1..l
    BY <1>2, Ranged
  <1>4. PICK t : t = [k \in 1..l |-> f[s[k]]]
    OBVIOUS
  <1>5. PICK X : X = {f[s[k]] : k \in 1..l}
    OBVIOUS
  <1>6. t \in [1..l -> X]
    BY <1>4, <1>5
  <1>7. Len(t) = l
    BY <1>6
  <1>8. t = List(S, n, f)
    BY <1>1, <1>3, <1>4 DEF List
  <1> QED
    BY <1>1, <1>3, <1>4, <1>7, <1>8 DEF Lists

\* The refinements at an entry are those that name its id, if it is the first
\* that has it.
LEMMA GainedIs ==
    ASSUME XmlInv, NEW m \in Nat, m = Len(doc), NEW e, e = List(Said, m, EntryAt),
           NEW r, r = List(Mentions, m, MentionAt), NEW s, s = InOrder(Said, m),
           NEW k \in 1..Len(s)
    PROVE  List(Gained(e, r, k), Len(r), Saying(r)) = RefiningOf(s[k])
  <1>1. PICK S, M, t : S = Said /\ M = Mentions /\ t = InOrder(M, m)
    OBVIOUS
  <1>2. Orders(S, m, s) /\ Orders(M, m, t)
    BY <1>1, OrderIs
  <1>3. /\ Len(s) \in Nat /\ DOMAIN s = 1..Len(s)
        /\ Len(t) \in Nat /\ DOMAIN t = 1..Len(t)
    <2>1. s \in Seq(Nat)
      BY <1>2 DEF Orders
    <2>2. t \in Seq(Nat)
      BY <1>2 DEF Orders
    <2> QED
      BY <2>1, <2>2, Ranged
  <1>4. DOMAIN doc = 1..m
    BY Length
  <1>5. PICK id, i : i = s[k] /\ id = Attribute(doc[i], "id", "")
    OBVIOUS
  <1>6. Len(e) = Len(s) /\ \A l \in 1..Len(s) : e[l].id = Attribute(doc[s[l]], "id", "")
    <2>1. \A j \in 1..m : EntryAt[j].id = Attribute(doc[j], "id", "")
      BY <1>4 DEF EntryAt, EntrySaid
    <2>2. Len(e) = Len(s) /\ \A l \in 1..Len(s) : e[l] = EntryAt[s[l]]
      <3>1. PICK f : f = EntryAt
        OBVIOUS
      <3>2. Lists(InOrder(S, m), List(S, m, f), f)
        BY ListLong
      <3> QED
        BY <1>1, <3>1, <3>2 DEF Lists
    <2>3. ASSUME NEW l \in 1..Len(s) PROVE e[l].id = Attribute(doc[s[l]], "id", "")
      <3>1. PICK j : j = s[l] /\ j \in 1..m
        BY <1>2 DEF Orders
      <3>2. e[l] = EntryAt[j]
        BY <2>2, <3>1
      <3> QED
        BY <2>1, <3>1, <3>2
    <2> QED
      BY <2>2, <2>3
  <1>7. /\ Len(r) = Len(t)
        /\ \A j \in 1..Len(t) : r[j][1] = Attribute(doc[t[j]], "refines", "")
                                /\ r[j][2] = RefinementAt(t[j])
    <2>1. \A j \in 1..m : MentionAt[j][1] = Attribute(doc[j], "refines", "")
                          /\ MentionAt[j][2] = RefinementAt(j)
      BY <1>4 DEF MentionAt, MentionOf, RefiningBy, RefinementAt, Refinement
    <2>2. Len(r) = Len(t) /\ \A j \in 1..Len(t) : r[j] = MentionAt[t[j]]
      <3>1. PICK f : f = MentionAt
        OBVIOUS
      <3>2. Lists(InOrder(M, m), List(M, m, f), f)
        BY ListLong
      <3> QED
        BY <1>1, <3>1, <3>2 DEF Lists
    <2>3. ASSUME NEW j \in 1..Len(t)
          PROVE  r[j][1] = Attribute(doc[t[j]], "refines", "") /\ r[j][2] = RefinementAt(t[j])
      <3>1. PICK l : l = t[j] /\ l \in 1..m
        BY <1>2 DEF Orders
      <3>2. r[j] = MentionAt[l]
        BY <2>2, <3>1
      <3> QED
        BY <2>1, <3>1, <3>2
    <2> QED
      BY <2>2, <2>3
  <1>8. PICK E \in BOOLEAN : E <=> \E j \in S : j < i /\ Attribute(doc[j], "id", "") = id
    OBVIOUS
  <1>9. \A x : Names(e, k, x) <=> x = id /\ ~E
    <2>1. \A x : Names(e, k, x) <=> id = x /\ \A l \in 1..Len(s) : l < k => e[l].id # x
      BY <1>5, <1>6 DEF Names
    <2>2. (\E l \in 1..Len(s) : l < k /\ e[l].id = id) <=> E
      <3>1. \A l \in 1..Len(s) : s[l] \in S /\ s[l] \in 1..m /\ (l < k => s[l] < i)
        BY <1>2, <1>5 DEF Orders
      <3>2. \A l \in 1..Len(s) : s[l] < i => l < k
        <4> SUFFICES ASSUME NEW l \in 1..Len(s) PROVE s[l] < i => l < k
          OBVIOUS
        <4>1. l < k \/ k = l \/ k < l
          BY <1>3
        <4>2. k < l => s[k] < s[l]
          BY <1>2 DEF Orders
        <4>3. s[l] \in 1..m /\ s[k] \in 1..m
          BY <1>2 DEF Orders
        <4>4. PICK a, b \in Nat : a = s[l] /\ b = s[k]
          BY <4>3
        <4>5. a < b => ~(b < a) /\ a # b
          OBVIOUS
        <4> QED
          BY <1>5, <4>1, <4>2, <4>4, <4>5
      <3>3. ASSUME NEW l \in 1..Len(s), l < k, e[l].id = id PROVE E
        BY <1>6, <1>8, <3>1, <3>3
      <3>4. ASSUME NEW j \in S, j < i, Attribute(doc[j], "id", "") = id
            PROVE  \E l \in 1..Len(s) : l < k /\ e[l].id = id
        <4>1. j \in 1..m
          BY <1>1, <1>4 DEF Said, Kept, Properties, InSection, Places
        <4>2. PICK l \in 1..Len(s) : s[l] = j
          BY <1>2, <4>1 DEF Orders
        <4> QED
          BY <1>6, <3>2, <3>4, <4>2
      <3> QED
        BY <1>8, <3>3, <3>4
    <2> QED
      BY <2>1, <2>2
  <1>10. PICK K : K = Gained(e, r, k)
    OBVIOUS
  <1>11. \A j : j \in K <=> j \in 1..Len(t) /\ r[j][1] = id /\ ~E
    BY <1>7, <1>9, <1>10 DEF Gained
  <1>12. PICK f : f = Saying(r)
    OBVIOUS
  <1>13. \A j \in 1..Len(t) : f[j] = RefinementAt(t[j])
    BY <1>7, <1>12 DEF Saying
  <1>14. PICK Q : Q = {j \in M : Attribute(doc[j], "refines", "") = id}
    OBVIOUS
  <1>15. PICK named : named = InOrder(Q, m)
    OBVIOUS
  <1>16. RefiningOf(i) = IF E THEN <<>> ELSE [n \in DOMAIN named |-> RefinementAt(named[n])]
    <2>1. Q = {j \in Refining : Closed(j) /\ Attribute(doc[j], "refines", "") = id}
      BY <1>1, <1>14 DEF Mentions
    <2>2. named = Sorted({j \in Refining : Closed(j) /\ Attribute(doc[j], "refines", "") = id})
      BY <1>15, <2>1 DEF Sorted
    <2>3. (\E j \in Said : j < i /\ Attribute(doc[j], "id", "") = id) <=> E
      BY <1>1, <1>8
    <2> QED
      BY <1>5, <2>2, <2>3 DEF RefiningOf
  <1>17. CASE E
    <2>1. \A j \in 1..Len(t) : j \in K <=> j \in {}
      BY <1>11, <1>17
    <2>2. List(K, Len(t), f) = List({}, Len(t), f)
      BY <1>3, <2>1, ListAlike
    <2>3. List({}, Len(t), f) = <<>>
      <3>1. PICK u : u = InOrder({}, Len(t))
        OBVIOUS
      <3>2. Orders({}, Len(t), u)
        BY <1>3, <3>1, OrderIs
      <3>3. u \in Seq(Nat) /\ \A n \in 1..Len(u) : FALSE
        BY <3>2 DEF Orders
      <3>4. DOMAIN u = {}
        BY <3>3
      <3> QED
        BY <3>1, <3>4 DEF List
    <2> QED
      BY <1>5, <1>7, <1>10, <1>12, <1>16, <1>17, <2>2, <2>3
  <1>18. CASE ~E
    <2>1. PICK g : g = [j \in 1..m |-> RefinementAt(j)]
      OBVIOUS
    <2>2. PICK L, h : L = Numbers(t, Q) /\ h = Through(t, g)
      OBVIOUS
    <2>3. \A j \in 1..Len(t) : t[j] \in M /\ t[j] \in 1..m
      BY <1>2 DEF Orders
    <2>4. \A j \in 1..Len(t) : j \in K <=> j \in L
      BY <1>7, <1>11, <1>14, <1>18, <2>2, <2>3 DEF Numbers
    <2>5. \A j \in 1..Len(t) : j \in K => f[j] = h[j]
      BY <1>13, <2>1, <2>2, <2>3 DEF Through
    <2>6. List(K, Len(t), f) = List(L, Len(t), h)
      BY <1>3, <2>4, <2>5, ListAlike
    <2>7. List(L, Len(t), h) = List(Q, m, g)
      <3>1. \A x \in Q : x \in M
        BY <1>14
      <3> QED
        BY <1>1, <2>2, <3>1, Picked
    <2>8. List(Q, m, g) = [n \in DOMAIN named |-> RefinementAt(named[n])]
      <3>1. Orders(Q, m, named)
        BY <1>15, OrderIs
      <3>2. named \in Seq(Nat)
        BY <3>1 DEF Orders
      <3>3. DOMAIN named = 1..Len(named)
        BY <3>2, Ranged
      <3>4. \A n \in DOMAIN named : named[n] \in 1..m
        BY <3>1, <3>3 DEF Orders
      <3>5. \A n \in DOMAIN named : g[named[n]] = RefinementAt(named[n])
        BY <2>1, <3>4
      <3> QED
        BY <1>15, <3>5 DEF List
    <2> QED
      BY <1>5, <1>7, <1>10, <1>12, <1>16, <1>18, <2>6, <2>7, <2>8
  <1> QED
    BY <1>17, <1>18

WrittenAt == [i \in DOMAIN doc |-> EntryWritten(i)]

\* The entries in the end are those that are written.
LEMMA EntriesAre ==
    ASSUME XmlInv, Stores, NEW m \in Nat, m = Len(doc), NEW s, s = InOrder(Said, m)
    PROVE  /\ FinishMetadata = [n \in 1..Len(s) |-> EntryWritten(s[n])]
           /\ Len(s) \in Nat /\ DOMAIN s = 1..Len(s)
           /\ \A n \in 1..Len(s) : s[n] \in Said /\ s[n] \in 1..m
  <1>1. PICK e, r : e = List(Said, m, EntryAt) /\ r = List(Mentions, m, MentionAt)
    OBVIOUS
  <1>2. e = package.entries /\ r = refinements
    BY <1>1 DEF Stores
  <1>3. DOMAIN doc = 1..m
    BY Length
  <1>4. Orders(Said, m, s)
    BY OrderIs
  <1>5. s \in Seq(Nat) /\ \A n \in 1..Len(s) : s[n] \in Said /\ s[n] \in 1..m
    BY <1>4 DEF Orders
  <1>6. Len(s) \in Nat /\ DOMAIN s = 1..Len(s)
    <2>1. s \in Seq(Nat)
      BY <1>5
    <2> QED
      BY <2>1, Ranged
  <1>7. Len(e) = Len(s) /\ \A n \in 1..Len(s) : e[n] = EntrySaid(doc[s[n]], Content(s[n]))
    <2>1. PICK S, f : S = Said /\ f = EntryAt
      OBVIOUS
    <2>2. Lists(InOrder(S, m), List(S, m, f), f)
      BY ListLong
    <2>3. \A i \in 1..m : f[i] = EntrySaid(doc[i], Content(i))
      BY <1>3, <2>1 DEF EntryAt
    <2> QED
      BY <1>1, <1>5, <2>1, <2>2, <2>3 DEF Lists
  <1>8. \A n \in 1..Len(e) : IsEntry(e[n])
    BY <1>7, SaidIsEntry
  <1>9. DOMAIN e = DOMAIN s
    <2>1. PICK S, f : S = Said /\ f = EntryAt
      OBVIOUS
    <2> QED
      BY <1>1, <2>1 DEF List
  <1>10. PICK X : X = {e[n] : n \in 1..Len(s)}
    OBVIOUS
  <1>11. e \in Seq(X)
    <2>1. \A n \in 1..Len(s) : e[n] \in X
      BY <1>10
    <2>2. e = [n \in 1..Len(s) |-> e[n]]
      <3>1. PICK S, f : S = Said /\ f = EntryAt
        OBVIOUS
      <3>2. e = [n \in DOMAIN s |-> f[s[n]]]
        BY <1>1, <3>1 DEF List
      <3> QED
        BY <1>6, <3>2
    <2>3. PICK l \in Nat : l = Len(s)
      BY <1>6
    <2>4. e \in [1..l -> X]
      BY <2>1, <2>2, <2>3
    <2> QED
      BY <2>4
  <1>12. Len(r) \in Nat
    <2>1. PICK M, f : M = Mentions /\ f = MentionAt
      OBVIOUS
    <2>2. Lists(InOrder(M, m), List(M, m, f), f)
      BY ListLong
    <2>3. InOrder(M, m) \in Seq(Nat)
      BY OrderIs DEF Orders
    <2>4. Len(InOrder(M, m)) \in Nat
      BY <2>3, Ranged
    <2> QED
      BY <1>1, <2>1, <2>2, <2>4 DEF Lists
  <1>13. FinishMetadata = Refine(e, Got(e, r, Len(r)))
    BY <1>2, <1>8, <1>11, <1>12, AttachedIs
  <1>14. \A n \in 1..Len(s) : RefinedBy(e[n], Got(e, r, Len(r))[n]) = EntryWritten(s[n])
    <2> SUFFICES ASSUME NEW n \in 1..Len(s)
                 PROVE  RefinedBy(e[n], Got(e, r, Len(r))[n]) = EntryWritten(s[n])
      OBVIOUS
    <2>1. PICK x, i : x = e[n] /\ i = s[n]
      OBVIOUS
    <2>2. Got(e, r, Len(r))[n] = x.refinements \o List(Gained(e, r, n), Len(r), Saying(r))
      BY <1>7, <2>1 DEF Got
    <2>3. List(Gained(e, r, n), Len(r), Saying(r)) = RefiningOf(i)
      BY <1>1, <2>1, GainedIs
    <2>4. x = EntrySaid(doc[i], Content(i))
      BY <1>7, <2>1
    <2>5. Keeps(doc[i])
      <3>1. i \in Said
        BY <1>5, <2>1
      <3> QED
        BY <3>1, KeptHere, SaidAre
    <2>6. RefinedBy(x, x.refinements \o RefiningOf(i)) = EntryWritten(i)
      BY <2>4, <2>5, SaidIsWritten
    <2> QED
      BY <2>1, <2>2, <2>3, <2>6
  <1>15. FinishMetadata = [n \in 1..Len(s) |-> EntryWritten(s[n])]
    BY <1>7, <1>13, <1>14 DEF Refine
  <1> QED
    BY <1>5, <1>6, <1>15

\* The metadata are read as they are written.
LEMMA MetadataWritten == PackageInv /\ MetadataInv /\ reader = "package" => MetadataIsWritten
  <1> SUFFICES ASSUME PackageInv, MetadataInv, reader = "package", error = "", PlainMetadata
               PROVE  LET place == Sorted(Said)
                      IN  FinishMetadata =
                            [n \in DOMAIN place |->
                               LET tag == doc[place[n]]
                               IN  [element |-> ElementOf(place[n]),
                                    value |-> Content(place[n]), id |-> Attribute(tag, "id", ""),
                                    scheme |-> Attribute(tag, "scheme", ""),
                                    refinements |->
                                       (IF tag.name = "meta" THEN <<>> ELSE Epub2Refinements(tag))
                                          \o RefiningOf(place[n])]]
    BY DEF MetadataIsWritten
  <1>1. XmlInv /\ Stores
    BY DEF PackageInv, MetadataInv
  <1>2. PICK m \in Nat : m = Len(doc)
    BY <1>1, Length
  <1>3. PICK s : s = InOrder(Said, m)
    OBVIOUS
  <1>4. FinishMetadata = [n \in 1..Len(s) |-> EntryWritten(s[n])] /\ DOMAIN s = 1..Len(s)
    BY <1>1, <1>2, <1>3, EntriesAre
  <1>5. s = Sorted(Said)
    BY <1>2, <1>3 DEF Sorted
  <1>6. \A i : EntryWritten(i) =
                 [element |-> ElementOf(i), value |-> Content(i), id |-> Attribute(doc[i], "id", ""),
                  scheme |-> Attribute(doc[i], "scheme", ""),
                  refinements |-> (IF doc[i].name = "meta" THEN <<>> ELSE Epub2Refinements(doc[i]))
                                     \o RefiningOf(i)]
    BY DEF EntryWritten, OwnOf
  <1> QED
    BY <1>4, <1>5, <1>6

\* What EntriesOf computes on the way.
IsNaming(e, element, P) ==
    P = [n \in 0..Len(e) |->
            IF n = 0 THEN <<>>
            ELSE IF e[n].element = element THEN Append(P[n - 1], e[n]) ELSE P[n - 1]]

\* The entries of a name are those, in their order.
LEMMA EntriesOfIs ==
    ASSUME NEW e, Len(e) \in Nat, NEW element, NEW K, K = {i \in 1..Len(e) : e[i].element = element}
    PROVE  EntriesOf(e, element) = List(K, Len(e), e)
  <1>1. PICK n \in Nat : n = Len(e)
    OBVIOUS
  <1> DEFINE P == CHOOSE P : IsNaming(e, element, P)
             F == [k \in 0..n |-> List(K, k, e)]
  <1>2. EntriesOf(e, element) = P[n]
    BY <1>1 DEF EntriesOf, IsNaming
  <1>3. F[0] = <<>>
    BY ListNone
  <1>4. ASSUME NEW k \in 1..n
        PROVE  F[k] = IF e[k].element = element THEN Append(F[k - 1], e[k]) ELSE F[k - 1]
    <2>1. k \in 0..n /\ k - 1 \in 0..n /\ k \in Nat \ {0}
      OBVIOUS
    <2>2. List(K, k, e) = IF k \in K THEN Append(List(K, k - 1, e), e[k]) ELSE List(K, k - 1, e)
      BY <2>1, ListNext
    <2>3. k \in K <=> e[k].element = element
      BY <1>1
    <2> QED
      BY <2>1, <2>2, <2>3
  <1>5. IsNaming(e, element, F)
    <2>1. F = [k \in 0..n |-> F[k]]
      OBVIOUS
    <2> HIDE DEF F
    <2>2. \A k \in 0..n : F[k] = IF k = 0 THEN <<>>
                                 ELSE IF e[k].element = element THEN Append(F[k - 1], e[k])
                                 ELSE F[k - 1]
      <3> SUFFICES ASSUME NEW k \in 0..n
                   PROVE  F[k] = IF k = 0 THEN <<>>
                                 ELSE IF e[k].element = element THEN Append(F[k - 1], e[k])
                                 ELSE F[k - 1]
        OBVIOUS
      <3>1. k # 0 => k \in 1..n
        OBVIOUS
      <3> QED
        BY <1>3, <1>4, <3>1
    <2> QED
      BY <1>1, <2>1, <2>2 DEF IsNaming
  <1>6. IsNaming(e, element, P)
    <2> HIDE DEF F
    <2> QED
      BY <1>5
  <1> HIDE DEF P
  <1>7. /\ P[0] = <<>>
        /\ \A k \in 1..n : P[k] = IF e[k].element = element THEN Append(P[k - 1], e[k]) ELSE P[k - 1]
    <2>1. 0 \in 0..n /\ \A k \in 1..n : k \in 0..n /\ k # 0
      OBVIOUS
    <2> QED
      BY <1>1, <1>6, <2>1 DEF IsNaming
  <1> DEFINE G == {k \in 0..n : P[k] = F[k]}
  <1>8. 0 \in G
    BY <1>3, <1>7
  <1> HIDE DEF F
  <1>9. ASSUME NEW k \in 1..n, k - 1 \in G PROVE k \in G
    BY <1>4, <1>7, <1>9
  <1>10. \A k \in 0..n : k \in G
    <2> HIDE DEF G
    <2> QED
      BY <1>8, <1>9, UpTo
  <1>11. n \in 0..n
    OBVIOUS
  <1> QED
    BY <1>1, <1>2, <1>10, <1>11 DEF F

-----------------------------------------------------------------------------
(* The title of the book.                                                  *)

\* The refinements of a property, and what the first of them says.
Marking(s, property) == {k \in DOMAIN s : s[k].property = property}
Marked(s, property) ==
    IF Marking(s, property) = {} THEN <<>> ELSE s[Smallest(Marking(s, property))].value

\* It is that of the second of two that say it when the first says nothing.
LEMMA MarkedLater ==
    ASSUME NEW X, NEW a \in Seq(X), NEW b \in Seq(X), NEW property,
           \A k \in 1..Len(a) : a[k].property # property
    PROVE  Marked(a \o b, property) = Marked(b, property)
  <1>1. PICK l, n \in Nat : l = Len(a) /\ n = Len(b)
    OBVIOUS
  <1>2. PICK c : c = a \o b
    OBVIOUS
  <1>3. /\ c \in Seq(X) /\ Len(c) = l + n
        /\ \A k \in 1..l + n : c[k] = IF k <= l THEN a[k] ELSE b[k - l]
    BY <1>1, <1>2, JoinedIs
  <1>4. DOMAIN c = 1..l + n /\ DOMAIN b = 1..n
    BY <1>1, <1>3
  <1>5. PICK J, K : J = Marking(c, property) /\ K = Marking(b, property)
    OBVIOUS
  <1>6. /\ \A k : k \in J <=> k \in 1..l + n /\ c[k].property = property
        /\ \A k : k \in K <=> k \in 1..n /\ b[k].property = property
    BY <1>4, <1>5 DEF Marking
  <1>7. ASSUME NEW k \in J PROVE k - l \in K /\ c[k] = b[k - l] /\ k \in l + 1..l + n
    <2>1. k \in 1..l + n /\ c[k].property = property
      BY <1>6
    <2>2. ~(k <= l)
      <3>1. k <= l => k \in 1..l /\ c[k] = a[k]
        BY <1>3, <2>1
      <3> QED
        BY <1>1, <2>1, <3>1
    <2>3. k - l \in 1..n
      BY <2>1, <2>2
    <2>4. c[k] = b[k - l]
      BY <1>3, <2>1, <2>2
    <2> QED
      BY <1>6, <2>1, <2>2, <2>3, <2>4
  <1>8. ASSUME NEW k \in K PROVE k \in 1..n /\ k + l \in J /\ c[k + l] = b[k]
    <2>1. k \in 1..n /\ b[k].property = property
      BY <1>6
    <2>2. k + l \in 1..l + n /\ ~(k + l <= l) /\ (k + l) - l = k
      BY <2>1
    <2>3. c[k + l] = b[k]
      BY <1>3, <2>2
    <2> QED
      BY <1>6, <2>1, <2>2, <2>3
  <1>9. J = {} <=> K = {}
    BY <1>7, <1>8
  <1>10. ASSUME K # {} PROVE c[Smallest(J)] = b[Smallest(K)]
    <2>1. K \in SUBSET Nat /\ J \in SUBSET Nat
      BY <1>7, <1>8
    <2>2. PICK p : p = Smallest(K) /\ p \in K /\ \A y \in K : p <= y
      BY <1>10, <2>1, SmallestExists
    <2>3. p \in 1..n /\ p + l \in J /\ c[p + l] = b[p]
      BY <1>8, <2>2
    <2>4. PICK q \in Nat : q = p + l
      BY <2>3
    <2>5. ASSUME NEW y \in J PROVE q <= y
      <3>1. p <= y - l /\ y \in l + 1..l + n
        BY <1>7, <2>2
      <3> QED
        BY <2>3, <2>4, <3>1
    <2>6. Smallest(J) = q
      BY <2>1, <2>3, <2>4, <2>5, SmallestIs
    <2> QED
      BY <2>2, <2>3, <2>4, <2>6
  <1> QED
    BY <1>2, <1>5, <1>9, <1>10 DEF Marked

\* What EPUB 2 says in attributes is a role or a file-as.
LEMMA OwnIs ==
    ASSUME NEW tag
    PROVE  \E X : /\ OwnOf(tag) \in Seq(X)
                  /\ \A k \in 1..Len(OwnOf(tag)) : OwnOf(tag)[k].property # "title-type"
  <1> DEFINE At(a) == Refinement(a, <<<<"attribute", tag.attrs[a]>>>>, "")
  <1>1. PICK a, b : a = At("role") /\ b = At("file-as")
    OBVIOUS
  <1>2. a.property = "role" /\ b.property = "file-as"
    BY <1>1 DEF Refinement
  <1>3. PICK p, q : /\ p = IF Attribute(tag, "role", "") = "" THEN <<>> ELSE <<a>>
                    /\ q = IF Attribute(tag, "file-as", "") = "" THEN <<>> ELSE <<b>>
    OBVIOUS
  <1>4. Epub2Refinements(tag) = p \o q
    BY <1>1, <1>3 DEF Epub2Refinements
  <1> HIDE DEF At
  <1>5. PICK X : X = {a, b}
    OBVIOUS
  <1>6. p \in Seq(X) /\ q \in Seq(X)
    <2>1. <<a>> \in Seq(X) /\ <<b>> \in Seq(X) /\ <<>> \in Seq(X)
      BY <1>5
    <2> QED
      BY <1>3, <2>1
  <1>7. p \o q \in Seq(X) /\ <<>> \in Seq(X)
    BY <1>6
  <1>8. OwnOf(tag) = <<>> \/ OwnOf(tag) = p \o q
    BY <1>4 DEF OwnOf
  <1>9. OwnOf(tag) \in Seq(X)
    BY <1>7, <1>8
  <1>10. \A x \in X : x.property # "title-type"
    BY <1>2, <1>5
  <1>11. \A k \in 1..Len(OwnOf(tag)) : OwnOf(tag)[k] \in X
    BY <1>9
  <1> QED
    BY <1>9, <1>10, <1>11

\* What refines an entry is a sequence.
LEMMA RefiningIs ==
    ASSUME NEW m \in Nat, m = Len(doc), NEW i
    PROVE  \E X : RefiningOf(i) \in Seq(X)
  <1>1. PICK Q : Q = {j \in Refining : /\ Closed(j)
                                       /\ Attribute(doc[j], "refines", "") = Attribute(doc[i], "id", "")}
    OBVIOUS
  <1>2. PICK s : s = InOrder(Q, m)
    OBVIOUS
  <1>3. s \in Seq(Nat)
    BY <1>2, OrderIs DEF Orders
  <1>4. PICK l \in Nat : l = Len(s) /\ DOMAIN s = 1..l
    BY <1>3, Ranged
  <1>5. PICK t : t = [n \in 1..l |-> RefinementAt(s[n])]
    OBVIOUS
  <1>6. PICK X : X = {RefinementAt(s[n]) : n \in 1..l}
    OBVIOUS
  <1>7. t \in [1..l -> X]
    BY <1>5, <1>6
  <1>8. t \in Seq(X) /\ <<>> \in Seq(X)
    BY <1>7
  <1>9. RefiningOf(i) = <<>> \/ RefiningOf(i) = t
    <2>1. s = Sorted({j \in Refining : /\ Closed(j)
                                       /\ Attribute(doc[j], "refines", "") = Attribute(doc[i], "id", "")})
      BY <1>1, <1>2 DEF Sorted
    <2> QED
      BY <1>4, <1>5, <2>1 DEF RefiningOf
  <1> QED
    BY <1>8, <1>9

\* The mark of a title.
MainMark == <<<<"main", 0>>>>

\* An entry is marked by what refines it.
LEMMA MarkedIs ==
    ASSUME NEW m \in Nat, m = Len(doc), NEW i
    PROVE  /\ Refined(EntryWritten(i), "title-type") = Marked(RefiningOf(i), "title-type")
           /\ EntryWritten(i).element = ElementOf(i) /\ EntryWritten(i).value = Content(i)
  <1>1. PICK own, more, all : own = OwnOf(doc[i]) /\ more = RefiningOf(i) /\ all = own \o more
    OBVIOUS
  <1>2. PICK X, Y : /\ own \in Seq(X) /\ more \in Seq(Y)
                    /\ \A k \in 1..Len(own) : own[k].property # "title-type"
    BY <1>1, OwnIs, RefiningIs
  <1>3. PICK Z : Z = X \cup Y
    OBVIOUS
  <1>4. own \in Seq(Z)
    BY <1>2, <1>3
  <1>5. more \in Seq(Z)
    BY <1>2, <1>3
  <1>6. Marked(all, "title-type") = Marked(more, "title-type")
    BY <1>1, <1>2, <1>4, <1>5, MarkedLater
  <1>7. PICK element, value, id, scheme : EntryWritten(i) =
            [element |-> element, value |-> value, id |-> id, scheme |-> scheme,
             refinements |-> all] /\ element = ElementOf(i) /\ value = Content(i)
    BY <1>1 DEF EntryWritten
  <1>8. PICK x : x = EntryWritten(i)
    OBVIOUS
  <1>9. x.refinements = all /\ x.element = ElementOf(i) /\ x.value = Content(i)
    BY <1>7, <1>8
  <1>10. Refined(x, "title-type") = Marked(all, "title-type")
    BY <1>9 DEF Refined, Marked, Marking
  <1> QED
    BY <1>1, <1>6, <1>8, <1>9, <1>10

\* The titles that are marked.
AreMain(M, T, f) == M = {i \in T : Refined(f[i], "title-type") = MainMark}

\* The title that is read, out of a list of titles.
LEMMA TitleIs ==
    ASSUME NEW m \in Nat, NEW T, \A i \in T : i \in 1..m, NEW f, NEW t, t = List(T, m, f),
           NEW M, AreMain(M, T, f)
    PROVE  /\ MainTitle(t) = IF T = {} THEN <<>> ELSE f[Smallest(IF M # {} THEN M ELSE T)].value
           /\ T # {} => Smallest(IF M # {} THEN M ELSE T) \in T
  <1> USE DEF AreMain
  <1>0. M \in SUBSET T /\ T \in SUBSET Nat
    OBVIOUS
  <1> HIDE DEF AreMain
  <1>1. PICK s : s = InOrder(T, m)
    OBVIOUS
  <1>2. Orders(T, m, s)
    BY <1>1, OrderIs
  <1>3. s \in Seq(Nat) /\ \A k \in 1..Len(s) : s[k] \in T
    BY <1>2 DEF Orders
  <1>4. Len(s) \in Nat /\ DOMAIN s = 1..Len(s)
    <2>1. s \in Seq(Nat)
      BY <1>3
    <2> QED
      BY <2>1, Ranged
  <1>5. DOMAIN t = 1..Len(s) /\ \A k \in 1..Len(s) : t[k] = f[s[k]]
    BY <1>1, <1>4 DEF List
  <1>6. PICK J, K : J = Numbers(s, M) /\ K = Numbers(s, T)
    OBVIOUS
  <1>7. /\ J = {} <=> M = {}
        /\ M # {} => Smallest(J) \in 1..Len(s) /\ s[Smallest(J)] = Smallest(M)
    <2>1. \A i \in M : i \in T /\ i \in 1..m
      BY <1>0
    <2> QED
      BY <1>1, <1>6, <2>1, FirstOf
  <1>8. /\ K = {} <=> T = {}
        /\ T # {} => Smallest(K) \in 1..Len(s) /\ s[Smallest(K)] = Smallest(T)
    BY <1>1, <1>6, FirstOf
  <1>9. {k \in DOMAIN t : Refined(t[k], "title-type") = <<<<"main", 0>>>>} = J
    <2>1. \A k \in 1..Len(s) : s[k] \in M <=> Refined(t[k], "title-type") = <<<<"main", 0>>>>
      BY <1>3, <1>5 DEF MainMark, AreMain
    <2> QED
      BY <1>5, <1>6, <2>1 DEF Numbers
  <1>10. MainTitle(t) = IF J # {} THEN t[Smallest(J)].value ELSE First(t)
    BY <1>9 DEF MainTitle
  <1>11. K = 1..Len(s)
    BY <1>3, <1>6 DEF Numbers
  <1>12. First(t) = IF T = {} THEN <<>> ELSE f[Smallest(T)].value
    <2>1. CASE T = {}
      <3>1. DOMAIN t = {}
        BY <1>5, <1>8, <1>11, <2>1
      <3>2. t = [k \in DOMAIN s |-> f[s[k]]]
        BY <1>1 DEF List
      <3>3. t = <<>>
        BY <1>4, <1>5, <3>1, <3>2
      <3> QED
        BY <2>1, <3>3 DEF First
    <2>2. CASE T # {}
      <3>1. 1 \in 1..Len(s)
        BY <1>4, <1>8, <1>11, <2>2
      <3>2. Smallest(K) = 1
        <4>1. K \in SUBSET Nat /\ 1 \in K /\ \A y \in K : 1 <= y
          BY <1>4, <1>11, <3>1
        <4> QED
          BY <4>1, SmallestIs
      <3>3. t[1] = f[Smallest(T)]
        BY <1>5, <1>8, <2>2, <3>1, <3>2
      <3>4. t # <<>>
        <4>1. DOMAIN <<>> = {}
          OBVIOUS
        <4> QED
          BY <1>5, <3>1, <4>1
      <3> QED
        BY <2>2, <3>3, <3>4 DEF First
    <2> QED
      BY <2>1, <2>2
  <1> DEFINE title == IF T = {} THEN <<>> ELSE f[Smallest(IF M # {} THEN M ELSE T)].value
  <1>13. ASSUME M = {} PROVE MainTitle(t) = title
    BY <1>7, <1>10, <1>12, <1>13
  <1>14. ASSUME M # {} PROVE MainTitle(t) = title
    <2>1. t[Smallest(J)] = f[Smallest(M)]
      BY <1>5, <1>7, <1>14
    <2>2. T # {}
      BY <1>0, <1>14
    <2> QED
      BY <1>7, <1>10, <1>14, <2>1, <2>2
  <1>15. T # {} => Smallest(IF M # {} THEN M ELSE T) \in T
    <2>1. M \in SUBSET Nat
      BY <1>0
    <2>2. M # {} => Smallest(M) \in M
      BY <2>1, SmallestExists
    <2>3. T # {} => Smallest(T) \in T
      BY <1>0, SmallestExists
    <2> QED
      BY <1>0, <2>2, <2>3
  <1> QED
    BY <1>13, <1>14, <1>15

\* The titles among the entries.
LEMMA TitlesAre ==
    ASSUME XmlInv, Stores, NEW m \in Nat, m = Len(doc),
           NEW T, T = {i \in Said : ElementOf(i) = "title"}, NEW f, f = WrittenAt
    PROVE  EntriesOf(FinishMetadata, "title") = List(T, m, f)
  <1>1. PICK S, s, e : S = Said /\ s = InOrder(S, m) /\ e = FinishMetadata
    OBVIOUS
  <1>2. /\ e = [n \in 1..Len(s) |-> EntryWritten(s[n])]
        /\ Len(s) \in Nat /\ \A n \in 1..Len(s) : s[n] \in S /\ s[n] \in 1..m
    BY <1>1, EntriesAre
  <1>3. DOMAIN doc = 1..m
    BY Length
  <1>4. e = Through(s, f)
    <2>1. \A i \in 1..m : f[i] = EntryWritten(i)
      BY <1>3 DEF WrittenAt
    <2> QED
      BY <1>2, <2>1 DEF Through
  <1>5. PICK l \in Nat : l = Len(s) /\ l = Len(e)
    <2>1. PICK X : X = {EntryWritten(s[n]) : n \in 1..Len(s)}
      OBVIOUS
    <2>2. PICK l \in Nat : l = Len(s)
      BY <1>2
    <2>3. e \in [1..l -> X]
      BY <1>2, <2>1, <2>2
    <2>4. Len(e) = l
      BY <2>3
    <2> QED
      BY <2>2, <2>4
  <1>6. PICK K : K = Numbers(s, T)
    OBVIOUS
  <1>7. K = {n \in 1..Len(e) : e[n].element = "title"}
    <2>1. \A n \in 1..l : e[n].element = ElementOf(s[n])
      BY <1>2, <1>5, MarkedIs
    <2>2. \A n \in 1..l : s[n] \in T <=> e[n].element = "title"
      BY <1>1, <1>2, <1>5, <2>1
    <2> QED
      BY <1>5, <1>6, <2>2 DEF Numbers
  <1>8. EntriesOf(e, "title") = List(K, l, e)
    BY <1>5, <1>7, EntriesOfIs
  <1>9. List(K, l, e) = List(T, m, f)
    <2>1. \A i \in T : i \in S
      BY <1>1
    <2>2. s = InOrder(S, m)
      BY <1>1
    <2>3. List(Numbers(s, T), Len(s), Through(s, f)) = List(T, m, f)
      BY <2>1, <2>2, Picked
    <2> QED
      BY <1>4, <1>5, <1>6, <2>3
  <1> QED
    BY <1>1, <1>8, <1>9

\* The title is one that is marked.
LEMMA TitleStored ==
    ASSUME XmlInv, Stores
    PROVE  MainTitleIsMarked
  <1>1. PICK m \in Nat : m = Len(doc) /\ DOMAIN doc = 1..m
    BY Length
  <1>3. PICK T, f : T = {i \in Said : ElementOf(i) = "title"} /\ f = WrittenAt
    OBVIOUS
  <1>4. \A i \in T : i \in 1..m
    BY <1>1, <1>3, SaidAre, KeptHere
  <1>5. \A i \in T : f[i] = EntryWritten(i)
    BY <1>1, <1>3, <1>4 DEF WrittenAt
  <1>6. PICK M : M = {i \in T : Refined(f[i], "title-type") = MainMark}
    OBVIOUS
  <1>7. M = {i \in T : /\ Marking(RefiningOf(i), "title-type") # {}
                       /\ RefiningOf(i)[Smallest(Marking(RefiningOf(i), "title-type"))].value
                             = MainMark}
    <2>1. <<>> # MainMark
      BY DEF MainMark
    <2>2. \A i \in T : Refined(f[i], "title-type") = Marked(RefiningOf(i), "title-type")
      BY <1>1, <1>5, MarkedIs
    <2>3. \A s : Marked(s, "title-type") = MainMark <=>
                    /\ Marking(s, "title-type") # {}
                    /\ s[Smallest(Marking(s, "title-type"))].value = MainMark
      BY <2>1 DEF Marked
    <2> QED
      BY <1>6, <2>2, <2>3
  <1>8. PICK t : t = List(T, m, f)
    OBVIOUS
  <1>9. /\ MainTitle(t) = IF T = {} THEN <<>> ELSE f[Smallest(IF M # {} THEN M ELSE T)].value
        /\ T # {} => Smallest(IF M # {} THEN M ELSE T) \in T
    <2>1. AreMain(M, T, f)
      BY <1>6 DEF AreMain
    <2> QED
      BY <1>4, <1>8, <2>1, TitleIs
  <1>11. \A i \in T : f[i].value = Content(i)
    BY <1>1, <1>5, MarkedIs
  <1>12. MainTitle(t) = IF T = {} THEN <<>> ELSE Content(Smallest(IF M # {} THEN M ELSE T))
    BY <1>9, <1>11
  <1>13. EntriesOf(FinishMetadata, "title") = t
    BY <1>1, <1>3, <1>8, TitlesAre
  <1>14. \A e : Derive(e).title = MainTitle(EntriesOf(e, "title"))
    BY DEF Derive
  <1>15. Derive(FinishMetadata).title = MainTitle(t)
    BY <1>13, <1>14
  <1>16. ASSUME Derive(FinishMetadata).title
                  = IF T = {} THEN <<>> ELSE Content(Smallest(IF M # {} THEN M ELSE T))
         PROVE  MainTitleIsMarked
    BY <1>16, <1>3, <1>7 DEF MainTitleIsMarked, Marking, MainMark
  <1> QED
    BY <1>12, <1>15, <1>16

LEMMA TitleMarked == PackageInv /\ MetadataInv /\ reader = "package" => MainTitleIsMarked
  <1> SUFFICES ASSUME PackageInv, MetadataInv, reader = "package", error = "", PlainMetadata
               PROVE  MainTitleIsMarked
    BY DEF MainTitleIsMarked
  <1>1. XmlInv /\ Stores
    BY DEF PackageInv, MetadataInv
  <1> QED
    BY <1>1, TitleStored

(***************************************************************************)
(* Whatever document is read as the package, unless a metadata element     *)
(* stands in another its entries are those read to their end, each with    *)
(* the text it was written with and all that refines it, and the title is  *)
(* one that is marked as the main one if there is one; the manifest and    *)
(* the spine are the items and the itemrefs of their sections, in order;   *)
(* and it is accepted just when it is a package with a reading order and   *)
(* without entities of its own (opf.rs open, close, store,                 *)
(* finish_metadata, derive, parse_package).                                *)
(***************************************************************************)
THEOREM PackageIsAlwaysRead == Spec => []PackageIsRead
  <1>1. Init => PackageInv /\ MetadataInv
    BY PackageStarts, MetadataStarts
  <1>2. PackageInv /\ MetadataInv /\ [Next]_readerVars => (PackageInv /\ MetadataInv)'
    BY PackageSteps, MetadataSteps
  <1>3. PackageInv /\ MetadataInv => PackageIsRead
    BY MetadataWritten, TitleMarked, BookWritten, Accepted DEF PackageIsRead
  <1> QED
    BY <1>1, <1>2, <1>3, PTL DEF Spec, readerVars
=============================================================================
