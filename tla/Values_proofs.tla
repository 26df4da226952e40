---------------------------- MODULE Values_proofs ----------------------------
(***************************************************************************)
(* Theorems about the parts of the server that are functions of their      *)
(* input: the limits of limits.rs and service.rs, for every environment    *)
(* and call, every width of a byte count and of an option, every unit and  *)
(* every number of permits; the paths of href.rs, for every string and     *)
(* every base directory; and the dates of datetime.rs, for every day of    *)
(* the years 1 to 9999.                                                    *)
(*                                                                         *)
(* The invariants only say what the inputs can be.  The rest is arithmetic *)
(* for the limits, and for the paths what the loops of href.rs compute:    *)
(* each is a recursion over a sequence (Runs below), and what holds of it  *)
(* holds of the empty sequence and goes on when the sequence grows by one, *)
(* or there would be a least number of elements for which it does not.     *)
(* The walk through the calendar is at a day there is, and has counted as  *)
(* many days as the conversion of datetime.rs gives: from each day to the  *)
(* next, the leap days and the turns of the year included, it gives one    *)
(* more.                                                                   *)
(***************************************************************************)
EXTENDS MCValues, WellFoundedInduction, SequenceTheorems, TLAPS

-----------------------------------------------------------------------------
(* Arithmetic.                                                             *)

\* A product grows with either of its factors.
LEMMA ProductGrows ==
    ASSUME NEW a \in Nat, NEW b \in Nat, NEW c \in Nat, a <= b
    PROVE  a * c <= b * c /\ c * a <= c * b /\ a * c \in Nat
  <1>1. PICK k \in Nat : b = a + k
    <2>1. b - a \in Nat /\ b = a + (b - a)
      OBVIOUS
    <2> QED
      BY <2>1
  <1>2. b * c = a * c + k * c /\ a * c \in Nat /\ k * c \in Nat
    BY <1>1
  <1>3. c * a = a * c /\ c * b = b * c
    OBVIOUS
  <1> QED
    BY <1>2, <1>3

\* A product of positive numbers is no less than either.
LEMMA ProductPositive ==
    ASSUME NEW a \in Nat \ {0}, NEW b \in Nat \ {0}
    PROVE  a * b \in Nat \ {0} /\ a * b >= a /\ a * b >= b
  <1>1. 1 * b <= a * b /\ 1 * a <= b * a /\ a * b \in Nat
    BY ProductGrows
  <1>2. 1 * b = b /\ 1 * a = a /\ b * a = a * b
    OBVIOUS
  <1> QED
    BY <1>1, <1>2

\* Division with a remainder.
LEMMA Division ==
    ASSUME NEW n \in Nat, NEW d \in Nat \ {0}
    PROVE  /\ n \div d \in Nat /\ n % d \in 0..d - 1
           /\ n = d * (n \div d) + (n % d)
           /\ n < d => n % d = n
  OBVIOUS

\* A quotient is below what its dividend is below the multiple of.
LEMMA QuotientBelow ==
    ASSUME NEW n \in Nat, NEW d \in Nat \ {0}, NEW k \in Nat, n < d * k
    PROVE  n \div d < k
  <1>1. n \div d \in Nat /\ d * (n \div d) <= n
    BY Division
  <1>2. CASE k <= n \div d
    <2>1. d * k <= d * (n \div d)
      BY <1>1, <1>2, ProductGrows
    <2>2. d * k \in Nat /\ d * (n \div d) \in Nat
      BY <1>1, ProductPositive
    <2> QED
      BY <1>1, <2>1, <2>2
  <1> QED
    BY <1>1, <1>2

\* A quotient grows with its dividend.
LEMMA QuotientGrows ==
    ASSUME NEW m \in Nat, NEW n \in Nat, m <= n, NEW d \in Nat \ {0}
    PROVE  m \div d <= n \div d
  <1>1. /\ n \div d \in Nat /\ n % d < d /\ n = d * (n \div d) + (n % d)
        /\ m \div d \in Nat
    BY Division
  <1>2. d * (n \div d + 1) = d * (n \div d) + d
    BY <1>1
  <1>3. m < d * (n \div d + 1)
    <2>1. d * (n \div d) \in Nat /\ n % d \in Nat
      BY <1>1, Division
    <2> QED
      BY <1>1, <1>2, <2>1
  <1>4. m \div d < n \div d + 1
    BY <1>1, <1>3, QuotientBelow
  <1> QED
    BY <1>1, <1>4

-----------------------------------------------------------------------------
(* The limits of a process and of a call.                                  *)

\* What the constants are.
LEMMA Widths ==
    /\ Mib \in Nat \ {0} /\ Word64 \in Nat /\ Word32 \in Nat
    /\ BudgetUnit \in Nat \ {0} /\ MaxPermits \in Nat \ {0}
    /\ Mib < Word32 /\ Word32 < Word64 /\ BudgetUnit * MaxPermits >= Word64
  BY LimitsAssumption

\* What is read of a setting or of its default is a positive number.
LEMMA Positive ==
    ASSUME NEW value \in Nat, NEW default \in Nat \ {0}
    PROVE  EnvU64(value, default) \in Nat \ {0}
  BY DEF EnvU64

\* A size that wrapped or saturated has the width of a byte count.
LEMMA InWidth ==
    ASSUME NEW n \in Nat
    PROVE  /\ Wrapping(n) \in 0..Word64 - 1 /\ (n < Word64 => Wrapping(n) = n)
           /\ Saturating(n) \in 0..Word64 - 1 /\ (n < Word64 => Saturating(n) = n)
           /\ (n >= Word64 => Saturating(n) = Word64 - 1)
           /\ (n > 0 => Saturating(n) > 0)
  <1>1. Word64 \in Nat \ {0} /\ Word64 > 1
    BY Widths
  <1>2. n % Word64 \in 0..Word64 - 1 /\ (n < Word64 => n % Word64 = n)
    BY <1>1, Division
  <1> QED
    BY <1>1, <1>2 DEF Wrapping, Saturating, Lesser

\* The sizes a process allows, whatever its environment.
LEMMA Sizes ==
    ASSUME NEW e \in Settings
    PROVE  LET limits == FromEnv(e)
           IN  /\ limits.max_document \in 0..Word64 - 1
               /\ limits.max_uncompressed \in 0..Word64 - 1
               /\ limits.max_entries \in Nat \ {0} /\ limits.max_ratio \in Nat \ {0}
               /\ limits.max_chunk \in Nat \ {0}
               /\ limits.max_buffered \in 0..Word64 - 1
               /\ limits.max_buffered >= limits.max_document
  <1> DEFINE d == EnvU64(e.document, DefaultDocument)
             u == EnvU64(e.uncompressed, DefaultUncompressed)
             b == BufferedMib(e)
  <1>1. /\ e.document \in Nat /\ e.uncompressed \in Nat /\ e.buffered \in Nat /\ e.entries \in Nat
        /\ e.ratio \in Nat /\ e.parses \in Nat /\ e.chunk \in Nat
    BY Widths DEF Settings
  <1>2. /\ DefaultDocument \in Nat \ {0} /\ DefaultUncompressed \in Nat \ {0}
        /\ DefaultParses \in Nat \ {0} /\ DefaultEntries \in Nat \ {0} /\ DefaultRatio \in Nat \ {0}
    BY DEF DefaultDocument, DefaultUncompressed, DefaultParses, DefaultEntries, DefaultRatio
  <1>3. /\ d \in Nat \ {0} /\ u \in Nat \ {0} /\ EnvU64(e.parses, DefaultParses) \in Nat \ {0}
        /\ EnvU64(e.entries, DefaultEntries) \in Nat \ {0}
        /\ EnvU64(e.ratio, DefaultRatio) \in Nat \ {0} /\ EnvU64(e.chunk, Mib) \in Nat \ {0}
    BY <1>1, <1>2, Positive, Widths
  <1>4. b \in Nat \ {0} /\ d <= b
    <2>1. Saturating(d * EnvU64(e.parses, DefaultParses)) \in Nat \ {0}
      BY <1>3, ProductPositive, InWidth, Widths
    <2>2. EnvU64(e.buffered, Saturating(d * EnvU64(e.parses, DefaultParses))) \in Nat \ {0}
      BY <1>1, <2>1, Positive
    <2> QED
      BY <1>3, <2>2 DEF BufferedMib, Greater
  <1> HIDE DEF d, u, b
  <1>5. d * Mib \in Nat /\ u * Mib \in Nat /\ b * Mib \in Nat /\ d * Mib <= b * Mib
    BY <1>3, <1>4, Widths, ProductGrows, ProductPositive
  <1>6. /\ Wrapping(d * Mib) \in 0..Word64 - 1 /\ Wrapping(u * Mib) \in 0..Word64 - 1
        /\ Saturating(b * Mib) \in 0..Word64 - 1 /\ Wrapping(d * Mib) <= Saturating(b * Mib)
    <2>1. CASE b * Mib < Word64
      BY <1>5, <2>1, InWidth, Widths
    <2>2. CASE b * Mib >= Word64
      BY <1>5, <2>2, InWidth, Widths
    <2> QED
      BY <1>5, <2>1, <2>2, Widths
  <1>7. Narrowed(EnvU64(e.entries, DefaultEntries)) \in Nat \ {0} /\ Narrowed(EnvU64(e.ratio, DefaultRatio)) \in Nat \ {0}
    BY <1>3, Widths DEF Narrowed, Lesser
  <1> QED
    BY <1>3, <1>6, <1>7, Widths DEF FromEnv, d, u, b

\* A call is granted no more than the ceiling, and something of what there is.
LEMMA Granted ==
    ASSUME NEW requested \in Nat, NEW ceiling \in Nat, NEW unit \in Nat \ {0}
    PROVE  /\ Narrow(requested, ceiling, unit) <= ceiling
           /\ Narrow(requested, ceiling, unit) \in Nat
           /\ ceiling > 0 => Narrow(requested, ceiling, unit) > 0
  <1>1. CASE requested = 0
    BY <1>1 DEF Narrow
  <1>2. CASE requested # 0
    <2>1. requested * unit \in Nat \ {0}
      BY <1>2, ProductPositive
    <2>2. Saturating(requested * unit) \in Nat /\ Saturating(requested * unit) > 0
      BY <2>1, InWidth, Widths
    <2> QED
      BY <1>2, <2>2 DEF Narrow, Lesser
  <1> QED
    BY <1>1, <1>2

\* What a call asks for are numbers.
LEMMA Asked ==
    ASSUME NEW o \in Options
    PROVE  o.document \in Nat /\ o.uncompressed \in Nat /\ o.entries \in Nat /\ o.ratio \in Nat
  BY Widths DEF Options

\* NeverLooser: no call gets more than the process allows, and none of its
\* caps is none (limits.rs narrow and resolve).
LEMMA CallsAreNarrowed == env \in Settings /\ asked \in Options => NeverLooser
  <1> SUFFICES ASSUME env \in Settings, asked \in Options PROVE NeverLooser
    OBVIOUS
  <1> DEFINE limits == FromEnv(env)
             call == Resolve(limits, asked)
  <1>1. /\ limits.max_document \in Nat /\ limits.max_uncompressed \in Nat
        /\ limits.max_entries \in Nat /\ limits.max_ratio \in Nat
    BY Sizes, Widths
  <1> HIDE DEF limits
  <1>2. /\ call.max_document <= limits.max_document
        /\ limits.max_document > 0 => call.max_document > 0
    BY <1>1, Asked, Granted, Widths DEF Resolve
  <1>3. /\ call.max_uncompressed <= limits.max_uncompressed
        /\ limits.max_uncompressed > 0 => call.max_uncompressed > 0
    BY <1>1, Asked, Granted, Widths DEF Resolve
  <1>4. 1 \in Nat \ {0} /\ asked.entries \in Nat /\ asked.ratio \in Nat
    BY Asked
  <1>5. /\ call.max_entries <= limits.max_entries
        /\ limits.max_entries > 0 => call.max_entries > 0
    BY <1>1, <1>4, Granted DEF Resolve
  <1>6. /\ call.max_ratio <= limits.max_ratio
        /\ limits.max_ratio > 0 => call.max_ratio > 0
    BY <1>1, <1>4, Granted DEF Resolve
  <1> HIDE DEF call
  <1> QED
    BY <1>2, <1>3, <1>5, <1>6 DEF NeverLooser, limits, call

\* Whole units hold a number of bytes, and more of them more; those that hold
\* the largest byte count are no more than there can be permits.
LEMMA WholeUnits ==
    ASSUME NEW m \in 0..Word64 - 1, NEW n \in 0..Word64 - 1, m <= n
    PROVE  /\ DivCeil(m, BudgetUnit) \in Nat /\ DivCeil(n, BudgetUnit) \in Nat
           /\ DivCeil(m, BudgetUnit) <= DivCeil(n, BudgetUnit)
           /\ DivCeil(n, BudgetUnit) <= MaxPermits
  <1>1. /\ m + BudgetUnit - 1 \in Nat /\ n + BudgetUnit - 1 \in Nat
        /\ m + BudgetUnit - 1 <= n + BudgetUnit - 1
    BY Widths
  <1>2. /\ (m + BudgetUnit - 1) \div BudgetUnit \in Nat /\ (n + BudgetUnit - 1) \div BudgetUnit \in Nat
        /\ (m + BudgetUnit - 1) \div BudgetUnit <= (n + BudgetUnit - 1) \div BudgetUnit
    BY <1>1, Widths, Division, QuotientGrows
  <1>3. n + BudgetUnit - 1 < BudgetUnit * (MaxPermits + 1)
    <2>1. BudgetUnit * (MaxPermits + 1) = BudgetUnit * MaxPermits + BudgetUnit /\ BudgetUnit * MaxPermits \in Nat
      BY Widths, ProductPositive
    <2> QED
      BY <2>1, Widths
  <1>4. (n + BudgetUnit - 1) \div BudgetUnit < MaxPermits + 1
    BY <1>1, <1>3, Widths, QuotientBelow
  <1> QED
    BY <1>2, <1>4, Widths DEF DivCeil

\* LimitsFitTogether: the budget holds the largest upload in whole permits,
\* the transport lets a chunk past its cap through to be refused by name, and
\* no timeout is zero (limits.rs from_env; service.rs with_metrics and
\* into_service; main.rs serve).
LEMMA ProcessFits == env \in Settings => LimitsFitTogether
  <1> SUFFICES ASSUME env \in Settings PROVE LimitsFitTogether
    OBVIOUS
  <1> DEFINE limits == FromEnv(env)
  <1>1. /\ limits.max_document \in 0..Word64 - 1 /\ limits.max_buffered \in 0..Word64 - 1
        /\ limits.max_buffered >= limits.max_document /\ limits.max_chunk \in Nat \ {0}
    BY Sizes
  <1> HIDE DEF limits
  <1>2. Greater(limits.max_buffered, limits.max_document) = limits.max_buffered
    BY <1>1, Widths DEF Greater
  <1>3. DivCeil(limits.max_document, BudgetUnit) <= BudgetPermits(limits)
    <2>1. /\ DivCeil(limits.max_document, BudgetUnit) <= DivCeil(limits.max_buffered, BudgetUnit)
          /\ DivCeil(limits.max_document, BudgetUnit) \in Nat /\ DivCeil(limits.max_buffered, BudgetUnit) \in Nat
          /\ DivCeil(limits.max_buffered, BudgetUnit) <= MaxPermits
      BY <1>1, WholeUnits
    <2> QED
      BY <1>2, <2>1, Widths DEF BudgetPermits, Lesser
  <1>4. limits.max_chunk < Word64 - 1 => Backstop(limits) > limits.max_chunk
    BY <1>1, Widths DEF Backstop, Saturating, Lesser
  <1>5. AtLeastOneMilli(Timeout(env.idle)) > 0
    <2>1. env.idle \in Nat
      BY Widths DEF Settings
    <2> QED
      BY <2>1 DEF AtLeastOneMilli, Timeout, Greater, DefaultTimeout
  <1> QED
    BY <1>1, <1>3, <1>4, <1>5 DEF LimitsFitTogether, limits

\* An advertised size is no more than the ceiling, and a call that asks for it
\* loses less than a unit.
LEMMA OneSize ==
    ASSUME NEW b \in 0..Word64 - 1
    PROVE  /\ AdvertisedMib(b) \in Nat
           /\ b >= Mib => AdvertisedMib(b) * Mib <= b
           /\ AdvertisedMib(b) < Word32 - 1 => Narrow(AdvertisedMib(b), b, Mib) > b - Mib
  <1> DEFINE q == b \div Mib
             t == AdvertisedMib(b)
  <1>1. b \in Nat /\ Mib \in Nat \ {0} /\ Word32 > 1 /\ Word32 \in Nat /\ Word64 \in Nat /\ b < Word64
    BY Widths
  <1>2. q \in Nat /\ b % Mib \in Nat /\ b % Mib < Mib /\ b = Mib * q + (b % Mib)
    BY <1>1, Division
  <1>3. t = Lesser(Greater(q, 1), Word32 - 1)
    BY DEF AdvertisedMib, Narrowed
  <1> HIDE DEF q, t
  <1>4. t \in Nat \ {0} /\ (t < Word32 - 1 => t = Greater(q, 1)) /\ (q >= 1 => t <= q)
    BY <1>1, <1>2, <1>3 DEF Lesser, Greater
  <1>5. Mib * q \in Nat /\ Mib * q = q * Mib /\ t * Mib \in Nat /\ (q = 0 => Mib * q = 0)
    BY <1>1, <1>2, <1>4, ProductGrows
  <1>6. ASSUME b >= Mib PROVE t * Mib <= b
    <2>1. q >= 1
      BY <1>1, <1>2, <1>5, <1>6
    <2>2. t * Mib <= q * Mib
      BY <1>1, <1>2, <1>4, <2>1, ProductGrows
    <2> QED
      BY <1>1, <1>2, <1>5, <2>2
  <1>7. ASSUME t < Word32 - 1 PROVE Narrow(t, b, Mib) > b - Mib
    <2>1. q <= t
      BY <1>2, <1>4, <1>7 DEF Greater
    <2>2. q * Mib <= t * Mib
      BY <1>1, <1>2, <1>4, <2>1, ProductGrows
    <2>3. t * Mib > b - Mib
      BY <1>1, <1>2, <1>5, <2>2
    <2>4. Saturating(t * Mib) > b - Mib
      BY <1>1, <1>5, <2>3 DEF Saturating, Lesser
    <2>5. Saturating(t * Mib) \in Nat
      BY <1>5, InWidth, Widths
    <2> QED
      BY <1>1, <1>4, <2>4, <2>5 DEF Narrow, Lesser
  <1> QED
    BY <1>4, <1>6, <1>7 DEF t

\* AdvertisedIsGranted: what GetServiceInfo tells is what calls get (limits.rs
\* to_proto).
LEMMA ToldIsGranted == env \in Settings => AdvertisedIsGranted
  <1> SUFFICES ASSUME env \in Settings PROVE AdvertisedIsGranted
    OBVIOUS
  <1> DEFINE limits == FromEnv(env)
             told == ServiceInfo
             o == [NoPreference EXCEPT !.document = told.document, !.uncompressed = told.uncompressed]
             call == Resolve(limits, o)
  <1>1. limits.max_document \in 0..Word64 - 1 /\ limits.max_uncompressed \in 0..Word64 - 1
    BY Sizes
  <1> HIDE DEF limits
  <1>2. /\ told.document = AdvertisedMib(limits.max_document)
        /\ told.uncompressed = AdvertisedMib(limits.max_uncompressed)
    BY DEF ServiceInfo, Advertised, limits
  <1> HIDE DEF told
  <1>3. o.document = told.document /\ o.uncompressed = told.uncompressed
    BY DEF NoPreference
  <1> HIDE DEF o
  <1>4. /\ call.max_document = Narrow(told.document, limits.max_document, Mib)
        /\ call.max_uncompressed = Narrow(told.uncompressed, limits.max_uncompressed, Mib)
    BY <1>3 DEF Resolve
  <1> HIDE DEF call
  <1>5. /\ limits.max_document >= Mib => told.document * Mib <= limits.max_document
        /\ told.document < Word32 - 1 => call.max_document > limits.max_document - Mib
    BY <1>1, <1>2, <1>4, OneSize
  <1>6. /\ limits.max_uncompressed >= Mib => told.uncompressed * Mib <= limits.max_uncompressed
        /\ told.uncompressed < Word32 - 1 => call.max_uncompressed > limits.max_uncompressed - Mib
    BY <1>1, <1>2, <1>4, OneSize
  <1> QED
    BY <1>5, <1>6 DEF AdvertisedIsGranted, limits, told, o, call

-----------------------------------------------------------------------------
(* The behaviours.                                                         *)

\* The invariant: the environment is one operators set, and the options are
\* what a call can ask for.
LimitsInv == env \in Settings /\ asked \in Options

\* It holds at the start.
LEMMA LimitsStart == Init => LimitsInv
  <1>1. DefaultEnvironment \in Settings /\ NoPreference \in Options
    BY Widths DEF DefaultEnvironment, NoPreference, Settings, Options
  <1>2. Environments \subseteq Settings
    BY LimitsAssumption DEF Settings
  <1> QED
    BY <1>1, <1>2 DEF Init, LimitsInit, LimitsInv

\* And every step keeps it.
LEMMA LimitsStep == LimitsInv /\ [Next]_<<subject, limitVars, hrefVars, dateVars>> => LimitsInv'
  <1>1. ParseOptions \subseteq Options
    BY LimitsAssumption DEF Options
  <1> QED
    BY <1>1 DEF LimitsInv, Next, Ask, limitVars

\* LimitsAgree always holds: whatever the environment says and a call asks
\* for, no call gets more than the process allows and none of its caps is
\* none, the budgets and the backstop hold what the caps allow, and what
\* GetServiceInfo advertises is granted (limits.rs; service.rs with_metrics,
\* into_service).
THEOREM LimitsAlwaysAgree == Spec => []LimitsAgree
  <1>1. LimitsInv => LimitsAgree
    BY CallsAreNarrowed, ProcessFits, ToldIsGranted DEF LimitsInv, LimitsAgree
  <1> QED
    BY LimitsStart, LimitsStep, <1>1, PTL DEF Spec

-----------------------------------------------------------------------------
(* Recursion over a sequence, from its first element to its last.          *)

\* A set that numbers enter one after the other has all of them.
LEMMA CountingUp ==
    ASSUME NEW n \in Nat, NEW G, 0 \in G, \A i \in 1..n : i - 1 \in G => i \in G
    PROVE  \A i \in 0..n : i \in G
  <1> DEFINE Missing == {i \in 0..n : i \notin G}
  <1> SUFFICES ASSUME Missing # {} PROVE FALSE
    OBVIOUS
  <1>1. Missing \in SUBSET Nat
    OBVIOUS
  <1> HIDE DEF Missing
  <1>2. PICK x \in Missing : \A y \in Missing : ~ (<<y, x>> \in OpToRel(<, Nat))
    BY <1>1, NatLessThanWellFounded, WFMin
  <1>3. x \in 0..n /\ x # 0 /\ x \notin G
    BY DEF Missing
  <1>4. x - 1 \in Missing
    BY <1>3 DEF Missing
  <1>5. <<x - 1, x>> \in OpToRel(<, Nat)
    BY <1>3 DEF OpToRel
  <1> QED
    BY <1>2, <1>4, <1>5

\* A set that sequences enter one element after the other has all of them.
LEMMA GrowingUp ==
    ASSUME NEW T, NEW G, <<>> \in G, \A s \in Seq(T), b \in T : s \in G => Append(s, b) \in G,
           NEW t \in Seq(T)
    PROVE  t \in G
  <1> DEFINE Upto(k) == [i \in 1..k |-> t[i]]
             H == {k \in 0..Len(t) : Upto(k) \in G}
  <1>1. Len(t) \in Nat /\ DOMAIN t = 1..Len(t)
    OBVIOUS
  <1>2. 0 \in H
    <2>1. Upto(0) = <<>>
      BY EmptySeq
    <2> QED
      BY <1>1, <2>1
  <1>3. ASSUME NEW k \in 1..Len(t), k - 1 \in H PROVE k \in H
    <2>1. Upto(k - 1) \in Seq(T) /\ t[k] \in T /\ Upto(k - 1) \in G
      BY <1>1, <1>3
    <2>2. Append(Upto(k - 1), t[k]) \in G
      BY <2>1
    <2>3. Append(Upto(k - 1), t[k]) = Upto(k)
      <3>1. Len(Upto(k - 1)) = k - 1
        BY <1>1
      <3> QED
        BY <1>1, <2>1, <3>1
    <2>4. k \in 0..Len(t)
      BY <1>1
    <2> HIDE DEF Upto
    <2> QED
      BY <2>2, <2>3, <2>4
  <1> HIDE DEF H
  <1>4. \A k \in 0..Len(t) : k \in H
    BY <1>1, <1>2, <1>3, CountingUp
  <1>5. Upto(Len(t)) \in G
    BY <1>1, <1>4 DEF H
  <1>6. Upto(Len(t)) = t
    BY <1>1
  <1> QED
    BY <1>5, <1>6

\* What is computed over s element by element, from a on.
Runs(S, s, a, step, f) ==
    /\ f \in [0..Len(s) -> S]
    /\ f[0] = a
    /\ \A i \in 1..Len(s) : f[i] = step[<<i, f[i - 1], s[i]>>]

\* There is something that is computed so.
LEMMA RunExists ==
    ASSUME NEW T, NEW s \in Seq(T), NEW S, NEW a \in S, NEW step \in [Nat \X S \X T -> S]
    PROVE  \E f : Runs(S, s, a, step, f)
  <1> DEFINE Upto(k, f) == /\ f \in [0..k -> S] /\ f[0] = a
                           /\ \A i \in 1..k : f[i] = step[<<i, f[i - 1], s[i]>>]
             G == {k \in 0..Len(s) : \E f : Upto(k, f)}
  <1>1. Len(s) \in Nat /\ \A i \in 1..Len(s) : s[i] \in T
    OBVIOUS
  <1>2. 0 \in G
    <2>1. Upto(0, [i \in 0..0 |-> a])
      OBVIOUS
    <2>2. 0 \in 0..Len(s)
      BY <1>1
    <2> HIDE DEF Upto
    <2> QED
      BY <2>1, <2>2
  <1>3. ASSUME NEW k \in 1..Len(s), k - 1 \in G PROVE k \in G
    <2>1. PICK f : Upto(k - 1, f)
      BY <1>3
    <2> DEFINE g == [i \in 0..k |-> IF i = k THEN step[<<k, f[k - 1], s[k]>>] ELSE f[i]]
    <2>2. k \in Nat /\ k >= 1 /\ f[k - 1] \in S /\ s[k] \in T
      BY <1>1, <2>1
    <2>3. step[<<k, f[k - 1], s[k]>>] \in S
      BY <2>2
    <2>4. g \in [0..k -> S] /\ g[0] = a
      BY <2>1, <2>2, <2>3
    <2>5. ASSUME NEW i \in 1..k PROVE g[i] = step[<<i, g[i - 1], s[i]>>]
      <3>1. i - 1 \in 0..k /\ i - 1 # k /\ g[i - 1] = f[i - 1]
        BY <2>2
      <3>2. CASE i = k
        BY <3>1, <3>2
      <3>3. CASE i # k
        <4>1. i \in 1..(k - 1)
          BY <2>2, <3>3
        <4>2. g[i] = f[i] /\ f[i] = step[<<i, f[i - 1], s[i]>>]
          BY <2>1, <3>3, <4>1
        <4> QED
          BY <3>1, <4>2
      <3> QED
        BY <3>2, <3>3
    <2> HIDE DEF g
    <2>6. Upto(k, g)
      BY <2>4, <2>5
    <2>7. k \in 0..Len(s)
      BY <1>1
    <2> HIDE DEF Upto
    <2> QED
      BY <2>6, <2>7
  <1>4. \A k \in 0..Len(s) : k \in G
    <2> HIDE DEF G
    <2> QED
      BY <1>1, <1>2, <1>3, CountingUp
  <1>5. PICK f : Upto(Len(s), f)
    BY <1>1, <1>4
  <1> QED
    BY <1>5 DEF Runs

\* g goes one step further than f.
OneMore(s, b, step, f, g) == g[Len(s) + 1] = step[<<Len(s) + 1, f[Len(s)], b>>]

\* One element more is one step more.
LEMMA RunExtends ==
    ASSUME NEW T, NEW s \in Seq(T), NEW b \in T, NEW S, NEW a \in S, NEW step,
           NEW f, Runs(S, s, a, step, f), NEW t, t = Append(s, b), NEW g, Runs(S, t, a, step, g)
    PROVE  OneMore(s, b, step, f, g)
  <1> DEFINE G == {i \in 0..Len(s) : g[i] = f[i]}
             n == Len(s)
  <1>1. /\ n \in Nat /\ Len(t) = n + 1 /\ t[n + 1] = b
        /\ \A i \in 1..n : t[i] = s[i]
    OBVIOUS
  <1> HIDE DEF n
  <1>2. 0 \in G
    BY <1>1 DEF Runs, n
  <1>3. ASSUME NEW i \in 1..n, i - 1 \in G PROVE i \in G
    <2>1. g[i] = step[<<i, g[i - 1], t[i]>>] /\ f[i] = step[<<i, f[i - 1], s[i]>>]
      <3>1. i \in 1..Len(t)
        BY <1>1
      <3> QED
        BY <3>1 DEF Runs, n
    <2>2. g[i - 1] = f[i - 1] /\ t[i] = s[i] /\ i \in 0..n
      BY <1>1, <1>3
    <2> QED
      BY <2>1, <2>2 DEF n
  <1>4. \A i \in 0..n : i \in G
    <2> HIDE DEF G
    <2> QED
      BY <1>1, <1>2, <1>3, CountingUp
  <1>5. g[n + 1] = step[<<n + 1, g[(n + 1) - 1], t[n + 1]>>]
    <2>1. n + 1 \in 1..Len(t)
      BY <1>1
    <2> QED
      BY <2>1 DEF Runs
  <1>6. (n + 1) - 1 = n /\ g[n] = f[n]
    BY <1>1, <1>4
  <1> QED
    BY <1>1, <1>4, <1>5, <1>6 DEF n, OneMore

\* A function of the numbers from 1 on is a sequence.
LEMMA IsSequence ==
    ASSUME NEW S, NEW n \in Nat, NEW q \in [1..n -> S]
    PROVE  q \in Seq(S) /\ Len(q) = n
  OBVIOUS

\* What goes on by the steps as long as it has the type has it all along.
LEMMA RunFound ==
    ASSUME NEW T, NEW s \in Seq(T), NEW S, NEW a \in S, NEW step \in [Nat \X S \X T -> S],
           NEW P, P = [i \in 0..Len(s) |-> P[i]], P[0] = a,
           \A i \in 1..Len(s) : P[i - 1] \in S => P[i] = step[<<i, P[i - 1], s[i]>>]
    PROVE  Runs(S, s, a, step, P)
  <1> DEFINE G == {i \in 0..Len(s) : P[i] \in S}
  <1>1. Len(s) \in Nat /\ \A i \in 1..Len(s) : s[i] \in T
    OBVIOUS
  <1>2. 0 \in G
    BY <1>1
  <1>3. ASSUME NEW i \in 1..Len(s), i - 1 \in G PROVE i \in G
    <2>1. i \in Nat /\ i \in 0..Len(s) /\ P[i - 1] \in S /\ s[i] \in T
      BY <1>1, <1>3
    <2>2. step[<<i, P[i - 1], s[i]>>] \in S
      BY <2>1
    <2> QED
      BY <2>1, <2>2
  <1>4. \A i \in 0..Len(s) : i \in G
    <2> HIDE DEF G
    <2> QED
      BY <1>1, <1>2, <1>3, CountingUp
  <1>5. P \in [0..Len(s) -> S]
    BY <1>4
  <1>6. ASSUME NEW i \in 1..Len(s) PROVE P[i] = step[<<i, P[i - 1], s[i]>>]
    <2>1. i - 1 \in 0..Len(s)
      BY <1>1
    <2> QED
      BY <1>4, <2>1
  <1> QED
    BY <1>5, <1>6 DEF Runs

\* c is q after p.
Joins(c, p, q, S) ==
    /\ c \in Seq(S) /\ Len(c) = Len(p) + Len(q) /\ DOMAIN c = 1..(Len(p) + Len(q))
    /\ \A i \in 1..(Len(p) + Len(q)) : c[i] = IF i <= Len(p) THEN p[i] ELSE q[i - Len(p)]

\* What a sequence after another is.
LEMMA Concat ==
    ASSUME NEW S, NEW p \in Seq(S), NEW q \in Seq(S), NEW c, c = p \o q
    PROVE  Joins(c, p, q, S)
  BY DEF Joins

\* What is appended to two is appended to the last.
AppendsLast(p, q, x) == Append(p \o q, x) = p \o Append(q, x)

\* It always is.
LEMMA ConcatAppend ==
    ASSUME NEW S, NEW p \in Seq(S), NEW q \in Seq(S), NEW x \in S
    PROVE  AppendsLast(p, q, x)
  <1>1. PICK c, d, e, f : c = Append(e, x) /\ d = Append(q, x) /\ e = p \o q /\ f = p \o d
    OBVIOUS
  <1>2. /\ d \in Seq(S) /\ Len(d) = Len(q) + 1 /\ Len(q) \in Nat /\ Len(p) \in Nat
        /\ d[Len(q) + 1] = x /\ \A i \in 1..Len(q) : d[i] = q[i]
    BY <1>1
  <1>3. Joins(e, p, q, S)
    BY <1>1, Concat
  <1>4. /\ e \in Seq(S) /\ Len(e) = Len(p) + Len(q)
        /\ \A i \in 1..(Len(p) + Len(q)) : e[i] = IF i <= Len(p) THEN p[i] ELSE q[i - Len(p)]
    BY <1>3 DEF Joins
  <1>5. /\ c \in Seq(S) /\ Len(c) = Len(e) + 1
        /\ c[Len(e) + 1] = x /\ \A i \in 1..Len(e) : c[i] = e[i]
    BY <1>1, <1>4
  <1>6. Joins(f, p, d, S)
    BY <1>1, <1>2, Concat
  <1>7. /\ f \in Seq(S) /\ Len(f) = Len(p) + Len(d)
        /\ \A i \in 1..(Len(p) + Len(d)) : f[i] = IF i <= Len(p) THEN p[i] ELSE d[i - Len(p)]
    BY <1>6 DEF Joins
  <1>8. Len(c) = Len(f) /\ Len(c) = Len(p) + Len(d)
    BY <1>2, <1>4, <1>5, <1>7
  <1>9. ASSUME NEW i \in 1..Len(c) PROVE c[i] = f[i]
    <2>1. i \in 1..(Len(p) + Len(d)) /\ i \in Nat
      BY <1>2, <1>8
    <2>2. CASE i <= Len(p)
      <3>1. i \in 1..Len(e) /\ i \in 1..(Len(p) + Len(q))
        BY <1>2, <1>4, <2>1, <2>2
      <3> QED
        BY <1>4, <1>5, <1>7, <2>1, <2>2, <3>1
    <2>3. CASE i > Len(p) /\ i <= Len(e)
      <3>1. i - Len(p) \in 1..Len(q) /\ ~(i <= Len(p)) /\ i \in 1..Len(e) /\ i \in 1..(Len(p) + Len(q))
        BY <1>2, <1>4, <2>1, <2>3
      <3> QED
        BY <1>2, <1>4, <1>5, <1>7, <2>1, <3>1
    <2>4. CASE i > Len(p) /\ i > Len(e)
      <3>1. i = Len(e) + 1 /\ i - Len(p) = Len(q) + 1 /\ ~(i <= Len(p))
        BY <1>2, <1>4, <1>5, <2>1, <2>4, <1>8
      <3> QED
        BY <1>2, <1>5, <1>7, <2>1, <3>1
    <2> QED
      BY <1>2, <1>4, <2>1, <2>2, <2>3, <2>4
  <1> QED
    BY <1>1, <1>5, <1>7, <1>9, <1>8, SeqEqual DEF AppendsLast

-----------------------------------------------------------------------------
(* Split: the pieces of a string.                                          *)

\* Sequences of pieces; there always is one.
PiecesOf(T) == Seq(Seq(T)) \ {<<>>}

\* A piece with a byte more, or a piece more.
Grown(pieces, byte) ==
    IF IsSeparator(byte) THEN Append(pieces, <<>>)
    ELSE [pieces EXCEPT ![Len(pieces)] = Append(@, byte)]

\* Both are pieces.
LEMMA GrownPieces ==
    ASSUME NEW T, NEW pieces \in PiecesOf(T), NEW b \in T
    PROVE  Grown(pieces, b) \in PiecesOf(T)
  <1>1. /\ pieces \in Seq(Seq(T)) /\ Len(pieces) \in Nat \ {0}
        /\ DOMAIN pieces = 1..Len(pieces)
    BY EmptySeq DEF PiecesOf
  <1>2. CASE IsSeparator(b)
    <2>1. <<>> \in Seq(T)
      OBVIOUS
    <2>2. Append(pieces, <<>>) \in Seq(Seq(T)) /\ Len(Append(pieces, <<>>)) = Len(pieces) + 1
      BY <1>1, <2>1
    <2>3. Append(pieces, <<>>) # <<>>
      BY <1>1, <2>2
    <2> QED
      BY <1>2, <2>2, <2>3 DEF Grown, PiecesOf
  <1>3. CASE ~IsSeparator(b)
    <2>1. pieces[Len(pieces)] \in Seq(T)
      BY <1>1
    <2>2. Append(pieces[Len(pieces)], b) \in Seq(T)
      BY <2>1
    <2> DEFINE q == [pieces EXCEPT ![Len(pieces)] = Append(@, b)]
    <2>3. q \in Seq(Seq(T)) /\ Len(q) = Len(pieces)
      <3>1. \A i \in 1..Len(pieces) : pieces[i] \in Seq(T)
        BY <1>1
      <3>2. PICK last \in Seq(T) : last = Append(pieces[Len(pieces)], b)
        BY <2>2
      <3>3. q \in [1..Len(pieces) -> Seq(T)]
        BY <1>1, <3>1, <3>2
      <3> QED
        BY <1>1, <3>3, IsSequence
    <2>4. q # <<>>
      BY <1>1, <2>3
    <2> QED
      BY <1>3, <2>3, <2>4 DEF Grown, PiecesOf
  <1> QED
    BY <1>2, <1>3

\* The steps of Split.
SplitSteps(T) == [x \in Nat \X PiecesOf(T) \X T |-> Grown(x[2], x[3])]

\* What Split computes on the way.
IsSplit(s, P) ==
    P = [i \in 0..Len(s) |->
            IF i = 0 THEN <<<<>>>>
            ELSE IF IsSeparator(s[i]) THEN Append(P[i - 1], <<>>)
            ELSE [P[i - 1] EXCEPT ![Len(P[i - 1])] = Append(@, s[i])]]

\* Split goes one byte after the other.
LEMMA SplitRuns ==
    ASSUME NEW T, NEW s \in Seq(T)
    PROVE  \E f : Runs(PiecesOf(T), s, <<<<>>>>, SplitSteps(T), f) /\ Split(s) = f[Len(s)]
  <1> DEFINE S == PiecesOf(T)
             step == SplitSteps(T)
             P == CHOOSE P : IsSplit(s, P)
  <1>1. Len(s) \in Nat /\ \A i \in 1..Len(s) : s[i] \in T
    OBVIOUS
  <1>2. <<<<>>>> \in S
    <2>1. <<>> \in Seq(T)
      OBVIOUS
    <2>2. <<<<>>>> \in Seq(Seq(T)) /\ <<<<>>>> # <<>>
      BY <2>1
    <2> QED
      BY <2>2 DEF PiecesOf
  <1>3. \A i \in Nat, p \in S, b \in T : step[<<i, p, b>>] = Grown(p, b) /\ Grown(p, b) \in S
    BY GrownPieces DEF SplitSteps
  <1>4. step \in [Nat \X S \X T -> S]
    BY GrownPieces DEF SplitSteps
  <1>5. Split(s) = P[Len(s)]
    BY DEF Split, IsSplit
  <1> HIDE DEF S, step, P
  <1>6. PICK f : Runs(S, s, <<<<>>>>, step, f)
    BY <1>2, <1>4, RunExists
  <1>7. IsSplit(s, f)
    <2>1. f \in [0..Len(s) -> S] /\ f[0] = <<<<>>>> /\ \A i \in 1..Len(s) : f[i] = step[<<i, f[i - 1], s[i]>>]
      BY <1>6 DEF Runs
    <2>2. ASSUME NEW i \in 0..Len(s), i # 0 PROVE f[i] = Grown(f[i - 1], s[i])
      <3>1. i \in 1..Len(s) /\ i \in Nat /\ f[i - 1] \in S /\ s[i] \in T
        BY <1>1, <2>1, <2>2
      <3> QED
        BY <1>3, <2>1, <3>1
    <2> QED
      BY <2>1, <2>2 DEF IsSplit, Grown
  <1>8. IsSplit(s, P)
    BY <1>7 DEF P
  <1>9. Runs(S, s, <<<<>>>>, step, P)
    <2>1. P[0] = <<<<>>>> /\ \A i \in 1..Len(s) : P[i] = Grown(P[i - 1], s[i])
      <3>1. 0 \in 0..Len(s) /\ \A i \in 1..Len(s) : i \in 0..Len(s) /\ i # 0
        BY <1>1
      <3> QED
        BY <1>8, <3>1 DEF IsSplit, Grown
    <2>2. ASSUME NEW i \in 1..Len(s), P[i - 1] \in S PROVE P[i] = step[<<i, P[i - 1], s[i]>>]
      BY <1>1, <1>3, <2>1, <2>2
    <2>3. P = [i \in 0..Len(s) |-> P[i]]
      BY <1>8 DEF IsSplit
    <2> QED
      BY <1>2, <1>4, <2>1, <2>2, <2>3, RunFound
  <1> QED
    BY <1>5, <1>9 DEF S, step

\* What Split makes of a string, and of one with a byte more.
LEMMA SplitGrows ==
    ASSUME NEW T, NEW s \in Seq(T)
    PROVE  /\ Split(s) \in PiecesOf(T)
           /\ \A b \in T : Split(Append(s, b)) = Grown(Split(s), b)
  <1>1. Len(s) \in Nat
    OBVIOUS
  <1>2. PICK f : Runs(PiecesOf(T), s, <<<<>>>>, SplitSteps(T), f) /\ Split(s) = f[Len(s)]
    BY SplitRuns
  <1>3. Split(s) \in PiecesOf(T)
    BY <1>1, <1>2 DEF Runs
  <1>4. ASSUME NEW b \in T PROVE Split(Append(s, b)) = Grown(Split(s), b)
    <2>1. Append(s, b) \in Seq(T) /\ Len(Append(s, b)) = Len(s) + 1
      OBVIOUS
    <2>2. PICK t : t = Append(s, b)
      OBVIOUS
    <2>3. PICK g : Runs(PiecesOf(T), t, <<<<>>>>, SplitSteps(T), g) /\ Split(t) = g[Len(t)]
      BY <2>1, <2>2, SplitRuns
    <2>4. <<<<>>>> \in PiecesOf(T)
      <3>1. 0 \in 0..Len(s)
        BY <1>1
      <3> QED
        BY <1>2, <3>1 DEF Runs
    <2>5. OneMore(s, b, SplitSteps(T), f, g)
      BY <1>2, <2>2, <2>3, <2>4, RunExtends
    <2>6. SplitSteps(T)[<<Len(s) + 1, Split(s), b>>] = Grown(Split(s), b)
      BY <1>1, <1>3 DEF SplitSteps
    <2> QED
      BY <1>2, <2>1, <2>2, <2>3, <2>5, <2>6 DEF OneMore
  <1> QED
    BY <1>3, <1>4

\* The empty string is one empty piece.
LEMMA SplitEmpty == Split(<<>>) = <<<<>>>>
  <1>1. <<>> \in Seq({}) /\ Len(<<>>) = 0
    OBVIOUS
  <1>2. PICK f : Runs(PiecesOf({}), <<>>, <<<<>>>>, SplitSteps({}), f) /\ Split(<<>>) = f[Len(<<>>)]
    BY <1>1, SplitRuns
  <1> QED
    BY <1>1, <1>2 DEF Runs

-----------------------------------------------------------------------------
(* Walk: the directory after some steps.                                   *)

\* Where a walk over the paths of T is, or that it left.
Places(T) == {Ok(path) : path \in Seq(T)} \cup {Err("traversal")}

\* One step of normalize.
Stepped(at, piece) ==
    IF at.kind # "entry" \/ piece \in {<<>>, Dot} THEN at
    ELSE IF piece = DotDot THEN IF at.path = <<>> THEN Err("traversal") ELSE Ok(ParentDir(at.path))
    ELSE Ok(Append(at.path, piece))

\* The directory above one is one.
LEMMA ParentPath ==
    ASSUME NEW T, NEW path \in Seq(T)
    PROVE  /\ ParentDir(path) \in Seq(T)
           /\ path # <<>> => /\ Len(ParentDir(path)) = Len(path) - 1
                             /\ \A i \in DOMAIN ParentDir(path) : i \in DOMAIN path /\ ParentDir(path)[i] = path[i]
  <1>1. CASE path = <<>>
    BY <1>1 DEF ParentDir
  <1>2. CASE path # <<>>
    <2>1. Len(path) \in Nat \ {0} /\ DOMAIN path = 1..Len(path)
      BY <1>2, EmptySeq
    <2>2. ParentDir(path) = SubSeq(path, 1, Len(path) - 1)
      BY <1>2 DEF ParentDir
    <2>3. ParentDir(path) = [i \in 1..(Len(path) - 1) |-> path[i]]
      BY <2>1, <2>2
    <2>4. [i \in 1..(Len(path) - 1) |-> path[i]] \in [1..(Len(path) - 1) -> T]
      BY <2>1
    <2> QED
      BY <2>1, <2>3, <2>4, IsSequence
  <1> QED
    BY <1>1, <1>2

\* A step leads to a place.
LEMMA SteppedPlace ==
    ASSUME NEW T, NEW at \in Places(T), NEW piece \in T
    PROVE  Stepped(at, piece) \in Places(T)
  <1>1. CASE at = Err("traversal")
    BY <1>1 DEF Stepped, Places, Err
  <1>2. CASE at # Err("traversal")
    <2>1. PICK path \in Seq(T) : at = Ok(path)
      BY <1>2 DEF Places
    <2>2. at.kind = "entry" /\ at.path = path
      BY <2>1 DEF Ok
    <2>3. ParentDir(path) \in Seq(T) /\ Append(path, piece) \in Seq(T)
      BY ParentPath
    <2>4. Stepped(at, piece) \in {at, Err("traversal"), Ok(ParentDir(path)), Ok(Append(path, piece))}
      BY <2>2 DEF Stepped
    <2> QED
      BY <2>3, <2>4 DEF Places
  <1> QED
    BY <1>1, <1>2

\* The steps of Walk.
WalkSteps(T) == [x \in Nat \X Places(T) \X T |-> Stepped(x[2], x[3])]

\* What Walk computes on the way.
IsWalk(dir, pieces, W) ==
    W = [i \in 0..Len(pieces) |->
             IF i = 0 THEN Ok(dir)
             ELSE IF W[i - 1].kind # "entry" \/ pieces[i] \in {<<>>, Dot} THEN W[i - 1]
             ELSE IF pieces[i] = DotDot
             THEN IF W[i - 1].path = <<>> THEN Err("traversal") ELSE Ok(ParentDir(W[i - 1].path))
             ELSE Ok(Append(W[i - 1].path, pieces[i]))]

\* Walk goes one piece after the other.
LEMMA WalkRuns ==
    ASSUME NEW T, NEW dir \in Seq(T), NEW pieces \in Seq(T)
    PROVE  \E f : Runs(Places(T), pieces, Ok(dir), WalkSteps(T), f) /\ Walk(dir, pieces) = f[Len(pieces)]
  <1> DEFINE S == Places(T)
             step == WalkSteps(T)
             a == Ok(dir)
             W == CHOOSE W : IsWalk(dir, pieces, W)
  <1>1. Len(pieces) \in Nat /\ \A i \in 1..Len(pieces) : pieces[i] \in T
    OBVIOUS
  <1>2. a \in S
    BY DEF Places
  <1>3. \A i \in Nat, p \in S, b \in T : step[<<i, p, b>>] = Stepped(p, b) /\ Stepped(p, b) \in S
    BY SteppedPlace DEF WalkSteps
  <1>4. step \in [Nat \X S \X T -> S]
    BY SteppedPlace DEF WalkSteps
  <1>5. Walk(dir, pieces) = W[Len(pieces)]
    BY DEF Walk, IsWalk
  <1>6. 0 \in 0..Len(pieces) /\ \A i \in 1..Len(pieces) : i \in 0..Len(pieces) /\ i # 0
    BY <1>1
  <1> HIDE DEF S, step, W
  <1>7. PICK f : Runs(S, pieces, a, step, f)
    <2> HIDE DEF a
    <2> QED
      BY <1>2, <1>4, RunExists
  <1>8. IsWalk(dir, pieces, f)
    <2>1. /\ f \in [0..Len(pieces) -> S] /\ f[0] = a
          /\ \A i \in 1..Len(pieces) : f[i] = step[<<i, f[i - 1], pieces[i]>>]
      BY <1>7 DEF Runs
    <2>2. ASSUME NEW i \in 0..Len(pieces), i # 0 PROVE f[i] = Stepped(f[i - 1], pieces[i])
      <3>1. i \in 1..Len(pieces) /\ i \in Nat /\ f[i - 1] \in S /\ pieces[i] \in T
        BY <1>1, <2>1, <2>2
      <3> QED
        BY <1>3, <2>1, <3>1
    <2> QED
      BY <2>1, <2>2 DEF IsWalk, Stepped
  <1>9. IsWalk(dir, pieces, W)
    BY <1>8 DEF W
  <1>10. Runs(S, pieces, a, step, W)
    <2>1. W[0] = a /\ \A i \in 1..Len(pieces) : W[i] = Stepped(W[i - 1], pieces[i])
      BY <1>9, <1>6 DEF IsWalk, Stepped
    <2>2. ASSUME NEW i \in 1..Len(pieces), W[i - 1] \in S PROVE W[i] = step[<<i, W[i - 1], pieces[i]>>]
      BY <1>1, <1>3, <2>1, <2>2
    <2>3. W = [i \in 0..Len(pieces) |-> W[i]]
      BY <1>9 DEF IsWalk
    <2> HIDE DEF a
    <2> QED
      BY <1>2, <1>4, <2>1, <2>2, <2>3, RunFound
  <1> QED
    BY <1>5, <1>10 DEF S, step

\* Where a walk leads, and one with a piece more.
LEMMA WalkGoesOn ==
    ASSUME NEW T, NEW dir \in Seq(T), NEW pieces \in Seq(T)
    PROVE  /\ Walk(dir, pieces) \in Places(T)
           /\ Walk(dir, <<>>) = Ok(dir)
           /\ \A piece \in T : Walk(dir, Append(pieces, piece)) = Stepped(Walk(dir, pieces), piece)
  <1>1. Len(pieces) \in Nat
    OBVIOUS
  <1>2. PICK f : Runs(Places(T), pieces, Ok(dir), WalkSteps(T), f) /\ Walk(dir, pieces) = f[Len(pieces)]
    BY WalkRuns
  <1>3. Walk(dir, pieces) \in Places(T)
    BY <1>1, <1>2 DEF Runs
  <1>4. Walk(dir, <<>>) = Ok(dir)
    <2>1. <<>> \in Seq(T) /\ Len(<<>>) = 0
      OBVIOUS
    <2>2. PICK none : none = <<>>
      OBVIOUS
    <2>3. PICK g : Runs(Places(T), none, Ok(dir), WalkSteps(T), g) /\ Walk(dir, none) = g[Len(none)]
      BY <2>1, <2>2, WalkRuns
    <2> QED
      BY <2>1, <2>2, <2>3 DEF Runs
  <1>5. ASSUME NEW piece \in T PROVE Walk(dir, Append(pieces, piece)) = Stepped(Walk(dir, pieces), piece)
    <2>1. Append(pieces, piece) \in Seq(T) /\ Len(Append(pieces, piece)) = Len(pieces) + 1
      OBVIOUS
    <2>2. PICK t : t = Append(pieces, piece)
      OBVIOUS
    <2>3. PICK g : Runs(Places(T), t, Ok(dir), WalkSteps(T), g) /\ Walk(dir, t) = g[Len(t)]
      BY <2>1, <2>2, WalkRuns
    <2>4. Ok(dir) \in Places(T)
      BY DEF Places
    <2>5. OneMore(pieces, piece, WalkSteps(T), f, g)
      BY <1>2, <2>2, <2>3, <2>4, RunExtends
    <2>6. WalkSteps(T)[<<Len(pieces) + 1, Walk(dir, pieces), piece>>] = Stepped(Walk(dir, pieces), piece)
      BY <1>1, <1>3 DEF WalkSteps
    <2> QED
      BY <1>2, <2>1, <2>2, <2>3, <2>5, <2>6 DEF OneMore
  <1> QED
    BY <1>3, <1>4, <1>5

-----------------------------------------------------------------------------
(* Spelled and PathBytes: a path as a string, and its length.              *)

\* What stands between two segments.
Between(n) == IF n > 1 THEN <<"/">> ELSE <<>>

\* The steps of Spelled, and what it computes on the way.
SpellSteps(T) == [x \in Nat \X Seq(T) \X Seq(T) |-> x[2] \o Between(x[1]) \o x[3]]
IsText(path, P) ==
    P = [i \in 0..Len(path) |->
            IF i = 0 THEN <<>> ELSE P[i - 1] \o (IF i > 1 THEN <<"/">> ELSE <<>>) \o path[i]]

\* A text with a segment more is a text.
LEMMA SpelledOn ==
    ASSUME NEW T, "/" \in T, NEW n \in Nat, NEW text \in Seq(T), NEW segment \in Seq(T)
    PROVE  text \o Between(n) \o segment \in Seq(T)
  <1>1. Between(n) \in Seq(T)
    BY DEF Between
  <1>2. text \o Between(n) \in Seq(T)
    BY <1>1
  <1> QED
    BY <1>2

\* Spelled goes one segment after the other.
LEMMA SpelledRuns ==
    ASSUME NEW T, "/" \in T, NEW path \in Seq(Seq(T))
    PROVE  \E f : Runs(Seq(T), path, <<>>, SpellSteps(T), f) /\ Spelled(path) = f[Len(path)]
  <1> DEFINE S == Seq(T)
             step == SpellSteps(T)
             P == CHOOSE P : IsText(path, P)
  <1>1. Len(path) \in Nat /\ \A i \in 1..Len(path) : path[i] \in S
    OBVIOUS
  <1>2. <<>> \in S
    OBVIOUS
  <1>3. \A i \in Nat, p \in S, b \in S : /\ step[<<i, p, b>>] = p \o Between(i) \o b
                                         /\ p \o Between(i) \o b \in S
    BY SpelledOn DEF SpellSteps
  <1>4. step \in [Nat \X S \X S -> S]
    BY SpelledOn DEF SpellSteps
  <1>5. Spelled(path) = P[Len(path)]
    BY DEF Spelled, IsText
  <1>6. 0 \in 0..Len(path) /\ \A i \in 1..Len(path) : i \in 0..Len(path) /\ i # 0
    BY <1>1
  <1>7. path \in Seq(S)
    OBVIOUS
  <1> HIDE DEF S, step, P
  <1>8. PICK f : Runs(S, path, <<>>, step, f)
    BY <1>2, <1>4, <1>7, RunExists
  <1>9. IsText(path, f)
    <2>1. /\ f \in [0..Len(path) -> S] /\ f[0] = <<>>
          /\ \A i \in 1..Len(path) : f[i] = step[<<i, f[i - 1], path[i]>>]
      BY <1>8 DEF Runs
    <2>2. ASSUME NEW i \in 0..Len(path), i # 0 PROVE f[i] = f[i - 1] \o Between(i) \o path[i]
      <3>1. i \in 1..Len(path) /\ i \in Nat /\ f[i - 1] \in S /\ path[i] \in S
        BY <1>1, <2>1, <2>2
      <3> QED
        BY <1>3, <2>1, <3>1
    <2> QED
      BY <2>1, <2>2 DEF IsText, Between
  <1>10. IsText(path, P)
    BY <1>9 DEF P
  <1>11. Runs(S, path, <<>>, step, P)
    <2>1. P[0] = <<>> /\ \A i \in 1..Len(path) : P[i] = P[i - 1] \o Between(i) \o path[i]
      BY <1>10, <1>6 DEF IsText, Between
    <2>2. ASSUME NEW i \in 1..Len(path), P[i - 1] \in S PROVE P[i] = step[<<i, P[i - 1], path[i]>>]
      <3>1. i \in Nat /\ path[i] \in S
        BY <1>1
      <3> QED
        BY <1>3, <2>1, <2>2, <3>1
    <2>3. P = [i \in 0..Len(path) |-> P[i]]
      BY <1>10 DEF IsText
    <2> QED
      BY <1>2, <1>4, <1>7, <2>1, <2>2, <2>3, RunFound
  <1> QED
    BY <1>5, <1>11 DEF S, step

\* How a path is spelled, and one with a segment more.
LEMMA SpelledGrows ==
    ASSUME NEW T, "/" \in T, NEW path \in Seq(Seq(T))
    PROVE  /\ Spelled(path) \in Seq(T)
           /\ Spelled(<<>>) = <<>>
           /\ \A x \in Seq(T) : Spelled(Append(path, x)) = Spelled(path) \o Between(Len(path) + 1) \o x
  <1>1. Len(path) \in Nat /\ <<>> \in Seq(T)
    OBVIOUS
  <1>2. PICK f : Runs(Seq(T), path, <<>>, SpellSteps(T), f) /\ Spelled(path) = f[Len(path)]
    BY SpelledRuns
  <1>3. Spelled(path) \in Seq(T)
    BY <1>1, <1>2 DEF Runs
  <1>4. Spelled(<<>>) = <<>>
    <2>1. <<>> \in Seq(Seq(T)) /\ Len(<<>>) = 0
      OBVIOUS
    <2>2. PICK none : none = <<>>
      OBVIOUS
    <2>3. PICK g : Runs(Seq(T), none, <<>>, SpellSteps(T), g) /\ Spelled(none) = g[Len(none)]
      BY <2>1, <2>2, SpelledRuns
    <2> QED
      BY <2>1, <2>2, <2>3 DEF Runs
  <1>5. ASSUME NEW x \in Seq(T) PROVE Spelled(Append(path, x)) = Spelled(path) \o Between(Len(path) + 1) \o x
    <2>1. Append(path, x) \in Seq(Seq(T)) /\ Len(Append(path, x)) = Len(path) + 1
      OBVIOUS
    <2>2. PICK t : t = Append(path, x)
      OBVIOUS
    <2>3. PICK g : Runs(Seq(T), t, <<>>, SpellSteps(T), g) /\ Spelled(t) = g[Len(t)]
      BY <2>1, <2>2, SpelledRuns
    <2>4. OneMore(path, x, SpellSteps(T), f, g)
      BY <1>1, <1>2, <2>2, <2>3, RunExtends
    <2>5. SpellSteps(T)[<<Len(path) + 1, Spelled(path), x>>] = Spelled(path) \o Between(Len(path) + 1) \o x
      <3>1. PICK n \in Nat, text \in Seq(T) : n = Len(path) + 1 /\ text = Spelled(path)
        BY <1>1, <1>3
      <3>2. SpellSteps(T)[<<n, text, x>>] = text \o Between(n) \o x
        BY DEF SpellSteps
      <3> QED
        BY <3>1, <3>2
    <2> QED
      BY <1>2, <2>1, <2>2, <2>3, <2>4, <2>5 DEF OneMore
  <1> QED
    BY <1>3, <1>4, <1>5

\* The steps of PathBytes, and what it computes on the way.
ByteSteps(T) == [x \in Nat \X Nat \X Seq(T) |-> x[2] + Len(x[3]) + (IF x[1] > 1 THEN 1 ELSE 0)]
IsSum(path, P) ==
    P = [i \in 0..Len(path) |->
            IF i = 0 THEN 0 ELSE P[i - 1] + Len(path[i]) + (IF i > 1 THEN 1 ELSE 0)]

\* PathBytes goes one segment after the other.
LEMMA BytesRun ==
    ASSUME NEW T, NEW path \in Seq(Seq(T))
    PROVE  \E f : Runs(Nat, path, 0, ByteSteps(T), f) /\ PathBytes(path) = f[Len(path)]
  <1> DEFINE S == Seq(T)
             step == ByteSteps(T)
             P == CHOOSE P : IsSum(path, P)
  <1>1. Len(path) \in Nat /\ \A i \in 1..Len(path) : path[i] \in S
    OBVIOUS
  <1>2. ASSUME NEW i \in Nat, NEW p \in Nat, NEW b \in S
        PROVE  /\ step[<<i, p, b>>] = p + Len(b) + (IF i > 1 THEN 1 ELSE 0)
               /\ p + Len(b) + (IF i > 1 THEN 1 ELSE 0) \in Nat
    <2>1. <<i, p, b>> \in Nat \X Nat \X Seq(T)
      OBVIOUS
    <2>2. Len(b) \in Nat
      OBVIOUS
    <2>3. step[<<i, p, b>>] = p + Len(b) + (IF i > 1 THEN 1 ELSE 0)
      BY <2>1 DEF ByteSteps
    <2> QED
      BY <2>2, <2>3
  <1>3. step \in [Nat \X Nat \X S -> Nat]
    BY DEF ByteSteps
  <1>4. PathBytes(path) = P[Len(path)]
    BY DEF PathBytes, IsSum
  <1>5. 0 \in 0..Len(path) /\ \A i \in 1..Len(path) : i \in 0..Len(path) /\ i # 0
    BY <1>1
  <1>6. path \in Seq(S) /\ 0 \in Nat
    OBVIOUS
  <1> HIDE DEF S, step, P
  <1>7. PICK f : Runs(Nat, path, 0, step, f)
    BY <1>3, <1>6, RunExists
  <1>8. IsSum(path, f)
    <2>1. /\ f \in [0..Len(path) -> Nat] /\ f[0] = 0
          /\ \A i \in 1..Len(path) : f[i] = step[<<i, f[i - 1], path[i]>>]
      BY <1>7 DEF Runs
    <2>2. ASSUME NEW i \in 0..Len(path), i # 0
          PROVE  f[i] = f[i - 1] + Len(path[i]) + (IF i > 1 THEN 1 ELSE 0)
      <3>1. i \in 1..Len(path) /\ i \in Nat /\ i - 1 \in 0..Len(path)
        BY <1>1, <2>2
      <3>2. i \in 1..Len(path) /\ i \in Nat /\ f[i - 1] \in Nat /\ path[i] \in S
        BY <1>1, <2>1, <3>1
      <3> QED
        BY <1>2, <2>1, <3>2
    <2> QED
      BY <2>1, <2>2 DEF IsSum
  <1>9. IsSum(path, P)
    BY <1>8 DEF P
  <1>10. Runs(Nat, path, 0, step, P)
    <2>1. P[0] = 0 /\ \A i \in 1..Len(path) : P[i] = P[i - 1] + Len(path[i]) + (IF i > 1 THEN 1 ELSE 0)
      BY <1>9, <1>5 DEF IsSum
    <2>2. ASSUME NEW i \in 1..Len(path), P[i - 1] \in Nat PROVE P[i] = step[<<i, P[i - 1], path[i]>>]
      <3>1. i \in Nat /\ path[i] \in S
        BY <1>1
      <3> QED
        BY <1>2, <2>1, <2>2, <3>1
    <2>3. P = [i \in 0..Len(path) |-> P[i]]
      BY <1>9 DEF IsSum
    <2> QED
      BY <1>3, <1>6, <2>1, <2>2, <2>3, RunFound
  <1> QED
    BY <1>4, <1>10 DEF step

\* How long a path is, and one with a segment more.
LEMMA BytesGrow ==
    ASSUME NEW T, NEW path \in Seq(Seq(T))
    PROVE  /\ PathBytes(path) \in Nat
           /\ PathBytes(<<>>) = 0
           /\ \A x \in Seq(T) : PathBytes(Append(path, x)) = PathBytes(path) + Len(x) + (IF Len(path) > 0 THEN 1 ELSE 0)
  <1>1. Len(path) \in Nat
    OBVIOUS
  <1>2. PICK f : Runs(Nat, path, 0, ByteSteps(T), f) /\ PathBytes(path) = f[Len(path)]
    BY BytesRun
  <1>3. PathBytes(path) \in Nat
    BY <1>1, <1>2 DEF Runs
  <1>4. PathBytes(<<>>) = 0
    <2>1. <<>> \in Seq(Seq(T)) /\ Len(<<>>) = 0
      OBVIOUS
    <2>2. PICK none : none = <<>>
      OBVIOUS
    <2>3. PICK g : Runs(Nat, none, 0, ByteSteps(T), g) /\ PathBytes(none) = g[Len(none)]
      BY <2>1, <2>2, BytesRun
    <2> QED
      BY <2>1, <2>2, <2>3 DEF Runs
  <1>5. ASSUME NEW x \in Seq(T)
        PROVE  PathBytes(Append(path, x)) = PathBytes(path) + Len(x) + (IF Len(path) > 0 THEN 1 ELSE 0)
    <2>1. Append(path, x) \in Seq(Seq(T)) /\ Len(Append(path, x)) = Len(path) + 1
      OBVIOUS
    <2>2. PICK t : t = Append(path, x)
      OBVIOUS
    <2>3. PICK g : Runs(Nat, t, 0, ByteSteps(T), g) /\ PathBytes(t) = g[Len(t)]
      BY <2>1, <2>2, BytesRun
    <2>4. OneMore(path, x, ByteSteps(T), f, g)
      BY <1>2, <2>2, <2>3, RunExtends
    <2>5. ByteSteps(T)[<<Len(path) + 1, PathBytes(path), x>>] = PathBytes(path) + Len(x) + (IF Len(path) + 1 > 1 THEN 1 ELSE 0)
      BY <1>1, <1>3 DEF ByteSteps
    <2>6. Len(path) + 1 > 1 <=> Len(path) > 0
      BY <1>1
    <2> QED
      BY <1>2, <2>1, <2>2, <2>3, <2>4, <2>5, <2>6 DEF OneMore
  <1> QED
    BY <1>3, <1>4, <1>5

-----------------------------------------------------------------------------
(* What Split and Spelled do.                                              *)

\* What pieces are made of: bytes of the string that separate nothing.
OfString(pieces, s) ==
    \A i \in DOMAIN pieces : \A k \in DOMAIN pieces[i] :
        ~IsSeparator(pieces[i][k]) /\ \E j \in DOMAIN s : s[j] = pieces[i][k]

\* The pieces of a string hold its bytes, and no separator.
LEMMA SplitOfString ==
    ASSUME NEW T, NEW s \in Seq(T)
    PROVE  OfString(Split(s), s)
  <1> DEFINE G == {t \in Seq(T) : OfString(Split(t), t)}
  <1>1. <<>> \in G
    <2>1. DOMAIN Split(<<>>) = {1} /\ DOMAIN Split(<<>>)[1] = {} /\ <<>> \in Seq(T)
      BY SplitEmpty
    <2> QED
      BY <2>1 DEF OfString
  <1>2. ASSUME NEW t \in Seq(T), NEW b \in T, t \in G PROVE Append(t, b) \in G
    <2>1. PICK p \in PiecesOf(T) : p = Split(t)
      BY SplitGrows
    <2>2. PICK q : q = Split(Append(t, b))
      OBVIOUS
    <2>3. q = Grown(p, b)
      BY <2>1, <2>2, SplitGrows
    <2>4. PICK u : u = Append(t, b)
      OBVIOUS
    <2>5. /\ u \in Seq(T) /\ u[Len(t) + 1] = b /\ Len(t) + 1 \in DOMAIN u
          /\ \A j \in DOMAIN t : j \in DOMAIN u /\ u[j] = t[j]
      BY <2>4
    <2>6. /\ p \in Seq(Seq(T)) /\ Len(p) \in Nat \ {0} /\ DOMAIN p = 1..Len(p)
          /\ OfString(p, t)
      BY <1>2, <2>1, EmptySeq DEF PiecesOf
    <2>7. OfString(p, u)
      BY <2>5, <2>6 DEF OfString
    <2>8. OfString(q, u)
      <3>1. CASE IsSeparator(b)
        <4>1. q = Append(p, <<>>)
          BY <2>3, <3>1 DEF Grown
        <4>2. \A i \in DOMAIN q : q[i] = <<>> \/ (i \in DOMAIN p /\ q[i] = p[i])
          BY <2>6, <4>1
        <4>3. DOMAIN <<>> = {}
          OBVIOUS
        <4> QED
          BY <2>7, <4>2, <4>3 DEF OfString
      <3>2. CASE ~IsSeparator(b)
        <4>1. q = [p EXCEPT ![Len(p)] = Append(@, b)]
          BY <2>3, <3>2 DEF Grown
        <4>2. DOMAIN q = DOMAIN p /\ q[Len(p)] = Append(p[Len(p)], b) /\ p[Len(p)] \in Seq(T)
              /\ \A i \in DOMAIN p : i # Len(p) => q[i] = p[i]
          BY <2>6, <4>1
        <4>3. PICK w \in Seq(T) : w = p[Len(p)]
          BY <4>2
        <4>4. \A k \in DOMAIN Append(w, b) : Append(w, b)[k] = b \/ (k \in DOMAIN w /\ Append(w, b)[k] = w[k])
          BY <4>3
        <4>5. ASSUME NEW i \in DOMAIN q, NEW k \in DOMAIN q[i]
              PROVE  q[i][k] = b \/ (i \in DOMAIN p /\ k \in DOMAIN p[i] /\ q[i][k] = p[i][k])
          <5>1. CASE i = Len(p)
            BY <4>2, <4>3, <4>4, <4>5, <5>1
          <5>2. CASE i # Len(p)
            BY <4>2, <4>5, <5>2
          <5> QED
            BY <5>1, <5>2
        <4> QED
          BY <2>5, <2>7, <3>2, <4>5 DEF OfString
      <3> QED
        BY <3>1, <3>2
    <2> QED
      BY <2>2, <2>4, <2>5, <2>8
  <1>3. s \in G
    <2> HIDE DEF G
    <2> QED
      BY <1>1, <1>2, GrowingUp
  <1> QED
    BY <1>3

\* Pieces with others before them grow as they do alone.
GrowsApart(p, q, b) == Grown(p \o q, b) = p \o Grown(q, b)

\* What stands before the last piece stays there.
LEMMA GrownEnd ==
    ASSUME NEW T, NEW p \in Seq(Seq(T)), NEW q \in PiecesOf(T), NEW b \in T
    PROVE  GrowsApart(p, q, b)
  <1> SUFFICES Grown(p \o q, b) = p \o Grown(q, b)
    BY DEF GrowsApart
  <1>1. /\ q \in Seq(Seq(T)) /\ Len(q) \in Nat \ {0} /\ DOMAIN q = 1..Len(q) /\ Len(p) \in Nat
        /\ DOMAIN p = 1..Len(p)
    BY EmptySeq DEF PiecesOf
  <1>2. /\ p \o q \in Seq(Seq(T)) /\ Len(p \o q) = Len(p) + Len(q)
        /\ DOMAIN (p \o q) = 1..(Len(p) + Len(q))
        /\ \A i \in 1..(Len(p) + Len(q)) : (p \o q)[i] = IF i <= Len(p) THEN p[i] ELSE q[i - Len(p)]
    BY <1>1
  <1>3. CASE IsSeparator(b)
    <2>1. <<>> \in Seq(T)
      OBVIOUS
    <2>2. Append(p \o q, <<>>) = p \o Append(q, <<>>)
      <3>1. AppendsLast(p, q, <<>>)
        BY <1>1, <2>1, ConcatAppend
      <3> QED
        BY <3>1 DEF AppendsLast
    <2> QED
      BY <1>3, <2>2 DEF Grown
  <1>4. CASE ~IsSeparator(b)
    <2> DEFINE r == [q EXCEPT ![Len(q)] = Append(@, b)]
               w == [(p \o q) EXCEPT ![Len(p \o q)] = Append(@, b)]
    <2>1. /\ r = Grown(q, b) /\ w = Grown(p \o q, b)
      BY <1>4 DEF Grown
    <2>2. r \in Seq(Seq(T)) /\ p \o q \in PiecesOf(T)
      <3>1. p \o q # <<>>
        BY <1>1, <1>2
      <3> QED
        BY <1>2, <2>1, <3>1, GrownPieces DEF PiecesOf
    <2>3. w \in Seq(Seq(T))
      <3>1. PICK c \in PiecesOf(T) : c = p \o q
        BY <2>2
      <3>2. Grown(c, b) \in PiecesOf(T)
        BY GrownPieces
      <3> QED
        BY <2>1, <3>1, <3>2 DEF PiecesOf
    <2>4. DOMAIN r = 1..Len(q) /\ DOMAIN w = 1..(Len(p) + Len(q))
      BY <1>1, <1>2
    <2>5. Len(r) = Len(q) /\ Len(w) = Len(p) + Len(q)
      BY <1>1, <2>2, <2>3, <2>4
    <2>6. ASSUME NEW i \in 1..(Len(p) + Len(q))
          PROVE  w[i] = IF i <= Len(p) THEN p[i] ELSE r[i - Len(p)]
      <3>1. CASE i = Len(p) + Len(q)
        <4>1. w[i] = Append((p \o q)[i], b) /\ ~(i <= Len(p)) /\ i - Len(p) = Len(q)
          BY <1>1, <1>2, <3>1
        <4>2. r[i - Len(p)] = Append(q[i - Len(p)], b)
          BY <1>1, <4>1
        <4>3. (p \o q)[i] = q[i - Len(p)]
          BY <1>2, <4>1
        <4> QED
          BY <4>1, <4>2, <4>3
      <3>2. CASE i # Len(p) + Len(q)
        <4>1. w[i] = (p \o q)[i]
          BY <1>1, <1>2, <3>2
        <4>2. ~(i <= Len(p)) => i - Len(p) \in 1..Len(q) /\ i - Len(p) # Len(q)
          BY <1>1, <3>2
        <4>3. ~(i <= Len(p)) => r[i - Len(p)] = q[i - Len(p)]
          BY <1>1, <4>2
        <4> QED
          BY <1>2, <4>1, <4>3
      <3> QED
        BY <3>1, <3>2
    <2> HIDE DEF r, w
    <2>7. w = p \o r
      <3>1. p \o r \in Seq(Seq(T)) /\ Len(p \o r) = Len(p) + Len(q)
            /\ \A i \in 1..(Len(p) + Len(q)) : (p \o r)[i] = IF i <= Len(p) THEN p[i] ELSE r[i - Len(p)]
        <4>1. PICK c : c = p \o r
          OBVIOUS
        <4>2. Joins(c, p, r, Seq(T))
          BY <2>2, <4>1, Concat
        <4> QED
          BY <2>5, <4>1, <4>2 DEF Joins
      <3>2. \A i \in 1..(Len(p) + Len(q)) : w[i] = (p \o r)[i]
        BY <2>6, <3>1
      <3>3. Len(w) = Len(p \o r) /\ \A i \in 1..Len(w) : w[i] = (p \o r)[i]
        BY <2>5, <3>1, <3>2
      <3> QED
        BY <2>3, <3>1, <3>3, SeqEqual
    <2> QED
      BY <2>1, <2>7
  <1> QED
    BY <1>3, <1>4

\* A separator ends a piece: what is before it and after it is split apart.
LEMMA SplitJoin ==
    ASSUME NEW T, "/" \in T, NEW s \in Seq(T), NEW t \in Seq(T)
    PROVE  Split(s \o <<"/">> \o t) = Split(s) \o Split(t)
  <1> DEFINE Apart(u) == Split(s \o <<"/">> \o u) = Split(s) \o Split(u)
             G == {u \in Seq(T) : Apart(u)}
  <1>1. PICK p \in PiecesOf(T) : p = Split(s)
    BY SplitGrows
  <1>2. <<>> \in G
    <2>1. s \o <<"/">> \o <<>> = Append(s, "/") /\ <<>> \in Seq(T)
      OBVIOUS
    <2>2. Split(Append(s, "/")) = Append(Split(s), <<>>)
      BY SplitGrows DEF Grown, IsSeparator
    <2>3. Append(p, <<>>) = p \o <<<<>>>>
      BY DEF PiecesOf
    <2>4. Split(<<>>) = <<<<>>>>
      BY SplitEmpty
    <2> QED
      BY <1>1, <2>1, <2>2, <2>3, <2>4
  <1>3. ASSUME NEW u \in Seq(T), NEW b \in T, u \in G PROVE Append(u, b) \in G
    <2>1. PICK v \in Seq(T) : v = s \o <<"/">> \o u
      <3>1. <<"/">> \in Seq(T)
        OBVIOUS
      <3>2. s \o <<"/">> \in Seq(T)
        BY <3>1
      <3>3. (s \o <<"/">>) \o u \in Seq(T)
        BY <3>2
      <3> QED
        BY <3>3
    <2>2. s \o <<"/">> \o Append(u, b) = Append(v, b) /\ Append(u, b) \in Seq(T)
      <3>1. <<"/">> \in Seq(T)
        OBVIOUS
      <3>2. s \o <<"/">> \in Seq(T)
        BY <3>1
      <3>3. PICK h \in Seq(T) : h = s \o <<"/">>
        BY <3>2
      <3>4. AppendsLast(h, u, b)
        BY ConcatAppend
      <3> QED
        BY <2>1, <3>3, <3>4 DEF AppendsLast
    <2>3. Split(v) = p \o Split(u)
      BY <1>1, <1>3, <2>1
    <2>4. Split(Append(v, b)) = Grown(Split(v), b) /\ Split(Append(u, b)) = Grown(Split(u), b)
          /\ Split(u) \in PiecesOf(T)
      BY SplitGrows
    <2>5. PICK q \in PiecesOf(T) : q = Split(u)
      BY <2>4
    <2>6. Grown(p \o q, b) = p \o Grown(q, b)
      <3>1. p \in Seq(Seq(T))
        BY DEF PiecesOf
      <3>2. GrowsApart(p, q, b)
        BY <3>1, GrownEnd, Zenon
      <3> QED
        BY <3>2 DEF GrowsApart
    <2> QED
      BY <1>1, <2>2, <2>3, <2>4, <2>5, <2>6
  <1>4. t \in G
    <2> HIDE DEF G
    <2> QED
      BY <1>2, <1>3, GrowingUp
  <1> QED
    BY <1>4

\* A string without a separator is one piece.
LEMMA SplitWord ==
    ASSUME NEW T, NEW s \in Seq(T), \A j \in DOMAIN s : ~IsSeparator(s[j])
    PROVE  Split(s) = <<s>>
  <1> DEFINE G == {t \in Seq(T) : (\A j \in DOMAIN t : ~IsSeparator(t[j])) => Split(t) = <<t>>}
  <1>1. <<>> \in G
    BY SplitEmpty
  <1>2. ASSUME NEW t \in Seq(T), NEW b \in T, t \in G PROVE Append(t, b) \in G
    <2>1. PICK u : u = Append(t, b)
      OBVIOUS
    <2>2. /\ u \in Seq(T) /\ u[Len(t) + 1] = b /\ Len(t) + 1 \in DOMAIN u
          /\ \A j \in DOMAIN t : j \in DOMAIN u /\ u[j] = t[j]
      BY <2>1
    <2>3. ASSUME \A j \in DOMAIN u : ~IsSeparator(u[j]) PROVE Split(u) = <<u>>
      <3>1. ~IsSeparator(b) /\ Split(t) = <<t>>
        BY <1>2, <2>2, <2>3
      <3>2. Split(u) = Grown(<<t>>, b)
        BY <2>1, <3>1, SplitGrows
      <3>3. Grown(<<t>>, b) = [<<t>> EXCEPT ![1] = Append(@, b)]
        BY <3>1 DEF Grown
      <3>4. [<<t>> EXCEPT ![1] = Append(@, b)] = <<Append(t, b)>>
        OBVIOUS
      <3> QED
        BY <2>1, <3>2, <3>3, <3>4
    <2> QED
      BY <2>1, <2>2, <2>3
  <1>3. s \in G
    <2> HIDE DEF G
    <2> QED
      BY <1>1, <1>2, GrowingUp
  <1> QED
    BY <1>3

\* No segment holds a separator.
IsClean(path) == \A i \in DOMAIN path : \A k \in DOMAIN path[i] : ~IsSeparator(path[i][k])

\* What an appended sequence is made of.
LEMMA Appended ==
    ASSUME NEW S, NEW p \in Seq(S), NEW x \in S, NEW q, q = Append(p, x)
    PROVE  /\ q \in Seq(S) /\ Len(q) = Len(p) + 1 /\ Len(p) \in Nat /\ q # <<>>
           /\ Len(p) + 1 \in DOMAIN q /\ q[Len(p) + 1] = x
           /\ \A i \in DOMAIN p : i \in DOMAIN q /\ q[i] = p[i]
           /\ \A i \in DOMAIN q : i = Len(p) + 1 \/ i \in DOMAIN p
  <1>1. q \in Seq(S) /\ Len(q) = Len(p) + 1 /\ Len(p) \in Nat /\ DOMAIN q = 1..(Len(p) + 1) /\ DOMAIN p = 1..Len(p)
    OBVIOUS
  <1>2. q # <<>>
    BY <1>1, EmptySeq
  <1> QED
    BY <1>1, <1>2

\* Split undoes Spelled.
LEMMA SplitSpelled ==
    ASSUME NEW T, "/" \in T, NEW path \in Seq(Seq(T)), IsClean(path), path # <<>>
    PROVE  Split(Spelled(path)) = path
  <1> DEFINE G == {p \in Seq(Seq(T)) : IsClean(p) => p = <<>> \/ Split(Spelled(p)) = p}
  <1>1. <<>> \in G
    OBVIOUS
  <1>2. ASSUME NEW p \in Seq(Seq(T)), NEW x \in Seq(T), p \in G PROVE Append(p, x) \in G
    <2>1. PICK q : q = Append(p, x)
      OBVIOUS
    <2>2. /\ q \in Seq(Seq(T)) /\ Len(p) \in Nat
          /\ Len(p) + 1 \in DOMAIN q /\ q[Len(p) + 1] = x
          /\ \A i \in DOMAIN p : i \in DOMAIN q /\ q[i] = p[i]
      BY <2>1, Appended
    <2>3. ASSUME IsClean(q) PROVE Split(Spelled(q)) = q
      <3>1. IsClean(p) /\ \A k \in DOMAIN x : ~IsSeparator(x[k])
        BY <2>2, <2>3 DEF IsClean
      <3>2. Split(x) = <<x>>
        BY <3>1, SplitWord
      <3>3. Spelled(q) = Spelled(p) \o Between(Len(p) + 1) \o x
        BY <2>1, SpelledGrows
      <3>4. CASE p = <<>>
        <4>1. Spelled(p) = <<>> /\ Between(Len(p) + 1) = <<>>
          BY <3>4, SpelledGrows DEF Between
        <4>2. Spelled(q) = x
          BY <3>3, <4>1
        <4> QED
          BY <2>1, <3>2, <3>4, <4>2
      <3>5. CASE p # <<>>
        <4>1. Between(Len(p) + 1) = <<"/">>
          BY <2>2, <3>5, EmptySeq DEF Between
        <4>2. PICK s \in Seq(T) : s = Spelled(p)
          BY SpelledGrows
        <4>3. Split(s \o <<"/">> \o x) = Split(s) \o Split(x)
          BY SplitJoin
        <4>4. Split(s) = p
          BY <1>2, <3>1, <3>5, <4>2
        <4>5. p \o <<x>> = Append(p, x)
          OBVIOUS
        <4> QED
          BY <2>1, <3>2, <3>3, <4>1, <4>2, <4>3, <4>4, <4>5
      <3> QED
        BY <3>4, <3>5
    <2> QED
      BY <2>1, <2>2, <2>3
  <1>3. path \in G
    <2> HIDE DEF G
    <2> QED
      BY <1>1, <1>2, GrowingUp
  <1> QED
    BY <1>3

\* A path is as long as PathBytes says.
LEMMA SpelledLength ==
    ASSUME NEW T, "/" \in T, NEW path \in Seq(Seq(T))
    PROVE  Len(Spelled(path)) = PathBytes(path)
  <1> DEFINE G == {p \in Seq(Seq(T)) : Len(Spelled(p)) = PathBytes(p)}
  <1>1. <<>> \in G
    <2>1. <<>> \in Seq(Seq(T)) /\ Len(<<>>) = 0
      OBVIOUS
    <2> QED
      BY <2>1, SpelledGrows, BytesGrow
  <1>2. ASSUME NEW p \in Seq(Seq(T)), NEW x \in Seq(T), p \in G PROVE Append(p, x) \in G
    <2>1. Append(p, x) \in Seq(Seq(T)) /\ Len(p) \in Nat
      OBVIOUS
    <2>2. PICK s \in Seq(T) : s = Spelled(p)
      BY SpelledGrows
    <2>3. Between(Len(p) + 1) \in Seq(T)
      BY DEF Between
    <2>4. PICK b \in Seq(T) : b = Between(Len(p) + 1)
      BY <2>3
    <2>5. Len(b) = IF Len(p) > 0 THEN 1 ELSE 0
      BY <2>1, <2>4 DEF Between
    <2>6. Len(s \o b \o x) = Len(s) + Len(b) + Len(x)
      OBVIOUS
    <2>7. Spelled(Append(p, x)) = s \o b \o x
      BY <2>2, <2>4, SpelledGrows
    <2>8. PathBytes(Append(p, x)) = PathBytes(p) + Len(x) + (IF Len(p) > 0 THEN 1 ELSE 0) /\ PathBytes(p) \in Nat
      BY BytesGrow
    <2>9. Len(s) = PathBytes(p) /\ Len(x) \in Nat
      BY <1>2, <2>2
    <2> QED
      BY <2>1, <2>5, <2>6, <2>7, <2>8, <2>9
  <1>3. path \in G
    <2> HIDE DEF G
    <2> QED
      BY <1>1, <1>2, GrowingUp
  <1> QED
    BY <1>3

\* A string that starts and ends with an ordinary byte and holds no NUL.
IsEntryName(s) ==
    /\ s # <<>> /\ ~IsSeparator(s[1]) /\ ~IsSeparator(s[Len(s)])
    /\ \A j \in DOMAIN s : s[j] # "NUL"

\* A normal path is spelled as such a one.
LEMMA SpelledEntry ==
    ASSUME NEW T, "/" \in T, NEW path \in Seq(Seq(T)), IsNormal(path), path # <<>>
    PROVE  IsEntryName(Spelled(path))
  <1> DEFINE G == {p \in Seq(Seq(T)) : IsNormal(p) => p = <<>> \/ IsEntryName(Spelled(p))}
  <1>1. <<>> \in G
    OBVIOUS
  <1>2. ASSUME NEW p \in Seq(Seq(T)), NEW x \in Seq(T), p \in G PROVE Append(p, x) \in G
    <2>1. PICK q : q = Append(p, x)
      OBVIOUS
    <2>2. /\ q \in Seq(Seq(T)) /\ Len(p) \in Nat
          /\ Len(p) + 1 \in DOMAIN q /\ q[Len(p) + 1] = x
          /\ \A i \in DOMAIN p : i \in DOMAIN q /\ q[i] = p[i]
      BY <2>1, Appended
    <2>3. ASSUME IsNormal(q) PROVE IsEntryName(Spelled(q))
      <3>1. IsNormal(p) /\ x # <<>> /\ \A k \in DOMAIN x : x[k] \notin {"/", "\\", "NUL"}
        BY <2>2, <2>3 DEF IsNormal
      <3>2. Len(x) \in Nat \ {0} /\ DOMAIN x = 1..Len(x)
        BY <3>1, EmptySeq
      <3>3. 1 \in DOMAIN x /\ Len(x) \in DOMAIN x
        BY <3>2
      <3>4. x[1] \notin {"/", "\\"} /\ x[Len(x)] \notin {"/", "\\"} /\ \A k \in DOMAIN x : x[k] # "NUL"
        BY <3>1, <3>3
      <3>5. Spelled(q) = Spelled(p) \o Between(Len(p) + 1) \o x
        BY <2>1, SpelledGrows
      <3>6. CASE p = <<>>
        <4>1. Spelled(p) = <<>> /\ Between(Len(p) + 1) = <<>>
          BY <3>6, SpelledGrows DEF Between
        <4>2. Spelled(q) = x
          BY <3>5, <4>1
        <4> QED
          BY <3>1, <3>4, <4>2 DEF IsEntryName, IsSeparator
      <3>7. CASE p # <<>>
        <4>1. Between(Len(p) + 1) = <<"/">>
          BY <2>2, <3>7, EmptySeq DEF Between
        <4>2. PICK s \in Seq(T) : s = Spelled(p)
          BY SpelledGrows
        <4>3. IsEntryName(s) /\ Len(s) \in Nat \ {0} /\ DOMAIN s = 1..Len(s)
          BY <1>2, <3>1, <3>7, <4>2, EmptySeq DEF IsEntryName
        <4>4. PICK t : t = Append(s, "/")
          OBVIOUS
        <4>5. t \in Seq(T) /\ Len(t) = Len(s) + 1 /\ t[Len(s) + 1] = "/" /\ \A i \in 1..Len(s) : t[i] = s[i]
          BY <4>4
        <4>6. s \o <<"/">> = t
          BY <4>4
        <4>7. PICK u : u = t \o x
          OBVIOUS
        <4>8. Joins(u, t, x, T)
          BY <4>5, <4>7, Concat
        <4>9. /\ u \in Seq(T) /\ Len(u) = Len(t) + Len(x) /\ DOMAIN u = 1..(Len(t) + Len(x))
              /\ \A i \in 1..(Len(t) + Len(x)) : u[i] = IF i <= Len(t) THEN t[i] ELSE x[i - Len(t)]
          BY <4>8 DEF Joins
        <4>10. u # <<>> /\ u[1] = s[1] /\ u[Len(u)] = x[Len(x)]
          <5>1. 1 \in 1..(Len(t) + Len(x)) /\ 1 <= Len(t) /\ 1 \in 1..Len(s)
            BY <3>2, <4>3, <4>5
          <5>2. Len(u) \in 1..(Len(t) + Len(x)) /\ ~(Len(u) <= Len(t)) /\ Len(u) - Len(t) = Len(x)
            BY <3>2, <4>3, <4>5, <4>9
          <5>3. u # <<>>
            BY <4>9, <5>1
          <5> QED
            BY <4>5, <4>9, <5>1, <5>2, <5>3
        <4>11. ASSUME NEW j \in DOMAIN u PROVE u[j] # "NUL"
          <5>1. CASE j <= Len(s)
            <6>1. j \in 1..Len(s) /\ j <= Len(t) /\ j \in 1..(Len(t) + Len(x))
              BY <3>2, <4>3, <4>5, <4>9, <5>1
            <6> QED
              BY <4>3, <4>5, <4>9, <6>1 DEF IsEntryName
          <5>2. CASE j = Len(s) + 1
            <6>1. j <= Len(t) /\ j \in 1..(Len(t) + Len(x))
              BY <3>2, <4>3, <4>5, <5>2
            <6> QED
              BY <4>5, <4>9, <5>2, <6>1
          <5>3. CASE j > Len(t)
            <6>1. j \in 1..(Len(t) + Len(x)) /\ ~(j <= Len(t)) /\ j - Len(t) \in 1..Len(x)
              BY <3>2, <4>3, <4>5, <4>9, <5>3
            <6> QED
              BY <3>2, <3>4, <4>9, <6>1
          <5> QED
            BY <4>3, <4>5, <4>9, <5>1, <5>2, <5>3
        <4>12. x[Len(x)] \notin {"/", "\\"}
          BY <3>4
        <4>13. Spelled(q) = u
          BY <3>5, <4>1, <4>2, <4>6, <4>7
        <4> QED
          BY <4>3, <4>10, <4>11, <4>12, <4>13 DEF IsEntryName, IsSeparator
      <3> QED
        BY <3>6, <3>7
    <2> QED
      BY <2>1, <2>2, <2>3
  <1>3. path \in G
    <2> HIDE DEF G
    <2> QED
      BY <1>1, <1>2, GrowingUp
  <1> QED
    BY <1>3

-----------------------------------------------------------------------------
(* What Walk does.                                                         *)

\* Normal segments are taken as they are.
LEMMA WalkNormal ==
    ASSUME NEW T, NEW path \in Seq(T), IsNormal(path)
    PROVE  Walk(<<>>, path) = Ok(path)
  <1> DEFINE G == {p \in Seq(T) : IsNormal(p) => Walk(<<>>, p) = Ok(p)}
  <1>1. <<>> \in Seq(T)
    OBVIOUS
  <1>2. <<>> \in G
    BY <1>1, WalkGoesOn
  <1>3. ASSUME NEW p \in Seq(T), NEW x \in T, p \in G PROVE Append(p, x) \in G
    <2>1. PICK q : q = Append(p, x)
      OBVIOUS
    <2>2. /\ q \in Seq(T) /\ Len(p) \in Nat
          /\ Len(p) + 1 \in DOMAIN q /\ q[Len(p) + 1] = x
          /\ \A i \in DOMAIN p : i \in DOMAIN q /\ q[i] = p[i]
      BY <2>1, Appended
    <2>3. ASSUME IsNormal(q) PROVE Walk(<<>>, q) = Ok(q)
      <3>1. IsNormal(p) /\ x \notin {<<>>, Dot, DotDot}
        BY <2>2, <2>3 DEF IsNormal
      <3>2. PICK root \in Seq(T) : root = <<>>
        BY <1>1
      <3>3. Walk(root, q) = Stepped(Walk(root, p), x)
        BY <2>1, WalkGoesOn
      <3>4. Walk(<<>>, q) = Stepped(Ok(p), x)
        BY <1>3, <3>1, <3>2, <3>3
      <3> QED
        BY <2>1, <3>1, <3>4 DEF Stepped, Ok
    <2> QED
      BY <2>1, <2>2, <2>3
  <1>4. path \in G
    <2> HIDE DEF G
    <2> QED
      BY <1>2, <1>3, GrowingUp
  <1> QED
    BY <1>4

\* A walk from a directory is one from the root by way of it.
LEMMA WalkJoin ==
    ASSUME NEW T, NEW dir \in Seq(T), IsNormal(dir), NEW pieces \in Seq(T)
    PROVE  Walk(<<>>, dir \o pieces) = Walk(dir, pieces)
  <1> DEFINE G == {p \in Seq(T) : Walk(<<>>, dir \o p) = Walk(dir, p)}
  <1>1. <<>> \in Seq(T)
    OBVIOUS
  <1>2. <<>> \in G
    <2>1. dir \o <<>> = dir
      OBVIOUS
    <2>2. Walk(<<>>, dir) = Ok(dir) /\ Walk(dir, <<>>) = Ok(dir)
      BY <1>1, WalkNormal, WalkGoesOn
    <2> QED
      BY <1>1, <2>1, <2>2
  <1>3. ASSUME NEW p \in Seq(T), NEW x \in T, p \in G PROVE Append(p, x) \in G
    <2>1. dir \o p \in Seq(T)
      OBVIOUS
    <2>2. PICK q \in Seq(T) : q = dir \o p
      BY <2>1
    <2>3. AppendsLast(dir, p, x)
      BY ConcatAppend
    <2>4. dir \o Append(p, x) = Append(q, x) /\ Append(p, x) \in Seq(T)
      BY <2>2, <2>3 DEF AppendsLast
    <2>5. Walk(<<>>, Append(q, x)) = Stepped(Walk(<<>>, q), x)
      BY <1>1, WalkGoesOn
    <2>6. Walk(dir, Append(p, x)) = Stepped(Walk(dir, p), x)
      BY WalkGoesOn
    <2> QED
      BY <1>3, <2>2, <2>4, <2>5, <2>6
  <1>4. pieces \in G
    <2> HIDE DEF G
    <2> QED
      BY <1>2, <1>3, GrowingUp
  <1> QED
    BY <1>4

\* Pieces without a separator or a NUL.
IsPlain(pieces) ==
    \A i \in DOMAIN pieces : \A k \in DOMAIN pieces[i] : pieces[i][k] \notin {"/", "\\", "NUL"}

\* A walk from a normal directory stays in normal ones.
LEMMA WalkStaysNormal ==
    ASSUME NEW T, NEW dir \in Seq(T), IsNormal(dir), NEW pieces \in Seq(T), IsPlain(pieces)
    PROVE  Walk(dir, pieces).kind = "entry" => IsNormal(Walk(dir, pieces).path)
  <1> DEFINE Stays(at) == at.kind = "entry" => IsNormal(at.path)
             G == {p \in Seq(T) : IsPlain(p) => Stays(Walk(dir, p))}
  <1>1. <<>> \in Seq(T)
    OBVIOUS
  <1>2. <<>> \in G
    <2>1. Walk(dir, <<>>) = Ok(dir)
      BY <1>1, WalkGoesOn
    <2> QED
      BY <1>1, <2>1 DEF Ok
  <1>3. ASSUME NEW p \in Seq(T), NEW x \in T, p \in G PROVE Append(p, x) \in G
    <2>1. PICK q : q = Append(p, x)
      OBVIOUS
    <2>2. /\ q \in Seq(T) /\ Len(p) \in Nat
          /\ Len(p) + 1 \in DOMAIN q /\ q[Len(p) + 1] = x
          /\ \A i \in DOMAIN p : i \in DOMAIN q /\ q[i] = p[i]
      BY <2>1, Appended
    <2>3. PICK at \in Places(T) : at = Walk(dir, p)
      BY WalkGoesOn
    <2>4. Walk(dir, q) = Stepped(at, x)
      BY <2>1, <2>3, WalkGoesOn
    <2>5. ASSUME IsPlain(q) PROVE Stays(Stepped(at, x))
      <3>1. Stays(at) /\ \A k \in DOMAIN x : x[k] \notin {"/", "\\", "NUL"}
        <4>1. IsPlain(p) /\ \A k \in DOMAIN x : x[k] \notin {"/", "\\", "NUL"}
          BY <2>2, <2>5 DEF IsPlain
        <4> QED
          BY <1>3, <2>3, <4>1
      <3>2. CASE Stepped(at, x) = at
        BY <3>1, <3>2
      <3>3. CASE Stepped(at, x) = Err("traversal")
        BY <3>3 DEF Err
      <3>4. CASE at.kind = "entry" /\ at.path # <<>> /\ Stepped(at, x) = Ok(ParentDir(at.path))
        <4>1. PICK path \in Seq(T) : at = Ok(path)
          BY <3>4 DEF Places, Err
        <4>2. at.path = path /\ at.kind = "entry"
          BY <4>1 DEF Ok
        <4>3. /\ IsNormal(path)
              /\ \A i \in DOMAIN ParentDir(path) : i \in DOMAIN path /\ ParentDir(path)[i] = path[i]
          BY <3>1, <3>4, <4>2, ParentPath
        <4>4. IsNormal(ParentDir(path))
          BY <4>3 DEF IsNormal
        <4> QED
          BY <3>4, <4>2, <4>4 DEF Ok
      <3>5. CASE /\ at.kind = "entry" /\ x \notin {<<>>, Dot, DotDot}
                 /\ Stepped(at, x) = Ok(Append(at.path, x))
        <4>1. PICK path \in Seq(T) : at = Ok(path)
          BY <3>5 DEF Places, Err
        <4>2. at.path = path
          BY <4>1 DEF Ok
        <4>3. PICK r : r = Append(path, x)
          OBVIOUS
        <4>4. /\ r[Len(path) + 1] = x
              /\ \A i \in DOMAIN path : r[i] = path[i]
              /\ \A i \in DOMAIN r : i = Len(path) + 1 \/ i \in DOMAIN path
          BY <4>3, Appended
        <4>5. IsNormal(path)
          BY <3>1, <3>5, <4>2
        <4>6. IsNormal(r)
          BY <3>1, <3>5, <4>4, <4>5 DEF IsNormal
        <4> QED
          BY <3>5, <4>2, <4>3, <4>6 DEF Ok
      <3>6. \/ Stepped(at, x) = at
            \/ Stepped(at, x) = Err("traversal")
            \/ at.kind = "entry" /\ at.path # <<>> /\ Stepped(at, x) = Ok(ParentDir(at.path))
            \/ /\ at.kind = "entry" /\ x \notin {<<>>, Dot, DotDot}
               /\ Stepped(at, x) = Ok(Append(at.path, x))
        BY DEF Stepped
      <3> HIDE DEF Stays
      <3> QED
        BY <3>2, <3>3, <3>4, <3>5, <3>6
    <2> HIDE DEF Stays
    <2> QED
      BY <2>1, <2>2, <2>4, <2>5
  <1>4. pieces \in G
    <2> HIDE DEF G
    <2> QED
      BY <1>2, <1>3, GrowingUp
  <1> QED
    BY <1>4

-----------------------------------------------------------------------------
(* What is read of a string.                                               *)

\* The tokens of strings and the bytes they stand for.
Letters == Tokens \cup Bytes

\* What is known of them.
LEMMA LetterTypes ==
    /\ "/" \in Letters /\ Tokens \subseteq Letters /\ Bytes \subseteq Letters
    /\ Tokens \subseteq Bytes \cup DOMAIN Escaped
    /\ \A e \in DOMAIN Escaped : Escaped[e] \in Bytes
    /\ MaxPathBytes \in Nat
  BY HrefAssumption DEF Letters, Bytes, Escaped

\* A token is decoded to a byte.
LEMMA DecodedBytes ==
    ASSUME NEW s \in Seq(Tokens)
    PROVE  /\ PercentDecode(s) \in Seq(Bytes) /\ Len(PercentDecode(s)) = Len(s)
           /\ DOMAIN PercentDecode(s) = DOMAIN s
  <1>1. Len(s) \in Nat /\ DOMAIN s = 1..Len(s)
    OBVIOUS
  <1>2. \A i \in 1..Len(s) : (IF s[i] \in DOMAIN Escaped THEN Escaped[s[i]] ELSE s[i]) \in Bytes
    <2>1. \A i \in 1..Len(s) : s[i] \in Tokens
      OBVIOUS
    <2> QED
      BY <2>1, LetterTypes
  <1>3. PercentDecode(s) \in [1..Len(s) -> Bytes]
    BY <1>1, <1>2 DEF PercentDecode
  <1> QED
    BY <1>1, <1>3, IsSequence

\* What is before the fragment.
LEMMA Unfragmented ==
    ASSUME NEW T, NEW s \in Seq(T)
    PROVE  /\ WithoutFragment(s) \in Seq(T)
           /\ (\A i \in DOMAIN s : s[i] # "#") => WithoutFragment(s) = s
  <1> DEFINE signs == {i \in DOMAIN s : s[i] = "#"}
  <1>1. CASE signs = {}
    BY <1>1 DEF WithoutFragment
  <1>2. CASE signs # {}
    <2>1. signs \subseteq 1..Len(s) /\ Len(s) \in Nat /\ signs \in SUBSET Nat
      OBVIOUS
    <2> HIDE DEF signs
    <2>2. PICK x \in signs : \A y \in signs : ~ (<<y, x>> \in OpToRel(<, Nat))
      BY <1>2, <2>1, NatLessThanWellFounded, WFMin
    <2>3. \A y \in signs : x <= y
      <3> SUFFICES ASSUME NEW y \in signs PROVE x <= y
        OBVIOUS
      <3>1. x \in Nat /\ y \in Nat
        BY <2>1
      <3>2. y < x => <<y, x>> \in OpToRel(<, Nat)
        BY <3>1 DEF OpToRel
      <3>3. ~(y < x)
        BY <2>2, <3>2
      <3> QED
        BY <3>1, <3>3
    <2>4. Least(signs) \in signs
      BY <2>2, <2>3 DEF Least
    <2>5. Least(signs) \in 1..Len(s)
      BY <2>1, <2>4
    <2>6. SubSeq(s, 1, Least(signs) - 1) \in Seq(T)
      BY <2>1, <2>5
    <2>7. WithoutFragment(s) = SubSeq(s, 1, Least(signs) - 1)
      BY <1>2 DEF WithoutFragment, signs
    <2>8. \E i \in DOMAIN s : s[i] = "#"
      BY <1>2 DEF signs
    <2> QED
      BY <2>6, <2>7, <2>8
  <1> QED
    BY <1>1, <1>2

\* What the tests of normalize let through.
Passes(dir, string) ==
    /\ string # <<>> /\ Len(string) + PathBytes(dir) + 1 <= MaxPathBytes
    /\ \A i \in DOMAIN string : string[i] # "NUL"
    /\ ~IsSeparator(string[1])

\* An error is of its kind.
LEMMA ErrKind == \A error : Err(error).kind = error
  BY DEF Err

\* What normalize answers to a string that fails one of them.
Refused(string, answer) ==
    \/ string = <<>> /\ answer = Err("empty")
    \/ answer = Err("too long")
    \/ (\E i \in DOMAIN string : string[i] = "NUL") /\ answer = Err("illegal byte")
    \/ string # <<>> /\ answer = Err("absolute")

\* normalize, by its tests.
LEMMA Normalized ==
    ASSUME NEW T, NEW dir \in Seq(Seq(T)), NEW string \in Seq(T)
    PROVE  /\ Passes(dir, string) =>
                Normalize(dir, string) =
                  LET walked == Walk(dir, Split(string))
                  IN  IF walked.kind = "entry" /\ walked.path = <<>> THEN Err("empty") ELSE walked
           /\ ~Passes(dir, string) => Refused(string, Normalize(dir, string))
  <1>1. Len(string) \in Nat /\ PathBytes(dir) \in Nat /\ MaxPathBytes \in Nat
    BY BytesGrow, LetterTypes
  <1>2. Len(string) + PathBytes(dir) + 1 > MaxPathBytes <=> ~(Len(string) + PathBytes(dir) + 1 <= MaxPathBytes)
    BY <1>1
  <1>3. ASSUME Passes(dir, string)
        PROVE  Normalize(dir, string) =
                  LET walked == Walk(dir, Split(string))
                  IN  IF walked.kind = "entry" /\ walked.path = <<>> THEN Err("empty") ELSE walked
    BY <1>2, <1>3 DEF Passes, Normalize
  <1>4. ASSUME ~Passes(dir, string) PROVE Refused(string, Normalize(dir, string))
    BY <1>2, <1>4 DEF Passes, Normalize, Refused
  <1> QED
    BY <1>3, <1>4

\* A refusal is neither a path nor a traversal, and says why.
LEMMA Refusals ==
    ASSUME NEW string, NEW answer, Refused(string, answer)
    PROVE  /\ answer.kind # "entry" /\ answer.kind # "traversal"
           /\ string # <<>> => answer.kind # "empty"
           /\ answer.kind \in {"empty", "too long", "absolute"} \/ \E i \in DOMAIN string : string[i] = "NUL"
  <1>1. CASE string = <<>> /\ answer = Err("empty")
    <2>1. answer.kind = "empty"
      BY <1>1, ErrKind, Zenon
    <2> QED
      BY <1>1, <2>1, Zenon
  <1>2. CASE answer = Err("too long")
    <2>1. answer.kind = "too long"
      BY <1>2, ErrKind, Zenon
    <2> QED
      BY <1>2, <2>1, Zenon
  <1>3. CASE (\E i \in DOMAIN string : string[i] = "NUL") /\ answer = Err("illegal byte")
    <2>1. answer.kind = "illegal byte"
      BY <1>3, ErrKind, Zenon
    <2> QED
      BY <1>3, <2>1, Zenon
  <1>4. CASE string # <<>> /\ answer = Err("absolute")
    <2>1. answer.kind = "absolute"
      BY <1>4, ErrKind, Zenon
    <2> QED
      BY <1>4, <2>1, Zenon
  <1> QED
    BY <1>1, <1>2, <1>3, <1>4, Zenon DEF Refused

\* Splitting keeps to the bytes of the string.
LEMMA PlainPieces ==
    ASSUME NEW T, NEW string \in Seq(T), \A i \in DOMAIN string : string[i] # "NUL"
    PROVE  Split(string) \in Seq(Seq(T)) /\ Split(string) # <<>> /\ IsPlain(Split(string)) /\ IsClean(Split(string))
  <1>1. OfString(Split(string), string)
    BY SplitOfString
  <1>2. Split(string) \in PiecesOf(T)
    BY SplitGrows
  <1> QED
    BY <1>1, <1>2 DEF OfString, IsPlain, IsClean, IsSeparator, PiecesOf

\* What normalize accepts is a normal path.
LEMMA AcceptedNormal ==
    ASSUME NEW T, NEW dir \in Seq(Seq(T)), IsNormal(dir), NEW string \in Seq(T),
           Normalize(dir, string).kind = "entry"
    PROVE  /\ Normalize(dir, string) = Ok(Normalize(dir, string).path)
           /\ Normalize(dir, string).path \in Seq(Seq(T)) /\ Normalize(dir, string).path # <<>>
           /\ IsNormal(Normalize(dir, string).path)
  <1>1. Passes(dir, string)
    BY Normalized, Refusals
  <1>2. Split(string) \in Seq(Seq(T)) /\ IsPlain(Split(string))
    BY <1>1, PlainPieces DEF Passes
  <1>3. PICK at \in Places(Seq(T)) : at = Walk(dir, Split(string))
    BY <1>2, WalkGoesOn
  <1>4. Normalize(dir, string) = IF at.kind = "entry" /\ at.path = <<>> THEN Err("empty") ELSE at
    BY <1>1, <1>3, Normalized
  <1>5. at.kind = "entry" /\ at.path # <<>> /\ Normalize(dir, string) = at
    BY <1>4 DEF Err
  <1>6. at = Ok(at.path) /\ at.path \in Seq(Seq(T))
    <2>1. PICK path \in Seq(Seq(T)) : at = Ok(path)
      BY <1>5 DEF Places, Err
    <2> QED
      BY <2>1 DEF Ok
  <1>7. IsNormal(at.path)
    BY <1>2, <1>3, <1>5, WalkStaysNormal
  <1> QED
    BY <1>5, <1>6, <1>7

\* An entry name that spells a normal path is read as that path.
LEMMA ReadAgain ==
    ASSUME NEW T, "/" \in T, NEW path \in Seq(Seq(T)), IsNormal(path), path # <<>>,
           PathBytes(path) < MaxPathBytes
    PROVE  CheckEntryName(Spelled(path)) = Ok(path)
  <1>1. PICK s \in Seq(T) : s = Spelled(path)
    BY SpelledGrows
  <1>2. IsEntryName(s) /\ Len(s) = PathBytes(path) /\ Len(s) \in Nat
    BY <1>1, SpelledEntry, SpelledLength
  <1>3. IsClean(path)
    BY DEF IsClean, IsNormal, IsSeparator
  <1>4. Split(s) = path
    BY <1>1, <1>3, SplitSpelled
  <1>5. Walk(<<>>, path) = Ok(path)
    BY WalkNormal
  <1>6. PathBytes(<<>>) = 0 /\ <<>> \in Seq(Seq(T))
    BY BytesGrow
  <1>7. Passes(<<>>, s)
    BY <1>2, <1>6, LetterTypes DEF Passes, IsEntryName
  <1>8. Normalize(<<>>, s) = Ok(path)
    <2>1. PICK root \in Seq(Seq(T)) : root = <<>>
      BY <1>6
    <2>2. Normalize(root, s) = LET walked == Walk(root, Split(s))
                               IN  IF walked.kind = "entry" /\ walked.path = <<>> THEN Err("empty") ELSE walked
      BY <1>7, <2>1, Normalized
    <2>3. Walk(root, Split(s)) = Ok(path) /\ Ok(path).path # <<>>
      BY <1>4, <1>5, <2>1 DEF Ok
    <2> QED
      BY <2>1, <2>2, <2>3
  <1> QED
    BY <1>1, <1>2, <1>8 DEF CheckEntryName, IsEntryName

-----------------------------------------------------------------------------
(* The paths.                                                              *)

\* What resolve answers is what normalize answers, or that the string is too
\* long or remote.
LEMMA Resolved ==
    ASSUME NEW dir, NEW string
    PROVE  \/ ResolveHref(dir, string) = Normalize(dir, PercentDecode(WithoutFragment(string)))
           \/ ResolveHref(dir, string).kind \in {"too long", "remote"}
  <1>1. \/ ResolveHref(dir, string) = Normalize(dir, PercentDecode(WithoutFragment(string)))
        \/ ResolveHref(dir, string) = Err("too long")
        \/ ResolveHref(dir, string) = Err("remote")
    BY DEF ResolveHref
  <1> QED
    BY <1>1, ErrKind, Zenon

\* What check_entry_name accepts, normalize does.
LEMMA Checked ==
    ASSUME NEW string, CheckEntryName(string).kind = "entry"
    PROVE  CheckEntryName(string) = Normalize(<<>>, string)
  <1>1. CheckEntryName(string) = Err("directory") \/ CheckEntryName(string) = Normalize(<<>>, string)
    BY DEF CheckEntryName
  <1>2. CheckEntryName(string) # Err("directory")
    <2>1. Err("directory").kind # "entry"
      BY ErrKind
    <2> QED
      BY <2>1
  <1> QED
    BY <1>1, <1>2

\* Longer alphabets.
LEMMA LetterPaths ==
    ASSUME NEW path \in Seq(Seq(Bytes))
    PROVE  path \in Seq(Seq(Letters))
  <1>1. \A s \in Seq(Bytes) : s \in Seq(Letters)
    BY LetterTypes
  <1> QED
    BY <1>1

\* What is accepted is normal, and is read again as the same path.
LEMMA AcceptedReadAgain ==
    ASSUME NEW dir \in Seq(Seq(Letters)), IsNormal(dir), NEW string \in Seq(Letters),
           NEW result, result = Normalize(dir, string), result.kind = "entry"
    PROVE  /\ result.path # <<>> /\ IsNormal(result.path)
           /\ PathBytes(result.path) < MaxPathBytes => CheckEntryName(Spelled(result.path)) = result
  <1>1. /\ result = Ok(result.path) /\ result.path \in Seq(Seq(Letters)) /\ result.path # <<>>
        /\ IsNormal(result.path)
    BY AcceptedNormal
  <1>2. "/" \in Letters
    BY LetterTypes
  <1>3. PathBytes(result.path) < MaxPathBytes => CheckEntryName(Spelled(result.path)) = Ok(result.path)
    BY <1>1, <1>2, ReadAgain
  <1> QED
    BY <1>1, <1>3

\* A base directory, and a string of tokens.
PathState ==
    /\ base \in Seq(Seq(Bytes)) /\ IsNormal(base)
    /\ href \in Seq(Tokens)

\* Of them, AcceptedIsNormal.
LEMMA AcceptedHolds ==
    ASSUME PathState
    PROVE  AcceptedIsNormal
  <1>1. base \in Seq(Seq(Letters)) /\ href \in Seq(Letters) /\ IsNormal(base)
    BY LetterPaths, LetterTypes DEF PathState
  <1>2. <<>> \in Seq(Seq(Letters)) /\ IsNormal(<<>>)
    BY DEF IsNormal
  <1>3. PercentDecode(WithoutFragment(href)) \in Seq(Letters)
    <2>1. WithoutFragment(href) \in Seq(Tokens)
      BY Unfragmented DEF PathState
    <2>2. PercentDecode(WithoutFragment(href)) \in Seq(Bytes)
      BY <2>1, DecodedBytes
    <2> QED
      BY <2>2, LetterTypes
  <1>4. ASSUME NEW result, result.kind = "entry",
               result = ResolveHref(base, href) \/ result = CheckEntryName(href)
        PROVE  /\ result.path # <<>> /\ IsNormal(result.path)
               /\ PathBytes(result.path) < MaxPathBytes => CheckEntryName(Spelled(result.path)) = result
    <2>1. CASE result = ResolveHref(base, href)
      <3>1. result = Normalize(base, PercentDecode(WithoutFragment(href)))
        BY <1>4, <2>1, Resolved, Zenon
      <3> QED
        BY <1>1, <1>3, <1>4, <3>1, AcceptedReadAgain
    <2>2. CASE result = CheckEntryName(href)
      <3>1. result = Normalize(<<>>, href)
        BY <1>4, <2>2, Checked
      <3> QED
        BY <1>1, <1>2, <1>4, <3>1, AcceptedReadAgain
    <2> QED
      BY <1>4, <2>1, <2>2
  <1> QED
    BY <1>4 DEF AcceptedIsNormal

\* How far a piece leads down.
Height(piece) == CASE piece = DotDot -> -1 [] piece \in {<<>>, Dot} -> 0 [] OTHER -> 1
HeightSteps(T) == [x \in Nat \X Int \X T |-> x[2] + Height(x[3])]

\* The depths below the archive along a walk, as TraversalIffEscapes has them.
IsDepth(dir, pieces, D) ==
    D = [n \in 0..Len(pieces) |->
            IF n = 0 THEN Len(dir)
            ELSE D[n - 1] + (CASE pieces[n] = DotDot -> -1
                               [] pieces[n] \in {<<>>, Dot} -> 0
                               [] OTHER -> 1)]
Depths(dir, pieces) == CHOOSE D : IsDepth(dir, pieces, D)

\* One is computed from the other.
LEMMA DepthRuns ==
    ASSUME NEW T, NEW dir \in Seq(T), NEW pieces \in Seq(T)
    PROVE  Runs(Int, pieces, Len(dir), HeightSteps(T), Depths(dir, pieces))
  <1> DEFINE step == HeightSteps(T)
             a == Len(dir)
             D == Depths(dir, pieces)
  <1>1. /\ Len(pieces) \in Nat /\ \A i \in 1..Len(pieces) : pieces[i] \in T
        /\ 0 \in 0..Len(pieces) /\ \A i \in 1..Len(pieces) : i \in 0..Len(pieces) /\ i # 0 /\ i \in Nat
    OBVIOUS
  <1>2. a \in Int
    OBVIOUS
  <1>3. \A i \in Nat, p \in Int, b \in T : step[<<i, p, b>>] = p + Height(b) /\ p + Height(b) \in Int
    BY DEF HeightSteps, Height
  <1>4. step \in [Nat \X Int \X T -> Int]
    <2>1. \A b \in T : Height(b) \in Int
      BY DEF Height
    <2> QED
      BY <2>1 DEF HeightSteps
  <1> HIDE DEF step, D
  <1>5. PICK f : Runs(Int, pieces, a, step, f)
    <2> HIDE DEF a
    <2> QED
      BY <1>2, <1>4, RunExists
  <1>6. IsDepth(dir, pieces, f)
    <2>1. /\ f \in [0..Len(pieces) -> Int] /\ f[0] = a
          /\ \A i \in 1..Len(pieces) : f[i] = step[<<i, f[i - 1], pieces[i]>>]
      BY <1>5 DEF Runs
    <2>2. ASSUME NEW i \in 0..Len(pieces), i # 0 PROVE f[i] = f[i - 1] + Height(pieces[i])
      <3>1. i \in 1..Len(pieces) /\ i \in Nat /\ f[i - 1] \in Int /\ pieces[i] \in T
        BY <1>1, <2>1, <2>2
      <3> QED
        BY <1>3, <2>1, <3>1
    <2> QED
      BY <2>1, <2>2 DEF IsDepth, Height
  <1>7. IsDepth(dir, pieces, D)
    BY <1>6 DEF D, Depths
  <1>8. Runs(Int, pieces, a, step, D)
    <2>1. D[0] = a /\ \A i \in 1..Len(pieces) : D[i] = D[i - 1] + Height(pieces[i])
      BY <1>1, <1>7 DEF IsDepth, Height
    <2>2. ASSUME NEW i \in 1..Len(pieces), D[i - 1] \in Int PROVE D[i] = step[<<i, D[i - 1], pieces[i]>>]
      BY <1>1, <1>3, <2>1, <2>2
    <2>3. D = [i \in 0..Len(pieces) |-> D[i]]
      BY <1>7 DEF IsDepth
    <2> HIDE DEF a
    <2> QED
      BY <1>2, <1>4, <2>1, <2>2, <2>3, RunFound
  <1> QED
    BY <1>8 DEF step, D

\* After n pieces a walk is as deep as the depths say, or it has left before.
InDepth(at, D, n) ==
    \/ at.kind = "entry" /\ Len(at.path) = D[n] /\ \A m \in 1..n : D[m] >= 0
    \/ at.kind = "traversal" /\ \E m \in 1..n : D[m] < 0

\* A walk leaves exactly where the depth falls below none.
LEMMA WalkDepth ==
    ASSUME NEW T, NEW dir \in Seq(T), NEW pieces \in Seq(T), NEW D, D = Depths(dir, pieces)
    PROVE  InDepth(Walk(dir, pieces), D, Len(pieces))
  <1>1. PICK f : Runs(Places(T), pieces, Ok(dir), WalkSteps(T), f) /\ Walk(dir, pieces) = f[Len(pieces)]
    BY WalkRuns
  <1>2. /\ D \in [0..Len(pieces) -> Int] /\ D[0] = Len(dir)
        /\ \A i \in 1..Len(pieces) : D[i] = HeightSteps(T)[<<i, D[i - 1], pieces[i]>>]
    BY DepthRuns DEF Runs
  <1>3. /\ f \in [0..Len(pieces) -> Places(T)] /\ f[0] = Ok(dir)
        /\ \A i \in 1..Len(pieces) : f[i] = WalkSteps(T)[<<i, f[i - 1], pieces[i]>>]
    BY <1>1 DEF Runs
  <1>4. /\ Len(pieces) \in Nat /\ \A i \in 1..Len(pieces) : pieces[i] \in T
        /\ 0 \in 0..Len(pieces) /\ \A i \in 1..Len(pieces) : i \in 0..Len(pieces) /\ i - 1 \in 0..Len(pieces) /\ i \in Nat
    OBVIOUS
  <1> DEFINE G == {n \in 0..Len(pieces) : InDepth(f[n], D, n)}
  <1>5. 0 \in G
    BY <1>4, <1>2, <1>3 DEF InDepth, Ok
  <1>6. ASSUME NEW n \in 1..Len(pieces), n - 1 \in G PROVE n \in G
    <2>1. PICK at \in Places(T) : at = f[n - 1]
      BY <1>4, <1>3
    <2>2. PICK d \in Int : d = D[n - 1]
      BY <1>4, <1>2
    <2>3. PICK piece \in T : piece = pieces[n]
      BY <1>4
    <2>4. f[n] = Stepped(at, piece)
      BY <1>4, <1>3, <2>1, <2>3 DEF WalkSteps
    <2>5. D[n] = d + Height(piece)
      BY <1>4, <1>2, <2>2, <2>3 DEF HeightSteps
    <2>6. \A m \in 1..n : m \in 1..(n - 1) \/ m = n
      BY <1>4
    <2>7. n \in 1..n /\ \A m \in 1..(n - 1) : m \in 1..n
      BY <1>4
    <2>8. InDepth(at, D, n - 1)
      BY <1>6, <2>1
    <2>9. CASE at.kind = "traversal"
      <3>1. Stepped(at, piece) = at
        BY <2>9 DEF Stepped
      <3>2. \E m \in 1..n : D[m] < 0
        BY <2>7, <2>8, <2>9 DEF InDepth
      <3>3. InDepth(f[n], D, n)
        BY <2>4, <2>9, <3>1, <3>2 DEF InDepth
      <3> QED
        BY <1>4, <3>3
    <2>10. CASE at.kind = "entry"
      <3>1. PICK path \in Seq(T) : at = Ok(path)
        BY <2>10 DEF Places, Err
      <3>2. at.path = path /\ Len(path) = d /\ d \in Nat /\ \A m \in 1..(n - 1) : D[m] >= 0
        BY <2>2, <2>8, <2>10, <3>1 DEF InDepth, Ok
      <3>3. CASE piece \in {<<>>, Dot}
        <4>1. Stepped(at, piece) = at /\ Height(piece) = 0
          BY <3>3 DEF Stepped, Height, Dot, DotDot
        <4>2. D[n] = d
          BY <2>5, <4>1
        <4>3. InDepth(f[n], D, n)
          BY <2>4, <2>6, <2>10, <3>2, <4>1, <4>2 DEF InDepth
        <4> QED
          BY <1>4, <4>3
      <3>4. CASE piece = DotDot /\ path = <<>>
        <4>1. DotDot \notin {<<>>, Dot} /\ d = 0
          BY <3>2, <3>4 DEF Dot, DotDot
        <4>2. Stepped(at, piece) = Err("traversal") /\ Height(piece) = -1
          BY <2>10, <3>2, <3>4, <4>1 DEF Stepped, Height
        <4>3. D[n] < 0
          BY <2>5, <4>1, <4>2
        <4>4. InDepth(f[n], D, n)
          BY <2>4, <2>7, <4>2, <4>3 DEF InDepth, Err
        <4> QED
          BY <1>4, <4>4
      <3>5. CASE piece = DotDot /\ path # <<>>
        <4>1. DotDot \notin {<<>>, Dot} /\ d > 0
          BY <3>2, <3>5, EmptySeq DEF Dot, DotDot
        <4>2. Stepped(at, piece) = Ok(ParentDir(path)) /\ Height(piece) = -1
          BY <2>10, <3>2, <3>5, <4>1 DEF Stepped, Height
        <4>3. Len(ParentDir(path)) = d - 1
          BY <3>2, <3>5, ParentPath
        <4>4. D[n] = d - 1
          BY <2>5, <4>2
        <4>5. D[n] >= 0
          BY <4>1, <4>4
        <4>6. InDepth(f[n], D, n)
          BY <2>4, <2>6, <3>2, <4>2, <4>3, <4>4, <4>5 DEF InDepth, Ok
        <4> QED
          BY <1>4, <4>6
      <3>6. CASE piece \notin {<<>>, Dot, DotDot}
        <4>1. Stepped(at, piece) = Ok(Append(path, piece)) /\ Height(piece) = 1
          BY <2>10, <3>2, <3>6 DEF Stepped, Height
        <4>2. Len(Append(path, piece)) = d + 1
          BY <3>2
        <4>3. D[n] = d + 1 /\ D[n] >= 0
          BY <2>5, <3>2, <4>1
        <4>4. InDepth(f[n], D, n)
          BY <2>4, <2>6, <3>2, <4>1, <4>2, <4>3 DEF InDepth, Ok
        <4> QED
          BY <1>4, <4>4
      <3> QED
        BY <3>3, <3>4, <3>5, <3>6
    <2> QED
      BY <2>8, <2>9, <2>10 DEF InDepth
  <1>7. \A n \in 0..Len(pieces) : n \in G
    <2> HIDE DEF G
    <2> QED
      BY <1>4, <1>5, <1>6, CountingUp
  <1> QED
    BY <1>4, <1>1, <1>7

\* Of a base directory and a string of tokens, TraversalIffEscapes.
LEMMA TraversalHolds ==
    ASSUME PathState
    PROVE  TraversalIffEscapes
  <1> DEFINE decoded == PercentDecode(WithoutFragment(href))
             pieces == Split(decoded)
             D == Depths(base, pieces)
             result == ResolveHref(base, href)
  <1>1. decoded \in Seq(Bytes)
    <2>1. WithoutFragment(href) \in Seq(Tokens)
      BY Unfragmented DEF PathState
    <2> QED
      BY <2>1, DecodedBytes
  <1> HIDE DEF decoded
  <1>2. pieces \in Seq(Seq(Bytes)) /\ base \in Seq(Seq(Bytes))
    BY <1>1, SplitGrows DEF PathState, PiecesOf
  <1>3. InDepth(Walk(base, pieces), D, Len(pieces)) /\ DOMAIN pieces = 1..Len(pieces)
    <2>1. PICK q \in Seq(Seq(Bytes)) : q = pieces
      BY <1>2
    <2> QED
      BY <1>2, <2>1, WalkDepth
  <1>4. ASSUME result.kind \in {"entry", "traversal", "empty"}, decoded # <<>>
        PROVE  result.kind = "traversal" <=> \E n \in DOMAIN pieces : D[n] < 0
    <2>1. result = Normalize(base, decoded)
      BY <1>4, Resolved, Zenon DEF decoded
    <2>2. Passes(base, decoded)
      <3>1. ASSUME ~Passes(base, decoded) PROVE FALSE
        <4>1. Refused(decoded, result)
          BY <1>1, <1>2, <2>1, <3>1, Normalized
        <4>2. result.kind \notin {"entry", "traversal", "empty"}
          BY <1>4, <4>1, Refusals, Zenon
        <4> QED
          BY <1>4, <4>2
      <3> QED
        BY <3>1
    <2>3. PICK at : at = Walk(base, pieces)
      OBVIOUS
    <2>4. result = IF at.kind = "entry" /\ at.path = <<>> THEN Err("empty") ELSE at
      BY <1>1, <1>2, <2>1, <2>2, <2>3, Normalized
    <2>5. result.kind = "traversal" <=> at.kind = "traversal"
      BY <2>4 DEF Err
    <2>6. at.kind = "traversal" => \E n \in DOMAIN pieces : D[n] < 0
      BY <1>3, <2>3 DEF InDepth
    <2>7. ASSUME NEW n \in DOMAIN pieces, D[n] < 0 PROVE at.kind = "traversal"
      <3>1. n \in 1..Len(pieces)
        BY <1>3
      <3>2. D[n] \in Int
        BY <1>2, <3>1, DepthRuns DEF Runs
      <3> QED
        BY <1>3, <2>3, <2>7, <3>1, <3>2 DEF InDepth
    <2> QED
      BY <2>5, <2>6, <2>7
  <1> QED
    BY <1>4 DEF TraversalIffEscapes, Depths, IsDepth, decoded

\* How a byte is written in an href that finds it, as HrefFindsEntry has it.
Escape ==
    [b \in Bytes |->
        IF \E e \in DOMAIN Escaped : Escaped[e] = b /\ b \notin {".", "/", "\\"}
        THEN CHOOSE e \in DOMAIN Escaped : Escaped[e] = b ELSE b]

\* It is no fragment sign, and is decoded to the byte.
LEMMA Escapes ==
    ASSUME NEW b \in Bytes
    PROVE  /\ Escape[b] \in Letters \cup DOMAIN Escaped /\ Escape[b] # "#"
           /\ (IF Escape[b] \in DOMAIN Escaped THEN Escaped[Escape[b]] ELSE Escape[b]) = b
  <1>1. "#" \notin DOMAIN Escaped /\ \A c \in Bytes : c \notin DOMAIN Escaped
    BY DEF Escaped, Bytes
  <1>2. Escaped["%23"] = "#" /\ "%23" \in DOMAIN Escaped /\ "#" \notin {".", "/", "\\"}
    BY DEF Escaped
  <1>3. CASE \E e \in DOMAIN Escaped : Escaped[e] = b /\ b \notin {".", "/", "\\"}
    <2>1. Escape[b] = CHOOSE e \in DOMAIN Escaped : Escaped[e] = b
      BY <1>3 DEF Escape
    <2>2. Escape[b] \in DOMAIN Escaped /\ Escaped[Escape[b]] = b
      BY <1>3, <2>1
    <2> QED
      BY <1>1, <2>2
  <1>4. CASE ~(\E e \in DOMAIN Escaped : Escaped[e] = b /\ b \notin {".", "/", "\\"})
    <2>1. Escape[b] = b
      BY <1>4 DEF Escape
    <2>2. b # "#"
      BY <1>2, <1>4
    <2> QED
      BY <1>1, <2>1, <2>2, LetterTypes DEF Letters
  <1> QED
    BY <1>3, <1>4

\* A string of which each byte is written so has no fragment, and is decoded
\* to the string.
LEMMA SpelledHref ==
    ASSUME NEW raw \in Seq(Bytes), NEW spelled, spelled = [i \in DOMAIN raw |-> Escape[raw[i]]]
    PROVE  WithoutFragment(spelled) = spelled /\ PercentDecode(spelled) = raw
  <1>1. Len(raw) \in Nat /\ DOMAIN raw = 1..Len(raw) /\ \A i \in 1..Len(raw) : raw[i] \in Bytes
    OBVIOUS
  <1> DEFINE Signs == Letters \cup DOMAIN Escaped
  <1>2. spelled \in [1..Len(raw) -> Signs] /\ \A i \in 1..Len(raw) : spelled[i] = Escape[raw[i]]
    BY <1>1, Escapes
  <1>3. spelled \in Seq(Signs) /\ DOMAIN spelled = 1..Len(raw)
    <2> HIDE DEF Signs
    <2> QED
      BY <1>1, <1>2, IsSequence
  <1>4. WithoutFragment(spelled) = spelled
    <2>1. \A i \in DOMAIN spelled : spelled[i] # "#"
      BY <1>1, <1>2, <1>3, Escapes
    <2> HIDE DEF Signs
    <2> QED
      BY <1>3, <2>1, Unfragmented
  <1>5. \A i \in 1..Len(raw) :
            (IF spelled[i] \in DOMAIN Escaped THEN Escaped[spelled[i]] ELSE spelled[i]) = raw[i]
    BY <1>1, <1>2, Escapes
  <1>6. PercentDecode(spelled) = [i \in 1..Len(raw) |-> raw[i]]
    BY <1>3, <1>5 DEF PercentDecode
  <1>7. raw = [i \in 1..Len(raw) |-> raw[i]]
    BY <1>1
  <1> QED
    BY <1>4, <1>6, <1>7

\* full is raw below dir; and an answer that is none of three.
Below(dir, raw, full) == full = Spelled(dir) \o (IF dir = <<>> THEN <<>> ELSE <<"/">>) \o raw
Decided(answer) == answer.kind \notin {"absolute", "too long", "empty"}

\* The entry stored below a directory is found from there.
LEMMA StoredIsFound ==
    ASSUME NEW dir \in Seq(Seq(Bytes)), IsNormal(dir), NEW raw \in Seq(Bytes),
           NEW full, Below(dir, raw, full),
           Normalize(<<>>, full).kind = "entry", Decided(Normalize(dir, raw))
    PROVE  Normalize(dir, raw) = Normalize(<<>>, full)
  <1>1. "/" \in Bytes /\ <<>> \in Seq(Seq(Bytes)) /\ IsNormal(<<>>)
    <2>1. "/" \in Bytes
      BY DEF Bytes
    <2>2. <<>> \in Seq(Seq(Bytes)) /\ IsNormal(<<>>)
      BY DEF IsNormal
    <2> QED
      BY <2>1, <2>2
  <1>2. PICK text \in Seq(Bytes) : text = Spelled(dir)
    BY <1>1, SpelledGrows
  <1>3. IsClean(dir)
    BY DEF IsClean, IsNormal, IsSeparator
  <1>4. /\ full \in Seq(Bytes) /\ Split(full) = dir \o Split(raw)
        /\ \A i \in DOMAIN raw : \E j \in DOMAIN full : full[j] = raw[i]
    <2>1. CASE dir = <<>>
      <3>1. Spelled(dir) = <<>>
        BY <1>1, <2>1, SpelledGrows
      <3>2. full = raw
        <4>1. full = <<>> \o <<>> \o raw
          BY <2>1, <3>1 DEF Below
        <4> QED
          BY <4>1
      <3>3. PICK q \in Seq(Seq(Bytes)) : q = Split(raw)
        BY SplitGrows DEF PiecesOf
      <3>4. dir \o q = q
        BY <2>1
      <3> QED
        BY <3>2, <3>3, <3>4
    <2>2. CASE dir # <<>>
      <3>1. full = text \o <<"/">> \o raw
        BY <1>2, <2>2 DEF Below
      <3>2. Split(full) = Split(text) \o Split(raw)
        BY <1>1, <3>1, SplitJoin
      <3>3. Split(text) = dir
        BY <1>1, <1>2, <1>3, <2>2, SplitSpelled
      <3>4. PICK t \in Seq(Bytes) : t = text \o <<"/">>
        <4>1. <<"/">> \in Seq(Bytes)
          BY <1>1
        <4>2. text \o <<"/">> \in Seq(Bytes)
          BY <4>1
        <4> QED
          BY <4>2
      <3>5. Joins(full, t, raw, Bytes)
        BY <3>1, <3>4, Concat
      <3>6. ASSUME NEW i \in DOMAIN raw PROVE Len(t) + i \in DOMAIN full /\ full[Len(t) + i] = raw[i]
        <4>1. i \in 1..Len(raw) /\ Len(raw) \in Nat /\ Len(t) \in Nat
          OBVIOUS
        <4>2. Len(t) + i \in 1..(Len(t) + Len(raw)) /\ ~(Len(t) + i <= Len(t)) /\ (Len(t) + i) - Len(t) = i
          BY <4>1
        <4> QED
          BY <3>5, <4>2 DEF Joins
      <3> QED
        BY <3>2, <3>3, <3>5, <3>6 DEF Joins
    <2> QED
      BY <2>1, <2>2
  <1>5. Passes(<<>>, full)
    BY <1>1, <1>4, Normalized, Refusals
  <1>6. ~(\E i \in DOMAIN raw : raw[i] = "NUL")
    BY <1>4, <1>5 DEF Passes
  <1>7. Passes(dir, raw)
    <2>1. ASSUME ~Passes(dir, raw) PROVE FALSE
      <3>1. Refused(raw, Normalize(dir, raw))
        BY <2>1, Normalized
      <3> QED
        BY <1>6, <3>1, Refusals, Zenon DEF Decided
    <2> QED
      BY <2>1
  <1>8. PICK q \in Seq(Seq(Bytes)) : q = Split(raw)
    BY SplitGrows DEF PiecesOf
  <1>9. Walk(<<>>, dir \o q) = Walk(dir, q)
    BY WalkJoin
  <1>10. PICK at : at = Walk(dir, q)
    OBVIOUS
  <1>11. Normalize(dir, raw) = IF at.kind = "entry" /\ at.path = <<>> THEN Err("empty") ELSE at
    BY <1>7, <1>8, <1>10, Normalized
  <1>12. Normalize(<<>>, full) = IF at.kind = "entry" /\ at.path = <<>> THEN Err("empty") ELSE at
    <2>1. PICK root \in Seq(Seq(Bytes)) : root = <<>>
      BY <1>1
    <2>2. Walk(root, Split(full)) = at
      BY <1>4, <1>8, <1>9, <1>10, <2>1
    <2>3. Passes(root, full)
      BY <1>5, <2>1
    <2>4. Normalize(root, full) = IF at.kind = "entry" /\ at.path = <<>> THEN Err("empty") ELSE at
      BY <1>4, <2>2, <2>3, Normalized
    <2> QED
      BY <2>1, <2>4
  <1> QED
    BY <1>11, <1>12

\* Of a base directory and a string of tokens, HrefFindsEntry.
LEMMA EntryIsFound ==
    ASSUME PathState
    PROVE  HrefFindsEntry
  <1> DEFINE raw == PercentDecode(href)
             full == Spelled(base) \o (IF base = <<>> THEN <<>> ELSE <<"/">>) \o raw
             stored == CheckEntryName(full)
             spelled == [i \in DOMAIN raw |-> Escape[raw[i]]]
             found == ResolveHref(base, spelled)
  <1>1. raw \in Seq(Bytes) /\ base \in Seq(Seq(Bytes)) /\ IsNormal(base)
    BY DecodedBytes DEF PathState
  <1> HIDE DEF raw
  <1>2. WithoutFragment(spelled) = spelled /\ PercentDecode(spelled) = raw
    BY <1>1, SpelledHref
  <1>3. ASSUME stored.kind = "entry", found.kind \notin {"remote", "absolute", "too long", "empty"}
        PROVE  found = stored
    <2> HIDE DEF spelled, full
    <2>1. found = Normalize(base, raw)
      <3>1. found.kind \notin {"remote", "too long"}
        BY <1>3, Zenon
      <3>2. found = Normalize(base, PercentDecode(WithoutFragment(spelled)))
        BY <3>1, Resolved, Zenon
      <3> QED
        BY <1>2, <3>2
    <2>2. stored = Normalize(<<>>, full)
      BY <1>3, Checked
    <2>3. Decided(Normalize(base, raw))
      BY <1>3, <2>1, Zenon DEF Decided
    <2> HIDE DEF found, stored
    <2>4. Normalize(<<>>, full).kind = "entry"
      BY <1>3, <2>2
    <2> QED
      <3>1. Below(base, raw, full)
        BY DEF Below, full
      <3> QED
        BY <1>1, <2>1, <2>2, <2>3, <2>4, <3>1, StoredIsFound, Zenon
  <1> QED
    BY <1>3, Zenon DEF HrefFindsEntry, raw, Escape

-----------------------------------------------------------------------------
(* The strings of a behaviour.                                             *)

\* Every behaviour starts with one.
LEMMA PathStarts == Init => PathState
  <1>1. <<>> \in Seq(Seq(Bytes)) /\ IsNormal(<<>>) /\ <<>> \in Seq(Tokens)
    BY DEF IsNormal
  <1>2. \A dir \in BaseDirs : dir \in Seq(Seq(Bytes)) /\ IsNormal(dir)
    BY HrefAssumption DEF Segments
  <1>3. Init => base \in BaseDirs \cup {<<>>} /\ href = <<>>
    BY DEF Init, HrefInit
  <1> QED
    BY <1>1, <1>2, <1>3 DEF PathState

\* Every step leaves one.
LEMMA PathSteps ==
    PathState /\ [Next]_<<subject, limitVars, hrefVars, dateVars>> => PathState'
  <1> SUFFICES ASSUME PathState, [Next]_<<subject, limitVars, hrefVars, dateVars>> PROVE PathState'
    OBVIOUS
  <1>1. CASE WriteToken
    BY <1>1 DEF WriteToken, PathState
  <1>2. CASE UNCHANGED hrefVars
    BY <1>2 DEF hrefVars, PathState, IsNormal
  <1> QED
    BY <1>1, <1>2 DEF Next

\* For every set of tokens, base directory and length, and every string that
\* is put together of them, PathsAgree: what is accepted is a normal path and
\* is read again as the same, traversal is refused exactly where the steps up
\* outnumber the directories to leave, and an href finds the entry it spells
\* (href.rs resolve, normalize, check_entry_name).
THEOREM PathsAlwaysAgree == Spec => []PathsAgree
  <1>1. PathState => PathsAgree
    BY AcceptedHolds, TraversalHolds, EntryIsFound DEF PathsAgree
  <1> QED
    BY <1>1, PathStarts, PathSteps, PTL DEF Spec

-----------------------------------------------------------------------------
(* The calendar.                                                           *)

\* A day there is in the calendar.
Years == 1..9999
IsDay(y, m, d) == y \in Years /\ m \in 1..12 /\ d \in 1..DaysInMonth(y, m)

\* Months have the lengths the reader gives them.
LEMMA MonthsAgree ==
    ASSUME NEW y \in Nat, NEW m \in 1..12
    PROVE  MonthLengths(y)[m] = DaysInMonth(y, m) /\ DaysInMonth(y, m) \in 28..31
  <1>1. m \in {1, 3, 5, 7, 8, 10, 12} \/ m \in {4, 6, 9, 11} \/ m = 2
    OBVIOUS
  <1>2. CASE m \in {1, 3, 5, 7, 8, 10, 12}
    BY <1>2 DEF MonthLengths, DaysInMonth
  <1>3. CASE m \in {4, 6, 9, 11}
    BY <1>3 DEF MonthLengths, DaysInMonth
  <1>4. CASE m = 2
    BY <1>4 DEF MonthLengths, DaysInMonth
  <1> QED
    BY <1>1, <1>2, <1>3, <1>4

\* The conversion, by its parts: the year that starts in March, the days before
\* it and the days before the month.
Shifted(y, m) == IF m <= 2 THEN y - 1 ELSE y
YearStart(y) ==
    LET era == y \div 400
        yearOfEra == y - era * 400
    IN  era * 146097 + yearOfEra * 365 + yearOfEra \div 4 - yearOfEra \div 100
MonthStart(m) == (153 * (IF m > 2 THEN m - 3 ELSE m + 9) + 2) \div 5

Epoch == 719468   \* where the first of January 1970 is, counted from March 0000

LEMMA Civil ==
    ASSUME NEW y \in Nat, NEW m \in 1..12, NEW d \in Nat
    PROVE  DaysFromCivil(y, m, d) = YearStart(Shifted(y, m)) + (MonthStart(m) + d - 1) - Epoch /\ Epoch \in Nat
  BY SMT DEF DaysFromCivil, YearStart, Shifted, MonthStart, Epoch

\* The year from March to February has the leap day of the next one.
LEMMA YearsGrow ==
    ASSUME NEW y \in Nat
    PROVE  YearStart(y + 1) = YearStart(y) + (IF Leap(y + 1) THEN 366 ELSE 365) /\ YearStart(y) \in Int
  BY SMT DEF YearStart, Leap

\* The days before a month, from March on.
LEMMA MonthsGrow ==
    /\ MonthStart(3) = 0 /\ MonthStart(4) = 31 /\ MonthStart(5) = 61 /\ MonthStart(6) = 92
    /\ MonthStart(7) = 122 /\ MonthStart(8) = 153 /\ MonthStart(9) = 184 /\ MonthStart(10) = 214
    /\ MonthStart(11) = 245 /\ MonthStart(12) = 275 /\ MonthStart(1) = 306 /\ MonthStart(2) = 337
  BY DEF MonthStart

\* What follows a day is one more.
CountsOn(y, m, d) ==
    /\ d < DaysInMonth(y, m) =>
         DaysFromCivil(y, m, d + 1) = DaysFromCivil(y, m, d) + 1
    /\ d = DaysInMonth(y, m) /\ m < 12 =>
         DaysFromCivil(y, m + 1, 1) = DaysFromCivil(y, m, d) + 1
    /\ d = DaysInMonth(y, m) /\ m = 12 =>
         DaysFromCivil(y + 1, 1, 1) = DaysFromCivil(y, m, d) + 1

\* The conversion counts days: one more for the day that follows.
LEMMA DayAfter ==
    ASSUME NEW y, NEW m, NEW d, IsDay(y, m, d)
    PROVE  CountsOn(y, m, d) /\ DaysFromCivil(y, m, d) \in Int
  <1>1. y \in Nat /\ y - 1 \in Nat /\ m \in 1..12 /\ d \in 1..DaysInMonth(y, m)
    BY SMT DEF IsDay, Years
  <1>2. DaysInMonth(y, m) \in 28..31
    BY <1>1, MonthsAgree
  <1>3. d \in Nat /\ m \in Nat /\ m \in 1..12 /\ y \in Nat /\ y - 1 \in Nat /\ (y - 1) + 1 = y
    BY <1>1, <1>2
  <1>4. MonthStart(m) \in Int /\ YearStart(Shifted(y, m)) \in Int
    BY <1>3, MonthsGrow, YearsGrow DEF Shifted
  <1>5. PICK before \in Int, start \in Int : before = YearStart(Shifted(y, m)) /\ start = MonthStart(m)
    BY <1>4
  <1>6. DaysFromCivil(y, m, d) = before + (start + d - 1) - Epoch /\ Epoch \in Nat
    BY <1>3, <1>5, Civil
  <1>7. DaysFromCivil(y, m, d + 1) = DaysFromCivil(y, m, d) + 1 /\ DaysFromCivil(y, m, d) \in Int
    <2>1. PICK e \in Nat : e = d + 1
      BY <1>3
    <2>2. DaysFromCivil(y, m, e) = before + (start + e - 1) - Epoch
      BY <1>3, <1>5, Civil
    <2> QED
      BY <1>3, <1>6, <2>1, <2>2
  <1>8. ASSUME d = DaysInMonth(y, m), m < 12
        PROVE  DaysFromCivil(y, m + 1, 1) = DaysFromCivil(y, m, d) + 1
    <2>1. CASE m = 2
      <3>1. d = IF Leap(y) THEN 29 ELSE 28
        BY <1>8, <2>1 DEF DaysInMonth
      <3>2. Shifted(y, m) = y - 1 /\ Shifted(y, m + 1) = y /\ MonthStart(m + 1) = 0 /\ MonthStart(m) = 337
        BY <2>1, MonthsGrow DEF Shifted
      <3>3. YearStart(y) = YearStart(y - 1) + (IF Leap(y) THEN 366 ELSE 365) /\ YearStart(y - 1) \in Int
        BY <1>3, YearsGrow
      <3>4. PICK m2 \in 1..12 : m2 = m + 1
        BY <2>1
      <3>5. DaysFromCivil(y, m2, 1) = YearStart(y) + (0 + 1 - 1) - Epoch
        BY <1>3, <3>2, <3>4, Civil
      <3> QED
        BY <1>3, <1>5, <1>6, <3>1, <3>2, <3>3, <3>4, <3>5
    <2>2. CASE m # 2
      <3>1. Shifted(y, m + 1) = Shifted(y, m)
        BY <1>3, <2>2 DEF Shifted
      <3>2. MonthStart(m + 1) = MonthStart(m) + d
        <4>1. CASE m \in {1, 3, 5, 7, 8, 10}
          <5>1. d = 31
            BY <1>8, <4>1 DEF DaysInMonth
          <5> QED
            BY <4>1, <5>1, MonthsGrow
        <4>2. CASE m \in {4, 6, 9, 11}
          <5>1. d = 30
            BY <1>8, <4>2 DEF DaysInMonth
          <5>2. m = 4 \/ m = 6 \/ m = 9 \/ m = 11
            BY <4>2
          <5>3. CASE m = 4
            BY <5>1, <5>3, MonthsGrow
          <5>4. CASE m = 6
            BY <5>1, <5>4, MonthsGrow
          <5>5. CASE m = 9
            BY <5>1, <5>5, MonthsGrow
          <5>6. CASE m = 11
            BY <5>1, <5>6, MonthsGrow
          <5> QED
            BY <5>2, <5>3, <5>4, <5>5, <5>6
        <4> QED
          BY <1>3, <1>8, <2>2, <4>1, <4>2
      <3>3. PICK m2 \in 1..12 : m2 = m + 1
        BY <1>3, <1>8
      <3>4. DaysFromCivil(y, m2, 1) = before + ((start + d) + 1 - 1) - Epoch
        BY <1>3, <1>5, <3>1, <3>2, <3>3, Civil
      <3> QED
        BY <1>3, <1>6, <3>3, <3>4
    <2> QED
      BY <2>1, <2>2
  <1>9. ASSUME d = DaysInMonth(y, m), m = 12
        PROVE  DaysFromCivil(y + 1, 1, 1) = DaysFromCivil(y, m, d) + 1
    <2>1. d = 31
      BY <1>9 DEF DaysInMonth
    <2>2. Shifted(y, m) = y /\ Shifted(y + 1, 1) = y /\ MonthStart(1) = 306 /\ MonthStart(m) = 275
      BY <1>3, <1>9, MonthsGrow DEF Shifted
    <2>3. PICK z \in Nat : z = y + 1
      BY <1>3
    <2>4. YearStart(y) \in Int
      BY <1>3, YearsGrow
    <2>5. DaysFromCivil(z, 1, 1) = YearStart(y) + (306 + 1 - 1) - Epoch
      BY <2>2, <2>3, Civil
    <2> QED
      BY <1>5, <1>6, <2>1, <2>2, <2>3, <2>4, <2>5
  <1> QED
    BY <1>7, <1>8, <1>9 DEF CountsOn

\* The conversion of a first of January.
LEMMA YearsAgree ==
    ASSUME NEW y \in Years
    PROVE  DaysFromCivil(y, 1, 1) = NewYear(y)
  <1>1. y \in 1..9999
    BY SMT DEF Years
  <1>2. PICK z \in Nat : z = y - 1
    BY <1>1
  <1>3. Shifted(y, 1) = z /\ MonthStart(1) = 306
    BY <1>2, MonthsGrow DEF Shifted
  <1>4. YearStart(z) = 365 * z + z \div 4 - z \div 100 + z \div 400
    BY SMT DEF YearStart
  <1>5. DaysFromCivil(y, 1, 1) = YearStart(z) + (306 + 1 - 1) - Epoch
    <2>1. y \in Nat /\ 1 \in 1..12 /\ 1 \in Nat
      BY <1>1
    <2> QED
      BY <1>3, <2>1, Civil
  <1>6. z \div 4 \in Int /\ z \div 100 \in Int /\ z \div 400 \in Int
    OBVIOUS
  <1> QED
    BY <1>2, <1>4, <1>5, <1>6, SMT DEF NewYear, Epoch

\* The second is the day that follows the first, unless it leaves the calendar.
Follows(y, m, d, y2, m2, d2) ==
    /\ Following(<<y, m, d>>) = <<y2, m2, d2>>
    /\ y2 <= 9999 => IsDay(y2, m2, d2)
    /\ DaysFromCivil(y2, m2, d2) = DaysFromCivil(y, m, d) + 1

\* There is one.
LEMMA FollowingDay ==
    ASSUME NEW y, NEW m, NEW d, IsDay(y, m, d)
    PROVE  \E y2 \in Nat, m2 \in Nat, d2 \in Nat : Follows(y, m, d, y2, m2, d2)
  <1>1. y \in Years /\ m \in 1..12 /\ d \in 1..DaysInMonth(y, m) /\ y \in Nat
    BY SMT DEF IsDay, Years
  <1>2. MonthLengths(y)[m] = DaysInMonth(y, m) /\ DaysInMonth(y, m) \in 28..31 /\ d \in Nat
    BY <1>1, MonthsAgree
  <1>3. CountsOn(y, m, d)
    BY DayAfter
  <1>4. CASE d < DaysInMonth(y, m)
    <2>1. Following(<<y, m, d>>) = <<y, m, d + 1>>
      BY <1>2, <1>4 DEF Following
    <2>2. IsDay(y, m, d + 1) /\ d + 1 \in Nat /\ m \in Nat
      BY <1>1, <1>2, <1>4 DEF IsDay
    <2>3. DaysFromCivil(y, m, d + 1) = DaysFromCivil(y, m, d) + 1
      BY <1>3, <1>4 DEF CountsOn
    <2>4. Follows(y, m, d, y, m, d + 1)
      BY <2>1, <2>2, <2>3 DEF Follows
    <2> QED
      BY <1>1, <2>2, <2>4
  <1>5. CASE d = DaysInMonth(y, m) /\ m < 12
    <2>1. Following(<<y, m, d>>) = <<y, m + 1, 1>>
      BY <1>2, <1>5 DEF Following
    <2>2. IsDay(y, m + 1, 1) /\ m + 1 \in Nat
      BY <1>1, <1>5, MonthsAgree DEF IsDay
    <2>3. DaysFromCivil(y, m + 1, 1) = DaysFromCivil(y, m, d) + 1
      BY <1>3, <1>5 DEF CountsOn
    <2>4. Follows(y, m, d, y, m + 1, 1)
      BY <2>1, <2>2, <2>3 DEF Follows
    <2> QED
      BY <1>1, <2>2, <2>4
  <1>6. CASE d = DaysInMonth(y, m) /\ m = 12
    <2>1. Following(<<y, m, d>>) = <<y + 1, 1, 1>>
      BY <1>2, <1>6 DEF Following
    <2>2. /\ y + 1 \in Nat
          /\ y + 1 <= 9999 => IsDay(y + 1, 1, 1)
      <3>1. PICK z \in Nat : z = y + 1
        BY <1>1
      <3>2. DaysInMonth(z, 1) \in 28..31
        BY MonthsAgree
      <3>3. z <= 9999 => z \in Years
        BY <1>1, <3>1, SMT DEF Years
      <3> QED
        BY <3>1, <3>2, <3>3 DEF IsDay
    <2>3. DaysFromCivil(y + 1, 1, 1) = DaysFromCivil(y, m, d) + 1
      BY <1>3, <1>6 DEF CountsOn
    <2>4. Follows(y, m, d, y + 1, 1, 1)
      BY <2>1, <2>2, <2>3 DEF Follows
    <2> QED
      BY <1>1, <2>2, <2>4
  <1> QED
    BY <1>1, <1>2, <1>4, <1>5, <1>6

\* The first fields of a date.
LEMMA Cut ==
    ASSUME NEW a, NEW b, NEW c
    PROVE  SubSeq(<<a, b, c>>, 1, 2) = <<a, b>> /\ SubSeq(<<a, b, c>>, 1, 1) = <<a>>
  <1>1. PICK s : s = <<a, b, c>>
    OBVIOUS
  <1>2. s \in Seq({a, b, c}) /\ Len(s) = 3 /\ s[1] = a /\ s[2] = b
    BY <1>1
  <1>3. PICK p, q : p = SubSeq(s, 1, 2) /\ q = SubSeq(s, 1, 1)
    OBVIOUS
  <1>4. p \in Seq({a, b, c}) /\ Len(p) = 2 /\ p[1] = a /\ p[2] = b
    BY <1>2, <1>3
  <1>5. q \in Seq({a, b, c}) /\ Len(q) = 1 /\ q[1] = a
    BY <1>2, <1>3
  <1>6. p = <<a, b>>
    <2>1. PICK w : w = <<a, b>>
      OBVIOUS
    <2>2. w \in Seq({a, b, c}) /\ Len(w) = 2 /\ w[1] = a /\ w[2] = b
      BY <2>1
    <2>3. \A i \in 1..Len(p) : p[i] = w[i]
      BY <1>4, <2>2
    <2> QED
      BY <1>4, <2>1, <2>2, <2>3, SeqEqual
  <1>7. q = <<a>>
    <2>1. PICK w : w = <<a>>
      OBVIOUS
    <2>2. w \in Seq({a, b, c}) /\ Len(w) = 1 /\ w[1] = a
      BY <2>1
    <2>3. \A i \in 1..Len(q) : q[i] = w[i]
      BY <1>5, <2>2
    <2> QED
      BY <1>5, <2>1, <2>2, <2>3, SeqEqual
  <1> QED
    BY <1>1, <1>3, <1>6, <1>7

-----------------------------------------------------------------------------
(* The reader.                                                             *)

\* Fields of one or two digits.
LEMMA FieldsRead ==
    ASSUME NEW fields, NEW default, NEW i \in Nat
    PROVE  /\ i > Len(fields) => TwoDigits(fields, i, default) = default
           /\ \A n : ~(i > Len(fields)) /\ fields[i] = Digits(2, n) => TwoDigits(fields, i, default) = n
  BY DEF TwoDigits, Digits

\* A date by its fields.
LEMMA PartsRead ==
    ASSUME NEW fields, Len(fields) \in 1..3, NEW y, fields[1] = Digits(4, y),
           NEW m, TwoDigits(fields, 2, 1) = m, NEW d, TwoDigits(fields, 3, 1) = d
    PROVE  IsDay(y, m, d) => DateParts(fields) = <<y, m, d>>
  BY SMT DEF DateParts, Digits, IsDay, Years

\* A day is read as it is written, in full or truncated.
LEMMA DayRead ==
    ASSUME NEW y, NEW m, NEW d, IsDay(y, m, d)
    PROVE  /\ DateParts(<<Digits(4, y), Digits(2, m), Digits(2, d)>>) = <<y, m, d>>
           /\ DateParts(<<Digits(4, y), Digits(2, m)>>) = <<y, m, 1>>
           /\ DateParts(<<Digits(4, y)>>) = <<y, 1, 1>>
  <1>1. IsDay(y, m, 1) /\ IsDay(y, 1, 1)
    <2>1. y \in Years /\ y \in Nat /\ m \in 1..12 /\ 1 \in 1..12
      BY SMT DEF IsDay, Years
    <2>2. DaysInMonth(y, m) \in 28..31 /\ DaysInMonth(y, 1) \in 28..31
      BY <2>1, MonthsAgree
    <2> QED
      BY <2>1, <2>2 DEF IsDay
  <1>2. PICK full : full = <<Digits(4, y), Digits(2, m), Digits(2, d)>>
    OBVIOUS
  <1>3. PICK month : month = <<Digits(4, y), Digits(2, m)>>
    OBVIOUS
  <1>4. PICK year : year = <<Digits(4, y)>>
    OBVIOUS
  <1>5. /\ Len(full) = 3 /\ full[1] = Digits(4, y) /\ full[2] = Digits(2, m) /\ full[3] = Digits(2, d)
        /\ Len(month) = 2 /\ month[1] = Digits(4, y) /\ month[2] = Digits(2, m)
        /\ Len(year) = 1 /\ year[1] = Digits(4, y)
    BY <1>2, <1>3, <1>4
  <1>6. DateParts(full) = <<y, m, d>>
    <2>1. TwoDigits(full, 2, 1) = m /\ TwoDigits(full, 3, 1) = d
      BY <1>5, FieldsRead
    <2> QED
      BY <1>5, <2>1, PartsRead
  <1>7. DateParts(month) = <<y, m, 1>>
    <2>1. TwoDigits(month, 2, 1) = m /\ TwoDigits(month, 3, 1) = 1
      BY <1>5, FieldsRead
    <2> QED
      BY <1>1, <1>5, <2>1, PartsRead
  <1>8. DateParts(year) = <<y, 1, 1>>
    <2>1. TwoDigits(year, 2, 1) = 1 /\ TwoDigits(year, 3, 1) = 1
      BY <1>5, FieldsRead
    <2> QED
      BY <1>1, <1>5, <2>1, PartsRead
  <1> QED
    BY <1>2, <1>3, <1>4, <1>6, <1>7, <1>8

\* A time of day by its fields.
LEMMA TimeRead ==
    ASSUME NEW clock, Len(clock.fields) \in 1..3, clock.fraction = <<>>,
           NEW h \in 0..23, TwoDigits(clock.fields, 1, 0) = h,
           NEW i \in 0..59, TwoDigits(clock.fields, 2, 0) = i, TwoDigits(clock.fields, 3, 0) = 0,
           NEW offset, SplitOffset(clock.zone) = <<offset>>
    PROVE  ClockParts(clock) = <<h, i, 0, Nanoseconds(<<>>), offset>>
  <1>1. \A k \in DOMAIN clock.fraction : clock.fraction[k] \in 0..9
    OBVIOUS
  <1>2. <<offset>> # None /\ <<offset>>[1] = offset /\ 0 \in 0..59
    BY DEF None
  <1> QED
    BY <1>1, <1>2 DEF ClockParts

\* An hour and a minute are read as they are written.
LEMMA ClockRead ==
    ASSUME NEW h \in 0..23, NEW i \in 0..59, NEW zone, NEW offset, SplitOffset(zone) = <<offset>>
    PROVE  ClockParts(At(h, i, zone)) = <<h, i, 0, Nanoseconds(<<>>), offset>>
  <1>1. PICK fields : fields = <<Digits(2, h), Digits(2, i)>>
    OBVIOUS
  <1>2. PICK clock : clock = At(h, i, zone)
    OBVIOUS
  <1>3. clock.fields = fields /\ clock.fraction = <<>> /\ clock.zone = zone
    BY <1>1, <1>2 DEF At
  <1>4. Len(fields) = 2 /\ fields[1] = Digits(2, h) /\ fields[2] = Digits(2, i)
    BY <1>1
  <1>5. TwoDigits(fields, 1, 0) = h /\ TwoDigits(fields, 2, 0) = i /\ TwoDigits(fields, 3, 0) = 0
    BY <1>4, FieldsRead
  <1>6. /\ Len(clock.fields) \in 1..3 /\ TwoDigits(clock.fields, 1, 0) = h
        /\ TwoDigits(clock.fields, 2, 0) = i /\ TwoDigits(clock.fields, 3, 0) = 0
        /\ SplitOffset(clock.zone) = <<offset>>
    BY <1>3, <1>4, <1>5
  <1>7. ClockParts(clock) = <<h, i, 0, Nanoseconds(<<>>), offset>>
    BY <1>3, <1>6, TimeRead
  <1> QED
    BY <1>2, <1>7

Minutes(sign, h, i) == sign * (h * 60 + i)
IsEast(zone, minutes) == SplitOffset(zone) = <<minutes>>

\* A zone is so many minutes east.
LEMMA ZoneRead ==
    ASSUME NEW sign \in Int, NEW h \in 0..23, NEW i \in 0..59
    PROVE  IsEast(East(sign, h, i), Minutes(sign, h, i))
  <1>1. PICK fields : fields = <<Digits(2, h), Digits(2, i)>>
    OBVIOUS
  <1>2. Len(fields) = 2 /\ fields[1] = Digits(2, h) /\ fields[2] = Digits(2, i)
    BY <1>1
  <1>3. TwoDigits(fields, 1, 0) = h /\ TwoDigits(fields, 2, 0) = i
    BY <1>2, FieldsRead
  <1>4. PICK zone : zone = East(sign, h, i)
    OBVIOUS
  <1>5. zone.kind = "sign" /\ zone.sign = sign /\ zone.fields = fields
    BY <1>1, <1>4 DEF East
  <1>6. SplitOffset(zone) = <<Minutes(sign, h, i)>>
    BY <1>3, <1>5 DEF SplitOffset, Minutes
  <1> QED
    BY <1>4, <1>6 DEF IsEast

\* UTC is no minutes east.
LEMMA UtcRead == SplitOffset(Utc) = <<0>>
  BY DEF SplitOffset, Utc

\* A time of day is no missing one.
LEMMA ClockGiven == \A h, i, zone : At(h, i, zone) # None
  <1> SUFFICES ASSUME NEW h, NEW i, NEW zone, At(h, i, zone) = None PROVE FALSE
    OBVIOUS
  <1>1. "fields" \in DOMAIN At(h, i, zone)
    BY DEF At
  <1>2. DOMAIN None = {}
    BY DEF None
  <1> QED
    BY <1>1, <1>2

DaySeconds == 86400
Seconds(h, i, offset) == (h * 60 + i - offset) * 60

\* A date and a time are read as the seconds s of day number n.
ReadAs(fields, clock, n, s) ==
    Parse([date |-> fields, clock |-> clock]) = <<n + s \div DaySeconds, s % DaySeconds, Nanoseconds(<<>>)>>

\* What is made of a date without a time.
LEMMA DateOnly ==
    ASSUME NEW fields, NEW y, NEW m, NEW d, DateParts(fields) = <<y, m, d>>, DaysFromCivil(y, m, d) \in Int
    PROVE  Parse([date |-> fields, clock |-> None]) = <<DaysFromCivil(y, m, d), 0, 0>>
  <1>1. 0 * 3600 + 0 * 60 + 0 - 0 * 60 = 0 /\ 0 \div 86400 = 0 /\ 0 % 86400 = 0
    BY SMT
  <1>2. <<y, m, d>> # None /\ <<0, 0, 0, 0, 0>> # None
    BY DEF None
  <1> QED
    BY <1>1, <1>2, SMT DEF Parse

\* What is made of a date with a time.
LEMMA DateAndTime ==
    ASSUME NEW fields, NEW y, NEW m, NEW d, DateParts(fields) = <<y, m, d>>, DaysFromCivil(y, m, d) \in Int,
           NEW h \in 0..23, NEW i \in 0..59, NEW zone, NEW offset \in Int, SplitOffset(zone) = <<offset>>,
           NEW seconds, Seconds(h, i, offset) = seconds
    PROVE  ReadAs(fields, At(h, i, zone), DaysFromCivil(y, m, d), seconds)
  <1>1. ClockParts(At(h, i, zone)) = <<h, i, 0, Nanoseconds(<<>>), offset>>
    BY ClockRead
  <1>2. h * 3600 + i * 60 + 0 - offset * 60 = seconds
    BY SMT DEF Seconds
  <1>3. <<y, m, d>> # None /\ <<h, i, 0, Nanoseconds(<<>>), offset>> # None /\ At(h, i, zone) # None
    BY ClockGiven DEF None
  <1>4. PICK hms : hms = <<h, i, 0, Nanoseconds(<<>>), offset>>
    OBVIOUS
  <1>5. hms[1] = h /\ hms[2] = i /\ hms[3] = 0 /\ hms[4] = Nanoseconds(<<>>) /\ hms[5] = offset
    BY <1>4
  <1>6. PICK ymd : ymd = <<y, m, d>>
    OBVIOUS
  <1>7. ymd[1] = y /\ ymd[2] = m /\ ymd[3] = d
    BY <1>6
  <1>8. PICK clock : clock = At(h, i, zone)
    OBVIOUS
  <1>9. DateParts(fields) = ymd /\ ClockParts(clock) = hms /\ ymd # None /\ hms # None /\ clock # None
    BY <1>1, <1>3, <1>4, <1>6, <1>8
  <1>10. PICK text : text = [date |-> fields, clock |-> clock]
    OBVIOUS
  <1>11. text.date = fields /\ text.clock = clock
    BY <1>10
  <1>12. Parse(text) =
            <<DaysFromCivil(ymd[1], ymd[2], ymd[3])
                + (hms[1] * 3600 + hms[2] * 60 + hms[3] - hms[5] * 60) \div 86400,
              (hms[1] * 3600 + hms[2] * 60 + hms[3] - hms[5] * 60) % 86400, hms[4]>>
    BY <1>9, <1>11, SMT DEF Parse
  <1> QED
    BY <1>2, <1>5, <1>7, <1>8, <1>10, <1>12, SMT DEF DaySeconds, ReadAs

\* What is not read as a date, or as a time, is not read.
LEMMA NotRead ==
    ASSUME NEW fields, NEW clock
    PROVE  /\ DateParts(fields) = None => Parse([date |-> fields, clock |-> clock]) = None
           /\ clock # None /\ ClockParts(clock) = None => Parse([date |-> fields, clock |-> clock]) = None
  BY DEF Parse

-----------------------------------------------------------------------------
(* The properties, of a day.                                               *)

\* The walk is at a day of the calendar, and has counted the days to it.
DateState ==
    /\ date = <<date[1], date[2], date[3]>>
    /\ IsDay(date[1], date[2], date[3])
    /\ days = DaysFromCivil(date[1], date[2], date[3])

\* There, CalendarAgrees.
LEMMA CalendarHolds ==
    ASSUME DateState
    PROVE  CalendarAgrees
  <1>1. PICK y, m, d : date = <<y, m, d>> /\ IsDay(y, m, d) /\ days = DaysFromCivil(y, m, d)
    BY DEF DateState
  <1>2. /\ DateParts(<<Digits(4, y), Digits(2, m), Digits(2, d)>>) = <<y, m, d>>
        /\ DateParts(<<Digits(4, y), Digits(2, m)>>) = <<y, m, 1>>
        /\ DateParts(<<Digits(4, y)>>) = <<y, 1, 1>>
    BY <1>1, DayRead
  <1>3. days \in Int
    BY <1>1, DayAfter
  <1>4. Written(date) = <<Digits(4, y), Digits(2, m), Digits(2, d)>>
    BY <1>1 DEF Written
  <1>5. Parse([date |-> Written(date), clock |-> None]) = <<days, 0, 0>>
    BY <1>1, <1>2, <1>3, <1>4, DateOnly
  <1>6. ASSUME d = 1
        PROVE  Parse([date |-> SubSeq(Written(date), 1, 2), clock |-> None]) = <<days, 0, 0>>
    <2>1. PICK fields : fields = <<Digits(4, y), Digits(2, m)>>
      OBVIOUS
    <2>2. SubSeq(Written(date), 1, 2) = fields
      BY <1>4, <2>1, Cut
    <2>3. DateParts(fields) = <<y, m, 1>> /\ DaysFromCivil(y, m, 1) = days
      BY <1>1, <1>2, <1>6, <2>1
    <2>4. Parse([date |-> fields, clock |-> None]) = <<days, 0, 0>>
      BY <1>3, <2>3, DateOnly
    <2> QED
      BY <2>2, <2>4
  <1>7. ASSUME m = 1, d = 1
        PROVE  Parse([date |-> SubSeq(Written(date), 1, 1), clock |-> None]) = <<days, 0, 0>>
    <2>1. PICK fields : fields = <<Digits(4, y)>>
      OBVIOUS
    <2>2. SubSeq(Written(date), 1, 1) = fields
      BY <1>4, <2>1, Cut
    <2>3. DateParts(fields) = <<y, 1, 1>> /\ DaysFromCivil(y, 1, 1) = days
      BY <1>1, <1>2, <1>7, <2>1
    <2>4. Parse([date |-> fields, clock |-> None]) = <<days, 0, 0>>
      BY <1>3, <2>3, DateOnly
    <2> QED
      BY <2>2, <2>4
  <1> QED
    BY <1>1, <1>5, <1>6, <1>7 DEF CalendarAgrees

\* A time that is x minutes before midnight: its hour and minute, and what is
\* left of a day when x minutes are taken from it or added.
LateTime(x, late) ==
    /\ late \div 60 \in 0..23 /\ late % 60 \in 0..59
    /\ \A h \in 0..23, i \in 0..59 :
          h = late \div 60 /\ i = late % 60 =>
             Seconds(h, i, 0) = late * 60 /\ Seconds(h, i, -x) = DaySeconds
    /\ Seconds(0, 0, x) = -(x * 60) /\ Seconds(0, 0, 0) = 0
    /\ (-(x * 60)) \div DaySeconds = -1 /\ (-(x * 60)) % DaySeconds = late * 60
    /\ (late * 60) \div DaySeconds = 0 /\ (late * 60) % DaySeconds = late * 60
    /\ DaySeconds \div DaySeconds = 1 /\ DaySeconds % DaySeconds = 0
    /\ 0 \div DaySeconds = 0 /\ 0 % DaySeconds = 0

Complete(x, late) == x \in 1..1439 /\ late = 1440 - x

\* That is so of every x.
LEMMA LateTimes ==
    ASSUME NEW x \in Nat, NEW late, Complete(x, late)
    PROVE  LateTime(x, late)
  <1>1. x \in 1..1439 /\ late = 1440 - x
    BY SMT DEF Complete
  <1>2. PICK t \in Nat : t = late /\ t \in 1..1439
    BY <1>1, SMT
  <1>3. t \div 60 \in 0..23 /\ t % 60 \in 0..59 /\ (t \div 60) * 60 + (t % 60) = t
    BY <1>2, SMT
  <1>4. ASSUME NEW h \in 0..23, NEW i \in 0..59, h = late \div 60, i = late % 60
        PROVE  Seconds(h, i, 0) = late * 60 /\ Seconds(h, i, -x) = DaySeconds
    <2>1. h * 60 + i = late
      BY <1>2, <1>3, <1>4
    <2> QED
      BY <1>1, <2>1, SMT DEF Seconds, DaySeconds
  <1>5. Seconds(0, 0, x) = -(x * 60) /\ Seconds(0, 0, 0) = 0
    BY SMT DEF Seconds
  <1>6. (-(x * 60)) \div DaySeconds = -1 /\ (-(x * 60)) % DaySeconds = late * 60
    BY <1>1, SMT DEF DaySeconds
  <1>7. (late * 60) \div DaySeconds = 0 /\ (late * 60) % DaySeconds = late * 60
    BY <1>2, SMT DEF DaySeconds
  <1>8. /\ DaySeconds \div DaySeconds = 1 /\ DaySeconds % DaySeconds = 0
        /\ 0 \div DaySeconds = 0 /\ 0 % DaySeconds = 0
    BY SMT DEF DaySeconds
  <1> QED
    <2>1. late \div 60 \in 0..23 /\ late % 60 \in 0..59
      BY <1>2, <1>3
    <2>2. \A h \in 0..23, i \in 0..59 :
              h = late \div 60 /\ i = late % 60 =>
                 Seconds(h, i, 0) = late * 60 /\ Seconds(h, i, -x) = DaySeconds
      BY <1>4
    <2> QED
      BY <1>5, <1>6, <1>7, <1>8, <2>1, <2>2 DEF LateTime

\* The seconds s of day n are the second b of day a.
IsTime(n, s, a, b) == n + s \div DaySeconds = a /\ s % DaySeconds = b
IsRead(fields, clock, a, b) ==
    Parse([date |-> fields, clock |-> clock]) = <<a, b, Nanoseconds(<<>>)>>

\* What is read is that day and that second of it.
LEMMA ReadTo ==
    ASSUME NEW fields, NEW clock, NEW n, NEW s, ReadAs(fields, clock, n, s),
           NEW a, NEW b, IsTime(n, s, a, b)
    PROVE  IsRead(fields, clock, a, b)
  BY DEF ReadAs, IsTime, IsRead

\* There, OffsetsAgree.
LEMMA OffsetsHold ==
    ASSUME DateState
    PROVE  OffsetsAgree
  <1>1. PICK y, m, d : date = <<y, m, d>> /\ IsDay(y, m, d)
    BY DEF DateState
  <1>2. PICK y2 \in Nat, m2 \in Nat, d2 \in Nat : Follows(y, m, d, y2, m2, d2)
    BY <1>1, FollowingDay
  <1>3. /\ Following(date) = <<y2, m2, d2>>
        /\ y2 <= 9999 => IsDay(y2, m2, d2)
        /\ DaysFromCivil(y2, m2, d2) = DaysFromCivil(y, m, d) + 1
    BY <1>1, <1>2 DEF Follows
  <1>4. SUFFICES ASSUME NEW minutes \in {1, 30, 59}, NEW hours \in {0, 5, 23}, IsDay(y2, m2, d2),
                        NEW late, late = 1440 - (hours * 60 + minutes)
                 PROVE  /\ Parse([date |-> Written(Following(date)), clock |-> At(0, 0, East(1, hours, minutes))])
                             = Parse([date |-> Written(date), clock |-> At(late \div 60, late % 60, Utc)])
                        /\ Parse([date |-> Written(date),
                                  clock |-> At(late \div 60, late % 60, East(-1, hours, minutes))])
                             = Parse([date |-> Written(Following(date)), clock |-> At(0, 0, Utc)])
    BY <1>3 DEF OffsetsAgree
  <1>5. PICK today : today = DaysFromCivil(y, m, d)
    OBVIOUS
  <1>6. today \in Int /\ DaysFromCivil(y2, m2, d2) = today + 1 /\ DaysFromCivil(y2, m2, d2) \in Int
    BY <1>1, <1>3, <1>5, DayAfter
  <1>7. DateParts(Written(date)) = <<y, m, d>> /\ DateParts(Written(Following(date))) = <<y2, m2, d2>>
    <2>1. PICK fields, fields2 : /\ fields = <<Digits(4, y), Digits(2, m), Digits(2, d)>>
                                 /\ fields2 = <<Digits(4, y2), Digits(2, m2), Digits(2, d2)>>
      OBVIOUS
    <2>2. Written(date) = fields /\ Written(Following(date)) = fields2
      BY <1>1, <1>3, <2>1 DEF Written
    <2>3. IsDay(y2, m2, d2)
      BY <1>4
    <2>4. IsDay(y, m, d)
      BY <1>1
    <2>5. DateParts(fields) = <<y, m, d>>
      BY <2>1, <2>4, DayRead, Zenon
    <2>6. DateParts(fields2) = <<y2, m2, d2>>
      BY <2>1, <2>3, DayRead, Zenon
    <2> QED
      BY <2>2, <2>5, <2>6
  <1>8. PICK x \in Nat : x = hours * 60 + minutes
    OBVIOUS
  <1>9. /\ SplitOffset(Utc) = <<0>> /\ SplitOffset(East(1, hours, minutes)) = <<x>>
        /\ SplitOffset(East(-1, hours, minutes)) = <<-x>> /\ x \in Int /\ -x \in Int /\ 0 \in Int
        /\ 0 \in 0..23 /\ 0 \in 0..59
    <2>1. /\ hours \in 0..23 /\ minutes \in 0..59 /\ 1 \in Int /\ -1 \in Int
          /\ 1 * (hours * 60 + minutes) = x /\ -1 * (hours * 60 + minutes) = -x
      BY <1>8
    <2>2. PICK ahead \in Int, behind \in Int : ahead = 1 /\ behind = -1
      BY <2>1
    <2>3. hours \in 0..23 /\ minutes \in 0..59
      BY <2>1
    <2>4. IsEast(East(ahead, hours, minutes), Minutes(ahead, hours, minutes))
      BY <2>2, <2>3, ZoneRead, Zenon
    <2>5. IsEast(East(behind, hours, minutes), Minutes(behind, hours, minutes))
      BY <2>2, <2>3, ZoneRead, Zenon
    <2>6. Minutes(ahead, hours, minutes) = x /\ Minutes(behind, hours, minutes) = -x
      BY <1>8, <2>2 DEF Minutes
    <2>7. /\ SplitOffset(East(1, hours, minutes)) = <<x>>
          /\ SplitOffset(East(-1, hours, minutes)) = <<-x>>
      BY <2>2, <2>4, <2>5, <2>6, SMT DEF IsEast
    <2>8. x \in Int /\ -x \in Int /\ 0 \in Int /\ 0 \in 0..23 /\ 0 \in 0..59
      BY <1>8
    <2> QED
      BY <2>7, <2>8, UtcRead
  <1>10. Complete(x, late)
    BY <1>4, <1>8, SMT DEF Complete
  <1>11. LateTime(x, late)
    BY <1>10, LateTimes
  <1>12. PICK west \in Int : west = -x
    BY <1>9
  <1>13. PICK h \in 0..23, i \in 0..59 : h = late \div 60 /\ i = late % 60
    BY <1>11 DEF LateTime
  <1>14. PICK tomorrow \in Int : tomorrow = DaysFromCivil(y2, m2, d2)
    BY <1>6
  <1>15. PICK before, within : before = -(x * 60) /\ within = late * 60
    OBVIOUS
  <1>16. /\ Seconds(h, i, 0) = within /\ Seconds(h, i, west) = DaySeconds
         /\ Seconds(0, 0, x) = before /\ Seconds(0, 0, 0) = 0
    BY <1>13, <1>11, <1>12, <1>15 DEF LateTime
  <1>17. /\ tomorrow = today + 1
         /\ IsTime(tomorrow, before, today, within) /\ IsTime(today, within, today, within)
         /\ IsTime(today, DaySeconds, tomorrow, 0) /\ IsTime(tomorrow, 0, tomorrow, 0)
    BY <1>6, <1>11, <1>14, <1>15 DEF LateTime, IsTime
  <1>18. PICK fields, fields2 : fields = Written(date) /\ fields2 = Written(Following(date))
    OBVIOUS
  <1>19. /\ DateParts(fields) = <<y, m, d>> /\ DaysFromCivil(y, m, d) = today /\ DaysFromCivil(y, m, d) \in Int
         /\ DateParts(fields2) = <<y2, m2, d2>> /\ DaysFromCivil(y2, m2, d2) = tomorrow
         /\ DaysFromCivil(y2, m2, d2) \in Int
    BY <1>5, <1>6, <1>7, <1>14, <1>18
  <1>20. PICK ahead, behind : ahead = East(1, hours, minutes) /\ behind = East(-1, hours, minutes)
    OBVIOUS
  <1>21. /\ SplitOffset(Utc) = <<0>> /\ SplitOffset(ahead) = <<x>> /\ SplitOffset(behind) = <<west>>
         /\ x \in Int /\ 0 \in Int /\ 0 \in 0..23 /\ 0 \in 0..59
    BY <1>9, <1>12, <1>20
  <1>22. ReadAs(fields2, At(0, 0, ahead), tomorrow, before)
    BY <1>16, <1>19, <1>21, DateAndTime, Zenon
  <1>23. ReadAs(fields, At(h, i, Utc), today, within)
    BY <1>16, <1>19, <1>21, DateAndTime, Zenon
  <1>24. ReadAs(fields, At(h, i, behind), today, DaySeconds)
    BY <1>16, <1>19, <1>21, DateAndTime, Zenon
  <1>25. ReadAs(fields2, At(0, 0, Utc), tomorrow, 0)
    BY <1>16, <1>19, <1>21, DateAndTime, Zenon
  <1>26. IsRead(fields2, At(0, 0, ahead), today, within) /\ IsRead(fields, At(h, i, Utc), today, within)
    BY <1>22, <1>23, <1>17, ReadTo, Zenon
  <1>27. IsRead(fields, At(h, i, behind), tomorrow, 0) /\ IsRead(fields2, At(0, 0, Utc), tomorrow, 0)
    BY <1>24, <1>25, <1>17, ReadTo, Zenon
  <1>28. /\ Parse([date |-> fields2, clock |-> At(0, 0, ahead)]) = Parse([date |-> fields, clock |-> At(h, i, Utc)])
         /\ Parse([date |-> fields, clock |-> At(h, i, behind)]) = Parse([date |-> fields2, clock |-> At(0, 0, Utc)])
    BY <1>26, <1>27, SMT DEF IsRead
  <1> QED
    BY <1>13, <1>18, <1>20, <1>28

\* There, OnlyRealDates.
LEMMA RefusalsHold ==
    ASSUME DateState
    PROVE  OnlyRealDates
  <1>1. PICK y, m, d : date = <<y, m, d>> /\ IsDay(y, m, d)
    BY DEF DateState
  <1>2. y \in Years /\ y \in Nat /\ m \in 1..12 /\ d \in 1..DaysInMonth(y, m)
    BY <1>1, SMT DEF IsDay, Years
  <1>3. MonthLengths(y)[m] = DaysInMonth(y, m) /\ DaysInMonth(y, m) \in 28..31 /\ d \in Nat
    BY <1>2, MonthsAgree
  <1>4. date[1] = y /\ date[2] = m /\ date[3] = d
    BY <1>1
  <1>5. d = DaysInMonth(y, m) <=>
            Parse([date |-> <<Digits(4, y), Digits(2, m), Digits(2, d + 1)>>, clock |-> None]) = None
    <2>1. CASE d = DaysInMonth(y, m)
      <3>1. d + 1 \notin 1..DaysInMonth(y, m)
        BY <1>3, <2>1
      <3>2. DateParts(<<Digits(4, y), Digits(2, m), Digits(2, d + 1)>>) = None
        BY <1>2, <3>1 DEF DateParts, TwoDigits, Digits
      <3> QED
        BY <2>1, <3>2, NotRead
    <2>2. CASE d # DaysInMonth(y, m)
      <3>1. IsDay(y, m, d + 1) /\ d + 1 \in 1..DaysInMonth(y, m)
        BY <1>2, <1>3, <2>2 DEF IsDay
      <3>2. DateParts(<<Digits(4, y), Digits(2, m), Digits(2, d + 1)>>) = <<y, m, d + 1>>
        BY <3>1, DayRead
      <3>3. DaysFromCivil(y, m, d + 1) \in Int
        BY <3>1, DayAfter
      <3>4. Parse([date |-> <<Digits(4, y), Digits(2, m), Digits(2, d + 1)>>, clock |-> None])
              = <<DaysFromCivil(y, m, d + 1), 0, 0>>
        BY <3>2, <3>3, DateOnly
      <3>5. <<DaysFromCivil(y, m, d + 1), 0, 0>> # None
        BY DEF None
      <3> QED
        BY <2>2, <3>4, <3>5
    <2> QED
      BY <2>1, <2>2
  <1>6. DateParts(<<Digits(4, y), Digits(2, 13)>>) = None
    BY DEF DateParts, TwoDigits, Digits
  <1>7. DateParts(Append(Written(date), Digits(1, 1))) = None
    <2>1. PICK written, extra : written = Written(date) /\ extra = Digits(1, 1)
      OBVIOUS
    <2>2. written = <<Digits(4, y), Digits(2, m), Digits(2, d)>>
      BY <1>1, <2>1 DEF Written
    <2>3. written \in Seq({Digits(4, y), Digits(2, m), Digits(2, d), extra}) /\ Len(written) = 3
      BY <2>2
    <2>4. PICK fields : fields = Append(written, extra)
      OBVIOUS
    <2>5. PICK S : written \in Seq(S) /\ extra \in S
      BY <2>3
    <2>6. Append(Written(date), Digits(1, 1)) = fields
      BY <2>1, <2>4
    <2>7. Len(Append(written, extra)) = Len(written) + 1
      BY <2>5, AppendProperties, Zenon
    <2>8. Len(fields) = 4
      BY <2>3, <2>4, <2>7
    <2>9. Len(fields) \notin 1..3
      BY <2>8
    <2>10. DateParts(fields) = None
      BY <2>9 DEF DateParts
    <2> QED
      BY <2>6, <2>10
  <1>8. DateParts(<<Digits(5, y)>>) = None
    BY DEF DateParts, Digits
  <1>9. ASSUME NEW h \in Int, NEW i \in Int, NEW zone,
               h \notin 0..23 \/ i \notin 0..59 \/ SplitOffset(zone) = None
        PROVE  ClockParts(At(h, i, zone)) = None
    <2>1. PICK fields : fields = <<Digits(2, h), Digits(2, i)>>
      OBVIOUS
    <2>2. TwoDigits(fields, 1, 0) = h /\ TwoDigits(fields, 2, 0) = i
      BY <2>1 DEF TwoDigits, Digits
    <2>3. At(h, i, zone).fields = fields /\ At(h, i, zone).zone = zone
      BY <2>1 DEF At
    <2> QED
      BY <1>9, <2>2, <2>3 DEF ClockParts
  <1>10. SplitOffset(East(1, 24, 0)) = None /\ SplitOffset(East(-1, 0, 60)) = None
    BY DEF SplitOffset, East, TwoDigits, Digits
  <1>11. /\ ClockParts(At(24, 0, Utc)) = None /\ ClockParts(At(0, 60, Utc)) = None
         /\ ClockParts(At(0, 0, East(1, 24, 0))) = None /\ ClockParts(At(0, 0, East(-1, 0, 60))) = None
    BY <1>9, <1>10
  <1> DEFINE midnight == At(0, 0, Utc)
             spoiled == {[midnight EXCEPT !.fields = <<Junk, Digits(2, 0)>>],
                         [midnight EXCEPT !.fraction = <<5>>],
                         [midnight EXCEPT !.fields = Append(@, Digits(2, 0)), !.fraction = <<5, -1>>],
                         [midnight EXCEPT !.fields = @ \o <<Digits(2, 60)>>],
                         [midnight EXCEPT !.fields = @ \o <<Digits(2, 0), Digits(2, 0)>>]}
  <1>12. \A clock \in spoiled : ClockParts(clock) = None /\ clock # None
    <2>1. /\ DOMAIN midnight = {"fields", "fraction", "zone"}
          /\ midnight.fields = <<Digits(2, 0), Digits(2, 0)>> /\ midnight.fraction = <<>>
      BY DEF At
    <2>2. ASSUME NEW clock, "fields" \in DOMAIN clock PROVE clock # None
      <3>1. DOMAIN None = {}
        BY DEF None
      <3> QED
        BY <2>2, <3>1
    <2>3. ASSUME NEW clock, clock = [midnight EXCEPT !.fields = <<Junk, Digits(2, 0)>>]
          PROVE  ClockParts(clock) = None /\ clock # None
      <3>1. clock.fields = <<Junk, Digits(2, 0)>> /\ "fields" \in DOMAIN clock
        BY <2>1, <2>3
      <3>2. TwoDigits(clock.fields, 1, 0) = -1
        BY <3>1 DEF TwoDigits, Junk
      <3> QED
        BY <2>2, <3>1, <3>2 DEF ClockParts
    <2>4. ASSUME NEW clock,
                 clock = [midnight EXCEPT !.fields = Append(@, Digits(2, 0)), !.fraction = <<5, -1>>]
          PROVE  ClockParts(clock) = None /\ clock # None
      <3>1. clock.fraction = <<5, -1>> /\ "fields" \in DOMAIN clock
        BY <2>1, <2>4
      <3>2. 2 \in DOMAIN clock.fraction /\ clock.fraction[2] \notin 0..9
        BY <3>1
      <3> QED
        BY <2>2, <3>1, <3>2 DEF ClockParts
    <2>5. ASSUME NEW clock, clock = [midnight EXCEPT !.fields = @ \o <<Digits(2, 60)>>]
          PROVE  ClockParts(clock) = None /\ clock # None
      <3>1. clock.fields = <<Digits(2, 0), Digits(2, 0)>> \o <<Digits(2, 60)>> /\ "fields" \in DOMAIN clock
        BY <2>1, <2>5
      <3>2. PICK a, b, c : /\ a = <<Digits(2, 0), Digits(2, 0)>> /\ b = <<Digits(2, 60)>>
                           /\ c = a \o b
        OBVIOUS
      <3>3. /\ a \in Seq({Digits(2, 0), Digits(2, 60)}) /\ b \in Seq({Digits(2, 0), Digits(2, 60)})
            /\ Len(a) = 2 /\ Len(b) = 1 /\ b[1] = Digits(2, 60)
        BY <3>2
      <3>4. Len(c) = 3 /\ c[3] = Digits(2, 60) /\ clock.fields = c
        BY <3>1, <3>2, <3>3
      <3>5. TwoDigits(clock.fields, 3, 0) = 60
        <4>1. 3 \in Nat /\ ~(3 > Len(c))
          BY <3>4
        <4> QED
          BY <3>4, <4>1, FieldsRead
      <3> QED
        BY <2>2, <3>1, <3>5 DEF ClockParts
    <2>6. ASSUME NEW clock, clock = [midnight EXCEPT !.fields = @ \o <<Digits(2, 0), Digits(2, 0)>>]
          PROVE  ClockParts(clock) = None /\ clock # None
      <3>1. /\ clock.fields = <<Digits(2, 0), Digits(2, 0)>> \o <<Digits(2, 0), Digits(2, 0)>>
            /\ "fields" \in DOMAIN clock
        BY <2>1, <2>6
      <3>2. Len(clock.fields) = 4
        BY <3>1
      <3> QED
        BY <2>2, <3>1, <3>2 DEF ClockParts
    <2>7. ASSUME NEW clock, clock = [midnight EXCEPT !.fraction = << 5 >>]
          PROVE  ClockParts(clock) = None /\ clock # None
      <3>1. /\ clock.fraction # <<>> /\ "fields" \in DOMAIN clock
            /\ clock.fields = <<Digits(2, 0), Digits(2, 0)>>
        BY <2>1, <2>7
      <3>2. Len(clock.fields) # 3
        BY <3>1
      <3> QED
        BY <2>2, <3>1, <3>2 DEF ClockParts
    <2> HIDE DEF midnight
    <2> QED
      BY <2>3, <2>4, <2>5, <2>6, <2>7
  <1>13. ASSUME NEW clock \in {At(24, 0, Utc), At(0, 60, Utc), At(0, 0, East(1, 24, 0)), At(0, 0, East(-1, 0, 60))}
                              \cup spoiled
         PROVE  Parse([date |-> Written(date), clock |-> clock]) = None
    <2> HIDE DEF midnight, spoiled
    <2>1. ClockParts(clock) = None /\ clock # None
      BY <1>11, <1>12, ClockGiven
    <2> QED
      BY <2>1, NotRead
  <1>14. /\ Parse([date |-> <<Digits(4, y), Digits(2, 13)>>, clock |-> None]) = None
         /\ Parse([date |-> Append(Written(date), Digits(1, 1)), clock |-> None]) = None
         /\ Parse([date |-> <<Digits(5, y)>>, clock |-> None]) = None
    BY <1>6, <1>7, <1>8, NotRead
  <1> QED
    BY <1>3, <1>4, <1>5, <1>13, <1>14 DEF OnlyRealDates

-----------------------------------------------------------------------------
(* The days of a behaviour.                                                *)

\* Every behaviour starts at a day that is counted right.
LEMMA DateStarts == Init => DateState
  <1>1. ASSUME NEW s \in Starts, date = <<s.year, 1, 1>>, days = s.days PROVE DateState
    <2>1. s \in [year : Years, days : Int]
      BY DateAssumption, SMT DEF Years
    <2>2. s.year \in Years /\ s.days = NewYear(s.year)
      BY <2>1, DateAssumption
    <2>3. s.year \in Years /\ s.days = NewYear(s.year) /\ s.year \in Nat
      <3>1. \A y \in Years : y \in Nat
        BY SMT DEF Years
      <3> QED
        BY <2>2, <3>1, Zenon
    <2>4. PICK y \in Years : y = s.year
      BY <2>3
    <2>5. DaysInMonth(y, 1) \in 28..31 /\ y \in Nat
      BY <2>3, <2>4, MonthsAgree
    <2>6. IsDay(y, 1, 1)
      BY <2>5 DEF IsDay
    <2>7. DaysFromCivil(y, 1, 1) = NewYear(y)
      BY <2>4, YearsAgree, Zenon
    <2>8. days = DaysFromCivil(y, 1, 1) /\ date = <<y, 1, 1>>
      BY <1>1, <2>3, <2>4, <2>7
    <2> QED
      BY <2>6, <2>8 DEF DateState
  <1>2. ASSUME date = <<1970, 1, 1>>, days = 0 PROVE DateState
    <2>1. PICK y \in Years : y = 1970
      BY SMT DEF Years
    <2>2. NewYear(y) = 0 /\ y \in Nat
      BY <2>1, SMT DEF NewYear
    <2>3. DaysInMonth(y, 1) \in 28..31
      BY <2>2, MonthsAgree
    <2>4. IsDay(y, 1, 1)
      BY <2>3 DEF IsDay
    <2>5. DaysFromCivil(y, 1, 1) = NewYear(y)
      BY YearsAgree
    <2>6. days = DaysFromCivil(y, 1, 1) /\ date = <<y, 1, 1>>
      BY <1>2, <2>1, <2>2, <2>5
    <2> QED
      BY <2>4, <2>6 DEF DateState
  <1> QED
    BY <1>1, <1>2 DEF Init, DateInit

\* Every step leads to one, or rests.
LEMMA DateSteps ==
    DateState /\ [Next]_<<subject, limitVars, hrefVars, dateVars>> => DateState'
  <1> SUFFICES ASSUME DateState, [Next]_<<subject, limitVars, hrefVars, dateVars>> PROVE DateState'
    OBVIOUS
  <1>1. CASE NextDay
    <2>1. PICK y, m, d : date = <<y, m, d>> /\ IsDay(y, m, d) /\ days = DaysFromCivil(y, m, d)
      BY DEF DateState
    <2>2. PICK y2 \in Nat, m2 \in Nat, d2 \in Nat : Follows(y, m, d, y2, m2, d2)
      BY <2>1, FollowingDay
    <2>3. /\ Following(date) = <<y2, m2, d2>>
          /\ y2 <= 9999 => IsDay(y2, m2, d2)
          /\ DaysFromCivil(y2, m2, d2) = DaysFromCivil(y, m, d) + 1
      BY <2>1, <2>2 DEF Follows
    <2>4. date' = <<y2, m2, d2>> /\ y2 <= 9999 /\ days' = days + 1
      BY <1>1, <2>3 DEF NextDay
    <2> QED
      BY <2>1, <2>3, <2>4 DEF DateState
  <1>2. CASE UNCHANGED dateVars
    BY <1>2 DEF dateVars, DateState
  <1> QED
    BY <1>1, <1>2 DEF Next

\* For every day of the years 1 to 9999: a date is the number of days the
\* calendar counts to it, an instant is the same at every offset, and what is
\* not in the calendar is refused (datetime.rs parse).
THEOREM DatesAlwaysAgree == Spec => []DatesAgree
  <1>1. DateState => DatesAgree
    BY CalendarHolds, OffsetsHold, RefusalsHold DEF DatesAgree
  <1> QED
    BY <1>1, DateStarts, DateSteps, PTL DEF Spec
=============================================================================
