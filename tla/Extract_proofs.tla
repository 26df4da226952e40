--------------------------- MODULE Extract_proofs ---------------------------
(***************************************************************************)
(* For every book, every option and every place where a read or the client *)
(* may stop the parse: refusals come before the first event, and the bytes *)
(* read ahead are held only for a use still to come.  Then what the spine  *)
(* and the plan of the walk are made of, that the walk sends them in the   *)
(* order the proto promises, what the trailer counts, and what is inflated *)
(* on the way.                                                             *)
(***************************************************************************)
EXTENDS Extract, FiniteSetTheorems, WellFoundedInduction, TLAPS

\* The phases before info has gone out, and those before anything is read
\* ahead.
BeforeInfo == {"encryption", "mimetype", "container", "package", "spine", "info"}
BeforeAhead == BeforeInfo \cup {"plan", "navigation"}

-----------------------------------------------------------------------------
(* Refusals.                                                               *)

\* Info is the last thing a phase that can refuse is followed by.
RefusalInv ==
    /\ step \in BeforeInfo => events = <<>>
    /\ RefusedBeforeInfo

\* The actions that may refuse are those of the phases before info.
LEMMA RefusalStep == RefusalInv /\ [Next]_vars => RefusalInv'
  <1> SUFFICES ASSUME RefusalInv, [Next]_vars PROVE RefusalInv'
    OBVIOUS
  <1> USE DEF RefusalInv, RefusedBeforeInfo, BeforeInfo
  <1>1. CASE CheckEncryption
    BY <1>1 DEF CheckEncryption, At, Continue, Stop
  <1>2. CASE CheckMimetype
    BY <1>2 DEF CheckMimetype, At, Continue, Stop
  <1>3. CASE CheckContainer
    BY <1>3 DEF CheckContainer, At, Continue, Stop
  <1>4. CASE ReadPackage
    BY <1>4 DEF ReadPackage, At, Continue, Stop
  <1>5. CASE ResolveSpine
    BY <1>5 DEF ResolveSpine, At, Continue, Stop
  <1>6. CASE EmitInfo
    BY <1>6 DEF EmitInfo, At, Continue, Stop, Gone
  <1>7. CASE PlanWalk
    BY <1>7 DEF PlanWalk, At, Continue
  <1>8. CASE ReadNavigation
    BY <1>8 DEF ReadNavigation, At, Continue, Stop, Gone, CannotObtain, Unreadable
  <1>9. CASE ReadOverlay
    BY <1>9 DEF ReadOverlay, At, Continue, Stop, Gone, CannotObtain, Unreadable
  <1>10. CASE OverlaysDone
    BY <1>10 DEF OverlaysDone, At, Continue
  <1>11. CASE EmitResource
    BY <1>11 DEF EmitResource, At, Stop, Gone, CannotObtain, Unreadable
  <1>12. CASE EmitChapter
    BY <1>12 DEF EmitChapter, At, Stop, Gone, CannotObtain, Unreadable
  <1>13. CASE EmitStatus
    BY <1>13 DEF EmitStatus, At, Stop, Gone
  <1>14. CASE UNCHANGED vars
    BY <1>14 DEF vars
  <1> QED BY <1>1, <1>2, <1>3, <1>4, <1>5, <1>6, <1>7, <1>8, <1>9, <1>10, <1>11, <1>12,
             <1>13, <1>14 DEF Next

\* A book whose headers or spine are unacceptable is refused before the first
\* event, for every book and every failure.
THEOREM RefusalsEarly == Spec => []RefusedBeforeInfo
  <1>1. Init => RefusalInv
    BY DEF Init, RefusalInv, RefusedBeforeInfo
  <1>2. RefusalInv => RefusedBeforeInfo
    BY DEF RefusalInv
  <1> QED BY <1>1, <1>2, RefusalStep, PTL DEF Spec

-----------------------------------------------------------------------------
(* Bytes read ahead.                                                       *)

\* What is held is wanted: before the walk by the plan or by a later overlay
\* pair, during the walk by what it has still to send.
HeldInv ==
    /\ book \in Books
    /\ at \in Nat \ {0}
    /\ \E S : spine \in Seq(S)
    /\ \E S : pending \in Seq(S)
    /\ 0 \notin preread
    /\ outcome = "running" /\ step \in BeforeAhead => preread = {} /\ at = 1
    /\ At("overlays") =>
         preread \subseteq
           WillEmit \cup IF options.overlays THEN {OverlayEntry(p) : p \in OverlaysFrom(at)} ELSE {}
    /\ At("walk") => preread \subseteq StillToSend

\* The manifest is a sequence, so its positions are numbers.
LEMMA ManifestSeq ==
    ASSUME book \in Books
    PROVE  /\ Manifest \in Seq(ManifestItems)
           /\ Positions \subseteq Nat \ {0}
           /\ \A p \in Positions : Entry(p) \in 0..book.entries
           /\ book.entries \in Nat
  <1>1. Manifest \in Seq(ManifestItems) /\ book.entries \in Nat
    BY BooksAssumption DEF Manifest
  <1>2. Positions \subseteq Nat \ {0}
    BY <1>1 DEF Positions
  <1>3. ASSUME NEW p \in Positions PROVE Entry(p) \in 0..book.entries
    <2>1. Manifest[p].entry <= book.entries
      BY <1>3, BooksAssumption DEF Positions, Manifest
    <2>2. Manifest[p] \in ManifestItems
      BY <1>1, <1>3 DEF Positions
    <2> QED BY <2>1, <2>2, <1>1 DEF Entry, ManifestItems
  <1> QED BY <1>1, <1>2, <1>3

\* The plan is a sequence, whatever the manifest holds.
LEMMA PlanSeq ==
    ASSUME book \in Books
    PROVE  Cardinality(ToSend) \in Nat
  <1>1. ToSend \subseteq 0..book.entries
    BY ManifestSeq DEF ToSend
  <1>2. IsFiniteSet(0..book.entries)
    BY ManifestSeq, FS_Interval
  <1> QED BY <1>1, <1>2, FS_Subset, FS_CardinalityType

\* A function on 1..n is a sequence of its own values.
LEMMA SeqOfRange ==
    ASSUME NEW n \in Nat, NEW f, f = [i \in 1..n |-> f[i]]
    PROVE  \E S : f \in Seq(S)
  <1> DEFINE S == {f[i] : i \in 1..n}
  <1>1. f \in [1..n -> S]
    OBVIOUS
  <1>2. f \in Seq(S)
    BY <1>1
  <1> QED BY <1>2

\* A phase before anything is read ahead holds nothing.
LEMMA HeldEarly ==
    ASSUME HeldInv,
           CheckEncryption \/ CheckMimetype \/ CheckContainer \/ ReadPackage \/ EmitInfo
    PROVE  HeldInv'
  <1> USE DEF HeldInv, BeforeAhead, BeforeInfo, At, Continue, Stop, input, plan, Unreadable
  <1>1. CASE CheckEncryption
    BY <1>1 DEF CheckEncryption
  <1>2. CASE CheckMimetype
    BY <1>2 DEF CheckMimetype
  <1>3. CASE CheckContainer
    BY <1>3 DEF CheckContainer
  <1>4. CASE ReadPackage
    BY <1>4 DEF ReadPackage
  <1>5. CASE EmitInfo
    BY <1>5 DEF EmitInfo, Gone
  <1> QED BY <1>1, <1>2, <1>3, <1>4, <1>5

\* The spine and the plan become sequences.
LEMMA HeldPlanned == HeldInv /\ (ResolveSpine \/ PlanWalk) => HeldInv'
  <1> SUFFICES ASSUME HeldInv, ResolveSpine \/ PlanWalk PROVE HeldInv'
    OBVIOUS
  <1> USE DEF HeldInv, BeforeAhead, BeforeInfo, At, Continue, Stop, input
  <1>1. CASE ResolveSpine
    <2>1. \E S : spine' \in Seq(S)
      <3>1. CASE UNCHANGED spine
        BY <3>1
      <3>2. CASE spine' = [i \in DOMAIN book.spine |-> Resolve(book.spine[i])]
        <4>1. book.spine \in Seq(STRING)
          BY BooksAssumption
        <4>2. Len(book.spine) \in Nat /\ DOMAIN book.spine = 1..Len(book.spine)
          BY <4>1
        <4>3. spine' = [i \in 1..Len(book.spine) |-> spine'[i]]
          BY <3>2, <4>2
        <4> HIDE DEF HeldInv
        <4> QED BY <4>2, <4>3, SeqOfRange
      <3> QED BY <1>1, <3>1, <3>2 DEF ResolveSpine
    <2> QED BY <1>1, <2>1 DEF ResolveSpine
  <1>2. CASE PlanWalk
    <2>1. \E S : pending' \in Seq(S)
      <3>1. Cardinality(ToSend) \in Nat
        BY PlanSeq
      <3>2. pending' = [i \in 1..Cardinality(ToSend) |-> pending'[i]]
        BY <1>2 DEF PlanWalk
      <3> HIDE DEF HeldInv
      <3> QED BY <3>1, <3>2, SeqOfRange
    <2> QED BY <1>2, <2>1 DEF PlanWalk
  <1> QED BY <1>1, <1>2

\* The navigation document is held only if the walk will send it.
LEMMA HeldNavigation == HeldInv /\ ReadNavigation => HeldInv'
  <1> SUFFICES ASSUME HeldInv, ReadNavigation PROVE HeldInv'
    OBVIOUS
  <1> DEFINE e == Entry(NavigationSource)
  <1>1. /\ At("navigation") /\ preread = {} /\ at = 1
        /\ UNCHANGED <<book, options, spine, pending, at>>
    BY DEF HeldInv, ReadNavigation, At, BeforeAhead, BeforeInfo, input, plan
  <1>2. WillEmit' = WillEmit
    BY <1>1 DEF WillEmit, ChapterEntries, SpineIds, Entry, Manifest
  <1>3. NavigationSource # 0 => e # 0
    BY DEF NavigationSource, Held
  <1>4. preread' = {} \/ (NavigationSource # 0 /\ e \in WillEmit /\ preread' = {e})
    BY <1>1 DEF ReadNavigation
  <1>5. 0 \notin preread' /\ preread' \subseteq WillEmit'
    BY <1>2, <1>3, <1>4
  <1>6. step' = "overlays" \/ (step' = "navigation" /\ outcome' # "running")
    BY <1>1 DEF ReadNavigation, Continue, Stop, CannotObtain, Unreadable, Gone, At
  <1> QED BY <1>1, <1>5, <1>6 DEF HeldInv, BeforeAhead, BeforeInfo, At

\* What the manifest says changes only with the book.
LEMMA ManifestKept ==
    ASSUME UNCHANGED book
    PROVE  /\ Positions' = Positions
           /\ \A p : Entry(p)' = Entry(p)
           /\ \A p : Narrated(p)' = Narrated(p)
           /\ \A p : Held(OverlayOf(p))' = Held(OverlayOf(p))
           /\ \A p : OverlayEntry(p)' = OverlayEntry(p)
  <1>1. Manifest' = Manifest /\ Positions' = Positions
    BY DEF Manifest, Positions
  <1>2. ASSUME NEW id PROVE ById(id)' = ById(id)
    BY <1>1 DEF ById
  <1>3. ASSUME NEW p PROVE OverlayOf(p)' = OverlayOf(p)
    <2>1. Manifest[p]' = Manifest[p]
      BY <1>1
    <2>2. ById(Manifest[p].overlay)' = ById(Manifest[p].overlay)
      BY <1>1, <1>2, <2>1 DEF ById
    <2> QED BY <1>1, <2>2 DEF OverlayOf
  <1>4. \A p : Entry(p)' = Entry(p)
    BY <1>1 DEF Entry
  <1>5. \A p : Narrated(p)' = Narrated(p)
    BY <1>3 DEF Narrated
  <1>6. \A p : Held(OverlayOf(p))' = Held(OverlayOf(p)) /\ OverlayEntry(p)' = OverlayEntry(p)
    BY <1>1, <1>3 DEF Held, OverlayEntry, Entry
  <1> QED BY <1>1, <1>4, <1>5, <1>6

\* Only the entry just read may have been held for this pair; it is kept if
\* the walk or a later pair wants it.
LEMMA HeldOverlay == HeldInv /\ ReadOverlay => HeldInv'
  <1> SUFFICES ASSUME HeldInv, ReadOverlay PROVE HeldInv'
    OBVIOUS
  <1>1. /\ At("overlays") /\ options.overlays /\ step' = "overlays"
        /\ UNCHANGED <<book, options, spine, pending>>
    BY DEF ReadOverlay, At, input, plan, CannotObtain, Unreadable, Stop, Gone
  <1>2. PICK p \in OverlaysFrom(at) :
          /\ \A q \in OverlaysFrom(at) : p <= q
          /\ \/ outcome' # "running" /\ UNCHANGED at
             \/ at' = p + 1
          /\ \/ UNCHANGED preread /\ outcome' # "running"
             \/ preread' = IF KeepOverlay(p) THEN preread \cup {OverlayEntry(p)}
                           ELSE preread \ {OverlayEntry(p)}
    BY DEF ReadOverlay, CannotObtain, Unreadable, Stop, Gone
  <1>3. p \in Nat \ {0} /\ OverlayEntry(p) # 0 /\ book \in Books /\ at \in Nat \ {0}
    BY ManifestSeq DEF HeldInv, OverlaysFrom, Held, OverlayEntry
  <1>4. at' \in Nat \ {0} /\ 0 \notin preread'
    BY <1>2, <1>3 DEF HeldInv
  <1>5. WillEmit' = WillEmit
    BY <1>1, ManifestKept DEF WillEmit, ChapterEntries, SpineIds
  <1>6. ASSUME outcome' = "running"
        PROVE  preread' \subseteq WillEmit \cup {OverlayEntry(q) : q \in OverlaysFrom(p + 1)}
    <2> SUFFICES ASSUME NEW x \in preread', x \notin WillEmit
                 PROVE  \E q \in OverlaysFrom(p + 1) : OverlayEntry(q) = x
      OBVIOUS
    <2>1. CASE x = OverlayEntry(p)
      BY <1>2, <1>6, <2>1 DEF KeepOverlay
    <2>2. CASE x # OverlayEntry(p)
      <3>1. x \in preread
        BY <1>2, <1>6, <2>2
      <3>2. PICK q \in OverlaysFrom(at) : OverlayEntry(q) = x
        BY <3>1, <1>1 DEF HeldInv
      <3>3. p <= q /\ p # q /\ q \in Nat /\ q \in Positions
        BY <1>2, <2>2, <3>2, <1>3, ManifestSeq DEF OverlaysFrom
      <3>4. q \in OverlaysFrom(p + 1)
        BY <3>2, <3>3, <1>3 DEF OverlaysFrom
      <3> QED BY <3>2, <3>4
    <2> QED BY <2>1, <2>2
  <1>7. ASSUME outcome' = "running"
        PROVE  preread' \subseteq
                 WillEmit' \cup {OverlayEntry(q) : q \in OverlaysFrom(at)}'
    <2>1. at' = p + 1
      BY <1>2, <1>7
    <2>2. OverlaysFrom(at)' = OverlaysFrom(p + 1)
      BY <2>1, <1>1, ManifestKept DEF OverlaysFrom
    <2>3. \A q : OverlayEntry(q)' = OverlayEntry(q)
      BY <1>1, ManifestKept
    <2> QED BY <1>5, <1>6, <1>7, <2>2, <2>3
  <1> QED BY <1>1, <1>4, <1>7 DEF HeldInv, BeforeAhead, BeforeInfo, At

\* With no pair left, what is held is what the walk will send.
LEMMA HeldHandedOver == HeldInv /\ OverlaysDone => HeldInv'
  <1> SUFFICES ASSUME HeldInv, OverlaysDone PROVE HeldInv'
    OBVIOUS
  <1>1. /\ At("overlays") /\ step' = "walk" /\ at' = 1
        /\ ~options.overlays \/ OverlaysFrom(at) = {}
        /\ UNCHANGED <<book, options, spine, pending, preread>>
    BY DEF OverlaysDone, Continue, input, plan
  <1>2. preread \subseteq WillEmit
    BY <1>1 DEF HeldInv
  <1>3. WillEmit \subseteq StillToSend'
    <2>1. \A k \in DOMAIN spine : k >= 1
      BY DEF HeldInv
    <2>2. \A k \in DOMAIN spine : Entry(spine[k].source) \in StillToSend'
      BY <1>1, <2>1 DEF StillToSend, Entry, Manifest
    <2>3. \A k \in DOMAIN pending : pending[k].entry \in StillToSend'
      BY <1>1 DEF StillToSend
    <2> QED BY <2>2, <2>3 DEF WillEmit, ChapterEntries, SpineIds
  <1> QED BY <1>1, <1>2, <1>3 DEF HeldInv, BeforeAhead, BeforeInfo, At

\* A resource leaves the plan and what is held together.
LEMMA HeldResource == HeldInv /\ EmitResource => HeldInv'
  <1> SUFFICES ASSUME HeldInv, EmitResource PROVE HeldInv'
    OBVIOUS
  <1> DEFINE e == Head(pending).entry
  <1>1. /\ At("walk") /\ step' = "walk" /\ pending # <<>>
        /\ UNCHANGED <<book, options, spine, at>>
        /\ \/ UNCHANGED <<preread, pending>>
           \/ preread' = preread \ {e} /\ pending' = Tail(pending)
    BY DEF EmitResource, ResourceDue, At, CannotObtain, Unreadable, Stop, Gone, input
  <1>2. PICK S : pending \in Seq(S)
    BY DEF HeldInv
  <1>3. pending' \in Seq(S)
    BY <1>1, <1>2
  <1>4. preread \subseteq StillToSend
    BY <1>1 DEF HeldInv
  <1>5. preread' \subseteq StillToSend'
    <2>1. CASE UNCHANGED <<preread, pending>>
      BY <1>1, <1>4, <2>1, ManifestKept DEF StillToSend
    <2>2. CASE preread' = preread \ {e} /\ pending' = Tail(pending)
      <3> SUFFICES ASSUME NEW x \in preread, x # e PROVE x \in StillToSend'
        BY <2>2
      <3>1. CASE \E k \in DOMAIN spine : k >= at /\ x = Entry(spine[k].source)
        BY <1>1, <3>1, ManifestKept DEF StillToSend
      <3>2. CASE \E i \in DOMAIN pending : x = pending[i].entry
        <4>1. PICK i \in DOMAIN pending : x = pending[i].entry
          BY <3>2
        <4>2. i \in 2..Len(pending)
          BY <4>1, <1>1, <1>2
        <4>3. i - 1 \in DOMAIN pending' /\ pending'[i - 1] = pending[i]
          BY <4>2, <1>1, <1>2, <2>2
        <4> QED BY <4>1, <4>3 DEF StillToSend
      <3> QED BY <1>4, <3>1, <3>2 DEF StillToSend
    <2> QED BY <1>1, <2>1, <2>2
  <1> QED BY <1>1, <1>3, <1>5 DEF HeldInv, BeforeAhead, BeforeInfo, At

\* A chapter leaves the spine and what is held together.
LEMMA HeldChapter == HeldInv /\ EmitChapter => HeldInv'
  <1> SUFFICES ASSUME HeldInv, EmitChapter PROVE HeldInv'
    OBVIOUS
  <1> DEFINE e == Entry(spine[at].source)
  <1>1. /\ At("walk") /\ step' = "walk"
        /\ UNCHANGED <<book, options, spine, pending>>
        /\ \/ UNCHANGED <<preread, at>>
           \/ preread' = preread \ {e} /\ (UNCHANGED at \/ at' = at + 1)
    BY DEF EmitChapter, At, CannotObtain, Unreadable, Stop, Gone, input, plan
  <1>2. at \in Nat \ {0} /\ at' \in Nat \ {0} /\ \A k \in DOMAIN spine : k \in Nat
    BY <1>1 DEF HeldInv
  <1>3. preread \subseteq StillToSend
    BY <1>1 DEF HeldInv
  <1>4. preread' \subseteq StillToSend'
    <2> SUFFICES ASSUME NEW x \in preread, x \in preread' PROVE x \in StillToSend'
      BY <1>1
    <2>1. CASE \E i \in DOMAIN pending : x = pending[i].entry
      BY <1>1, <2>1 DEF StillToSend
    <2>2. CASE \E k \in DOMAIN spine : k >= at /\ x = Entry(spine[k].source)
      <3>1. PICK k \in DOMAIN spine : k >= at /\ x = Entry(spine[k].source)
        BY <2>2
      <3>2. k >= at'
        BY <1>1, <1>2, <3>1
      <3> QED BY <1>1, <3>1, <3>2, ManifestKept DEF StillToSend
    <2> QED BY <1>3, <2>1, <2>2 DEF StillToSend
  <1> QED BY <1>1, <1>2, <1>4 DEF HeldInv, BeforeAhead, BeforeInfo, At

\* The other steps leave what is held, and what is wanted, alone.
LEMMA HeldEnd == HeldInv /\ (EmitStatus \/ UNCHANGED vars) => HeldInv'
  <1> SUFFICES ASSUME HeldInv, EmitStatus \/ UNCHANGED vars PROVE HeldInv'
    OBVIOUS
  <1>1. CASE EmitStatus
    BY <1>1 DEF EmitStatus, At, Stop, Gone, HeldInv, input, plan
  <1>2. CASE UNCHANGED vars
    <2>1. UNCHANGED <<book, options, step, outcome, spine, pending, preread, at>>
      BY <1>2 DEF vars, input, plan
    <2>2. WillEmit' = WillEmit /\ StillToSend' = StillToSend
      BY <2>1, ManifestKept DEF WillEmit, ChapterEntries, SpineIds, StillToSend
    <2>3. OverlaysFrom(at)' = OverlaysFrom(at)
      BY <2>1, ManifestKept DEF OverlaysFrom
    <2>4. {OverlayEntry(p) : p \in OverlaysFrom(at)}' = {OverlayEntry(p) : p \in OverlaysFrom(at)}
      BY <2>1, <2>3, ManifestKept
    <2> QED BY <2>1, <2>2, <2>4 DEF HeldInv, At
  <1> QED BY <1>1, <1>2

\* Every step keeps what is held wanted.
LEMMA HeldStep == HeldInv /\ [Next]_vars => HeldInv'
  BY HeldEarly, HeldPlanned, HeldNavigation, HeldOverlay, HeldHandedOver, HeldResource,
     HeldChapter, HeldEnd DEF Next

\* At first nothing is held.
LEMMA HeldStart == Init => HeldInv
  <1> SUFFICES ASSUME Init PROVE HeldInv
    OBVIOUS
  <1>1. <<>> \in Seq({})
    OBVIOUS
  <1> QED BY <1>1 DEF Init, HeldInv, At

\* For every book, every entry read ahead of its turn is still wanted at every
\* step (by the walk or a later overlay, then by what the walk has still to
\* send), so that none is held when the walk is over: the debug_assert at the
\* end of parse.
THEOREM HeldBytesReturned == Spec => []PrereadReturned
  <1>1. HeldInv => PrereadReturned
    <2>1. ASSUME HeldInv, At("walk"), at > Len(spine), pending = <<>>
          PROVE  preread = {}
      <3>1. {i \in DOMAIN spine : i >= at} = {}
        BY <2>1 DEF HeldInv
      <3>2. DOMAIN pending = {}
        BY <2>1
      <3>3. StillToSend = {}
        BY <3>1, <3>2 DEF StillToSend
      <3> QED
        BY <2>1, <3>3 DEF HeldInv
    <2> QED
      BY <2>1 DEF HeldInv, PrereadReturned
  <1> QED BY <1>1, HeldStart, HeldStep, PTL DEF Spec

-----------------------------------------------------------------------------
(* Least numbers, and chains that end.                                     *)

\* Every set of numbers that is not empty has a least.
LEMMA LeastNumber ==
    ASSUME NEW S \in SUBSET Nat, S # {}
    PROVE  Least(S) \in S /\ \A y \in S : Least(S) <= y
  <1>1. PICK x \in S : \A y \in S : ~ (<<y, x>> \in OpToRel(<, Nat))
    BY NatLessThanWellFounded, WFMin
  <1>2. \A y \in S : x <= y
    <2> SUFFICES ASSUME NEW y \in S PROVE x <= y
      OBVIOUS
    <2>1. x \in Nat /\ y \in Nat
      OBVIOUS
    <2>2. y < x => <<y, x>> \in OpToRel(<, Nat)
      BY <2>1 DEF OpToRel
    <2>3. ~(y < x)
      BY <1>1, <2>2
    <2> QED
      BY <2>1, <2>3
  <1> QED
    BY <1>1, <1>2 DEF Least

\* A sequence that grows is one still.
LEMMA AppendType ==
    ASSUME NEW S, NEW s \in Seq(S), NEW x \in S
    PROVE  Append(s, x) \in Seq(S) /\ Append(s, x) # <<>>
  <1>1. Append(s, x) \in Seq(S) /\ Len(Append(s, x)) = Len(s) + 1 /\ Len(s) \in Nat
    OBVIOUS
  <1>2. Len(<<>>) = 0
    OBVIOUS
  <1>3. Len(s) + 1 # 0
    BY <1>1
  <1> QED
    BY <1>1, <1>2, <1>3

\* What an id names is an item of the manifest, or nothing.
LEMMA ByIdType ==
    ASSUME book \in Books, NEW id
    PROVE  /\ ById(id) \in Positions \cup {0}
           /\ \A p \in Positions : FallbackOf(p) \in Positions \cup {0}
  <1>1. ASSUME NEW x PROVE ById(x) \in Positions \cup {0}
    <2> DEFINE named == {p \in Positions : Manifest[p].id = x}
    <2>1. CASE named = {}
      BY <2>1 DEF ById
    <2>2. CASE named # {}
      <3>1. named \in SUBSET Nat
        BY ManifestSeq
      <3>2. PICK p \in named : \A q \in named : p <= q
        BY <2>2, <3>1, LeastNumber
      <3>3. \E p2 \in Positions : /\ Manifest[p2].id = x
                               /\ \A q \in Positions : Manifest[q].id = x => p2 <= q
        BY <3>2
      <3>4. ById(x) = CHOOSE p2 \in Positions : /\ Manifest[p2].id = x
                               /\ \A q \in Positions : Manifest[q].id = x => p2 <= q
        BY <3>2 DEF ById
      <3> QED
        BY <3>3, <3>4
    <2> QED
      BY <2>1, <2>2
  <1> QED
    BY <1>1 DEF FallbackOf

\* Where a fallback chain stops, and what it goes on with.
Onward(chain) == FallbackOf(chain[Len(chain)])
Stops(chain) ==
    Len(chain) = MaxFallbackChain \/ Onward(chain) = 0 \/ \E i \in DOMAIN chain : chain[i] = Onward(chain)

\* The same of the first k items of a longer one.
StopsAt(c, k) ==
    \/ k = MaxFallbackChain
    \/ FallbackOf(c[k]) = 0
    \/ \E i \in 1..k : c[i] = FallbackOf(c[k])

\* The chains another one grows into when it is followed to where it stops.
Ends(chain) == {c \in Seq(Positions) :
    /\ Len(chain) <= Len(c)
    /\ \A i \in 1..Len(chain) : c[i] = chain[i]
    /\ \A k \in Len(chain)..Len(c) - 1 : ~StopsAt(c, k) /\ c[k + 1] = FallbackOf(c[k])
    /\ StopsAt(c, Len(c))}

\* A chain that stops is its own end.
LEMMA EndsHere ==
    ASSUME NEW chain \in Seq(Positions), chain # <<>>, Stops(chain)
    PROVE  Ends(chain) = {chain}
  <1>1. Len(chain) \in Nat \ {0} /\ DOMAIN chain = 1..Len(chain)
    OBVIOUS
  <1>2. StopsAt(chain, Len(chain))
    BY <1>1 DEF Stops, StopsAt, Onward
  <1>3. chain \in Ends(chain)
    BY <1>1, <1>2 DEF Ends
  <1>4. ASSUME NEW c \in Ends(chain) PROVE c = chain
    <2>1. /\ c \in Seq(Positions) /\ Len(chain) <= Len(c)
          /\ \A i \in 1..Len(chain) : c[i] = chain[i]
      BY DEF Ends
    <2>2. StopsAt(c, Len(chain))
      <3>1. c[Len(chain)] = chain[Len(chain)]
        BY <1>1, <2>1
      <3> QED
        BY <1>2, <2>1, <3>1 DEF StopsAt
    <2>3. Len(c) = Len(chain)
      <3>1. ASSUME Len(chain) < Len(c) PROVE FALSE
        <4>1. Len(chain) \in Len(chain)..Len(c) - 1
          BY <1>1, <2>1, <3>1
        <4> QED
          BY <2>2, <4>1 DEF Ends
      <3> QED
        BY <1>1, <2>1, <3>1
    <2> QED
      BY <2>1, <2>3
  <1> QED
    BY <1>3, <1>4

\* One that does not has the ends of the chain it goes on with.
LEMMA EndsOnward ==
    ASSUME book \in Books, NEW chain \in Seq(Positions), chain # <<>>, ~Stops(chain)
    PROVE  /\ Append(chain, Onward(chain)) \in Seq(Positions)
           /\ Ends(chain) = Ends(Append(chain, Onward(chain)))
  <1> DEFINE n == Len(chain)
             q == Onward(chain)
             longer == Append(chain, q)
  <1>1. n \in Nat \ {0} /\ DOMAIN chain = 1..n /\ chain[n] \in Positions
    OBVIOUS
  <1>2. q \in Positions /\ q = FallbackOf(chain[n])
    BY <1>1, ByIdType DEF Stops, Onward
  <1>3. /\ longer \in Seq(Positions) /\ Len(longer) = n + 1
        /\ longer[n + 1] = q /\ \A i \in 1..n : longer[i] = chain[i]
    BY <1>2
  <1>4. ~StopsAt(chain, n)
    BY <1>1 DEF Stops, StopsAt, Onward
  <1> HIDE DEF n, q, longer
  <1>5. ASSUME NEW c \in Seq(Positions), \A i \in 1..n : c[i] = chain[i]
        PROVE  ~StopsAt(c, n) /\ FallbackOf(c[n]) = q
    <2>1. c[n] = chain[n]
      BY <1>1, <1>5
    <2> QED
      BY <1>2, <1>4, <1>5, <2>1 DEF StopsAt
  <1>6. ASSUME NEW c \in Ends(chain) PROVE c \in Ends(longer)
    <2>1. /\ c \in Seq(Positions) /\ Len(c) \in Nat /\ n <= Len(c)
          /\ \A i \in 1..n : c[i] = chain[i]
          /\ \A k \in n..Len(c) - 1 : ~StopsAt(c, k) /\ c[k + 1] = FallbackOf(c[k])
          /\ StopsAt(c, Len(c))
      BY DEF Ends, n
    <2>2. ~StopsAt(c, n) /\ FallbackOf(c[n]) = q
      BY <1>5, <2>1
    <2>3. n + 1 <= Len(c)
      <3>1. n # Len(c)
        BY <2>1, <2>2
      <3> QED
        BY <1>1, <2>1, <3>1
    <2>4. n \in n..Len(c) - 1
      BY <1>1, <2>1, <2>3
    <2>5. c[n + 1] = q
      BY <2>1, <2>2, <2>4
    <2>6. \A i \in 1..n + 1 : c[i] = longer[i]
      <3> SUFFICES ASSUME NEW i \in 1..n + 1 PROVE c[i] = longer[i]
        OBVIOUS
      <3>1. i \in 1..n \/ i = n + 1
        BY <1>1
      <3> QED
        BY <1>3, <2>1, <2>5, <3>1
    <2>7. \A k \in n + 1..Len(c) - 1 : k \in n..Len(c) - 1
      BY <1>1, <2>1
    <2> QED
      BY <1>3, <2>1, <2>3, <2>6, <2>7 DEF Ends
  <1>7. ASSUME NEW c \in Ends(longer) PROVE c \in Ends(chain)
    <2>1. /\ c \in Seq(Positions) /\ Len(c) \in Nat /\ n + 1 <= Len(c)
          /\ \A i \in 1..n + 1 : c[i] = longer[i]
          /\ \A k \in n + 1..Len(c) - 1 : ~StopsAt(c, k) /\ c[k + 1] = FallbackOf(c[k])
          /\ StopsAt(c, Len(c))
      BY <1>3 DEF Ends
    <2>2. /\ \A i \in 1..n : i \in 1..n + 1
          /\ n + 1 \in 1..n + 1
          /\ n <= Len(c)
      BY <1>1, <2>1
    <2>3. \A i \in 1..n : c[i] = chain[i]
      BY <1>3, <2>1, <2>2
    <2>4. ~StopsAt(c, n) /\ c[n + 1] = FallbackOf(c[n])
      BY <1>3, <1>5, <2>1, <2>2, <2>3
    <2>5. \A k \in n..Len(c) - 1 : k = n \/ k \in n + 1..Len(c) - 1
      BY <1>1, <2>1
    <2>6. \A k \in n..Len(c) - 1 : ~StopsAt(c, k) /\ c[k + 1] = FallbackOf(c[k])
      BY <2>1, <2>4, <2>5
    <2> QED
      BY <2>1, <2>2, <2>3, <2>6 DEF Ends, n
  <1>8. Ends(chain) = Ends(longer)
    BY <1>6, <1>7
  <1> QED
    BY <1>3, <1>8 DEF longer, q

\* The items a chain does not hold: it goes on with one of them.
Left(chain) == Positions \ {chain[i] : i \in DOMAIN chain}

\* There is no set of chains that only ever go on: no two items of a chain
\* are the same, and there are only so many of them.
LEMMA ChainsStop ==
    ASSUME book \in Books, NEW B \in SUBSET Seq(Positions),
           \A c \in B : c # <<>> /\ ~Stops(c) /\ Append(c, Onward(c)) \in B
    PROVE  B = {}
  <1> DEFINE Sizes == {Cardinality(Left(c)) : c \in B}
  <1>1. \A c : IsFiniteSet(Left(c)) /\ Cardinality(Left(c)) \in Nat
    <2>1. Manifest \in Seq(ManifestItems)
      BY ManifestSeq
    <2>2. Positions = 1..Len(Manifest) /\ Len(Manifest) \in Nat
      BY <2>1 DEF Positions
    <2>3. IsFiniteSet(Positions)
      BY <2>2, FS_Interval
    <2> QED
      BY <2>3, FS_Subset, FS_CardinalityType DEF Left
  <1>2. ASSUME NEW c \in B, NEW q, q = Onward(c), NEW d, d = Append(c, q)
        PROVE  d \in B /\ Cardinality(Left(d)) < Cardinality(Left(c))
    <2>1. c \in Seq(Positions) /\ c # <<>> /\ ~Stops(c) /\ d \in B
      BY <1>2
    <2>2. q \in Positions
      <3>1. c[Len(c)] \in Positions
        BY <2>1
      <3> QED
        BY <1>2, <2>1, <3>1, ByIdType DEF Stops, Onward
    <2>3. q \in Left(c)
      BY <1>2, <2>1, <2>2 DEF Left, Stops
    <2>4. Left(d) = Left(c) \ {q}
      <3>1. /\ DOMAIN d = 1..Len(c) + 1 /\ DOMAIN c = 1..Len(c) /\ Len(c) \in Nat
            /\ d[Len(c) + 1] = q /\ \A i \in 1..Len(c) : d[i] = c[i]
        BY <1>2, <2>1, <2>2
      <3>2. \A i : i \in 1..Len(c) + 1 <=> i \in 1..Len(c) \/ i = Len(c) + 1
        BY <3>1
      <3>3. {d[i] : i \in DOMAIN d} = {c[i] : i \in DOMAIN c} \cup {q}
        <4>1. ASSUME NEW i \in DOMAIN d PROVE d[i] \in {c[j] : j \in DOMAIN c} \cup {q}
          BY <3>1, <3>2
        <4>2. ASSUME NEW i \in DOMAIN c PROVE c[i] \in {d[j] : j \in DOMAIN d}
          BY <3>1, <3>2
        <4>3. q \in {d[j] : j \in DOMAIN d}
          BY <3>1, <3>2
        <4> QED
          BY <4>1, <4>2, <4>3
      <3> QED
        BY <3>3 DEF Left
    <2>5. Cardinality(Left(d)) = Cardinality(Left(c)) - 1
      BY <1>1, <2>3, <2>4, FS_RemoveElement
    <2>6. Cardinality(Left(c)) \in Nat
      BY <1>1
    <2> QED
      BY <2>1, <2>5, <2>6
  <1> SUFFICES ASSUME B # {} PROVE FALSE
    OBVIOUS
  <1>3. Sizes \in SUBSET Nat /\ Sizes # {}
    BY <1>1
  <1>4. PICK m \in Sizes : \A n \in Sizes : m <= n
    <2> HIDE DEF Sizes
    <2> QED
      BY <1>3, LeastNumber
  <1>5. PICK c \in B : Cardinality(Left(c)) = m
    BY <1>4
  <1>6. PICK d \in B : Cardinality(Left(d)) < Cardinality(Left(c))
    BY <1>2
  <1>7. Cardinality(Left(d)) \in Sizes /\ Cardinality(Left(d)) \in Nat /\ m \in Nat
    BY <1>1, <1>3, <1>4
  <1>8. m <= Cardinality(Left(d))
    BY <1>4, <1>7
  <1> HIDE DEF Sizes
  <1> QED
    BY <1>5, <1>6, <1>7, <1>8

\* The recursion of FallbackChain is well founded: there is a function that
\* satisfies its equation, so it does.
LEMMA FallbackChainEquation ==
    ASSUME book \in Books
    PROVE  FallbackChain = [chain \in Seq(Positions) |->
                              IF Stops(chain) THEN chain ELSE FallbackChain[Append(chain, Onward(chain))]]
  <1> DEFINE Pick(S) == CHOOSE c : c \in S
             g == [chain \in Seq(Positions) |->
                     IF chain # <<>> THEN Pick(Ends(chain))
                     ELSE IF Stops(chain) THEN chain
                     ELSE Pick(Ends(Append(chain, Onward(chain))))]
  <1>1. ASSUME NEW chain \in Seq(Positions)
        PROVE  g[chain] = IF Stops(chain) THEN chain ELSE g[Append(chain, Onward(chain))]
    <2>1. CASE chain # <<>> /\ Stops(chain)
      <3>1. Ends(chain) = {chain}
        BY <2>1, EndsHere
      <3>2. Pick({chain}) = chain
        OBVIOUS
      <3> QED
        BY <2>1, <3>1, <3>2
    <2>2. CASE chain # <<>> /\ ~Stops(chain)
      <3> DEFINE longer == Append(chain, Onward(chain))
      <3>1. longer \in Seq(Positions) /\ longer # <<>> /\ Ends(chain) = Ends(longer)
        BY <2>2, EndsOnward
      <3>2. g[longer] = Pick(Ends(longer)) /\ g[chain] = Pick(Ends(chain))
        BY <2>2, <3>1
      <3> QED
        BY <2>2, <3>1, <3>2
    <2>3. CASE chain = <<>> /\ Stops(chain)
      BY <2>3
    <2>4. CASE chain = <<>> /\ ~Stops(chain)
      <3> DEFINE q == Onward(chain)
                 longer == Append(chain, q)
      <3>1. q \in Positions
        BY <2>4, ByIdType DEF Stops, Onward, FallbackOf
      <3>2. longer \in Seq(Positions) /\ longer # <<>>
        BY <3>1, AppendType
      <3> QED
        BY <2>4, <3>2
    <2> QED
      BY <2>1, <2>2, <2>3, <2>4
  <1>2. g = [chain \in Seq(Positions) |-> IF Stops(chain) THEN chain ELSE g[Append(chain, Onward(chain))]]
    <2>1. g = [chain \in Seq(Positions) |-> g[chain]]
      OBVIOUS
    <2> HIDE DEF g
    <2> QED
      BY <1>1, <2>1
  <1> HIDE DEF g
  <1> QED
    BY <1>2 DEF FallbackChain, Stops, Onward

\* The chain of an item is one of the ends of the chain it begins.
LEMMA FallbackChainEnds ==
    ASSUME book \in Books, NEW chain \in Seq(Positions), chain # <<>>
    PROVE  FallbackChain[chain] \in Ends(chain)
  <1> DEFINE Wrong == {c \in Seq(Positions) : c # <<>> /\ FallbackChain[c] \notin Ends(c)}
  <1>1. ASSUME NEW c \in Wrong
        PROVE  c # <<>> /\ ~Stops(c) /\ Append(c, Onward(c)) \in Wrong
    <2>1. FallbackChain[c] = IF Stops(c) THEN c ELSE FallbackChain[Append(c, Onward(c))]
      BY FallbackChainEquation
    <2>2. ~Stops(c)
      BY <2>1, EndsHere
    <2>3. Append(c, Onward(c)) \in Seq(Positions) /\ Ends(c) = Ends(Append(c, Onward(c)))
      BY <2>2, EndsOnward
    <2>4. Append(c, Onward(c)) # <<>>
      OBVIOUS
    <2> QED
      BY <2>1, <2>2, <2>3, <2>4
  <1>2. Wrong = {}
    <2> HIDE DEF Wrong
    <2>1. Wrong \in SUBSET Seq(Positions)
      BY DEF Wrong
    <2> QED
      BY <1>1, <2>1, ChainsStop
  <1> QED
    BY <1>2

\* What a chapter is read from: nothing, or an item of the chain that the
\* archive holds, markup whenever the chain has markup that it holds.
LEMMA ChapterSourceFound ==
    ASSUME book \in Books, NEW p \in Positions, ChapterSource(p) # 0
    PROVE  LET c == FallbackChain[<<p>>]
           IN  /\ c \in Ends(<<p>>)
               /\ ChapterSource(p) \in Positions /\ Held(ChapterSource(p))
               /\ \E i \in DOMAIN c : c[i] = ChapterSource(p)
               /\ \/ Manifest[ChapterSource(p)].media = "markup"
                  \/ \A i \in DOMAIN c : Held(c[i]) => Manifest[c[i]].media # "markup"
  <1> DEFINE c == FallbackChain[<<p>>]
             held == {i \in DOMAIN c : Held(c[i])}
             markup == {i \in held : Manifest[c[i]].media = "markup"}
  <1>1. <<p>> \in Seq(Positions) /\ <<p>> # <<>>
    OBVIOUS
  <1>2. c \in Ends(<<p>>) /\ c \in Seq(Positions)
    BY <1>1, FallbackChainEnds DEF Ends
  <1>3. DOMAIN c \in SUBSET Nat /\ \A i \in DOMAIN c : c[i] \in Positions
    BY <1>2
  <1>4. ChapterSource(p) = IF markup # {} THEN c[Least(markup)]
                           ELSE IF held # {} THEN c[Least(held)] ELSE 0
    BY <1>2 DEF ChapterSource, BestOf
  <1>5. CASE markup # {}
    <2>1. markup \in SUBSET Nat
      BY <1>3
    <2>2. Least(markup) \in markup
      <3> HIDE DEF markup
      <3> QED
        BY <1>5, <2>1, LeastNumber
    <2> QED
      BY <1>2, <1>3, <1>4, <1>5, <2>2
  <1>6. CASE markup = {} /\ held # {}
    <2>1. held \in SUBSET Nat
      BY <1>3
    <2>2. Least(held) \in held
      <3> HIDE DEF held
      <3> QED
        BY <1>6, <2>1, LeastNumber
    <2> QED
      BY <1>2, <1>3, <1>4, <1>6, <2>2
  <1> QED
    BY <1>4, <1>5, <1>6

-----------------------------------------------------------------------------
(* The spine.                                                              *)

BeforeSpine == {"encryption", "mimetype", "container", "package", "spine"}
Steps == BeforeAhead \cup {"overlays", "walk"}

\* The spine is what the itemrefs come to, once all of them can be chapters.
SpineInv ==
    /\ book \in Books
    /\ step \in Steps
    /\ step \in BeforeSpine => spine = <<>>
    /\ step \notin BeforeSpine =>
          /\ spine = [i \in DOMAIN book.spine |-> Resolve(book.spine[i])]
          /\ \A i \in DOMAIN book.spine : SpineAnswer(book.spine[i]) = "ok"

\* What a resolved itemref comes to changes only with the book.
LEMMA ResolveKept ==
    ASSUME UNCHANGED book
    PROVE  /\ \A id : Resolve(id)' = Resolve(id)
           /\ \A id : SpineAnswer(id)' = SpineAnswer(id)
           /\ Obfuscated' = Obfuscated
  <1>1. Manifest' = Manifest /\ Positions' = Positions /\ Obfuscated' = Obfuscated
    BY DEF Manifest, Positions, Obfuscated
  <1>2. \A id : ById(id)' = ById(id)
    BY <1>1 DEF ById
  <1>3. FallbackChain' = FallbackChain /\ BestOf' = BestOf
    BY <1>1 DEF FallbackChain, BestOf, FallbackOf, ById, Held, Entry
  <1>4. \A p : ChapterSource(p)' = ChapterSource(p)
    BY <1>3 DEF ChapterSource
  <1>5. \A id : Resolve(id)' = Resolve(id)
    BY <1>2, <1>4 DEF Resolve
  <1> QED
    BY <1>1, <1>5 DEF SpineAnswer, Entry

-----------------------------------------------------------------------------
(* The archive order of a finite set of entries.                           *)

\* Sorted lists every member of a finite set of numbers, the lower first.
LEMMA SortedList ==
    ASSUME NEW S \in SUBSET Nat, IsFiniteSet(S)
    PROVE  /\ Cardinality(S) \in Nat
           /\ \A i \in 1..Cardinality(S) : Sorted(S)[i] \in S
           /\ \A i, j \in 1..Cardinality(S) : i < j => Sorted(S)[i] < Sorted(S)[j]
           /\ \A e \in S : \E i \in 1..Cardinality(S) : Sorted(S)[i] = e
  <1> DEFINE below(e) == {d \in S : d < e}
             rank(e) == Cardinality(below(e))
             n == Cardinality(S)
             f == [e \in S |-> rank(e)]
  <1>1. n \in Nat
    BY FS_CardinalityType
  <1>2. ASSUME NEW e \in S PROVE IsFiniteSet(below(e)) /\ rank(e) \in 0..n - 1
    <2>1. below(e) \in SUBSET S /\ e \notin below(e)
      OBVIOUS
    <2>2. IsFiniteSet(below(e)) /\ rank(e) <= n /\ (n = rank(e) => S = below(e))
      <3> HIDE DEF below
      <3> QED
        BY <2>1, FS_Subset
    <2>3. rank(e) \in Nat
      BY <2>2, FS_CardinalityType
    <2> QED
      BY <1>1, <2>1, <2>2, <2>3
  <1>3. ASSUME NEW d \in S, NEW e \in S, d < e PROVE rank(d) < rank(e)
    <2>1. below(d) \in SUBSET below(e) /\ d \in below(e) /\ d \notin below(d)
      <3>1. ASSUME NEW c \in S, c < d PROVE c < e
        <4>1. c \in Nat /\ d \in Nat /\ e \in Nat
          OBVIOUS
        <4> QED
          BY <1>3, <3>1, <4>1
      <3>2. ~(d < d)
        <4>1. d \in Nat
          OBVIOUS
        <4> QED
          BY <4>1
      <3> QED
        BY <1>3, <3>1, <3>2
    <2>2. rank(d) <= rank(e) /\ (rank(e) = rank(d) => below(e) = below(d))
      <3> HIDE DEF below
      <3> QED
        BY <1>2, <2>1, FS_Subset
    <2> QED
      BY <1>2, <2>1, <2>2
  <1>4. ASSUME NEW d \in S, NEW e \in S, rank(d) = rank(e) PROVE d = e
    <2>1. ~(d < e) /\ ~(e < d)
      <3>1. rank(d) \in Int
        BY <1>1, <1>2
      <3> HIDE DEF rank
      <3>2. ~(rank(d) < rank(e)) /\ ~(rank(e) < rank(d))
        BY <1>4, <3>1
      <3> QED
        BY <1>3, <3>2
    <2>2. d \in Nat /\ e \in Nat
      OBVIOUS
    <2> QED
      BY <2>1, <2>2
  <1>5. \A i \in 0..n - 1 : \E e \in S : rank(e) = i
    <2> HIDE DEF rank
    <2>1. f \in Injection(S, 0..n - 1)
      BY <1>2, <1>4 DEF Injection, IsInjective
    <2>2. IsFiniteSet(0..n - 1) /\ Cardinality(0..n - 1) = n
      <3> HIDE DEF n
      <3>1. n - 1 \in Int /\ 0 \in Int
        BY <1>1
      <3>2. /\ IsFiniteSet(0..n - 1)
            /\ Cardinality(0..n - 1) = IF 0 > n - 1 THEN 0 ELSE n - 1 - 0 + 1
        BY <3>1, FS_Interval
      <3> QED
        BY <1>1, <3>2
    <2>3. f \in Surjection(S, 0..n - 1)
      <3> HIDE DEF f
      <3> QED
        BY <2>1, <2>2, FS_Injection
    <2> QED
      BY <2>3 DEF Surjection
  <1>6. ASSUME NEW i \in 1..n PROVE Sorted(S)[i] \in S /\ rank(Sorted(S)[i]) = i - 1
    <2>1. \E e \in S : rank(e) = i - 1
      BY <1>1, <1>5
    <2>2. Sorted(S)[i] = CHOOSE e \in S : rank(e) = i - 1
      BY DEF Sorted
    <2> QED
      BY <2>1, <2>2
  <1> HIDE DEF rank
  <1>7. ASSUME NEW i \in 1..n, NEW j \in 1..n, i < j PROVE Sorted(S)[i] < Sorted(S)[j]
    <2> DEFINE x == Sorted(S)[i]
               y == Sorted(S)[j]
    <2>1. x \in S /\ y \in S /\ rank(x) = i - 1 /\ rank(y) = j - 1
      BY <1>6
    <2> HIDE DEF x, y
    <2>2. ~(rank(y) < rank(x)) /\ rank(x) # rank(y)
      BY <1>7, <2>1
    <2>3. ~(y < x) /\ x # y
      BY <1>3, <2>1, <2>2
    <2>4. x < y
      BY <2>1, <2>3
    <2> QED
      BY <2>4 DEF x, y
  <1>8. ASSUME NEW e \in S PROVE \E i \in 1..n : Sorted(S)[i] = e
    <2>1. PICK i \in 1..n : i - 1 = rank(e)
      <3>1. rank(e) \in 0..n - 1
        BY <1>2
      <3> HIDE DEF n
      <3>2. ASSUME NEW r \in 0..n - 1 PROVE r + 1 \in 1..n /\ (r + 1) - 1 = r
        BY <1>1
      <3>3. \A r \in 0..n - 1 : \E i \in 1..n : i - 1 = r
        BY <3>2
      <3> QED
        BY <3>1, <3>3
    <2>2. Sorted(S)[i] \in S /\ rank(Sorted(S)[i]) = rank(e)
      BY <1>6, <2>1
    <2> QED
      BY <1>4, <2>2
  <1> QED
    BY <1>1, <1>6, <1>7, <1>8

\* The spine is resolved once, from the book.
LEMMA SpineStep == SpineInv /\ [Next]_vars => SpineInv'
  <1> SUFFICES ASSUME SpineInv, [Next]_vars PROVE SpineInv'
    OBVIOUS
  <1>1. UNCHANGED book
    BY DEF Next, vars, input, plan, CheckEncryption, CheckMimetype, CheckContainer, ReadPackage,
           ResolveSpine, EmitInfo, PlanWalk, ReadNavigation, ReadOverlay, OverlaysDone,
           EmitResource, EmitChapter, EmitStatus
  <1>2. CASE ResolveSpine
    <2>1. step' \in {"spine", "info"} /\ step = "spine" /\ spine = <<>>
      BY <1>2 DEF ResolveSpine, At, Continue, Stop, SpineInv, BeforeSpine
    <2>2. CASE step' = "spine"
      BY <1>1, <1>2, <2>1, <2>2 DEF ResolveSpine, Continue, SpineInv, BeforeSpine
    <2>3. CASE step' = "info"
      <3>1. /\ {i \in DOMAIN book.spine : SpineAnswer(book.spine[i]) # "ok"} = {}
            /\ spine' = [i \in DOMAIN book.spine |-> Resolve(book.spine[i])]
        BY <1>2, <2>1, <2>3 DEF ResolveSpine, Stop
      <3>2. \A i \in DOMAIN book.spine : SpineAnswer(book.spine[i]) = "ok"
        BY <3>1
      <3>3. (spine = [i \in DOMAIN book.spine |-> Resolve(book.spine[i])])'
        BY <1>1, <3>1, ResolveKept
      <3>4. (\A i \in DOMAIN book.spine : SpineAnswer(book.spine[i]) = "ok")'
        BY <1>1, <3>2, ResolveKept
      <3> QED
        BY <1>1, <2>3, <3>3, <3>4 DEF SpineInv, BeforeSpine, Steps, BeforeAhead, BeforeInfo
    <2> QED
      BY <2>1, <2>2, <2>3
  <1>3. ASSUME ~ResolveSpine
        PROVE  UNCHANGED spine /\ step' \in Steps /\ (step' \in BeforeSpine <=> step \in BeforeSpine)
    <2> USE DEF SpineInv, BeforeSpine, Steps, BeforeAhead, BeforeInfo, At, Continue, Stop, plan
    <2>1. CASE CheckEncryption
      BY <2>1, BooksAssumption DEF CheckEncryption, Unreadable
    <2>2. CASE CheckMimetype
      BY <2>2 DEF CheckMimetype, Unreadable
    <2>3. CASE CheckContainer
      BY <2>3 DEF CheckContainer, Unreadable
    <2>4. CASE ReadPackage
      BY <2>4 DEF ReadPackage, Unreadable
    <2>5. CASE EmitInfo
      BY <2>5 DEF EmitInfo, Gone
    <2>6. CASE PlanWalk
      BY <2>6 DEF PlanWalk
    <2>7. CASE ReadNavigation
      BY <2>7 DEF ReadNavigation, Gone, CannotObtain, Unreadable
    <2>8. CASE ReadOverlay
      BY <2>8 DEF ReadOverlay, Gone, CannotObtain, Unreadable
    <2>9. CASE OverlaysDone
      BY <2>9 DEF OverlaysDone
    <2>10. CASE EmitResource
      BY <2>10 DEF EmitResource, Gone, CannotObtain, Unreadable
    <2>11. CASE EmitChapter
      BY <2>11 DEF EmitChapter, Gone, CannotObtain, Unreadable
    <2>12. CASE EmitStatus
      BY <2>12 DEF EmitStatus, Gone
    <2>13. CASE UNCHANGED vars
      BY <2>13 DEF vars
    <2> HIDE DEF SpineInv, BeforeSpine, Steps, BeforeAhead, BeforeInfo, At, Continue, Stop, plan
    <2> QED
      BY <1>3, <2>1, <2>2, <2>3, <2>4, <2>5, <2>6, <2>7, <2>8, <2>9, <2>10, <2>11, <2>12,
         <2>13 DEF Next
  <1>4. CASE ~ResolveSpine
    <2> SUFFICES ASSUME step' \notin BeforeSpine
                 PROVE  /\ (spine = [i \in DOMAIN book.spine |-> Resolve(book.spine[i])])'
                        /\ (\A i \in DOMAIN book.spine : SpineAnswer(book.spine[i]) = "ok")'
      BY <1>1, <1>3, <1>4 DEF SpineInv
    <2>1. /\ spine = [i \in DOMAIN book.spine |-> Resolve(book.spine[i])]
          /\ \A i \in DOMAIN book.spine : SpineAnswer(book.spine[i]) = "ok"
      BY <1>3, <1>4 DEF SpineInv
    <2>2. (spine = [i \in DOMAIN book.spine |-> Resolve(book.spine[i])])'
      BY <1>1, <1>3, <1>4, <2>1, ResolveKept
    <2>3. (\A i \in DOMAIN book.spine : SpineAnswer(book.spine[i]) = "ok")'
      BY <1>1, <2>1, ResolveKept
    <2> QED
      BY <2>2, <2>3
  <1> QED
    BY <1>2, <1>4

\* Before anything is resolved there is no spine.
LEMMA SpineStart == Init => SpineInv
  BY DEF Init, SpineInv, BeforeSpine, Steps, BeforeAhead, BeforeInfo

\* A spine is never empty, and every chapter is read from an entry of the
\* archive that is not obfuscated.
LEMMA SpineFacts ==
    ASSUME SpineInv, step \notin BeforeSpine
    PROVE  /\ Len(spine) \in Nat \ {0} /\ DOMAIN spine = 1..Len(spine)
           /\ Len(spine) = Len(book.spine)
           /\ \A i \in 1..Len(spine) :
                 /\ spine[i].primary \in Positions
                 /\ spine[i].source = ChapterSource(spine[i].primary)
                 /\ spine[i].source # 0
                 /\ spine[i].source \in Positions
                 /\ Entry(spine[i].source) \in 1..book.entries
                 /\ Entry(spine[i].source) \notin Obfuscated
           /\ ChapterEntries = {Entry(spine[i].source) : i \in 1..Len(spine)}
  <1>1. book.spine \in Seq(STRING) /\ book.spine # <<>> /\ book \in Books
    BY BooksAssumption DEF SpineInv
  <1>2. Len(book.spine) \in Nat \ {0} /\ DOMAIN book.spine = 1..Len(book.spine)
    BY <1>1
  <1>3. spine = [i \in 1..Len(book.spine) |-> Resolve(book.spine[i])]
    BY <1>2 DEF SpineInv
  <1>4. Len(spine) = Len(book.spine) /\ DOMAIN spine = 1..Len(spine)
    BY <1>2, <1>3
  <1>5. ASSUME NEW i \in 1..Len(spine)
        PROVE  /\ spine[i].primary \in Positions
               /\ spine[i].source = ChapterSource(spine[i].primary)
               /\ spine[i].source # 0
               /\ spine[i].source \in Positions
               /\ Entry(spine[i].source) \in 1..book.entries
               /\ Entry(spine[i].source) \notin Obfuscated
    <2> DEFINE id == book.spine[i]
    <2>1. spine[i] = Resolve(id) /\ SpineAnswer(id) = "ok"
      BY <1>2, <1>3, <1>4 DEF SpineInv
    <2>2. Resolve(id).source # 0 /\ Entry(Resolve(id).source) \notin Obfuscated
      BY <2>1 DEF SpineAnswer
    <2>3. ById(id) # 0 /\ Resolve(id).primary = ById(id) /\ Resolve(id).source = ChapterSource(ById(id))
      BY <2>2 DEF Resolve
    <2>4. ById(id) \in Positions
      BY <1>1, <2>3, ByIdType
    <2>5. ChapterSource(ById(id)) \in Positions /\ Held(ChapterSource(ById(id)))
      BY <1>1, <2>2, <2>3, <2>4, ChapterSourceFound
    <2>6. Entry(ChapterSource(ById(id))) \in 1..book.entries
      BY <1>1, <2>5, ManifestSeq DEF Held
    <2> QED
      BY <2>1, <2>2, <2>3, <2>4, <2>5, <2>6
  <1>6. ChapterEntries = {Entry(spine[i].source) : i \in 1..Len(spine)}
    BY <1>4 DEF ChapterEntries, SpineIds
  <1> QED
    BY <1>2, <1>4, <1>5, <1>6

-----------------------------------------------------------------------------
(* The plan.                                                               *)

BeforePlan == BeforeInfo \cup {"plan"}

\* The plan is made of the book, the options and the spine.
LEMMA DispositionKept ==
    ASSUME UNCHANGED <<book, options, spine>>
    PROVE  /\ \A p : Disposition(p)' = Disposition(p)
           /\ \A p : Entry(p)' = Entry(p)
           /\ \A p : Skips(p)' = Skips(p)
           /\ Positions' = Positions
           /\ ToSend' = ToSend
           /\ SpineIds' = SpineIds
           /\ ChapterEntries' = ChapterEntries
  <1>1. Manifest' = Manifest /\ Positions' = Positions /\ Obfuscated' = Obfuscated
    BY DEF Manifest, Positions, Obfuscated
  <1>2. \A p : Entry(p)' = Entry(p)
    BY <1>1 DEF Entry
  <1>3. SpineIds' = SpineIds /\ ChapterEntries' = ChapterEntries
    BY <1>2 DEF SpineIds, ChapterEntries
  <1>4. ASSUME NEW p PROVE Disposition(p)' = Disposition(p)
    BY <1>1, <1>2, <1>3 DEF Disposition, Held, Selected, Kind
  <1>5. \A p : Skips(p)' = Skips(p)
    BY <1>4 DEF Skips
  <1>6. ToSend' = ToSend
    BY <1>1, <1>2, <1>4 DEF ToSend
  <1> QED
    BY <1>1, <1>2, <1>3, <1>4, <1>5, <1>6

\* Only entries of the archive are sent as resources; none of a chapter and
\* none that is obfuscated.
LEMMA ToSendFacts ==
    ASSUME book \in Books
    PROVE  /\ ToSend \subseteq 1..book.entries
           /\ ToSend \cap ChapterEntries = {}
           /\ ToSend \cap Obfuscated = {}
           /\ ToSend \in SUBSET Nat /\ IsFiniteSet(ToSend)
  <1>1. ASSUME NEW e \in ToSend
        PROVE  e \in 1..book.entries /\ e \notin ChapterEntries /\ e \notin Obfuscated
    <2>1. PICK p \in Positions : Disposition(p) = "send" /\ e = Entry(p)
      BY DEF ToSend
    <2>2. Held(p) /\ Entry(p) \notin ChapterEntries /\ Entry(p) \notin Obfuscated
      BY <2>1 DEF Disposition
    <2>3. Entry(p) \in 0..book.entries /\ Entry(p) # 0 /\ book.entries \in Nat
      BY <2>2, ManifestSeq DEF Held
    <2> QED
      BY <2>1, <2>2, <2>3
  <1>2. book.entries \in Nat
    BY ManifestSeq
  <1>3. IsFiniteSet(1..book.entries)
    BY <1>2, FS_Interval
  <1>4. ToSend \subseteq 1..book.entries
    BY <1>1
  <1>5. ToSend \in SUBSET Nat
    BY <1>2, <1>4
  <1> QED
    BY <1>1, <1>3, <1>4, <1>5, FS_Subset

\* A file goes out under an item that names it.
LEMMA OwnerType ==
    ASSUME book \in Books, NEW e \in ToSend
    PROVE  Owner(e) \in Positions /\ Owner(e) \in Nat /\ Disposition(Owner(e)) = "send" /\ Entry(Owner(e)) = e
  <1> DEFINE S == {p \in Positions : Disposition(p) = "send" /\ Entry(p) = e}
  <1>1. S \in SUBSET Nat /\ S # {}
    BY ManifestSeq DEF ToSend
  <1>2. Least(S) \in S
    <2> HIDE DEF S
    <2> QED
      BY <1>1, LeastNumber
  <1> QED
    BY <1>1, <1>2 DEF Owner

\* The plan of the walk: files it may send, each once, in archive order.
PlanInv ==
    /\ pending \in Seq([entry : Nat, position : Nat])
    /\ step \in BeforePlan => pending = <<>>
    /\ \A j \in DOMAIN pending : pending[j].entry \in ToSend
    /\ \A i, j \in DOMAIN pending : i < j => pending[i].entry < pending[j].entry

\* The rest of a sequence.
LEMMA TailFacts ==
    ASSUME NEW S, NEW s \in Seq(S), s # <<>>
    PROVE  /\ Len(s) \in Nat \ {0} /\ DOMAIN s = 1..Len(s)
           /\ Head(s) \in S /\ Head(s) = s[1]
           /\ Tail(s) \in Seq(S)
           /\ Len(Tail(s)) = Len(s) - 1 /\ DOMAIN Tail(s) = 1..Len(s) - 1
           /\ \A i \in 1..Len(s) - 1 : i + 1 \in 1..Len(s) /\ Tail(s)[i] = s[i + 1]
  OBVIOUS

\* The actions that neither resolve nor plan nor send a resource.
LEMMA PlanFrame ==
    ASSUME SpineInv, [Next]_vars, ~ResolveSpine, ~PlanWalk, ~EmitResource
    PROVE  /\ UNCHANGED <<book, options, spine, pending, skipped>>
           /\ step' \in BeforePlan <=> step \in BeforePlan
  <1> USE DEF BeforePlan, BeforeInfo, At, Continue, Stop, plan, input
  <1>1. CASE CheckEncryption
    BY <1>1, BooksAssumption DEF SpineInv, CheckEncryption, Unreadable
  <1>2. CASE CheckMimetype
    BY <1>2 DEF CheckMimetype, Unreadable
  <1>3. CASE CheckContainer
    BY <1>3 DEF CheckContainer, Unreadable
  <1>4. CASE ReadPackage
    BY <1>4 DEF ReadPackage, Unreadable
  <1>5. CASE EmitInfo
    BY <1>5 DEF EmitInfo, Gone
  <1>6. CASE ReadNavigation
    BY <1>6 DEF ReadNavigation, Gone, CannotObtain, Unreadable
  <1>7. CASE ReadOverlay
    BY <1>7 DEF ReadOverlay, Gone, CannotObtain, Unreadable
  <1>8. CASE OverlaysDone
    BY <1>8 DEF OverlaysDone
  <1>9. CASE EmitChapter
    BY <1>9 DEF EmitChapter, Gone, CannotObtain, Unreadable
  <1>10. CASE EmitStatus
    BY <1>10 DEF EmitStatus, Gone
  <1>11. CASE UNCHANGED vars
    BY <1>11 DEF vars
  <1> HIDE DEF BeforePlan, BeforeInfo, At, Continue, Stop, plan, input
  <1> QED
    BY <1>1, <1>2, <1>3, <1>4, <1>5, <1>6, <1>7, <1>8, <1>9, <1>10, <1>11 DEF Next

\* The plan is in archive order, and only loses its first.
LEMMA PlanStep == SpineInv /\ PlanInv /\ [Next]_vars => PlanInv'
  <1> SUFFICES ASSUME SpineInv, PlanInv, [Next]_vars PROVE PlanInv'
    OBVIOUS
  <1>1. CASE ResolveSpine
    <2>1. pending' = <<>> /\ DOMAIN pending' = {}
      BY <1>1 DEF ResolveSpine, At, PlanInv, BeforePlan, BeforeInfo
    <2>2. pending' \in Seq([entry : Nat, position : Nat])
      BY <2>1
    <2> QED
      BY <2>1, <2>2 DEF PlanInv
  <1>2. CASE PlanWalk
    <2> DEFINE n == Cardinality(ToSend)
               sent == Sorted(ToSend)
    <2>1. /\ UNCHANGED <<book, options, spine>> /\ step' = "navigation"
          /\ pending' = [i \in 1..n |-> [entry |-> sent[i], position |-> Owner(sent[i])]]
      BY <1>2 DEF PlanWalk, Continue, input
    <2>2. book \in Books /\ ToSend' = ToSend
      BY <2>1, DispositionKept DEF SpineInv
    <2>3. ToSend \in SUBSET Nat /\ IsFiniteSet(ToSend)
      BY <2>2, ToSendFacts
    <2>4. /\ n \in Nat
          /\ \A i \in 1..n : sent[i] \in ToSend
          /\ \A i, j \in 1..n : i < j => sent[i] < sent[j]
      BY <2>3, SortedList
    <2> HIDE DEF n, sent
    <2>5. \A i \in 1..n : [entry |-> sent[i], position |-> Owner(sent[i])] \in [entry : Nat, position : Nat]
      BY <2>2, <2>3, <2>4, OwnerType
    <2>6. pending' \in Seq([entry : Nat, position : Nat]) /\ DOMAIN pending' = 1..n
      BY <2>1, <2>4, <2>5
    <2>7. \A i \in 1..n : pending'[i].entry = sent[i]
      BY <2>1
    <2> QED
      BY <2>1, <2>2, <2>4, <2>6, <2>7 DEF PlanInv, BeforePlan, BeforeInfo
  <1>3. CASE EmitResource
    <2>1. /\ UNCHANGED <<book, options, spine, step>> /\ pending # <<>> /\ step = "walk"
          /\ pending' = pending \/ pending' = Tail(pending)
      BY <1>3 DEF EmitResource, ResourceDue, CannotObtain, Unreadable, Stop, Gone, At, input
    <2>2. ToSend' = ToSend
      BY <2>1, DispositionKept
    <2>3. CASE pending' = pending
      BY <2>1, <2>2, <2>3 DEF PlanInv
    <2>4. CASE pending' = Tail(pending)
      <3>1. /\ pending' \in Seq([entry : Nat, position : Nat])
            /\ DOMAIN pending' = 1..Len(pending) - 1 /\ DOMAIN pending = 1..Len(pending)
            /\ \A i \in 1..Len(pending) - 1 : i + 1 \in 1..Len(pending) /\ pending'[i] = pending[i + 1]
        BY <2>1, <2>4, TailFacts DEF PlanInv
      <3>2. ASSUME NEW i \in DOMAIN pending', NEW j \in DOMAIN pending', i < j
            PROVE  pending'[i].entry < pending'[j].entry
        <4>1. i + 1 < j + 1 /\ i + 1 \in DOMAIN pending /\ j + 1 \in DOMAIN pending
          BY <3>1, <3>2
        <4> QED
          BY <3>1, <4>1 DEF PlanInv
      <3> QED
        BY <2>1, <2>2, <3>1, <3>2 DEF PlanInv, BeforePlan, BeforeInfo
    <2> QED
      BY <2>1, <2>3, <2>4
  <1>4. CASE ~ResolveSpine /\ ~PlanWalk /\ ~EmitResource
    <2>1. UNCHANGED <<book, options, spine, pending>> /\ (step' \in BeforePlan <=> step \in BeforePlan)
      BY <1>4, PlanFrame
    <2>2. ToSend' = ToSend
      BY <2>1, DispositionKept
    <2> QED
      BY <2>1, <2>2 DEF PlanInv
  <1> QED
    BY <1>1, <1>2, <1>3, <1>4

\* Before anything is planned there is no plan.
LEMMA PlanStart == Init => PlanInv
  <1> SUFFICES ASSUME Init PROVE PlanInv
    OBVIOUS
  <1>1. pending = <<>> /\ DOMAIN pending = {} /\ step = "encryption"
    BY DEF Init
  <1>2. pending \in Seq([entry : Nat, position : Nat])
    BY <1>1
  <1> QED
    BY <1>1, <1>2 DEF PlanInv

-----------------------------------------------------------------------------
(* What goes out.                                                          *)

\* The events of the driver.
Events == [type : {"info", "navigation", "media_overlay", "chapter", "resource", "status"},
           item : Nat, entry : Nat, overlay : Nat]

\* No chapter has followed event i.
AfterLastChapter(i) == \A k \in DOMAIN events : i < k => events[k].type # "chapter"

\* A chapter is that of an itemref the walk has passed; a resource is one
\* that was planned, and is stored before the next chapter if it was sent
\* since the last one.
ChapterSent(i) ==
    /\ events[i].item \in 1..at - 1
    /\ events[i].entry = Entry(spine[events[i].item].source)
ResourceSent(i) ==
    /\ events[i].entry \in ToSend
    /\ at <= Len(spine) /\ AfterLastChapter(i) => events[i].entry < Entry(spine[at].source)

\* What has gone out, against what has not.
SentInv ==
    /\ events \in Seq(Events)
    /\ at \in Nat \ {0}
    /\ chapters = IF step = "walk" THEN at - 1 ELSE 0
    /\ step # "walk" => Sendings = {}
    /\ step = "walk" => at <= Len(spine) + 1
    /\ \A i \in DOMAIN events : events[i].type = "chapter" => ChapterSent(i)
    /\ \A i \in DOMAIN events : events[i].type = "resource" => ResourceSent(i)
    /\ \A i \in Sendings, j \in DOMAIN pending : events[i].entry < pending[j].entry
    /\ SendingsInOrder

\* What one more event makes of them.
LEMMA EventAdded ==
    ASSUME NEW es \in Seq(Events), NEW ev \in Events, NEW longer, longer = Append(es, ev)
    PROVE  /\ longer \in Seq(Events)
           /\ Len(es) \in Nat /\ DOMAIN es = 1..Len(es)
           /\ \A i : i \in DOMAIN longer <=> (i \in DOMAIN es \/ i = Len(es) + 1)
           /\ Len(es) + 1 \notin DOMAIN es
           /\ longer[Len(es) + 1] = ev
           /\ \A i \in DOMAIN es : longer[i] = es[i] /\ i < Len(es) + 1 /\ ~(Len(es) + 1 < i)
  <1>1. Len(es) \in Nat /\ DOMAIN es = 1..Len(es) /\ longer \in Seq(Events)
    OBVIOUS
  <1>2. DOMAIN longer = 1..Len(es) + 1
    BY <1>1
  <1>3. \A i : i \in DOMAIN longer <=> (i \in DOMAIN es \/ i = Len(es) + 1)
    BY <1>1, <1>2
  <1>4. longer[Len(es) + 1] = ev /\ \A i \in DOMAIN es : longer[i] = es[i]
    BY <1>1
  <1>5. Len(es) + 1 \notin DOMAIN es /\ \A i \in DOMAIN es : i < Len(es) + 1 /\ ~(Len(es) + 1 < i)
    BY <1>1
  <1> QED
    BY <1>1, <1>3, <1>4, <1>5

\* The walk begins when the overlays are done, and not otherwise.
LEMMA WalkBegins ==
    ASSUME SpineInv, [Next]_vars, step # "walk", ~OverlaysDone
    PROVE  step' # "walk"
  <1> USE DEF At, Continue, Stop
  <1>1. CASE CheckEncryption
    BY <1>1, BooksAssumption DEF SpineInv, CheckEncryption, Unreadable
  <1>2. CASE CheckMimetype \/ CheckContainer \/ ReadPackage
    BY <1>2 DEF CheckMimetype, CheckContainer, ReadPackage, Unreadable
  <1>3. CASE ResolveSpine \/ EmitInfo \/ PlanWalk
    BY <1>3 DEF ResolveSpine, EmitInfo, PlanWalk, Gone
  <1>4. CASE ReadNavigation \/ ReadOverlay
    BY <1>4 DEF ReadNavigation, ReadOverlay, Gone, CannotObtain, Unreadable
  <1>5. CASE EmitResource \/ EmitChapter \/ EmitStatus \/ UNCHANGED vars
    BY <1>5 DEF EmitResource, EmitChapter, EmitStatus, vars
  <1> HIDE DEF At, Continue, Stop
  <1> QED
    BY <1>1, <1>2, <1>3, <1>4, <1>5 DEF Next

\* Until the walk begins only info, navigation and overlays go out.
LEMMA SentBefore ==
    ASSUME SpineInv, SentInv, [Next]_vars, step # "walk" \/ OverlaysDone
    PROVE  SentInv'
  <1>1. /\ events \in Seq(Events) /\ Sendings = {} /\ at \in Nat \ {0} /\ chapters = 0
        /\ book \in Books
    BY DEF SentInv, SpineInv, OverlaysDone, At
  <1>2. ASSUME NEW p PROVE OverlayOf(p) \in Nat
    BY <1>1, ByIdType, ManifestSeq DEF OverlayOf
  <1>3. \/ events' = events
        \/ \E ev \in Events : events' = Append(events, ev) /\ ev.type \in {"info", "navigation", "media_overlay"}
    <2>1. CASE EmitInfo
      <3>1. Len(spine) \in Nat
        BY <2>1, SpineFacts DEF EmitInfo, At, BeforeSpine
      <3>2. Event("info", Len(spine), 0, 0) \in Events
        BY <3>1 DEF Event, Events
      <3> QED
        BY <2>1, <3>2 DEF EmitInfo, Emit, Gone, Event
    <2>2. CASE ReadNavigation
      <3> DEFINE ev == Event("navigation", NavigationSource, Entry(NavigationSource), 0)
      <3>1. events' = events \/ (events' = Append(events, ev) /\ NavigationSource # 0)
        BY <2>2 DEF ReadNavigation, Gone, Emit, Event
      <3>2. NavigationSource \in Positions \cup {0}
        <4> DEFINE nav == {p \in Positions : Manifest[p].nav}
        <4>1. nav \in SUBSET Nat
          BY <1>1, ManifestSeq
        <4>2. nav # {} => Least(nav) \in nav
          <5> HIDE DEF nav
          <5> QED
            BY <4>1, LeastNumber
        <4> QED
          BY <1>1, <4>2, ByIdType DEF NavigationSource
      <3>3. NavigationSource # 0 => ev \in Events
        BY <1>1, <3>2, ManifestSeq DEF Event, Events
      <3> QED
        BY <3>1, <3>3 DEF Event
    <2>3. CASE ReadOverlay
      <3>1. \/ events' = events
            \/ \E p \in Positions : events' = Append(events, Event("media_overlay", p, OverlayEntry(p), OverlayOf(p)))
                                    /\ Held(OverlayOf(p)) /\ Narrated(p)
        BY <2>3 DEF ReadOverlay, Gone, Emit, OverlaysFrom
      <3>2. ASSUME NEW p \in Positions, Narrated(p)
            PROVE  Event("media_overlay", p, OverlayEntry(p), OverlayOf(p)) \in Events
        <4>1. OverlayOf(p) \in Positions
          BY <1>1, <3>2, ByIdType DEF Narrated, OverlayOf
        <4> QED
          BY <1>1, <1>2, <3>2, <4>1, ManifestSeq DEF Event, Events, OverlayEntry
      <3> QED
        BY <3>1, <3>2 DEF Event
    <2>4. CASE ~EmitInfo /\ ~ReadNavigation /\ ~ReadOverlay
      BY <2>4 DEF Next, vars, CheckEncryption, CheckMimetype, CheckContainer, ReadPackage,
                  ResolveSpine, PlanWalk, OverlaysDone, EmitResource, EmitChapter, EmitStatus, At
    <2> QED
      BY <2>1, <2>2, <2>3, <2>4
  <1>4. /\ events' \in Seq(Events)
        /\ \A i \in DOMAIN events' : events'[i].type \notin {"chapter", "resource"}
    <2>1. \A i \in DOMAIN events : events[i].type \notin {"chapter", "resource"}
      BY <1>1 DEF Sendings
    <2>2. CASE events' = events
      BY <1>1, <2>1, <2>2
    <2>3. ASSUME NEW ev \in Events, events' = Append(events, ev),
                 ev.type \in {"info", "navigation", "media_overlay"}
          PROVE  /\ events' \in Seq(Events)
                 /\ \A i \in DOMAIN events' : events'[i].type \notin {"chapter", "resource"}
      BY <1>1, <2>1, <2>3, EventAdded
    <2> QED
      BY <1>3, <2>2, <2>3
  <1>5. Sendings' = {}
    BY <1>4 DEF Sendings
  <1>6. at' \in Nat \ {0} /\ chapters' = 0 /\ (step' = "walk" => at' = 1)
    <2>1. chapters' = 0
      BY <1>1 DEF Next, vars, counts, CheckEncryption, CheckMimetype, CheckContainer, ReadPackage,
                  ResolveSpine, EmitInfo, PlanWalk, ReadNavigation, ReadOverlay, OverlaysDone,
                  EmitResource, EmitChapter, EmitStatus, At
    <2>2. CASE OverlaysDone
      BY <2>1, <2>2 DEF OverlaysDone
    <2>3. CASE ReadOverlay
      <3>1. step' = "overlays"
        BY <2>3 DEF ReadOverlay, At, Gone, Stop, CannotObtain, Unreadable
      <3>2. at' = at \/ \E p \in OverlaysFrom(at) : at' = p + 1
        BY <2>3 DEF ReadOverlay
      <3>3. OverlaysFrom(at) \subseteq Nat
        BY <1>1, ManifestSeq DEF OverlaysFrom
      <3> QED
        BY <1>1, <2>1, <3>1, <3>2, <3>3
    <2>4. CASE ~OverlaysDone /\ ~ReadOverlay
      <3>1. at' = at
        BY <2>4 DEF Next, vars, CheckEncryption, CheckMimetype, CheckContainer, ReadPackage,
                    ResolveSpine, EmitInfo, PlanWalk, ReadNavigation, EmitResource, EmitChapter,
                    EmitStatus, At
      <3>2. step' # "walk"
        BY <2>4, WalkBegins DEF OverlaysDone, At
      <3> QED
        BY <1>1, <2>1, <3>1, <3>2
    <2> QED
      BY <2>2, <2>3, <2>4
  <1>7. SendingsInOrder'
    BY <1>5 DEF SendingsInOrder
  <1>8. step' = "walk" => at' <= Len(spine') + 1
    <2> SUFFICES ASSUME step' = "walk" PROVE Len(spine') \in Nat
      BY <1>6
    <2>1. CASE OverlaysDone
      BY <2>1, SpineFacts DEF OverlaysDone, plan, At, BeforeSpine
    <2>2. CASE ~OverlaysDone
      BY <2>2, WalkBegins
    <2> QED
      BY <2>1, <2>2
  <1> QED
    BY <1>4, <1>5, <1>6, <1>7, <1>8 DEF SentInv

\* What SendingsInOrder asks of two events, the first sent before the second.
InOrder(es, i, j) ==
    CASE es[i].type = "chapter" /\ es[j].type = "chapter" -> es[i].item < es[j].item
      [] es[j].type = "resource" -> es[i].entry < es[j].entry
      [] OTHER -> (\A k \in i..j - 1 : es[k].type # "chapter") => es[i].entry < es[j].entry

\* SendingsInOrder is that of every pair of sendings.
LEMMA OrderOfPairs == SendingsInOrder <=> \A i, j \in Sendings : i < j => InOrder(events, i, j)
  BY DEF SendingsInOrder, InOrder

\* Their order is not changed by what goes out later.
LEMMA OrderKept ==
    ASSUME NEW es \in Seq(Events), NEW longer, \A i \in DOMAIN es : longer[i] = es[i],
           NEW i \in DOMAIN es, NEW j \in DOMAIN es, InOrder(es, i, j)
    PROVE  InOrder(longer, i, j)
  <1>1. \A k \in i..j - 1 : k \in DOMAIN es
    OBVIOUS
  <1>2. \A k \in i..j - 1 : longer[k] = es[k]
    BY <1>1
  <1>3. longer[i] = es[i] /\ longer[j] = es[j]
    OBVIOUS
  <1> QED
    BY <1>2, <1>3 DEF InOrder

\* A step of the walk that sends neither a chapter nor a resource.
LEMMA SentOtherwise ==
    ASSUME SentInv, UNCHANGED <<book, options, spine, at, chapters, step>>, step = "walk",
           \/ UNCHANGED events
           \/ \E ev \in Events : events' = Append(events, ev) /\ ev.type = "status",
           \A j \in DOMAIN pending' : \E k \in DOMAIN pending : pending'[j] = pending[k]
    PROVE  SentInv'
  <1>1. ToSend' = ToSend
    BY DispositionKept
  <1>2. /\ events' \in Seq(Events) /\ DOMAIN events \subseteq DOMAIN events'
        /\ \A i \in DOMAIN events : events'[i] = events[i]
        /\ \A i \in DOMAIN events' : i \in DOMAIN events \/ events'[i].type = "status"
        /\ DOMAIN events \subseteq Nat
    <2>1. CASE UNCHANGED events
      BY <2>1 DEF SentInv
    <2>2. ASSUME NEW ev \in Events, events' = Append(events, ev), ev.type = "status"
          PROVE  /\ events' \in Seq(Events) /\ DOMAIN events \subseteq DOMAIN events'
                 /\ \A i \in DOMAIN events : events'[i] = events[i]
                 /\ \A i \in DOMAIN events' : i \in DOMAIN events \/ events'[i].type = "status"
                 /\ DOMAIN events \subseteq Nat
      <3>1. events \in Seq(Events)
        BY DEF SentInv
      <3> QED
        BY <2>2, <3>1, EventAdded
    <2> QED
      BY <2>1, <2>2
  <1>3. Sendings' = Sendings /\ \A i \in Sendings : i \in DOMAIN events /\ events'[i] = events[i]
    BY <1>2 DEF Sendings
  <1>4. \A i \in DOMAIN events : AfterLastChapter(i)' => AfterLastChapter(i)
    BY <1>2 DEF AfterLastChapter
  <1>5. SendingsInOrder'
    <2> SUFFICES ASSUME NEW i \in Sendings, NEW j \in Sendings, i < j
        PROVE  InOrder(events', i, j)
      BY <1>3 DEF SendingsInOrder, InOrder
    <2>1. i \in DOMAIN events /\ j \in DOMAIN events /\ events \in Seq(Events)
      BY <1>3 DEF SentInv
    <2>2. InOrder(events, i, j)
      BY OrderOfPairs DEF SentInv
    <2> QED
      BY <1>2, <2>1, <2>2, OrderKept
  <1>6. \A i \in DOMAIN events' : events'[i].type \in {"chapter", "resource"} =>
          i \in DOMAIN events /\ events'[i] = events[i]
    BY <1>2
  <1>7. ASSUME NEW i \in DOMAIN events', events'[i].type = "chapter" PROVE ChapterSent(i)'
    BY <1>6, <1>7 DEF SentInv, ChapterSent, Entry, Manifest
  <1>8. ASSUME NEW i \in DOMAIN events', events'[i].type = "resource" PROVE ResourceSent(i)'
    BY <1>1, <1>4, <1>6, <1>8 DEF SentInv, ResourceSent, Entry, Manifest
  <1>9. \A i \in Sendings', j \in DOMAIN pending' : events'[i].entry < pending'[j].entry
    BY <1>3 DEF SentInv
  <1> QED
    BY <1>2, <1>5, <1>7, <1>8, <1>9 DEF SentInv

\* A chapter goes out: nothing planned is stored before it, and no resource
\* sent since the last chapter is stored after it.
LEMMA SentChapter ==
    ASSUME SpineInv, PlanInv, SentInv, EmitChapter, at' # at
    PROVE  SentInv'
  <1> DEFINE n == Len(events)
             e == Entry(spine[at].source)
             ev == Event("chapter", at, e, ChapterOverlay(spine[at]))
  <1>1. /\ UNCHANGED <<book, options, spine, pending, step>> /\ step = "walk"
        /\ at <= Len(spine) /\ ~ResourceDue
        /\ events' = Append(events, ev) /\ at' = at + 1 /\ chapters' = chapters + 1
    BY DEF EmitChapter, At, Gone, Emit, CannotObtain, Unreadable, Stop, plan, input
  <1>2. /\ events \in Seq(Events) /\ at \in Nat \ {0} /\ book \in Books
        /\ Len(spine) \in Nat /\ at \in 1..Len(spine)
    BY <1>1, SpineFacts DEF SentInv, SpineInv, BeforeSpine
  <1>3. e \in 1..book.entries /\ e \in ChapterEntries /\ book.entries \in Nat
    BY <1>1, <1>2, SpineFacts, ManifestSeq DEF BeforeSpine
  <1>4. ev \in Events
    <2>1. \A p : OverlayOf(p) \in Nat
      BY <1>2, ByIdType, ManifestSeq DEF OverlayOf
    <2> QED
      BY <1>2, <1>3, <2>1 DEF Event, Events, ChapterOverlay
  <1>5. ToSend' = ToSend /\ \A p : Entry(p)' = Entry(p)
    BY <1>1, DispositionKept
  <1>6. ev.type = "chapter" /\ ev.item = at /\ ev.entry = e
    BY DEF Event
  <1> HIDE DEF ev, e
  <1>7. /\ events' \in Seq(Events)
        /\ n \in Nat /\ DOMAIN events = 1..n
        /\ \A i : i \in DOMAIN events' <=> (i \in DOMAIN events \/ i = n + 1)
        /\ n + 1 \notin DOMAIN events
        /\ events'[n + 1] = ev
        /\ \A i \in DOMAIN events : events'[i] = events[i] /\ i < n + 1 /\ ~(n + 1 < i)
    BY <1>1, <1>2, <1>4, EventAdded
  <1> HIDE DEF n
  <1>8. Sendings' = Sendings \cup {n + 1}
    BY <1>6, <1>7 DEF Sendings
  <1>9. \A j \in DOMAIN pending : e < pending[j].entry
    <2> SUFFICES ASSUME NEW j \in DOMAIN pending PROVE e < pending[j].entry
      OBVIOUS
    <2>1. /\ pending # <<>> /\ DOMAIN pending = 1..Len(pending) /\ Len(pending) \in Nat \ {0}
          /\ Head(pending) = pending[1]
      BY TailFacts DEF PlanInv
    <2>2. ~(pending[1].entry < e)
      BY <1>1, <2>1 DEF ResourceDue, e
    <2>3. /\ pending[1].entry \in ToSend /\ pending[j].entry \in ToSend
          /\ j = 1 \/ pending[1].entry < pending[j].entry
      <3>1. 1 \in DOMAIN pending /\ (j = 1 \/ 1 < j)
        BY <2>1
      <3> QED
        BY <3>1 DEF PlanInv
    <2>4. pending[1].entry \in Nat /\ pending[j].entry \in Nat /\ pending[1].entry # e /\ e \in Nat
      BY <1>2, <1>3, <2>3, ToSendFacts
    <2> QED
      BY <2>2, <2>3, <2>4
  <1>10. ASSUME NEW i \in DOMAIN events', events'[i].type = "chapter" PROVE ChapterSent(i)'
    <2>1. CASE i = n + 1
      <3>1. events'[i].item \in 1..at' - 1 /\ events'[i].entry = Entry(spine[at].source)
        BY <1>1, <1>2, <1>6, <1>7, <2>1 DEF e
      <3> QED
        BY <1>1, <1>6, <1>7, <2>1, <3>1 DEF ChapterSent, Entry, Manifest
    <2>2. CASE i \in DOMAIN events
      <3>1. events'[i] = events[i] /\ ChapterSent(i)
        BY <1>7, <1>10, <2>2 DEF SentInv
      <3>2. events[i].item \in 1..at' - 1
        BY <1>1, <1>2, <3>1 DEF ChapterSent
      <3> QED
        BY <1>1, <3>1, <3>2 DEF ChapterSent, Entry, Manifest
    <2> QED
      BY <1>7, <2>1, <2>2
  <1>11. ASSUME NEW i \in DOMAIN events', events'[i].type = "resource" PROVE ResourceSent(i)'
    <2>1. i \in DOMAIN events /\ events'[i] = events[i] /\ i < n + 1
      BY <1>6, <1>7, <1>11
    <2>2. events[i].entry \in ToSend
      BY <1>11, <2>1 DEF SentInv, ResourceSent
    <2>3. ~AfterLastChapter(i)'
      BY <1>6, <1>7, <2>1 DEF AfterLastChapter
    <2> QED
      BY <1>5, <2>1, <2>2, <2>3 DEF ResourceSent
  <1>12. \A i \in Sendings', j \in DOMAIN pending' : events'[i].entry < pending'[j].entry
    <2>1. \A i \in Sendings : events'[i] = events[i]
      BY <1>7 DEF Sendings
    <2> QED
      BY <1>1, <1>6, <1>7, <1>8, <1>9, <2>1 DEF SentInv
  <1>13. SendingsInOrder'
    <2> SUFFICES ASSUME NEW i \in Sendings', NEW j \in Sendings', i < j
                 PROVE  InOrder(events', i, j)
      BY DEF SendingsInOrder, InOrder
    <2>1. CASE i \in Sendings /\ j \in Sendings
      <3>1. i \in DOMAIN events /\ j \in DOMAIN events /\ InOrder(events, i, j)
        BY <2>1, OrderOfPairs DEF SentInv, Sendings
      <3> QED
        BY <1>2, <1>7, <3>1, OrderKept
    <2>2. CASE i \in Sendings /\ j = n + 1
      <3>1. i \in DOMAIN events /\ events'[i] = events[i] /\ events[i].type \in {"chapter", "resource"}
        BY <1>7, <2>2 DEF Sendings
      <3>2. CASE events[i].type = "chapter"
        <4>1. events[i].item \in 1..at - 1
          BY <3>1, <3>2 DEF SentInv, ChapterSent
        <4>2. events[i].item < at
          BY <1>2, <4>1
        <4> QED
          BY <1>6, <1>7, <2>2, <3>1, <3>2, <4>2 DEF InOrder
      <3>3. CASE events[i].type = "resource"
        <4>1. ResourceSent(i)
          BY <3>1, <3>3 DEF SentInv
        <4>2. (\A k \in i..j - 1 : events'[k].type # "chapter") => AfterLastChapter(i)
          <5>1. \A k \in DOMAIN events : i < k => k \in i..j - 1
            BY <1>7, <2>2, <3>1
          <5> QED
            BY <1>7, <5>1 DEF AfterLastChapter
        <4>3. (\A k \in i..j - 1 : events'[k].type # "chapter") => events[i].entry < e
          BY <1>2, <4>1, <4>2 DEF ResourceSent, e
        <4> QED
          BY <1>6, <1>7, <2>2, <3>1, <3>3, <4>3 DEF InOrder
      <3> QED
        BY <3>1, <3>2, <3>3
    <2>3. i \notin DOMAIN events => FALSE
      BY <1>7, <1>8 DEF Sendings
    <2> QED
      BY <1>7, <1>8, <2>1, <2>2, <2>3 DEF Sendings
  <1>14. /\ at' \in Nat \ {0} /\ at' <= Len(spine') + 1
         /\ chapters' = at' - 1
    BY <1>1, <1>2 DEF SentInv
  <1> QED
    BY <1>1, <1>7, <1>10, <1>11, <1>12, <1>13, <1>14 DEF SentInv

\* A resource goes out: it is stored after everything sent before it, and
\* before the next chapter.
LEMMA SentResource ==
    ASSUME SpineInv, PlanInv, SentInv, EmitResource, events' # events
    PROVE  SentInv'
  <1> DEFINE n == Len(events)
             e == Head(pending).entry
             ev == Event("resource", Head(pending).position, e, OverlayOf(Head(pending).position))
  <1>1. /\ UNCHANGED <<book, options, spine, step, at, chapters>> /\ step = "walk"
        /\ ResourceDue /\ pending # <<>> /\ pending' = Tail(pending)
        /\ events' = Append(events, ev)
    BY DEF EmitResource, ResourceDue, At, Gone, Emit, CannotObtain, Unreadable, Stop, input
  <1>2. /\ events \in Seq(Events) /\ at \in Nat \ {0} /\ book \in Books
        /\ pending \in Seq([entry : Nat, position : Nat])
    BY DEF SentInv, SpineInv, PlanInv
  <1>3. /\ Len(pending) \in Nat \ {0} /\ DOMAIN pending = 1..Len(pending)
        /\ DOMAIN pending' = 1..Len(pending) - 1
        /\ Head(pending) = pending[1] /\ Head(pending) \in [entry : Nat, position : Nat]
        /\ \A i \in 1..Len(pending) - 1 : i + 1 \in 1..Len(pending) /\ pending'[i] = pending[i + 1]
    BY <1>1, <1>2, TailFacts
  <1>4. ev \in Events
    <2>1. \A p : OverlayOf(p) \in Nat
      BY <1>2, ByIdType, ManifestSeq DEF OverlayOf
    <2> QED
      BY <1>3, <2>1 DEF Event, Events
  <1>5. ToSend' = ToSend
    BY <1>1, DispositionKept
  <1>6. ev.type = "resource" /\ ev.entry = e /\ e = pending[1].entry
    BY <1>3 DEF Event
  <1> HIDE DEF ev, e
  <1>7. /\ events' \in Seq(Events)
        /\ n \in Nat /\ DOMAIN events = 1..n
        /\ \A i : i \in DOMAIN events' <=> (i \in DOMAIN events \/ i = n + 1)
        /\ n + 1 \notin DOMAIN events
        /\ events'[n + 1] = ev
        /\ \A i \in DOMAIN events : events'[i] = events[i] /\ i < n + 1 /\ ~(n + 1 < i)
    BY <1>1, <1>2, <1>4, EventAdded
  <1> HIDE DEF n
  <1>8. Sendings' = Sendings \cup {n + 1} /\ \A i \in Sendings : events'[i] = events[i]
    BY <1>6, <1>7 DEF Sendings
  <1>9. /\ e \in ToSend
        /\ \A i \in Sendings : events[i].entry < e
        /\ \A j \in DOMAIN pending' : e < pending'[j].entry
        /\ \A i \in Sendings, j \in DOMAIN pending' : events[i].entry < pending'[j].entry
    <2>1. 1 \in DOMAIN pending
      BY <1>3
    <2>2. \A j \in DOMAIN pending' : j + 1 \in DOMAIN pending /\ 1 < j + 1 /\ pending'[j] = pending[j + 1]
      BY <1>3
    <2> QED
      BY <1>6, <2>1, <2>2 DEF PlanInv, SentInv
  <1>10. ASSUME NEW i \in DOMAIN events', events'[i].type = "chapter" PROVE ChapterSent(i)'
    <2>1. i \in DOMAIN events /\ events'[i] = events[i]
      BY <1>6, <1>7, <1>10
    <2>2. ChapterSent(i)
      BY <1>10, <2>1 DEF SentInv
    <2> QED
      BY <1>1, <2>1, <2>2 DEF ChapterSent, Entry, Manifest
  <1>11. ASSUME NEW i \in DOMAIN events', events'[i].type = "resource" PROVE ResourceSent(i)'
    <2>1. CASE i = n + 1
      <3>1. at <= Len(spine) => e < Entry(spine[at].source)
        BY <1>1 DEF ResourceDue, e
      <3> QED
        BY <1>1, <1>5, <1>6, <1>7, <1>9, <2>1, <3>1 DEF ResourceSent, Entry, Manifest
    <2>2. CASE i \in DOMAIN events
      <3>1. events'[i] = events[i] /\ ResourceSent(i)
        BY <1>7, <1>11, <2>2 DEF SentInv
      <3>2. AfterLastChapter(i)' => AfterLastChapter(i)
        BY <1>7 DEF AfterLastChapter
      <3> QED
        BY <1>1, <1>5, <3>1, <3>2 DEF ResourceSent, Entry, Manifest
    <2> QED
      BY <1>7, <2>1, <2>2
  <1>12. \A i \in Sendings', j \in DOMAIN pending' : events'[i].entry < pending'[j].entry
    BY <1>6, <1>7, <1>8, <1>9
  <1>13. SendingsInOrder'
    <2> SUFFICES ASSUME NEW i \in Sendings', NEW j \in Sendings', i < j
                 PROVE  InOrder(events', i, j)
      BY DEF SendingsInOrder, InOrder
    <2>1. CASE i \in Sendings /\ j \in Sendings
      <3>1. i \in DOMAIN events /\ j \in DOMAIN events /\ InOrder(events, i, j)
        BY <2>1, OrderOfPairs DEF SentInv, Sendings
      <3> QED
        BY <1>2, <1>7, <3>1, OrderKept
    <2>2. CASE i \in Sendings /\ j = n + 1
      <3>1. events'[j].type = "resource" /\ events'[i].entry < events'[j].entry
        BY <1>6, <1>7, <1>8, <1>9, <2>2
      <3> QED
        BY <3>1 DEF InOrder
    <2>3. i \in DOMAIN events
      BY <1>7, <1>8 DEF Sendings
    <2> QED
      BY <1>7, <1>8, <2>1, <2>2, <2>3 DEF Sendings
  <1> QED
    BY <1>1, <1>2, <1>7, <1>10, <1>11, <1>12, <1>13 DEF SentInv

\* Every step keeps the walk in order.
LEMMA SentStep == SpineInv /\ PlanInv /\ SentInv /\ [Next]_vars => SentInv'
  <1> SUFFICES ASSUME SpineInv, PlanInv, SentInv, [Next]_vars PROVE SentInv'
    OBVIOUS
  <1>1. CASE step # "walk" \/ OverlaysDone
    BY <1>1, SentBefore
  <1>2. CASE step = "walk" /\ EmitChapter
    <2>1. CASE at' # at
      BY <1>2, <2>1, SentChapter
    <2>2. CASE at' = at
      <3>1. UNCHANGED <<book, options, spine, chapters, step, events, pending>>
        <4>1. at \in Nat
          BY DEF SentInv
        <4> QED
          BY <1>2, <2>2, <4>1 DEF EmitChapter, At, Gone, Emit, CannotObtain, Unreadable, Stop, plan, input
      <3> QED
        BY <1>2, <2>2, <3>1, SentOtherwise
    <2> QED
      BY <2>1, <2>2
  <1>3. CASE step = "walk" /\ EmitResource
    <2>1. CASE events' # events
      BY <1>3, <2>1, SentResource
    <2>2. CASE events' = events
      <3>1. /\ UNCHANGED <<book, options, spine, chapters, step, at>> /\ pending # <<>>
            /\ pending' = pending \/ pending' = Tail(pending)
        <4>1. events \in Seq(Events)
          BY DEF SentInv
        <4>2. \A x : events # Append(events, x)
          <5>1. Len(events) \in Nat /\ \A x : Len(Append(events, x)) = Len(events) + 1
            BY <4>1
          <5> QED
            BY <5>1
        <4> QED
          BY <1>3, <2>2, <4>2 DEF EmitResource, ResourceDue, At, Gone, Emit, CannotObtain, Unreadable, Stop, input
      <3>2. \A j \in DOMAIN pending' : \E k \in DOMAIN pending : pending'[j] = pending[k]
        <4>1. pending \in Seq([entry : Nat, position : Nat])
          BY DEF PlanInv
        <4>2. CASE pending' = pending
          BY <4>2
        <4>3. CASE pending' = Tail(pending)
          <5>1. /\ DOMAIN pending = 1..Len(pending) /\ DOMAIN pending' = 1..Len(pending) - 1
                /\ \A i \in 1..Len(pending) - 1 : i + 1 \in 1..Len(pending) /\ pending'[i] = pending[i + 1]
            BY <3>1, <4>1, <4>3, TailFacts
          <5> QED
            BY <5>1
        <4> QED
          BY <3>1, <4>2, <4>3
      <3> QED
        BY <1>3, <2>2, <3>1, <3>2, SentOtherwise
    <2> QED
      BY <2>1, <2>2
  <1>4. CASE step = "walk" /\ EmitStatus
    <2>1. /\ UNCHANGED <<book, options, spine, chapters, step, at, pending>>
          /\ events' = events \/ events' = Append(events, Event("status", chapters, 0, 0))
      BY <1>4 DEF EmitStatus, Gone, Emit, Stop, input, plan, counts
    <2>2. Event("status", chapters, 0, 0) \in Events /\ Event("status", chapters, 0, 0).type = "status"
      <3>1. chapters \in Nat
        BY DEF SentInv
      <3> QED
        BY <3>1 DEF Event, Events
    <2> QED
      BY <1>4, <2>1, <2>2, SentOtherwise
  <1>5. CASE step = "walk" /\ UNCHANGED vars
    <2>1. UNCHANGED <<book, options, spine, chapters, step, at, pending, events>>
      BY <1>5 DEF vars, input, plan, counts
    <2> QED
      BY <1>5, <2>1, SentOtherwise
  <1> QED
    BY <1>1, <1>2, <1>3, <1>4, <1>5 DEF Next, At, CheckEncryption, CheckMimetype, CheckContainer,
       ReadPackage, ResolveSpine, EmitInfo, PlanWalk, ReadNavigation, ReadOverlay

\* Before the first event nothing has gone out.
LEMMA SentStart == Init => SentInv
  <1> SUFFICES ASSUME Init PROVE SentInv
    OBVIOUS
  <1>1. events = <<>> /\ DOMAIN events = {} /\ step = "encryption" /\ at = 1 /\ chapters = 0
    BY DEF Init
  <1>2. events \in Seq(Events) /\ Sendings = {}
    BY <1>1 DEF Sendings
  <1> QED
    BY <1>1, <1>2 DEF SentInv, SendingsInOrder

-----------------------------------------------------------------------------
(* How much goes out.                                                      *)

\* A count is a number.
LEMMA CountType ==
    ASSUME events \in Seq(Events)
    PROVE  \A type : Count(type) \in Nat
  <1>1. DOMAIN events = 1..Len(events) /\ Len(events) \in Nat
    OBVIOUS
  <1>2. IsFiniteSet(DOMAIN events)
    BY <1>1, FS_Interval
  <1>3. \A type : {i \in DOMAIN events : events[i].type = type} \in SUBSET DOMAIN events
    OBVIOUS
  <1>4. \A type : IsFiniteSet({i \in DOMAIN events : events[i].type = type})
    BY <1>2, <1>3, FS_Subset
  <1> QED
    BY <1>4, FS_CardinalityType DEF Count

\* One more event is one more of its type.
LEMMA CountAdded ==
    ASSUME events \in Seq(Events), NEW ev, events' = Append(events, ev)
    PROVE  /\ \A type : Count(type) \in Nat
           /\ \A type : Count(type)' = Count(type) + IF ev.type = type THEN 1 ELSE 0
           /\ Len(events) \in Nat /\ DOMAIN events = 1..Len(events) /\ events' # <<>>
           /\ events # <<>> => events'[1] = events[1]
           /\ \A i : i \in DOMAIN events' <=> (i \in DOMAIN events \/ i = Len(events) + 1)
           /\ events'[Len(events) + 1] = ev
           /\ \A i \in DOMAIN events : events'[i] = events[i] /\ i < Len(events) + 1
  <1> DEFINE n == Len(events)
             of(type) == {i \in DOMAIN events : events[i].type = type}
  <1>1. events \in Seq(Events \cup {ev})
    OBVIOUS
  <1>2. n \in Nat /\ DOMAIN events = 1..n /\ events' \in Seq(Events \cup {ev})
    BY <1>1
  <1>3. DOMAIN events' = 1..n + 1 /\ events'[n + 1] = ev /\ \A i \in DOMAIN events : events'[i] = events[i]
    BY <1>1, <1>2
  <1>4. /\ \A i : i \in DOMAIN events' <=> (i \in DOMAIN events \/ i = n + 1)
        /\ n + 1 \notin DOMAIN events
        /\ \A i \in DOMAIN events : i < n + 1
    BY <1>2, <1>3
  <1>5. events # <<>> => 1 \in DOMAIN events
    BY <1>1, <1>2
  <1>6. events' # <<>>
    BY <1>2, <1>3, <1>4
  <1> HIDE DEF n
  <1>7. ASSUME NEW type
        PROVE  Count(type) \in Nat /\ Count(type)' = Count(type) + IF ev.type = type THEN 1 ELSE 0
    <2>1. IsFiniteSet(of(type))
      <3>1. IsFiniteSet(DOMAIN events)
        BY <1>2, FS_Interval
      <3> QED
        BY <3>1, FS_Subset
    <2>2. Cardinality(of(type)) \in Nat
      BY <2>1, FS_CardinalityType
    <2>3. {i \in DOMAIN events' : events'[i].type = type} = IF ev.type = type THEN of(type) \cup {n + 1} ELSE of(type)
      <3>1. CASE ev.type = type
        BY <1>3, <1>4, <3>1
      <3>2. CASE ev.type # type
        BY <1>3, <1>4, <3>2
      <3> QED
        BY <3>1, <3>2
    <2>4. n + 1 \notin of(type)
      BY <1>4
    <2> HIDE DEF of
    <2>5. Cardinality(of(type) \cup {n + 1}) = Cardinality(of(type)) + 1
      BY <2>1, <2>4, FS_AddElement
    <2>6. Count(type) = Cardinality(of(type))
      BY DEF Count, of
    <2>7. Count(type)' = Cardinality({i \in DOMAIN events' : events'[i].type = type})
      BY DEF Count
    <2>8. Count(type) \in Nat
      BY <2>2, <2>6
    <2>9. ev.type = type => Count(type)' = Count(type) + 1
      BY <2>3, <2>5, <2>6, <2>7
    <2>10. ev.type # type => Count(type)' = Count(type) + 0
      <3> SUFFICES ASSUME ev.type # type PROVE Count(type)' = Count(type)
        BY <2>8
      <3>1. {i \in DOMAIN events' : events'[i].type = type} = of(type)
        BY <2>3
      <3>2. Count(type)' = Cardinality(of(type))
        BY <2>7, <3>1
      <3> QED
        BY <2>6, <3>2
    <2> QED
      BY <2>8, <2>9, <2>10
  <1> QED
    BY <1>2, <1>3, <1>4, <1>5, <1>6, <1>7 DEF n

\* Info is the first event; what was sent is counted as it goes.
CountInv ==
    /\ step \in BeforeAhead => Count("navigation") = 0
    /\ step \in BeforeInfo => events = <<>>
    /\ step \notin BeforeInfo => events # <<>> /\ events[1].item = Len(book.spine)
    /\ chapters = Count("chapter")
    /\ emitted = Count("resource")

\* Steps that emit nothing count nothing.
LEMMA CountKept ==
    ASSUME CountInv, UNCHANGED <<book, events, chapters, emitted>>,
           step' \in BeforeAhead => step \in BeforeAhead,
           step' \in BeforeInfo <=> step \in BeforeInfo
    PROVE  CountInv'
  <1>1. \A type : Count(type)' = Count(type)
    BY DEF Count
  <1> QED
    BY <1>1 DEF CountInv

\* The counters follow the events.
LEMMA CountStep == SpineInv /\ SentInv /\ CountInv /\ [Next]_vars => CountInv'
  <1> SUFFICES ASSUME SpineInv, SentInv, CountInv, [Next]_vars PROVE CountInv'
    OBVIOUS
  <1>1. events \in Seq(Events)
    BY DEF SentInv
  <1>2. CASE CheckEncryption \/ CheckMimetype \/ CheckContainer \/ ReadPackage \/ ResolveSpine
             \/ PlanWalk \/ OverlaysDone \/ UNCHANGED vars
    <2>1. /\ UNCHANGED <<book, events, chapters, emitted>>
          /\ step' \in BeforeAhead => step \in BeforeAhead
          /\ step' \in BeforeInfo <=> step \in BeforeInfo
      <3> USE DEF BeforeAhead, BeforeInfo, At, Continue, Stop, input, counts
      <3>1. CASE CheckEncryption
        BY <3>1, BooksAssumption DEF SpineInv, CheckEncryption, Unreadable
      <3>2. CASE CheckMimetype \/ CheckContainer \/ ReadPackage
        BY <3>2 DEF CheckMimetype, CheckContainer, ReadPackage, Unreadable
      <3>3. CASE ResolveSpine \/ PlanWalk \/ OverlaysDone
        BY <3>3 DEF ResolveSpine, PlanWalk, OverlaysDone
      <3>4. CASE UNCHANGED vars
        BY <3>4 DEF vars
      <3> QED
        BY <1>2, <3>1, <3>2, <3>3, <3>4
    <2> QED
      BY <2>1, CountKept
  <1>3. ASSUME UNCHANGED <<book, events, chapters, emitted, step>> PROVE CountInv'
    BY <1>3, CountKept
  <1>4. CASE EmitInfo
    <2>1. CASE events' = events
      <3>1. \A x : events # Append(events, x)
        <4>1. Len(events) \in Nat /\ \A x : Len(Append(events, x)) = Len(events) + 1
          BY <1>1
        <4> QED
          BY <4>1
      <3> QED
        BY <1>3, <1>4, <2>1, <3>1 DEF EmitInfo, Emit, Gone, Stop, input, counts
    <2>2. CASE events' # events
      <3> DEFINE ev == Event("info", Len(spine), 0, 0)
      <3>1. /\ events' = Append(events, ev) /\ step = "info" /\ step' = "plan"
            /\ UNCHANGED <<book, chapters, emitted>>
        BY <1>4, <2>2 DEF EmitInfo, Emit, Gone, Stop, Continue, At, input, counts
      <3>2. events = <<>> /\ Count("navigation") = 0 /\ Len(spine) = Len(book.spine)
        BY <3>1, SpineFacts DEF CountInv, BeforeInfo, BeforeAhead, BeforeSpine
      <3>3. events'[1] = ev /\ events' # <<>>
        BY <3>1, <3>2
      <3>4. ev.type = "info" /\ ev.item = Len(spine)
        BY DEF Event
      <3> HIDE DEF ev
      <3>5. Count("navigation")' = 0 /\ Count("chapter")' = Count("chapter") /\ Count("resource")' = Count("resource")
        BY <1>1, <3>1, <3>2, <3>4, CountAdded
      <3> QED
        BY <3>1, <3>2, <3>3, <3>4, <3>5 DEF CountInv, BeforeInfo, BeforeAhead
    <2> QED
      BY <2>1, <2>2
  <1>5. ASSUME NEW ev, events' = Append(events, ev), UNCHANGED book,
               ev.type = "navigation" => step' \notin BeforeAhead,
               step' \in BeforeAhead => step \in BeforeAhead,
               step \notin BeforeInfo, step' \notin BeforeInfo,
               chapters' = chapters + IF ev.type = "chapter" THEN 1 ELSE 0,
               emitted' = emitted + IF ev.type = "resource" THEN 1 ELSE 0
        PROVE  CountInv'
    <2>1. /\ Count("navigation")' = Count("navigation") + IF ev.type = "navigation" THEN 1 ELSE 0
          /\ Count("chapter")' = Count("chapter") + IF ev.type = "chapter" THEN 1 ELSE 0
          /\ Count("resource")' = Count("resource") + IF ev.type = "resource" THEN 1 ELSE 0
          /\ Count("navigation") \in Nat
      BY <1>1, <1>5, CountAdded
    <2>2. events' # <<>> /\ events'[1] = events[1]
      BY <1>1, <1>5, CountAdded DEF CountInv
    <2> QED
      BY <1>5, <2>1, <2>2 DEF CountInv
  <1>6. Count("chapter") \in Nat /\ Count("resource") \in Nat
    BY <1>1, CountType
  <1>7. CASE ReadNavigation
    <2> DEFINE ev == Event("navigation", NavigationSource, Entry(NavigationSource), 0)
    <2>1. /\ UNCHANGED <<book, chapters, emitted>> /\ step = "navigation"
          /\ \/ events' = events /\ step' \in {"navigation", "overlays"}
             \/ events' = Append(events, ev) /\ step' = "overlays"
      BY <1>7 DEF ReadNavigation, At, CannotObtain, Unreadable, Gone, Emit, Continue, Stop, Event, input, counts
    <2>2. ev.type = "navigation"
      BY DEF Event
    <2> HIDE DEF ev
    <2>3. CASE events' = events
      BY <2>1, <2>3, CountKept DEF BeforeAhead, BeforeInfo
    <2>4. CASE events' = Append(events, ev)
      <3>1. step' \notin BeforeAhead /\ step \notin BeforeInfo /\ step' \notin BeforeInfo
        BY <2>1, <2>2, <2>4, CountAdded DEF BeforeAhead, BeforeInfo
      <3>2. chapters' = chapters + 0 /\ emitted' = emitted + 0
        BY <1>6, <2>1 DEF CountInv
      <3> QED
        BY <1>5, <2>1, <2>2, <2>4, <3>1, <3>2
    <2> QED
      BY <2>1, <2>3, <2>4
  <1>8. CASE ReadOverlay
    <2>1. /\ UNCHANGED <<book, chapters, emitted, step>> /\ step = "overlays"
          /\ \/ events' = events
             \/ \E ev : events' = Append(events, ev) /\ ev.type = "media_overlay"
      <3>1. \A a, b, c : Event("media_overlay", a, b, c).type = "media_overlay"
        BY DEF Event
      <3> QED
        BY <1>8, <3>1 DEF ReadOverlay, At, CannotObtain, Unreadable, Gone, Emit, Stop, input, counts
    <2>2. CASE events' = events
      BY <1>3, <2>1, <2>2
    <2>3. ASSUME NEW ev, events' = Append(events, ev), ev.type = "media_overlay" PROVE CountInv'
      <3>1. step' \notin BeforeAhead /\ step \notin BeforeInfo /\ step' \notin BeforeInfo
        BY <2>1 DEF BeforeAhead, BeforeInfo
      <3>2. chapters' = chapters + 0 /\ emitted' = emitted + 0
        BY <1>6, <2>1 DEF CountInv
      <3> QED
        BY <1>5, <2>1, <2>3, <3>1, <3>2
    <2> QED
      BY <2>1, <2>2, <2>3
  <1>9. CASE EmitResource
    <2>1. /\ UNCHANGED <<book, chapters, step>> /\ step = "walk"
          /\ \/ events' = events /\ emitted' = emitted
             \/ \E ev : events' = Append(events, ev) /\ ev.type = "resource" /\ emitted' = emitted + 1
      <3>1. \A a, b, c : Event("resource", a, b, c).type = "resource"
        BY DEF Event
      <3> QED
        BY <1>9, <3>1 DEF EmitResource, At, CannotObtain, Unreadable, Gone, Emit, Stop, input
    <2>2. CASE events' = events /\ emitted' = emitted
      BY <1>3, <2>1, <2>2
    <2>3. ASSUME NEW ev, events' = Append(events, ev), ev.type = "resource", emitted' = emitted + 1
          PROVE  CountInv'
      <3>1. step' \notin BeforeAhead /\ step \notin BeforeInfo /\ step' \notin BeforeInfo
        BY <2>1 DEF BeforeAhead, BeforeInfo
      <3>2. chapters' = chapters + 0
        BY <1>6, <2>1 DEF CountInv
      <3> QED
        BY <1>5, <2>1, <2>3, <3>1, <3>2
    <2> QED
      BY <2>1, <2>2, <2>3
  <1>10. CASE EmitChapter
    <2>1. /\ UNCHANGED <<book, emitted, step>> /\ step = "walk"
          /\ \/ events' = events /\ chapters' = chapters
             \/ \E ev : events' = Append(events, ev) /\ ev.type = "chapter" /\ chapters' = chapters + 1
      <3>1. \A a, b, c : Event("chapter", a, b, c).type = "chapter"
        BY DEF Event
      <3> QED
        BY <1>10, <3>1 DEF EmitChapter, At, CannotObtain, Unreadable, Gone, Emit, Stop, input
    <2>2. CASE events' = events /\ chapters' = chapters
      BY <1>3, <2>1, <2>2
    <2>3. ASSUME NEW ev, events' = Append(events, ev), ev.type = "chapter", chapters' = chapters + 1
          PROVE  CountInv'
      <3>1. step' \notin BeforeAhead /\ step \notin BeforeInfo /\ step' \notin BeforeInfo
        BY <2>1 DEF BeforeAhead, BeforeInfo
      <3>2. emitted' = emitted + 0
        BY <1>6, <2>1 DEF CountInv
      <3> QED
        BY <1>5, <2>1, <2>3, <3>1, <3>2
    <2> QED
      BY <2>1, <2>2, <2>3
  <1>11. CASE EmitStatus
    <2> DEFINE ev == Event("status", chapters, 0, 0)
    <2>1. /\ UNCHANGED <<book, chapters, emitted, step>> /\ step = "walk"
          /\ events' = events \/ events' = Append(events, ev)
      BY <1>11 DEF EmitStatus, At, Gone, Emit, Stop, Event, input, counts
    <2>2. ev.type = "status"
      BY DEF Event
    <2> HIDE DEF ev
    <2>3. CASE events' = events
      BY <1>3, <2>1, <2>3
    <2>4. CASE events' = Append(events, ev)
      <3>1. step' \notin BeforeAhead /\ step \notin BeforeInfo /\ step' \notin BeforeInfo
        BY <2>1 DEF BeforeAhead, BeforeInfo
      <3>2. chapters' = chapters + 0 /\ emitted' = emitted + 0
        BY <1>6, <2>1 DEF CountInv
      <3> QED
        BY <1>5, <2>1, <2>2, <2>4, <3>1, <3>2
    <2> QED
      BY <2>1, <2>3, <2>4
  <1> QED
    BY <1>2, <1>4, <1>7, <1>8, <1>9, <1>10, <1>11 DEF Next

\* At first there is nothing to count.
LEMMA CountStart == Init => CountInv
  <1> SUFFICES ASSUME Init PROVE CountInv
    OBVIOUS
  <1>1. events = <<>> /\ step = "encryption" /\ chapters = 0 /\ emitted = 0
    BY DEF Init
  <1>2. \A type : {i \in DOMAIN events : events[i].type = type} = {}
    BY <1>1
  <1>3. \A type : Count(type) = 0
    BY <1>2, FS_EmptySet DEF Count
  <1> QED
    BY <1>1, <1>3 DEF CountInv, BeforeInfo

-----------------------------------------------------------------------------
(* The stream the proto promises.                                          *)

Resources == {i \in DOMAIN events : events[i].type = "resource"}
Latest == CHOOSE i \in Resources : \A j \in Resources : j <= i

\* There is a latest resource, once there is one.
LEMMA LatestResource ==
    ASSUME events \in Seq(Events)
    PROVE  /\ LastResource = IF Resources = {} THEN 0 ELSE events[Latest].entry
           /\ Resources # {} => Latest \in Resources /\ \A j \in Resources : j <= Latest
  <1> DEFINE n == Len(events)
             S == {n - i : i \in Resources}
  <1>1. n \in Nat /\ \A i \in Resources : i \in 1..n
    BY DEF Resources
  <1>2. S \in SUBSET Nat
    BY <1>1
  <1>3. ASSUME Resources # {} PROVE \E i \in Resources : \A j \in Resources : j <= i
    <2>1. S # {}
      BY <1>3
    <2>2. Least(S) \in S /\ \A y \in S : Least(S) <= y
      <3> HIDE DEF S
      <3> QED
        BY <1>2, <2>1, LeastNumber
    <2>3. PICK i \in Resources : \A y \in S : n - i <= y
      BY <2>2
    <2>4. \A j \in Resources : n - i <= n - j
      BY <2>3
    <2>5. \A j \in Resources : j <= i
      BY <1>1, <2>4
    <2> QED
      BY <2>5
  <1>4. Resources # {} => Latest \in Resources /\ \A j \in Resources : j <= Latest
    BY <1>3 DEF Latest
  <1> QED
    BY <1>4 DEF LastResource, Latest, Resources

\* One more event changes the last resource only if it is one.
LEMMA LatestAdded ==
    ASSUME events \in Seq(Events), NEW ev, events' = Append(events, ev)
    PROVE  LastResource' = IF ev.type = "resource" THEN ev.entry ELSE LastResource
  <1> DEFINE n == Len(events)
  <1>1. /\ n \in Nat /\ DOMAIN events = 1..n
        /\ \A i : i \in DOMAIN events' <=> (i \in DOMAIN events \/ i = n + 1)
        /\ events'[n + 1] = ev
        /\ \A i \in DOMAIN events : events'[i] = events[i] /\ i < n + 1
    BY CountAdded
  <1> HIDE DEF n
  <1>2. LastResource' = IF Resources' = {} THEN 0 ELSE events'[Latest'].entry
    BY DEF LastResource, Resources, Latest
  <1>3. CASE ev.type = "resource"
    <2>1. Resources' = Resources \cup {n + 1}
      BY <1>1, <1>3 DEF Resources
    <2>2. \A j \in Resources' : j <= n + 1 /\ (j = n + 1 \/ j < n + 1)
      BY <1>1, <2>1 DEF Resources
    <2>3. \A i \in Resources' : (\A j \in Resources' : j <= i) <=> i = n + 1
      <3>1. n + 1 \in Resources'
        BY <2>1
      <3>2. \A i \in Resources' : n + 1 <= i => i = n + 1
        <4>1. \A i \in Resources' : i \in Nat
          BY <1>1, <2>1 DEF Resources
        <4> QED
          BY <1>1, <2>2, <4>1
      <3> QED
        BY <2>2, <3>1, <3>2
    <2>4. Latest' = n + 1
      <3>1. n + 1 \in Resources' /\ \A j \in Resources' : j <= n + 1
        BY <2>1, <2>2
      <3>2. Latest' = CHOOSE i \in Resources' : \A j \in Resources' : j <= i
        BY DEF Latest
      <3> QED
        BY <2>3, <3>1, <3>2
    <2> QED
      BY <1>1, <1>2, <1>3, <2>1, <2>4
  <1>4. CASE ev.type # "resource"
    <2>1. Resources' = Resources
      BY <1>1, <1>4 DEF Resources
    <2>2. Latest' = Latest
      BY <2>1 DEF Latest
    <2>3. Resources # {} => Latest \in DOMAIN events
      BY LatestResource DEF Resources
    <2>4. Resources # {} => events'[Latest] = events[Latest]
      BY <1>1, <2>3
    <2> QED
      BY <1>2, <1>4, <2>1, <2>2, <2>4, LatestResource
  <1> QED
    BY <1>3, <1>4

\* The last resource is stored before everything still planned.
LEMMA LatestBefore ==
    ASSUME SpineInv, SentInv
    PROVE  /\ LastResource \in Nat
           /\ \A j \in DOMAIN pending : pending[j].entry \in Nat \ {0} => LastResource < pending[j].entry
  <1>1. events \in Seq(Events)
    BY DEF SentInv
  <1>2. CASE Resources = {}
    BY <1>1, <1>2, LatestResource
  <1>3. CASE Resources # {}
    <2>1. /\ LastResource = events[Latest].entry /\ Latest \in Sendings /\ Latest \in DOMAIN events
      BY <1>1, <1>3, LatestResource DEF Resources, Sendings
    <2>2. LastResource \in Nat
      <3>1. events[Latest] \in Events
        BY <1>1, <2>1
      <3>2. events[Latest].entry \in Nat
        BY <3>1 DEF Events
      <3> QED
        BY <2>1, <3>2
    <2> QED
      BY <2>1, <2>2 DEF SentInv
  <1> QED
    BY <1>2, <1>3

\* A step that emits nothing either changes nothing of the stream or fails it.
LEMMA ContractQuiet ==
    ASSUME UNCHANGED events, outcome' = outcome \/ (outcome = "running" /\ outcome' # "complete")
    PROVE  [Contract!Next]_(Contract!vars)
  <1>1. /\ Sendings' = Sendings /\ LastResource' = LastResource
        /\ \A type : Count(type)' = Count(type)
    BY DEF Sendings, LastResource, Count
  <1>2. CASE outcome' = outcome
    BY <1>1, <1>2 DEF Contract!vars
  <1>3. CASE outcome = "running" /\ outcome' \notin {"running", "complete"}
    <2>1. Contract!Failure
      BY <1>1, <1>3 DEF Contract!Failure
    <2> QED
      BY <2>1 DEF Contract!Next
  <1> QED
    BY <1>2, <1>3

\* parse implements the stream the proto promises: every event is one the
\* contract allows where it goes out, and the call ends as the contract says.
LEMMA ContractStep ==
    SpineInv /\ PlanInv /\ SentInv /\ CountInv /\ [Next]_vars => [Contract!Next]_(Contract!vars)
  <1> SUFFICES ASSUME SpineInv, PlanInv, SentInv, CountInv, [Next]_vars
               PROVE  [Contract!Next]_(Contract!vars)
    OBVIOUS
  <1>1. events \in Seq(Events) /\ \A type : Count(type) \in Nat
    BY CountType DEF SentInv
  <1>2. ASSUME NEW ev, events' = Append(events, ev)
        PROVE  /\ \A type : Count(type)' = Count(type) + IF ev.type = type THEN 1 ELSE 0
               /\ LastResource' = IF ev.type = "resource" THEN ev.entry ELSE LastResource
               /\ events' # <<>>
               /\ events # <<>> => events'[1] = events[1]
               /\ events = <<>> => events'[1] = ev
               /\ Sendings' = {} <=> Sendings = {} /\ ev.type \notin {"chapter", "resource"}
    <2>1. /\ Len(events) \in Nat /\ DOMAIN events = 1..Len(events) /\ events' # <<>>
          /\ events # <<>> => events'[1] = events[1]
          /\ \A i : i \in DOMAIN events' <=> (i \in DOMAIN events \/ i = Len(events) + 1)
          /\ events'[Len(events) + 1] = ev
          /\ \A i \in DOMAIN events : events'[i] = events[i] /\ i < Len(events) + 1
      BY <1>1, <1>2, CountAdded
    <2>2. Sendings' = {} <=> Sendings = {} /\ ev.type \notin {"chapter", "resource"}
      BY <2>1 DEF Sendings
    <2>3. events = <<>> => events'[1] = ev
      BY <1>2
    <2> QED
      BY <1>1, <1>2, <2>1, <2>2, <2>3, CountAdded, LatestAdded
  <1>3. CASE EmitInfo
    <2> DEFINE ev == Event("info", Len(spine), 0, 0)
    <2>1. \/ events' = events /\ outcome = "running" /\ outcome' = "gone"
          \/ events' = Append(events, ev) /\ UNCHANGED outcome
      BY <1>3 DEF EmitInfo, At, Gone, Emit, Continue, Stop, Event
    <2>2. ev.type = "info" /\ ev.item = Len(spine)
      BY DEF Event
    <2> HIDE DEF ev
    <2>3. CASE events' = Append(events, ev) /\ UNCHANGED outcome
      <3>1. step = "info" /\ outcome = "running" /\ events = <<>> /\ Sendings = {}
        BY <1>3 DEF EmitInfo, At, CountInv, BeforeInfo, SentInv
      <3>2. Len(spine) \in Nat \ {0}
        BY <3>1, SpineFacts DEF BeforeSpine
      <3>3. /\ \A type : type # "info" => Count(type)' = Count(type)
            /\ LastResource' = LastResource /\ events' # <<>> /\ events'[1].item \in Nat \ {0}
            /\ Sendings' = {}
        BY <1>1, <1>2, <2>2, <2>3, <3>1, <3>2
      <3>4. Contract!Info
        BY <2>3, <3>1, <3>3 DEF Contract!Info
      <3> QED
        BY <3>4 DEF Contract!Next
    <2> QED
      BY <2>1, <2>3, ContractQuiet
  <1>4. CASE ReadNavigation
    <2> DEFINE ev == Event("navigation", NavigationSource, Entry(NavigationSource), 0)
    <2>1. \/ events' = events /\ (outcome' = outcome \/ (outcome = "running" /\ outcome' # "complete"))
          \/ events' = Append(events, ev) /\ UNCHANGED outcome
      BY <1>4 DEF ReadNavigation, At, CannotObtain, Unreadable, Gone, Emit, Continue, Stop, Event
    <2>2. ev.type = "navigation"
      BY DEF Event
    <2> HIDE DEF ev
    <2>3. CASE events' = Append(events, ev) /\ UNCHANGED outcome
      <3>1. step = "navigation" /\ outcome = "running" /\ events # <<>> /\ Sendings = {} /\ Count("navigation") = 0
        BY <1>4 DEF ReadNavigation, At, CountInv, BeforeInfo, BeforeAhead, SentInv
      <3>2. /\ \A type : type # "navigation" => Count(type)' = Count(type)
            /\ Count("navigation")' = 1
            /\ LastResource' = LastResource /\ events' # <<>> /\ events'[1] = events[1]
            /\ Sendings' = {}
        BY <1>1, <1>2, <2>2, <2>3, <3>1
      <3>3. Contract!Navigation
        BY <2>3, <3>1, <3>2 DEF Contract!Navigation
      <3> QED
        BY <3>3 DEF Contract!Next
    <2> QED
      BY <2>1, <2>3, ContractQuiet
  <1>5. CASE ReadOverlay
    <2>1. \/ events' = events /\ (outcome' = outcome \/ (outcome = "running" /\ outcome' # "complete"))
          \/ \E ev : events' = Append(events, ev) /\ UNCHANGED outcome /\ ev.type = "media_overlay"
      <3>1. \A a, b, c : Event("media_overlay", a, b, c).type = "media_overlay"
        BY DEF Event
      <3> QED
        BY <1>5, <3>1 DEF ReadOverlay, At, CannotObtain, Unreadable, Gone, Emit, Stop
    <2>2. ASSUME NEW ev, events' = Append(events, ev), UNCHANGED outcome, ev.type = "media_overlay"
          PROVE  [Contract!Next]_(Contract!vars)
      <3>1. step = "overlays" /\ outcome = "running" /\ events # <<>> /\ Sendings = {}
        BY <1>5 DEF ReadOverlay, At, CountInv, BeforeInfo, SentInv
      <3>2. /\ \A type : type # "media_overlay" => Count(type)' = Count(type)
            /\ Count("media_overlay")' = Count("media_overlay") + 1
            /\ LastResource' = LastResource /\ events' # <<>> /\ events'[1] = events[1]
            /\ Sendings' = {}
        BY <1>1, <1>2, <2>2, <3>1
      <3>3. Contract!MediaOverlay
        BY <2>2, <3>1, <3>2 DEF Contract!MediaOverlay
      <3> QED
        BY <3>3 DEF Contract!Next
    <2> QED
      BY <2>1, <2>2, ContractQuiet
  <1>6. CASE EmitResource
    <2>1. \/ events' = events /\ (outcome' = outcome \/ (outcome = "running" /\ outcome' # "complete"))
          \/ \E ev : events' = Append(events, ev) /\ UNCHANGED outcome /\ ev.type = "resource"
                     /\ ev.entry = Head(pending).entry
      <3>1. \A a, b, c : Event("resource", a, b, c).type = "resource" /\ Event("resource", a, b, c).entry = b
        BY DEF Event
      <3> QED
        BY <1>6, <3>1 DEF EmitResource, At, CannotObtain, Unreadable, Gone, Emit, Stop
    <2>2. ASSUME NEW ev, events' = Append(events, ev), UNCHANGED outcome, ev.type = "resource",
                 ev.entry = Head(pending).entry
          PROVE  [Contract!Next]_(Contract!vars)
      <3>1. step = "walk" /\ outcome = "running" /\ events # <<>> /\ pending # <<>>
        BY <1>6 DEF EmitResource, ResourceDue, At, CountInv, BeforeInfo
      <3>2. ev.entry \in Nat /\ LastResource \in Nat /\ LastResource < ev.entry
        <4>1. pending \in Seq([entry : Nat, position : Nat]) /\ book \in Books
          BY DEF PlanInv, SpineInv
        <4>2. Head(pending) = pending[1] /\ 1 \in DOMAIN pending
          BY <3>1, <4>1, TailFacts
        <4>3. pending[1].entry \in ToSend
          BY <4>2 DEF PlanInv
        <4>4. pending[1].entry \in Nat \ {0}
          <5>1. pending[1].entry \in 1..book.entries
            BY <4>1, <4>3, ToSendFacts
          <5>2. \A x \in 1..book.entries : x \in Nat \ {0}
            BY <4>1, ManifestSeq
          <5> QED
            BY <5>1, <5>2
        <4> QED
          BY <2>2, <4>2, <4>4, LatestBefore
      <3>3. /\ \A type : type # "resource" => Count(type)' = Count(type)
            /\ LastResource' = ev.entry /\ events' # <<>> /\ events'[1] = events[1]
            /\ Sendings' # {}
        BY <1>1, <1>2, <2>2, <3>1
      <3>4. Contract!Resource
        BY <2>2, <3>1, <3>2, <3>3 DEF Contract!Resource
      <3> QED
        BY <3>4 DEF Contract!Next
    <2> QED
      BY <2>1, <2>2, ContractQuiet
  <1>7. step = "walk" => /\ Count("chapter") = at - 1 /\ events[1].item = Len(spine)
                         /\ Len(spine) \in Nat \ {0} /\ at \in Nat \ {0} /\ at <= Len(spine) + 1
                         /\ events # <<>>
    BY SpineFacts DEF SentInv, CountInv, BeforeSpine, BeforeInfo
  <1>8. CASE EmitChapter
    <2>1. \/ events' = events /\ (outcome' = outcome \/ (outcome = "running" /\ outcome' # "complete"))
          \/ \E ev : events' = Append(events, ev) /\ UNCHANGED outcome /\ ev.type = "chapter"
      <3>1. \A a, b, c : Event("chapter", a, b, c).type = "chapter"
        BY DEF Event
      <3> QED
        BY <1>8, <3>1 DEF EmitChapter, At, CannotObtain, Unreadable, Gone, Emit, Stop
    <2>2. ASSUME NEW ev, events' = Append(events, ev), UNCHANGED outcome, ev.type = "chapter"
          PROVE  [Contract!Next]_(Contract!vars)
      <3>1. step = "walk" /\ outcome = "running" /\ at <= Len(spine)
        BY <1>8 DEF EmitChapter, At
      <3>2. events # <<>> /\ Count("chapter") < events[1].item
        BY <1>7, <3>1
      <3>3. /\ \A type : type # "chapter" => Count(type)' = Count(type)
            /\ Count("chapter")' = Count("chapter") + 1
            /\ LastResource' = LastResource /\ events' # <<>> /\ events'[1] = events[1]
            /\ Sendings' # {}
        BY <1>1, <1>2, <2>2, <3>2
      <3>4. Contract!Chapter
        BY <2>2, <3>1, <3>2, <3>3 DEF Contract!Chapter
      <3> QED
        BY <3>4 DEF Contract!Next
    <2> QED
      BY <2>1, <2>2, ContractQuiet
  <1>9. CASE EmitStatus
    <2> DEFINE ev == Event("status", chapters, 0, 0)
    <2>1. /\ step = "walk" /\ outcome = "running" /\ at > Len(spine)
          /\ \/ events' = events /\ outcome' = "gone"
             \/ events' = Append(events, ev) /\ outcome' = "complete"
      BY <1>9 DEF EmitStatus, At, Gone, Emit, Stop, Event
    <2>2. ev.type = "status"
      BY DEF Event
    <2> HIDE DEF ev
    <2>3. CASE events' = Append(events, ev) /\ outcome' = "complete"
      <3>1. events # <<>> /\ Count("chapter") = events[1].item /\ Count("chapter") # 0
        BY <1>7, <2>1
      <3>2. Sendings # {}
        <4>1. CASE Sendings = {}
          <5>1. {i \in DOMAIN events : events[i].type = "chapter"} = {}
            BY <4>1 DEF Sendings
          <5> QED
            BY <3>1, <5>1, FS_EmptySet DEF Count
        <4> QED
          BY <4>1
      <3>3. /\ \A type : type # "status" => Count(type)' = Count(type)
            /\ LastResource' = LastResource /\ events' # <<>> /\ events'[1] = events[1]
        BY <1>1, <1>2, <2>2, <2>3, <3>1
      <3>4. Contract!Status
        BY <2>1, <2>3, <3>1, <3>2, <3>3 DEF Contract!Status
      <3> QED
        BY <3>4 DEF Contract!Next
    <2> QED
      BY <2>1, <2>3, ContractQuiet
  <1>10. CASE CheckEncryption \/ CheckMimetype \/ CheckContainer \/ ReadPackage \/ ResolveSpine
             \/ PlanWalk \/ OverlaysDone \/ UNCHANGED vars
    <2>1. events' = events
      BY <1>10 DEF CheckEncryption, CheckMimetype, CheckContainer, ReadPackage, ResolveSpine, PlanWalk,
                   OverlaysDone, vars
    <2>2. outcome' = outcome \/ (outcome = "running" /\ outcome' # "complete")
      <3> USE DEF At, Continue, Stop
      <3>1. CASE CheckEncryption
        BY <3>1, BooksAssumption DEF SpineInv, CheckEncryption, Unreadable
      <3>2. CASE CheckMimetype \/ CheckContainer \/ ReadPackage
        BY <3>2 DEF CheckMimetype, CheckContainer, ReadPackage, Unreadable
      <3>3. CASE ResolveSpine
        <4>1. \A id : SpineAnswer(id) # "complete"
          BY DEF SpineAnswer
        <4> QED
          BY <3>3, <4>1 DEF ResolveSpine
      <3>4. CASE PlanWalk \/ OverlaysDone
        BY <3>4 DEF PlanWalk, OverlaysDone
      <3>5. CASE UNCHANGED vars
        BY <3>5 DEF vars
      <3> QED
        BY <1>10, <3>1, <3>2, <3>3, <3>4, <3>5
    <2> QED
      BY <2>1, <2>2, ContractQuiet
  <1> QED
    BY <1>3, <1>4, <1>5, <1>6, <1>8, <1>9, <1>10 DEF Next

\* Whatever the book, the options and the moment a read or the client gives
\* out, parse implements the response stream epub_service.proto promises.
THEOREM StreamAsPromised == Spec => KeepsContract
  <1>1. Init => Contract!Init
    <2> SUFFICES ASSUME Init PROVE Contract!Init
      OBVIOUS
    <2>1. events = <<>> /\ outcome = "running" /\ DOMAIN events = {}
      BY DEF Init
    <2>2. \A type : Count(type) = 0
      <3>1. \A type : {i \in DOMAIN events : events[i].type = type} = {}
        BY <2>1
      <3> QED
        BY <3>1, FS_EmptySet DEF Count
    <2>3. LastResource = 0
      BY <2>1 DEF LastResource
    <2> QED
      BY <2>1, <2>2, <2>3 DEF Contract!Init
  <1> QED
    BY <1>1, SpineStart, SpineStep, PlanStart, PlanStep, SentStart, SentStep,
       CountStart, CountStep, ContractStep, PTL DEF Spec, KeepsContract, Contract!Spec

-----------------------------------------------------------------------------
(* What the trailer tells.                                                 *)

WarningCodes == {"unusable_entry_name", "metadata", "missing", "nested", "excluded", "obfuscated"}

\* Warnings are capped, and none is missing that would be the only one.
WarnInv ==
    /\ warnings \in Seq(WarningCodes)
    /\ Len(warnings) <= MaxWarnings
    /\ step \notin BeforePlan =>
          /\ skipped = Cardinality({p \in Positions : Skips(p)})
          /\ skipped > 0 => warnings # <<>>

\* A warning is added, unless there are as many as allowed.
LEMMA Warned ==
    ASSUME warnings \in Seq(WarningCodes), NEW codes \in Seq(WarningCodes), Warn(codes)
    PROVE  /\ warnings' \in Seq(WarningCodes)
           /\ Len(warnings') <= MaxWarnings
           /\ warnings # <<>> \/ codes # <<>> => warnings' # <<>>
  <1> DEFINE s == warnings \o codes
             m == IF Len(s) < MaxWarnings THEN Len(s) ELSE MaxWarnings
  <1>1. /\ s \in Seq(WarningCodes) /\ Len(s) \in Nat /\ Len(s) = Len(warnings) + Len(codes)
        /\ Len(warnings) \in Nat /\ Len(codes) \in Nat
    OBVIOUS
  <1>2. MaxWarnings \in Nat \ {0}
    BY ExtractLimitsAssumption
  <1>3. warnings' = SubSeq(s, 1, m)
    BY DEF Warn, Limited
  <1> HIDE DEF s
  <1>4. m \in 0..Len(s) /\ m <= MaxWarnings /\ (Len(s) # 0 => m # 0)
    BY <1>1, <1>2
  <1> HIDE DEF m
  <1>5. warnings' \in Seq(WarningCodes) /\ Len(warnings') = m
    BY <1>1, <1>3, <1>4
  <1>6. warnings # <<>> \/ codes # <<>> => Len(s) # 0
    <2>1. warnings # <<>> => Len(warnings) # 0
      OBVIOUS
    <2>2. codes # <<>> => Len(codes) # 0
      OBVIOUS
    <2> QED
      BY <1>1, <2>1, <2>2
  <1>7. warnings' # <<>> <=> Len(warnings') # 0
    BY <1>5
  <1> QED
    BY <1>4, <1>5, <1>6, <1>7

\* A set of manifest positions is finite.
LEMMA PositionsFinite ==
    ASSUME book \in Books
    PROVE  /\ Positions = 1..Len(Manifest) /\ Len(Manifest) \in Nat
           /\ IsFiniteSet(Positions) /\ Cardinality(Positions) = Len(Manifest)
           /\ \A S : S \subseteq Positions => IsFiniteSet(S) /\ Cardinality(S) \in Nat
  <1>1. Manifest \in Seq(ManifestItems)
    BY ManifestSeq
  <1>2. Positions = 1..Len(Manifest) /\ Len(Manifest) \in Nat
    BY <1>1 DEF Positions
  <1>3. /\ IsFiniteSet(1..Len(Manifest))
        /\ Cardinality(1..Len(Manifest)) = IF 1 > Len(Manifest) THEN 0 ELSE Len(Manifest) - 1 + 1
    BY <1>2, FS_Interval
  <1>4. Cardinality(Positions) = Len(Manifest)
    BY <1>2, <1>3
  <1>5. \A S : S \subseteq Positions => IsFiniteSet(S) /\ Cardinality(S) \in Nat
    BY <1>2, <1>3, FS_Subset, FS_CardinalityType
  <1> QED
    BY <1>2, <1>3, <1>4, <1>5

\* If anything is left out of the plan, something is reported.
LEMMA SkipReported ==
    ASSUME book \in Books
    PROVE  /\ {p \in Positions : Skips(p)} # {} => {p \in Positions : Reported(p)} # {}
  <1> DEFINE S == {p \in Positions : Skips(p)}
  <1> SUFFICES ASSUME S # {} PROVE \E p \in Positions : Reported(p)
    OBVIOUS
  <1>1. Positions \subseteq Nat \ {0} /\ Positions = 1..Len(Manifest) /\ Len(Manifest) \in Nat
    BY ManifestSeq, PositionsFinite
  <1>2. S \in SUBSET Nat
    BY <1>1
  <1>3. Least(S) \in S /\ \A q \in S : Least(S) <= q
    <2> HIDE DEF S
    <2> QED
      BY <1>2, LeastNumber
  <1>4. PICK p \in Positions : Skips(p) /\ \A q \in Positions : Skips(q) => p <= q
    BY <1>3
  <1>5. \A q \in 1..p - 1 : q \in Positions /\ ~(p <= q)
    BY <1>1
  <1>6. \A q \in 1..p - 1 : Disposition(q) # "excluded"
    BY <1>4, <1>5 DEF Skips
  <1>7. Reported(p)
    BY <1>4, <1>6 DEF Reported
  <1> QED
    BY <1>7

\* The plan counts what it leaves out, and says so.
LEMMA WarnPlanned == SpineInv /\ WarnInv /\ PlanWalk => WarnInv'
  <1> SUFFICES ASSUME SpineInv, WarnInv, PlanWalk PROVE WarnInv'
    OBVIOUS
  <1> DEFINE S == {p \in Positions : Reported(p)}
             n == Cardinality(S)
             codes == [i \in DOMAIN Sorted(S) |-> Disposition(Sorted(S)[i])]
  <1>1. /\ UNCHANGED <<book, options, spine>> /\ Warn(codes) /\ book \in Books
        /\ skipped' = Cardinality({p \in Positions : Skips(p)})
    BY DEF PlanWalk, input, SpineInv
  <1>2. /\ Positions \subseteq Nat /\ S \subseteq Positions
        /\ {p \in Positions : Skips(p)} \subseteq Positions
    BY <1>1, ManifestSeq
  <1>3. IsFiniteSet(S) /\ n \in Nat /\ (n = 0 <=> S = {})
    <2>1. IsFiniteSet(S)
      <3> HIDE DEF S
      <3> QED
        BY <1>1, <1>2, PositionsFinite
    <2> HIDE DEF S
    <2> QED
      BY <2>1, FS_CardinalityType, FS_EmptySet
  <1>4. DOMAIN codes = 1..n
    BY DEF Sorted
  <1>5. codes \in Seq(WarningCodes) /\ (n # 0 => codes # <<>>)
    <2>1. \A i \in DOMAIN codes : codes[i] \in WarningCodes
      <3>1. \A i \in 1..n : Sorted(S)[i] \in S
        <4>1. S \in SUBSET Nat /\ IsFiniteSet(S)
          BY <1>2, <1>3
        <4> HIDE DEF S
        <4> QED
          BY <4>1, SortedList
      <3>2. \A p \in S : Disposition(p) \in WarningCodes
        BY DEF Reported, Skips, WarningCodes
      <3> HIDE DEF S, n
      <3>3. \A i \in 1..n : codes[i] = Disposition(Sorted(S)[i])
        BY <1>4
      <3> QED
        BY <1>4, <3>1, <3>2, <3>3
    <2>2. codes \in [1..n -> WarningCodes]
      <3>1. codes = [i \in 1..n |-> codes[i]]
        BY <1>4
      <3> HIDE DEF codes
      <3> QED
        BY <1>4, <2>1, <3>1
    <2> HIDE DEF codes, n
    <2>3. codes \in Seq(WarningCodes) /\ Len(codes) = n
      BY <1>3, <2>2
    <2> QED
      BY <2>3
  <1> HIDE DEF codes, n
  <1>6. /\ warnings' \in Seq(WarningCodes) /\ Len(warnings') <= MaxWarnings
        /\ n # 0 => warnings' # <<>>
    BY <1>1, <1>5, Warned DEF WarnInv
  <1>7. skipped' > 0 => n # 0
    <2>1. {p \in Positions : Skips(p)} = {} => skipped' = 0
      BY <1>1, FS_EmptySet
    <2> QED
      BY <1>1, <1>3, <2>1, SkipReported
  <1>8. skipped' = Cardinality({p \in Positions : Skips(p)})'
    <2>1. Positions' = Positions /\ \A p : Skips(p)' = Skips(p)
      BY <1>1, DispositionKept
    <2>2. {p \in Positions : Skips(p)}' = {p \in Positions : Skips(p)}
      BY <2>1
    <2> QED
      BY <1>1, <2>2
  <1> QED
    BY <1>6, <1>7, <1>8 DEF WarnInv

\* Every step keeps the warnings capped, and those given.
LEMMA WarnStep == SpineInv /\ WarnInv /\ [Next]_vars => WarnInv'
  <1> SUFFICES ASSUME SpineInv, WarnInv, [Next]_vars PROVE WarnInv'
    OBVIOUS
  <1>1. CASE PlanWalk
    BY <1>1, WarnPlanned
  <1>2. ASSUME UNCHANGED <<book, options>>, step' \notin BeforePlan => step \notin BeforePlan,
               step' \notin BeforePlan => UNCHANGED <<spine, skipped>>,
               UNCHANGED warnings \/ \E codes \in Seq(WarningCodes) : Warn(codes)
        PROVE  WarnInv'
    <2>1. /\ warnings' \in Seq(WarningCodes) /\ Len(warnings') <= MaxWarnings
          /\ warnings # <<>> => warnings' # <<>>
      <3>1. CASE UNCHANGED warnings
        BY <3>1 DEF WarnInv
      <3>2. CASE \E codes \in Seq(WarningCodes) : Warn(codes)
        BY <3>2, Warned DEF WarnInv
      <3> QED
        BY <1>2, <3>1, <3>2
    <2>2. ASSUME step' \notin BeforePlan
          PROVE  /\ skipped' = Cardinality({p \in Positions : Skips(p)})'
                 /\ skipped' > 0 => warnings' # <<>>
      <3>1. UNCHANGED <<book, options, spine, skipped>> /\ step \notin BeforePlan
        BY <1>2, <2>2
      <3>2. Positions' = Positions /\ \A p : Skips(p)' = Skips(p)
        BY <3>1, DispositionKept
      <3>3. {p \in Positions : Skips(p)}' = {p \in Positions : Skips(p)}
        BY <3>2
      <3> QED
        BY <2>1, <3>1, <3>3 DEF WarnInv
    <2> QED
      BY <2>1, <2>2 DEF WarnInv
  <1>3. <<"metadata">> \in Seq(WarningCodes) /\ <<>> \in Seq(WarningCodes)
    BY DEF WarningCodes
  <1>4. CASE ResolveSpine
    <2>1. step' \in BeforePlan
      BY <1>4 DEF ResolveSpine, At, Continue, Stop, BeforePlan, BeforeInfo
    <2> QED
      BY <1>2, <1>4, <2>1 DEF ResolveSpine, input
  <1>5. CASE EmitResource
    BY <1>2, <1>5 DEF EmitResource, At, CannotObtain, Unreadable, Gone, Stop, input, plan
  <1>6. CASE ~PlanWalk /\ ~ResolveSpine /\ ~EmitResource
    <2>1. /\ UNCHANGED <<book, options, spine, pending, skipped>>
          /\ step' \in BeforePlan <=> step \in BeforePlan
      BY <1>6, PlanFrame
    <2>2. UNCHANGED warnings \/ \E codes \in Seq(WarningCodes) : Warn(codes)
      <3>1. CASE CheckContainer
        BY <1>3, <3>1 DEF CheckContainer
      <3>2. CASE ReadNavigation
        BY <1>3, <3>2 DEF ReadNavigation
      <3>3. CASE ReadOverlay
        BY <1>3, <3>3 DEF ReadOverlay
      <3> QED
        BY <1>6, <3>1, <3>2, <3>3 DEF Next, vars, CheckEncryption, CheckMimetype, ReadPackage, EmitInfo,
           OverlaysDone, EmitChapter, EmitStatus
    <2> QED
      BY <1>2, <2>1, <2>2
  <1> QED
    BY <1>1, <1>4, <1>5, <1>6

\* At first there are the warnings of names the archive scan could not use.
LEMMA WarnStart == Init => WarnInv
  <1> SUFFICES ASSUME Init PROVE WarnInv
    OBVIOUS
  <1> DEFINE s == [i \in 1..book.unusable |-> "unusable_entry_name"]
             m == IF Len(s) < MaxWarnings THEN Len(s) ELSE MaxWarnings
  <1>1. book.unusable \in Nat /\ MaxWarnings \in Nat \ {0}
    BY BooksAssumption, ExtractLimitsAssumption DEF Init
  <1>2. s \in Seq(WarningCodes) /\ Len(s) \in Nat
    BY <1>1 DEF WarningCodes
  <1>3. warnings = SubSeq(s, 1, m) /\ step = "encryption"
    BY DEF Init, Limited
  <1> HIDE DEF s
  <1>4. m \in 0..Len(s) /\ m <= MaxWarnings
    BY <1>1, <1>2
  <1> HIDE DEF m
  <1>5. warnings \in Seq(WarningCodes) /\ Len(warnings) = m
    BY <1>2, <1>3, <1>4
  <1> QED
    BY <1>3, <1>4, <1>5 DEF WarnInv, BeforePlan, BeforeInfo

\* The entries still planned.
Planned == {pending[i].entry : i \in DOMAIN pending}

\* Until a read or the client gives out, what was planned has gone out or
\* is still planned; and so has every chapter the walk has passed.
DoneInv ==
    /\ step \notin BeforePlan /\ outcome \in {"running", "complete"} =>
          /\ emitted + Len(pending) = Cardinality(ToSend)
          /\ ToSend \subseteq Sent \cup Planned
    /\ step = "walk" => \A k \in 1..at - 1 : Entry(spine[k].source) \in Sent
    /\ outcome = "complete" => step = "walk" /\ at > Len(spine) /\ pending = <<>>

\* What one more event adds to what was sent.
LEMMA SentAdded ==
    ASSUME events \in Seq(Events), NEW ev, events' = Append(events, ev)
    PROVE  /\ Sent \subseteq Sent'
           /\ ev.type \in {"chapter", "resource"} => Sent' = Sent \cup {ev.entry}
           /\ ev.type \notin {"chapter", "resource"} => Sent' = Sent /\ Sendings' = Sendings
  <1> DEFINE n == Len(events)
  <1>1. /\ \A i : i \in DOMAIN events' <=> (i \in DOMAIN events \/ i = n + 1)
        /\ events'[n + 1] = ev
        /\ \A i \in DOMAIN events : events'[i] = events[i] /\ i < n + 1
    BY CountAdded
  <1> HIDE DEF n
  <1>2. \A i \in Sendings : i \in Sendings' /\ events'[i] = events[i]
    BY <1>1 DEF Sendings
  <1>3. ev.type \in {"chapter", "resource"} => Sendings' = Sendings \cup {n + 1}
    BY <1>1 DEF Sendings
  <1>4. ev.type \notin {"chapter", "resource"} => Sendings' = Sendings
    BY <1>1 DEF Sendings
  <1>5. Sent \subseteq Sent'
    BY <1>2 DEF Sent
  <1>6. ASSUME ev.type \in {"chapter", "resource"} PROVE Sent' = Sent \cup {ev.entry}
    <2>1. n + 1 \in Sendings'
      BY <1>3, <1>6
    <2>2. ev.entry \in Sent'
      BY <1>1, <2>1 DEF Sent
    <2>3. \A i \in Sendings' : events'[i].entry \in Sent \cup {ev.entry}
      BY <1>1, <1>2, <1>3, <1>6 DEF Sent
    <2> QED
      BY <1>5, <2>2, <2>3 DEF Sent
  <1>7. ASSUME ev.type \notin {"chapter", "resource"} PROVE Sent' = Sent
    BY <1>2, <1>4, <1>7 DEF Sent
  <1> QED
    BY <1>4, <1>5, <1>6, <1>7

\* The steps that leave the plan alone.
LEMMA DoneKept ==
    ASSUME DoneInv, UNCHANGED <<book, options, spine, pending, emitted>>, Sent \subseteq Sent',
           step' \in BeforePlan <=> step \in BeforePlan,
           step' = "walk" => at' = 1 \/ (step = "walk" /\ at' = at),
           outcome' \in {"running", "complete"} => outcome \in {"running", "complete"},
           outcome' = "complete" => step' = "walk" /\ at' > Len(spine) /\ pending = <<>>
    PROVE  DoneInv'
  <1>1. ToSend' = ToSend /\ \A p : Entry(p)' = Entry(p)
    BY DispositionKept
  <1>2. Planned' = Planned
    BY DEF Planned
  <1>3. ASSUME step' = "walk", NEW k \in 1..at' - 1 PROVE Entry(spine[k].source)' \in Sent'
    <2>1. step = "walk" /\ at' = at
      <3>1. at' # 1
        BY <1>3
      <3> QED
        BY <1>3, <3>1
    <2>2. Entry(spine[k].source) \in Sent
      BY <1>3, <2>1 DEF DoneInv
    <2>3. Entry(spine[k].source)' = Entry(spine[k].source)
      BY DEF Entry, Manifest
    <2> QED
      BY <2>2, <2>3
  <1> QED
    BY <1>1, <1>2, <1>3 DEF DoneInv

\* Nothing planned is lost, and nothing sent is forgotten.
LEMMA DoneStep == SpineInv /\ PlanInv /\ SentInv /\ CountInv /\ DoneInv /\ [Next]_vars => DoneInv'
  <1> SUFFICES ASSUME SpineInv, PlanInv, SentInv, CountInv, DoneInv, [Next]_vars PROVE DoneInv'
    OBVIOUS
  <1>1. events \in Seq(Events) /\ at \in Nat \ {0} /\ book \in Books
    BY DEF SentInv, SpineInv
  <1>2. UNCHANGED events => Sent' = Sent
    BY DEF Sent, Sendings
  <1>3. CASE ResolveSpine
    <2>1. /\ step' \in BeforePlan /\ step \in BeforePlan /\ step' # "walk"
          /\ outcome' # "complete"
      <3>1. \A id : SpineAnswer(id) # "complete"
        BY DEF SpineAnswer
      <3> QED
        BY <1>3, <3>1 DEF ResolveSpine, At, Continue, Stop, BeforePlan, BeforeInfo
    <2> QED
      BY <2>1 DEF DoneInv
  <1>4. CASE PlanWalk
    <2> DEFINE n == Cardinality(ToSend)
               sent == Sorted(ToSend)
    <2>1. /\ UNCHANGED <<book, options, spine, emitted>> /\ step' = "navigation" /\ step = "plan"
          /\ outcome' = "running"
          /\ pending' = [i \in 1..n |-> [entry |-> sent[i], position |-> Owner(sent[i])]]
      BY <1>4 DEF PlanWalk, At, Continue, input, counts
    <2>2. ToSend' = ToSend
      BY <2>1, DispositionKept
    <2>3. ToSend \in SUBSET Nat /\ IsFiniteSet(ToSend)
      BY <1>1, ToSendFacts
    <2>4. n \in Nat /\ \A e \in ToSend : \E i \in 1..n : sent[i] = e
      BY <2>3, SortedList
    <2>5. emitted = 0
      <3>1. {i \in DOMAIN events : events[i].type = "resource"} = {}
        BY <2>1 DEF SentInv, Sendings
      <3> QED
        BY <3>1, FS_EmptySet DEF CountInv, Count
    <2> HIDE DEF n, sent
    <2>6. DOMAIN pending' = 1..n /\ Len(pending') = n
      BY <2>1, <2>4
    <2>7. \A i \in 1..n : pending'[i].entry = sent[i]
      BY <2>1
    <2>8. ToSend \subseteq Planned'
      BY <2>4, <2>6, <2>7 DEF Planned
    <2>9. emitted' + Len(pending') = n
      BY <2>1, <2>4, <2>5, <2>6
    <2> QED
      BY <2>1, <2>2, <2>8, <2>9 DEF DoneInv, n
  <1>5. CASE EmitResource
    <2>1. /\ UNCHANGED <<book, options, spine, step, at>> /\ step = "walk" /\ outcome = "running"
          /\ pending # <<>>
          /\ \/ UNCHANGED <<events, emitted>> /\ outcome' \notin {"running", "complete"}
             \/ /\ \E ev : events' = Append(events, ev) /\ ev.type = "resource" /\ ev.entry = Head(pending).entry
                /\ emitted' = emitted + 1 /\ outcome' = outcome /\ pending' = Tail(pending)
      <3>1. \A a, b, c : Event("resource", a, b, c).type = "resource" /\ Event("resource", a, b, c).entry = b
        BY DEF Event
      <3> QED
        BY <1>5, <3>1 DEF EmitResource, ResourceDue, At, CannotObtain, Unreadable, Gone, Emit, Stop, input
    <2>2. Sent \subseteq Sent'
      BY <1>1, <1>2, <2>1, SentAdded
    <2>3. ASSUME NEW k \in 1..at' - 1 PROVE Entry(spine[k].source)' \in Sent'
      <3>1. Entry(spine[k].source) \in Sent
        BY <2>1, <2>3 DEF DoneInv
      <3>2. Entry(spine[k].source)' = Entry(spine[k].source)
        BY <2>1 DEF Entry, Manifest
      <3> QED
        BY <2>2, <3>1, <3>2
    <2>4. CASE outcome' \notin {"running", "complete"}
      BY <2>3, <2>4 DEF DoneInv
    <2>5. ASSUME NEW ev, events' = Append(events, ev), ev.type = "resource", ev.entry = Head(pending).entry,
                 emitted' = emitted + 1, outcome' = outcome, pending' = Tail(pending)
          PROVE  DoneInv'
      <3>1. ToSend' = ToSend
        BY <2>1, DispositionKept
      <3>2. /\ Len(pending) \in Nat \ {0} /\ DOMAIN pending = 1..Len(pending)
            /\ Head(pending) = pending[1] /\ Len(pending') = Len(pending) - 1
            /\ DOMAIN pending' = 1..Len(pending) - 1
            /\ \A i \in 1..Len(pending) - 1 : i + 1 \in 1..Len(pending) /\ pending'[i] = pending[i + 1]
        BY <2>1, <2>5, TailFacts DEF PlanInv
      <3>3. Sent' = Sent \cup {pending[1].entry}
        BY <1>1, <2>5, <3>2, SentAdded
      <3>4. \A i \in DOMAIN pending : i = 1 \/ (i - 1 \in DOMAIN pending' /\ pending'[i - 1] = pending[i])
        BY <3>2
      <3>5. Planned \subseteq Planned' \cup {pending[1].entry}
        BY <3>4 DEF Planned
      <3>6. ToSend \subseteq Sent \cup Planned /\ emitted + Len(pending) = Cardinality(ToSend)
        BY <2>1 DEF DoneInv, BeforePlan, BeforeInfo
      <3>7. emitted' + Len(pending') = Cardinality(ToSend)
        <4>1. emitted \in Nat
          BY <1>1, CountType DEF CountInv
        <4> QED
          BY <2>5, <3>2, <3>6, <4>1
      <3>8. ToSend \subseteq Sent' \cup Planned'
        BY <3>3, <3>5, <3>6
      <3> QED
        BY <2>1, <2>3, <2>5, <3>1, <3>7, <3>8 DEF DoneInv
    <2> QED
      BY <2>1, <2>4, <2>5
  <1>6. CASE EmitChapter
    <2>1. /\ UNCHANGED <<book, options, spine, step, pending, emitted>> /\ step = "walk" /\ outcome = "running"
          /\ \/ UNCHANGED <<events, at>> /\ outcome' \notin {"running", "complete"}
             \/ /\ \E ev : events' = Append(events, ev) /\ ev.type = "chapter" /\ ev.entry = Entry(spine[at].source)
                /\ at' = at + 1 /\ outcome' = outcome
      <3>1. \A a, b, c : Event("chapter", a, b, c).type = "chapter" /\ Event("chapter", a, b, c).entry = b
        BY DEF Event
      <3> QED
        BY <1>6, <3>1 DEF EmitChapter, At, CannotObtain, Unreadable, Gone, Emit, Stop, input, plan
    <2>2. CASE UNCHANGED <<events, at>> /\ outcome' \notin {"running", "complete"}
      BY <1>2, <2>1, <2>2, DoneKept
    <2>3. ASSUME NEW ev, events' = Append(events, ev), ev.type = "chapter", ev.entry = Entry(spine[at].source),
                 at' = at + 1, outcome' = outcome
          PROVE  DoneInv'
      <3>1. ToSend' = ToSend /\ Planned' = Planned
        BY <2>1, DispositionKept DEF Planned
      <3>2. Sent' = Sent \cup {Entry(spine[at].source)}
        BY <1>1, <2>3, SentAdded
      <3>3. ASSUME NEW k \in 1..at' - 1 PROVE Entry(spine[k].source)' \in Sent'
        <4>1. k \in 1..at - 1 \/ k = at
          BY <1>1, <2>3
        <4>2. Entry(spine[k].source)' = Entry(spine[k].source)
          BY <2>1 DEF Entry, Manifest
        <4>3. Entry(spine[k].source) \in Sent'
          BY <2>1, <3>2, <4>1 DEF DoneInv
        <4> QED
          BY <4>2, <4>3
      <3> QED
        BY <2>1, <2>3, <3>1, <3>2, <3>3 DEF DoneInv
    <2> QED
      BY <2>1, <2>2, <2>3
  <1>7. CASE EmitStatus
    <2>1. /\ UNCHANGED <<book, options, spine, step, pending, emitted, at>> /\ step = "walk"
          /\ at > Len(spine) /\ pending = <<>> /\ outcome = "running"
          /\ events' = events \/ events' = Append(events, Event("status", chapters, 0, 0))
      BY <1>7 DEF EmitStatus, At, Gone, Emit, Stop, input, plan, counts
    <2>2. Sent \subseteq Sent'
      BY <1>1, <1>2, <2>1, SentAdded
    <2> QED
      BY <2>1, <2>2, DoneKept
  <1>8. ASSUME ~ResolveSpine, ~PlanWalk, ~EmitResource, ~EmitChapter, ~EmitStatus
        PROVE  DoneInv'
    <2>1. /\ UNCHANGED <<book, options, spine, pending>>
          /\ step' \in BeforePlan <=> step \in BeforePlan
      BY <1>8, PlanFrame
    <2>2. Sent \subseteq Sent' /\ UNCHANGED emitted
      <3>1. UNCHANGED events \/ \E ev : events' = Append(events, ev)
        BY <1>8 DEF Next, vars, CheckEncryption, CheckMimetype, CheckContainer, ReadPackage, EmitInfo,
           ReadNavigation, ReadOverlay, OverlaysDone, Emit, Gone
      <3>2. UNCHANGED emitted
        BY <1>8 DEF Next, vars, CheckEncryption, CheckMimetype, CheckContainer, ReadPackage, EmitInfo,
           ReadNavigation, ReadOverlay, OverlaysDone, counts
      <3> QED
        BY <1>1, <1>2, <3>1, <3>2, SentAdded
    <2>3. step' = "walk" => at' = 1 \/ (step = "walk" /\ at' = at)
      <3>1. CASE OverlaysDone
        BY <3>1 DEF OverlaysDone
      <3>2. CASE ~OverlaysDone
        <4>1. step' = "walk" => step = "walk"
          BY <3>2, WalkBegins
        <4>2. step = "walk" => at' = at
          BY <1>8, <3>2 DEF Next, vars, At, CheckEncryption, CheckMimetype, CheckContainer, ReadPackage,
             EmitInfo, ReadNavigation, ReadOverlay
        <4> QED
          BY <4>1, <4>2
      <3> QED
        BY <3>1, <3>2
    <2>4. outcome' = outcome \/ (outcome = "running" /\ outcome' # "complete")
      <3> USE DEF At, Continue, Stop
      <3>1. CASE CheckEncryption
        BY <3>1, BooksAssumption DEF SpineInv, CheckEncryption, Unreadable
      <3>2. CASE CheckMimetype \/ CheckContainer \/ ReadPackage
        BY <3>2 DEF CheckMimetype, CheckContainer, ReadPackage, Unreadable
      <3>3. CASE EmitInfo \/ OverlaysDone
        BY <3>3 DEF EmitInfo, OverlaysDone, Gone
      <3>4. CASE ReadNavigation \/ ReadOverlay
        BY <3>4 DEF ReadNavigation, ReadOverlay, CannotObtain, Unreadable, Gone
      <3>5. CASE UNCHANGED vars
        BY <3>5 DEF vars
      <3> HIDE DEF At, Continue, Stop
      <3> QED
        BY <1>8, <3>1, <3>2, <3>3, <3>4, <3>5 DEF Next
    <2>5. outcome' = "complete" => step' = "walk" /\ at' > Len(spine) /\ pending = <<>>
      <3> SUFFICES ASSUME outcome' = "complete"
                   PROVE  step' = "walk" /\ at' > Len(spine) /\ pending = <<>>
        OBVIOUS
      <3>1. outcome = "complete"
        BY <2>4
      <3>2. UNCHANGED vars
        BY <3>1, <1>8 DEF Next, At, CheckEncryption, CheckMimetype, CheckContainer, ReadPackage, EmitInfo,
           ReadNavigation, ReadOverlay, OverlaysDone
      <3> QED
        BY <3>1, <3>2 DEF DoneInv, vars
    <2> QED
      BY <2>1, <2>2, <2>3, <2>4, <2>5, DoneKept
  <1> QED
    BY <1>3, <1>4, <1>5, <1>6, <1>7, <1>8

\* At first nothing is planned or sent.
LEMMA DoneStart == Init => DoneInv
  BY DEF Init, DoneInv, BeforePlan, BeforeInfo

\* Every planned file is that of an item of its own.
LEMMA SendersCounted ==
    ASSUME book \in Books
    PROVE  Cardinality(ToSend) <= Cardinality({p \in Positions : Disposition(p) = "send"})
  <1> DEFINE B == {p \in Positions : Disposition(p) = "send"}
             f == [e \in ToSend |-> Owner(e)]
  <1>1. IsFiniteSet(B)
    <2>1. B \subseteq Positions
      OBVIOUS
    <2> HIDE DEF B
    <2> QED
      BY <2>1, PositionsFinite
  <1>2. \A e \in ToSend : f[e] \in B /\ Entry(f[e]) = e
    BY OwnerType
  <1>3. f \in Injection(ToSend, B)
    <2>1. f \in [ToSend -> B]
      BY <1>2
    <2>2. \A d, e \in ToSend : f[d] = f[e] => d = e
      BY <1>2
    <2> HIDE DEF f, B
    <2> QED
      BY <2>1, <2>2 DEF Injection, IsInjective
  <1> HIDE DEF f, B
  <1>4. Cardinality(ToSend) <= Cardinality(B)
    BY <1>1, <1>3, FS_Injection
  <1> QED
    BY <1>4 DEF B

\* Chapters, resources and what was left out are different items.
LEMMA ItemsCounted ==
    ASSUME SpineInv, step \notin BeforeSpine
    PROVE  /\ SpineIds \subseteq Positions
           /\ Cardinality(SpineIds) \in Nat
           /\ Cardinality({p \in Positions : Skips(p)}) \in Nat
           /\ Cardinality(ToSend) \in Nat
           /\ Cardinality(SpineIds) + Cardinality(ToSend) + Cardinality({p \in Positions : Skips(p)})
                <= Len(Manifest)
  <1> DEFINE A == SpineIds
             B == {p \in Positions : Disposition(p) = "send"}
             C == {p \in Positions : Skips(p)}
  <1>1. book \in Books /\ SpineIds \subseteq Positions
    BY SpineFacts DEF SpineInv, SpineIds
  <1>2. /\ A \subseteq Positions /\ B \subseteq Positions /\ C \subseteq Positions
        /\ A \cap B = {} /\ (A \cup B) \cap C = {}
    <2>1. \A p \in SpineIds : Disposition(p) = "chapter"
      BY DEF Disposition
    <2> QED
      BY <1>1, <2>1 DEF Skips
  <1>3. Cardinality(ToSend) <= Cardinality(B) /\ Cardinality(ToSend) \in Nat
    BY <1>1, SendersCounted, PlanSeq
  <1> HIDE DEF A, B, C
  <1>4. /\ IsFiniteSet(A) /\ IsFiniteSet(B) /\ IsFiniteSet(C) /\ IsFiniteSet(A \cup B)
        /\ Cardinality(A) \in Nat /\ Cardinality(B) \in Nat /\ Cardinality(C) \in Nat
    <2>1. A \cup B \subseteq Positions
      BY <1>2
    <2> QED
      BY <1>1, <1>2, <2>1, PositionsFinite
  <1>5. Cardinality(A \cup B) = Cardinality(A) + Cardinality(B)
    <2>1. Cardinality(A \cup B) = Cardinality(A) + Cardinality(B) - Cardinality(A \cap B)
      BY <1>4, FS_Union
    <2>2. Cardinality(A \cap B) = 0
      BY <1>2, FS_EmptySet
    <2> QED
      BY <1>4, <2>1, <2>2
  <1>6. Cardinality((A \cup B) \cup C) = Cardinality(A \cup B) + Cardinality(C)
    <2>1. Cardinality((A \cup B) \cup C) = Cardinality(A \cup B) + Cardinality(C) - Cardinality((A \cup B) \cap C)
      BY <1>4, FS_Union
    <2>2. Cardinality((A \cup B) \cap C) = 0
      BY <1>2, FS_EmptySet
    <2> QED
      BY <1>4, <1>5, <2>1, <2>2
  <1>7. Cardinality((A \cup B) \cup C) <= Len(Manifest)
    <2>1. (A \cup B) \cup C \in SUBSET Positions
      BY <1>2
    <2>2. IsFiniteSet(Positions) /\ Cardinality(Positions) = Len(Manifest)
      BY <1>1, PositionsFinite
    <2> QED
      BY <2>1, <2>2, FS_Subset
  <1>8. Len(Manifest) \in Nat
    BY <1>1, PositionsFinite
  <1>9. Cardinality(A) + Cardinality(ToSend) + Cardinality(C) <= Len(Manifest)
    BY <1>3, <1>4, <1>5, <1>6, <1>7, <1>8
  <1> QED
    BY <1>1, <1>3, <1>4, <1>9 DEF A, C

\* When the stream is complete everything the walk was to send has gone out.
LEMMA AllSent ==
    ASSUME SpineInv, SentInv, CountInv, DoneInv, outcome = "complete"
    PROVE  /\ step \notin BeforeSpine /\ step \notin BeforePlan /\ step \notin BeforeInfo
           /\ step = "walk" /\ book \in Books
           /\ chapters = Len(book.spine) /\ chapters = events[1].item
           /\ emitted = Cardinality(ToSend) /\ ToSend \subseteq Sent
           /\ ChapterEntries \subseteq Sent
  <1>1. /\ step = "walk" /\ at > Len(spine) /\ pending = <<>> /\ book \in Books
        /\ step \notin BeforeSpine /\ step \notin BeforePlan /\ step \notin BeforeInfo
    BY DEF DoneInv, SpineInv, BeforeSpine, BeforePlan, BeforeInfo
  <1>2. chapters = Len(book.spine) /\ chapters = events[1].item /\ at - 1 = Len(spine)
    <2>1. Len(spine) \in Nat /\ Len(spine) = Len(book.spine) /\ at \in Nat
      BY <1>1, SpineFacts DEF SentInv
    <2>2. chapters = at - 1 /\ at <= Len(spine) + 1 /\ events[1].item = Len(book.spine)
      BY <1>1 DEF SentInv, CountInv
    <2> QED
      BY <1>1, <2>1, <2>2
  <1>3. emitted = Cardinality(ToSend) /\ ToSend \subseteq Sent
    <2>1. emitted + Len(pending) = Cardinality(ToSend) /\ ToSend \subseteq Sent \cup Planned
      BY <1>1 DEF DoneInv
    <2>2. Planned = {} /\ Len(pending) = 0
      BY <1>1 DEF Planned
    <2>3. emitted \in Nat
      BY CountType DEF CountInv, SentInv
    <2> QED
      BY <2>1, <2>2, <2>3
  <1>4. ChapterEntries \subseteq Sent
    <2>1. \A k \in 1..Len(spine) : Entry(spine[k].source) \in Sent
      BY <1>1, <1>2 DEF DoneInv
    <2> QED
      BY <1>1, <2>1, SpineFacts
  <1> QED
    BY <1>1, <1>2, <1>3, <1>4

\* What the trailer of a complete stream says.
LEMMA TrailerCounts ==
    ASSUME SpineInv, SentInv, CountInv, WarnInv, DoneInv PROVE StatusTells
  <1> SUFFICES ASSUME outcome = "complete"
               PROVE  /\ chapters = Count("chapter")
                      /\ chapters = Len(book.spine)
                      /\ chapters = events[1].item
                      /\ emitted = Count("resource")
                      /\ Cardinality({p \in Positions : Entry(p) \notin Sent}) <= skipped
                      /\ Cardinality(SpineIds) + emitted + skipped <= Len(Manifest)
                      /\ Len(warnings) <= MaxWarnings
                      /\ skipped > 0 => warnings # <<>>
    BY DEF StatusTells
  <1>1. skipped = Cardinality({p \in Positions : Skips(p)})
    BY AllSent DEF WarnInv
  <1>2. Cardinality({p \in Positions : Entry(p) \notin Sent}) <= skipped
    <2>1. ASSUME NEW p \in Positions, Entry(p) \notin Sent PROVE Skips(p)
      <3>1. Entry(p) \notin ChapterEntries /\ Entry(p) \notin ToSend
        BY <2>1, AllSent
      <3>2. p \notin SpineIds
        BY <3>1 DEF ChapterEntries
      <3>3. Disposition(p) # "send"
        BY <3>1 DEF ToSend
      <3> QED
        BY <3>1, <3>2, <3>3 DEF Disposition, Skips
    <2>2. {p \in Positions : Entry(p) \notin Sent} \in SUBSET {p \in Positions : Skips(p)}
      BY <2>1
    <2>3. IsFiniteSet({p \in Positions : Skips(p)})
      BY AllSent, PositionsFinite
    <2> QED
      BY <1>1, <2>2, <2>3, FS_Subset
  <1>3. Cardinality(SpineIds) + emitted + skipped <= Len(Manifest)
    BY <1>1, AllSent, ItemsCounted
  <1> QED
    BY <1>2, <1>3, AllSent DEF CountInv, WarnInv

\* The trailer tells what happened, for every book that reaches it: as many
\* chapters as itemrefs, every resource, every item left out and why, in no
\* more warnings than allowed.
THEOREM StatusTellsAll == Spec => []StatusTells
  <1>1. SpineInv /\ SentInv /\ CountInv /\ WarnInv /\ DoneInv => StatusTells
    BY TrailerCounts
  <1> QED
    BY <1>1, SpineStart, SpineStep, PlanStart, PlanStep, SentStart, SentStep, CountStart, CountStep,
       WarnStart, WarnStep, DoneStart, DoneStep, PTL DEF Spec

-----------------------------------------------------------------------------
(* What the stream holds.                                                  *)

\* A chapter that has gone out is read from the entry of a spine item that is
\* not obfuscated; a resource is one of the files planned.
LEMMA SendingFacts ==
    ASSUME SpineInv, SentInv, NEW i \in Sendings
    PROVE  /\ step \notin BeforeSpine /\ book \in Books
           /\ events[i].entry \in Nat
           /\ events[i].type = "chapter" =>
                 events[i].entry \in ChapterEntries /\ events[i].entry \notin Obfuscated
           /\ events[i].type = "resource" => events[i].entry \in ToSend
           /\ events[i].type \in {"chapter", "resource"}
  <1>1. step = "walk" /\ step \notin BeforeSpine /\ book \in Books
    BY DEF SentInv, SpineInv, BeforeSpine
  <1>2. events[i] \in Events /\ events[i].type \in {"chapter", "resource"}
    BY DEF SentInv, Sendings
  <1>3. ASSUME events[i].type = "chapter"
        PROVE  events[i].entry \in ChapterEntries /\ events[i].entry \notin Obfuscated
    <2>1. ChapterSent(i) /\ at \in Nat \ {0} /\ at <= Len(spine) + 1 /\ Len(spine) \in Nat
      BY <1>1, <1>3, SpineFacts DEF SentInv, Sendings
    <2>2. events[i].item \in 1..Len(spine)
      BY <2>1 DEF ChapterSent
    <2> QED
      BY <1>1, <2>1, <2>2, SpineFacts DEF ChapterSent
  <1>4. ASSUME events[i].type = "resource" PROVE events[i].entry \in ToSend
    BY <1>4 DEF SentInv, Sendings, ResourceSent
  <1> QED
    BY <1>1, <1>2, <1>3, <1>4 DEF Events

\* For every book and every options: chapters go out in spine order and
\* resources in archive order, merged by where they are stored; no file goes
\* out both ways, however far apart, and none as two resources; and a complete
\* stream leaves out no file the options ask for.
THEOREM WalkInOrder == Spec => []WalkOrder
  <1>1. SpineInv /\ SentInv /\ CountInv /\ DoneInv => WalkOrder
    <2> SUFFICES ASSUME SpineInv, SentInv, CountInv, DoneInv PROVE WalkOrder
      OBVIOUS
    <2>1. SendingsInOrder
      BY DEF SentInv
    <2>2. ASSUME NEW i \in Sendings, NEW j \in Sendings, events[i].entry = events[j].entry, i # j
          PROVE  events[i].type = "chapter" /\ events[j].type = "chapter"
      <3>1. i \in Nat /\ j \in Nat
        BY DEF SentInv, Sendings
      <3>2. ToSend \cap ChapterEntries = {}
        BY <2>2, SendingFacts, ToSendFacts
      <3>3. ~(events[i].type = "resource" /\ events[j].type = "resource")
        <4>1. events[i].entry \in Nat /\ events[j].entry \in Nat
          BY <2>2, SendingFacts
        <4>2. CASE i < j
          BY <2>1, <2>2, <4>1, <4>2 DEF SendingsInOrder
        <4>3. CASE j < i
          BY <2>1, <2>2, <4>1, <4>3 DEF SendingsInOrder
        <4> QED
          BY <2>2, <3>1, <4>2, <4>3
      <3> QED
        BY <2>2, <3>2, <3>3, SendingFacts
    <2>3. ASSUME outcome = "complete" PROVE Owed \subseteq Sent
      <3>1. ChapterEntries \subseteq Sent /\ ToSend \subseteq Sent
        BY <2>3, AllSent
      <3>2. {Entry(spine[i].source) : i \in DOMAIN spine} \subseteq ChapterEntries
        BY DEF ChapterEntries, SpineIds
      <3>3. ASSUME NEW p \in Positions, Manifest[p].link = "entry", Held(p), ~Manifest[p].nested,
                   Selected(Kind(Manifest[p].media)), Entry(p) \notin Obfuscated
            PROVE  Entry(p) \in ChapterEntries \cup ToSend
        <4>1. Disposition(p) \in {"chapter", "duplicate", "send"}
          BY <3>3 DEF Disposition
        <4>2. CASE Disposition(p) = "send"
          BY <4>2 DEF ToSend
        <4>3. CASE Disposition(p) # "send"
          BY <3>3, <4>1, <4>3 DEF Disposition, ChapterEntries
        <4> QED
          BY <4>2, <4>3
      <3> QED
        BY <3>1, <3>2, <3>3 DEF Owed
    <2> QED
      BY <2>1, <2>2, <2>3 DEF WalkOrder
  <1> QED
    BY <1>1, SpineStart, SpineStep, PlanStart, PlanStep, SentStart, SentStep, CountStart, CountStep,
       DoneStart, DoneStep, PTL DEF Spec

\* No obfuscated file goes out, under whichever manifest item it is asked
\* for: the spine is refused when a chapter would be read from one, and the
\* plan leaves the others out; and the trailer of a complete stream counts
\* every item of such a file as skipped.
THEOREM ObfuscatedStays == Spec => []ObfuscatedNeverSent
  <1>1. SpineInv /\ SentInv /\ CountInv /\ WarnInv /\ DoneInv => ObfuscatedNeverSent
    <2> SUFFICES ASSUME SpineInv, SentInv, CountInv, WarnInv, DoneInv PROVE ObfuscatedNeverSent
      OBVIOUS
    <2>1. ASSUME NEW i \in Sendings PROVE events[i].entry \notin Obfuscated
      BY SendingFacts, ToSendFacts
    <2>2. Sent \cap Obfuscated = {}
      BY <2>1 DEF Sent
    <2>3. ASSUME outcome = "complete"
          PROVE  Cardinality({p \in Positions : Entry(p) \in Obfuscated}) <= skipped
      <3> DEFINE A == {p \in Positions : Entry(p) \in Obfuscated}
                 B == {p \in Positions : Entry(p) \notin Sent}
      <3>1. A \in SUBSET B /\ A \in SUBSET Positions /\ B \in SUBSET Positions
        BY <2>2
      <3>2. Cardinality(B) <= skipped /\ skipped = Cardinality({p \in Positions : Skips(p)})
        BY <2>3, AllSent, TrailerCounts DEF StatusTells, WarnInv
      <3>3. {p \in Positions : Skips(p)} \in SUBSET Positions
        OBVIOUS
      <3> HIDE DEF A, B
      <3>4. IsFiniteSet(B) /\ Cardinality(A) \in Nat /\ Cardinality(B) \in Nat /\ skipped \in Nat
        BY <2>3, <3>1, <3>2, <3>3, AllSent, PositionsFinite
      <3>5. Cardinality(A) <= Cardinality(B)
        BY <3>1, <3>4, FS_Subset
      <3> QED
        BY <3>2, <3>4, <3>5 DEF A
    <2> QED
      BY <2>2, <2>3 DEF ObfuscatedNeverSent
  <1> QED
    BY <1>1, SpineStart, SpineStep, PlanStart, PlanStep, SentStart, SentStep, CountStart, CountStep,
       WarnStart, WarnStep, DoneStart, DoneStep, PTL DEF Spec

-----------------------------------------------------------------------------
(* What is inflated.                                                       *)

NumRead(e) == Cardinality({i \in DOMAIN reads : reads[i] = e})
NumSent(e) == Cardinality({i \in Sendings : events[i].entry = e})
IfHeld(e) == IF e \in preread THEN 1 ELSE 0
IfGone == IF outcome = "gone" THEN 1 ELSE 0

\* What the walk sends, or would have.
ToWalk == ChapterEntries \cup ToSend

\* An entry of the walk has been inflated once for each of its sendings, and
\* once more if it is held or was lost with the client.
ReadsInv ==
    /\ reads \in Seq(1..book.entries)
    /\ step \notin {"encryption", "mimetype", "container"} => book.opf # 0
    /\ Sent \cap preread = {}
    /\ outcome = "running" /\ step \in BeforeAhead => \A e \in 1..book.entries \ Header : NumRead(e) = 0
    /\ step \notin BeforePlan => \A e \in ToWalk \ Header : NumRead(e) <= NumSent(e) + IfHeld(e) + IfGone

\* One more read is one more of its entry.
LEMMA ReadAdded ==
    ASSUME reads \in Seq(1..book.entries), NEW x \in 1..book.entries, reads' = Append(reads, x), UNCHANGED book
    PROVE  /\ reads' \in Seq(1..book.entries)
           /\ \A e : NumRead(e) \in Nat
           /\ \A e : e # x => NumRead(e)' = NumRead(e)
           /\ NumRead(x)' = NumRead(x) + 1
  <1> DEFINE n == Len(reads)
             of(e) == {i \in DOMAIN reads : reads[i] = e}
  <1>1. n \in Nat /\ DOMAIN reads = 1..n /\ reads' \in Seq(1..book.entries)
    OBVIOUS
  <1>2. /\ DOMAIN reads' = 1..n + 1 /\ reads'[n + 1] = x /\ \A i \in 1..n : reads'[i] = reads[i]
        /\ n + 1 \notin 1..n /\ \A i : i \in 1..n + 1 <=> (i \in 1..n \/ i = n + 1)
    BY <1>1
  <1> HIDE DEF n
  <1>3. ASSUME NEW e PROVE IsFiniteSet(of(e))
    <2>1. IsFiniteSet(DOMAIN reads)
      BY <1>1, FS_Interval
    <2> QED
      BY <2>1, FS_Subset
  <1>4. \A e : NumRead(e) \in Nat
    BY <1>3, FS_CardinalityType DEF NumRead
  <1>5. ASSUME NEW e, e # x PROVE NumRead(e)' = NumRead(e)
    <2>1. {i \in DOMAIN reads' : reads'[i] = e} = of(e)
      BY <1>1, <1>2, <1>5
    <2>2. NumRead(e)' = Cardinality({i \in DOMAIN reads' : reads'[i] = e})
      BY DEF NumRead
    <2>3. NumRead(e) = Cardinality(of(e))
      BY DEF NumRead
    <2> HIDE DEF of
    <2> QED
      BY <2>1, <2>2, <2>3
  <1>6. NumRead(x)' = NumRead(x) + 1
    <2>1. {i \in DOMAIN reads' : reads'[i] = x} = of(x) \cup {n + 1} /\ n + 1 \notin of(x)
      BY <1>1, <1>2
    <2>2. NumRead(x)' = Cardinality({i \in DOMAIN reads' : reads'[i] = x})
      BY DEF NumRead
    <2>3. NumRead(x) = Cardinality(of(x)) /\ IsFiniteSet(of(x))
      BY <1>3 DEF NumRead
    <2> HIDE DEF of
    <2>4. Cardinality(of(x) \cup {n + 1}) = Cardinality(of(x)) + 1
      BY <2>1, <2>3, FS_AddElement
    <2> QED
      BY <2>1, <2>2, <2>3, <2>4
  <1> QED
    BY <1>1, <1>4, <1>5, <1>6

\* One more event of the walk is one more sending of its entry.
LEMMA SendingAdded ==
    ASSUME events \in Seq(Events), NEW ev, events' = Append(events, ev)
    PROVE  /\ \A e : NumSent(e) \in Nat
           /\ ev.type \notin {"chapter", "resource"} => \A e : NumSent(e)' = NumSent(e)
           /\ ev.type \in {"chapter", "resource"} =>
                /\ \A e : e # ev.entry => NumSent(e)' = NumSent(e)
                /\ NumSent(ev.entry)' = NumSent(ev.entry) + 1
  <1> DEFINE n == Len(events)
             of(e) == {i \in Sendings : events[i].entry = e}
  <1>1. /\ n \in Nat /\ DOMAIN events = 1..n
        /\ \A i : i \in DOMAIN events' <=> (i \in DOMAIN events \/ i = n + 1)
        /\ events'[n + 1] = ev
        /\ \A i \in DOMAIN events : events'[i] = events[i] /\ i < n + 1
    BY CountAdded
  <1>2. n + 1 \notin DOMAIN events
    BY <1>1
  <1> HIDE DEF n
  <1>3. ASSUME NEW e PROVE IsFiniteSet(of(e))
    <2>1. IsFiniteSet(DOMAIN events)
      BY <1>1, FS_Interval
    <2>2. of(e) \in SUBSET DOMAIN events
      BY DEF Sendings
    <2> HIDE DEF of
    <2> QED
      BY <2>1, <2>2, FS_Subset
  <1>4. \A e : NumSent(e) \in Nat
    BY <1>3, FS_CardinalityType DEF NumSent
  <1>5. ASSUME NEW e, ev.type \notin {"chapter", "resource"} \/ e # ev.entry PROVE NumSent(e)' = NumSent(e)
    <2>1. {i \in Sendings' : events'[i].entry = e} = of(e)
      BY <1>1, <1>2, <1>5 DEF Sendings
    <2>2. NumSent(e)' = Cardinality({i \in Sendings' : events'[i].entry = e})
      BY DEF NumSent
    <2>3. NumSent(e) = Cardinality(of(e))
      BY DEF NumSent
    <2> HIDE DEF of
    <2> QED
      BY <2>1, <2>2, <2>3
  <1>6. ASSUME ev.type \in {"chapter", "resource"}, NEW e, e = ev.entry
        PROVE NumSent(e)' = NumSent(e) + 1
    <2>1. {i \in Sendings' : events'[i].entry = e} = of(e) \cup {n + 1} /\ n + 1 \notin of(e)
      BY <1>1, <1>2, <1>6 DEF Sendings
    <2>2. NumSent(e)' = Cardinality({i \in Sendings' : events'[i].entry = e})
      BY DEF NumSent
    <2>3. NumSent(e) = Cardinality(of(e)) /\ IsFiniteSet(of(e))
      BY <1>3 DEF NumSent
    <2> HIDE DEF of
    <2>4. Cardinality(of(e) \cup {n + 1}) = Cardinality(of(e)) + 1
      BY <2>1, <2>3, FS_AddElement
    <2> QED
      BY <2>1, <2>2, <2>3, <2>4
  <1>7. ASSUME ev.type \in {"chapter", "resource"} PROVE \A e : e = ev.entry => NumSent(e)' = NumSent(e) + 1
    BY <1>6, <1>7
  <1> QED
    BY <1>4, <1>5, <1>7


\* What the walk sends is in the archive.
LEMMA ToWalkType ==
    ASSUME SpineInv, step \notin BeforePlan
    PROVE  ToWalk \subseteq 1..book.entries
  <1>1. step \notin BeforeSpine /\ book \in Books
    BY DEF SpineInv, BeforePlan, BeforeInfo, BeforeSpine
  <1> QED
    BY <1>1, SpineFacts, ToSendFacts DEF ToWalk

\* Reads and sendings are counted.
LEMMA NumTypes ==
    /\ reads \in Seq(1..book.entries) => \A e : NumRead(e) \in Nat
    /\ events \in Seq(Events) => \A e : NumSent(e) \in Nat
  <1>1. ASSUME NEW S, NEW s \in Seq(S) PROVE IsFiniteSet(DOMAIN s)
    <2>1. DOMAIN s = 1..Len(s) /\ Len(s) \in Nat
      OBVIOUS
    <2> QED
      BY <2>1, FS_Interval
  <1>2. ASSUME reads \in Seq(1..book.entries), NEW e PROVE NumRead(e) \in Nat
    <2>1. IsFiniteSet(DOMAIN reads) /\ {i \in DOMAIN reads : reads[i] = e} \in SUBSET DOMAIN reads
      BY <1>1, <1>2
    <2> QED
      BY <2>1, FS_Subset, FS_CardinalityType DEF NumRead
  <1>3. ASSUME events \in Seq(Events), NEW e PROVE NumSent(e) \in Nat
    <2>1. IsFiniteSet(DOMAIN events) /\ {i \in Sendings : events[i].entry = e} \in SUBSET DOMAIN events
      BY <1>1, <1>3 DEF Sendings
    <2> QED
      BY <2>1, FS_Subset, FS_CardinalityType DEF NumSent
  <1> QED
    BY <1>2, <1>3

\* An entry is inflated unless it is held.
LEMMA Obtained ==
    ASSUME reads \in Seq(1..book.entries), NEW x \in 1..book.entries, Obtain(x), UNCHANGED book
    PROVE  /\ reads' \in Seq(1..book.entries)
           /\ \A e : e # x => NumRead(e)' = NumRead(e)
           /\ NumRead(x)' = NumRead(x) + 1 - IfHeld(x)
  <1>1. CASE x \in preread
    <2>1. reads' = reads
      BY <1>1 DEF Obtain
    <2>2. \A e : NumRead(e)' = NumRead(e)
      BY <2>1 DEF NumRead
    <2>3. IfHeld(x) = 1 /\ NumRead(x) \in Nat
      BY <1>1, NumTypes DEF IfHeld
    <2> QED
      BY <2>1, <2>2, <2>3
  <1>2. CASE x \notin preread
    <2>1. reads' = Append(reads, x)
      BY <1>2 DEF Obtain, Read
    <2>2. IfHeld(x) = 0 /\ NumRead(x) \in Nat
      BY <1>2, NumTypes DEF IfHeld
    <2> QED
      BY <2>1, <2>2, ReadAdded
  <1> QED
    BY <1>1, <1>2

\* Before the plan only the files every archive is opened by are read.
LEMMA ReadsEarly ==
    ASSUME SpineInv, PlanInv, SentInv, HeldInv, ReadsInv, [Next]_vars, step \in BeforePlan, ~PlanWalk
    PROVE  ReadsInv'
  <1>1. /\ UNCHANGED <<book, preread>> /\ step' \in BeforePlan
    <2>1. CASE ResolveSpine
      BY <2>1 DEF ResolveSpine, At, Continue, Stop, BeforePlan, BeforeInfo, input
    <2>2. CASE ~ResolveSpine
      <3>1. ~EmitResource
        BY DEF EmitResource, At, BeforePlan, BeforeInfo
      <3>2. UNCHANGED book /\ step' \in BeforePlan
        BY <2>2, <3>1, PlanFrame
      <3>3. UNCHANGED preread
        BY <2>2, <3>1 DEF Next, vars, At, BeforePlan, BeforeInfo, CheckEncryption, CheckMimetype, CheckContainer,
           ReadPackage, EmitInfo, ReadNavigation, ReadOverlay, OverlaysDone, EmitChapter, EmitStatus
      <3> QED
        BY <3>2, <3>3
    <2> QED
      BY <2>1, <2>2
  <1>2. reads' = reads \/ \E x \in Header \cap (1..book.entries) : reads' = Append(reads, x)
    <2>1. /\ {book.encryption, book.mimetype, book.container, book.opf} \subseteq 0..book.entries
          /\ book.entries \in Nat
      BY BooksAssumption DEF SpineInv
    <2>2. CASE CheckEncryption
      <3>1. reads' = reads \/ (book.encryption # 0 /\ reads' = Append(reads, book.encryption))
        BY <2>2 DEF CheckEncryption, Read, Unreadable
      <3> QED
        BY <2>1, <3>1 DEF Header
    <2>3. CASE CheckMimetype
      BY <2>1, <2>3 DEF CheckMimetype, Header, Read, Unreadable
    <2>4. CASE CheckContainer
      BY <2>1, <2>4 DEF CheckContainer, Header, Read, Unreadable
    <2>5. CASE ReadPackage
      BY <2>1, <2>5 DEF ReadPackage, Header, Read, Unreadable, ReadsInv, At
    <2>6. CASE ResolveSpine \/ EmitInfo \/ UNCHANGED vars
      BY <2>6 DEF ResolveSpine, EmitInfo, vars
    <2> QED
      BY <2>2, <2>3, <2>4, <2>5, <2>6 DEF Next, At, BeforePlan, BeforeInfo, ReadNavigation, ReadOverlay, OverlaysDone,
         EmitResource, EmitChapter, EmitStatus
  <1>3. /\ reads' \in Seq(1..book.entries)
        /\ \A e : e \notin Header => NumRead(e)' = NumRead(e)
    <2>1. CASE reads' = reads
      BY <2>1 DEF NumRead, ReadsInv
    <2>2. CASE \E x \in Header \cap (1..book.entries) : reads' = Append(reads, x)
      BY <1>1, <2>2, ReadAdded DEF ReadsInv
    <2> QED
      BY <1>2, <2>1, <2>2
  <1>4. outcome' = "running" => outcome = "running"
    <2>1. CASE UNCHANGED vars
      BY <2>1 DEF vars
    <2>2. CASE Next
      BY <2>2 DEF Next, At, BeforePlan, BeforeInfo, CheckEncryption, CheckMimetype, CheckContainer,
         ReadPackage, ResolveSpine, EmitInfo, ReadNavigation, ReadOverlay, OverlaysDone, EmitResource, EmitChapter, EmitStatus
    <2> QED
      BY <2>1, <2>2
  <1>5. Sent' = {}
    <2>1. step # "walk" /\ step' # "walk"
      BY <1>1 DEF BeforePlan, BeforeInfo
    <2>2. SentInv'
      BY <2>1, SentBefore
    <2> QED
      BY <2>1, <2>2 DEF SentInv, Sent
  <1>6. step' \notin {"encryption", "mimetype", "container"} => book.opf # 0
    <2>1. CASE CheckEncryption
      BY <2>1, BooksAssumption DEF CheckEncryption, Continue, Stop, Unreadable, At, SpineInv
    <2>2. CASE CheckMimetype
      BY <2>2 DEF CheckMimetype, Continue, Stop, Unreadable, At
    <2>3. CASE CheckContainer
      BY <2>3 DEF CheckContainer, Continue, Stop, Unreadable, At
    <2>4. CASE ReadPackage \/ ResolveSpine \/ EmitInfo
      BY <2>4 DEF ReadPackage, ResolveSpine, EmitInfo, At, ReadsInv
    <2>5. CASE UNCHANGED vars
      BY <2>5 DEF vars, ReadsInv
    <2> QED
      BY <2>1, <2>2, <2>3, <2>4, <2>5 DEF Next, At, BeforePlan, BeforeInfo, ReadNavigation, ReadOverlay, OverlaysDone,
         EmitResource, EmitChapter, EmitStatus
  <1>7. Header' = Header /\ book'.entries = book.entries /\ book'.opf = book.opf
    BY <1>1 DEF Header
  <1>8. \A e \in 1..book.entries \ Header : outcome' = "running" /\ step' \in BeforeAhead => NumRead(e)' = 0
    BY <1>3, <1>4 DEF ReadsInv, BeforePlan, BeforeAhead
  <1> QED
    BY <1>1, <1>3, <1>5, <1>6, <1>7, <1>8 DEF ReadsInv

\* Steps that read nothing, once the walk is planned.
LEMMA ReadsQuiet ==
    ASSUME SpineInv, SentInv, ReadsInv, PlanWalk \/ OverlaysDone \/ EmitStatus
    PROVE  ReadsInv'
  <1>1. /\ UNCHANGED <<book, reads, preread>> /\ outcome = "running"
        /\ step \notin {"encryption", "mimetype", "container"}
        /\ step' \in {"navigation", "walk"}
        /\ PlanWalk => step \in BeforeAhead
        /\ ~PlanWalk => step \notin BeforePlan /\ step' = "walk"
    BY DEF PlanWalk, OverlaysDone, EmitStatus, At, Continue, Stop, Gone, input, BeforeAhead, BeforePlan, BeforeInfo
  <1>2. /\ events' = events \/ events' = Append(events, Event("status", chapters, 0, 0))
        /\ UNCHANGED <<options, spine>>
    BY DEF PlanWalk, OverlaysDone, EmitStatus, Emit, Gone, input, plan
  <1>3. Sent' = Sent /\ \A e : NumSent(e)' = NumSent(e)
    <2>1. CASE events' = events
      BY <2>1 DEF Sent, NumSent, Sendings
    <2>2. CASE events' = Append(events, Event("status", chapters, 0, 0))
      <3>1. Event("status", chapters, 0, 0).type = "status"
        BY DEF Event
      <3> QED
        BY <2>2, <3>1, SentAdded, SendingAdded DEF SentInv
    <2> QED
      BY <1>2, <2>1, <2>2
  <1>4. /\ \A e : NumRead(e)' = NumRead(e) /\ IfHeld(e)' = IfHeld(e)
        /\ Header' = Header /\ IfGone' \in {0, 1} /\ IfGone = 0
    BY <1>1 DEF NumRead, IfHeld, Header, IfGone
  <1>5. ToWalk' = ToWalk
    BY <1>1, <1>2, DispositionKept DEF ToWalk
  <1>6. \A e \in ToWalk \ Header : NumRead(e) <= NumSent(e) + IfHeld(e)
    <2> SUFFICES ASSUME NEW e \in ToWalk \ Header PROVE NumRead(e) <= NumSent(e) + IfHeld(e)
      OBVIOUS
    <2>1. NumSent(e) \in Nat /\ IfHeld(e) \in {0, 1}
      BY NumTypes DEF SentInv, IfHeld
    <2>2. CASE PlanWalk
      <3>1. NumRead(e) = 0
        <4>1. step \notin BeforeSpine /\ book \in Books
          BY <2>2 DEF PlanWalk, At, BeforeSpine, SpineInv
        <4>2. ToWalk \subseteq 1..book.entries
          BY <4>1, SpineFacts, ToSendFacts DEF ToWalk
        <4> QED
          BY <1>1, <2>2, <4>2 DEF ReadsInv
      <3> QED
        BY <2>1, <3>1
    <2>3. CASE ~PlanWalk
      BY <1>1, <1>4, <2>1, <2>3 DEF ReadsInv
    <2> QED
      BY <2>2, <2>3
  <1>7. \A e \in ToWalk \ Header : NumRead(e) <= NumSent(e) + IfHeld(e) + IfGone'
    <2> SUFFICES ASSUME NEW e \in ToWalk \ Header PROVE NumRead(e) <= NumSent(e) + IfHeld(e) + IfGone'
      OBVIOUS
    <2>1. NumSent(e) \in Nat /\ IfHeld(e) \in {0, 1} /\ NumRead(e) \in Nat
      BY NumTypes DEF SentInv, IfHeld, ReadsInv
    <2> QED
      BY <1>4, <1>6, <2>1
  <1>8. (\A e \in ToWalk \ Header : NumRead(e) <= NumSent(e) + IfHeld(e) + IfGone)'
    BY <1>3, <1>4, <1>5, <1>7
  <1>9. ASSUME outcome' = "running" /\ step' \in BeforeAhead, NEW e \in 1..book.entries \ Header
        PROVE  NumRead(e)' = 0
    <2>1. step \in BeforeAhead
      BY <1>1, <1>9 DEF BeforeAhead, BeforeInfo
    <2> QED
      BY <1>1, <1>4, <1>9, <2>1 DEF ReadsInv
  <1> QED
    BY <1>1, <1>3, <1>4, <1>8, <1>9 DEF ReadsInv

\* The navigation document and the overlays are held if the walk sends them.
LEMMA ReadsAhead ==
    ASSUME SpineInv, SentInv, DoneInv, HeldInv, ReadsInv, ReadNavigation \/ ReadOverlay
    PROVE  ReadsInv'
  <1>1. /\ outcome = "running" /\ step \in {"navigation", "overlays"} /\ step' \in {"navigation", "overlays"}
        /\ step' = "navigation" => step = "navigation" /\ outcome' # "running"
        /\ UNCHANGED <<book, options, spine, pending>>
    BY DEF ReadNavigation, ReadOverlay, At, Continue, Stop, Gone, CannotObtain, Unreadable, input, plan
  <1>2. step \notin BeforePlan /\ book \in Books /\ Sendings = {} /\ Sent = {}
    BY <1>1 DEF BeforePlan, BeforeInfo, SpineInv, SentInv, Sent
  <1>3. ToWalk \subseteq WillEmit /\ ToWalk \subseteq 1..book.entries
    <2>1. ToSend \subseteq Planned
      BY <1>1, <1>2 DEF DoneInv
    <2> QED
      BY <1>2, <2>1, ToWalkType DEF ToWalk, WillEmit, Planned
  <1>4. \/ UNCHANGED <<reads, preread>>
        \/ \E x \in 1..book.entries :
             /\ Obtain(x)
             /\ \/ preread' = preread \cup {x}
                \/ preread' = preread \ {x} /\ x \notin ToWalk
    <2>1. CASE ReadNavigation
      <3>1. NavigationSource # 0 => Entry(NavigationSource) \in 1..book.entries
        <4> SUFFICES ASSUME NavigationSource # 0 PROVE Entry(NavigationSource) \in 1..book.entries
          OBVIOUS
        <4>1. NavigationSource \in Positions /\ Held(NavigationSource)
          <5> DEFINE nav == {p \in Positions : Manifest[p].nav}
                     ncx == ById(book.toc)
          <5>1. nav # {} => Least(nav) \in nav
            <6>1. nav \in SUBSET Nat
              BY <1>2, ManifestSeq
            <6> HIDE DEF nav
            <6> QED
              BY <6>1, LeastNumber
          <5>2. ncx # 0 => ncx \in Positions
            BY <1>2, ByIdType
          <5>3. NavigationSource = IF nav # {} /\ Held(Least(nav)) THEN Least(nav)
                                   ELSE IF ncx # 0 /\ Held(ncx) THEN ncx ELSE 0
            BY DEF NavigationSource
          <5>4. nav \subseteq Positions
            OBVIOUS
          <5> HIDE DEF nav, ncx
          <5> QED
            BY <5>1, <5>2, <5>3, <5>4
        <4> QED
          BY <1>2, <4>1, ManifestSeq DEF Held
      <3>2. \/ UNCHANGED <<reads, preread>>
            \/ /\ NavigationSource # 0 /\ Obtain(Entry(NavigationSource))
               /\ preread' = IF Entry(NavigationSource) \in WillEmit THEN preread \cup {Entry(NavigationSource)}
                             ELSE preread \ {Entry(NavigationSource)}
        BY <2>1 DEF ReadNavigation, CannotObtain, Unreadable
      <3> QED
        BY <1>3, <3>1, <3>2
    <2>2. CASE ReadOverlay
      <3>1. PICK p \in OverlaysFrom(at) :
              \/ UNCHANGED <<reads, preread>>
              \/ /\ Obtain(OverlayEntry(p))
                 /\ preread' = IF KeepOverlay(p) THEN preread \cup {OverlayEntry(p)} ELSE preread \ {OverlayEntry(p)}
        BY <2>2 DEF ReadOverlay, CannotObtain, Unreadable
      <3>2. OverlayEntry(p) \in 1..book.entries
        <4>1. Narrated(p) /\ Held(OverlayOf(p)) /\ p \in Positions
          BY DEF OverlaysFrom
        <4>2. OverlayOf(p) \in Positions
          BY <1>2, <4>1, ByIdType DEF Narrated, OverlayOf
        <4> QED
          BY <1>2, <4>1, <4>2, ManifestSeq DEF Held, OverlayEntry
      <3>3. OverlayEntry(p) \in ToWalk => KeepOverlay(p)
        BY <1>3 DEF KeepOverlay
      <3> QED
        BY <3>1, <3>2, <3>3
    <2> QED
      BY <2>1, <2>2
  <1>5. events' = events \/ \E ev : events' = Append(events, ev) /\ ev.type \in {"navigation", "media_overlay"}
    <2>1. \A p, e, o : Event("navigation", p, e, o).type = "navigation" /\ Event("media_overlay", p, e, o).type = "media_overlay"
      BY DEF Event
    <2>2. CASE ReadNavigation
      BY <2>1, <2>2 DEF ReadNavigation, Emit, Gone
    <2>3. CASE ReadOverlay
      BY <2>1, <2>3 DEF ReadOverlay, Emit, Gone
    <2> QED
      BY <2>2, <2>3
  <1>6. Sent' = {} /\ \A e : NumSent(e)' = NumSent(e)
    <2>1. CASE events' = events
      BY <1>2, <2>1 DEF Sent, NumSent, Sendings
    <2>2. CASE \E ev : events' = Append(events, ev) /\ ev.type \in {"navigation", "media_overlay"}
      <3>1. PICK ev : events' = Append(events, ev) /\ ev.type \in {"navigation", "media_overlay"}
        BY <2>2
      <3>2. ev.type \notin {"chapter", "resource"}
        BY <3>1
      <3> QED
        BY <1>2, <3>1, <3>2, SentAdded, SendingAdded DEF SentInv
    <2> QED
      BY <1>5, <2>1, <2>2
  <1>7. /\ reads' \in Seq(1..book.entries)
        /\ \A e \in ToWalk \ Header : NumRead(e)' = NumRead(e) + IfHeld(e)' - IfHeld(e)
    <2>1. CASE UNCHANGED <<reads, preread>>
      <3>1. \A e : NumRead(e) \in Nat /\ IfHeld(e) \in {0, 1} /\ NumRead(e)' = NumRead(e) /\ IfHeld(e)' = IfHeld(e)
        BY <2>1, NumTypes DEF ReadsInv, NumRead, IfHeld
      <3> QED
        BY <2>1, <3>1 DEF ReadsInv
    <2>2. CASE \E x \in 1..book.entries :
                 /\ Obtain(x)
                 /\ \/ preread' = preread \cup {x}
                    \/ preread' = preread \ {x} /\ x \notin ToWalk
      <3>1. PICK x \in 1..book.entries :
                 /\ Obtain(x)
                 /\ \/ preread' = preread \cup {x}
                    \/ preread' = preread \ {x} /\ x \notin ToWalk
        BY <2>2
      <3>2. /\ reads' \in Seq(1..book.entries)
            /\ \A e : e # x => NumRead(e)' = NumRead(e)
            /\ NumRead(x)' = NumRead(x) + 1 - IfHeld(x)
            /\ \A e : NumRead(e) \in Nat
        BY <1>1, <3>1, Obtained, NumTypes DEF ReadsInv
      <3>3. /\ \A e : e # x => IfHeld(e)' = IfHeld(e)
            /\ \A e : IfHeld(e) \in {0, 1}
            /\ x \in ToWalk => IfHeld(x)' = 1
        BY <3>1 DEF IfHeld
      <3>4. ASSUME NEW e \in ToWalk PROVE NumRead(e)' = NumRead(e) + IfHeld(e)' - IfHeld(e)
        <4>1. CASE e = x
          <5>1. IfHeld(x)' = 1 /\ IfHeld(x) \in {0, 1} /\ NumRead(x)' = NumRead(x) + 1 - IfHeld(x) /\ NumRead(x) \in Nat
            BY <3>2, <3>3, <3>4, <4>1
          <5>2. NumRead(x)' = NumRead(x) + IfHeld(x)' - IfHeld(x)
            BY <5>1
          <5> QED
            BY <4>1, <5>2
        <4>2. CASE e # x
          <5>1. IfHeld(e)' = IfHeld(e) /\ NumRead(e)' = NumRead(e) /\ NumRead(e) \in Nat /\ IfHeld(e) \in {0, 1}
            BY <3>2, <3>3, <4>2
          <5> QED
            BY <5>1
        <4> QED
          BY <4>1, <4>2
      <3> QED
        BY <3>2, <3>4
    <2> QED
      BY <1>4, <2>1, <2>2
  <1>8. Header' = Header /\ ToWalk' = ToWalk /\ IfGone = 0 /\ IfGone' \in {0, 1} /\ step' \notin BeforePlan
    BY <1>1, DispositionKept DEF Header, ToWalk, IfGone, BeforePlan, BeforeInfo
  <1>9. ASSUME NEW e \in ToWalk \ Header PROVE NumRead(e)' <= NumSent(e)' + IfHeld(e)' + IfGone'
    <2>1. NumRead(e) <= NumSent(e) + IfHeld(e) + IfGone
      BY <1>2 DEF ReadsInv
    <2>2. /\ NumRead(e) \in Nat /\ NumSent(e) \in Nat /\ IfHeld(e) \in {0, 1}
          /\ NumRead(e)' = NumRead(e) + IfHeld(e)' - IfHeld(e) /\ NumSent(e)' = NumSent(e)
      BY <1>6, <1>7, NumTypes DEF IfHeld, ReadsInv, SentInv
    <2>3. IfHeld(e)' \in {0, 1}
      BY DEF IfHeld
    <2> QED
      BY <1>8, <2>1, <2>2, <2>3
  <1>10. step' \notin {"encryption", "mimetype", "container"} /\ book'.opf # 0
    BY <1>1 DEF ReadsInv
  <1>11. ~(outcome' = "running" /\ step' \in BeforeAhead)
    BY <1>1 DEF BeforeAhead, BeforeInfo
  <1>12. (reads \in Seq(1..book.entries))'
    BY <1>1, <1>7
  <1>13. (\A e \in ToWalk \ Header : NumRead(e) <= NumSent(e) + IfHeld(e) + IfGone)'
    BY <1>8, <1>9
  <1> QED
    BY <1>6, <1>10, <1>11, <1>12, <1>13 DEF ReadsInv

\* What goes out is no longer held.
LEMMA ReadsSent ==
    ASSUME SpineInv, PlanInv, SentInv, ReadsInv, EmitResource \/ EmitChapter
    PROVE  ReadsInv'
  <1>1. /\ outcome = "running" /\ step = "walk" /\ step' = "walk"
        /\ UNCHANGED <<book, options, spine>>
    BY DEF EmitResource, EmitChapter, At, Stop, Gone, CannotObtain, Unreadable, input, plan
  <1>2. step \notin BeforePlan /\ step \notin BeforeSpine /\ book \in Books
    BY <1>1 DEF BeforePlan, BeforeSpine, BeforeInfo, SpineInv
  <1>3. \/ UNCHANGED <<reads, preread, events>> /\ outcome' = "unreadable"
        \/ \E x \in 1..book.entries :
             /\ Obtain(x)
             /\ preread' = preread \ {x}
             /\ \/ UNCHANGED events /\ outcome' = "gone"
                \/ /\ \E ev : /\ events' = Append(events, ev)
                              /\ ev.type \in {"chapter", "resource"} /\ ev.entry = x
                   /\ outcome' = "running"
    <2>1. \A t, i, e, o : Event(t, i, e, o).type = t /\ Event(t, i, e, o).entry = e
      BY DEF Event
    <2>2. CASE EmitResource
      <3>1. Head(pending).entry \in 1..book.entries
        <4>1. 1 \in DOMAIN pending /\ Head(pending) = pending[1]
          BY <2>2 DEF EmitResource, ResourceDue, PlanInv
        <4>2. Head(pending).entry \in ToSend
          BY <4>1 DEF PlanInv
        <4> QED
          BY <1>2, <4>2, ToSendFacts
      <3> DEFINE ev == Event("resource", Head(pending).position, Head(pending).entry, OverlayOf(Head(pending).position))
      <3>2. \/ UNCHANGED <<reads, preread, events>> /\ outcome' = "unreadable"
            \/ /\ Obtain(Head(pending).entry)
               /\ preread' = preread \ {Head(pending).entry}
               /\ \/ UNCHANGED events /\ outcome' = "gone"
                  \/ events' = Append(events, ev) /\ outcome' = outcome
        BY <2>2 DEF EmitResource, CannotObtain, Unreadable, Stop, Gone, Emit
      <3>3. ev.type \in {"chapter", "resource"} /\ ev.entry = Head(pending).entry
        BY <2>1
      <3> HIDE DEF ev
      <3> QED
        BY <1>1, <3>1, <3>2, <3>3
    <2>3. CASE EmitChapter
      <3>1. Entry(spine[at].source) \in 1..book.entries
        <4>1. at \in 1..Len(spine)
          BY <2>3, <1>2, SpineFacts DEF EmitChapter, SentInv
        <4> QED
          BY <1>2, <4>1, SpineFacts
      <3> DEFINE ev == Event("chapter", at, Entry(spine[at].source), ChapterOverlay(spine[at]))
      <3>2. \/ UNCHANGED <<reads, preread, events>> /\ outcome' = "unreadable"
            \/ /\ Obtain(Entry(spine[at].source))
               /\ preread' = preread \ {Entry(spine[at].source)}
               /\ \/ UNCHANGED events /\ outcome' = "gone"
                  \/ events' = Append(events, ev) /\ outcome' = outcome
        BY <2>3 DEF EmitChapter, CannotObtain, Unreadable, Stop, Gone, Emit
      <3>3. ev.type \in {"chapter", "resource"} /\ ev.entry = Entry(spine[at].source)
        BY <2>1
      <3> HIDE DEF ev
      <3> QED
        BY <1>1, <3>1, <3>2, <3>3
    <2> QED
      BY <2>2, <2>3
  <1>4. Header' = Header /\ ToWalk' = ToWalk /\ IfGone = 0
    BY <1>1, DispositionKept DEF Header, ToWalk, IfGone
  <1>5. \A e : NumRead(e) \in Nat /\ NumSent(e) \in Nat /\ IfHeld(e) \in {0, 1}
    BY NumTypes DEF ReadsInv, SentInv, IfHeld
  <1>6. step' \notin {"encryption", "mimetype", "container"} /\ book'.opf # 0 /\ step' \notin BeforeAhead
    BY <1>1 DEF ReadsInv, BeforeAhead, BeforeInfo
  <1>7. CASE UNCHANGED <<reads, preread, events>> /\ outcome' = "unreadable"
    <2>1. /\ \A e : NumRead(e)' = NumRead(e) /\ NumSent(e)' = NumSent(e) /\ IfHeld(e)' = IfHeld(e)
          /\ IfGone' = 0 /\ Sent' = Sent /\ preread' = preread
      BY <1>7 DEF NumRead, NumSent, IfHeld, IfGone, Sent, Sendings
    <2>2. (\A e \in ToWalk \ Header : NumRead(e) <= NumSent(e) + IfHeld(e) + IfGone)'
      BY <1>2, <1>4, <2>1 DEF ReadsInv
    <2>3. (reads \in Seq(1..book.entries))'
      BY <1>1, <1>7 DEF ReadsInv
    <2>4. (Sent \cap preread = {})'
      BY <2>1 DEF ReadsInv
    <2> QED
      BY <1>6, <2>2, <2>3, <2>4 DEF ReadsInv
  <1>8. ASSUME NEW x \in 1..book.entries,
               Obtain(x), preread' = preread \ {x},
               \/ UNCHANGED events /\ outcome' = "gone"
               \/ /\ \E ev : /\ events' = Append(events, ev)
                             /\ ev.type \in {"chapter", "resource"} /\ ev.entry = x
                  /\ outcome' = "running"
        PROVE  ReadsInv'
    <2>1. /\ reads' \in Seq(1..book.entries)
          /\ \A e : e # x => NumRead(e)' = NumRead(e)
          /\ NumRead(x)' = NumRead(x) + 1 - IfHeld(x)
      BY <1>1, <1>8, Obtained DEF ReadsInv
    <2>2. /\ \A e : e # x => IfHeld(e)' = IfHeld(e)
          /\ IfHeld(x)' = 0
      BY <1>8 DEF IfHeld
    <2>3. /\ Sent' \subseteq Sent \cup {x}
          /\ \A e : e # x => NumSent(e)' = NumSent(e)
          /\ NumSent(x)' + IfGone' = NumSent(x) + 1 /\ NumSent(x)' \in {NumSent(x), NumSent(x) + 1}
          /\ IfGone' \in {0, 1}
      <3>1. CASE UNCHANGED events /\ outcome' = "gone"
        <4>1. Sent' = Sent /\ (\A e : NumSent(e)' = NumSent(e)) /\ IfGone' = 1
          BY <3>1 DEF Sent, NumSent, Sendings, IfGone
        <4> QED
          BY <1>5, <4>1
      <3>2. CASE (\E ev : /\ events' = Append(events, ev)
                          /\ ev.type \in {"chapter", "resource"} /\ ev.entry = x) /\ outcome' = "running"
        <4>1. PICK ev : /\ events' = Append(events, ev)
                        /\ ev.type \in {"chapter", "resource"} /\ ev.entry = x
          BY <3>2
        <4>2. /\ Sent' = Sent \cup {x}
              /\ \A e : e # x => NumSent(e)' = NumSent(e)
              /\ NumSent(x)' = NumSent(x) + 1
          BY <4>1, SentAdded, SendingAdded DEF SentInv
        <4>3. IfGone' = 0
          BY <3>2 DEF IfGone
        <4> QED
          BY <1>5, <4>2, <4>3
      <3> QED
        BY <1>8, <3>1, <3>2
    <2>4. ASSUME NEW e \in ToWalk \ Header PROVE NumRead(e)' <= NumSent(e)' + IfHeld(e)' + IfGone'
      <3>1. NumRead(e) <= NumSent(e) + IfHeld(e)
        BY <1>2, <1>4, <1>5 DEF ReadsInv
      <3>2. NumRead(e) \in Nat /\ NumSent(e) \in Nat /\ IfHeld(e) \in {0, 1}
        BY <1>5
      <3>3. CASE e = x
        <4>1. /\ NumRead(x)' = NumRead(x) + 1 - IfHeld(x) /\ NumSent(x)' + IfGone' = NumSent(x) + 1
              /\ IfHeld(x)' = 0 /\ IfGone' \in {0, 1}
          BY <2>1, <2>2, <2>3
        <4>2. NumSent(x)' \in {NumSent(x), NumSent(x) + 1}
          BY <2>3
        <4> QED
          BY <3>1, <3>2, <3>3, <4>1, <4>2
      <3>4. CASE e # x
        <4>1. /\ NumRead(e)' = NumRead(e) /\ NumSent(e)' = NumSent(e)
              /\ IfHeld(e)' = IfHeld(e) /\ IfGone' \in {0, 1}
          BY <2>1, <2>2, <2>3, <3>4
        <4> QED
          BY <3>1, <3>2, <4>1
      <3> QED
        BY <3>3, <3>4
    <2>5. (\A e \in ToWalk \ Header : NumRead(e) <= NumSent(e) + IfHeld(e) + IfGone)'
      BY <1>4, <2>4
    <2>6. (reads \in Seq(1..book.entries))'
      BY <1>1, <2>1
    <2>7. (Sent \cap preread = {})'
      BY <1>8, <2>3 DEF ReadsInv
    <2> QED
      BY <1>6, <2>5, <2>6, <2>7 DEF ReadsInv
  <1> QED
    BY <1>3, <1>7, <1>8

\* What is inflated is accounted for, step by step.
LEMMA ReadsStep ==
    SpineInv /\ PlanInv /\ SentInv /\ DoneInv /\ HeldInv /\ ReadsInv /\ [Next]_vars => ReadsInv'
  <1> SUFFICES ASSUME SpineInv, PlanInv, SentInv, DoneInv, HeldInv, ReadsInv, [Next]_vars PROVE ReadsInv'
    OBVIOUS
  <1>1. CASE PlanWalk \/ OverlaysDone \/ EmitStatus
    BY <1>1, ReadsQuiet
  <1>2. CASE ReadNavigation \/ ReadOverlay
    BY <1>2, ReadsAhead
  <1>3. CASE EmitResource \/ EmitChapter
    BY <1>3, ReadsSent
  <1>4. CASE UNCHANGED vars
    <2>1. UNCHANGED <<book, options, step, outcome, reads, events, spine, preread>>
      BY <1>4 DEF vars, input, plan
    <2>2. /\ \A e : NumRead(e)' = NumRead(e) /\ NumSent(e)' = NumSent(e) /\ IfHeld(e)' = IfHeld(e)
          /\ Header' = Header /\ IfGone' = IfGone /\ Sent' = Sent
      BY <2>1 DEF NumRead, NumSent, IfHeld, Header, IfGone, Sent, Sendings
    <2>3. ToWalk' = ToWalk
      BY <2>1, DispositionKept DEF ToWalk
    <2> QED
      BY <2>1, <2>2, <2>3 DEF ReadsInv
  <1>5. CASE CheckEncryption \/ CheckMimetype \/ CheckContainer \/ ReadPackage \/ ResolveSpine \/ EmitInfo
    <2>1. step \in BeforePlan /\ ~PlanWalk
      BY <1>5 DEF CheckEncryption, CheckMimetype, CheckContainer, ReadPackage, ResolveSpine, EmitInfo, PlanWalk,
         At, BeforePlan, BeforeInfo
    <2> QED
      BY <2>1, ReadsEarly
  <1> QED
    BY <1>1, <1>2, <1>3, <1>4, <1>5 DEF Next

\* At first nothing is read or held.
LEMMA ReadsStart == Init => ReadsInv
  <1> SUFFICES ASSUME Init PROVE ReadsInv
    OBVIOUS
  <1>1. reads = <<>> /\ events = <<>> /\ preread = {} /\ step = "encryption"
    BY DEF Init
  <1>2. \A e : NumRead(e) = 0
    <2>1. \A e : {i \in DOMAIN reads : reads[i] = e} = {}
      BY <1>1
    <2> QED
      BY <2>1, FS_EmptySet DEF NumRead
  <1> QED
    BY <1>1, <1>2 DEF ReadsInv, BeforePlan, BeforeInfo

\* Reading ahead never makes an entry cost more than its sendings: of what
\* went out, nothing was inflated more often than it was sent, but for what a
\* client that left did not take.
THEOREM InflatedOncePerSending == Spec => []InflatedPerSending
  <1>1. SpineInv /\ SentInv /\ ReadsInv => InflatedPerSending
    <2> SUFFICES ASSUME SpineInv, SentInv, ReadsInv, NEW e \in Sent \ Header
                 PROVE  NumRead(e) <= NumSent(e) + IfGone
      BY DEF InflatedPerSending, NumRead, NumSent, IfGone, ReadsInv
    <2>1. PICK i \in Sendings : e = events[i].entry
      BY DEF Sent
    <2>2. step = "walk" /\ i \in DOMAIN events
      BY <2>1 DEF SentInv, Sendings
    <2>3. step \notin BeforePlan /\ step \notin BeforeSpine
      BY <2>2 DEF BeforePlan, BeforeInfo, BeforeSpine
    <2>4. e \in ToWalk
      <3>1. CASE events[i].type = "chapter"
        <4>1. ChapterSent(i) /\ at <= Len(spine) + 1 /\ at \in Nat /\ Len(spine) \in Nat
          BY <2>2, <2>3, <3>1, SpineFacts DEF SentInv
        <4>2. events[i].item \in 1..Len(spine)
          BY <4>1 DEF ChapterSent
        <4> QED
          BY <2>1, <2>3, <4>1, <4>2, SpineFacts DEF ChapterSent, ToWalk
      <3>2. CASE events[i].type = "resource"
        BY <2>1, <2>2, <3>2 DEF SentInv, ResourceSent, ToWalk
      <3> QED
        BY <2>1, <3>1, <3>2 DEF Sendings
    <2>5. IfHeld(e) = 0
      BY DEF ReadsInv, IfHeld
    <2>6. NumRead(e) <= NumSent(e) + IfHeld(e) + IfGone /\ NumSent(e) \in Nat
      BY <2>3, <2>4, NumTypes DEF ReadsInv, SentInv
    <2> QED
      BY <2>5, <2>6
  <1> QED
    BY <1>1, SpineStart, SpineStep, PlanStart, PlanStep, SentStart, SentStep, CountStart, CountStep,
       DoneStart, DoneStep, HeldStart, HeldStep, ReadsStart, ReadsStep, PTL DEF Spec


-----------------------------------------------------------------------------
(* What a chapter is read from.                                            *)

\* What is reached by one fallback more.
Further(p, S) == {p} \cup UNION {{q, FallbackOf(q)} : q \in S \ {0}}

\* The recursion of Reach has one solution.
LEMMA ReachOnly ==
    ASSUME NEW p, NEW n \in Nat, NEW g,
           g = [k \in 0..n |-> IF k = 0 THEN {p} ELSE Further(p, g[k - 1])]
    PROVE  Reach(p, n) = g[n] \ {0}
  <1> DEFINE Solves(h) == h = [k \in 0..n |-> IF k = 0 THEN {p} ELSE Further(p, h[k - 1])]
             chosen == CHOOSE h : Solves(h)
  <1>1. Reach(p, n) = chosen[n] \ {0}
    BY DEF Reach, Further
  <1>2. Solves(chosen)
    BY Zenon
  <1> HIDE DEF chosen
  <1>3. \A k \in 0..n : chosen[k] = g[k]
    <2> DEFINE Wrong == {k \in 0..n : chosen[k] # g[k]}
    <2>1. SUFFICES ASSUME Wrong # {} PROVE FALSE
      OBVIOUS
    <2>2. Wrong \in SUBSET Nat
      OBVIOUS
    <2>3. PICK k \in Wrong : \A j \in Wrong : k <= j
      <3> HIDE DEF Wrong
      <3> QED
        BY <2>1, <2>2, LeastNumber
    <2>4. k \in 0..n /\ chosen[k] # g[k]
      OBVIOUS
    <2>5. chosen[k] = IF k = 0 THEN {p} ELSE Further(p, chosen[k - 1])
      BY <1>2, <2>4
    <2>6. g[k] = IF k = 0 THEN {p} ELSE Further(p, g[k - 1])
      BY <2>4
    <2>7. k # 0 => chosen[k - 1] = g[k - 1]
      <3> SUFFICES ASSUME k # 0 PROVE chosen[k - 1] = g[k - 1]
        OBVIOUS
      <3>1. k - 1 \in 0..n /\ ~(k <= k - 1)
        BY <2>4
      <3>2. k - 1 \notin Wrong
        <4> HIDE DEF Wrong
        <4> QED
          BY <2>3, <3>1
      <3> QED
        BY <3>1, <3>2
    <2> QED
      BY <2>4, <2>5, <2>6, <2>7
  <1> QED
    BY <1>1, <1>3

\* By one fallback less than a chain may be long, an item reaches what its
\* chain holds.
LEMMA ReachOfChain ==
    ASSUME book \in Books, NEW p \in Positions
    PROVE  LET c == FallbackChain[<<p>>]
           IN  Reach(p, MaxFallbackChain - 1) = {c[i] : i \in DOMAIN c}
  <1> DEFINE c == FallbackChain[<<p>>]
             L == Len(c)
             n == MaxFallbackChain - 1
             last == FallbackOf(c[L])
  <1>1. /\ c \in Seq(Positions) /\ L \in Nat \ {0} /\ DOMAIN c = 1..L /\ c[1] = p
        /\ \A k \in 1..L - 1 : ~StopsAt(c, k) /\ c[k + 1] = FallbackOf(c[k])
        /\ StopsAt(c, L)
    <2>1. <<p>> \in Seq(Positions) /\ <<p>> # <<>> /\ Len(<<p>>) = 1 /\ <<p>>[1] = p
      OBVIOUS
    <2>2. c \in Ends(<<p>>)
      BY <2>1, FallbackChainEnds
    <2> HIDE DEF c
    <2> QED
      BY <2>1, <2>2 DEF Ends
  <1>2. n \in Nat /\ MaxFallbackChain = n + 1
    BY ExtractLimitsAssumption
  <1> HIDE DEF c, L, n, last
  <1>3. \A k \in 1..L : c[k] \in Positions /\ c[k] # 0
    BY <1>1, ManifestSeq
  <1>4. L <= n + 1
    <2> SUFFICES ASSUME L > n + 1 PROVE FALSE
      BY <1>1, <1>2
    <2>1. n + 1 \in 1..L - 1
      BY <1>1, <1>2
    <2> QED
      BY <1>1, <1>2, <2>1 DEF StopsAt
  <1>5. L = n + 1 \/ last = 0 \/ \E i \in 1..L : c[i] = last
    BY <1>1, <1>2 DEF StopsAt, last
  <1> DEFINE Upto(m) == {c[i] : i \in 1..m}
             g == [k \in 0..n |-> IF k < L THEN Upto(k + 1) ELSE Upto(L) \cup {last}]
  <1>6. ASSUME NEW m \in 1..L, NEW S, S \ {0} = Upto(m)
        PROVE  Further(p, S) = IF m < L THEN Upto(m + 1) ELSE Upto(L) \cup {last}
    <2>1. Further(p, S) = {p} \cup {c[i] : i \in 1..m} \cup {FallbackOf(c[i]) : i \in 1..m}
      <3>1. \A x : x \in UNION {{q, FallbackOf(q)} : q \in S \ {0}} <=> \E q \in S \ {0} : x = q \/ x = FallbackOf(q)
        OBVIOUS
      <3>2. \A x : (\E q \in Upto(m) : x = q \/ x = FallbackOf(q)) <=> \E i \in 1..m : x = c[i] \/ x = FallbackOf(c[i])
        OBVIOUS
      <3> HIDE DEF Upto
      <3>3. \A x : x \in Further(p, S) <=> x = p \/ \E i \in 1..m : x = c[i] \/ x = FallbackOf(c[i])
        BY <1>6, <3>1, <3>2 DEF Further
      <3>4. \A x : x \in {p} \cup {c[i] : i \in 1..m} \cup {FallbackOf(c[i]) : i \in 1..m}
                     <=> x = p \/ \E i \in 1..m : x = c[i] \/ x = FallbackOf(c[i])
        OBVIOUS
      <3> QED
        BY <3>3, <3>4
    <2>2. CASE m < L
      <3>1. \A x : (\E i \in 1..m : x = c[i] \/ x = FallbackOf(c[i])) \/ x = p <=> \E j \in 1..m + 1 : x = c[j]
        <4>1. ASSUME NEW i \in 1..m PROVE i \in 1..m + 1 /\ i + 1 \in 1..m + 1 /\ FallbackOf(c[i]) = c[i + 1]
          BY <1>1, <1>6, <2>2
        <4>2. 1 \in 1..m + 1 /\ c[1] = p
          BY <1>1, <1>6
        <4>3. ASSUME NEW j \in 1..m + 1 PROVE j \in 1..m \/ (j - 1 \in 1..m /\ c[j] = FallbackOf(c[j - 1]))
          <5>1. CASE j \in 1..m
            BY <5>1
          <5>2. CASE j \notin 1..m
            <6>1. j = m + 1 /\ m \in 1..m /\ m \in 1..L - 1 /\ j - 1 = m
              BY <1>1, <1>6, <2>2, <5>2
            <6> QED
              BY <1>1, <6>1
          <5> QED
            BY <5>1, <5>2
        <4> QED
          BY <4>1, <4>2, <4>3
      <3>2. Further(p, S) = Upto(m + 1)
        BY <2>1, <3>1
      <3> QED
        BY <2>2, <3>2
    <2>3. CASE ~(m < L)
      <3>1. m = L
        BY <1>1, <1>6, <2>3
      <3>2. \A x : (\E i \in 1..m : x = c[i] \/ x = FallbackOf(c[i])) \/ x = p <=> (\E j \in 1..L : x = c[j]) \/ x = last
        <4>1. ASSUME NEW i \in 1..m PROVE i \in 1..L /\ (FallbackOf(c[i]) = last \/ (i + 1 \in 1..L /\ FallbackOf(c[i]) = c[i + 1]))
          <5>1. i = L \/ (i \in 1..L - 1 /\ i + 1 \in 1..L)
            BY <1>1, <3>1
          <5> QED
            BY <1>1, <3>1, <5>1 DEF last
        <4>2. 1 \in 1..L /\ c[1] = p /\ L \in 1..m /\ last = FallbackOf(c[L])
          BY <1>1, <3>1 DEF last
        <4> QED
          BY <3>1, <4>1, <4>2
      <3>3. Further(p, S) = Upto(L) \cup {last}
        BY <2>1, <3>2
      <3> QED
        BY <2>3, <3>3
    <2> QED
      BY <2>2, <2>3
  <1>7. ASSUME NEW m \in 1..L PROVE Upto(m) \ {0} = Upto(m)
    BY <1>1, <1>3, <1>7
  <1>8. last = 0 \/ last \in Upto(L) => (Upto(L) \cup {last}) \ {0} = Upto(L)
    <2>1. Upto(L) \ {0} = Upto(L)
      <3>1. L \in 1..L
        BY <1>1
      <3> HIDE DEF Upto
      <3> QED
        BY <1>7, <3>1
    <2> HIDE DEF Upto
    <2> QED
      BY <2>1
  <1>9. ASSUME NEW k \in 0..n PROVE g[k] = IF k = 0 THEN {p} ELSE Further(p, g[k - 1])
    <2>1. CASE k = 0
      <3>1. \A i : i \in 1..1 <=> i = 1
        OBVIOUS
      <3>2. Upto(1) = {p}
        BY <1>1, <3>1
      <3>3. 0 < L /\ 0 + 1 = 1
        BY <1>1
      <3> HIDE DEF Upto
      <3> QED
        BY <1>9, <2>1, <3>2, <3>3
    <2>2. CASE k # 0 /\ k <= L
      <3>1. k - 1 \in 0..n /\ k - 1 < L /\ k - 1 + 1 = k /\ k \in 1..L /\ k + 1 - 1 = k
        BY <1>1, <1>2, <1>9, <2>2
      <3>2. g[k - 1] = Upto(k)
        BY <3>1
      <3>3. Further(p, g[k - 1]) = IF k < L THEN Upto(k + 1) ELSE Upto(L) \cup {last}
        <4> HIDE DEF Upto, g
        <4> QED
          BY <1>6, <1>7, <3>1, <3>2
      <3> HIDE DEF Upto
      <3> QED
        BY <1>9, <2>2, <3>3
    <2>3. CASE k # 0 /\ ~(k <= L)
      <3>1. k - 1 \in 0..n /\ ~(k - 1 < L) /\ ~(k < L) /\ L \in 1..L /\ ~(L < L) /\ L # n + 1
        BY <1>1, <1>2, <1>9, <2>3
      <3>2. g[k - 1] = Upto(L) \cup {last} /\ g[k] = Upto(L) \cup {last}
        BY <1>9, <3>1
      <3>3. (Upto(L) \cup {last}) \ {0} = Upto(L)
        BY <1>5, <1>8, <3>1
      <3> HIDE DEF Upto, g
      <3> QED
        BY <1>6, <2>3, <3>1, <3>2, <3>3
    <2> QED
      BY <2>1, <2>2, <2>3
  <1>10. g = [k \in 0..n |-> IF k = 0 THEN {p} ELSE Further(p, g[k - 1])]
    <2>1. g = [k \in 0..n |-> g[k]]
      OBVIOUS
    <2> HIDE DEF g
    <2> QED
      BY <1>9, <2>1
  <1>11. Reach(p, n) = g[n] \ {0}
    <2> HIDE DEF g
    <2> QED
      BY <1>2, <1>10, ReachOnly
  <1>12. g[n] \ {0} = Upto(L)
    <2>1. n \in 0..n
      BY <1>2
    <2>2. CASE n < L
      <3>1. n + 1 = L /\ L \in 1..L
        BY <1>1, <1>2, <1>4, <2>2
      <3>2. g[n] = Upto(L)
        BY <2>1, <2>2, <3>1
      <3> QED
        BY <1>7, <3>1, <3>2
    <2>3. CASE ~(n < L)
      <3>1. L # n + 1
        BY <1>1, <1>2, <2>3
      <3>2. g[n] = Upto(L) \cup {last}
        BY <2>1, <2>3
      <3> QED
        BY <1>5, <1>8, <3>1, <3>2
    <2> QED
      BY <2>2, <2>3
  <1> QED
    BY <1>1, <1>11, <1>12 DEF c, n

\* A chapter is read from its itemref's item or one its fallbacks lead to, from
\* one the archive holds, and from markup whenever any of them is markup it
\* holds; whatever the manifest's fallbacks are, cycles and all.
THEOREM ReadableChapters == Spec => []ChaptersReadable
  <1>1. SpineInv => ChaptersReadable
    <2> SUFFICES ASSUME SpineInv, NEW i \in DOMAIN spine
                 PROVE  LET candidates == {q \in Reach(spine[i].primary, MaxFallbackChain - 1) : Held(q)}
                        IN  /\ spine[i].source \in candidates
                            /\ \/ Manifest[spine[i].source].media = "markup"
                               \/ \A q \in candidates : Manifest[q].media # "markup"
      BY DEF ChaptersReadable
    <2>1. step \notin BeforeSpine /\ book \in Books
      BY DEF SpineInv
    <2> DEFINE p == spine[i].primary
               c == FallbackChain[<<p>>]
    <2>2. p \in Positions /\ spine[i].source = ChapterSource(p) /\ ChapterSource(p) # 0
      BY <2>1, SpineFacts
    <2>3. Reach(p, MaxFallbackChain - 1) = {c[j] : j \in DOMAIN c}
      BY <2>1, <2>2, ReachOfChain
    <2>4. /\ Held(ChapterSource(p))
          /\ \E j \in DOMAIN c : c[j] = ChapterSource(p)
          /\ \/ Manifest[ChapterSource(p)].media = "markup"
             \/ \A j \in DOMAIN c : Held(c[j]) => Manifest[c[j]].media # "markup"
      BY <2>1, <2>2, ChapterSourceFound
    <2> HIDE DEF c, p
    <2> QED
      BY <2>2, <2>3, <2>4 DEF p
  <1> QED
    BY <1>1, SpineStart, SpineStep, PTL DEF Spec

=============================================================================
