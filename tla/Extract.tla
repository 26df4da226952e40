------------------------------ MODULE Extract ------------------------------
(***************************************************************************)
(* extract::parse, the driver of one call: from the scanned archive to the *)
(* status trailer.  It is sequential, but what it does for a book depends  *)
(* on how manifest, spine and archive refer to each other, and it stops at *)
(* any event (the client is gone) and at any read (budget, ratio or a      *)
(* damaged entry).                                                         *)
(*                                                                         *)
(* A book is given by what the parsers make of it.  Archive entries are    *)
(* positions 1..n in central-directory order, 0 standing for none; ids are *)
(* whatever the OPF wrote, an absent attribute being the empty id.  What a *)
(* read costs is the concern of Archive; here reads records which entries  *)
(* were inflated, in order.                                                *)
(***************************************************************************)
EXTENDS Integers, Sequences, FiniteSets

CONSTANTS
    Books,               \* the uploads considered
    Options,             \* the include and parse options of Effective
    MaxWarnings,         \* MAX_WARNINGS
    MaxFallbackChain     \* MAX_FALLBACK_CHAIN

Empty == ""              \* an attribute that is absent

Media == {"markup", "ncx", "image", "stylesheet", "other"}
Links == {"entry", "remote", "unusable"}   \* what href::resolve makes of an href

\* A manifest item: its attributes, and the entry its href resolves to.
ManifestItems ==
    [id : STRING, fallback : STRING, overlay : STRING, nav : BOOLEAN,
     media : Media, nested : BOOLEAN, link : Links, entry : Nat]

ASSUME BooksAssumption ==
    \A b \in Books :
        /\ b.entries \in Nat
        /\ {b.encryption, b.mimetype, b.container, b.opf} \subseteq 0..b.entries
        /\ b.unusable \in Nat
        /\ b.encryption_says \in {"obfuscation", "drm", "malformed"}
        /\ b.obfuscated \subseteq 1..b.entries
        /\ {b.claims_epub, b.container_parses, b.package_parses} \subseteq BOOLEAN
        /\ b.manifest \in Seq(ManifestItems)
        /\ \A i \in DOMAIN b.manifest :
               /\ b.manifest[i].entry <= b.entries
               /\ b.manifest[i].link # "entry" => b.manifest[i].entry = 0
        /\ b.spine \in Seq(STRING) /\ b.spine # <<>>
        /\ b.toc \in STRING

ASSUME ExtractLimitsAssumption ==
    /\ MaxWarnings \in Nat \ {0}
    /\ MaxFallbackChain \in Nat \ {0}

VARIABLES
    book, options,
    step,         \* the phase parse is in
    outcome,      \* running, or how run ended
    reads,        \* entries inflated so far
    events,       \* events delivered so far
    spine,        \* resolved itemrefs: [primary, source]
    pending,      \* resources the walk has not reached: [entry, position]
    preread,      \* entries whose bytes are held
    at,           \* where the overlay pass is in the manifest, then the walk in the spine
    chapters, emitted, skipped, warnings   \* ParseStatus

input == <<book, options>>
plan == <<spine, pending, skipped>>
counts == <<chapters, emitted>>
vars == <<input, step, outcome, reads, events, plan, preread, at, counts, warnings>>

-----------------------------------------------------------------------------
(* The resolved manifest.                                                  *)

Manifest == book.manifest
Positions == DOMAIN Manifest
Entry(p) == Manifest[p].entry
Held(p) == Entry(p) # 0

\* by_id: the first item with an id wins; 0 when there is none.
ById(id) ==
    IF \E p \in Positions : Manifest[p].id = id
    THEN CHOOSE p \in Positions :
             /\ Manifest[p].id = id
             /\ \A q \in Positions : Manifest[q].id = id => p <= q
    ELSE 0

Least(S) == CHOOSE x \in S : \A y \in S : x <= y
Limited(s, n) == SubSeq(s, 1, IF Len(s) < n THEN Len(s) ELSE n)

\* The item an item falls back to; 0 when there is none.
FallbackOf(p) == IF Manifest[p].fallback = Empty THEN 0 ELSE ById(Manifest[p].fallback)

\* A fallback chain, followed from its last item until it ends, comes back to
\* an item it holds already, or is as long as allowed.
FallbackChain[chain \in Seq(Positions)] ==
    LET next == FallbackOf(chain[Len(chain)])
    IN  IF Len(chain) = MaxFallbackChain \/ next = 0 \/ \E i \in DOMAIN chain : chain[i] = next
        THEN chain ELSE FallbackChain[Append(chain, next)]

\* Mutant: the first item held, whatever it is.
BestOf_FirstHeld == [chain \in Seq(Positions) |->
    LET held == {i \in DOMAIN chain : Held(chain[i])}
    IN  IF held # {} THEN chain[Least(held)] ELSE 0]

\* The first markup in a chain that the archive holds, or else the first item
\* it holds; 0 when it holds none.
BestOf == [chain \in Seq(Positions) |->
    LET held == {i \in DOMAIN chain : Held(chain[i])}
        markup == {i \in held : Manifest[chain[i]].media = "markup"}
    IN  IF markup # {} THEN chain[Least(markup)]
        ELSE IF held # {} THEN chain[Least(held)]
        ELSE 0]

\* chapter_source.
ChapterSource(p) == BestOf[FallbackChain[<<p>>]]

\* navigation_source: the position of the nav document or the NCX, or 0.
NavigationSource ==
    LET nav == {p \in Positions : Manifest[p].nav}
        ncx == ById(book.toc)
    IN  IF nav # {} /\ Held(Least(nav)) THEN Least(nav)
        ELSE IF ncx # 0 /\ Held(ncx) THEN ncx
        ELSE 0

\* overlay_links: the overlay of a narrated item, or 0.
OverlayOf(p) ==
    LET overlay == ById(Manifest[p].overlay)
    IN  IF overlay # 0 /\ Manifest[overlay].link # "unusable" THEN overlay ELSE 0

Narrated(p) == OverlayOf(p) # 0

\* The media_overlay_href of a chapter: its source's overlay, or its spine
\* item's; as a manifest position.
ChapterOverlay(s) == IF Narrated(s.source) THEN OverlayOf(s.source) ELSE OverlayOf(s.primary)

\* What encryption.xml says is stored obfuscated.
Obfuscated == IF book.encryption = 0 THEN {} ELSE book.obfuscated

-----------------------------------------------------------------------------
Init ==
    /\ book \in Books
    /\ options \in Options
    /\ step = "encryption"
    /\ outcome = "running"
    /\ reads = <<>>
    /\ events = <<>>
    /\ spine = <<>>
    /\ pending = <<>>
    /\ preread = {}
    /\ at = 1
    /\ chapters = 0
    /\ emitted = 0
    /\ skipped = 0
    /\ warnings = Limited([i \in 1..book.unusable |-> "unusable_entry_name"], MaxWarnings)

At(s) == outcome = "running" /\ step = s

Continue(next) == step' = next /\ UNCHANGED outcome
Stop(how) == outcome' = how /\ UNCHANGED step

\* Mutant: no cap.
Warn_Uncapped(codes) == warnings' = warnings \o codes

\* Warnings::push, dropping what comes after the cap.
Warn(codes) == warnings' = Limited(warnings \o codes, MaxWarnings)

\* read_at and read_named: whatever stops a read ends the call.
Read(e) == reads' = Append(reads, e)
Unreadable == Stop("unreadable") /\ UNCHANGED reads

\* The bytes of an entry: held from an earlier pass, or inflated now.
Obtain(e) == IF e \in preread THEN UNCHANGED reads ELSE Read(e)
CannotObtain(e) == e \notin preread /\ Unreadable

\* Sink::emit, or the client is gone.
Emit(event) == events' = Append(events, event)
Gone == Stop("gone") /\ UNCHANGED events
Event(type, item, entry, overlay) ==
    [type |-> type, item |-> item, entry |-> entry, overlay |-> overlay]

-----------------------------------------------------------------------------
(* Is this an EPUB at all?                                                 *)

CheckEncryption ==
    /\ At("encryption")
    /\ \/ /\ book.encryption = 0
          /\ Continue("mimetype")
          /\ UNCHANGED reads
       \/ /\ book.encryption # 0
          /\ Unreadable
       \/ /\ book.encryption # 0
          /\ Read(book.encryption)
          /\ CASE book.encryption_says = "obfuscation" -> Continue("mimetype")
               [] book.encryption_says = "drm" -> Stop("unimplemented")
               [] book.encryption_says = "malformed" -> Stop("invalid")
    /\ UNCHANGED <<input, events, plan, preread, at, counts, warnings>>

CheckMimetype ==
    /\ At("mimetype")
    /\ \/ /\ book.mimetype = 0
          /\ Continue("container")
          /\ UNCHANGED reads
       \/ /\ book.mimetype # 0
          /\ Unreadable
       \/ /\ book.mimetype # 0
          /\ Read(book.mimetype)
          /\ Continue("container")
    /\ UNCHANGED <<input, events, plan, preread, at, counts, warnings>>

ClaimsEpub == book.mimetype # 0 /\ book.claims_epub

\* container.xml: present, readable, and naming an OPF the archive holds.
CheckContainer ==
    /\ At("container")
    /\ \/ /\ book.container = 0
          /\ Stop(IF ClaimsEpub THEN "invalid" ELSE "unimplemented")
          /\ UNCHANGED <<reads, warnings>>
       \/ /\ book.container # 0
          /\ Warn(IF ClaimsEpub THEN <<>> ELSE <<"metadata">>)
          /\ \/ Unreadable
             \/ /\ Read(book.container)
                /\ IF book.container_parses /\ book.opf # 0
                   THEN Continue("package") ELSE Stop("invalid")
    /\ UNCHANGED <<input, events, plan, preread, at, counts>>

ReadPackage ==
    /\ At("package")
    /\ \/ Unreadable
       \/ /\ Read(book.opf)
          /\ IF book.package_parses THEN Continue("spine") ELSE Stop("invalid")
    /\ UNCHANGED <<input, events, plan, preread, at, counts, warnings>>

-----------------------------------------------------------------------------
(* The spine, and the plan of the walk.                                    *)

\* What an itemref comes to.
Resolve(id) == [primary |-> ById(id), source |-> IF ById(id) = 0 THEN 0 ELSE ChapterSource(ById(id))]

\* Mutant: an obfuscated chapter is let through.
SpineAnswer_LetsObfuscated(id) ==
    IF Resolve(id).source = 0 THEN "invalid" ELSE "ok"

\* Whether it can be a chapter, and the refusal when it cannot.
SpineAnswer(id) ==
    IF Resolve(id).source = 0 THEN "invalid"
    ELSE IF Entry(Resolve(id).source) \in Obfuscated THEN "unimplemented"
    ELSE "ok"

\* The first itemref that cannot be a chapter decides the status.
ResolveSpine ==
    /\ At("spine")
    /\ LET bad == {i \in DOMAIN book.spine : SpineAnswer(book.spine[i]) # "ok"}
       IN  \/ /\ bad # {}
              /\ Stop(SpineAnswer(book.spine[Least(bad)]))
              /\ UNCHANGED spine
           \/ /\ bad = {}
              /\ spine' = [i \in DOMAIN book.spine |-> Resolve(book.spine[i])]
              /\ Continue("info")
    /\ UNCHANGED <<input, reads, events, pending, skipped, preread, at, counts, warnings>>

\* Mutant: info goes out before the spine is looked at.
EmitInfo_BeforeSpine ==
    /\ \/ /\ At("spine") /\ events = <<>>
          /\ Emit(Event("info", Len(book.spine), 0, 0))
          /\ UNCHANGED <<step, outcome>>
       \/ /\ At("info")
          /\ Continue("plan")
          /\ UNCHANGED events
    /\ UNCHANGED <<input, reads, plan, preread, at, counts, warnings>>

EmitInfo ==
    /\ At("info")
    /\ \/ Gone
       \/ Emit(Event("info", Len(spine), 0, 0)) /\ Continue("plan")
    /\ UNCHANGED <<input, reads, plan, preread, at, counts, warnings>>

SpineIds == {spine[i].source : i \in DOMAIN spine}
ChapterEntries == {Entry(p) : p \in SpineIds}

\* classify, as far as the include options tell kinds apart.
Kind(media) == IF media \in {"markup", "ncx"} THEN "document" ELSE media

Selected(kind) ==
    \/ options.all_resources
    \/ kind = "document"
    \/ kind = "image" /\ options.images
    \/ kind = "stylesheet" /\ options.stylesheets

\* Mutant: only the item the spine names is kept from going out twice.
Disposition_ById(p) ==
    IF p \in SpineIds THEN "chapter"
    ELSE IF Manifest[p].link # "entry" \/ ~Held(p) THEN "missing"
    ELSE IF Manifest[p].nested THEN "nested"
    ELSE IF ~Selected(Kind(Manifest[p].media)) THEN "excluded"
    ELSE IF Entry(p) \in Obfuscated THEN "obfuscated"
    ELSE "send"

\* What the plan does with a manifest item, its tests in order.
Disposition(p) ==
    IF p \in SpineIds THEN "chapter"
    ELSE IF Manifest[p].link # "entry" \/ ~Held(p) THEN "missing"
    ELSE IF Entry(p) \in ChapterEntries THEN "duplicate"
    ELSE IF Manifest[p].nested THEN "nested"
    ELSE IF ~Selected(Kind(Manifest[p].media)) THEN "excluded"
    ELSE IF Entry(p) \in Obfuscated THEN "obfuscated"
    ELSE "send"

\* Mutant: an obfuscated resource is left out without a trace.
Skips_NotObfuscated(p) == Disposition(p) \in {"missing", "nested", "excluded"}

Skips(p) == Disposition(p) \in {"missing", "nested", "excluded", "obfuscated"}

\* exclude_kind reports a kind once; everything else is reported each time.
Reported(p) ==
    /\ Skips(p)
    /\ Disposition(p) = "excluded" =>
         \A q \in 1..p - 1 : Disposition(q) = "excluded" =>
             Kind(Manifest[q].media) # Kind(Manifest[p].media)

ToSend == {Entry(p) : p \in {q \in Positions : Disposition(q) = "send"}}

\* Mutant: taken from the wrong end.
Sorted_Descending(S) == [i \in 1..Cardinality(S) |->
                            CHOOSE e \in S : Cardinality({d \in S : d > e}) = i - 1]

\* In ascending order, as the plan is by entry; each file goes out under the
\* first item naming it.
Sorted(S) == [i \in 1..Cardinality(S) |->
                 CHOOSE e \in S : Cardinality({d \in S : d < e}) = i - 1]
Owner(e) == Least({p \in Positions : Disposition(p) = "send" /\ Entry(p) = e})

PlanWalk ==
    /\ At("plan")
    /\ pending' = [i \in 1..Cardinality(ToSend) |->
                      [entry |-> Sorted(ToSend)[i], position |-> Owner(Sorted(ToSend)[i])]]
    /\ skipped' = Cardinality({p \in Positions : Skips(p)})
    /\ LET reported == Sorted({p \in Positions : Reported(p)})
       IN  Warn([i \in DOMAIN reported |-> Disposition(reported[i])])
    /\ Continue("navigation")
    /\ UNCHANGED <<input, reads, events, spine, preread, at, counts>>

\* Mutant: only resources are remembered, not chapters.
WillEmit_ResourcesOnly == {pending[i].entry : i \in DOMAIN pending}

\* will_emit: the entries the walk is going to send.
WillEmit == ChapterEntries \cup {pending[i].entry : i \in DOMAIN pending}

-----------------------------------------------------------------------------
(* Navigation and media overlays, read ahead of the walk.                  *)

ReadNavigation ==
    /\ At("navigation")
    /\ \/ /\ ~options.navigation \/ NavigationSource = 0
          /\ Continue("overlays")
          /\ UNCHANGED <<reads, preread, events, warnings>>
       \/ /\ options.navigation /\ NavigationSource # 0
          /\ CannotObtain(Entry(NavigationSource))
          /\ UNCHANGED <<preread, events, warnings>>
       \/ /\ options.navigation /\ NavigationSource # 0
          /\ LET e == Entry(NavigationSource)
             IN  /\ Obtain(e)
                 /\ preread' = IF e \in WillEmit THEN preread \cup {e} ELSE preread \ {e}
                 /\ \/ /\ Warn(<<"metadata">>)          \* it named no entries
                       /\ Continue("overlays")
                       /\ UNCHANGED events
                    \/ /\ Gone
                       /\ UNCHANGED warnings
                    \/ /\ Emit(Event("navigation", NavigationSource, e, 0))
                       /\ Continue("overlays")
                       /\ UNCHANGED warnings
    /\ UNCHANGED <<input, plan, at, counts>>

\* The narrated items from a position on whose overlay the archive holds.
OverlaysFrom(n) == {p \in Positions : p >= n /\ Narrated(p) /\ Held(OverlayOf(p))}
OverlayEntry(p) == Entry(OverlayOf(p))

\* Mutant: what this pair and the walk do not need is kept too.
KeepOverlay_Always(p) == TRUE

\* Whether the bytes of an item's overlay are held on to: the walk sends
\* them, or a later pair is served by the same entry.
KeepOverlay(p) ==
    \/ OverlayEntry(p) \in WillEmit
    \/ \E q \in OverlaysFrom(p + 1) : OverlayEntry(q) = OverlayEntry(p)

\* The next (narrated item, overlay) pair, in manifest order.
ReadOverlay ==
    /\ At("overlays")
    /\ options.overlays
    /\ \E p \in OverlaysFrom(at) :
         /\ \A q \in OverlaysFrom(at) : p <= q
         /\ LET e == OverlayEntry(p)
            IN  \/ /\ CannotObtain(e)
                   /\ UNCHANGED <<at, preread, events, warnings>>
                \/ /\ Obtain(e)
                   /\ preread' = IF KeepOverlay(p) THEN preread \cup {e} ELSE preread \ {e}
                   /\ \/ /\ Warn(<<"metadata">>)        \* it declared no cues
                         /\ at' = p + 1
                         /\ UNCHANGED <<step, outcome, events>>
                      \/ /\ Gone
                         /\ UNCHANGED <<at, warnings>>
                      \/ /\ Emit(Event("media_overlay", p, e, OverlayOf(p)))
                         /\ at' = p + 1
                         /\ UNCHANGED <<step, outcome, warnings>>
    /\ UNCHANGED <<input, plan, counts>>

\* Mutant: overlays the archive does not hold are waited for.
OverlaysDone_AllRead ==
    /\ At("overlays")
    /\ ~options.overlays \/ \A p \in Positions : p >= at => ~Narrated(p)
    /\ Continue("walk")
    /\ at' = 1
    /\ UNCHANGED <<input, reads, events, plan, preread, counts, warnings>>

OverlaysDone ==
    /\ At("overlays")
    /\ ~options.overlays \/ OverlaysFrom(at) = {}
    /\ Continue("walk")
    /\ at' = 1
    /\ UNCHANGED <<input, reads, events, plan, preread, counts, warnings>>

-----------------------------------------------------------------------------
(* The walk.                                                               *)

\* The next resource comes before the next chapter, or no chapter is left.
ResourceDue ==
    /\ pending # <<>>
    /\ at <= Len(spine) => Head(pending).entry < Entry(spine[at].source)

EmitResource ==
    /\ At("walk")
    /\ ResourceDue
    /\ LET e == Head(pending).entry
       IN  \/ /\ CannotObtain(e)
              /\ UNCHANGED <<preread, events, pending, emitted>>
           \/ /\ Obtain(e)
              /\ preread' = preread \ {e}
              /\ pending' = Tail(pending)
              /\ \/ /\ Gone
                    /\ UNCHANGED emitted
                 \/ /\ Emit(Event("resource", Head(pending).position, e,
                                OverlayOf(Head(pending).position)))
                    /\ emitted' = emitted + 1
                    /\ UNCHANGED <<step, outcome>>
    /\ UNCHANGED <<input, spine, skipped, at, chapters, warnings>>

EmitChapter ==
    /\ At("walk")
    /\ at <= Len(spine) /\ ~ResourceDue
    /\ LET e == Entry(spine[at].source)
       IN  \/ /\ CannotObtain(e)
              /\ UNCHANGED <<preread, events, at, chapters>>
           \/ /\ Obtain(e)
              /\ preread' = preread \ {e}
              /\ \/ /\ Gone
                    /\ UNCHANGED <<at, chapters>>
                 \/ /\ Emit(Event("chapter", at, e, ChapterOverlay(spine[at])))
                    /\ at' = at + 1
                    /\ chapters' = chapters + 1
                    /\ UNCHANGED <<step, outcome>>
    /\ UNCHANGED <<input, plan, emitted, warnings>>

\* Mutant: the trailer comes after the last chapter.
EmitStatus_Early ==
    /\ At("walk")
    /\ at > Len(spine)
    /\ \/ Gone
       \/ /\ Emit(Event("status", chapters, 0, 0))
          /\ Stop("complete")
    /\ UNCHANGED <<input, reads, plan, preread, at, counts, warnings>>

EmitStatus ==
    /\ At("walk")
    /\ at > Len(spine) /\ pending = <<>>
    /\ \/ Gone
       \/ /\ Emit(Event("status", chapters, 0, 0))
          /\ Stop("complete")
    /\ UNCHANGED <<input, reads, plan, preread, at, counts, warnings>>

Next ==
    \/ CheckEncryption \/ CheckMimetype \/ CheckContainer \/ ReadPackage
    \/ ResolveSpine \/ EmitInfo \/ PlanWalk
    \/ ReadNavigation \/ ReadOverlay \/ OverlaysDone
    \/ EmitResource \/ EmitChapter \/ EmitStatus

Spec == Init /\ [][Next]_vars

\* The parse thread runs until run returns; every read and every emit ends.
FairSpec == Spec /\ WF_vars(Next)

-----------------------------------------------------------------------------
(* Properties.                                                             *)

\* How many events of a type went out, and the entries the walk has sent.
Count(type) == Cardinality({i \in DOMAIN events : events[i].type = type})
Sendings == {i \in DOMAIN events : events[i].type \in {"chapter", "resource"}}
Sent == {events[i].entry : i \in Sendings}

\* The response stream parse produces, as the protocol sees it.
LastResource ==
    LET resources == {i \in DOMAIN events : events[i].type = "resource"}
    IN  IF resources = {} THEN 0
        ELSE events[CHOOSE i \in resources : \A j \in resources : j <= i].entry

Contract == INSTANCE StreamContract WITH
    stage <- IF outcome = "complete" THEN "complete"
             ELSE IF outcome # "running" THEN "failed"
             ELSE IF events = <<>> THEN "before"
             ELSE IF Sendings = {} THEN "front" ELSE "body",
    announced <- IF events = <<>> THEN 0 ELSE events[1].item,
    navigated <- Count("navigation") > 0,
    overlays <- Count("media_overlay"),
    chapters <- Count("chapter"),
    reached <- LastResource

\* parse implements the stream epub_service.proto promises, whatever the
\* book: order of the parts, one status at most, and none before the last
\* announced chapter.
KeepsContract == Contract!Spec

\* Chapters go out in spine order; resources in archive order, after every
\* chapter stored before them that has gone out and before the next chapter
\* stored after them.
SendingsInOrder == \A i, j \in Sendings : i < j =>
    CASE events[i].type = "chapter" /\ events[j].type = "chapter" -> events[i].item < events[j].item
      [] events[j].type = "resource" -> events[i].entry < events[j].entry
      [] OTHER -> (\A k \in i..j - 1 : events[k].type # "chapter") => events[i].entry < events[j].entry

\* The files a complete stream owes its client: those the chapters are read
\* from, and every file of the archive that the manifest names and the options
\* select, unless it is an archive itself or stored obfuscated.
Owed ==
    {Entry(spine[i].source) : i \in DOMAIN spine}
    \cup {Entry(p) : p \in {q \in Positions :
             /\ Manifest[q].link = "entry" /\ Held(q)
             /\ ~Manifest[q].nested /\ Selected(Kind(Manifest[q].media))
             /\ Entry(q) \notin Obfuscated}}

\* The walk: chapters in spine order and resources in archive order, merged; no
\* file both as a chapter and as a resource, whatever goes out between, and
\* none as two resources; and when the stream is complete, no file it owes is
\* left out (extract.rs, the plan and the merge of parse).
WalkOrder ==
    /\ SendingsInOrder
    /\ \A i, j \in Sendings :
           events[i].entry = events[j].entry /\ i # j =>
               events[i].type = "chapter" /\ events[j].type = "chapter"
    /\ outcome = "complete" => Owed \subseteq Sent

\* No byte encryption.xml lists as obfuscated goes out, as a chapter or as a
\* resource, under whichever manifest item, and the trailer of a complete
\* stream counts every item of such a file as skipped.
ObfuscatedNeverSent ==
    /\ Sent \cap Obfuscated = {}
    /\ outcome = "complete" =>
           Cardinality({p \in Positions : Entry(p) \in Obfuscated}) <= skipped

\* The trailer tells what happened: one chapter per itemref and as many as
\* info announced, every resource counted, every item whose file did not go
\* out counted as skipped, nothing skipped without a warning, and no more
\* warnings than a trailer may carry, whatever the book is full of.
StatusTells == outcome = "complete" =>
    /\ chapters = Count("chapter")
    /\ chapters = Len(book.spine)
    /\ chapters = events[1].item
    /\ emitted = Count("resource")
    /\ Cardinality({p \in Positions : Entry(p) \notin Sent}) <= skipped
    /\ Cardinality(SpineIds) + emitted + skipped <= Len(Manifest)
    /\ Len(warnings) <= MaxWarnings
    /\ skipped > 0 => warnings # <<>>

\* What the walk has still to send.
StillToSend ==
    {Entry(spine[k].source) : k \in {i \in DOMAIN spine : i >= at}}
        \cup {pending[i].entry : i \in DOMAIN pending}

\* Bytes are held only for a use that is still to come: before the walk for
\* what it will send or for a later overlay, during the walk for a chapter or
\* a resource not sent yet, so that when it is over nothing is held (the
\* debug_assert at the end of parse).
PrereadReturned ==
    /\ At("overlays") =>
         preread \subseteq
           WillEmit \cup IF options.overlays THEN {OverlayEntry(p) : p \in OverlaysFrom(at)} ELSE {}
    /\ At("walk") => preread \subseteq StillToSend
    /\ At("walk") /\ at > Len(spine) /\ pending = <<>> => preread = {}

\* Only what the archive holds is inflated, and reading ahead never makes an
\* entry the walk sends cost more than its sendings: it is inflated at most
\* once for each of them (the one the client left at included).
Header == {book.encryption, book.mimetype, book.container, book.opf}
InflatedPerSending ==
    /\ reads \in Seq(1..book.entries)
    /\ \A e \in Sent \ Header :
           Cardinality({i \in DOMAIN reads : reads[i] = e})
               <= Cardinality({i \in Sendings : events[i].entry = e})
                  + IF outcome = "gone" THEN 1 ELSE 0

\* A book whose spine, container or encryption is unacceptable is refused
\* before the first event; later only a read or the client can end the call.
RefusedBeforeInfo ==
    events # <<>> => outcome \in {"running", "complete", "gone", "unreadable"}

\* The items reached from p by up to n fallbacks, cycles or not.
Reach(p, n) ==
    LET reach[k \in 0..n] ==
            IF k = 0 THEN {p}
            ELSE {p} \cup UNION {{q, FallbackOf(q)} : q \in reach[k - 1] \ {0}}
    IN  reach[n] \ {0}

\* A chapter is read from the archive, from the spine item or something its
\* fallbacks lead to, and from markup whenever any of that is markup the
\* archive holds.
ChaptersReadable == \A i \in DOMAIN spine :
    LET candidates == {q \in Reach(spine[i].primary, MaxFallbackChain - 1) : Held(q)}
    IN  /\ spine[i].source \in candidates
        /\ Manifest[spine[i].source].media = "markup"
             \/ \A q \in candidates : Manifest[q].media # "markup"

\* run returns, whatever the book: neither the reading of
\* overlays nor the walk goes on for ever.
ParseEnds == <>(outcome # "running")

\* (Refuted by the code.)  types.proto: a chapter's media_overlay_href comes
\* from a media-overlay attribute and is empty when there is none.
NarrationDeclared == \A i \in DOMAIN events :
    events[i].type = "chapter" /\ events[i].overlay # 0 =>
        \/ Manifest[spine[events[i].item].source].overlay # Empty
        \/ Manifest[spine[events[i].item].primary].overlay # Empty
=============================================================================
