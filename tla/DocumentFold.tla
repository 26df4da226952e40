---------------------------- MODULE DocumentFold ----------------------------
(***************************************************************************)
(* The Document projection (document_fold.rs) and the sink that feeds it.  *)
(* The fold sees every event on its way out, before it is sent, and builds *)
(* one Document of items that refer to each other by position.  Navigation *)
(* and overlays come before the chapters they name, so both are held and   *)
(* only become part of the document when the trailer is emitted; what the  *)
(* client gets must be whole and must tell of what the client got.         *)
(*                                                                         *)
(* A JSON pointer is <<arena, index>>, the index counting from 0 as in the *)
(* code.  A value the book left out is the empty string.                   *)
(***************************************************************************)
EXTENDS Integers, Sequences, FiniteSets

CONSTANTS
    Infos,            \* the EpubInfo events considered
    Tocs,             \* the Navigation events considered
    Hrefs,            \* resolved archive paths of chapters and images
    Primaries,        \* spine items a chapter may stand in for
    EndTimes,         \* where the last cue of an overlay ends
    Dates,            \* the spellings datetime::parse reads
    Languages,        \* the primary subtags HumanLanguageLabel has
    Hash,             \* source_hash of the upload
    MaxChapters, MaxResources, MaxOverlays   \* bounds on the stream

Empty == ""
Collector == "epub"

BodyRef == <<"body", 0>>
FurnitureRef == <<"furniture", 0>>
GroupRef(i) == <<"groups", i>>
PictureRef(i) == <<"pictures", i>>
Refs == {BodyRef, FurnitureRef} \cup ({"groups", "pictures"} \X Nat)

\* The parts of EpubInfo that are copied wherever the book states them.
Scalars == {"publisher", "description", "unique_identifier", "version", "opf_href"}
OpenElements == {"rights", "source", "type", "format", "coverage", "relation"}

EpubInfo ==
    [title : STRING, cover_href : Hrefs \cup {Empty}, language : Seq(STRING),
     subjects : Seq(STRING), date : STRING, modified : STRING, creators : Seq(STRING),
     identifiers : Seq([value : STRING, scheme : STRING]),
     scalars : [Scalars -> STRING],
     metadata : Seq([element : STRING, value : STRING,
                     refinements : Seq([property : STRING, value : STRING])])]

\* A table of contents, its entries in the order they were read; parent is 0
\* for a top-level entry, and the path of an href may be empty.
NavPoint == [label : STRING, depth : Nat, path : STRING, fragment : STRING, parent : Nat]

Chapter ==
    [type : {"chapter"}, href : Hrefs, image : BOOLEAN, primary : Hrefs \cup {Empty},
     spine_index : Nat]
Resource == [type : {"resource"}, href : Hrefs, image : BOOLEAN]
MediaOverlay == [type : {"overlay"}, href : Hrefs, end : EndTimes]
Event ==
    [type : {"info"}, info : Infos] \cup [type : {"navigation"}, toc : Tocs]
    \cup Chapter \cup Resource \cup MediaOverlay \cup [type : {"status"}]

ASSUME FoldAssumption ==
    /\ Infos \subseteq EpubInfo
    /\ Empty \notin Hrefs
    /\ Primaries \subseteq Hrefs
    /\ Languages \subseteq STRING
    /\ \A toc \in Tocs :
           /\ toc \in Seq(NavPoint)
           /\ \A i \in DOMAIN toc : toc[i].parent < i
    /\ EndTimes \subseteq Nat
    /\ Hash \in Nat \ {0}
    /\ {MaxChapters, MaxResources, MaxOverlays} \subseteq Nat

VARIABLES
    phase,          \* where the driver is in the stream
    document,       \* the document built so far
    cover_href,
    source_hash,
    chapter_refs,   \* chapter group by href
    outline,        \* the Navigation held
    overlays,       \* the MediaOverlays held
    folded,         \* events consumed so far
    delivered,      \* how many of them the client's channel took
    received        \* the Document the client's channel took, if any

fold == <<document, cover_href, source_hash, chapter_refs, outline, overlays>>
vars == <<phase, fold, folded, delivered, received>>

-----------------------------------------------------------------------------
(* What the book says of itself.                                           *)

Least(S) == CHOOSE x \in S : \A y \in S : x <= y
Greatest(S) == CHOOSE x \in S : \A y \in S : x >= y

\* A set of numbers in ascending order, and what a sequence holds at some of
\* its positions, in its order.
Sorted(S) == [k \in 1..Cardinality(S) |-> CHOOSE i \in S : Cardinality({j \in S : j < i}) = k - 1]
Chosen(s, S) == [k \in 1..Cardinality(S) |-> s[Sorted(S)[k]]]

First(info, element) ==
    LET found == {i \in DOMAIN info.metadata : info.metadata[i].element = element}
    IN  IF found = {} THEN Empty ELSE info.metadata[Least(found)].value

Refined(entry, property) ==
    LET found == {i \in DOMAIN entry.refinements : entry.refinements[i].property = property}
    IN  IF found = {} THEN Empty ELSE entry.refinements[Least(found)].value

\* dcterms:created, or else dc:date.
DeclaredCreation(info) ==
    IF First(info, "dcterms:created") = Empty THEN info.date ELSE First(info, "dcterms:created")

\* The creators marked aut, then the others, each in document order; the plain
\* list when the entries are missing.
Authors(info) ==
    LET creators == {i \in DOMAIN info.metadata : info.metadata[i].element = "creator"}
        authored == {i \in creators : Refined(info.metadata[i], "role") = "aut"}
        named == Chosen(info.metadata, authored) \o Chosen(info.metadata, creators \ authored)
    IN  IF creators = {} THEN info.creators ELSE [i \in DOMAIN named |-> named[i].value]

IsCredit(entry) == entry.element \in {"creator", "contributor"}
IsQualified(entry) == Refined(entry, "role") # Empty \/ Refined(entry, "file-as") # Empty
Credit(entry) ==
    [name |-> entry.value, element |-> entry.element,
     role |-> Refined(entry, "role"), file_as |-> Refined(entry, "file-as")]

\* Mutant: creators only.
Credits_Creators(info) ==
    LET entries == Chosen(info.metadata, {i \in DOMAIN info.metadata :
            info.metadata[i].element = "creator" /\ IsQualified(info.metadata[i])})
    IN  [i \in DOMAIN entries |-> Credit(entries[i])]

\* The credits that state a role or a sort name.
Credits(info) ==
    LET entries == Chosen(info.metadata, {i \in DOMAIN info.metadata :
            IsCredit(info.metadata[i]) /\ IsQualified(info.metadata[i])})
    IN  [i \in DOMAIN entries |-> Credit(entries[i])]

\* A map filled by insertions in order: empty values are skipped, and the last
\* value of a key stays.
Recorded(pairs) ==
    LET stated == {i \in DOMAIN pairs : pairs[i][2] # Empty}
    IN  [key \in {pairs[i][1] : i \in stated} |->
            pairs[Greatest({i \in stated : pairs[i][1] = key})][2]]

\* The scalars, and the first of each element of the open vocabulary.
OpenFacts(info) ==
    [key \in {k \in Scalars : info.scalars[k] # Empty}
             \cup {e \in OpenElements : First(info, e) # Empty} |->
        IF key \in Scalars THEN info.scalars[key] ELSE First(info, key)]

\* What DocumentMeta has no slot for: the further titles, roles and sort names
\* keyed by the name they qualify, and the identifiers by position.
Extra(info) ==
    LET titles == Chosen(info.metadata, {i \in DOMAIN info.metadata :
                      /\ info.metadata[i].element = "title"
                      /\ Refined(info.metadata[i], "title-type") \notin {Empty, "main"}})
        people == Chosen(info.metadata, {i \in DOMAIN info.metadata : IsCredit(info.metadata[i])})
    IN  Recorded([i \in DOMAIN titles |-> <<<<"title", Refined(titles[i], "title-type")>>, titles[i].value>>]
          \o [i \in DOMAIN people |-> <<<<"role", people[i].value>>, Refined(people[i], "role")>>]
          \o [i \in DOMAIN people |-> <<<<"file-as", people[i].value>>, Refined(people[i], "file-as")>>]
          \o [i \in DOMAIN info.identifiers |-> <<<<"identifier", i>>, info.identifiers[i].value>>]
          \o [i \in DOMAIN info.identifiers |-> <<<<"scheme", i>>, info.identifiers[i].scheme>>])

Parsed(raw) == IF raw \in Dates THEN raw ELSE Empty

SourceMeta(info) ==
    [title |-> info.title, authors |-> Authors(info), language |-> info.language,
     keywords |-> info.subjects,
     created |-> Parsed(DeclaredCreation(info)), created_raw |-> DeclaredCreation(info),
     modified |-> Parsed(info.modified), modified_raw |-> info.modified,
     open |-> OpenFacts(info), extra |-> Extra(info)]

\* The enum knows the primary subtag of some languages; the tag is kept as well.
LanguageCode(tag) ==
    IF tag # <<>> /\ tag[1] \in Languages THEN tag[1] ELSE "unspecified"

\* The meta of the body group.
BodyMeta(info) ==
    [language |-> info.language, language_code |-> LanguageCode(info.language),
     keywords |-> info.subjects, open |-> OpenFacts(info), identifiers |-> info.identifiers,
     creator_roles |-> Credits(info)]

-----------------------------------------------------------------------------
(* The document.                                                           *)

ChapterMeta == [spine_index : Nat, collector : {Collector}]
GroupItem ==
    [self_ref : Refs, parent : {BodyRef}, children : Seq(Refs), name : Hrefs, meta : ChapterMeta,
     cues : Nat]
PictureItem ==
    [self_ref : Refs, parent : Refs, children : {<<>>}, uri : Hrefs, cover : BOOLEAN,
     source : {Collector}]
OutlineEntry == [title : STRING, level : Nat, target : Refs \cup {<<>>}]

\* A group with nothing in it; cues is the overlay whose cues it carries.
Root(ref) == [self_ref |-> ref, parent |-> <<>>, children |-> <<>>, name |-> Empty, meta |-> <<>>,
              cues |-> 0]

\* source_hash is 0 and the metas are empty until info fills them.
Skeleton ==
    [name |-> Empty, binary_hash |-> 0, source_meta |-> <<>>,
     body |-> Root(BodyRef), furniture |-> Root(FurnitureRef),
     groups |-> <<>>, pictures |-> <<>>, outline |-> <<>>, media |-> 0]

\* link_child through group_mut: the group a pointer names, the body by default.
LinkChild(d, parent, child) ==
    IF parent = FurnitureRef
    THEN [d EXCEPT !.furniture.children = Append(@, child)]
    ELSE IF parent[1] = "groups" /\ parent[2] < Len(d.groups)
    THEN [d EXCEPT !.groups[parent[2] + 1].children = Append(@, child)]
    ELSE [d EXCEPT !.body.children = Append(@, child)]

\* Mutant: only a resource can be the cover.
AddPicture_CoverIsResource(d, parent, href) ==
    LET self == PictureRef(Len(d.pictures))
        picture == [self_ref |-> self, parent |-> parent, children |-> <<>>, uri |-> href,
                    cover |-> parent = BodyRef /\ href = cover_href, source |-> Collector]
    IN  LinkChild([d EXCEPT !.pictures = Append(@, picture)], parent, self)

\* add_picture.
AddPicture(d, parent, href) ==
    LET self == PictureRef(Len(d.pictures))
        picture == [self_ref |-> self, parent |-> parent, children |-> <<>>, uri |-> href,
                    cover |-> cover_href # Empty /\ href = cover_href, source |-> Collector]
    IN  LinkChild([d EXCEPT !.pictures = Append(@, picture)], parent, self)

\* Mutant: the picture is put under the chapter and listed by the body.
AddChapter_PictureInBody(d, chapter) ==
    LET self == GroupRef(Len(d.groups))
        group == [self_ref |-> self, parent |-> BodyRef, children |-> <<>>, name |-> chapter.href,
                  meta |-> [spine_index |-> chapter.spine_index, collector |-> Collector],
                  cues |-> 0]
        picture == [self_ref |-> PictureRef(Len(d.pictures)), parent |-> self, children |-> <<>>,
                    uri |-> chapter.href, cover |-> FALSE, source |-> Collector]
        linked == LinkChild([d EXCEPT !.groups = Append(@, group)], BodyRef, self)
    IN  IF chapter.image
        THEN LinkChild([linked EXCEPT !.pictures = Append(@, picture)], BodyRef, picture.self_ref)
        ELSE linked

\* A chapter becomes a group under the body, holding the picture when the
\* chapter is itself an image.
AddChapter(d, chapter) ==
    LET self == GroupRef(Len(d.groups))
        group == [self_ref |-> self, parent |-> BodyRef, children |-> <<>>, name |-> chapter.href,
                  meta |-> [spine_index |-> chapter.spine_index, collector |-> Collector],
                  cues |-> 0]
        linked == LinkChild([d EXCEPT !.groups = Append(@, group)], BodyRef, self)
    IN  IF chapter.image THEN AddPicture(linked, self, chapter.href) ELSE linked

\* Mutant: the fragment is part of the key.
ChapterTarget_WithFragment(point) ==
    IF point.fragment = Empty /\ point.path \in DOMAIN chapter_refs
    THEN chapter_refs[point.path] ELSE <<>>

\* chapter_target: the group an entry points at, the fragment dropped.
ChapterTarget(point) ==
    IF point.path \in DOMAIN chapter_refs THEN chapter_refs[point.path] ELSE <<>>

\* The entries below one, depth first; the root of the toc is 0.
Walk(toc) ==
    LET Below[i \in 0..Len(toc)] ==
            LET Children[j \in 0..Len(toc)] ==
                    IF j = 0 THEN <<>>
                    ELSE IF toc[j].parent = i THEN Children[j - 1] \o <<j>> \o Below[j]
                    ELSE Children[j - 1]
            IN  Children[Len(toc)]
    IN  Below[0]

\* project_outline.
ProjectOutline(d) ==
    LET order == Walk(outline)
    IN  [d EXCEPT !.outline = @ \o
            [i \in DOMAIN order |-> [title |-> outline[order[i]].label,
                                    level |-> outline[order[i]].depth,
                                    target |-> ChapterTarget(outline[order[i]])]]]

\* Mutant: the length is that of the last overlay.
ProjectOverlays_LastLength(d) ==
    LET naming(i) == {k \in DOMAIN overlays : overlays[k].chapter_href \in DOMAIN chapter_refs
                                   /\ chapter_refs[overlays[k].chapter_href] = d.groups[i].self_ref}
    IN  [d EXCEPT !.groups = [i \in DOMAIN d.groups |->
                                 IF naming(i) = {} THEN d.groups[i]
                                 ELSE [d.groups[i] EXCEPT !.cues = Greatest(naming(i))]],
                  !.media = IF overlays # <<>> THEN overlays[Len(overlays)].end_time ELSE @]

\* project_overlays: cues go to the chapter an overlay names, the last overlay
\* replacing what an earlier one put there; the longest is the length.
ProjectOverlays(d) ==
    LET naming(i) == {k \in DOMAIN overlays : overlays[k].chapter_href \in DOMAIN chapter_refs
                                   /\ chapter_refs[overlays[k].chapter_href] = d.groups[i].self_ref}
        ends == {overlays[k].end_time : k \in DOMAIN overlays} \cup {0}
    IN  [d EXCEPT !.groups = [i \in DOMAIN d.groups |->
                                 IF naming(i) = {} THEN d.groups[i]
                                 ELSE [d.groups[i] EXCEPT !.cues = Greatest(naming(i))]],
                  !.media = IF Greatest(ends) > 0 THEN Greatest(ends) ELSE @]

-----------------------------------------------------------------------------
(* The sink folds an event and then sends it.                              *)

Init ==
    /\ phase = "hash"
    /\ document = Skeleton
    /\ cover_href = Empty
    /\ source_hash = 0
    /\ chapter_refs = <<>>
    /\ outline = <<>>
    /\ overlays = <<>>
    /\ folded = <<>>
    /\ delivered = 0
    /\ received = <<>>

\* Sink::set_source_hash, before the first event.
SetSourceHash ==
    /\ phase = "hash"
    /\ phase' = "info"
    /\ source_hash' = Hash
    /\ UNCHANGED <<document, cover_href, chapter_refs, outline, overlays, folded, delivered, received>>

\* The event is consumed; the send delivers it, or finds the client gone.
Emit(event, next) ==
    /\ folded' = Append(folded, event)
    /\ \/ phase' = next /\ delivered' = delivered + 1
       \/ phase' = "gone" /\ UNCHANGED delivered
    /\ UNCHANGED received

EmitInfo ==
    /\ phase = "info"
    /\ \E info \in Infos :
           /\ cover_href' = info.cover_href
           /\ document' = [document EXCEPT !.name = info.title, !.binary_hash = source_hash,
                                          !.source_meta = SourceMeta(info),
                                          !.body.meta = BodyMeta(info)]
           /\ Emit([type |-> "info", info |-> info], "navigation")
    /\ UNCHANGED <<source_hash, chapter_refs, outline, overlays>>

EmitNavigation ==
    /\ phase = "navigation"
    /\ \E toc \in Tocs :
           /\ outline' = toc
           /\ Emit([type |-> "navigation", toc |-> toc], "overlays")
    /\ UNCHANGED <<document, cover_href, source_hash, chapter_refs, overlays>>

EmitOverlay ==
    /\ phase \in {"navigation", "overlays"}
    /\ Len(overlays) < MaxOverlays
    /\ \E href \in Hrefs, end \in EndTimes :
           /\ overlays' = Append(overlays, [chapter_href |-> href, end_time |-> end])
           /\ Emit([type |-> "overlay", href |-> href, end |-> end], "overlays")
    /\ UNCHANGED <<document, cover_href, source_hash, chapter_refs, outline>>

Walking == phase \in {"navigation", "overlays", "walk"}

Folded(type) == Chosen(folded, {i \in DOMAIN folded : folded[i].type = type})

EmitChapter ==
    /\ Walking
    /\ Len(document.groups) < MaxChapters
    /\ \E href \in Hrefs, image \in BOOLEAN, primary \in Primaries \cup {Empty} :
           LET chapter == [type |-> "chapter", href |-> href, image |-> image, primary |-> primary,
                           spine_index |-> Len(Folded("chapter"))]
           IN  /\ document' = AddChapter(document, chapter)
               /\ chapter_refs' = [h \in DOMAIN chapter_refs \cup {href} |->
                                      IF h = href THEN GroupRef(Len(document.groups))
                                      ELSE chapter_refs[h]]
               /\ Emit(chapter, "walk")
    /\ UNCHANGED <<cover_href, source_hash, outline, overlays>>

\* Only an image has a place in the document.
EmitResource ==
    /\ Walking
    /\ Len(Folded("resource")) < MaxResources
    /\ \E href \in Hrefs, image \in BOOLEAN :
           /\ document' = IF image THEN AddPicture(document, BodyRef, href) ELSE document
           /\ Emit([type |-> "resource", href |-> href, image |-> image], "walk")
    /\ UNCHANGED <<cover_href, source_hash, chapter_refs, outline, overlays>>

\* take leaves an empty fold behind.
Take ==
    /\ document' = Skeleton
    /\ cover_href' = Empty
    /\ chapter_refs' = <<>>
    /\ outline' = <<>>
    /\ overlays' = <<>>
    /\ UNCHANGED source_hash

\* The trailer: the document goes out first, and the status only after it.
EmitStatus ==
    /\ Walking
    /\ Take
    /\ folded' = Append(folded, [type |-> "status"])
    /\ \/ phase' = "gone" /\ UNCHANGED <<delivered, received>>
       \/ /\ received' = <<ProjectOverlays(ProjectOutline(document))>>
          /\ \/ phase' = "gone" /\ UNCHANGED delivered
             \/ phase' = "done" /\ delivered' = delivered + 1

Next ==
    \/ SetSourceHash
    \/ EmitInfo
    \/ EmitNavigation
    \/ EmitOverlay
    \/ EmitChapter
    \/ EmitResource
    \/ EmitStatus

Spec == Init /\ [][Next]_vars

-----------------------------------------------------------------------------
(* integrity_errors, the check the merge downstream relies on.             *)

Arena(d) == d.groups \o d.pictures

Down(d) ==
    LET listed(item) == {<<item.self_ref, item.children[i]>> : i \in DOMAIN item.children}
    IN  listed(d.body) \cup listed(d.furniture) \cup UNION {listed(Arena(d)[i]) : i \in DOMAIN Arena(d)}

Up(d) == {<<Arena(d)[i].self_ref, Arena(d)[i].parent>> : i \in DOMAIN Arena(d)}

RefsOf(d) == {BodyRef, FurnitureRef} \cup {Arena(d)[i].self_ref : i \in DOMAIN Arena(d)}

\* finish: every link, once every ref is known.
LinkErrors(d) ==
    {<<"child does not resolve", e[2]>> : e \in {x \in Down(d) : x[2] \notin RefsOf(d)}}
    \cup {<<"parent does not resolve", e[1]>> : e \in {x \in Up(d) : x[2] \notin RefsOf(d)}}
    \cup {<<"not listed", e[1]>> : e \in {x \in Up(d) :
              x[2] \in RefsOf(d) /\ <<x[2], x[1]>> \notin Down(d)}}

IntegrityErrors(d) ==
    {<<"misnamed root", r[1]>> : r \in {x \in {<<BodyRef, d.body>>, <<FurnitureRef, d.furniture>>} :
                                        x[2].self_ref # x[1]}}
    \cup {<<"duplicate", Arena(d)[i].self_ref>> : i \in {k \in DOMAIN Arena(d) :
              \/ Arena(d)[k].self_ref \in {BodyRef, FurnitureRef}
              \/ \E j \in 1..k - 1 : Arena(d)[j].self_ref = Arena(d)[k].self_ref}}
    \cup LinkErrors(d)

-----------------------------------------------------------------------------
(* Properties.                                                             *)

Documents == {document} \cup {received[i] : i \in DOMAIN received}

\* The variables keep their types, and what waits for the end of the fold is
\* gone once the trailer was emitted.
TypeOK ==
    /\ phase \in {"hash", "info", "navigation", "overlays", "walk", "done", "gone"}
    /\ cover_href \in Hrefs \cup {Empty}
    /\ source_hash \in {0, Hash}
    /\ DOMAIN chapter_refs \subseteq Hrefs
    /\ \A h \in DOMAIN chapter_refs : chapter_refs[h] \in Refs
    /\ outline \in Tocs \cup {<<>>}
    /\ folded \in Seq(Event)
    /\ \A d \in Documents :
           /\ d.groups \in Seq(GroupItem)
           /\ d.pictures \in Seq(PictureItem)
           /\ d.outline \in Seq(OutlineEntry)
           /\ {d.binary_hash, d.media} \subseteq Nat
    /\ overlays \in Seq([chapter_href : Hrefs, end_time : EndTimes])
    /\ Folded("status") # <<>> => outline = <<>> /\ overlays = <<>> /\ chapter_refs = <<>>
    /\ delivered \in 0..Len(folded)
    /\ Len(received) <= 1

\* At every point of the fold the document is safe to merge: items and
\* pointers keep their types, the code's own check finds nothing, self_refs are
\* dense in each arena, and every item is listed exactly once, by the parent it
\* names.
MergeSafe ==
    /\ TypeOK
    /\ \A d \in Documents :
           /\ IntegrityErrors(d) = {}
           /\ \A i \in DOMAIN d.groups : d.groups[i].self_ref = GroupRef(i - 1)
           /\ \A i \in DOMAIN d.pictures : d.pictures[i].self_ref = PictureRef(i - 1)
           /\ Down(d) = {<<e[2], e[1]>> : e \in Up(d)}
           /\ \A g \in {d.body} \cup {d.groups[i] : i \in DOMAIN d.groups} :
                  \A i, j \in DOMAIN g.children : g.children[i] = g.children[j] => i = j

HasItem(event) == event.type = "chapter" \/ (event.type = "resource" /\ event.image)

\* The document a client gets tells of the events it got before it and of no
\* other: the chapters and the pictures in the order they came, in the body
\* interleaved as they arrived, the cover marked wherever it turned up.
TellsWhatWasDelivered ==
    \A n \in DOMAIN received :
        LET d == received[n]
            chapters == Folded("chapter")
            items == Chosen(folded, {i \in DOMAIN folded : HasItem(folded[i])})
            images == Chosen(items, {i \in DOMAIN items : items[i].image})
            info == folded[1].info
        IN  /\ delivered >= Len(folded) - 1
            /\ [i \in DOMAIN d.groups |-> d.groups[i].name] = [i \in DOMAIN chapters |-> chapters[i].href]
            /\ [i \in DOMAIN d.pictures |-> d.pictures[i].uri] = [i \in DOMAIN images |-> images[i].href]
            /\ \A i \in DOMAIN d.pictures :
                   d.pictures[i].cover <=> d.pictures[i].uri = info.cover_href
            /\ Len(d.body.children) = Len(items)
            /\ \A i \in DOMAIN items :
                   (d.body.children[i][1] = "groups") <=> (items[i].type = "chapter")
            /\ d.binary_hash = Hash

\* Every entry of the table of contents is in the outline, and points at the
\* last chapter with its path, whenever one came, whatever the order of the
\* stream.
OutlineResolves ==
    \A n \in DOMAIN received :
        LET d == received[n]
            chapters == Folded("chapter")
            toc == IF Folded("navigation") = <<>> THEN <<>> ELSE Folded("navigation")[1].toc
            naming(path) == {i \in DOMAIN chapters : chapters[i].href = path}
            expected(point) == [title |-> point.label, level |-> point.depth,
                                target |-> IF naming(point.path) = {} THEN <<>>
                                           ELSE GroupRef(Greatest(naming(point.path)) - 1)]
        IN  \E order \in [DOMAIN toc -> DOMAIN toc] :
                /\ \A i, j \in DOMAIN toc : order[i] = order[j] => i = j
                /\ d.outline = [i \in DOMAIN toc |-> expected(toc[order[i]])]
                \* A parent comes before its children, siblings keep their order.
                /\ \A i, j \in DOMAIN toc :
                       \/ order[i] = toc[order[j]].parent
                       \/ order[i] < order[j] /\ toc[order[i]].parent = toc[order[j]].parent
                       => i < j

\* An entry of the table of contents that names a spine item points at the
\* chapter of that item, whether the item is the chapter itself or one the
\* chapter stands in for.
EntryFindsItsChapter ==
    \A n \in DOMAIN received :
        LET chapters == Folded("chapter")
            toc == Folded("navigation")[1].toc
            order == Walk(toc)
        IN  Folded("navigation") # <<>> =>
              \A i \in DOMAIN order :
                  toc[order[i]].path \in ({chapters[k].href : k \in DOMAIN chapters}
                                        \cup {chapters[k].primary : k \in DOMAIN chapters}) \ {Empty}
                    => received[n].outline[i].target # <<>>

\* The narration of a chapter is with the chapter: the cues of the last overlay
\* that names a chapter are on one group, which has its name, and nothing else
\* carries cues.
CuesReachTheirChapter ==
    \A n \in DOMAIN received :
        LET d == received[n]
            heard == Folded("overlay")
            last(k) == \A j \in DOMAIN heard : heard[j].href = heard[k].href => j <= k
            carrying(k) == {i \in DOMAIN d.groups : d.groups[i].cues = k}
        IN  /\ \A k \in DOMAIN heard :
                   LET told == last(k) /\ \E i \in DOMAIN d.groups : d.groups[i].name = heard[k].href
                   IN  /\ Cardinality(carrying(k)) = IF told THEN 1 ELSE 0
                       /\ \A i \in carrying(k) : d.groups[i].name = heard[k].href
            /\ \A k \in DOMAIN heard : d.media >= heard[k].end
            /\ d.media = 0 \/ \E k \in DOMAIN heard : d.media = heard[k].end

\* No name the book credits is lost: every creator is among the authors as
\* often as the book names it, those marked as authors first, and a stated role
\* is in the credits even where the keyed copy of another role replaced it.
CreditsKept ==
    \A n \in DOMAIN received :
        LET d == received[n]
            info == folded[1].info
            said == info.metadata
            authors == d.source_meta.authors
            creators == {i \in DOMAIN said : said[i].element = "creator"}
        IN  /\ creators # {} =>
                 \A i \in creators :
                     Cardinality({k \in creators : said[k].value = said[i].value})
                         = Cardinality({k \in DOMAIN authors : authors[k] = said[i].value})
            /\ \A i, j \in creators :
                   (Refined(said[i], "role") = "aut" /\ Refined(said[j], "role") # "aut") =>
                     \E k, l \in DOMAIN authors :
                         k < l /\ authors[k] = said[i].value /\ authors[l] = said[j].value
            /\ \A i \in DOMAIN said : IsCredit(said[i]) /\ Refined(said[i], "role") # Empty =>
                   \E k \in DOMAIN d.body.meta.creator_roles :
                       /\ d.body.meta.creator_roles[k].name = said[i].value
                       /\ d.body.meta.creator_roles[k].role = Refined(said[i], "role")
=============================================================================
