-------------------------------- MODULE Nav ---------------------------------
(***************************************************************************)
(* nav.rs: reading a table of contents, from an EPUB 3 navigation document *)
(* (parse_nav) or from an EPUB 2 NCX (parse_ncx).  Each arm of the event   *)
(* loop is an action.  The tree is kept the way flatten() walks it: an     *)
(* entry, then the entries below it, each with its depth.                  *)
(***************************************************************************)
EXTENDS Xml

CONSTANTS
    NavTags,      \* the start tags a navigation document is written with
    NcxTags,      \* the tags an NCX is written with
    Files,        \* the paths href::resolve finds to be inside the archive
    EntryCaps,    \* the values of MAX_ENTRIES that are looked at
    MaxDepth      \* MAX_DEPTH

NoHref == <<"", "">>

ASSUME NavAssumption ==
    /\ EntryCaps \subseteq Nat \ {0}
    /\ MaxDepth \in Nat \ {0}
    /\ "" \notin Files
    /\ \A t \in NavTags \cup NcxTags : t.kind \in {"start", "empty"}

VARIABLES
    fromNcx,      \* whether this is an NCX
    maxEntries,   \* MAX_ENTRIES
    depth,        \* how many elements are open, as the reader counts
    inToc,        \* inside the nav that is the table of contents, or the navMap
    tocDepth,     \* the depth that one was opened at
    stack,        \* list items begun and not finished, outermost first
    roots,        \* the finished entries
    inLabel,      \* inside the element that titles an item
    label,        \* its text so far
    entries       \* how many entries were finished

navState == <<fromNcx, maxEntries, depth, inToc, tocDepth, stack, roots, inLabel, label, entries>>
navVars == <<xmlVars, navState>>

\* An href is a path and a fragment.  One of another site, or outside of the
\* archive, or of the navigation document itself, is no href.
ResolveWithFragment(raw) == IF raw[1] \in Files THEN raw ELSE NoHref

\* A text is the places of its words, and 0 for white space between them.
Collapse(text) == SelectSeq(text, LAMBDA w : w # 0)

Entry(point, n) == [label |-> point.label, href |-> point.href, depth |-> n]
Deeper(points) == [i \in DOMAIN points |-> [points[i] EXCEPT !.depth = @ + 1]]

\* An entry with those below it, the way nest() numbers and flatten() walks them.
Flatten(point) == <<Entry(point, 0)>> \o Deeper(point.below)

Open(at) == [label |-> <<>>, href |-> NoHref, below |-> <<>>, depth |-> at]

NavInit ==
    /\ fromNcx \in BOOLEAN /\ maxEntries \in EntryCaps
    /\ depth = 0 /\ inToc = FALSE /\ tocDepth = 0
    /\ stack = <<>> /\ roots = <<>>
    /\ inLabel = FALSE /\ label = <<>> /\ entries = 0

Top == stack[Len(stack)]
Retitled(point) == [stack EXCEPT ![Len(stack)] = point]

-----------------------------------------------------------------------------
(* parse_nav                                                               *)

\* Mutant: any nav is the table of contents.
IsToc_Any(tag) == TRUE

\* Of several navs, the one whose type says "toc", or says nothing.
IsToc(tag) == Attribute(tag, "type", "") \in {"", "toc"}

StartNav(tag) ==
    /\ tag.name = "nav" /\ ~inToc /\ IsToc(tag)
    /\ inToc' = TRUE /\ tocDepth' = depth'
    /\ UNCHANGED <<stack, roots, inLabel, label, entries>>

StartItem(tag) ==
    /\ tag.name = "li" /\ inToc /\ Len(stack) < MaxDepth
    /\ stack' = Append(stack, Open(depth'))
    /\ UNCHANGED <<inToc, tocDepth, roots, inLabel, label, entries>>

\* Mutant: every anchor of an item titles it anew.
Titles_Always(tag) == tag.name \in {"a", "span"} /\ inToc /\ stack # <<>>

\* Until the item has a label, an anchor or a span begins it.
Titles(tag) == tag.name \in {"a", "span"} /\ inToc /\ stack # <<>> /\ Top.label = <<>>

StartTitle(tag) ==
    /\ Titles(tag)
    /\ stack' = Retitled([Top EXCEPT !.href =
                    ResolveWithFragment(Attribute(tag, "href", NoHref))])
    /\ inLabel' = TRUE /\ label' = <<>>
    /\ UNCHANGED <<inToc, tocDepth, roots, entries>>

NavIgnores(tag) ==
    /\ ~(tag.name = "nav" /\ ~inToc /\ IsToc(tag))
    /\ ~(tag.name = "li" /\ inToc /\ Len(stack) < MaxDepth)
    /\ ~Titles(tag)
    /\ UNCHANGED <<inToc, tocDepth, stack, roots, inLabel, label, entries>>

NavStart ==
    /\ ~fromNcx
    /\ \E tag \in NavTags :
           /\ tag.kind = "start"
           /\ HandUnchecked(tag)
           /\ depth' = depth + 1
           /\ UNCHANGED <<fromNcx, maxEntries>>
           /\ StartNav(tag) \/ StartItem(tag) \/ StartTitle(tag) \/ NavIgnores(tag)

\* Of the empty elements of a navigation document none is looked at.
NavEmpty ==
    /\ ~fromNcx
    /\ \E tag \in NavTags : tag.kind = "empty" /\ HandUnchecked(tag)
    /\ UNCHANGED navState

\* A reference or a CDATA section is an event of its own, which neither reader
\* looks at: what it stands for becomes no part of a title.
PassText(kind) == HandUnchecked(TextOf(kind)) /\ UNCHANGED navState

\* A word, or white space, of the text.
ReadText(kind) ==
    /\ HandUnchecked(TextOf(kind))
    /\ label' = IF inLabel THEN Append(label, IF kind = "word" THEN Len(doc) + 1 ELSE 0)
                ELSE label
    /\ UNCHANGED <<fromNcx, maxEntries, depth, inToc, tocDepth, stack, roots, inLabel, entries>>

\* Mutant: there is no end to the entries.
Full_Never == FALSE

\* As many entries as will ever be kept.
Full == entries >= maxEntries

\* The stack and the roots once the item the depth belongs to is finished.
\* One with no label is dropped, with all that is below it, and so is one too many.
Finish(items) ==
    LET point == Last(items)
        below == Front(items)
        last == Len(below)
    IN  IF items = <<>> \/ point.depth # depth THEN [stack |-> items, roots |-> roots, n |-> 0]
        ELSE IF Full \/ point.label = <<>>
             THEN [stack |-> below, roots |-> roots, n |-> 0]
        ELSE IF below = <<>>
             THEN [stack |-> below, roots |-> roots \o Flatten(point), n |-> 1]
        ELSE [stack |-> [below EXCEPT ![last].below = @ \o Flatten(point)],
              roots |-> roots, n |-> 1]

\* An end tag ends the title, the item and the nav that its depth belongs to.
Close(labelled, endsLabel) ==
    LET finished == Finish(labelled)
    IN  /\ inLabel' = (inLabel /\ ~endsLabel)
        /\ label' = IF endsLabel THEN <<>> ELSE label
        /\ stack' = finished.stack
        /\ roots' = finished.roots
        /\ entries' = entries + finished.n
        /\ inToc' = (inToc /\ depth # tocDepth)
        /\ depth' = IF depth = 0 THEN 0 ELSE depth - 1
        /\ UNCHANGED <<fromNcx, maxEntries, tocDepth>>

NavEnd(tag) ==
    LET endsLabel == inLabel /\ tag.name \in {"a", "span"}
    IN  /\ ~fromNcx
        /\ HandUnchecked(tag)
        /\ Close(IF endsLabel /\ stack # <<>>
                 THEN Retitled([Top EXCEPT !.label = Collapse(label)]) ELSE stack,
                 endsLabel)

\* Mutant: what is below an open item is lost with the bytes that would close it.
Drain_Finished(items, finished) == finished

\* What is left of an item that is still open, with what is left of those in it.
Keep(item, below) ==
    IF item.label = <<>> THEN <<>> ELSE Flatten([item EXCEPT !.below = @ \o below])

\* What parse_nav returns when the document ends, or breaks, here: items that
\* are still open keep what they have.
Drain(items, finished) ==
    LET Kept[n \in 0..Len(items)] ==   \* of the n innermost
            IF n = 0 THEN <<>> ELSE Keep(items[Len(items) - n + 1], Kept[n - 1])
    IN  finished \o Kept[Len(items)]
NavOutline == Drain(stack, roots)

-----------------------------------------------------------------------------
(* parse_ncx                                                               *)

NcxMap(tag) ==
    /\ tag.name = "navMap"
    /\ inToc' = TRUE /\ tocDepth' = depth'
    /\ UNCHANGED <<stack, roots, inLabel, label, entries>>

NcxPoint(tag) ==
    /\ tag.name = "navPoint" /\ inToc /\ Len(stack) < MaxDepth
    /\ stack' = Append(stack, Open(depth'))
    /\ UNCHANGED <<inToc, tocDepth, roots, inLabel, label, entries>>

\* A text outside of every nav point is none of the table's.
NcxTitles(tag) == tag.name = "text" /\ inToc /\ stack # <<>>

NcxText(tag) ==
    /\ NcxTitles(tag)
    /\ inLabel' = TRUE /\ label' = <<>>
    /\ UNCHANGED <<inToc, tocDepth, stack, roots, entries>>

NcxContent(tag) ==
    /\ tag.name = "content" /\ inToc /\ stack # <<>>
    /\ stack' = Retitled([Top EXCEPT !.href =
                    ResolveWithFragment(Attribute(tag, "src", NoHref))])
    /\ UNCHANGED <<inToc, tocDepth, roots, inLabel, label, entries>>

NcxIgnores(tag) ==
    /\ tag.name # "navMap"
    /\ ~(tag.name = "navPoint" /\ inToc /\ Len(stack) < MaxDepth)
    /\ ~NcxTitles(tag)
    /\ ~(tag.name = "content" /\ inToc /\ stack # <<>>)
    /\ UNCHANGED <<inToc, tocDepth, stack, roots, inLabel, label, entries>>

NcxStart ==
    /\ fromNcx
    /\ \E tag \in NcxTags :
           /\ tag.kind = "start"
           /\ HandUnchecked(tag)
           /\ depth' = depth + 1
           /\ UNCHANGED <<fromNcx, maxEntries>>
           /\ NcxMap(tag) \/ NcxPoint(tag) \/ NcxText(tag) \/ NcxContent(tag) \/ NcxIgnores(tag)

\* Of the empty elements only a content is looked at.
NcxEmpty ==
    /\ fromNcx
    /\ \E tag \in NcxTags :
           /\ tag.kind = "empty"
           /\ HandUnchecked(tag)
           /\ UNCHANGED <<fromNcx, maxEntries, depth>>
           /\ \/ NcxContent(tag)
              \/ ~(tag.name = "content" /\ inToc /\ stack # <<>>)
                 /\ UNCHANGED <<inToc, tocDepth, stack, roots, inLabel, label, entries>>

\* Mutant: the last text of a nav point is its title.
NcxUntitled_Last == stack # <<>>

\* The first text of a nav point is its title.
NcxUntitled == stack # <<>> /\ Top.label = <<>>

NcxEnd(tag) ==
    LET endsLabel == inLabel /\ tag.name = "text"
    IN  /\ fromNcx
        /\ HandUnchecked(tag)
        /\ Close(IF endsLabel /\ NcxUntitled
                 THEN Retitled([Top EXCEPT !.label = Collapse(label)]) ELSE stack,
                 endsLabel)

\* What parse_ncx returns: an entry that is still open is lost, and all below it.
NcxOutline == roots

-----------------------------------------------------------------------------
(* What a table of contents says.                                          *)

\* The items of the navs that are tables of contents; of an NCX, of its map.
NavItems ==
    {i \in Places({"start"}, {"li"}) :
        \E k \in Enclosing(i, {"nav"}) : Attribute(doc[k], "type", "") # "landmarks"}
NcxItems == {i \in Places({"start"}, {"navPoint"}) : Enclosing(i, {"navMap"}) # {}}

\* The first element of an item that gives it a title, 0 when none does yet.
TitleOf(i, item, titles) ==
    LET found == {j \in Places({"start"}, titles) :
                     Nearest(j, {item}) = i /\ Closed(j) /\ Words(j) # <<>>}
    IN  IF found = {} THEN 0 ELSE Smallest(found)
NavTitle(i) == TitleOf(i, "li", {"a", "span"})
NcxTitle(i) == TitleOf(i, "navPoint", {"text"})

NavHref(i) == ResolveWithFragment(Attribute(doc[NavTitle(i)], "href", NoHref))
NcxHref(i) ==
    LET contents == {j \in Places({"start", "empty"}, {"content"}) : Nearest(j, {"navPoint"}) = i}
    IN  IF contents = {} THEN NoHref
        ELSE ResolveWithFragment(Attribute(doc[Greatest(contents)], "src", NoHref))

\* The entries of a set of items, in the order and at the depth they are written.
\* Past the cap, what ends is lost, and what is below it.
Written(items, Title(_), Href(_)) ==
    LET Around(i) == Range(doc[i].within) \cap items
        titled == {i \in items : Title(i) # 0}
        Ends(i) == Smallest({j \in DOMAIN doc : j > i /\ i \notin Range(doc[j].within)}
                             \cup {Len(doc) + 1})
        tooMany == {i \in titled : Closed(i) /\
                       Cardinality({j \in titled : Ends(j) < Ends(i)}) >= maxEntries}
        read == titled \ tooMany
        kept == Sorted({i \in read : Around(i) \subseteq read})
    IN  [n \in DOMAIN kept |->
            [label |-> Words(Title(kept[n])), href |-> Href(kept[n]),
             depth |-> Cardinality(Around(kept[n]))]]

\* The end tag that closed an element.
EndOf(j) ==
    doc[Smallest({k \in DOMAIN doc :
            doc[k].kind = "end" /\ doc[k].within # <<>> /\ Last(doc[k].within) = j})]

\* An element that titles is ended as one, and not by a stray end tag.
EndedByTheirOwn(titles) ==
    \A j \in Places({"start"}, titles) : Closed(j) => EndOf(j).name \in titles

\* No anchor or span stands within another.
PlainTitles == \A j \in Places({"start"}, {"a", "span"}) : Enclosing(j, {"a", "span"}) = {}

\* No item is deeper than those that are read.
WithinDepth(items) ==
    \A i \in items : Cardinality(Range(doc[i].within) \cap items) < MaxDepth

NavOutlineIsWritten ==
    PlainTitles /\ EndedByTheirOwn({"a", "span"}) /\ WithinDepth(NavItems)
        => NavOutline = Written(NavItems, NavTitle, NavHref)
NcxOutlineIsWritten ==
    LET finished == {i \in NcxItems : \A j \in Enclosing(i, {"navPoint"}) \cup {i} : Closed(j)}
    IN  EndedByTheirOwn({"text"}) /\ WithinDepth(NcxItems)
            => NcxOutline = Written(finished, NcxTitle, NcxHref)

(***************************************************************************)
(* Wherever a navigation document ends or breaks, its outline is the       *)
(* titled items of the tables of contents, those not closed yet included,  *)
(* each in its place and at its depth, with its title and the href its     *)
(* title has, and nothing of the other navs (nav.rs parse_nav).  The       *)
(* outline of an NCX is the titled nav points of its map that stand in no  *)
(* open one, and never a text of the head (nav.rs parse_ncx).  An element  *)
(* ends at the end tag of its depth, whatever that is called.  A title is  *)
(* its literal text: a reference or a CDATA section in it is dropped,      *)
(* though nav.rs calls the label the link text (README, section 6).        *)
(***************************************************************************)
OutlineIsWritten == IF fromNcx THEN NcxOutlineIsWritten ELSE NavOutlineIsWritten

(***************************************************************************)
(* However long and deep a document is, the outline holds at most          *)
(* MAX_ENTRIES entries, and those still open when it breaks, none deeper   *)
(* than MAX_DEPTH (nav.rs MAX_ENTRIES and MAX_DEPTH).                      *)
(***************************************************************************)
OutlineBounded ==
    /\ IF fromNcx THEN Len(NcxOutline) <= maxEntries
                  ELSE Len(NavOutline) <= maxEntries + Len(stack)
    /\ \A i \in DOMAIN NavOutline : NavOutline[i].depth < MaxDepth

(***************************************************************************)
(* "The first titling element wins" (nav.rs parse_nav): an item whose      *)
(* title holds a span is still the link its anchor makes it.               *)
(***************************************************************************)
FirstTitleWins ==
    ~fromNcx /\ WithinDepth(NavItems) =>
        LET written == Written(NavItems, NavTitle, NavHref)
        IN  {p.href : p \in Range(written)} \subseteq {p.href : p \in Range(NavOutline)}
=============================================================================
