-------------------------------- MODULE Xml ---------------------------------
(***************************************************************************)
(* What quick-xml hands the readers: one event after the other, of a       *)
(* document that may end, or break, after any of them.  The document read  *)
(* so far is kept, every event with the elements it stands in, so that     *)
(* what a reader made of it can be held against what it says.              *)
(*                                                                         *)
(* A word of text is its place in the document: no two are alike.          *)
(***************************************************************************)
EXTENDS Naturals, Sequences, SequencesExt, FiniteSets

VARIABLES
    doc,      \* the events read so far
    opened    \* the places of the start tags not closed yet, outermost first

xmlVars == <<doc, opened>>

NoAttrs == [a \in {} |-> ""]
Tag(kind, name, attrs) == [kind |-> kind, name |-> name, attrs |-> attrs]
TextOf(kind) == Tag(kind, "", NoAttrs)

\* The value of an attribute, or the value of one that is not there.
Attribute(tag, name, absent) ==
    IF name \in DOMAIN tag.attrs THEN tag.attrs[name] ELSE absent

XmlInit == doc = <<>> /\ opened = <<>>

\* The document read so far, with an event more.
Recorded(tag) ==
    doc' = Append(doc, [kind |-> tag.kind, name |-> tag.name, attrs |-> tag.attrs,
                        within |-> opened])

\* The reader is handed an event; an end tag is that of the element it closes.
Hand(tag) ==
    /\ Recorded(tag)
    /\ opened' =
         CASE tag.kind = "start" -> Append(opened, Len(doc) + 1)
           [] tag.kind = "end" /\ opened # <<>> /\ tag.name = doc[Last(opened)].name
                -> Front(opened)
           [] OTHER -> opened

\* A reader that does not check the names of end tags: whatever its name, one
\* closes the innermost element, and none when no element is open.
HandUnchecked(tag) ==
    /\ Recorded(tag)
    /\ opened' =
         CASE tag.kind = "start" -> Append(opened, Len(doc) + 1)
           [] tag.kind = "end" /\ opened # <<>> -> Front(opened)
           [] OTHER -> opened

\* The end tag of the innermost open element.
EndTag == Tag("end", doc[Last(opened)].name, NoAttrs)

-----------------------------------------------------------------------------
(* What a document says, for the properties of the readers.                *)

Places(kinds, names) == {i \in DOMAIN doc : doc[i].kind \in kinds /\ doc[i].name \in names}
Enclosing(i, names) == {j \in Range(doc[i].within) : doc[j].name \in names}
Closed(i) == i \notin Range(opened)

Greatest(S) == CHOOSE x \in S : \A y \in S : y <= x
Smallest(S) == CHOOSE x \in S : \A y \in S : x <= y

\* The innermost element of the names around a place, 0 when there is none.
Nearest(i, names) ==
    IF Enclosing(i, names) = {} THEN 0 ELSE Greatest(Enclosing(i, names))

\* The first n places of a document that are some of it, in their order.
InOrder(S, n) ==
    LET Chosen[m \in 0..n] == IF m = 0 THEN <<>>
                              ELSE IF m \in S THEN Append(Chosen[m - 1], m) ELSE Chosen[m - 1]
    IN  Chosen[n]
Sorted(S) == InOrder(S, Len(doc))

\* The words of an element, in order.
Words(i) == Sorted({j \in Places({"word"}, {""}) : i \in Range(doc[j].within)})
=============================================================================
