-------------------------------- MODULE Opf ---------------------------------
(***************************************************************************)
(* opf.rs: reading the package document (PackageParser, parse_package).    *)
(* A text is the sequence of its parts: words and the references that      *)
(* stand for a character, by their place, the word "main", white space,    *)
(* and the references copied as they are written, by their name.           *)
(***************************************************************************)
EXTENDS Xml

CONSTANTS PackageTags, References   \* the tags it is written with, and the entities

ASSUME OpfAssumption ==
    /\ \A t \in PackageTags :
           /\ t.kind \in {"start", "empty", "doctype"}
           /\ t.kind # "doctype" => t.name # ""
           /\ "entity" \in DOMAIN t.attrs => t.kind = "doctype" /\ t.attrs["entity"] \in BOOLEAN
    /\ References \cap {"start", "empty", "end", "doctype", "word", "main", "space"} = {}

DublinCore ==
    {"title", "creator", "contributor", "language", "identifier", "publisher", "description",
     "date", "subject", "rights", "source", "type", "format", "coverage", "relation"}
BuiltIn == {"#8212", "amp", "lt", "gt", "quot", "apos"}
Single ==
    {"publisher", "description", "date", "dcterms:modified", "rights", "source", "type", "format",
     "coverage", "relation"}
Sections == {"metadata", "manifest", "spine"}

VARIABLES
    error,          \* why it is refused, "" while it is not
    sawPackage,     \* the root element was seen
    package,        \* what was recognized so far
    section,        \* the section the parser is in, or "outside"
    elements,       \* how many elements are open
    sectionDepth,   \* the one that opened the section
    collecting,     \* the metadata element whose text is collected: none, or one
    text,           \* its text
    refinements     \* what refines which element, held until the end

opfState ==
    <<error, sawPackage, package, section, elements, sectionDepth, collecting, text, refinements>>
opfVars == <<xmlVars, opfState>>

ManifestItem(tag) ==
    [id |-> Attribute(tag, "id", ""), href |-> Attribute(tag, "href", ""),
     media_type |-> Attribute(tag, "media-type", ""),
     properties |-> Attribute(tag, "properties", {}),
     media_overlay |-> Attribute(tag, "media-overlay", ""),
     fallback |-> Attribute(tag, "fallback", "")]

\* Mutant: an item that says nothing about it is not linear.
SpineItem_OnlyYes(tag) ==
    [idref |-> Attribute(tag, "idref", ""), linear |-> Attribute(tag, "linear", "") = "yes"]

SpineItem(tag) ==
    [idref |-> Attribute(tag, "idref", ""), linear |-> Attribute(tag, "linear", "") # "no"]

Refinement(property, value, scheme) == [property |-> property, value |-> value, scheme |-> scheme]

NoPackage ==
    [version |-> "", unique_identifier_id |-> "", manifest |-> <<>>, spine |-> <<>>,
     toc_idref |-> "", cover_id |-> "", entries |-> <<>>]

OpfInit ==
    /\ error = "" /\ sawPackage = FALSE /\ package = NoPackage
    /\ section = "outside" /\ elements = 0 /\ sectionDepth = 0
    /\ collecting = <<>> /\ text = <<>> /\ refinements = <<>>

-----------------------------------------------------------------------------
(* Metadata                                                                *)

\* Mutant: an entity that is declared elsewhere is looked up.
PushRef_Expanded(name, at) == Append(text, <<"word", at>>)

\* A character reference or a built-in is its character; any other reference
\* is copied as it is written.
PushRef(name, at) ==
    Append(text, IF name \in BuiltIn THEN <<"word", at>> ELSE <<"verbatim", name>>)

\* The text between the white space around it.
Trimmed(parts) ==
    LET words == {i \in DOMAIN parts : parts[i][1] # "space"}
    IN  IF words = {} THEN <<>> ELSE SubSeq(parts, Smallest(words), Greatest(words))

\* What EPUB 2 says in attributes is refined like anything else.
Epub2Refinements(tag) ==
    LET Said(a) == IF Attribute(tag, a, "") = "" THEN <<>>
                   ELSE <<Refinement(a, <<<<"attribute", tag.attrs[a]>>>>, "")>>
    IN  Said("role") \o Said("file-as")

MetaEntry(tag, element, refined) ==
    [element |-> element, value |-> <<>>, id |-> Attribute(tag, "id", ""),
     scheme |-> Attribute(tag, "scheme", ""), refinements |-> refined]

\* The entry a metadata tag begins, none when it is not one of those kept.
Pending(tag) ==
    LET property == Attribute(tag, "property", "")
        meta == tag.name = "meta" /\ Attribute(tag, "name", "") # "cover" /\ property # ""
    IN  CASE meta ->
               <<[local |-> tag.name, entry |-> MetaEntry(tag, property, <<>>),
                  refines |-> Attribute(tag, "refines", "")]>>
          [] tag.name \in DublinCore ->
               <<[local |-> tag.name, refines |-> "",
                  entry |-> MetaEntry(tag, tag.name, Epub2Refinements(tag))]>>
          [] OTHER -> <<>>

\* The first cover that EPUB 2 names.
Cover(tag) ==
    IF /\ tag.name = "meta" /\ Attribute(tag, "name", "") = "cover"
       /\ package.cover_id = ""
    THEN Attribute(tag, "content", "") ELSE package.cover_id

Stored(pending, value) == [pending.entry EXCEPT !.value = value]

\* Mutant: a refinement that comes before what it refines is an entry.
Refines_WhatIsThere(pending, entries) == \E i \in DOMAIN entries : entries[i].id = pending.refines

\* Whether a finished element refines another, wherever that is.
Refines(pending, entries) == pending.refines # ""

\* The refinements once an element is finished.
Held(pending, value) ==
    IF ~Refines(pending, package.entries) THEN refinements
    ELSE Append(refinements, <<pending.refines, Refinement(pending.entry.element, value,
                                                           pending.entry.scheme)>>)

Entries(pending, value) ==
    IF Refines(pending, package.entries) THEN package.entries
    ELSE Append(package.entries, Stored(pending, value))

OpenMetadata(tag) ==
    LET pending == Pending(tag)
        covered == [package EXCEPT !.cover_id = Cover(tag)]
    IN  IF pending = <<>>
        THEN package' = covered /\ UNCHANGED <<collecting, text, refinements>>
        ELSE /\ text' = <<>>
             /\ IF tag.kind = "empty"
                THEN /\ package' = [package EXCEPT !.entries = Entries(pending[1], <<>>)]
                     /\ refinements' = Held(pending[1], <<>>)
                     /\ UNCHANGED collecting
                ELSE collecting' = pending /\ UNCHANGED <<package, refinements>>

\* The text of an element that is collected; that of any other is not read.
ReadPart(kind, part) ==
    /\ error = ""
    /\ Hand(TextOf(kind))
    /\ text' = IF collecting = <<>> THEN text ELSE part
    /\ UNCHANGED <<error, sawPackage, package, section, elements, sectionDepth, collecting,
                   refinements>>
PackageText == \E kind \in {"word", "main", "space"} :
                   ReadPart(kind, Append(text, <<kind, IF kind = "word" THEN Len(doc) + 1 ELSE 0>>))
PackageRef == \E name \in References : ReadPart(name, PushRef(name, Len(doc) + 1))

-----------------------------------------------------------------------------
(* Sections                                                                *)

\* Mutant: a section is one wherever it stands.
Enters_Anywhere(tag) == tag.kind = "start" /\ tag.name \in Sections

\* A section begins outside of every other.
Enters(tag) == section = "outside" /\ tag.kind = "start" /\ tag.name \in Sections

Recognize(tag) ==
    CASE Enters(tag) ->
           package' = IF tag.name = "spine"
                      THEN [package EXCEPT !.toc_idref = Attribute(tag, "toc", "")] ELSE package
      [] section = "manifest" /\ tag.name = "item" ->
           package' = [package EXCEPT !.manifest = Append(@, ManifestItem(tag))]
      [] section = "spine" /\ tag.name = "itemref" ->
           package' = [package EXCEPT !.spine = Append(@, SpineItem(tag))]
      [] OTHER -> UNCHANGED package

OpenRoot(tag) ==
    /\ ~sawPackage
    /\ IF tag.name = "package"
       THEN /\ sawPackage' = TRUE
            /\ package' = [package EXCEPT !.version = Attribute(tag, "version", ""),
                               !.unique_identifier_id = Attribute(tag, "unique-identifier", "")]
            /\ UNCHANGED error
       ELSE error' = "NotAPackage" /\ UNCHANGED <<sawPackage, package>>
    /\ UNCHANGED <<section, sectionDepth, collecting, text, refinements>>

OpenElement(tag) ==
    /\ sawPackage
    /\ section' = IF Enters(tag) THEN tag.name ELSE section
    /\ sectionDepth' = IF Enters(tag) THEN elements' ELSE sectionDepth
    /\ IF section = "metadata" /\ ~Enters(tag) THEN OpenMetadata(tag)
       ELSE Recognize(tag) /\ UNCHANGED <<collecting, text, refinements>>
    /\ UNCHANGED <<error, sawPackage>>

PackageOpen ==
    /\ error = ""
    /\ \E tag \in PackageTags :
           /\ tag.kind \in {"start", "empty"}
           /\ Hand(tag)
           /\ elements' = IF tag.kind = "empty" THEN elements ELSE elements + 1
           /\ OpenRoot(tag) \/ OpenElement(tag)

PackageDoctype ==
    /\ error = ""
    /\ \E tag \in PackageTags :
           /\ tag.kind = "doctype"
           /\ Hand(tag)
           /\ error' = IF Attribute(tag, "entity", FALSE) THEN "EntityDeclaration" ELSE ""
    /\ UNCHANGED <<sawPackage, package, section, elements, sectionDepth, collecting, text,
                   refinements>>

PackageClose(tag) ==
    LET closes == collecting # <<>> /\ collecting[1].local = tag.name
        leaves == section # "outside" /\ elements = sectionDepth
    IN  /\ error = ""
        /\ Hand(tag)
        /\ IF closes
           THEN /\ package' = [package EXCEPT !.entries = Entries(collecting[1], Trimmed(text))]
                /\ refinements' = Held(collecting[1], Trimmed(text))
                /\ collecting' = <<>> /\ text' = <<>>
           ELSE UNCHANGED <<package, refinements, collecting, text>>
        /\ section' = IF leaves THEN "outside" ELSE section
        /\ elements' = IF elements = 0 THEN 0 ELSE elements - 1
        /\ UNCHANGED <<error, sawPackage, sectionDepth>>

-----------------------------------------------------------------------------
(* The end of the document                                                 *)

\* A refinement at the first entry with the id it names; one that names none
\* is dropped.
Attach(entries, held) ==
    LET named == {i \in DOMAIN entries : entries[i].id = held[1]}
    IN  IF named = {} THEN entries
        ELSE [entries EXCEPT ![Smallest(named)].refinements = Append(@, held[2])]

\* The entries with all that refines them.
FinishMetadata ==
    LET Attached[n \in 0..Len(refinements)] ==
            IF n = 0 THEN package.entries ELSE Attach(Attached[n - 1], refinements[n])
    IN  Attached[Len(refinements)]

\* The value of the first refinement of a property.
Refined(entry, property) ==
    LET said == {i \in DOMAIN entry.refinements : entry.refinements[i].property = property}
    IN  IF said = {} THEN <<>> ELSE entry.refinements[Smallest(said)].value

EntriesOf(entries, element) ==
    LET Named[n \in 0..Len(entries)] ==
            IF n = 0 THEN <<>>
            ELSE IF entries[n].element = element THEN Append(Named[n - 1], entries[n])
            ELSE Named[n - 1]
    IN  Named[Len(entries)]
Values(named) == [i \in DOMAIN named |-> named[i].value]
First(named) == IF named = <<>> THEN <<>> ELSE named[1].value
Contributor(entry) ==
    [name |-> entry.value, role |-> Refined(entry, "role"), file_as |-> Refined(entry, "file-as")]
Credited(named) == [i \in DOMAIN named |-> Contributor(named[i])]
Title(entry) == [value |-> entry.value, title_type |-> Refined(entry, "title-type")]
Identifier(entry) == [value |-> entry.value, id |-> entry.id, scheme |-> entry.scheme]

\* Mutant: the first title is the book's.
MainTitle_First(titles) == IF titles = <<>> THEN <<>> ELSE titles[1].value

\* The title marked as the main one, or the first.
MainTitle(titles) ==
    LET main == {i \in DOMAIN titles : Refined(titles[i], "title-type") = <<<<"main", 0>>>>}
    IN  IF main # {} THEN titles[Smallest(main)].value ELSE First(titles)

\* The typed fields, read out of the entries.
Derive(entries) ==
    LET Of(element) == EntriesOf(entries, element)
    IN  [title |-> MainTitle(Of("title")),
         titles |-> [i \in DOMAIN Of("title") |-> Title(Of("title")[i])],
         creators |-> Credited(Of("creator")), contributors |-> Credited(Of("contributor")),
         language |-> First(Of("language")), languages |-> Values(Of("language")),
         subjects |-> Values(Of("subject")),
         identifiers |-> [i \in DOMAIN Of("identifier") |-> Identifier(Of("identifier")[i])],
         first |-> [element \in Single |-> First(Of(element))]]

\* Mutant: a book without reading order is a book.
Verdict_NoSpine == IF error = "" /\ ~sawPackage THEN "NotAPackage" ELSE error

\* What parse_package returns when the document ends here: why it is refused, or "".
Verdict ==
    CASE error # ""                -> error
      [] ~sawPackage               -> "NotAPackage"
      [] package.spine = <<>>      -> "EmptySpine"
      [] OTHER                     -> ""

-----------------------------------------------------------------------------
(* What a package document says.                                           *)

Tags == {"start", "empty"}

\* The section a place is in is the outermost there.
SectionOf(i) ==
    LET around == {j \in Enclosing(i, Sections) : doc[j].kind = "start"}
    IN  IF around = {} THEN "" ELSE doc[Smallest(around)].name
InSection(names, where) == {i \in Places(Tags, names) : SectionOf(i) = where}

\* The metadata elements that are kept, and those of them that refine others.
Properties ==
    {i \in InSection({"meta"}, "metadata") :
        /\ Attribute(doc[i], "property", "") # ""
        /\ Attribute(doc[i], "name", "") # "cover"}
Kept == InSection(DublinCore, "metadata") \cup Properties
Refining == {i \in Properties : Attribute(doc[i], "refines", "") # ""}

\* No metadata element stands within another.
PlainMetadata ==
    LET all == InSection(DublinCore \cup {"meta"}, "metadata")
    IN  \A i \in all : Range(doc[i].within) \cap all = {}

\* A part of a text.
Part(j) ==
    LET kind == doc[j].kind
    IN  CASE kind \in {"main", "space"}       -> <<kind, 0>>
          [] kind \in {"word"} \cup BuiltIn   -> <<"word", j>>
          [] OTHER                           -> <<"verbatim", kind>>

\* The text within an element, without the white space around it.
Parts(i) ==
    LET parts == Sorted({j \in DOMAIN doc : i \in Range(doc[j].within) /\ doc[j].name = ""})
    IN  [n \in DOMAIN parts |-> Part(parts[n])]
Content(i) == Trimmed(Parts(i))

\* What an element says that refines another.
RefinementAt(j) ==
    [property |-> Attribute(doc[j], "property", ""), value |-> Content(j),
     scheme |-> Attribute(doc[j], "scheme", "")]

\* The entries of the document, and their names.
Said == {i \in Kept \ Refining : Closed(i)}
ElementOf(i) == IF doc[i].name = "meta" THEN doc[i].attrs["property"] ELSE doc[i].name

\* What refines an entry: those that name its id, when no earlier entry has it.
RefiningOf(i) ==
    LET id == Attribute(doc[i], "id", "")
        named == Sorted({j \in Refining : Closed(j) /\ Attribute(doc[j], "refines", "") = id})
    IN  IF \E j \in Said : j < i /\ Attribute(doc[j], "id", "") = id THEN <<>>
        ELSE [n \in DOMAIN named |-> RefinementAt(named[n])]

(***************************************************************************)
(* Every metadata element read to its end is an entry, in order, with the  *)
(* text it was written with, entities of its own not looked up, and        *)
(* whatever refines it, whether that stands before or after it (opf.rs     *)
(* store, finish_metadata, Text::push_ref).                                *)
(***************************************************************************)
MetadataIsWritten ==
    error = "" /\ PlainMetadata =>
        LET place == Sorted(Said)
        IN  FinishMetadata =
              [n \in DOMAIN place |->
                 LET tag == doc[place[n]]
                 IN  [element |-> ElementOf(place[n]),
                      value |-> Content(place[n]), id |-> Attribute(tag, "id", ""),
                      scheme |-> Attribute(tag, "scheme", ""),
                      refinements |-> (IF tag.name = "meta" THEN <<>> ELSE Epub2Refinements(tag))
                                        \o RefiningOf(place[n])]]

(***************************************************************************)
(* The title of the book is a title a refinement marks as the main one,    *)
(* wherever the mark stands, if there is one, and a title at all if there  *)
(* is any (opf.rs derive).                                                 *)
(***************************************************************************)
MainTitleIsMarked ==
    error = "" /\ PlainMetadata =>
        LET titles == {i \in Said : ElementOf(i) = "title"}
            Marks(i) == {n \in DOMAIN RefiningOf(i) : RefiningOf(i)[n].property = "title-type"}
            main == {i \in titles : /\ Marks(i) # {}
                                    /\ RefiningOf(i)[Smallest(Marks(i))].value = <<<<"main", 0>>>>}
        IN  Derive(FinishMetadata).title = IF titles = {} THEN <<>>
                             ELSE Content(Smallest(IF main # {} THEN main ELSE titles))

(***************************************************************************)
(* The manifest and the spine are the items and the itemrefs of their      *)
(* sections, in order and none of any other, the itemrefs linear unless    *)
(* they say no (opf.rs open, enter, close).                                *)
(***************************************************************************)
SectionsAreWritten ==
    error = "" =>
        LET items == Sorted(InSection({"item"}, "manifest"))
            refs == Sorted(InSection({"itemref"}, "spine"))
        IN  /\ [n \in DOMAIN package.manifest |-> package.manifest[n].id]
                 = [n \in DOMAIN items |-> Attribute(doc[items[n]], "id", "")]
            /\ package.spine = [n \in DOMAIN refs |->
                    [idref |-> Attribute(doc[refs[n]], "idref", ""),
                     linear |-> Attribute(doc[refs[n]], "linear", "yes") # "no"]]

(***************************************************************************)
(* A document is accepted just when its root is a package, its spine names *)
(* an item and its document type declares no entity (opf.rs parse_package, *)
(* XmlError).                                                              *)
(***************************************************************************)
AcceptedIsSound ==
    LET tags == {i \in DOMAIN doc : doc[i].kind \in Tags}
    IN  Verdict = "" <=> /\ tags # {} /\ doc[Smallest(tags)].name = "package"
                         /\ InSection({"itemref"}, "spine") # {}
                         /\ \A i \in DOMAIN doc :
                                doc[i].kind = "doctype" => ~Attribute(doc[i], "entity", FALSE)
=============================================================================
