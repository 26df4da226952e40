----------------------------- MODULE MCReaders ------------------------------
(***************************************************************************)
(* The readers of the book's XML side by side.  Which of them a behaviour  *)
(* looks at, and how long a document it is given, is chosen at its start.  *)
(* The documents are written tag by tag, every one of a shape that the     *)
(* format has, or nearly has, up to that length.                           *)
(***************************************************************************)
EXTENDS Nav, Smil, Container, Opf

CONSTANTS
    Lengths,    \* how long the documents of each reader are
    Shorter     \* by how much a table of contents with an odd tag is shorter,
                \* and a package document with a document type

VARIABLE reader

Init ==
    /\ reader \in DOMAIN Lengths
    /\ XmlInit /\ NavInit /\ SmilInit /\ ContainerInit /\ OpfInit
    /\ fromNcx <=> reader = "ncx"
    /\ reader # "encryption" => metaInf = "container"
    /\ reader = "encryption" => metaInf = "encryption"
    /\ reader \notin {"nav", "ncx"} => \A n \in EntryCaps : n <= maxEntries

-----------------------------------------------------------------------------
(* Where the tags of a document stand.                                     *)

Parent == IF opened = <<>> THEN "" ELSE doc[Last(opened)].name
Previous == IF doc = <<>> THEN "" ELSE doc[Len(doc)].kind

\* Which elements may stand in which, "" being the document itself.
Parents ==
    [nav |-> {""}, li |-> {"nav", "li"}, a |-> {"li"}, span |-> {"li", "a"},
     navMap |-> {""}, navPoint |-> {"navMap", "navPoint"}, text |-> {"", "navMap", "navPoint"},
     content |-> {"navPoint"},
     package |-> {""}, html |-> {""}, metadata |-> {"package"}, manifest |-> {"package"},
     spine |-> {"package", "manifest"}, title |-> {"metadata"}, creator |-> {"metadata"},
     meta |-> {"metadata"}, item |-> {"manifest", "spine"}, itemref |-> {"manifest", "spine"}]
AtMost == [nav |-> 2, navMap |-> 1]

InPlace ==
    LET name == doc'[Len(doc')].name
    IN  /\ Parent \in Parents[name]
        /\ name \in DOMAIN AtMost => Cardinality(Places({"start"}, {name})) < AtMost[name]

\* What is odd in a table of contents: an end tag that is not that of the
\* element it closes, an empty element that only makes sense with content, and
\* text that is no plain text.
Odd ==
    {i \in DOMAIN doc :
        \/ doc[i].kind \in {"ref", "cdata"}
        \/ doc[i].kind = "empty" /\ doc[i].name # "content"
        \/ doc[i].kind = "end"
             /\ (doc[i].within = <<>> \/ doc[Last(doc[i].within)].name # doc[i].name)}

\* A stray end tag may be called like what ends a title, or like nothing.
StrayNames == {"span", "text", "br"}

\* There is one of these in a document at most, and it is a shorter one then.
OddNext ==
    /\ Len(doc) < Lengths[reader] - Shorter
    /\ Odd = {}
    /\ \/ NavEmpty /\ InPlace
       \/ \E name \in StrayNames :
             /\ name # Parent
             /\ NavEnd(Tag("end", name, NoAttrs)) \/ NcxEnd(Tag("end", name, NoAttrs))
       \/ Parent \in {"a", "span", "text"} /\ \E kind \in {"ref", "cdata"} : PassText(kind)

PlainNext ==
    \/ NavStart /\ InPlace
    \/ NcxStart /\ InPlace
    \/ NcxEmpty /\ InPlace
    \/ opened # <<>> /\ NavEnd(EndTag)
    \/ opened # <<>> /\ NcxEnd(EndTag)
    \/ Parent \in {"a", "span", "text"} /\ Previous # "word" /\ ReadText("word")
    \/ Parent \in {"a", "span", "text"} /\ Previous = "start"
         /\ Places({"space"}, {""}) = {} /\ ReadText("space")

NavNext ==
    \/ (Len(doc) < Lengths[reader] - Shorter \/ Odd = {}) /\ PlainNext
    \/ OddNext

SmilNext ==
    \/ SmilStart
    \/ opened # <<>> /\ SmilEnd(EndTag)

ContainerNext ==
    \/ doc = <<>> /\ ReadDoctype
    \/ StartRootfile
    \/ StartRecord
    \/ EmptyRecord
    \/ opened # <<>> /\ EndContainer(EndTag)
    \/ opened # <<>> /\ EndRecord(EndTag)

OpfNext ==
    /\ Places({"doctype"}, {""}) # {} => Len(doc) < Lengths[reader] - Shorter
    /\ \/ doc = <<>> /\ PackageDoctype
       \/ PackageOpen /\ InPlace
       \/ opened # <<>> /\ PackageClose(EndTag)
       \/ Parent \in {"title", "meta"} /\ Previous \notin {"word", "main"} /\ PackageText
       \/ Parent = "title" /\ Previous = "start" /\ PackageRef

Next ==
    /\ Len(doc) < Lengths[reader]
    /\ UNCHANGED reader
    /\ \/ reader \in {"nav", "ncx"} /\ NavNext
            /\ UNCHANGED <<smilState, containerState, opfState>>
       \/ reader = "smil" /\ SmilNext
            /\ UNCHANGED <<navState, containerState, opfState>>
       \/ reader \in {"container", "encryption"} /\ ContainerNext
            /\ UNCHANGED <<navState, smilState, opfState>>
       \/ reader = "package" /\ OpfNext
            /\ UNCHANGED <<navState, smilState, containerState>>

Spec == Init /\ [][Next]_<<reader, xmlVars, navState, smilState, containerState, opfState>>

-----------------------------------------------------------------------------
(* The properties of the readers, by what they are about.                  *)

(***************************************************************************)
(* No document, however it is written, makes an outline or an overlay      *)
(* longer than its cap, but for the items of an outline that are still     *)
(* open where the document breaks, which the drain adds to it (nav.rs      *)
(* MAX_ENTRIES and MAX_DEPTH, smil.rs MAX_CUES).                           *)
(***************************************************************************)
CapsHold == OutlineBounded /\ CuesBounded

(***************************************************************************)
(* The package document is the rootfile that the container means, and no   *)
(* encrypted resource goes unnoticed (opf.rs parse_container and           *)
(* parse_encryption).                                                      *)
(***************************************************************************)
MetaInfIsRead ==
    /\ reader = "container" => RootfileIsChosen
    /\ reader = "encryption" => EveryRecordIsReported

(***************************************************************************)
(* An overlay's cues are the pars that narrate something (smil.rs          *)
(* parse_overlay and push).                                                *)
(***************************************************************************)
OverlayIsRead == reader = "smil" => CuesAreWritten

(***************************************************************************)
(* The metadata are entries with all that refines them, in whatever order  *)
(* they stand; the title is the one marked as the main one, and the first  *)
(* only when none is marked, though types.proto promises the first in any  *)
(* case (README, section 6); the reading order is the spine's and the      *)
(* files are the manifest's; and only a package with a reading order is    *)
(* accepted (opf.rs PackageParser, finish_metadata, derive,                *)
(* parse_package).                                                         *)
(***************************************************************************)
PackageIsRead ==
    reader = "package" =>
        MetadataIsWritten /\ MainTitleIsMarked /\ SectionsAreWritten /\ AcceptedIsSound

-----------------------------------------------------------------------------
One(name, value) == [a \in {name} |-> value]
Two(name, value, other, its) == [a \in {name, other} |-> IF a = name THEN value ELSE its]

MCLengths == [nav |-> 11, ncx |-> 10, smil |-> 5, container |-> 5, encryption |-> 5, package |-> 9]
NavLengths == [nav |-> 8]

MCFiles == {"c1", "c2", "a1"}

MCNavTags ==
    {Tag("start", "nav", One("type", "toc")), Tag("start", "nav", One("type", "landmarks")),
     Tag("start", "li", NoAttrs), Tag("start", "a", One("href", <<"c1", "s">>)),
     Tag("start", "span", One("href", <<"http", "">>)),
     Tag("empty", "li", NoAttrs), Tag("empty", "a", One("href", <<"c2", "">>))}
MCNcxTags ==
    {Tag("start", n, NoAttrs) : n \in {"navMap", "navPoint", "text"}}
    \cup {Tag("start", "content", One("src", <<"c1", "">>)),
          Tag("empty", "content", One("src", <<"c2", "s">>))}

N(n) == <<n>>
Clip(fields, unit) == [fields |-> fields, unit |-> unit]
Audio(kind, path, from, to) ==
    Tag(kind, "audio", [a \in {"src", "clipBegin", "clipEnd"} |->
        CASE a = "src" -> path [] a = "clipBegin" -> from [] a = "clipEnd" -> to])
MCSmilTags ==
    {Tag("start", "par", One("id", "p")), Tag("empty", "par", NoAttrs), Tag("start", "seq", NoAttrs),
     Tag("empty", "text", One("src", <<"c1", "s">>)), Tag("empty", "text", One("src", <<"", "s">>)),
     Audio("empty", <<"a1", "">>, Clip(<<N(1), N(2), N(3)>>, ""), Clip(<<N(2), N(3)>>, "")),
     Audio("empty", <<"http", "">>, Clip(<<N(1)>>, ""), Clip(<<N(200)>>, "ms")),
     Audio("empty", <<"http", "">>, Clip(<<N(-1), N(2)>>, ""), Clip(<<N(1), N(2), N(3), N(4)>>, "")),
     Audio("start", <<"a1", "">>, Clip(<<<<>>>>, ""), Clip(<<N(1)>>, "min"))}

Doctypes == {Tag("doctype", "", One("entity", declares)) : declares \in BOOLEAN}
RootfileTag(kind, path, type) == Tag(kind, "rootfile", Two("full-path", path, "media-type", type))
MCContainerTags ==
    {Tag("start", "container", NoAttrs), RootfileTag("empty", "a", PackageType),
     RootfileTag("start", "b", PackageType), RootfileTag("empty", "c", ""),
     RootfileTag("empty", "d", ""), RootfileTag("empty", "", PackageType)} \cup Doctypes
MCEncryptionTags ==
    {Tag("start", "EncryptedData", NoAttrs), Tag("start", "EncryptedKey", NoAttrs),
     Tag("empty", "EncryptedKey", NoAttrs),
     Tag("start", "EncryptionMethod", One("Algorithm", "http://www.w3.org/2001/04/xmlenc#aes128-cbc")),
     Tag("empty", "EncryptionMethod", One("Algorithm", "http://www.idpf.org/2008/embedding")),
     Tag("empty", "CipherReference", One("URI", "font")), Tag("empty", "CipherReference", NoAttrs)}

MCPackageTags ==
    {Tag("start", n, NoAttrs) : n \in {"package", "metadata", "manifest"}} \cup Doctypes \cup
    {Tag("empty", "html", NoAttrs), Tag("start", "spine", One("toc", "ncx")),
     Tag("start", "title", One("id", "t")), Tag("empty", "title", One("id", "u")),
     Tag("empty", "creator", Two("id", "c", "role", "aut")),
     Tag("start", "meta", Two("refines", "t", "property", "title-type")),
     Tag("empty", "meta", Two("refines", "c", "property", "file-as")),
     Tag("empty", "meta", Two("name", "cover", "content", "img")),
     Tag("empty", "item", One("id", "x")), Tag("empty", "itemref", One("idref", "x")),
     Tag("empty", "itemref", Two("idref", "y", "linear", "no"))}
MCReferences == {"amp", "xxe"}
=============================================================================
