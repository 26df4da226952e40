------------------------------ MODULE Container -----------------------------
(***************************************************************************)
(* opf.rs: the two documents of META-INF.  container.xml names the package *)
(* document (parse_container); encryption.xml says what is encrypted, and  *)
(* how (parse_encryption).                                                 *)
(***************************************************************************)
EXTENDS Xml

CONSTANTS ContainerTags, EncryptionTags   \* the tags they are written with

ASSUME ContainerAssumption ==
    \A t \in ContainerTags \cup EncryptionTags :
        /\ t.kind \in {"start", "empty", "doctype"}
        /\ "entity" \in DOMAIN t.attrs => t.kind = "doctype" /\ t.attrs["entity"] \in BOOLEAN

VARIABLES
    metaInf,     \* which of the two it is
    refusal,     \* why it is refused, "" while it is not
    rootfile,    \* the rootfile returned, none before
    first,       \* the first rootfile, none before
    level,       \* how many elements are open
    records,     \* the records open, outermost first
    found        \* the records closed

containerState == <<metaInf, refusal, rootfile, first, level, records, found>>
containerVars == <<xmlVars, containerState>>

PackageType == "application/oebps-package+xml"
RecordNames == {"EncryptedData", "EncryptedKey"}
Obfuscations == {"http://www.idpf.org/2008/embedding", "http://ns.adobe.com/pdf/enc#RC"}

Encrypted == [at |-> 0, algorithm |-> "", uri |-> ""]
IsObfuscation(record) == record.algorithm \in Obfuscations

ContainerInit ==
    /\ metaInf \in {"container", "encryption"}
    /\ refusal = "" /\ rootfile = <<>> /\ first = <<>>
    /\ level = 0 /\ records = <<>> /\ found = <<>>

ContainerReading == refusal = "" /\ rootfile = <<>>

\* Mutant: a document type is not looked into.
CheckDoctype_Skipped(tag) == refusal

\* A document type may declare no entity.
CheckDoctype(tag) == IF Attribute(tag, "entity", FALSE) THEN "EntityDeclaration" ELSE refusal

ReadDoctype ==
    /\ ContainerReading
    /\ \E tag \in ContainerTags \cup EncryptionTags :
           /\ tag.kind = "doctype"
           /\ Hand(tag)
           /\ refusal' = CheckDoctype(tag)
    /\ UNCHANGED <<metaInf, rootfile, first, level, records, found>>

-----------------------------------------------------------------------------
(* parse_container                                                         *)

\* Mutant: the last rootfile stands in for one of the right type.
OrFirst_Last(path) == <<path>>

OrFirst(path) == IF first = <<>> THEN <<path>> ELSE first

StartRootfile ==
    /\ ContainerReading /\ metaInf = "container"
    /\ \E tag \in ContainerTags :
           LET path == Attribute(tag, "full-path", "")
               names == tag.name = "rootfile" /\ path # ""
               typed == names /\ Attribute(tag, "media-type", "") = PackageType
           IN  /\ tag.kind \in {"start", "empty"}
               /\ Hand(tag)
               /\ rootfile' = IF typed THEN <<path>> ELSE rootfile
               /\ first' = IF names /\ ~typed THEN OrFirst(path) ELSE first
    /\ UNCHANGED <<metaInf, refusal, level, records, found>>

EndContainer(tag) ==
    /\ ContainerReading /\ metaInf = "container"
    /\ Hand(tag)
    /\ UNCHANGED containerState

\* What parse_container returns when the document ends here: a path, or none.
Rootfile ==
    CASE refusal # ""     -> <<>>
      [] rootfile # <<>>  -> rootfile
      [] OTHER            -> first

-----------------------------------------------------------------------------
(* parse_encryption                                                        *)

\* Mutant: what is said of a key is said of the data around it.
Innermost_Outermost == 1

\* The record a tag describes.
Innermost == Len(records)

Describe(tag) ==
    [n \in DOMAIN records |->
        IF n # Innermost THEN records[n]
        ELSE IF tag.name = "EncryptionMethod" /\ records[n].algorithm = ""
             THEN [records[n] EXCEPT !.algorithm = Attribute(tag, "Algorithm", "")]
        ELSE IF tag.name = "CipherReference" /\ records[n].uri = ""
             THEN [records[n] EXCEPT !.uri = Attribute(tag, "URI", "")]
        ELSE records[n]]

StartRecord ==
    /\ ContainerReading /\ metaInf = "encryption"
    /\ \E tag \in EncryptionTags :
           /\ tag.kind = "start"
           /\ Hand(tag)
           /\ level' = level + 1
           /\ records' = IF tag.name \in RecordNames
                         THEN Append(records, [Encrypted EXCEPT !.at = level + 1])
                         ELSE Describe(tag)
    /\ UNCHANGED <<metaInf, refusal, rootfile, first, found>>

\* An empty record names no algorithm.
EmptyRecord ==
    /\ ContainerReading /\ metaInf = "encryption"
    /\ \E tag \in EncryptionTags :
           /\ tag.kind = "empty"
           /\ Hand(tag)
           /\ IF tag.name \in RecordNames
              THEN found' = Append(found, Encrypted) /\ UNCHANGED records
              ELSE records' = Describe(tag) /\ UNCHANGED found
    /\ UNCHANGED <<metaInf, refusal, rootfile, first, level>>

EndRecord(tag) ==
    LET closes == records # <<>> /\ Last(records).at = level
    IN  /\ ContainerReading /\ metaInf = "encryption"
        /\ Hand(tag)
        /\ found' = IF closes THEN Append(found, Last(records)) ELSE found
        /\ records' = IF closes THEN Front(records) ELSE records
        /\ level' = IF level = 0 THEN 0 ELSE level - 1
        /\ UNCHANGED <<metaInf, refusal, rootfile, first>>

-----------------------------------------------------------------------------
(* What the documents say.                                                 *)

Rootfiles == {i \in Places({"start", "empty"}, {"rootfile"}) : Attribute(doc[i], "full-path", "") # ""}
Declared(i, name, attribute) ==
    LET at == {j \in Places({"start", "empty"}, {name}) :
                  Nearest(j, RecordNames) = i /\ Attribute(doc[j], attribute, "") # ""}
    IN  IF at = {} THEN "" ELSE Attribute(doc[Smallest(at)], attribute, "")
DeclaresEntity == \E i \in DOMAIN doc : Attribute(doc[i], "entity", FALSE)

(***************************************************************************)
(* Of several rootfiles the first of the package media type is the book,   *)
(* and the first of all when none has it; there is none only when none is  *)
(* named, or when the document declares an entity (opf.rs                  *)
(* parse_container).                                                       *)
(***************************************************************************)
RootfileIsChosen ==
    LET typed == {i \in Rootfiles : Attribute(doc[i], "media-type", "") = PackageType}
        Path(S) == Attribute(doc[Smallest(S)], "full-path", "")
    IN  metaInf = "container" =>
            Rootfile = IF DeclaresEntity \/ Rootfiles = {} THEN <<>>
                       ELSE <<Path(IF typed # {} THEN typed ELSE Rootfiles)>>

(***************************************************************************)
(* "a caller deciding whether a book is DRM'd must see every algorithm in  *)
(* the file": every EncryptedData and EncryptedKey closed so far is a      *)
(* record, nested or not, with the algorithm and the resource that are its *)
(* own, and is obfuscation only when its own method is (opf.rs             *)
(* parse_encryption, Encrypted::is_obfuscation).                           *)
(***************************************************************************)
EveryRecordIsReported ==
    metaInf = "encryption" =>
        LET said == {i \in Places({"start", "empty"}, RecordNames) : Closed(i)}
            Said(i) == [algorithm |-> Declared(i, "EncryptionMethod", "Algorithm"),
                        uri |-> Declared(i, "CipherReference", "URI")]
            Reported(n) == [algorithm |-> found[n].algorithm, uri |-> found[n].uri]
        IN  /\ Len(found) = Cardinality(said)
            /\ \A i \in said : Cardinality({j \in said : Said(j) = Said(i)})
                                 = Cardinality({n \in DOMAIN found : Reported(n) = Said(i)})
            /\ (\A n \in DOMAIN found : IsObfuscation(found[n]))
                 <=> (\A i \in said : Said(i).algorithm \in Obfuscations)
=============================================================================
