--------------------------- MODULE MCDocumentFold ---------------------------
(***************************************************************************)
(* The books DocumentFold is checked with: two metadata sections, one with *)
(* every kind of credit and title, and tables of contents that name a      *)
(* chapter, a chapter's section, a file no chapter has, and no file.       *)
(***************************************************************************)
EXTENDS DocumentFold

NoScalars == [s \in Scalars |-> ""]
Said(element, value, refinements) ==
    [element |-> element, value |-> value, refinements |-> refinements]
Is(property, value) == [property |-> property, value |-> value]

PlainBook ==
    [title |-> "", cover_href |-> "", language |-> <<>>, subjects |-> <<>>, date |-> "",
     modified |-> "", creators |-> <<"lear">>, identifiers |-> <<>>, scalars |-> NoScalars,
     metadata |-> <<>>]

CreditedBook ==
    [title |-> "nonsense", cover_href |-> "a", language |-> <<"en", "GB">>,
     subjects |-> <<"verse">>, date |-> "1846", modified |-> "later",
     creators |-> <<"doe", "lear", "lear">>,
     identifiers |-> <<[value |-> "isbn", scheme |-> ""], [value |-> "url", scheme |-> "URI"]>>,
     scalars |-> [NoScalars EXCEPT !["publisher"] = "m"],
     metadata |->
        <<Said("title", "nonsense", <<Is("title-type", "main")>>),
          Said("title", "more", <<Is("title-type", "subtitle")>>),
          Said("creator", "doe", <<>>),
          Said("creator", "lear", <<Is("role", "aut"), Is("file-as", "lear e")>>),
          Said("creator", "lear", <<Is("role", "ill")>>),
          Said("contributor", "lear", <<Is("role", "edt")>>),
          Said("rights", "none", <<>>)>>]

Point(depth, path, fragment, parent) ==
    [label |-> "t", depth |-> depth, path |-> path, fragment |-> fragment, parent |-> parent]

MCInfos == {PlainBook, CreditedBook}
MCTocs ==
    {<<Point(0, "a", "", 0)>>,
     <<Point(0, "", "", 0), Point(1, "b", "s", 1), Point(0, "a", "", 0), Point(1, "c", "", 1)>>}
MCHrefs == {"a", "b"}
MCPrimaries == {"b"}
MCEndTimes == {0, 1}
MCDates == {"1846"}
MCLanguages == {"en"}
=============================================================================
