-------------------------------- MODULE Href --------------------------------
(***************************************************************************)
(* href.rs: what the strings of an EPUB name.  A string is a sequence of   *)
(* tokens, a byte or an escape of one; "a" is any ordinary byte, "a b" one *)
(* that has to be written as an escape.  An archive path is a sequence of  *)
(* segments, each a sequence of bytes.                                     *)
(*                                                                         *)
(* The strings are grown token by token, so that every string up to a      *)
(* length is looked at under every base directory.                         *)
(***************************************************************************)
EXTENDS Integers, Sequences

CONSTANTS
    Tokens,         \* the tokens strings are made of
    BaseDirs,       \* directories that hold a package document
    MaxPathBytes,   \* MAX_PATH_BYTES
    MaxTokens       \* bound on the strings

\* The escapes among the tokens, and the bytes they stand for.
Escaped == [t \in {"%2e", "%2f", "%5c", "%23", "%00", "%20"} |->
    CASE t = "%2e" -> "." [] t = "%2f" -> "/" [] t = "%5c" -> "\\"
      [] t = "%23" -> "#" [] t = "%00" -> "NUL" [] t = "%20" -> " "]
Bytes == {"a", ".", "/", "\\", "#", ":", "NUL", " "}
Segments == Seq(Bytes)

Dot == <<".">>
DotDot == <<".", ".">>

\* No segment is empty or dots, or holds a separator or a NUL.
IsNormal(path) ==
    \A i \in DOMAIN path :
        /\ path[i] \notin {<<>>, Dot, DotDot}
        /\ \A k \in DOMAIN path[i] : path[i][k] \notin {"/", "\\", "NUL"}

ASSUME HrefAssumption ==
    /\ Tokens \subseteq Bytes \cup DOMAIN Escaped
    /\ \A dir \in BaseDirs : dir \in Seq(Segments) /\ IsNormal(dir)
    /\ MaxPathBytes \in Nat \ {0}
    /\ MaxTokens \in Nat

VARIABLES base, href   \* a base directory, and the string written so far

hrefVars == <<base, href>>

-----------------------------------------------------------------------------
Least(S) == CHOOSE x \in S : \A y \in S : x <= y

\* Length in bytes of a string as it is written, and of a path.
ByteLength(string) ==
    LET Sum[i \in 0..Len(string)] ==
            IF i = 0 THEN 0 ELSE Sum[i - 1] + (IF string[i] \in DOMAIN Escaped THEN 3 ELSE 1)
    IN  Sum[Len(string)]
PathBytes(path) ==
    LET Sum[i \in 0..Len(path)] ==
            IF i = 0 THEN 0 ELSE Sum[i - 1] + Len(path[i]) + (IF i > 1 THEN 1 ELSE 0)
    IN  Sum[Len(path)]

Ok(path) == [kind |-> "entry", path |-> path]
Err(error) == [kind |-> error, path |-> <<>>]

\* Each escape is decoded, once.
PercentDecode(string) ==
    [i \in DOMAIN string |-> IF string[i] \in DOMAIN Escaped THEN Escaped[string[i]] ELSE string[i]]

\* The directory part of a path.
ParentDir(path) == IF path = <<>> THEN <<>> ELSE SubSeq(path, 1, Len(path) - 1)

\* A scheme is two bytes or more, letters first, before the first colon.
IsAbsoluteUri(string) ==
    LET colons == {i \in DOMAIN string : string[i] = ":"}
    IN  /\ colons # {}
        /\ Least(colons) > 2
        /\ string[1] = "a"
        /\ \A i \in 1..Least(colons) - 1 : string[i] \in {"a", "."}

\* Up to the first fragment sign.
WithoutFragment(string) ==
    LET signs == {i \in DOMAIN string : string[i] = "#"}
    IN  IF signs = {} THEN string ELSE SubSeq(string, 1, Least(signs) - 1)

IsSeparator(byte) == byte \in {"/", "\\"}

\* Mutant: a backslash is a byte like any other.
Split_SlashOnly(string) ==
    LET Pieces[i \in 0..Len(string)] ==
            IF i = 0 THEN <<<<>>>>
            ELSE IF string[i] = "/" THEN Append(Pieces[i - 1], <<>>)
            ELSE [Pieces[i - 1] EXCEPT ![Len(Pieces[i - 1])] = Append(@, string[i])]
    IN  Pieces[Len(string)]

\* The pieces between separators; there is one more of them than separators.
Split(string) ==
    LET Pieces[i \in 0..Len(string)] ==
            IF i = 0 THEN <<<<>>>>
            ELSE IF IsSeparator(string[i]) THEN Append(Pieces[i - 1], <<>>)
            ELSE [Pieces[i - 1] EXCEPT ![Len(Pieces[i - 1])] = Append(@, string[i])]
    IN  Pieces[Len(string)]

\* Mutant: a step up from the top stays there.
Walk_Clamped(dir, pieces) ==
    LET At[i \in 0..Len(pieces)] ==
            IF i = 0 THEN Ok(dir)
            ELSE IF At[i - 1].kind # "entry" \/ pieces[i] \in {<<>>, Dot} THEN At[i - 1]
            ELSE IF pieces[i] = DotDot THEN Ok(ParentDir(At[i - 1].path))
            ELSE Ok(Append(At[i - 1].path, pieces[i]))
    IN  At[Len(pieces)]

\* The loop of normalize: one piece after the other, from the base directory.
Walk(dir, pieces) ==
    LET At[i \in 0..Len(pieces)] ==
            IF i = 0 THEN Ok(dir)
            ELSE IF At[i - 1].kind # "entry" \/ pieces[i] \in {<<>>, Dot} THEN At[i - 1]
            ELSE IF pieces[i] = DotDot
            THEN IF At[i - 1].path = <<>> THEN Err("traversal") ELSE Ok(ParentDir(At[i - 1].path))
            ELSE Ok(Append(At[i - 1].path, pieces[i]))
    IN  At[Len(pieces)]

\* normalize, its tests in order.
Normalize(dir, string) ==
    IF string = <<>> THEN Err("empty")
    ELSE IF Len(string) + PathBytes(dir) + 1 > MaxPathBytes THEN Err("too long")
    ELSE IF \E i \in DOMAIN string : string[i] = "NUL" THEN Err("illegal byte")
    ELSE IF IsSeparator(string[1]) THEN Err("absolute")
    ELSE LET walked == Walk(dir, Split(string))
         IN  IF walked.kind = "entry" /\ walked.path = <<>> THEN Err("empty") ELSE walked

\* Mutant: the fragment is looked for after decoding.
ResolveHref_DecodesFirst(dir, string) ==
    IF ByteLength(string) > MaxPathBytes THEN Err("too long")
    ELSE IF IsAbsoluteUri(string) THEN Err("remote")
    ELSE Normalize(dir, WithoutFragment(PercentDecode(string)))

ResolveHref(dir, string) ==
    IF ByteLength(string) > MaxPathBytes THEN Err("too long")
    ELSE IF IsAbsoluteUri(string) THEN Err("remote")
    ELSE Normalize(dir, PercentDecode(WithoutFragment(string)))

\* check_entry_name: an entry whose name ends in a separator is a directory.
CheckEntryName(string) ==
    LET checked == Normalize(<<>>, string)
    IN  IF string # <<>> /\ IsSeparator(string[Len(string)]) /\ checked.kind = "entry"
        THEN Err("directory") ELSE checked

-----------------------------------------------------------------------------
HrefInit == base \in BaseDirs /\ href = <<>>

WriteToken ==
    /\ Len(href) < MaxTokens
    /\ \E t \in Tokens : href' = Append(href, t)
    /\ UNCHANGED base

-----------------------------------------------------------------------------
(* Properties, of every string as an href and as an entry name.            *)

Spelled(path) ==
    LET Text[i \in 0..Len(path)] ==
            IF i = 0 THEN <<>> ELSE Text[i - 1] \o (IF i > 1 THEN <<"/">> ELSE <<>>) \o path[i]
    IN  Text[Len(path)]

\* A path that is accepted is normal: no dots, separators, NUL or empty segment
\* are left in it, and reading it again as an entry name gives it back, but
\* for a path of just the allowed length: without a base directory the byte of
\* the separator is counted all the same.
AcceptedIsNormal ==
    \A result \in {ResolveHref(base, href), CheckEntryName(href)} :
        result.kind = "entry" =>
            /\ result.path # <<>>
            /\ IsNormal(result.path)
            /\ PathBytes(result.path) < MaxPathBytes =>
                   CheckEntryName(Spelled(result.path)) = result

\* A path is refused for leaving the archive exactly when it does leave it:
\* some way into it there are more steps up than directories to leave.
TraversalIffEscapes ==
    LET decoded == PercentDecode(WithoutFragment(href))
        pieces == Split(decoded)
        Depth[n \in 0..Len(pieces)] ==
            IF n = 0 THEN Len(base)
            ELSE Depth[n - 1] + (CASE pieces[n] = DotDot -> -1
                                   [] pieces[n] \in {<<>>, Dot} -> 0
                                   [] OTHER -> 1)
        result == ResolveHref(base, href)
    IN  result.kind \in {"entry", "traversal", "empty"} /\ decoded # <<>> =>
            (result.kind = "traversal" <=> \E n \in DOMAIN pieces : Depth[n] < 0)

\* An entry is found under what names it: the entry stored under a name is what
\* an href resolves to that spells the name with every special byte escaped,
\* from any directory that name lies under.
HrefFindsEntry ==
    LET raw == PercentDecode(href)
        stored == CheckEntryName(Spelled(base) \o (IF base = <<>> THEN <<>> ELSE <<"/">>) \o raw)
        escape == [b \in Bytes |->
                      IF \E e \in DOMAIN Escaped : Escaped[e] = b /\ b \notin {".", "/", "\\"}
                      THEN CHOOSE e \in DOMAIN Escaped : Escaped[e] = b ELSE b]
        spelled == [i \in DOMAIN raw |-> escape[raw[i]]]
        found == ResolveHref(base, spelled)
    IN  stored.kind = "entry" /\ found.kind \notin {"remote", "absolute", "too long", "empty"}
            => found = stored
=============================================================================
