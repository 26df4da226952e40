----------------------------- MODULE MCArchive -----------------------------
(* Small archives for TLC.                                                 *)
EXTENDS Archive

\* Two spellings of one path, another path, a directory and a bad name.
MCRawNames == {"a", "a_spelt_otherwise", "b", "folder/", "../c"}
MCPathOf == [r \in MCRawNames |->
    CASE r \in {"a", "a_spelt_otherwise"} -> "a"
      [] r = "b" -> "b"
      [] r = "folder/" -> "directory"
      [] OTHER -> "unusable"]

Plain(raw) == [raw |-> raw, encrypted |-> FALSE, method |-> "deflated",
               size |-> 1, stored |-> 1, actual |-> 1, stream |-> "sound"]

\* Every directory of up to three plain, encrypted or exotic records.
DirectoryRecords ==
    {Plain(raw) : raw \in MCRawNames}
    \cup {[Plain("a") EXCEPT !.encrypted = TRUE], [Plain("b") EXCEPT !.method = "other"]}
DirectoryArchives ==
    [records : UNION {[1..n -> DirectoryRecords] : n \in 0..3},
     stray : {0, 1}, directory_start : {3}, readable : BOOLEAN]

\* One or two entries whose headers lie about both sizes.
LyingRecords(raw) ==
    {r \in [raw : {raw}, encrypted : {FALSE}, method : {"deflated"},
            size : 0..4, stored : 0..2, actual : 0..4, stream : {"sound", "corrupt", "cut"}] :
        r.stored = 0 => r.actual = 0}
LyingArchives ==
    [records : {<<r, s>> : r \in LyingRecords("a"), s \in {Plain("b"), [Plain("b") EXCEPT !.actual = 2]}},
     stray : {0}, directory_start : {1, 2}, readable : {TRUE}]

AllArchives == DirectoryArchives \cup LyingArchives
=============================================================================
