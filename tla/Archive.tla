------------------------------ MODULE Archive ------------------------------
(***************************************************************************)
(* Reading one archive for one call: open, the scan of the central         *)
(* directory, and read_entry under the call's decompression budget.  The   *)
(* parse driver decides which entries are read and in which order; here it *)
(* may ask for any of them, any number of times.                           *)
(*                                                                         *)
(* An archive is what its bytes hold: the records of its central directory *)
(* in order, the signatures its payloads happen to contain, where the      *)
(* directory starts, and whether it is readable: the zip crate can open it *)
(* and read the header of every entry, and the records lie end to end.  A  *)
(* record says nothing reliable about its entry: the sizes it declares and *)
(* the bytes its stream really inflates to are independent.                *)
(***************************************************************************)
EXTENDS Integers, Sequences, FiniteSets

CONSTANTS
    Archives,          \* the uploads considered
    RawNames,          \* entry names as stored
    PathOf,            \* what check_entry_name makes of each of them
    MaxEntries,        \* limits.max_entries
    MaxUncompressed,   \* limits.max_uncompressed_bytes
    MaxRatio,          \* limits.max_compression_ratio
    RatioFloor,        \* limits.compression_ratio_floor_bytes
    ReadChunk,         \* READ_CHUNK
    MaxReads           \* bound: entries read in one call

Records ==
    [raw : RawNames, encrypted : BOOLEAN,
     method : {"stored", "deflated", "other"},
     size : Nat,       \* inflated size as declared
     stored : Nat,     \* stored size as declared
     actual : Nat,     \* what the stream inflates to
     stream : {"sound", "corrupt", "cut"}]

\* An entry with no stored bytes has nothing to inflate.
ASSUME ArchivesAssumption ==
    \A a \in Archives :
        /\ a.records \in Seq(Records)
        /\ a.stray \in Nat
        /\ a.directory_start \in Nat
        /\ a.readable \in BOOLEAN
        /\ \A i \in DOMAIN a.records :
               a.directory_start = 0 \/ a.records[i].stored = 0 => a.records[i].actual = 0

ASSUME NamesAssumption == DOMAIN PathOf = RawNames

ASSUME ArchiveLimitsAssumption ==
    /\ MaxEntries \in Nat
    /\ MaxUncompressed \in Nat
    /\ MaxRatio \in Nat
    /\ RatioFloor \in Nat
    /\ ReadChunk \in Nat \ {0}
    /\ MaxReads \in Nat

VARIABLES
    archive,      \* the upload
    phase,        \* opening, scanning, ready, inflating or failed
    status,       \* why the call failed
    next,         \* the record scan looks at next
    entries,      \* Scan::entries
    unusable,     \* records left out for their names, by index
    remaining, consumed, entries_read,   \* Budget
    reading,      \* position in entries of the entry read last
    out           \* bytes inflated from it so far

scanVars == <<next, entries, unusable>>
budgetVars == <<remaining, consumed, entries_read>>
vars == <<archive, phase, status, scanVars, budgetVars, reading, out>>

Smaller(a, b) == IF a < b THEN a ELSE b

Init ==
    /\ archive \in Archives
    /\ phase = "opening"
    /\ status = "none"
    /\ next = 1
    /\ entries = <<>>
    /\ unusable = {}
    /\ remaining = MaxUncompressed
    /\ consumed = 0
    /\ entries_read = 0
    /\ reading = 0
    /\ out = 0

Fail(why) == phase' = "failed" /\ status' = why

-----------------------------------------------------------------------------
(* open *)

\* The zip crate keys entries by raw name: of several records with one name
\* only the last survives.
Kept(a) == {i \in DOMAIN a.records :
                \A j \in DOMAIN a.records : a.records[j].raw = a.records[i].raw => j <= i}

\* Mutant: only the first record is looked at.
Merged_First(a) == DOMAIN a.records # {} /\ 1 \notin Kept(a)

\* refuse_merged_records walks the directory up to the last surviving record
\* and stops at one the crate has dropped.
Merged(a) == \E last \in Kept(a) : \E i \in DOMAIN a.records : i < last /\ i \notin Kept(a)

\* The answer open gives, its checks in order.
OpenStatus(a) ==
    IF Len(a.records) + a.stray > MaxEntries THEN "entries"
    ELSE IF ~a.readable THEN "not_a_zip"
    ELSE IF Cardinality(Kept(a)) > MaxEntries THEN "entries"
    ELSE IF Merged(a) THEN "ambiguous"
    ELSE "none"

Open ==
    /\ phase = "opening"
    /\ status' = OpenStatus(archive)
    /\ phase' = IF status' = "none" THEN "scanning" ELSE "failed"
    /\ UNCHANGED <<archive, scanVars, budgetVars, reading, out>>

-----------------------------------------------------------------------------
(* scan *)

\* Mutant: the declared stored size is believed.
StoredSize_Declared(a, record) == record.stored

\* No entry is stored in more bytes than precede the central directory.
StoredSize(a, record) == Smaller(record.stored, a.directory_start)

EntryInfo(a, i) ==
    [index |-> i, name |-> PathOf[a.records[i].raw],
     declared_size |-> a.records[i].size,
     compressed_size |-> StoredSize(a, a.records[i])]

\* Some earlier record already stands for this path.
Claimed(path) == \E e \in DOMAIN entries : entries[e].name = path

\* One record: refused, passed over (a directory, or hidden by the crate),
\* reported or kept.
ScanRecord ==
    /\ phase = "scanning"
    /\ next <= Len(archive.records)
    /\ LET record == archive.records[next]
           shown == next \in Kept(archive)
           decodable == ~record.encrypted /\ record.method # "other"
           path == PathOf[record.raw]
           file == shown /\ decodable /\ path \notin {"directory", "unusable"}
       IN  \/ /\ shown /\ ~decodable
              /\ Fail("unsupported")
              /\ UNCHANGED scanVars
           \/ /\ shown => decodable /\ path = "directory"
              /\ next' = next + 1
              /\ UNCHANGED <<phase, status, entries, unusable>>
           \/ /\ shown /\ decodable /\ path = "unusable"
              /\ next' = next + 1
              /\ unusable' = unusable \cup {next}
              /\ UNCHANGED <<phase, status, entries>>
           \/ /\ file /\ Claimed(path)
              /\ Fail("ambiguous")
              /\ UNCHANGED scanVars
           \/ /\ file /\ ~Claimed(path)
              /\ next' = next + 1
              /\ entries' = Append(entries, EntryInfo(archive, next))
              /\ UNCHANGED <<phase, status, unusable>>
    /\ UNCHANGED <<archive, budgetVars, reading, out>>

ScanDone ==
    /\ phase = "scanning"
    /\ next > Len(archive.records)
    /\ phase' = "ready"
    /\ UNCHANGED <<archive, status, scanVars, budgetVars, reading, out>>

-----------------------------------------------------------------------------
(* read_entry *)

\* The ratio in whole times, as integer division has it.
RatioExceeded(inflated, stored) ==
    /\ inflated >= RatioFloor
    /\ stored # 0
    /\ inflated \div stored > MaxRatio

\* The free checks, against what the archive says about itself.
StartRead(e) ==
    /\ phase = "ready"
    /\ entries_read < MaxReads
    /\ reading' = e
    /\ out' = 0
    /\ \/ /\ entries[e].declared_size > remaining
          /\ Fail("budget")
       \/ /\ entries[e].declared_size <= remaining
          /\ RatioExceeded(entries[e].declared_size, entries[e].compressed_size)
          /\ Fail("ratio")
       \/ /\ entries[e].declared_size <= remaining
          /\ ~RatioExceeded(entries[e].declared_size, entries[e].compressed_size)
          /\ phase' = "inflating"
          /\ UNCHANGED status
    /\ UNCHANGED <<archive, scanVars, budgetVars>>

\* The record behind the entry being read.
Source == archive.records[entries[reading].index]

\* The zip crate stops an entry that inflates past its declared size, and
\* inflate_status turns that into the status of a decompression bomb.
StopAtDeclared ==
    /\ phase = "inflating"
    /\ out < Source.actual
    /\ \E n \in 1..Smaller(ReadChunk, Source.actual - out) :
           out + n > entries[reading].declared_size
    /\ Fail("overrun")
    /\ UNCHANGED <<archive, scanVars, budgetVars, reading, out>>

\* Mutant: the chunk is copied before the budget is looked at.
Inflate_Unchecked ==
    /\ phase = "inflating"
    /\ \E n \in 1..Smaller(ReadChunk, Source.actual - out) :
         IF RatioExceeded(out + n, entries[reading].compressed_size)
         THEN Fail("ratio") /\ UNCHANGED out
         ELSE out' = out + n /\ UNCHANGED <<phase, status>>
    /\ UNCHANGED <<archive, scanVars, budgetVars, reading>>

\* Mutant: an entry pays for the ones before it.
Inflate_Cumulative ==
    /\ phase = "inflating"
    /\ \E n \in 1..Smaller(ReadChunk, Source.actual - out) :
         IF out + n > remaining THEN Fail("budget") /\ UNCHANGED out
         ELSE IF RatioExceeded(consumed + out + n, entries[reading].compressed_size)
         THEN Fail("ratio") /\ UNCHANGED out
         ELSE out' = out + n /\ UNCHANGED <<phase, status>>
    /\ UNCHANGED <<archive, scanVars, budgetVars, reading>>

\* One chunk out of the decompressor: both rules again, then the copy.  They
\* do not rely on the crate to have stopped a lying header.
Inflate ==
    /\ phase = "inflating"
    /\ \E n \in 1..Smaller(ReadChunk, Source.actual - out) :
         \/ /\ out + n > remaining
            /\ Fail("budget")
            /\ UNCHANGED out
         \/ /\ out + n <= remaining
            /\ RatioExceeded(out + n, entries[reading].compressed_size)
            /\ Fail("ratio")
            /\ UNCHANGED out
         \/ /\ out + n <= remaining
            /\ ~RatioExceeded(out + n, entries[reading].compressed_size)
            /\ out' = out + n
            /\ UNCHANGED <<phase, status>>
    /\ UNCHANGED <<archive, scanVars, budgetVars, reading>>

\* A damaged stream: zip_status gives an early end to the caller to fix and
\* calls every other read error internal.
StreamError ==
    /\ phase = "inflating"
    /\ \/ Source.stream = "cut" /\ Fail("truncated")
       \/ Source.stream = "corrupt" /\ Fail("internal")
    /\ UNCHANGED <<archive, scanVars, budgetVars, reading, out>>

\* Mutant: only the bytes are charged, never taken off what is left.
FinishRead_KeepsRemaining ==
    /\ phase = "inflating"
    /\ Source.stream = "sound" /\ out = Source.actual
    /\ phase' = "ready"
    /\ consumed' = consumed + out
    /\ entries_read' = entries_read + 1
    /\ out' = 0
    /\ UNCHANGED <<archive, status, scanVars, remaining, reading>>

\* The stream is at its end: charge it.
FinishRead ==
    /\ phase = "inflating"
    /\ Source.stream = "sound" /\ out = Source.actual
    /\ phase' = "ready"
    /\ remaining' = remaining - out
    /\ consumed' = consumed + out
    /\ entries_read' = entries_read + 1
    /\ out' = 0
    /\ UNCHANGED <<archive, status, scanVars, reading>>

Next ==
    \/ Open \/ ScanRecord \/ ScanDone
    \/ \E e \in DOMAIN entries : StartRead(e)
    \/ StopAtDeclared \/ Inflate \/ StreamError \/ FinishRead

Spec == Init /\ [][Next]_vars

-----------------------------------------------------------------------------
(* Properties.                                                             *)

\* What is kept of a directory while it is scanned: entries in the order of
\* their records, each with what its own record says.
EntriesType ==
    /\ entries \in Seq([index : Nat, name : {PathOf[r] : r \in RawNames},
                        declared_size : Nat, compressed_size : Nat])
    /\ \A e \in DOMAIN entries :
           /\ entries[e].index \in 1..next - 1
           /\ entries[e].index \in DOMAIN archive.records
           /\ entries[e] = EntryInfo(archive, entries[e].index)

\* Every variable keeps its type.
TypeOK ==
    /\ archive \in Archives
    /\ phase \in {"opening", "scanning", "ready", "inflating", "failed"}
    /\ status \in {"none", "not_a_zip", "entries", "ambiguous", "unsupported", "budget",
                   "ratio", "overrun", "truncated", "internal"}
    /\ next \in Nat \ {0}
    /\ EntriesType
    /\ unusable \subseteq 1..next - 1
    /\ remaining \in Nat
    /\ consumed \in Nat
    /\ entries_read \in Nat
    /\ reading \in 0..Len(entries)
    /\ out \in Nat
    /\ phase = "inflating" => reading # 0

\* read_entry never holds more than the call's cap: what was handed out, and
\* what is being inflated on top of it, whatever the headers declare.
InflatedWithinCap ==
    /\ remaining + consumed = MaxUncompressed
    /\ consumed + out <= MaxUncompressed

\* check_ratio prices inflation by bytes that really are in the upload: an
\* entry past the floor is at most MaxRatio times (rounded down) what lies
\* in front of the central directory, however large it claims to be stored.
AmplificationBounded ==
    out > 0 /\ out >= RatioFloor => out < (MaxRatio + 1) * archive.directory_start

\* An archive that gets past scan has a single reading: no two records share
\* a raw name, so the crate dropped none, no two entries share a path, and
\* every record is an entry, a directory or reported as unusable.
SingleReading ==
    phase \in {"ready", "inflating"} =>
        /\ \A i, j \in DOMAIN archive.records :
               archive.records[i].raw = archive.records[j].raw => i = j
        /\ \A d, e \in DOMAIN entries : entries[d].name = entries[e].name => d = e
        /\ \A i \in DOMAIN archive.records :
               \/ PathOf[archive.records[i].raw] = "directory"
               \/ i \in unusable
               \/ \E e \in DOMAIN entries : entries[e].index = i

\* An entry is refused as a bomb only if it is too large for its stored
\* bytes or its header understates it, never for what other entries cost.
BombsAreBombs ==
    status \in {"ratio", "overrun"} =>
        LET info == entries[reading]
        IN  \/ RatioExceeded(info.declared_size, info.compressed_size)
            \/ Source.actual > info.declared_size
=============================================================================
