--------------------------- MODULE Archive_proofs ---------------------------
(***************************************************************************)
(* For every archive and every choice of limits: the decompression budget  *)
(* is kept, inflation is priced by bytes that are really there, and an     *)
(* archive that survives open and scan has a single reading.               *)
(***************************************************************************)
EXTENDS Archive, TLAPS

\* Integer division: a quotient of at most r bounds the dividend.
LEMMA QuotientBound ==
    ASSUME NEW n \in Nat, NEW d \in Nat \ {0}, NEW r \in Nat, n \div d <= r
    PROVE  n < (r + 1) * d
  <1> DEFINE q == n \div d
  <1>1. q \in Int /\ n < d * q + d
    OBVIOUS
  <1>2. d * q <= d * r
    BY <1>1
  <1>3. d * r + d = (r + 1) * d
    OBVIOUS
  <1> QED BY <1>1, <1>2, <1>3

\* A larger entry over the same stored bytes exceeds the ratio too.
LEMMA RatioMonotone ==
    ASSUME NEW m \in Nat, NEW n \in Nat, m <= n, NEW stored \in Nat,
           RatioExceeded(m, stored)
    PROVE  RatioExceeded(n, stored)
  <1>1. stored # 0 /\ m >= RatioFloor /\ n >= RatioFloor
    BY ArchiveLimitsAssumption DEF RatioExceeded
  <1>2. m \div stored <= n \div stored
    BY <1>1
  <1>3. m \div stored \in Int /\ n \div stored \in Int
    BY <1>1
  <1> QED BY <1>1, <1>2, <1>3, ArchiveLimitsAssumption DEF RatioExceeded

-----------------------------------------------------------------------------
(* Types.                                                                  *)

\* What the constants say of the records of an archive.
LEMMA RecordType ==
    ASSUME NEW a \in Archives, NEW i \in DOMAIN a.records
    PROVE  /\ a.records[i] \in Records
           /\ i \in Nat \ {0}
           /\ EntryInfo(a, i) \in [index : Nat, name : {PathOf[r] : r \in RawNames},
                                   declared_size : Nat, compressed_size : Nat]
           /\ EntryInfo(a, i).index = i
           /\ EntryInfo(a, i).declared_size = a.records[i].size
           /\ EntryInfo(a, i).compressed_size = StoredSize(a, a.records[i])
  <1>1. a.records \in Seq(Records) /\ a.directory_start \in Nat
    BY ArchivesAssumption
  <1>2. a.records[i] \in Records /\ i \in Nat \ {0}
    BY <1>1
  <1>3. /\ a.records[i].raw \in RawNames
        /\ a.records[i].size \in Nat
        /\ StoredSize(a, a.records[i]) \in Nat
    BY <1>1, <1>2 DEF Records, StoredSize, Smaller
  <1> QED BY <1>2, <1>3 DEF EntryInfo

\* A step that leaves the scan alone leaves what it found as it was.
LEMMA EntriesKept ==
    ASSUME EntriesType, UNCHANGED <<archive, scanVars>>
    PROVE  EntriesType'
  BY DEF EntriesType, scanVars, EntryInfo, StoredSize

\* Every entry comes from a record of the archive.
RecordOf(e) == archive.records[entries[e].index]

LEMMA EntrySource ==
    ASSUME TypeOK, NEW e \in DOMAIN entries
    PROVE  /\ RecordOf(e) \in Records
           /\ entries[e].declared_size = RecordOf(e).size
           /\ entries[e].compressed_size = StoredSize(archive, RecordOf(e))
           /\ archive.directory_start = 0 \/ RecordOf(e).stored = 0 => RecordOf(e).actual = 0
           /\ archive.directory_start \in Nat
  <1>1. archive \in Archives
    BY DEF TypeOK
  <1>2. entries[e].index \in DOMAIN archive.records
    BY DEF TypeOK, EntriesType
  <1>3. entries[e] = EntryInfo(archive, entries[e].index)
    BY DEF TypeOK, EntriesType
  <1>4. QED BY <1>1, <1>2, <1>3, RecordType, ArchivesAssumption DEF RecordOf

\* The entry read last is one of them.
LEMMA SourceType ==
    ASSUME TypeOK, reading # 0
    PROVE  reading \in DOMAIN entries /\ Source = RecordOf(reading) /\ Source.actual \in Nat
  <1>1. reading \in DOMAIN entries
    BY DEF TypeOK, EntriesType
  <1>2. Source = RecordOf(reading) /\ Source \in Records
    BY <1>1, EntrySource DEF Source, RecordOf
  <1> QED BY <1>1, <1>2 DEF Records

\* What one step of the scan does with the record it looks at.
NextPath == PathOf[archive.records[next].raw]
Refused == UNCHANGED scanVars /\ \E why \in {"unsupported", "ambiguous"} : Fail(why)
PassedOver ==
    /\ next \in Kept(archive) => NextPath = "directory"
    /\ next' = next + 1
    /\ UNCHANGED <<phase, status, entries, unusable>>
Reported ==
    /\ next' = next + 1
    /\ unusable' = unusable \cup {next}
    /\ UNCHANGED <<phase, status, entries>>
Added ==
    /\ ~Claimed(NextPath)
    /\ next' = next + 1
    /\ entries' = Append(entries, EntryInfo(archive, next))
    /\ UNCHANGED <<phase, status, unusable>>

LEMMA ScanCases ==
    ASSUME TypeOK, ScanRecord
    PROVE  /\ next \in DOMAIN archive.records
           /\ UNCHANGED <<archive, budgetVars, reading, out>>
           /\ phase = "scanning"
           /\ Refused \/ PassedOver \/ Reported \/ Added
  <1>1. next \in DOMAIN archive.records
    BY ArchivesAssumption DEF ScanRecord, TypeOK
  <1>2. Refused \/ PassedOver \/ Reported \/ Added
    BY DEF ScanRecord, Refused, PassedOver, Reported, Added, NextPath
  <1> QED BY <1>1, <1>2 DEF ScanRecord

LEMMA TypeInit == Init => TypeOK
  BY ArchiveLimitsAssumption DEF Init, TypeOK, EntriesType

\* Every conjunct of the type invariant, action by action.
LEMMA TypeStep == TypeOK /\ InflatedWithinCap /\ [Next]_vars => TypeOK'
  <1> SUFFICES ASSUME TypeOK, InflatedWithinCap, [Next]_vars PROVE TypeOK'
    OBVIOUS
  <1> USE ArchiveLimitsAssumption
  <1>1. CASE Open
    BY <1>1 DEF Open, OpenStatus, TypeOK, EntriesType, scanVars, budgetVars
  <1>2. CASE ScanRecord
    <2>1. /\ archive \in Archives /\ next \in DOMAIN archive.records
          /\ UNCHANGED <<archive, budgetVars, reading, out>>
          /\ phase = "scanning"
      BY <1>2, ScanCases DEF TypeOK
    <2>2. CASE Added
      <3> DEFINE info == EntryInfo(archive, next)
      <3>1. entries' \in Seq([index : Nat, name : {PathOf[r] : r \in RawNames},
                              declared_size : Nat, compressed_size : Nat])
        BY <2>1, <2>2, RecordType DEF Added, TypeOK, EntriesType
      <3>2. ASSUME NEW e \in DOMAIN entries' PROVE
               /\ entries'[e].index \in 1..next' - 1
               /\ entries'[e].index \in DOMAIN archive.records
               /\ entries'[e] = EntryInfo(archive, entries'[e].index)
        <4>1. CASE e \in DOMAIN entries
          <5>1. entries'[e] = entries[e]
            BY <4>1, <2>2 DEF Added, TypeOK, EntriesType
          <5>2. /\ entries[e].index \in 1..next - 1
                /\ entries[e].index \in DOMAIN archive.records
                /\ entries[e] = EntryInfo(archive, entries[e].index)
            BY <4>1 DEF TypeOK, EntriesType
          <5>3. next' = next + 1 /\ next \in Nat
            BY <2>2 DEF Added, TypeOK
          <5> QED BY <5>1, <5>2, <5>3
        <4>2. CASE e = Len(entries) + 1
          <5>1. entries'[e] = info
            BY <4>2, <2>2 DEF Added, TypeOK, EntriesType
          <5>2. info.index = next
            BY <2>1, RecordType
          <5> HIDE DEF info
          <5>3. next' = next + 1 /\ next \in Nat \ {0}
            BY <2>2 DEF Added, TypeOK
          <5> QED BY <5>1, <5>2, <5>3, <2>1 DEF info
        <4> QED BY <3>2, <4>1, <4>2, <2>2 DEF Added, TypeOK, EntriesType
      <3>3. EntriesType'
        BY <2>1, <3>1, <3>2 DEF EntriesType, EntryInfo, StoredSize
      <3>4. reading' \in 0..Len(entries')
        BY <2>1, <2>2 DEF Added, TypeOK, EntriesType
      <3> QED BY <2>1, <2>2, <3>3, <3>4 DEF Added, TypeOK, budgetVars
    <2>3. CASE PassedOver \/ Reported
      <3>1. next' = next + 1 /\ entries' = entries /\ next \in Nat \ {0}
        BY <2>3 DEF PassedOver, Reported, TypeOK
      <3>2. EntriesType'
        BY <2>1, <3>1 DEF TypeOK, EntriesType, EntryInfo, StoredSize
      <3>3. unusable' \subseteq 1..next' - 1
        <4>1. unusable' \subseteq unusable \cup {next}
          BY <2>3 DEF PassedOver, Reported
        <4>2. unusable \subseteq 1..next - 1
          BY DEF TypeOK
        <4>3. \A u \in unusable' : u \in 1..next' - 1
          BY <3>1, <4>1, <4>2
        <4> QED BY <4>3
      <3> QED BY <2>1, <2>3, <3>1, <3>2, <3>3 DEF PassedOver, Reported, TypeOK, budgetVars
    <2>4. CASE Refused
      <3>1. EntriesType'
        BY <2>1, <2>4, EntriesKept DEF Refused, TypeOK
      <3> QED BY <2>1, <2>4, <3>1 DEF Refused, Fail, TypeOK, scanVars, budgetVars
    <2> QED BY <1>2, <2>2, <2>3, <2>4, ScanCases
  <1>3. CASE ScanDone
    BY <1>3, EntriesKept DEF ScanDone, TypeOK, scanVars, budgetVars
  <1>4. ASSUME NEW e \in DOMAIN entries, StartRead(e) PROVE TypeOK'
    <2>1. EntriesType' /\ e \in 1..Len(entries)
      BY <1>4, EntriesKept DEF StartRead, TypeOK, EntriesType
    <2> QED BY <1>4, <2>1 DEF StartRead, Fail, TypeOK, scanVars, budgetVars
  <1>5. CASE StopAtDeclared \/ StreamError
    <2>1. EntriesType'
      BY <1>5, EntriesKept DEF StopAtDeclared, StreamError, TypeOK
    <2> QED BY <1>5, <2>1 DEF StopAtDeclared, StreamError, Fail, TypeOK, scanVars, budgetVars
  <1>6. CASE Inflate
    <2>1. EntriesType'
      BY <1>6, EntriesKept DEF Inflate, TypeOK
    <2>2. Source.actual \in Nat
      BY <1>6, SourceType DEF Inflate, TypeOK
    <2>3. out' \in Nat
      BY <1>6, <2>2 DEF Inflate, TypeOK, Smaller
    <2> QED BY <1>6, <2>1, <2>3 DEF Inflate, Fail, TypeOK, scanVars, budgetVars
  <1>7. CASE FinishRead
    <2>1. EntriesType'
      BY <1>7, EntriesKept DEF FinishRead, TypeOK
    <2>2. remaining' \in Nat /\ consumed' \in Nat
      BY <1>7 DEF FinishRead, InflatedWithinCap, TypeOK
    <2> QED BY <1>7, <2>1, <2>2 DEF FinishRead, TypeOK, scanVars
  <1>8. CASE UNCHANGED vars
    BY <1>8, EntriesKept DEF vars, scanVars, budgetVars, TypeOK
  <1> QED BY <1>1, <1>2, <1>3, <1>4, <1>5, <1>6, <1>7, <1>8 DEF Next

-----------------------------------------------------------------------------
(* The decompression budget.                                               *)

\* What is being inflated never passes what is left of the budget, on top
\* of what was handed out before.
LEMMA CapStep == TypeOK /\ InflatedWithinCap /\ [Next]_vars => InflatedWithinCap'
  <1> SUFFICES ASSUME TypeOK, InflatedWithinCap, [Next]_vars PROVE InflatedWithinCap'
    OBVIOUS
  <1> USE ArchiveLimitsAssumption
  <1>1. CASE Open \/ ScanRecord \/ ScanDone \/ StopAtDeclared \/ StreamError \/ UNCHANGED vars
    BY <1>1 DEF Open, ScanRecord, ScanDone, StopAtDeclared, StreamError, vars, budgetVars,
                InflatedWithinCap
  <1>2. ASSUME NEW e \in DOMAIN entries, StartRead(e) PROVE InflatedWithinCap'
    BY <1>2 DEF StartRead, budgetVars, InflatedWithinCap, TypeOK
  <1>3. CASE Inflate
    <2>1. PICK n \in 1..Smaller(ReadChunk, Source.actual - out) :
             out' = out \/ (out' = out + n /\ out + n <= remaining)
      BY <1>3 DEF Inflate
    <2> QED BY <1>3, <2>1 DEF Inflate, budgetVars, InflatedWithinCap, TypeOK
  <1>4. CASE FinishRead
    <2>1. /\ remaining' = remaining - out /\ consumed' = consumed + out /\ out' = 0
          /\ remaining \in Nat /\ consumed \in Nat /\ out \in Nat
      BY <1>4 DEF FinishRead, TypeOK
    <2> QED BY <2>1 DEF InflatedWithinCap
  <1> QED BY <1>1, <1>2, <1>3, <1>4 DEF Next

-----------------------------------------------------------------------------
(* The ratio rule.                                                         *)

\* The strengthening: what has come out of the entry read last respects the
\* ratio against its stored bytes, and is no more than its stream holds; an
\* entry that is inflating passed the free check; a bomb status is earned.
RatioInv ==
    /\ reading = 0 => out = 0
    /\ reading # 0 =>
         /\ out <= Source.actual
         /\ out > 0 => ~RatioExceeded(out, entries[reading].compressed_size)
    /\ phase = "inflating" =>
         ~RatioExceeded(entries[reading].declared_size, entries[reading].compressed_size)
    /\ status \in {"ratio", "overrun"} => phase = "failed" /\ reading # 0
    /\ phase # "failed" => status = "none"
    /\ phase \in {"opening", "scanning"} => reading = 0
    /\ BombsAreBombs

LEMMA RatioStep == TypeOK /\ RatioInv /\ [Next]_vars => RatioInv'
  <1> SUFFICES ASSUME TypeOK, RatioInv, [Next]_vars PROVE RatioInv'
    OBVIOUS
  <1> USE ArchiveLimitsAssumption
  <1>1. CASE Open
    BY <1>1 DEF Open, OpenStatus, RatioInv, BombsAreBombs
  <1>2. CASE ScanRecord
    <2>1. UNCHANGED <<reading, out>> /\ reading = 0 /\ status = "none" /\ phase = "scanning"
      BY <1>2 DEF ScanRecord, RatioInv
    <2>2. \/ phase' = phase /\ status' = status
          \/ phase' = "failed" /\ status' \in {"unsupported", "ambiguous"}
      BY <1>2, ScanCases DEF Refused, Fail, PassedOver, Reported, Added
    <2> QED BY <2>1, <2>2 DEF RatioInv, BombsAreBombs
  <1>3. CASE ScanDone
    BY <1>3 DEF ScanDone, RatioInv, BombsAreBombs
  <1>4. ASSUME NEW e \in DOMAIN entries, StartRead(e) PROVE RatioInv'
    <2>1. /\ e \in Nat \ {0} /\ reading' = e /\ out' = 0
          /\ UNCHANGED <<archive, entries>> /\ status = "none"
      BY <1>4 DEF StartRead, scanVars, TypeOK, EntriesType, RatioInv
    <2>2. Source' = RecordOf(e) /\ RecordOf(e).actual \in Nat
      BY <2>1, EntrySource DEF Source, RecordOf, Records
    <2>3. \/ phase' = "failed" /\ status' = "budget"
          \/ /\ phase' = "failed" /\ status' = "ratio"
             /\ RatioExceeded(entries[e].declared_size, entries[e].compressed_size)
          \/ /\ phase' = "inflating" /\ status' = "none"
             /\ ~RatioExceeded(entries[e].declared_size, entries[e].compressed_size)
      BY <1>4, <2>1 DEF StartRead, Fail
    <2> QED BY <2>1, <2>2, <2>3 DEF RatioInv, BombsAreBombs, RatioExceeded
  <1>5. CASE StopAtDeclared
    <2>1. /\ reading # 0 /\ UNCHANGED <<archive, entries, reading, out>>
          /\ phase' = "failed" /\ status' = "overrun"
      BY <1>5 DEF StopAtDeclared, Fail, scanVars, TypeOK
    <2>2. Source.actual \in Nat /\ Source' = Source /\ entries[reading].declared_size \in Nat
      BY <2>1, SourceType, EntrySource DEF Source, Records
    <2>3. Source.actual > entries[reading].declared_size
      BY <1>5, <2>2 DEF StopAtDeclared, TypeOK, Smaller
    <2> QED BY <2>1, <2>2, <2>3 DEF RatioInv, BombsAreBombs, RatioExceeded
  <1>6. CASE StreamError
    <2>1. /\ reading # 0 /\ UNCHANGED <<archive, entries, reading, out>>
          /\ phase' = "failed" /\ status' \in {"truncated", "internal"}
      BY <1>6 DEF StreamError, Fail, scanVars, TypeOK
    <2>2. Source' = Source
      BY <2>1 DEF Source
    <2> QED BY <2>1, <2>2 DEF RatioInv, BombsAreBombs, RatioExceeded
  <1>7. CASE Inflate
    <2> DEFINE info == entries[reading]
    <2>1. reading # 0 /\ UNCHANGED <<archive, entries, reading>> /\ status = "none" /\ phase = "inflating"
      BY <1>7 DEF Inflate, scanVars, TypeOK, RatioInv
    <2>2. /\ Source.actual \in Nat /\ Source' = Source
          /\ info.declared_size \in Nat /\ info.compressed_size \in Nat
      <3>1. reading \in DOMAIN entries /\ Source.actual \in Nat /\ Source' = Source
        BY <2>1, SourceType DEF Source
      <3>2. /\ RecordOf(reading) \in Records /\ archive.directory_start \in Nat
            /\ info.declared_size = RecordOf(reading).size
            /\ info.compressed_size = StoredSize(archive, RecordOf(reading))
        BY <3>1, EntrySource
      <3> QED BY <3>1, <3>2 DEF Records, StoredSize, Smaller
    <2>3. PICK n \in 1..Smaller(ReadChunk, Source.actual - out) :
             \/ phase' = "failed" /\ status' = "budget" /\ out' = out
             \/ /\ phase' = "failed" /\ status' = "ratio" /\ out' = out
                /\ RatioExceeded(out + n, info.compressed_size)
             \/ /\ phase' = phase /\ status' = status /\ out' = out + n
                /\ ~RatioExceeded(out + n, info.compressed_size)
      BY <1>7 DEF Inflate, Fail
    <2>4. n \in Nat /\ out \in Nat /\ out + n <= Source.actual
      BY <2>2 DEF Smaller, TypeOK
    <2>5. RatioExceeded(out + n, info.compressed_size) =>
             RatioExceeded(info.declared_size, info.compressed_size)
             \/ Source.actual > info.declared_size
      BY <2>2, <2>4, RatioMonotone
    <2> HIDE DEF info
    <2>6. entries'[reading'] = info /\ entries[reading] = info /\ reading' # 0
      BY <2>1 DEF info
    <2> QED BY <2>1, <2>2, <2>3, <2>4, <2>5, <2>6 DEF RatioInv, BombsAreBombs, RatioExceeded
  <1>8. CASE FinishRead
    <2>1. /\ reading # 0 /\ UNCHANGED <<archive, entries, reading, status>> /\ status = "none"
          /\ phase' = "ready" /\ out' = 0
      BY <1>8 DEF FinishRead, scanVars, TypeOK, RatioInv
    <2>2. Source' = Source /\ Source.actual \in Nat
      BY <2>1, SourceType DEF Source
    <2> QED BY <2>1, <2>2 DEF RatioInv, BombsAreBombs, RatioExceeded
  <1>9. CASE UNCHANGED vars
    BY <1>9 DEF vars, scanVars, RatioInv, BombsAreBombs, RatioExceeded, Source
  <1> QED BY <1>1, <1>2, <1>3, <1>4, <1>5, <1>6, <1>7, <1>8, <1>9 DEF Next

\* From the strengthening to what the upload can be made to inflate to.
LEMMA RatioPrices == TypeOK /\ RatioInv => AmplificationBounded
  <1> SUFFICES ASSUME TypeOK, RatioInv, out > 0, out >= RatioFloor
               PROVE  out < (MaxRatio + 1) * archive.directory_start
    BY DEF AmplificationBounded
  <1> USE ArchiveLimitsAssumption
  <1> DEFINE stored == entries[reading].compressed_size
             start == archive.directory_start
  <1>1. reading # 0 /\ out \in Nat
    BY DEF RatioInv, TypeOK
  <1>2. /\ Source \in Records /\ stored = StoredSize(archive, Source) /\ start \in Nat
        /\ start = 0 \/ Source.stored = 0 => Source.actual = 0
    BY <1>1, SourceType, EntrySource
  <1>3. start # 0 /\ Source.stored # 0 /\ Source.stored \in Nat
    BY <1>1, <1>2 DEF RatioInv, Records
  <1>4. stored \in Nat \ {0} /\ stored <= start
    BY <1>2, <1>3 DEF StoredSize, Smaller
  <1>5. ~RatioExceeded(out, stored)
    BY <1>1 DEF RatioInv
  <1> HIDE DEF stored, start
  <1>6. out \div stored <= MaxRatio
    BY <1>1, <1>4, <1>5 DEF RatioExceeded
  <1>7. out < (MaxRatio + 1) * stored
    BY <1>1, <1>4, <1>6, QuotientBound
  <1>8. (MaxRatio + 1) * stored <= (MaxRatio + 1) * start
    BY <1>2, <1>4
  <1>9. out < (MaxRatio + 1) * start
    BY <1>1, <1>2, <1>4, <1>7, <1>8
  <1> QED BY <1>9 DEF start

-----------------------------------------------------------------------------
(* A single reading.                                                       *)

\* The strengthening: a scanned archive lost no record to the crate, the
\* paths kept so far are distinct, and no record looked at is forgotten.
Accounted(i) ==
    \/ PathOf[archive.records[i].raw] = "directory"
    \/ i \in unusable
    \/ \E e \in DOMAIN entries : entries[e].index = i

ScanInv ==
    /\ phase = "opening" => next = 1 /\ entries = <<>>
    /\ phase \in {"scanning", "ready", "inflating"} =>
        /\ ~Merged(archive)
        /\ \A d, e \in DOMAIN entries : entries[d].name = entries[e].name => d = e
        /\ \A i \in DOMAIN archive.records : i < next => Accounted(i)
        /\ phase # "scanning" => next > Len(archive.records)

\* With no merged record the crate shows them all, and no two share a name.
LEMMA NothingHidden ==
    ASSUME NEW a \in Archives, ~Merged(a)
    PROVE  /\ \A i \in DOMAIN a.records : i \in Kept(a)
           /\ \A i, j \in DOMAIN a.records : a.records[i].raw = a.records[j].raw => i = j
  <1>1. a.records \in Seq(Records)
    BY ArchivesAssumption
  <1>2. ASSUME NEW i \in DOMAIN a.records PROVE i \in Kept(a)
    <2> DEFINE last == Len(a.records)
    <2>1. last \in DOMAIN a.records /\ i \in Nat /\ i <= last /\ last \in Nat
      BY <1>1
    <2>2. last \in Kept(a)
      BY <1>1, <2>1 DEF Kept
    <2> QED BY <2>1, <2>2 DEF Merged
  <1>3. ASSUME NEW i \in DOMAIN a.records, NEW j \in DOMAIN a.records,
               a.records[i].raw = a.records[j].raw
        PROVE  i = j
    BY <1>1, <1>2, <1>3 DEF Kept
  <1> QED BY <1>2, <1>3

LEMMA ScanStep == TypeOK /\ ScanInv /\ [Next]_vars => ScanInv'
  <1> SUFFICES ASSUME TypeOK, ScanInv, [Next]_vars PROVE ScanInv'
    OBVIOUS
  <1>1. CASE Open
    <2>1. /\ phase' = "failed" \/ (phase' = "scanning" /\ ~Merged(archive))
          /\ next' = 1 /\ entries' = <<>> /\ archive' = archive /\ archive \in Archives
      BY <1>1 DEF Open, OpenStatus, scanVars, ScanInv, TypeOK
    <2>2. \A i \in DOMAIN archive.records : i \in Nat \ {0}
      BY <2>1, ArchivesAssumption
    <2> QED BY <2>1, <2>2 DEF ScanInv
  <1>2. CASE ScanRecord
    <2>1. \A i \in DOMAIN archive.records : i \in Nat /\ (i < next + 1 => i < next \/ i = next)
      <3>1. archive.records \in Seq(Records) /\ next \in Nat
        BY ArchivesAssumption DEF TypeOK
      <3> QED BY <3>1
    <2>2. /\ next \in DOMAIN archive.records /\ archive \in Archives
          /\ archive' = archive /\ phase = "scanning" /\ next \in Nat
      BY <1>2, ScanCases DEF TypeOK
    <2>3. CASE Refused
      BY <2>3 DEF Refused, Fail, ScanInv
    <2>4. CASE PassedOver
      <3>1. NextPath = "directory"
        BY <2>2, <2>4, NothingHidden DEF PassedOver, ScanInv
      <3>2. \A i \in DOMAIN archive.records : i < next' => Accounted(i)'
        BY <2>1, <2>2, <2>4, <3>1 DEF PassedOver, ScanInv, NextPath, Accounted
      <3> QED BY <2>2, <2>4, <3>2 DEF PassedOver, ScanInv
    <2>5. CASE Reported
      <3>1. \A i \in DOMAIN archive.records : i < next' => Accounted(i)'
        BY <2>1, <2>2, <2>5 DEF Reported, ScanInv, Accounted
      <3> QED BY <2>2, <2>5, <3>1 DEF Reported, ScanInv
    <2>6. CASE Added
      <3> DEFINE info == EntryInfo(archive, next)
      <3>1. /\ entries' = Append(entries, info) /\ next' = next + 1
            /\ UNCHANGED <<phase, unusable>>
        BY <2>6 DEF Added
      <3>2. info.index = next /\ info.name = NextPath
        BY DEF EntryInfo, NextPath
      <3>3. \A e \in DOMAIN entries : entries[e].name # NextPath
        BY <2>6 DEF Added, Claimed
      <3> HIDE DEF info
      <3>4. /\ DOMAIN entries' = 1..Len(entries) + 1 /\ DOMAIN entries = 1..Len(entries)
            /\ Len(entries) \in Nat
            /\ \A e \in DOMAIN entries : entries'[e] = entries[e]
            /\ entries'[Len(entries) + 1] = info
        BY <3>1 DEF TypeOK, EntriesType
      <3>5. ASSUME NEW d \in DOMAIN entries', NEW e \in DOMAIN entries',
                   entries'[d].name = entries'[e].name
            PROVE  d = e
        BY <2>2, <3>2, <3>3, <3>4, <3>5 DEF ScanInv
      <3>6. \A i \in DOMAIN archive.records : i < next' => Accounted(i)'
        <4>1. ASSUME NEW i \in DOMAIN archive.records, i = next PROVE Accounted(i)'
          BY <4>1, <2>2, <3>2, <3>4 DEF Accounted
        <4>2. ASSUME NEW i \in DOMAIN archive.records, Accounted(i) PROVE Accounted(i)'
          BY <4>2, <2>2, <3>1, <3>4 DEF Accounted
        <4>3. \A i \in DOMAIN archive.records : i < next => Accounted(i)
          BY <2>2 DEF ScanInv
        <4> QED BY <2>1, <3>1, <4>1, <4>2, <4>3
      <3> QED BY <2>2, <3>1, <3>5, <3>6 DEF ScanInv
    <2> QED BY <1>2, ScanCases, <2>3, <2>4, <2>5, <2>6
  <1>3. CASE ScanDone
    BY <1>3 DEF ScanDone, scanVars, ScanInv, Accounted
  <1>4. ASSUME NEW e \in DOMAIN entries, StartRead(e) PROVE ScanInv'
    BY <1>4 DEF StartRead, Fail, scanVars, ScanInv, Accounted
  <1>5. CASE StopAtDeclared \/ StreamError
    BY <1>5 DEF StopAtDeclared, StreamError, Fail, scanVars, ScanInv, Accounted
  <1>6. CASE Inflate \/ FinishRead
    BY <1>6 DEF Inflate, FinishRead, Fail, scanVars, ScanInv, Accounted
  <1>7. CASE UNCHANGED vars
    BY <1>7 DEF vars, scanVars, ScanInv, Accounted
  <1> QED BY <1>1, <1>2, <1>3, <1>4, <1>5, <1>6, <1>7 DEF Next

-----------------------------------------------------------------------------
\* The inductive invariant.
ArchiveInv == TypeOK /\ InflatedWithinCap /\ RatioInv /\ ScanInv

LEMMA ArchiveInit == Init => ArchiveInv
  <1> SUFFICES ASSUME Init PROVE ArchiveInv
    OBVIOUS
  <1>1. TypeOK
    BY TypeInit
  <1>2. InflatedWithinCap /\ RatioInv /\ ScanInv
    BY ArchiveLimitsAssumption DEF Init, InflatedWithinCap, RatioInv, BombsAreBombs, ScanInv
  <1> QED BY <1>1, <1>2 DEF ArchiveInv

\* The invariant all the theorems below are read off.
THEOREM ArchiveSafe == Spec => []ArchiveInv
  <1>1. ArchiveInv /\ [Next]_vars => ArchiveInv'
    BY TypeStep, CapStep, RatioStep, ScanStep DEF ArchiveInv
  <1> QED BY ArchiveInit, <1>1, PTL DEF Spec

\* Every variable of the archive reader keeps its type.
THEOREM ArchiveTypeCorrect == Spec => []TypeOK
  <1>1. ArchiveInv => TypeOK
    BY DEF ArchiveInv
  <1> QED BY ArchiveSafe, <1>1, PTL

\* read_entry never holds more inflated bytes than max_uncompressed_bytes,
\* whatever sizes the central directory declares.
THEOREM CapSafe == Spec => []InflatedWithinCap
  <1>1. ArchiveInv => InflatedWithinCap
    BY DEF ArchiveInv
  <1> QED BY ArchiveSafe, <1>1, PTL

\* check_ratio bounds the inflation of every entry by the bytes in front of
\* the central directory, whatever stored size is declared.
THEOREM AmplificationSafe == Spec => []AmplificationBounded
  <1>1. ArchiveInv => AmplificationBounded
    BY RatioPrices DEF ArchiveInv
  <1> QED BY ArchiveSafe, <1>1, PTL

\* An entry refused as a bomb is too large for its stored bytes by its own
\* header, or larger than its header says.
THEOREM BombsJustified == Spec => []BombsAreBombs
  <1>1. ArchiveInv => BombsAreBombs
    BY DEF ArchiveInv, RatioInv
  <1> QED BY ArchiveSafe, <1>1, PTL

\* refuse_merged_records and scan together leave an archive one reading.
THEOREM ReadingUnique == Spec => []SingleReading
  <1>1. ASSUME ArchiveInv PROVE SingleReading
    <2> SUFFICES ASSUME phase \in {"ready", "inflating"}
                 PROVE  /\ \A i, j \in DOMAIN archive.records :
                              archive.records[i].raw = archive.records[j].raw => i = j
                        /\ \A d, e \in DOMAIN entries : entries[d].name = entries[e].name => d = e
                        /\ \A i \in DOMAIN archive.records : Accounted(i)
      BY DEF SingleReading, Accounted
    <2>1. archive \in Archives /\ ~Merged(archive)
      BY <1>1 DEF ArchiveInv, TypeOK, ScanInv
    <2>2. \A i \in DOMAIN archive.records : i < next
      <3>1. archive.records \in Seq(Records) /\ next \in Nat /\ next > Len(archive.records)
        BY <1>1, <2>1, ArchivesAssumption DEF ArchiveInv, TypeOK, ScanInv
      <3> QED BY <3>1
    <2> QED BY <1>1, <2>1, <2>2, NothingHidden DEF ArchiveInv, ScanInv
  <1> QED BY ArchiveSafe, <1>1, PTL
=============================================================================
