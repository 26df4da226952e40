# A TLA+ verification of grpc-epub

grpc-epub is a gRPC service that takes an EPUB as an upload and streams it back
as typed events while it is unpacked: `info`, optionally `navigation` and
`media_overlay`, the `chapter`s and `resource`s, optionally one `document`, and
a `status` trailer. Everything happens in memory. This directory holds TLA+
models of the service and of the readers behind it, the TLC configurations that
check them on small instances, and TLAPS proofs of the properties that should
hold for every instance.

## 1. Inventory

| Component | State it keeps | Operations | Talks to | Module |
|---|---|---|---|---|
| Server process (`main.rs`) | where `serve` stands, the last line of counters | start, signal, drain, leave | tonic, call handling | `Server` |
| Call handling (`service.rs`) | the upload semaphore, the parse-slot semaphore and its FIFO queue; per call: the upload buffer, its share of the budget, two clocks | `parse_epub`, `receive`, `reserve_upload`, `next_frame`, the supervisor task | tonic (request frames, cancellation), the parse thread (`spawn_blocking`), the client through the channel | `EpubService` |
| Sink (`extract.rs`) | the bounded outbound channel, the optional fold | `emit`, `send` | the parse driver above, the client below | `EpubService`, `DocumentFold` |
| Metrics (`metrics.rs`) | monotone counters | one increment each, `snapshot`, a periodic reporter | call handling | `EpubService`, `Server` |
| Parse driver (`extract.rs`) | spine, pending resources, pre-read bytes, warnings, counters | `parse`, phase by phase | archive reader, parsers, sink | `Extract`, `StreamContract` |
| Archive reader (`archive.rs`) | decompression budget, scanned entries | `open`, `scan`, `read_entry` | the `zip` crate | `Archive` |
| Package parser (`opf.rs`) | section, pending elements, metadata, manifest, spine | `parse_container`, `parse_encryption`, `parse_package` | `quick-xml`, the driver | `Container`, `Opf` |
| Navigation parser (`nav.rs`) | a stack of open items, the tree | `parse_nav`, `parse_ncx` | `quick-xml`, the driver | `Nav` |
| Media overlay parser (`smil.rs`) | the open cue, the cues | `parse_overlay`, `parse_clock` | `quick-xml`, the driver | `Smil` |
| Document projection (`document_fold.rs`) | the document under construction, what is held for its end | `consume` per event, `take` | sink | `DocumentFold` |
| Limits, `GetServiceInfo` (`limits.rs`, `main.rs`, `service.rs`) | none (configuration) | `from_env`, `resolve`, `to_proto` | everything above | `Limits` |
| Href resolution (`href.rs`) | none | `resolve`, `normalize`, `check_entry_name` | every parser, the archive reader | `Href` |
| Date parsing (`datetime.rs`) | none | `parse` | document projection | `DateTime` |
| Generated protobuf code (`gen/`) | none | the messages and the dispatch of requests | tonic | as records in the other modules |

**What is hard here.** Calls run concurrently and share two semaphores. Each
call passes through three owners (the handler future, a blocking thread, a
supervisor task), any of which may be the one that has to give something back,
and the handler may be dropped at any of its awaits. A client may stop reading
without hanging up, resume after a time-out has fired, or trickle frames. The
parse may fail or panic at any event, and a signal may arrive at any moment of
all this. The parse driver itself is sequential, but it decides in one pass what
it will send in another, keeps bytes between the two, and promises an order of
events and a budget that a book of any shape must respect. The readers of XML
are event loops that meet documents in any order, cut anywhere, nested where
nesting was not foreseen. The fold builds from the same events a structure of
positions that refer to each other, and the ones it needs last come first.
`PROJECT.json` lists these hazards with their lines.

**What makes each part correct.**

- Server process and metrics: after a signal the process ends; the counters it
  prints account for every parse.
- Call handling: permits of both semaphores are conserved whatever way a call
  ends; a share covers its buffer; nobody waits for a slot that is free; an
  upload and a parse thread always end; a failed parse is never presented as a
  book that ended.
- Sink: the shape of the stream, and no thread pinned by a client that does not
  read.
- Parse driver: the stream `epub_service.proto` promises, for every book; a
  refusal comes before the first event; nothing obfuscated goes out; what is
  read ahead is used; the trailer tells the truth.
- Archive reader: inflation bounded by the cap and by bytes that are really in
  the upload; one reading of the directory.
- Readers: what they make of a document, at whatever point it ends or breaks, is
  what a second reading of the whole document says it holds, within their caps.
- Document projection: at every event a document that is safe to merge, and at
  the end one that tells of exactly the events the client got.
- Limits, paths, dates: agreement with a reference definition where products
  wrap, escapes combine and calendars turn.

## 2. Plan and state of the work

1. `EpubService`: call handling and sink. Done, with proofs of every safety
   property its runs check.
2. `Archive`: the reader. Done, with proofs of every invariant its run checks.
3. `StreamContract` and `Extract`: the protocol's promise and the driver that
   has to keep it. Done, with proofs of every invariant and of the refinement.
4. `Server`: the process composed of the calls, its shutdown and its last line.
   Done, with the proof that it implements `EpubService` and of its invariant.
5. `DocumentFold`: the projection and what it leaves behind. Done, with proofs
   of every property its run checks.
6. `Xml`, `Nav`, `Smil`, `Container`, `Opf`: the readers. Done, with proofs of
   their caps (`CapsHold`) and of what they make of the two documents of META-INF
   (`MetaInfIsRead`), of packages (`PackageIsRead`) and of overlays
   (`OverlayIsRead`).
7. `Limits`, `Href`, `DateTime`: done, with proofs of all three properties.
8. Left: a proof of what the readers make of tables of contents
   (`OutlineIsWritten`), which is model-checked.

`Server` extends `EpubService` with the process around the calls; `Extract`
instantiates `StreamContract`; `Nav`, `Smil`, `Container` and `Opf` are fed by
`Xml`. The other modules meet at their edges only. `EpubService` sees a parse as
the events it may send next, in the order `Extract` produces them; `Extract`
sees a read as something that yields an entry or ends the call, which is what
`Archive` decides, and a book as what the readers make of it; `Archive` lets the
driver ask for any entry at any time; `DocumentFold` takes any stream of the
order `StreamContract` allows; the caps `Limits` derives are constants of
`EpubService` and `Archive`. So each module lets its neighbours do at least what
the other modules show them doing, and no product of them is needed.

## 3. The modules and the code

### EpubService (`service.rs`, the sink of `extract.rs`, `metrics.rs`)

A call is sequential although three owners take turns at it, so one control
point `pc[c]` says where it is; the module's header lists the points. Besides
it, a call has its upload (`len`, `capacity`, the cap `resolve` gave it, the
permits it holds), the two clocks of `UploadClock`, the outbound channel with
what the client has read from it, and how its stream ended. The semaphores and
the metrics are shared.

| Actions | Code |
|---|---|
| `Connect`, `OptionsFrame`, `MisplacedFrame` | the start of `parse_epub` up to the resolved options |
| `Tick`, `Timeout`, `NextFrame` | `UploadClock`, `next_frame`: the idle clock restarts, the deadline does not |
| `ChunkFrame`, `EmptyFrame`, `TransportError`, `EndOfUpload` | the loop of `receive`, its refusals in their order; `GrowthTarget` and `Missing` are the growth rule and `reserve_upload` |
| `DropShare`, `DropBuffer` | the drop order of `receive`'s locals when it fails or is dropped |
| `StartParse` | the permit is held: counter, `spawn_blocking`, supervisor |
| `Send`, `SendWaiting`, `StallTimeout`, `ParseFails` | `Sink::emit` and `Sink::send` in the parse thread; every way `run` can return |
| `Join`, `Report`, `ReleaseSlot`, `ReturnShare` | the supervisor task |
| `ClientRead`, `ClientEnd`, `Cancel` | external: the client, and what tonic does with a dropped call |

The semaphore is tokio's: fair, a released permit going to the longest waiter,
a cancelled waiter leaving its place or handing on the permit it was just
given (`PassSlot`, `DropHandler`). A chunk is its length. An event is `event`,
`document`, `status` or `error`.

### Server (`main.rs`, `metrics.rs`)

`Signal` is `shutdown_signal`; `Drained` is `serve_with_shutdown` returning once
no response is open; `Return` prints `Snapshot` and leaves `serve`; `Exit` is
the runtime being dropped, which drops tasks where they stand and waits for the
blocking threads. `Polled` says which parts of a call still run in each phase,
`Arriving` when clients can still do something. A call that hung up keeps no
connection open, so its supervisor may still be at work when the rest has
drained; that is why `FinalLineTells` allows for those calls.

### Archive (`archive.rs`)

An archive is the records of its central directory, how many directory
signatures its payloads happen to contain, where the directory starts and
whether the crate can read it. A record's declared sizes and the bytes its
stream really yields are independent. `Open`, `ScanRecord` and `ScanDone` are
`open` and `scan`; `StartRead`, `Inflate`, `StopAtDeclared`, `StreamError` and
`FinishRead` are `read_entry`: the checks on declared sizes, the chunk loop
that repeats them on real ones, and the charge. The zip crate is external; it
is modelled by what the code relies on or guards against: of several records
with one raw name it keeps the last (`Kept`), and it stops an entry that passes
its declared size. `Inflate` does not depend on the latter, as the code does
not.

### StreamContract (`epub_service.proto`)

The comment on `ParseEpub` as a state machine: what may follow what, that
resources come in archive order, and that the status comes only when every
announced chapter is out. A stream may fail at any point before its status.

### Extract (`extract.rs`)

A book is what the parsers make of it: the headers, a manifest whose items
resolve to archive positions (0 for none), a spine of ids. One action per phase
of `parse`, and one per turn of its loops:

| Actions | Code |
|---|---|
| `CheckEncryption`, `CheckMimetype`, `CheckContainer`, `ReadPackage` | the checks up to the parsed package, each with its refusal |
| `ResolveSpine`, `EmitInfo` | every itemref settled (`ChapterSource` follows fallbacks), then `info` |
| `PlanWalk` | `Disposition` of every manifest item, the sort, the skip count and the warnings |
| `ReadNavigation`, `ReadOverlay`, `OverlaysDone` | the passes that read ahead of the walk and hold bytes for it |
| `EmitResource`, `EmitChapter`, `EmitStatus` | the merge of spine and resources, and the trailer |

Any read may fail (`Unreadable`), and any emit may find the client gone
(`Gone`). `reads` and `events` are histories the properties look at; the code
keeps no such lists.

The refinement mapping `Contract` reads the abstract state off the history of
events: the stage from the outcome and from whether a chapter or resource is
out, `announced` from `info`, `reached` from the last resource.
`KeepsContract` is `Contract!Spec`.

### DocumentFold (`document_fold.rs`, `Sink::emit` of `extract.rs`)

The fold sees every event before it is sent. `SetSourceHash`, `EmitInfo`,
`EmitNavigation`, `EmitOverlay`, `EmitChapter`, `EmitResource` are the arms of
`consume`; each is followed by the send, which may find the client gone (`Emit`).
`EmitStatus` is the trailer: `Take` projects the outline (`ProjectOutline`, the
stack of `(next, level)` walked by a recursive function) and the held overlays
(`ProjectOverlays`), and the document goes out before the status. Items refer to
each other by JSON pointer, `<<arena, index>>` here. The metadata mapping is
`SourceMeta`, `BodyMeta`, `Credits`, `OpenFacts`, `Extra`. `IntegrityErrors` is
the code's own `integrity_errors`.

### Xml, Nav, Smil, Container, Opf (`nav.rs`, `smil.rs`, `opf.rs`)

`Xml` is what `quick-xml` hands a reader, one event at a time: start, empty and
end tags, words, white space, references, CDATA sections, a document type. `Hand`
is for a reader that is only handed matching end tags; `HandUnchecked` is for
`nav.rs`, which turns the check of end names off and allows unmatched ones: an end
tag of any name closes the innermost element, or none. `Xml` also keeps the
document read so far, each event with the elements it stands in; the readers
never look at that, the properties do. Every arm of an event loop is an action,
and since a reader may be asked at any event, a document that ends or breaks is
every prefix.

| Module | Actions and operators | Code |
|---|---|---|
| `Nav` | `StartNav`, `StartItem`, `StartTitle`, `ReadText`, `NavEnd`, `Drain`, `NavOutline` | `parse_nav`: the stack of open items, the caps, the drain after a break |
| | `NavEmpty`, `PassText` | the events the two loops do not look at: empty elements of a navigation document; references and CDATA sections |
| | `NcxMap`, `NcxPoint`, `NcxText`, `NcxContent`, `NcxEmpty`, `NcxEnd`, `NcxOutline` | `parse_ncx` |
| `Smil` | `StartPar`, `StartText`, `StartAudio`, `SmilEnd`, `Push`, `Overlay` | `parse_overlay` and its cap; `ParseClock`, `ResolveSrc`, `DurationMs` are the helpers of those names |
| `Container` | `StartRootfile`, `OrFirst`, `Rootfile` | `parse_container` |
| | `StartRecord`, `EmptyRecord`, `Describe`, `EndRecord` | `parse_encryption` |
| `Opf` | `PackageDoctype`, `PackageOpen`, `PackageText`, `PackageRef`, `PackageClose` | the arms of `parse_package` and `PackageParser` |
| | `FinishMetadata`, `Refined`, `MainTitle`, `Derive`, `Verdict` | `finish_metadata`, `derive`, the checks at the end |

`MCReaders` puts them side by side: a behaviour chooses a reader, the length of
its document and, for a table of contents, the cap, and then writes the document
tag by tag, and each of its properties is about the documents of its reader.
`InPlace` keeps to the places the format has, or nearly has, for a
tag, at the level of `Parents`. A table of contents may hold one event that is
odd (`Odd`, `OddNext`): a reference or a CDATA section in a title, an empty
element that only makes sense with content, or a stray end tag, called like what
ends a title or like nothing, anywhere in the document.

### Limits, Href, DateTime (`limits.rs`, `href.rs`, `datetime.rs`)

Pure functions, each under a small machine that produces its inputs: an
environment and then the options of one call; a string grown token by token; a
calendar walked one day at a time. `FromEnv`, `Resolve` and `Advertised` keep
the code's widths (`Wrapping`, `Saturating`, `Narrowed`), scaled down. `Href`
works on sequences of bytes and escapes: `PercentDecode`, `Split`, `Walk`,
`Normalize`, `ResolveHref`, `CheckEntryName`; the base directories are normal
(`IsNormal`), which is what `resolve` asks of its callers. `DateTime` parses a text given by
its fields: `DateParts`, `ClockParts`, `SplitOffset`, `DaysFromCivil`, `Parse`;
its calendar may be entered at any first of January, with the days before it
(`NewYear`).
`MCValues` puts the three side by side.

## 4. What the runs check

| Run | Instance | What it shows |
|---|---|---|
| `service_calls` | 2 calls, 1 slot, 3 budget units of 2 bytes (configured as 1 and raised to one upload), a cap of 5 under a maximum of 6, chunks of 0, 1, 3 and an oversized 4, a channel of 1, up to 2 events, with and without a document | permits and slots conserved, shares cover buffers, no lost wake-up, every parse counted once, the shape of the stream, nothing held after a clean end, truncation only after a stall, a lone call never refused for want of budget |
| `server_live` | 2 calls, 1 slot, a deadline of 2 idle periods, a signal at any moment | uploads end and parse threads are freed, whatever the clients do; with clients that read, every call ends and after a signal the process does; the last line accounts for every parse |
| `archive_reader` | all directories of up to 3 records over 5 names, plain, encrypted or exotic; entries of up to 4 bytes stored in up to 2 with lying headers; 3 reads | cap, ratio and single reading; bombs are bombs |
| `extract_books` | headers and spines that are broken in each way; 3 items over 3 entries in every arrangement, with obfuscation, nesting, remote links, overlays and navigation sharing entries; fallback graphs over 4 items, chain cap 3; 2 option sets | the contract, the order of the walk, the trailer, the held bytes; a readable chapter is found whenever there is one; the parse ends |
| `document_fold` | 2 metadata sections, 2 tables of contents, up to 2 chapters, 1 resource and 2 overlays over 2 paths, a chapter read from a fallback, cut at any event | safe to merge at every event; outline, narration and credits reach their place; the document tells of what was delivered |
| `readers` | every navigation document of up to 11 events, NCX of 10, overlay, container and encryption descriptor of 5, package document of 9, over tags chosen for what the readers tell apart; tables of contents with an odd event, and package documents with a document type, 2 events shorter; caps of 1 and 2 entries, depth 2, 2 cues | the outline, the cues, the rootfile, the records and the metadata are those that are written; caps hold |
| `values` | 720 environments under 24 option sets with 8-bit byte counts and 4-bit options; strings of up to 5 tokens over 9 under 2 base directories; nine years from each of 0001, 1896, 1970 and 1996, and from 9995 to the end | limits fit together and are granted as advertised; paths stay inside, are normal and find their entries; dates agree with the calendar |
| `service_no_trailer` | 1 call | *violated*: OK without a trailer |
| `service_share_held` | 1 call | *violated*: a share held for as long as the client keeps still |
| `extract_narration` | an item that may have no id | *violated*: narration nobody declared |
| `document_fallback` | as `document_fold` | *violated*: an entry of the table of contents without its chapter |
| `readers_link` | navigation documents of up to 8 events | *violated*: an item that loses its link |

**Bounds.** Two calls are enough for one to take what another needs and for a
queue with one to wait, be handed the slot, and leave at any point of that; a
queue with an order and a waiter that leaves its middle is covered by the proofs
of `SlotsConserved` and `NoIdleSlotWhileQueued`, which hold for any number of
calls and slots. A unit of two bytes makes rounding visible; a cap of 5 makes
doubling overshoot it, and two calls at 5 bytes each cannot both be held by
three units. A channel of one with two events and a trailer fills, stalls and
drains. In `Archive` a ratio of 1, a floor of 2 and chunks of 2 put every check
on both sides of its edge within four bytes, and three reads overrun a cap of 4
by repetition. In `Extract` three items are enough for a chapter, a resource and
a third item that shares a file with either; the cap of three warnings is
exceeded by a book with five unusable names; four items make a fallback chain
one longer than the cap. In `DocumentFold` two chapters may be one file twice,
or one may stand in for the other; two overlays may name one chapter. The length
of a navigation document, 11, is what a nav with an item within an item takes,
both titled and both closed, and 9 with an odd event (`Shorter`) is what an item
takes with another after it, or in it, and the stray tag in any of its places;
the package's 9 are a metadata section with a title and what marks it as the
main one, or a section after another; a document type in front only decides
whether the rest counts. Words and white space are not told apart but by their
place, so more of them show nothing new.
The widths in `Limits` are scaled so that products wrap, saturate and narrow
within the environments listed.
`MaxEvents` and `MaxReads` bound what the code leaves unbounded; clocks are
counted in ticks of the smaller time-out. Symmetry is used for the calls, in the
run without liveness only. Deadlock is not checked: every model comes to an end
when its calls are served, its process has left, its book is parsed or its
document is written.

**Fairness.** `FairServer` is weak fairness of `Polled(c)` for each call and of
`Shutdown`: while there is a runtime it polls what is ready, its timers fire, a
parse does a finite amount of work between events, and `main` goes on when what
it awaits is over. No promise is made for a client or for the signal.
`EveryCallEnds` and `ShutdownCompletes` name their own assumption
(`ClientsRead`: clients read what is there, or hang up); `UploadEnds` and
`ParseThreadFreed` need none. `FairSpec` of `EpubService` is the same for the
service alone. The time-out of a frame is assumed to be taken once the clock has
run out: `timeout_at` polls the stream first, so a network that had a frame
ready at every single poll could pass a deadline by those polls. `FairSpec` of
`Extract` is weak fairness of the only thread there is. `DocumentFold` and the
readers have no liveness of their own: they are driven.

**Reference definitions.** The readers, paths, limits and dates are checked
against something that does not work the way the code does. A reader keeps a
stack and flags and looks at an event once; its reference looks at the whole
document and asks, of every element, what stands around and within it
(`NavItems`, `WrittenCue`, `Declared`, `RefiningOf`). A path's reference is the
depth of its pieces, a date's the calendar's next day, a limit's the relation to
the other limits. Where the code departs from the reference on purpose or by
mistake, the property says up to where it agrees: `PlainTitles` (see finding 5),
`EndedByTheirOwn` (no stray end tag closes an element that titles), `WithinDepth`, `PlainMetadata` (no metadata element within another),
`OuterFirst` (a par's own text and audio come before any par within it).

**Mutants.** Every property is shown to depend on the code by a mutant of the
definition it watches, named after it (`Units_Floor`, `PassSlot_NoWakeup`,
`Disposition_ById`, `Exit_AfterTasks`, `OrFirst_Last`...): a plausible mistake
under which TLC finds the property violated. Properties made of several parts
have a mutant for each part.

## 5. What is proved

All theorems hold for every value of the constants under the modules' named
assumptions.

**EpubService_proofs** assumes finitely many calls, positive limits
(`max_buffered_upload_bytes` and `max_chunk_bytes` may be zero), and that
`resolve` only narrows the cap (`InputsAssumption`).

- `SemaphoreInv` is `TypeOK`, `BudgetConserved`, `SlotsConserved` and
  `NoIdleSlotWhileQueued` together. They need each other: that a returned permit
  stays within the semaphore's type follows from conservation, and that a slot
  can be handed to the head of the queue without losing count follows from the
  queue holding exactly the calls that wait. The sum of the shares is the
  cardinality of a set of units, which makes it a matter of finite sets
  (`UnitsOfUpdate`) instead of an induction. From it: `TypeCorrect`,
  `BudgetSafe`, `SlotsSafe`, `QueueSafe`.
- `ShareInv` strengthens `ShareCoversBuffer` with where a buffer is known to be
  empty: options may only arrive before the first byte, and a joined parse has
  dropped its upload. From it: `SharesSafe`.
- `RefusalsJustified` is an action property: were no other share held, the
  whole budget would be this call's, and `TotalBudget` covers its cap.

**Server_proofs** assumes the same.

- `MetricMoves` sorts the steps of the service by what the metrics see of them:
  a step leaves them alone, begins a parse, or counts one (`Uncounted`, `Begins`,
  `Counts`); passing on a slot is of the first kind because the head of the queue
  waits. From it `MetricsSafe`.
- `EndInv` says of each call what is known of its outcome where it stands
  (`OutcomeKnown`), and what of that its client has been told (`OutcomeTold`): an
  error status is on the channel only behind a failure and past `Report`, a
  complete parse has its status on the channel or read, a refused call never ends
  well. A step of one call leaves the others `Undisturbed` but for a slot handed
  on. From it, with `ShareInv`, `CleanEndSafe`, and `TruncationSafe`.
- `ServerRefines`: every step of the process is a step of the service or leaves
  it alone, so `ServerSpec => Spec`, and every theorem above holds of the process
  too.
- `FinalInv`: once the connections are gone, only calls that hung up still have a
  parse to be counted. It needs `EndInv` (a response that ended is past its
  parse) when the drain ends, and `MetricsBalance` when the line is printed.
  From it: `FinalLineSafe`.
- `StreamInv` says of a call's stream, what the client read and what waits in the
  channel as one sequence, that it is the beginning of one the protocol allows
  (`Wellformed`), and where the call stands for it: nothing before the parse, no
  trailer while the parse runs, an event that may follow held by a parse that
  waits, room for an error status behind a failure. The last part is what makes
  it inductive: `Report` appends without looking. From it: `StreamSafe`.

**Archive_proofs** assumes natural limits and that an entry stored in no bytes
inflates to none.

- `ArchiveInv` is `TypeOK`, `InflatedWithinCap`, `RatioInv` (what is inflated has
  passed the ratio rule, as did the declared size) and `ScanInv` (nothing is
  merged, the records passed are accounted for, and no path is claimed twice).
  From it: `ArchiveTypeCorrect`, `CapSafe`, `AmplificationSafe` (by `QuotientBound`,
  integer division against a product), `BombsJustified` (by `RatioMonotone`) and
  `ReadingUnique` (by `NothingHidden`: if no dropped record precedes a kept one,
  none was dropped).

**Extract_proofs** assumes well-formed books.

- `RefusalInv`: no event has gone out in a phase that can refuse. From it:
  `RefusalsEarly`.
- `HeldInv`: what is held is wanted, before the walk by its plan or by an overlay
  pair still to come, during the walk by a chapter or a resource still to be
  sent. Without the first half nothing is known when the walk begins, and
  without the second nothing when it ends. From it: `HeldBytesReturned`, which says
  of both phases that nothing is held but for a use still to come, and of the end
  that nothing is held at all, the `debug_assert` at the end of `parse`.
- `SpineInv`, `PlanInv` and `SentInv`: the spine is what the itemrefs come to, the
  plan is a strictly increasing sequence of entries that may be sent, none of them
  a chapter's, and whatever went out is before all that is still planned. That the
  plan is sorted is a fact about the sort of a finite set (`SortedList`). With
  `DoneInv` they give `WalkInOrder`: spine and archive order, no file both as a
  chapter and as a resource nor twice as a resource, however far apart, and when
  the stream is complete every file it owes (`Owed`) has gone out (`AllSent`).
- `ObfuscatedStays`: what may be sent is not obfuscated, and since every item whose
  file did not go out is counted as skipped, the trailer counts each item of such
  a file (`TrailerCounts`).
- `CountInv` ties the counters to the events and gives `StreamAsPromised`: under
  `Contract` every step is a step of `StreamContract` or a stutter.
- `WarnInv` and `DoneInv`: a skipped item never goes without a warning, the cap of
  warnings notwithstanding, and what was planned is sent or still planned. From
  them: `StatusTellsAll`.
- `ReadsInv`: an entry of the walk has been inflated once per sending, and once
  more if it is held. From it: `InflatedOncePerSending`.
- A fallback chain that ends, ends within the cap or is cut there; where the
  search stops is the least place at which it can, so that nothing readable
  within reach is passed by. From it: `ReadableChapters`.

**DocumentFold_proofs** assumes typed metadata and tables of contents in which
an entry comes after the one above it.

- `Linked` is a document in which every item is listed once, by the parent it
  names, and `FoldInv` that the document is linked at every step and that what is
  held for the trailer has its type (`Foldable`). Each arm of `consume` adds an
  item and its listing; the projections at the end change neither. From it:
  `FoldIsMergeSafe`.
- `TellInv`: the groups and pictures are those of the events folded so far, in
  their order, and what the client got is the fold of all it was sent, or of one
  event more. From it: `DocumentTellsAll`.
- `WalkLists` is what the recursive walk of a table of contents computes: every
  entry once, parents before children, siblings in order. Each call lists the
  entries of its branch (`InBranch`), by induction on how many are left.
- `HeldInv` says that what waits for the trailer is what was folded, with the last
  chapter of each path; with `WalkLists` it gives `OutlineIsResolved`, and
  with the last overlay of each chapter `CuesReachChapters`.
- `CreditsAreKept` is a fact about the metadata mapping: counting creators by name
  before and after the stable partition into marked authors and others.

**Values_proofs** assumes positive widths, units and caps and environments and
options within their widths, base directories that are normal, and a calendar
entered at first of Januaries with their number. The invariants only say what
the inputs can be.

- `LimitsAlwaysAgree` is arithmetic: a product that saturates, one that wraps, and
  a quotient rounded up and narrowed, each against the number of permits.
- `PathsAlwaysAgree`: a loop of `href.rs` is a recursion over a sequence (`Runs`),
  and what holds of the empty sequence and of one more element holds of all
  (`GrowingUp`, `CountingUp`). `IsSplit`, `IsWalk`, `IsText` and `IsSum` say what
  splitting, walking, joining and measuring a path compute. A walk that never
  leaves the root ends in a normal path; a normal path is split into its own
  pieces and walked to itself; and the walk leaves the root exactly when the sum
  of its steps is negative somewhere (`InDepth`).
- `DatesAlwaysAgree`: `DaysFromCivil` is taken apart into the days before the year
  that starts in March, before the month and of the month; each grows from day to
  day, month to month and year to year (`YearsGrow`, `MonthsGrow`) as the calendar
  does, so that the following day is one more (`DayAfter`). What is written is
  read as written (`DayRead`, `ClockRead`, `ZoneRead`), and offsets are quotients
  and remainders of a day (`LateTimes`).

**Readers_proofs** assumes positive caps, start and empty tags (and document
types, for META-INF), clock values whose fields are integers or unreadable and
that have one field when they have a unit, and that only a document type declares
an entity. Nothing is assumed of which tags stand in which.

- `CapsAlwaysHold`: `NavInv` counts the finished entries where they are, at the
  root or below an item still open, together no more than `entries`, and none too
  deep for where it is; without the second place nothing is known when an item
  is finished into the one around it, or drained. `SmilInv` keeps room for the
  cue that is pushed after the loop.
- `XmlInv` says of the document that what is open, and what stood around any
  event, are start tags in order, one within the other. It is what makes
  `Enclosing`, `Nearest` and `Closed` of an earlier event stay what they were.
- `MetaInfIsAlwaysRead`: `RootInv` keeps the first rootfile until a typed one is
  returned. `RecordInv` matches the open records with the record elements open in
  the document, each with the algorithm and the reference nearest to it, and
  `FoundInv` numbers the records found by a bijection with the elements closed:
  a nested record is closed before the one around it, so found and written order
  differ, and only the bijection is inductive.
- `OverlayIsAlwaysRead`: `CuesInv` says that the cues are what was narrated up to
  the last par, whose cue is kept apart while it is current. A text or an audio
  belongs to the last par that began (`OuterFirst`), which is the innermost.
  `ClockIsRead` shows that folding the fields of a clock is hours, minutes and
  seconds.

**Package_proofs** assumes tags whose elements have names, that only a document
type declares an entity, and entities named unlike the kinds of events
(`OpfAssumption`), besides what `Readers_proofs` does. `PackageIsAlwaysRead` is
its theorem.

- The places of a document that are some of it, in their order, are given by
  their own properties (`Orders`, `OrderIs`), and what stands there as a list
  (`List`): a place more appends what stands at it (`ListMore`), and what is
  listed of a list is a list (`Picked`).
- `PackageInv`: the section the parser is in is the outermost that is open
  (`Sectioned`), which is what decides of an item or an itemref, whatever stands
  around it in between; manifest and spine are the lists of those in the document
  so far (`BookRead`); and a document is refused for its root or for an entity.
  With the verdict at the end it gives `SectionsAreWritten` and `AcceptedIsSound`.
- `MetadataInv`, as long as no metadata element stands in another: what is stored
  are the elements that are closed, refining ones apart (`Stores`), and the element
  that is collected is the innermost of the metadata that is open, everything
  kept before it being closed, with the text read within it so far (`Collects`).
  The second half is what makes it inductive: an end tag stores an element
  exactly when it closes the one collected, because none of its name is open
  within, and only elements with names are open (`OpenNamed`).
- `AttachIs` and `AttachedIs` turn the loop of `finish_metadata` into what each
  entry gains: what names its id, if it is the first that has it, after what EPUB
  2 says in its own attributes. With `Stores` this is `MetadataIsWritten`. The
  first of some entries is the one that stands first in the document (`FirstOf`),
  and an entry is marked by what refines it and never by its attributes
  (`MarkedIs`): `MainTitleIsMarked`.

**Induction.** The library's induction theorems take an operator as a parameter,
which none of the installed provers instantiates. The recursions above are
reasoned about by least counterexample instead: the set of numbers for which a
statement fails has a least element if it has any (`WFMin`,
`NatLessThanWellFounded`), and that one is refuted.

**Only model-checked**: liveness (`EveryCallEnds`, `UploadEnds`,
`ParseThreadFreed`, `ShutdownCompletes`, `ParseEnds`), which is out of the
prover's reach; and `OutlineIsWritten`, one property of the readers. It holds the
tree of open and finished items against a second reading of the document that
drops items too deep, past the cap or without a label. Which item the cap drops is
decided where items end and not where they begin, so an invariant would have to
order the items by their ends and by their places at once, in a tree whose
branches are still open.

## 6. Where code and documentation disagree

Each of these is a run that TLC answers with a counterexample; `PROJECT.json`
quotes the lines.

1. A client that resumes after the stall time-out sees its stream end with OK
   and no trailer, which the protocol says cannot happen (`service_no_trailer`).
2. The supervisor's send of an error status has no time limit, and slot and share
   wait behind it (`service_share_held`). A drain waits behind it too:
   `ShutdownCompletes` needs clients that read.
3. A manifest item without an id becomes the overlay of every item without a
   `media-overlay` attribute (`extract_narration`).
4. A chapter read from the fallback of its spine item is recorded under the
   fallback's path alone, so entries of the table of contents and overlays that
   name the item itself lose it (`document_fallback`).
5. A span within the anchor of an item replaces the item's href by the empty one
   of the span (`readers_link`).

Smaller ones, or ones about a wording, have no run of their own:

- A corrupt entry is answered with `INTERNAL` (`archive.rs:123`), which the
  repository's README (line 194) describes as a bug of the server.
- An entry that the spine names twice is read and sent twice (`extract.rs:950`,
  against "Every archive entry goes out at most once" at line 48).
- The ratio applies from the floor on, where the documentation of the limit says
  the floor must be exceeded (`limits.rs:44`, `archive.rs:450`).
- A failing `receive` drops its permit before its buffer, so for an instant a
  buffer is alive that no permit pays for (`service.rs:348`, against
  `service.rs:7`); the model has that instant as the control point `unshared`.
- A size in MiB is multiplied without a check: in a release build a large one
  wraps, and may come out as zero (`limits.rs:153`). `NeverLooser` and
  `LimitsFitTogether` are stated so that they hold even then. A
  `max_concurrent_parses` above tokio's `MAX_PERMITS` stops the process at its
  start.
- An entry name of exactly `MAX_PATH_BYTES` is refused where a resolved href of
  that length is accepted; `AcceptedIsNormal` leaves that length out. `%+4` is
  decoded although it is no escape.
- A timestamp within an offset of 0001-01-01 or of 9999-12-31 leaves the range
  protobuf gives a `Timestamp`.
- `nav.rs` does not look at references and CDATA sections, so a title written
  `Q&amp;A` becomes `QA` (`nav.rs:271` and the NCX's loop, against "The link text,
  with markup stripped and whitespace collapsed" at `nav.rs:61`; `opf.rs` handles
  references). `OutlineIsWritten` takes a title to be its literal text, and is
  checked with such events (`PassText`).
- `nav.rs` tolerates unmatched end tags for the sake of a stray `</br>`
  (`nav.rs:163`), but counts every one as the end of an element: at the depth of an
  item or of a nav one closes it, whatever the tag's name, and the
  end tags after it each count for the element further out. Within a title one ends the element and leaves the title open
  until the next `</a>`, `</span>` or `</text>`. `OutlineIsWritten` takes an element
  to end where its depth does, and excludes stray tags that end a title's element
  (`EndedByTheirOwn`).
- A title that metadata mark as the main one becomes the title, wherever it stands
  (`opf.rs:836`), where `types.proto:217` says "Only the first title is reported"
  and `types.proto:273` that "The scalar fields keep the first value of a
  single-valued element". `MainTitleIsMarked` is what the code does.
- Past `MAX_DEPTH` an entry is lost; an item without a label takes its subtree with
  it; an ancestor that closes once `MAX_ENTRIES` are kept drops descendants that
  were kept; the drain after a break ignores that cap, which `OutlineBounded`
  allows for by the open items. An NCX that breaks loses its open branches,
  although its policy is called the same as the navigation document's.
- `parse_clock` accepts what Rust reads as a float: only a bare number is checked
  with `is_finite`, so `inf` and `nan` pass with a unit or as a field
  (`smil.rs:116`). The model's fields are integers or unreadable, and
  what it shows of cues and durations is about those.
- The run of the overlays hands matching end tags only, where `smil.rs:191`
  tolerates any; a stray `</par>` would end the cue that is open.
- A keyed role, `epub.role.{name}`, keeps only the last role of a name;
  `CreditsKept` holds because the list beside it keeps them all.
- An `encryption.xml` or a package document that ends inside an element, if
  `quick-xml` reports just the end, loses its open records or the rest of its
  spine without an error.
- `metrics.rs:23` and `:25` call the two counters the calls "that ended with a
  `status` event" and "that ended with a gRPC error status". `Join` counts what
  `run` returned: a complete parse counts as succeeded though its client may never
  read the status, a stall counts as failed and ends with OK, and a call refused
  before its parse ends with an error status and is not counted.
- `snapshot` loads the counters one by one, so the periodic line may show more
  parses ended than started; in the final line a parse whose client hung up may
  be missing (`FinalLineTells`).

## 7. What is not modelled

- The byte and event counters of `metrics.rs`, sums that nothing reads back, and
  its periodic reporter, which only reads.
- Health, reflection, listeners and socket options of `main.rs`, delegated to
  tonic; the names and feature strings of `GetServiceInfo`, which are constants.
- Texts: the contents of chapters, the wording of warnings and statuses, where a
  date or a clock value is cut at its separators. `extract.rs`'s helpers that
  look something up in a parsed book (`is_nested_archive`, the cover, quoting)
  are part of how a book is given.
- XML tokenizing (`quick-xml`), the `zip` crate and its inflation, and the
  generated encoding and decoding of protobuf: third-party or generated. Where
  the code relies on them, the models say what it relies on.
- Item kinds of the Document messages that this fold never produces (texts,
  tables, key-values, forms), and the `opennlp`
  messages, which the Document schema refers to and the fold leaves unset.
