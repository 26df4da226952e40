---------------------------- MODULE EpubService ----------------------------
(***************************************************************************)
(* The ParseEpub handler of the tonic service and everything that runs on  *)
(* its behalf: the upload loop, the process-wide upload budget, the parse  *)
(* slots, the blocking parse behind its bounded outbound channel, and the  *)
(* supervisor task that reports the parse's end and gives both shares      *)
(* back.  Many calls run at once; each is sequential in itself (handler,   *)
(* then parse thread, then supervisor), so one control point pc[c] names   *)
(* where a call is:                                                        *)
(*                                                                         *)
(*   idle      not connected yet                                           *)
(*   opening   awaiting the options frame                                  *)
(*   receiving awaiting the next frame of the upload                       *)
(*   queued    in the FIFO queue of the parse_slots semaphore              *)
(*   granted   handed a slot, not yet polled again                         *)
(*   parsing   the blocking thread runs extract::run                       *)
(*   stalled   the blocking thread waits in send_timeout on a full channel *)
(*   returned  the thread has returned (its upload dropped); not joined    *)
(*   reporting the supervisor awaits room for the error status             *)
(*   releasing the supervisor is about to drop the parse permit            *)
(*   returning the supervisor is about to drop the upload share            *)
(*   unwinding the handler failed or was dropped; share and buffer live    *)
(*   unshared  unwinding, share dropped, buffer still live                 *)
(*   done      nothing of the call is left on the server                   *)
(*                                                                         *)
(* What a parse says is abstracted to "event" (anything before the         *)
(* trailer), "document", "status" and "error" (a gRPC status); what it is  *)
(* about is the concern of the extraction driver.                          *)
(***************************************************************************)
EXTENDS Integers, Sequences, FiniteSets

CONSTANTS
    Calls,                 \* the calls made to this process
    MaxDocument,           \* max_document_bytes
    MaxBufferedUpload,     \* max_buffered_upload_bytes, as configured
    MaxChunk,              \* max_chunk_bytes
    MaxConcurrentParses,   \* max_concurrent_parses
    BudgetUnit,            \* BUDGET_UNIT: bytes one permit stands for
    OutboundBuffer,        \* OUTBOUND_BUFFER
    IdleTimeout,           \* idle_timeout, in ticks
    UploadTimeout,         \* upload_timeout, in ticks
    DocumentCaps,          \* the per-call caps Limits::resolve can produce
    EmitDocument,          \* the emit_document options clients send
    Chunks,                \* chunk lengths a client sends
    MaxEvents              \* bound: events of one parse before its trailer

ASSUME CallsAssumption == IsFiniteSet(Calls)

ASSUME LimitsAssumption ==
    /\ MaxDocument \in Nat \ {0}
    /\ MaxBufferedUpload \in Nat
    /\ MaxChunk \in Nat
    /\ MaxConcurrentParses \in Nat \ {0}
    /\ BudgetUnit \in Nat \ {0}
    /\ OutboundBuffer \in Nat \ {0}
    /\ IdleTimeout \in Nat \ {0}
    /\ UploadTimeout \in Nat \ {0}
    /\ MaxEvents \in Nat \ {0}

\* Limits::resolve only ever narrows the server's cap.
ASSUME InputsAssumption ==
    /\ DocumentCaps \subseteq 1..MaxDocument
    /\ EmitDocument \subseteq BOOLEAN
    /\ Chunks \subseteq Nat

VARIABLES
    pc,               \* where each call is
    outcome,          \* how it ended, as the code that ended it knows it
    cap,              \* effective.max_document_bytes
    fold,             \* effective.emit_document
    len,              \* bytes.len()
    capacity,         \* bytes.capacity()
    held,             \* permits of the upload budget the call holds
    wait,             \* ticks left before the pending next_frame times out
    left,             \* ticks left before the upload deadline
    item,             \* what a stalled sender is waiting to send
    channel,          \* the outbound mpsc channel
    delivered,        \* what the client has read from it
    end,              \* the response stream as the client sees it
    upload_budget,    \* permits available in the upload semaphore
    parse_slots,      \* permits available in the parse semaphore
    slot_queue,       \* calls waiting on it, first come first served
    parses_started, parses_succeeded, parses_failed   \* Metrics

uploadVars == <<cap, fold, len, capacity, held, upload_budget>>
clockVars  == <<wait, left>>
streamVars == <<item, channel, delivered, end>>
slotVars   == <<parse_slots, slot_queue>>
metricVars == <<parses_started, parses_succeeded, parses_failed>>
vars == <<pc, outcome, uploadVars, clockVars, streamVars, slotVars, metricVars>>

Minimum(a, b) == IF a < b THEN a ELSE b
Maximum(a, b) == IF a < b THEN b ELSE a

\* Mutant: rounds down.
Units_Floor(bytes) == bytes \div BudgetUnit

\* usize::div_ceil(BUDGET_UNIT)
Units(bytes) == (bytes + BudgetUnit - 1) \div BudgetUnit

\* Mutant: the budget as configured.
TotalBudget_Unraised == Units(MaxBufferedUpload)

\* EpubGrpc::with_metrics: a budget below one upload is raised to it.
TotalBudget == Units(Maximum(MaxBufferedUpload, MaxDocument))

Refusals  == {"invalid", "too_large", "budget", "deadline", "broken", "cancelled"}
Results   == {"complete", "abandoned", "failed", "panicked"}
Items     == {"event", "document", "status", "error"}
Uploading == {"opening", "receiving"}
InHandler == Uploading \cup {"queued", "granted"}
InParse   == {"parsing", "stalled"}
\* The control points at which a call owns a permit of parse_slots.
HoldsSlot == {"granted", "returned", "reporting", "releasing"} \cup InParse
\* Started parses the metrics have not closed yet.
Unjoined  == {"returned"} \cup InParse

-----------------------------------------------------------------------------
Init ==
    /\ pc = [c \in Calls |-> "idle"]
    /\ outcome = [c \in Calls |-> "none"]
    /\ cap = [c \in Calls |-> 0]
    /\ fold = [c \in Calls |-> FALSE]
    /\ len = [c \in Calls |-> 0]
    /\ capacity = [c \in Calls |-> 0]
    /\ held = [c \in Calls |-> 0]
    /\ wait = [c \in Calls |-> 0]
    /\ left = [c \in Calls |-> 0]
    /\ item = [c \in Calls |-> "event"]
    /\ channel = [c \in Calls |-> <<>>]
    /\ delivered = [c \in Calls |-> <<>>]
    /\ end = [c \in Calls |-> "open"]
    /\ upload_budget = TotalBudget
    /\ parse_slots = MaxConcurrentParses
    /\ slot_queue = <<>>
    /\ parses_started = 0
    /\ parses_succeeded = 0
    /\ parses_failed = 0

-----------------------------------------------------------------------------
(* The upload: UploadClock, the options frame, receive, reserve_upload.    *)

\* The tonic runtime calls parse_epub, which starts both clocks.
Connect(c) ==
    /\ pc[c] = "idle"
    /\ pc' = [pc EXCEPT ![c] = "opening"]
    /\ left' = [left EXCEPT ![c] = UploadTimeout]
    /\ wait' = [wait EXCEPT ![c] = Minimum(IdleTimeout, UploadTimeout)]
    /\ UNCHANGED <<outcome, uploadVars, streamVars, slotVars, metricVars>>

\* Time passes while next_frame waits.
Tick(c) ==
    /\ pc[c] \in Uploading
    /\ wait[c] > 0
    /\ wait' = [wait EXCEPT ![c] = @ - 1]
    /\ left' = [left EXCEPT ![c] = @ - 1]
    /\ UNCHANGED <<pc, outcome, uploadVars, streamVars, slotVars, metricVars>>

\* Mutant: every frame buys the whole upload more time.
NextFrame_Renewed(c) ==
    /\ wait' = [wait EXCEPT ![c] = Minimum(IdleTimeout, UploadTimeout)]
    /\ left' = [left EXCEPT ![c] = UploadTimeout]

\* next_frame called again: the idle clock restarts, the deadline does not.
NextFrame(c) ==
    /\ wait' = [wait EXCEPT ![c] = Minimum(IdleTimeout, left[c])]
    /\ UNCHANGED left

\* The upload is over, one way or another, and both clocks with it.
StopClock(c) ==
    /\ wait' = [wait EXCEPT ![c] = 0]
    /\ left' = [left EXCEPT ![c] = 0]

\* An error return of the handler, before any of its buffers is dropped.
Refuse(c, why) ==
    /\ pc' = [pc EXCEPT ![c] = "unwinding"]
    /\ outcome' = [outcome EXCEPT ![c] = why]
    /\ StopClock(c)

\* timeout_at elapses: whichever of the two clocks was nearer.
Timeout(c) ==
    /\ pc[c] \in Uploading
    /\ wait[c] = 0
    /\ Refuse(c, "deadline")
    /\ UNCHANGED <<uploadVars, streamVars, slotVars, metricVars>>

\* The transport reports a broken request stream out of inbound.message().
TransportError(c) ==
    /\ pc[c] \in Uploading
    /\ Refuse(c, "broken")
    /\ UNCHANGED <<uploadVars, streamVars, slotVars, metricVars>>

\* The first frame carries the options, which may narrow the cap.
OptionsFrame(c) ==
    /\ pc[c] = "opening"
    /\ \E doc \in DocumentCaps, emit_document \in EmitDocument :
         /\ cap' = [cap EXCEPT ![c] = doc]
         /\ fold' = [fold EXCEPT ![c] = emit_document]
    /\ pc' = [pc EXCEPT ![c] = "receiving"]
    /\ NextFrame(c)
    /\ UNCHANGED <<outcome, len, capacity, held, upload_budget,
                   streamVars, slotVars, metricVars>>

\* Anything else first, half-close included; or the options a second time.
MisplacedFrame(c) ==
    /\ pc[c] \in Uploading
    /\ Refuse(c, "invalid")
    /\ UNCHANGED <<uploadVars, streamVars, slotVars, metricVars>>

\* A frame with neither options nor chunk is skipped.
EmptyFrame(c) ==
    /\ pc[c] = "receiving"
    /\ NextFrame(c)
    /\ UNCHANGED <<pc, outcome, uploadVars, streamVars, slotVars, metricVars>>

\* reserve_upload: the permits still missing for a buffer of that size...
Missing(c, bytes) == Maximum(0, Units(bytes) - held[c])

\* ... which try_acquire_many_owned grants at once or not at all.
Reservable(c, bytes) == Missing(c, bytes) <= upload_budget

\* Geometric growth, stopped at the call's cap.
Doubled(c, needed) == Minimum(Maximum(2 * capacity[c], needed), cap[c])

\* The capacity a growing buffer is given: doubled if the budget allows it.
GrowthTarget(c, needed) ==
    IF Reservable(c, Doubled(c, needed)) THEN Doubled(c, needed) ELSE needed

\* A chunk that fits: reserve what the growth costs, grow, append.
AcceptChunk(c, n) ==
    LET needed == len[c] + n
        target == IF needed > capacity[c] THEN GrowthTarget(c, needed)
                                          ELSE capacity[c]
    IN  /\ needed > capacity[c] => Reservable(c, target)
        /\ held' = [held EXCEPT ![c] =
                       IF needed > capacity[c] THEN @ + Missing(c, target) ELSE @]
        /\ upload_budget' = upload_budget -
                       (IF needed > capacity[c] THEN Missing(c, target) ELSE 0)
        /\ capacity' = [capacity EXCEPT ![c] = target]
        /\ len' = [len EXCEPT ![c] = needed]
        /\ NextFrame(c)
        /\ UNCHANGED <<pc, outcome, cap, fold>>

\* One chunk through receive, its refusals in the order the code tests them.
ChunkFrame(c, n) ==
    /\ pc[c] = "receiving"
    /\ \/ /\ n > MaxChunk
          /\ Refuse(c, "invalid")
          /\ UNCHANGED uploadVars
       \/ /\ n <= MaxChunk
          /\ len[c] + n > cap[c]
          /\ Refuse(c, "too_large")
          /\ UNCHANGED uploadVars
       \/ /\ n <= MaxChunk
          /\ len[c] + n <= cap[c]
          /\ len[c] + n > capacity[c]
          /\ ~Reservable(c, GrowthTarget(c, len[c] + n))
          /\ Refuse(c, "budget")
          /\ UNCHANGED uploadVars
       \/ /\ n <= MaxChunk
          /\ len[c] + n <= cap[c]
          /\ AcceptChunk(c, n)
    /\ UNCHANGED <<streamVars, slotVars, metricVars>>

\* Half-close: the upload is complete, and a slot is taken or queued for.
\* Tokio's semaphore is fair: a permit is free only while nobody waits.
EndOfUpload(c) ==
    /\ pc[c] = "receiving"
    /\ \/ /\ parse_slots > 0
          /\ pc' = [pc EXCEPT ![c] = "granted"]
          /\ parse_slots' = parse_slots - 1
          /\ UNCHANGED slot_queue
       \/ /\ parse_slots = 0
          /\ pc' = [pc EXCEPT ![c] = "queued"]
          /\ slot_queue' = Append(slot_queue, c)
          /\ UNCHANGED parse_slots
    /\ StopClock(c)
    /\ UNCHANGED <<outcome, uploadVars, streamVars, metricVars>>

\* The handler holds its permit: count the parse, spawn it and its
\* supervisor, and return the response stream.
StartParse(c) ==
    /\ pc[c] = "granted"
    /\ pc' = [pc EXCEPT ![c] = "parsing"]
    /\ parses_started' = parses_started + 1
    /\ UNCHANGED <<outcome, uploadVars, clockVars, streamVars, slotVars,
                   parses_succeeded, parses_failed>>

-----------------------------------------------------------------------------
(* A handler that failed or was dropped.  Rust drops a function's locals   *)
(* in reverse order of declaration: the permit, declared after the buffer, *)
(* goes first.                                                             *)

\* Mutant: the permit is forgotten instead of dropped.
DropShare_Leaks(c) ==
    /\ pc[c] = "unwinding"
    /\ pc' = [pc EXCEPT ![c] = "unshared"]
    /\ held' = [held EXCEPT ![c] = 0]
    /\ UNCHANGED <<outcome, cap, fold, len, capacity, upload_budget, clockVars,
                   streamVars, slotVars, metricVars>>

\* The share goes back to the budget.
DropShare(c) ==
    /\ pc[c] = "unwinding"
    /\ pc' = [pc EXCEPT ![c] = "unshared"]
    /\ held' = [held EXCEPT ![c] = 0]
    /\ upload_budget' = upload_budget + held[c]
    /\ UNCHANGED <<outcome, cap, fold, len, capacity, clockVars, streamVars,
                   slotVars, metricVars>>

\* The buffer is freed and the status, if anyone still listens, goes out.
DropBuffer(c) ==
    /\ pc[c] = "unshared"
    /\ pc' = [pc EXCEPT ![c] = "done"]
    /\ len' = [len EXCEPT ![c] = 0]
    /\ capacity' = [capacity EXCEPT ![c] = 0]
    /\ end' = [end EXCEPT ![c] = IF @ = "open" THEN "error" ELSE @]
    /\ UNCHANGED <<outcome, cap, fold, held, upload_budget, clockVars, item,
                   channel, delivered, slotVars, metricVars>>

\* Mutant: the waiters are not woken.
PassSlot_NoWakeup(c, next) ==
    /\ parse_slots' = parse_slots + 1
    /\ pc' = [pc EXCEPT ![c] = next]
    /\ UNCHANGED slot_queue

\* Dropping a permit of parse_slots hands it to the longest waiter, if any.
PassSlot(c, next) ==
    IF slot_queue = <<>>
    THEN /\ parse_slots' = parse_slots + 1
         /\ pc' = [pc EXCEPT ![c] = next]
         /\ UNCHANGED slot_queue
    ELSE /\ pc' = [pc EXCEPT ![c] = next, ![Head(slot_queue)] = "granted"]
         /\ slot_queue' = Tail(slot_queue)
         /\ UNCHANGED parse_slots

-----------------------------------------------------------------------------
(* The parse thread: extract::run behind Sink::emit and Sink::send.        *)

\* Everything the parse has put on the channel of a client that still reads.
Emitted(c) == delivered[c] \o channel[c]
LastEmitted(c) == IF Emitted(c) = <<>> THEN "none"
                  ELSE Emitted(c)[Len(Emitted(c))]

\* Mutant: the trailer does not wait for the document.
Sendable_AnyOrder(c) ==
    IF LastEmitted(c) = "document" THEN {"status"}
    ELSE {e \in {"event"} : Len(Emitted(c)) < MaxEvents}
         \cup {e \in {"document", "status"} : LastEmitted(c) = "event"}

\* What the parse sends next.  info precedes any trailer, and Sink::emit
\* puts the document right before the status when there is a fold.
Sendable(c) ==
    IF LastEmitted(c) = "document" THEN {"status"}
    ELSE {e \in {"event"} : Len(Emitted(c)) < MaxEvents}
         \cup {e \in {"document", "status"} :
                   /\ LastEmitted(c) = "event"
                   /\ (e = "document") = fold[c]}

\* run returns, and with the closure the upload it owned is dropped.
ParseReturns(c, result) ==
    /\ pc' = [pc EXCEPT ![c] = "returned"]
    /\ outcome' = [outcome EXCEPT ![c] = result]
    /\ len' = [len EXCEPT ![c] = 0]
    /\ capacity' = [capacity EXCEPT ![c] = 0]

\* The event is on the channel; after the status the parse is complete.
Sent(c, e) ==
    /\ channel' = [channel EXCEPT ![c] = Append(@, e)]
    /\ IF e = "status"
       THEN ParseReturns(c, "complete")
       ELSE /\ pc' = [pc EXCEPT ![c] = "parsing"]
            /\ UNCHANGED <<outcome, len, capacity>>

\* try_send: delivered, refused by a closed channel, or left waiting.
Send(c) ==
    /\ pc[c] = "parsing"
    /\ \E e \in Sendable(c) :
         \/ /\ end[c] # "open"
            /\ ParseReturns(c, "abandoned")
            /\ UNCHANGED <<item, channel>>
         \/ /\ end[c] = "open"
            /\ Len(channel[c]) < OutboundBuffer
            /\ Sent(c, e)
            /\ UNCHANGED item
         \/ /\ end[c] = "open"
            /\ Len(channel[c]) >= OutboundBuffer
            /\ pc' = [pc EXCEPT ![c] = "stalled"]
            /\ item' = [item EXCEPT ![c] = e]
            /\ UNCHANGED <<outcome, len, capacity, channel>>
    /\ UNCHANGED <<cap, fold, held, upload_budget, clockVars, delivered, end,
                   slotVars, metricVars>>

\* send_timeout: room appears, or the receiver is dropped.
SendWaiting(c) ==
    /\ pc[c] = "stalled"
    /\ \/ /\ end[c] # "open"
          /\ ParseReturns(c, "abandoned")
          /\ UNCHANGED channel
       \/ /\ end[c] = "open"
          /\ Len(channel[c]) < OutboundBuffer
          /\ Sent(c, item[c])
    /\ UNCHANGED <<cap, fold, held, upload_budget, clockVars, item, delivered,
                   end, slotVars, metricVars>>

\* Mutant: the wait on a full channel is not bounded.
StallTimeout_Never(c) == FALSE /\ UNCHANGED vars

\* send_timeout: CONSUMER_STALL passes with the channel still full.
StallTimeout(c) ==
    /\ pc[c] = "stalled"
    /\ end[c] = "open"
    /\ Len(channel[c]) >= OutboundBuffer
    /\ ParseReturns(c, "abandoned")
    /\ UNCHANGED <<cap, fold, held, upload_budget, clockVars, streamVars,
                   slotVars, metricVars>>

\* The book is unacceptable (Abort::Failed), or the parser panics.  Not
\* between the document and the status, which Sink::emit sends back to back.
ParseFails(c) ==
    /\ pc[c] = "parsing"
    /\ LastEmitted(c) # "document"
    /\ \E result \in {"failed", "panicked"} : ParseReturns(c, result)
    /\ UNCHANGED <<cap, fold, held, upload_budget, clockVars, streamVars,
                   slotVars, metricVars>>

-----------------------------------------------------------------------------
(* The supervisor task.                                                    *)

\* Mutant: a lost client is not counted.
Join_IgnoresAbandoned(c) ==
    /\ pc[c] = "returned"
    /\ parses_succeeded' = parses_succeeded + (IF outcome[c] = "complete" THEN 1 ELSE 0)
    /\ parses_failed' = parses_failed + (IF outcome[c] \in {"failed", "panicked"} THEN 1 ELSE 0)
    /\ pc' = [pc EXCEPT ![c] = IF outcome[c] \in {"failed", "panicked"}
                               THEN "reporting" ELSE "releasing"]
    /\ UNCHANGED <<outcome, uploadVars, clockVars, streamVars, slotVars, parses_started>>

\* Mutant: a panic just ends the stream.
Join_SilentPanic(c) ==
    /\ pc[c] = "returned"
    /\ parses_succeeded' = parses_succeeded + (IF outcome[c] = "complete" THEN 1 ELSE 0)
    /\ parses_failed' = parses_failed + (IF outcome[c] = "complete" THEN 0 ELSE 1)
    /\ pc' = [pc EXCEPT ![c] = IF outcome[c] = "failed" THEN "reporting" ELSE "releasing"]
    /\ UNCHANGED <<outcome, uploadVars, clockVars, streamVars, slotVars, parses_started>>

\* handle.await resolves: count the parse, and decide whether to report.
Join(c) ==
    /\ pc[c] = "returned"
    /\ \/ /\ outcome[c] = "complete"
          /\ parses_succeeded' = parses_succeeded + 1
          /\ pc' = [pc EXCEPT ![c] = "releasing"]
          /\ UNCHANGED parses_failed
       \/ /\ outcome[c] = "abandoned"
          /\ parses_failed' = parses_failed + 1
          /\ pc' = [pc EXCEPT ![c] = "releasing"]
          /\ UNCHANGED parses_succeeded
       \/ /\ outcome[c] \in {"failed", "panicked"}
          /\ parses_failed' = parses_failed + 1
          /\ pc' = [pc EXCEPT ![c] = "reporting"]
          /\ UNCHANGED parses_succeeded
    /\ UNCHANGED <<outcome, uploadVars, clockVars, streamVars, slotVars,
                   parses_started>>

\* supervisor.send(Err(status)).await: waits for room without a time limit.
Report(c) ==
    /\ pc[c] = "reporting"
    /\ \/ /\ end[c] # "open"
          /\ UNCHANGED channel
       \/ /\ end[c] = "open"
          /\ Len(channel[c]) < OutboundBuffer
          /\ channel' = [channel EXCEPT ![c] = Append(@, "error")]
    /\ pc' = [pc EXCEPT ![c] = "releasing"]
    /\ UNCHANGED <<outcome, uploadVars, clockVars, item, delivered, end,
                   slotVars, metricVars>>

\* drop(permit)
ReleaseSlot(c) ==
    /\ pc[c] = "releasing"
    /\ PassSlot(c, "returning")
    /\ UNCHANGED <<outcome, uploadVars, clockVars, streamVars, metricVars>>

\* drop(upload); the task ends and its sender, the channel's last, goes too.
ReturnShare(c) ==
    /\ pc[c] = "returning"
    /\ pc' = [pc EXCEPT ![c] = "done"]
    /\ held' = [held EXCEPT ![c] = 0]
    /\ upload_budget' = upload_budget + held[c]
    /\ UNCHANGED <<outcome, cap, fold, len, capacity, clockVars, streamVars,
                   slotVars, metricVars>>

-----------------------------------------------------------------------------
(* The client and its transport.                                           *)

\* One message of the response stream; a gRPC status is its last.
ClientRead(c) ==
    /\ end[c] = "open"
    /\ channel[c] # <<>>
    /\ delivered' = [delivered EXCEPT ![c] = Append(@, Head(channel[c]))]
    /\ IF Head(channel[c]) = "error"
       THEN /\ channel' = [channel EXCEPT ![c] = <<>>]
            /\ end' = [end EXCEPT ![c] = "error"]
       ELSE /\ channel' = [channel EXCEPT ![c] = Tail(@)]
            /\ UNCHANGED end
    /\ UNCHANGED <<pc, outcome, uploadVars, clockVars, item, slotVars, metricVars>>

\* Mutant: the supervisor's sender is dropped before its permits.
ClientEnd_Early(c) ==
    /\ end[c] = "open"
    /\ pc[c] \in {"releasing", "returning", "done"}
    /\ channel[c] = <<>>
    /\ end' = [end EXCEPT ![c] = "ok"]
    /\ UNCHANGED <<pc, outcome, uploadVars, clockVars, item, channel, delivered,
                   slotVars, metricVars>>

\* The channel is drained and every sender is gone: grpc-status OK.
ClientEnd(c) ==
    /\ end[c] = "open"
    /\ pc[c] = "done"
    /\ channel[c] = <<>>
    /\ end' = [end EXCEPT ![c] = "ok"]
    /\ UNCHANGED <<pc, outcome, uploadVars, clockVars, item, channel, delivered,
                   slotVars, metricVars>>

\* A waiter leaves the semaphore's queue from wherever it stands.
Without(queue, i) == [j \in 1..Len(queue) - 1 |-> queue[IF j < i THEN j ELSE j + 1]]

\* Mutant: a slot handed to a cancelled waiter stays with it.
DropHandler_KeepsSlot(c) ==
    /\ pc' = [pc EXCEPT ![c] = "unwinding"]
    /\ IF pc[c] = "queued"
       THEN \E i \in DOMAIN slot_queue :
                slot_queue[i] = c /\ slot_queue' = Without(slot_queue, i)
       ELSE UNCHANGED slot_queue
    /\ UNCHANGED parse_slots

\* A handler that has not returned is dropped where it awaits: its place in
\* the slot queue, or the slot it was just handed, goes first.
DropHandler(c) ==
    \/ /\ pc[c] \in Uploading
       /\ pc' = [pc EXCEPT ![c] = "unwinding"]
       /\ UNCHANGED slotVars
    \/ /\ pc[c] = "queued"
       /\ pc' = [pc EXCEPT ![c] = "unwinding"]
       /\ \E i \in DOMAIN slot_queue :
              slot_queue[i] = c /\ slot_queue' = Without(slot_queue, i)
       /\ UNCHANGED parse_slots
    \/ /\ pc[c] = "granted"
       /\ PassSlot(c, "unwinding")

\* The client hangs up: before the handler has returned that drops the
\* handler, afterwards it drops the response stream's receiver.
Cancel(c) ==
    /\ end[c] = "open"
    /\ pc[c] # "idle"
    /\ end' = [end EXCEPT ![c] = "hungup"]
    /\ \/ /\ pc[c] \in InHandler
          /\ DropHandler(c)
          /\ outcome' = [outcome EXCEPT ![c] = "cancelled"]
          /\ StopClock(c)
          /\ UNCHANGED channel
       \/ /\ pc[c] \notin InHandler
          /\ channel' = [channel EXCEPT ![c] = <<>>]
          /\ UNCHANGED <<pc, outcome, clockVars, slotVars>>
    /\ UNCHANGED <<uploadVars, item, delivered, metricVars>>

-----------------------------------------------------------------------------
Frame(c) == OptionsFrame(c) \/ MisplacedFrame(c) \/ EmptyFrame(c)
            \/ TransportError(c) \/ EndOfUpload(c)
            \/ \E n \in Chunks : ChunkFrame(c, n)

Handler(c) == Tick(c) \/ Timeout(c) \/ StartParse(c) \/ DropShare(c) \/ DropBuffer(c)

Parser(c) == Send(c) \/ SendWaiting(c) \/ StallTimeout(c) \/ ParseFails(c)

Supervisor(c) == Join(c) \/ Report(c) \/ ReleaseSlot(c) \/ ReturnShare(c)

Client(c) == ClientRead(c) \/ ClientEnd(c)

Next == \E c \in Calls :
            \/ Connect(c) \/ Cancel(c) \/ Frame(c)
            \/ Handler(c) \/ Parser(c) \/ Supervisor(c) \/ Client(c)

Spec == Init /\ [][Next]_vars

\* The runtime keeps polling what can run, timers fire, a parse is finite.
\* Nothing is promised for the client.
ServerFairness == \A c \in Calls : WF_vars(Handler(c) \/ Parser(c) \/ Supervisor(c))

FairSpec == Spec /\ ServerFairness

\* Clients that read their responses to the end (or hang up).
ClientsRead == \A c \in Calls : WF_vars(Client(c))

-----------------------------------------------------------------------------
(* Properties.                                                             *)

PCs == InHandler \cup HoldsSlot
       \cup {"idle", "returning", "unwinding", "unshared", "done"}

\* Every variable keeps its type; no semaphore exceeds its initial permits.
ControlType ==
    /\ pc \in [Calls -> PCs]
    /\ outcome \in [Calls -> {"none"} \cup Refusals \cup Results]
UploadType ==
    /\ cap \in [Calls -> 0..MaxDocument]
    /\ fold \in [Calls -> BOOLEAN]
    /\ len \in [Calls -> Nat]
    /\ capacity \in [Calls -> Nat]
    /\ held \in [Calls -> 0..TotalBudget]
    /\ upload_budget \in 0..TotalBudget
ClockType ==
    /\ wait \in [Calls -> 0..IdleTimeout]
    /\ left \in [Calls -> 0..UploadTimeout]
    /\ \A c \in Calls : wait[c] <= left[c]
StreamType ==
    /\ item \in [Calls -> Items]
    /\ channel \in [Calls -> Seq(Items)]
    /\ delivered \in [Calls -> Seq(Items)]
    /\ end \in [Calls -> {"open", "ok", "error", "hungup"}]
SlotType ==
    /\ parse_slots \in 0..MaxConcurrentParses
    /\ slot_queue \in Seq(Calls)
MetricType ==
    /\ parses_started \in Nat
    /\ parses_succeeded \in Nat
    /\ parses_failed \in Nat

TypeOK == ControlType /\ UploadType /\ ClockType /\ StreamType /\ SlotType /\ MetricType

\* A function's total over the calls, as the set of the units it counts.
UnitsOf(f) == {p \in Calls \X (1..TotalBudget) : p[2] <= f[p[1]]}

\* The calls that stand at one of some control points.
CallsAt(where, points) == {c \in Calls : where[c] \in points}

\* Permits of the upload budget are neither lost nor minted, whatever way
\* each call ends: free ones and those the calls hold (reserve_upload, drop)
\* always add up to what with_metrics created.
BudgetConserved == upload_budget + Cardinality(UnitsOf(held)) = TotalBudget

\* receive charges for capacity before it allocates: until a failed handler
\* drops its locals, the share a call holds covers its whole buffer, which
\* never outgrows the call's own cap.  A finished call holds nothing.
ShareCoversBuffer == \A c \in Calls :
    /\ len[c] <= capacity[c]
    /\ capacity[c] <= cap[c]
    /\ pc[c] # "unshared" => capacity[c] <= held[c] * BudgetUnit
    /\ pc[c] \in {"idle", "done"} => held[c] = 0 /\ capacity[c] = 0

\* Parse permits are conserved over grants, hand-overs to waiters and
\* cancellations at any await: free ones plus the calls that own one.
SlotsConserved ==
    parse_slots + Cardinality(CallsAt(pc, HoldsSlot)) = MaxConcurrentParses

\* The semaphore's queue holds exactly the calls that wait, each once, and
\* no slot is free while anyone waits (no wake-up is lost to a cancellation).
NoIdleSlotWhileQueued ==
    /\ slot_queue # <<>> => parse_slots = 0
    /\ \A c \in Calls : pc[c] = "queued" <=> \E i \in DOMAIN slot_queue : slot_queue[i] = c
    /\ \A i, j \in DOMAIN slot_queue : slot_queue[i] = slot_queue[j] => i = j

\* Every parse counted as started is counted exactly once as succeeded or
\* failed by the time its permit is released, panics and lost clients too.
MetricsBalance ==
    parses_started = parses_succeeded + parses_failed
                     + Cardinality(CallsAt(pc, Unjoined))

\* The response stream the proto promises, as far as it has been emitted: a
\* status or a gRPC error ends it and excludes the other; the document, if
\* asked for, comes right before the status.
StreamWellFormed == \A c \in Calls :
    LET s == Emitted(c) IN
    \A i \in DOMAIN s :
        /\ s[i] \in {"status", "error"} => i = Len(s)
        /\ s[i] = "document" => fold[c] /\ (i < Len(s) => s[i + 1] = "status")
        /\ s[i] = "status" => i > 1 /\ (fold[c] => s[i - 1] = "document")

\* A client that saw its stream end with OK can count on its parse slot and
\* its share being free again: the supervisor's sender is dropped last.
CleanEndAfterRelease == \A c \in Calls :
    end[c] = "ok" => /\ held[c] = 0
                     /\ pc[c] \notin HoldsSlot

\* A stream that ends with OK but without its trailer can only come from the
\* stall timeout: a parse that failed or panicked is always reported to a
\* client that is still there, however late it reads.
TruncatedOnlyAfterStall == \A c \in Calls :
    end[c] = "ok" /\ (\A i \in DOMAIN delivered[c] : delivered[c][i] # "status")
        => outcome[c] = "abandoned"

\* with_metrics raises the budget to one upload so that a call is refused
\* for lack of budget only while some other call holds a share of it.
RefusedOnlyUnderContention ==
    [][\A c \in Calls : outcome[c] = "none" /\ outcome'[c] = "budget"
           => \E d \in Calls \ {c} : held[d] > 0]_vars

\* Both clocks together bound every upload, a steady trickle of empty frames
\* included: an upload that has begun ends, whatever the client does.
UploadEnds == \A c \in Calls : pc[c] \in Uploading ~> pc[c] \notin Uploading

\* A client that stops reading does not pin a blocking thread: the parse
\* always returns and with it the upload buffer is freed.
ParseThreadFreed == \A c \in Calls :
    pc[c] \in InParse ~> pc[c] \notin InParse /\ capacity[c] = 0

\* (Refuted by the code.)  epub_service.proto: a stream that ends well ends
\* with a status event.
OkMeansTrailer == \A c \in Calls :
    end[c] = "ok" => /\ delivered[c] # <<>>
                     /\ delivered[c][Len(delivered[c])] = "status"

\* (Refuted by the code.)  The time a call holds its share of the budget is
\* bounded: once its parse is over it is given back.
ShareGivenBack == \A c \in Calls : pc[c] = "returned" ~> held[c] = 0
=============================================================================
