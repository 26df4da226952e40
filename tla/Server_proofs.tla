---------------------------- MODULE Server_proofs ----------------------------
(***************************************************************************)
(* For any number of calls: every parse that was counted as started is     *)
(* counted once more when it ends, a stream that ends well tells the truth *)
(* about its call, and both carry over to the process that serves the      *)
(* calls and leaves, which takes no step the service would not take.       *)
(* For clients of any pace and a channel of any size: what a call has put  *)
(* on its response stream is always the beginning of a stream the proto    *)
(* allows, wherever the client's reading, its hanging up, the stall        *)
(* timeout and the supervisor's report cut in.                             *)
(***************************************************************************)
EXTENDS Server, EpubService_proofs

-----------------------------------------------------------------------------
(* Started parses are closed once.                                         *)

\* The first waiter is a call that waits.
LEMMA HeadWaits ==
    ASSUME TypeOK, NoIdleSlotWhileQueued, slot_queue # <<>>
    PROVE  Head(slot_queue) \in Calls /\ pc[Head(slot_queue)] = "queued"
  <1>1. slot_queue \in Seq(Calls)
    BY DEF TypeOK, SlotType
  <1>2. Head(slot_queue) = slot_queue[1] /\ 1 \in DOMAIN slot_queue /\ Head(slot_queue) \in Calls
    BY <1>1
  <1> QED
    BY <1>2 DEF NoIdleSlotWhileQueued

\* Every step, as the metrics see it: it leaves them and the calls that await
\* their count alone, begins a parse, or counts one.
Uncounted == UNCHANGED metricVars /\ \A d \in Calls : pc'[d] \in Unjoined <=> pc[d] \in Unjoined
Begins(c) ==
    /\ pc[c] \notin Unjoined
    /\ pc' = [pc EXCEPT ![c] = "parsing"]
    /\ parses_started' = parses_started + 1
    /\ UNCHANGED <<parses_succeeded, parses_failed>>
Counts(c) ==
    /\ pc[c] \in Unjoined
    /\ \E x \in {"releasing", "reporting"} : pc' = [pc EXCEPT ![c] = x]
    /\ UNCHANGED parses_started
    /\ parses_succeeded' + parses_failed' = parses_succeeded + parses_failed + 1

\* There are no other steps.
LEMMA MetricMoves ==
    ASSUME SemaphoreInv, Next
    PROVE  Uncounted \/ \E c \in Calls : Begins(c) \/ Counts(c)
  <1>1. TypeOK /\ NoIdleSlotWhileQueued
    BY DEF SemaphoreInv
  <1>2. /\ pc \in [Calls -> PCs]
        /\ parses_started \in Nat /\ parses_succeeded \in Nat /\ parses_failed \in Nat
    BY <1>1 DEF TypeOK, ControlType, MetricType
  <1> USE DEF Unjoined, InParse, metricVars
  <1>3. ASSUME NEW c \in Calls, NEW x, pc[c] \notin Unjoined, x \notin Unjoined, PassSlot(c, x),
               UNCHANGED metricVars
        PROVE  Uncounted
    <2>1. slot_queue # <<>> => pc[Head(slot_queue)] = "queued"
      BY <1>1, HeadWaits
    <2> QED
      BY <1>2, <1>3, <2>1 DEF PassSlot, Uncounted
  <1>4. ASSUME NEW c \in Calls, NEW x, pc[c] \notin Unjoined, x \notin Unjoined,
               pc' = [pc EXCEPT ![c] = x], UNCHANGED metricVars
        PROVE  Uncounted
    BY <1>2, <1>4 DEF Uncounted
  <1>5. ASSUME NEW c \in Calls, Connect(c) \/ Frame(c) PROVE Uncounted
    <2> USE DEF Uploading
    <2>1. ASSUME NEW why, pc[c] \in Uploading, Refuse(c, why), UNCHANGED metricVars PROVE Uncounted
      BY <1>4, <2>1 DEF Refuse
    <2>2. CASE Connect(c) \/ OptionsFrame(c) \/ EndOfUpload(c)
      BY <1>4, <2>2 DEF Connect, OptionsFrame, EndOfUpload
    <2>3. CASE MisplacedFrame(c) \/ TransportError(c)
      BY <2>1, <2>3 DEF MisplacedFrame, TransportError
    <2>4. CASE EmptyFrame(c)
      BY <2>4 DEF EmptyFrame, Uncounted
    <2>5. ASSUME NEW n \in Chunks, ChunkFrame(c, n) PROVE Uncounted
      BY <2>1, <2>5 DEF ChunkFrame, AcceptChunk, Uncounted
    <2> QED
      BY <1>5, <2>2, <2>3, <2>4, <2>5 DEF Frame
  <1>6. ASSUME NEW c \in Calls, Cancel(c) PROVE Uncounted
    <2>1. CASE pc[c] = "granted"
      BY <1>3, <1>6, <2>1 DEF Cancel, DropHandler, InHandler, Uploading
    <2>2. CASE pc[c] \in InHandler /\ pc[c] # "granted"
      BY <1>4, <1>6, <2>2 DEF Cancel, DropHandler, InHandler, Uploading
    <2>3. CASE pc[c] \notin InHandler
      BY <1>6, <2>3 DEF Cancel, Uncounted
    <2> QED
      BY <2>1, <2>2, <2>3
  <1>7. ASSUME NEW c \in Calls, Handler(c) PROVE Uncounted \/ Begins(c)
    <2>1. CASE Tick(c)
      BY <2>1 DEF Tick, Uncounted
    <2>2. CASE StartParse(c)
      BY <2>2 DEF StartParse, Begins
    <2>3. CASE Timeout(c) \/ DropShare(c) \/ DropBuffer(c)
      BY <1>4, <2>3 DEF Timeout, Refuse, DropShare, DropBuffer, Uploading
    <2> QED
      BY <1>7, <2>1, <2>2, <2>3 DEF Handler
  <1>8. ASSUME NEW c \in Calls, Parser(c) PROVE Uncounted
    <2>1. /\ pc[c] \in InParse /\ UNCHANGED metricVars
          /\ \E x \in {"parsing", "stalled", "returned"} : pc' = [pc EXCEPT ![c] = x]
      BY <1>8 DEF Parser, Send, SendWaiting, StallTimeout, ParseFails, ParseReturns, Sent
    <2> QED
      BY <1>2, <2>1 DEF Uncounted
  <1>9. ASSUME NEW c \in Calls, Supervisor(c) PROVE Uncounted \/ Counts(c)
    <2>1. CASE Join(c)
      BY <1>2, <2>1 DEF Join, Counts
    <2>2. CASE Report(c) \/ ReturnShare(c)
      BY <1>4, <2>2 DEF Report, ReturnShare
    <2>3. CASE ReleaseSlot(c)
      BY <1>3, <2>3 DEF ReleaseSlot
    <2> QED
      BY <1>9, <2>1, <2>2, <2>3 DEF Supervisor
  <1>10. ASSUME NEW c \in Calls, Client(c) PROVE Uncounted
    BY <1>10 DEF Client, ClientRead, ClientEnd, Uncounted
  <1> QED
    BY <1>5, <1>6, <1>7, <1>8, <1>9, <1>10 DEF Next

\* The balance is kept: a parse that begins is one more to be counted, a parse
\* that is counted is one less.
LEMMA MetricsStep == SemaphoreInv /\ MetricsBalance /\ [Next]_vars => MetricsBalance'
  <1> SUFFICES ASSUME SemaphoreInv, MetricsBalance, [Next]_vars PROVE MetricsBalance'
    OBVIOUS
  <1> DEFINE open == CallsAt(pc, Unjoined)
             n == Cardinality(open)
             m == Cardinality(CallsAt(pc', Unjoined))
  <1>1. /\ pc \in [Calls -> PCs] /\ n \in Nat /\ m \in Nat
        /\ parses_started \in Nat /\ parses_succeeded \in Nat /\ parses_failed \in Nat
        /\ parses_started' \in Nat /\ parses_succeeded' \in Nat /\ parses_failed' \in Nat
    BY CountFinite, SemaphoreStep DEF SemaphoreInv, TypeOK, ControlType, MetricType
  <1>2. parses_started = parses_succeeded + parses_failed + n
    BY DEF MetricsBalance
  <1>3. SUFFICES parses_started' = parses_succeeded' + parses_failed' + m
    BY CallsAtPrime DEF MetricsBalance
  <1>4. CASE Uncounted
    <2>1. m = n
      BY <1>4 DEF Uncounted, CallsAt
    <2> HIDE DEF n, m
    <2> QED
      BY <1>2, <1>4, <2>1 DEF Uncounted, metricVars
  <1>5. ASSUME NEW c \in Calls, Begins(c)
        PROVE  parses_started' = parses_succeeded' + parses_failed' + m
    <2>1. CallsAt(pc', Unjoined) = open \cup {c} /\ c \notin open
      BY <1>1, <1>5 DEF Begins, CallsAt, Unjoined, InParse
    <2>2. m = n + 1
      BY <2>1, CountEnter
    <2> HIDE DEF n, m
    <2> QED
      BY <1>1, <1>2, <1>5, <2>2 DEF Begins
  <1>6. ASSUME NEW c \in Calls, Counts(c)
        PROVE  parses_started' = parses_succeeded' + parses_failed' + m
    <2>1. CallsAt(pc', Unjoined) = open \ {c} /\ c \in open
      BY <1>1, <1>6 DEF Counts, CallsAt, Unjoined, InParse
    <2>2. m = n - 1
      BY <2>1, CountLeave
    <2>3. /\ parses_started' = parses_started
          /\ parses_succeeded' + parses_failed' = parses_succeeded + parses_failed + 1
      BY <1>6 DEF Counts
    <2>4. /\ parses_started \in Nat /\ parses_succeeded \in Nat /\ parses_failed \in Nat
          /\ parses_succeeded' \in Nat /\ parses_failed' \in Nat /\ n \in Nat
      BY <1>1
    <2> HIDE DEF n, m
    <2>5. \A x, y \in Nat : x + y = parses_succeeded + parses_failed + 1
                              => parses_started = x + y + (n - 1)
      BY <1>2, <2>4
    <2> QED
      BY <2>2, <2>3, <2>4, <2>5
  <1>7. CASE UNCHANGED vars
    <2>1. m = n
      BY <1>7 DEF vars
    <2> HIDE DEF n, m
    <2> QED
      BY <1>2, <1>7, <2>1 DEF vars, metricVars
  <1> QED
    BY <1>4, <1>5, <1>6, <1>7, MetricMoves

\* The balance holds at the start, where nothing has been counted.
LEMMA MetricsInit == Init => MetricsBalance
  <1> SUFFICES ASSUME Init PROVE MetricsBalance
    OBVIOUS
  <1>1. CallsAt(pc, Unjoined) = {}
    BY DEF Init, CallsAt, Unjoined, InParse
  <1>2. Cardinality(CallsAt(pc, Unjoined)) = 0
    BY <1>1, FS_EmptySet
  <1>3. parses_started = 0 /\ parses_succeeded = 0 /\ parses_failed = 0
    BY DEF Init
  <1> QED
    BY <1>2, <1>3 DEF MetricsBalance

\* The counters never lose a parse, whether it completes, fails, panics, is
\* abandoned by its client, or is counted while its slot is being handed on.
THEOREM MetricsSafe == Spec => []MetricsBalance
  BY MetricsInit, MetricsStep, SemaphoresSafe, PTL DEF Spec

-----------------------------------------------------------------------------
(* The process takes no step the service would not take.                   *)

\* A step of the process is a step of the service, or leaves it alone.
LEMMA ServerStep == [ServerNext]_allVars => [Next]_vars
  <1>1. ASSUME NEW c \in Calls, Polled(c) \/ Arriving(c) PROVE Next
    BY <1>1 DEF Polled, Arriving, Next
  <1>2. ASSUME Signal \/ Shutdown PROVE UNCHANGED vars
    BY <1>2 DEF Signal, Shutdown, Drained, Return, Exit
  <1>3. UNCHANGED allVars => UNCHANGED vars
    BY DEF allVars
  <1> QED
    BY <1>1, <1>2, <1>3 DEF ServerNext

\* Serving, draining and leaving only ever narrow what the calls do: the
\* process implements the service, and whatever is proved of the service
\* holds of it too.
THEOREM ServerRefines == ServerSpec => Spec
  <1>1. ServerInit => Init
    BY DEF ServerInit
  <1> QED
    BY <1>1, ServerStep, PTL DEF ServerSpec, Spec

-----------------------------------------------------------------------------
(* What the end of a stream tells.                                         *)

\* A sequence of messages says x somewhere.
Says(s, x) == \E i \in DOMAIN s : s[i] = x

Told == {"releasing", "returning", "done"}
Broken == {"failed", "panicked"}

\* Where a call stands tells how far its outcome is known ...
OutcomeKnown(c) ==
    /\ pc[c] \in {"idle"} \cup InHandler \cup InParse => outcome[c] = "none"
    /\ pc[c] \in {"unwinding", "unshared"} => outcome[c] \in Refusals
    /\ pc[c] \in {"returned", "releasing", "returning"} => outcome[c] \in Results
    /\ pc[c] = "reporting" => outcome[c] \in Broken
    /\ pc[c] = "done" => outcome[c] \in Refusals \cup Results

\* ... and what of it the client of a call has been told.
OutcomeTold(c) ==
    /\ item[c] # "error"
    /\ Says(channel[c], "error") => pc[c] \in Told /\ outcome[c] \in Broken
    /\ end[c] = "error" => pc[c] \in Told
    /\ end[c] = "ok" => pc[c] = "done" /\ channel[c] = <<>>
    /\ pc[c] = "done" /\ outcome[c] \in Refusals => end[c] \in {"error", "hungup"}
    /\ outcome[c] = "complete" =>
          end[c] = "hungup" \/ Says(delivered[c], "status") \/ Says(channel[c], "status")
    /\ pc[c] \in Told /\ outcome[c] \in Broken =>
          end[c] \in {"error", "hungup"} \/ Says(channel[c], "error")

EndInv == \A c \in Calls : OutcomeKnown(c) /\ OutcomeTold(c)

\* What a channel says after a message went in.
LEMMA SaysAppend ==
    ASSUME NEW s \in Seq(Items), NEW e \in Items, NEW x
    PROVE  Says(Append(s, e), x) <=> Says(s, x) \/ e = x
  <1>1. DOMAIN Append(s, e) = DOMAIN s \cup {Len(s) + 1} /\ Append(s, e)[Len(s) + 1] = e
    OBVIOUS
  <1>2. \A i \in DOMAIN s : Append(s, e)[i] = s[i]
    OBVIOUS
  <1> QED
    BY <1>1, <1>2 DEF Says

\* What it says after its first message was taken out.
LEMMA SaysTail ==
    ASSUME NEW s \in Seq(Items), s # <<>>, NEW x
    PROVE  Says(s, x) <=> Head(s) = x \/ Says(Tail(s), x)
  <1>1. Head(s) = s[1] /\ Len(s) \in Nat \ {0} /\ DOMAIN s = 1..Len(s)
    OBVIOUS
  <1>2. DOMAIN Tail(s) = 1..(Len(s) - 1) /\ \A i \in DOMAIN Tail(s) : Tail(s)[i] = s[i + 1]
    OBVIOUS
  <1>3. ASSUME NEW i \in DOMAIN s, s[i] = x, i # 1 PROVE Says(Tail(s), x)
    <2>1. i - 1 \in DOMAIN Tail(s) /\ Tail(s)[i - 1] = x
      BY <1>1, <1>2, <1>3
    <2> QED
      BY <2>1 DEF Says
  <1>4. Says(Tail(s), x) => Says(s, x)
    <2>1. \A i \in DOMAIN Tail(s) : i + 1 \in DOMAIN s
      BY <1>1, <1>2
    <2> QED
      BY <1>2, <2>1 DEF Says
  <1> QED
    BY <1>1, <1>3, <1>4 DEF Says

\* A call another call's step does not concern, but for the slot it may be handed.
Undisturbed(d) ==
    /\ \/ pc'[d] = pc[d]
       \/ pc[d] = "queued" /\ pc'[d] = "granted"
    /\ outcome'[d] = outcome[d]
    /\ item'[d] = item[d] /\ channel'[d] = channel[d]
    /\ delivered'[d] = delivered[d] /\ end'[d] = end[d]

\* What was known and told of it stays so.
LEMMA UndisturbedKept ==
    ASSUME NEW d \in Calls, OutcomeKnown(d), OutcomeTold(d), Undisturbed(d)
    PROVE  OutcomeKnown(d)' /\ OutcomeTold(d)'
  BY DEF OutcomeKnown, OutcomeTold, Undisturbed, InHandler, Uploading, InParse, Told, Says

\* A call that moves before anything is told of it, its stream left alone.
LEMMA QuietMove ==
    ASSUME NEW c \in Calls, OutcomeTold(c), pc[c] \notin Told, pc'[c] \notin Told,
           item'[c] = item[c], channel'[c] = channel[c],
           delivered'[c] = delivered[c], end'[c] = end[c],
           outcome'[c] = outcome[c] \/ outcome'[c] # "complete"
    PROVE  OutcomeTold(c)'
  BY DEF OutcomeTold, Told, Says

\* Handing on a slot disturbs nobody else.
LEMMA PassSlotUndisturbed ==
    ASSUME TypeOK, NoIdleSlotWhileQueued, NEW c \in Calls, NEW x, pc[c] # "queued",
           PassSlot(c, x)
    PROVE  /\ pc'[c] = x
           /\ \A d \in Calls \ {c} :
                 pc'[d] = pc[d] \/ (pc[d] = "queued" /\ pc'[d] = "granted")
  <1>1. pc \in [Calls -> PCs]
    BY DEF TypeOK, ControlType
  <1>2. slot_queue # <<>> => pc[Head(slot_queue)] = "queued"
    BY HeadWaits
  <1> QED
    BY <1>1, <1>2 DEF PassSlot

\* The upload: nothing is known or told of a call but that it was refused.
LEMMA EndUpload ==
    ASSUME TypeOK, EndInv, NEW c \in Calls, Connect(c) \/ Frame(c)
    PROVE  EndInv'
  <1>1. /\ pc \in [Calls -> PCs]
        /\ outcome \in [Calls -> {"none"} \cup Refusals \cup Results]
    BY DEF TypeOK, ControlType
  <1>2. /\ pc[c] \in {"idle"} \cup Uploading
        /\ UNCHANGED streamVars
        /\ \/ /\ pc[c] \in Uploading
              /\ UNCHANGED <<pc, outcome>>
           \/ /\ \E x \in InHandler : pc' = [pc EXCEPT ![c] = x]
              /\ UNCHANGED outcome
           \/ /\ pc' = [pc EXCEPT ![c] = "unwinding"]
              /\ \E why \in Refusals : outcome' = [outcome EXCEPT ![c] = why]
    <2> USE DEF InHandler, Uploading
    <2>1. CASE Connect(c) \/ OptionsFrame(c) \/ EmptyFrame(c) \/ EndOfUpload(c)
      BY <2>1 DEF Connect, OptionsFrame, EmptyFrame, EndOfUpload
    <2>2. CASE MisplacedFrame(c) \/ TransportError(c)
      BY <2>2 DEF MisplacedFrame, TransportError, Refuse, Refusals
    <2>3. ASSUME NEW n \in Chunks, ChunkFrame(c, n)
          PROVE  /\ pc[c] = "receiving"
                 /\ UNCHANGED streamVars
                 /\ \/ UNCHANGED <<pc, outcome>>
                    \/ /\ pc' = [pc EXCEPT ![c] = "unwinding"]
                       /\ \E why \in Refusals : outcome' = [outcome EXCEPT ![c] = why]
      BY <2>3 DEF ChunkFrame, AcceptChunk, Refuse, Refusals
    <2> QED
      BY <2>1, <2>2, <2>3 DEF Frame
  <1> SUFFICES ASSUME NEW d \in Calls PROVE OutcomeKnown(d)' /\ OutcomeTold(d)'
    BY DEF EndInv
  <1>3. OutcomeKnown(d) /\ OutcomeTold(d)
    BY DEF EndInv
  <1>4. CASE d # c
    <2>1. Undisturbed(d)
      BY <1>1, <1>2, <1>4 DEF Undisturbed, streamVars
    <2> QED
      BY <1>3, <2>1, UndisturbedKept
  <1>5. CASE d = c
    <2>1. /\ pc[c] \notin Told /\ pc'[c] \notin Told
          /\ outcome'[c] = outcome[c] \/ outcome'[c] # "complete"
      BY <1>1, <1>2 DEF Told, InHandler, Uploading, Refusals
    <2>2. OutcomeTold(c)'
      BY <1>2, <1>3, <1>5, <2>1, QuietMove DEF streamVars
    <2>3. OutcomeKnown(c)'
      BY <1>1, <1>2, <1>3, <1>5 DEF OutcomeKnown, InHandler, Uploading, InParse
    <2> QED
      BY <1>5, <2>2, <2>3
  <1> QED
    BY <1>4, <1>5

\* So a step of a call is a matter of that call.
LEMMA EndOfOne ==
    ASSUME EndInv, NEW c \in Calls, \A d \in Calls \ {c} : Undisturbed(d),
           OutcomeKnown(c)', OutcomeTold(c)'
    PROVE  EndInv'
  BY UndisturbedKept DEF EndInv

\* The handler: a refusal reaches whoever still listens when the buffer is gone.
LEMMA EndHandler ==
    ASSUME TypeOK, EndInv, NEW c \in Calls, Handler(c)
    PROVE  EndInv'
  <1>1. /\ pc \in [Calls -> PCs]
        /\ outcome \in [Calls -> {"none"} \cup Refusals \cup Results]
        /\ end \in [Calls -> {"open", "ok", "error", "hungup"}]
        /\ OutcomeKnown(c) /\ OutcomeTold(c)
    BY DEF TypeOK, ControlType, StreamType, EndInv
  <1>2. CASE Tick(c)
    <2>1. UNCHANGED <<pc, outcome, streamVars>>
      BY <1>2 DEF Tick
    <2> QED
      BY <2>1 DEF EndInv, OutcomeKnown, OutcomeTold, streamVars, Says
  <1>3. CASE Timeout(c) \/ StartParse(c) \/ DropShare(c)
    <2>1. /\ UNCHANGED streamVars
          /\ \/ /\ pc[c] \in Uploading /\ pc' = [pc EXCEPT ![c] = "unwinding"]
                /\ outcome' = [outcome EXCEPT ![c] = "deadline"]
             \/ /\ pc[c] = "granted" /\ pc' = [pc EXCEPT ![c] = "parsing"]
                /\ UNCHANGED outcome
             \/ /\ pc[c] = "unwinding" /\ pc' = [pc EXCEPT ![c] = "unshared"]
                /\ UNCHANGED outcome
      BY <1>3 DEF Timeout, Refuse, StartParse, DropShare
    <2>2. \A d \in Calls \ {c} : Undisturbed(d)
      BY <1>1, <2>1 DEF Undisturbed, streamVars
    <2>3. OutcomeTold(c)'
      <3>1. pc[c] \notin Told /\ pc'[c] \notin Told
        BY <1>1, <2>1 DEF Told, Uploading
      <3>2. outcome'[c] = outcome[c] \/ outcome'[c] # "complete"
        BY <1>1, <2>1
      <3> QED
        BY <1>1, <2>1, <3>1, <3>2, QuietMove DEF streamVars
    <2>4. OutcomeKnown(c)'
      BY <1>1, <2>1 DEF OutcomeKnown, InHandler, Uploading, InParse, Refusals
    <2> QED
      BY <2>2, <2>3, <2>4, EndOfOne
  <1>4. CASE DropBuffer(c)
    <2>1. /\ pc[c] = "unshared" /\ pc' = [pc EXCEPT ![c] = "done"]
          /\ end' = [end EXCEPT ![c] = IF @ = "open" THEN "error" ELSE @]
          /\ UNCHANGED <<outcome, item, channel, delivered>>
      BY <1>4 DEF DropBuffer
    <2>2. \A d \in Calls \ {c} : Undisturbed(d)
      BY <1>1, <2>1 DEF Undisturbed
    <2>3. outcome[c] \in Refusals /\ end'[c] \in {"error", "hungup"}
      BY <1>1, <2>1 DEF OutcomeKnown, OutcomeTold, Told
    <2>4. OutcomeKnown(c)' /\ OutcomeTold(c)'
      BY <1>1, <2>1, <2>3
         DEF OutcomeKnown, OutcomeTold, InHandler, Uploading, InParse, Refusals, Broken, Told, Says
    <2> QED
      BY <2>2, <2>4, EndOfOne
  <1> QED
    BY <1>2, <1>3, <1>4 DEF Handler

\* A client that hangs up has nothing more to be told.
LEMMA EndCancel ==
    ASSUME TypeOK, NoIdleSlotWhileQueued, EndInv, NEW c \in Calls, Cancel(c)
    PROVE  EndInv'
  <1>1. /\ pc \in [Calls -> PCs]
        /\ outcome \in [Calls -> {"none"} \cup Refusals \cup Results]
        /\ end \in [Calls -> {"open", "ok", "error", "hungup"}]
        /\ channel \in [Calls -> Seq(Items)]
        /\ OutcomeKnown(c) /\ OutcomeTold(c)
    BY DEF TypeOK, ControlType, StreamType, EndInv
  <1>2. /\ end[c] = "open" /\ end' = [end EXCEPT ![c] = "hungup"]
        /\ UNCHANGED <<item, delivered>>
    BY DEF Cancel
  <1>3. CASE pc[c] \in InHandler
    <2>1. /\ DropHandler(c) /\ UNCHANGED channel
          /\ outcome' = [outcome EXCEPT ![c] = "cancelled"]
      BY <1>3 DEF Cancel
    <2>2. /\ pc'[c] = "unwinding"
          /\ \A d \in Calls \ {c} :
                 pc'[d] = pc[d] \/ (pc[d] = "queued" /\ pc'[d] = "granted")
      BY <1>1, <2>1, PassSlotUndisturbed DEF DropHandler
    <2>3. \A d \in Calls \ {c} : Undisturbed(d)
      BY <1>1, <1>2, <2>1, <2>2 DEF Undisturbed
    <2>4. OutcomeKnown(c)' /\ OutcomeTold(c)'
      BY <1>1, <1>2, <1>3, <2>1, <2>2
         DEF OutcomeKnown, OutcomeTold, InHandler, Uploading, InParse, Refusals, Told, Says
    <2> QED
      BY <2>3, <2>4, EndOfOne
  <1>4. CASE pc[c] \notin InHandler
    <2>1. channel' = [channel EXCEPT ![c] = <<>>] /\ UNCHANGED <<pc, outcome>>
      BY <1>4 DEF Cancel
    <2>2. \A d \in Calls \ {c} : Undisturbed(d)
      BY <1>1, <1>2, <2>1 DEF Undisturbed
    <2>3. OutcomeKnown(c)' /\ OutcomeTold(c)'
      BY <1>1, <1>2, <2>1 DEF OutcomeKnown, OutcomeTold, Says
    <2> QED
      BY <2>2, <2>3, EndOfOne
  <1> QED
    BY <1>3, <1>4

\* The parse thread: it says nothing of a failure, and is complete only once
\* its trailer is on the channel.
LEMMA EndParser ==
    ASSUME TypeOK, EndInv, NEW c \in Calls, Parser(c)
    PROVE  EndInv'
  <1>1. /\ pc \in [Calls -> PCs]
        /\ outcome \in [Calls -> {"none"} \cup Refusals \cup Results]
        /\ item \in [Calls -> Items] /\ channel \in [Calls -> Seq(Items)]
        /\ item[c] \in Items /\ channel[c] \in Seq(Items)
        /\ OutcomeKnown(c) /\ OutcomeTold(c)
    BY DEF TypeOK, ControlType, StreamType, EndInv
  <1>2. pc[c] \in InParse /\ UNCHANGED <<delivered, end>>
    BY DEF Parser, Send, SendWaiting, StallTimeout, ParseFails, InParse, streamVars
  <1>3. Sendable(c) \subseteq Items \ {"error"}
    BY DEF Sendable, Items
  <1>4. \/ /\ \E result \in {"abandoned", "failed", "panicked"} : ParseReturns(c, result)
           /\ UNCHANGED <<item, channel>>
        \/ \E e \in Items \ {"error"} : Sent(c, e) /\ UNCHANGED item
        \/ /\ pc' = [pc EXCEPT ![c] = "stalled"]
           /\ \E e \in Items \ {"error"} : item' = [item EXCEPT ![c] = e]
           /\ UNCHANGED <<outcome, channel>>
    <2>1. CASE Send(c)
      BY <1>3, <2>1 DEF Send
    <2>2. CASE SendWaiting(c)
      BY <1>1, <2>2 DEF SendWaiting, OutcomeTold
    <2>3. CASE StallTimeout(c) \/ ParseFails(c)
      BY <2>3 DEF StallTimeout, ParseFails, streamVars
    <2> QED
      BY <2>1, <2>2, <2>3 DEF Parser
  <1>5. pc[c] \notin Told
    BY <1>2 DEF InParse, Told
  <1>6. ASSUME NEW result \in {"abandoned", "failed", "panicked"}, ParseReturns(c, result),
               UNCHANGED <<item, channel>>
        PROVE  EndInv'
    <2>1. /\ pc' = [pc EXCEPT ![c] = "returned"] /\ outcome' = [outcome EXCEPT ![c] = result]
          /\ pc'[c] = "returned" /\ outcome'[c] = result
      BY <1>1, <1>6 DEF ParseReturns
    <2>2. \A d \in Calls \ {c} : Undisturbed(d)
      BY <1>1, <1>2, <1>6, <2>1 DEF Undisturbed
    <2>3. OutcomeTold(c)'
      BY <1>1, <1>2, <1>5, <1>6, <2>1, QuietMove DEF Told
    <2>4. OutcomeKnown(c)'
      BY <1>6, <2>1 DEF OutcomeKnown, InHandler, Uploading, InParse, Results
    <2> QED
      BY <2>2, <2>3, <2>4, EndOfOne
  <1>7. ASSUME NEW e \in Items \ {"error"}, Sent(c, e), UNCHANGED item
        PROVE  EndInv'
    <2>1. /\ channel' = [channel EXCEPT ![c] = Append(@, e)]
          /\ \/ /\ e = "status" /\ pc' = [pc EXCEPT ![c] = "returned"]
                /\ outcome' = [outcome EXCEPT ![c] = "complete"]
             \/ pc' = [pc EXCEPT ![c] = "parsing"] /\ UNCHANGED outcome
      BY <1>7 DEF Sent, ParseReturns
    <2>2. \A d \in Calls \ {c} : Undisturbed(d)
      BY <1>1, <1>2, <1>7, <2>1 DEF Undisturbed
    <2>3. \A x : Says(channel'[c], x) <=> Says(channel[c], x) \/ e = x
      BY <1>1, <2>1, SaysAppend
    <2>4. OutcomeTold(c)'
      BY <1>1, <1>2, <1>5, <1>7, <2>1, <2>3 DEF OutcomeTold, OutcomeKnown, Told
    <2>5. OutcomeKnown(c)'
      BY <1>1, <1>2, <2>1 DEF OutcomeKnown, InHandler, Uploading, InParse, Results
    <2> QED
      BY <2>2, <2>4, <2>5, EndOfOne
  <1>8. ASSUME NEW e \in Items \ {"error"}, pc' = [pc EXCEPT ![c] = "stalled"],
               item' = [item EXCEPT ![c] = e], UNCHANGED <<outcome, channel>>
        PROVE  EndInv'
    <2>1. \A d \in Calls \ {c} : Undisturbed(d)
      BY <1>1, <1>2, <1>8 DEF Undisturbed
    <2>2. OutcomeKnown(c)' /\ OutcomeTold(c)'
      BY <1>1, <1>2, <1>5, <1>8
         DEF OutcomeKnown, OutcomeTold, InHandler, Uploading, InParse, Told, Says
    <2> QED
      BY <2>1, <2>2, EndOfOne
  <1> QED
    BY <1>4, <1>6, <1>7, <1>8

\* The supervisor: a failure goes out before the slot does.
LEMMA EndSupervisor ==
    ASSUME TypeOK, NoIdleSlotWhileQueued, EndInv, NEW c \in Calls, Supervisor(c)
    PROVE  EndInv'
  <1>1. /\ pc \in [Calls -> PCs]
        /\ outcome \in [Calls -> {"none"} \cup Refusals \cup Results]
        /\ end \in [Calls -> {"open", "ok", "error", "hungup"}]
        /\ channel \in [Calls -> Seq(Items)] /\ channel[c] \in Seq(Items)
        /\ OutcomeKnown(c) /\ OutcomeTold(c)
    BY DEF TypeOK, ControlType, StreamType, EndInv
  <1> USE DEF OutcomeKnown, OutcomeTold, InHandler, Uploading, InParse, Told, Broken,
              Refusals, Results, Says
  <1>2. CASE Join(c)
    <2>1. /\ pc[c] = "returned" /\ UNCHANGED <<outcome, streamVars>>
          /\ \/ /\ outcome[c] \in {"complete", "abandoned"}
                /\ pc' = [pc EXCEPT ![c] = "releasing"]
             \/ outcome[c] \in Broken /\ pc' = [pc EXCEPT ![c] = "reporting"]
      BY <1>2 DEF Join
    <2>2. \A d \in Calls \ {c} : Undisturbed(d)
      BY <1>1, <2>1 DEF Undisturbed, streamVars
    <2>3. OutcomeKnown(c)' /\ OutcomeTold(c)'
      BY <1>1, <2>1 DEF streamVars
    <2> QED
      BY <2>2, <2>3, EndOfOne
  <1>3. CASE Report(c)
    <2>1. /\ pc[c] = "reporting" /\ pc' = [pc EXCEPT ![c] = "releasing"]
          /\ UNCHANGED <<outcome, item, delivered, end>>
          /\ \/ end[c] # "open" /\ UNCHANGED channel
             \/ end[c] = "open" /\ channel' = [channel EXCEPT ![c] = Append(@, "error")]
      BY <1>3 DEF Report
    <2>2. \A d \in Calls \ {c} : Undisturbed(d)
      BY <1>1, <2>1 DEF Undisturbed
    <2>3. OutcomeKnown(c)'
      BY <1>1, <2>1
    <2>4. OutcomeTold(c)'
      <3>1. /\ pc'[c] = "releasing" /\ outcome'[c] \in Broken /\ item'[c] # "error"
            /\ end'[c] = end[c] /\ end[c] \in {"open", "hungup"}
        BY <1>1, <2>1
      <3>2. end[c] = "open" => channel'[c] = Append(channel[c], "error")
        BY <1>1, <2>1
      <3> HIDE DEF Says
      <3>3. Says(Append(channel[c], "error"), "error")
        <4>1. channel[c] \in Seq(Items) /\ "error" \in Items
          BY <1>1 DEF Items
        <4> QED
          BY ONLY <4>1, SaysAppend
      <3>4. end[c] = "open" => Says(channel'[c], "error")
        BY <3>2, <3>3
      <3> QED
        BY <3>1, <3>4
    <2> QED
      BY <2>2, <2>3, <2>4, EndOfOne
  <1>4. CASE ReleaseSlot(c)
    <2>1. pc[c] = "releasing" /\ PassSlot(c, "returning") /\ UNCHANGED <<outcome, streamVars>>
      BY <1>4 DEF ReleaseSlot
    <2>2. /\ pc'[c] = "returning"
          /\ \A d \in Calls \ {c} :
                 pc'[d] = pc[d] \/ (pc[d] = "queued" /\ pc'[d] = "granted")
      BY <2>1, PassSlotUndisturbed
    <2>3. \A d \in Calls \ {c} : Undisturbed(d)
      BY <2>1, <2>2 DEF Undisturbed, streamVars
    <2>4. OutcomeKnown(c)' /\ OutcomeTold(c)'
      BY <1>1, <2>1, <2>2 DEF streamVars
    <2> QED
      BY <2>3, <2>4, EndOfOne
  <1>5. CASE ReturnShare(c)
    <2>1. /\ pc[c] = "returning" /\ pc' = [pc EXCEPT ![c] = "done"]
          /\ UNCHANGED <<outcome, streamVars>>
      BY <1>5 DEF ReturnShare
    <2>2. \A d \in Calls \ {c} : Undisturbed(d)
      BY <1>1, <2>1 DEF Undisturbed, streamVars
    <2>3. OutcomeKnown(c)' /\ OutcomeTold(c)'
      BY <1>1, <2>1 DEF streamVars
    <2> QED
      BY <2>2, <2>3, EndOfOne
  <1> QED
    BY <1>2, <1>3, <1>4, <1>5 DEF Supervisor

\* The client: its stream ends well only when nothing is left to be told.
LEMMA EndClient ==
    ASSUME TypeOK, EndInv, NEW c \in Calls, Client(c)
    PROVE  EndInv'
  <1>1. /\ end \in [Calls -> {"open", "ok", "error", "hungup"}]
        /\ channel \in [Calls -> Seq(Items)] /\ channel[c] \in Seq(Items)
        /\ delivered \in [Calls -> Seq(Items)] /\ delivered[c] \in Seq(Items)
        /\ OutcomeKnown(c) /\ OutcomeTold(c)
    BY DEF TypeOK, StreamType, EndInv
  <1>2. UNCHANGED <<pc, outcome, item>>
    BY DEF Client, ClientRead, ClientEnd
  <1>3. OutcomeKnown(c)'
    BY <1>1, <1>2 DEF OutcomeKnown
  <1>4. CASE ClientRead(c)
    <2> DEFINE first == Head(channel[c])
               rest == Tail(channel[c])
    <2>1. /\ end[c] = "open" /\ channel[c] # <<>>
          /\ delivered' = [delivered EXCEPT ![c] = Append(@, first)]
          /\ \/ /\ first = "error"
                /\ channel' = [channel EXCEPT ![c] = <<>>]
                /\ end' = [end EXCEPT ![c] = "error"]
             \/ /\ first # "error"
                /\ channel' = [channel EXCEPT ![c] = rest]
                /\ UNCHANGED end
      BY <1>4 DEF ClientRead
    <2>2. \A d \in Calls \ {c} : Undisturbed(d)
      BY <1>1, <1>2, <2>1 DEF Undisturbed
    <2>3. first \in Items
      BY <1>1, <2>1
    <2>4. \A x : Says(channel[c], x) <=> first = x \/ Says(rest, x)
      BY <1>1, <2>1, SaysTail
    <2>5. \A x : Says(Append(delivered[c], first), x) <=> Says(delivered[c], x) \/ first = x
      BY <1>1, <2>3, SaysAppend
    <2> HIDE DEF first, rest
    <2>6. delivered'[c] = Append(delivered[c], first)
      BY <1>1, <2>1
    <2>7. CASE first = "error"
      <3>1. channel'[c] = <<>> /\ end'[c] = "error" /\ ~Says(channel'[c], "error")
        BY <1>1, <2>1, <2>7 DEF Says
      <3>2. pc[c] \in Told /\ outcome[c] \in Broken
        BY <1>1, <2>4, <2>7 DEF OutcomeTold
      <3>3. OutcomeTold(c)'
        BY <1>1, <1>2, <3>1, <3>2 DEF OutcomeTold, Broken, Refusals
      <3> QED
        BY <1>3, <2>2, <3>3, EndOfOne
    <2>8. CASE first # "error"
      <3>1. channel'[c] = rest /\ end'[c] = "open"
        BY <1>1, <2>1, <2>8
      <3>2. OutcomeTold(c)'
        BY <1>1, <1>2, <2>1, <2>4, <2>5, <2>6, <2>8, <3>1 DEF OutcomeTold
      <3> QED
        BY <1>3, <2>2, <3>2, EndOfOne
    <2> QED
      BY <2>7, <2>8
  <1>5. CASE ClientEnd(c)
    <2>1. /\ end[c] = "open" /\ pc[c] = "done" /\ channel[c] = <<>>
          /\ end' = [end EXCEPT ![c] = "ok"] /\ UNCHANGED <<channel, delivered>>
      BY <1>5 DEF ClientEnd
    <2>2. \A d \in Calls \ {c} : Undisturbed(d)
      BY <1>1, <1>2, <2>1 DEF Undisturbed
    <2>3. ~Says(channel[c], "error") /\ ~Says(channel[c], "status")
      BY <2>1 DEF Says
    <2>4. outcome[c] \notin Broken /\ outcome[c] \notin Refusals
      BY <1>1, <2>1, <2>3 DEF OutcomeTold, Told
    <2>5. OutcomeTold(c)'
      BY <1>1, <1>2, <2>1, <2>3, <2>4 DEF OutcomeTold
    <2> QED
      BY <1>3, <2>2, <2>5, EndOfOne
  <1> QED
    BY <1>4, <1>5 DEF Client

\* Every step of the service keeps what is known and told of each call.
LEMMA EndStep == SemaphoreInv /\ EndInv /\ [Next]_vars => EndInv'
  <1>1. ASSUME SemaphoreInv, EndInv, Next PROVE EndInv'
    <2>1. TypeOK /\ NoIdleSlotWhileQueued
      BY <1>1 DEF SemaphoreInv
    <2> QED
      BY <1>1, <2>1, EndUpload, EndHandler, EndCancel, EndParser, EndSupervisor, EndClient
         DEF Next
  <1>2. ASSUME EndInv, UNCHANGED vars PROVE EndInv'
    BY <1>2 DEF EndInv, OutcomeKnown, OutcomeTold, Says, vars, streamVars
  <1> QED
    BY <1>1, <1>2

\* So it always holds.
LEMMA EndSafe == Spec => []EndInv
  <1>1. Init => EndInv
    BY DEF Init, EndInv, OutcomeKnown, OutcomeTold, InHandler, Uploading, InParse, Told,
           Refusals, Broken, Says
  <1> QED
    BY <1>1, EndStep, SemaphoresSafe, PTL DEF Spec

\* A stream ends with OK only after its call gave back its slot and its share.
THEOREM CleanEndSafe == Spec => []CleanEndAfterRelease
  <1>1. EndInv /\ ShareInv => CleanEndAfterRelease
    BY DEF EndInv, OutcomeTold, ShareInv, CleanEndAfterRelease, HoldsSlot, InParse
  <1>2. Init => ShareInv
    BY LimitsAssumption DEF Init, ShareInv
  <1> QED
    BY <1>1, <1>2, ShareStep, EndSafe, SemaphoresSafe, PTL DEF Spec

\* A failed or panicked parse, or a refused upload, never looks to its client
\* like a stream that ended well: without its trailer that is an abandoned one.
THEOREM TruncationSafe == Spec => []TruncatedOnlyAfterStall
  <1>1. ASSUME TypeOK, EndInv PROVE TruncatedOnlyAfterStall
    <2> SUFFICES ASSUME NEW c \in Calls, end[c] = "ok", ~Says(delivered[c], "status")
                 PROVE  outcome[c] = "abandoned"
      BY DEF TruncatedOnlyAfterStall, Says
    <2>1. OutcomeKnown(c) /\ OutcomeTold(c) /\ pc[c] = "done" /\ channel[c] = <<>>
      BY <1>1 DEF EndInv, OutcomeTold
    <2>2. ~Says(channel[c], "error") /\ ~Says(channel[c], "status")
      BY <2>1 DEF Says
    <2>3. outcome[c] \notin Broken \cup Refusals /\ outcome[c] # "complete"
      BY <2>1, <2>2 DEF OutcomeTold, Told
    <2> QED
      BY <2>1, <2>3 DEF OutcomeKnown, Results, Broken
  <1>2. SemaphoreInv => TypeOK
    BY DEF SemaphoreInv
  <1> QED
    BY <1>1, <1>2, EndSafe, SemaphoresSafe, PTL

-----------------------------------------------------------------------------
(* The counters printed on the way out.                                    *)

HungUp == {c \in Calls : end[c] = "hungup"}

\* Once the connections are gone, only what hung up still has a parse to be
\* counted; the line printed after that is short of no more than those.
FinalInv ==
    /\ phase = "closed" => CallsAt(pc, Unjoined) \subseteq HungUp
    /\ FinalLineTells

\* A call that hung up stays hung up.
LEMMA HangupsStay ==
    ASSUME TypeOK, [Next]_vars
    PROVE  HungUp \subseteq HungUp'
  <1>1. end \in [Calls -> {"open", "ok", "error", "hungup"}]
    BY DEF TypeOK, StreamType
  <1>2. \/ UNCHANGED end
        \/ \E c \in Calls : end[c] = "open" /\ \E x : end' = [end EXCEPT ![c] = x]
        \/ \E c \in Calls : end' = [end EXCEPT ![c] = IF @ = "open" THEN "error" ELSE @]
    <2>1. UNCHANGED vars => UNCHANGED end
      BY DEF vars, streamVars
    <2>2. ASSUME NEW c \in Calls, Connect(c) \/ Frame(c) PROVE UNCHANGED end
      <3>1. ASSUME NEW n \in Chunks, ChunkFrame(c, n) PROVE UNCHANGED end
        BY <3>1 DEF ChunkFrame, streamVars
      <3> QED
        BY <2>2, <3>1 DEF Connect, Frame, OptionsFrame, MisplacedFrame, EmptyFrame,
                          TransportError, EndOfUpload, streamVars
    <2>3. ASSUME NEW c \in Calls, Handler(c)
          PROVE  UNCHANGED end \/ end' = [end EXCEPT ![c] = IF @ = "open" THEN "error" ELSE @]
      BY <2>3 DEF Handler, Tick, Timeout, StartParse, DropShare, DropBuffer, streamVars
    <2>4. ASSUME NEW c \in Calls, Parser(c) \/ Supervisor(c) PROVE UNCHANGED end
      BY <2>4 DEF Parser, Send, SendWaiting, StallTimeout, ParseFails,
                  Supervisor, Join, Report, ReleaseSlot, ReturnShare, streamVars
    <2>5. ASSUME NEW c \in Calls, Client(c)
          PROVE  UNCHANGED end \/ (end[c] = "open" /\ \E x : end' = [end EXCEPT ![c] = x])
      BY <2>5 DEF Client, ClientRead, ClientEnd
    <2>6. ASSUME NEW c \in Calls, Cancel(c)
          PROVE  end[c] = "open" /\ \E x : end' = [end EXCEPT ![c] = x]
      BY <2>6 DEF Cancel
    <2> QED
      BY <2>1, <2>2, <2>3, <2>4, <2>5, <2>6 DEF Next
  <1>3. \A c \in Calls : end[c] = "hungup" => end'[c] = "hungup"
    BY <1>1, <1>2
  <1> QED
    BY <1>3 DEF HungUp

\* With the connections gone no handler is polled, so no parse begins.
LEMMA ClosedStep ==
    ASSUME SemaphoreInv, NEW c \in Calls, Polled(c), phase = "closed"
    PROVE  CallsAt(pc', Unjoined) \subseteq CallsAt(pc, Unjoined)
  <1>1. TypeOK /\ NoIdleSlotWhileQueued /\ pc \in [Calls -> PCs]
    BY DEF SemaphoreInv, TypeOK, ControlType
  <1>2. Supervisor(c) \/ Parser(c)
    BY DEF Polled
  <1> USE DEF CallsAt, Unjoined, InParse
  <1>3. CASE Parser(c)
    <2>1. /\ pc[c] \in InParse
          /\ \E x \in {"parsing", "stalled", "returned"} : pc' = [pc EXCEPT ![c] = x]
      BY <1>3 DEF Parser, Send, SendWaiting, StallTimeout, ParseFails, ParseReturns, Sent
    <2> QED
      BY <1>1, <2>1
  <1>4. CASE Join(c) \/ Report(c) \/ ReturnShare(c)
    <2>1. \E x \in {"releasing", "reporting", "done"} : pc' = [pc EXCEPT ![c] = x]
      BY <1>4 DEF Join, Report, ReturnShare
    <2> QED
      BY <1>1, <2>1
  <1>5. CASE ReleaseSlot(c)
    <2>1. pc[c] = "releasing" /\ PassSlot(c, "returning")
      BY <1>5 DEF ReleaseSlot
    <2>2. /\ pc'[c] = "returning"
          /\ \A d \in Calls \ {c} :
                 pc'[d] = pc[d] \/ (pc[d] = "queued" /\ pc'[d] = "granted")
      BY <1>1, <2>1, PassSlotUndisturbed
    <2> QED
      BY <2>2
  <1> QED
    BY <1>2, <1>3, <1>4, <1>5 DEF Supervisor

\* Every step of the process keeps the promise of the final line.
LEMMA FinalStep ==
    SemaphoreInv /\ MetricsBalance /\ EndInv /\ FinalInv /\ [ServerNext]_allVars => FinalInv'
  <1> SUFFICES ASSUME SemaphoreInv, MetricsBalance, EndInv, FinalInv, [ServerNext]_allVars
               PROVE  FinalInv'
    OBVIOUS
  <1> DEFINE balance == line.started - line.succeeded - line.failed
  <1>1. TypeOK /\ [Next]_vars
    BY ServerStep DEF SemaphoreInv
  <1>2. HungUp \subseteq HungUp'
    BY <1>1, HangupsStay
  <1>3. /\ IsFiniteSet(HungUp) /\ IsFiniteSet(HungUp')
        /\ Cardinality(HungUp) \in Nat /\ Cardinality(HungUp') \in Nat
        /\ Cardinality(HungUp) <= Cardinality(HungUp')
    BY <1>2, CallsAssumption, FS_Subset, FS_CardinalityType DEF HungUp
  <1>4. balance \in 0..Cardinality(HungUp)
    BY DEF FinalInv, FinalLineTells, HungUp
  <1>5. UNCHANGED line => FinalLineTells'
    <2>1. ASSUME UNCHANGED line PROVE balance' = balance
      BY <2>1
    <2> HIDE DEF balance
    <2>2. ASSUME UNCHANGED line PROVE balance' \in 0..Cardinality(HungUp')
      BY <1>3, <1>4, <2>1, <2>2
    <2> QED
      BY <2>2 DEF FinalLineTells, HungUp, balance
  <1>6. CASE Return
    <2> DEFINE open == CallsAt(pc, Unjoined)
    <2>1. phase = "closed" /\ phase' = "leaving" /\ line' = Snapshot /\ UNCHANGED vars
      BY <1>6 DEF Return
    <2>2. Cardinality(open) \in Nat /\ Cardinality(open) <= Cardinality(HungUp)
      BY <1>3, <2>1, CountFinite, FS_Subset DEF FinalInv
    <2>3. /\ parses_started \in Nat /\ parses_succeeded \in Nat /\ parses_failed \in Nat
          /\ parses_started = parses_succeeded + parses_failed + Cardinality(open)
      BY <1>1 DEF TypeOK, MetricType, MetricsBalance
    <2>4. /\ line'.started = parses_started
          /\ line'.succeeded = parses_succeeded
          /\ line'.failed = parses_failed
      BY <2>1 DEF Snapshot
    <2>5. HungUp' = HungUp
      BY <2>1 DEF HungUp, vars, streamVars
    <2> HIDE DEF open
    <2>6. parses_started - parses_succeeded - parses_failed \in 0..Cardinality(HungUp)
      BY <1>3, <2>2, <2>3
    <2>7. FinalLineTells'
      BY <2>4, <2>5, <2>6 DEF FinalLineTells, HungUp
    <2> QED
      BY <2>1, <2>7 DEF FinalInv
  <1>7. CASE Drained
    <2>1. phase' = "closed" /\ UNCHANGED <<vars, line>> /\ \A c \in Calls : ~Streaming(c)
      BY <1>7 DEF Drained
    <2>2. ASSUME NEW c \in Calls, pc[c] \in Unjoined PROVE end[c] = "hungup"
      <3>1. end[c] \in {"open", "ok", "error", "hungup"}
        BY <1>1 DEF TypeOK, StreamType
      <3>2. end[c] # "open"
        BY <2>1, <2>2 DEF Streaming, Unjoined, InParse
      <3>3. end[c] # "ok" /\ end[c] # "error"
        BY <2>2 DEF EndInv, OutcomeTold, Told, Unjoined, InParse
      <3> QED
        BY <3>1, <3>2, <3>3
    <2>3. CallsAt(pc, Unjoined) \subseteq HungUp
      BY <2>2 DEF CallsAt, HungUp
    <2>4. CallsAt(pc, Unjoined)' = CallsAt(pc, Unjoined) /\ HungUp' = HungUp
      BY <2>1 DEF vars, streamVars, CallsAt, HungUp
    <2> QED
      BY <1>5, <2>1, <2>3, <2>4 DEF FinalInv
  <1>8. CASE Signal \/ Exit
    BY <1>5, <1>8 DEF Signal, Exit, FinalInv
  <1>9. ASSUME NEW c \in Calls, Arriving(c) PROVE FinalInv'
    BY <1>5, <1>9 DEF Arriving, serverVars, FinalInv
  <1>10. ASSUME NEW c \in Calls, Polled(c) PROVE FinalInv'
    <2>1. UNCHANGED <<phase, line>>
      BY <1>10 DEF Polled, serverVars
    <2>2. ASSUME phase = "closed" PROVE CallsAt(pc, Unjoined)' \subseteq HungUp'
      BY <1>2, <1>10, <2>2, ClosedStep, CallsAtPrime DEF FinalInv
    <2> QED
      BY <1>5, <2>1, <2>2 DEF FinalInv
  <1>11. CASE UNCHANGED allVars
    <2>1. CallsAt(pc, Unjoined)' = CallsAt(pc, Unjoined) /\ UNCHANGED <<phase, line>>
      BY <1>11 DEF allVars, serverVars, vars, CallsAt
    <2> QED
      BY <1>2, <1>5, <2>1 DEF FinalInv
  <1> QED
    BY <1>6, <1>7, <1>8, <1>9, <1>10, <1>11 DEF ServerNext, Shutdown

\* The counters printed when the process leaves are short of no parse but of
\* those whose clients hung up, and never name one that had not started.
THEOREM FinalLineSafe == ServerSpec => []FinalLineTells
  <1>1. ServerInit => FinalInv
    <2> SUFFICES ASSUME ServerInit PROVE FinalInv
      OBVIOUS
    <2>1. phase = "serving" /\ line = [started |-> 0, succeeded |-> 0, failed |-> 0]
      BY DEF ServerInit
    <2>2. Cardinality(HungUp) \in Nat
      BY CallsAssumption, FS_Subset, FS_CardinalityType DEF HungUp
    <2> QED
      BY <2>1, <2>2 DEF FinalInv, FinalLineTells, HungUp
  <1>2. FinalInv => FinalLineTells
    BY DEF FinalInv
  <1> QED
    BY <1>1, <1>2, FinalStep, ServerRefines, SemaphoresSafe, MetricsSafe, EndSafe, PTL
       DEF ServerSpec

-----------------------------------------------------------------------------
(* Streams as sequences of messages.                                       *)

\* A stream the proto promises, as far as it goes, when what comes right before
\* the status is the document, for a client that asked for it, or an event.
Before(c) == IF fold[c] THEN "document" ELSE "event"

Wellformed(s, before) ==
    \A i \in DOMAIN s :
        /\ s[i] \in {"status", "error"} => i = Len(s)
        /\ s[i] = "document" => before = "document" /\ (i < Len(s) => s[i + 1] = "status")
        /\ s[i] = "status" => i > 1 /\ s[i - 1] = before

LastOf(s) == IF s = <<>> THEN "none" ELSE s[Len(s)]

\* The last message of a stream that has one is one of its messages.
LEMMA LastIsSaid ==
    ASSUME NEW s \in Seq(Items)
    PROVE  \/ LastOf(s) = "none"
           \/ LastOf(s) \in Items /\ LastOf(s) = s[Len(s)] /\ Len(s) \in DOMAIN s
  <1>1. s # <<>> => Len(s) \in DOMAIN s /\ s[Len(s)] \in Items
    OBVIOUS
  <1> QED
    BY <1>1 DEF LastOf

\* What may follow it: Sendable, less the bound on its length.
MayFollow(s, before, e) ==
    /\ e \in {"event", "document", "status"}
    /\ LastOf(s) = "document" => e = "status"
    /\ e = "document" => before = "document"
    /\ e = "status" => LastOf(s) = before

\* How a call's stream stands to where the call is, while its client listens:
\* nothing is said before the parse runs; a running parse has not ended its
\* stream, and what it waits to send still fits; a parse that failed left off
\* between two events, where its error may follow.
StreamInv(c) ==
    /\ Wellformed(Emitted(c), Before(c))
    /\ pc[c] \in {"idle"} \cup InHandler => Emitted(c) = <<>>
    /\ end[c] = "open" =>
          /\ pc[c] \in InParse => LastOf(Emitted(c)) \notin {"status", "error"}
          /\ pc[c] = "stalled" => MayFollow(Emitted(c), Before(c), item[c])
          /\ pc[c] \in {"returned", "reporting"} /\ outcome[c] \in Broken =>
                LastOf(Emitted(c)) \in {"none", "event"}

StreamsInv == \A c \in Calls : StreamInv(c)

\* A message that may follow keeps a stream well formed.
LEMMA WellformedGrows ==
    ASSUME NEW s \in Seq(Items), NEW before \in {"document", "event"}, NEW e, Wellformed(s, before),
           LastOf(s) \notin {"status", "error"}, MayFollow(s, before, e)
    PROVE  Wellformed(Append(s, e), before)
  <1> DEFINE t == Append(s, e)
  <1>1. /\ Len(s) \in Nat /\ DOMAIN s = 1..Len(s) /\ Len(t) = Len(s) + 1
        /\ DOMAIN t = 1..(Len(s) + 1)
        /\ t[Len(s) + 1] = e /\ \A i \in 1..Len(s) : t[i] = s[i]
    OBVIOUS
  <1>2. Len(s) > 0 => LastOf(s) = s[Len(s)]
    BY DEF LastOf
  <1>3. Len(s) = 0 => LastOf(s) = "none"
    BY DEF LastOf
  <1> HIDE DEF t
  <1>4. ASSUME NEW i \in 1..Len(s)
        PROVE  /\ t[i] \in {"status", "error"} => i = Len(t)
               /\ t[i] = "document" => before = "document" /\ (i < Len(t) => t[i + 1] = "status")
               /\ t[i] = "status" => i > 1 /\ t[i - 1] = before
    <2>1. /\ s[i] \in {"status", "error"} => i = Len(s)
          /\ s[i] = "document" => before = "document" /\ (i < Len(s) => s[i + 1] = "status")
          /\ s[i] = "status" => i > 1 /\ s[i - 1] = before
      BY <1>1 DEF Wellformed
    <2>2. t[i] = s[i] /\ (i < Len(s) => t[i + 1] = s[i + 1]) /\ (i > 1 => t[i - 1] = s[i - 1])
      BY <1>1
    <2>3. LastOf(s) = s[Len(s)]
      BY <1>1, <1>2
    <2>4. s[i] \notin {"status", "error"}
      BY <2>1, <2>3
    <2>5. CASE i < Len(s)
      BY <2>1, <2>2, <2>4, <2>5
    <2>6. CASE i = Len(s)
      <3>1. i < Len(t) /\ t[i + 1] = e
        BY <1>1, <2>6
      <3>2. s[i] = "document" => e = "status"
        BY <2>3, <2>6 DEF MayFollow
      <3>3. t[i] = s[i] /\ (i > 1 => t[i - 1] = s[i - 1])
        BY <2>2
      <3>4. t[i] \notin {"status", "error"}
        BY <2>4, <3>3
      <3>5. t[i] = "document" => before = "document" /\ t[i + 1] = "status"
        BY <2>1, <3>1, <3>2, <3>3
      <3> QED
        BY <3>4, <3>5
    <2>7. i < Len(s) \/ i = Len(s)
      <3>1. PICK n \in Nat : n = Len(s)
        BY <1>1
      <3>2. i \in 1..n
        BY <3>1
      <3>3. i < n \/ i = n
        BY <3>2
      <3> QED
        BY <3>1, <3>3
    <2> QED
      BY <2>5, <2>6, <2>7
  <1>5. /\ e \in {"status", "error"} => Len(s) + 1 = Len(t)
        /\ e = "document" => before = "document"
        /\ e = "status" => Len(s) + 1 > 1 /\ t[Len(s)] = before
    BY <1>1, <1>2, <1>3 DEF MayFollow
  <1> QED
    BY <1>1, <1>4, <1>5 DEF Wellformed

\* An error may end a stream that was left off between two events.
LEMMA WellformedEnds ==
    ASSUME NEW s \in Seq(Items), NEW before \in {"document", "event"}, Wellformed(s, before),
           LastOf(s) \in {"none", "event"}
    PROVE  Wellformed(Append(s, "error"), before)
  <1> DEFINE t == Append(s, "error")
  <1>1. /\ Len(s) \in Nat /\ DOMAIN s = 1..Len(s) /\ Len(t) = Len(s) + 1
        /\ DOMAIN t = 1..(Len(s) + 1)
        /\ t[Len(s) + 1] = "error" /\ \A i \in 1..Len(s) : t[i] = s[i]
    OBVIOUS
  <1>2. Len(s) > 0 => LastOf(s) = s[Len(s)]
    BY DEF LastOf
  <1> HIDE DEF t
  <1>3. ASSUME NEW i \in 1..Len(s)
        PROVE  /\ t[i] \notin {"status", "error"}
               /\ t[i] = "document" => before = "document" /\ t[i + 1] = "status"
    <2>1. /\ s[i] \in {"status", "error"} => i = Len(s)
          /\ s[i] = "document" => before = "document" /\ (i < Len(s) => s[i + 1] = "status")
      BY <1>1 DEF Wellformed
    <2>2. LastOf(s) = s[Len(s)] /\ s[Len(s)] \in Items
      BY <1>1, <1>2
    <2>3. s[Len(s)] = "event"
      BY <2>2 DEF Items
    <2>4. t[i] = s[i] /\ (i < Len(s) => t[i + 1] = s[i + 1])
      BY <1>1
    <2>5. i <= Len(s) /\ Len(s) \in Nat
      BY <1>1
    <2>6. s[i] \notin {"status", "error"}
      BY <2>1, <2>3
    <2>7. s[i] = "document" => i < Len(s)
      BY <2>3, <2>5
    <2> QED
      BY <2>1, <2>4, <2>6, <2>7
  <1> QED
    BY <1>1, <1>3 DEF Wellformed

\* What was well formed still is when its end is cut off.
LEMMA WellformedCut ==
    ASSUME NEW s \in Seq(Items), NEW t \in Seq(Items), NEW before \in {"document", "event"},
           Wellformed(s \o t, before)
    PROVE  Wellformed(s, before)
  <1> DEFINE u == s \o t
  <1>1. /\ Len(s) \in Nat /\ Len(t) \in Nat /\ Len(u) = Len(s) + Len(t)
        /\ DOMAIN s = 1..Len(s) /\ DOMAIN u = 1..Len(u)
        /\ \A i \in 1..Len(s) : u[i] = s[i]
    OBVIOUS
  <1>2. Wellformed(u, before)
    OBVIOUS
  <1> HIDE DEF u
  <1> SUFFICES ASSUME NEW i \in 1..Len(s)
               PROVE  /\ s[i] \in {"status", "error"} => i = Len(s)
                      /\ s[i] = "document" => before = "document" /\ (i < Len(s) => s[i + 1] = "status")
                      /\ s[i] = "status" => i > 1 /\ s[i - 1] = before
    BY <1>1 DEF Wellformed
  <1>3. /\ u[i] \in {"status", "error"} => i = Len(u)
        /\ u[i] = "document" => before = "document" /\ (i < Len(u) => u[i + 1] = "status")
        /\ u[i] = "status" => i > 1 /\ u[i - 1] = before
    <2>1. i \in DOMAIN u
      BY <1>1
    <2> QED
      BY <1>2, <2>1 DEF Wellformed
  <1>4. /\ u[i] = s[i]
        /\ i < Len(s) => u[i + 1] = s[i + 1]
        /\ i > 1 => u[i - 1] = s[i - 1]
    BY <1>1
  <1>5. Len(s) <= Len(u) /\ i <= Len(s) /\ Len(u) \in Nat
    BY <1>1
  <1>6. u[i] \in {"status", "error"} => i = Len(s)
    BY <1>3, <1>5
  <1>7. i < Len(s) => i < Len(u)
    BY <1>5
  <1> QED
    BY <1>3, <1>4, <1>6, <1>7

\* What a sequence of messages is after a message went in at its end, or moved
\* from a channel's head to what was delivered before it.
LEMMA EndsIn ==
    ASSUME NEW s \in Seq(Items), NEW t \in Seq(Items), NEW e \in Items
    PROVE  s \o Append(t, e) = Append(s \o t, e)
  <1>1. <<e>> \in Seq(Items) /\ s \o t \in Seq(Items)
    BY ConcatProperties
  <1>2. s \o Append(t, e) = s \o (t \o <<e>>)
    BY AppendIsConcat
  <1>3. s \o (t \o <<e>>) = (s \o t) \o <<e>>
    BY <1>1, ConcatAssociative
  <1>4. Append(s \o t, e) = (s \o t) \o <<e>>
    BY <1>1, AppendIsConcat
  <1> QED
    BY <1>2, <1>3, <1>4

LEMMA HeadMoves ==
    ASSUME NEW s \in Seq(Items), NEW t \in Seq(Items), t # <<>>
    PROVE  /\ Head(t) \in Items /\ Tail(t) \in Seq(Items) /\ Append(s, Head(t)) \in Seq(Items)
           /\ Append(s, Head(t)) \o Tail(t) = s \o t
  <1>1. Head(t) \in Items /\ Tail(t) \in Seq(Items) /\ t = <<Head(t)>> \o Tail(t)
    BY HeadTailProperties, ConcatSimplifications
  <1>2. <<Head(t)>> \in Seq(Items) /\ Append(s, Head(t)) \in Seq(Items)
    BY <1>1
  <1>3. Append(s, Head(t)) \o Tail(t) = (s \o <<Head(t)>>) \o Tail(t)
    BY <1>1, AppendIsConcat
  <1>4. (s \o <<Head(t)>>) \o Tail(t) = s \o (<<Head(t)>> \o Tail(t))
    BY <1>1, <1>2, ConcatAssociative
  <1> QED
    BY <1>1, <1>2, <1>3, <1>4

-----------------------------------------------------------------------------
(* What a step does to the streams.                                        *)

StreamsType ==
    /\ pc \in [Calls -> PCs]
    /\ outcome \in [Calls -> {"none"} \cup Refusals \cup Results]
    /\ fold \in [Calls -> BOOLEAN]
    /\ item \in [Calls -> Items]
    /\ end \in [Calls -> {"open", "ok", "error", "hungup"}]
    /\ channel \in [Calls -> Seq(Items)]
    /\ delivered \in [Calls -> Seq(Items)]

LEMMA StreamTypes ==
    ASSUME TypeOK
    PROVE  /\ StreamsType
           /\ \A c \in Calls : Emitted(c) \in Seq(Items) /\ Before(c) \in {"document", "event"}
  <1>1. StreamsType
    BY DEF TypeOK, ControlType, UploadType, StreamType, StreamsType
  <1>2. \A c \in Calls : Emitted(c) \in Seq(Items)
    BY <1>1, ConcatProperties DEF Emitted, StreamsType
  <1> QED
    BY <1>1, <1>2 DEF Before

\* A step of another call leaves a stream as it was.
Elsewhere(c) == \A d \in Calls \ {c} : Undisturbed(d) /\ fold'[d] = fold[d]

LEMMA StreamOfOne ==
    ASSUME StreamsInv, NEW c \in Calls, Elsewhere(c), StreamInv(c)'
    PROVE  StreamsInv'
  <1> SUFFICES ASSUME NEW d \in Calls \ {c} PROVE StreamInv(d)'
    BY DEF StreamsInv
  <1>1. StreamInv(d) /\ Undisturbed(d) /\ fold'[d] = fold[d]
    BY DEF StreamsInv, Elsewhere
  <1>2. Emitted(d)' = Emitted(d) /\ Before(d)' = Before(d)
    BY <1>1 DEF Emitted, Before, Undisturbed
  <1> QED
    BY <1>1, <1>2 DEF StreamInv, Undisturbed, InHandler, Uploading, InParse

\* A call whose stream says nothing more.
LEMMA StreamRests ==
    ASSUME NEW c \in Calls, StreamInv(c), Emitted(c)' = Emitted(c), fold'[c] = fold[c],
           pc'[c] \notin {"idle", "returned", "reporting"} \cup InHandler \cup InParse
    PROVE  StreamInv(c)'
  <1>1. Before(c)' = Before(c)
    BY DEF Before
  <1> QED
    BY <1>1 DEF StreamInv, InHandler, Uploading, InParse

\* A call whose stream has said nothing yet.
LEMMA StreamUnbegun ==
    ASSUME NEW c \in Calls, StreamInv(c), Emitted(c)' = Emitted(c), Emitted(c) = <<>>,
           pc'[c] \notin {"stalled"}
    PROVE  StreamInv(c)'
  <1>1. Emitted(c)' = <<>>
    OBVIOUS
  <1>2. Wellformed(Emitted(c), Before(c))' /\ LastOf(Emitted(c))' = "none"
    BY <1>1 DEF Wellformed, LastOf
  <1> QED
    BY <1>1, <1>2 DEF StreamInv

\* The upload, the handler and the supervisor's bookkeeping say nothing.
LEMMA StreamQuiet ==
    ASSUME TypeOK, NoIdleSlotWhileQueued, StreamsInv, NEW c \in Calls,
           Connect(c) \/ Frame(c) \/ Handler(c) \/ Join(c) \/ ReleaseSlot(c) \/ ReturnShare(c)
    PROVE  StreamsInv'
  <1>1. StreamsType /\ StreamInv(c)
    BY StreamTypes DEF StreamsInv
  <1> USE DEF StreamsType
  <1>2. CASE Connect(c) \/ Frame(c) \/ Timeout(c) \/ Tick(c) \/ StartParse(c)
    <2>1. /\ UNCHANGED streamVars
          /\ pc[c] \in {"idle"} \cup InHandler
          /\ \E x \in InHandler \cup {"unwinding", "parsing"} : pc' = [pc EXCEPT ![c] = x]
          /\ \A d \in Calls \ {c} : outcome'[d] = outcome[d] /\ fold'[d] = fold[d]
      <3> USE DEF InHandler, Uploading
      <3>1. CASE Connect(c) \/ OptionsFrame(c) \/ EmptyFrame(c) \/ EndOfUpload(c)
        BY <1>1, <3>1 DEF Connect, OptionsFrame, EmptyFrame, EndOfUpload, uploadVars
      <3>2. CASE MisplacedFrame(c) \/ TransportError(c) \/ Timeout(c)
        BY <1>1, <3>2 DEF MisplacedFrame, TransportError, Timeout, Refuse, uploadVars
      <3>3. CASE Tick(c) \/ StartParse(c)
        BY <1>1, <3>3 DEF Tick, StartParse, uploadVars
      <3>4. ASSUME NEW n \in Chunks, ChunkFrame(c, n)
            PROVE  /\ UNCHANGED streamVars
                   /\ pc[c] = "receiving"
                   /\ \E x \in InHandler \cup {"unwinding"} : pc' = [pc EXCEPT ![c] = x]
                   /\ \A d \in Calls \ {c} : outcome'[d] = outcome[d] /\ fold'[d] = fold[d]
        BY <1>1, <3>4 DEF ChunkFrame, AcceptChunk, Refuse, uploadVars
      <3> QED
        BY <1>2, <3>1, <3>2, <3>3, <3>4 DEF Frame
    <2>2. Elsewhere(c)
      BY <1>1, <2>1 DEF Elsewhere, Undisturbed, streamVars
    <2>3. Emitted(c)' = Emitted(c) /\ Emitted(c) = <<>>
      BY <1>1, <2>1 DEF Emitted, streamVars, StreamInv
    <2>4. pc'[c] # "stalled"
      BY <1>1, <2>1 DEF InHandler, Uploading
    <2> QED
      BY <1>1, <2>2, <2>3, <2>4, StreamUnbegun, StreamOfOne
  <1>3. CASE DropShare(c) \/ DropBuffer(c) \/ ReturnShare(c)
    <2>1. /\ UNCHANGED <<outcome, fold, item, channel, delivered>>
          /\ \E x \in {"unshared", "done"} : pc' = [pc EXCEPT ![c] = x]
          /\ \A d \in Calls \ {c} : end'[d] = end[d]
      BY <1>1, <1>3 DEF DropShare, DropBuffer, ReturnShare, streamVars
    <2>2. Elsewhere(c)
      BY <1>1, <2>1 DEF Elsewhere, Undisturbed
    <2>3. Emitted(c)' = Emitted(c) /\ fold'[c] = fold[c]
      BY <2>1 DEF Emitted
    <2>4. pc'[c] \notin {"idle", "returned", "reporting"} \cup InHandler \cup InParse
      BY <1>1, <2>1 DEF InHandler, Uploading, InParse
    <2> QED
      BY <1>1, <2>2, <2>3, <2>4, StreamRests, StreamOfOne
  <1>4. CASE ReleaseSlot(c)
    <2>1. pc[c] = "releasing" /\ PassSlot(c, "returning") /\ UNCHANGED <<outcome, fold, streamVars>>
      BY <1>4 DEF ReleaseSlot, uploadVars
    <2>2. /\ pc'[c] = "returning"
          /\ \A d \in Calls \ {c} :
                 pc'[d] = pc[d] \/ (pc[d] = "queued" /\ pc'[d] = "granted")
      BY <2>1, PassSlotUndisturbed
    <2>3. Elsewhere(c)
      BY <2>1, <2>2 DEF Elsewhere, Undisturbed, streamVars
    <2>4. Emitted(c)' = Emitted(c) /\ fold'[c] = fold[c]
      BY <2>1 DEF Emitted, streamVars
    <2>5. pc'[c] \notin {"idle", "returned", "reporting"} \cup InHandler \cup InParse
      BY <2>2 DEF InHandler, Uploading, InParse
    <2> QED
      BY <1>1, <2>3, <2>4, <2>5, StreamRests, StreamOfOne
  <1>5. CASE Join(c)
    <2>1. /\ pc[c] = "returned" /\ UNCHANGED <<outcome, fold, streamVars>>
          /\ \E x \in {"releasing", "reporting"} : pc' = [pc EXCEPT ![c] = x]
      BY <1>5 DEF Join, uploadVars
    <2>2. Elsewhere(c)
      BY <1>1, <2>1 DEF Elsewhere, Undisturbed, streamVars
    <2>3. Emitted(c)' = Emitted(c) /\ Before(c)' = Before(c) /\ end' = end
      BY <2>1 DEF Emitted, Before, streamVars
    <2>4. pc'[c] \in {"releasing", "reporting"}
      BY <1>1, <2>1
    <2>5. StreamInv(c)'
      BY <1>1, <2>1, <2>3, <2>4 DEF StreamInv, InHandler, Uploading, InParse
    <2> QED
      BY <2>2, <2>5, StreamOfOne
  <1> QED
    BY <1>2, <1>3, <1>4, <1>5 DEF Handler

\* The parse thread says only what may follow, and only to a client that is there.
LEMMA StreamParser ==
    ASSUME TypeOK, StreamsInv, NEW c \in Calls, Parser(c)
    PROVE  StreamsInv'
  <1>1. /\ StreamsType /\ StreamInv(c)
        /\ Emitted(c) \in Seq(Items) /\ Before(c) \in {"document", "event"}
    BY StreamTypes DEF StreamsInv
  <1>2. /\ pc[c] \in InParse /\ pc[c] \notin {"idle"} \cup InHandler
        /\ UNCHANGED <<fold, delivered, end>>
    BY DEF Parser, Send, SendWaiting, StallTimeout, ParseFails, InParse, InHandler, Uploading, streamVars
  <1>3. Before(c)' = Before(c)
    BY <1>2 DEF Before
  <1>4. ASSUME end[c] = "open", NEW e \in Sendable(c)
        PROVE  MayFollow(Emitted(c), Before(c), e)
    <2>1. LastEmitted(c) = LastOf(Emitted(c))
      BY DEF LastEmitted, LastOf
    <2>2. LastOf(Emitted(c)) = "document" => Before(c) = "document"
      BY <1>1, LastIsSaid DEF StreamInv, Wellformed
    <2>3. CASE LastOf(Emitted(c)) = "document"
      BY <1>4, <2>1, <2>2, <2>3 DEF Sendable, MayFollow
    <2>4. CASE LastOf(Emitted(c)) # "document"
      <3>1. CASE e = "event"
        BY <2>4, <3>1, <1>1 DEF MayFollow
      <3>2. CASE e # "event"
        <4>1. e \in {"document", "status"} /\ LastOf(Emitted(c)) = "event" /\ (e = "document") = fold[c]
          BY <1>4, <2>1, <2>4, <3>2 DEF Sendable
        <4>2. Before(c) = IF e = "document" THEN "document" ELSE "event"
          BY <4>1 DEF Before
        <4> QED
          BY <4>1, <4>2 DEF MayFollow
      <3> QED
        BY <3>1, <3>2
    <2> QED
      BY <2>3, <2>4
  <1>5. ASSUME NEW result \in {"abandoned", "failed", "panicked"}, ParseReturns(c, result),
               UNCHANGED <<item, channel>>,
               end[c] = "open" /\ result # "abandoned" => LastEmitted(c) # "document"
        PROVE  StreamsInv'
    <2>1. /\ pc' = [pc EXCEPT ![c] = "returned"] /\ outcome' = [outcome EXCEPT ![c] = result]
          /\ pc'[c] = "returned" /\ outcome'[c] = result
      BY <1>1, <1>5 DEF ParseReturns, StreamsType
    <2>2. Elsewhere(c)
      BY <1>1, <1>2, <1>5, <2>1 DEF Elsewhere, Undisturbed, StreamsType
    <2>3. Emitted(c)' = Emitted(c)
      BY <1>2, <1>5 DEF Emitted
    <2>4. ASSUME end[c] = "open", outcome'[c] \in Broken
          PROVE  LastOf(Emitted(c)) \in {"none", "event"}
      <3>1. LastOf(Emitted(c)) \notin {"document", "status", "error"}
        BY <1>1, <1>2, <1>5, <2>1, <2>4 DEF StreamInv, LastEmitted, LastOf, Broken
      <3>2. LastOf(Emitted(c)) \in {"none"} \cup Items
        BY <1>1, LastIsSaid
      <3> QED
        BY <3>1, <3>2 DEF Items
    <2>5. LastOf(Emitted(c))' = LastOf(Emitted(c)) /\ Wellformed(Emitted(c), Before(c))'
      BY <1>1, <1>3, <2>3 DEF StreamInv
    <2>6. StreamInv(c)'
      BY <1>2, <2>1, <2>4, <2>5 DEF StreamInv, InHandler, Uploading, InParse
    <2> QED
      BY <2>2, <2>6, StreamOfOne
  <1>6. ASSUME NEW e, MayFollow(Emitted(c), Before(c), e), end[c] = "open",
               Sent(c, e), UNCHANGED item
        PROVE  StreamsInv'
    <2>1. e \in Items /\ LastOf(Emitted(c)) \notin {"status", "error"}
      BY <1>1, <1>2, <1>6 DEF MayFollow, Items, StreamInv
    <2>2. /\ channel' = [channel EXCEPT ![c] = Append(@, e)]
          /\ \/ /\ e = "status" /\ pc' = [pc EXCEPT ![c] = "returned"]
                /\ outcome' = [outcome EXCEPT ![c] = "complete"]
             \/ e # "status" /\ pc' = [pc EXCEPT ![c] = "parsing"] /\ UNCHANGED outcome
      BY <1>6 DEF Sent, ParseReturns
    <2>3. Elsewhere(c)
      BY <1>1, <1>2, <1>6, <2>2 DEF Elsewhere, Undisturbed, StreamsType
    <2>4. Emitted(c)' = Append(Emitted(c), e)
      <3>1. channel'[c] = Append(channel[c], e) /\ channel[c] \in Seq(Items) /\ delivered[c] \in Seq(Items)
        BY <1>1, <2>2 DEF StreamsType
      <3>2. delivered[c] \o Append(channel[c], e) = Append(delivered[c] \o channel[c], e)
        BY <2>1, <3>1, EndsIn
      <3> QED
        BY <1>2, <3>1, <3>2 DEF Emitted
    <2>5. Wellformed(Emitted(c), Before(c))'
      <3>1. Wellformed(Emitted(c), Before(c))
        BY <1>1 DEF StreamInv
      <3>2. Wellformed(Append(Emitted(c), e), Before(c))
        BY <1>1, <1>6, <2>1, <3>1, WellformedGrows
      <3> QED
        BY <1>3, <2>4, <3>2
    <2>6. LastOf(Emitted(c))' = e
      <3>1. Append(Emitted(c), e) # <<>> /\ Append(Emitted(c), e)[Len(Append(Emitted(c), e))] = e
        BY <1>1, <2>1, AppendProperties
      <3> QED
        BY <2>4, <3>1 DEF LastOf
    <2>7. \/ e = "status" /\ pc'[c] = "returned" /\ outcome'[c] = "complete"
          \/ e # "status" /\ pc'[c] = "parsing"
      BY <1>1, <2>2 DEF StreamsType
    <2>8. e \notin {"error"}
      BY <1>6 DEF MayFollow
    <2>9. StreamInv(c)'
      BY <2>5, <2>6, <2>7, <2>8 DEF StreamInv, InHandler, Uploading, InParse, Broken
    <2> QED
      BY <2>3, <2>9, StreamOfOne
  <1>7. ASSUME NEW e, MayFollow(Emitted(c), Before(c), e), end[c] = "open",
               pc' = [pc EXCEPT ![c] = "stalled"], item' = [item EXCEPT ![c] = e],
               UNCHANGED <<outcome, channel>>
        PROVE  StreamsInv'
    <2>1. Elsewhere(c)
      BY <1>1, <1>2, <1>7 DEF Elsewhere, Undisturbed, StreamsType
    <2>2. Emitted(c)' = Emitted(c)
      BY <1>2, <1>7 DEF Emitted
    <2>3. pc'[c] = "stalled" /\ item'[c] = e
      BY <1>1, <1>7 DEF StreamsType
    <2>4. StreamInv(c)'
      BY <1>1, <1>2, <1>3, <1>7, <2>2, <2>3 DEF StreamInv, InHandler, Uploading, InParse
    <2> QED
      BY <2>1, <2>4, StreamOfOne
  <1>8. CASE Send(c)
    BY <1>4, <1>5, <1>6, <1>7, <1>8 DEF Send
  <1>9. CASE SendWaiting(c)
    <2>1. pc[c] = "stalled" /\ UNCHANGED item
      BY <1>9 DEF SendWaiting
    <2>2. end[c] = "open" => MayFollow(Emitted(c), Before(c), item[c])
      BY <1>1, <2>1 DEF StreamInv
    <2> QED
      BY <1>5, <1>6, <1>9, <2>1, <2>2 DEF SendWaiting
  <1>10. CASE StallTimeout(c) \/ ParseFails(c)
    BY <1>5, <1>10 DEF StallTimeout, ParseFails, streamVars
  <1> QED
    BY <1>8, <1>9, <1>10 DEF Parser

\* The supervisor's error ends a stream that was left off between two events.
LEMMA StreamReport ==
    ASSUME TypeOK, StreamsInv, EndInv, NEW c \in Calls, Report(c)
    PROVE  StreamsInv'
  <1>1. /\ StreamsType /\ StreamInv(c)
        /\ Emitted(c) \in Seq(Items) /\ Before(c) \in {"document", "event"}
    BY StreamTypes DEF StreamsInv
  <1>2. /\ pc[c] = "reporting" /\ pc' = [pc EXCEPT ![c] = "releasing"]
        /\ UNCHANGED <<outcome, fold, item, delivered, end>>
        /\ \/ UNCHANGED channel
           \/ end[c] = "open" /\ channel' = [channel EXCEPT ![c] = Append(@, "error")]
    BY DEF Report, uploadVars
  <1>3. Elsewhere(c)
    BY <1>1, <1>2 DEF Elsewhere, Undisturbed, StreamsType
  <1>4. pc'[c] \notin {"idle", "returned", "reporting"} \cup InHandler \cup InParse
    BY <1>1, <1>2 DEF InHandler, Uploading, InParse, StreamsType
  <1>5. CASE UNCHANGED channel
    <2>1. Emitted(c)' = Emitted(c) /\ fold'[c] = fold[c]
      BY <1>2, <1>5 DEF Emitted
    <2> QED
      BY <1>1, <1>3, <1>4, <2>1, StreamRests, StreamOfOne
  <1>6. CASE end[c] = "open" /\ channel' = [channel EXCEPT ![c] = Append(@, "error")]
    <2>1. outcome[c] \in Broken
      BY <1>2 DEF EndInv, OutcomeKnown
    <2>2. Wellformed(Emitted(c), Before(c)) /\ LastOf(Emitted(c)) \in {"none", "event"}
      BY <1>1, <1>2, <1>6, <2>1 DEF StreamInv
    <2>3. Wellformed(Append(Emitted(c), "error"), Before(c))
      BY <1>1, <2>2, WellformedEnds
    <2>4. Emitted(c)' = Append(Emitted(c), "error")
      <3>1. /\ channel'[c] = Append(channel[c], "error")
            /\ channel[c] \in Seq(Items) /\ delivered[c] \in Seq(Items)
        BY <1>1, <1>6 DEF StreamsType
      <3>2. delivered[c] \o Append(channel[c], "error") = Append(delivered[c] \o channel[c], "error")
        BY <3>1, EndsIn DEF Items
      <3> QED
        BY <1>2, <3>1, <3>2 DEF Emitted
    <2>5. Wellformed(Emitted(c), Before(c))'
      BY <1>2, <2>3, <2>4 DEF Before
    <2>6. StreamInv(c)'
      BY <1>4, <2>5 DEF StreamInv, InHandler, Uploading, InParse
    <2> QED
      BY <1>3, <2>6, StreamOfOne
  <1> QED
    BY <1>2, <1>5, <1>6

\* A stream whose client is gone, or has read its error, is at most cut short.
LEMMA StreamCut ==
    ASSUME TypeOK, NEW c \in Calls, StreamInv(c), NEW s \in Seq(Items), NEW t \in Seq(Items),
           Emitted(c) = s \o t, Emitted(c)' = s, fold'[c] = fold[c], pc'[c] = pc[c],
           pc[c] \notin {"idle"} \cup InHandler, end'[c] # "open"
    PROVE  StreamInv(c)'
  <1>1. Before(c)' = Before(c) /\ Before(c) \in {"document", "event"}
    BY DEF Before
  <1>2. Wellformed(s, Before(c))
    BY <1>1, WellformedCut DEF StreamInv
  <1>3. Wellformed(Emitted(c), Before(c))'
    BY <1>1, <1>2
  <1> QED
    BY <1>3 DEF StreamInv

\* A client that hangs up loses what is still on the channel.
LEMMA StreamCancel ==
    ASSUME TypeOK, NoIdleSlotWhileQueued, StreamsInv, NEW c \in Calls, Cancel(c)
    PROVE  StreamsInv'
  <1>1. StreamsType /\ StreamInv(c)
    BY StreamTypes DEF StreamsInv
  <1>2. /\ end[c] = "open" /\ pc[c] # "idle" /\ end' = [end EXCEPT ![c] = "hungup"]
        /\ UNCHANGED <<fold, item, delivered>>
    BY DEF Cancel, uploadVars
  <1>3. CASE pc[c] \in InHandler
    <2>1. /\ DropHandler(c) /\ UNCHANGED channel
          /\ outcome' = [outcome EXCEPT ![c] = "cancelled"]
      BY <1>3 DEF Cancel
    <2>2. /\ pc'[c] = "unwinding"
          /\ \A d \in Calls \ {c} :
                 pc'[d] = pc[d] \/ (pc[d] = "queued" /\ pc'[d] = "granted")
      BY <1>1, <2>1, PassSlotUndisturbed DEF DropHandler, StreamsType
    <2>3. Elsewhere(c)
      BY <1>1, <1>2, <2>1, <2>2 DEF Elsewhere, Undisturbed, StreamsType
    <2>4. Emitted(c)' = Emitted(c) /\ fold'[c] = fold[c]
      BY <1>2, <2>1 DEF Emitted
    <2>5. pc'[c] \notin {"idle", "returned", "reporting"} \cup InHandler \cup InParse
      BY <2>2 DEF InHandler, Uploading, InParse
    <2> QED
      BY <1>1, <2>3, <2>4, <2>5, StreamRests, StreamOfOne
  <1>4. CASE pc[c] \notin InHandler
    <2>1. channel' = [channel EXCEPT ![c] = <<>>] /\ UNCHANGED <<pc, outcome>>
      BY <1>4 DEF Cancel
    <2>2. Elsewhere(c)
      BY <1>1, <1>2, <2>1 DEF Elsewhere, Undisturbed, StreamsType
    <2>3. delivered[c] \in Seq(Items) /\ channel[c] \in Seq(Items) /\ channel'[c] = <<>>
      BY <1>1, <2>1 DEF StreamsType
    <2>4. Emitted(c) = delivered[c] \o channel[c] /\ Emitted(c)' = delivered[c]
      BY <1>2, <2>3, ConcatEmptySeq DEF Emitted
    <2>5. end'[c] # "open" /\ fold'[c] = fold[c] /\ pc'[c] = pc[c]
      BY <1>1, <1>2, <2>1 DEF StreamsType
    <2>6. StreamInv(c)'
      BY <1>1, <1>2, <1>4, <2>3, <2>4, <2>5, StreamCut
    <2> QED
      BY <2>2, <2>6, StreamOfOne
  <1> QED
    BY <1>3, <1>4

\* Reading moves a message from the channel to what was delivered.
LEMMA StreamClient ==
    ASSUME TypeOK, StreamsInv, NEW c \in Calls, Client(c)
    PROVE  StreamsInv'
  <1>1. /\ StreamsType /\ StreamInv(c)
        /\ channel[c] \in Seq(Items) /\ delivered[c] \in Seq(Items)
    BY StreamTypes DEF StreamsInv, StreamsType
  <1>2. /\ UNCHANGED <<pc, outcome, fold, item>>
        /\ \A d \in Calls \ {c} : /\ channel'[d] = channel[d] /\ end'[d] = end[d]
                                  /\ delivered'[d] = delivered[d]
    BY <1>1 DEF Client, ClientRead, ClientEnd, uploadVars, StreamsType
  <1>3. Elsewhere(c)
    BY <1>2 DEF Elsewhere, Undisturbed
  <1>4. Before(c)' = Before(c) /\ fold'[c] = fold[c] /\ pc'[c] = pc[c]
    BY <1>2 DEF Before
  <1>5. CASE ClientEnd(c)
    <2>1. end'[c] = "ok" /\ UNCHANGED <<channel, delivered>> /\ pc[c] = "done"
      BY <1>1, <1>5 DEF ClientEnd, StreamsType
    <2>2. Emitted(c)' = Emitted(c)
      BY <2>1 DEF Emitted
    <2>3. pc'[c] \notin {"idle", "returned", "reporting"} \cup InHandler \cup InParse
      BY <1>4, <2>1 DEF InHandler, Uploading, InParse
    <2> QED
      BY <1>1, <1>3, <1>4, <2>2, <2>3, StreamRests, StreamOfOne
  <1>6. CASE ClientRead(c)
    <2> DEFINE h == Head(channel[c])
               rest == Tail(channel[c])
               read == Append(delivered[c], h)
    <2>1. /\ channel[c] # <<>> /\ delivered'[c] = read
          /\ \/ h = "error" /\ channel'[c] = <<>> /\ end'[c] # "open"
             \/ channel'[c] = rest /\ end'[c] = end[c]
      BY <1>1, <1>6 DEF ClientRead, StreamsType
    <2>2. rest \in Seq(Items) /\ read \in Seq(Items) /\ Emitted(c) = read \o rest
      BY <1>1, <2>1, HeadMoves DEF Emitted
    <2>3. CASE channel'[c] = rest /\ end'[c] = end[c]
      <3>1. Emitted(c)' = Emitted(c)
        BY <2>1, <2>2, <2>3 DEF Emitted
      <3>2. StreamInv(c)'
        BY <1>1, <1>2, <1>4, <2>3, <3>1 DEF StreamInv
      <3> QED
        BY <1>3, <3>2, StreamOfOne
    <2>4. CASE channel'[c] = <<>> /\ end'[c] # "open"
      <3>1. Emitted(c)' = read
        BY <2>1, <2>2, <2>4, ConcatEmptySeq DEF Emitted
      <3>2. Emitted(c) # <<>>
        BY <1>1, <2>1, ConcatEqualIffEmpty DEF Emitted
      <3>3. pc[c] \notin {"idle"} \cup InHandler
        BY <1>1, <3>2 DEF StreamInv
      <3>4. StreamInv(c)'
        BY <1>1, <1>4, <2>2, <2>4, <3>1, <3>3, StreamCut
      <3> QED
        BY <1>3, <3>4, StreamOfOne
    <2> QED
      BY <2>1, <2>3, <2>4
  <1> QED
    BY <1>5, <1>6 DEF Client

-----------------------------------------------------------------------------
(* The streams the proto promises.                                         *)

LEMMA StreamsStep == SemaphoreInv /\ EndInv /\ StreamsInv /\ [Next]_vars => StreamsInv'
  <1> SUFFICES ASSUME SemaphoreInv, EndInv, StreamsInv, [Next]_vars PROVE StreamsInv'
    OBVIOUS
  <1> USE DEF SemaphoreInv
  <1>1. CASE Next
    <2>1. PICK c \in Calls : \/ Connect(c) \/ Cancel(c) \/ Frame(c)
                             \/ Handler(c) \/ Parser(c) \/ Supervisor(c) \/ Client(c)
      BY <1>1 DEF Next
    <2> QED
      BY <2>1, StreamQuiet, StreamParser, StreamReport, StreamCancel, StreamClient DEF Supervisor
  <1>2. CASE UNCHANGED vars
    <2>1. UNCHANGED <<pc, outcome, fold, item, channel, delivered, end>>
      BY <1>2 DEF vars, uploadVars, streamVars
    <2> QED
      BY <2>1 DEF StreamsInv, StreamInv, Emitted, Before
  <1> QED
    BY <1>1, <1>2

\* What any call has put on its stream, at any moment, is the beginning of a
\* stream the proto allows: nothing after a status or an error, the document
\* where it was asked for, right before the status, and never otherwise.
THEOREM StreamSafe == Spec => []StreamWellFormed
  <1>1. Init => StreamsInv
    <2> SUFFICES ASSUME Init, NEW c \in Calls PROVE StreamInv(c)
      BY DEF StreamsInv
    <2>1. pc[c] = "idle" /\ delivered[c] = <<>> /\ channel[c] = <<>>
      BY DEF Init
    <2>2. Emitted(c) = <<>>
      BY <2>1 DEF Emitted
    <2> QED
      BY <2>1, <2>2 DEF StreamInv, Wellformed, InHandler, Uploading, InParse
  <1>2. StreamsInv => StreamWellFormed
    <2> SUFFICES ASSUME StreamsInv, NEW c \in Calls, NEW i \in DOMAIN Emitted(c)
                 PROVE  /\ Emitted(c)[i] \in {"status", "error"} => i = Len(Emitted(c))
                        /\ Emitted(c)[i] = "document" =>
                              fold[c] /\ (i < Len(Emitted(c)) => Emitted(c)[i + 1] = "status")
                        /\ Emitted(c)[i] = "status" =>
                              i > 1 /\ (fold[c] => Emitted(c)[i - 1] = "document")
      BY DEF StreamWellFormed
    <2>1. /\ Emitted(c)[i] \in {"status", "error"} => i = Len(Emitted(c))
          /\ Emitted(c)[i] = "document" =>
                Before(c) = "document" /\ (i < Len(Emitted(c)) => Emitted(c)[i + 1] = "status")
          /\ Emitted(c)[i] = "status" => i > 1 /\ Emitted(c)[i - 1] = Before(c)
      BY DEF StreamsInv, StreamInv, Wellformed
    <2>2. Before(c) = "document" => fold[c]
      BY DEF Before
    <2>3. fold[c] => Before(c) = "document"
      BY DEF Before
    <2> QED
      BY <2>1, <2>2, <2>3
  <1> QED
    BY <1>1, <1>2, StreamsStep, SemaphoresSafe, EndSafe, PTL DEF Spec
=============================================================================
