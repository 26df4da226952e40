------------------------- MODULE EpubService_proofs -------------------------
(***************************************************************************)
(* What EpubService guarantees for every number of calls and every limit.  *)
(* The two semaphores are counted together with the control points they    *)
(* belong to: SemaphoreInv is the inductive invariant, and the share of    *)
(* each call and the metrics follow from it.                               *)
(***************************************************************************)
EXTENDS EpubService, TLAPS, FiniteSetTheorems, SequenceTheorems

-----------------------------------------------------------------------------
(* Arithmetic of the budget units.                                         *)

\* div_ceil rounds up: that many units hold the bytes.
LEMMA UnitsType ==
    ASSUME NEW n \in Nat
    PROVE  /\ Units(n) \in Nat
           /\ n <= Units(n) * BudgetUnit
  BY LimitsAssumption DEF Units

\* More bytes never cost fewer units.
LEMMA UnitsMonotone ==
    ASSUME NEW m \in Nat, NEW n \in Nat, m <= n
    PROVE  Units(m) <= Units(n)
  BY LimitsAssumption DEF Units

\* The budget with_metrics creates is a number, and covers one full upload.
LEMMA BudgetType ==
    /\ TotalBudget \in Nat
    /\ \A n \in 0..MaxDocument : Units(n) <= TotalBudget
  BY UnitsType, UnitsMonotone, LimitsAssumption DEF TotalBudget, Maximum

-----------------------------------------------------------------------------
(* Sums over the calls, counted as sets of units.                          *)

\* One call's part of UnitsOf(f) has f[c] elements, and taking it away leaves
\* what the other calls hold.
LEMMA UnitsOfSplit ==
    ASSUME NEW f \in [Calls -> 0..TotalBudget], NEW c \in Calls
    PROVE  LET others == {p \in UnitsOf(f) : p[1] # c}
           IN  /\ IsFiniteSet(others)
               /\ Cardinality(others) \in Nat
               /\ IsFiniteSet(UnitsOf(f))
               /\ Cardinality(UnitsOf(f)) = Cardinality(others) + f[c]
  <1> DEFINE others == {p \in UnitsOf(f) : p[1] # c}
             own    == {c} \X (1..f[c])
  <1>1. f[c] \in Nat /\ f[c] <= TotalBudget
    BY BudgetType
  <1>2. UnitsOf(f) = others \cup own /\ others \cap own = {}
    <2>1. ASSUME NEW p \in own
          PROVE  p \in UnitsOf(f) /\ p[1] = c
      BY <1>1, <2>1, BudgetType DEF UnitsOf
    <2>2. ASSUME NEW p \in UnitsOf(f), p[1] = c
          PROVE  p \in own
      BY <1>1, <2>2, BudgetType DEF UnitsOf
    <2> QED
      BY <2>1, <2>2
  <1>3. IsFiniteSet(Calls \X (1..TotalBudget))
    <2>1. IsFiniteSet(1..TotalBudget)
      BY BudgetType, FS_Interval
    <2> QED
      BY <2>1, CallsAssumption, FS_Product
  <1>4. IsFiniteSet(others) /\ IsFiniteSet(UnitsOf(f))
    <2>1. others \in SUBSET (Calls \X (1..TotalBudget))
      BY DEF UnitsOf
    <2>2. UnitsOf(f) \in SUBSET (Calls \X (1..TotalBudget))
      BY DEF UnitsOf
    <2> QED
      BY <1>3, <2>1, <2>2, FS_Subset
  <1>5. IsFiniteSet(own) /\ Cardinality(own) = f[c]
    <2>1. IsFiniteSet(1..f[c]) /\ Cardinality(1..f[c]) = f[c]
      BY <1>1, FS_Interval
    <2>2. IsFiniteSet({c}) /\ Cardinality({c}) = 1
      BY FS_Singleton
    <2> QED
      BY <1>1, <2>1, <2>2, FS_Product
  <1>6. Cardinality(others) \in Nat
    BY <1>4, FS_CardinalityType
  <1>7. Cardinality(UnitsOf(f)) = Cardinality(others) + Cardinality(own) - Cardinality({})
    BY <1>2, <1>4, <1>5, FS_Union
  <1> QED
    BY <1>1, <1>4, <1>5, <1>6, <1>7, FS_EmptySet

\* Changing what one call holds changes the sum by just that much.
LEMMA UnitsOfUpdate ==
    ASSUME NEW f \in [Calls -> 0..TotalBudget], NEW c \in Calls, NEW n \in 0..TotalBudget
    PROVE  Cardinality(UnitsOf([f EXCEPT ![c] = n])) = Cardinality(UnitsOf(f)) - f[c] + n
  <1> DEFINE g == [f EXCEPT ![c] = n]
  <1>1. g \in [Calls -> 0..TotalBudget] /\ g[c] = n
    OBVIOUS
  <1>2. {p \in UnitsOf(g) : p[1] # c} = {p \in UnitsOf(f) : p[1] # c}
    BY DEF UnitsOf
  <1>3. f[c] \in Int /\ n \in Int
    BY BudgetType
  <1> DEFINE others == {p \in UnitsOf(f) : p[1] # c}
  <1>4. Cardinality(others) \in Nat /\ Cardinality(UnitsOf(f)) = Cardinality(others) + f[c]
    BY UnitsOfSplit
  <1>5. Cardinality(UnitsOf(g)) = Cardinality(others) + n
    <2>1. Cardinality(UnitsOf(g)) = Cardinality({p \in UnitsOf(g) : p[1] # c}) + g[c]
      <3> HIDE DEF g
      <3> QED
        BY <1>1, UnitsOfSplit
    <2> QED
      BY <1>1, <1>2, <2>1
  <1> HIDE DEF others
  <1> QED
    BY <1>3, <1>4, <1>5

\* No call holds more than all calls together.
LEMMA UnitsOfBound ==
    ASSUME NEW f \in [Calls -> 0..TotalBudget], NEW c \in Calls
    PROVE  /\ Cardinality(UnitsOf(f)) \in Nat
           /\ f[c] <= Cardinality(UnitsOf(f))
  <1> DEFINE others == {p \in UnitsOf(f) : p[1] # c}
  <1>1. f[c] \in Nat
    BY BudgetType
  <1>2. Cardinality(others) \in Nat /\ Cardinality(UnitsOf(f)) = Cardinality(others) + f[c]
    BY UnitsOfSplit
  <1> HIDE DEF others
  <1> QED
    BY <1>1, <1>2

\* Initially nobody holds anything.
LEMMA UnitsOfNothing == Cardinality(UnitsOf([c \in Calls |-> 0])) = 0
  <1>1. UnitsOf([c \in Calls |-> 0]) = {}
    BY BudgetType DEF UnitsOf
  <1> QED
    BY <1>1, FS_EmptySet

-----------------------------------------------------------------------------
(* The two semaphores.                                                     *)

SemaphoreInv == TypeOK /\ BudgetConserved /\ SlotsConserved /\ NoIdleSlotWhileQueued

\* Nothing is held before the first call.
LEMMA SemaphoreInit == Init => SemaphoreInv
  <1> SUFFICES ASSUME Init PROVE SemaphoreInv
    OBVIOUS
  <1>1. TypeOK
    BY BudgetType, LimitsAssumption
       DEF Init, TypeOK, ControlType, UploadType, ClockType, StreamType, SlotType, MetricType, PCs, InHandler, HoldsSlot, Uploading, InParse, Items, Refusals, Results
  <1>2. BudgetConserved
    BY UnitsOfNothing, BudgetType DEF Init, BudgetConserved
  <1>3. SlotsConserved
    <2>1. CallsAt(pc, HoldsSlot) = {}
      BY DEF Init, HoldsSlot, InParse, CallsAt
    <2>2. Cardinality(CallsAt(pc, HoldsSlot)) = 0
      BY <2>1, FS_EmptySet
    <2> QED
      BY <2>2, LimitsAssumption DEF Init, SlotsConserved
  <1>4. NoIdleSlotWhileQueued
    BY DEF Init, NoIdleSlotWhileQueued
  <1> QED
    BY <1>1, <1>2, <1>3, <1>4 DEF SemaphoreInv

\* What a call can give back fits in the budget it came from.
LEMMA HeldBound ==
    ASSUME TypeOK, BudgetConserved, NEW c \in Calls
    PROVE  upload_budget + held[c] <= TotalBudget
  <1>1. held \in [Calls -> 0..TotalBudget] /\ upload_budget \in Nat /\ held[c] \in Nat
    BY BudgetType DEF TypeOK, UploadType
  <1>2. Cardinality(UnitsOf(held)) \in Nat /\ held[c] <= Cardinality(UnitsOf(held))
    BY <1>1, UnitsOfBound
  <1> QED
    BY <1>1, <1>2, BudgetType DEF BudgetConserved

\* While a call owns a slot, not all of them are free.
LEMMA SlotBound ==
    ASSUME TypeOK, SlotsConserved, NEW c \in Calls, pc[c] \in HoldsSlot
    PROVE  parse_slots + 1 <= MaxConcurrentParses
  <1> DEFINE owners == CallsAt(pc, HoldsSlot)
  <1>1. IsFiniteSet(owners)
    BY CallsAssumption, FS_Subset DEF CallsAt
  <1>2. c \in owners
    BY DEF CallsAt
  <1>3. Cardinality(owners) \in Nat /\ Cardinality(owners) # 0
    BY <1>1, <1>2, FS_CardinalityType, FS_EmptySet
  <1>4. parse_slots + Cardinality(owners) = MaxConcurrentParses
    BY DEF SlotsConserved
  <1> HIDE DEF owners
  <1> QED
    BY <1>3, <1>4, LimitsAssumption DEF TypeOK, UploadType, SlotType

\* What a reservation takes is there to be taken.
LEMMA ReservationType ==
    ASSUME TypeOK, NEW c \in Calls, NEW n \in Nat
    PROVE  /\ Missing(c, n) \in Nat
           /\ held[c] + Missing(c, n) >= Units(n)
           /\ held[c] + Missing(c, n) \in Nat
  <1>1. held[c] \in Nat
    BY BudgetType DEF TypeOK, UploadType
  <1> QED
    BY <1>1, UnitsType DEF Missing, Maximum

\* The capacity a growing buffer gets lies between what it needs and its cap.
LEMMA TargetType ==
    ASSUME TypeOK, NEW c \in Calls, NEW n \in Nat, n <= cap[c]
    PROVE  /\ GrowthTarget(c, n) \in Nat
           /\ n <= GrowthTarget(c, n)
           /\ GrowthTarget(c, n) <= cap[c]
  <1>1. capacity[c] \in Nat /\ cap[c] \in Nat
    BY LimitsAssumption DEF TypeOK, UploadType, SlotType
  <1> QED
    BY <1>1 DEF GrowthTarget, Doubled, Minimum, Maximum

-----------------------------------------------------------------------------
(* Types, group by group: only the actions that touch a group are cases.   *)

\* Control points and outcomes stay within their sets.
LEMMA ControlStep == TypeOK /\ [Next]_vars => ControlType'
  <1> SUFFICES ASSUME TypeOK, [Next]_vars PROVE ControlType'
    OBVIOUS
  <1>1. ControlType /\ slot_queue \in Seq(Calls)
    BY DEF TypeOK, SlotType
  <1>2. CASE UNCHANGED vars
    BY <1>1, <1>2 DEF ControlType, vars
  <1>3. ASSUME NEW c \in Calls, Connect(c) \/ Frame(c) PROVE ControlType'
    <2> USE DEF ControlType, PCs, InHandler, HoldsSlot, Uploading, Refusals
    <2>1. ASSUME NEW why \in Refusals, Refuse(c, why) PROVE ControlType'
      BY <1>1, <2>1 DEF Refuse
    <2>2. CASE Connect(c) \/ OptionsFrame(c) \/ EmptyFrame(c) \/ EndOfUpload(c)
      BY <1>1, <2>2 DEF Connect, OptionsFrame, EmptyFrame, EndOfUpload
    <2>3. CASE MisplacedFrame(c) \/ TransportError(c)
      BY <2>1, <2>3 DEF MisplacedFrame, TransportError
    <2>4. ASSUME NEW n \in Chunks, ChunkFrame(c, n) PROVE ControlType'
      <3>1. CASE UNCHANGED <<pc, outcome>>
        BY <1>1, <3>1
      <3> QED
        BY <2>1, <2>4, <3>1 DEF ChunkFrame, AcceptChunk
    <2> QED
      BY <1>3, <2>2, <2>3, <2>4 DEF Frame
  <1>4. ASSUME NEW c \in Calls, NEW next \in PCs, PassSlot(c, next), UNCHANGED outcome \/ outcome' = [outcome EXCEPT ![c] = "cancelled"]
        PROVE  ControlType'
    <2>1. "granted" \in PCs /\ "cancelled" \in Refusals
      BY DEF PCs, HoldsSlot, Refusals
    <2>2. slot_queue # <<>> => Head(slot_queue) \in Calls
      BY <1>1
    <2> QED
      BY <1>1, <1>4, <2>1, <2>2 DEF PassSlot, ControlType
  <1>5. ASSUME NEW c \in Calls, Cancel(c) PROVE ControlType'
    <2> USE DEF ControlType, PCs, Refusals
    <2>1. CASE pc[c] = "granted"
      BY <1>4, <1>5, <2>1 DEF Cancel, DropHandler, InHandler, Uploading
    <2>2. CASE pc[c] # "granted"
      BY <1>1, <1>5, <2>2 DEF Cancel, DropHandler
    <2> QED
      BY <2>1, <2>2
  <1>6. ASSUME NEW c \in Calls, Handler(c) PROVE ControlType'
    BY <1>1, <1>6 DEF ControlType, PCs, InHandler, HoldsSlot, InParse, Refusals,
       Handler, Tick, Timeout, Refuse, StartParse, DropShare, DropBuffer
  <1>7. ASSUME NEW c \in Calls, Parser(c) PROVE ControlType'
    BY <1>1, <1>7 DEF ControlType, PCs, HoldsSlot, InParse, Results, Parser, Send,
       SendWaiting, StallTimeout, ParseFails, ParseReturns, Sent
  <1>8. ASSUME NEW c \in Calls, Supervisor(c) PROVE ControlType'
    <2>1. CASE ReleaseSlot(c)
      BY <1>4, <2>1 DEF ReleaseSlot, PCs
    <2> QED
      BY <1>1, <1>8, <2>1 DEF ControlType, PCs, HoldsSlot, Supervisor, Join, Report, ReturnShare
  <1>9. ASSUME NEW c \in Calls, Client(c) PROVE ControlType'
    BY <1>1, <1>9 DEF ControlType, Client, ClientRead, ClientEnd
  <1> QED
    BY <1>2, <1>3, <1>5, <1>6, <1>7, <1>8, <1>9 DEF Next

\* The two clocks never run below zero, the idle clock never past the other.
LEMMA ClockStep == TypeOK /\ [Next]_vars => ClockType'
  <1> SUFFICES ASSUME TypeOK, [Next]_vars PROVE ClockType'
    OBVIOUS
  <1> USE LimitsAssumption
  <1>1. ClockType
    BY DEF TypeOK
  <1>2. CASE UNCHANGED clockVars
    BY <1>1, <1>2 DEF ClockType, clockVars
  <1>3. ASSUME NEW c \in Calls, NextFrame(c) PROVE ClockType'
    BY <1>1, <1>3 DEF ClockType, NextFrame, Minimum
  <1>4. ASSUME NEW c \in Calls, StopClock(c) PROVE ClockType'
    BY <1>1, <1>4 DEF ClockType, StopClock
  <1>5. ASSUME NEW c \in Calls, Connect(c) \/ Tick(c) PROVE ClockType'
    BY <1>1, <1>5 DEF ClockType, Connect, Tick, Minimum
  <1>6. ASSUME NEW c \in Calls, Frame(c) PROVE ClockType'
    BY <1>2, <1>3, <1>4, <1>6 DEF Frame, OptionsFrame, MisplacedFrame, EmptyFrame, TransportError,
       EndOfUpload, ChunkFrame, AcceptChunk, Refuse
  <1>7. ASSUME NEW c \in Calls, Handler(c) \/ Cancel(c) PROVE ClockType'
    BY <1>2, <1>4, <1>5, <1>7 DEF Handler, Timeout, Refuse, StartParse, DropShare, DropBuffer, Cancel
  <1>8. ASSUME NEW c \in Calls, Parser(c) \/ Supervisor(c) \/ Client(c) PROVE ClockType'
    BY <1>2, <1>8 DEF Parser, Send, SendWaiting, StallTimeout, ParseFails,
       Supervisor, Join, Report, ReleaseSlot, ReturnShare, Client, ClientRead, ClientEnd
  <1>9. CASE UNCHANGED vars
    BY <1>2, <1>9 DEF vars
  <1> QED
    BY <1>5, <1>6, <1>7, <1>8, <1>9 DEF Next

\* What the parse thread and the client do keeps the channel a sequence of items.
LEMMA StreamStep == TypeOK /\ [Next]_vars => StreamType'
  <1> SUFFICES ASSUME TypeOK, [Next]_vars PROVE StreamType'
    OBVIOUS
  <1>1. StreamType
    BY DEF TypeOK
  <1>2. CASE UNCHANGED streamVars
    BY <1>1, <1>2 DEF StreamType, streamVars
  <1>3. ASSUME NEW c \in Calls, Connect(c) \/ Frame(c) PROVE StreamType'
    BY <1>2, <1>3 DEF Connect, Frame, OptionsFrame, MisplacedFrame, EmptyFrame,
       TransportError, EndOfUpload, ChunkFrame
  <1>4. ASSUME NEW c \in Calls, Handler(c) PROVE StreamType'
    <2>1. CASE DropBuffer(c)
      BY <1>1, <2>1 DEF StreamType, DropBuffer
    <2> QED
      BY <1>2, <1>4, <2>1 DEF Handler, Tick, Timeout, StartParse, DropShare
  <1>5. ASSUME NEW c \in Calls, Cancel(c) PROVE StreamType'
    <2>1. <<>> \in Seq(Items)
      OBVIOUS
    <2>2. channel' \in [Calls -> Seq(Items)]
      BY <1>1, <1>5, <2>1 DEF StreamType, Cancel
    <2> QED
      BY <1>1, <1>5, <2>2 DEF StreamType, Cancel
  <1>6. ASSUME NEW c \in Calls, Parser(c) PROVE StreamType'
    <2>1. Sendable(c) \subseteq Items
      BY DEF Sendable, Items
    <2>2. ASSUME NEW e \in Items, Sent(c, e), UNCHANGED <<item, delivered, end>>
          PROVE  StreamType'
      BY <1>1, <2>2 DEF StreamType, Sent
    <2>3. CASE Send(c)
      <3>1. PICK e \in Sendable(c) :
                \/ UNCHANGED <<item, channel>>
                \/ Sent(c, e) /\ UNCHANGED item
                \/ item' = [item EXCEPT ![c] = e] /\ UNCHANGED channel
        BY <2>3 DEF Send
      <3>2. UNCHANGED <<delivered, end>>
        BY <2>3 DEF Send
      <3>3. e \in Items
        BY <2>1
      <3> QED
        BY <1>1, <2>2, <3>1, <3>2, <3>3 DEF StreamType
    <2>4. CASE SendWaiting(c)
      <3>1. item[c] \in Items /\ UNCHANGED <<item, delivered, end>>
        BY <1>1, <2>4 DEF StreamType, SendWaiting
      <3>2. CASE UNCHANGED channel
        BY <1>1, <3>1, <3>2 DEF StreamType
      <3> QED
        BY <2>2, <2>4, <3>1, <3>2 DEF SendWaiting
    <2> QED
      BY <1>2, <1>6, <2>3, <2>4 DEF Parser, StallTimeout, ParseFails
  <1>7. ASSUME NEW c \in Calls, Supervisor(c) PROVE StreamType'
    <2>1. CASE Report(c)
      <3>1. Append(channel[c], "error") \in Seq(Items)
        <4>1. channel[c] \in Seq(Items) /\ "error" \in Items
          BY <1>1 DEF StreamType, Items
        <4> QED
          BY <4>1
      <3> QED
        BY <1>1, <2>1, <3>1 DEF StreamType, Report
    <2> QED
      BY <1>2, <1>7, <2>1 DEF Supervisor, Join, ReleaseSlot, ReturnShare
  <1>8. ASSUME NEW c \in Calls, Client(c) PROVE StreamType'
    <2>1. CASE ClientRead(c)
      <3>1. channel[c] \in Seq(Items) /\ channel[c] # <<>> /\ delivered[c] \in Seq(Items)
        BY <1>1, <2>1 DEF StreamType, ClientRead
      <3>2. /\ Tail(channel[c]) \in Seq(Items)
            /\ Append(delivered[c], Head(channel[c])) \in Seq(Items)
            /\ <<>> \in Seq(Items)
        BY <3>1
      <3>3. channel' \in [Calls -> Seq(Items)] /\ delivered' \in [Calls -> Seq(Items)]
        BY <1>1, <2>1, <3>2 DEF StreamType, ClientRead
      <3> QED
        BY <1>1, <2>1, <3>3 DEF StreamType, ClientRead
    <2>2. CASE ClientEnd(c)
      BY <1>1, <2>2 DEF StreamType, ClientEnd
    <2> QED
      BY <1>8, <2>1, <2>2 DEF Client
  <1>9. CASE UNCHANGED vars
    BY <1>2, <1>9 DEF vars
  <1> QED
    BY <1>3, <1>4, <1>5, <1>6, <1>7, <1>8, <1>9 DEF Next

\* The counters count.
LEMMA MetricStep == TypeOK /\ [Next]_vars => MetricType'
  <1> SUFFICES ASSUME TypeOK, [Next]_vars PROVE MetricType'
    OBVIOUS
  <1>1. MetricType
    BY DEF TypeOK
  <1>2. CASE UNCHANGED metricVars
    BY <1>1, <1>2 DEF MetricType, metricVars
  <1>3. ASSUME NEW c \in Calls, StartParse(c) \/ Join(c) PROVE MetricType'
    BY <1>1, <1>3 DEF MetricType, StartParse, Join
  <1>4. CASE UNCHANGED vars
    BY <1>2, <1>4 DEF vars
  <1>5. CASE Next
    BY <1>2, <1>3, <1>5 DEF Next, Connect, Cancel, Frame, OptionsFrame, MisplacedFrame,
       EmptyFrame, TransportError, EndOfUpload, ChunkFrame, Handler, Tick, Timeout,
       DropShare, DropBuffer, Parser, Send, SendWaiting, StallTimeout, ParseFails,
       Supervisor, Report, ReleaseSlot, ReturnShare, Client, ClientRead, ClientEnd
  <1> QED
    BY <1>4, <1>5

-----------------------------------------------------------------------------
(* The upload budget.                                                      *)

\* The steps that move permits; every other step leaves the budget alone.
LEMMA BudgetMoves ==
    ASSUME Next
    PROVE  \/ UNCHANGED <<held, upload_budget>>
           \/ \E c \in Calls : DropShare(c) \/ ReturnShare(c)
           \/ \E c \in Calls, n \in Chunks :
                  pc[c] = "receiving" /\ len[c] + n <= cap[c] /\ AcceptChunk(c, n)
  BY DEF Next, Connect, Cancel, Frame, OptionsFrame, MisplacedFrame,
       EmptyFrame, TransportError, EndOfUpload, ChunkFrame, Handler, Tick, Timeout,
       StartParse, DropBuffer, Parser, Send, SendWaiting, StallTimeout, ParseFails,
       Supervisor, Join, Report, ReleaseSlot, Client, ClientRead, ClientEnd, uploadVars

\* A chunk that is accepted moves what its growth costs from the budget to
\* the call, and the share then covers the capacity.
LEMMA AcceptChunkMoves ==
    ASSUME TypeOK, BudgetConserved, NEW c \in Calls, NEW n \in Nat,
           len[c] + n <= cap[c], AcceptChunk(c, n)
    PROVE  \E more \in 0..upload_budget :
             /\ held[c] + more \in 0..TotalBudget
             /\ held' = [held EXCEPT ![c] = held[c] + more]
             /\ upload_budget' = upload_budget - more
             /\ len'[c] <= capacity'[c] \/ len[c] > capacity[c]
             /\ capacity'[c] \in Nat
             /\ capacity[c] <= cap[c] => capacity'[c] <= cap[c]
             /\ capacity'[c] = capacity[c] \/ Units(capacity'[c]) <= held'[c]
  <1> DEFINE needed == len[c] + n
             t == GrowthTarget(c, needed)
  <1>1. needed \in Nat /\ capacity[c] \in Nat /\ held[c] \in 0..TotalBudget
        /\ upload_budget \in 0..TotalBudget /\ len[c] \in Nat /\ held[c] \in Nat
    BY BudgetType DEF TypeOK, UploadType
  <1>2. capacity \in [Calls -> Nat] /\ len \in [Calls -> Nat] /\ held \in [Calls -> 0..TotalBudget]
    BY DEF TypeOK, UploadType
  <1>3. CASE needed <= capacity[c]
    <2>1. ~(needed > capacity[c])
      BY <1>1, <1>3
    <2>2. /\ held' = [held EXCEPT ![c] = held[c]]
          /\ upload_budget' = upload_budget - 0
          /\ capacity'[c] = capacity[c]
          /\ len'[c] = needed
      <3> HIDE DEF t
      <3> QED
        BY <1>2, <2>1 DEF AcceptChunk
    <2>3. held[c] + 0 = held[c] /\ 0 \in 0..upload_budget
      BY <1>1, BudgetType
    <2> 0 \in 0..upload_budget
      BY <2>3
    <2> WITNESS 0 \in 0..upload_budget
    <2> QED
      BY <1>1, <1>3, <2>2, <2>3
  <1>4. CASE needed > capacity[c]
    <2>1. t \in Nat /\ needed <= t /\ t <= cap[c]
      BY <1>1, TargetType
    <2>2. Missing(c, t) \in Nat /\ held[c] + Missing(c, t) >= Units(t) /\ Units(t) \in Nat
      BY <2>1, ReservationType, UnitsType
    <2>3. Missing(c, t) <= upload_budget
      BY <1>4 DEF AcceptChunk, Reservable
    <2>4. upload_budget + held[c] <= TotalBudget
      BY HeldBound
    <2>5. /\ held' = [held EXCEPT ![c] = held[c] + Missing(c, t)]
          /\ upload_budget' = upload_budget - Missing(c, t)
          /\ capacity'[c] = t
          /\ len'[c] = needed
      BY <1>1, <1>2, <1>4 DEF AcceptChunk
    <2>6. held'[c] = held[c] + Missing(c, t)
      BY <1>2, <2>5
    <2> HIDE DEF t
    <2>7. held[c] + Missing(c, t) \in 0..TotalBudget /\ Missing(c, t) \in 0..upload_budget
      BY <1>1, <2>2, <2>3, <2>4, BudgetType
    <2> QED
      BY <1>1, <2>1, <2>2, <2>5, <2>6, <2>7
  <1> QED
    BY <1>1, <1>3, <1>4

\* Conservation of the budget, step by step.
LEMMA BudgetStep ==
    ASSUME TypeOK, BudgetConserved, Next
    PROVE  /\ BudgetConserved'
           /\ held' \in [Calls -> 0..TotalBudget]
           /\ upload_budget' \in 0..TotalBudget
  <1>1. held \in [Calls -> 0..TotalBudget] /\ upload_budget \in 0..TotalBudget
    BY DEF TypeOK, UploadType
  <1>2. ASSUME NEW c \in Calls, NEW h \in 0..TotalBudget,
               held' = [held EXCEPT ![c] = h],
               upload_budget' = upload_budget + held[c] - h,
               upload_budget' \in 0..TotalBudget
        PROVE  /\ BudgetConserved'
               /\ held' \in [Calls -> 0..TotalBudget]
               /\ upload_budget' \in 0..TotalBudget
    <2>1. Cardinality(UnitsOf(held')) = Cardinality(UnitsOf(held)) - held[c] + h
      BY <1>1, <1>2, UnitsOfUpdate
    <2>2. Cardinality(UnitsOf(held)) \in Nat /\ held[c] \in Int /\ h \in Int
      BY <1>1, UnitsOfBound, BudgetType
    <2>3. upload_budget + Cardinality(UnitsOf(held)) = TotalBudget /\ upload_budget \in Int
      BY <1>1, BudgetType DEF BudgetConserved
    <2>4. upload_budget' + Cardinality(UnitsOf(held')) = TotalBudget
      BY <1>2, <2>1, <2>2, <2>3, BudgetType
    <2>5. UnitsOf(held)' = UnitsOf(held')
      BY DEF UnitsOf
    <2> QED
      BY <1>1, <1>2, <2>4, <2>5 DEF BudgetConserved
  <1>3. CASE UNCHANGED <<held, upload_budget>>
    BY <1>1, <1>3 DEF BudgetConserved, UnitsOf
  <1>4. ASSUME NEW c \in Calls, DropShare(c) \/ ReturnShare(c)
        PROVE  /\ BudgetConserved'
               /\ held' \in [Calls -> 0..TotalBudget]
               /\ upload_budget' \in 0..TotalBudget
    <2>1. upload_budget + held[c] <= TotalBudget /\ held[c] \in Nat
      BY <1>1, HeldBound, BudgetType
    <2>2. held' = [held EXCEPT ![c] = 0] /\ upload_budget' = upload_budget + held[c] - 0
      BY <1>1, <1>4, <2>1, BudgetType DEF DropShare, ReturnShare
    <2>3. 0 \in 0..TotalBudget /\ upload_budget' \in 0..TotalBudget
      BY <1>1, <2>1, <2>2, BudgetType
    <2> QED
      BY <1>2, <2>2, <2>3
  <1>5. ASSUME NEW c \in Calls, NEW n \in Chunks, len[c] + n <= cap[c], AcceptChunk(c, n)
        PROVE  /\ BudgetConserved'
               /\ held' \in [Calls -> 0..TotalBudget]
               /\ upload_budget' \in 0..TotalBudget
    <2>1. n \in Nat
      BY InputsAssumption
    <2>2. PICK more \in 0..upload_budget :
             /\ held[c] + more \in 0..TotalBudget
             /\ held' = [held EXCEPT ![c] = held[c] + more]
             /\ upload_budget' = upload_budget - more
      BY <1>5, <2>1, AcceptChunkMoves
    <2>3. held[c] \in Int /\ more \in Int /\ upload_budget \in Int
      BY <1>1, BudgetType
    <2>4. upload_budget' = upload_budget + held[c] - (held[c] + more) /\ upload_budget' \in 0..TotalBudget
      BY <1>1, <2>2, <2>3, BudgetType
    <2> QED
      BY <1>2, <2>2, <2>4
  <1> QED
    BY <1>3, <1>4, <1>5, BudgetMoves

\* Everything the upload owns keeps its type.
LEMMA UploadStep == TypeOK /\ BudgetConserved /\ Next => UploadType'
  <1> SUFFICES ASSUME TypeOK, BudgetConserved, Next PROVE UploadType'
    OBVIOUS
  <1>1. UploadType
    BY DEF TypeOK
  <1>2. held' \in [Calls -> 0..TotalBudget] /\ upload_budget' \in 0..TotalBudget
    BY BudgetStep
  <1> DEFINE OptionsType == cap' \in [Calls -> 0..MaxDocument] /\ fold' \in [Calls -> BOOLEAN]
             BufferType == len' \in [Calls -> Nat] /\ capacity' \in [Calls -> Nat]
  <1>3. OptionsType
    <2>1. CASE UNCHANGED <<cap, fold>>
      BY <1>1, <2>1 DEF UploadType
    <2>2. ASSUME NEW c \in Calls, OptionsFrame(c) PROVE OptionsType
      BY <1>1, <2>2, InputsAssumption, LimitsAssumption DEF UploadType, OptionsFrame
    <2> QED
      BY <2>1, <2>2 DEF Next, Connect, Cancel, Frame, MisplacedFrame,
       EmptyFrame, TransportError, EndOfUpload, ChunkFrame, AcceptChunk, Handler, Tick, Timeout,
       StartParse, DropShare, DropBuffer, Parser, Send, SendWaiting, StallTimeout, ParseFails,
       Supervisor, Join, Report, ReleaseSlot, ReturnShare, Client, ClientRead, ClientEnd, uploadVars
  <1>4. BufferType
    <2>1. CASE UNCHANGED <<len, capacity>>
      BY <1>1, <2>1 DEF UploadType
    <2>2. ASSUME NEW c \in Calls,
                 len' = [len EXCEPT ![c] = 0], capacity' = [capacity EXCEPT ![c] = 0]
          PROVE BufferType
      BY <1>1, <2>2 DEF UploadType
    <2>3. ASSUME NEW c \in Calls, NEW n \in Chunks, len[c] + n <= cap[c], AcceptChunk(c, n)
          PROVE  BufferType
      <3>1. n \in Nat
        BY InputsAssumption
      <3>2. capacity'[c] \in Nat
        BY <2>3, <3>1, AcceptChunkMoves
      <3>3. \E t : capacity' = [capacity EXCEPT ![c] = t]
        BY <2>3 DEF AcceptChunk
      <3>4. len' = [len EXCEPT ![c] = len[c] + n]
        BY <2>3 DEF AcceptChunk
      <3> QED
        BY <1>1, <3>1, <3>2, <3>3, <3>4 DEF UploadType
    <2> QED
      BY <2>1, <2>2, <2>3 DEF Next, Connect, Cancel, Frame, OptionsFrame, MisplacedFrame,
       EmptyFrame, TransportError, EndOfUpload, ChunkFrame, Handler, Tick, Timeout,
       StartParse, DropShare, DropBuffer, Parser, Send, SendWaiting, StallTimeout, ParseFails,
       ParseReturns, Sent,
       Supervisor, Join, Report, ReleaseSlot, ReturnShare, Client, ClientRead, ClientEnd, uploadVars
  <1> QED
    BY <1>2, <1>3, <1>4 DEF UploadType

-----------------------------------------------------------------------------
(* The parse slots.                                                        *)

\* How many calls are at one of the control points S.
LEMMA CountFinite ==
    ASSUME NEW f, NEW S
    PROVE  /\ IsFiniteSet(CallsAt(f, S))
           /\ Cardinality(CallsAt(f, S)) \in Nat
  BY CallsAssumption, FS_Subset, FS_CardinalityType DEF CallsAt

\* The count of the next state is taken over the next control points.
LEMMA CallsAtPrime == \A S : CallsAt(pc, S)' = CallsAt(pc', S)
  BY DEF CallsAt

\* A call that leaves those control points, or enters them, is one call.
LEMMA CountLeave ==
    ASSUME NEW f, NEW S, NEW c \in CallsAt(f, S)
    PROVE  Cardinality(CallsAt(f, S) \ {c}) = Cardinality(CallsAt(f, S)) - 1
  BY CountFinite, FS_RemoveElement

LEMMA CountEnter ==
    ASSUME NEW f, NEW S, NEW c, c \notin CallsAt(f, S)
    PROVE  Cardinality(CallsAt(f, S) \cup {c}) = Cardinality(CallsAt(f, S)) + 1
  BY CountFinite, FS_AddElement

\* Every step, as the slot semaphore sees it.
LEMMA SlotMoves ==
    ASSUME Next
    PROVE  \/ UNCHANGED <<pc, parse_slots, slot_queue>>
           \/ \E c \in Calls, x \in PCs :
                 /\ pc' = [pc EXCEPT ![c] = x]
                 /\ pc[c] \in HoldsSlot <=> x \in HoldsSlot
                 /\ pc[c] # "queued" /\ x # "queued"
                 /\ UNCHANGED <<parse_slots, slot_queue>>
           \/ \E c \in Calls : EndOfUpload(c)
           \/ \E c \in Calls : pc[c] = "queued" /\ DropHandler(c)
           \/ \E c \in Calls, x \in {"returning", "unwinding"} :
                 pc[c] \in {"granted", "releasing"} /\ PassSlot(c, x)
  <1> DEFINE Goal ==
           \/ UNCHANGED <<pc, parse_slots, slot_queue>>
           \/ \E c \in Calls, x \in PCs :
                 /\ pc' = [pc EXCEPT ![c] = x]
                 /\ pc[c] \in HoldsSlot <=> x \in HoldsSlot
                 /\ pc[c] # "queued" /\ x # "queued"
                 /\ UNCHANGED <<parse_slots, slot_queue>>
           \/ \E c \in Calls : EndOfUpload(c)
           \/ \E c \in Calls : pc[c] = "queued" /\ DropHandler(c)
           \/ \E c \in Calls, x \in {"returning", "unwinding"} :
                 pc[c] \in {"granted", "releasing"} /\ PassSlot(c, x)
  <1> USE DEF PCs, HoldsSlot, InParse, InHandler, Uploading, slotVars
  <1>1. ASSUME NEW c \in Calls, pc[c] \in Uploading, NEW why, Refuse(c, why), UNCHANGED slotVars
        PROVE  Goal
    BY <1>1 DEF Refuse
  <1>2. ASSUME NEW c \in Calls, Connect(c) \/ OptionsFrame(c) \/ EmptyFrame(c) PROVE Goal
    BY <1>2 DEF Connect, OptionsFrame, EmptyFrame
  <1>3. ASSUME NEW c \in Calls, MisplacedFrame(c) \/ TransportError(c) \/ Timeout(c) PROVE Goal
    BY <1>1, <1>3 DEF MisplacedFrame, TransportError, Timeout
  <1>4. ASSUME NEW c \in Calls, NEW n \in Chunks, ChunkFrame(c, n) PROVE Goal
    BY <1>1, <1>4 DEF ChunkFrame, AcceptChunk
  <1>5. ASSUME NEW c \in Calls, Tick(c) \/ StartParse(c) \/ DropShare(c) \/ DropBuffer(c) PROVE Goal
    BY <1>5 DEF Tick, StartParse, DropShare, DropBuffer
  <1>6. ASSUME NEW c \in Calls, Parser(c) PROVE Goal
    BY <1>6 DEF Parser, Send, SendWaiting, StallTimeout, ParseFails, ParseReturns, Sent
  <1>7. ASSUME NEW c \in Calls, Join(c) \/ Report(c) \/ ReturnShare(c) PROVE Goal
    BY <1>7 DEF Join, Report, ReturnShare
  <1>8. ASSUME NEW c \in Calls, ReleaseSlot(c) PROVE Goal
    BY <1>8 DEF ReleaseSlot
  <1>9. ASSUME NEW c \in Calls, Client(c) PROVE Goal
    BY <1>9 DEF Client, ClientRead, ClientEnd
  <1>10. ASSUME NEW c \in Calls, Cancel(c) PROVE Goal
    <2>1. CASE pc[c] \in Uploading
      BY <1>10, <2>1 DEF Cancel, DropHandler
    <2>2. CASE pc[c] \in {"queued", "granted"}
      BY <1>10, <2>2 DEF Cancel, DropHandler
    <2>3. CASE pc[c] \notin InHandler
      BY <1>10, <2>3 DEF Cancel
    <2> QED
      BY <2>1, <2>2, <2>3
  <1> HIDE DEF Goal
  <1>11. ASSUME NEW c \in Calls, EndOfUpload(c) PROVE Goal
    BY <1>11 DEF Goal
  <1>12. Goal
    BY <1>2, <1>3, <1>4, <1>5, <1>6, <1>7, <1>8, <1>9, <1>10, <1>11 DEF Next, Frame, Handler, Supervisor
  <1> QED
    BY <1>12 DEF Goal

\* Handing a slot on (or back) moves its owner away and the first waiter in.
LEMMA PassSlotMoves ==
    ASSUME TypeOK, SlotsConserved, NoIdleSlotWhileQueued, NEW c \in Calls,
           NEW x \in {"returning", "unwinding"}, pc[c] \in {"granted", "releasing"},
           PassSlot(c, x)
    PROVE  SlotsConserved' /\ SlotType' /\ NoIdleSlotWhileQueued'
  <1>1. /\ pc \in [Calls -> PCs] /\ slot_queue \in Seq(Calls)
        /\ parse_slots \in 0..MaxConcurrentParses
    BY DEF TypeOK, ControlType, SlotType
  <1>2. pc[c] \in HoldsSlot /\ x \notin HoldsSlot /\ "granted" \in HoldsSlot
        /\ "queued" \notin HoldsSlot
    BY DEF HoldsSlot, InParse
  <1> DEFINE n == Cardinality(CallsAt(pc, HoldsSlot))
  <1>3. n \in Nat /\ parse_slots + n = MaxConcurrentParses
    BY CountFinite DEF SlotsConserved
  <1>4. parse_slots + 1 <= MaxConcurrentParses
    BY <1>2, SlotBound
  <1>5. CASE slot_queue = <<>>
    <2>1. pc' = [pc EXCEPT ![c] = x] /\ parse_slots' = parse_slots + 1 /\ slot_queue' = slot_queue
      BY <1>5 DEF PassSlot
    <2>2. CallsAt(pc', HoldsSlot) = CallsAt(pc, HoldsSlot) \ {c} /\ c \in CallsAt(pc, HoldsSlot)
      BY <1>1, <1>2, <2>1 DEF CallsAt
    <2>3. Cardinality(CallsAt(pc', HoldsSlot)) = n - 1
      BY <2>2, CountLeave
    <2>4. SlotsConserved'
      <3> HIDE DEF n
      <3> QED
        BY <1>1, <1>3, <2>1, <2>3, CallsAtPrime, LimitsAssumption DEF SlotsConserved
    <2>5. SlotType'
      BY <1>1, <1>4, <2>1, LimitsAssumption DEF SlotType
    <2>6. NoIdleSlotWhileQueued'
      BY <1>1, <1>5, <2>1 DEF NoIdleSlotWhileQueued
    <2> QED
      BY <2>4, <2>5, <2>6
  <1>6. CASE slot_queue # <<>>
    <2> DEFINE h == Head(slot_queue)
               mid == [pc EXCEPT ![c] = x]
    <2>1. h \in Calls /\ h = slot_queue[1] /\ 1 \in DOMAIN slot_queue
      BY <1>1, <1>6
    <2>2. pc[h] = "queued" /\ h # c
      BY <2>1 DEF NoIdleSlotWhileQueued
    <2>3. /\ pc' = [mid EXCEPT ![h] = "granted"]
          /\ slot_queue' = Tail(slot_queue)
          /\ parse_slots' = parse_slots
      BY <1>1, <1>6, <2>1, <2>2 DEF PassSlot
    <2>4. mid \in [Calls -> PCs] /\ mid[h] = "queued"
      BY <1>1, <2>1, <2>2 DEF PCs
    <2>5. /\ CallsAt(mid, HoldsSlot) = CallsAt(pc, HoldsSlot) \ {c}
          /\ c \in CallsAt(pc, HoldsSlot)
          /\ CallsAt(pc', HoldsSlot) = CallsAt(mid, HoldsSlot) \cup {h}
          /\ h \notin CallsAt(mid, HoldsSlot)
      <3>1. CallsAt(mid, HoldsSlot) = CallsAt(pc, HoldsSlot) \ {c} /\ c \in CallsAt(pc, HoldsSlot)
        BY <1>1, <1>2 DEF CallsAt
      <3>2. h \notin CallsAt(mid, HoldsSlot)
        BY <1>2, <2>4 DEF CallsAt
      <3>3. CallsAt(pc', HoldsSlot) = CallsAt(mid, HoldsSlot) \cup {h}
        <4> HIDE DEF mid, h
        <4> QED
          BY <1>2, <2>1, <2>3, <2>4 DEF CallsAt
      <3> QED
        BY <3>1, <3>2, <3>3
    <2>6. Cardinality(CallsAt(pc', HoldsSlot)) = Cardinality(CallsAt(mid, HoldsSlot)) + 1
          /\ Cardinality(CallsAt(mid, HoldsSlot)) = n - 1
      <3> HIDE DEF mid, h
      <3> QED
        BY <2>5, CountLeave, CountEnter
    <2>7. SlotsConserved'
      <3> HIDE DEF n, mid
      <3> QED
        BY <1>1, <1>3, <2>3, <2>6, CallsAtPrime, LimitsAssumption DEF SlotsConserved
    <2>8. SlotType'
      BY <1>1, <1>6, <2>3 DEF SlotType
    <2>9. NoIdleSlotWhileQueued'
      <3>1. /\ Tail(slot_queue) \in Seq(Calls)
            /\ Len(Tail(slot_queue)) = Len(slot_queue) - 1
            /\ DOMAIN Tail(slot_queue) = 1..Len(slot_queue) - 1
            /\ \A i \in 1..Len(slot_queue) - 1 : Tail(slot_queue)[i] = slot_queue[i + 1]
        BY <1>1, <1>6, HeadTailProperties
      <3>2. DOMAIN slot_queue = 1..Len(slot_queue) /\ Len(slot_queue) \in Nat
        BY <1>1
      <3>3. parse_slots' = 0
        BY <1>6, <2>3 DEF NoIdleSlotWhileQueued
      <3>4. \A i, j \in DOMAIN slot_queue' : slot_queue'[i] = slot_queue'[j] => i = j
        BY <2>3, <3>1, <3>2 DEF NoIdleSlotWhileQueued
      <3>5. ASSUME NEW d \in Calls
            PROVE  pc'[d] = "queued" <=> \E i \in DOMAIN slot_queue' : slot_queue'[i] = d
        <4>1. CASE d = h
          <5>1. pc'[d] = "granted"
            BY <2>1, <2>3, <2>4, <4>1
          <5>2. \A i \in DOMAIN slot_queue' : slot_queue'[i] # d
            BY <2>1, <2>3, <3>1, <3>2, <4>1 DEF NoIdleSlotWhileQueued
          <5> QED
            BY <5>1, <5>2
        <4>2. CASE d # h /\ d = c
          <5>1. pc'[d] = x /\ x # "queued" /\ pc[c] # "queued"
            BY <1>1, <2>1, <2>3, <4>2
          <5>2. \A i \in DOMAIN slot_queue : slot_queue[i] # d
            BY <4>2, <5>1 DEF NoIdleSlotWhileQueued
          <5> QED
            BY <2>3, <3>1, <3>2, <5>1, <5>2
        <4>3. CASE d # h /\ d # c
          <5>1. pc'[d] = pc[d]
            BY <1>1, <2>1, <2>3, <4>3
          <5>2. (\E i \in DOMAIN slot_queue : slot_queue[i] = d)
                <=> \E i \in DOMAIN slot_queue' : slot_queue'[i] = d
            <6>1. ASSUME NEW i \in DOMAIN slot_queue, slot_queue[i] = d
                  PROVE  \E j \in DOMAIN slot_queue' : slot_queue'[j] = d
              <7>1. i # 1
                BY <2>1, <4>3, <6>1
              <7>2. i - 1 \in 1..Len(slot_queue) - 1 /\ (i - 1) + 1 = i
                BY <3>2, <7>1
              <7>3. slot_queue'[i - 1] = d
                BY <2>3, <3>1, <6>1, <7>2
              <7> QED
                BY <2>3, <3>1, <7>2, <7>3
            <6>2. ASSUME NEW j \in DOMAIN slot_queue', slot_queue'[j] = d
                  PROVE  \E i \in DOMAIN slot_queue : slot_queue[i] = d
              BY <2>3, <3>1, <3>2, <6>2
            <6> QED
              BY <6>1, <6>2
          <5> QED
            BY <5>1, <5>2 DEF NoIdleSlotWhileQueued
        <4> QED
          BY <4>1, <4>2, <4>3
      <3> QED
        BY <3>3, <3>4, <3>5 DEF NoIdleSlotWhileQueued
    <2> QED
      BY <2>7, <2>8, <2>9
  <1> QED
    BY <1>5, <1>6

\* A cancelled waiter takes nobody else's place with it.
LEMMA LeaveQueueMoves ==
    ASSUME TypeOK, SlotsConserved, NoIdleSlotWhileQueued, NEW c \in Calls,
           pc[c] = "queued", DropHandler(c)
    PROVE  SlotsConserved' /\ SlotType' /\ NoIdleSlotWhileQueued'
  <1>1. /\ pc \in [Calls -> PCs] /\ slot_queue \in Seq(Calls)
        /\ parse_slots \in 0..MaxConcurrentParses
    BY DEF TypeOK, ControlType, SlotType
  <1>2. PICK k \in DOMAIN slot_queue :
            slot_queue[k] = c /\ slot_queue' = Without(slot_queue, k)
    BY DEF DropHandler, Uploading
  <1>3. pc' = [pc EXCEPT ![c] = "unwinding"] /\ parse_slots' = parse_slots
    BY DEF DropHandler, Uploading
  <1>4. DOMAIN slot_queue = 1..Len(slot_queue) /\ Len(slot_queue) \in Nat
    BY <1>1
  <1>5. /\ slot_queue' \in Seq(Calls)
        /\ DOMAIN slot_queue' = 1..Len(slot_queue) - 1
        /\ \A j \in 1..Len(slot_queue) - 1 :
              slot_queue'[j] = slot_queue[IF j < k THEN j ELSE j + 1]
    <2> DEFINE q == [j \in 1..Len(slot_queue) - 1 |-> slot_queue[IF j < k THEN j ELSE j + 1]]
    <2>1. slot_queue' = q
      BY <1>2 DEF Without
    <2>2. Len(slot_queue) - 1 \in Nat
      BY <1>2, <1>4
    <2>3. \A j \in 1..Len(slot_queue) - 1 : q[j] \in Calls
      BY <1>1, <1>2, <1>4
    <2>4. q \in Seq(Calls)
      <3> HIDE DEF q
      <3>1. q \in [1..Len(slot_queue) - 1 -> Calls]
        BY <2>3 DEF q
      <3> QED
        BY <2>2, <3>1, SeqDef
    <2> QED
      BY <2>1, <2>4
  <1>6. SlotsConserved'
    <2>1. "queued" \notin HoldsSlot /\ "unwinding" \notin HoldsSlot
      BY DEF HoldsSlot, InParse
    <2>2. CallsAt(pc', HoldsSlot) = CallsAt(pc, HoldsSlot)
      BY <1>1, <1>3, <2>1 DEF CallsAt
    <2> QED
      BY <1>3, <2>2, CallsAtPrime DEF SlotsConserved
  <1>7. SlotType'
    BY <1>1, <1>3, <1>5 DEF SlotType
  <1>8. NoIdleSlotWhileQueued'
    <2>1. slot_queue # <<>>
      BY <1>1, <1>2
    <2>2. parse_slots' = 0
      BY <1>3, <2>1 DEF NoIdleSlotWhileQueued
    <2>3. \A i, j \in DOMAIN slot_queue' : slot_queue'[i] = slot_queue'[j] => i = j
      <3> SUFFICES ASSUME NEW i \in 1..Len(slot_queue) - 1, NEW j \in 1..Len(slot_queue) - 1,
                          slot_queue'[i] = slot_queue'[j]
                   PROVE  i = j
        BY <1>5
      <3> DEFINE s(m) == IF m < k THEN m ELSE m + 1
      <3>1. s(i) \in DOMAIN slot_queue /\ s(j) \in DOMAIN slot_queue /\ k \in Int
        BY <1>2, <1>4
      <3>2. slot_queue[s(i)] = slot_queue[s(j)]
        BY <1>5
      <3>3. s(i) = s(j)
        BY <3>1, <3>2 DEF NoIdleSlotWhileQueued
      <3> QED
        BY <3>1, <3>3
    <2>4. ASSUME NEW d \in Calls
          PROVE  pc'[d] = "queued" <=> \E i \in DOMAIN slot_queue' : slot_queue'[i] = d
      <3>1. CASE d = c
        <4>1. pc'[d] # "queued"
          BY <1>1, <1>3, <3>1
        <4>2. ASSUME NEW i \in 1..Len(slot_queue) - 1, slot_queue'[i] = c PROVE FALSE
          <5> DEFINE m == IF i < k THEN i ELSE i + 1
          <5>1. m \in DOMAIN slot_queue /\ m # k
            BY <1>2, <1>4
          <5>2. slot_queue[m] = slot_queue[k]
            BY <1>2, <1>5, <4>2
          <5> QED
            BY <5>1, <5>2 DEF NoIdleSlotWhileQueued
        <4> QED
          BY <1>5, <3>1, <4>1, <4>2
      <3>2. CASE d # c
        <4>1. pc'[d] = pc[d]
          BY <1>1, <1>3, <3>2
        <4>2. ASSUME NEW i \in DOMAIN slot_queue, slot_queue[i] = d
              PROVE  \E j \in DOMAIN slot_queue' : slot_queue'[j] = d
          <5>1. i # k /\ i \in Int /\ k \in Int
            BY <1>2, <1>4, <3>2, <4>2
          <5>2. CASE i < k
            <6>1. i \in 1..Len(slot_queue) - 1
              BY <1>2, <1>4, <5>1, <5>2
            <6> QED
              BY <1>5, <4>2, <5>2, <6>1
          <5>3. CASE i > k
            <6>1. i - 1 \in 1..Len(slot_queue) - 1 /\ ~(i - 1 < k) /\ (i - 1) + 1 = i
              BY <1>2, <1>4, <5>1, <5>3
            <6> QED
              BY <1>5, <4>2, <6>1
          <5> QED
            BY <5>1, <5>2, <5>3
        <4>3. ASSUME NEW j \in DOMAIN slot_queue', slot_queue'[j] = d
              PROVE  \E i \in DOMAIN slot_queue : slot_queue[i] = d
          BY <1>2, <1>4, <1>5, <4>3
        <4> QED
          BY <4>1, <4>2, <4>3 DEF NoIdleSlotWhileQueued
      <3> QED
        BY <3>1, <3>2
    <2> QED
      BY <2>2, <2>3, <2>4 DEF NoIdleSlotWhileQueued
  <1> QED
    BY <1>6, <1>7, <1>8

\* A finished upload takes a free slot, or the last place in the queue.
LEMMA EndOfUploadMoves ==
    ASSUME TypeOK, SlotsConserved, NoIdleSlotWhileQueued, NEW c \in Calls, EndOfUpload(c)
    PROVE  SlotsConserved' /\ SlotType' /\ NoIdleSlotWhileQueued'
  <1>1. /\ pc \in [Calls -> PCs] /\ slot_queue \in Seq(Calls)
        /\ parse_slots \in 0..MaxConcurrentParses /\ pc[c] = "receiving"
    BY DEF TypeOK, ControlType, SlotType, EndOfUpload
  <1>2. "receiving" \notin HoldsSlot /\ "queued" \notin HoldsSlot /\ "granted" \in HoldsSlot
    BY DEF HoldsSlot, InParse
  <1> DEFINE n == Cardinality(CallsAt(pc, HoldsSlot))
  <1>3. n \in Nat /\ parse_slots + n = MaxConcurrentParses
    BY CountFinite DEF SlotsConserved
  <1>4. CASE parse_slots > 0
    <2>1. pc' = [pc EXCEPT ![c] = "granted"] /\ parse_slots' = parse_slots - 1 /\ slot_queue' = slot_queue
      BY <1>1, <1>4 DEF EndOfUpload
    <2>2. CallsAt(pc', HoldsSlot) = CallsAt(pc, HoldsSlot) \cup {c} /\ c \notin CallsAt(pc, HoldsSlot)
      BY <1>1, <1>2, <2>1 DEF CallsAt
    <2>3. Cardinality(CallsAt(pc', HoldsSlot)) = n + 1
      BY <2>2, CountEnter
    <2>4. SlotsConserved'
      <3> HIDE DEF n
      <3> QED
        BY <1>1, <1>3, <2>1, <2>3, CallsAtPrime, LimitsAssumption DEF SlotsConserved
    <2>5. slot_queue = <<>>
      BY <1>1, <1>4, LimitsAssumption DEF NoIdleSlotWhileQueued
    <2> QED
      BY <1>1, <1>4, <2>1, <2>4, <2>5, LimitsAssumption DEF SlotType, NoIdleSlotWhileQueued
  <1>5. CASE parse_slots = 0
    <2>1. pc' = [pc EXCEPT ![c] = "queued"] /\ parse_slots' = 0 /\ slot_queue' = Append(slot_queue, c)
      BY <1>1, <1>5 DEF EndOfUpload
    <2>2. CallsAt(pc', HoldsSlot) = CallsAt(pc, HoldsSlot)
      BY <1>1, <1>2, <2>1 DEF CallsAt
    <2>3. SlotsConserved'
      BY <1>5, <2>1, <2>2, CallsAtPrime DEF SlotsConserved
    <2>4. /\ slot_queue' \in Seq(Calls)
          /\ DOMAIN slot_queue' = 1..Len(slot_queue) + 1
          /\ DOMAIN slot_queue = 1..Len(slot_queue)
          /\ Len(slot_queue) \in Nat
          /\ \A i \in 1..Len(slot_queue) : slot_queue'[i] = slot_queue[i]
          /\ slot_queue'[Len(slot_queue) + 1] = c
      BY <1>1, <2>1, AppendProperties
    <2>5. \A i \in 1..Len(slot_queue) : slot_queue[i] # c
      BY <1>1, <2>4 DEF NoIdleSlotWhileQueued
    <2>6. \A i, j \in DOMAIN slot_queue' : slot_queue'[i] = slot_queue'[j] => i = j
      BY <2>4, <2>5 DEF NoIdleSlotWhileQueued
    <2>7. ASSUME NEW d \in Calls
          PROVE  pc'[d] = "queued" <=> \E i \in DOMAIN slot_queue' : slot_queue'[i] = d
      <3>1. CASE d = c
        BY <1>1, <2>1, <2>4, <3>1
      <3>2. CASE d # c
        <4>1. pc'[d] = pc[d]
          BY <1>1, <2>1, <3>2
        <4>2. (\E i \in DOMAIN slot_queue' : slot_queue'[i] = d)
              <=> \E i \in DOMAIN slot_queue : slot_queue[i] = d
          BY <2>4, <3>2
        <4> QED
          BY <4>1, <4>2 DEF NoIdleSlotWhileQueued
      <3> QED
        BY <3>1, <3>2
    <2> QED
      BY <1>1, <2>1, <2>3, <2>4, <2>6, <2>7, LimitsAssumption DEF SlotType, NoIdleSlotWhileQueued
  <1> QED
    BY <1>1, <1>4, <1>5, LimitsAssumption

\* The slot semaphore and its queue, step by step.
LEMMA SlotStep ==
    ASSUME TypeOK, SlotsConserved, NoIdleSlotWhileQueued, Next
    PROVE  SlotsConserved' /\ SlotType' /\ NoIdleSlotWhileQueued'
  <1>1. pc \in [Calls -> PCs] /\ SlotType
    BY DEF TypeOK, ControlType
  <1>2. CASE UNCHANGED <<pc, parse_slots, slot_queue>>
    BY <1>1, <1>2 DEF SlotsConserved, SlotType, NoIdleSlotWhileQueued, CallsAt
  <1>3. ASSUME NEW c \in Calls, NEW x \in PCs,
               pc' = [pc EXCEPT ![c] = x],
               pc[c] \in HoldsSlot <=> x \in HoldsSlot,
               pc[c] # "queued", x # "queued",
               UNCHANGED <<parse_slots, slot_queue>>
        PROVE  SlotsConserved' /\ SlotType' /\ NoIdleSlotWhileQueued'
    <2>1. CallsAt(pc', HoldsSlot) = CallsAt(pc, HoldsSlot)
      BY <1>1, <1>3 DEF CallsAt
    <2>2. SlotsConserved' /\ SlotType'
      BY <1>1, <1>3, <2>1, CallsAtPrime DEF SlotsConserved, SlotType
    <2>3. NoIdleSlotWhileQueued'
      BY <1>1, <1>3 DEF NoIdleSlotWhileQueued
    <2> QED
      BY <2>2, <2>3
  <1> QED
    BY <1>2, <1>3, SlotMoves, EndOfUploadMoves, LeaveQueueMoves, PassSlotMoves

\* The inductive step of the semaphore invariant.
LEMMA SemaphoreStep == SemaphoreInv /\ [Next]_vars => SemaphoreInv'
  <1> SUFFICES ASSUME SemaphoreInv, [Next]_vars PROVE SemaphoreInv'
    OBVIOUS
  <1>1. TypeOK /\ BudgetConserved /\ SlotsConserved /\ NoIdleSlotWhileQueued
    BY DEF SemaphoreInv
  <1>2. CASE UNCHANGED vars
    BY <1>1, <1>2 DEF SemaphoreInv, TypeOK, ControlType, UploadType, ClockType, StreamType,
       SlotType, MetricType, BudgetConserved, UnitsOf, SlotsConserved, CallsAt,
       NoIdleSlotWhileQueued, vars, uploadVars, clockVars, streamVars, slotVars, metricVars
  <1>3. CASE Next
    <2>1. ControlType' /\ ClockType' /\ StreamType' /\ MetricType'
      BY <1>1, <1>3, ControlStep, ClockStep, StreamStep, MetricStep
    <2>2. UploadType' /\ BudgetConserved'
      BY <1>1, <1>3, UploadStep, BudgetStep
    <2>3. SlotsConserved' /\ SlotType' /\ NoIdleSlotWhileQueued'
      BY <1>1, <1>3, SlotStep
    <2> QED
      BY <2>1, <2>2, <2>3 DEF SemaphoreInv, TypeOK
  <1> QED
    BY <1>2, <1>3

\* Types, budget and slots, for any number of calls and any limits.
THEOREM SemaphoresSafe == Spec => []SemaphoreInv
  BY SemaphoreInit, SemaphoreStep, PTL DEF Spec

\* Type correctness of the service.
THEOREM TypeCorrect == Spec => []TypeOK
  <1>1. SemaphoreInv => TypeOK
    BY DEF SemaphoreInv
  <1> QED
    BY <1>1, SemaphoresSafe, PTL

\* No permit of the upload budget is lost or minted by any call, however it
\* ends: refused, timed out, cancelled, failed, panicked or complete.
THEOREM BudgetSafe == Spec => []BudgetConserved
  <1>1. SemaphoreInv => BudgetConserved
    BY DEF SemaphoreInv
  <1> QED
    BY <1>1, SemaphoresSafe, PTL

\* No parse slot is lost or minted, cancellation of a waiter that has just
\* been handed one included.
THEOREM SlotsSafe == Spec => []SlotsConserved
  <1>1. SemaphoreInv => SlotsConserved
    BY DEF SemaphoreInv
  <1> QED
    BY <1>1, SemaphoresSafe, PTL

\* No slot lies idle while a call waits for one.
THEOREM QueueSafe == Spec => []NoIdleSlotWhileQueued
  <1>1. SemaphoreInv => NoIdleSlotWhileQueued
    BY DEF SemaphoreInv
  <1> QED
    BY <1>1, SemaphoresSafe, PTL

-----------------------------------------------------------------------------
(* The share each call holds covers the buffer it has allocated.           *)

\* ShareCoversBuffer is not inductive alone: the options may only arrive while
\* the buffer is empty, a joined parse has dropped it, and a handler that is
\* unwinding gives its share back first.
ShareInv == \A c \in Calls :
    /\ len[c] <= capacity[c]
    /\ capacity[c] <= cap[c]
    /\ pc[c] # "unshared" => capacity[c] <= held[c] * BudgetUnit
    /\ pc[c] \in {"idle", "opening", "returned", "reporting", "releasing", "returning", "done"}
          => capacity[c] = 0
    /\ pc[c] \in {"idle", "opening", "unshared", "done"} => held[c] = 0

\* A step that touches neither buffers nor shares, and moves calls only to
\* control points that ask no more of them.
LEMMA ShareKept ==
    ASSUME ShareInv, UNCHANGED <<len, capacity, cap, held>>,
           \A d \in Calls :
              \/ pc'[d] = pc[d]
              \/ pc[d] = "idle" /\ pc'[d] = "opening"
              \/ pc[d] # "unshared" /\ pc'[d] \in {"granted", "queued", "unwinding", "parsing", "stalled"}
              \/ pc[d] \in {"returned", "reporting", "releasing"}
                 /\ pc'[d] \in {"reporting", "releasing", "returning"}
    PROVE  ShareInv'
  BY DEF ShareInv

\* An accepted chunk: what the buffer grows to has been reserved.
LEMMA ShareAcceptChunk ==
    ASSUME TypeOK, BudgetConserved, ShareInv, NEW c \in Calls, NEW n \in Chunks,
           pc[c] = "receiving", len[c] + n <= cap[c], AcceptChunk(c, n)
    PROVE  ShareInv'
  <1>1. n \in Nat /\ len \in [Calls -> Nat] /\ capacity \in [Calls -> Nat]
        /\ held \in [Calls -> 0..TotalBudget] /\ cap \in [Calls -> 0..MaxDocument]
    BY InputsAssumption DEF TypeOK, UploadType
  <1>2. UNCHANGED <<pc, cap>>
    BY DEF AcceptChunk
  <1>3. PICK more \in 0..upload_budget :
             /\ held' = [held EXCEPT ![c] = held[c] + more]
             /\ len'[c] <= capacity'[c] \/ len[c] > capacity[c]
             /\ capacity'[c] \in Nat
             /\ capacity[c] <= cap[c] => capacity'[c] <= cap[c]
             /\ capacity'[c] = capacity[c] \/ Units(capacity'[c]) <= held'[c]
    BY <1>1, AcceptChunkMoves
  <1>4. /\ \E t : capacity' = [capacity EXCEPT ![c] = t]
        /\ len' = [len EXCEPT ![c] = len[c] + n]
    BY DEF AcceptChunk
  <1>5. held[c] \in Nat /\ more \in Nat /\ held'[c] = held[c] + more /\ held'[c] \in Nat
    BY <1>1, <1>3, BudgetType DEF TypeOK, UploadType
  <1>6. capacity'[c] <= held'[c] * BudgetUnit
    <2>1. CASE capacity'[c] = capacity[c]
      <3>1. capacity[c] <= held[c] * BudgetUnit
        BY DEF ShareInv
      <3>2. held[c] * BudgetUnit <= (held[c] + more) * BudgetUnit
        BY <1>5, LimitsAssumption
      <3>3. capacity[c] \in Nat /\ held[c] * BudgetUnit \in Nat /\ (held[c] + more) * BudgetUnit \in Nat
        BY <1>1, <1>5, LimitsAssumption
      <3> QED
        BY <1>5, <2>1, <3>1, <3>2, <3>3
    <2>2. CASE Units(capacity'[c]) <= held'[c]
      <3>1. /\ Units(capacity'[c]) \in Nat
            /\ capacity'[c] <= Units(capacity'[c]) * BudgetUnit
        BY <1>3, UnitsType
      <3>2. Units(capacity'[c]) * BudgetUnit <= held'[c] * BudgetUnit
        BY <1>5, <2>2, <3>1, LimitsAssumption
      <3>3. Units(capacity'[c]) * BudgetUnit \in Nat /\ held'[c] * BudgetUnit \in Nat
        BY <1>5, <3>1, LimitsAssumption
      <3> QED
        BY <1>3, <3>1, <3>2, <3>3
    <2> QED
      BY <1>3, <2>1, <2>2
  <1>7. len'[c] <= capacity'[c] /\ capacity'[c] <= cap'[c]
    BY <1>1, <1>2, <1>3 DEF ShareInv
  <1>8. ASSUME NEW d \in Calls, d # c
        PROVE  held'[d] = held[d] /\ capacity'[d] = capacity[d] /\ len'[d] = len[d]
    BY <1>1, <1>3, <1>4, <1>8
  <1> QED
    BY <1>2, <1>6, <1>7, <1>8 DEF ShareInv

\* The inductive step for the shares.
LEMMA ShareStep == SemaphoreInv /\ ShareInv /\ [Next]_vars => ShareInv'
  <1> SUFFICES ASSUME SemaphoreInv, ShareInv, [Next]_vars PROVE ShareInv'
    OBVIOUS
  <1>1. TypeOK /\ BudgetConserved /\ NoIdleSlotWhileQueued
    BY DEF SemaphoreInv
  <1>2. /\ pc \in [Calls -> PCs] /\ slot_queue \in Seq(Calls)
        /\ len \in [Calls -> Nat] /\ capacity \in [Calls -> Nat]
        /\ held \in [Calls -> 0..TotalBudget] /\ cap \in [Calls -> 0..MaxDocument]
    BY <1>1 DEF TypeOK, ControlType, UploadType, SlotType
  <1>3. CASE UNCHANGED vars
    BY <1>3, ShareKept DEF vars, uploadVars
  <1>4. ASSUME NEW c \in Calls, NEW x \in {"returning", "unwinding"}, PassSlot(c, x),
               pc[c] = (IF x = "returning" THEN "releasing" ELSE "granted"),
               UNCHANGED <<len, capacity, cap, held>>
        PROVE  ShareInv'
    <2>1. slot_queue # <<>> => Head(slot_queue) \in Calls /\ pc[Head(slot_queue)] = "queued"
      <3> SUFFICES ASSUME slot_queue # <<>>
                   PROVE  Head(slot_queue) \in Calls /\ pc[Head(slot_queue)] = "queued"
        OBVIOUS
      <3>1. Head(slot_queue) \in Calls /\ Head(slot_queue) = slot_queue[1] /\ 1 \in DOMAIN slot_queue
        BY <1>2
      <3> QED
        BY <1>1, <3>1 DEF NoIdleSlotWhileQueued
    <2> QED
      BY <1>2, <1>4, <2>1, ShareKept DEF PassSlot
  <1>5. ASSUME NEW c \in Calls, Connect(c) \/ Frame(c) PROVE ShareInv'
    <2>1. ASSUME NEW why, pc[c] \in Uploading, Refuse(c, why), UNCHANGED uploadVars
          PROVE  ShareInv'
      BY <1>2, <2>1, ShareKept DEF Refuse, Uploading, uploadVars
    <2>2. CASE Connect(c) \/ EmptyFrame(c) \/ EndOfUpload(c)
      BY <1>2, <2>2, ShareKept DEF Connect, EmptyFrame, EndOfUpload, uploadVars
    <2>3. CASE MisplacedFrame(c) \/ TransportError(c)
      BY <2>1, <2>3 DEF MisplacedFrame, TransportError
    <2>4. CASE OptionsFrame(c)
      <3>1. PICK doc \in DocumentCaps : cap' = [cap EXCEPT ![c] = doc]
        BY <2>4 DEF OptionsFrame
      <3>2. doc >= 0
        BY InputsAssumption, LimitsAssumption
      <3>3. pc[c] = "opening" /\ pc' = [pc EXCEPT ![c] = "receiving"] /\ UNCHANGED <<len, capacity, held>>
        BY <2>4 DEF OptionsFrame
      <3> QED
        BY <1>2, <3>1, <3>2, <3>3 DEF ShareInv
    <2>5. ASSUME NEW n \in Chunks, ChunkFrame(c, n) PROVE ShareInv'
      <3>1. pc[c] \in Uploading
        BY <2>5 DEF ChunkFrame, Uploading
      <3> QED
        BY <1>1, <2>1, <2>5, <3>1, ShareAcceptChunk DEF ChunkFrame
    <2> QED
      BY <1>5, <2>2, <2>3, <2>4, <2>5 DEF Frame
  <1>6. ASSUME NEW c \in Calls, Cancel(c) PROVE ShareInv'
    <2>1. UNCHANGED <<len, capacity, cap, held>>
      BY <1>6 DEF Cancel, uploadVars
    <2>2. CASE pc[c] = "granted"
      <3>1. PassSlot(c, "unwinding")
        BY <1>6, <2>2 DEF Cancel, DropHandler, InHandler, Uploading
      <3> QED
        BY <1>4, <2>1, <2>2, <3>1
    <2>3. CASE pc[c] # "granted"
      <3>1. pc' = pc \/ (pc[c] \in InHandler /\ pc' = [pc EXCEPT ![c] = "unwinding"])
        BY <1>6, <2>3 DEF Cancel, DropHandler
      <3> QED
        BY <1>2, <2>1, <3>1, ShareKept DEF InHandler, Uploading
    <2> QED
      BY <2>2, <2>3
  <1>7. ASSUME NEW c \in Calls, Handler(c) PROVE ShareInv'
    <2>1. CASE Tick(c) \/ Timeout(c) \/ StartParse(c)
      BY <1>2, <2>1, ShareKept DEF Tick, Timeout, Refuse, StartParse, Uploading, uploadVars
    <2>2. CASE DropShare(c)
      BY <1>2, <2>2 DEF DropShare, ShareInv
    <2>3. CASE DropBuffer(c)
      <3>1. 0 <= cap[c]
        BY <1>2, LimitsAssumption
      <3> QED
        BY <1>2, <2>3, <3>1, LimitsAssumption DEF DropBuffer, ShareInv
    <2> QED
      BY <1>7, <2>1, <2>2, <2>3 DEF Handler
  <1>8. ASSUME NEW c \in Calls, Parser(c) PROVE ShareInv'
    <2>1. UNCHANGED <<cap, held>> /\ pc[c] \in InParse
      BY <1>8 DEF Parser, Send, SendWaiting, StallTimeout, ParseFails, InParse
    <2>2. ASSUME NEW result, ParseReturns(c, result) PROVE ShareInv'
      <3>1. /\ pc' = [pc EXCEPT ![c] = "returned"]
            /\ len' = [len EXCEPT ![c] = 0] /\ capacity' = [capacity EXCEPT ![c] = 0]
        BY <2>2 DEF ParseReturns
      <3>2. 0 <= cap[c] /\ 0 <= held[c] * BudgetUnit
        <4>1. held[c] \in Nat /\ cap[c] \in Nat
          BY <1>2, BudgetType, LimitsAssumption
        <4> QED
          BY <4>1, LimitsAssumption
      <3> QED
        BY <1>2, <2>1, <3>1, <3>2 DEF ShareInv
    <2>3. ASSUME NEW x \in {"parsing", "stalled"}, pc' = [pc EXCEPT ![c] = x], UNCHANGED <<len, capacity>>
          PROVE  ShareInv'
      BY <1>2, <2>1, <2>3, ShareKept DEF InParse
    <2> QED
      BY <1>8, <2>2, <2>3 DEF Parser, Send, SendWaiting, StallTimeout, ParseFails, Sent
  <1>9. ASSUME NEW c \in Calls, Supervisor(c) PROVE ShareInv'
    <2>1. CASE ReleaseSlot(c)
      BY <1>4, <2>1 DEF ReleaseSlot, uploadVars
    <2>2. CASE Join(c) \/ Report(c)
      BY <1>2, <2>2, ShareKept DEF Join, Report, uploadVars
    <2>3. CASE ReturnShare(c)
      <3>1. 0 * BudgetUnit = 0
        BY LimitsAssumption
      <3> QED
        BY <1>2, <2>3, <3>1 DEF ReturnShare, ShareInv
    <2> QED
      BY <1>9, <2>1, <2>2, <2>3 DEF Supervisor
  <1>10. ASSUME NEW c \in Calls, Client(c) PROVE ShareInv'
    BY <1>10, ShareKept DEF Client, ClientRead, ClientEnd, uploadVars
  <1> QED
    BY <1>3, <1>5, <1>6, <1>7, <1>8, <1>9, <1>10 DEF Next

\* Until a failed handler drops its locals, each call's share of the budget
\* covers its buffer, and no buffer outgrows the call's cap.
THEOREM SharesSafe == Spec => []ShareCoversBuffer
  <1>1. Init => ShareInv
    BY LimitsAssumption DEF Init, ShareInv
  <1>2. ShareInv => ShareCoversBuffer
    BY DEF ShareInv, ShareCoversBuffer
  <1> QED
    BY <1>1, <1>2, ShareStep, SemaphoresSafe, PTL DEF Spec

\* A call is refused for lack of budget only while another call holds some of
\* it: an upload the server allows never fails for want of room on its own.
THEOREM RefusalsJustified == Spec => RefusedOnlyUnderContention
  <1>1. ASSUME SemaphoreInv, [Next]_vars
        PROVE  [\A c \in Calls : outcome[c] = "none" /\ outcome'[c] = "budget"
                   => \E d \in Calls \ {c} : held[d] > 0]_vars
    <2> SUFFICES ASSUME Next, NEW c \in Calls, outcome[c] = "none", outcome'[c] = "budget",
                        \A d \in Calls \ {c} : ~(held[d] > 0)
                 PROVE  FALSE
      BY <1>1
    <2>1. TypeOK /\ BudgetConserved
      BY <1>1 DEF SemaphoreInv
    <2>2. /\ outcome \in [Calls -> {"none"} \cup Refusals \cup Results]
          /\ held \in [Calls -> 0..TotalBudget] /\ upload_budget \in 0..TotalBudget
          /\ cap \in [Calls -> 0..MaxDocument] /\ len \in [Calls -> Nat]
      BY <2>1 DEF TypeOK, ControlType, UploadType
    <2>3. PICK n \in Chunks : /\ len[c] + n <= cap[c]
                              /\ ~Reservable(c, GrowthTarget(c, len[c] + n))
      <3>1. PICK d \in Calls : \/ Connect(d) \/ Cancel(d) \/ Frame(d)
                               \/ Handler(d) \/ Parser(d) \/ Supervisor(d) \/ Client(d)
        BY DEF Next
      <3>2. ASSUME NEW n \in Chunks, ChunkFrame(d, n)
            PROVE  d = c /\ len[c] + n <= cap[c] /\ ~Reservable(c, GrowthTarget(c, len[c] + n))
        BY <2>2, <3>2 DEF ChunkFrame, AcceptChunk, Refuse
      <3>3. outcome'[c] = outcome[c] \/ \E why \in {"invalid", "broken", "deadline", "cancelled"} \cup Results :
                outcome' = [outcome EXCEPT ![d] = why]
            \/ \E n \in Chunks : ChunkFrame(d, n)
        BY <3>1 DEF Connect, Cancel, Frame, OptionsFrame, MisplacedFrame, EmptyFrame, TransportError,
           EndOfUpload, Refuse, Handler, Tick, Timeout, StartParse, DropShare, DropBuffer,
           Parser, Send, SendWaiting, StallTimeout, ParseFails, ParseReturns, Sent, Results,
           Supervisor, Join, Report, ReleaseSlot, ReturnShare, Client, ClientRead, ClientEnd
      <3>4. \E n \in Chunks : ChunkFrame(d, n)
        BY <2>2, <3>3 DEF Results
      <3> QED
        BY <3>2, <3>4
    <2>4. upload_budget = TotalBudget - held[c]
      <3>1. {p \in UnitsOf(held) : p[1] # c} = {}
        <4>1. \A d \in Calls \ {c} : held[d] = 0
          BY <2>2, BudgetType
        <4> QED
          BY <4>1, BudgetType DEF UnitsOf
      <3>2. Cardinality(UnitsOf(held)) = Cardinality({p \in UnitsOf(held) : p[1] # c}) + held[c]
        BY <2>2, UnitsOfSplit
      <3>3. Cardinality(UnitsOf(held)) = 0 + held[c]
        BY <3>1, <3>2, FS_EmptySet
      <3> QED
        BY <2>1, <2>2, <3>3, BudgetType DEF BudgetConserved
    <2> DEFINE t == GrowthTarget(c, len[c] + n)
    <2>5. t \in Nat /\ t <= MaxDocument
      <3>1. len[c] + n \in Nat /\ cap[c] \in 0..MaxDocument
        BY <2>2, InputsAssumption
      <3> QED
        BY <2>1, <2>3, <3>1, TargetType, LimitsAssumption
    <2>6. Units(t) <= TotalBudget /\ Units(t) \in Nat
      BY <2>5, BudgetType, UnitsType, LimitsAssumption
    <2>7. Missing(c, t) <= TotalBudget - held[c]
      <3> HIDE DEF t
      <3> QED
        BY <2>2, <2>6, BudgetType DEF Missing, Maximum
    <2> QED
      BY <2>3, <2>4, <2>7 DEF Reservable
  <1> QED
    BY <1>1, SemaphoresSafe, PTL DEF Spec, RefusedOnlyUnderContention

=============================================================================
