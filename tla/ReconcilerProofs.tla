-------------------------- MODULE ReconcilerProofs --------------------------
(***************************************************************************)
(* Proofs about Reconciler, for every set of runtimes and handlers and     *)
(* every bound.  The inductive invariant says what a tick under way knows: *)
(* the inspection it is handling is one of its own outstanding runtimes,   *)
(* an answer in flight was really shown, and whatever a handler found      *)
(* wanting is still ahead of it in its own tick.                           *)
(***************************************************************************)
EXTENDS Reconciler, TLAPS

InTick(t) == phase[t] \in {"ticking", "inspected", "observed"}

\* An inspection under way is of a runtime the tick has still to store.
ResultInv ==
  \A t \in Ticker :
    /\ phase[t] \in {"inspected", "observed"} => result[t] # Nothing
    /\ result[t] # Nothing => result[t].runtime \in todo[t]
    /\ phase[t] = "observed" => result[t].answer # Failed

\* An answer in flight is one its runtime gave.
ShownInv ==
  \A t \in Ticker :
    result[t] # Nothing /\ result[t].answer # Failed =>
      result[t].answer \in shown[result[t].runtime]

\* What a handler found wanting and nobody has refreshed is ahead in its own tick.
WantingInv ==
  \A h \in Handler :
    /\ wanting[h] \subseteq todo[h]
    /\ wanting[h] # {} => InTick(h)

IInv == TypeOK /\ ResultInv /\ ShownInv /\ WantingInv

-----------------------------------------------------------------------------

LEMMA EntryTypes ==
  /\ \A s \in Snapshot : Fresh(s) \in Entry
  /\ \A e \in Entry \cup {NoEntry} : AfterError(e) \in Entry
<1>1. 0 \in Version
  BY ConstantsAssumption DEF Version
<1>2. \A s \in Snapshot : Fresh(s) \in Entry
  BY DEF Fresh, Entry
<1>3. Placeholder \in Entry
  BY <1>1 DEF Placeholder, Entry, Snapshot
<1>4. \A e \in Entry : [e EXCEPT !.failed = TRUE] \in Entry
  BY DEF Entry
<1>5. QED
  BY <1>2, <1>3, <1>4 DEF AfterError

LEMMA AnswerTypes ==
  ASSUME TypeOK, NEW rt \in Runtime
  PROVE  Answers(rt) \subseteq Snapshot \cup {Failed}
<1>1. /\ version[rt] \in Version /\ 0 \in Version
      /\ health[rt] \in {"up", "refusing", "down"}
  BY ConstantsAssumption DEF TypeOK, Version
<1>2. [available |-> TRUE, residents |-> version[rt]] \in Snapshot
  BY <1>1 DEF Snapshot
<1>3. [available |-> FALSE, residents |-> 0] \in Snapshot
  BY <1>1 DEF Snapshot
<1>4. QED
  BY <1>1, <1>2, <1>3 DEF Answers

LEMMA WantingType == Wanting \subseteq Runtime
BY DEF Wanting

\* A result is the record of its two parts.
LEMMA ResultTypes ==
  ASSUME NEW rt \in Runtime, NEW ans \in Snapshot \cup {Failed}
  PROVE  /\ [runtime |-> rt, answer |-> ans] \in Result
         /\ [runtime |-> rt, answer |-> ans] # Nothing
<1>1. [runtime |-> rt, answer |-> ans] \in Result
  BY DEF Result
<1>2. QED
  BY <1>1, SentinelAssumption

-----------------------------------------------------------------------------
(* One lemma per step.                                                     *)

LEMMA InitInv == Init => IInv
<1>1. 0 \in Version
  BY ConstantsAssumption DEF Version
<1>2. QED
  BY <1>1 DEF Init, IInv, TypeOK, ResultInv, ShownInv, WantingInv, Phase

LEMMA WorldChangeInv ==
  ASSUME IInv, NEW rt \in Runtime, WorldChange(rt)
  PROVE  IInv'
<1>1. version[rt] + 1 \in Version
  BY ConstantsAssumption DEF IInv, TypeOK, WorldChange, Version
<1>2. TypeOK'
  BY <1>1 DEF IInv, TypeOK, WorldChange, ticks, history
<1>3. (ResultInv /\ ShownInv /\ WantingInv)'
  BY DEF IInv, WorldChange, ticks, history, ResultInv, ShownInv, WantingInv, InTick
<1>4. QED
  BY <1>2, <1>3 DEF IInv

LEMMA AgeInv ==
  ASSUME IInv, NEW rt \in Runtime, Age(rt)
  PROVE  IInv'
<1>1. cache[rt] \in Entry
  BY DEF IInv, TypeOK, Age, HasEntry
<1>2. [cache[rt] EXCEPT !.aged = TRUE] \in Entry
  BY <1>1 DEF Entry
<1>3. cache' = [cache EXCEPT ![rt] = [cache[rt] EXCEPT !.aged = TRUE]]
  BY DEF Age
<1>4. TypeOK'
  BY <1>2, <1>3 DEF IInv, TypeOK, Age, world, ticks, history
<1>5. (ResultInv /\ ShownInv /\ WantingInv)'
  BY DEF IInv, Age, ticks, history, ResultInv, ShownInv, WantingInv, InTick
<1>6. QED
  BY <1>4, <1>5 DEF IInv

LEMMA StartRoundInv ==
  ASSUME IInv, StartRound
  PROVE  IInv'
<1>1. TypeOK'
  BY DEF IInv, TypeOK, StartRound, BeginTick, world, history, Ticker, Phase
<1>2. ResultInv'
  BY DEF IInv, TypeOK, ResultInv, StartRound, BeginTick, Ticker, Result
<1>3. ShownInv'
  BY DEF IInv, ShownInv, StartRound, BeginTick, history
<1>4. WantingInv'
  BY ConstantsAssumption
     DEF IInv, TypeOK, WantingInv, InTick, StartRound, BeginTick, history, Ticker
<1>5. QED
  BY <1>1, <1>2, <1>3, <1>4 DEF IInv

LEMMA DecideInv ==
  ASSUME IInv, NEW h \in Handler, Decide(h)
  PROVE  IInv'
<1>1. h \in Ticker
  BY DEF Ticker
<1>2. CASE NeedsRefresh
  <2>1. TypeOK'
    BY <1>1, <1>2, WantingType DEF IInv, TypeOK, Decide, BeginTick, world, Phase
  <2>2. ResultInv'
    BY <1>1, <1>2 DEF IInv, TypeOK, ResultInv, Decide, BeginTick, Result
  <2>3. ShownInv'
    BY <1>2 DEF IInv, ShownInv, Decide, BeginTick
  <2>4. WantingInv'
    BY <1>1, <1>2, WantingType
       DEF IInv, TypeOK, WantingInv, InTick, Decide, BeginTick, Ticker
  <2>5. QED
    BY <2>1, <2>2, <2>3, <2>4 DEF IInv
<1>3. CASE ~NeedsRefresh
  <2>0. Wanting = {}
    BY <1>3 DEF NeedsRefresh, Wanting
  <2>1. TypeOK'
    BY <1>1, <1>3, <2>0 DEF IInv, TypeOK, Decide, world, Phase
  <2>2. (ResultInv /\ ShownInv)'
    BY <1>1, <1>3 DEF IInv, TypeOK, ResultInv, ShownInv, Decide
  <2>3. WantingInv'
    BY <1>1, <1>3, <2>0 DEF IInv, TypeOK, WantingInv, InTick, Decide, Ticker
  <2>4. QED
    BY <2>1, <2>2, <2>3 DEF IInv
<1>4. QED
  BY <1>2, <1>3

LEMMA InspectInv ==
  ASSUME IInv, NEW t \in Ticker, NEW rt \in Runtime, Inspect(t, rt)
  PROVE  IInv'
<1>1. PICK ans \in Answers(rt) :
        /\ result' = [result EXCEPT ![t] = [runtime |-> rt, answer |-> ans]]
        /\ shown' = [shown EXCEPT ![rt] = IF ans = Failed THEN @ ELSE @ \cup {ans}]
  BY DEF Inspect
<1>2. ans \in Snapshot \cup {Failed}
  BY AnswerTypes DEF IInv
<1>3. /\ [runtime |-> rt, answer |-> ans] \in Result
      /\ [runtime |-> rt, answer |-> ans] # Nothing
  BY <1>2, ResultTypes
<1>4. TypeOK'
  BY <1>1, <1>2, <1>3 DEF IInv, TypeOK, Inspect, world, Phase
<1>5. ResultInv'
  BY <1>1, <1>3 DEF IInv, TypeOK, ResultInv, Inspect
<1>6. \A q \in Runtime : shown[q] \subseteq shown'[q]
  BY <1>1 DEF IInv, TypeOK
<1>7. ShownInv'
  <2>. SUFFICES ASSUME NEW u \in Ticker,
                       result'[u] # Nothing, result'[u].answer # Failed
                PROVE  result'[u].answer \in shown'[result'[u].runtime]
    BY DEF ShownInv
  <2>1. CASE u = t
    BY <1>1, <2>1 DEF IInv, TypeOK
  <2>2. CASE u # t
    <3>1. result'[u] = result[u] /\ result[u].runtime \in Runtime
      BY <1>1, <2>2 DEF IInv, TypeOK, Result
    <3>2. QED
      BY <1>6, <3>1 DEF IInv, ShownInv
  <2>3. QED
    BY <2>1, <2>2
<1>8. WantingInv'
  BY DEF IInv, TypeOK, WantingInv, InTick, Inspect, Ticker
<1>9. QED
  BY <1>4, <1>5, <1>7, <1>8 DEF IInv

LEMMA ObserveInv ==
  ASSUME IInv, NEW t \in Ticker, Observe(t)
  PROVE  IInv'
<1>1. result[t] \in Result
  BY DEF IInv, TypeOK, ResultInv, Observe
<1>2. /\ result[t].runtime \in Runtime
      /\ result[t].answer \in Snapshot
      /\ result[t].answer.residents \in Version
  BY <1>1 DEF Observe, Result, Snapshot
<1>3. recorded' \in [Runtime -> Version]
  BY <1>2 DEF IInv, TypeOK, Observe
<1>4. TypeOK'
  BY <1>3 DEF IInv, TypeOK, Observe, world, Phase
<1>5. ResultInv'
  BY DEF IInv, TypeOK, ResultInv, Observe
<1>6. (ShownInv /\ WantingInv)'
  BY DEF IInv, TypeOK, ShownInv, WantingInv, InTick, Observe, Ticker
<1>7. QED
  BY <1>4, <1>5, <1>6 DEF IInv

\* Storing an entry: the runtime leaves the tick's list and everybody's wanting.
LEMMA StoreInv ==
  ASSUME IInv, NEW t \in Ticker, phase[t] \in {"inspected", "observed"},
         NEW entry \in Entry, Store(t, result[t].runtime, entry)
  PROVE  IInv'
<1>1. result[t] \in Result
  BY DEF IInv, TypeOK, ResultInv
<1>2. result[t].runtime \in Runtime
  BY <1>1 DEF Result
<1>3. TypeOK'
  BY <1>2 DEF IInv, TypeOK, Store, world, Phase
<1>4. ResultInv'
  BY DEF IInv, TypeOK, ResultInv, Store
<1>5. ShownInv'
  BY DEF IInv, TypeOK, ShownInv, Store
<1>6. WantingInv'
  BY DEF IInv, TypeOK, WantingInv, InTick, Store, Ticker
<1>7. QED
  BY <1>3, <1>4, <1>5, <1>6 DEF IInv

LEMMA UpdateInv ==
  ASSUME IInv, NEW t \in Ticker, Update(t)
  PROVE  IInv'
<1>1. result[t] \in Result /\ result[t].answer # Failed
  BY DEF IInv, TypeOK, ResultInv, Update
<1>2. Fresh(result[t].answer) \in Entry
  BY <1>1, EntryTypes DEF Result
<1>3. QED
  BY <1>2, StoreInv DEF Update

LEMMA RecordErrorInv ==
  ASSUME IInv, NEW t \in Ticker, RecordError(t)
  PROVE  IInv'
<1>1. result[t] \in Result
  BY DEF IInv, TypeOK, ResultInv, RecordError
<1>2. cache[result[t].runtime] \in Entry \cup {NoEntry}
  BY <1>1 DEF IInv, TypeOK, Result
<1>3. AfterError(cache[result[t].runtime]) \in Entry
  BY <1>2, EntryTypes
<1>4. QED
  BY <1>3, StoreInv DEF RecordError

LEMMA EndTickInv ==
  ASSUME IInv, NEW t \in Ticker, EndTick(t)
  PROVE  IInv'
<1>1. TypeOK'
  BY DEF IInv, TypeOK, EndTick, world, history, Phase
<1>2. (ResultInv /\ ShownInv)'
  BY DEF IInv, TypeOK, ResultInv, ShownInv, EndTick, history
<1>3. WantingInv'
  BY DEF IInv, TypeOK, WantingInv, InTick, EndTick, history, Ticker
<1>4. QED
  BY <1>1, <1>2, <1>3 DEF IInv

LEMMA ScheduleInv ==
  ASSUME IInv, NEW h \in Handler, Schedule(h)
  PROVE  IInv'
<1>1. h \in Ticker
  BY DEF Ticker
<1>2. TypeOK'
  BY <1>1 DEF IInv, TypeOK, Schedule, world, history, Phase
<1>3. (ResultInv /\ ShownInv)'
  BY <1>1 DEF IInv, TypeOK, ResultInv, ShownInv, Schedule, history
<1>4. WantingInv'
  BY <1>1 DEF IInv, TypeOK, WantingInv, InTick, Schedule, history, Ticker
<1>5. QED
  BY <1>2, <1>3, <1>4 DEF IInv

LEMMA NextInv == IInv /\ [Next]_vars => IInv'
<1>. SUFFICES ASSUME IInv, [Next]_vars
              PROVE  IInv'
  OBVIOUS
<1>1. CASE \E rt \in Runtime : WorldChange(rt) \/ Age(rt)
  BY <1>1, WorldChangeInv, AgeInv
<1>2. CASE StartRound
  BY <1>2, StartRoundInv
<1>3. CASE \E h \in Handler : Decide(h) \/ Schedule(h)
  BY <1>3, DecideInv, ScheduleInv
<1>4. CASE \E t \in Ticker : TickStep(t)
  BY <1>4, InspectInv, ObserveInv, UpdateInv, RecordErrorInv, EndTickInv DEF TickStep
<1>5. CASE UNCHANGED vars
  BY <1>5 DEF IInv, TypeOK, ResultInv, ShownInv, WantingInv, InTick,
     vars, world, ticks, history
<1>6. QED
  BY <1>1, <1>2, <1>3, <1>4, <1>5 DEF Next

LEMMA Invariant == Spec => []IInv
BY InitInv, NextInv, PTL DEF Spec

-----------------------------------------------------------------------------
(* The theorems.                                                           *)

\* The cache, the ticks under way and the records keep their types.
THEOREM ReconcilerTypeCorrect == Spec => []TypeOK
<1>1. IInv => TypeOK
  BY DEF IInv
<1>2. QED
  BY <1>1, Invariant, PTL

\* decide and catalog_models read the cache only after every entry they objected to
\* was inspected again, whichever tick did it.
THEOREM RefreshedSafe == Spec => []RefreshedBeforeScheduling
<1>1. IInv => RefreshedBeforeScheduling
  BY DEF IInv, WantingInv, RefreshedBeforeScheduling, InTick
<1>2. QED
  BY <1>1, Invariant, PTL

LEMMA StoreObservation ==
  ASSUME IInv, NEW t \in Ticker, Update(t) \/ RecordError(t),
         NEW rt \in Runtime, Observed(rt)
  PROVE  Observed(rt)'
<1>1. result[t] \in Result /\ shown' = shown
  BY DEF IInv, TypeOK, ResultInv, Update, RecordError, Store
<1>2. result[t].runtime \in Runtime
  BY <1>1 DEF Result
<1>3. CASE rt # result[t].runtime
  <2>1. CASE Update(t)
    BY <1>1, <1>3, <2>1 DEF IInv, TypeOK, Observed, HasEntry, Update, Store
  <2>2. CASE RecordError(t)
    BY <1>1, <1>3, <2>2 DEF IInv, TypeOK, Observed, HasEntry, RecordError, Store
  <2>3. QED
    BY <2>1, <2>2
<1>4. CASE rt = result[t].runtime /\ Update(t)
  <2>1. /\ result[t].answer \in Snapshot
        /\ result[t].answer \in shown[rt]
    BY <1>1, <1>4 DEF IInv, ResultInv, ShownInv, Update, Result
  <2>2. cache'[rt] = Fresh(result[t].answer)
    BY <1>2, <1>4 DEF IInv, TypeOK, Update, Store
  <2>3. cache'[rt] # NoEntry
    BY <2>1, <2>2, EntryTypes, SentinelAssumption
  <2>4. QED
    BY <1>1, <2>1, <2>2, <2>3 DEF Observed, HasEntry, Fresh
<1>5. CASE rt = result[t].runtime /\ RecordError(t)
  <2>1. cache[rt] \in Entry
    BY DEF IInv, TypeOK, Observed, HasEntry
  <2>2. cache'[rt] = [cache[rt] EXCEPT !.failed = TRUE]
    BY <1>2, <1>5 DEF IInv, TypeOK, RecordError, Store, AfterError, Observed, HasEntry
  <2>3. cache'[rt] \in Entry /\ cache'[rt].snapshot = cache[rt].snapshot
    BY <2>1, <2>2 DEF Entry
  <2>4. QED
    BY <1>1, <2>3, SentinelAssumption DEF Observed, HasEntry
<1>6. QED
  BY <1>3, <1>4, <1>5

\* No failed inspection, and no race of ticks, takes an observed snapshot away.
THEOREM ObservationsKeptSafe == Spec => ObservationsKept
<1>1. IInv /\ [Next]_vars => [\A rt \in Runtime : Observed(rt) => Observed(rt)']_vars
  <2>. SUFFICES ASSUME IInv, Next, NEW rt \in Runtime, Observed(rt)
                PROVE  Observed(rt)'
    OBVIOUS
  <2>1. CASE \E q \in Runtime : Age(q)
    <3>1. PICK q \in Runtime : Age(q)
      BY <2>1
    <3>2. cache[q] \in Entry
      BY <3>1 DEF IInv, TypeOK, Age, HasEntry
    <3>3. [cache[q] EXCEPT !.aged = TRUE] \in Entry
      BY <3>2 DEF Entry
    <3>4. cache' = [cache EXCEPT ![q] = [cache[q] EXCEPT !.aged = TRUE]]
      BY <3>1 DEF Age
    <3>5. [cache[q] EXCEPT !.aged = TRUE].snapshot = cache[q].snapshot
      BY <3>2 DEF Entry
    <3>6. shown' = shown
      BY <3>1 DEF Age, history
    <3>7. cache'[rt] # NoEntry /\ cache'[rt].snapshot = cache[rt].snapshot
      <4>1. CASE rt = q
        BY <3>3, <3>4, <3>5, <4>1, SentinelAssumption DEF IInv, TypeOK
      <4>2. CASE rt # q
        BY <3>4, <4>2 DEF IInv, TypeOK, Observed, HasEntry
      <4>3. QED
        BY <4>1, <4>2
    <3>8. QED
      BY <3>6, <3>7 DEF Observed, HasEntry
  <2>2. CASE \E t \in Ticker : Update(t) \/ RecordError(t)
    BY <2>2, StoreObservation
  <2>3. CASE \E t \in Ticker, q \in Runtime : Inspect(t, q)
    BY <2>3 DEF IInv, TypeOK, Inspect, Observed, HasEntry
  <2>4. CASE \/ \E q \in Runtime : WorldChange(q)
             \/ StartRound
             \/ \E h \in Handler : Decide(h) \/ Schedule(h)
             \/ \E t \in Ticker : Observe(t) \/ EndTick(t)
    BY <2>4 DEF WorldChange, StartRound, Decide, Schedule, Observe, EndTick, history,
       Observed, HasEntry
  <2>5. QED
    BY <2>1, <2>2, <2>3, <2>4 DEF Next, TickStep
<1>2. QED
  BY <1>1, Invariant, PTL DEF Spec, ObservationsKept
=============================================================================
