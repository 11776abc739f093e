----------------------------- MODULE Reconciler -----------------------------
(***************************************************************************)
(* The reconciliation cache (crates/anemoi-daemon/src/lib.rs, Reconciler,  *)
(* run_reconciliation_tick and the refresh in front of decide).            *)
(*                                                                         *)
(* A tick inspects every runtime in turn and stores what it saw.  Ticks    *)
(* are run by the background loop and, inline, by every request handler    *)
(* that finds the cache wanting (decide, catalog_models): nothing          *)
(* serialises them, each await is a point where another may run.           *)
(*                                                                         *)
(* A runtime's residents are abstracted to a version, a new one for every  *)
(* change; version 0 stands for "no residents".                            *)
(***************************************************************************)
EXTENDS Naturals

CONSTANTS
  Runtime,
  Handler,      \* request handlers that refresh and then read every snapshot
  Loop,         \* the background reconciliation loop
  MaxVersion,   \* bound: changes of each runtime
  NoEntry,      \* the runtime has no cache entry
  Failed,       \* inspect() returned Err
  Nothing       \* no inspection is in flight

ASSUME ConstantsAssumption ==
  /\ MaxVersion \in Nat
  /\ Loop \notin Handler

Ticker == Handler \cup {Loop}

Version == 0 .. MaxVersion

\* RuntimeSnapshot: residents are version 0 when the runtime answers that it is
\* not available.
Snapshot == [available : BOOLEAN, residents : Version]

\* ReconciledSnapshot.  failed: is_stale is set and last_error is Some (nothing
\* outside the tests sets one without the other); aged: last_inspected is older
\* than ttl_ms.
Entry == [snapshot : Snapshot, aged : BOOLEAN, failed : BOOLEAN]

\* What inspect() returned, and for which runtime.
Result == [runtime : Runtime, answer : Snapshot \cup {Failed}]

ASSUME SentinelAssumption ==
  /\ NoEntry \notin Entry
  /\ Failed \notin Snapshot
  /\ Nothing \notin Result

VARIABLES
  health,    \* health[rt]: "up", "refusing" (answers, unavailable) or "down"
  version,   \* version[rt]: the residents rt really has
  cache,     \* cache[rt]: its Entry, or NoEntry
  phase,     \* phase[t]: where ticker t is
  todo,      \* todo[t]: runtimes t's tick has not stored yet
  result,    \* result[t]: the Result t is handling, or Nothing
  shown,     \* history: shown[rt], the snapshots rt ever answered with
  wanting,   \* history: wanting[h], what handler h found wanting and is not yet refreshed
  recorded   \* the event store: recorded[rt], the to_state of its last resident event

world == <<health, version>>
ticks == <<phase, todo, result>>
history == <<shown, wanting, recorded>>
vars == <<world, cache, ticks, history>>

HasEntry(rt) == cache[rt] # NoEntry

Fresh(s) == [snapshot |-> s, aged |-> FALSE, failed |-> FALSE]

Placeholder ==
  [snapshot |-> [available |-> FALSE, residents |-> 0], aged |-> FALSE, failed |-> TRUE]

-----------------------------------------------------------------------------
(* Mutated forms, for the checks that each property can fail.              *)

AfterError_Erases(e) == Placeholder

AfterError_StoresError(e) == Fresh(Failed)

NeedsRefresh_IgnoresAge ==
  \/ \A rt \in Runtime : ~HasEntry(rt)
  \/ \E rt \in Runtime : HasEntry(rt) /\ cache[rt].failed

Answers_Cached(rt) ==
  IF HasEntry(rt) THEN {cache[rt].snapshot} ELSE {[available |-> TRUE, residents |-> version[rt]]}

-----------------------------------------------------------------------------

Init ==
  /\ health \in [Runtime -> {"up", "refusing", "down"}]
  /\ version = [rt \in Runtime |-> 0]
  /\ cache = [rt \in Runtime |-> NoEntry]
  /\ phase = [t \in Ticker |-> "idle"]
  /\ todo = [t \in Ticker |-> {}]
  /\ result = [t \in Ticker |-> Nothing]
  /\ shown = [rt \in Runtime |-> {}]
  /\ wanting = [h \in Handler |-> {}]
  /\ recorded = [rt \in Runtime |-> 0]

\* The runtime's residents or its health change.
WorldChange(rt) ==
  /\ version[rt] < MaxVersion
  /\ version' = [version EXCEPT ![rt] = @ + 1]
  /\ \E hl \in {"up", "refusing", "down"} : health' = [health EXCEPT ![rt] = hl]
  /\ UNCHANGED <<cache, ticks, history>>

\* ttl_ms elapses since the entry was last stored.
Age(rt) ==
  /\ HasEntry(rt)
  /\ ~cache[rt].aged
  /\ cache' = [cache EXCEPT ![rt].aged = TRUE]
  /\ UNCHANGED <<world, ticks, history>>

-----------------------------------------------------------------------------
(* One tick.  The order of the runtimes is a HashMap's: any.               *)

\* needs_refresh().
NeedsRefresh ==
  \/ \A rt \in Runtime : ~HasEntry(rt)
  \/ \E rt \in Runtime : HasEntry(rt) /\ (cache[rt].aged \/ cache[rt].failed)

\* What a decision should not rely on: entries that aged or failed, and the whole
\* table when it is empty.
Wanting ==
  IF \A rt \in Runtime : ~HasEntry(rt)
  THEN Runtime
  ELSE {rt \in Runtime : HasEntry(rt) /\ (cache[rt].aged \/ cache[rt].failed)}

BeginTick(t) ==
  /\ phase' = [phase EXCEPT ![t] = "ticking"]
  /\ todo' = [todo EXCEPT ![t] = Runtime]
  /\ UNCHANGED result

\* serve: the interval of the reconciliation loop fires.
StartRound ==
  /\ phase[Loop] = "idle"
  /\ BeginTick(Loop)
  /\ UNCHANGED <<world, cache, history>>

\* decide: needs_refresh() and, when it says so, an inline tick.
Decide(h) ==
  /\ phase[h] = "idle"
  /\ wanting' = [wanting EXCEPT ![h] = Wanting]
  /\ IF NeedsRefresh
     THEN BeginTick(h)
     ELSE /\ phase' = [phase EXCEPT ![h] = "scheduling"]
          /\ UNCHANGED <<todo, result>>
  /\ UNCHANGED <<world, cache, shown, recorded>>

\* What inspect() may return: an adapter that cannot reach the runtime fails, one
\* that is refused reports it unavailable and without residents.
Answers(rt) ==
  CASE health[rt] = "up" -> {[available |-> TRUE, residents |-> version[rt]]}
    [] health[rt] = "refusing" -> {[available |-> FALSE, residents |-> 0]}
    [] OTHER -> {Failed}

\* adapter.inspect() reads the runtime; its answer is on the way.
Inspect(t, rt) ==
  /\ phase[t] = "ticking"
  /\ rt \in todo[t]
  /\ \E ans \in Answers(rt) :
       /\ result' = [result EXCEPT ![t] = [runtime |-> rt, answer |-> ans]]
       /\ shown' = [shown EXCEPT ![rt] = IF ans = Failed THEN @ ELSE @ \cup {ans}]
  /\ phase' = [phase EXCEPT ![t] = "inspected"]
  /\ UNCHANGED <<world, cache, todo, wanting, recorded>>

\* prior_residents
Prior(rt) == IF HasEntry(rt) THEN cache[rt].snapshot.residents ELSE 0

\* resident_transitions: residents that are there now and were not, or differ.
\* Models that vanished yield nothing.
RecordsTransition(rt, s) == s.residents # 0 /\ s.residents # Prior(rt)

\* Ok(snapshot): the cached snapshot is read and the differences go to the log.
Observe(t) ==
  LET rt == result[t].runtime
      s == result[t].answer
  IN  /\ phase[t] = "inspected"
      /\ s # Failed
      /\ recorded' = IF RecordsTransition(rt, s)
                     THEN [recorded EXCEPT ![rt] = s.residents]
                     ELSE recorded
      /\ phase' = [phase EXCEPT ![t] = "observed"]
      /\ UNCHANGED <<world, cache, todo, result, shown, wanting>>

\* The entry is stored and the tick moves on to the next runtime.
Store(t, rt, entry) ==
  /\ cache' = [cache EXCEPT ![rt] = entry]
  /\ wanting' = [h \in Handler |-> wanting[h] \ {rt}]
  /\ todo' = [todo EXCEPT ![t] = @ \ {rt}]
  /\ result' = [result EXCEPT ![t] = Nothing]
  /\ phase' = [phase EXCEPT ![t] = "ticking"]
  /\ UNCHANGED <<world, shown, recorded>>

\* Reconciler::update: stamped with the time it is stored.
Update(t) ==
  /\ phase[t] = "observed"
  /\ Store(t, result[t].runtime, Fresh(result[t].answer))

\* The entry record_error leaves: the last observed state, flagged.
AfterError(e) ==
  IF e = NoEntry THEN Placeholder ELSE [e EXCEPT !.failed = TRUE]

\* Err(e): Reconciler::record_error.
RecordError(t) ==
  /\ phase[t] = "inspected"
  /\ result[t].answer = Failed
  /\ Store(t, result[t].runtime, AfterError(cache[result[t].runtime]))

\* Every runtime is done: the loop waits for its next interval, a handler goes on.
EndTick(t) ==
  /\ phase[t] = "ticking"
  /\ todo[t] = {}
  /\ phase' = [phase EXCEPT ![t] = IF t = Loop THEN "idle" ELSE "scheduling"]
  /\ UNCHANGED <<world, cache, todo, result, history>>

\* get_snapshots() and the decision on what it returns: every entry's snapshot,
\* its flags dropped.
Schedule(h) ==
  /\ phase[h] = "scheduling"
  /\ phase' = [phase EXCEPT ![h] = "idle"]
  /\ UNCHANGED <<world, cache, todo, result, history>>

TickStep(t) ==
  \/ \E rt \in Runtime : Inspect(t, rt)
  \/ Observe(t)
  \/ Update(t)
  \/ RecordError(t)
  \/ EndTick(t)

Next ==
  \/ \E rt \in Runtime : WorldChange(rt) \/ Age(rt)
  \/ StartRound
  \/ \E h \in Handler : Decide(h) \/ Schedule(h)
  \/ \E t \in Ticker : TickStep(t)

\* The interval fires again and again, and a started tick is not abandoned: every
\* await in it is on a runtime that answers or fails, or on a lock.
Fairness ==
  /\ WF_vars(StartRound)
  /\ \A t \in Ticker : WF_vars(TickStep(t))

Spec == Init /\ [][Next]_vars

FairSpec == Spec /\ Fairness

-----------------------------------------------------------------------------
(* Properties.                                                             *)

Phase == {"idle", "ticking", "inspected", "observed", "scheduling"}

TypeOK ==
  /\ health \in [Runtime -> {"up", "refusing", "down"}]
  /\ version \in [Runtime -> Version]
  /\ cache \in [Runtime -> Entry \cup {NoEntry}]
  /\ phase \in [Ticker -> Phase]
  /\ todo \in [Ticker -> SUBSET Runtime]
  /\ result \in [Ticker -> Result \cup {Nothing}]
  /\ shown \in [Runtime -> SUBSET Snapshot]
  /\ wanting \in [Handler -> SUBSET Runtime]
  /\ recorded \in [Runtime -> Version]

\* A failed inspection never erases evidence: once a runtime's entry holds a snapshot
\* the runtime really showed it holds one for good, however ticks and failures
\* interleave ("a transient inspect failure must not erase the last observed state").
Observed(rt) == HasEntry(rt) /\ cache[rt].snapshot \in shown[rt]

ObservationsKept == [][\A rt \in Runtime : Observed(rt) => Observed(rt)']_vars

\* A handler that found entries aged, failed or missing schedules only after every
\* one of them was inspected again ("this is what stops decide from scheduling
\* indefinitely on evidence that has expired"), whoever ran the inspection.
RefreshedBeforeScheduling ==
  \A h \in Handler : phase[h] = "scheduling" => wanting[h] = {}

\* The comment in decide: "decisions never run on evidence that has aged out or come
\* from a since-failed runtime".  They do when the refresh in front of the decision fails:
\* record_error keeps what was last seen, and get_snapshots drops the mark.
NoFailedEvidence ==
  [][\A h \in Handler : Schedule(h) =>
       \A rt \in Runtime : HasEntry(rt) /\ cache[rt].failed => ~cache[rt].snapshot.available]_vars

\* Once the world stops changing the cache comes to tell the truth and keeps to it.
Truthful(rt) ==
  /\ HasEntry(rt)
  /\ CASE health[rt] = "down" -> cache[rt].failed
       [] OTHER -> ~cache[rt].failed /\ cache[rt].snapshot \in Answers(rt)

CacheConverges == \A rt \in Runtime : <>[]Truthful(rt)
=============================================================================
