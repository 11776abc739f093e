------------------------------ MODULE Staging ------------------------------
(***************************************************************************)
(* Background staging and the hand-off of escalation context               *)
(* (crates/anemoi-daemon/src/lib.rs: StagingWorker, EscalationContextCache,*)
(* run_staging_tick and the context part of the execute handler).          *)
(*                                                                         *)
(* decide queues an intent to load background_model while foreground_model *)
(* answers.  One loop, the staging tick, commits the declared context of   *)
(* intents whose foreground model is draining to a bounded cache, completes*)
(* the intents whose model became ready and loads the rest.  execute       *)
(* handlers, any number at a time, take a committed context: first its     *)
(* reference, under the queue's lock, then the payload, under the cache's. *)
(*                                                                         *)
(* An intent's id is its place in the queue, which nothing ever shortens.  *)
(***************************************************************************)
EXTENDS Naturals, FiniteSets

CONSTANTS
  Model,
  Staged,        \* the <<foreground, background>> models decisions stage
  Runtime,
  MockRuntime,   \* the runtimes whose adapter is "mock"
  Caller,        \* execute handlers
  Capacity,      \* EscalationContextCache.capacity, at least 1
  MaxIntents,    \* bound: intents queued
  NoIntent

ASSUME ConstantsAssumption ==
  /\ Staged \subseteq Model \X Model
  /\ MockRuntime \subseteq Runtime
  /\ Capacity \in Nat \ {0}
  /\ MaxIntents \in Nat

Id == 1 .. MaxIntents

StagingState == {"blocked", "pending", "failed", "completed"}

Terminal == {"failed", "completed"}

StagingIntent ==
  [foreground : Model, background : Model, target_runtime : Runtime,
   state : StagingState,
   pending_context : BOOLEAN,  \* is Some
   context_ref : BOOLEAN]      \* is Some: the intent's own id

ASSUME NoIntentAssumption == NoIntent \notin StagingIntent

VARIABLES
  live,       \* ANEMOI_ENABLE_LIVE_EXECUTE=1, for the life of the process
  residency,  \* residency[m]: what the reconciliation cache says of m
  queue,      \* queue[id]: the intent, or NoIntent
  queued,     \* the queue's length
  entries,    \* ids with an entry in the escalation cache
  stamp,      \* stamp[id]: when it was stored, 0 if never
  expired,    \* the entries older than the cache's ttl
  tick,       \* where the staging tick is
  committing, \* intents commit_eviction_context has still to write, queue locked
  loading,    \* intents of the tick's pending list it has still to handle
  inflight,   \* the intent whose load_model is awaited, 0 if none
  caller,     \* caller[c]: [at, id], how far an execute handler is with a context
  handed,     \* history: handed[id], how often the context was handed to a client
  loads       \* history: loads[id], how often the tick called load_model

store == <<entries, stamp, expired>>
ticker == <<tick, committing, loading, inflight>>
vars == <<live, residency, queue, queued, store, ticker, caller, handed, loads>>

Queued == 1 .. queued

IdleCaller == [at |-> "idle", id |-> 0]

\* Writes so far, the clock of stored_at.
Writes == Cardinality({id \in Id : stamp[id] # 0})

-----------------------------------------------------------------------------
(* Mutated forms, for the checks that each property can fail.              *)

Room_OffByOne(S) == {i \in S : Cardinality({j \in S : stamp[j] > stamp[i]}) < Capacity}

Room_DropsNewest(S) ==
  {i \in S : Cardinality({j \in S : stamp[j] < stamp[i]}) < Capacity - 1}

Completes_AnyState(id) == residency[queue[id].background] = "hot"

PendingIds_Unfiltered == {id \in Queued : queue[id].state # "completed"}

RefTaken_Kept(id) == queue' = queue

Committed_ForgetsRef(id) == [queue[id] EXCEPT !.pending_context = FALSE]

PendingIds_MockOnly ==
  {id \in Queued : queue[id].state = "pending" /\ queue[id].target_runtime \in MockRuntime}

Resolved_Skips(id) == {"completed", "failed", "skipped"}

-----------------------------------------------------------------------------

Init ==
  /\ live \in BOOLEAN
  /\ residency = [m \in Model |-> "cold"]
  /\ queue = [id \in Id |-> NoIntent]
  /\ queued = 0
  /\ entries = {}
  /\ stamp = [id \in Id |-> 0]
  /\ expired = {}
  /\ tick = "idle"
  /\ committing = {}
  /\ loading = {}
  /\ inflight = 0
  /\ caller = [c \in Caller |-> IdleCaller]
  /\ handed = [id \in Id |-> 0]
  /\ loads = [id \in Id |-> 0]

\* The reconciliation cache comes to report something else of a model.
Reconciled(m) ==
  /\ \E s \in {"cold", "hot", "draining"} \ {residency[m]} :
       residency' = [residency EXCEPT ![m] = s]
  /\ UNCHANGED <<live, queue, queued, store, ticker, caller, handed, loads>>

\* May a load be fired at this runtime?
Runnable(rt) == rt \in MockRuntime \/ live

\* decide on StageBackground: queue_intent, Blocked unless the target is runnable.
QueueIntent(fore, back, rt, ctx) ==
  LET id == queued + 1
  IN  /\ id \in Id
      /\ committing = {}
      /\ queued' = id
      /\ queue' = [queue EXCEPT ![id] =
           [foreground |-> fore, background |-> back, target_runtime |-> rt,
            state |-> IF Runnable(rt) THEN "pending" ELSE "blocked",
            pending_context |-> ctx, context_ref |-> FALSE]]
      /\ UNCHANGED <<live, residency, store, ticker, caller, handed, loads>>

-----------------------------------------------------------------------------
(* run_staging_tick.                                                       *)

\* commit_eviction_context's filter.
Commits(id) ==
  /\ ~queue[id].context_ref
  /\ residency[queue[id].foreground] = "draining"
  /\ queue[id].pending_context

\* The tick starts: the intents whose context the eviction window commits.
BeginTick ==
  /\ tick = "idle"
  /\ tick' = "committing"
  /\ committing' = {id \in Queued : Commits(id)}
  /\ UNCHANGED <<live, residency, queue, queued, store, loading, inflight, caller,
                 handed, loads>>

\* The intent after its context was written.
Committed(id) == [queue[id] EXCEPT !.context_ref = TRUE, !.pending_context = FALSE]

\* The entries write_at keeps of S, so that there is room for one more.
Room(S) == {i \in S : Cardinality({j \in S : stamp[j] > stamp[i]}) < Capacity - 1}

\* One round of the loop: EscalationContextCache::write prunes what expired, drops
\* the oldest entries beyond the capacity and inserts.
CommitOne(id) ==
  /\ id \in committing
  /\ \A j \in committing : id <= j
  /\ committing' = committing \ {id}
  /\ queue' = [queue EXCEPT ![id] = Committed(id)]
  /\ entries' = Room(entries \ expired) \cup {id}
  /\ expired' = {}
  /\ stamp' = [stamp EXCEPT ![id] = Writes + 1]
  /\ UNCHANGED <<live, residency, queued, tick, loading, inflight, caller, handed, loads>>

\* reconcile_ready's filter.
Completes(id) ==
  /\ queue[id].state = "pending"
  /\ residency[queue[id].background] = "hot"

\* reconcile_ready, under one lock.
ReconcileReady ==
  /\ tick = "committing"
  /\ committing = {}
  /\ tick' = "reconciled"
  /\ queue' = [id \in Id |->
       IF id \in Queued /\ Completes(id)
       THEN [queue[id] EXCEPT !.state = "completed"]
       ELSE queue[id]]
  /\ UNCHANGED <<live, residency, queued, store, committing, loading, inflight, caller,
                 handed, loads>>

PendingIds == {id \in Queued : queue[id].state = "pending"}

\* get_pending: the list the tick goes through.
GetPending ==
  /\ tick = "reconciled"
  /\ tick' = "loading"
  /\ loading' = PendingIds
  /\ UNCHANGED <<live, residency, queue, queued, store, committing, inflight, caller,
                 handed, loads>>

\* The next intent: skipped when its runtime is not runnable, else load_model is
\* called and awaited.
LoadNext(id) ==
  /\ tick = "loading"
  /\ inflight = 0
  /\ id \in loading
  /\ \A j \in loading : id <= j
  /\ loading' = loading \ {id}
  /\ IF Runnable(queue[id].target_runtime)
     THEN /\ inflight' = id
          /\ loads' = [loads EXCEPT ![id] = @ + 1]
     ELSE UNCHANGED <<inflight, loads>>
  /\ UNCHANGED <<live, residency, queue, queued, store, tick, committing, caller, handed>>

\* What update_state makes of a load's answer: Ok or Err.
Resolved(id) == {"completed", "failed"}

\* load_model answers and update_state overwrites whatever state the intent is in.
LoadAnswers ==
  /\ inflight # 0
  /\ \E s \in Resolved(inflight) :
       queue' = [queue EXCEPT ![inflight] = [queue[inflight] EXCEPT !.state = s]]
  /\ inflight' = 0
  /\ UNCHANGED <<live, residency, queued, store, tick, committing, loading, caller,
                 handed, loads>>

EndTick ==
  /\ tick = "loading"
  /\ loading = {}
  /\ inflight = 0
  /\ tick' = "idle"
  /\ UNCHANGED <<live, residency, queue, queued, store, committing, loading, inflight,
                 caller, handed, loads>>

-----------------------------------------------------------------------------
(* Contexts: age, and the execute handler.                                 *)

\* The oldest entry not expired yet reaches the ttl.
Expire(id) ==
  /\ id \in entries \ expired
  /\ \A j \in entries \ expired : stamp[id] <= stamp[j]
  /\ expired' = expired \cup {id}
  /\ UNCHANGED <<live, residency, queue, queued, entries, stamp, ticker, caller, handed,
                 loads>>

\* An intent that has a committed context for model m.
Offers(id, m) == queue[id].background = m /\ queue[id].context_ref

RefTaken(id) == queue' = [queue EXCEPT ![id] = [queue[id] EXCEPT !.context_ref = FALSE]]

\* take_context_ref_for_background: the first such intent gives up its reference.
TakeRef(c, m) ==
  /\ caller[c].at = "idle"
  /\ committing = {}
  /\ \E id \in Queued :
       /\ Offers(id, m)
       /\ \A j \in Queued : Offers(j, m) => id <= j
       /\ RefTaken(id)
       /\ caller' = [caller EXCEPT ![c] = [at |-> "referred", id |-> id]]
  /\ UNCHANGED <<live, residency, queued, store, ticker, handed, loads>>

\* EscalationContextCache::take removes the entry; the payload comes back unless it
\* is gone or expired.
TakePayload(c) ==
  LET id == caller[c].id
  IN  /\ caller[c].at = "referred"
      /\ entries' = entries \ {id}
      /\ expired' = expired \ {id}
      /\ caller' = [caller EXCEPT ![c] =
           IF id \in entries \ expired THEN [at |-> "holding", id |-> id] ELSE IdleCaller]
      /\ UNCHANGED <<live, residency, queue, queued, stamp, ticker, handed, loads>>

\* The rest of execute: the context goes out in the answer.
Handoff(c) ==
  /\ caller[c].at = "holding"
  /\ handed' = [handed EXCEPT ![caller[c].id] = @ + 1]
  /\ caller' = [caller EXCEPT ![c] = IdleCaller]
  /\ UNCHANGED <<live, residency, queue, queued, store, ticker, loads>>

\* record_action_plan fails: execute returns early and the payload is dropped.
HandoffFails(c) ==
  /\ caller[c].at = "holding"
  /\ caller' = [caller EXCEPT ![c] = IdleCaller]
  /\ UNCHANGED <<live, residency, queue, queued, store, ticker, handed, loads>>

-----------------------------------------------------------------------------

TickStep ==
  \/ BeginTick
  \/ \E id \in Id : CommitOne(id) \/ LoadNext(id)
  \/ ReconcileReady
  \/ GetPending
  \/ LoadAnswers
  \/ EndTick

Next ==
  \/ \E m \in Model : Reconciled(m)
  \/ \E pair \in Staged, rt \in Runtime, ctx \in BOOLEAN :
       QueueIntent(pair[1], pair[2], rt, ctx)
  \/ TickStep
  \/ \E id \in Id : Expire(id)
  \/ \E c \in Caller, m \in Model : TakeRef(c, m)
  \/ \E c \in Caller : TakePayload(c) \/ Handoff(c) \/ HandoffFails(c)

Spec == Init /\ [][Next]_vars

\* The staging interval fires again and again, and every load answers or fails (the
\* adapters' HTTP clients have a timeout).
FairSpec == Spec /\ WF_vars(TickStep)

-----------------------------------------------------------------------------
(* Properties.                                                             *)

CallerState == [at : {"idle", "referred", "holding"}, id : 0 .. MaxIntents]

TypeOK ==
  /\ live \in BOOLEAN
  /\ residency \in [Model -> {"cold", "hot", "draining"}]
  /\ queue \in [Id -> StagingIntent \cup {NoIntent}]
  /\ queued \in 0 .. MaxIntents
  /\ \A id \in Id : queue[id] # NoIntent <=> id \in Queued
  /\ entries \subseteq Queued
  /\ stamp \in [Id -> Nat]
  /\ expired \subseteq entries
  /\ tick \in {"idle", "committing", "reconciled", "loading"}
  /\ committing \subseteq Queued
  /\ loading \subseteq Queued
  /\ inflight \in {0} \cup Queued
  /\ caller \in [Caller -> CallerState]
  /\ \A c \in Caller : caller[c].at # "idle" => caller[c].id \in Queued
  /\ handed \in [Id -> Nat]
  /\ loads \in [Id -> Nat]

Holds(c, id) == caller[c].at # "idle" /\ caller[c].id = id

\* "Reads consume the entry, so a context is handed off at most once": the declared
\* payload is in one place at a time, with the intent, behind its reference, with one
\* caller or handed over, and no two callers ever hold it.
ContextInOnePlace ==
  \A id \in Queued :
    /\ handed[id] <= 1
    /\ queue[id].pending_context =>
         /\ ~queue[id].context_ref
         /\ id \notin entries
    /\ queue[id].pending_context \/ queue[id].context_ref =>
         /\ handed[id] = 0
         /\ \A c \in Caller : ~Holds(c, id)
    /\ \A c \in Caller : Holds(c, id) =>
         /\ handed[id] = 0
         /\ caller[c].at = "holding" => id \notin entries
         /\ \A d \in Caller : Holds(d, id) => d = c

\* The cache never outgrows its capacity, and no payload is left behind in it that
\* nobody can reach any more.
CacheBounded == Cardinality(entries) <= Capacity

NoOrphanEntry ==
  \A id \in entries :
    queue[id].context_ref \/ \E c \in Caller : caller[c] = [at |-> "referred", id |-> id]

\* Making room costs the oldest contexts first: a live entry that is dropped, and not
\* taken by a caller, was older than every live entry that stays.
OldestDropped ==
  [][\A i \in entries \ expired, j \in entries \cap entries' :
       i \notin entries' /\ (\A c \in Caller : ~Holds(c, i)) => stamp[i] < stamp[j]]_vars

\* An intent that failed or completed stays so, whatever answers and readiness
\* reports come late.
TerminalForGood ==
  [][\A id \in Queued :
       queue[id].state \in Terminal => queue'[id].state = queue[id].state]_vars

\* The tick loads a model at most once per intent, and never for an intent on a
\* runtime that is not runnable.
LoadedAtMostOnce ==
  \A id \in Queued :
    /\ loads[id] <= 1
    /\ loads[id] = 1 => Runnable(queue[id].target_runtime)

\* No intent stays pending for ever: with TerminalForGood, each one queued as pending is
\* completed or failed in the end (run_staging_tick).
PendingResolved ==
  \A id \in Id : []<>(id \in Queued => queue[id].state # "pending")

=============================================================================
