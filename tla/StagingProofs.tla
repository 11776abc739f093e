--------------------------- MODULE StagingProofs ---------------------------
(***************************************************************************)
(* Proofs about the staging worker and the escalation context cache, for   *)
(* any number of intents, models, runtimes and execute handlers and for    *)
(* any capacity.                                                           *)
(*                                                                         *)
(* The invariant has one part per concern: where a declared context is     *)
(* (PlaceInv), which intents the tick may still load (LoadInv) and that    *)
(* stamps order the writes to the cache (StampInv).                        *)
(***************************************************************************)
EXTENDS Staging, FiniteSetTheorems, WellFoundedInduction, TLAPS

-----------------------------------------------------------------------------
(* Typing.                                                                 *)

\* What happens to an intent is an intent again.
LEMMA IntentTypes ==
  ASSUME NEW q \in StagingIntent
  PROVE  /\ \A s \in StagingState : [q EXCEPT !.state = s] \in StagingIntent
         /\ \A b \in BOOLEAN : [q EXCEPT !.context_ref = b] \in StagingIntent
         /\ [q EXCEPT !.context_ref = TRUE, !.pending_context = FALSE] \in StagingIntent
BY DEF StagingIntent

LEMMA QueuedIntents ==
  ASSUME TypeOK, NEW id \in Queued
  PROVE  id \in Id /\ queue[id] \in StagingIntent /\ queue[id] # NoIntent
BY ConstantsAssumption DEF TypeOK, Queued, Id

\* An intent of the queue replaced by another leaves the queue well typed.
LEMMA ReplacedIntent ==
  ASSUME TypeOK, NEW id \in Queued, NEW q \in StagingIntent,
         queue' = [queue EXCEPT ![id] = q], queued' = queued
  PROVE  /\ queue' \in [Id -> StagingIntent \cup {NoIntent}]
         /\ queued' \in 0 .. MaxIntents
         /\ \A i \in Id : queue'[i] # NoIntent <=> i \in Queued'
<1>1. id \in Id /\ q # NoIntent /\ queue[id] # NoIntent /\ Queued' = Queued
  BY QueuedIntents, NoIntentAssumption DEF Queued
<1>2. QED
  BY <1>1 DEF TypeOK

LEMMA QueueIntentTypes ==
  ASSUME TypeOK, NEW pair \in Staged, NEW rt \in Runtime, NEW ctx \in BOOLEAN,
         QueueIntent(pair[1], pair[2], rt, ctx)
  PROVE  TypeOK'
<1>1. /\ pair[1] \in Model /\ pair[2] \in Model
      /\ queued + 1 \in Id
      /\ queued \in Nat /\ MaxIntents \in Nat
  BY ConstantsAssumption DEF QueueIntent, TypeOK
<1> DEFINE q == [foreground |-> pair[1], background |-> pair[2], target_runtime |-> rt,
                 state |-> IF Runnable(rt) THEN "pending" ELSE "blocked",
                 pending_context |-> ctx, context_ref |-> FALSE]
<1>2. q \in StagingIntent
  BY <1>1 DEF StagingIntent, StagingState
<1>3. q # NoIntent
  BY <1>2, NoIntentAssumption
<1>4. queue' = [queue EXCEPT ![queued + 1] = q] /\ queued' = queued + 1
  BY DEF QueueIntent
<1>5. Queued' = Queued \cup {queued + 1} /\ queued' \in 0 .. MaxIntents
  BY <1>1, <1>4 DEF Queued, Id
<1> HIDE DEF q
<1>6. /\ queue' \in [Id -> StagingIntent \cup {NoIntent}]
      /\ \A i \in Id : queue'[i] # NoIntent <=> i \in Queued'
  BY <1>1, <1>2, <1>3, <1>4, <1>5 DEF TypeOK
<1>7. QED
  BY <1>5, <1>6 DEF TypeOK, QueueIntent, store, ticker

LEMMA FiniteIds == \A S \in SUBSET Id : IsFiniteSet(S)
<1>1. IsFiniteSet(1 .. MaxIntents)
  BY FS_Interval, ConstantsAssumption
<1>2. QED
  BY <1>1, FS_Subset DEF Id

LEMMA WritesType == Writes \in Nat
BY FiniteIds, FS_CardinalityType DEF Writes

LEMMA TypeStep == TypeOK /\ [Next]_vars => TypeOK'
<1> SUFFICES ASSUME TypeOK, [Next]_vars PROVE TypeOK'
  OBVIOUS
<1>1. ASSUME NEW m \in Model, Reconciled(m) PROVE TypeOK'
  BY <1>1 DEF Reconciled, TypeOK, store, ticker, Queued
<1>2. ASSUME NEW pair \in Staged, NEW rt \in Runtime, NEW ctx \in BOOLEAN,
             QueueIntent(pair[1], pair[2], rt, ctx)
      PROVE  TypeOK'
  BY <1>2, QueueIntentTypes
<1>3. CASE BeginTick
  BY <1>3 DEF BeginTick, TypeOK, store, Queued
<1>4. ASSUME NEW id \in Id, CommitOne(id) PROVE TypeOK'
  <2>1. id \in Queued /\ queue[id] \in StagingIntent
    BY <1>4, QueuedIntents DEF CommitOne, TypeOK
  <2>2. Committed(id) \in StagingIntent
    BY <2>1, IntentTypes DEF Committed
  <2>3. /\ queue' \in [Id -> StagingIntent \cup {NoIntent}]
        /\ queued' \in 0 .. MaxIntents
        /\ \A i \in Id : queue'[i] # NoIntent <=> i \in Queued'
    BY <1>4, <2>1, <2>2, ReplacedIntent DEF CommitOne
  <2>4. stamp' \in [Id -> Nat]
    BY <1>4, WritesType DEF CommitOne, TypeOK
  <2>5. entries' \subseteq Queued' /\ expired' \subseteq entries'
    BY <1>4, <2>1 DEF CommitOne, TypeOK, Room, Queued
  <2>6. committing' \subseteq Queued' /\ loading' \subseteq Queued'
    BY <1>4 DEF CommitOne, TypeOK, Queued
  <2>7. QED
    BY <1>4, <2>3, <2>4, <2>5, <2>6 DEF CommitOne, TypeOK, Queued
<1>5. CASE ReconcileReady
  <2>1. \A i \in Queued : [queue[i] EXCEPT !.state = "completed"] \in StagingIntent
    BY QueuedIntents, IntentTypes DEF StagingState
  <2>2. \A i \in Id : queue'[i] \in StagingIntent \cup {NoIntent}
    BY <1>5, <2>1 DEF ReconcileReady, TypeOK
  <2>3. \A i \in Id : queue'[i] # NoIntent <=> i \in Queued
    BY <1>5, <2>1, NoIntentAssumption DEF ReconcileReady, TypeOK
  <2>4. queue' \in [Id -> StagingIntent \cup {NoIntent}]
    BY <1>5, <2>2 DEF ReconcileReady
  <2>5. QED
    BY <1>5, <2>3, <2>4 DEF ReconcileReady, TypeOK, store, Queued
<1>6. CASE GetPending
  BY <1>6 DEF GetPending, TypeOK, store, Queued, PendingIds
<1>7. ASSUME NEW id \in Id, LoadNext(id) PROVE TypeOK'
  <2>1. inflight' \in {0} \cup Queued /\ loads' \in [Id -> Nat]
    BY <1>7 DEF LoadNext, TypeOK
  <2>2. QED
    BY <1>7, <2>1 DEF LoadNext, TypeOK, store, Queued
<1>8. CASE LoadAnswers
  <2>1. inflight \in Queued /\ queue[inflight] \in StagingIntent
    BY <1>8, QueuedIntents DEF LoadAnswers, TypeOK
  <2>2. PICK s \in Resolved(inflight) :
          queue' = [queue EXCEPT ![inflight] = [queue[inflight] EXCEPT !.state = s]]
    BY <1>8 DEF LoadAnswers
  <2>3. [queue[inflight] EXCEPT !.state = s] \in StagingIntent
    BY <2>1, IntentTypes DEF Resolved, StagingState
  <2>4. /\ queue' \in [Id -> StagingIntent \cup {NoIntent}]
        /\ queued' \in 0 .. MaxIntents
        /\ \A i \in Id : queue'[i] # NoIntent <=> i \in Queued'
    BY <1>8, <2>1, <2>2, <2>3, ReplacedIntent DEF LoadAnswers
  <2>5. QED
    BY <1>8, <2>4 DEF LoadAnswers, TypeOK, store, Queued
<1>9. CASE EndTick
  BY <1>9 DEF EndTick, TypeOK, store, Queued
<1>10. ASSUME NEW id \in Id, Expire(id) PROVE TypeOK'
  BY <1>10 DEF Expire, TypeOK, ticker, Queued
<1>11. ASSUME NEW c \in Caller, NEW m \in Model, TakeRef(c, m) PROVE TypeOK'
  <2>1. PICK id \in Queued :
          /\ RefTaken(id)
          /\ caller' = [caller EXCEPT ![c] = [at |-> "referred", id |-> id]]
    BY <1>11 DEF TakeRef
  <2>2. id \in Id /\ [queue[id] EXCEPT !.context_ref = FALSE] \in StagingIntent
    BY QueuedIntents, IntentTypes
  <2>3. /\ queue' \in [Id -> StagingIntent \cup {NoIntent}]
        /\ queued' \in 0 .. MaxIntents
        /\ \A i \in Id : queue'[i] # NoIntent <=> i \in Queued'
    BY <1>11, <2>1, <2>2, ReplacedIntent DEF TakeRef, RefTaken
  <2>4. [at |-> "referred", id |-> id] \in CallerState
    BY <2>2, ConstantsAssumption DEF CallerState, Id
  <2>5. /\ caller' \in [Caller -> CallerState]
        /\ \A d \in Caller : caller'[d].at # "idle" => caller'[d].id \in Queued
    BY <2>1, <2>4 DEF TypeOK
  <2>6. QED
    BY <1>11, <2>3, <2>5 DEF TakeRef, TypeOK, store, ticker, Queued
<1>12. ASSUME NEW c \in Caller, TakePayload(c) PROVE TypeOK'
  <2>1. caller[c].id \in Queued /\ caller[c].id \in 0 .. MaxIntents
    BY <1>12 DEF TakePayload, TypeOK, CallerState
  <2>2. /\ [at |-> "holding", id |-> caller[c].id] \in CallerState
        /\ IdleCaller \in CallerState
    BY <2>1, ConstantsAssumption DEF CallerState, IdleCaller
  <2>3. /\ caller' \in [Caller -> CallerState]
        /\ \A d \in Caller : caller'[d].at # "idle" => caller'[d].id \in Queued
    BY <1>12, <2>1, <2>2 DEF TakePayload, TypeOK, IdleCaller
  <2>4. QED
    BY <1>12, <2>3 DEF TakePayload, TypeOK, ticker, Queued
<1>13. ASSUME NEW c \in Caller, Handoff(c) \/ HandoffFails(c) PROVE TypeOK'
  <2>1. IdleCaller \in CallerState
    BY ConstantsAssumption DEF CallerState, IdleCaller
  <2>2. caller' = [caller EXCEPT ![c] = IdleCaller]
    BY <1>13 DEF Handoff, HandoffFails
  <2>3. /\ caller' \in [Caller -> CallerState]
        /\ \A d \in Caller : caller'[d].at # "idle" => caller'[d].id \in Queued
    BY <2>1, <2>2 DEF TypeOK, IdleCaller
  <2>4. handed' \in [Id -> Nat]
    BY <1>13 DEF Handoff, HandoffFails, TypeOK
  <2>5. QED
    BY <1>13, <2>3, <2>4 DEF Handoff, HandoffFails, TypeOK, store, ticker, Queued
<1>14. CASE UNCHANGED vars
  BY <1>14 DEF vars, TypeOK, store, ticker, Queued
<1>15. QED
  BY <1>1, <1>2, <1>3, <1>4, <1>5, <1>6, <1>7, <1>8, <1>9, <1>10, <1>11, <1>12, <1>13, <1>14
  DEF Next, TickStep

LEMMA TypeInit == Init => TypeOK
<1> SUFFICES ASSUME Init PROVE TypeOK
  OBVIOUS
<1>1. IdleCaller \in CallerState /\ 0 \in 0 .. MaxIntents
  BY ConstantsAssumption DEF CallerState, IdleCaller
<1>2. Queued = {}
  BY DEF Init, Queued
<1>3. QED
  BY <1>1, <1>2, ConstantsAssumption DEF Init, TypeOK, IdleCaller

\* Every reachable state is well typed.
THEOREM StagingTypeCorrect == Spec => []TypeOK
BY TypeInit, TypeStep, PTL DEF Spec

-----------------------------------------------------------------------------
(* Where a declared context is.                                            *)

\* While the tick is committing, an intent it has still to write has its payload; an
\* id that is not queued was never handed over.
PlaceInv ==
  /\ ContextInOnePlace
  /\ NoOrphanEntry
  /\ \A id \in committing : queue[id].pending_context
  /\ \A id \in Id \ Queued : handed[id] = 0

\* Steps that leave every context where it is.
LEMMA PlaceKept ==
  ASSUME TypeOK, PlaceInv,
         UNCHANGED <<queued, entries, committing, caller, handed>>,
         \A id \in Queued : /\ queue'[id].pending_context = queue[id].pending_context
                            /\ queue'[id].context_ref = queue[id].context_ref
  PROVE  PlaceInv'
<1>1. entries \subseteq Queued /\ committing \subseteq Queued
  BY DEF TypeOK
<1>2. QED
  BY <1>1 DEF PlaceInv, ContextInOnePlace, NoOrphanEntry, Holds, Queued

LEMMA QueueIntentPlace ==
  ASSUME TypeOK, PlaceInv, NEW pair \in Staged, NEW rt \in Runtime, NEW ctx \in BOOLEAN,
         QueueIntent(pair[1], pair[2], rt, ctx)
  PROVE  PlaceInv'
<1> DEFINE new == queued + 1
<1>0. new \in Id /\ queued' = new /\ queued \in Nat /\ MaxIntents \in Nat
  BY ConstantsAssumption DEF QueueIntent, TypeOK
<1>1. /\ new \in Id /\ new \notin Queued
      /\ Queued' = Queued \cup {new}
  BY <1>0 DEF Queued, Id
<1>2. /\ \A id \in Queued : queue'[id] = queue[id]
      /\ queue'[new].context_ref = FALSE
  BY <1>1 DEF QueueIntent, TypeOK
<1>3. /\ new \notin entries /\ handed[new] = 0
      /\ \A c \in Caller : ~Holds(c, new)
  BY <1>1 DEF TypeOK, PlaceInv, Holds
<1>4. /\ UNCHANGED <<entries, caller, handed>>
      /\ committing' = {}
  BY DEF QueueIntent, store, ticker
<1>5. entries \subseteq Queued
  BY DEF TypeOK
<1> HIDE DEF new
<1>6. ContextInOnePlace'
  BY <1>1, <1>2, <1>3, <1>4 DEF PlaceInv, ContextInOnePlace, Holds
<1>7. NoOrphanEntry'
  BY <1>1, <1>2, <1>4, <1>5 DEF PlaceInv, NoOrphanEntry
<1>8. QED
  BY <1>1, <1>4, <1>6, <1>7 DEF PlaceInv

LEMMA CommitOnePlace ==
  ASSUME TypeOK, PlaceInv, NEW id \in Id, CommitOne(id)
  PROVE  PlaceInv'
<1>1. /\ id \in Queued /\ queue[id] \in StagingIntent
      /\ queue[id].pending_context
  BY QueuedIntents DEF CommitOne, TypeOK, PlaceInv
<1>2. /\ queue'[id].context_ref = TRUE
      /\ queue'[id].pending_context = FALSE
      /\ \A i \in Queued \ {id} : queue'[i] = queue[i]
  BY <1>1 DEF CommitOne, Committed, TypeOK, StagingIntent
<1>3. /\ handed[id] = 0 /\ \A c \in Caller : ~Holds(c, id)
  BY <1>1 DEF PlaceInv, ContextInOnePlace
<1>4. /\ entries' \subseteq entries \cup {id}
      /\ UNCHANGED <<queued, caller, handed>>
      /\ Queued' = Queued
  BY DEF CommitOne, Room, Queued
<1>5. ContextInOnePlace'
  BY <1>1, <1>2, <1>3, <1>4 DEF PlaceInv, ContextInOnePlace, Holds
<1>6. NoOrphanEntry'
  BY <1>1, <1>2, <1>4 DEF PlaceInv, NoOrphanEntry, TypeOK
<1>7. committing' = committing \ {id} /\ committing \subseteq Queued
  BY DEF CommitOne, TypeOK
<1>8. QED
  BY <1>2, <1>4, <1>5, <1>6, <1>7 DEF PlaceInv

LEMMA TakeRefPlace ==
  ASSUME TypeOK, PlaceInv, NEW c \in Caller, NEW m \in Model, TakeRef(c, m)
  PROVE  PlaceInv'
<1>1. PICK id \in Queued :
        /\ Offers(id, m)
        /\ RefTaken(id)
        /\ caller' = [caller EXCEPT ![c] = [at |-> "referred", id |-> id]]
  BY DEF TakeRef
<1>2. /\ queue[id].context_ref
      /\ id \in Id /\ queue[id] \in StagingIntent
  BY <1>1, QueuedIntents DEF Offers
<1>3. /\ queue'[id].context_ref = FALSE
      /\ queue'[id].pending_context = queue[id].pending_context
      /\ \A i \in Queued \ {id} : queue'[i] = queue[i]
  BY <1>1, <1>2 DEF RefTaken, TypeOK, StagingIntent
<1>4. /\ handed[id] = 0 /\ ~queue[id].pending_context
      /\ \A d \in Caller : ~Holds(d, id)
  BY <1>2 DEF PlaceInv, ContextInOnePlace
<1>5. /\ UNCHANGED <<queued, entries, handed>>
      /\ committing = {} /\ committing' = {}
      /\ Queued' = Queued
  BY DEF TakeRef, store, ticker, Queued
<1>6. /\ caller'[c] = [at |-> "referred", id |-> id]
      /\ caller[c].at = "idle"
      /\ \A d \in Caller \ {c} : caller'[d] = caller[d]
  BY <1>1 DEF TakeRef, TypeOK
<1>7. ContextInOnePlace'
  <2> SUFFICES ASSUME NEW i \in Queued
               PROVE  /\ handed[i] <= 1
                      /\ queue'[i].pending_context =>
                           ~queue'[i].context_ref /\ i \notin entries
                      /\ queue'[i].pending_context \/ queue'[i].context_ref =>
                           handed[i] = 0 /\ \A d \in Caller : ~Holds(d, i)'
                      /\ \A d \in Caller : Holds(d, i)' =>
                           /\ handed[i] = 0
                           /\ caller'[d].at = "holding" => i \notin entries
                           /\ \A e \in Caller : Holds(e, i)' => e = d
    BY <1>5 DEF ContextInOnePlace, Holds
  <2>1. CASE i = id
    <3>1. \A d \in Caller : Holds(d, i)' => d = c
      BY <2>1, <1>4, <1>6 DEF Holds
    <3>2. QED
      BY <2>1, <3>1, <1>3, <1>4, <1>6
  <2>2. CASE i # id
    <3>1. \A d \in Caller : Holds(d, i)' => d # c /\ Holds(d, i)
      BY <2>2, <1>6 DEF Holds
    <3>2. QED
      BY <2>2, <3>1, <1>3, <1>6 DEF PlaceInv, ContextInOnePlace
  <2>3. QED
    BY <2>1, <2>2
<1>8. NoOrphanEntry'
  BY <1>3, <1>5, <1>6 DEF PlaceInv, NoOrphanEntry, TypeOK
<1>9. QED
  BY <1>5, <1>7, <1>8 DEF PlaceInv

LEMMA TakePayloadPlace ==
  ASSUME TypeOK, PlaceInv, NEW c \in Caller, TakePayload(c)
  PROVE  PlaceInv'
<1> DEFINE id == caller[c].id
<1>1. /\ id \in Queued /\ Holds(c, id)
      /\ handed[id] = 0 /\ ~queue[id].pending_context /\ ~queue[id].context_ref
      /\ \A d \in Caller : Holds(d, id) => d = c
  BY DEF TakePayload, TypeOK, PlaceInv, ContextInOnePlace, Holds
<1>2. /\ UNCHANGED <<queue, queued, handed, committing>>
      /\ entries' = entries \ {id}
      /\ Queued' = Queued
  BY DEF TakePayload, ticker, Queued
<1>3. /\ caller'[c] \in {IdleCaller, [at |-> "holding", id |-> id]}
      /\ \A d \in Caller \ {c} : caller'[d] = caller[d]
  BY DEF TakePayload, TypeOK
<1> HIDE DEF id
<1>4. \A d \in Caller, i \in Queued : Holds(d, i)' => Holds(d, i)
  BY <1>1, <1>3 DEF Holds, IdleCaller
<1>5. ContextInOnePlace'
  BY <1>1, <1>2, <1>3, <1>4 DEF PlaceInv, ContextInOnePlace, IdleCaller, Holds
<1>6. NoOrphanEntry'
  <2> SUFFICES ASSUME NEW i \in entries, i # id
               PROVE  \/ queue[i].context_ref
                      \/ \E d \in Caller : caller'[d] = [at |-> "referred", id |-> i]
    BY <1>2 DEF NoOrphanEntry
  <2>1. CASE queue[i].context_ref
    BY <2>1
  <2>2. CASE \E d \in Caller : caller[d] = [at |-> "referred", id |-> i]
    BY <2>2, <1>1, <1>3 DEF Holds
  <2>3. QED
    BY <2>1, <2>2 DEF PlaceInv, NoOrphanEntry
<1>7. QED
  BY <1>2, <1>5, <1>6 DEF PlaceInv

LEMMA HandoffPlace ==
  ASSUME TypeOK, PlaceInv, NEW c \in Caller, Handoff(c) \/ HandoffFails(c)
  PROVE  PlaceInv'
<1> DEFINE id == caller[c].id
<1>1. /\ id \in Queued /\ Holds(c, id)
      /\ handed[id] = 0 /\ ~queue[id].pending_context /\ ~queue[id].context_ref
      /\ \A d \in Caller : Holds(d, id) => d = c
  BY DEF Handoff, HandoffFails, TypeOK, PlaceInv, ContextInOnePlace, Holds
<1>2. /\ UNCHANGED <<queue, queued, entries, committing>>
      /\ Queued' = Queued
  BY DEF Handoff, HandoffFails, store, ticker, Queued
<1>3. /\ caller'[c] = IdleCaller /\ caller[c].at = "holding"
      /\ \A d \in Caller \ {c} : caller'[d] = caller[d]
  BY DEF Handoff, HandoffFails, TypeOK
<1>4. /\ handed'[id] \in {0, 1}
      /\ \A i \in Id \ {id} : handed'[i] = handed[i]
  BY <1>1 DEF Handoff, HandoffFails, TypeOK
<1>5. Queued \subseteq Id
  BY QueuedIntents
<1> HIDE DEF id
<1>6. \A d \in Caller, i \in Queued : Holds(d, i)' => Holds(d, i) /\ i # id
  BY <1>1, <1>3 DEF Holds, IdleCaller
<1>7. ContextInOnePlace'
  <2> SUFFICES ASSUME NEW i \in Queued
               PROVE  /\ handed'[i] <= 1
                      /\ queue[i].pending_context =>
                           ~queue[i].context_ref /\ i \notin entries
                      /\ queue[i].pending_context \/ queue[i].context_ref =>
                           handed'[i] = 0 /\ \A d \in Caller : ~Holds(d, i)'
                      /\ \A d \in Caller : Holds(d, i)' =>
                           /\ handed'[i] = 0
                           /\ caller'[d].at = "holding" => i \notin entries
                           /\ \A e \in Caller : Holds(e, i)' => e = d
    BY <1>2 DEF ContextInOnePlace, Holds
  <2>1. CASE i = id
    BY <2>1, <1>1, <1>4, <1>6
  <2>2. CASE i # id
    <3>1. /\ handed'[i] = handed[i]
          /\ \A d \in Caller : Holds(d, i)' => caller'[d] = caller[d]
      BY <2>2, <1>3, <1>4, <1>5 DEF Holds, IdleCaller
    <3>2. QED
      BY <3>1, <1>6 DEF PlaceInv, ContextInOnePlace
  <2>3. QED
    BY <2>1, <2>2
<1>8. NoOrphanEntry'
  BY <1>2, <1>3 DEF PlaceInv, NoOrphanEntry
<1>9. \A i \in Id \ Queued : handed'[i] = 0
  BY <1>1, <1>4 DEF PlaceInv
<1>10. QED
  BY <1>2, <1>7, <1>8, <1>9 DEF PlaceInv

LEMMA PlaceStep == TypeOK /\ PlaceInv /\ [Next]_vars => PlaceInv'
<1> SUFFICES ASSUME TypeOK, PlaceInv, [Next]_vars PROVE PlaceInv'
  OBVIOUS
<1>1. ASSUME \/ \E m \in Model : Reconciled(m)
             \/ GetPending \/ EndTick
             \/ \E id \in Id : LoadNext(id) \/ Expire(id)
             \/ UNCHANGED vars
      PROVE  PlaceInv'
  <2>1. UNCHANGED <<queue, queued, entries, committing, caller, handed>>
    BY <1>1 DEF Reconciled, GetPending, EndTick, LoadNext, Expire, vars, store, ticker
  <2>2. QED
    BY <2>1, PlaceKept
<1>2. CASE BeginTick
  <2>1. committing' \subseteq Queued /\ \A id \in committing' : queue[id].pending_context
    BY <1>2 DEF BeginTick, Commits
  <2>2. UNCHANGED <<queue, queued, entries, caller, handed>>
    BY <1>2 DEF BeginTick, store
  <2>3. QED
    BY <2>1, <2>2 DEF PlaceInv, ContextInOnePlace, NoOrphanEntry, Holds, Queued
<1>3. CASE ReconcileReady
  <2>1. \A id \in Queued : queue[id] \in StagingIntent /\ id \in Id
    BY QueuedIntents
  <2>2. \A id \in Queued :
          /\ queue'[id].pending_context = queue[id].pending_context
          /\ queue'[id].context_ref = queue[id].context_ref
    BY <1>3, <2>1 DEF ReconcileReady, StagingIntent
  <2>3. UNCHANGED <<queued, entries, committing, caller, handed>>
    BY <1>3 DEF ReconcileReady, store
  <2>4. QED
    BY <2>2, <2>3, PlaceKept
<1>4. CASE LoadAnswers
  <2>1. inflight \in Queued /\ queue[inflight] \in StagingIntent
    BY <1>4, QueuedIntents DEF LoadAnswers, TypeOK
  <2>2. \A id \in Queued :
          /\ queue'[id].pending_context = queue[id].pending_context
          /\ queue'[id].context_ref = queue[id].context_ref
    BY <1>4, <2>1, QueuedIntents DEF LoadAnswers, TypeOK, StagingIntent
  <2>3. UNCHANGED <<queued, entries, committing, caller, handed>>
    BY <1>4 DEF LoadAnswers, store
  <2>4. QED
    BY <2>2, <2>3, PlaceKept
<1>5. QED
  BY <1>1, <1>2, <1>3, <1>4, QueueIntentPlace, CommitOnePlace, TakeRefPlace,
     TakePayloadPlace, HandoffPlace
  DEF Next, TickStep

LEMMA PlaceInit == Init => PlaceInv
<1> SUFFICES ASSUME Init PROVE PlaceInv
  OBVIOUS
<1>1. Queued = {}
  BY DEF Init, Queued
<1>2. QED
  BY <1>1 DEF Init, PlaceInv, ContextInOnePlace, NoOrphanEntry

\* For any number of handlers racing with the tick, a declared context is in one place
\* at a time and handed off at most once, and no entry of the cache is out of reach.
THEOREM ContextSafe == Spec => [](ContextInOnePlace /\ NoOrphanEntry)
<1>1. Spec => []PlaceInv
  BY PlaceInit, PlaceStep, StagingTypeCorrect, PTL DEF Spec
<1>2. PlaceInv => ContextInOnePlace /\ NoOrphanEntry
  BY DEF PlaceInv
<1>3. QED
  BY <1>1, <1>2, PTL

\* Every entry of the cache is one an intent refers to or a caller is about to take: none
\* is left behind where nobody can reach it (take_escalation_context).
THEOREM NoOrphanSafe == Spec => []NoOrphanEntry
BY ContextSafe, PTL

-----------------------------------------------------------------------------
(* Which intents the tick may still load.                                  *)

\* The pending list of a tick names pending intents no load was tried for; the one
\* being loaded is pending and no longer on the list; other pending intents wait for
\* their first load.
LoadInv ==
  /\ tick # "loading" => loading = {} /\ inflight = 0
  /\ \A id \in loading : queue[id].state = "pending"
  /\ inflight # 0 => queue[inflight].state = "pending" /\ inflight \notin loading
  /\ \A id \in Queued : queue[id].state = "pending" /\ id # inflight => loads[id] = 0
  /\ \A id \in Id \ Queued : loads[id] = 0
  /\ LoadedAtMostOnce

\* Steps that neither load nor settle an intent.
LEMMA LoadKept ==
  ASSUME TypeOK, LoadInv,
         UNCHANGED <<live, queued, tick, loading, inflight, loads>>,
         \A id \in Queued : /\ queue'[id].state = queue[id].state
                            /\ queue'[id].target_runtime = queue[id].target_runtime
  PROVE  LoadInv'
<1>1. loading \subseteq Queued /\ (inflight # 0 => inflight \in Queued)
  BY DEF TypeOK
<1>2. QED
  BY <1>1 DEF LoadInv, LoadedAtMostOnce, Queued, Runnable

LEMMA QueueIntentLoads ==
  ASSUME TypeOK, LoadInv, NEW pair \in Staged, NEW rt \in Runtime, NEW ctx \in BOOLEAN,
         QueueIntent(pair[1], pair[2], rt, ctx)
  PROVE  LoadInv'
<1> DEFINE new == queued + 1
<1>0. new \in Id /\ queued' = new /\ queued \in Nat /\ MaxIntents \in Nat
  BY ConstantsAssumption DEF QueueIntent, TypeOK
<1>1. /\ new \in Id /\ new \notin Queued
      /\ Queued' = Queued \cup {new}
  BY <1>0 DEF Queued, Id
<1>2. \A id \in Queued : queue'[id] = queue[id]
  BY <1>1 DEF QueueIntent, TypeOK
<1>3. /\ loads[new] = 0
      /\ loading \subseteq Queued /\ (inflight # 0 => inflight \in Queued)
  BY <1>1 DEF LoadInv, TypeOK
<1>4. UNCHANGED <<live, tick, loading, inflight, loads>>
  BY DEF QueueIntent, ticker
<1> HIDE DEF new
<1>5. LoadedAtMostOnce'
  BY <1>1, <1>2, <1>3, <1>4 DEF LoadInv, LoadedAtMostOnce, Runnable
<1>6. QED
  BY <1>1, <1>2, <1>3, <1>4, <1>5 DEF LoadInv

LEMMA ReconcileReadyLoads ==
  ASSUME TypeOK, LoadInv, ReconcileReady
  PROVE  LoadInv'
<1>1. \A id \in Queued :
        /\ queue'[id].state \in {queue[id].state, "completed"}
        /\ queue'[id].target_runtime = queue[id].target_runtime
  BY QueuedIntents DEF ReconcileReady, StagingIntent
<1>2. /\ loading = {} /\ inflight = 0
      /\ UNCHANGED <<live, queued, loading, inflight, loads>>
      /\ Queued' = Queued
  BY DEF LoadInv, ReconcileReady, Queued
<1>3. LoadedAtMostOnce'
  BY <1>1, <1>2 DEF LoadInv, LoadedAtMostOnce, Runnable
<1>4. QED
  BY <1>1, <1>2, <1>3 DEF LoadInv

LEMMA LoadNextLoads ==
  ASSUME TypeOK, LoadInv, NEW id \in Id, LoadNext(id)
  PROVE  LoadInv'
<1>0. id \in Queued /\ inflight = 0 /\ \A i \in Queued : i # 0
  BY DEF LoadNext, TypeOK, Queued
<1>1. /\ id \in Queued /\ queue[id].state = "pending" /\ loads[id] = 0
      /\ inflight = 0
  BY <1>0 DEF LoadNext, LoadInv
<1>2. /\ UNCHANGED <<live, queue, queued, tick>>
      /\ loading' = loading \ {id}
      /\ Queued' = Queued
  BY DEF LoadNext, Queued
<1>3. \/ inflight' = 0 /\ loads' = loads
      \/ /\ inflight' = id
         /\ Runnable(queue[id].target_runtime)
         /\ loads'[id] = 1
         /\ \A i \in Id \ {id} : loads'[i] = loads[i]
  BY <1>1 DEF LoadNext, TypeOK
<1>4. Queued \subseteq Id
  BY QueuedIntents
<1>5. LoadedAtMostOnce'
  BY <1>1, <1>2, <1>3, <1>4 DEF LoadInv, LoadedAtMostOnce, Runnable
<1>6. \A i \in Queued : queue[i].state = "pending" /\ i # inflight' => loads'[i] = 0
  BY <1>0, <1>1, <1>3, <1>4 DEF LoadInv
<1>7. \A i \in Id \ Queued : loads'[i] = 0
  BY <1>0, <1>3 DEF LoadInv
<1>8. /\ tick' = "loading"
      /\ \A i \in loading' : queue[i].state = "pending"
      /\ inflight' # 0 => queue[inflight'].state = "pending" /\ inflight' \notin loading'
  BY <1>1, <1>2, <1>3 DEF LoadInv, LoadNext
<1>9. QED
  BY <1>2, <1>5, <1>6, <1>7, <1>8 DEF LoadInv

LEMMA LoadAnswersLoads ==
  ASSUME TypeOK, LoadInv, LoadAnswers
  PROVE  LoadInv'
<1>1. inflight \in Queued /\ queue[inflight] \in StagingIntent /\ inflight \in Id
  BY QueuedIntents DEF LoadAnswers, TypeOK
<1>2. /\ queue'[inflight].state \in Terminal
      /\ queue'[inflight].target_runtime = queue[inflight].target_runtime
      /\ \A i \in Queued \ {inflight} : queue'[i] = queue[i]
  BY <1>1 DEF LoadAnswers, Resolved, Terminal, TypeOK, StagingIntent
<1>3. /\ UNCHANGED <<live, queued, tick, loading, loads>>
      /\ inflight' = 0 /\ inflight # 0
      /\ Queued' = Queued
  BY DEF LoadAnswers, Queued
<1>4. loading \subseteq Queued \ {inflight} /\ tick = "loading"
  BY <1>3 DEF LoadInv, TypeOK
<1>5. LoadedAtMostOnce'
  BY <1>1, <1>2, <1>3 DEF LoadInv, LoadedAtMostOnce, Runnable
<1>6. QED
  BY <1>2, <1>3, <1>4, <1>5 DEF LoadInv, Terminal

LEMMA LoadStep == TypeOK /\ LoadInv /\ [Next]_vars => LoadInv'
<1> SUFFICES ASSUME TypeOK, LoadInv, [Next]_vars PROVE LoadInv'
  OBVIOUS
<1>1. ASSUME \/ \E m \in Model : Reconciled(m)
             \/ \E id \in Id : Expire(id)
             \/ \E c \in Caller : TakePayload(c) \/ Handoff(c) \/ HandoffFails(c)
             \/ UNCHANGED vars
      PROVE  LoadInv'
  <2>1. UNCHANGED <<live, queue, queued, tick, loading, inflight, loads>>
    BY <1>1 DEF Reconciled, Expire, TakePayload, Handoff, HandoffFails, vars, ticker
  <2>2. QED
    BY <2>1, LoadKept
<1>2. CASE BeginTick
  BY <1>2 DEF BeginTick, LoadInv, LoadedAtMostOnce, Queued, Runnable
<1>3. ASSUME NEW id \in Id, CommitOne(id) PROVE LoadInv'
  <2>1. id \in Queued /\ queue[id] \in StagingIntent
    BY <1>3, QueuedIntents DEF CommitOne, TypeOK
  <2>2. \A i \in Queued : /\ queue'[i].state = queue[i].state
                          /\ queue'[i].target_runtime = queue[i].target_runtime
    BY <1>3, <2>1, QueuedIntents DEF CommitOne, Committed, TypeOK, StagingIntent
  <2>3. QED
    BY <1>3, <2>2, LoadKept DEF CommitOne
<1>4. ASSUME NEW c \in Caller, NEW m \in Model, TakeRef(c, m) PROVE LoadInv'
  <2>1. PICK id \in Queued : RefTaken(id)
    BY <1>4 DEF TakeRef
  <2>2. \A i \in Queued : /\ queue'[i].state = queue[i].state
                          /\ queue'[i].target_runtime = queue[i].target_runtime
    BY <2>1, QueuedIntents DEF RefTaken, TypeOK, StagingIntent
  <2>3. QED
    BY <1>4, <2>2, LoadKept DEF TakeRef, ticker
<1>5. CASE GetPending
  <2>1. /\ inflight = 0 /\ inflight' = 0
        /\ loading' = PendingIds
        /\ tick' = "loading"
        /\ UNCHANGED <<live, queue, queued, loads>>
    BY <1>5 DEF GetPending, LoadInv
  <2>2. QED
    BY <2>1 DEF LoadInv, LoadedAtMostOnce, PendingIds, Queued, Runnable
<1>6. CASE EndTick
  <2>1. /\ loading = {} /\ inflight = 0
        /\ UNCHANGED <<live, queue, queued, loading, inflight, loads>>
    BY <1>6 DEF EndTick
  <2>2. QED
    BY <2>1 DEF LoadInv, LoadedAtMostOnce, Queued, Runnable
<1>7. QED
  BY <1>1, <1>2, <1>3, <1>4, <1>5, <1>6, QueueIntentLoads, ReconcileReadyLoads,
     LoadNextLoads, LoadAnswersLoads
  DEF Next, TickStep

LEMMA LoadInit == Init => LoadInv
<1> SUFFICES ASSUME Init PROVE LoadInv
  OBVIOUS
<1>1. Queued = {}
  BY DEF Init, Queued
<1>2. QED
  BY <1>1 DEF Init, LoadInv, LoadedAtMostOnce

LEMMA LoadsCorrect == Spec => []LoadInv
BY LoadInit, LoadStep, StagingTypeCorrect, PTL DEF Spec

\* Whatever is queued or reported while loads are awaited, the tick tries a load at most
\* once per intent, and only on a runtime that is runnable.
THEOREM LoadedOnceSafe == Spec => []LoadedAtMostOnce
<1>1. LoadInv => LoadedAtMostOnce
  BY DEF LoadInv
<1>2. QED
  BY <1>1, LoadsCorrect, PTL

\* An intent that failed or completed never leaves that state: a late answer always
\* finds its intent pending.
THEOREM TerminalSafe == Spec => TerminalForGood
<1>1. TypeOK /\ LoadInv /\ [Next]_vars =>
        [\A id \in Queued :
           queue[id].state \in Terminal => queue'[id].state = queue[id].state]_vars
  <2> SUFFICES ASSUME TypeOK, LoadInv, Next, NEW id \in Queued,
                      queue[id].state \in Terminal
               PROVE  queue'[id].state = queue[id].state
    OBVIOUS
  <2>0. id \in Id /\ queue[id] \in StagingIntent
    BY QueuedIntents
  <2>1. ASSUME \/ \E m \in Model : Reconciled(m)
               \/ BeginTick \/ GetPending \/ EndTick
               \/ \E i \in Id : LoadNext(i) \/ Expire(i)
               \/ \E c \in Caller : TakePayload(c) \/ Handoff(c) \/ HandoffFails(c)
        PROVE  queue' = queue
    BY <2>1 DEF Reconciled, BeginTick, GetPending, EndTick, LoadNext, Expire, TakePayload,
                Handoff, HandoffFails
  <2>2. ASSUME NEW pair \in Staged, NEW rt \in Runtime, NEW ctx \in BOOLEAN,
               QueueIntent(pair[1], pair[2], rt, ctx)
        PROVE  queue'[id] = queue[id]
    <3>1. queued \in Nat /\ id # queued + 1
      BY DEF TypeOK, Queued
    <3>2. QED
      BY <2>0, <2>2, <3>1 DEF QueueIntent, TypeOK
  <2>3. ASSUME NEW i \in Id, CommitOne(i) PROVE queue'[id].state = queue[id].state
    BY <2>0, <2>3 DEF CommitOne, Committed, TypeOK, StagingIntent
  <2>4. ASSUME NEW c \in Caller, NEW m \in Model, TakeRef(c, m)
        PROVE  queue'[id].state = queue[id].state
    BY <2>0, <2>4 DEF TakeRef, RefTaken, TypeOK, StagingIntent
  <2>5. CASE ReconcileReady
    BY <2>0, <2>5 DEF ReconcileReady, Completes, Terminal
  <2>6. CASE LoadAnswers
    <3>1. id # inflight
      BY <2>6 DEF LoadAnswers, LoadInv, Terminal
    <3>2. QED
      BY <2>0, <2>6, <3>1 DEF LoadAnswers, TypeOK
  <2>7. QED
    BY <2>1, <2>2, <2>3, <2>4, <2>5, <2>6 DEF Next, TickStep
<1>2. QED
  BY <1>1, LoadsCorrect, StagingTypeCorrect, PTL DEF Spec, TerminalForGood

-----------------------------------------------------------------------------
(* The order and the number of the cache's entries.                        *)

\* Every write has a stamp of its own, at most the number of writes; a payload that is
\* still with its intent was never written, and neither was an id not queued yet.
StampInv ==
  /\ \A i, j \in Id : stamp[i] = stamp[j] /\ stamp[i] # 0 => i = j
  /\ \A i \in Id : stamp[i] <= Writes
  /\ \A i \in entries : stamp[i] # 0
  /\ \A i \in Queued : queue[i].pending_context => stamp[i] = 0
  /\ \A i \in Id \ Queued : stamp[i] = 0
  /\ CacheBounded

\* A set of numbers that is not empty has a least one.
LEMMA LeastNumber ==
  ASSUME NEW T \in SUBSET Nat, T # {}
  PROVE  \E n \in T : \A m \in T : n <= m
<1>1. PICK n \in T : \A m \in T : <<m, n>> \notin OpToRel(<, Nat)
  BY NatLessThanWellFounded, WFMin
<1>2. \A m \in T : ~(m < n)
  BY <1>1 DEF OpToRel
<1>3. QED
  BY <1>2

\* Room leaves room for one more: the oldest entry it keeps has fewer than Capacity - 1
\* newer ones in S, and all the others it keeps are among them.
LEMMA RoomBound ==
  ASSUME TypeOK, StampInv, NEW S \in SUBSET entries
  PROVE  IsFiniteSet(Room(S)) /\ Cardinality(Room(S)) < Capacity
<1> DEFINE K == Room(S)
           newer(i) == {j \in S : stamp[j] > stamp[i]}
<1>1. /\ entries \subseteq Id /\ S \subseteq Id /\ K \subseteq S
      /\ Capacity \in Nat /\ Capacity > 0
      /\ \A i \in Id : stamp[i] \in Nat
  BY QueuedIntents, ConstantsAssumption DEF TypeOK, Room
<1>2. IsFiniteSet(K) /\ Cardinality(K) \in Nat
  BY <1>1, FiniteIds, FS_CardinalityType
<1>3. CASE K = {}
  BY <1>1, <1>2, <1>3, FS_EmptySet
<1>4. CASE K # {}
  <2> DEFINE T == {stamp[i] : i \in K}
  <2>1. T \in SUBSET Nat /\ T # {}
    BY <1>1, <1>4
  <2>2. PICK n \in T : \A m \in T : n <= m
    BY <2>1, LeastNumber
  <2>3. PICK old \in K : \A i \in K : stamp[old] <= stamp[i]
    BY <2>2
  <2>4. \A i \in K \ {old} : stamp[i] > stamp[old]
    BY <1>1, <2>3 DEF StampInv
  <2>5. K \ {old} \subseteq newer(old)
    BY <1>1, <2>4
  <2>6. IsFiniteSet(newer(old)) /\ Cardinality(newer(old)) \in Nat
    BY <1>1, FiniteIds, FS_CardinalityType
  <2>7. Cardinality(newer(old)) < Capacity - 1
    BY <2>3 DEF Room
  <2>8. Cardinality(K \ {old}) <= Cardinality(newer(old))
    BY <2>5, <2>6, FS_Subset
  <2>9. Cardinality(K \ {old}) = Cardinality(K) - 1
    BY <1>2, <2>3, FS_RemoveElement
  <2>10. Cardinality(K) < Capacity
    BY <1>1, <1>2, <2>6, <2>7, <2>8, <2>9
  <2>11. QED
    BY <1>2, <2>10
<1>5. QED
  BY <1>3, <1>4

\* Steps that write nothing to the cache.
LEMMA StampKept ==
  ASSUME TypeOK, StampInv, stamp' = stamp, queued' = queued, entries' \subseteq entries,
         \A i \in Queued : queue'[i].pending_context => queue[i].pending_context
  PROVE  StampInv'
<1>1. entries \subseteq Id
  BY QueuedIntents DEF TypeOK
<1>2. Cardinality(entries') <= Cardinality(entries)
  BY <1>1, FiniteIds, FS_Subset
<1>3. Cardinality(entries') \in Nat /\ Cardinality(entries) \in Nat /\ Capacity \in Nat
  BY <1>1, FiniteIds, FS_CardinalityType, ConstantsAssumption
<1>4. Writes' = Writes /\ Queued' = Queued
  BY DEF Writes, Queued
<1>5. CacheBounded'
  BY <1>2, <1>3 DEF StampInv, CacheBounded
<1>6. QED
  BY <1>4, <1>5 DEF StampInv

LEMMA CommitOneStamps ==
  ASSUME TypeOK, PlaceInv, StampInv, NEW id \in Id, CommitOne(id)
  PROVE  StampInv'
<1>1. /\ id \in Queued /\ queue[id] \in StagingIntent
      /\ stamp[id] = 0
  BY QueuedIntents DEF CommitOne, TypeOK, PlaceInv, StampInv
<1>2. /\ stamp' = [stamp EXCEPT ![id] = Writes + 1]
      /\ stamp'[id] = Writes + 1
      /\ \A i \in Id \ {id} : stamp'[i] = stamp[i]
      /\ Writes \in Nat
      /\ \A i \in Id : stamp[i] \in Nat
  BY WritesType DEF CommitOne, TypeOK
<1>3. Writes' = Writes + 1
  <2> DEFINE W == {i \in Id : stamp[i] # 0}
  <2>1. IsFiniteSet(W) /\ id \notin W
    BY <1>1, FiniteIds
  <2>2. {i \in Id : stamp'[i] # 0} = W \cup {id}
    BY <1>2
  <2>3. Cardinality(W \cup {id}) = Cardinality(W) + 1
    BY <2>1, FS_AddElement
  <2>4. QED
    BY <2>2, <2>3 DEF Writes
<1>4. \A i, j \in Id : stamp'[i] = stamp'[j] /\ stamp'[i] # 0 => i = j
  BY <1>2 DEF StampInv
<1>5. \A i \in Id : stamp'[i] <= Writes'
  BY <1>2, <1>3 DEF StampInv
<1>6. entries' = Room(entries \ expired) \cup {id} /\ entries \subseteq Id
  BY QueuedIntents DEF CommitOne, TypeOK
<1>7. \A i \in entries' : stamp'[i] # 0
  BY <1>2, <1>6 DEF StampInv, Room
<1>8. /\ queue'[id].pending_context = FALSE
      /\ \A i \in Queued \ {id} : queue'[i] = queue[i]
      /\ Queued' = Queued
  BY <1>1 DEF CommitOne, Committed, TypeOK, StagingIntent, Queued
<1>9. CacheBounded'
  <2>1. /\ IsFiniteSet(Room(entries \ expired))
        /\ Cardinality(Room(entries \ expired)) < Capacity
    BY RoomBound
  <2>2. Cardinality(Room(entries \ expired)) \in Nat /\ Capacity \in Nat
    BY <2>1, FS_CardinalityType, ConstantsAssumption
  <2>3. Cardinality(entries') <= Cardinality(Room(entries \ expired)) + 1
    <3> DEFINE K == Room(entries \ expired)
    <3>1. IsFiniteSet(K) /\ Cardinality(K) \in Nat
      BY <2>1, <2>2
    <3> HIDE DEF K
    <3>2. Cardinality(K \cup {id}) = IF id \in K THEN Cardinality(K) ELSE Cardinality(K) + 1
      BY <3>1, FS_AddElement
    <3>3. Cardinality(K \cup {id}) <= Cardinality(K) + 1
      BY <3>1, <3>2
    <3>4. QED
      BY <1>6, <3>3 DEF K
  <2>4. Cardinality(entries') \in Nat
    BY <1>6, <2>1, FS_AddElement, FS_CardinalityType
  <2>5. QED
    BY <2>1, <2>2, <2>3, <2>4 DEF CacheBounded
<1>10. Queued \subseteq Id
  BY QueuedIntents
<1>11. QED
  BY <1>1, <1>2, <1>4, <1>5, <1>7, <1>8, <1>9, <1>10 DEF StampInv

LEMMA StampStep == TypeOK /\ PlaceInv /\ StampInv /\ [Next]_vars => StampInv'
<1> SUFFICES ASSUME TypeOK, PlaceInv, StampInv, [Next]_vars PROVE StampInv'
  OBVIOUS
<1>1. ASSUME \/ \E m \in Model : Reconciled(m)
             \/ BeginTick \/ GetPending \/ EndTick
             \/ \E id \in Id : LoadNext(id) \/ Expire(id)
             \/ \E c \in Caller : TakePayload(c) \/ Handoff(c) \/ HandoffFails(c)
             \/ UNCHANGED vars
      PROVE  StampInv'
  <2>1. UNCHANGED <<queue, queued, stamp>> /\ entries' \subseteq entries
    BY <1>1 DEF Reconciled, BeginTick, GetPending, EndTick, LoadNext, Expire, TakePayload,
                Handoff, HandoffFails, vars, store
  <2>2. QED
    BY <2>1, StampKept
<1>2. ASSUME NEW pair \in Staged, NEW rt \in Runtime, NEW ctx \in BOOLEAN,
             QueueIntent(pair[1], pair[2], rt, ctx)
      PROVE  StampInv'
  <2> DEFINE new == queued + 1
  <2>0. new \in Id /\ queued' = new /\ queued \in Nat
    BY <1>2 DEF QueueIntent, TypeOK
  <2>1. new \notin Queued /\ Queued' = Queued \cup {new}
    BY <2>0 DEF Queued
  <2>2. /\ \A i \in Queued : queue'[i] = queue[i]
        /\ stamp[new] = 0
    BY <1>2, <2>0, <2>1 DEF QueueIntent, TypeOK, StampInv
  <2>3. UNCHANGED <<stamp, entries>> /\ Writes' = Writes
    BY <1>2 DEF QueueIntent, store, Writes
  <2> HIDE DEF new
  <2>4. QED
    BY <2>1, <2>2, <2>3 DEF StampInv, CacheBounded
<1>3. ASSUME NEW c \in Caller, NEW m \in Model, TakeRef(c, m) PROVE StampInv'
  <2>1. PICK id \in Queued : RefTaken(id)
    BY <1>3 DEF TakeRef
  <2>2. \A i \in Queued : queue'[i].pending_context = queue[i].pending_context
    BY <2>1, QueuedIntents DEF RefTaken, TypeOK, StagingIntent
  <2>3. QED
    BY <1>3, <2>2, StampKept DEF TakeRef, store
<1>4. CASE ReconcileReady
  <2>1. \A i \in Queued : queue'[i].pending_context = queue[i].pending_context
    BY <1>4, QueuedIntents DEF ReconcileReady, StagingIntent
  <2>2. QED
    BY <1>4, <2>1, StampKept DEF ReconcileReady, store
<1>5. CASE LoadAnswers
  <2>1. inflight \in Queued
    BY <1>5 DEF LoadAnswers, TypeOK
  <2>2. \A i \in Queued : queue'[i].pending_context = queue[i].pending_context
    BY <1>5, <2>1, QueuedIntents DEF LoadAnswers, TypeOK, StagingIntent
  <2>3. QED
    BY <1>5, <2>2, StampKept DEF LoadAnswers, store
<1>6. QED
  BY <1>1, <1>2, <1>3, <1>4, <1>5, CommitOneStamps DEF Next, TickStep

LEMMA StampInit == Init => StampInv
<1> SUFFICES ASSUME Init PROVE StampInv
  OBVIOUS
<1>1. Queued = {} /\ Writes \in Nat /\ Capacity \in Nat
  BY WritesType, ConstantsAssumption DEF Init, Queued
<1>2. CacheBounded
  BY <1>1, FS_EmptySet DEF Init, CacheBounded
<1>3. QED
  BY <1>1, <1>2 DEF Init, StampInv

LEMMA StampsCorrect == Spec => [](TypeOK /\ PlaceInv /\ StampInv)
BY StampInit, StampStep, PlaceInit, PlaceStep, StagingTypeCorrect, PTL DEF Spec

\* The cache never holds more entries than its capacity.
THEOREM CacheBoundedSafe == Spec => []CacheBounded
<1>1. StampInv => CacheBounded
  BY DEF StampInv
<1>2. QED
  BY <1>1, StampsCorrect, PTL

\* A live entry that is dropped, and not taken, was older than every live one that stays.
THEOREM OldestDroppedSafe == Spec => OldestDropped
<1>1. TypeOK /\ PlaceInv /\ StampInv /\ [Next]_vars =>
        [\A i \in entries \ expired, j \in entries \cap entries' :
           i \notin entries' /\ (\A c \in Caller : ~Holds(c, i)) => stamp[i] < stamp[j]]_vars
  <2> SUFFICES ASSUME TypeOK, PlaceInv, StampInv, Next,
                      NEW i \in entries \ expired, NEW j \in entries \cap entries',
                      i \notin entries', \A c \in Caller : ~Holds(c, i)
               PROVE  stamp[i] < stamp[j]
    OBVIOUS
  <2>1. PICK id \in Id : CommitOne(id)
    <3>1. ASSUME NEW c \in Caller, TakePayload(c) PROVE FALSE
      BY <3>1 DEF TakePayload, Holds
    <3>2. QED
      BY <3>1 DEF Next, TickStep, Reconciled, QueueIntent, BeginTick, ReconcileReady,
                  GetPending, LoadNext, LoadAnswers, EndTick, Expire, TakeRef, Handoff,
                  HandoffFails, store
  <2> DEFINE S == entries \ expired
             newer(k) == {l \in S : stamp[l] > stamp[k]}
  <2>2. id \notin entries
    BY <2>1 DEF CommitOne, PlaceInv, ContextInOnePlace, TypeOK
  <2>3. j \in Room(S) /\ i \in S /\ i \notin Room(S)
    BY <2>1, <2>2 DEF CommitOne
  <2>4. ~(Cardinality(newer(i)) < Capacity - 1) /\ Cardinality(newer(j)) < Capacity - 1
    BY <2>3 DEF Room
  <2>5. S \subseteq Id /\ i \in Id /\ j \in Id /\ \A k \in Id : stamp[k] \in Nat
    BY QueuedIntents DEF TypeOK
  <2>6. ASSUME ~(stamp[i] < stamp[j]) PROVE FALSE
    <3>1. newer(i) \subseteq newer(j)
      BY <2>5, <2>6
    <3>2. /\ IsFiniteSet(newer(i)) /\ Cardinality(newer(i)) \in Nat
          /\ IsFiniteSet(newer(j)) /\ Cardinality(newer(j)) \in Nat
      BY <2>5, FiniteIds, FS_CardinalityType
    <3>3. Cardinality(newer(i)) <= Cardinality(newer(j))
      BY <3>1, <3>2, FS_Subset
    <3>4. QED
      BY <2>4, <3>2, <3>3, ConstantsAssumption
  <2>7. QED
    BY <2>6
<1>2. QED
  BY <1>1, StampsCorrect, PTL DEF Spec, OldestDropped
=============================================================================
