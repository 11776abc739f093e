------------------------------- MODULE Daemon -------------------------------
(***************************************************************************)
(* The daemon around the scheduler (crates/anemoi-daemon/src/lib.rs):      *)
(* AppState::decide, the /decide and /execute handlers, the OpenAI-        *)
(* compatible gateway, the loads of the staging tick, and the planning and *)
(* execution of evictions, all against an operator who edits the           *)
(* configuration between any two of their steps.                           *)
(*                                                                         *)
(* What the reconciliation cache returns at a read is any member of World: *)
(* module Reconciler says how it comes about, module Staging what else the *)
(* staging tick does, module Governance which overrides an edit leaves.    *)
(* A handler's steps are what runs between two awaits of the decision log  *)
(* or of a runtime.                                                        *)
(***************************************************************************)
EXTENDS Config

CONSTANTS
  Handler,
  Baseline,      \* the YAML configuration
  Overrides,     \* what operator edits can leave behind
  World,         \* the snapshots the cache may hold
  Request,       \* the bodies of /decide and /execute
  Body,          \* the bodies of /v1/chat/completions
  MaxIds         \* bound: decisions and eviction plans made

\* AppState::new validates the baseline.
ASSUME BaselineAssumption == AnemoiConfig(Baseline) /\ Validates(Baseline)

NoMetadata == [prompt |-> None, output |-> None, budget |-> None, floor |-> None]

\* The other constants are of their types, and the snapshots such as adapters report.
ASSUME InputAssumption ==
  /\ MaxIds \in Nat
  /\ \A o \in Overrides : GovernanceOverrides(o)
  /\ \A req \in Request : InferenceRequest(req)
  /\ \A body \in Body : InferenceRequest(OrElse(body.meta, NoMetadata))
  /\ \A snaps \in World : \A r \in DOMAIN snaps :
       r \in DOMAIN Baseline.runtimes /\ Reports(Baseline.runtimes[r], snaps[r])

VARIABLES
  over,       \* the operator's overrides
  live,       \* ANEMOI_ENABLE_LIVE_EXECUTE=1, for the life of the process
  handler,    \* handler[h]: the request h serves and how far it is
  ids,        \* ids given out to decisions and eviction plans
  intents,    \* the staging queue
  log,        \* decisions in the decision log
  plans,      \* action plans in the decision log
  eviction,   \* the eviction plan under execution
  calls       \* history: what the runtimes were asked to do

vars == <<over, live, handler, ids, intents, log, plans, eviction, calls>>

effective == Effective(Baseline, over)

Idle ==
  [at |-> "idle", kind |-> None, req |-> None, id |-> 0, decision |-> Deny({}),
   seen |-> None, plan |-> None]

NoEviction == [at |-> "none", id |-> 0, queue |-> {}, force |-> FALSE]

\* The staging tick, execute and the gateway mutate a runtime that is not a mock only
\* behind the flag.
IsMock(r) == r \in DOMAIN Baseline.runtimes /\ Baseline.runtimes[r].adapter = "mock"

Gate(r) == IsMock(r) \/ live

-----------------------------------------------------------------------------
(* The gateway's request.  A body is [model, meta, valid, messages,        *)
(* max_tokens]: the domain its model field names, the anemoi metadata and  *)
(* whether it parses, the characters of its messages, its token limit.     *)

DefaultLatencyBudget == 30000

EstimateTextTokens(chars) == (chars + 3) \div 4

\* estimate_prompt_tokens_from_messages, of messages [role, name, content].
EstimatePromptTokens(messages) ==
  LET sum[n \in 0 .. Len(messages)] ==
        IF n = 0 THEN 2
        ELSE sum[n - 1] + 4 + EstimateTextTokens(messages[n].role)
                            + EstimateTextTokens(messages[n].name)
                            + EstimateTextTokens(messages[n].content)
  IN  IF messages = None THEN None ELSE sum[Len(messages)]

GatewayRequest(body) ==
  LET meta == OrElse(body.meta, NoMetadata)
  IN  [domain |-> body.model,
       prompt |-> OrElse(meta.prompt, EstimatePromptTokens(body.messages)),
       output |-> OrElse(meta.output, body.max_tokens),
       budget |-> OrElse(meta.budget, DefaultLatencyBudget),
       floor  |-> meta.floor]

BadRequest(body) ==
  body.model = None \/ body.model \notin DOMAIN Baseline.domains \/ ~body.valid

-----------------------------------------------------------------------------
Init ==
  /\ over = [groups |-> <<>>, removed |-> {}, rosters |-> <<>>, profiles |-> <<>>]
  /\ live \in BOOLEAN
  /\ handler = [h \in Handler |-> Idle]
  /\ ids = 0
  /\ intents = <<>>
  /\ log = {}
  /\ plans = {}
  /\ eviction = NoEviction
  /\ calls = {}

\* An operator's edit.
Edit ==
  /\ over' \in Overrides \ {over}
  /\ UNCHANGED <<live, handler, ids, intents, log, plans, eviction, calls>>

Start(h, kind, req) ==
  /\ handler[h].at = "idle"
  /\ ids < MaxIds
  /\ handler' = [handler EXCEPT ![h] =
       [Idle EXCEPT !.at = "deciding", !.kind = kind, !.req = req, !.id = ids + 1]]
  /\ ids' = ids + 1
  /\ UNCHANGED <<over, live, intents, log, plans, eviction, calls>>

ReceiveDecide(h) == \E req \in Request : Start(h, "decide", req)

ReceiveExecute(h) == \E req \in Request : Start(h, "execute", req)

\* Any other body is answered 400 before anything happens.
ReceiveChat(h) == \E body \in Body : ~BadRequest(body) /\ Start(h, "chat", GatewayRequest(body))

Goes(h, at) == handler' = [handler EXCEPT ![h] = [@ EXCEPT !.at = at, !.seen = None]]

\* The handler responds and is done.
Answers(h) == handler' = [handler EXCEPT ![h] = Idle]

-----------------------------------------------------------------------------
(* AppState::decide.                                                       *)

\* The intent records the runtime that answers meanwhile.
Intent(id, d) ==
  [id |-> id, background |-> d.background, target_runtime |-> d.runtime,
   state |-> IF Gate(d.runtime) THEN "pending" ELSE "blocked"]

\* A mutated form: the error is wrapped in a decision.
Fails_Never(d) == FALSE

\* PolicyError: decide returns it before anything is recorded.
Fails(d) == d.action = "error"

\* needs_refresh and the tick it asks for come before, so any snapshots may be read.
MakeDecision(h) ==
  /\ handler[h].at = "deciding"
  /\ \E snaps \in World :
       LET d == Decide(effective, handler[h].req, snaps)
           staged == d.action = "stage_background"
       IN  /\ handler' = [handler EXCEPT ![h] =
                IF Fails(d) THEN Idle
                ELSE [@ EXCEPT !.at = IF staged THEN "recording status" ELSE "recording",
                               !.decision = d, !.seen = [cfg |-> effective, snaps |-> snaps]]]
           /\ intents' = IF staged THEN Append(intents, Intent(handler[h].id, d)) ELSE intents
  /\ UNCHANGED <<over, live, ids, log, plans, eviction, calls>>

RecordStagingStatus(h) ==
  /\ handler[h].at = "recording status"
  /\ Goes(h, "recording")
  /\ UNCHANGED <<over, live, ids, intents, log, plans, eviction, calls>>

RecordDecision(h) ==
  /\ handler[h].at = "recording"
  /\ log' = log \cup {[id |-> handler[h].id, decision |-> handler[h].decision]}
  /\ CASE handler[h].kind = "decide" -> Answers(h)
       [] handler[h].kind = "execute" -> Goes(h, "planning")
       [] handler[h].kind = "chat" -> Goes(h, "forwarding")
  /\ UNCHANGED <<over, live, ids, intents, plans, eviction, calls>>

\* A mutated form: execute goes on without its plan in the log.
RecordFails_Ignored(h) ==
  /\ handler[h].at = "recording plan"
  /\ Goes(h, "executing")
  /\ UNCHANGED <<over, live, ids, intents, log, plans, eviction, calls>>

\* The log fails: a 500, with the intent left where it is.
RecordFails(h) ==
  /\ handler[h].at \in {"recording status", "recording", "recording plan"}
  /\ Answers(h)
  /\ UNCHANGED <<over, live, ids, intents, log, plans, eviction, calls>>

-----------------------------------------------------------------------------
(* execute.                                                                *)

\* A staged decision loads its background model where the fallback runs.
ActionPlan(id, d, cfg) ==
  LET Load(m, foreground) ==
        [id |-> id, kind |-> "load", runtime |-> d.runtime, model |-> m,
         foreground |-> foreground, dry_run |-> ~live,
         cost |-> IF m \in DOMAIN cfg.models THEN cfg.models[m].cold ELSE None]
  IN  CASE d.action \in {"promote_warm", "cold_load"} -> Load(d.model, TRUE)
        [] d.action = "stage_background" -> Load(d.background, FALSE)
        [] OTHER -> [id |-> id, kind |-> "noop", runtime |-> d.runtime, model |-> None,
                     foreground |-> FALSE, dry_run |-> ~live, cost |-> None]

\* The plan reads the effective configuration again.
GenerateActionPlan(h) ==
  /\ handler[h].at = "planning"
  /\ handler' = [handler EXCEPT ![h] =
       [@ EXCEPT !.at = "recording plan",
                 !.plan = ActionPlan(handler[h].id, handler[h].decision, effective)]]
  /\ UNCHANGED <<over, live, ids, intents, log, plans, eviction, calls>>

RecordActionPlan(h) ==
  /\ handler[h].at = "recording plan"
  /\ plans' = plans \cup {handler[h].plan}
  /\ Goes(h, "executing")
  /\ UNCHANGED <<over, live, ids, intents, log, eviction, calls>>

Call(kind, by, id, m, r) == [kind |-> kind, by |-> by, id |-> id, model |-> m, runtime |-> r]

\* A plan has one action; a load is asked for when the gate admits it, and whether it
\* succeeds only shows in the response.
Execute(h) ==
  /\ handler[h].at = "executing"
  /\ LET plan == handler[h].plan
     IN  calls' = IF plan.kind = "load" /\ Gate(plan.runtime) /\ CanLoad(Baseline.runtimes[plan.runtime])
                    THEN calls \cup {Call("load", "execute", plan.id, plan.model, plan.runtime)}
                    ELSE calls
  /\ Answers(h)
  /\ UNCHANGED <<over, live, ids, intents, log, plans, eviction>>

-----------------------------------------------------------------------------
(* chat_completions.                                                       *)

\* Judged by the configuration of this moment; a load without an estimate always passes.
ExceedsAllowance(h) ==
  LET d    == handler[h].decision
      cold == IF d.model \in DOMAIN effective.models THEN effective.models[d.model].cold ELSE None
  IN  /\ d.action = "cold_load"
      /\ cold # None
      /\ cold > OrElse(handler[h].req.budget, effective.continuity.max_blank_wait_ms)

\* 503 when nothing was selected, 403 behind the closed gate, 503 for a cold load that
\* takes too long.
Refuse(h) ==
  /\ handler[h].at = "forwarding"
  /\ \/ handler[h].decision.model = None
     \/ ~Gate(handler[h].decision.runtime)
     \/ ExceedsAllowance(h)
  /\ Answers(h)
  /\ UNCHANGED <<over, live, ids, intents, log, plans, eviction, calls>>

\* A mock answers within the daemon, a runtime is sent the request.
Forward(h) ==
  LET d == handler[h].decision
  IN  /\ handler[h].at = "forwarding"
      /\ d.model # None
      /\ Gate(d.runtime)
      /\ ~ExceedsAllowance(h)
      /\ calls' = IF IsMock(d.runtime) THEN calls
                  ELSE calls \cup {Call("forward", "chat", handler[h].id, d.model, d.runtime)}
      /\ Answers(h)
      /\ UNCHANGED <<over, live, ids, intents, log, plans, eviction>>

-----------------------------------------------------------------------------
(* The staging tick, as far as it moves intents on.                        *)

Ready(snaps, m) ==
  \E r \in DOMAIN snaps : StateOn(snaps[r], m) \in {"hot_gpu", "serving"}

\* A pending intent whose model is ready, on whichever runtime, is done.
ReconcileReady ==
  /\ \E snaps \in World :
       LET done == {i \in DOMAIN intents :
                      intents[i].state = "pending" /\ Ready(snaps, intents[i].background)}
       IN  /\ done # {}
           /\ intents' = [i \in DOMAIN intents |->
                IF i \in done THEN [intents[i] EXCEPT !.state = "completed"] ELSE intents[i]]
  /\ UNCHANGED <<over, live, handler, ids, log, plans, eviction, calls>>

LoadStaged(i) ==
  LET intent == intents[i]
      config == Baseline.runtimes[intent.target_runtime]
  IN  /\ intent.state = "pending"
      /\ Gate(intent.target_runtime)
      /\ calls' = IF CanLoad(config)
                    THEN calls \cup {Call("load", "staging", intent.id, intent.background,
                                          intent.target_runtime)}
                    ELSE calls
      /\ \E outcome \in LoadOutcomes(config) :
           intents' = [intents EXCEPT ![i] = [@ EXCEPT !.state = outcome]]
      /\ UNCHANGED <<over, live, handler, ids, log, plans, eviction>>

-----------------------------------------------------------------------------
(* Evictions.                                                              *)

\* group_protection reads the baseline's groups.
Protected(m) ==
  \E g \in DOMAIN Baseline.groups :
    /\ m \in Elements(Baseline.groups[g].models)
    /\ Baseline.groups[g].keep_hot \/ Baseline.groups[g].pinned

ServingOn(snap, m) == snap.residents[m] = "serving" \/ m \in Elements(snap.requests)

EvictionPlan(snaps, force) ==
  UNION {{[model |-> m, runtime |-> r, idle |-> snaps[r].idle[m]] :
            m \in {m \in DOMAIN snaps[r].residents :
                     /\ force \/ ~Protected(m)
                     /\ force \/ ~ServingOn(snaps[r], m)}} :
           r \in DOMAIN snaps}

PlanEvictions(force) ==
  /\ eviction.at = "none"
  /\ ids < MaxIds
  /\ ids' = ids + 1
  /\ \E snaps \in World :
       /\ EvictionPlan(snaps, force) # {}
       /\ eviction' = [at |-> "planned", id |-> ids + 1, queue |-> EvictionPlan(snaps, force),
                        force |-> force]
  /\ UNCHANGED <<over, live, handler, intents, log, plans, calls>>

\* The longest idle goes first, one whose idle time is unknown last, then by id.
EvictedBefore(a, b) ==
  \/ a.idle # None /\ b.idle = None
  \/ a.idle # None /\ b.idle # None /\ a.idle > b.idle
  \/ a.idle = b.idle /\ IdOrder[a.model] < IdOrder[b.model]

\* One unload of an approved plan.  The first that is gated or that its adapter does not
\* support ends it.
Evict(e) ==
  /\ eviction.at = "planned"
  /\ \A other \in eviction.queue : ~EvictedBefore(other, e)
  /\ IF Gate(e.runtime) /\ CanUnload(Baseline.runtimes[e.runtime])
       THEN /\ calls' = calls \cup {Call(IF eviction.force THEN "force unload" ELSE "unload",
                                         "eviction", eviction.id, e.model, e.runtime)}
            /\ eviction' = IF eviction.queue = {e} THEN NoEviction
                           ELSE [eviction EXCEPT !.queue = @ \ {e}]
       ELSE calls' = calls /\ eviction' = NoEviction
  /\ UNCHANGED <<over, live, handler, ids, intents, log, plans>>

-----------------------------------------------------------------------------
Serve(h) ==
  \/ ReceiveDecide(h)
  \/ ReceiveExecute(h)
  \/ ReceiveChat(h)
  \/ MakeDecision(h)
  \/ RecordStagingStatus(h)
  \/ RecordDecision(h)
  \/ RecordFails(h)
  \/ GenerateActionPlan(h)
  \/ RecordActionPlan(h)
  \/ Execute(h)
  \/ Refuse(h)
  \/ Forward(h)

Next ==
  \/ Edit
  \/ \E h \in Handler : Serve(h)
  \/ ReconcileReady
  \/ \E i \in DOMAIN intents : LoadStaged(i)
  \/ \E force \in BOOLEAN : PlanEvictions(force)
  \/ \E e \in eviction.queue : Evict(e)

Spec == Init /\ [][Next]_vars

-----------------------------------------------------------------------------
(* Properties.                                                             *)

HandlerState ==
  {"idle", "deciding", "recording status", "recording", "planning", "recording plan",
   "executing", "forwarding"}

\* Every variable has its type, and so has the effective configuration.
TypeOK ==
  /\ AnemoiConfig(effective)
  /\ live \in BOOLEAN
  /\ ids \in 0 .. MaxIds
  /\ DOMAIN handler = Handler
  /\ \A h \in Handler :
       /\ handler[h].at \in HandlerState
       /\ handler[h].id \in 0 .. ids
       /\ handler[h].decision.action \in Action
  /\ \A i \in 1 .. Len(intents) :
       /\ intents[i].id \in 1 .. ids
       /\ intents[i].background \in Model
       /\ intents[i].target_runtime \in Runtime
       /\ intents[i].state \in {"blocked", "pending", "failed", "completed"}
  /\ \A entry \in log : entry.id \in 1 .. ids /\ entry.decision.action \in Action
  /\ \A plan \in plans : plan.id \in 1 .. ids /\ plan.kind \in {"load", "noop"}
  /\ \A e \in eviction.queue : e.model \in Model /\ e.runtime \in Runtime

Decided(id) == {entry.decision : entry \in {entry \in log : entry.id = id}}

\* What a call that reached a runtime must come from: a logged plan of a logged
\* decision, an intent the queue still holds, a logged decision the gateway forwards,
\* or an eviction that protects what the baseline protects unless it is forced.
Accounted(c) ==
  CASE c.by = "execute" ->
         /\ \E plan \in plans :
              /\ plan.id = c.id /\ plan.kind = "load"
              /\ plan.model = c.model /\ plan.runtime = c.runtime
         /\ \E d \in Decided(c.id) : d.runtime = c.runtime /\ c.model \in {d.model, d.background}
    [] c.by = "staging" ->
         \E i \in 1 .. Len(intents) :
           /\ intents[i].id = c.id /\ intents[i].background = c.model
           /\ intents[i].target_runtime = c.runtime
           /\ intents[i].state \in {"failed", "completed"}
    [] c.by = "chat" -> \E d \in Decided(c.id) : d.model = c.model /\ d.runtime = c.runtime
    [] OTHER -> c.kind = "force unload" \/ ~Protected(c.model)

\* Nothing changes a runtime behind the operator's back: a call that reaches one that is
\* not a mock had the live flag, and each call is accounted for by what was recorded
\* before it (execute, run_staging_tick, chat_completions, execute_eviction_plan).
NoHiddenMutation == \A c \in calls : (IsMock(c.runtime) \/ live) /\ Accounted(c)

\* The handlers whose decision was just made, from what they then saw.
JustDecided == {handler[h] : h \in {h \in Handler : handler[h].seen # None}}

\* A model smaller than the request's floor is selected only to answer while one that is
\* large enough, and would take longer than the budget to load, is staged
\* (docs/INFERENCE_GATEWAY.md, "a hard floor for normal selection"); said where both
\* classes are whole billions: a 3.8b model passes for 38b, PointPassesFloor in MCDaemon.
FloorHonoured ==
  \A x \in JustDecided : KeepsFloor(x.decision, x.seen.cfg, x.req, x.seen.snaps)

\* A request is denied exactly when nothing in its domain could run it.
DenyOnlyIfNothingRunnable ==
  \A x \in JustDecided : x.decision.action = "deny" <=> ~Runnable(x.seen.cfg, x.req, x.seen.snaps)

\* A staged decision answers from a runtime that is up with a model that is there or on
\* its way, and stages another one that is cold on some runtime that is up.
StagePreservesAnswer ==
  \A x \in JustDecided : AnswersMeanwhile(x.decision, x.seen.cfg, x.req, x.seen.snaps)

\* The load a staged decision asks for, sent where intent and plan send it, leaves the
\* fallback resident: the matrix of that runtime admits the two (continuity.rs:54).
StagedLoadSparesFallback ==
  \A x \in JustDecided : SparesFallback(x.decision, x.seen.snaps)

\* Of two runtimes that have the model, neither about to drop it, the one selected never
\* has the colder copy and at least as many requests.
NoDominatedChoice ==
  \A x \in JustDecided : Undominated(x.decision, x.seen.cfg, x.req, x.seen.snaps)

\* A request that asks for nothing special, every runtime up and empty.
Plain(d) == [domain |-> d, prompt |-> None, output |-> None, budget |-> None, floor |-> None]

AllUp == [r \in DOMAIN Baseline.runtimes |-> [UnavailableSnapshot EXCEPT !.available = TRUE]]

RosterModels(cfg, d) ==
  UNION {Elements(cfg.groups[g].models) : g \in Elements(cfg.domains[d].rosters) \cap DOMAIN cfg.groups}

\* An edit that leaves a static domain with nothing to run, although its profiles name
\* runtimes, shows up among the governance warnings about it.
StrandedIsWarned ==
  \A d \in DOMAIN effective.domains :
    /\ effective.domains[d].live = None
    /\ \A m \in RosterModels(effective, d) \cap DOMAIN effective.models :
         Elements(effective.models[m].runtimes) \cap DOMAIN Baseline.runtimes # {}
    /\ Decide(effective, Plain(d), AllUp).action \in {"deny", "error"}
    => \E w \in ValidateGovernance(effective) :
         w.target \in {d} \cup Elements(effective.domains[d].rosters) \cup RosterModels(effective, d)

=============================================================================
