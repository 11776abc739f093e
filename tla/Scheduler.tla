----------------------------- MODULE Scheduler -----------------------------
(***************************************************************************)
(* The policy that turns a request, a configuration and the snapshots of   *)
(* the runtimes into a decision (crates/anemoi-policy: Scheduler::decide   *)
(* and the files it calls).  It keeps no state: every definition is an     *)
(* operator on                                                             *)
(*                                                                         *)
(*   cfg    the effective configuration: domains, groups, models,          *)
(*          continuity (crates/anemoi-core/src/config/schema.rs)           *)
(*   req    the request: domain, prompt, output, budget, floor             *)
(*   snaps  snaps[r], what the reconciler last saw of runtime r:           *)
(*          available, residents (its models' states), idle (their idle    *)
(*          seconds), configured, memory, requests (the models in use) and *)
(*          loadouts (its colocation sets, None without a matrix)          *)
(*                                                                         *)
(* A missing Option is None.  A parameter class label is None when it has  *)
(* no digit, else [whole, tenths]: "9b" is [whole |-> 9, tenths |-> None], *)
(* "3.8b" is [whole |-> 3, tenths |-> 8].  Milliseconds and scores are     *)
(* unbounded here; the code keeps them in u64 and i32.                     *)
(***************************************************************************)
EXTENDS Integers, Sequences, FiniteSets

CONSTANTS
  Model,
  Runtime,
  None,
  IdOrder,   \* IdOrder[m]: the place of the id of m in string order
  IdLabel,   \* IdLabel[m]: the size token in the id of m, as a class label
  TokenMax   \* u32::MAX, where token sums saturate

Option(S) == {None} \cup S

ParameterClass == [whole : Nat, tenths : Option(Nat)]

ASSUME SchedulerAssumption ==
  /\ IdOrder \in [Model -> Nat]
  /\ IdLabel \in [Model -> Option(ParameterClass)]
  /\ \A m, n \in Model : IdOrder[m] = IdOrder[n] => m = n
  /\ TokenMax \in Nat

Elements(seq) == {seq[i] : i \in DOMAIN seq}

OrElse(option, default) == IF option = None THEN default ELSE option

Residency == {"cold", "loading", "warm_cpu", "partial", "hot_gpu", "serving",
              "draining", "evicting", "failed"}

Action == {"reuse_hot", "promote_warm", "cold_load", "stage_background", "defer", "deny"}

-----------------------------------------------------------------------------
(* Parameter classes, quality floors and context windows.                  *)

\* parameter_class_value keeps the digits of the label and drops the rest, the point
\* included, then clamps to 1..100.
Digits(label) ==
  IF label = None THEN 1
  ELSE IF label.tenths = None THEN label.whole
  ELSE 10 * label.whole + label.tenths

Clamp(n, low, high) == IF n < low THEN low ELSE IF n > high THEN high ELSE n

ParameterClassValue(label) == Clamp(Digits(label), 1, 100)

\* extract_parameter_class takes the first run of digits that a b follows.
ExtractParameterClass(label) ==
  IF label = None \/ label.tenths = None THEN label
  ELSE [whole |-> label.tenths, tenths |-> None]

QualityScore(profile) == ParameterClassValue(profile.class)

MeetsFloor(req, profile) ==
  req.floor = None \/ QualityScore(profile) >= ParameterClassValue(req.floor)

RequiredTokens(req) ==
  LET sum == req.prompt + OrElse(req.output, 0)
  IN  IF sum > TokenMax THEN TokenMax ELSE sum

\* Some((required, available)): both are known.
WindowKnown(req, profile) == req.prompt # None /\ profile.window # None

ContextFits(req, profile) == WindowKnown(req, profile) /\ RequiredTokens(req) <= profile.window

ContextRejected(req, profile) == WindowKnown(req, profile) /\ RequiredTokens(req) > profile.window

-----------------------------------------------------------------------------
(* Candidates.  A candidate's place <<i, j, k>> is its turn in the loops    *)
(* that generate it: the i-th roster, its j-th model, its k-th runtime.     *)

SynthesizedProfile(m, r) ==
  [class |-> ExtractParameterClass(IdLabel[m]), window |-> None, vram |-> None, ram |-> None,
   cold |-> None, runtimes |-> <<r>>]

ActionFor(state) ==
  CASE state \in {"hot_gpu", "serving"} -> "reuse_hot"
    [] state \in {"warm_cpu", "partial", "loading"} -> "promote_warm"
    [] state \in {"cold", "failed"} -> "cold_load"
    [] OTHER -> "defer"

LoadEstimate(action, profile) ==
  CASE action = "cold_load" -> OrElse(profile.cold, 30000)
    [] action = "promote_warm" -> OrElse(profile.cold, 10000) \div 3
    [] OTHER -> 0

StateOn(snap, m) == IF m \in DOMAIN snap.residents THEN snap.residents[m] ELSE "cold"

Candidate(place, group, keepHot, m, profile, r, snap) ==
  LET action == ActionFor(StateOn(snap, m))
  IN  [place |-> place, group |-> group, keep_hot |-> keepHot, model |-> m, profile |-> profile,
       runtime |-> r, state |-> StateOn(snap, m), action |-> action,
       estimate |-> LoadEstimate(action, profile), memory |-> snap.memory,
       active |-> Len(snap.requests), loadouts |-> snap.loadouts]

Available(snaps, r) == r \in DOMAIN snaps /\ snaps[r].available

LiveCandidates(req, snaps, r) ==
  {Candidate(<<1, j, 1>>, "live", FALSE, snaps[r].configured[j],
             SynthesizedProfile(snaps[r].configured[j], r), r, snaps[r]) :
     j \in {j \in DOMAIN snaps[r].configured :
              ~ContextRejected(req, SynthesizedProfile(snaps[r].configured[j], r))}}

\* <<i, j>> for the j-th model of the i-th roster; a roster that is not defined is
\* skipped.
Slots(cfg, domain) ==
  LET rosters == cfg.domains[domain].rosters
  IN  UNION {{<<i, j>> : j \in DOMAIN cfg.groups[rosters[i]].models} :
               i \in {i \in DOMAIN rosters : rosters[i] \in DOMAIN cfg.groups}}

GroupAt(cfg, domain, slot) == cfg.domains[domain].rosters[slot[1]]

ModelAt(cfg, domain, slot) == cfg.groups[GroupAt(cfg, domain, slot)].models[slot[2]]

\* The slots whose model has a profile and a context window large enough.
Usable(cfg, req, slot) ==
  LET m == ModelAt(cfg, req.domain, slot)
  IN  m \in DOMAIN cfg.models /\ ~ContextRejected(req, cfg.models[m])

\* A mutated form: only a model's first runtime is looked at.
Places_FirstOnly(cfg, req, snaps, slot) ==
  {k \in DOMAIN cfg.models[ModelAt(cfg, req.domain, slot)].runtimes :
     k = 1 /\ Available(snaps, cfg.models[ModelAt(cfg, req.domain, slot)].runtimes[k])}

\* The places of a slot: one for each of its model's runtimes that is available.
Places(cfg, req, snaps, slot) ==
  LET runtimes == cfg.models[ModelAt(cfg, req.domain, slot)].runtimes
  IN  {k \in DOMAIN runtimes : Available(snaps, runtimes[k])}

RosterCandidate(cfg, req, snaps, slot, k) ==
  LET group == GroupAt(cfg, req.domain, slot)
      m     == ModelAt(cfg, req.domain, slot)
      r     == cfg.models[m].runtimes[k]
  IN  Candidate(<<slot[1], slot[2], k>>, group, cfg.groups[group].keep_hot, m, cfg.models[m],
                r, snaps[r])

RosterCandidates(cfg, req, snaps) ==
  UNION {{RosterCandidate(cfg, req, snaps, slot, k) : k \in Places(cfg, req, snaps, slot)} :
           slot \in {s \in Slots(cfg, req.domain) : Usable(cfg, req, s)}}

\* Why a model of the rosters is no candidate: [model, why].
RosterRejections(cfg, req, snaps) ==
  {[model |-> ModelAt(cfg, req.domain, s), why |-> "no profile"] :
     s \in {s \in Slots(cfg, req.domain) : ModelAt(cfg, req.domain, s) \notin DOMAIN cfg.models}}
  \cup
  {[model |-> ModelAt(cfg, req.domain, s), why |-> "context window"] :
     s \in {s \in Slots(cfg, req.domain) :
              /\ ModelAt(cfg, req.domain, s) \in DOMAIN cfg.models
              /\ ContextRejected(req, cfg.models[ModelAt(cfg, req.domain, s)])}}
  \cup
  {[model |-> ModelAt(cfg, req.domain, s), why |-> "no runtime"] :
     s \in {s \in Slots(cfg, req.domain) :
              Usable(cfg, req, s) /\ Places(cfg, req, snaps, s) = {}}}

LiveRuntime(cfg, req) == cfg.domains[req.domain].live

\* PolicyError: an unknown domain, a live roster on a runtime no snapshot covers, or
\* no roster at all.
GenerationFails(cfg, req, snaps) ==
  \/ req.domain \notin DOMAIN cfg.domains
  \/ IF LiveRuntime(cfg, req) # None
       THEN LiveRuntime(cfg, req) \notin DOMAIN snaps
       ELSE cfg.domains[req.domain].rosters = <<>>

Candidates(cfg, req, snaps) ==
  IF LiveRuntime(cfg, req) = None THEN RosterCandidates(cfg, req, snaps)
  ELSE IF snaps[LiveRuntime(cfg, req)].available
    THEN LiveCandidates(req, snaps, LiveRuntime(cfg, req))
    ELSE {}

Rejections(cfg, req, snaps) ==
  IF LiveRuntime(cfg, req) = None THEN RosterRejections(cfg, req, snaps)
  ELSE IF snaps[LiveRuntime(cfg, req)].available THEN {}
    ELSE {[model |-> None, why |-> "live runtime"]}

-----------------------------------------------------------------------------
(* Scores.                                                                 *)

ReuseBonus(state) ==
  CASE state \in {"hot_gpu", "serving"} -> 60
    [] state = "warm_cpu" -> 35
    [] state \in {"partial", "loading"} -> 15
    [] state \in {"draining", "evicting"} -> 0 - 10
    [] OTHER -> 0

LatencyImpact(req, c) ==
  IF req.budget = None THEN 0
  ELSE IF c.estimate > req.budget THEN 0 - ((c.estimate - req.budget) \div 500)
  ELSE 10

\* One dimension of memory.  Only a cold load adds to what is used, and only it is
\* penalised; unknown capacity earns neither credit nor penalty.
DimensionImpact(c, total, used, required) ==
  LET projected == OrElse(used, 0) + OrElse(required, 0)
  IN  IF OrElse(total, 0) = 0 \/ c.action # "cold_load" THEN 0
      ELSE IF 100 * projected >= 85 * total THEN 0 - 25
      ELSE IF 100 * projected >= 70 * total THEN 0 - 10
      ELSE 0

PressureImpact(c) ==
  DimensionImpact(c, c.memory.vram_total, c.memory.vram_used, c.profile.vram)
  + DimensionImpact(c, c.memory.ram_total, c.memory.ram_used, c.profile.ram)
  - 5 * c.active

Score(cfg, req, c) ==
  QualityScore(c.profile)
  + ReuseBonus(c.state)
  - (c.estimate \div 1000)
  + LatencyImpact(req, c)
  + (IF ContextFits(req, c.profile) THEN 10 ELSE 0)
  + PressureImpact(c)
  + (IF c.keep_hot \/ cfg.continuity.keep_small_worker_hot THEN 20 ELSE 0)

\* Generated earlier.
Before(p, q) ==
  \/ p[1] < q[1]
  \/ p[1] = q[1] /\ p[2] < q[2]
  \/ p[1] = q[1] /\ p[2] = q[2] /\ p[3] < q[3]

\* A mutated form: sorted by ascending score.
Ranks_Ascending(cfg, req, c, d) ==
  \/ Score(cfg, req, c) < Score(cfg, req, d)
  \/ Score(cfg, req, c) = Score(cfg, req, d) /\ Before(c.place, d.place)

\* c comes before d once the candidates are sorted: the sort is stable.
Ranks(cfg, req, c, d) ==
  \/ Score(cfg, req, c) > Score(cfg, req, d)
  \/ Score(cfg, req, c) = Score(cfg, req, d) /\ Before(c.place, d.place)

First(cfg, req, S) == CHOOSE c \in S : \A d \in S \ {c} : Ranks(cfg, req, c, d)

-----------------------------------------------------------------------------
(* Continuity: answer with something resident now and load the large model *)
(* in the background.                                                      *)

\* A mutated form: the floor is only scored, never required.
Eligible_BelowFloor(cfg, req, snaps) == Candidates(cfg, req, snaps)

Eligible(cfg, req, snaps) == {c \in Candidates(cfg, req, snaps) : MeetsFloor(req, c.profile)}

\* Loads that would leave the caller in silence for too long.
ColdLarge(cfg, req, snaps) ==
  {c \in Eligible(cfg, req, snaps) :
     c.action = "cold_load" /\ c.estimate > cfg.continuity.max_blank_wait_ms}

\* Of those the one of the best class, by id among equals; max_by_key keeps the last of
\* equal keys, which is the one that ranks lowest.
Largest(cfg, req, S) ==
  CHOOSE c \in S : \A d \in S \ {c} :
    \/ QualityScore(c.profile) > QualityScore(d.profile)
    \/ /\ QualityScore(c.profile) = QualityScore(d.profile)
       /\ \/ IdOrder[c.model] > IdOrder[d.model]
          \/ c.model = d.model /\ Ranks(cfg, req, d, c)

\* A mutated form: a model that is draining may answer meanwhile.
Fallbacks_Draining(cfg, req, snaps) ==
  {c \in Candidates(cfg, req, snaps) : c.action # "cold_load"}

\* Fallbacks are taken from all candidates, below the floor or not.
Fallbacks(cfg, req, snaps) ==
  {c \in Candidates(cfg, req, snaps) : c.action \in {"reuse_hot", "promote_warm"}}

CanColocate(loadouts, m, n) == \E l \in loadouts : m \in l /\ n \in l

WantsStage(cfg, req, cold) ==
  /\ cfg.continuity.background_load
  /\ cfg.continuity.prefer_degraded_response_over_silence
  /\ req.budget # None
  /\ req.budget < cold.estimate

ColocationAdmits(cold, fallback) ==
  \/ cold.runtime # fallback.runtime
  \/ fallback.loadouts = None
  \/ CanColocate(fallback.loadouts, fallback.model, cold.model)

Stages(cfg, req, snaps) ==
  LET cold     == Largest(cfg, req, ColdLarge(cfg, req, snaps))
      fallback == First(cfg, req, Fallbacks(cfg, req, snaps))
  IN  /\ ColdLarge(cfg, req, snaps) # {}
      /\ Fallbacks(cfg, req, snaps) # {}
      /\ WantsStage(cfg, req, cold)
      /\ ColocationAdmits(cold, fallback)

StagedScore(cfg, req, fallback) ==
  Score(cfg, req, fallback) + 50 - (IF MeetsFloor(req, fallback.profile) THEN 0 ELSE 25)

-----------------------------------------------------------------------------
(* Scheduler::decide.                                                      *)

\* Candidates other than the selected model that fall below the floor.
FloorRejections(cfg, req, snaps, selected) ==
  {[model |-> c.model, why |-> "floor"] :
     c \in {c \in Candidates(cfg, req, snaps) :
              c.model # selected /\ ~MeetsFloor(req, c.profile)}}

Decision(action, c, background, score, rejected) ==
  [action |-> action, model |-> c.model, runtime |-> c.runtime, group |-> c.group,
   background |-> background, score |-> score, rejected |-> rejected]

Deny(rejected) ==
  [action |-> "deny", model |-> None, runtime |-> None, group |-> None, background |-> None,
   score |-> 0, rejected |-> rejected]

PolicyError ==
  [action |-> "error", model |-> None, runtime |-> None, group |-> None, background |-> None,
   score |-> 0, rejected |-> {}]

Decide(cfg, req, snaps) ==
  LET eligible == Eligible(cfg, req, snaps)
      best     == First(cfg, req, eligible)
      fallback == First(cfg, req, Fallbacks(cfg, req, snaps))
      cold     == Largest(cfg, req, ColdLarge(cfg, req, snaps))
      Rejected(selected) == Rejections(cfg, req, snaps)
                            \cup FloorRejections(cfg, req, snaps, selected)
  IN  IF GenerationFails(cfg, req, snaps) THEN PolicyError
      ELSE IF eligible = {} THEN Deny(Rejected(None))
      ELSE IF Stages(cfg, req, snaps)
        THEN Decision("stage_background", fallback, cold.model,
                      StagedScore(cfg, req, fallback), Rejected(fallback.model))
      ELSE Decision(best.action, best, None, Score(cfg, req, best), Rejected(best.model))

-----------------------------------------------------------------------------
(* What a decision d, made from these arguments, promises.                 *)

ProfileOf(cfg, req, m, r) ==
  IF LiveRuntime(cfg, req) = None THEN cfg.models[m] ELSE SynthesizedProfile(m, r)

\* A class counts for its size when it is a whole number of billions up to 100, or none
\* that can be read, which is the smallest.
Measured(label) == label = None \/ (label.tenths = None /\ label.whole \in 1 .. 100)

SizeOf(label) == IF label = None THEN 1 ELSE label.whole

LargeEnough(req, profile) ==
  Measured(profile.class) /\ Measured(req.floor) => SizeOf(profile.class) >= SizeOf(req.floor)

KeepsFloor(d, cfg, req, snaps) ==
  d.model # None /\ ~LargeEnough(req, ProfileOf(cfg, req, d.model, d.runtime)) =>
    /\ d.action = "stage_background"
    /\ \E r \in DOMAIN snaps :
         LET staged == ProfileOf(cfg, req, d.background, r)
         IN  LargeEnough(req, staged) /\ LoadEstimate("cold_load", staged) > req.budget

\* Said without candidates: some model of the domain's rosters could run the request.
Runnable(cfg, req, snaps) ==
  IF LiveRuntime(cfg, req) # None
    THEN LET snap == snaps[LiveRuntime(cfg, req)]
         IN  /\ snap.available
             /\ \E m \in Elements(snap.configured) :
                  MeetsFloor(req, SynthesizedProfile(m, LiveRuntime(cfg, req)))
    ELSE \E g \in Elements(cfg.domains[req.domain].rosters) \cap DOMAIN cfg.groups :
         \E m \in Elements(cfg.groups[g].models) \cap DOMAIN cfg.models :
           /\ \E r \in Elements(cfg.models[m].runtimes) : Available(snaps, r)
           /\ ~ContextRejected(req, cfg.models[m])
           /\ MeetsFloor(req, cfg.models[m])

AnswersMeanwhile(d, cfg, req, snaps) ==
  d.action = "stage_background" =>
    /\ Available(snaps, d.runtime)
    /\ ActionFor(StateOn(snaps[d.runtime], d.model)) \in {"reuse_hot", "promote_warm"}
    /\ \E r \in DOMAIN snaps :
         /\ Available(snaps, r)
         /\ ActionFor(StateOn(snaps[r], d.background)) = "cold_load"
         /\ r \in Elements(ProfileOf(cfg, req, d.background, r).runtimes)

SparesFallback(d, snaps) ==
  d.action = "stage_background" /\ snaps[d.runtime].loadouts # None =>
    CanColocate(snaps[d.runtime].loadouts, d.model, d.background)

Hotness(state) ==
  CASE state \in {"cold", "failed"} -> 1
    [] state \in {"partial", "loading"} -> 2
    [] state = "warm_cpu" -> 3
    [] state \in {"hot_gpu", "serving"} -> 4
    [] OTHER -> 0

Undominated(d, cfg, req, snaps) ==
  d.model # None /\ d.action # "stage_background" /\ LiveRuntime(cfg, req) = None =>
    \A r \in Elements(cfg.models[d.model].runtimes) :
      Available(snaps, r) /\ Hotness(StateOn(snaps[d.runtime], d.model)) # 0 =>
        \/ Hotness(StateOn(snaps[r], d.model)) <= Hotness(StateOn(snaps[d.runtime], d.model))
        \/ Len(snaps[r].requests) > Len(snaps[d.runtime].requests)

=============================================================================
