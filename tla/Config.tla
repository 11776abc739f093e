------------------------------- MODULE Config -------------------------------
(***************************************************************************)
(* The configuration: what AppState::new accepts of the YAML baseline      *)
(* (crates/anemoi-core/src/config), how operator overrides are merged onto *)
(* it and what the governance checks then warn about                       *)
(* (crates/anemoi-core/src/governance.rs).                                 *)
(*                                                                         *)
(* Beside what Scheduler reads, cfg.runtimes[r] is [adapter, url, initial]:*)
(* the adapter's name, whether a base_url is given, the states of the      *)
(* models declared resident.  Overrides are [groups, removed, rosters, profiles]; a field  *)
(* of a profile override the operator left alone is None.                  *)
(***************************************************************************)
EXTENDS Adapters

ModelProfileConfig ==
  [class : Option(ParameterClass), window : Option(Nat), vram : Option(Nat), ram : Option(Nat),
   cold : Option(Nat), runtimes : Seq(Runtime)]

ModelProfileOverride ==
  [class : Option(ParameterClass), window : Option(Nat), vram : Option(Nat), ram : Option(Nat),
   cold : Option(Nat), runtimes : Option(Seq(Runtime))]

ResidencyGroupConfig == [models : Seq(Model), keep_hot : BOOLEAN, pinned : BOOLEAN]

ContinuityConfig ==
  [keep_small_worker_hot : BOOLEAN, background_load : BOOLEAN, max_blank_wait_ms : Nat,
   prefer_degraded_response_over_silence : BOOLEAN]

\* AnemoiConfig, as serde makes it.
AnemoiConfig(cfg) ==
  /\ DOMAIN cfg.models \subseteq Model
  /\ \A m \in DOMAIN cfg.models : cfg.models[m] \in ModelProfileConfig
  /\ \A g \in DOMAIN cfg.groups : cfg.groups[g] \in ResidencyGroupConfig
  /\ \A d \in DOMAIN cfg.domains :
       cfg.domains[d].rosters \in Seq(STRING) /\ cfg.domains[d].live \in Option(Runtime)
  /\ DOMAIN cfg.runtimes \subseteq Runtime
  /\ \A r \in DOMAIN cfg.runtimes :
       \A m \in DOMAIN cfg.runtimes[r].initial : cfg.runtimes[r].initial[m] \in Residency
  /\ cfg.continuity \in ContinuityConfig

\* InferenceRequest, but for its domain, which may be any.
InferenceRequest(req) ==
  /\ req.prompt \in Option(Nat) /\ req.output \in Option(Nat) /\ req.budget \in Option(Nat)
  /\ req.floor \in Option(ParameterClass)

GovernanceOverrides(over) ==
  /\ DOMAIN over.profiles \subseteq Model
  /\ \A m \in DOMAIN over.profiles : over.profiles[m] \in ModelProfileOverride
  /\ \A g \in DOMAIN over.groups : over.groups[g] \in ResidencyGroupConfig
  /\ \A d \in DOMAIN over.rosters : over.rosters[d] \in Seq(STRING)

KnownAdapter == {"mock", "ollama", "llama_cpp", "llama_server", "llama_swap"}

\* validate_config finds nothing to report.  A live_roster is not looked up, and a
\* profile may list no runtime at all.
Validates(cfg) ==
  /\ \A d \in DOMAIN cfg.domains :
       /\ cfg.domains[d].rosters # <<>> \/ cfg.domains[d].live # None
       /\ Elements(cfg.domains[d].rosters) \subseteq DOMAIN cfg.groups
  /\ \A g \in DOMAIN cfg.groups :
       /\ cfg.groups[g].models # <<>>
       /\ Elements(cfg.groups[g].models) \subseteq DOMAIN cfg.models
  /\ \A m \in DOMAIN cfg.models : Elements(cfg.models[m].runtimes) \subseteq DOMAIN cfg.runtimes
  /\ \A r \in DOMAIN cfg.runtimes :
       /\ cfg.runtimes[r].adapter \in KnownAdapter
       /\ cfg.runtimes[r].adapter = "mock" \/ cfg.runtimes[r].url
       /\ DOMAIN cfg.runtimes[r].initial \subseteq DOMAIN cfg.models

-----------------------------------------------------------------------------
(* Merging.                                                                *)

\* infer_family_and_class, of which only the class matters here.
InferredClass(m) == ExtractParameterClass(IdLabel[m])

\* What a model without a profile brings to the merge.
Inferred(m) ==
  [class |-> InferredClass(m), window |-> None, vram |-> None, ram |-> None, cold |-> None,
   runtimes |-> <<>>]

MergeProfile(base, override) ==
  [class |-> OrElse(override.class, base.class), window |-> OrElse(override.window, base.window),
   vram |-> OrElse(override.vram, base.vram), ram |-> OrElse(override.ram, base.ram),
   cold |-> OrElse(override.cold, base.cold),
   runtimes |-> OrElse(override.runtimes, base.runtimes)]

MergedGroups(cfg, over) ==
  [g \in (DOMAIN cfg.groups \cup DOMAIN over.groups) \ over.removed |->
     IF g \in DOMAIN over.groups THEN over.groups[g] ELSE cfg.groups[g]]

\* Overrides of a domain the baseline lacks are ignored.
MergedDomains(cfg, over) ==
  [d \in DOMAIN cfg.domains |->
     [rosters |-> IF d \in DOMAIN over.rosters THEN over.rosters[d] ELSE cfg.domains[d].rosters,
      live |-> cfg.domains[d].live]]

MergedModels(cfg, over) ==
  [m \in DOMAIN cfg.models \cup DOMAIN over.profiles |->
     LET base == IF m \in DOMAIN cfg.models THEN cfg.models[m] ELSE Inferred(m)
     IN  IF m \in DOMAIN over.profiles THEN MergeProfile(base, over.profiles[m]) ELSE base]

\* apply_overrides: the runtimes and the continuity policy stay the baseline's.
Effective(cfg, over) ==
  [groups |-> MergedGroups(cfg, over), domains |-> MergedDomains(cfg, over),
   models |-> MergedModels(cfg, over), runtimes |-> cfg.runtimes, continuity |-> cfg.continuity]

-----------------------------------------------------------------------------
(* Governance warnings.                                                    *)

EscalationFloor == 9

\* parameter_billions reads the leading digits; None when there are none.
ParameterBillions(label) == IF label = None THEN None ELSE label.whole

\* The sizes validate_governance knows of the models a domain can draw on.
KnownSizes(cfg, d) ==
  {ParameterBillions(cfg.models[m].class) : m \in
     {m \in DOMAIN cfg.models :
        /\ ParameterBillions(cfg.models[m].class) # None
        /\ \E g \in Elements(cfg.domains[d].rosters) \cap DOMAIN cfg.groups :
             m \in Elements(cfg.groups[g].models)}}

GroupWarnings(cfg) ==
  {[code |-> "roster.empty", target |-> g] :
     g \in {g \in DOMAIN cfg.groups : cfg.groups[g].models = <<>>}}
  \cup
  UNION {{[code |-> "model.missing_profile", target |-> m] :
            m \in Elements(cfg.groups[g].models) \ DOMAIN cfg.models} : g \in DOMAIN cfg.groups}

\* A mutated form: a domain without rosters is not worth a warning.
DomainWarnings_Lenient(cfg, d) ==
  {[code |-> "domain.unknown_roster", target |-> d] :
     g \in Elements(cfg.domains[d].rosters) \ DOMAIN cfg.groups}

DomainWarnings(cfg, d) ==
  IF cfg.domains[d].live # None THEN {}
  ELSE IF cfg.domains[d].rosters = <<>> THEN {[code |-> "domain.no_roster", target |-> d]}
  ELSE {[code |-> "domain.unknown_roster", target |-> d] :
          g \in Elements(cfg.domains[d].rosters) \ DOMAIN cfg.groups}
       \cup
       {[code |-> "domain.no_escalation", target |-> d] :
          n \in {n \in KnownSizes(cfg, d) : \A k \in KnownSizes(cfg, d) : k <= EscalationFloor}}

ValidateGovernance(cfg) ==
  GroupWarnings(cfg) \cup UNION {DomainWarnings(cfg, d) : d \in DOMAIN cfg.domains}

=============================================================================
