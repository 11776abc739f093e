----------------------------- MODULE Governance -----------------------------
(***************************************************************************)
(* Operator governance (crates/anemoi-daemon/src/governance.rs, the        *)
(* handlers that edit through it in lib.rs, and apply_overrides in         *)
(* crates/anemoi-core/src/governance.rs).                                  *)
(*                                                                         *)
(* The YAML baseline never changes; edits change an overrides record, kept *)
(* in memory and in a JSON file, and the effective configuration derived   *)
(* from both is what decisions run on.  An edit holds the overrides lock   *)
(* from its checks to the last assignment, and writes the file first.      *)
(* Every file operation may fail, and the process may crash between any    *)
(* two steps.                                                              *)
(*                                                                         *)
(* A roster is its set of models, a profile override is there or not; the  *)
(* other fields of both take no part in any decision made here.            *)
(***************************************************************************)
CONSTANTS
  Roster, Model, Domain,
  StaticDomain,     \* the domains with no live_roster
  BaseRosters,      \* baseline.residency_groups
  BaseAssigned,     \* baseline.domains: their rosters
  Undefined,        \* no roster under this id, or no override
  Absent,           \* no overrides file
  Torn              \* a file cut short

ASSUME UndefinedAssumption ==
  \A S \in (SUBSET Model) \cup (SUBSET Roster) : S # Undefined

\* What the validation of the configuration file guarantees.
ASSUME BaselineAssumption ==
  /\ StaticDomain \subseteq Domain
  /\ BaseRosters \in [Roster -> {Undefined} \cup SUBSET Model]
  /\ BaseAssigned \in [Domain -> SUBSET Roster]
  /\ \A d \in StaticDomain : BaseAssigned[d] # {}
  /\ \A d \in Domain : \A r \in BaseAssigned[d] : BaseRosters[r] # Undefined

GovernanceOverrides ==
  [residency_groups : [Roster -> {Undefined} \cup SUBSET Model],
   removed_residency_groups : SUBSET Roster,
   domain_rosters : [Domain -> {Undefined} \cup SUBSET Roster],
   model_profiles : SUBSET Model]

EffectiveConfig ==
  [rosters : [Roster -> {Undefined} \cup SUBSET Model],
   assigned : [Domain -> SUBSET Roster],
   profiled : SUBSET Model]

ASSUME FileAssumption ==
  /\ Absent \notin GovernanceOverrides
  /\ Torn \notin GovernanceOverrides \cup {Absent}

VARIABLES
  persistent,  \* ANEMOI_GOVERNANCE_OVERRIDES names a file
  overrides,   \* in memory; while down, what they last were
  effective,   \* the bundle decisions read; likewise
  candidate,   \* the edited copy of the edit under way
  step,        \* where the edit is, or "down"
  file,        \* the overrides file
  tmp,         \* its .json.tmp: "none", "torn" or "whole"
  removed      \* history: the fallback deleted the file and nothing replaced it yet

vars == <<persistent, overrides, effective, candidate, step, file, tmp, removed>>

NoOverrides ==
  [residency_groups |-> [r \in Roster |-> Undefined],
   removed_residency_groups |-> {},
   domain_rosters |-> [d \in Domain |-> Undefined],
   model_profiles |-> {}]

-----------------------------------------------------------------------------
(* Mutated forms, for the checks that each property can fail.              *)

AfterFailedRename_Ignored == "persisted"

Referenced_ByBaseline(o, r) == \E d \in Domain : r \in BaseAssigned[d]

AfterWriteError_Parks == "failed"

AfterWriteError_Ignored == "renaming"

WithRoster_StaysRemoved(o, r, ms) ==
  [o EXCEPT !.residency_groups = [@ EXCEPT ![r] = ms]]

-----------------------------------------------------------------------------
(* Merging.                                                                *)

\* apply_overrides: override, then removal, then the baseline.
Apply(o) ==
  [rosters |-> [r \in Roster |->
     IF r \in o.removed_residency_groups THEN Undefined
     ELSE IF o.residency_groups[r] # Undefined THEN o.residency_groups[r]
     ELSE BaseRosters[r]],
   assigned |-> [d \in Domain |->
     IF o.domain_rosters[d] # Undefined THEN o.domain_rosters[d] ELSE BaseAssigned[d]],
   profiled |-> o.model_profiles]

\* current_roster: what an edit takes the roster to be, looked up in another order.
Current(o, r) ==
  IF o.residency_groups[r] # Undefined THEN o.residency_groups[r]
  ELSE IF r \in o.removed_residency_groups THEN Undefined
  ELSE BaseRosters[r]

\* delete_roster's check.
Referenced(o, r) ==
  \E d \in Domain :
    r \in IF o.domain_rosters[d] # Undefined THEN o.domain_rosters[d] ELSE BaseAssigned[d]

\* removed_residency_groups.remove and residency_groups.insert.
WithRoster(o, r, ms) ==
  [o EXCEPT !.residency_groups = [@ EXCEPT ![r] = ms],
            !.removed_residency_groups = @ \ {r}]

WithoutRoster(o, r) ==
  [o EXCEPT !.residency_groups = [@ EXCEPT ![r] = Undefined],
            !.removed_residency_groups = @ \cup {r}]

-----------------------------------------------------------------------------

Init ==
  /\ persistent \in BOOLEAN
  /\ overrides = NoOverrides
  /\ effective = Apply(NoOverrides)
  /\ candidate = NoOverrides
  /\ step = "idle"
  /\ file = Absent
  /\ tmp = "none"
  /\ removed = FALSE

\* mutate: the lock is taken and the edit applied to a copy.
Edit(new) ==
  /\ step = "idle"
  /\ candidate' = new
  /\ step' = IF persistent THEN "writing" ELSE "persisted"
  /\ UNCHANGED <<persistent, overrides, effective, file, tmp, removed>>

CreateRoster(r, ms) ==
  /\ Current(overrides, r) = Undefined
  /\ Edit(WithRoster(overrides, r, ms))

PatchRoster(r, ms) ==
  /\ Current(overrides, r) # Undefined
  /\ Edit(WithRoster(overrides, r, ms))

AddRosterModel(r, m) ==
  /\ Current(overrides, r) # Undefined
  /\ Edit(WithRoster(overrides, r, Current(overrides, r) \cup {m}))

RemoveRosterModel(r, m) ==
  /\ Current(overrides, r) # Undefined
  /\ Edit(WithRoster(overrides, r, Current(overrides, r) \ {m}))

DeleteRoster(r) ==
  /\ Current(overrides, r) # Undefined
  /\ ~Referenced(overrides, r)
  /\ Edit(WithoutRoster(overrides, r))

PatchDomainRosters(d, rs) ==
  /\ d \in StaticDomain => rs # {}
  /\ \A r \in rs : Current(overrides, r) # Undefined
  /\ Edit([overrides EXCEPT !.domain_rosters = [@ EXCEPT ![d] = rs]])

\* set_model_profile: an empty profile clears the override.
SetModelProfile(m) ==
  \E ps \in {overrides.model_profiles \cup {m}, overrides.model_profiles \ {m}} :
    Edit([overrides EXCEPT !.model_profiles = ps])

-----------------------------------------------------------------------------
(* write_overrides_atomic.  A failure ends the edit with an error.         *)

Persisting == UNCHANGED <<persistent, overrides, effective, candidate>>

WriteTmp ==
  /\ step = "writing"
  /\ tmp' = "whole"
  /\ step' = "renaming"
  /\ UNCHANGED <<file, removed>>
  /\ Persisting

AfterWriteError == "idle"

WriteTmpFails ==
  /\ step = "writing"
  /\ tmp' \in {tmp, "torn"}
  /\ step' = AfterWriteError
  /\ UNCHANGED <<file, removed>>
  /\ Persisting

Rename ==
  /\ step \in {"renaming", "renaming_again"}
  /\ file' = IF tmp = "whole" THEN candidate ELSE Torn
  /\ tmp' = "none"
  /\ removed' = FALSE
  /\ step' = "persisted"
  /\ Persisting

\* What a rename that failed with no file to blame, or a second time, leads to.
AfterFailedRename == "idle"

\* A file in the way is taken for the reason, and deleted next.
RenameFails ==
  /\ step \in {"renaming", "renaming_again"}
  /\ step' = IF step = "renaming" /\ file # Absent THEN "removing" ELSE AfterFailedRename
  /\ UNCHANGED <<file, tmp, removed>>
  /\ Persisting

RemoveFile ==
  /\ step = "removing"
  /\ file' = Absent
  /\ removed' = TRUE
  /\ step' = "renaming_again"
  /\ UNCHANGED tmp
  /\ Persisting

RemoveFileFails ==
  /\ step = "removing"
  /\ step' = "idle"
  /\ UNCHANGED <<file, tmp, removed>>
  /\ Persisting

-----------------------------------------------------------------------------

\* The rest of mutate: the overrides, then the bundle that readers see.
SwapOverrides ==
  /\ step = "persisted"
  /\ overrides' = candidate
  /\ step' = "swapping"
  /\ UNCHANGED <<persistent, effective, candidate, file, tmp, removed>>

SwapEffective ==
  /\ step = "swapping"
  /\ effective' = Apply(candidate)
  /\ step' = "idle"
  /\ UNCHANGED <<persistent, overrides, candidate, file, tmp, removed>>

\* A write cut short leaves part of the temporary file.
Crash ==
  /\ step # "down"
  /\ step' = "down"
  /\ tmp' = IF step = "writing" THEN "torn" ELSE tmp
  /\ UNCHANGED <<persistent, overrides, effective, candidate, file, removed>>

\* What load starts from: a missing file is an empty one.
Loaded == IF persistent /\ file # Absent THEN file ELSE NoOverrides

\* load: a malformed file stops the daemon from starting.
Restart ==
  /\ step = "down"
  /\ Loaded # Torn
  /\ overrides' = Loaded
  /\ effective' = Apply(Loaded)
  /\ candidate' = Loaded
  /\ step' = "idle"
  /\ removed' = FALSE
  /\ UNCHANGED <<persistent, file, tmp>>

Next ==
  \/ \E r \in Roster, ms \in SUBSET Model : CreateRoster(r, ms) \/ PatchRoster(r, ms)
  \/ \E r \in Roster, m \in Model : AddRosterModel(r, m) \/ RemoveRosterModel(r, m)
  \/ \E r \in Roster : DeleteRoster(r)
  \/ \E d \in Domain, rs \in SUBSET Roster : PatchDomainRosters(d, rs)
  \/ \E m \in Model : SetModelProfile(m)
  \/ WriteTmp \/ WriteTmpFails
  \/ Rename \/ RenameFails
  \/ RemoveFile \/ RemoveFileFails
  \/ SwapOverrides \/ SwapEffective
  \/ Crash \/ Restart

Spec == Init /\ [][Next]_vars

-----------------------------------------------------------------------------
(* Properties.                                                             *)

Step == {"idle", "writing", "renaming", "removing", "renaming_again", "persisted",
         "swapping", "down"}

TypeOK ==
  /\ persistent \in BOOLEAN
  /\ overrides \in GovernanceOverrides
  /\ effective \in EffectiveConfig
  /\ candidate \in GovernanceOverrides
  /\ step \in Step
  /\ file \in GovernanceOverrides \cup {Absent, Torn}
  /\ tmp \in {"none", "torn", "whole"}
  /\ removed \in BOOLEAN

\* No sequence of edits, crashes and restarts strands a domain: decisions never see
\* one assigned to a roster that is not defined, nor a static one with none ("so a
\* domain is never silently stranded").
NoneStranded ==
  \A d \in Domain :
    /\ d \in StaticDomain => effective.assigned[d] # {}
    /\ \A r \in effective.assigned[d] : effective.rosters[r] # Undefined

\* "A crash mid-write never leaves a truncated overrides file", which would keep the
\* daemon from starting.
NeverTorn == file # Torn

\* What an operator was told is done outlives crashes as long as the fallback deletes no
\* file: the file then holds the overrides in memory, or the edit under way once it was
\* renamed into place, and never an older edit (write_overrides_atomic, mutate).
Durable ==
  persistent /\ ~removed =>
    \/ Loaded = overrides
    \/ Loaded = candidate /\ step \in {"persisted", "down"}

\* The doc comment of mutate: "A persistence failure aborts the edit with no in-memory
\* change, so disk and memory never diverge".  They do after a rename that failed, a file
\* deleted to make way and a second rename that failed: a restart would lose every edit.
DiskMatchesMemory == persistent /\ step = "idle" => Loaded = overrides

\* Overrides, merging order, locking, files and crashes implement a plain directory of
\* rosters that is edited atomically.
Directory == INSTANCE RosterDirectory WITH
  rosters <- effective.rosters,
  assigned <- effective.assigned,
  profiled <- effective.profiled

ImplementsDirectory == Directory!Spec
=============================================================================
