-------------------------- MODULE GovernanceProofs --------------------------
(***************************************************************************)
(* Proofs about operator governance, for any rosters, models and domains   *)
(* and any baseline that passed validation.                                *)
(*                                                                         *)
(* The invariant: every overrides record at hand (in memory, edited, in    *)
(* the file) is well formed; the bundle is the one of the overrides, or    *)
(* one edit of a directory behind the candidate's; and the file holds what *)
(* memory holds, but for the window of the rename and the fallback.        *)
(***************************************************************************)
EXTENDS Governance, TLAPS

-----------------------------------------------------------------------------
(* Merging.                                                                *)

\* No roster is both removed and overridden, and merged with the baseline no domain is
\* stranded.
WellFormed(o) ==
  /\ o \in GovernanceOverrides
  /\ \A r \in o.removed_residency_groups : o.residency_groups[r] = Undefined
  /\ \A d \in Domain :
       /\ d \in StaticDomain => Apply(o).assigned[d] # {}
       /\ \A r \in Apply(o).assigned[d] : Apply(o).rosters[r] # Undefined

\* The steps of RosterDirectory, between two configurations.
RosterStep(e, f) ==
  /\ f.assigned = e.assigned /\ f.profiled = e.profiled
  /\ \E r \in Roster :
       \/ \E ms \in SUBSET Model : f.rosters = [e.rosters EXCEPT ![r] = ms]
       \/ /\ e.rosters[r] # Undefined
          /\ \A d \in Domain : r \notin e.assigned[d]
          /\ f.rosters = [e.rosters EXCEPT ![r] = Undefined]

AssignStep(e, f) ==
  /\ f.rosters = e.rosters /\ f.profiled = e.profiled
  /\ \E d \in Domain, rs \in SUBSET Roster :
       /\ d \in StaticDomain => rs # {}
       /\ \A r \in rs : e.rosters[r] # Undefined
       /\ f.assigned = [e.assigned EXCEPT ![d] = rs]

ProfileStep(e, f) ==
  /\ f.rosters = e.rosters /\ f.assigned = e.assigned
  /\ \E m \in Model : f.profiled \in {e.profiled \cup {m}, e.profiled \ {m}}

DirectoryStep(e, f) == RosterStep(e, f) \/ AssignStep(e, f) \/ ProfileStep(e, f)

LEMMA ApplyTypes ==
  ASSUME NEW o \in GovernanceOverrides
  PROVE  Apply(o) \in EffectiveConfig
<1>1. /\ o.residency_groups \in [Roster -> {Undefined} \cup SUBSET Model]
      /\ o.domain_rosters \in [Domain -> {Undefined} \cup SUBSET Roster]
      /\ o.model_profiles \subseteq Model
  BY DEF GovernanceOverrides
<1>2. \A d \in Domain : (IF o.domain_rosters[d] # Undefined THEN o.domain_rosters[d]
                         ELSE BaseAssigned[d]) \in SUBSET Roster
  BY <1>1, BaselineAssumption
<1>3. \A r \in Roster : (IF r \in o.removed_residency_groups THEN Undefined
                         ELSE IF o.residency_groups[r] # Undefined
                              THEN o.residency_groups[r]
                              ELSE BaseRosters[r]) \in {Undefined} \cup SUBSET Model
  BY <1>1, BaselineAssumption
<1>4. QED
  BY <1>1, <1>2, <1>3 DEF Apply, EffectiveConfig

\* The empty overrides leave the baseline as it is.
LEMMA NoOverridesWellFormed ==
  /\ WellFormed(NoOverrides)
  /\ Apply(NoOverrides).rosters = BaseRosters
  /\ Apply(NoOverrides).assigned = BaseAssigned
  /\ Apply(NoOverrides).profiled = {}
<1>1. NoOverrides \in GovernanceOverrides
  BY DEF NoOverrides, GovernanceOverrides
<1>2. /\ Apply(NoOverrides).rosters = [r \in Roster |-> BaseRosters[r]]
      /\ Apply(NoOverrides).assigned = [d \in Domain |-> BaseAssigned[d]]
      /\ Apply(NoOverrides).profiled = {}
  BY DEF NoOverrides, Apply
<1>3. /\ Apply(NoOverrides).rosters = BaseRosters
      /\ Apply(NoOverrides).assigned = BaseAssigned
  BY <1>2, BaselineAssumption
<1>4. QED
  BY <1>1, <1>2, <1>3, BaselineAssumption DEF WellFormed, NoOverrides

\* On well-formed overrides the editors' two lookups agree with the merge, though each
\* consults overrides, removals and baseline in an order of its own.
THEOREM LookupsAgree ==
  ASSUME NEW o, WellFormed(o), NEW r \in Roster
  PROVE  /\ Current(o, r) = Apply(o).rosters[r]
         /\ Current(o, r) \in {Undefined} \cup SUBSET Model
         /\ Referenced(o, r) <=> \E d \in Domain : r \in Apply(o).assigned[d]
<1>1. Current(o, r) = Apply(o).rosters[r]
  BY DEF WellFormed, Current, Apply
<1>2. Apply(o).rosters[r] \in {Undefined} \cup SUBSET Model
  BY ApplyTypes DEF WellFormed, EffectiveConfig
<1>3. Referenced(o, r) <=> \E d \in Domain : r \in Apply(o).assigned[d]
  BY DEF Referenced, Apply
<1>4. QED
  BY <1>1, <1>2, <1>3

-----------------------------------------------------------------------------
(* Edits.                                                                  *)

LEMMA WithRosterEdit ==
  ASSUME NEW o, WellFormed(o), NEW r \in Roster, NEW ms \in SUBSET Model
  PROVE  /\ WellFormed(WithRoster(o, r, ms))
         /\ DirectoryStep(Apply(o), Apply(WithRoster(o, r, ms)))
<1> DEFINE n == WithRoster(o, r, ms)
<1>1. /\ o \in GovernanceOverrides
      /\ o.residency_groups \in [Roster -> {Undefined} \cup SUBSET Model]
      /\ o.removed_residency_groups \subseteq Roster
      /\ ms # Undefined
  BY UndefinedAssumption DEF WellFormed, GovernanceOverrides
<1>2. /\ n.residency_groups = [o.residency_groups EXCEPT ![r] = ms]
      /\ n.removed_residency_groups = o.removed_residency_groups \ {r}
      /\ n.domain_rosters = o.domain_rosters
      /\ n.model_profiles = o.model_profiles
      /\ n \in GovernanceOverrides
  BY <1>1 DEF WithRoster, GovernanceOverrides
<1> HIDE DEF n
<1>3. /\ Apply(n).assigned = Apply(o).assigned
      /\ Apply(n).profiled = Apply(o).profiled
  BY <1>2 DEF Apply
<1>4. Apply(n).rosters = [Apply(o).rosters EXCEPT ![r] = ms]
  BY <1>1, <1>2 DEF Apply
<1>5. Apply(o).rosters \in [Roster -> {Undefined} \cup SUBSET Model]
  BY <1>1, ApplyTypes DEF EffectiveConfig
<1>6. \A x \in n.removed_residency_groups : n.residency_groups[x] = Undefined
  BY <1>1, <1>2 DEF WellFormed
<1>7. Apply(o).assigned \in [Domain -> SUBSET Roster]
  BY <1>1, ApplyTypes DEF EffectiveConfig
<1>8. \A x \in Roster : Apply(o).rosters[x] # Undefined => Apply(n).rosters[x] # Undefined
  BY <1>1, <1>4, <1>5
<1>9. WellFormed(n)
  BY <1>2, <1>3, <1>6, <1>7, <1>8 DEF WellFormed
<1>10. DirectoryStep(Apply(o), Apply(n))
  BY <1>3, <1>4 DEF DirectoryStep, RosterStep
<1>11. QED
  BY <1>9, <1>10 DEF n

LEMMA WithoutRosterEdit ==
  ASSUME NEW o, WellFormed(o), NEW r \in Roster,
         Current(o, r) # Undefined, ~Referenced(o, r)
  PROVE  /\ WellFormed(WithoutRoster(o, r))
         /\ DirectoryStep(Apply(o), Apply(WithoutRoster(o, r)))
<1> DEFINE n == WithoutRoster(o, r)
<1>1. /\ o \in GovernanceOverrides
      /\ o.residency_groups \in [Roster -> {Undefined} \cup SUBSET Model]
      /\ o.removed_residency_groups \subseteq Roster
  BY DEF WellFormed, GovernanceOverrides
<1>2. /\ n.residency_groups = [o.residency_groups EXCEPT ![r] = Undefined]
      /\ n.removed_residency_groups = o.removed_residency_groups \cup {r}
      /\ n.domain_rosters = o.domain_rosters
      /\ n.model_profiles = o.model_profiles
      /\ n \in GovernanceOverrides
  BY <1>1 DEF WithoutRoster, GovernanceOverrides
<1> HIDE DEF n
<1>3. /\ Apply(n).assigned = Apply(o).assigned
      /\ Apply(n).profiled = Apply(o).profiled
  BY <1>2 DEF Apply
<1>4. Apply(n).rosters = [Apply(o).rosters EXCEPT ![r] = Undefined]
  BY <1>1, <1>2 DEF Apply
<1>5. /\ Apply(o).rosters \in [Roster -> {Undefined} \cup SUBSET Model]
      /\ Apply(o).assigned \in [Domain -> SUBSET Roster]
  BY <1>1, ApplyTypes DEF EffectiveConfig
<1>6. /\ Apply(o).rosters[r] # Undefined
      /\ \A d \in Domain : r \notin Apply(o).assigned[d]
  BY LookupsAgree
<1>7. \A x \in n.removed_residency_groups : n.residency_groups[x] = Undefined
  BY <1>1, <1>2 DEF WellFormed
<1>8. \A d \in Domain : \A x \in Apply(n).assigned[d] : Apply(n).rosters[x] # Undefined
  BY <1>3, <1>4, <1>5, <1>6 DEF WellFormed
<1>9. WellFormed(n)
  BY <1>2, <1>3, <1>7, <1>8 DEF WellFormed
<1>10. DirectoryStep(Apply(o), Apply(n))
  BY <1>3, <1>4, <1>6 DEF DirectoryStep, RosterStep
<1>11. QED
  BY <1>9, <1>10 DEF n

LEMMA AssignEdit ==
  ASSUME NEW o, WellFormed(o), NEW d \in Domain, NEW rs \in SUBSET Roster,
         d \in StaticDomain => rs # {},
         \A r \in rs : Current(o, r) # Undefined
  PROVE  LET n == [o EXCEPT !.domain_rosters = [@ EXCEPT ![d] = rs]]
         IN  WellFormed(n) /\ DirectoryStep(Apply(o), Apply(n))
<1> DEFINE n == [o EXCEPT !.domain_rosters = [@ EXCEPT ![d] = rs]]
<1>0. rs # Undefined
  <2>1. rs \in (SUBSET Model) \cup (SUBSET Roster)
    OBVIOUS
  <2>2. QED
    BY <2>1, UndefinedAssumption
<1>1. /\ o \in GovernanceOverrides
      /\ o.domain_rosters \in [Domain -> {Undefined} \cup SUBSET Roster]
      /\ rs # Undefined
  BY <1>0 DEF WellFormed, GovernanceOverrides
<1>2. /\ n.residency_groups = o.residency_groups
      /\ n.removed_residency_groups = o.removed_residency_groups
      /\ n.domain_rosters = [o.domain_rosters EXCEPT ![d] = rs]
      /\ n.model_profiles = o.model_profiles
      /\ n \in GovernanceOverrides
  BY <1>1 DEF GovernanceOverrides
<1> HIDE DEF n
<1>3. /\ Apply(n).rosters = Apply(o).rosters
      /\ Apply(n).profiled = Apply(o).profiled
  BY <1>2 DEF Apply
<1>4. Apply(n).assigned = [Apply(o).assigned EXCEPT ![d] = rs]
  BY <1>1, <1>2 DEF Apply
<1>5. Apply(o).assigned \in [Domain -> SUBSET Roster]
  BY <1>1, ApplyTypes DEF EffectiveConfig
<1>6. \A r \in rs : Apply(o).rosters[r] # Undefined
  BY LookupsAgree
<1>7. \A e \in Domain :
        /\ e \in StaticDomain => Apply(n).assigned[e] # {}
        /\ \A r \in Apply(n).assigned[e] : Apply(n).rosters[r] # Undefined
  BY <1>3, <1>4, <1>5, <1>6 DEF WellFormed
<1>8. WellFormed(n)
  BY <1>2, <1>7 DEF WellFormed
<1>9. DirectoryStep(Apply(o), Apply(n))
  BY <1>3, <1>4, <1>6 DEF DirectoryStep, AssignStep
<1>10. QED
  BY <1>8, <1>9 DEF n

LEMMA ProfileEdit ==
  ASSUME NEW o, WellFormed(o), NEW m \in Model,
         NEW ps \in {o.model_profiles \cup {m}, o.model_profiles \ {m}}
  PROVE  LET n == [o EXCEPT !.model_profiles = ps]
         IN  WellFormed(n) /\ DirectoryStep(Apply(o), Apply(n))
<1> DEFINE n == [o EXCEPT !.model_profiles = ps]
<1>1. o \in GovernanceOverrides /\ o.model_profiles \subseteq Model
  BY DEF WellFormed, GovernanceOverrides
<1>2. /\ n.residency_groups = o.residency_groups
      /\ n.removed_residency_groups = o.removed_residency_groups
      /\ n.domain_rosters = o.domain_rosters
      /\ n.model_profiles = ps
      /\ n \in GovernanceOverrides
  BY <1>1 DEF GovernanceOverrides
<1> HIDE DEF n
<1>3. /\ Apply(n).rosters = Apply(o).rosters
      /\ Apply(n).assigned = Apply(o).assigned
      /\ Apply(n).profiled = ps /\ Apply(o).profiled = o.model_profiles
  BY <1>2 DEF Apply
<1>4. WellFormed(n)
  BY <1>2, <1>3 DEF WellFormed
<1>5. DirectoryStep(Apply(o), Apply(n))
  BY <1>3 DEF DirectoryStep, ProfileStep
<1>6. QED
  BY <1>4, <1>5 DEF n

-----------------------------------------------------------------------------
(* The invariant.                                                          *)

\* The records at hand are well formed, and a temporary file to be renamed is whole.
RecordsInv ==
  /\ WellFormed(overrides)
  /\ WellFormed(candidate)
  /\ file = Absent \/ WellFormed(file)
  /\ step \in {"renaming", "removing", "renaming_again"} => tmp = "whole"

\* The bundle is the overrides', unless they were swapped already; and at most one
\* directory step leads from it to the candidate's.
BundleInv ==
  /\ effective = Apply(overrides) \/ overrides = candidate
  /\ effective = Apply(overrides) \/ step \in {"swapping", "down"}
  /\ step = "swapping" => overrides = candidate
  /\ effective = Apply(candidate) \/ DirectoryStep(effective, Apply(candidate))

\* After the rename the file holds the candidate; otherwise Durable says what it holds,
\* and it is gone when the fallback removed it.
FileInv ==
  /\ Durable
  /\ persistent /\ step = "persisted" => Loaded = candidate
  /\ removed => file = Absent

GovInv == TypeOK /\ RecordsInv /\ BundleInv /\ FileInv

LEMMA LoadedWellFormed ==
  ASSUME RecordsInv
  PROVE  WellFormed(Loaded)
BY NoOverridesWellFormed DEF RecordsInv, Loaded

LEMMA GovInit == Init => GovInv
<1> SUFFICES ASSUME Init PROVE GovInv
  OBVIOUS
<1>1. NoOverrides \in GovernanceOverrides /\ Apply(NoOverrides) \in EffectiveConfig
  BY NoOverridesWellFormed, ApplyTypes DEF WellFormed
<1>2. TypeOK
  BY <1>1 DEF Init, TypeOK, Step
<1>3. RecordsInv /\ BundleInv
  BY NoOverridesWellFormed DEF Init, RecordsInv, BundleInv
<1>4. FileInv
  BY DEF Init, FileInv, Durable, Loaded
<1>5. QED
  BY <1>2, <1>3, <1>4 DEF GovInv

\* Any edit that leads from well-formed overrides to well-formed ones by a directory step.
LEMMA EditInv ==
  ASSUME GovInv, NEW new, Edit(new), WellFormed(new),
         DirectoryStep(Apply(overrides), Apply(new))
  PROVE  GovInv'
<1>1. /\ step = "idle" /\ candidate' = new
      /\ step' \in {"writing", "persisted"}
      /\ step' = "persisted" => ~persistent
      /\ UNCHANGED <<persistent, overrides, effective, file, tmp, removed>>
  BY DEF Edit, GovInv, TypeOK
<1>2. TypeOK'
  BY <1>1 DEF GovInv, TypeOK, Step, WellFormed
<1>3. RecordsInv'
  BY <1>1 DEF GovInv, RecordsInv
<1>4. effective = Apply(overrides)
  BY <1>1 DEF GovInv, BundleInv
<1>5. BundleInv'
  BY <1>1, <1>4 DEF BundleInv
<1>6. FileInv'
  BY <1>1 DEF GovInv, FileInv, Durable, Loaded
<1>7. QED
  BY <1>2, <1>3, <1>5, <1>6 DEF GovInv

LEMMA EditsInv ==
  ASSUME GovInv,
         \/ \E r \in Roster, ms \in SUBSET Model : CreateRoster(r, ms) \/ PatchRoster(r, ms)
         \/ \E r \in Roster, m \in Model : AddRosterModel(r, m) \/ RemoveRosterModel(r, m)
         \/ \E r \in Roster : DeleteRoster(r)
         \/ \E d \in Domain, rs \in SUBSET Roster : PatchDomainRosters(d, rs)
         \/ \E m \in Model : SetModelProfile(m)
  PROVE  GovInv'
<1>0. WellFormed(overrides)
  BY DEF GovInv, RecordsInv
<1>1. ASSUME NEW r \in Roster, NEW ms \in SUBSET Model, Edit(WithRoster(overrides, r, ms))
      PROVE  GovInv'
  BY <1>0, <1>1, WithRosterEdit, EditInv
<1>2. ASSUME NEW r \in Roster, NEW ms \in SUBSET Model,
             CreateRoster(r, ms) \/ PatchRoster(r, ms)
      PROVE  GovInv'
  BY <1>1, <1>2 DEF CreateRoster, PatchRoster
<1>3. ASSUME NEW r \in Roster, NEW m \in Model,
             AddRosterModel(r, m) \/ RemoveRosterModel(r, m)
      PROVE  GovInv'
  <2>1. Current(overrides, r) \in SUBSET Model
    BY <1>0, <1>3, LookupsAgree DEF AddRosterModel, RemoveRosterModel
  <2>2. /\ Current(overrides, r) \cup {m} \in SUBSET Model
        /\ Current(overrides, r) \ {m} \in SUBSET Model
    BY <2>1
  <2>3. QED
    BY <1>1, <1>3, <2>2 DEF AddRosterModel, RemoveRosterModel
<1>4. ASSUME NEW r \in Roster, DeleteRoster(r) PROVE GovInv'
  BY <1>0, <1>4, WithoutRosterEdit, EditInv DEF DeleteRoster
<1>5. ASSUME NEW d \in Domain, NEW rs \in SUBSET Roster, PatchDomainRosters(d, rs)
      PROVE  GovInv'
  <2> DEFINE n == [overrides EXCEPT !.domain_rosters = [@ EXCEPT ![d] = rs]]
  <2>1. WellFormed(n) /\ DirectoryStep(Apply(overrides), Apply(n))
    BY <1>0, <1>5, AssignEdit DEF PatchDomainRosters
  <2>2. Edit(n)
    BY <1>5 DEF PatchDomainRosters
  <2> HIDE DEF n
  <2>3. QED
    BY <2>1, <2>2, EditInv
<1>6. ASSUME NEW m \in Model, SetModelProfile(m) PROVE GovInv'
  <2>1. PICK ps \in {overrides.model_profiles \cup {m}, overrides.model_profiles \ {m}} :
          Edit([overrides EXCEPT !.model_profiles = ps])
    BY <1>6 DEF SetModelProfile
  <2> DEFINE n == [overrides EXCEPT !.model_profiles = ps]
  <2>2. WellFormed(n) /\ DirectoryStep(Apply(overrides), Apply(n))
    BY <1>0, ProfileEdit
  <2>3. Edit(n)
    BY <2>1
  <2> HIDE DEF n
  <2>4. QED
    BY <2>2, <2>3, EditInv
<1>7. QED
  BY <1>2, <1>3, <1>4, <1>5, <1>6

\* The file operations, and the crash: what is in memory stays.
LEMMA PersistingInv ==
  ASSUME GovInv,
         \/ WriteTmp \/ WriteTmpFails \/ Rename \/ RenameFails
         \/ RemoveFile \/ RemoveFileFails \/ Crash
  PROVE  GovInv'
<1>1. UNCHANGED <<persistent, overrides, effective, candidate>>
  BY DEF WriteTmp, WriteTmpFails, Rename, RenameFails, RemoveFile, RemoveFileFails, Crash,
         Persisting
<1>2. step' \in Step /\ tmp' \in {"none", "torn", "whole"} /\ removed' \in BOOLEAN
  BY DEF WriteTmp, WriteTmpFails, Rename, RenameFails, RemoveFile, RemoveFileFails, Crash,
         AfterWriteError, AfterFailedRename, GovInv, TypeOK, Step
<1>3. file' \in {file, candidate, Absent}
  BY DEF WriteTmp, WriteTmpFails, Rename, RenameFails, RemoveFile, RemoveFileFails, Crash,
         GovInv, RecordsInv
<1>4. TypeOK'
  BY <1>1, <1>2, <1>3 DEF GovInv, TypeOK
<1>5. step' \in {"renaming", "removing", "renaming_again"} => tmp' = "whole"
  BY DEF WriteTmp, WriteTmpFails, Rename, RenameFails, RemoveFile, RemoveFileFails, Crash,
         AfterWriteError, AfterFailedRename, GovInv, RecordsInv
<1>6. RecordsInv'
  BY <1>1, <1>3, <1>5 DEF GovInv, RecordsInv
<1>7. step' # "swapping" /\ (step \in {"swapping", "down"} => step' = "down")
  BY DEF WriteTmp, WriteTmpFails, Rename, RenameFails, RemoveFile, RemoveFileFails, Crash,
         AfterWriteError, AfterFailedRename
<1>8. BundleInv'
  BY <1>1, <1>7 DEF GovInv, BundleInv
<1>9. FileInv'
  <2>1. CASE Rename
    <3>1. /\ file' = candidate /\ candidate # Absent /\ removed' = FALSE
          /\ step' = "persisted"
      BY <2>1, FileAssumption DEF Rename, GovInv, RecordsInv, TypeOK
    <3>2. QED
      BY <1>1, <3>1 DEF FileInv, Durable, Loaded
  <2>2. CASE RemoveFile
    <3>1. file' = Absent /\ removed' = TRUE /\ step' = "renaming_again" /\ step = "removing"
      BY <2>2 DEF RemoveFile
    <3>2. QED
      BY <1>1, <3>1 DEF FileInv, Durable, Loaded, GovInv
  <2>3. CASE \/ WriteTmp \/ WriteTmpFails \/ RenameFails \/ RemoveFileFails
    <3>1. /\ UNCHANGED <<file, removed>>
          /\ step \notin {"persisted", "down"} /\ step' # "persisted"
      BY <2>3 DEF WriteTmp, WriteTmpFails, RenameFails, RemoveFileFails, AfterWriteError,
                  AfterFailedRename
    <3>2. QED
      BY <1>1, <3>1 DEF FileInv, Durable, Loaded, GovInv
  <2>4. CASE Crash
    <3>1. UNCHANGED <<file, removed>> /\ step' = "down"
      BY <2>4 DEF Crash
    <3>2. QED
      BY <1>1, <3>1 DEF FileInv, Durable, Loaded, GovInv
  <2>5. QED
    BY <2>1, <2>2, <2>3, <2>4
<1>10. QED
  BY <1>4, <1>6, <1>8, <1>9 DEF GovInv

LEMMA SwapInv ==
  ASSUME GovInv, SwapOverrides \/ SwapEffective
  PROVE  GovInv'
<1>1. CASE SwapOverrides
  <2>1. /\ overrides' = candidate /\ step = "persisted" /\ step' = "swapping"
        /\ UNCHANGED <<persistent, effective, candidate, file, tmp, removed>>
    BY <1>1 DEF SwapOverrides
  <2>2. TypeOK'
    BY <2>1 DEF GovInv, TypeOK, Step
  <2>3. RecordsInv' /\ BundleInv'
    BY <2>1 DEF GovInv, RecordsInv, BundleInv
  <2>4. FileInv'
    BY <2>1 DEF GovInv, FileInv, Durable, Loaded
  <2>5. QED
    BY <2>2, <2>3, <2>4 DEF GovInv
<1>2. CASE SwapEffective
  <2>1. /\ effective' = Apply(candidate) /\ step = "swapping" /\ step' = "idle"
        /\ UNCHANGED <<persistent, overrides, candidate, file, tmp, removed>>
    BY <1>2 DEF SwapEffective
  <2>2. overrides = candidate
    BY <2>1 DEF GovInv, BundleInv
  <2>3. TypeOK'
    BY <2>1, ApplyTypes DEF GovInv, TypeOK, Step
  <2>4. RecordsInv' /\ BundleInv'
    BY <2>1, <2>2 DEF GovInv, RecordsInv, BundleInv
  <2>5. FileInv'
    BY <2>1, <2>2 DEF GovInv, FileInv, Durable, Loaded
  <2>6. QED
    BY <2>3, <2>4, <2>5 DEF GovInv
<1>3. QED
  BY <1>1, <1>2

LEMMA RestartInv ==
  ASSUME GovInv, Restart
  PROVE  GovInv'
<1>1. /\ overrides' = Loaded /\ candidate' = Loaded
      /\ effective' = Apply(Loaded)
      /\ step' = "idle" /\ removed' = FALSE
      /\ UNCHANGED <<persistent, file, tmp>>
  BY DEF Restart
<1>2. WellFormed(Loaded) /\ Loaded' = Loaded
  BY <1>1, LoadedWellFormed DEF GovInv, Loaded
<1>3. TypeOK'
  BY <1>1, <1>2, ApplyTypes DEF GovInv, TypeOK, Step, WellFormed
<1>4. RecordsInv' /\ BundleInv'
  BY <1>1, <1>2 DEF GovInv, RecordsInv, BundleInv
<1>5. FileInv'
  BY <1>1, <1>2 DEF GovInv, FileInv, Durable
<1>6. QED
  BY <1>3, <1>4, <1>5 DEF GovInv

LEMMA GovStep == GovInv /\ [Next]_vars => GovInv'
<1> SUFFICES ASSUME GovInv, [Next]_vars PROVE GovInv'
  OBVIOUS
<1>1. CASE UNCHANGED vars
  <2>1. UNCHANGED <<persistent, overrides, effective, candidate, step, file, tmp, removed>>
    BY <1>1 DEF vars
  <2>2. TypeOK' /\ RecordsInv' /\ BundleInv'
    BY <2>1 DEF GovInv, TypeOK, RecordsInv, BundleInv
  <2>3. FileInv'
    BY <2>1 DEF GovInv, FileInv, Durable, Loaded
  <2>4. QED
    BY <2>2, <2>3 DEF GovInv
<1>2. CASE Next
  BY <1>2, EditsInv, PersistingInv, SwapInv, RestartInv DEF Next
<1>3. QED
  BY <1>1, <1>2

\* Only the swap and a restart change the bundle.
LEMMA BundleKept ==
  ASSUME [Next]_vars, ~(SwapEffective \/ Restart)
  PROVE  effective' = effective
BY DEF Next, vars, CreateRoster, PatchRoster, AddRosterModel, RemoveRosterModel, DeleteRoster,
       PatchDomainRosters, SetModelProfile, Edit, WriteTmp, WriteTmpFails, Rename,
       RenameFails, RemoveFile, RemoveFileFails, Persisting, SwapOverrides, Crash

LEMMA GovCorrect == Spec => []GovInv
BY GovInit, GovStep, PTL DEF Spec

-----------------------------------------------------------------------------
(* The theorems.                                                           *)

\* Every reachable state is well typed.
THEOREM GovernanceTypeCorrect == Spec => []TypeOK
<1>1. GovInv => TypeOK
  BY DEF GovInv
<1>2. QED
  BY <1>1, GovCorrect, PTL

\* Whatever edits, failures, crashes and restarts come, no domain of the bundle is assigned
\* a roster that is not defined, and no static one is left without.
THEOREM NoneStrandedSafe == Spec => []NoneStranded
<1>1. Init => NoneStranded
  BY NoOverridesWellFormed DEF Init, NoneStranded, WellFormed
<1>2. GovInv /\ NoneStranded /\ [Next]_vars => NoneStranded'
  <2> SUFFICES ASSUME GovInv, NoneStranded, [Next]_vars PROVE NoneStranded'
    OBVIOUS
  <2>1. ASSUME NEW o, WellFormed(o), effective' = Apply(o) PROVE NoneStranded'
    BY <2>1 DEF NoneStranded, WellFormed
  <2>2. CASE SwapEffective
    BY <2>1, <2>2 DEF SwapEffective, GovInv, RecordsInv
  <2>3. CASE Restart
    BY <2>1, <2>3, LoadedWellFormed DEF Restart, GovInv
  <2>4. CASE ~(SwapEffective \/ Restart)
    BY <2>4, BundleKept DEF NoneStranded
  <2>5. QED
    BY <2>2, <2>3, <2>4
<1>3. QED
  BY <1>1, <1>2, GovCorrect, PTL DEF Spec

\* The overrides file is never torn, so that the daemon can always start again.
THEOREM NeverTornSafe == Spec => []NeverTorn
<1>1. GovInv => NeverTorn
  BY FileAssumption DEF GovInv, RecordsInv, NeverTorn, WellFormed
<1>2. QED
  BY <1>1, GovCorrect, PTL

\* As long as the fallback removes no file it holds what is in memory or the edit that is
\* about to be.
THEOREM DurableSafe == Spec => []Durable
<1>1. GovInv => Durable
  BY DEF GovInv, FileInv
<1>2. QED
  BY <1>1, GovCorrect, PTL

-----------------------------------------------------------------------------
(* Refinement.                                                             *)

\* A directory step between two bundles is a step of RosterDirectory.
LEMMA DirectoryNext ==
  ASSUME DirectoryStep(effective, effective')
  PROVE  Directory!Next
<1>1. CASE RosterStep(effective, effective')
  <2>1. PICK r \in Roster :
          \/ \E ms \in SUBSET Model :
               effective'.rosters = [effective.rosters EXCEPT ![r] = ms]
          \/ /\ effective.rosters[r] # Undefined
             /\ \A d \in Domain : r \notin effective.assigned[d]
             /\ effective'.rosters = [effective.rosters EXCEPT ![r] = Undefined]
    BY <1>1 DEF RosterStep
  <2>2. /\ effective'.assigned = effective.assigned
        /\ effective'.profiled = effective.profiled
    BY <1>1 DEF RosterStep
  <2>3. QED
    BY <2>1, <2>2 DEF Directory!Next, Directory!Create, Directory!Change, Directory!Delete,
                      Directory!Defined
<1>2. CASE AssignStep(effective, effective')
  BY <1>2 DEF AssignStep, Directory!Next, Directory!Assign, Directory!Defined
<1>3. CASE ProfileStep(effective, effective')
  BY <1>3 DEF ProfileStep, Directory!Next, Directory!SetProfile
<1>4. QED
  BY <1>1, <1>2, <1>3 DEF DirectoryStep

LEMMA RestartStep ==
  ASSUME GovInv, Restart
  PROVE  effective' = effective \/ DirectoryStep(effective, effective') \/ Directory!Reset
<1>1. effective' = Apply(Loaded)
  BY DEF Restart
<1>2. Loaded \in {overrides, candidate, NoOverrides}
  BY DEF GovInv, FileInv, Durable, Loaded
<1>3. CASE Loaded = NoOverrides
  <2>1. /\ effective'.rosters = BaseRosters
        /\ effective'.assigned = BaseAssigned
        /\ effective'.profiled = {}
    BY <1>1, <1>3, NoOverridesWellFormed
  <2>2. QED
    BY <2>1 DEF Directory!Reset, Directory!Baseline
<1>4. CASE Loaded \in {overrides, candidate}
  BY <1>1, <1>4 DEF GovInv, BundleInv
<1>5. QED
  BY <1>2, <1>3, <1>4

\* Merging, files, failures and crashes implement a directory of rosters edited atomically.
THEOREM DirectoryRefinement == Spec => ImplementsDirectory
<1>1. Init => Directory!Init
  BY NoOverridesWellFormed DEF Init, Directory!Init, Directory!Baseline
<1>2. GovInv /\ [Next]_vars => [Directory!Next]_Directory!vars
  <2> SUFFICES ASSUME GovInv, [Next]_vars PROVE [Directory!Next]_Directory!vars
    OBVIOUS
  <2>1. ASSUME effective' = effective PROVE UNCHANGED Directory!vars
    BY <2>1 DEF Directory!vars
  <2>2. CASE SwapEffective
    <3>1. effective' = effective \/ DirectoryStep(effective, effective')
      BY <2>2 DEF SwapEffective, GovInv, BundleInv
    <3>2. QED
      BY <2>1, <3>1, DirectoryNext
  <2>3. CASE Restart
    <3>1. Directory!Reset => Directory!Next
      BY DEF Directory!Next
    <3>2. QED
      BY <2>1, <2>3, <3>1, RestartStep, DirectoryNext
  <2>4. CASE ~(SwapEffective \/ Restart)
    BY <2>1, <2>4, BundleKept
  <2>5. QED
    BY <2>2, <2>3, <2>4
<1>3. QED
  BY <1>1, <1>2, GovCorrect, PTL DEF Spec, ImplementsDirectory, Directory!Spec
=============================================================================
