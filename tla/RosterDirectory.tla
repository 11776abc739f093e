--------------------------- MODULE RosterDirectory ---------------------------
(***************************************************************************)
(* What operators edit, with no baseline, overrides, file or lock: rosters *)
(* that are defined or not, the rosters each domain is assigned, and the   *)
(* models with an operator profile.  Edits are atomic.  A restart may find *)
(* the directory as it was, or back at the configuration file's.           *)
(***************************************************************************)
CONSTANTS
  Roster, Model, Domain,
  StaticDomain,     \* the domains with no live_roster
  BaseRosters,      \* the configuration file's residency groups
  BaseAssigned,     \* and its domains' rosters
  Undefined

VARIABLES
  rosters,   \* rosters[r]: its models, or Undefined
  assigned,  \* assigned[d]: the rosters of domain d
  profiled   \* models with an operator profile

vars == <<rosters, assigned, profiled>>

Defined(r) == rosters[r] # Undefined

Baseline ==
  /\ rosters = BaseRosters
  /\ assigned = BaseAssigned
  /\ profiled = {}

Init == Baseline

Create(r, ms) ==
  /\ ~Defined(r)
  /\ rosters' = [rosters EXCEPT ![r] = ms]
  /\ UNCHANGED <<assigned, profiled>>

Change(r, ms) ==
  /\ Defined(r)
  /\ rosters' = [rosters EXCEPT ![r] = ms]
  /\ UNCHANGED <<assigned, profiled>>

\* A roster some domain is assigned cannot be deleted.
Delete(r) ==
  /\ Defined(r)
  /\ \A d \in Domain : r \notin assigned[d]
  /\ rosters' = [rosters EXCEPT ![r] = Undefined]
  /\ UNCHANGED <<assigned, profiled>>

\* Only defined rosters can be assigned, and at least one to a static domain.
Assign(d, rs) ==
  /\ d \in StaticDomain => rs # {}
  /\ \A r \in rs : Defined(r)
  /\ assigned' = [assigned EXCEPT ![d] = rs]
  /\ UNCHANGED <<rosters, profiled>>

SetProfile(m) ==
  /\ profiled' \in {profiled \cup {m}, profiled \ {m}}
  /\ UNCHANGED <<rosters, assigned>>

Reset == Baseline'

Next ==
  \/ \E r \in Roster, ms \in SUBSET Model : Create(r, ms) \/ Change(r, ms)
  \/ \E r \in Roster : Delete(r)
  \/ \E d \in Domain, rs \in SUBSET Roster : Assign(d, rs)
  \/ \E m \in Model : SetProfile(m)
  \/ Reset

Spec == Init /\ [][Next]_vars

-----------------------------------------------------------------------------

\* No domain is stranded: each is assigned defined rosters only, a static one some.
NoneStranded ==
  \A d \in Domain :
    /\ d \in StaticDomain => assigned[d] # {}
    /\ \A r \in assigned[d] : Defined(r)
=============================================================================
