------------------------ MODULE TransitionCoordinator ------------------------
(***************************************************************************)
(* Concurrent residency transitions (crates/anemoi-policy/src/             *)
(* transition.rs).  Several Anemoi instances ask one coordinator to bring  *)
(* a runtime to the model they want.  The coordinator keeps, per runtime,  *)
(* at most one active transition under a fenced lease, and arbitrates      *)
(* collisions: join, take over, serve a hot worker instead, or refuse.     *)
(*                                                                         *)
(* The coordinator's own state is active and next_fencing_token.  clock is *)
(* the now_ms of its callers.  The other variables are history: what the   *)
(* instances were told and which of them are serving, which the code       *)
(* leaves to its callers and the properties are about.                     *)
(***************************************************************************)
EXTENDS Naturals

CONSTANTS
  Runtime,
  Model,
  Instance,      \* owner_instance ids, numbered in their lexicographic order
  Priority,
  LeaseTtl,      \* lease_ttl_ms
  MaxClock,      \* bound: the last now_ms a caller passes
  MaxToken,      \* bound: the last fencing token issued
  MaxServing,    \* bound: requests in service per runtime
  NoTransition

ASSUME ConstantsAssumption ==
  /\ Instance \subseteq Nat
  /\ Priority \subseteq Nat
  /\ LeaseTtl \in Nat
  /\ MaxClock \in Nat
  /\ MaxToken \in Nat
  /\ MaxServing \in Nat

Token == 1 .. MaxToken

TransitionRequest ==
  [runtime : Runtime, model : Model, owner : Instance, priority : Priority,
   interactive : BOOLEAN, background : BOOLEAN,
   available : BOOLEAN,  \* runtime_available
   hot : BOOLEAN]        \* hot_compatible_model is Some

ActiveTransition ==
  [model : Model, owner : Instance, fencing_token : Token,
   lease_expires_at_ms : Nat, serving_leases : Nat,
   priority : Priority, interactive : BOOLEAN]

ASSUME NoTransitionAssumption == NoTransition \notin ActiveTransition

VARIABLES
  active,               \* active[rt]: the transition owning rt, or NoTransition
  next_fencing_token,
  clock,
  held,        \* held[i]: the <<runtime, token, model>> instance i was told to work on
  completed,   \* completed[tok]: how often complete() accepted tok
  displaced,   \* tokens whose transition was taken over
  serving,     \* serving[rt]: requests in service that leased rt's active transition
  stale,       \* stale[rt]: requests in service that leased a transition since gone
  drained      \* drained[rt]: stale[rt] was 0 when the active transition started

table == <<active, next_fencing_token>>
vars == <<active, next_fencing_token, clock, held, completed, displaced,
          serving, stale, drained>>

Busy(rt) == active[rt] # NoTransition

Expired(rt) == clock >= active[rt].lease_expires_at_ms

-----------------------------------------------------------------------------
(* Mutated forms, for the checks that each property can fail.              *)

IncomingWins_AnyPriority(r, a) ==
  /\ a.serving_leases = 0
  /\ r.owner = a.owner \/ r.priority >= a.priority

IncomingWins_IgnoresServing(r, a) ==
  \/ r.owner = a.owner
  \/ r.priority > a.priority

Installed_TokenReused(r, tok) ==
  [model |-> r.model, owner |-> r.owner,
   fencing_token |-> IF Busy(r.runtime) THEN active[r.runtime].fencing_token ELSE tok,
   lease_expires_at_ms |-> clock + LeaseTtl, serving_leases |-> 0,
   priority |-> r.priority, interactive |-> r.interactive]

Joins_SameOwner(r, a) == r.model = a.model \/ r.owner = a.owner

CurrentToken_Unfenced(rt, tok) == Busy(rt)

SaturatingPred_Signed(n) == n - 1

CountRelease_Forgotten(rt) == active' = active

\* wrapping_sub; in 16 bits, which show it as well as the code's 32.
SaturatingPred_Wraps(n) == (n + 65535) % 65536

-----------------------------------------------------------------------------
(* Policy: transition.rs, incoming_wins.                                   *)

\* Does the incoming request r preempt the active transition a?
IncomingWins(r, a) ==
  /\ a.serving_leases = 0
  /\ \/ r.owner = a.owner
     \/ r.priority > a.priority
     \/ /\ r.priority = a.priority
        /\ r.interactive /\ ~a.interactive
     \/ /\ r.priority = a.priority
        /\ r.interactive = a.interactive
        /\ r.owner < a.owner

Joins(r, a) == r.model = a.model

\* The record install() inserts.
Installed(r, tok) ==
  [model |-> r.model, owner |-> r.owner, fencing_token |-> tok,
   lease_expires_at_ms |-> clock + LeaseTtl, serving_leases |-> 0,
   priority |-> r.priority, interactive |-> r.interactive]

-----------------------------------------------------------------------------

Init ==
  /\ active = [rt \in Runtime |-> NoTransition]
  /\ next_fencing_token = 1
  /\ clock = 0
  /\ held = [i \in Instance |-> {}]
  /\ completed = [tok \in Token |-> 0]
  /\ displaced = {}
  /\ serving = [rt \in Runtime |-> 0]
  /\ stale = [rt \in Runtime |-> 0]
  /\ drained = [rt \in Runtime |-> TRUE]

\* What becomes of the requests in service when rt's transition goes away: they
\* go on, and their leases now belong to a transition that is gone.
LeaveServing(rt) ==
  /\ stale' = [stale EXCEPT ![rt] = @ + serving[rt]]
  /\ serving' = [serving EXCEPT ![rt] = 0]

\* issue_token and install: r's owner gets the runtime under a fresh token.
Install(r) ==
  LET rt == r.runtime
      tok == next_fencing_token
  IN  /\ tok \in Token
      /\ next_fencing_token' = tok + 1
      /\ active' = [active EXCEPT ![rt] = Installed(r, tok)]
      /\ held' = [held EXCEPT ![r.owner] = @ \cup {<<rt, tok, r.model>>}]
      /\ drained' = [drained EXCEPT ![rt] = stale[rt] + serving[rt] = 0]
      /\ LeaveServing(rt)
      /\ UNCHANGED <<clock, completed>>

\* request_transition, no transition in flight: Started, or Staged when
\* r.background.
StartFresh(r) ==
  /\ r.available
  /\ ~Busy(r.runtime)
  /\ Install(r)
  /\ UNCHANGED displaced

\* take_over: the previous owner's token is fenced off.
TakeOver(r) ==
  /\ Install(r)
  /\ displaced' = displaced \cup {active[r.runtime].fencing_token}

\* request_transition, the owner's lease has expired.
TakeOverExpired(r) ==
  /\ r.available
  /\ Busy(r.runtime)
  /\ Expired(r.runtime)
  /\ TakeOver(r)

\* request_transition, the same model is already in flight: Joined.
Join(r) ==
  LET a == active[r.runtime]
  IN  /\ r.available
      /\ Busy(r.runtime)
      /\ ~Expired(r.runtime)
      /\ Joins(r, a)
      /\ held' = [held EXCEPT ![r.owner] = @ \cup {<<r.runtime, a.fencing_token, r.model>>}]
      /\ UNCHANGED <<table, clock, completed, displaced, serving, stale, drained>>

\* resolve_conflict's precondition: another model is in flight on a live lease.
Conflict(r) ==
  /\ r.available
  /\ Busy(r.runtime)
  /\ ~Expired(r.runtime)
  /\ ~Joins(r, active[r.runtime])

\* The continuity fallback: an interactive request with a hot worker at hand.
ServesHot(r) == r.interactive /\ r.hot

\* resolve_conflict, the incoming request wins on the policy inputs.
Preempt(r) ==
  /\ Conflict(r)
  /\ ~ServesHot(r)
  /\ ~r.background
  /\ IncomingWins(r, active[r.runtime])
  /\ TakeOver(r)

\* The answers that leave the lease table alone: RuntimeUnavailable, ServedHot,
\* a blocked background stage, and a conflict lost.
Decline(r) ==
  /\ \/ ~r.available
     \/ /\ Conflict(r)
        /\ \/ ServesHot(r)
           \/ r.background
           \/ ~IncomingWins(r, active[r.runtime])
  /\ UNCHANGED vars

-----------------------------------------------------------------------------

\* acquire_serving_lease: granted while a transition is active, expired or not.
AcquireServingLease(rt) ==
  /\ serving[rt] + stale[rt] < MaxServing
  /\ Busy(rt)
  /\ active' = [active EXCEPT ![rt].serving_leases = @ + 1]
  /\ serving' = [serving EXCEPT ![rt] = @ + 1]
  /\ UNCHANGED <<next_fencing_token, clock, held, completed, displaced, stale, drained>>

\* u32::saturating_sub(1)
SaturatingPred(n) == IF n = 0 THEN 0 ELSE n - 1

\* release_serving_lease names the runtime and no token, so it lands on whatever
\* transition is active there now.
CountRelease(rt) ==
  active' = IF Busy(rt)
            THEN [active EXCEPT ![rt].serving_leases = SaturatingPred(@)]
            ELSE active

\* A request served under the active transition ends.
ReleaseServingLease(rt) ==
  /\ serving[rt] > 0
  /\ CountRelease(rt)
  /\ serving' = [serving EXCEPT ![rt] = @ - 1]
  /\ UNCHANGED <<next_fencing_token, clock, held, completed, displaced, stale, drained>>

\* A request served under a transition that is gone ends.
ReleaseStaleLease(rt) ==
  /\ stale[rt] > 0
  /\ CountRelease(rt)
  /\ stale' = [stale EXCEPT ![rt] = @ - 1]
  /\ UNCHANGED <<next_fencing_token, clock, held, completed, displaced, serving, drained>>

\* The fencing check of complete().
CurrentToken(rt, tok) == Busy(rt) /\ active[rt].fencing_token = tok

\* complete: instance i presents a token it was told, at any later time and as
\* often as it likes.
Complete(i, rt, tok) ==
  /\ \E m \in Model : <<rt, tok, m>> \in held[i]
  /\ CurrentToken(rt, tok)
  /\ active' = [active EXCEPT ![rt] = NoTransition]
  /\ completed' = [completed EXCEPT ![tok] = @ + 1]
  /\ LeaveServing(rt)
  /\ UNCHANGED <<next_fencing_token, clock, held, displaced, drained>>

\* complete with a token that is not in force: refused.
CompleteFencedOff(i, rt, tok) ==
  /\ \E m \in Model : <<rt, tok, m>> \in held[i]
  /\ ~CurrentToken(rt, tok)
  /\ UNCHANGED vars

Tick ==
  /\ clock < MaxClock
  /\ clock' = clock + 1
  /\ UNCHANGED <<table, held, completed, displaced, serving, stale, drained>>

Next ==
  \/ \E r \in TransitionRequest :
       StartFresh(r) \/ TakeOverExpired(r) \/ Join(r) \/ Preempt(r) \/ Decline(r)
  \/ \E rt \in Runtime :
       AcquireServingLease(rt) \/ ReleaseServingLease(rt) \/ ReleaseStaleLease(rt)
  \/ \E i \in Instance, rt \in Runtime, tok \in Token :
       Complete(i, rt, tok) \/ CompleteFencedOff(i, rt, tok)
  \/ Tick

Spec == Init /\ [][Next]_vars

-----------------------------------------------------------------------------
(* Properties.                                                             *)

TypeOK ==
  /\ active \in [Runtime -> ActiveTransition \cup {NoTransition}]
  /\ next_fencing_token \in 1 .. MaxToken + 1
  /\ clock \in Nat
  /\ held \in [Instance -> SUBSET (Runtime \X Token \X Model)]
  /\ completed \in [Token -> Nat]
  /\ displaced \subseteq Token
  /\ serving \in [Runtime -> Nat]
  /\ stale \in [Runtime -> Nat]
  /\ drained \in [Runtime -> BOOLEAN]

\* Completion is exactly-once and fenced: however owners, joiners and stale
\* owners race, complete() accepts a token at most once, never after its
\* transition was taken over, and a token in force is neither.
SingleCompletion ==
  /\ \A tok \in Token :
       /\ completed[tok] <= 1
       /\ tok \in displaced => completed[tok] = 0
  /\ \A rt \in Runtime : Busy(rt) =>
       /\ completed[active[rt].fencing_token] = 0
       /\ active[rt].fencing_token \notin displaced

\* Nobody works at cross purposes under one token: every instance told a token,
\* as owner or joiner, was told it for the same runtime and the same model, and
\* while the token is in force that is what the coordinator's table says.
HoldersAgree ==
  /\ \A i, j \in Instance : \A h \in held[i], k \in held[j] :
       h[2] = k[2] => h = k
  /\ \A rt \in Runtime : Busy(rt) =>
       \A i \in Instance : \A h \in held[i] : h[2] = active[rt].fencing_token =>
         h[1] = rt /\ h[3] = active[rt].model

\* The serving count of a transition never exceeds the requests really in service
\* on its runtime, so no phantom lease can bar preemption for ever.
NoPhantomServingLease ==
  \A rt \in Runtime : Busy(rt) =>
    active[rt].serving_leases <= serving[rt] + stale[rt]

\* When no request of an earlier transition was still in service as this one
\* started, its serving count is exact.
ServingCountExact ==
  \A rt \in Runtime : Busy(rt) /\ drained[rt] =>
    active[rt].serving_leases = serving[rt]

Displaced(rt) ==
  /\ Busy(rt) /\ active'[rt] # NoTransition
  /\ active'[rt].fencing_token # active[rt].fencing_token

\* A transition on a live lease is displaced only by its own owner or by a request
\* that ranks higher: by priority, then interactive, then the smaller instance id
\* (incoming_wins' doc comment).
Outranks(a, b) ==
  \/ a.priority > b.priority
  \/ a.priority = b.priority /\ a.interactive /\ ~b.interactive
  \/ a.priority = b.priority /\ a.interactive = b.interactive /\ a.owner < b.owner

PreemptionRanked ==
  [][\A rt \in Runtime : Displaced(rt) /\ ~Expired(rt) =>
       \/ active'[rt].owner = active[rt].owner
       \/ Outranks(active'[rt], active[rt])]_vars

\* A transition that started on a drained runtime is not preempted while a request
\* it serves is in service and its lease is live.
DrainedServingProtected ==
  [][\A rt \in Runtime : Displaced(rt) /\ ~Expired(rt) /\ drained[rt] =>
       serving[rt] = 0]_vars

\* The same, as the doc comment of acquire_serving_lease states it, with no
\* condition on how the transition started.
ServingProtected ==
  [][\A rt \in Runtime : Displaced(rt) /\ ~Expired(rt) => serving[rt] = 0]_vars

\* The lease table implements FencedLease: policy, clock and serving leases never
\* let a fenced token back into force.
Fencing == INSTANCE FencedLease WITH
  holder <- [rt \in Runtime |-> IF Busy(rt) THEN active[rt].fencing_token ELSE 0],
  issued <- next_fencing_token - 1

ImplementsFencedLease == Fencing!Spec

FencedForever == Fencing!FencedForever
=============================================================================
