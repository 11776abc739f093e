--------------------- MODULE TransitionCoordinatorProofs ---------------------
(***************************************************************************)
(* Theorems of TransitionCoordinator, for every set of runtimes, models,   *)
(* instances and priorities and every value of the bounds.                 *)
(*                                                                         *)
(* TypeOK is inductive.  The fencing results rest on TokenInv: tokens in   *)
(* force are below next_fencing_token, on one runtime each, and every      *)
(* record of a token (held, completed, displaced) is of a token already    *)
(* issued.  The serving results rest on ServingInv, which needs TypeOK     *)
(* only: the two halves of the state do not depend on each other.          *)
(***************************************************************************)
EXTENDS TransitionCoordinator, TLAPS

FencingProofs == INSTANCE FencedLeaseProofs WITH
  holder <- [rt \in Runtime |-> IF Busy(rt) THEN active[rt].fencing_token ELSE 0],
  issued <- next_fencing_token - 1

-----------------------------------------------------------------------------
(* Arbitration.                                                            *)

\* For requests of different owners incoming_wins is a strict total order: with no
\* serving lease on either side, exactly one of the two would preempt the other.
THEOREM ArbitrationTotal ==
  ASSUME NEW r \in TransitionRequest, NEW a \in ActiveTransition,
         NEW s \in TransitionRequest, NEW b \in ActiveTransition,
         a.serving_leases = 0, b.serving_leases = 0,
         \* a is what s installed, and b what r installed
         a.owner = s.owner, a.priority = s.priority, a.interactive = s.interactive,
         b.owner = r.owner, b.priority = r.priority, b.interactive = r.interactive,
         r.owner # s.owner
  PROVE  IncomingWins(r, a) <=> ~IncomingWins(s, b)
<1>1. /\ r.owner \in Nat /\ s.owner \in Nat
      /\ r.priority \in Nat /\ s.priority \in Nat
      /\ r.interactive \in BOOLEAN /\ s.interactive \in BOOLEAN
  BY ConstantsAssumption DEF TransitionRequest
<1>2. QED
  BY <1>1 DEF IncomingWins

-----------------------------------------------------------------------------
(* Typing.                                                                 *)

LEMMA InstalledType ==
  ASSUME TypeOK, NEW r \in TransitionRequest, NEW tok \in Token
  PROVE  /\ Installed(r, tok) \in ActiveTransition
         /\ Installed(r, tok) # NoTransition
<1>1. clock + LeaseTtl \in Nat
  BY ConstantsAssumption DEF TypeOK
<1>2. Installed(r, tok) \in ActiveTransition
  BY <1>1 DEF Installed, ActiveTransition, TransitionRequest
<1>3. QED
  BY <1>2, NoTransitionAssumption

\* An active transition whose serving count changes is still an active transition.
LEMMA RecountType ==
  ASSUME NEW a \in ActiveTransition, NEW n \in Nat
  PROVE  /\ [a EXCEPT !.serving_leases = n] \in ActiveTransition
         /\ [a EXCEPT !.serving_leases = n] # NoTransition
<1>1. [a EXCEPT !.serving_leases = n] \in ActiveTransition
  BY DEF ActiveTransition
<1>2. QED
  BY <1>1, NoTransitionAssumption

\* The whole effect of Install on the typed state.
LEMMA InstallType ==
  ASSUME TypeOK, NEW r \in TransitionRequest, Install(r)
  PROVE  /\ next_fencing_token \in Token
         /\ next_fencing_token' \in 1 .. MaxToken + 1
         /\ active' \in [Runtime -> ActiveTransition \cup {NoTransition}]
         /\ held' \in [Instance -> SUBSET (Runtime \X Token \X Model)]
         /\ drained' \in [Runtime -> BOOLEAN]
         /\ serving' \in [Runtime -> Nat]
         /\ stale' \in [Runtime -> Nat]
<1>0. r.runtime \in Runtime /\ r.model \in Model /\ r.owner \in Instance
  BY DEF TransitionRequest
<1>1. /\ next_fencing_token \in Token
      /\ next_fencing_token' \in 1 .. MaxToken + 1
  BY ConstantsAssumption DEF Install, Token, TypeOK
<1>2. active' \in [Runtime -> ActiveTransition \cup {NoTransition}]
  BY <1>0, <1>1, InstalledType DEF Install, TypeOK
<1>3. held' \in [Instance -> SUBSET (Runtime \X Token \X Model)]
  BY <1>0, <1>1 DEF Install, TypeOK
<1>4. drained' \in [Runtime -> BOOLEAN]
  BY <1>0 DEF Install, TypeOK
<1>5. serving' \in [Runtime -> Nat] /\ stale' \in [Runtime -> Nat]
  BY <1>0 DEF Install, LeaveServing, TypeOK
<1>6. QED
  BY <1>1, <1>2, <1>3, <1>4, <1>5

LEMMA TypeStep == TypeOK /\ [Next]_vars => TypeOK'
<1> SUFFICES ASSUME TypeOK, [Next]_vars PROVE TypeOK'
  OBVIOUS
<1>1. ASSUME NEW r \in TransitionRequest, StartFresh(r) PROVE TypeOK'
  BY <1>1, InstallType DEF StartFresh, Install, TypeOK
<1>2. ASSUME NEW r \in TransitionRequest, Busy(r.runtime), TakeOver(r) PROVE TypeOK'
  <2>1. active[r.runtime].fencing_token \in Token
    BY <1>2 DEF Busy, TypeOK, TransitionRequest, ActiveTransition
  <2>2. displaced' \subseteq Token
    BY <1>2, <2>1 DEF TakeOver, TypeOK
  <2>3. QED
    BY <1>2, <2>2, InstallType DEF TakeOver, Install, TypeOK
<1>3. ASSUME NEW r \in TransitionRequest, Join(r) PROVE TypeOK'
  <2>1. /\ r.runtime \in Runtime /\ r.model \in Model /\ r.owner \in Instance
        /\ active[r.runtime].fencing_token \in Token
    BY <1>3 DEF Join, Busy, TypeOK, TransitionRequest, ActiveTransition
  <2>2. held' \in [Instance -> SUBSET (Runtime \X Token \X Model)]
    BY <1>3, <2>1 DEF Join, TypeOK
  <2>3. QED
    BY <1>3, <2>2 DEF Join, TypeOK, table
<1>4. ASSUME NEW rt \in Runtime, AcquireServingLease(rt) PROVE TypeOK'
  <2>1. active[rt] \in ActiveTransition
    BY <1>4 DEF AcquireServingLease, Busy, TypeOK
  <2>2. active[rt].serving_leases + 1 \in Nat
    BY <2>1 DEF ActiveTransition
  <2>3. active'[rt] \in ActiveTransition
    BY <1>4, <2>1, <2>2, RecountType DEF AcquireServingLease, TypeOK
  <2>4. QED
    BY <1>4, <2>3 DEF AcquireServingLease, TypeOK
<1>5. ASSUME NEW rt \in Runtime, CountRelease(rt)
      PROVE  active' \in [Runtime -> ActiveTransition \cup {NoTransition}]
  <2>1. CASE Busy(rt)
    <3>1. active[rt] \in ActiveTransition
      BY <2>1 DEF Busy, TypeOK
    <3>2. SaturatingPred(active[rt].serving_leases) \in Nat
      BY <3>1 DEF SaturatingPred, ActiveTransition
    <3>3. QED
      BY <1>5, <2>1, <3>1, <3>2, RecountType DEF CountRelease, TypeOK
  <2>2. CASE ~Busy(rt)
    BY <1>5, <2>2 DEF CountRelease, TypeOK
  <2>3. QED
    BY <2>1, <2>2
<1>6. ASSUME NEW rt \in Runtime, ReleaseServingLease(rt) PROVE TypeOK'
  BY <1>5, <1>6 DEF ReleaseServingLease, TypeOK
<1>7. ASSUME NEW rt \in Runtime, ReleaseStaleLease(rt) PROVE TypeOK'
  BY <1>5, <1>7 DEF ReleaseStaleLease, TypeOK
<1>8. ASSUME NEW i \in Instance, NEW rt \in Runtime, NEW tok \in Token, Complete(i, rt, tok)
      PROVE  TypeOK'
  BY <1>8 DEF Complete, LeaveServing, TypeOK
<1>9. CASE Tick
  BY <1>9 DEF Tick, TypeOK, table
<1>10. CASE UNCHANGED vars
  BY <1>10 DEF vars, TypeOK
<1>11. QED
  BY <1>1, <1>2, <1>3, <1>4, <1>6, <1>7, <1>8, <1>9, <1>10
  DEF Next, TakeOverExpired, Preempt, Conflict, Decline, CompleteFencedOff

\* Every reachable state is well typed.
THEOREM TypeCorrect == Spec => []TypeOK
<1>1. Init => TypeOK
  BY ConstantsAssumption DEF Init, TypeOK, Token
<1>2. QED
  BY <1>1, TypeStep, PTL DEF Spec

-----------------------------------------------------------------------------
(* Fencing.                                                                *)

\* Every record of a token is of one already issued; a token in force is in force
\* on one runtime and has not been completed or displaced, and those told of it were
\* told its runtime and its model (HoldersAgree).
TokenInv ==
  /\ \A rt \in Runtime : Busy(rt) => active[rt].fencing_token < next_fencing_token
  /\ \A r1, r2 \in Runtime :
       /\ Busy(r1) /\ Busy(r2)
       /\ active[r1].fencing_token = active[r2].fencing_token
       => r1 = r2
  /\ \A tok \in Token : tok >= next_fencing_token =>
       completed[tok] = 0 /\ tok \notin displaced
  /\ \A i \in Instance : \A h \in held[i] : h[2] < next_fencing_token
  /\ SingleCompletion
  /\ HoldersAgree

\* A transition installed over nothing keeps TokenInv, whatever happens to the
\* other runtimes' tokens.
LEMMA InstallTokens ==
  ASSUME TypeOK, TokenInv, NEW r \in TransitionRequest, Install(r),
         NEW D \in SUBSET Token, displaced' = displaced \cup D,
         \A tok \in D : Busy(r.runtime) /\ tok = active[r.runtime].fencing_token
  PROVE  TokenInv'
<1> DEFINE rt0 == r.runtime
           new == next_fencing_token
<1>0. /\ rt0 \in Runtime /\ r.model \in Model /\ r.owner \in Instance
      /\ new \in Token /\ new \in Nat
      /\ next_fencing_token' = new + 1
      /\ UNCHANGED completed
  BY InstallType DEF TransitionRequest, Install, Token
<1>1. /\ Busy(rt0)'
      /\ active'[rt0].fencing_token = new
      /\ active'[rt0].model = r.model
  BY <1>0, InstalledType DEF Install, Busy, TypeOK, Installed
<1>2. \A rt \in Runtime : rt # rt0 => active'[rt] = active[rt]
  BY <1>0 DEF Install, TypeOK
<1>3. \A i \in Instance : \A h \in held'[i] :
        h \in held[i] \/ h = <<rt0, new, r.model>>
  BY <1>0 DEF Install, TypeOK
<1>4. \A rt \in Runtime : Busy(rt) => active[rt].fencing_token \in Token
  BY DEF Busy, TypeOK, ActiveTransition
<1>5. \A i \in Instance : \A h \in held[i] : h \in Runtime \X Token \X Model
  BY DEF TypeOK
<1>6. \A rt \in Runtime : Busy(rt)' => active'[rt].fencing_token < new + 1
  BY <1>0, <1>1, <1>2, <1>4 DEF TokenInv, Busy, Token
<1>7. \A r1, r2 \in Runtime :
        /\ Busy(r1)' /\ Busy(r2)'
        /\ active'[r1].fencing_token = active'[r2].fencing_token
        => r1 = r2
  BY <1>0, <1>1, <1>2, <1>4 DEF TokenInv, Busy, Token
<1>8. \A tok \in Token : tok >= new + 1 => completed'[tok] = 0 /\ tok \notin displaced'
  BY <1>0, <1>4 DEF TokenInv, Token
<1>9. \A i \in Instance : \A h \in held'[i] : h[2] < new + 1
  BY <1>0, <1>3, <1>5 DEF TokenInv, Token
<1>10. \A rt \in Runtime : Busy(rt)' =>
         \A i \in Instance : \A h \in held'[i] : h[2] = active'[rt].fencing_token =>
           h[1] = rt /\ h[3] = active'[rt].model
  <2> SUFFICES ASSUME NEW rt \in Runtime, Busy(rt)',
                      NEW i \in Instance, NEW h \in held'[i],
                      h[2] = active'[rt].fencing_token
               PROVE  h[1] = rt /\ h[3] = active'[rt].model
    OBVIOUS
  <2>1. CASE rt = rt0
    BY <2>1, <1>0, <1>1, <1>3, <1>5 DEF TokenInv, Token
  <2>2. CASE rt # rt0
    BY <2>2, <1>0, <1>2, <1>3, <1>4, <1>5 DEF TokenInv, HoldersAgree, Token, Busy
  <2>3. QED
    BY <2>1, <2>2
<1>11. SingleCompletion'
  <2>1. ASSUME NEW tok \in Token
        PROVE  completed'[tok] <= 1 /\ (tok \in displaced' => completed'[tok] = 0)
    BY <1>0 DEF TokenInv, SingleCompletion
  <2>2. ASSUME NEW rt \in Runtime, Busy(rt)'
        PROVE  /\ completed'[active'[rt].fencing_token] = 0
               /\ active'[rt].fencing_token \notin displaced'
    <3>1. CASE rt = rt0
      BY <3>1, <1>0, <1>1, <1>4 DEF TokenInv, Token
    <3>2. CASE rt # rt0
      <4>1. Busy(rt) /\ active'[rt].fencing_token = active[rt].fencing_token
        BY <2>2, <3>2, <1>2 DEF Busy
      <4>2. active[rt].fencing_token \notin D
        BY <4>1, <3>2, <1>0 DEF TokenInv
      <4>3. QED
        BY <4>1, <4>2, <1>0 DEF TokenInv, SingleCompletion
    <3>3. QED
      BY <3>1, <3>2
  <2>3. QED
    BY <2>1, <2>2 DEF SingleCompletion
<1>12. HoldersAgree'
  BY <1>0, <1>3, <1>5, <1>10 DEF TokenInv, HoldersAgree, Token
<1>13. QED
  BY <1>0, <1>6, <1>7, <1>8, <1>9, <1>10, <1>11, <1>12 DEF TokenInv

LEMMA TokenStep == TypeOK /\ TokenInv /\ [Next]_vars => TokenInv'
<1> SUFFICES ASSUME TypeOK, TokenInv, [Next]_vars PROVE TokenInv'
  OBVIOUS
<1>0. \A rt \in Runtime : Busy(rt) =>
        active[rt] \in ActiveTransition /\ active[rt].fencing_token \in Token
  BY DEF Busy, TypeOK, ActiveTransition
<1>1. ASSUME NEW r \in TransitionRequest, StartFresh(r) PROVE TokenInv'
  <2> DEFINE D == {}
  <2>1. /\ Install(r)
        /\ D \in SUBSET Token /\ displaced' = displaced \cup D
        /\ \A tok \in D : Busy(r.runtime) /\ tok = active[r.runtime].fencing_token
    BY <1>1 DEF StartFresh
  <2> HIDE DEF D
  <2>2. QED
    BY <2>1, InstallTokens
<1>2. ASSUME NEW r \in TransitionRequest, Busy(r.runtime), TakeOver(r) PROVE TokenInv'
  <2> DEFINE D == {active[r.runtime].fencing_token}
  <2>1. /\ Install(r)
        /\ D \in SUBSET Token /\ displaced' = displaced \cup D
        /\ \A tok \in D : Busy(r.runtime) /\ tok = active[r.runtime].fencing_token
    BY <1>0, <1>2 DEF TakeOver, TransitionRequest
  <2> HIDE DEF D
  <2>2. QED
    BY <2>1, InstallTokens
<1>3. ASSUME NEW r \in TransitionRequest, Join(r) PROVE TokenInv'
  <2> DEFINE h0 == <<r.runtime, active[r.runtime].fencing_token, r.model>>
  <2>1. /\ r.runtime \in Runtime /\ r.owner \in Instance
        /\ Busy(r.runtime) /\ active[r.runtime].model = r.model
    BY <1>3 DEF Join, Joins, TransitionRequest
  <2>2. /\ UNCHANGED <<active, next_fencing_token, completed, displaced>>
        /\ \A i \in Instance : \A h \in held'[i] : h \in held[i] \/ h = h0
    BY <1>3, <2>1 DEF Join, TypeOK, table
  <2>3. \A i \in Instance : \A h \in held[i] : h \in Runtime \X Token \X Model
    BY DEF TypeOK
  <2>4. \A i \in Instance : \A h \in held'[i] : h[2] < next_fencing_token'
    BY <1>0, <2>1, <2>2 DEF TokenInv, Busy
  <2>5. HoldersAgree'
    <3>1. \A i, j \in Instance : \A h \in held'[i], k \in held'[j] : h[2] = k[2] => h = k
      BY <1>0, <2>1, <2>2, <2>3 DEF TokenInv, HoldersAgree
    <3>2. \A rt \in Runtime : Busy(rt)' =>
            \A i \in Instance : \A h \in held'[i] : h[2] = active'[rt].fencing_token =>
              h[1] = rt /\ h[3] = active'[rt].model
      BY <1>0, <2>1, <2>2 DEF TokenInv, HoldersAgree, Busy
    <3>3. QED
      BY <3>1, <3>2 DEF HoldersAgree
  <2>6. QED
    BY <2>2, <2>4, <2>5 DEF TokenInv, SingleCompletion, Busy
<1>4. ASSUME UNCHANGED <<next_fencing_token, held, completed, displaced>>,
             active' \in [Runtime -> ActiveTransition \cup {NoTransition}],
             \A rt \in Runtime :
               /\ Busy(rt)' <=> Busy(rt)
               /\ Busy(rt) => /\ active'[rt].fencing_token = active[rt].fencing_token
                              /\ active'[rt].model = active[rt].model
      PROVE  TokenInv'
  BY <1>4 DEF TokenInv, SingleCompletion, HoldersAgree
<1>5. ASSUME NEW rt0 \in Runtime, NEW n \in Nat, Busy(rt0),
             UNCHANGED <<next_fencing_token, held, completed, displaced>>,
             active' = [active EXCEPT ![rt0] = [active[rt0] EXCEPT !.serving_leases = n]]
      PROVE  TokenInv'
  <2>1. active[rt0] \in ActiveTransition
    BY <1>0, <1>5
  <2>2. active'[rt0] = [active[rt0] EXCEPT !.serving_leases = n]
    BY <1>5 DEF TypeOK
  <2>3. /\ active'[rt0] \in ActiveTransition
        /\ active'[rt0] # NoTransition
        /\ active'[rt0].fencing_token = active[rt0].fencing_token
        /\ active'[rt0].model = active[rt0].model
    BY <2>1, <2>2, RecountType DEF ActiveTransition
  <2>4. QED
    BY <1>4, <1>5, <2>3 DEF Busy, TypeOK
<1>6. ASSUME NEW rt \in Runtime, AcquireServingLease(rt) PROVE TokenInv'
  <2>1. active[rt].serving_leases + 1 \in Nat
    BY <1>0, <1>6 DEF AcquireServingLease, ActiveTransition
  <2>2. QED
    BY <1>5, <1>6, <2>1 DEF AcquireServingLease
<1>7. ASSUME NEW rt \in Runtime, CountRelease(rt),
             UNCHANGED <<next_fencing_token, held, completed, displaced>>
      PROVE  TokenInv'
  <2>1. CASE Busy(rt)
    <3>1. SaturatingPred(active[rt].serving_leases) \in Nat
      BY <1>0, <2>1 DEF SaturatingPred, ActiveTransition
    <3>2. QED
      BY <1>5, <1>7, <2>1, <3>1 DEF CountRelease
  <2>2. CASE ~Busy(rt)
    BY <1>4, <1>7, <2>2 DEF CountRelease, TypeOK, Busy
  <2>3. QED
    BY <2>1, <2>2
<1>8. ASSUME NEW i \in Instance, NEW rt0 \in Runtime, NEW tok \in Token, Complete(i, rt0, tok)
      PROVE  TokenInv'
  <2>1. /\ Busy(rt0) /\ active[rt0].fencing_token = tok
        /\ ~Busy(rt0)'
        /\ \A rt \in Runtime : rt # rt0 => active'[rt] = active[rt]
        /\ UNCHANGED <<next_fencing_token, held, displaced>>
        /\ completed' = [completed EXCEPT ![tok] = @ + 1]
    BY <1>8 DEF Complete, CurrentToken, Busy, TypeOK
  <2>2. \A t \in Token : completed'[t] = IF t = tok THEN 1 ELSE completed[t]
    BY <2>1 DEF TokenInv, SingleCompletion, TypeOK
  <2>3. SingleCompletion'
    BY <1>0, <2>1, <2>2 DEF TokenInv, SingleCompletion, Busy
  <2>4. HoldersAgree'
    BY <2>1 DEF TokenInv, HoldersAgree, Busy
  <2>5. \A t \in Token : t >= next_fencing_token' => completed'[t] = 0 /\ t \notin displaced'
    BY <1>0, <2>1, <2>2 DEF TokenInv, TypeOK, Token
  <2>6. QED
    BY <2>1, <2>3, <2>4, <2>5 DEF TokenInv, Busy
<1>9. ASSUME UNCHANGED <<active, next_fencing_token, held, completed, displaced>>
      PROVE  TokenInv'
  BY <1>9 DEF TokenInv, SingleCompletion, HoldersAgree, Busy
<1>10. QED
  BY <1>1, <1>2, <1>3, <1>6, <1>7, <1>8, <1>9
  DEF Next, TakeOverExpired, Preempt, Conflict, Decline, CompleteFencedOff,
      ReleaseServingLease, ReleaseStaleLease, Tick, vars, table

LEMMA TokensCorrect == Spec => []TokenInv
<1>1. Init => TokenInv
  BY ConstantsAssumption DEF Init, TokenInv, SingleCompletion, HoldersAgree, Busy
<1>2. QED
  BY <1>1, TokenStep, TypeCorrect, PTL DEF Spec

\* However owners, joiners and stale owners race, a token is completed at most once
\* and never after its transition was taken over.
THEOREM CompletionSafe == Spec => []SingleCompletion
<1>1. TokenInv => SingleCompletion
  BY DEF TokenInv
<1>2. QED
  BY <1>1, TokensCorrect, PTL

\* Instances that hold the same token work on the same runtime and model, and while it
\* is in force on the ones of the coordinator's table.
THEOREM HoldersSafe == Spec => []HoldersAgree
<1>1. TokenInv => HoldersAgree
  BY DEF TokenInv
<1>2. QED
  BY <1>1, TokensCorrect, PTL

-----------------------------------------------------------------------------
(* Serving leases and preemption.                                          *)

\* What makes the exact count inductive: no stale lease can turn up later on a
\* transition that started on a drained runtime.
NoLateStaleLease == \A rt \in Runtime : Busy(rt) /\ drained[rt] => stale[rt] = 0

ServingInv ==
  /\ NoPhantomServingLease
  /\ ServingCountExact
  /\ NoLateStaleLease

LEMMA InstallServing ==
  ASSUME TypeOK, ServingInv, NEW r \in TransitionRequest, Install(r)
  PROVE  ServingInv'
<1>1. r.runtime \in Runtime /\ next_fencing_token \in Token
  BY InstallType DEF TransitionRequest
<1>2. /\ active'[r.runtime].serving_leases = 0
      /\ serving'[r.runtime] = 0
      /\ stale'[r.runtime] \in Nat
      /\ drained'[r.runtime] => stale'[r.runtime] = 0
  BY <1>1, InstallType DEF Install, Installed, LeaveServing, TypeOK
<1>3. \A rt \in Runtime : rt # r.runtime =>
        /\ active'[rt] = active[rt]
        /\ serving'[rt] = serving[rt] /\ stale'[rt] = stale[rt]
        /\ drained'[rt] = drained[rt]
  BY <1>1 DEF Install, LeaveServing, TypeOK
<1>4. QED
  BY <1>2, <1>3 DEF ServingInv, NoPhantomServingLease, ServingCountExact, NoLateStaleLease, Busy

LEMMA ServingStep == TypeOK /\ ServingInv /\ [Next]_vars => ServingInv'
<1> SUFFICES ASSUME TypeOK, ServingInv, [Next]_vars PROVE ServingInv'
  OBVIOUS
<1>0. \A rt \in Runtime : Busy(rt) =>
        active[rt] \in ActiveTransition /\ active[rt].serving_leases \in Nat
  BY DEF Busy, TypeOK, ActiveTransition
<1>1. ASSUME NEW r \in TransitionRequest, Install(r) PROVE ServingInv'
  BY <1>1, InstallServing
<1>2. ASSUME UNCHANGED <<active, serving, stale, drained>> PROVE ServingInv'
  BY <1>2 DEF ServingInv, NoPhantomServingLease, ServingCountExact, NoLateStaleLease, Busy
\* A step that gives rt0 the count n and leaves the other runtimes alone.
<1>3. ASSUME NEW rt0 \in Runtime, NEW n \in Nat, Busy(rt0),
             active' = [active EXCEPT ![rt0] = [active[rt0] EXCEPT !.serving_leases = n]],
             \A rt \in Runtime : rt # rt0 =>
               serving'[rt] = serving[rt] /\ stale'[rt] = stale[rt],
             UNCHANGED drained,
             n <= serving'[rt0] + stale'[rt0],
             drained[rt0] => n = serving'[rt0] /\ stale'[rt0] = 0
      PROVE  ServingInv'
  <2>1. active'[rt0].serving_leases = n
    BY <1>0, <1>3 DEF TypeOK, ActiveTransition
  <2>2. \A rt \in Runtime : rt # rt0 => active'[rt] = active[rt]
    BY <1>3 DEF TypeOK
  <2>3. QED
    BY <1>3, <2>1, <2>2 DEF ServingInv, NoPhantomServingLease, ServingCountExact, NoLateStaleLease, Busy
<1>4. ASSUME NEW rt \in Runtime, AcquireServingLease(rt) PROVE ServingInv'
  <2> DEFINE n == active[rt].serving_leases + 1
  <2>1. /\ Busy(rt) /\ n \in Nat
        /\ active' = [active EXCEPT ![rt] = [active[rt] EXCEPT !.serving_leases = n]]
        /\ serving' = [serving EXCEPT ![rt] = @ + 1]
        /\ UNCHANGED <<stale, drained>>
    BY <1>0, <1>4 DEF AcquireServingLease
  <2>2. n <= serving'[rt] + stale'[rt] /\ (drained[rt] => n = serving'[rt] /\ stale'[rt] = 0)
    BY <1>0, <2>1 DEF ServingInv, NoPhantomServingLease, ServingCountExact, NoLateStaleLease, TypeOK
  <2>3. \A r \in Runtime : r # rt => serving'[r] = serving[r] /\ stale'[r] = stale[r]
    BY <2>1 DEF TypeOK
  <2> HIDE DEF n
  <2>4. QED
    BY <1>3, <2>1, <2>2, <2>3
<1>5. ASSUME NEW rt \in Runtime, ReleaseServingLease(rt) PROVE ServingInv'
  <2> DEFINE n == SaturatingPred(active[rt].serving_leases)
  <2>0. /\ serving[rt] > 0 /\ CountRelease(rt)
        /\ serving' = [serving EXCEPT ![rt] = @ - 1]
        /\ UNCHANGED <<stale, drained>>
    BY <1>5 DEF ReleaseServingLease
  <2>1. \A r \in Runtime : r # rt => serving'[r] = serving[r] /\ stale'[r] = stale[r]
    BY <2>0 DEF TypeOK
  <2>2. CASE Busy(rt)
    <3>1. /\ n \in Nat
          /\ active' = [active EXCEPT ![rt] = [active[rt] EXCEPT !.serving_leases = n]]
      BY <1>0, <2>0, <2>2 DEF CountRelease, SaturatingPred
    <3>2. n <= serving'[rt] + stale'[rt] /\ (drained[rt] => n = serving'[rt] /\ stale'[rt] = 0)
      BY <1>0, <2>0, <2>2
      DEF ServingInv, NoPhantomServingLease, ServingCountExact, NoLateStaleLease, TypeOK, SaturatingPred
    <3> HIDE DEF n
    <3>3. QED
      BY <1>3, <2>0, <2>1, <2>2, <3>1, <3>2
  <2>3. CASE ~Busy(rt)
    BY <2>0, <2>1, <2>3
    DEF CountRelease, ServingInv, NoPhantomServingLease, ServingCountExact, NoLateStaleLease, Busy
  <2>4. QED
    BY <2>2, <2>3
<1>6. ASSUME NEW rt \in Runtime, ReleaseStaleLease(rt) PROVE ServingInv'
  <2> DEFINE n == SaturatingPred(active[rt].serving_leases)
  <2>0. /\ stale[rt] > 0 /\ CountRelease(rt)
        /\ stale' = [stale EXCEPT ![rt] = @ - 1]
        /\ UNCHANGED <<serving, drained>>
    BY <1>6 DEF ReleaseStaleLease
  <2>1. \A r \in Runtime : r # rt => serving'[r] = serving[r] /\ stale'[r] = stale[r]
    BY <2>0 DEF TypeOK
  <2>2. CASE Busy(rt)
    <3>1. /\ n \in Nat
          /\ active' = [active EXCEPT ![rt] = [active[rt] EXCEPT !.serving_leases = n]]
      BY <1>0, <2>0, <2>2 DEF CountRelease, SaturatingPred
    <3>2. ~drained[rt]
      BY <2>0, <2>2 DEF ServingInv, NoLateStaleLease
    <3>3. n <= serving'[rt] + stale'[rt]
      BY <1>0, <2>0, <2>2 DEF ServingInv, NoPhantomServingLease, TypeOK, SaturatingPred
    <3> HIDE DEF n
    <3>4. QED
      BY <1>3, <2>0, <2>1, <2>2, <3>1, <3>2, <3>3
  <2>3. CASE ~Busy(rt)
    BY <2>0, <2>1, <2>3
    DEF CountRelease, ServingInv, NoPhantomServingLease, ServingCountExact,
        NoLateStaleLease, Busy
  <2>4. QED
    BY <2>2, <2>3
<1>7. ASSUME NEW i \in Instance, NEW rt0 \in Runtime, NEW tok \in Token, Complete(i, rt0, tok)
      PROVE  ServingInv'
  <2>1. /\ ~Busy(rt0)'
        /\ \A rt \in Runtime : rt # rt0 =>
             /\ active'[rt] = active[rt]
             /\ serving'[rt] = serving[rt] /\ stale'[rt] = stale[rt]
        /\ UNCHANGED drained
    BY <1>7 DEF Complete, LeaveServing, TypeOK, Busy
  <2>2. QED
    BY <2>1
    DEF ServingInv, NoPhantomServingLease, ServingCountExact, NoLateStaleLease, Busy
<1>8. QED
  BY <1>1, <1>2, <1>4, <1>5, <1>6, <1>7
  DEF Next, StartFresh, TakeOverExpired, Preempt, TakeOver, Join, Decline,
      CompleteFencedOff, Tick, vars, table

\* Serving counts never exceed the requests in service, and are exact on a
\* transition that started on a drained runtime.
THEOREM ServingSafe == Spec => [](NoPhantomServingLease /\ ServingCountExact)
<1>1. Init => ServingInv
  BY DEF Init, ServingInv, NoPhantomServingLease, ServingCountExact, NoLateStaleLease, Busy
<1>2. ServingInv => NoPhantomServingLease /\ ServingCountExact
  BY DEF ServingInv
<1>3. QED
  BY <1>1, <1>2, ServingStep, TypeCorrect, PTL DEF Spec

\* No phantom serving lease can bar preemption: the count never exceeds the requests in
\* service on the runtime, whichever transition they leased (release_serving_lease).
THEOREM NoPhantomSafe == Spec => []NoPhantomServingLease
BY ServingSafe, PTL

\* Only a preemption displaces a transition whose lease is live.
LEMMA DisplacingSteps ==
  ASSUME TypeOK, [Next]_vars, NEW rt \in Runtime, Displaced(rt), ~Expired(rt)
  PROVE  \E r \in TransitionRequest :
           /\ r.runtime = rt /\ Preempt(r)
           /\ active'[rt] = Installed(r, next_fencing_token)
<1>0. Busy(rt) /\ active[rt] \in ActiveTransition
  BY DEF Displaced, Busy, TypeOK
<1>1. ASSUME NEW r \in TransitionRequest, Install(r)
      PROVE  /\ r.runtime = rt
             /\ active'[rt] = Installed(r, next_fencing_token)
  <2>1. r.runtime \in Runtime
    BY DEF TransitionRequest
  <2>2. r.runtime = rt
    BY <1>1, <2>1 DEF Install, TypeOK, Displaced
  <2>3. QED
    BY <1>1, <2>1, <2>2 DEF Install, TypeOK
<1>2. ASSUME NEW rt0 \in Runtime, NEW n \in Nat,
             active' = [active EXCEPT ![rt0] = [active[rt0] EXCEPT !.serving_leases = n]]
      PROVE  FALSE
  <2>1. CASE rt0 = rt
    <3>1. active'[rt] = [active[rt] EXCEPT !.serving_leases = n]
      BY <1>2, <2>1 DEF TypeOK
    <3>2. QED
      BY <1>0, <3>1 DEF Displaced, ActiveTransition
  <2>2. CASE rt0 # rt
    BY <1>2, <2>2 DEF Displaced, TypeOK
  <2>3. QED
    BY <2>1, <2>2
<1>3. ASSUME NEW r \in TransitionRequest, StartFresh(r) PROVE FALSE
  BY <1>0, <1>1, <1>3 DEF StartFresh
<1>4. ASSUME NEW r \in TransitionRequest, TakeOverExpired(r) PROVE FALSE
  BY <1>1, <1>4 DEF TakeOverExpired, TakeOver
<1>5. ASSUME NEW r \in TransitionRequest, Preempt(r)
      PROVE  r.runtime = rt /\ active'[rt] = Installed(r, next_fencing_token)
  BY <1>1, <1>5 DEF Preempt, TakeOver
<1>6. ASSUME NEW rt0 \in Runtime,
             AcquireServingLease(rt0) \/ CountRelease(rt0)
      PROVE  FALSE
  <2>1. CASE ~Busy(rt0)
    BY <1>6, <2>1 DEF AcquireServingLease, CountRelease, Displaced
  <2>2. CASE Busy(rt0)
    <3>1. active[rt0].serving_leases \in Nat
      BY <2>2 DEF Busy, TypeOK, ActiveTransition
    <3>2. /\ active[rt0].serving_leases + 1 \in Nat
          /\ SaturatingPred(active[rt0].serving_leases) \in Nat
      BY <3>1 DEF SaturatingPred
    <3>3. QED
      BY <1>2, <1>6, <2>2, <3>2 DEF AcquireServingLease, CountRelease
  <2>3. QED
    BY <2>1, <2>2
<1>7. ASSUME NEW i \in Instance, NEW rt0 \in Runtime, NEW tok \in Token, Complete(i, rt0, tok)
      PROVE  FALSE
  BY <1>7 DEF Complete, Displaced, TypeOK
<1>8. UNCHANGED active => FALSE
  BY DEF Displaced
<1>9. QED
  BY <1>3, <1>4, <1>5, <1>6, <1>7, <1>8
  DEF Next, Join, Decline, CompleteFencedOff, ReleaseServingLease, ReleaseStaleLease,
      Tick, vars, table

\* A transition on a live lease is displaced only by its own owner or by a request
\* that outranks it.
THEOREM PreemptionRankedSafe == Spec => PreemptionRanked
<1>1. TypeOK /\ [Next]_vars =>
        [\A rt \in Runtime : Displaced(rt) /\ ~Expired(rt) =>
           \/ active'[rt].owner = active[rt].owner
           \/ Outranks(active'[rt], active[rt])]_vars
  <2> SUFFICES ASSUME TypeOK, [Next]_vars, NEW rt \in Runtime, Displaced(rt), ~Expired(rt)
               PROVE  active'[rt].owner = active[rt].owner
                      \/ Outranks(active'[rt], active[rt])
    OBVIOUS
  <2>1. PICK r \in TransitionRequest :
          /\ r.runtime = rt /\ Preempt(r)
          /\ active'[rt] = Installed(r, next_fencing_token)
    BY DisplacingSteps
  <2>2. QED
    BY <2>1 DEF Preempt, IncomingWins, Installed, Outranks
<1>2. QED
  BY <1>1, TypeCorrect, PTL DEF Spec, PreemptionRanked

\* On a transition that started on a drained runtime, a live lease protects the
\* requests in service from preemption.
THEOREM DrainedServingSafe == Spec => DrainedServingProtected
<1>1. TypeOK /\ ServingInv /\ [Next]_vars =>
        [\A rt \in Runtime : Displaced(rt) /\ ~Expired(rt) /\ drained[rt] =>
           serving[rt] = 0]_vars
  <2> SUFFICES ASSUME TypeOK, ServingInv, [Next]_vars,
                      NEW rt \in Runtime, Displaced(rt), ~Expired(rt), drained[rt]
               PROVE  serving[rt] = 0
    OBVIOUS
  <2>1. PICK r \in TransitionRequest : r.runtime = rt /\ Preempt(r)
    BY DisplacingSteps
  <2>2. active[rt].serving_leases = 0
    BY <2>1 DEF Preempt, IncomingWins
  <2>3. QED
    BY <2>2 DEF ServingInv, ServingCountExact, Displaced
<1>2. Init => ServingInv
  BY DEF Init, ServingInv, NoPhantomServingLease, ServingCountExact, NoLateStaleLease, Busy
<1>3. QED
  BY <1>1, <1>2, ServingStep, TypeCorrect, PTL DEF Spec, DrainedServingProtected

-----------------------------------------------------------------------------
(* Refinement.                                                             *)

\* The lease table implements FencedLease.
THEOREM LeaseRefinement == Spec => ImplementsFencedLease
<1> DEFINE hold == [rt \in Runtime |-> IF Busy(rt) THEN active[rt].fencing_token ELSE 0]
<1>1. Init => Fencing!Init
  BY DEF Init, Fencing!Init, Busy
<1>2. TypeOK /\ [Next]_vars => [Fencing!Next]_Fencing!vars
  <2> SUFFICES ASSUME TypeOK, [Next]_vars
               PROVE  Fencing!Next \/ UNCHANGED <<hold, next_fencing_token>>
    BY DEF Fencing!vars
  <2>1. ASSUME NEW r \in TransitionRequest, Install(r) PROVE Fencing!Grant(r.runtime)
    <3>1. /\ r.runtime \in Runtime /\ next_fencing_token \in Nat
          /\ next_fencing_token \in Token
          /\ next_fencing_token' = next_fencing_token + 1
      BY <2>1, InstallType DEF TransitionRequest, Install, Token
    <3>2. hold' = [hold EXCEPT ![r.runtime] = next_fencing_token]
      <4>1. hold'[r.runtime] = next_fencing_token
        BY <2>1, <3>1, InstalledType DEF Install, Installed, TypeOK, Busy
      <4>2. \A rt \in Runtime : rt # r.runtime => hold'[rt] = hold[rt]
        BY <2>1, <3>1 DEF Install, TypeOK, Busy
      <4>3. QED
        BY <3>1, <4>1, <4>2
    <3>3. QED
      BY <3>1, <3>2 DEF Fencing!Grant
  <2>2. ASSUME NEW i \in Instance, NEW rt \in Runtime, NEW tok \in Token, Complete(i, rt, tok)
        PROVE  Fencing!Retire(rt)
    <3>1. hold[rt] = tok /\ tok # 0
      BY <2>2 DEF Complete, CurrentToken, Token
    <3>2. hold' = [hold EXCEPT ![rt] = 0]
      BY <2>2 DEF Complete, TypeOK, Busy
    <3>3. QED
      BY <2>2, <3>1, <3>2 DEF Fencing!Retire, Complete
  <2>3. ASSUME NEW rt0 \in Runtime, NEW n \in Nat, Busy(rt0),
               active' = [active EXCEPT ![rt0] = [active[rt0] EXCEPT !.serving_leases = n]]
        PROVE  UNCHANGED hold
    <3>1. /\ active[rt0] \in ActiveTransition
          /\ active'[rt0] = [active[rt0] EXCEPT !.serving_leases = n]
      BY <2>3 DEF Busy, TypeOK
    <3>2. /\ active'[rt0] # NoTransition
          /\ active'[rt0].fencing_token = active[rt0].fencing_token
      BY <3>1, RecountType DEF ActiveTransition
    <3>3. QED
      BY <2>3, <3>2 DEF Busy, TypeOK
  <2>4. ASSUME NEW rt \in Runtime, AcquireServingLease(rt) \/ CountRelease(rt)
        PROVE  UNCHANGED hold
    <3>1. CASE ~Busy(rt)
      BY <2>4, <3>1 DEF AcquireServingLease, CountRelease, Busy
    <3>2. CASE Busy(rt)
      <4>1. active[rt].serving_leases \in Nat
        BY <3>2 DEF Busy, TypeOK, ActiveTransition
      <4>2. /\ active[rt].serving_leases + 1 \in Nat
            /\ SaturatingPred(active[rt].serving_leases) \in Nat
        BY <4>1 DEF SaturatingPred
      <4> HIDE DEF hold
      <4>3. QED
        BY <2>3, <2>4, <3>2, <4>2 DEF AcquireServingLease, CountRelease
    <3>3. QED
      BY <3>1, <3>2
  <2>5. UNCHANGED active => UNCHANGED hold
    BY DEF Busy
  <2>6. ASSUME Next
        PROVE  Fencing!Next \/ UNCHANGED <<hold, next_fencing_token>>
    <3>1. ASSUME NEW r \in TransitionRequest,
                 StartFresh(r) \/ TakeOverExpired(r) \/ Preempt(r)
          PROVE  Fencing!Next
      BY <2>1, <3>1
      DEF StartFresh, TakeOverExpired, Preempt, TakeOver, Fencing!Next, TransitionRequest
    <3>2. ASSUME NEW r \in TransitionRequest, Join(r) \/ Decline(r)
          PROVE  UNCHANGED <<hold, next_fencing_token>>
      BY <2>5, <3>2 DEF Join, Decline, vars, table
    <3>3. ASSUME NEW rt \in Runtime,
                 AcquireServingLease(rt) \/ ReleaseServingLease(rt) \/ ReleaseStaleLease(rt)
          PROVE  UNCHANGED <<hold, next_fencing_token>>
      BY <2>4, <3>3 DEF AcquireServingLease, ReleaseServingLease, ReleaseStaleLease
    <3>4. ASSUME NEW i \in Instance, NEW rt \in Runtime, NEW tok \in Token,
                 Complete(i, rt, tok)
          PROVE  Fencing!Next
      BY <2>2, <3>4 DEF Fencing!Next
    <3>5. ASSUME NEW i \in Instance, NEW rt \in Runtime, NEW tok \in Token,
                 CompleteFencedOff(i, rt, tok)
          PROVE  UNCHANGED <<hold, next_fencing_token>>
      BY <2>5, <3>5 DEF CompleteFencedOff, vars
    <3>6. Tick => UNCHANGED <<hold, next_fencing_token>>
      BY <2>5 DEF Tick, table
    <3> HIDE DEF hold
    <3>7. QED
      BY <2>6, <3>1, <3>2, <3>3, <3>4, <3>5, <3>6 DEF Next
  <2>7. QED
    BY <2>5, <2>6 DEF vars
<1>3. QED
  BY <1>1, <1>2, TypeCorrect, PTL DEF Spec, ImplementsFencedLease, Fencing!Spec

\* So a fencing token that was completed or taken over is never in force again.
THEOREM FencedOffForever == Spec => FencedForever
<1>1. FencingProofs!Spec => FencingProofs!FencedForever
  BY FencingProofs!LeaseFencedForever
<1>2. /\ Fencing!Init => FencingProofs!Init
      /\ [Fencing!Next]_Fencing!vars => [FencingProofs!Next]_FencingProofs!vars
  BY DEF Fencing!Init, FencingProofs!Init, Fencing!Next, FencingProofs!Next,
         Fencing!Grant, FencingProofs!Grant, Fencing!Retire, FencingProofs!Retire,
         Fencing!vars, FencingProofs!vars
<1>3. [FencingProofs!Fenced \subseteq FencingProofs!Fenced']_FencingProofs!vars =>
        [Fencing!Fenced \subseteq Fencing!Fenced']_Fencing!vars
  BY DEF Fencing!Fenced, FencingProofs!Fenced, Fencing!vars, FencingProofs!vars
<1>4. QED
  BY <1>1, <1>2, <1>3, LeaseRefinement, PTL
  DEF ImplementsFencedLease, FencedForever, Fencing!Spec, FencingProofs!Spec,
      Fencing!FencedForever, FencingProofs!FencedForever
=============================================================================
