----------------------------- MODULE FencedLease -----------------------------
(***************************************************************************)
(* What the transition coordinator promises, with no policy and no clock:  *)
(* each runtime has at most one holder, known by the fencing token it was  *)
(* granted, and a token that stopped being the holder's is fenced off for  *)
(* good ("a take-over always advances the fencing token so a stale owner   *)
(* that resumes is fenced off").                                           *)
(***************************************************************************)
EXTENDS Naturals

CONSTANT Runtime

VARIABLES
  holder,  \* holder[rt]: the token in force on rt, 0 when the runtime is free
  issued   \* the highest token granted so far

vars == <<holder, issued>>

Init ==
  /\ holder = [rt \in Runtime |-> 0]
  /\ issued = 0

\* A new owner: whoever held the runtime is fenced off by a fresh token.
Grant(rt) ==
  /\ issued' = issued + 1
  /\ holder' = [holder EXCEPT ![rt] = issued + 1]

\* The holder is done and the runtime is free again.
Retire(rt) ==
  /\ holder[rt] # 0
  /\ holder' = [holder EXCEPT ![rt] = 0]
  /\ UNCHANGED issued

Next == \E rt \in Runtime : Grant(rt) \/ Retire(rt)

Spec == Init /\ [][Next]_vars

-----------------------------------------------------------------------------

TypeOK ==
  /\ holder \in [Runtime -> Nat]
  /\ issued \in Nat

Fenced == {tok \in 1 .. issued : \A rt \in Runtime : holder[rt] # tok}

\* A token in force was granted, and is in force on one runtime only.
TokensUnique ==
  /\ \A rt \in Runtime : holder[rt] <= issued
  /\ \A r1, r2 \in Runtime : holder[r1] = holder[r2] /\ r1 # r2 => holder[r1] = 0

\* A fenced token never comes back into force, on any runtime.
FencedForever == [][Fenced \subseteq Fenced']_vars
=============================================================================
