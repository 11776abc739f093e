-------------------------- MODULE FencedLeaseProofs --------------------------
(***************************************************************************)
(* Theorems of FencedLease for every set of runtimes.                      *)
(***************************************************************************)
EXTENDS FencedLease, TLAPS

LEMMA LeaseTyping == Spec => []TypeOK
<1>1. Init => TypeOK
  BY DEF Init, TypeOK
<1>2. TypeOK /\ [Next]_vars => TypeOK'
  BY DEF TypeOK, Next, Grant, Retire, vars
<1>3. QED
  BY <1>1, <1>2, PTL DEF Spec

\* A token in force was granted, and is in force on one runtime only.
THEOREM LeaseTokensUnique == Spec => []TokensUnique
<1>1. Init => TokensUnique
  BY DEF Init, TokensUnique
<1>2. TypeOK /\ TokensUnique /\ [Next]_vars => TokensUnique'
  <2> SUFFICES ASSUME TypeOK, TokensUnique, [Next]_vars PROVE TokensUnique'
    OBVIOUS
  <2> USE DEF TypeOK, TokensUnique
  <2>1. ASSUME NEW rt \in Runtime, Grant(rt) PROVE TokensUnique'
    BY <2>1 DEF Grant
  <2>2. ASSUME NEW rt \in Runtime, Retire(rt) PROVE TokensUnique'
    BY <2>2 DEF Retire
  <2>3. CASE UNCHANGED vars
    BY <2>3 DEF vars
  <2>4. QED
    BY <2>1, <2>2, <2>3 DEF Next
<1>3. QED
  BY <1>1, <1>2, LeaseTyping, PTL DEF Spec

\* A fenced token never comes back into force: a grant uses a token above every
\* one issued, and a retirement only removes one.
THEOREM LeaseFencedForever == Spec => FencedForever
<1>1. TypeOK /\ [Next]_vars => [Fenced \subseteq Fenced']_vars
  <2> SUFFICES ASSUME TypeOK, Next PROVE Fenced \subseteq Fenced'
    OBVIOUS
  <2>1. ASSUME NEW rt \in Runtime, Grant(rt) PROVE Fenced \subseteq Fenced'
    BY <2>1 DEF Grant, TypeOK, Fenced
  <2>2. ASSUME NEW rt \in Runtime, Retire(rt) PROVE Fenced \subseteq Fenced'
    BY <2>2 DEF Retire, TypeOK, Fenced
  <2>3. QED
    BY <2>1, <2>2 DEF Next
<1>2. QED
  BY <1>1, LeaseTyping, PTL DEF Spec, FencedForever
=============================================================================
