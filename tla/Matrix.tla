------------------------------- MODULE Matrix -------------------------------
(***************************************************************************)
(* The colocation sets of a llama-swap matrix (llama_swap/matrix.rs): a    *)
(* recursive-descent parser from the tokens of an expression to the        *)
(* loadouts it admits, each a set of models.  Tokens are "&", "|", "(",    *)
(* ")" and identifiers; an alias stands for the model vars gives it.       *)
(***************************************************************************)
EXTENDS Integers, Sequences

Operator == {"&", "|", "(", ")"}

\* A mutated form: an alternative of either side, as for |.
CrossUnion_Alternatives(lhs, rhs) == lhs \cup rhs

\* An operand without models does not erase the other's.
CrossUnion(lhs, rhs) ==
  IF lhs = {} THEN rhs
  ELSE IF rhs = {} THEN lhs
  ELSE {left \cup right : left \in lhs, right \in rhs}

Resolved(vars, id) == IF id \in DOMAIN vars THEN vars[id] ELSE id

At(tokens, pos) == IF pos \in DOMAIN tokens THEN tokens[pos] ELSE ")"

(* A rule gives the loadouts it has read from a position on and the        *)
(* position it leaves off at; parsed is what the rules give further on.    *)

ParseFactor(tokens, vars, parsed, pos) ==
  CASE At(tokens, pos) = "(" ->
         LET inner == parsed[pos + 1].or
         IN  [inner EXCEPT !.next = IF @ \in DOMAIN tokens /\ tokens[@] = ")" THEN @ + 1 ELSE @]
    [] At(tokens, pos) \notin Operator ->
         [loadouts |-> {{Resolved(vars, At(tokens, pos))}}, next |-> pos + 1]
    [] OTHER -> [loadouts |-> {}, next |-> pos]

\* The loop over & (and the one over | below) associates, so it is a tail recursion here.
ParseAnd(tokens, vars, parsed, pos) ==
  LET lhs == ParseFactor(tokens, vars, parsed, pos)
      rhs == parsed[lhs.next + 1].and
  IN  IF At(tokens, lhs.next) = "&"
        THEN [loadouts |-> CrossUnion(lhs.loadouts, rhs.loadouts), next |-> rhs.next]
        ELSE lhs

ParseOr(tokens, parsed, lhs) ==
  LET rhs == parsed[lhs.next + 1].or
  IN  IF At(tokens, lhs.next) = "|"
        THEN [loadouts |-> lhs.loadouts \cup rhs.loadouts, next |-> rhs.next]
        ELSE lhs

\* Tokens that are left over are not looked at.
LoadoutsWithVars(tokens, vars) ==
  LET parsed[pos \in 1 .. Len(tokens) + 1] ==
        LET lhs == ParseAnd(tokens, vars, parsed, pos)
        IN  [and |-> lhs, or |-> ParseOr(tokens, parsed, lhs)]
  IN  parsed[1].or.loadouts

\* colocation_constraints, of the expressions of all sets.
ColocationConstraints(sets, vars) == UNION {LoadoutsWithVars(tokens, vars) : tokens \in sets}

-----------------------------------------------------------------------------
(* The language of the expressions (ColocationSet): the tokens of each,    *)
(* the loadouts it means, and the rule that admits it.                     *)

Identifier(vars, id) == [rule |-> "factor", tokens |-> <<id>>, means |-> {{Resolved(vars, id)}}]

Grouping(e) == [rule |-> "factor", tokens |-> <<"(">> \o e.tokens \o <<")">>, means |-> e.means]

Colocation(e, f) ==
  [rule |-> "and", tokens |-> e.tokens \o <<"&">> \o f.tokens,
   means |-> {l \cup r : l \in e.means, r \in f.means}]

Alternative(e, f) ==
  [rule |-> "or", tokens |-> e.tokens \o <<"|">> \o f.tokens, means |-> e.means \cup f.means]

\* An expression whose parts are among these.
MadeOf(e, Id, vars, Parts) ==
  \/ \E id \in Id : e = Identifier(vars, id)
  \/ \E f \in Parts : e = Grouping(f)
  \/ \E f, g \in Parts : f.rule # "or" /\ g.rule # "or" /\ e = Colocation(f, g)
  \/ \E f, g \in Parts : e = Alternative(f, g)

=============================================================================
