--------------------------- MODULE MCDecisionStore ---------------------------
(* Three decisions, one with text of several bytes, recorded by two handlers. *)
EXTENDS DecisionStore, TLC

CONSTANTS d1, d2, d3

MCMultiByte == {d3}

=============================================================================
