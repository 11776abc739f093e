---- MODULE MCStaging ----
(* Three intents for one pair of models, and two execute handlers. *)
EXTENDS Staging
CONSTANTS small, large
OnePair == {<<small, large>>}
====
