---- MODULE MCTransition ----
EXTENDS TransitionCoordinator, TLC
Symm == Permutations(Runtime) \cup Permutations(Model)
====
