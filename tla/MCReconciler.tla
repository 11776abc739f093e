---- MODULE MCReconciler ----
(* Two runtimes, the background ticker and one handler that refreshes. *)
EXTENDS Reconciler

\* Ticks that never overlap: the behaviours in which what a handler schedules on was
\* last written by its own refresh.
TicksApart ==
  \A s, t \in Ticker : phase[s] # "idle" /\ phase[t] # "idle" => s = t

SerialSpec == Init /\ [][Next /\ TicksApart']_vars
====
