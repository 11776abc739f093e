--------------------------- MODULE DecisionJournal ---------------------------
(***************************************************************************)
(* What the decision log promises its readers, whichever store is behind   *)
(* it: a decision that is served stays served while the process lives, a   *)
(* restart brings back everything that was kept and nothing nobody tried   *)
(* to record, and of the events a query asks for the newest Limit are       *)
(* listed, crash or no crash.                                              *)
(***************************************************************************)
EXTENDS Naturals, FiniteSets

CONSTANTS
  Decision,
  Subject,
  Table,
  Query,   \* <<table, subject>>, or <<table, None>> for whatever subject
  None,
  Limit

VARIABLES
  up,       \* the process runs
  tried,    \* decisions somebody tried to record
  served,   \* decisions readers find
  kept,     \* decisions no restart may lose
  noted,    \* noted[t]: events of table t recorded so far
  recent    \* recent[q]: the newest events of query q, <<number in its table, subject>>

vars == <<up, tried, served, kept, noted, recent>>

Init ==
  /\ up = TRUE
  /\ tried = {}
  /\ served = {}
  /\ kept = {}
  /\ noted = [t \in Table |-> 0]
  /\ recent = [q \in Query |-> {}]

\* A decision may be served at once, and be kept when its recording is done.
Record(d) ==
  /\ up
  /\ tried' = tried \cup {d}
  /\ served' \in {served, served \cup {d}}
  /\ kept' \in {kept, kept \cup {d}}
  /\ kept' \subseteq served'
  /\ UNCHANGED <<up, noted, recent>>

Newest(rows) == {row \in rows : Cardinality({other \in rows : other[1] >= row[1]}) <= Limit}

\* An event shows up at the head of every list it belongs to.
Note(table, subject) ==
  /\ up
  /\ noted' = [noted EXCEPT ![table] = @ + 1]
  /\ recent' = [q \in Query |->
       IF q \in {<<table, subject>>, <<table, None>>}
         THEN Newest(recent[q] \cup {<<noted'[table], subject>>}) ELSE recent[q]]
  /\ UNCHANGED <<up, tried, served, kept>>

Crash ==
  /\ up
  /\ up' = FALSE
  /\ served' = {}
  /\ UNCHANGED <<tried, kept, noted, recent>>

Restart ==
  /\ ~up
  /\ up' = TRUE
  /\ served' \in SUBSET tried
  /\ kept \subseteq served'
  /\ UNCHANGED <<tried, kept, noted, recent>>

Next ==
  \/ \E d \in Decision : Record(d)
  \/ \E table \in Table, subject \in Subject : Note(table, subject)
  \/ Crash
  \/ Restart

Spec == Init /\ [][Next]_vars

=============================================================================
