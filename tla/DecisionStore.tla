---------------------------- MODULE DecisionStore ----------------------------
(***************************************************************************)
(* The decision log (crates/anemoi-telemetry): the in-memory log, the JSONL *)
(* log that appends to a file beside it and reads it back at the next      *)
(* start, and the SQLite event store, with the handlers that record        *)
(* through them, writes that fail and a process that dies anywhere.        *)
(*                                                                         *)
(* The file is a sequence of lines, the last one open: the pieces in it    *)
(* have no newline behind them yet.  record_decision hands the serialiser  *)
(* an unbuffered file, so a record reaches it in several writes; two are   *)
(* told apart here, <<d, "head">> and <<d, "tail">>, and <<d, "cut">> is a *)
(* write the disk took only part of.  Nothing serialises the appends of    *)
(* concurrent handlers.                                                    *)
(***************************************************************************)
EXTENDS Integers, Sequences, FiniteSets

CONSTANTS
  Handler,
  Decision,
  MultiByte,   \* decisions whose text holds characters of several bytes
  Subject,     \* what an event is about, and its readers may ask for
  None,
  ReadLimit,   \* the limit a reader of events asks for, if any
  DefaultLimit,\* 50
  RowCap,      \* 500, the most telemetry_limit and normalize_limit allow
  MaxEvents,   \* bound: events recorded
  MaxCrashes   \* bound: crashes

ASSUME StoreAssumption ==
  /\ MultiByte \subseteq Decision
  /\ None \notin Decision
  /\ None \notin Subject
  /\ ReadLimit \in Nat \cup {None}
  /\ DefaultLimit \in Nat
  /\ RowCap \in Nat \ {0}
  /\ MaxEvents \in Nat
  /\ MaxCrashes \in Nat

VARIABLES
  store,    \* "memory", "jsonl" or "sqlite"
  up,       \* the process runs
  memory,   \* the in-memory index: <<d, e>>, d's record up to the tail of e's
  file,     \* the JSONL file
  rows,     \* table decisions
  events,   \* events[t]: the subjects of event table t's rows, by row id
  writer,   \* writer[h]: the decision h records and the piece it writes next
  tried,    \* history: decisions handed to record_decision
  acked,    \* history: those it returned Ok for
  clean,    \* history: appends that began on a line of their own and that no
            \* other append has written into
  crashes

vars == <<store, up, memory, file, rows, events, writer, tried, acked, clean, crashes>>

Idle == [decision |-> None, next |-> "none"]

Table == {"runtime_snapshots", "resident_events", "staging_events", "action_plan_events"}

\* default_decision_log: a database URL comes before a JSONL path.
Chosen(database, jsonl) ==
  IF database THEN "sqlite" ELSE IF jsonl THEN "jsonl" ELSE "memory"

Init ==
  /\ \E database, jsonl \in BOOLEAN : store = Chosen(database, jsonl)
  /\ up = TRUE
  /\ memory = {}
  /\ file = << <<>> >>
  /\ rows = {}
  /\ events = [t \in Table |-> <<>>]
  /\ writer = [h \in Handler |-> Idle]
  /\ tried = {}
  /\ acked = {}
  /\ clean = {}
  /\ crashes = 0

-----------------------------------------------------------------------------
(* record_decision.                                                        *)

Begins(h, d) ==
  /\ up
  /\ writer[h] = Idle
  /\ d \notin tried
  /\ tried' = tried \cup {d}

RecordInMemory(h, d) ==
  /\ store = "memory"
  /\ Begins(h, d)
  /\ memory' = memory \cup {<<d, d>>}
  /\ acked' = acked \cup {d}
  /\ UNCHANGED <<store, up, file, rows, events, writer, clean, crashes>>

\* One INSERT OR REPLACE under the connection's lock.
RecordRow(h, d) ==
  /\ store = "sqlite"
  /\ Begins(h, d)
  /\ rows' = rows \cup {d}
  /\ acked' = acked \cup {d}
  /\ UNCHANGED <<store, up, memory, file, events, writer, clean, crashes>>

RecordRowFails(h, d) ==
  /\ store = "sqlite"
  /\ Begins(h, d)
  /\ UNCHANGED <<store, up, memory, file, rows, events, writer, acked, clean, crashes>>

\* The decision is in memory before the file is even opened.
StartAppend(h, d) ==
  /\ store = "jsonl"
  /\ Begins(h, d)
  /\ memory' = memory \cup {<<d, d>>}
  /\ writer' = [writer EXCEPT ![h] = [decision |-> d, next |-> "head"]]
  /\ UNCHANGED <<store, up, file, rows, events, acked, clean, crashes>>

Open == file[Len(file)]

Extended(piece) == [file EXCEPT ![Len(file)] = Append(@, piece)]

\* What stays clean when h writes: the others' appends that are under way do not.
Spared(h) == clean \ {writer[g].decision : g \in {g \in Handler \ {h} : writer[g].next # "head"}}

WriteHead(h) ==
  /\ writer[h].next = "head"
  /\ file' = Extended(<<writer[h].decision, "head">>)
  /\ writer' = [writer EXCEPT ![h].next = "tail"]
  /\ clean' = Spared(h) \cup (IF Open = <<>> THEN {writer[h].decision} ELSE {})
  /\ UNCHANGED <<store, up, memory, rows, events, tried, acked, crashes>>

WriteTail(h) ==
  /\ writer[h].next = "tail"
  /\ file' = Extended(<<writer[h].decision, "tail">>)
  /\ writer' = [writer EXCEPT ![h].next = "newline"]
  /\ clean' = Spared(h)
  /\ UNCHANGED <<store, up, memory, rows, events, tried, acked, crashes>>

\* A mutated form: the newline is left to the next append.
WriteNewline_Omitted(h) ==
  /\ writer[h].next = "newline"
  /\ file' = file
  /\ acked' = acked \cup {writer[h].decision}
  /\ writer' = [writer EXCEPT ![h] = Idle]
  /\ clean' = Spared(h)
  /\ UNCHANGED <<store, up, memory, rows, events, tried, crashes>>

WriteNewline(h) ==
  /\ writer[h].next = "newline"
  /\ file' = Append(file, <<>>)
  /\ acked' = acked \cup {writer[h].decision}
  /\ writer' = [writer EXCEPT ![h] = Idle]
  /\ clean' = Spared(h)
  /\ UNCHANGED <<store, up, memory, rows, events, tried, crashes>>

\* The file cannot be opened, or a write fails, having written nothing or a part.  The
\* caller gets an error; the decision stays in memory.
WriteFails(h) ==
  /\ writer[h].next # "none"
  /\ \/ file' = file /\ clean' = clean
     \/ /\ writer[h].next # "newline"
        /\ file' = Extended(<<writer[h].decision, "cut">>)
        /\ clean' = Spared(h)
  /\ writer' = [writer EXCEPT ![h] = Idle]
  /\ UNCHANGED <<store, up, memory, rows, events, tried, acked, crashes>>

-----------------------------------------------------------------------------
(* Events.  Only the SQLite store has tables for them: the other two ignore *)
(* an event and list none.                                                 *)

Inserts(t, subject) ==
  /\ up
  /\ store = "sqlite"
  /\ Len(events["runtime_snapshots"]) + Len(events["resident_events"])
       + Len(events["staging_events"]) + Len(events["action_plan_events"]) < MaxEvents
  /\ events' = [events EXCEPT ![t] = Append(@, subject)]
  /\ UNCHANGED <<store, up, memory, file, rows, writer, tried, acked, clean, crashes>>

RecordRuntimeSnapshot(subject) == Inserts("runtime_snapshots", subject)

RecordResidentEvent(subject) == Inserts("resident_events", subject)

RecordStagingEvent(subject) == Inserts("staging_events", subject)

RecordActionPlanEvent(subject) == Inserts("action_plan_events", subject)

ClampLimit(limit) == IF limit < 1 THEN 1 ELSE IF limit > RowCap THEN RowCap ELSE limit

TelemetryLimit(limit) == ClampLimit(IF limit = None THEN DefaultLimit ELSE limit)

\* WHERE, when the reader asks for a subject.
Matching(t, about) == {id \in 1 .. Len(events[t]) : about \in {None, events[t][id]}}

\* ORDER BY id DESC LIMIT.
Latest(ids, limit) == {id \in ids : Cardinality({row \in ids : row >= id}) <= limit}

\* The rows of a query, <<id, subject>>; the ids give the order they are listed in.
Selected(t, about, limit) == {<<id, events[t][id]>> : id \in Latest(Matching(t, about), limit)}

\* What the telemetry handlers answer to each query: the limit is clamped by the handler
\* and again by the store.  Staging events cannot be asked for by subject.
Query == {q \in Table \X (Subject \cup {None}) : q[1] = "staging_events" => q[2] = None}

Listed == [q \in Query |-> Selected(q[1], q[2], ClampLimit(TelemetryLimit(ReadLimit)))]

-----------------------------------------------------------------------------
(* The process dies; the files it wrote to stay as they are.               *)

Crash ==
  /\ up
  /\ crashes < MaxCrashes
  /\ crashes' = crashes + 1
  /\ up' = FALSE
  /\ memory' = {}
  /\ writer' = [h \in Handler |-> Idle]
  /\ UNCHANGED <<store, file, rows, events, tried, acked, clean>>

\* A record cut inside a character makes read_to_string fail, and the start with it.
Readable ==
  \A i \in 1 .. Len(file) : \A d \in MultiByte : <<d, "cut">> \notin {file[i][k] : k \in 1 .. Len(file[i])}

\* A line parses when it is a head and a tail, whoever wrote them.
Parses(line) == Len(line) = 2 /\ line[1][2] = "head" /\ line[2][2] = "tail"

\* A mutated form: the last line is taken for torn and skipped.
Rehydrated_SkipsLast ==
  {<<file[i][1][1], file[i][2][1]>> : i \in {i \in 1 .. Len(file) - 2 : Parses(file[i])}}

Rehydrated == {<<file[i][1][1], file[i][2][1]>> : i \in {i \in 1 .. Len(file) : Parses(file[i])}}

\* JsonlDecisionLog::new skips what does not parse; SQLite opens on what was committed.
Restart ==
  /\ ~up
  /\ store = "jsonl" => Readable
  /\ up' = TRUE
  /\ memory' = IF store = "jsonl" THEN Rehydrated ELSE {}
  /\ UNCHANGED <<store, file, rows, events, writer, tried, acked, clean, crashes>>

Next ==
  \/ \E h \in Handler : \E d \in Decision :
       RecordInMemory(h, d) \/ RecordRow(h, d) \/ RecordRowFails(h, d) \/ StartAppend(h, d)
  \/ \E h \in Handler : WriteHead(h) \/ WriteTail(h) \/ WriteNewline(h) \/ WriteFails(h)
  \/ \E subject \in Subject :
       \/ RecordRuntimeSnapshot(subject)
       \/ RecordResidentEvent(subject)
       \/ RecordStagingEvent(subject)
       \/ RecordActionPlanEvent(subject)
  \/ Crash
  \/ Restart

Spec == Init /\ [][Next]_vars

-----------------------------------------------------------------------------
(* Properties.                                                             *)

Piece == Decision \X {"head", "tail", "cut"}

\* Every variable has its type.
TypeOK ==
  /\ store \in {"memory", "jsonl", "sqlite"}
  /\ up \in BOOLEAN
  /\ memory \subseteq Decision \X Decision
  /\ file \in Seq(Seq(Piece)) /\ file # <<>>
  /\ rows \subseteq Decision
  /\ events \in [Table -> Seq(Subject)]
  /\ writer \in [Handler -> {Idle} \cup [decision : Decision, next : {"head", "tail", "newline"}]]
  /\ tried \subseteq Decision
  /\ acked \subseteq tried
  /\ clean \subseteq tried
  /\ crashes \in 0 .. MaxCrashes

Whole(d) == << <<d, "head">>, <<d, "tail">> >>

\* The decisions no restart may lose: in SQLite those acknowledged, in the JSONL log
\* those acknowledged whose append was clean, in memory none.
Kept ==
  CASE store = "sqlite" -> acked
    [] store = "jsonl" -> acked \cap clean
    [] OTHER -> {}

\* An append that nothing wrote into leaves one whole line, whatever was torn before or
\* happens after (JsonlDecisionLog::record_decision).
CleanAppendsWhole ==
  store = "jsonl" => \A d \in acked \cap clean : \E i \in 1 .. Len(file) - 1 : file[i] = Whole(d)

\* get_decision and list_decisions.
Stored == IF store = "sqlite" THEN rows ELSE {entry[1] : entry \in memory}

\* /decisions/:id, /explain/:id and the telemetry of decisions.
Served == IF up THEN Stored ELSE {}

Journal == INSTANCE DecisionJournal WITH
  Limit <- ClampLimit(TelemetryLimit(ReadLimit)), served <- Served,
  kept <- Kept, noted <- [t \in Table |-> Len(events[t])], recent <- Listed

\* To its readers the log is a DecisionJournal: what it served it serves until the
\* process dies, and a restart brings back all that was kept.
ImplementsJournal == Journal!Spec

\* "decisions are readable after a process restart" (jsonl.rs:23-24).
AcknowledgedReadable == up /\ store # "memory" => acked \subseteq Served

=============================================================================
