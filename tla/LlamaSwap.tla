------------------------------ MODULE LlamaSwap ------------------------------
(***************************************************************************)
(* The llama-swap adapter (llama_swap/event_stream.rs, adapter.rs): a task *)
(* that follows the server's /api/events stream, replaces a cache by every *)
(* snapshot pushed and reconnects when the stream ends, beside inspections *)
(* that probe the server and read that cache.                              *)
(*                                                                         *)
(* The server and the network are external.  The server pushes its models' *)
(* states whole, at the start of a stream and on each change               *)
(* (docs/test_roadmap.md).  A stream can break, or go dead without the     *)
(* client hearing of it: nothing in the client times a stream out.         *)
(***************************************************************************)
EXTENDS Metrics, Matrix

CONSTANTS
  Alias,        \* the server's names for its models
  ModelOf,      \* normalize_model_id: None when nothing is left of the name
  Id,           \* the identifiers of matrix expressions
  Vars,         \* the models that some of them stand for
  Expression,   \* matrix expressions
  Device,       \* [devices -> [total, used]], in bytes
  Scrape,       \* what /metrics may answer
  MaxChanges,   \* bound: changes at the server
  MaxBreaks     \* bound: streams lost

\* "sleeping" stands for the states of a server newer than from_wire.
Wire == {"stopped", "starting", "ready", "stopping", "shutdown", "sleeping"}

KnownWire == Wire \ {"sleeping"}

ASSUME LlamaSwapAssumption ==
  /\ None \notin {"loading", "hot_gpu", "draining"}
  /\ MaxChanges \in Nat
  /\ MaxBreaks \in Nat

HalfOf(metric) == IF metric = "vram_total" THEN "total" ELSE "used"

\* A sample's value is a u64, and what the server says of a device is the device's own.
ASSUME ScrapeAssumption ==
  /\ BytesPerMb \in Nat \ {0}
  /\ \A device \in DOMAIN Device : \A half \in {"total", "used"} : Device[device][half] \in Nat
  /\ \A scrape \in Scrape :
       /\ IsFiniteSet(scrape)
       /\ \A l \in scrape :
            l.metric \in {"vram_total", "vram_used"} /\ l.device # None =>
              l.device \in DOMAIN Device /\ l.bytes = Device[l.device][HalfOf(l.metric)]

\* Whatever an expression is made of is an expression too.
ASSUME ExpressionAssumption ==
  /\ Id \cap Operator = {}
  /\ \A e \in Expression : e.tokens \in Seq(Id \cup Operator) /\ MadeOf(e, Id, Vars, Expression)

VARIABLES
  server,     \* "up" or "down"
  proc,       \* the state of each model the server is configured with
  link,       \* "closed", "open", "broken" or "dead"
  pipe,       \* pushed and not yet read by the client
  cache,      \* ModelStateCache
  inspect,    \* how far an inspection is, and the residents it has read
  seen,       \* the snapshot the last inspection returned
  past,       \* history: the residents the server has had
  changes,
  breaks

vars == <<server, proc, link, pipe, cache, inspect, seen, past, changes, breaks>>

Residency(wire) ==
  CASE wire \in {"stopped", "shutdown"} -> None
    [] wire = "starting" -> "loading"
    [] wire = "ready" -> "hot_gpu"
    [] wire = "stopping" -> "draining"

\* residents_from_states.
ResidentsFromStates(states) ==
  {[model |-> ModelOf[a], state |-> Residency(states[a])] :
     a \in {a \in DOMAIN states : Residency(states[a]) # None /\ ModelOf[a] # None}}

\* A mutated form: every entry is kept.
ParseModelStatus_KeepsAll(entries) == entries

\* parse_model_status_payload drops the entries whose state it does not know.
ParseModelStatus(entries) == [a \in {a \in DOMAIN entries : entries[a] \in KnownWire} |-> entries[a]]

\* The residents a server really has in these states.
Truth(entries) ==
  {[model |-> ModelOf[a], state |-> Residency(entries[a])] :
     a \in {a \in DOMAIN entries : entries[a] \in {"starting", "ready", "stopping"} /\ ModelOf[a] # None}}

Unavailable == [available |-> FALSE, residents |-> {}, memory |-> Unknown]

NotInspecting == [at |-> "idle", residents |-> {}]

Init ==
  /\ server = "up"
  /\ proc \in [Alias -> {"stopped", "ready"}]
  /\ link = "closed"
  /\ pipe = <<>>
  /\ cache = <<>>
  /\ inspect = NotInspecting
  /\ seen = Unavailable
  /\ past = {Truth(proc)}
  /\ changes = 0
  /\ breaks = 0

-----------------------------------------------------------------------------
(* The server and the network.                                             *)

ModelStatus(entries) == [kind |-> "modelStatus", entries |-> entries]

Pushed(entries) == IF link = "open" THEN Append(pipe, ModelStatus(entries)) ELSE pipe

Lifecycle(wire) ==
  CASE wire \in {"stopped", "shutdown"} -> {"starting"}
    [] wire = "starting" -> {"ready", "stopping"}
    [] wire = "ready" -> {"sleeping", "stopping"}
    [] wire = "sleeping" -> {"stopping"}
    [] wire = "stopping" -> {"stopped", "shutdown"}

Becomes(entries) ==
  /\ changes < MaxChanges
  /\ changes' = changes + 1
  /\ proc' = entries
  /\ past' = past \cup {Truth(entries)}

Change(a) ==
  /\ server = "up"
  /\ \E wire \in Lifecycle(proc[a]) : Becomes([proc EXCEPT ![a] = wire])
  /\ pipe' = Pushed(proc')
  /\ UNCHANGED <<server, link, cache, inspect, seen, breaks>>

\* Log lines and heartbeats come down the same stream.
PushOther ==
  /\ link = "open"
  /\ pipe = <<>>
  /\ pipe' = Append(pipe, [kind |-> "other", entries |-> <<>>])
  /\ UNCHANGED <<server, proc, link, cache, inspect, seen, past, changes, breaks>>

\* The stream ends, or hangs for good when the other host is gone without a word.
Break ==
  /\ link = "open"
  /\ breaks < MaxBreaks
  /\ breaks' = breaks + 1
  /\ link' \in {"broken", "dead"}
  /\ UNCHANGED <<server, proc, pipe, cache, inspect, seen, past, changes>>

Stop ==
  /\ server = "up"
  /\ server' = "down"
  /\ link' = IF link = "open" THEN "broken" ELSE link
  /\ UNCHANGED <<proc, pipe, cache, inspect, seen, past, changes, breaks>>

\* Started again, perhaps with other models in its configuration.
Start ==
  /\ server = "down"
  /\ \E listed \in (SUBSET Alias) \ {{}} : Becomes([a \in listed |-> "stopped"])
  /\ server' = "up"
  /\ UNCHANGED <<link, pipe, cache, inspect, seen, breaks>>

-----------------------------------------------------------------------------
(* run_event_stream.                                                       *)

Connect ==
  /\ link = "closed"
  /\ server = "up"
  /\ link' = "open"
  /\ pipe' = <<ModelStatus(proc)>>
  /\ UNCHANGED <<server, proc, cache, inspect, seen, past, changes, breaks>>

\* A mutated form: the update is merged into the cache.
Applied_Merged(frame) ==
  LET update == IF frame.kind = "modelStatus" THEN ParseModelStatus(frame.entries) ELSE <<>>
  IN  [a \in DOMAIN cache \cup DOMAIN update |-> IF a \in DOMAIN update THEN update[a] ELSE cache[a]]

\* A mutated form: a snapshot with a state it does not know is malformed.
Applied_RejectsUnknown(frame) ==
  IF frame.kind = "modelStatus" /\ \A a \in DOMAIN frame.entries : frame.entries[a] \in KnownWire
    THEN frame.entries ELSE cache

\* apply_model_status replaces.
Applied(frame) == IF frame.kind = "modelStatus" THEN ParseModelStatus(frame.entries) ELSE cache

\* What is left in the buffer of a stream that broke may still be read.
Deliver ==
  /\ link # "closed"
  /\ pipe # <<>>
  /\ cache' = Applied(Head(pipe))
  /\ pipe' = Tail(pipe)
  /\ UNCHANGED <<server, proc, link, inspect, seen, past, changes, breaks>>

\* A mutated form: an error on the stream ends the task.
Disconnect_Quits ==
  /\ link = "broken"
  /\ link' = "quit"
  /\ pipe' = <<>>
  /\ UNCHANGED <<server, proc, cache, inspect, seen, past, changes, breaks>>

\* The error is logged and, three seconds later, the stream opened anew; a frame cut by
\* the break goes with the decoder, the cache stays.
Disconnect ==
  /\ link = "broken"
  /\ link' = "closed"
  /\ pipe' = <<>>
  /\ UNCHANGED <<server, proc, cache, inspect, seen, past, changes, breaks>>

-----------------------------------------------------------------------------
(* LlamaSwapAdapter::inspect.  A server that is down makes it fail at the  *)
(* first probe, which module Reconciler answers for.                       *)

ProbeHealth ==
  /\ inspect.at = "idle"
  /\ server = "up"
  /\ \/ inspect' = [inspect EXCEPT !.at = "models"] /\ seen' = seen
     \/ inspect' = inspect /\ seen' = Unavailable
  /\ UNCHANGED <<server, proc, link, pipe, cache, past, changes, breaks>>

\* A listing that fails counts as no models; either way the cache is read right after it.
ListModels ==
  /\ inspect.at = "models"
  /\ inspect' = [at |-> "memory", residents |-> ResidentsFromStates(cache)]
  /\ UNCHANGED <<server, proc, link, pipe, cache, seen, past, changes, breaks>>

Memories == {Memory(scrape) : scrape \in Scrape}

\* A scrape that fails, or takes a second, counts as unknown.
ProbeMemory ==
  /\ inspect.at = "memory"
  /\ \E memory \in {Unknown} \cup (IF server = "up" THEN Memories ELSE {}) :
       seen' = [available |-> TRUE, residents |-> inspect.residents, memory |-> memory]
  /\ inspect' = NotInspecting
  /\ UNCHANGED <<server, proc, link, pipe, cache, past, changes, breaks>>

\* The loadouts an available snapshot lists, by the matrix expression the adapter was
\* built with.
Loadouts == {[means |-> e.means, listed |-> ColocationConstraints({e.tokens}, Vars)] : e \in Expression}

-----------------------------------------------------------------------------
Next ==
  \/ \E a \in DOMAIN proc : Change(a)
  \/ PushOther
  \/ Break
  \/ Stop
  \/ Start
  \/ Connect
  \/ Deliver
  \/ Disconnect
  \/ ProbeHealth
  \/ ListModels
  \/ ProbeMemory

Spec == Init /\ [][Next]_vars

\* The task runs, and the bytes of a stream arrive.
FairSpec == Spec /\ WF_vars(Connect) /\ WF_vars(Deliver) /\ WF_vars(Disconnect)

-----------------------------------------------------------------------------
(* Properties.                                                             *)

\* Every variable has its type.
TypeOK ==
  /\ server \in {"up", "down"}
  /\ DOMAIN proc \subseteq Alias /\ \A a \in DOMAIN proc : proc[a] \in Wire
  /\ link \in {"closed", "open", "broken", "dead"}
  /\ \A i \in 1 .. Len(pipe) : pipe[i].kind \in {"modelStatus", "other"}
  /\ DOMAIN cache \subseteq Alias /\ \A a \in DOMAIN cache : cache[a] \in KnownWire
  /\ inspect.at \in {"idle", "models", "memory"}
  /\ seen.available \in BOOLEAN
  /\ changes \in 0 .. MaxChanges
  /\ breaks \in 0 .. MaxBreaks

\* What an inspection reports as resident was resident all at one time: never a mixture
\* of two pushed snapshots, whatever was lost or restarted in between
\* (apply_model_status, "this is replace, not merge").
SnapshotCoherent == seen.residents \in past \cup {{}}

\* Once everything pushed down a stream that is open has been read, the cache has the
\* server's present residents.
DrainedMeansCurrent ==
  link = "open" /\ pipe = <<>> => ResidentsFromStates(cache) = Truth(proc)

DeviceSum(D, half) == MapThenSumSet(LAMBDA d : Device[d][half], D)

\* A known VRAM pair is the capacity and the use of the same devices, each counted once,
\* whatever lines of the scrape are missing, repeated or without a device; and neither is
\* known without the other (parse_llama_swap_memory_metrics).
MemoryOfWholeDevices ==
  seen.memory.vram_total # None \/ seen.memory.vram_used # None =>
    \E D \in (SUBSET DOMAIN Device) \ {{}} :
      /\ seen.memory.vram_total = BytesToMb(DeviceSum(D, "total"))
      /\ seen.memory.vram_used = BytesToMb(DeviceSum(D, "used"))

\* The loadouts an inspection lists are those the matrix expression means, however it
\* nests & and | and parentheses (colocation_constraints).
ColocationMatchesExpression ==
  seen.available => \A l \in Loadouts : l.listed = l.means

\* If the server stays up and no stream is left dead, the cache comes to agree with the
\* server for good, through any number of lost streams and restarts.
CacheConverges ==
  <>[](server = "up" /\ link # "dead") => <>[](ResidentsFromStates(cache) = Truth(proc))

=============================================================================
