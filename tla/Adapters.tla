------------------------------ MODULE Adapters ------------------------------
(***************************************************************************)
(* What the runtime adapters can report and do (crates/anemoi-runtime and  *)
(* the adapters AppState::new builds): the snapshots each kind may return  *)
(* and how its loads and unloads may end.  A snapshot is the record of     *)
(* module Scheduler, a runtime's entry in the configuration that of module *)
(* Config.  How llama-swap comes by its report is module LlamaSwap.        *)
(***************************************************************************)
EXTENDS Scheduler

UnknownMemory == [vram_total |-> None, vram_used |-> None, ram_total |-> None, ram_used |-> None]

\* What every adapter says of a runtime that answers its first probe with an error, and
\* the reconciler of one that never answered.
UnavailableSnapshot ==
  [available |-> FALSE, residents |-> <<>>, idle |-> <<>>, configured |-> <<>>,
   memory |-> UnknownMemory, requests |-> <<>>, loadouts |-> None]

\* No adapter says since when a model is loaded or which requests it serves.
NothingOfUse(snap) ==
  /\ DOMAIN snap.idle = DOMAIN snap.residents
  /\ \A m \in DOMAIN snap.idle : snap.idle[m] = None
  /\ snap.requests = <<>>

\* Ollama lists what runs, which counts as hot, and nothing else.
OllamaReports(snap) ==
  /\ snap.available
  /\ \A m \in DOMAIN snap.residents : snap.residents[m] = "hot_gpu"
  /\ snap.configured = <<>> /\ snap.memory = UnknownMemory /\ snap.loadouts = None

\* llama.cpp lists what it is configured with, which proves no residency.
LlamaCppReports(snap) ==
  /\ snap.available
  /\ snap.residents = <<>>
  /\ snap.memory = UnknownMemory /\ snap.loadouts = None

LlamaSwapReports(snap) ==
  /\ snap.available
  /\ \A m \in DOMAIN snap.residents : snap.residents[m] \in {"loading", "hot_gpu", "draining"}

\* The mock holds its initial residents, until they are unloaded, and what it was told to
\* load: nothing ever finishes loading there.
MockReports(config, snap) ==
  /\ snap.available
  /\ \A m \in DOMAIN snap.residents :
       \/ snap.residents[m] = "loading"
       \/ m \in DOMAIN config.initial /\ snap.residents[m] = config.initial[m]
  /\ snap.configured = <<>> /\ snap.memory = UnknownMemory /\ snap.loadouts = None

\* RuntimeAdapter::inspect, by the adapter AppState::new builds.
Reports(config, snap) ==
  /\ DOMAIN snap.residents \subseteq Model /\ snap.configured \in Seq(Model)
  /\ NothingOfUse(snap)
  /\ CASE config.adapter = "mock" -> MockReports(config, snap)
       [] config.adapter = "ollama" -> snap = UnavailableSnapshot \/ OllamaReports(snap)
       [] config.adapter \in {"llama_cpp", "llama_server"} ->
            snap = UnavailableSnapshot \/ LlamaCppReports(snap)
       [] config.adapter = "llama_swap" -> snap = UnavailableSnapshot \/ LlamaSwapReports(snap)

\* load_model: only the mock and llama-swap, which loads by a completion of one token,
\* send or do anything; the others answer that it is unsupported.
CanLoad(config) == config.adapter \in {"mock", "llama_swap"}

LoadOutcomes(config) ==
  CASE config.adapter = "mock" -> {"completed"}
    [] config.adapter = "llama_swap" -> {"completed", "failed"}
    [] OTHER -> {"failed"}

\* unload_model is unsupported but by the mock.
CanUnload(config) == config.adapter = "mock"

=============================================================================
