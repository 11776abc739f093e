------------------------------ MODULE MCDaemon ------------------------------
(* Two runtimes, a mock and a llama-swap with a matrix, and three models: small and *)
(* large as in config/anemoi.example.yaml, and extra, which only overrides and the  *)
(* live domain know.                                                                *)
EXTENDS Daemon, TLC

CONSTANTS mock, gpu, small, large, extra

Billions(n) == [whole |-> n, tenths |-> None]

Profile(class, window, vram, cold, runtimes) ==
  [class |-> class, window |-> window, vram |-> vram, ram |-> None, cold |-> cold,
   runtimes |-> runtimes]

MCIdOrder == (extra :> 1) @@ (large :> 2) @@ (small :> 3)

MCIdLabel == (extra :> [whole |-> 3, tenths |-> 8]) @@ (large :> Billions(35)) @@ (small :> Billions(9))

MCBaseline ==
  [domains |-> [coding |-> [rosters |-> <<"fast", "deep">>, live |-> None],
                any    |-> [rosters |-> <<>>, live |-> gpu]],
   groups |-> [fast |-> [models |-> <<small>>, keep_hot |-> TRUE, pinned |-> FALSE],
               deep |-> [models |-> <<large>>, keep_hot |-> FALSE, pinned |-> FALSE]],
   models |-> (small :> Profile(Billions(9), 8192, 9000, 18000, <<mock, gpu>>))
              @@ (large :> Profile(Billions(35), 32768, 30000, 45000, <<gpu, mock>>)),
   runtimes |-> (mock :> [adapter |-> "mock", url |-> FALSE, initial |-> (small :> "hot_gpu")])
                @@ (gpu :> [adapter |-> "llama_swap", url |-> TRUE, initial |-> <<>>]),
   continuity |-> [keep_small_worker_hot |-> TRUE, background_load |-> TRUE,
                   max_blank_wait_ms |-> 1500, prefer_degraded_response_over_silence |-> TRUE]]

NoChange == [groups |-> <<>>, removed |-> {}, rosters |-> <<>>, profiles |-> <<>>]

Unset == [class |-> None, window |-> None, vram |-> None, ram |-> None, cold |-> None,
          runtimes |-> None]

\* Edits that leave the domain without rosters or with one of an unknown model, move a
\* model to another runtime, or shorten the estimate of a load.
MCOverrides ==
  {NoChange,
   [NoChange EXCEPT !.rosters = [coding |-> <<>>]],
   [NoChange EXCEPT !.groups = [fast |-> [models |-> <<extra>>, keep_hot |-> FALSE, pinned |-> FALSE]],
                    !.removed = {"deep"}],
   [NoChange EXCEPT !.profiles = (large :> [Unset EXCEPT !.cold = 1000])
                                 @@ (extra :> [Unset EXCEPT !.class = MCIdLabel[extra],
                                                           !.runtimes = <<gpu>>]),
                    !.groups = [fast |-> [models |-> <<extra, small>>, keep_hot |-> FALSE, pinned |-> TRUE]]]}

Tight == [UnknownMemory EXCEPT !.vram_total = 48000, !.vram_used = 20000]

\* No adapter says since when a model is loaded, so no idle time is known.
Up(residents, configured, memory, loadouts) ==
  [UnavailableSnapshot EXCEPT !.available = TRUE, !.residents = residents,
               !.idle = [m \in DOMAIN residents |-> None], !.configured = configured,
               !.memory = memory, !.loadouts = loadouts]

MockSnaps == {Up(r, <<>>, UnknownMemory, None) : r \in {<<>>, small :> "hot_gpu", large :> "loading"}}

\* The states a llama-swap reports, the swap of small for large among them.
GpuResidents ==
  {<<>>, small :> "hot_gpu", small :> "loading", small :> "draining", extra :> "hot_gpu",
   (small :> "draining") @@ (large :> "hot_gpu")}

\* Without a matrix, with one that keeps one model at a time, with one that lets large
\* stay beside the others.
Matrices == {None, {{small}, {large}, {extra}}, {{small, large}, {extra, large}}}

GpuSnaps ==
  {UnavailableSnapshot} \cup {Up(r, <<small, extra, large>>, memory, matrix) :
                 r \in GpuResidents, memory \in {UnknownMemory, Tight}, matrix \in Matrices}

\* The mock is missing while the first tick has only inspected the llama-swap.
MCWorld == {(gpu :> g) : g \in GpuSnaps} \cup {(gpu :> g) @@ (mock :> m) : g \in GpuSnaps, m \in MockSnaps}

Ask(domain) == [domain |-> domain, prompt |-> None, output |-> None, budget |-> None, floor |-> None]

MCRequest ==
  {Ask("coding"),
   [Ask("coding") EXCEPT !.budget = 2000, !.floor = Billions(32)],
   [Ask("coding") EXCEPT !.prompt = 9000, !.output = 500, !.budget = 2000],
   [Ask("any") EXCEPT !.floor = Billions(32), !.budget = 2000]}

Message == <<[role |-> 4, name |-> 0, content |-> 40000]>>

MCBody ==
  {[model |-> "coding", meta |-> None, valid |-> TRUE, messages |-> Message, max_tokens |-> 256],
   [model |-> "coding", meta |-> [NoMetadata EXCEPT !.prompt = 100, !.floor = Billions(32)],
    valid |-> TRUE, messages |-> Message, max_tokens |-> None],
   [model |-> "coding", meta |-> None, valid |-> FALSE, messages |-> None, max_tokens |-> None],
   [model |-> "unheard", meta |-> None, valid |-> TRUE, messages |-> None, max_tokens |-> None]}

\* What FloorHonoured does not say of a class with a point: an edit that calls extra a 3.8b
\* lets it answer, alone and for good, a request that asks for 32b at least.
ASSUME PointPassesFloor ==
  LET pointed == [NoChange EXCEPT
                    !.groups = [deep |-> [models |-> <<extra>>, keep_hot |-> FALSE, pinned |-> FALSE]],
                    !.profiles = (extra :> [Unset EXCEPT !.class = MCIdLabel[extra],
                                                         !.runtimes = <<gpu>>])]
      decision == Decide(Effective(MCBaseline, pointed), [Ask("coding") EXCEPT !.floor = Billions(32)],
                         gpu :> Up(extra :> "hot_gpu", <<>>, UnknownMemory, None))
  IN  decision.model = extra /\ decision.action = "reuse_hot"

=============================================================================
