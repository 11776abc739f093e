------------------------------- MODULE Metrics -------------------------------
(***************************************************************************)
(* What the llama-swap adapter makes of a scrape of /metrics               *)
(* (llama_swap/metrics.rs).  A scrape is a set of sample lines             *)
(* [no, metric, device, bytes], no being the line's number; a device is    *)
(* None on a line without a usable id label, and lines whose value does    *)
(* not parse are not in it.                                                *)
(***************************************************************************)
EXTENDS Integers, FiniteSets, FiniteSetsExt

CONSTANTS
  None,
  BytesPerMb,   \* 1024 * 1024
  U64Max

Unknown == [vram_total |-> None, vram_used |-> None, ram_total |-> None, ram_used |-> None]

\* The GPU samples filed under a device; one without a device is filed nowhere.
Filed(scrape, metric, device) == {l \in scrape : l.metric = metric /\ l.device = device}

\* The host samples of a metric, filed together whatever labels their lines have.
HostLines(scrape, metric) == {l \in scrape : l.metric = metric}

Devices(scrape, metric) == {l.device : l \in {l \in scrape : l.metric = metric}} \ {None}

Duplicated(scrape, metric, device) == Cardinality(Filed(scrape, metric, device)) > 1

BytesToMb(bytes) == bytes \div BytesPerMb

\* Sums are checked: None on overflow, None of nothing.
SumMetricValues(scrape, metric) ==
  LET lines == {l \in scrape : l.metric = metric /\ l.device # None}
      sum   == MapThenSumSet(LAMBDA l : l.bytes, lines)
  IN  IF lines = {} \/ sum > U64Max THEN None ELSE sum

\* A mutated form: the halves are only compared by the number of their samples.
VramSound_ByCount(scrape) ==
  Cardinality({l \in scrape : l.metric = "vram_total"}) = Cardinality({l \in scrape : l.metric = "vram_used"})

\* Both halves come from the same devices, once each.
VramSound(scrape) ==
  /\ Devices(scrape, "vram_total") = Devices(scrape, "vram_used")
  /\ \A device \in Devices(scrape, "vram_total") :
       \A metric \in {"vram_total", "vram_used"} : ~Duplicated(scrape, metric, device)

VramKnown(scrape) ==
  /\ VramSound(scrape)
  /\ SumMetricValues(scrape, "vram_total") # None
  /\ SumMetricValues(scrape, "vram_used") # None

\* Each half was sampled, and only once.
RamKnown(scrape) ==
  \A metric \in {"ram_total", "ram_used"} : Cardinality(HostLines(scrape, metric)) = 1

RamMb(scrape, metric) == BytesToMb((CHOOSE l \in HostLines(scrape, metric) : TRUE).bytes)

\* parse_llama_swap_memory_metrics.  Each pair is known as a whole or not at all, and
\* neither depends on the other.
Memory(scrape) ==
  [vram_total |-> IF VramKnown(scrape) THEN BytesToMb(SumMetricValues(scrape, "vram_total")) ELSE None,
   vram_used  |-> IF VramKnown(scrape) THEN BytesToMb(SumMetricValues(scrape, "vram_used")) ELSE None,
   ram_total  |-> IF RamKnown(scrape) THEN RamMb(scrape, "ram_total") ELSE None,
   ram_used   |-> IF RamKnown(scrape) THEN RamMb(scrape, "ram_used") ELSE None]

=============================================================================
