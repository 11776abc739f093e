----------------------------- MODULE MCLlamaSwap -----------------------------
(* A server with two models; every scrape of two devices with missing and repeated lines; *)
(* and every expression over a model and an alias that nests two operators.               *)
EXTENDS LlamaSwap, TLC

CONSTANTS x, y, mx, my, short

MCModelOf == (x :> mx) @@ (y :> my)

MCDevice == ("gpu0" :> [total |-> 24, used |-> 9]) @@ ("gpu1" :> [total |-> 48, used |-> 20])

Line(no, metric, device, bytes) == [no |-> no, metric |-> metric, device |-> device, bytes |-> bytes]

Ram == {Line(1, "ram_total", None, 64), Line(2, "ram_used", None, 16)}

\* Any of the VRAM lines may be missing, gpu0's total repeats, one sample has no device;
\* and a scrape with its RAM use repeated, on a line that names a device.
MCScrape ==
  LET vram == {Line(4, "vram_total", "gpu0", 24), Line(5, "vram_total", "gpu0", 24),
               Line(6, "vram_total", "gpu1", 48), Line(7, "vram_used", "gpu0", 9),
               Line(8, "vram_used", "gpu1", 20), Line(9, "vram_used", None, 9)}
  IN  {Ram \cup lines : lines \in SUBSET vram} \cup {Ram \cup {Line(3, "ram_used", "gpu0", 20)}}

MCVars == (short :> my)

Leaves == {Identifier(MCVars, id) : id \in {mx, short}}

Groupings(E) == {Grouping(e) : e \in {e \in E : e.rule # "factor"}}

Nested(E, F) ==
  {Colocation(e, f) : e \in {e \in E : e.rule # "or"}, f \in {f \in F : f.rule # "or"}}
    \cup {Alternative(e, f) : e \in E, f \in F}

MCExpression ==
  LET one == Leaves \cup Nested(Leaves, Leaves)
      two == one \cup Groupings(one)
  IN  two \cup Nested(two, Leaves) \cup Nested(Leaves, two)

=============================================================================
