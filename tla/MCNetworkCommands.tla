------------------------- MODULE MCNetworkCommands -------------------------
(* Two networks, one of three layers in two groups, on one architecture and *)
(* two geometries.                                                          *)
EXTENDS NetworkCommands

Layer(index, op, size) == [index |-> index, op |-> op, size |-> size]
MCTable ==
  ("A" :> << Layer(0, "FC", 1), Layer(1, "BATCH_MATMUL", 1), Layer(2, "FC", 1) >>) @@
  ("B" :> << Layer(0, "FC", 1) >>)

\* A first mapping that is fast, a second that takes less energy: on the places
\* that are near, the second of a product does not, and the front of a network has
\* three points; elsewhere it has four, and is thinned.
Near == {"wide", "upmem"}
Latency == ("FC" :> << 2, 3 >>) @@ ("BATCH_MATMUL" :> << 2, 8 >>)
Energy == ("FC" :> << 10, 3 >>) @@ ("BATCH_MATMUL" :> << 6, 5 >>)
MCOutcome(place, token, mapping) ==
  LET n == mapping[2]
      op == token[1]
  IN  [ok |-> ~(op = "BATCH_MATMUL" /\ n = 1 /\ mapping[1][1] = 2),
       cost |-> [latency |-> Latency[op][n] * (IF place \in Near THEN 1 ELSE 2),
                 energy |-> IF place \in Near /\ op = "BATCH_MATMUL" THEN 5 + n ELSE Energy[op][n],
                 footprint |-> IF op = "FC" THEN 4 - n ELSE n]]

Run(model, layers, root, seed, traces) ==
  [do |-> "run", model |-> model, arches |-> << "upmem" >>, layers |-> layers, root |-> root,
   seed |-> seed, traces |-> traces, scarce |-> FALSE]
Scarce(r) == [r EXCEPT !.scarce = TRUE]

One == Run("A", 3, "data", 1, 1)
More == Run("A", 3, "data", 1, 2)
Fewer == Run("A", 2, "data", 1, 1)
Moved == Run("A", 3, "other", 1, 1)
Reseeded == Run("A", 3, "data", 2, 1)
TooMany == Run("A", 4, "data", 1, 1)
Recompose == [do |-> "recompose", model |-> "A", arches |-> << "upmem" >>]
Both(r) == [r EXCEPT !.arches = << "upmem", "hbm_pim" >>]
Replot == [do |-> "plot", model |-> "A", arches |-> << "upmem" >>]
Sweep(traces) == [do |-> "sweep", seed |-> 1, traces |-> traces, scarce |-> FALSE]
Resolve1(k) == [do |-> "resolve", model |-> "A", run |-> k]

\* A run that is extended, cut short, moved, reseeded, or follows its like after
\* a kill; the sweep after it; and sweeps after each other.
MCScripts ==
  {<< One, More, Recompose, Replot >>, << Scarce(More), One, Recompose >>,
   << One, Fewer, Recompose >>, << Fewer, One, Replot >>, << One, Moved, One >>,
   << One, Reseeded, Recompose >>, << TooMany, Both(More), Both(Recompose) >>,
   << One, Both(Recompose) >>, << Fewer, Sweep(1), One, Sweep(1), Resolve1(0) >>,
   << Sweep(2), Sweep(1), Resolve1(0), Resolve1(1) >>, << Scarce(Sweep(1)), Resolve1(1) >>}

MCArea == [wide |-> 3, narrow |-> 1]
MCRank == [narrow |-> 1, wide |-> 2]
MCBounds == {3, 9, 27}
MCNetworks == << "A", "B" >>
MCGeometries == << "narrow", "wide" >>
=============================================================================
