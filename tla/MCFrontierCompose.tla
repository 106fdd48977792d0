------------------------- MODULE MCFrontierCompose -------------------------
(* Two workloads in up to three layers each, with up to three of five rows *)
(* that tie in one or two metrics; epsilon = 1.                            *)
EXTENDS FrontierCompose

MCPoint(l, m, e) == [latency |-> l, mem |-> m, energy |-> e]
MCPoints == {MCPoint(1, 3, 2), MCPoint(2, 1, 2), MCPoint(2, 3, 1),
             MCPoint(3, 2, 1), MCPoint(4, 1, 1)}
MCFronts == {F \in SUBSET MCPoints : Cardinality(F) \in 1 .. 3}
MCLayers == 1 .. 3
MCBounds == {2, 4, 8, 16, 32, 64}
=============================================================================
