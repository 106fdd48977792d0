------------------------- MODULE MCSequentialSearch -------------------------
(* Two workloads: every table of Horizon draws over the keys.              *)
EXTENDS SequentialSearch, TLC

CONSTANTS k1, k2, bad

MCKeys == {k1, k2, bad}
MCLegalKeys == {k1, k2}
MCStreams == [Seeds -> [Workloads -> [0 .. Horizon - 1 -> Keys \cup {NoSample}]]]
MCLegalSymmetry == Permutations({k1, k2})
=============================================================================
