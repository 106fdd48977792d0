--------------------------- MODULE MCWorkerCounts ---------------------------
EXTENDS WorkerCounts

CONSTANTS k1, k2, bad

MCKeys == {k1, k2, bad}
MCLegalKeys == {k1, k2}
MCStreams == [Seeds -> [1 .. NumWorkloads -> [0 .. Horizon - 1 -> Keys \cup {NoSample}]]]
=============================================================================
