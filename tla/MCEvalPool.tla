----------------------------- MODULE MCEvalPool -----------------------------
(* More tasks than fit in flight; a thread and a pool of two processes.    *)
EXTENDS EvalPool

MCWorkerCounts == {1, 2}
=============================================================================
