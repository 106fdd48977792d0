---------------------------- MODULE WorkerCounts ----------------------------
(***************************************************************************)
(* One command run twice from scratch, on two directories: once with one   *)
(* worker (_run_single_process), then with a pool (_run_multi_process).    *)
(* seeding.py promises byte-identical outputs: "worker counts and          *)
(* scheduling order cannot change results".                                *)
(***************************************************************************)
EXTENDS Naturals

CONSTANTS
  NumWorkloads, MaxAttempts, BatchAttempts, NumWorkers,
  Keys, LegalKeys, NoSample, Seeds, Horizon, Streams, TraceCounts, None

VARIABLES
  stream,                                                   \* the draws
  traces1, journal1, torn1, saved1, exit1, runs1,           \* one worker: directory
  pc1, run1, chunk1, at1,                                   \*             process
  traces, journal, torn, saved, exit, runs,                 \* pool: directory
  pc, run, pending, finished, completed, chunk, at          \*       parent

One == INSTANCE SequentialSearch WITH
  traces <- traces1, journal <- journal1, torn <- torn1, saved <- saved1,
  exit <- exit1, runs <- runs1, pc <- pc1, run <- run1, chunk <- chunk1, at <- at1,
  MaxRuns <- 1, TornAppends <- FALSE, ResumeFlags <- {TRUE}

Pool == INSTANCE PoolSearch WITH
  MaxRuns <- 1, TornAppends <- FALSE, ResumeFlags <- {TRUE}

oneVars  == << traces1, journal1, torn1, saved1, exit1, runs1, pc1, run1, chunk1, at1 >>
poolVars == << traces, journal, torn, saved, exit, runs,
               pc, run, pending, finished, completed, chunk, at >>

Init == One!Init /\ Pool!Init

RunOne ==
  /\ exit1 = "none"
  /\ One!Command \/ One!Process
  /\ UNCHANGED poolVars

RunPool ==
  /\ exit1 = "ok"
  /\ Pool!Command \/ Pool!Parent \/ Pool!Worker
  /\ UNCHANGED oneVars

Next == RunOne \/ RunPool

Spec == Init /\ [][Next]_<< stream, oneVars, poolVars >>

BothEnded == exit1 = "ok" /\ exit = "ok"

\* The kept traces, their numbering and their journal do not depend on the
\* number of workers, nor on the order in which workers finish (seeding.py): it
\* holds until the budget of attempts is spent.
SameTraces == BothEnded => traces = traces1 /\ journal = journal1

=============================================================================
