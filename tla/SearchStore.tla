---------------------------- MODULE SearchStore ----------------------------
(***************************************************************************)
(* The output directory of one random search and what a run reads back     *)
(* from it (dse/random_search.py).  A directory holds                      *)
(*                                                                         *)
(*   trace_000000.yaml, ...  one accepted mapping per file, each replaced  *)
(*                           into place in one step                        *)
(*   accepted.jsonl          one appended row per accepted mapping         *)
(*   state.json              the search state of the last finished chunk,  *)
(*                           replaced in one step                          *)
(* (summary.json and the schedule files are written beside one of these.)  *)
(*                                                                         *)
(* The candidate of an attempt depends on the seed, the workload and the   *)
(* attempt number alone (_stable_seed), so the whole sampling procedure is *)
(* one rigid table `stream`: what attempt a of workload w draws under seed *)
(* s.  A draw is a key (the dedup key: factors and pragmas of a mapping)   *)
(* or NoSample (no factorisation fits the architecture).  Whether a key is *)
(* a legal mapping is decided by the key, since validation sees nothing    *)
(* else of the attempt.                                                    *)
(***************************************************************************)
EXTENDS AttemptScheduler, FiniteSets

CONSTANTS
  Keys,         \* dedup keys of mappings
  LegalKeys,    \* the keys verify_constraints accepts
  NoSample,     \* the attempt found no factorisation
  Seeds,        \* base seeds a command may be started with
  Horizon,      \* draws tabulated per workload; later attempts draw nothing
  Streams,      \* the tables to be considered
  TraceCounts,  \* values of num_traces a command may be started with
  ResumeFlags,  \* values of resume (FALSE is --no-resume)
  None,         \* no state.json in the directory; no command, no chunk
  TornAppends,  \* TRUE: a kill may leave half a row in accepted.jsonl
  MaxRuns       \* bound on the commands started on the directory

ASSUME KeysAssumption == LegalKeys \subseteq Keys /\ NoSample \notin Keys
ASSUME HorizonAssumption == Horizon \in Nat
ASSUME StreamsAssumption ==
  Streams \subseteq [Seeds -> [Workloads -> [0 .. Horizon - 1 -> Keys \cup {NoSample}]]]
ASSUME TraceCountsAssumption == TraceCounts \subseteq Nat \ {0}
ASSUME FlagsAssumption == ResumeFlags \subseteq BOOLEAN /\ TornAppends \in BOOLEAN
ASSUME MaxRunsAssumption == MaxRuns \in Nat

VARIABLES
  stream,   \* the draws, never changed
  traces,   \* the trace files in index order: workload and key of each
  journal,  \* the complete rows of accepted.jsonl
  torn,     \* accepted.jsonl ends in half a row
  saved,    \* the content of state.json
  exit,     \* how the last command on the directory ended
  runs      \* commands started so far

disk == << traces, journal, torn, saved >>

Trace == [w : Workloads, key : Keys]
Row   == [w : Workloads, attempt : Nat, trace : Nat \ {0}]
State == [seed : Seeds, next : [Workloads -> Nat],
          attempts : Nat, accepted : Nat, duplicates : Nat]

ASSUME NoneAssumption == None \notin State

StoreTypeOK ==
  /\ stream \in Streams
  /\ traces \in Seq(Trace)
  /\ journal \in Seq(Row)
  /\ torn \in BOOLEAN
  /\ saved \in State \cup {None}
  /\ exit \in {"none", "ok", "skipped", "refused", "killed"}
  /\ runs \in Nat

StoreInit ==
  /\ stream \in Streams
  /\ traces = << >>
  /\ journal = << >>
  /\ torn = FALSE
  /\ saved = None
  /\ exit = "none"
  /\ runs = 0

-----------------------------------------------------------------------------
\* What attempt a of workload w draws under seed s.
Draw(s, w, a) == IF a < Horizon THEN stream[s][w][a] ELSE NoSample

IsLegalDraw(s, w, a) == Draw(s, w, a) \in LegalKeys

\* The traces to find, split over the workloads; the first ones get one more.
Quota(n, w) == (n \div NumWorkloads) + (IF w <= n % NumWorkloads THEN 1 ELSE 0)

-----------------------------------------------------------------------------
(* The resume snapshot, read from the directory when a command starts.     *)

ResumeAccepted == [w \in Workloads |-> Cardinality({i \in DOMAIN traces : traces[i].w = w})]

\* Variant: the accepted mappings are not read back.
ResumeSeenNothing == {}

ResumeSeen == {<< traces[i].w, traces[i].key >> : i \in DOMAIN traces}

Largest(S) == CHOOSE m \in S : \A k \in S : k <= m

\* A workload goes on after the last attempt state.json, the journal and the
\* number of its trace files know of.
ResumeNext ==
  [w \in Workloads |->
     Largest({IF saved = None THEN 0 ELSE saved.next[w]}
             \cup {journal[i].attempt + 1 : i \in {j \in DOMAIN journal : journal[j].w = w}}
             \cup {ResumeAccepted[w]})]

HasArtifacts == traces # << >> \/ journal # << >> \/ torn \/ saved # None

\* The snapshot raises on an unreadable row and on a foreign signature; the
\* signature carries the seed but neither num_traces nor the worker count.
\* With --no-resume any artifact of an earlier search is refused.
Refused(s, resume) ==
  \/ ~resume /\ HasArtifacts
  \/ torn
  \/ saved # None /\ saved.seed # s

-----------------------------------------------------------------------------
(* What a command does when there is nothing for it to search              *)
(* (run_random_search_multi).                                              *)

\* The directory cannot be resumed: the command raises before it writes.
RefuseDirectory(s, resume) ==
  /\ runs < MaxRuns
  /\ Refused(s, resume)
  /\ runs' = runs + 1
  /\ exit' = "refused"
  /\ UNCHANGED << stream, disk >>

\* Variant: the rewritten state file forgets the resume points.
SkipForgetful(s, n, resume) ==
  /\ runs < MaxRuns
  /\ ~Refused(s, resume)
  /\ Len(traces) >= n
  /\ runs' = runs + 1
  /\ exit' = "skipped"
  /\ saved' = [seed |-> s, next |-> ResumeAccepted,
               attempts |-> 0, accepted |-> 0, duplicates |-> 0]
  /\ UNCHANGED << stream, traces, journal, torn >>

\* Enough traces are there already: only the state file is rewritten.
SkipDirectory(s, n, resume) ==
  /\ runs < MaxRuns
  /\ ~Refused(s, resume)
  /\ Len(traces) >= n
  /\ runs' = runs + 1
  /\ exit' = "skipped"
  /\ saved' = [seed |-> s, next |-> ResumeNext,
               attempts |-> 0, accepted |-> 0, duplicates |-> 0]
  /\ UNCHANGED << stream, traces, journal, torn >>

\* The guard under which a command goes on to search.
SearchNeeded(s, n, resume) ==
  /\ runs < MaxRuns
  /\ ~Refused(s, resume)
  /\ Len(traces) < n

-----------------------------------------------------------------------------
(* Properties of the directory alone, whoever writes it.                   *)

\* No mapping is written twice, although after a kill the attempts of an
\* unfinished chunk are drawn again and different chunks may draw the same.
TracesDistinct ==
  \A i, j \in DOMAIN traces : traces[i] = traces[j] => i = j

\* Every complete row was appended after the trace file it names, and names
\* the attempt that drew that trace; no trace has two rows.
JournalConsistent ==
  /\ \A i \in DOMAIN journal :
       LET row == journal[i]
       IN  /\ row.trace \in DOMAIN traces
           /\ traces[row.trace].w = row.w
           /\ \E s \in Seeds : traces[row.trace].key = Draw(s, row.w, row.attempt)
  /\ \A i, j \in DOMAIN journal : i < j => journal[i].trace < journal[j].trace

\* Whatever is killed or restarted, the point at which the next run will
\* take up a workload never moves back.
ResumeNeverMovesBack ==
  [][\A w \in Workloads : ResumeNext'[w] >= ResumeNext[w]]_disk

-----------------------------------------------------------------------------
(* The abstract specification of a directory, for commands with one seed   *)
(* and one num_traces.                                                     *)

TheSeed == CHOOSE s \in Seeds : TRUE
TheCount == CHOOSE n \in TraceCounts : TRUE

Sampling == INSTANCE TraceSampling WITH
  Share <- [w \in Workloads |-> Quota(TheCount, w)],
  draws <- stream[TheSeed],
  kept  <- traces

\* Kills, restarts, worker timing and the chunking never change which traces
\* a workload gets, nor their order.
ImplementsSampling == Sampling!Spec
=============================================================================
