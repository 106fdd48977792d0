--------------------------- MODULE SchedulerTurns ---------------------------
(***************************************************************************)
(* The scheduler on its own: its two callers (_run_single_process and      *)
(* _run_multi_process) draw chunks and mark workloads complete in any      *)
(* order.  turns[w] counts the chunks handed to w, start[w] remembers the  *)
(* attempt index the resume seeded.                                        *)
(***************************************************************************)
EXTENDS AttemptScheduler

Sets == INSTANCE FiniteSetsExt

CONSTANT SeedIndices   \* attempt indices a resume may seed a workload with

ASSUME SeedIndicesAssumption == SeedIndices \subseteq Nat

VARIABLES scheduler, turns, start, issuedRanges

turnsVars == << scheduler, turns, start, issuedRanges >>

TurnsTypeOK ==
  /\ scheduler \in Scheduler
  /\ turns \in [Workloads -> Nat]
  /\ start \in [Workloads -> Nat]
  /\ issuedRanges \subseteq Chunk

TurnsInit ==
  /\ start \in [Workloads -> SeedIndices]
  /\ \E eligible \in Workloads : scheduler = NewScheduler(eligible, start)
  /\ turns = [w \in Workloads |-> 0]
  /\ issuedRanges = {}

DrawChunk ==
  /\ HasChunk(scheduler)
  /\ scheduler' = AfterNextChunk(scheduler)
  /\ turns' = [turns EXCEPT ![NextChunk(scheduler).w] = @ + 1]
  /\ issuedRanges' = issuedRanges \cup {NextChunk(scheduler)}
  /\ UNCHANGED start

Complete(w) ==
  /\ scheduler' = MarkComplete(scheduler, w)
  /\ UNCHANGED << turns, start, issuedRanges >>

TurnsNext == DrawChunk \/ \E w \in Workloads : Complete(w)

TurnsSpec == TurnsInit /\ [][TurnsNext]_turnsVars /\ WF_turnsVars(DrawChunk)

-----------------------------------------------------------------------------
ActiveSet == {scheduler.active[i] : i \in 1 .. Len(scheduler.active)}

\* Round robin survives removals: whatever workloads have been completed in
\* the meantime (mark_workload_complete moves the cursor), two workloads that
\* are both still active never differ by more than one turn.
TurnsBalanced ==
  \A v, w \in ActiveSet : turns[v] <= turns[w] + 1

Covers(c, w, a) == c.w = w /\ c.start <= a /\ a < c.start + c.attempted

\* The attempt ranges of a workload tile start[w] .. next[w] - 1: no attempt
\* is handed to two chunks and none is left out, so the sampled stream of a
\* workload does not depend on how the other workloads interleave.
RangesTile ==
  \A w \in Workloads : \A a \in start[w] .. scheduler.next[w] - 1 :
    \E c \in issuedRanges : /\ Covers(c, w, a)
                            /\ \A d \in issuedRanges : Covers(d, w, a) => d = c

=============================================================================
