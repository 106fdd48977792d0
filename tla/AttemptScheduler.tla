-------------------------- MODULE AttemptScheduler --------------------------
(***************************************************************************)
(* The round-robin chunk scheduler of the random search                    *)
(* (_RoundRobinChunkScheduler in dse/random_search.py).  It hands out the  *)
(* attempt numbers of each workload in chunks, one workload after another, *)
(* until the attempt budget of the run is spent or every workload has been *)
(* marked complete.  The scheduler object is a record:                     *)
(*                                                                         *)
(*   active     the workloads still to be sampled, in submission order     *)
(*   cursor     0-based position in active of the next turn                *)
(*   next       per workload, the first attempt not handed out yet         *)
(*   scheduled  attempts handed out by this run                            *)
(*   issued     chunks handed out by this run (next submission index)      *)
(***************************************************************************)
EXTENDS Integers, Sequences

CONSTANTS
  NumWorkloads,   \* workloads of the command, numbered 1 .. NumWorkloads
  MaxAttempts,    \* RandomSearchConfig.max_attempts
  BatchAttempts   \* RandomSearchConfig.batch_attempts

ASSUME NumWorkloadsAssumption == NumWorkloads \in Nat \ {0}
ASSUME BudgetAssumption == MaxAttempts \in Nat \ {0} /\ BatchAttempts \in Nat \ {0}

Workloads == 1 .. NumWorkloads

Smaller(a, b) == IF a <= b THEN a ELSE b

\* A chunk: attempts start .. start + attempted - 1 of workload w.
Chunk == [sub : Nat, w : Workloads, start : Nat, attempted : Nat]

Scheduler == [active : Seq(Workloads), cursor : Nat, next : [Workloads -> Nat],
              scheduled : Nat, issued : Nat]

-----------------------------------------------------------------------------
\* The workloads with a positive target are active; they come first, since
\* the targets are shared out that way.  `next` is seeded by the resume.
NewScheduler(eligible, next) ==
  [active |-> [w \in 1 .. eligible |-> w],
   cursor |-> 0, next |-> next, scheduled |-> 0, issued |-> 0]

HasChunk(s) == s.active # << >> /\ s.scheduled < MaxAttempts

\* 0-based position of the workload whose turn it is.
Turn(s) == IF s.cursor >= Len(s.active) THEN 0 ELSE s.cursor

NextChunk(s) ==
  LET w == s.active[Turn(s) + 1]
  IN  [sub |-> s.issued, w |-> w, start |-> s.next[w],
       attempted |-> Smaller(BatchAttempts, MaxAttempts - s.scheduled)]

\* Variant: a workload always advances by a whole batch.
AfterNextBatch(s) ==
  [s EXCEPT !.next[NextChunk(s).w] = @ + BatchAttempts,
            !.scheduled = @ + NextChunk(s).attempted,
            !.issued = @ + 1,
            !.cursor = (Turn(s) + 1) % Len(s.active)]

AfterNextChunk(s) ==
  LET c == NextChunk(s)
  IN  [s EXCEPT !.next[c.w] = @ + c.attempted,
                !.scheduled = @ + c.attempted,
                !.issued = @ + 1,
                !.cursor = (Turn(s) + 1) % Len(s.active)]

\* 1-based position of w in the active list.
PositionOf(s, w) == CHOOSE i \in 1 .. Len(s.active) : s.active[i] = w

IsActive(s, w) == \E i \in 1 .. Len(s.active) : s.active[i] = w

Without(active, at) == SubSeq(active, 1, at - 1) \o SubSeq(active, at + 1, Len(active))

\* Variant: the cursor stays where it is.
MarkCompleteUnmoved(s, w) ==
  IF ~IsActive(s, w) THEN s
  ELSE LET rest == Without(s.active, PositionOf(s, w))
       IN  [s EXCEPT !.active = rest, !.cursor = IF @ >= Len(rest) THEN 0 ELSE @]

\* A cursor right of the removed workload keeps pointing at the same turn.
MarkComplete(s, w) ==
  IF ~IsActive(s, w) THEN s
  ELSE LET at      == PositionOf(s, w)
           rest    == Without(s.active, at)
           shifted == IF at - 1 < s.cursor THEN s.cursor - 1 ELSE s.cursor
       IN  [s EXCEPT !.active = rest,
                     !.cursor = IF shifted >= Len(rest) THEN 0 ELSE shifted]
=============================================================================
