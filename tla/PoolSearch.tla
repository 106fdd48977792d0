----------------------------- MODULE PoolSearch -----------------------------
(***************************************************************************)
(* The random search with a pool of worker processes (_run_multi_process   *)
(* in dse/random_search.py), started again and again on one directory.     *)
(*                                                                         *)
(* The parent keeps up to NumWorkers chunks submitted (pending), waits for *)
(* any of them to finish, parks results that arrive early (completed) and  *)
(* consumes chunks in submission order (run.nextEmit).  Consuming a chunk  *)
(* writes, per accepted candidate, a trace file and then a journal row,    *)
(* and at its end the state file.  A kill may fall between any two steps;  *)
(* everything but the directory is then lost.                              *)
(***************************************************************************)
EXTENDS SearchStore

CONSTANT NumWorkers   \* RandomSearchConfig.num_workers

ASSUME NumWorkersAssumption == NumWorkers \in Nat \ {0}

VARIABLES
  pc,         \* where the parent is; "down" when no command runs
  run,        \* its local variables
  pending,    \* submitted chunks whose futures were not collected yet
  finished,   \* those of them whose worker is done
  completed,  \* collected results that wait for their turn
  chunk,      \* the chunk being consumed
  at          \* the first attempt of it still to be considered

memory == << pc, run, pending, finished, completed, chunk, at >>
vars == << stream, disk, exit, runs, memory >>

Run == [seed : Seeds, want : TraceCounts, existing : Nat, kept : Nat,
        accepted : [Workloads -> Nat], seen : SUBSET (Workloads \X Keys),
        sched : Scheduler, doneUpTo : [Workloads -> Nat],
        attempts : Nat, duplicates : Nat, nextEmit : Nat, stop : BOOLEAN]

TypeOK ==
  /\ StoreTypeOK
  /\ pc \in {"down", "fill", "wait", "emit", "candidate", "journal", "refill"}
  /\ run \in (IF pc = "down" THEN {None} ELSE Run)
  /\ pending \subseteq Chunk
  /\ finished \subseteq pending
  /\ completed \subseteq Chunk
  /\ chunk \in (IF pc \in {"candidate", "journal"} THEN Chunk ELSE {None})
  /\ at \in Nat

NoMemory ==
  /\ pc = "down" /\ run = None /\ chunk = None /\ at = 0
  /\ pending = {} /\ finished = {} /\ completed = {}

Init == StoreInit /\ NoMemory

-----------------------------------------------------------------------------
(* What a worker returns for a chunk (_worker_sample_chunk).               *)

Attempts(c) == c.start .. c.start + c.attempted - 1

\* The worker drops draws repeated within its chunk, legal or not.
RepeatsInChunk(s, c) ==
  {a \in Attempts(c) :
     /\ Draw(s, c.w, a) # NoSample
     /\ \E b \in Attempts(c) : b < a /\ Draw(s, c.w, b) = Draw(s, c.w, a)}

Candidates(s, c) ==
  {a \in Attempts(c) \ RepeatsInChunk(s, c) : IsLegalDraw(s, c.w, a)}

-----------------------------------------------------------------------------
(* Starting a command.                                                     *)

NewRun(s, n) ==
  [seed |-> s, want |-> n, existing |-> Len(traces), kept |-> Len(traces),
   accepted |-> ResumeAccepted, seen |-> ResumeSeen,
   sched |-> NewScheduler(Smaller(n, NumWorkloads), ResumeNext),
   doneUpTo |-> ResumeNext,
   attempts |-> 0, duplicates |-> 0, nextEmit |-> 0, stop |-> FALSE]

Refuse(s, resume) ==
  pc = "down" /\ RefuseDirectory(s, resume) /\ UNCHANGED memory

Skip(s, n, resume) ==
  pc = "down" /\ SkipDirectory(s, n, resume) /\ UNCHANGED memory

Start(s, n, resume) ==
  /\ pc = "down"
  /\ SearchNeeded(s, n, resume)
  /\ runs' = runs + 1
  /\ pc' = "fill"
  /\ run' = NewRun(s, n)
  /\ UNCHANGED << stream, disk, exit, pending, finished, completed, chunk, at >>

-----------------------------------------------------------------------------
(* Submitting and collecting.                                              *)

MaySubmit ==
  /\ ~run.stop
  /\ Cardinality(pending) < NumWorkers
  /\ HasChunk(run.sched)

Submit ==
  /\ pc \in {"fill", "refill"}
  /\ MaySubmit
  /\ pending' = pending \cup {NextChunk(run.sched)}
  /\ run' = [run EXCEPT !.sched = AfterNextChunk(@)]
  /\ UNCHANGED << stream, disk, exit, runs, pc, finished, completed, chunk, at >>

FillDone ==
  /\ pc \in {"fill", "refill"}
  /\ ~MaySubmit
  /\ pc' = IF pc = "fill" THEN "wait" ELSE "emit"
  /\ UNCHANGED << stream, disk, exit, runs, run, pending, finished, completed, chunk, at >>

WorkerFinish(c) ==
  /\ c \in pending \ finished
  /\ finished' = finished \cup {c}
  /\ UNCHANGED << stream, disk, exit, runs, pc, run, pending, completed, chunk, at >>

\* Variant: results that arrived earlier are overwritten.
CollectOverwriting ==
  /\ pc = "wait"
  /\ ~run.stop
  /\ finished # {}
  /\ completed' = finished
  /\ pending' = pending \ finished
  /\ finished' = {}
  /\ pc' = "emit"
  /\ UNCHANGED << stream, disk, exit, runs, run, chunk, at >>

\* wait(FIRST_COMPLETED) returns every future that is done by then.
Collect ==
  /\ pc = "wait"
  /\ ~run.stop
  /\ finished # {}
  /\ completed' = completed \cup finished
  /\ pending' = pending \ finished
  /\ finished' = {}
  /\ pc' = "emit"
  /\ UNCHANGED << stream, disk, exit, runs, run, chunk, at >>

\* Variant: the loop goes on while anything is pending, the target met or not.
EndRunDrained ==
  /\ pc = "wait"
  /\ pending = {}
  /\ exit' = "ok"
  /\ pc' = "down" /\ run' = None /\ chunk' = None /\ at' = 0
  /\ pending' = {} /\ finished' = {} /\ completed' = {}
  /\ UNCHANGED << stream, disk, runs >>

\* Leaving the loop cancels what is pending; running workers are awaited.
EndRun ==
  /\ pc = "wait"
  /\ run.stop \/ pending = {}
  /\ exit' = "ok"
  /\ pc' = "down" /\ run' = None /\ chunk' = None /\ at' = 0
  /\ pending' = {} /\ finished' = {} /\ completed' = {}
  /\ UNCHANGED << stream, disk, runs >>

-----------------------------------------------------------------------------
(* Consuming the results in submission order.                              *)

BeginChunk ==
  /\ pc = "emit"
  /\ ~run.stop
  /\ \E c \in completed :
       /\ c.sub = run.nextEmit
       /\ completed' = completed \ {c}
       /\ chunk' = c
       /\ at' = c.start
       /\ run' = [run EXCEPT
            !.attempts = @ + c.attempted,
            !.duplicates = @ + Cardinality(RepeatsInChunk(run.seed, c))]
  /\ pc' = "candidate"
  /\ UNCHANGED << stream, disk, exit, runs, pending, finished >>

NothingToEmit ==
  /\ pc = "emit"
  /\ run.stop \/ \A c \in completed : c.sub # run.nextEmit
  /\ pc' = "wait"
  /\ UNCHANGED << stream, disk, exit, runs, run, pending, finished, completed, chunk, at >>

AtTarget(w) == run.accepted[w] >= Quota(run.want, w)

\* The candidates of the chunk still to be looked at.
Remaining == {a \in Candidates(run.seed, chunk) : a >= at}

\* Variant: the candidates of a chunk come back in any order.
IsAny(a) == a \in Remaining

IsNext(a) == a \in Remaining /\ \A b \in Remaining : a <= b

\* The mapping attempt a of the chunk drew.
Found(a) == << chunk.w, Draw(run.seed, chunk.w, a) >>

DropDuplicate ==
  /\ pc = "candidate"
  /\ ~run.stop /\ ~AtTarget(chunk.w)
  /\ \E a \in Remaining :
       /\ IsNext(a)
       /\ Found(a) \in run.seen
       /\ at' = a + 1
  /\ run' = [run EXCEPT !.duplicates = @ + 1]
  /\ UNCHANGED << stream, disk, exit, runs, pc, pending, finished, completed, chunk >>

WriteTrace ==
  /\ pc = "candidate"
  /\ ~run.stop /\ ~AtTarget(chunk.w)
  /\ \E a \in Remaining :
       /\ IsNext(a)
       /\ Found(a) \notin run.seen
       /\ traces' = Append(traces, [w |-> chunk.w, key |-> Draw(run.seed, chunk.w, a)])
       /\ run' = [run EXCEPT !.seen = @ \cup {Found(a)}]
       /\ at' = a
  /\ pc' = "journal"
  /\ UNCHANGED << stream, journal, torn, saved, exit, runs,
                  pending, finished, completed, chunk >>

\* Variant: the row counts attempts from the start of the chunk.
AppendRelativeRow ==
  /\ pc = "journal"
  /\ journal' = Append(journal, [w |-> chunk.w, attempt |-> at - chunk.start,
                                trace |-> Len(traces)])
  /\ LET count == run.accepted[chunk.w] + 1
     IN  run' = [run EXCEPT
           !.accepted[chunk.w] = count,
           !.kept = @ + 1,
           !.sched = IF count >= Quota(run.want, chunk.w)
                     THEN MarkComplete(@, chunk.w) ELSE @,
           !.stop = run.kept + 1 >= run.want]
  /\ at' = at + 1
  /\ pc' = "candidate"
  /\ UNCHANGED << stream, traces, torn, saved, exit, runs,
                  pending, finished, completed, chunk >>

AppendRow ==
  /\ pc = "journal"
  /\ journal' = Append(journal, [w |-> chunk.w, attempt |-> at, trace |-> Len(traces)])
  /\ LET count == run.accepted[chunk.w] + 1
     IN  run' = [run EXCEPT
           !.accepted[chunk.w] = count,
           !.kept = @ + 1,
           !.sched = IF count >= Quota(run.want, chunk.w)
                     THEN MarkComplete(@, chunk.w) ELSE @,
           !.stop = run.kept + 1 >= run.want]
  /\ at' = at + 1
  /\ pc' = "candidate"
  /\ UNCHANGED << stream, traces, torn, saved, exit, runs,
                  pending, finished, completed, chunk >>

\* The chunk is consumed: whatever of it was not needed counts as attempted.
CloseChunk ==
  /\ pc = "candidate"
  /\ run.stop \/ AtTarget(chunk.w) \/ Remaining = {}
  /\ LET end  == chunk.start + chunk.attempted
         upTo == IF run.doneUpTo[chunk.w] >= end THEN run.doneUpTo[chunk.w] ELSE end
     IN  /\ run' = [run EXCEPT
              !.sched = IF AtTarget(chunk.w) THEN MarkComplete(@, chunk.w) ELSE @,
              !.doneUpTo[chunk.w] = upTo,
              !.nextEmit = @ + 1,
              !.stop = @ \/ run.attempts >= MaxAttempts]
         /\ saved' = [seed |-> run.seed,
                      next |-> [run.doneUpTo EXCEPT ![chunk.w] = upTo],
                      attempts |-> run.attempts,
                      accepted |-> run.kept - run.existing,
                      duplicates |-> run.duplicates]
  /\ chunk' = None /\ at' = 0
  /\ pc' = "refill"
  /\ UNCHANGED << stream, traces, journal, torn, exit, runs,
                  pending, finished, completed >>

-----------------------------------------------------------------------------
\* The command dies: a signal, a power loss, a broken pool, a worker's error.
Kill ==
  /\ pc # "down"
  /\ exit' = "killed"
  /\ torn' \in (IF TornAppends /\ pc = "journal" THEN BOOLEAN ELSE {torn})
  /\ pc' = "down" /\ run' = None /\ chunk' = None /\ at' = 0
  /\ pending' = {} /\ finished' = {} /\ completed' = {}
  /\ UNCHANGED << stream, traces, journal, saved, runs >>

Parent ==
  \/ Submit \/ FillDone \/ Collect \/ EndRun
  \/ BeginChunk \/ NothingToEmit
  \/ DropDuplicate \/ WriteTrace \/ AppendRow \/ CloseChunk

Command ==
  \E s \in Seeds, resume \in ResumeFlags :
    \/ Refuse(s, resume)
    \/ \E n \in TraceCounts : Skip(s, n, resume) \/ Start(s, n, resume)

Worker == \E c \in pending : WorkerFinish(c)

Next == Command \/ Parent \/ Worker \/ Kill

Spec == Init /\ [][Next]_vars

\* The parent and every worker keep running; nobody has to kill or restart.
FairSpec == Spec /\ WF_vars(Parent) /\ WF_vars(Worker)

-----------------------------------------------------------------------------
(* Safety.                                                                 *)

\* A run ends short of its target only after spending the whole budget: no
\* chunk handed to a worker is lost, whatever the order in which they finish.
ShortOnlyWhenSpent ==
  [][EndRun => run.kept >= run.want \/ run.attempts = MaxAttempts]_vars

-----------------------------------------------------------------------------
(* Liveness.                                                               *)

\* Every command ends: the parent never waits for a chunk nobody works on.
Terminates == (pc # "down") ~> (pc = "down")
=============================================================================
