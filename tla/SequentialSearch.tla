-------------------------- MODULE SequentialSearch --------------------------
(***************************************************************************)
(* The random search in one process (_run_single_process in               *)
(* dse/random_search.py, used when num_workers is 1), started again and    *)
(* again on one directory.  Unlike a pool worker it drops a draw it has    *)
(* seen anywhere in the run, legal or not, and it leaves the chunk in      *)
(* which the last trace is found.                                          *)
(***************************************************************************)
EXTENDS SearchStore

VARIABLES
  pc,     \* where the process is; "down" when no command runs
  run,    \* its local variables
  chunk,  \* the chunk being sampled
  at      \* the next attempt of it

memory == << pc, run, chunk, at >>
vars == << stream, disk, exit, runs, memory >>

Run == [seed : Seeds, want : TraceCounts, existing : Nat, kept : Nat,
        accepted : [Workloads -> Nat], seen : SUBSET (Workloads \X Keys),
        sched : Scheduler, doneUpTo : [Workloads -> Nat],
        attempts : Nat, duplicates : Nat]

TypeOK ==
  /\ StoreTypeOK
  /\ pc \in {"down", "pick", "sample", "journal"}
  /\ run \in (IF pc = "down" THEN {None} ELSE Run)
  /\ chunk \in (IF pc \in {"sample", "journal"} THEN Chunk ELSE {None})
  /\ at \in Nat

Init ==
  /\ StoreInit
  /\ pc = "down" /\ run = None /\ chunk = None /\ at = 0

-----------------------------------------------------------------------------
NewRun(s, n) ==
  [seed |-> s, want |-> n, existing |-> Len(traces), kept |-> Len(traces),
   accepted |-> ResumeAccepted, seen |-> ResumeSeen,
   sched |-> NewScheduler(Smaller(n, NumWorkloads), ResumeNext),
   doneUpTo |-> ResumeNext, attempts |-> 0, duplicates |-> 0]

Refuse(s, resume) ==
  pc = "down" /\ RefuseDirectory(s, resume) /\ UNCHANGED memory

Skip(s, n, resume) ==
  pc = "down" /\ SkipDirectory(s, n, resume) /\ UNCHANGED memory

Start(s, n, resume) ==
  /\ pc = "down"
  /\ SearchNeeded(s, n, resume)
  /\ runs' = runs + 1
  /\ pc' = "pick"
  /\ run' = NewRun(s, n)
  /\ UNCHANGED << stream, disk, exit, chunk, at >>

-----------------------------------------------------------------------------
Searching == run.kept < run.want

AtTarget(w) == run.accepted[w] >= Quota(run.want, w)

\* The chunk of a workload that had all its traces before the run began is
\* thrown away; the attempts it took stay charged to the budget.
DiscardChunk ==
  /\ pc = "pick" /\ Searching
  /\ HasChunk(run.sched)
  /\ AtTarget(NextChunk(run.sched).w)
  /\ run' = [run EXCEPT !.sched = MarkComplete(AfterNextChunk(@), NextChunk(@).w)]
  /\ UNCHANGED << stream, disk, exit, runs, pc, chunk, at >>

\* Variant: the state file is written before the chunk is sampled.
TakeChunkSavingFirst ==
  /\ pc = "pick" /\ Searching
  /\ HasChunk(run.sched)
  /\ ~AtTarget(NextChunk(run.sched).w)
  /\ chunk' = NextChunk(run.sched)
  /\ at' = NextChunk(run.sched).start
  /\ run' = [run EXCEPT !.sched = AfterNextChunk(@)]
  /\ saved' = [seed |-> run.seed, next |-> AfterNextChunk(run.sched).next,
               attempts |-> run.attempts,
               accepted |-> run.kept - run.existing,
               duplicates |-> run.duplicates]
  /\ pc' = "sample"
  /\ UNCHANGED << stream, traces, journal, torn, exit, runs >>

TakeChunk ==
  /\ pc = "pick" /\ Searching
  /\ HasChunk(run.sched)
  /\ ~AtTarget(NextChunk(run.sched).w)
  /\ chunk' = NextChunk(run.sched)
  /\ at' = NextChunk(run.sched).start
  /\ run' = [run EXCEPT !.sched = AfterNextChunk(@)]
  /\ pc' = "sample"
  /\ UNCHANGED << stream, disk, exit, runs >>

\* Variant: the loop does not look at the budget.
EndRunAtTarget ==
  /\ pc = "pick"
  /\ ~Searching
  /\ exit' = "ok"
  /\ pc' = "down" /\ run' = None /\ chunk' = None /\ at' = 0
  /\ UNCHANGED << stream, disk, runs >>

EndRun ==
  /\ pc = "pick"
  /\ ~Searching \/ ~HasChunk(run.sched)
  /\ exit' = "ok"
  /\ pc' = "down" /\ run' = None /\ chunk' = None /\ at' = 0
  /\ UNCHANGED << stream, disk, runs >>

ChunkEnd == chunk.start + chunk.attempted

\* What the attempt under consideration draws.
Drawn == Draw(run.seed, chunk.w, at)
Found == << chunk.w, Drawn >>

\* An attempt that yields no trace: nothing drawn, drawn before, not legal, or
\* not wanted any more because its workload has all its traces.
PassOver ==
  /\ pc = "sample" /\ Searching
  /\ at < ChunkEnd
  /\ \/ /\ Drawn = NoSample
        /\ run' = [run EXCEPT !.attempts = @ + 1]
     \/ /\ Drawn # NoSample /\ Found \in run.seen
        /\ run' = [run EXCEPT !.attempts = @ + 1, !.duplicates = @ + 1]
     \/ /\ Drawn \in Keys \ LegalKeys /\ Found \notin run.seen
        /\ run' = [run EXCEPT !.attempts = @ + 1, !.seen = @ \cup {Found}]
     \/ /\ Drawn \in LegalKeys /\ Found \notin run.seen /\ AtTarget(chunk.w)
        /\ run' = [run EXCEPT !.attempts = @ + 1, !.seen = @ \cup {Found},
                              !.sched = MarkComplete(@, chunk.w)]
  /\ at' = at + 1
  /\ UNCHANGED << stream, disk, exit, runs, pc, chunk >>

WriteTrace ==
  /\ pc = "sample" /\ Searching
  /\ at < ChunkEnd
  /\ Drawn \in LegalKeys /\ Found \notin run.seen /\ ~AtTarget(chunk.w)
  /\ run' = [run EXCEPT !.attempts = @ + 1, !.seen = @ \cup {Found}]
  /\ traces' = Append(traces, [w |-> chunk.w, key |-> Drawn])
  /\ pc' = "journal"
  /\ UNCHANGED << stream, journal, torn, saved, exit, runs, chunk, at >>

AppendRow ==
  /\ pc = "journal"
  /\ journal' = Append(journal, [w |-> chunk.w, attempt |-> at, trace |-> Len(traces)])
  /\ LET count == run.accepted[chunk.w] + 1
     IN  run' = [run EXCEPT
           !.accepted[chunk.w] = count,
           !.kept = @ + 1,
           !.sched = IF count >= Quota(run.want, chunk.w)
                     THEN MarkComplete(@, chunk.w) ELSE @]
  /\ at' = at + 1
  /\ pc' = "sample"
  /\ UNCHANGED << stream, traces, torn, saved, exit, runs, chunk >>

CloseChunk ==
  /\ pc = "sample"
  /\ ~Searching \/ at = ChunkEnd
  /\ LET upTo == IF run.doneUpTo[chunk.w] >= ChunkEnd THEN run.doneUpTo[chunk.w]
                 ELSE ChunkEnd
     IN  /\ run' = [run EXCEPT !.doneUpTo[chunk.w] = upTo]
         /\ saved' = [seed |-> run.seed,
                      next |-> [run.doneUpTo EXCEPT ![chunk.w] = upTo],
                      attempts |-> run.attempts,
                      accepted |-> run.kept - run.existing,
                      duplicates |-> run.duplicates]
  /\ chunk' = None /\ at' = 0
  /\ pc' = "pick"
  /\ UNCHANGED << stream, traces, journal, torn, exit, runs >>

-----------------------------------------------------------------------------
Kill ==
  /\ pc # "down"
  /\ exit' = "killed"
  /\ torn' \in (IF TornAppends /\ pc = "journal" THEN BOOLEAN ELSE {torn})
  /\ pc' = "down" /\ run' = None /\ chunk' = None /\ at' = 0
  /\ UNCHANGED << stream, traces, journal, saved, runs >>

Process ==
  \/ DiscardChunk \/ TakeChunk \/ EndRun
  \/ PassOver \/ WriteTrace \/ AppendRow \/ CloseChunk

Command ==
  \E s \in Seeds, resume \in ResumeFlags :
    \/ Refuse(s, resume)
    \/ \E n \in TraceCounts : Skip(s, n, resume) \/ Start(s, n, resume)

Next == Command \/ Process \/ Kill

Spec == Init /\ [][Next]_vars

FairSpec == Spec /\ WF_vars(Process)

-----------------------------------------------------------------------------
\* Every command ends, also one whose budget is spent on chunks thrown away.
Terminates == (pc # "down") ~> (pc = "down")
=============================================================================
