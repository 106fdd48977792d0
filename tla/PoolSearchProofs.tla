------------------------- MODULE PoolSearchProofs -------------------------
(***************************************************************************)
(* What holds of the pool search and its directory for any number of       *)
(* workloads, workers and commands, any budget, batch size and table of    *)
(* draws, with kills and torn rows.                                        *)
(***************************************************************************)
EXTENDS PoolSearch, SearchStoreProofs

\* A running command knows every mapping in the directory, and its resume
\* points are not below those of the state file.
RunAhead ==
  pc # "down" =>
    /\ Pointed(run.sched)
    /\ run.existing <= run.kept
    /\ ResumeSeen \subseteq run.seen
    /\ saved # None => \A w \in Workloads : saved.next[w] <= run.doneUpTo[w]

\* Between trace file and journal row, the last trace is the one in hand and
\* has no row yet.
TraceInHand ==
  pc = "journal" =>
    /\ traces # << >>
    /\ traces[Len(traces)] = [w |-> chunk.w, key |-> Draw(run.seed, chunk.w, at)]
    /\ \A i \in DOMAIN journal : journal[i].trace < Len(traces)

PoolInv == TypeOK /\ StoreInv /\ RunAhead /\ TraceInHand

-----------------------------------------------------------------------------
LEMMA PoolInvInit == Init => PoolInv
<1> SUFFICES ASSUME Init PROVE PoolInv
  OBVIOUS
<1>1. TypeOK
  <2>1. << >> \in Seq(Trace) /\ << >> \in Seq(Row)
    OBVIOUS
  <2>2. StoreTypeOK
    BY <2>1 DEF Init, StoreInit, StoreTypeOK
  <2> QED
    BY <2>2 DEF Init, NoMemory, TypeOK
<1>2. StoreInv
  BY <1>1, EmptySeq DEF TypeOK, Init, StoreInit, StoreInv, JournalBounded, TracesDistinct,
                        JournalConsistent
<1> QED
  BY <1>1, <1>2 DEF Init, NoMemory, RunAhead, TraceInHand, PoolInv

\* Steps of the parent or a worker that leave the directory alone and do not
\* stand between trace file and journal row.
LEMMA MemoryStep ==
  ASSUME PoolInv, TypeOK', UNCHANGED << stream, disk >>, pc' # "journal",
         pc' # "down" => /\ pc # "down"
                         /\ Pointed(run'.sched)
                         /\ run'.existing <= run'.kept
                         /\ run.seen \subseteq run'.seen
                         /\ run'.doneUpTo = run.doneUpTo
  PROVE  PoolInv' /\ Forward
<1>1. StoreInv' /\ Forward /\ ResumeSeen' = ResumeSeen
  BY StoreKept DEF PoolInv, TypeOK, disk
<1>2. RunAhead'
  BY <1>1 DEF PoolInv, RunAhead, disk
<1> QED
  BY <1>1, <1>2 DEF PoolInv, TraceInHand

-----------------------------------------------------------------------------
(* Starting a command.                                                     *)

LEMMA RefuseInv ==
  ASSUME PoolInv, NEW s \in Seeds, NEW resume \in ResumeFlags, Refuse(s, resume)
  PROVE  PoolInv' /\ Forward
<1>1. TypeOK' /\ UNCHANGED << stream, disk >>
  BY DEF PoolInv, TypeOK, StoreTypeOK, Refuse, RefuseDirectory, disk, memory
<1>2. pc' = "down"
  BY DEF Refuse, memory
<1> QED
  BY <1>1, <1>2, MemoryStep

LEMMA SkipInv ==
  ASSUME PoolInv, NEW s \in Seeds, NEW n \in TraceCounts, NEW resume \in ResumeFlags,
         Skip(s, n, resume)
  PROVE  PoolInv' /\ Forward
<1>1. StoreInv /\ StoreTypeOK /\ JournalBounded
  BY DEF PoolInv, StoreInv
<1>2. ResumeNext \in [Workloads -> Nat]
  BY <1>1, ResumeNextType
<1>3. saved' \in State /\ saved'.next = ResumeNext
  BY <1>2 DEF Skip, SkipDirectory, State
<1>4. StoreTypeOK' /\ TypeOK'
  BY <1>3 DEF PoolInv, TypeOK, StoreTypeOK, Skip, SkipDirectory, memory
<1>5. saved # None => \A w \in Workloads : saved.next[w] <= saved'.next[w]
  BY <1>1, <1>3, ResumeNextLargest DEF KnownOf
<1>6. StoreInv' /\ Forward
  BY <1>1, <1>3, <1>4, <1>5, NoneAssumption, StateWritten DEF Skip, SkipDirectory
<1> QED
  BY <1>4, <1>6 DEF PoolInv, RunAhead, TraceInHand, Skip, memory

LEMMA StartInv ==
  ASSUME PoolInv, NEW s \in Seeds, NEW n \in TraceCounts, NEW resume \in ResumeFlags,
         Start(s, n, resume)
  PROVE  PoolInv' /\ Forward
<1>1. StoreInv /\ StoreTypeOK /\ JournalBounded
  BY DEF PoolInv, StoreInv
<1>2. ResumeNext \in [Workloads -> Nat] /\ ResumeAccepted \in [Workloads -> Nat]
  BY <1>1, ResumeNextType, ResumeAcceptedType
<1>3. ResumeSeen \subseteq Workloads \X Keys
  <2>1. \A i \in DOMAIN traces : traces[i] \in Trace
    BY <1>1, ElementOfSeq DEF StoreTypeOK
  <2> QED
    BY <2>1 DEF ResumeSeen, Trace
<1> DEFINE sched == NewScheduler(Smaller(n, NumWorkloads), ResumeNext)
<1>4. Pointed(sched) /\ sched \in Scheduler
  <2>1. Smaller(n, NumWorkloads) \in Workloads
    BY TraceCountsAssumption, NumWorkloadsAssumption DEF Smaller, Workloads
  <2>2. Pointed(sched)
    BY <1>2, <2>1, NewSchedulerPointed
  <2> QED
    BY <2>2 DEF Pointed
<1>5. Len(traces) \in Nat
  BY <1>1 DEF StoreTypeOK
<1>6. run' = NewRun(s, n)
  BY DEF Start
<1> HIDE DEF sched
<1>7. /\ run' \in Run /\ run'.sched = sched /\ run'.existing = run'.kept
      /\ run'.kept = Len(traces) /\ run'.seen = ResumeSeen /\ run'.doneUpTo = ResumeNext
  BY <1>2, <1>3, <1>4, <1>5, <1>6 DEF NewRun, Run, sched
<1>8. StoreTypeOK' /\ TypeOK'
  BY <1>7 DEF PoolInv, TypeOK, StoreTypeOK, Start, SearchNeeded, disk
<1>9. StoreInv' /\ Forward /\ ResumeSeen' = ResumeSeen
  BY <1>1, <1>8, StoreKept DEF Start, disk
<1>10. saved # None => \A w \in Workloads : saved.next[w] <= ResumeNext[w]
  BY <1>1, ResumeNextLargest DEF KnownOf
<1>11. RunAhead'
  BY <1>4, <1>5, <1>7, <1>9, <1>10 DEF RunAhead, Start, disk
<1> QED
  BY <1>8, <1>9, <1>11 DEF PoolInv, TraceInHand, Start

-----------------------------------------------------------------------------
(* Submitting and collecting.                                              *)

LEMMA SubmitInv == ASSUME PoolInv, Submit PROVE PoolInv' /\ Forward
<1> DEFINE sched == AfterNextChunk(run.sched)
<1>1. run \in Run /\ Pointed(run.sched) /\ HasChunk(run.sched)
  BY DEF PoolInv, TypeOK, RunAhead, Submit, MaySubmit
<1>2. NextChunk(run.sched) \in Chunk /\ Pointed(sched)
  BY <1>1, NextChunkType, AfterNextChunkPointed
<1>3. sched \in Scheduler /\ run' = [run EXCEPT !.sched = sched]
  BY <1>2 DEF Pointed, Submit
<1> HIDE DEF sched
<1>4. /\ run' \in Run /\ run'.sched = sched /\ run'.existing = run.existing
      /\ run'.kept = run.kept /\ run'.seen = run.seen /\ run'.doneUpTo = run.doneUpTo
  BY <1>1, <1>3 DEF Run
<1>5. TypeOK'
  BY <1>2, <1>4 DEF PoolInv, TypeOK, StoreTypeOK, Submit, disk
<1> QED
  BY <1>2, <1>4, <1>5, MemoryStep DEF Submit, PoolInv, RunAhead

LEMMA FillDoneInv == ASSUME PoolInv, FillDone PROVE PoolInv' /\ Forward
<1>1. TypeOK'
  BY DEF PoolInv, TypeOK, StoreTypeOK, FillDone, disk
<1> QED
  BY <1>1, MemoryStep DEF FillDone, PoolInv, RunAhead, TypeOK, Run

\* The only step that may happen while a row is about to be written.
LEMMA WorkerFinishInv ==
  ASSUME PoolInv, NEW c \in pending, WorkerFinish(c) PROVE PoolInv' /\ Forward
<1>1. TypeOK'
  BY DEF PoolInv, TypeOK, StoreTypeOK, WorkerFinish, disk
<1>2. StoreInv' /\ Forward /\ ResumeSeen' = ResumeSeen
  BY <1>1, StoreKept DEF PoolInv, TypeOK, WorkerFinish, disk
<1>3. RunAhead' /\ TraceInHand'
  BY <1>2 DEF PoolInv, RunAhead, TraceInHand, WorkerFinish, disk, Draw
<1> QED
  BY <1>1, <1>2, <1>3 DEF PoolInv

LEMMA CollectInv == ASSUME PoolInv, Collect PROVE PoolInv' /\ Forward
<1>1. TypeOK'
  BY DEF PoolInv, TypeOK, StoreTypeOK, Collect, disk
<1> QED
  BY <1>1, MemoryStep DEF Collect, PoolInv, RunAhead, TypeOK, Run

LEMMA EndRunInv == ASSUME PoolInv, EndRun PROVE PoolInv' /\ Forward
<1>1. TypeOK'
  BY DEF PoolInv, TypeOK, StoreTypeOK, EndRun, disk
<1> QED
  BY <1>1, MemoryStep DEF EndRun

LEMMA NothingToEmitInv == ASSUME PoolInv, NothingToEmit PROVE PoolInv' /\ Forward
<1>1. TypeOK'
  BY DEF PoolInv, TypeOK, StoreTypeOK, NothingToEmit, disk
<1> QED
  BY <1>1, MemoryStep DEF NothingToEmit, PoolInv, RunAhead, TypeOK, Run

LEMMA KillInv == ASSUME PoolInv, Kill PROVE PoolInv' /\ Forward
<1>1. torn' \in BOOLEAN
  BY DEF PoolInv, TypeOK, StoreTypeOK, Kill
<1>2. TypeOK'
  BY <1>1 DEF PoolInv, TypeOK, StoreTypeOK, Kill
<1>3. StoreInv' /\ Forward
  BY <1>2, StoreKept DEF PoolInv, TypeOK, Kill
<1> QED
  BY <1>2, <1>3 DEF PoolInv, RunAhead, TraceInHand, Kill

-----------------------------------------------------------------------------
(* Consuming the results.                                                  *)

LEMMA BeginChunkInv == ASSUME PoolInv, BeginChunk PROVE PoolInv' /\ Forward
<1>1. PICK c \in completed :
        /\ completed' = completed \ {c} /\ chunk' = c /\ at' = c.start
        /\ run' = [run EXCEPT
             !.attempts = @ + c.attempted,
             !.duplicates = @ + Cardinality(RepeatsInChunk(run.seed, c))]
  BY DEF BeginChunk
<1>2. run \in Run /\ c \in Chunk /\ c.start \in Nat /\ c.attempted \in Nat
  BY DEF PoolInv, TypeOK, BeginChunk, Chunk
<1> DEFINE repeats == Cardinality(RepeatsInChunk(run.seed, c))
           attempts == run.attempts + c.attempted
           duplicates == run.duplicates + repeats
<1>3. repeats \in Nat
  <2>1. IsFiniteSet(c.start .. c.start + c.attempted - 1)
    BY <1>2, FS_Interval
  <2>2. IsFiniteSet(RepeatsInChunk(run.seed, c))
    BY <2>1, FS_Subset DEF RepeatsInChunk, Attempts
  <2> QED
    BY <2>2, FS_CardinalityType
<1> HIDE DEF repeats
<1>4. attempts \in Nat /\ duplicates \in Nat
  BY <1>2, <1>3 DEF Run
<1>5. run' = [run EXCEPT !.attempts = attempts, !.duplicates = duplicates]
  BY <1>1 DEF repeats
<1> HIDE DEF attempts, duplicates
<1>6. /\ run' \in Run /\ run'.sched = run.sched /\ run'.existing = run.existing
      /\ run'.kept = run.kept /\ run'.seen = run.seen /\ run'.doneUpTo = run.doneUpTo
  BY <1>2, <1>4, <1>5 DEF Run
<1>7. TypeOK'
  BY <1>1, <1>2, <1>6 DEF PoolInv, TypeOK, StoreTypeOK, BeginChunk, disk
<1> QED
  BY <1>6, <1>7, MemoryStep DEF BeginChunk, PoolInv, RunAhead

\* An attempt that is still to be looked at is one of the chunk.
LEMMA RemainingInChunk ==
  ASSUME PoolInv, pc = "candidate", NEW a \in Remaining
  PROVE  /\ a \in Nat /\ chunk \in Chunk /\ run \in Run
         /\ Found(a) \in Workloads \X Keys
<1>1. chunk \in Chunk /\ run \in Run
  BY DEF PoolInv, TypeOK
<1>2. a \in chunk.start .. chunk.start + chunk.attempted - 1
  BY DEF Remaining, Candidates, Attempts
<1>3. Draw(run.seed, chunk.w, a) \in Keys
  BY KeysAssumption DEF Remaining, Candidates, IsLegalDraw
<1> QED
  BY <1>1, <1>2, <1>3 DEF Chunk, Found

LEMMA DropDuplicateInv == ASSUME PoolInv, DropDuplicate PROVE PoolInv' /\ Forward
<1>1. PICK a \in Remaining : at' = a + 1
  BY DEF DropDuplicate
<1>2. a \in Nat /\ run \in Run
  BY <1>1, RemainingInChunk DEF DropDuplicate
<1> DEFINE duplicates == run.duplicates + 1
<1>3. duplicates \in Nat
  BY <1>2 DEF Run
<1>4. run' = [run EXCEPT !.duplicates = duplicates]
  BY DEF DropDuplicate
<1> HIDE DEF duplicates
<1>5. /\ run' \in Run /\ run'.sched = run.sched /\ run'.existing = run.existing
      /\ run'.kept = run.kept /\ run'.seen = run.seen /\ run'.doneUpTo = run.doneUpTo
  BY <1>2, <1>3, <1>4 DEF Run
<1>6. TypeOK'
  BY <1>1, <1>2, <1>5 DEF PoolInv, TypeOK, StoreTypeOK, DropDuplicate, disk
<1> QED
  BY <1>5, <1>6, MemoryStep DEF DropDuplicate, PoolInv, RunAhead

LEMMA WriteTraceInv == ASSUME PoolInv, WriteTrace PROVE PoolInv' /\ Forward
<1>1. PICK a \in Remaining :
        /\ Found(a) \notin run.seen
        /\ traces' = Append(traces, [w |-> chunk.w, key |-> Draw(run.seed, chunk.w, a)])
        /\ run' = [run EXCEPT !.seen = @ \cup {Found(a)}]
        /\ at' = a
  BY DEF WriteTrace
<1> DEFINE t == [w |-> chunk.w, key |-> Draw(run.seed, chunk.w, a)]
           seen == run.seen \cup {Found(a)}
<1>2. a \in Nat /\ run \in Run /\ chunk \in Chunk /\ Found(a) \in Workloads \X Keys
  BY <1>1, RemainingInChunk DEF WriteTrace
<1>3. t \in Trace /\ Found(a) = << t.w, t.key >>
  BY <1>2 DEF Trace, Found
<1>4. ResumeSeen \subseteq run.seen
  BY DEF PoolInv, RunAhead, WriteTrace
<1>5. traces' = Append(traces, t)
  BY <1>1
<1>6. seen \subseteq Workloads \X Keys
  BY <1>2 DEF Run
<1> HIDE DEF t
<1>7. /\ StoreInv' /\ Forward
      /\ ResumeSeen' = ResumeSeen \cup {Found(a)}
      /\ Len(traces') = Len(traces) + 1 /\ traces'[Len(traces')] = t
      /\ \A i \in DOMAIN journal' : journal'[i].trace < Len(traces')
  BY <1>1, <1>3, <1>4, <1>5, TraceWritten DEF PoolInv, WriteTrace
<1>8. run' = [run EXCEPT !.seen = seen]
  BY <1>1
<1> HIDE DEF seen
<1>9. /\ run' \in Run /\ run'.sched = run.sched /\ run'.existing = run.existing
      /\ run'.kept = run.kept /\ run'.seen = seen /\ run'.doneUpTo = run.doneUpTo
      /\ run'.seed = run.seed
  BY <1>2, <1>6, <1>8 DEF Run
<1>10. TypeOK'
  BY <1>1, <1>2, <1>7, <1>9 DEF PoolInv, TypeOK, StoreInv, WriteTrace
<1>11. RunAhead'
  BY <1>4, <1>7, <1>9 DEF PoolInv, RunAhead, WriteTrace, seen
<1>12. TraceInHand'
  <2>1. Draw(run.seed, chunk.w, a)' = Draw(run.seed, chunk.w, a)
    BY <1>9 DEF WriteTrace, Draw
  <2>2. traces' # << >>
    BY <1>7, EmptySeq DEF StoreInv, StoreTypeOK, PoolInv, TypeOK
  <2>3. traces'[Len(traces')] = [w |-> chunk'.w, key |-> Draw(run.seed, chunk.w, at)']
    BY <1>1, <1>7, <1>9 DEF WriteTrace, Draw, t
  <2> QED
    BY <1>7, <2>2, <2>3 DEF TraceInHand
<1> QED
  BY <1>7, <1>10, <1>11, <1>12 DEF PoolInv

LEMMA AppendRowInv == ASSUME PoolInv, AppendRow PROVE PoolInv' /\ Forward
<1> DEFINE row == [w |-> chunk.w, attempt |-> at, trace |-> Len(traces)]
           count == run.accepted[chunk.w] + 1
           kept == run.kept + 1
           accepted == [run.accepted EXCEPT ![chunk.w] = count]
           sched == IF count >= Quota(run.want, chunk.w)
                    THEN MarkComplete(run.sched, chunk.w) ELSE run.sched
           stop == run.kept + 1 >= run.want
<1>1. /\ run \in Run /\ chunk \in Chunk /\ at \in Nat /\ Len(traces) \in Nat
      /\ chunk.w \in Workloads /\ Pointed(run.sched)
  BY DEF PoolInv, TypeOK, StoreTypeOK, RunAhead, AppendRow, Chunk
<1>2. /\ traces # << >> /\ traces \in Seq(Trace)
      /\ traces[Len(traces)] = [w |-> chunk.w, key |-> Draw(run.seed, chunk.w, at)]
      /\ \A i \in DOMAIN journal : journal[i].trace < Len(traces)
  BY DEF PoolInv, TraceInHand, AppendRow, TypeOK, StoreTypeOK
<1>3. row \in Row
  BY <1>1, <1>2, EmptySeq DEF Row
<1>4. \E s \in Seeds : traces[Len(traces)].key = Draw(s, row.w, row.attempt)
  BY <1>1, <1>2 DEF Run
<1>5. journal' = Append(journal, row)
  BY DEF AppendRow
<1>6. traces[Len(traces)].w = row.w /\ row.trace = Len(traces)
  BY <1>2
<1> HIDE DEF row
<1>7. StoreInv' /\ Forward /\ ResumeSeen' = ResumeSeen
  BY <1>2, <1>3, <1>4, <1>5, <1>6, RowWritten DEF PoolInv, AppendRow
<1>8. Pointed(sched) /\ sched \in Scheduler
  <2>1. Pointed(sched)
    BY <1>1, MarkCompletePointed
  <2> QED
    BY <2>1 DEF Pointed
<1>9. accepted \in [Workloads -> Nat] /\ kept \in Nat /\ kept = run.kept + 1 /\ stop \in BOOLEAN
  BY <1>1 DEF Run
<1>10. run' = [run EXCEPT !.accepted = accepted, !.kept = kept, !.sched = sched, !.stop = stop]
  BY <1>1 DEF AppendRow, Run
<1> HIDE DEF accepted, kept, sched, stop
<1>11. /\ run' \in Run /\ run'.sched = sched /\ run'.existing = run.existing
       /\ run'.kept = kept /\ run'.seen = run.seen /\ run'.doneUpTo = run.doneUpTo
  BY <1>1, <1>8, <1>9, <1>10 DEF Run
<1>12. TypeOK'
  BY <1>1, <1>7, <1>11 DEF PoolInv, TypeOK, StoreInv, AppendRow
<1>13. RunAhead'
  <2>1. /\ run.existing <= run.kept /\ ResumeSeen \subseteq run.seen
        /\ saved # None => \A w \in Workloads : saved.next[w] <= run.doneUpTo[w]
    BY DEF PoolInv, RunAhead, AppendRow
  <2>2. run'.existing <= run'.kept
    BY <1>1, <1>9, <1>11, <2>1 DEF Run
  <2>3. /\ Pointed(run'.sched) /\ ResumeSeen' \subseteq run'.seen
        /\ saved' # None => \A w \in Workloads : saved'.next[w] <= run'.doneUpTo[w]
    BY <1>7, <1>8, <1>11, <2>1 DEF AppendRow
  <2> QED
    BY <2>2, <2>3 DEF RunAhead
<1> QED
  BY <1>7, <1>12, <1>13 DEF PoolInv, TraceInHand, AppendRow

LEMMA CloseChunkInv == ASSUME PoolInv, CloseChunk PROVE PoolInv' /\ Forward
<1> DEFINE end == chunk.start + chunk.attempted
           upTo == IF run.doneUpTo[chunk.w] >= end THEN run.doneUpTo[chunk.w] ELSE end
           sched == IF AtTarget(chunk.w) THEN MarkComplete(run.sched, chunk.w) ELSE run.sched
           doneUpTo == [run.doneUpTo EXCEPT ![chunk.w] = upTo]
           nextEmit == run.nextEmit + 1
           stop == run.stop \/ run.attempts >= MaxAttempts
           accepted == run.kept - run.existing
<1>1. /\ run \in Run /\ chunk \in Chunk /\ Pointed(run.sched) /\ run.existing <= run.kept
      /\ chunk.w \in Workloads /\ chunk.start \in Nat /\ chunk.attempted \in Nat
  BY DEF PoolInv, TypeOK, RunAhead, CloseChunk, Chunk
<1>2. Pointed(sched) /\ sched \in Scheduler
  <2>1. Pointed(sched)
    BY <1>1, MarkCompletePointed
  <2> QED
    BY <2>1 DEF Pointed
<1>3. upTo \in Nat /\ run.doneUpTo[chunk.w] <= upTo
  BY <1>1 DEF Run
<1>4. nextEmit \in Nat /\ stop \in BOOLEAN /\ accepted \in Nat
  BY <1>1 DEF Run
<1>5. run' = [run EXCEPT !.sched = sched, !.doneUpTo = doneUpTo,
                         !.nextEmit = nextEmit, !.stop = stop]
  BY <1>1 DEF CloseChunk, Run
<1>6. saved' = [seed |-> run.seed, next |-> doneUpTo, attempts |-> run.attempts,
                accepted |-> accepted, duplicates |-> run.duplicates]
  BY <1>1 DEF CloseChunk, Run
<1> HIDE DEF upTo, sched, nextEmit, stop, accepted
<1>7. /\ doneUpTo \in [Workloads -> Nat]
      /\ \A w \in Workloads : run.doneUpTo[w] <= doneUpTo[w]
  BY <1>1, <1>3 DEF Run
<1> HIDE DEF doneUpTo
<1>8. /\ run' \in Run /\ run'.sched = sched /\ run'.existing = run.existing
      /\ run'.kept = run.kept /\ run'.seen = run.seen /\ run'.doneUpTo = doneUpTo
  BY <1>1, <1>2, <1>4, <1>5, <1>7 DEF Run
<1>9. saved' \in State /\ saved'.next = doneUpTo
  BY <1>1, <1>4, <1>6, <1>7 DEF State, Run
<1>10. StoreTypeOK' /\ TypeOK'
  BY <1>8, <1>9 DEF PoolInv, TypeOK, StoreTypeOK, CloseChunk
<1>11. saved # None => \A w \in Workloads : saved.next[w] <= saved'.next[w]
  <2> SUFFICES ASSUME saved # None, NEW w \in Workloads PROVE saved.next[w] <= doneUpTo[w]
    BY <1>9
  <2>1. saved.next[w] <= run.doneUpTo[w] /\ saved.next[w] \in Nat
    BY DEF PoolInv, TypeOK, StoreTypeOK, State, RunAhead, CloseChunk
  <2> QED
    BY <1>1, <1>7, <2>1 DEF Run
<1>12. StoreInv' /\ Forward /\ ResumeSeen' = ResumeSeen
  BY <1>9, <1>10, <1>11, NoneAssumption, StateWritten DEF PoolInv, CloseChunk
<1>13. RunAhead'
  BY <1>1, <1>2, <1>7, <1>8, <1>9, <1>12 DEF PoolInv, RunAhead, CloseChunk
<1> QED
  BY <1>10, <1>12, <1>13 DEF PoolInv, TraceInHand, CloseChunk

-----------------------------------------------------------------------------
LEMMA PoolInvStep == PoolInv /\ [Next]_vars => PoolInv' /\ Forward
<1> SUFFICES ASSUME PoolInv, [Next]_vars PROVE PoolInv' /\ Forward
  OBVIOUS
<1>1. CASE Command
  BY <1>1, RefuseInv, SkipInv, StartInv DEF Command
<1>2. CASE Parent
  BY <1>2, SubmitInv, FillDoneInv, CollectInv, EndRunInv, BeginChunkInv, NothingToEmitInv,
     DropDuplicateInv, WriteTraceInv, AppendRowInv, CloseChunkInv DEF Parent
<1>3. CASE Worker
  BY <1>3, WorkerFinishInv DEF Worker
<1>4. CASE Kill
  BY <1>4, KillInv
<1>5. CASE UNCHANGED vars
  <2>1. TypeOK' /\ StoreTypeOK'
    BY <1>5 DEF PoolInv, TypeOK, StoreTypeOK, vars, disk, memory
  <2>2. StoreInv' /\ Forward /\ ResumeSeen' = ResumeSeen
    BY <1>5, <2>1, StoreKept DEF PoolInv, vars, disk
  <2> QED
    BY <1>5, <2>1, <2>2 DEF PoolInv, RunAhead, TraceInHand, Draw, vars, disk, memory
<1> QED
  BY <1>1, <1>2, <1>3, <1>4, <1>5 DEF Next

LEMMA PoolInvariant == Spec => []PoolInv
<1>1. PoolInv /\ [Next]_vars => PoolInv'
  BY PoolInvStep
<1> QED
  BY <1>1, PoolInvInit, PTL DEF Spec

\* Whatever is killed and restarted, files and process stay well formed: the
\* resume points computed from the files are numbers, the scheduler points at
\* one of its workloads, a row is only written for a trace file that exists.
THEOREM PoolTypeCorrect == Spec => []TypeOK
<1>1. PoolInv => TypeOK
  BY DEF PoolInv
<1> QED
  BY <1>1, PoolInvariant, PTL

\* No mapping is written twice for a workload, although an interrupted chunk
\* is drawn again: what a command has read back or written it never accepts.
THEOREM NoMappingTwice == Spec => []TracesDistinct
<1>1. PoolInv => TracesDistinct
  BY DEF PoolInv, StoreInv
<1> QED
  BY <1>1, PoolInvariant, PTL

\* Every row of accepted.jsonl names a trace file that was there before it and
\* the attempt that drew it, and no trace file has two rows.
THEOREM JournalFaithful == Spec => []JournalConsistent
<1>1. PoolInv => JournalConsistent
  BY DEF PoolInv, StoreInv
<1> QED
  BY <1>1, PoolInvariant, PTL

\* The resume point of a workload never moves back, whether the run goes on,
\* is killed, is started again or finds nothing to do.
THEOREM ResumePointsForward == Spec => ResumeNeverMovesBack
<1>1. PoolInv /\ [Next]_vars => [\A w \in Workloads : ResumeNext'[w] >= ResumeNext[w]]_disk
  BY PoolInvStep DEF Forward
<1> QED
  BY <1>1, PoolInvariant, PTL DEF Spec, ResumeNeverMovesBack

-----------------------------------------------------------------------------
(* What each step does to the local variables of the parent.               *)

SameSettings == run'.seed = run.seed /\ run'.want = run.want /\ run'.existing = run.existing
SameKept     == run'.kept = run.kept /\ run'.accepted = run.accepted /\ run'.seen = run.seen
SamePlace    == run'.doneUpTo = run.doneUpTo /\ run'.nextEmit = run.nextEmit

LEMMA StartEffect ==
  ASSUME PoolInv, NEW s \in Seeds, NEW n \in TraceCounts, NEW resume \in ResumeFlags,
         Start(s, n, resume)
  PROVE  /\ pc = "down" /\ pc' = "fill" /\ UNCHANGED << pending, completed >>
         /\ Len(traces) < n
         /\ run'.seed = s /\ run'.want = n
         /\ run'.kept = Len(traces) /\ run'.accepted = ResumeAccepted /\ run'.seen = ResumeSeen
         /\ run'.sched = NewScheduler(Smaller(n, NumWorkloads), ResumeNext)
         /\ run'.doneUpTo = ResumeNext
         /\ run'.attempts = 0 /\ run'.nextEmit = 0 /\ run'.stop = FALSE
<1>1. run' = NewRun(s, n)
  BY DEF Start
<1> QED
  BY <1>1 DEF NewRun, Start, SearchNeeded, PoolInv, TypeOK

LEMMA SubmitEffect ==
  ASSUME PoolInv, Submit
  PROVE  /\ run \in Run /\ Pointed(run.sched) /\ HasChunk(run.sched)
         /\ run'.sched = AfterNextChunk(run.sched)
         /\ SameSettings /\ SameKept /\ SamePlace
         /\ run'.attempts = run.attempts /\ run'.stop = run.stop
<1>1. run \in Run /\ Pointed(run.sched) /\ HasChunk(run.sched)
  BY DEF PoolInv, TypeOK, RunAhead, Submit, MaySubmit
<1> DEFINE sched == AfterNextChunk(run.sched)
<1>2. run' = [run EXCEPT !.sched = sched]
  BY DEF Submit
<1> HIDE DEF sched
<1>3. /\ run'.sched = sched /\ SameSettings /\ SameKept /\ SamePlace
      /\ run'.attempts = run.attempts /\ run'.stop = run.stop
  BY <1>1, <1>2 DEF Run, SameSettings, SameKept, SamePlace
<1> QED
  BY <1>1, <1>3 DEF sched

LEMMA BeginChunkEffect ==
  ASSUME PoolInv, BeginChunk
  PROVE  /\ run \in Run /\ ~run.stop
         /\ chunk' \in completed /\ chunk' \in Chunk /\ chunk'.sub = run.nextEmit
         /\ completed' = completed \ {chunk'} /\ at' = chunk'.start
         /\ SameSettings /\ SameKept /\ SamePlace
         /\ run'.sched = run.sched /\ run'.stop = run.stop
         /\ run'.attempts = run.attempts + chunk'.attempted
<1>1. PICK c \in completed :
        /\ c.sub = run.nextEmit
        /\ completed' = completed \ {c} /\ chunk' = c /\ at' = c.start
        /\ run' = [run EXCEPT
             !.attempts = @ + c.attempted,
             !.duplicates = @ + Cardinality(RepeatsInChunk(run.seed, c))]
  BY DEF BeginChunk
<1>2. run \in Run /\ c \in Chunk
  BY DEF PoolInv, TypeOK, BeginChunk
<1> DEFINE attempts == run.attempts + c.attempted
           duplicates == run.duplicates + Cardinality(RepeatsInChunk(run.seed, c))
<1>3. run' = [run EXCEPT !.attempts = attempts, !.duplicates = duplicates]
  BY <1>1
<1> HIDE DEF attempts, duplicates
<1>4. /\ SameSettings /\ SameKept /\ SamePlace
      /\ run'.sched = run.sched /\ run'.stop = run.stop /\ run'.attempts = attempts
  BY <1>2, <1>3 DEF Run, SameSettings, SameKept, SamePlace
<1> QED
  BY <1>1, <1>2, <1>4 DEF attempts, BeginChunk

LEMMA DropDuplicateEffect ==
  ASSUME PoolInv, DropDuplicate
  PROVE  /\ run \in Run /\ chunk \in Chunk
         /\ SameSettings /\ SameKept /\ SamePlace
         /\ run'.sched = run.sched /\ run'.stop = run.stop /\ run'.attempts = run.attempts
<1>1. run \in Run /\ chunk \in Chunk
  BY DEF PoolInv, TypeOK, DropDuplicate
<1> DEFINE duplicates == run.duplicates + 1
<1>2. run' = [run EXCEPT !.duplicates = duplicates]
  BY DEF DropDuplicate
<1> HIDE DEF duplicates
<1> QED
  BY <1>1, <1>2 DEF Run, SameSettings, SameKept, SamePlace

LEMMA WriteTraceEffect ==
  ASSUME PoolInv, WriteTrace
  PROVE  /\ run \in Run /\ chunk \in Chunk
         /\ at' \in Remaining /\ IsNext(at') /\ Found(at') \notin run.seen
         /\ traces' = Append(traces, [w |-> chunk.w, key |-> Draw(run.seed, chunk.w, at')])
         /\ [w |-> chunk.w, key |-> Draw(run.seed, chunk.w, at')] \in Trace
         /\ run'.seen = run.seen \cup {Found(at')}
         /\ SameSettings /\ SamePlace
         /\ run'.kept = run.kept /\ run'.accepted = run.accepted
         /\ run'.sched = run.sched /\ run'.stop = run.stop /\ run'.attempts = run.attempts
<1>1. PICK a \in Remaining :
        /\ IsNext(a) /\ Found(a) \notin run.seen
        /\ traces' = Append(traces, [w |-> chunk.w, key |-> Draw(run.seed, chunk.w, a)])
        /\ run' = [run EXCEPT !.seen = @ \cup {Found(a)}]
        /\ at' = a
  BY DEF WriteTrace
<1>2. run \in Run /\ chunk \in Chunk /\ Found(a) \in Workloads \X Keys
  BY RemainingInChunk DEF WriteTrace
<1> DEFINE seen == run.seen \cup {Found(a)}
<1>3. run' = [run EXCEPT !.seen = seen]
  BY <1>1
<1> HIDE DEF seen
<1>4. /\ run'.seen = seen /\ SameSettings /\ SamePlace
      /\ run'.kept = run.kept /\ run'.accepted = run.accepted
      /\ run'.sched = run.sched /\ run'.stop = run.stop /\ run'.attempts = run.attempts
  BY <1>2, <1>3 DEF Run, SameSettings, SamePlace
<1>5. [w |-> chunk.w, key |-> Draw(run.seed, chunk.w, a)] \in Trace
  BY <1>2 DEF Found, Trace
<1> QED
  BY <1>1, <1>2, <1>4, <1>5 DEF seen

LEMMA AppendRowEffect ==
  ASSUME PoolInv, AppendRow
  PROVE  LET count == run.accepted[chunk.w] + 1
         IN  /\ run \in Run /\ chunk \in Chunk /\ Pointed(run.sched)
             /\ run'.accepted = [run.accepted EXCEPT ![chunk.w] = count]
             /\ run'.kept = run.kept + 1
             /\ run'.sched = IF count >= Quota(run.want, chunk.w)
                             THEN MarkComplete(run.sched, chunk.w) ELSE run.sched
             /\ run'.stop = (run.kept + 1 >= run.want)
             /\ SameSettings /\ SamePlace
             /\ run'.seen = run.seen /\ run'.attempts = run.attempts
<1> DEFINE count == run.accepted[chunk.w] + 1
           accepted == [run.accepted EXCEPT ![chunk.w] = count]
           kept == run.kept + 1
           sched == IF count >= Quota(run.want, chunk.w)
                    THEN MarkComplete(run.sched, chunk.w) ELSE run.sched
           stop == run.kept + 1 >= run.want
<1>1. run \in Run /\ chunk \in Chunk /\ Pointed(run.sched)
  BY DEF PoolInv, TypeOK, RunAhead, AppendRow
<1>2. run' = [run EXCEPT !.accepted = accepted, !.kept = kept, !.sched = sched, !.stop = stop]
  BY <1>1 DEF AppendRow, Run
<1> HIDE DEF accepted, kept, sched, stop
<1>3. /\ run'.accepted = accepted /\ run'.kept = kept /\ run'.sched = sched /\ run'.stop = stop
      /\ SameSettings /\ SamePlace
      /\ run'.seen = run.seen /\ run'.attempts = run.attempts
  BY <1>1, <1>2 DEF Run, SameSettings, SamePlace
<1> QED
  BY <1>1, <1>3 DEF accepted, kept, sched, stop

LEMMA CloseChunkEffect ==
  ASSUME PoolInv, CloseChunk
  PROVE  LET end  == chunk.start + chunk.attempted
             upTo == IF run.doneUpTo[chunk.w] >= end THEN run.doneUpTo[chunk.w] ELSE end
         IN  /\ run \in Run /\ chunk \in Chunk /\ Pointed(run.sched)
             /\ run'.sched = IF AtTarget(chunk.w) THEN MarkComplete(run.sched, chunk.w)
                             ELSE run.sched
             /\ run'.doneUpTo = [run.doneUpTo EXCEPT ![chunk.w] = upTo]
             /\ run'.nextEmit = run.nextEmit + 1
             /\ run'.stop = (run.stop \/ run.attempts >= MaxAttempts)
             /\ saved'.next = run'.doneUpTo
             /\ SameSettings /\ SameKept
             /\ run'.attempts = run.attempts
<1> DEFINE end == chunk.start + chunk.attempted
           upTo == IF run.doneUpTo[chunk.w] >= end THEN run.doneUpTo[chunk.w] ELSE end
           sched == IF AtTarget(chunk.w) THEN MarkComplete(run.sched, chunk.w) ELSE run.sched
           doneUpTo == [run.doneUpTo EXCEPT ![chunk.w] = upTo]
           nextEmit == run.nextEmit + 1
           stop == run.stop \/ run.attempts >= MaxAttempts
           accepted == run.kept - run.existing
<1>1. run \in Run /\ chunk \in Chunk /\ Pointed(run.sched)
  BY DEF PoolInv, TypeOK, RunAhead, CloseChunk
<1>2. run' = [run EXCEPT !.sched = sched, !.doneUpTo = doneUpTo,
                         !.nextEmit = nextEmit, !.stop = stop]
  BY <1>1 DEF CloseChunk, Run
<1>3. saved' = [seed |-> run.seed, next |-> doneUpTo, attempts |-> run.attempts,
                accepted |-> accepted, duplicates |-> run.duplicates]
  BY <1>1 DEF CloseChunk, Run
<1> HIDE DEF sched, doneUpTo, nextEmit, stop, accepted
<1>4. /\ run'.sched = sched /\ run'.doneUpTo = doneUpTo
      /\ run'.nextEmit = nextEmit /\ run'.stop = stop
      /\ SameSettings /\ SameKept /\ run'.attempts = run.attempts
  BY <1>1, <1>2 DEF Run, SameSettings, SameKept
<1>5. saved'.next = run'.doneUpTo
  BY <1>3, <1>4
<1> QED
  BY <1>1, <1>4, <1>5 DEF sched, doneUpTo, nextEmit, stop

-----------------------------------------------------------------------------
(* What a running command counts is what the directory holds.              *)

Counted ==
  pc # "down" =>
    /\ run.seen = ResumeSeen
    /\ run.kept = Len(traces) - (IF pc = "journal" THEN 1 ELSE 0)
    /\ \A w \in Workloads :
         run.accepted[w] = ResumeAccepted[w] - (IF pc = "journal" /\ chunk.w = w THEN 1 ELSE 0)

\* The target is noticed with the row that meets it.
Stopping ==
  pc # "down" =>
    /\ run.stop \/ run.kept < run.want
    /\ pc \in {"candidate", "journal"} /\ run.stop => run.kept >= run.want
    /\ pc = "journal" => ~run.stop

\* Steps that neither write a trace file nor a row.
LEMMA CountedKept ==
  ASSUME PoolInv, Counted, Stopping, UNCHANGED traces,
         pc # "down", (pc # "journal" /\ pc' # "journal") \/ UNCHANGED << pc, chunk >>,
         SameSettings, SameKept, run'.stop = run.stop,
         pc' = "candidate" => pc = "candidate" \/ ~run.stop
  PROVE  Counted' /\ Stopping'
<1>1. ResumeSeen' = ResumeSeen /\ ResumeAccepted' = ResumeAccepted
  BY DEF ResumeSeen, ResumeAccepted
<1>2. Counted'
  BY <1>1 DEF Counted, SameKept
<1>3. Stopping'
  BY DEF Stopping, SameKept, SameSettings
<1> QED
  BY <1>2, <1>3

LEMMA CountedStart ==
  ASSUME PoolInv, NEW s \in Seeds, NEW n \in TraceCounts, NEW resume \in ResumeFlags,
         Start(s, n, resume)
  PROVE  Counted' /\ Stopping'
<1>1. UNCHANGED traces
  BY DEF Start, disk
<1>2. ResumeSeen' = ResumeSeen /\ ResumeAccepted' = ResumeAccepted
  BY <1>1 DEF ResumeSeen, ResumeAccepted
<1>3. ResumeAccepted \in [Workloads -> Nat] /\ Len(traces) \in Nat
  BY ResumeAcceptedType DEF PoolInv, TypeOK, StoreTypeOK
<1>4. /\ pc' = "fill" /\ run'.seen = ResumeSeen /\ run'.kept = Len(traces) /\ run'.want = n
      /\ run'.accepted = ResumeAccepted /\ Len(traces) < n
  BY StartEffect
<1>5. Counted'
  <2>1. \A w \in Workloads : run'.accepted[w] = ResumeAccepted'[w] - 0
    BY <1>2, <1>3, <1>4
  <2> QED
    BY <1>1, <1>2, <1>3, <1>4, <2>1 DEF Counted
<1>6. Stopping'
  BY <1>1, <1>4 DEF Stopping
<1> QED
  BY <1>5, <1>6

LEMMA CountedWriteTrace ==
  ASSUME PoolInv, Counted, Stopping, WriteTrace PROVE Counted' /\ Stopping'
<1> DEFINE t == [w |-> chunk.w, key |-> Draw(run.seed, chunk.w, at')]
<1>1. t \in Trace /\ traces' = Append(traces, t) /\ Found(at') = << t.w, t.key >>
  BY WriteTraceEffect DEF Found
<1>2. t.w = chunk.w
  OBVIOUS
<1> HIDE DEF t
<1>3. StoreInv /\ PoolInv' /\ pc = "candidate" /\ pc' = "journal" /\ chunk' = chunk
  BY WriteTraceInv DEF WriteTrace, PoolInv
<1>4. StoreTypeOK' /\ traces \in Seq(Trace) /\ Len(traces) \in Nat
  BY <1>3 DEF PoolInv, TypeOK, StoreTypeOK
<1>5. << t.w, t.key >> \notin ResumeSeen
  BY <1>1, <1>3, WriteTraceEffect DEF Counted
<1>6. /\ ResumeSeen' = ResumeSeen \cup {<< t.w, t.key >>}
      /\ Len(traces') = Len(traces) + 1
  BY <1>1, <1>3, <1>5, TraceWritten DEF WriteTrace
<1>7. \A w \in Workloads : ResumeAccepted'[w] = ResumeAccepted[w] + (IF w = t.w THEN 1 ELSE 0)
  BY <1>1, <1>3, <1>4, CountWritten
<1>8. \A w \in Workloads : ResumeAccepted[w] \in Nat
  BY <1>4, ResumeAcceptedType DEF PoolInv, TypeOK
<1>9. Counted'
  <2>1. run'.seen = ResumeSeen'
    BY <1>1, <1>3, <1>6, WriteTraceEffect DEF Counted
  <2>2. run'.kept = Len(traces') - 1
    BY <1>3, <1>4, <1>6, WriteTraceEffect DEF Counted
  <2>3. ASSUME NEW w \in Workloads
        PROVE  run'.accepted[w] = ResumeAccepted'[w] - (IF chunk'.w = w THEN 1 ELSE 0)
    <3>1. run'.accepted[w] = ResumeAccepted[w]
      BY <1>3, <1>8, WriteTraceEffect DEF Counted
    <3>2. chunk'.w = t.w
      BY <1>2, <1>3
    <3> QED
      BY <1>7, <1>8, <3>1, <3>2
  <2> QED
    BY <1>3, <2>1, <2>2, <2>3 DEF Counted
<1>10. Stopping'
  BY <1>3, WriteTraceEffect DEF Stopping, SameSettings, WriteTrace
<1> QED
  BY <1>9, <1>10

LEMMA CountedAppendRow ==
  ASSUME PoolInv, Counted, Stopping, AppendRow PROVE Counted' /\ Stopping'
<1>1. /\ pc = "journal" /\ pc' = "candidate" /\ UNCHANGED << traces, chunk >>
      /\ run \in Run /\ chunk.w \in Workloads /\ Len(traces) \in Nat
  BY AppendRowEffect DEF AppendRow, Chunk, PoolInv, TypeOK, StoreTypeOK
<1>2. ResumeSeen' = ResumeSeen /\ ResumeAccepted' = ResumeAccepted
  BY <1>1 DEF ResumeSeen, ResumeAccepted
<1>3. \A w \in Workloads : ResumeAccepted[w] \in Nat
  BY ResumeAcceptedType DEF PoolInv, TypeOK
<1>4. ASSUME NEW w \in Workloads PROVE run'.accepted[w] = ResumeAccepted[w]
  <2>1. run.accepted \in [Workloads -> Nat]
    BY <1>1 DEF Run
  <2>2. run.accepted[w] = ResumeAccepted[w] - (IF chunk.w = w THEN 1 ELSE 0)
    BY <1>1 DEF Counted
  <2>3. run'.accepted[w] = run.accepted[w] + (IF chunk.w = w THEN 1 ELSE 0)
    BY <1>1, <2>1, AppendRowEffect
  <2> QED
    BY <1>3, <2>1, <2>2, <2>3
<1>5. run'.kept = Len(traces) /\ run'.seen = ResumeSeen
  BY <1>1, AppendRowEffect DEF Counted
<1>6. Counted'
  BY <1>1, <1>2, <1>3, <1>4, <1>5 DEF Counted
<1>7. Stopping'
  <2>1. run'.kept = run.kept + 1 /\ run'.stop = (run.kept + 1 >= run.want) /\ run'.want = run.want
    BY AppendRowEffect DEF SameSettings
  <2>2. run.kept \in Nat /\ run.want \in Nat
    BY <1>1, TraceCountsAssumption DEF Run
  <2>3. CASE run.kept + 1 >= run.want
    BY <1>1, <2>1, <2>2, <2>3 DEF Stopping
  <2>4. CASE ~(run.kept + 1 >= run.want)
    <3>1. run'.kept < run'.want
      BY <2>1, <2>2, <2>4
    <3>2. run'.stop = (run.kept + 1 >= run.want)
      BY <2>1
    <3>3. ~run'.stop
      BY <3>2, <2>4, Zenon
    <3> QED
      BY <1>1, <3>1, <3>3 DEF Stopping
  <2> QED
    BY <2>3, <2>4
<1> QED
  BY <1>6, <1>7

LEMMA CountedCloseChunk ==
  ASSUME PoolInv, Counted, Stopping, CloseChunk PROVE Counted' /\ Stopping'
<1>1. pc = "candidate" /\ pc' = "refill" /\ UNCHANGED traces /\ run \in Run
  BY CloseChunkEffect DEF CloseChunk
<1>2. ResumeSeen' = ResumeSeen /\ ResumeAccepted' = ResumeAccepted
  BY <1>1 DEF ResumeSeen, ResumeAccepted
<1>3. Counted'
  BY <1>1, <1>2, CloseChunkEffect DEF Counted, SameKept
<1>4. Stopping'
  BY <1>1, CloseChunkEffect DEF Stopping, SameKept, SameSettings
<1> QED
  BY <1>3, <1>4

LEMMA CountedStep ==
  ASSUME PoolInv, Counted, Stopping, [Next]_vars PROVE Counted' /\ Stopping'
<1>1. CASE pc' = "down"
  BY <1>1 DEF Counted, Stopping
<1>2. CASE \E s \in Seeds, n \in TraceCounts, resume \in ResumeFlags : Start(s, n, resume)
  BY <1>2, CountedStart
<1>3. CASE Submit
  BY <1>3, SubmitEffect, CountedKept DEF Submit, disk
<1>4. CASE FillDone \/ Collect \/ NothingToEmit
  <2>1. /\ UNCHANGED << run, traces >> /\ pc # "down" /\ pc # "journal"
        /\ pc' # "journal" /\ pc' # "candidate"
    BY <1>4 DEF FillDone, Collect, NothingToEmit, disk
  <2> QED
    BY <2>1, CountedKept DEF SameSettings, SameKept
<1>5. CASE Worker \/ UNCHANGED vars
  <2>1. UNCHANGED << run, traces, pc, chunk >>
    BY <1>5 DEF Worker, WorkerFinish, vars, disk, memory
  <2> QED
    BY <1>1, <2>1, CountedKept DEF SameSettings, SameKept
<1>6. CASE BeginChunk
  BY <1>6, BeginChunkEffect, CountedKept DEF BeginChunk, disk
<1>7. CASE DropDuplicate
  BY <1>7, DropDuplicateEffect, CountedKept DEF DropDuplicate, disk
<1>8. CASE WriteTrace \/ AppendRow \/ CloseChunk
  BY <1>8, CountedWriteTrace, CountedAppendRow, CountedCloseChunk
<1>9. CASE EndRun \/ Kill \/ \E s \in Seeds, n \in TraceCounts, resume \in ResumeFlags :
                               Refuse(s, resume) \/ Skip(s, n, resume)
  <2>1. pc' = "down"
    BY <1>9 DEF EndRun, Kill, Refuse, Skip, memory
  <2> QED
    BY <1>1, <2>1
<1>10. CASE \E s \in Seeds, resume \in ResumeFlags : Refuse(s, resume)
  <2>1. pc' = "down"
    BY <1>10 DEF Refuse, memory
  <2> QED
    BY <1>1, <2>1
<1> QED
  BY <1>2, <1>3, <1>4, <1>5, <1>6, <1>7, <1>8, <1>9, <1>10 DEF Next, Command, Parent

-----------------------------------------------------------------------------
(* The chunks handed out and not consumed yet.                             *)

InHand == IF pc \in {"candidate", "journal"} THEN {chunk} ELSE {}

Outstanding == pending \cup completed \cup InHand

End(c) == c.start + c.attempted

\* One of them for every submission index from the next to be consumed on;
\* a chunk is in one place only.
Numbered ==
  /\ pc = "down" => pending = {} /\ completed = {}
  /\ pending \cap completed = {}
  /\ InHand \cap (pending \cup completed) = {}
  /\ pc # "down" =>
       /\ run.nextEmit <= run.sched.issued
       /\ \A c \in Outstanding : run.nextEmit <= c.sub /\ c.sub < run.sched.issued
       /\ \A c, d \in Outstanding : c.sub = d.sub => c = d
       /\ \A k \in Nat : run.nextEmit <= k /\ k < run.sched.issued =>
            \E c \in Outstanding : c.sub = k
       /\ \A c \in InHand : c.sub = run.nextEmit

\* Those of a workload follow each other without overlap, and reach from where
\* it is done to what was handed out.
Tiled ==
  pc # "down" =>
    /\ \A c \in Outstanding : End(c) <= run.sched.next[c.w]
    /\ \A c, d \in Outstanding : c.w = d.w /\ c.sub < d.sub => End(c) <= d.start
    /\ \A w \in Workloads : \A a \in Nat :
         run.doneUpTo[w] <= a /\ a < run.sched.next[w] =>
           \E c \in Outstanding : c.w = w /\ a \in Attempts(c)
    /\ \A c \in InHand : c.start <= run.doneUpTo[c.w] /\ c.start <= at

LEMMA OutstandingType ==
  ASSUME PoolInv
  PROVE  /\ Outstanding \subseteq Chunk /\ (pc # "down" => run \in Run)
         /\ \A c \in Chunk : /\ c.sub \in Nat /\ c.w \in Workloads /\ c.start \in Nat
                             /\ c.attempted \in Nat /\ End(c) \in Nat
BY DEF PoolInv, TypeOK, Outstanding, InHand, Chunk, End

\* Steps that hand out nothing and finish no chunk.
LEMMA TiledKept ==
  ASSUME PoolInv, Numbered, Tiled, pc # "down", pc' # "down",
         Outstanding' = Outstanding, SamePlace,
         run'.sched.issued = run.sched.issued, run'.sched.next = run.sched.next,
         (pending \cap completed = {})',
         (InHand \cap (pending \cup completed) = {})',
         \A c \in InHand' : /\ c.sub = run.nextEmit
                            /\ c.start <= run.doneUpTo[c.w] /\ c.start <= at'
  PROVE  Numbered' /\ Tiled'
<1>1. Numbered'
  BY DEF Numbered, SamePlace
<1>2. Tiled'
  BY DEF Tiled, SamePlace, End, Attempts
<1> QED
  BY <1>1, <1>2

LEMMA TiledStart ==
  ASSUME PoolInv, Numbered, NEW s \in Seeds, NEW n \in TraceCounts, NEW resume \in ResumeFlags,
         Start(s, n, resume)
  PROVE  Numbered' /\ Tiled'
<1>1. /\ pc' = "fill" /\ pending' = {} /\ completed' = {}
      /\ run'.sched.issued = 0 /\ run'.nextEmit = 0
      /\ run'.sched.next = ResumeNext /\ run'.doneUpTo = ResumeNext
  <2>1. pc' = "fill" /\ pending' = {} /\ completed' = {}
    BY StartEffect DEF Numbered
  <2>2. /\ run'.nextEmit = 0 /\ run'.doneUpTo = ResumeNext
        /\ run'.sched = NewScheduler(Smaller(n, NumWorkloads), ResumeNext)
    BY StartEffect
  <2> QED
    BY <2>1, <2>2 DEF NewScheduler
<1>2. Outstanding' = {} /\ InHand' = {}
  BY <1>1 DEF Outstanding, InHand
<1>3. Numbered'
  BY <1>1, <1>2 DEF Numbered
<1>4. ResumeNext \in [Workloads -> Nat]
  BY ResumeNextType DEF PoolInv, StoreInv
<1>5. Tiled'
  BY <1>1, <1>2, <1>4 DEF Tiled
<1> QED
  BY <1>3, <1>5

LEMMA TiledSubmit ==
  ASSUME PoolInv, Numbered, Tiled, Submit
  PROVE  Numbered' /\ Tiled'
<1> DEFINE c == NextChunk(run.sched)
<1>1. /\ pc # "down" /\ pc' = pc /\ InHand = {} /\ InHand' = {}
      /\ pending' = pending \cup {c} /\ completed' = completed
      /\ Outstanding = pending \cup completed
      /\ run \in Run
  BY SubmitEffect DEF Submit, InHand, Outstanding
<1>2. Outstanding' = Outstanding \cup {c}
  BY <1>1 DEF Outstanding
<1>3. /\ c \in Chunk /\ c.sub = run.sched.issued /\ c.start = run.sched.next[c.w]
      /\ run.sched.issued \in Nat /\ run.sched.next \in [Workloads -> Nat]
  BY SubmitEffect, NextChunkType DEF NextChunk, Pointed, Scheduler
<1>4. /\ run'.sched.issued = run.sched.issued + 1
      /\ \A w \in Workloads : run'.sched.next[w] = run.sched.next[w] + (IF w = c.w THEN c.attempted ELSE 0)
      /\ SamePlace
  BY SubmitEffect, AfterNextChunkPointed
<1> HIDE DEF c
<1>5. c.w \in Workloads /\ c.start \in Nat /\ c.attempted \in Nat /\ c.sub \in Nat
  BY <1>3 DEF Chunk
<1>6. run.nextEmit \in Nat /\ run.doneUpTo \in [Workloads -> Nat]
  BY <1>1 DEF Run
<1>7. c \notin Outstanding
  BY <1>1, <1>3 DEF Numbered
<1>8. Numbered'
  <2>1. /\ run'.nextEmit <= run'.sched.issued
        /\ \A d \in Outstanding' : run'.nextEmit <= d.sub /\ d.sub < run'.sched.issued
    BY <1>1, <1>2, <1>3, <1>4, <1>6, OutstandingType DEF Numbered, SamePlace
  <2>2. \A d, e \in Outstanding' : d.sub = e.sub => d = e
    BY <1>1, <1>2, <1>3 DEF Numbered
  <2>3. ASSUME NEW k \in Nat, run'.nextEmit <= k, k < run'.sched.issued
        PROVE  \E d \in Outstanding' : d.sub = k
    <3>1. CASE k = run.sched.issued
      BY <1>2, <1>3, <3>1
    <3>2. CASE k < run.sched.issued
      BY <1>1, <1>2, <1>4, <2>3, <3>2 DEF Numbered, SamePlace
    <3> QED
      BY <1>3, <1>4, <2>3, <3>1, <3>2
  <2>4. pending' \cap completed' = {} /\ InHand' \cap (pending' \cup completed') = {}
    BY <1>1, <1>7 DEF Numbered
  <2> QED
    BY <1>1, <2>1, <2>2, <2>3, <2>4 DEF Numbered
<1>9. Tiled'
  <2>1. ASSUME NEW d \in Outstanding' PROVE End(d) <= run'.sched.next[d.w]
    <3>1. CASE d = c
      BY <1>3, <1>4, <1>5, <3>1 DEF End
    <3>2. CASE d \in Outstanding
      <4>1. d.w \in Workloads /\ End(d) \in Nat /\ End(d) <= run.sched.next[d.w]
        BY <1>1, <3>2, OutstandingType DEF Tiled
      <4> QED
        BY <1>3, <1>4, <1>5, <4>1
    <3> QED
      BY <1>2, <2>1, <3>1, <3>2
  <2>2. ASSUME NEW d \in Outstanding', NEW e \in Outstanding', d.w = e.w, d.sub < e.sub
        PROVE  End(d) <= e.start
    <3>1. d \in Outstanding
      BY <1>1, <1>2, <1>3, <2>2, OutstandingType DEF Numbered
    <3>2. CASE e = c
      BY <1>1, <1>3, <2>2, <3>1, <3>2 DEF Tiled
    <3>3. CASE e \in Outstanding
      BY <1>1, <2>2, <3>1, <3>3 DEF Tiled
    <3> QED
      BY <1>2, <2>2, <3>2, <3>3
  <2>3. ASSUME NEW w \in Workloads, NEW a \in Nat, run'.doneUpTo[w] <= a, a < run'.sched.next[w]
        PROVE  \E d \in Outstanding' : d.w = w /\ a \in Attempts(d)
    <3>1. CASE a < run.sched.next[w]
      BY <1>1, <1>2, <1>4, <2>3, <3>1 DEF Tiled, SamePlace
    <3>2. CASE ~(a < run.sched.next[w])
      <4>1. w = c.w
        BY <1>3, <1>4, <2>3, <3>2
      <4>2. a \in Attempts(c)
        BY <1>3, <1>4, <1>5, <2>3, <3>2, <4>1 DEF Attempts
      <4> QED
        BY <1>2, <4>1, <4>2
    <3> QED
      BY <3>1, <3>2
  <2> QED
    BY <1>1, <2>1, <2>2, <2>3 DEF Tiled, End, Attempts
<1> QED
  BY <1>8, <1>9

LEMMA TiledCloseChunk ==
  ASSUME PoolInv, Numbered, Tiled, CloseChunk
  PROVE  Numbered' /\ Tiled'
<1> DEFINE upTo == IF run.doneUpTo[chunk.w] >= End(chunk) THEN run.doneUpTo[chunk.w] ELSE End(chunk)
<1>1. /\ pc = "candidate" /\ pc' = "refill" /\ InHand = {chunk} /\ InHand' = {}
      /\ pending' = pending /\ completed' = completed
      /\ chunk \in Outstanding /\ run \in Run
  BY CloseChunkEffect DEF CloseChunk, InHand, Outstanding
<1>2. Outstanding' = Outstanding \ {chunk}
  BY <1>1 DEF Outstanding, Numbered
<1>3. /\ run'.sched.next = run.sched.next /\ run'.sched.issued = run.sched.issued
      /\ run'.doneUpTo = [run.doneUpTo EXCEPT ![chunk.w] = upTo]
      /\ run'.nextEmit = run.nextEmit + 1
  BY CloseChunkEffect, MarkCompletePointed DEF End
<1> HIDE DEF upTo
<1>4. /\ run.sched.issued \in Nat /\ run.sched.next \in [Workloads -> Nat]
      /\ run.nextEmit \in Nat /\ run.doneUpTo \in [Workloads -> Nat]
  BY <1>1 DEF Run, Scheduler
<1>5. /\ chunk.w \in Workloads /\ chunk.start \in Nat /\ End(chunk) \in Nat /\ chunk.sub \in Nat
      /\ chunk.sub = run.nextEmit /\ chunk.start <= run.doneUpTo[chunk.w]
  BY <1>1, OutstandingType DEF Numbered, Tiled
<1>6. Numbered'
  <2>1. ASSUME NEW d \in Outstanding' PROVE run'.nextEmit <= d.sub /\ d.sub < run'.sched.issued
    <3>1. d \in Outstanding /\ d # chunk /\ d.sub \in Nat
      BY <1>2, <2>1, OutstandingType
    <3>2. d.sub # chunk.sub /\ run.nextEmit <= d.sub /\ d.sub < run.sched.issued
      BY <1>1, <3>1 DEF Numbered
    <3> QED
      BY <1>3, <1>4, <1>5, <3>1, <3>2
  <2>2. \A d, e \in Outstanding' : d.sub = e.sub => d = e
    BY <1>1, <1>2 DEF Numbered
  <2>3. ASSUME NEW k \in Nat, run'.nextEmit <= k, k < run'.sched.issued
        PROVE  \E d \in Outstanding' : d.sub = k
    <3>1. PICK d \in Outstanding : d.sub = k
      BY <1>1, <1>3, <1>4, <2>3 DEF Numbered
    <3>2. d # chunk
      BY <1>3, <1>4, <1>5, <2>3, <3>1
    <3> QED
      BY <1>2, <3>1, <3>2
  <2>4. run'.nextEmit <= run'.sched.issued
    BY <1>1, <1>3, <1>4, <1>5 DEF Numbered
  <2> QED
    BY <1>1, <2>1, <2>2, <2>3, <2>4 DEF Numbered
<1>7. Tiled'
  <2>1. \A d \in Outstanding' : End(d) <= run'.sched.next[d.w]
    BY <1>1, <1>2, <1>3 DEF Tiled
  <2>2. \A d, e \in Outstanding' : d.w = e.w /\ d.sub < e.sub => End(d) <= e.start
    BY <1>1, <1>2 DEF Tiled
  <2>3. ASSUME NEW w \in Workloads, NEW a \in Nat, run'.doneUpTo[w] <= a, a < run'.sched.next[w]
        PROVE  \E d \in Outstanding' : d.w = w /\ a \in Attempts(d)
    <3>1. run.doneUpTo[w] <= a /\ (w = chunk.w => End(chunk) <= a)
      BY <1>3, <1>4, <1>5, <2>3 DEF upTo
    <3>2. PICK d \in Outstanding : d.w = w /\ a \in Attempts(d)
      BY <1>1, <1>3, <2>3, <3>1 DEF Tiled
    <3>3. d # chunk
      BY <1>1, <3>1, <3>2, OutstandingType DEF Attempts, End
    <3> QED
      BY <1>2, <3>2, <3>3
  <2> QED
    BY <1>1, <2>1, <2>2, <2>3 DEF Tiled, End, Attempts
<1> QED
  BY <1>6, <1>7

LEMMA TiledStep ==
  ASSUME PoolInv, Numbered, Tiled, [Next]_vars
  PROVE  Numbered' /\ Tiled'
<1>1. CASE \E s \in Seeds, n \in TraceCounts, resume \in ResumeFlags : Start(s, n, resume)
  BY <1>1, TiledStart
<1>2. CASE Submit \/ CloseChunk
  BY <1>2, TiledSubmit, TiledCloseChunk
<1>3. CASE EndRun \/ Kill
  <2>1. pc' = "down" /\ pending' = {} /\ completed' = {} /\ InHand' = {}
    BY <1>3 DEF EndRun, Kill, InHand
  <2> QED
    BY <2>1 DEF Numbered, Tiled
<1>4. CASE \E s \in Seeds, resume \in ResumeFlags :
             \/ Refuse(s, resume)
             \/ \E n \in TraceCounts : Skip(s, n, resume)
  <2>1. pc = "down" /\ UNCHANGED << pc, pending, completed, chunk >>
    BY <1>4 DEF Refuse, Skip, memory
  <2>2. pc' = "down" /\ pending' = {} /\ completed' = {} /\ InHand' = {}
    BY <2>1 DEF Numbered, InHand
  <2> QED
    BY <2>2 DEF Numbered, Tiled
<1>5. CASE FillDone \/ NothingToEmit \/ Worker \/ UNCHANGED vars
  <2>1. /\ UNCHANGED << run, pending, completed, chunk, at >>
        /\ \/ /\ pc \notin {"candidate", "journal", "down"}
              /\ pc' \notin {"candidate", "journal", "down"}
           \/ UNCHANGED pc
    BY <1>5 DEF FillDone, NothingToEmit, Worker, WorkerFinish, vars, memory
  <2>2. Outstanding' = Outstanding /\ InHand' = InHand
    BY <2>1 DEF Outstanding, InHand
  <2>3. CASE pc = "down"
    BY <2>1, <2>2, <2>3 DEF Numbered, Tiled
  <2>4. CASE pc # "down"
    BY <2>1, <2>2, <2>4, TiledKept DEF SamePlace, Numbered, Tiled
  <2> QED
    BY <2>3, <2>4
<1>6. CASE Collect
  <2>1. /\ pc = "wait" /\ pc' = "emit" /\ UNCHANGED run
        /\ completed' = completed \cup finished /\ pending' = pending \ finished
        /\ finished \subseteq pending
    BY <1>6 DEF Collect, PoolInv, TypeOK
  <2>2. Outstanding' = Outstanding /\ InHand' = {} /\ pending' \cap completed' = {}
    BY <2>1 DEF Outstanding, InHand, Numbered
  <2> QED
    BY <2>1, <2>2, TiledKept DEF SamePlace
<1>7. CASE BeginChunk
  <2>1. /\ pc = "emit" /\ pc' = "candidate" /\ pending' = pending /\ InHand = {}
        /\ InHand' = {chunk'} /\ chunk' \in completed /\ completed' = completed \ {chunk'}
        /\ at' = chunk'.start /\ chunk'.sub = run.nextEmit /\ run \in Run
        /\ SamePlace /\ run'.sched = run.sched /\ chunk' \in Chunk
    BY <1>7, BeginChunkEffect DEF BeginChunk, InHand
  <2>2. Outstanding' = Outstanding /\ chunk' \in Outstanding
    BY <2>1 DEF Outstanding
  <2>3. (pending \cap completed = {})' /\ (InHand \cap (pending \cup completed) = {})'
    BY <2>1 DEF Numbered
  <2>4. chunk'.start <= run.doneUpTo[chunk'.w]
    <3> DEFINE c == chunk'
               a == run.doneUpTo[c.w]
    <3>1. /\ c.w \in Workloads /\ c.start \in Nat /\ End(c) \in Nat /\ c.start <= End(c)
          /\ a \in Nat /\ run.sched.next[c.w] \in Nat
      BY <2>1, OutstandingType DEF Run, Scheduler, End, Chunk
    <3>2. SUFFICES ASSUME a < c.start PROVE FALSE
      BY <3>1
    <3>3. a < run.sched.next[c.w]
      <4>1. End(c) <= run.sched.next[c.w]
        BY <2>1, <2>2 DEF Tiled
      <4> QED
        BY <3>1, <3>2, <4>1
    <3> HIDE DEF c, a
    <3>4. PICK d \in Outstanding : d.w = c.w /\ a \in Attempts(d)
      BY <2>1, <3>1, <3>3 DEF Tiled, a
    <3>5. d \in Chunk /\ d.start \in Nat /\ d.sub \in Nat /\ c.sub \in Nat /\ d.start <= a
      BY <2>1, <3>1, <3>4, OutstandingType DEF Attempts, c, Chunk
    <3>6. d # c /\ c \in Outstanding
      BY <2>2, <3>1, <3>2, <3>5 DEF c
    <3>7. c.sub < d.sub
      <4>1. c.sub = run.nextEmit /\ run.nextEmit <= d.sub /\ d.sub # c.sub
        BY <2>1, <3>6 DEF Numbered, c
      <4> QED
        BY <3>5, <4>1
    <3>8. End(c) <= d.start
      BY <2>1, <3>4, <3>6, <3>7 DEF Tiled
    <3> QED
      BY <3>1, <3>2, <3>5, <3>8
  <2>5. at' = chunk'.start /\ at' <= at'
    BY <2>1, OutstandingType DEF Chunk
  <2> QED
    BY <2>1, <2>2, <2>3, <2>4, <2>5, TiledKept
<1>8. CASE DropDuplicate \/ WriteTrace \/ AppendRow
  <2>1. /\ pc \in {"candidate", "journal"} /\ pc' \in {"candidate", "journal"}
        /\ UNCHANGED << pending, completed, chunk >>
    BY <1>8 DEF DropDuplicate, WriteTrace, AppendRow
  <2>2. Outstanding' = Outstanding /\ InHand' = InHand /\ InHand = {chunk}
    BY <2>1 DEF Outstanding, InHand
  <2>3. /\ SamePlace /\ run'.sched.next = run.sched.next
        /\ run'.sched.issued = run.sched.issued
    BY <1>8, DropDuplicateEffect, WriteTraceEffect, AppendRowEffect, MarkCompletePointed
  <2>4. at \in Nat /\ at' \in Nat /\ at <= at'
    <3>1. at \in Nat
      BY DEF PoolInv, TypeOK
    <3>2. CASE DropDuplicate
      BY <3>1, <3>2, RemainingInChunk DEF DropDuplicate, Remaining
    <3>3. CASE WriteTrace
      BY <3>1, <3>3, RemainingInChunk DEF WriteTrace, Remaining
    <3>4. CASE AppendRow
      BY <3>1, <3>4 DEF AppendRow
    <3> QED
      BY <1>8, <3>2, <3>3, <3>4
  <2>5. chunk.sub = run.nextEmit /\ chunk.start <= run.doneUpTo[chunk.w] /\ chunk.start <= at
        /\ chunk.start \in Nat
    BY <2>1, <2>2, OutstandingType DEF Numbered, Tiled, Outstanding
  <2>6. chunk.start <= at'
    BY <2>4, <2>5
  <2>7. (pending \cap completed = {})' /\ (InHand \cap (pending \cup completed) = {})'
    BY <2>1, <2>2 DEF Numbered
  <2> QED
    BY <2>1, <2>2, <2>3, <2>5, <2>6, <2>7, TiledKept
<1> QED
  BY <1>1, <1>2, <1>3, <1>4, <1>5, <1>6, <1>7, <1>8 DEF Next, Command, Parent

-----------------------------------------------------------------------------
(* Under one seed and one num_traces: the command passes over no legal     *)
(* draw that is not kept, and vouches only for what it has considered.     *)

Consumed ==
  pc # "down" =>
    /\ \A w \in Workloads : Covered(w, run.doneUpTo[w])
    /\ pc = "candidate" => Covered(chunk.w, at)
    /\ pc = "journal" => KeptBelow(chunk.w, at + 1)

SamplingInv ==
  PoolInv /\ Counted /\ Stopping /\ Numbered /\ Tiled /\ SampledInv /\ Consumed

LEMMA RunSetting ==
  ASSUME PoolInv, OneSetting, pc # "down"
  PROVE  run \in Run /\ run.seed = TheSeed /\ run.want = TheCount /\ TheCount \in Nat
BY TraceCountsAssumption DEF PoolInv, TypeOK, OneSetting, Run

LEMMA ChunkInHand ==
  ASSUME SamplingInv, pc \in {"candidate", "journal"}
  PROVE  /\ chunk \in Chunk /\ at \in Nat /\ chunk.start \in Nat /\ chunk.attempted \in Nat
         /\ chunk.w \in Workloads /\ End(chunk) \in Nat
         /\ chunk.start <= at
<1>1. chunk \in InHand /\ chunk \in Outstanding
  BY DEF InHand, Outstanding
<1> QED
  BY <1>1, OutstandingType DEF SamplingInv, Tiled, PoolInv, TypeOK

\* A draw repeated in the chunk is passed over because an earlier one of the
\* chunk is, or was, considered.
LEMMA PassedOverIsKept ==
  ASSUME SamplingInv, OneSetting, pc = "candidate", KeptBelow(chunk.w, at),
         NEW e \in Nat, e <= End(chunk), \A b \in Remaining : e <= b
  PROVE  KeptBelow(chunk.w, e)
<1> DEFINE w == chunk.w
<1> SUFFICES ASSUME NEW b \in Nat, b < e, IsLegalDraw(TheSeed, w, b)
             PROVE  << w, Draw(TheSeed, w, b) >> \in ResumeSeen
  BY DEF KeptBelow
<1>1. CASE b < at
  BY <1>1 DEF KeptBelow
<1>2. CASE ~(b < at)
  <2> DEFINE S == {x \in Attempts(chunk) : Draw(TheSeed, w, x) = Draw(TheSeed, w, b)}
  <2>1. /\ chunk.start \in Nat /\ chunk.attempted \in Nat /\ at \in Nat /\ chunk.start <= at
        /\ End(chunk) = chunk.start + chunk.attempted
    BY ChunkInHand DEF End
  <2>2. b \in S
    BY <1>2, <2>1 DEF Attempts
  <2>3. S \subseteq Nat
    BY <2>1 DEF Attempts
  <2>4. PICK m \in S : \A k \in S : m <= k
    <3> HIDE DEF S
    <3> QED
      BY <2>2, <2>3, LeastExists
  <2>5. /\ m \in Attempts(chunk) /\ m \in Nat /\ m <= b
        /\ Draw(TheSeed, w, m) = Draw(TheSeed, w, b)
    BY <2>2, <2>3, <2>4
  <2>6. run.seed = TheSeed
    BY RunSetting DEF SamplingInv
  <2>7. IsLegalDraw(TheSeed, w, m)
    BY <2>5 DEF IsLegalDraw
  <2>8. m \notin RepeatsInChunk(run.seed, chunk)
    <3> SUFFICES ASSUME NEW k \in Attempts(chunk), k < m,
                        Draw(run.seed, chunk.w, k) = Draw(run.seed, chunk.w, m)
                 PROVE  FALSE
      BY DEF RepeatsInChunk
    <3>1. k \in S /\ k \in Nat
      BY <2>3, <2>5, <2>6
    <3> HIDE DEF S
    <3> QED
      BY <2>4, <2>5, <3>1
  <2>9. m \in Candidates(run.seed, chunk)
    BY <2>5, <2>6, <2>7, <2>8 DEF Candidates
  <2>10. m < at
    <3> SUFFICES ASSUME m >= at PROVE FALSE
      BY <2>1, <2>5
    <3>1. m \in Remaining
      BY <2>9 DEF Remaining
    <3> QED
      BY <2>5, <3>1
  <2>11. << w, Draw(TheSeed, w, m) >> \in ResumeSeen
    BY <2>5, <2>7, <2>10 DEF KeptBelow
  <2> QED
    BY <2>5, <2>11
<1> QED
  BY <1>1, <1>2

\* While a candidate is considered, what was passed over is kept.
LEMMA WantsMore ==
  ASSUME SamplingInv, OneSetting, pc = "candidate", ~run.stop, ~AtTarget(chunk.w)
  PROVE  /\ KeptBelow(chunk.w, at)
         /\ ResumeAccepted[chunk.w] < Quota(TheCount, chunk.w)
<1>1. run.seen = ResumeSeen /\ run.kept = Len(traces) /\ run.kept < run.want
      /\ chunk.w \in Workloads /\ run.accepted[chunk.w] = ResumeAccepted[chunk.w] - 0
  BY ChunkInHand DEF SamplingInv, Counted, Stopping
<1>2. run.want = TheCount /\ TheCount \in Nat /\ run \in Run
  BY RunSetting DEF SamplingInv
<1>3. ResumeAccepted[chunk.w] \in Nat /\ Quota(TheCount, chunk.w) \in Nat
  BY <1>1, <1>2, ResumeAcceptedType, QuotaType DEF SamplingInv, PoolInv, TypeOK
<1>4. Len(traces) \in Nat
  BY DEF SamplingInv, PoolInv, TypeOK, StoreTypeOK
<1>5. ResumeAccepted[chunk.w] < Quota(TheCount, chunk.w)
  BY <1>1, <1>2, <1>3 DEF AtTarget
<1>6. Len(traces) < TheCount
  BY <1>1, <1>2
<1>7. Covered(chunk.w, at)
  BY DEF SamplingInv, Consumed
<1> QED
  BY <1>2, <1>3, <1>4, <1>5, <1>6, <1>7 DEF Covered

LEMMA ConsumedKept ==
  ASSUME SamplingInv, UNCHANGED << stream, traces >>, pc # "down", SamePlace,
         pc' = "candidate" => \E w, p : w = chunk'.w /\ p = at' /\ Covered(w, p),
         pc' = "journal" => UNCHANGED << pc, chunk, at >>
  PROVE  Consumed'
<1>1. /\ \A w, p : KeptBelow(w, p)' = KeptBelow(w, p)
      /\ \A w, p : Covered(w, p)' = Covered(w, p)
  BY SampledKeeps
<1>2. ASSUME NEW w \in Workloads PROVE Covered(w, run.doneUpTo[w])'
  <2>1. PICK p : p = run.doneUpTo[w]
    OBVIOUS
  <2>2. Covered(w, p)'
    BY <1>1, <2>1 DEF SamplingInv, Consumed
  <2> QED
    BY <2>1, <2>2 DEF Covered, KeptBelow, SamePlace
<1>3. (pc = "candidate" => Covered(chunk.w, at))'
  <2> SUFFICES ASSUME pc' = "candidate" PROVE Covered(chunk.w, at)'
    OBVIOUS
  <2>1. PICK w, p : w = chunk'.w /\ p = at' /\ Covered(w, p)
    OBVIOUS
  <2>2. Covered(w, p)'
    BY <1>1, <2>1
  <2> QED
    BY <2>1, <2>2 DEF Covered, KeptBelow
<1>4. (pc = "journal" => KeptBelow(chunk.w, at + 1))'
  <2> SUFFICES ASSUME pc' = "journal" PROVE KeptBelow(chunk.w, at + 1)'
    OBVIOUS
  <2>1. PICK w, p : w = chunk.w /\ p = at + 1
    OBVIOUS
  <2>2. KeptBelow(w, p)'
    BY <1>1, <2>1 DEF SamplingInv, Consumed
  <2> QED
    BY <2>1, <2>2 DEF KeptBelow
<1> QED
  BY <1>2, <1>3, <1>4 DEF Consumed

LEMMA ConsumedStart ==
  ASSUME SamplingInv, NEW s \in Seeds, NEW n \in TraceCounts, NEW resume \in ResumeFlags,
         Start(s, n, resume)
  PROVE  SampledInv' /\ Consumed'
<1>1. UNCHANGED << stream, traces, journal, saved >> /\ pc' = "fill"
  BY DEF Start, disk
<1>2. SampledInv'
  BY <1>1, SampledKept DEF SamplingInv
<1>3. ASSUME NEW w \in Workloads PROVE Covered(w, run.doneUpTo[w])'
  <2>1. PICK p : p = ResumeNext[w]
    OBVIOUS
  <2>2. Covered(w, p)'
    BY <1>1, <2>1, SampledKeeps, ResumeIsCovered DEF SamplingInv, PoolInv
  <2>3. run'.doneUpTo[w] = p
    BY <2>1, StartEffect DEF SamplingInv
  <2> QED
    BY <2>2, <2>3 DEF Covered, KeptBelow
<1> QED
  BY <1>1, <1>2, <1>3 DEF Consumed

LEMMA ConsumedBeginChunk ==
  ASSUME SamplingInv, BeginChunk PROVE SampledInv' /\ Consumed'
<1>1. UNCHANGED << stream, traces, journal, saved >> /\ pc' = "candidate" /\ pc # "down" /\ SamePlace
  BY BeginChunkEffect DEF BeginChunk, disk, SamplingInv
<1>2. SampledInv'
  BY <1>1, SampledKept DEF SamplingInv
<1>3. PICK w, p : w = chunk'.w /\ p = at'
  OBVIOUS
<1>4. w \in Workloads /\ p \in Nat /\ run \in Run
  BY <1>3, BeginChunkEffect DEF SamplingInv, Chunk
<1>5. p <= run.doneUpTo[w]
  <2>1. Tiled' /\ InHand' = {chunk'} /\ pc' # "down"
    BY <1>1, TiledStep DEF SamplingInv, InHand, Next, Parent
  <2>2. chunk'.start <= run'.doneUpTo[chunk'.w]
    BY <2>1 DEF Tiled
  <2> QED
    BY <1>1, <1>3, <2>2, BeginChunkEffect DEF SamePlace, SamplingInv
<1>6. Covered(w, run.doneUpTo[w]) /\ run.doneUpTo[w] \in Nat
  BY <1>1, <1>4 DEF SamplingInv, Consumed, Run
<1>7. Covered(w, p)
  BY <1>4, <1>5, <1>6 DEF Covered, KeptBelow
<1> QED
  BY <1>1, <1>2, <1>3, <1>7, ConsumedKept

\* The attempt looked at next is the first after those already considered.
LEMMA NextIsFirst ==
  ASSUME SamplingInv, OneSetting, pc = "candidate", ~run.stop, ~AtTarget(chunk.w),
         NEW a \in Remaining, IsNext(a)
  PROVE  /\ a \in Nat /\ KeptBelow(chunk.w, a)
         /\ IsLegalDraw(TheSeed, chunk.w, a)
         /\ Found(a) = << chunk.w, Draw(TheSeed, chunk.w, a) >>
<1>1. a \in Nat /\ run.seed = TheSeed
  BY RemainingInChunk, RunSetting DEF SamplingInv
<1>2. a \in Attempts(chunk) /\ IsLegalDraw(TheSeed, chunk.w, a)
  BY <1>1 DEF Remaining, Candidates
<1>3. a <= End(chunk)
  BY <1>2, ChunkInHand DEF Attempts, End
<1>4. KeptBelow(chunk.w, a)
  BY <1>1, <1>3, PassedOverIsKept, WantsMore DEF IsNext
<1> QED
  BY <1>1, <1>2, <1>4 DEF Found

LEMMA ConsumedDropDuplicate ==
  ASSUME SamplingInv, OneSetting, DropDuplicate PROVE SampledInv' /\ Consumed'
<1>1. /\ UNCHANGED << stream, traces, journal, saved, pc, chunk >>
      /\ pc = "candidate" /\ ~run.stop /\ ~AtTarget(chunk.w) /\ SamePlace
  BY DropDuplicateEffect DEF DropDuplicate, disk, SamplingInv
<1>2. SampledInv'
  BY <1>1, SampledKept DEF SamplingInv
<1>3. PICK a \in Remaining : IsNext(a) /\ Found(a) \in run.seen /\ at' = a + 1
  BY DEF DropDuplicate
<1>4. /\ a \in Nat /\ KeptBelow(chunk.w, a)
      /\ << chunk.w, Draw(TheSeed, chunk.w, a) >> \in ResumeSeen
  BY <1>1, <1>3, NextIsFirst DEF SamplingInv, Counted
<1>5. KeptBelow(chunk.w, a + 1)
  <2> SUFFICES ASSUME NEW b \in Nat, b < a + 1, IsLegalDraw(TheSeed, chunk.w, b)
               PROVE  << chunk.w, Draw(TheSeed, chunk.w, b) >> \in ResumeSeen
    BY DEF KeptBelow
  <2>1. b < a \/ b = a
    BY <1>4
  <2> QED
    BY <1>4, <2>1 DEF KeptBelow
<1>6. PICK w, p : w = chunk'.w /\ p = at'
  OBVIOUS
<1>7. Covered(w, p)
  BY <1>1, <1>3, <1>5, <1>6 DEF Covered
<1> QED
  BY <1>1, <1>2, <1>6, <1>7, ConsumedKept

LEMMA ConsumedWriteTrace ==
  ASSUME SamplingInv, OneSetting, WriteTrace PROVE SampledInv' /\ Consumed'
<1>1. PICK w, a : w = chunk.w /\ a = at'
  OBVIOUS
<1>2. /\ UNCHANGED << stream, journal, saved, chunk >>
      /\ pc = "candidate" /\ pc' = "journal" /\ ~run.stop /\ ~AtTarget(chunk.w) /\ SamePlace
      /\ w \in Workloads
  BY <1>1, WriteTraceEffect DEF WriteTrace, SamplingInv, Chunk
<1>3. a \in Remaining /\ IsNext(a) /\ Found(a) \notin run.seen
  BY <1>1, WriteTraceEffect DEF SamplingInv
<1>4. /\ a \in Nat /\ KeptBelow(w, a) /\ IsLegalDraw(TheSeed, w, a)
      /\ Found(a) = << w, Draw(TheSeed, w, a) >>
  BY <1>1, <1>2, <1>3, NextIsFirst
<1>5. run.seed = TheSeed /\ run.seen = ResumeSeen
  BY <1>2, RunSetting DEF SamplingInv, Counted
<1> DEFINE t == [w |-> w, key |-> Draw(TheSeed, w, a)]
<1>6. traces' = Append(traces, t) /\ t \in Trace
  BY <1>1, <1>5, WriteTraceEffect DEF SamplingInv
<1>7. t.w = w /\ << t.w, t.key >> = Found(a)
  BY <1>4
<1>8. PoolInv' /\ StoreInv /\ StoreInv' /\ StoreTypeOK'
  BY WriteTraceInv DEF SamplingInv, PoolInv, StoreInv
<1> HIDE DEF t
<1>9. /\ ResumeSeen' = ResumeSeen \cup {<< w, Draw(TheSeed, w, a) >>}
      /\ Len(traces') = Len(traces) + 1
  <2>1. << t.w, t.key >> \notin ResumeSeen
    BY <1>3, <1>5, <1>7
  <2>2. UNCHANGED << stream, journal, saved >>
    BY <1>2
  <2>3. /\ ResumeSeen' = ResumeSeen \cup {<< t.w, t.key >>}
        /\ Len(traces') = Len(traces) + 1
    BY <1>6, <1>8, <2>1, <2>2, TraceWritten DEF WriteTrace
  <2> QED
    BY <1>4, <1>7, <2>3
<1>10. \A v \in Workloads : ResumeAccepted'[v] >= ResumeAccepted[v]
  BY <1>6, <1>8, CountWritten, ResumeAcceptedType DEF StoreInv
<1>11. SampledInv' /\ KeptBelow(w, a + 1)'
  <2>1. traces' = Append(traces, [w |-> w, key |-> Draw(TheSeed, w, a)])
    BY <1>6 DEF t
  <2> QED
    BY <1>2, <1>4, <1>8, <1>9, <1>10, <2>1, SampledTrace DEF SamplingInv
<1>12. ASSUME NEW v \in Workloads PROVE Covered(v, run.doneUpTo[v])'
  <2>1. PICK p : p = run.doneUpTo[v]
    OBVIOUS
  <2>2. Covered(v, p)
    BY <1>2, <2>1 DEF SamplingInv, Consumed
  <2>3. Len(traces) <= Len(traces') /\ ResumeSeen \subseteq ResumeSeen' /\ StoreTypeOK
    BY <1>8, <1>9 DEF StoreInv, StoreTypeOK
  <2>4. Covered(v, p)'
    BY <1>2, <1>8, <1>10, <2>2, <2>3, CoveredGrows
  <2> QED
    BY <1>2, <2>1, <2>4 DEF Covered, KeptBelow, SamePlace
<1>13. KeptBelow(chunk.w, at + 1)'
  BY <1>1, <1>2, <1>11 DEF KeptBelow
<1> QED
  BY <1>2, <1>11, <1>12, <1>13 DEF Consumed

LEMMA ConsumedAppendRow ==
  ASSUME SamplingInv, AppendRow PROVE SampledInv' /\ Consumed'
<1> DEFINE row == [w |-> chunk.w, attempt |-> at, trace |-> Len(traces)]
<1>1. /\ UNCHANGED << stream, traces, saved, chunk >> /\ SamePlace
      /\ pc = "journal" /\ pc' = "candidate" /\ at' = at + 1
      /\ journal' = Append(journal, row)
  BY AppendRowEffect DEF AppendRow, SamplingInv
<1>2. KeptBelow(chunk.w, at + 1)
  BY <1>1 DEF SamplingInv, Consumed
<1>3. row \in Row /\ row.w = chunk.w /\ row.attempt = at
  <2>1. chunk.w \in Workloads /\ at \in Nat
    BY <1>1, ChunkInHand
  <2>2. Len(traces) \in Nat /\ Len(traces) # 0
    BY <1>1, EmptySeq DEF SamplingInv, PoolInv, TraceInHand, TypeOK, StoreTypeOK
  <2> QED
    BY <2>1, <2>2 DEF Row
<1> HIDE DEF row
<1>4. SampledInv'
  BY <1>1, <1>2, <1>3, SampledRow DEF SamplingInv, PoolInv
<1>5. PICK w, p : w = chunk'.w /\ p = at'
  OBVIOUS
<1>6. Covered(w, p)
  BY <1>1, <1>2, <1>5 DEF Covered
<1> QED
  BY <1>1, <1>4, <1>5, <1>6, ConsumedKept

LEMMA ConsumedCloseChunk ==
  ASSUME SamplingInv, OneSetting, CloseChunk PROVE SampledInv' /\ Consumed'
<1> DEFINE w == chunk.w
           upTo == IF run.doneUpTo[w] >= End(chunk) THEN run.doneUpTo[w] ELSE End(chunk)
<1>1. /\ UNCHANGED << stream, traces, journal >> /\ pc = "candidate" /\ pc' = "refill"
      /\ run.stop \/ AtTarget(w) \/ Remaining = {}
  BY DEF CloseChunk
<1>2. /\ run'.doneUpTo = [run.doneUpTo EXCEPT ![w] = upTo] /\ saved'.next = run'.doneUpTo
  BY CloseChunkEffect DEF SamplingInv, End
<1>3. /\ chunk \in Chunk /\ w \in Workloads /\ End(chunk) \in Nat /\ run \in Run /\ at \in Nat
      /\ run.seed = TheSeed /\ run.want = TheCount /\ TheCount \in Nat
  BY <1>1, ChunkInHand, RunSetting DEF SamplingInv
<1>4. Covered(w, End(chunk))
  <2>1. run.accepted[w] = ResumeAccepted[w] - 0 /\ run.kept = Len(traces) - 0
    BY <1>1, <1>3 DEF SamplingInv, Counted
  <2>2. ResumeAccepted[w] \in Nat /\ Len(traces) \in Nat
    BY <1>3, ResumeAcceptedType DEF SamplingInv, PoolInv, TypeOK, StoreTypeOK
  <2>3. CASE run.stop
    <3>1. run.kept >= run.want
      BY <1>1, <2>3 DEF SamplingInv, Stopping
    <3> QED
      BY <1>3, <2>1, <2>2, <3>1 DEF Covered
  <2>4. CASE AtTarget(w)
    BY <1>3, <2>1, <2>2, <2>4 DEF AtTarget, Covered
  <2>5. CASE ~run.stop /\ ~AtTarget(w) /\ Remaining = {}
    BY <1>1, <1>3, <2>5, PassedOverIsKept, WantsMore DEF Covered
  <2> QED
    BY <1>1, <2>3, <2>4, <2>5
<1>5. PICK next : next = run'.doneUpTo
  OBVIOUS
<1>6. ASSUME NEW v \in Workloads PROVE Covered(v, next[v])
  <2>1. Covered(v, run.doneUpTo[v])
    BY <1>1 DEF SamplingInv, Consumed
  <2>2. next[v] = run.doneUpTo[v] \/ (v = w /\ next[v] = End(chunk))
    BY <1>2, <1>3, <1>5 DEF Run
  <2> QED
    BY <1>4, <2>1, <2>2
<1>7. SampledInv'
  BY <1>1, <1>2, <1>5, <1>6, SampledState DEF SamplingInv
<1>8. ASSUME NEW v \in Workloads PROVE Covered(v, run.doneUpTo[v])'
  <2>1. PICK p : p = next[v]
    OBVIOUS
  <2>2. Covered(v, p)'
    BY <1>1, <1>6, <2>1, SampledKeeps
  <2> QED
    BY <1>5, <2>1, <2>2 DEF Covered, KeptBelow
<1> QED
  BY <1>1, <1>7, <1>8 DEF Consumed

LEMMA SampledStep ==
  ASSUME SamplingInv, OneSetting, [Next]_vars PROVE SampledInv' /\ Consumed'
<1>1. CASE \E s \in Seeds, n \in TraceCounts, resume \in ResumeFlags : Start(s, n, resume)
  BY <1>1, ConsumedStart
<1>2. CASE BeginChunk \/ DropDuplicate \/ WriteTrace \/ AppendRow \/ CloseChunk
  BY <1>2, ConsumedBeginChunk, ConsumedDropDuplicate, ConsumedWriteTrace, ConsumedAppendRow,
     ConsumedCloseChunk
<1>3. CASE \E s \in Seeds, resume \in ResumeFlags : Refuse(s, resume)
  <2>1. pc' = "down" /\ UNCHANGED << stream, traces, journal, saved >>
    BY <1>3 DEF Refuse, RefuseDirectory, memory, disk
  <2> QED
    BY <2>1, SampledKept DEF SamplingInv, Consumed
<1>4. CASE \E s \in Seeds, n \in TraceCounts, resume \in ResumeFlags : Skip(s, n, resume)
  <2>1. /\ pc' = "down" /\ UNCHANGED << stream, traces, journal >>
        /\ saved'.next = ResumeNext
    BY <1>4 DEF Skip, SkipDirectory, memory
  <2>2. \A w \in Workloads : Covered(w, ResumeNext[w])
    BY ResumeIsCovered DEF SamplingInv, PoolInv
  <2> QED
    BY <2>1, <2>2, SampledState DEF SamplingInv, Consumed
<1>5. CASE EndRun \/ Kill
  <2>1. pc' = "down" /\ UNCHANGED << stream, traces, journal, saved >>
    BY <1>5 DEF EndRun, Kill, disk
  <2> QED
    BY <2>1, SampledKept DEF SamplingInv, Consumed
<1>6. CASE Submit
  <2>1. /\ UNCHANGED << stream, traces, journal, saved >> /\ SamePlace
        /\ pc # "down" /\ pc' \notin {"candidate", "journal"}
    BY <1>6, SubmitEffect DEF Submit, disk, SamplingInv
  <2> QED
    BY <2>1, SampledKept, ConsumedKept DEF SamplingInv
<1>7. CASE FillDone \/ Collect \/ NothingToEmit
  <2>1. /\ UNCHANGED << stream, traces, journal, saved, run >>
        /\ pc # "down" /\ pc' \notin {"candidate", "journal"}
    BY <1>7 DEF FillDone, Collect, NothingToEmit, disk
  <2> QED
    BY <2>1, SampledKept, ConsumedKept DEF SamplingInv, SamePlace
<1>8. CASE Worker \/ UNCHANGED vars
  <2>1. UNCHANGED << stream, traces, journal, saved, run, pc, chunk, at >>
    BY <1>8 DEF Worker, WorkerFinish, vars, memory, disk
  <2>2. CASE pc = "down"
    BY <2>1, <2>2, SampledKept DEF SamplingInv, Consumed
  <2>3. CASE pc # "down"
    BY <2>1, <2>3, SampledKept, ConsumedKept DEF SamplingInv, Consumed, SamePlace
  <2> QED
    BY <2>2, <2>3
<1> QED
  BY <1>1, <1>2, <1>3, <1>4, <1>5, <1>6, <1>7, <1>8 DEF Next, Command, Parent

LEMMA SamplingInvInit == Init => SamplingInv
<1> SUFFICES ASSUME Init PROVE SamplingInv
  OBVIOUS
<1>1. PoolInv
  BY PoolInvInit
<1>2. /\ pc = "down" /\ pending = {} /\ completed = {}
      /\ traces = << >> /\ journal = << >> /\ saved = None
  BY DEF Init, NoMemory, StoreInit
<1>3. Counted /\ Stopping /\ Numbered /\ Tiled /\ Consumed
  BY <1>2 DEF Counted, Stopping, Numbered, Tiled, Consumed, InHand
<1>4. \A w \in Workloads : KeptBelow(w, 0)
  BY DEF KeptBelow
<1>5. SampledInv
  BY <1>2, <1>4 DEF SampledInv, Gapless
<1> QED
  BY <1>1, <1>3, <1>5 DEF SamplingInv

LEMMA SamplingInvariant ==
  ASSUME OneSetting PROVE Spec => []SamplingInv
<1>1. SamplingInv /\ [Next]_vars => SamplingInv'
  BY PoolInvStep, CountedStep, TiledStep, SampledStep DEF SamplingInv
<1> QED
  BY <1>1, SamplingInvInit, PTL DEF Spec

\* Only the trace file of a candidate changes the log, and the candidate is
\* the first legal draw of its workload that is not in it.
LEMMA WritesKeep ==
  ASSUME SamplingInv, OneSetting, WriteTrace PROVE Sampling!Keep(chunk.w)
<1> DEFINE w == chunk.w
           d == stream[TheSeed]
<1>1. PICK a \in Remaining : a = at'
  BY WriteTraceEffect DEF SamplingInv
<1>2. /\ pc = "candidate" /\ ~run.stop /\ ~AtTarget(w) /\ IsNext(a) /\ Found(a) \notin run.seen
      /\ traces' = Append(traces, [w |-> w, key |-> Draw(run.seed, w, a)])
      /\ UNCHANGED stream
  BY <1>1, WriteTraceEffect DEF WriteTrace, SamplingInv
<1>3. /\ run.seed = TheSeed /\ TheSeed \in Seeds /\ run.seen = ResumeSeen /\ w \in Workloads
  BY <1>2, RunSetting, ChunkInHand DEF SamplingInv, Counted, OneSetting
<1>4. /\ a \in Nat /\ KeptBelow(w, a) /\ IsLegalDraw(TheSeed, w, a)
      /\ << w, Draw(TheSeed, w, a) >> \notin ResumeSeen
      /\ ResumeAccepted[w] < Quota(TheCount, w)
  BY <1>2, <1>3, NextIsFirst, WantsMore
<1>5. d \in [Workloads -> [0 .. Horizon - 1 -> Keys \cup {NoSample}]]
  BY <1>3, StreamsAssumption DEF SamplingInv, PoolInv, TypeOK, StoreTypeOK
<1>6. DOMAIN d[w] = 0 .. Horizon - 1
  BY <1>3, <1>5
<1>7. \A b \in Nat : IsLegalDraw(TheSeed, w, b) =>
        b \in DOMAIN d[w] /\ d[w][b] = Draw(TheSeed, w, b)
  BY <1>6, KeysAssumption, HorizonAssumption DEF IsLegalDraw, Draw
<1>8. \A b \in DOMAIN d[w] : b \in Nat /\ d[w][b] = Draw(TheSeed, w, b)
  BY <1>6, HorizonAssumption DEF Draw
<1>9. \A i \in DOMAIN traces : traces[i] \in Trace
  BY ElementOfSeq DEF SamplingInv, PoolInv, TypeOK, StoreTypeOK
<1>10. \A b \in Nat : << w, Draw(TheSeed, w, b) >> \notin ResumeSeen <=>
         \A i \in DOMAIN traces : traces[i] # [w |-> w, key |-> Draw(TheSeed, w, b)]
  BY <1>9 DEF ResumeSeen, Trace
<1> DEFINE U == {b \in DOMAIN d[w] :
                   /\ d[w][b] \in LegalKeys
                   /\ \A i \in DOMAIN traces : traces[i] # [w |-> w, key |-> d[w][b]]}
<1> HIDE DEF w, d
<1>11. a \in U
  BY <1>4, <1>7, <1>10 DEF IsLegalDraw
<1>12. ASSUME NEW b \in U PROVE a <= b
  <2>1. /\ b \in Nat /\ IsLegalDraw(TheSeed, w, b)
        /\ << w, Draw(TheSeed, w, b) >> \notin ResumeSeen
    BY <1>8, <1>10 DEF IsLegalDraw
  <2> QED
    BY <1>4, <2>1 DEF KeptBelow
<1>13. traces' = Append(traces, [w |-> w, key |-> d[w][a]])
  BY <1>2, <1>3, <1>4, <1>7 DEF w
<1>14. Cardinality({i \in DOMAIN traces : traces[i].w = w}) < Quota(TheCount, w)
  BY <1>3, <1>4 DEF ResumeAccepted, w
<1> HIDE DEF U
<1>15. \E b \in U : (\A e \in U : b <= e) /\ traces' = Append(traces, [w |-> w, key |-> d[w][b]])
  BY <1>11, <1>12, <1>13
<1>16. Sampling!Unkept(w) = U
  BY DEF Sampling!Unkept, U, d
<1>17. Sampling!KeptOf(w) = {i \in DOMAIN traces : traces[i].w = w}
  BY DEF Sampling!KeptOf
<1>18. [v \in Workloads |-> Quota(TheCount, v)][w] = Quota(TheCount, w)
  BY <1>3 DEF w
<1>19. Sampling!Keep(w)
  <2>1. stream[TheSeed]' = stream[TheSeed]
    BY <1>2
  <2>2. Sampling!Cardinality(Sampling!KeptOf(w)) < [v \in Workloads |-> Quota(TheCount, v)][w]
    <3>1. Sampling!Cardinality(Sampling!KeptOf(w)) = Cardinality(Sampling!KeptOf(w))
      BY DEF Sampling!Cardinality, Cardinality
    <3> QED
      BY <1>14, <1>17, <1>18, <3>1
  <2>3. \E b \in Sampling!Unkept(w) :
          /\ \A e \in Sampling!Unkept(w) : b <= e
          /\ traces' = Append(traces, [w |-> w, key |-> stream[TheSeed][w][b]])
    BY <1>15, <1>16 DEF d
  <2> QED
    BY <2>1, <2>2, <2>3 DEF Sampling!Keep
<1> QED
  BY <1>19 DEF w

\* Whatever the workers' timing, the kills, the restarts and the chunking, a
\* directory gets, for each workload, the first legal draws of its stream in
\* the order in which they are drawn, and never more than its share.
THEOREM PoolImplementsSampling ==
  ASSUME OneSetting PROVE Spec => ImplementsSampling
<1>1. Init => Sampling!Init
  BY DEF Init, StoreInit, Sampling!Init
<1>2. SamplingInv /\ [Next]_vars => [Sampling!Next]_<< stream[TheSeed], traces >>
  <2> SUFFICES ASSUME SamplingInv, [Next]_vars
               PROVE  [Sampling!Next]_<< stream[TheSeed], traces >>
    OBVIOUS
  <2>1. CASE WriteTrace
    <3>1. chunk.w \in Workloads
      BY <2>1, WriteTraceEffect DEF SamplingInv, Chunk
    <3> QED
      BY <2>1, <3>1, WritesKeep DEF Sampling!Next
  <2>2. CASE ~WriteTrace
    <3>1. UNCHANGED << stream, traces >>
      BY <2>2 DEF Next, Command, Parent, Worker, vars, disk, memory, Refuse, RefuseDirectory, Skip,
           SkipDirectory, Start, Submit, FillDone, WorkerFinish, Collect, EndRun, BeginChunk,
           NothingToEmit, DropDuplicate, AppendRow, CloseChunk, Kill
    <3> QED
      BY <3>1
  <2> QED
    BY <2>1, <2>2
<1> QED
  BY <1>1, <1>2, SamplingInvariant, PTL DEF Spec, ImplementsSampling, Sampling!Spec

-----------------------------------------------------------------------------
(* What the run has spent of its budget, and why it stops.                 *)

\* Attempts in the first k chunks of a run.
Cum(k) == Smaller(k * BatchAttempts, MaxAttempts)

\* Chunks whose consumption has begun.
Begun == IF pc \in {"candidate", "journal"} THEN run.nextEmit + 1 ELSE run.nextEmit

Budgeted ==
  pc # "down" =>
    /\ run.sched.scheduled = Cum(run.sched.issued)
    /\ run.attempts = Cum(Begun)
    /\ \A c \in Outstanding : c.attempted = Cum(c.sub + 1) - Cum(c.sub)

\* A workload leaves the scheduler only when it has its share.
Attended ==
  pc # "down" =>
    \A w \in Workloads : IsActive(run.sched, w) \/ run.accepted[w] >= Quota(run.want, w)

\* The parent waits for something while there is something to hand out.
Watched ==
  /\ pc = "fill" => completed = {}
  /\ pc \in {"emit", "wait"} /\ ~run.stop /\ Outstanding = {} => ~HasChunk(run.sched)
  /\ pc = "wait" /\ ~run.stop => \A c \in completed : c.sub # run.nextEmit
  /\ pc # "down" /\ run.stop => run.kept >= run.want \/ run.attempts = MaxAttempts

SpentInv ==
  PoolInv /\ Counted /\ Stopping /\ Numbered /\ Tiled /\ Budgeted /\ Attended /\ Watched

LEMMA CumStep ==
  /\ Cum(0) = 0
  /\ \A k \in Nat : Cum(k) \in Nat /\ Cum(k) <= MaxAttempts
  /\ \A k \in Nat : Cum(k) < MaxAttempts =>
       Cum(k) + Smaller(BatchAttempts, MaxAttempts - Cum(k)) = Cum(k + 1)
<1>1. \A k \in Nat : k * BatchAttempts \in Nat /\ (k + 1) * BatchAttempts = (k * BatchAttempts) + BatchAttempts
  BY BudgetAssumption
<1>2. 0 * BatchAttempts = 0
  BY BudgetAssumption
<1>3. ASSUME NEW k \in Nat
      PROVE  /\ Cum(k) \in Nat /\ Cum(k) <= MaxAttempts
             /\ Cum(k) < MaxAttempts =>
                  Cum(k) + Smaller(BatchAttempts, MaxAttempts - Cum(k)) = Cum(k + 1)
  <2>1. PICK p \in Nat : p = k * BatchAttempts /\ (k + 1) * BatchAttempts = p + BatchAttempts
    BY <1>1
  <2> QED
    BY <2>1, BudgetAssumption DEF Cum, Smaller
<1> QED
  BY <1>2, <1>3, BudgetAssumption DEF Cum, Smaller

\* Steps that neither hand out, begin nor end a chunk.
LEMMA BudgetedKept ==
  ASSUME PoolInv, Budgeted, pc # "down", Outstanding' = Outstanding, Begun' = Begun,
         run'.sched.issued = run.sched.issued, run'.sched.scheduled = run.sched.scheduled,
         run'.attempts = run.attempts
  PROVE  Budgeted'
BY DEF Budgeted, Cum, Smaller

LEMMA BudgetedStart ==
  ASSUME PoolInv, Numbered, NEW s \in Seeds, NEW n \in TraceCounts, NEW resume \in ResumeFlags,
         Start(s, n, resume)
  PROVE  Budgeted'
<1>1. pc' = "fill" /\ pending' = {} /\ completed' = {}
  BY StartEffect DEF Numbered
<1>2. /\ run'.nextEmit = 0 /\ run'.attempts = 0
      /\ run'.sched = NewScheduler(Smaller(n, NumWorkloads), ResumeNext)
  BY StartEffect
<1>3. run'.sched.issued = 0 /\ run'.sched.scheduled = 0
  BY <1>2 DEF NewScheduler
<1>4. Outstanding' = {} /\ Begun' = 0
  BY <1>1, <1>2 DEF Outstanding, InHand, Begun
<1>5. Cum(run'.sched.issued) = 0 /\ Cum(Begun') = 0
  BY <1>3, <1>4, CumStep
<1> QED
  BY <1>2, <1>3, <1>4, <1>5 DEF Budgeted, Cum, Smaller

LEMMA BudgetedSubmit ==
  ASSUME PoolInv, Numbered, Budgeted, Submit PROVE Budgeted'
<1> DEFINE c == NextChunk(run.sched)
           k == run.sched.issued
<1>1. /\ pc # "down" /\ pc' = pc /\ pc \notin {"candidate", "journal"}
      /\ Outstanding' = Outstanding \cup {c} /\ Begun' = Begun
      /\ run'.attempts = run.attempts
  BY SubmitEffect DEF Submit, InHand, Outstanding, Begun, SamePlace
<1>2. /\ run'.sched.issued = k + 1 /\ run'.sched.scheduled = run.sched.scheduled + c.attempted
      /\ k \in Nat /\ c.sub = k
      /\ c.attempted = Smaller(BatchAttempts, MaxAttempts - run.sched.scheduled)
      /\ run.sched.scheduled < MaxAttempts
  BY SubmitEffect, AfterNextChunkPointed DEF NextChunk, Pointed, Scheduler, HasChunk
<1>3. run.sched.scheduled = Cum(k)
  BY <1>1 DEF Budgeted
<1> HIDE DEF c, k
<1>4. Cum(k) + c.attempted = Cum(k + 1) /\ Cum(k) \in Nat /\ c.attempted = Cum(c.sub + 1) - Cum(c.sub)
  <2>1. Cum(k) \in Nat /\ Cum(k) <= MaxAttempts /\ Cum(k + 1) \in Nat
    BY <1>2, CumStep
  <2>2. c.attempted \in Int
    BY <1>2, <1>3, <2>1, BudgetAssumption DEF Smaller
  <2>3. Cum(k) + c.attempted = Cum(k + 1)
    BY <1>2, <1>3, CumStep
  <2> QED
    BY <1>2, <2>1, <2>2, <2>3
<1>5. run'.sched.scheduled = Cum(run'.sched.issued)
  BY <1>2, <1>3, <1>4
<1>6. run'.attempts = Cum(Begun')
  BY <1>1 DEF Budgeted
<1>7. \A d \in Outstanding' : d.attempted = Cum(d.sub + 1) - Cum(d.sub)
  BY <1>1, <1>4 DEF Budgeted
<1> QED
  BY <1>5, <1>6, <1>7 DEF Budgeted, Cum, Smaller

LEMMA BudgetedStep ==
  ASSUME PoolInv, Numbered, Budgeted, [Next]_vars PROVE Budgeted'
<1>1. CASE \E s \in Seeds, n \in TraceCounts, resume \in ResumeFlags : Start(s, n, resume)
  BY <1>1, BudgetedStart
<1>2. CASE Submit
  BY <1>2, BudgetedSubmit
<1>3. CASE EndRun \/ Kill
  <2>1. pc' = "down"
    BY <1>3 DEF EndRun, Kill
  <2> QED
    BY <2>1 DEF Budgeted
<1>4. CASE FillDone \/ NothingToEmit \/ Worker \/ UNCHANGED vars
  <2>1. /\ UNCHANGED << run, pending, completed, chunk >>
        /\ \/ /\ pc \notin {"candidate", "journal", "down"}
              /\ pc' \notin {"candidate", "journal", "down"}
           \/ UNCHANGED pc
    BY <1>4 DEF FillDone, NothingToEmit, Worker, WorkerFinish, vars, memory
  <2>2. Outstanding' = Outstanding /\ Begun' = Begun
    BY <2>1 DEF Outstanding, InHand, Begun
  <2> QED
    BY <2>1, <2>2, BudgetedKept DEF Budgeted
<1>5. CASE Collect
  <2>1. /\ pc = "wait" /\ pc' = "emit" /\ UNCHANGED run
        /\ completed' = completed \cup finished /\ pending' = pending \ finished
        /\ finished \subseteq pending
    BY <1>5 DEF Collect, PoolInv, TypeOK
  <2>2. Outstanding' = Outstanding /\ Begun' = Begun
    BY <2>1 DEF Outstanding, InHand, Begun
  <2> QED
    BY <2>1, <2>2, BudgetedKept
<1>6. CASE BeginChunk
  <2>1. /\ pc = "emit" /\ pc' = "candidate" /\ pending' = pending
        /\ chunk' \in completed /\ completed' = completed \ {chunk'}
        /\ chunk'.sub = run.nextEmit /\ run \in Run
        /\ SamePlace /\ run'.sched = run.sched
        /\ run'.attempts = run.attempts + chunk'.attempted
    BY <1>6, BeginChunkEffect DEF BeginChunk
  <2>2. /\ Outstanding' = Outstanding /\ chunk' \in Outstanding
        /\ Begun = run.nextEmit /\ Begun' = run.nextEmit + 1
    BY <2>1 DEF Outstanding, InHand, Begun, SamePlace
  <2>3. run.nextEmit \in Nat /\ Cum(run.nextEmit) \in Nat /\ Cum(run.nextEmit + 1) \in Nat
    BY <2>1, CumStep DEF Run
  <2>4. run.attempts = Cum(run.nextEmit)
        /\ chunk'.attempted = Cum(run.nextEmit + 1) - Cum(run.nextEmit)
    BY <2>1, <2>2 DEF Budgeted
  <2>5. run'.attempts = Cum(Begun')
    BY <2>1, <2>2, <2>3, <2>4
  <2>6. /\ run'.sched.scheduled = Cum(run'.sched.issued)
        /\ \A d \in Outstanding' : d.attempted = Cum(d.sub + 1) - Cum(d.sub)
    BY <2>1, <2>2 DEF Budgeted
  <2> QED
    BY <2>5, <2>6 DEF Budgeted, Cum, Smaller
<1>7. CASE DropDuplicate \/ WriteTrace \/ AppendRow
  <2>1. /\ pc \in {"candidate", "journal"} /\ pc' \in {"candidate", "journal"}
        /\ UNCHANGED << pending, completed, chunk >>
    BY <1>7 DEF DropDuplicate, WriteTrace, AppendRow
  <2>2. /\ SamePlace /\ run'.attempts = run.attempts
        /\ run'.sched.scheduled = run.sched.scheduled
        /\ run'.sched.issued = run.sched.issued
    BY <1>7, DropDuplicateEffect, WriteTraceEffect, AppendRowEffect, MarkCompletePointed
  <2>3. Outstanding' = Outstanding /\ Begun' = Begun
    BY <2>1, <2>2 DEF Outstanding, InHand, Begun, SamePlace
  <2> QED
    BY <2>1, <2>2, <2>3, BudgetedKept
<1>8. CASE CloseChunk
  <2>1. /\ pc = "candidate" /\ pc' = "refill" /\ UNCHANGED << pending, completed >>
        /\ run'.nextEmit = run.nextEmit + 1 /\ run'.attempts = run.attempts
        /\ run'.sched.scheduled = run.sched.scheduled
        /\ run'.sched.issued = run.sched.issued
    BY <1>8, CloseChunkEffect, MarkCompletePointed DEF CloseChunk
  <2>2. Outstanding' \subseteq Outstanding /\ Begun' = Begun
    BY <2>1 DEF Outstanding, InHand, Begun
  <2> QED
    BY <2>1, <2>2 DEF Budgeted, Cum, Smaller
<1>9. CASE \E s \in Seeds, resume \in ResumeFlags :
             Refuse(s, resume) \/ \E n \in TraceCounts : Skip(s, n, resume)
  <2>1. pc' = "down"
    BY <1>9 DEF Refuse, Skip, memory
  <2> QED
    BY <2>1 DEF Budgeted
<1> QED
  BY <1>1, <1>2, <1>3, <1>4, <1>5, <1>6, <1>7, <1>8, <1>9 DEF Next, Command, Parent

-----------------------------------------------------------------------------
LEMMA AttendedStart ==
  ASSUME PoolInv, NEW s \in Seeds, NEW n \in TraceCounts, NEW resume \in ResumeFlags,
         Start(s, n, resume)
  PROVE  Attended'
<1>1. /\ run'.accepted = ResumeAccepted /\ run'.want = n
      /\ run'.sched = NewScheduler(Smaller(n, NumWorkloads), ResumeNext)
  BY StartEffect
<1>2. ResumeAccepted \in [Workloads -> Nat] /\ n \in Nat \ {0}
  BY ResumeAcceptedType, TraceCountsAssumption DEF PoolInv, TypeOK
<1> DEFINE eligible == Smaller(n, NumWorkloads)
           active == [w \in 1 .. eligible |-> w]
<1>3. eligible \in Nat /\ Len(active) = eligible /\ run'.sched.active = active
  BY <1>1, <1>2, NumWorkloadsAssumption DEF Smaller, NewScheduler
<1>4. ASSUME NEW w \in Workloads
      PROVE  IsActive(run'.sched, w) \/ run'.accepted[w] >= Quota(run'.want, w)
  <2>1. CASE w <= eligible
    <3>1. w \in 1 .. Len(active) /\ active[w] = w
      BY <1>3, <2>1 DEF Workloads
    <3> QED
      BY <1>3, <3>1 DEF IsActive
  <2>2. CASE ~(w <= eligible)
    <3>1. n < NumWorkloads /\ n < w
      BY <1>2, <2>2, NumWorkloadsAssumption DEF Smaller, Workloads
    <3> DEFINE q == n \div NumWorkloads
               r == n % NumWorkloads
    <3>2. q \in Nat /\ r \in 0 .. NumWorkloads - 1 /\ n = (NumWorkloads * q) + r
      BY <1>2, Division, NumWorkloadsAssumption
    <3> HIDE DEF q, r
    <3>3. q = 0
      <4> SUFFICES ASSUME q # 0 PROVE FALSE
        OBVIOUS
      <4>1. PICK e \in Nat : q = e + 1
        <5>1. q - 1 \in Nat /\ q = (q - 1) + 1
          BY <3>2
        <5> QED
          BY <5>1
      <4>2. NumWorkloads * q = (NumWorkloads * e) + NumWorkloads /\ NumWorkloads * e \in Nat
        BY <4>1, NumWorkloadsAssumption
      <4> QED
        BY <1>2, <3>1, <3>2, <4>2, NumWorkloadsAssumption
    <3>4. r = n
      BY <1>2, <3>2, <3>3, NumWorkloadsAssumption
    <3>5. Quota(n, w) = q + (IF w <= r THEN 1 ELSE 0)
      BY DEF Quota, q, r
    <3>6. Quota(n, w) = 0
      BY <1>2, <3>1, <3>3, <3>4, <3>5 DEF Workloads
    <3> QED
      BY <1>1, <1>2, <3>6
  <2> QED
    BY <2>1, <2>2
<1> QED
  BY <1>4 DEF Attended, IsActive, Quota

LEMMA AttendedStep ==
  ASSUME PoolInv, Attended, [Next]_vars PROVE Attended'
<1>1. CASE \E s \in Seeds, n \in TraceCounts, resume \in ResumeFlags : Start(s, n, resume)
  BY <1>1, AttendedStart
<1>2. CASE pc' = "down"
  BY <1>2 DEF Attended
<1>3. CASE /\ pc # "down" /\ run'.sched.active = run.sched.active
           /\ run'.accepted = run.accepted /\ run'.want = run.want
  BY <1>3 DEF Attended, IsActive, Quota
<1>4. CASE Submit
  <2>1. pc # "down" /\ SameKept /\ SameSettings /\ run'.sched.active = run.sched.active
    BY <1>4, SubmitEffect, AfterNextChunkPointed DEF Submit
  <2> QED
    BY <1>3, <2>1 DEF SameKept, SameSettings
<1>5. CASE FillDone \/ NothingToEmit \/ Collect
  <2>1. pc # "down" /\ UNCHANGED run
    BY <1>5 DEF FillDone, NothingToEmit, Collect
  <2> QED
    BY <1>3, <2>1
<1>6. CASE Worker \/ UNCHANGED vars
  <2>1. UNCHANGED << pc, run >>
    BY <1>6 DEF Worker, WorkerFinish, vars, memory
  <2> QED
    BY <1>2, <1>3, <2>1
<1>7. CASE BeginChunk \/ DropDuplicate \/ WriteTrace
  <2>1. /\ pc # "down" /\ SameSettings /\ run'.accepted = run.accepted /\ run'.sched = run.sched
    BY <1>7, BeginChunkEffect, DropDuplicateEffect, WriteTraceEffect
       DEF BeginChunk, DropDuplicate, WriteTrace, SameKept
  <2> QED
    BY <1>3, <2>1 DEF SameSettings
<1>8. CASE AppendRow
  <2> DEFINE count == run.accepted[chunk.w] + 1
  <2>1. /\ run \in Run /\ chunk.w \in Workloads /\ Pointed(run.sched)
        /\ run'.accepted = [run.accepted EXCEPT ![chunk.w] = count]
        /\ run'.sched = IF count >= Quota(run.want, chunk.w)
                        THEN MarkComplete(run.sched, chunk.w) ELSE run.sched
        /\ run'.want = run.want /\ pc # "down"
    BY <1>8, AppendRowEffect DEF SameSettings, Chunk, AppendRow
  <2>2. run.accepted \in [Workloads -> Nat] /\ run.want \in Nat
    BY <2>1, TraceCountsAssumption DEF Run
  <2>3. ASSUME NEW w \in Workloads
        PROVE  IsActive(run'.sched, w) \/ run'.accepted[w] >= Quota(run.want, w)
    <3>1. IsActive(run.sched, w) \/ run.accepted[w] >= Quota(run.want, w)
      BY <2>1 DEF Attended
    <3>2. Quota(run.want, w) \in Nat
      BY <2>2, QuotaType
    <3>3. CASE w = chunk.w
      BY <2>1, <2>2, <3>1, <3>2, <3>3
    <3>4. CASE w # chunk.w
      BY <2>1, <2>2, <3>1, <3>4, MarkCompleteOthers
    <3> QED
      BY <3>3, <3>4
  <2> QED
    BY <2>1, <2>3 DEF Attended, IsActive, Quota
<1>9. CASE CloseChunk
  <2>1. /\ run \in Run /\ Pointed(run.sched) /\ pc # "down"
        /\ run'.sched = IF AtTarget(chunk.w) THEN MarkComplete(run.sched, chunk.w) ELSE run.sched
        /\ run'.accepted = run.accepted /\ run'.want = run.want
    BY <1>9, CloseChunkEffect DEF SameSettings, SameKept, CloseChunk
  <2>2. ASSUME NEW w \in Workloads
        PROVE  IsActive(run'.sched, w) \/ run.accepted[w] >= Quota(run.want, w)
    <3>1. IsActive(run.sched, w) \/ run.accepted[w] >= Quota(run.want, w)
      BY <2>1 DEF Attended
    <3>2. CASE w = chunk.w
      BY <2>1, <3>1, <3>2 DEF AtTarget
    <3>3. CASE w # chunk.w
      BY <2>1, <3>1, <3>3, MarkCompleteOthers
    <3> QED
      BY <3>2, <3>3
  <2> QED
    BY <2>1, <2>2 DEF Attended, IsActive, Quota
<1>10. CASE \E s \in Seeds, resume \in ResumeFlags :
              Refuse(s, resume) \/ \E n \in TraceCounts : Skip(s, n, resume)
  <2>1. pc' = "down"
    BY <1>10 DEF Refuse, Skip, memory
  <2> QED
    BY <1>2, <2>1
<1>11. CASE EndRun \/ Kill
  <2>1. pc' = "down"
    BY <1>11 DEF EndRun, Kill
  <2> QED
    BY <1>2, <2>1
<1> QED
  BY <1>1, <1>4, <1>5, <1>6, <1>7, <1>8, <1>9, <1>10, <1>11 DEF Next, Command, Parent

LEMMA WatchedStep ==
  ASSUME SpentInv, [Next]_vars PROVE Watched'
<1>0. pc # "down" => run \in Run
  BY DEF SpentInv, PoolInv, TypeOK
<1>1. CASE pc' = "down"
  BY <1>1 DEF Watched
<1>2. CASE \E s \in Seeds, n \in TraceCounts, resume \in ResumeFlags : Start(s, n, resume)
  <2>1. pc' = "fill" /\ completed' = {} /\ run'.stop = FALSE
    BY <1>2, StartEffect DEF SpentInv, Numbered
  <2> QED
    BY <2>1 DEF Watched
<1>3. CASE Submit
  <2>1. /\ pc' = pc /\ pc \in {"fill", "refill"} /\ completed' = completed
        /\ SameKept /\ SameSettings /\ run'.stop = run.stop /\ run'.attempts = run.attempts
    BY <1>3, SubmitEffect DEF Submit, SpentInv
  <2> QED
    BY <2>1 DEF SpentInv, Watched, SameKept, SameSettings
<1>4. CASE FillDone
  <2>1. /\ pc \in {"fill", "refill"} /\ pc' = IF pc = "fill" THEN "wait" ELSE "emit"
        /\ UNCHANGED << run, pending, completed, chunk >> /\ ~MaySubmit
    BY <1>4 DEF FillDone
  <2>2. Outstanding' = {} => pending = {}
    BY <2>1 DEF Outstanding
  <2>3. ASSUME ~run.stop, pending = {} PROVE ~HasChunk(run.sched)
    <3>1. Cardinality(pending) = 0
      BY <2>3, FS_EmptySet
    <3> QED
      BY <2>1, <2>3, <3>1, NumWorkersAssumption DEF MaySubmit
  <2> QED
    BY <2>1, <2>2, <2>3 DEF SpentInv, Watched, HasChunk
<1>5. CASE NothingToEmit
  <2>1. /\ pc = "emit" /\ pc' = "wait" /\ UNCHANGED << run, pending, completed, chunk >>
        /\ run.stop \/ \A c \in completed : c.sub # run.nextEmit
    BY <1>5 DEF NothingToEmit
  <2>2. Outstanding' = Outstanding
    BY <2>1 DEF Outstanding, InHand
  <2> QED
    BY <2>1, <2>2 DEF SpentInv, Watched, HasChunk
<1>6. CASE Collect
  <2>1. /\ pc = "wait" /\ pc' = "emit" /\ UNCHANGED run
        /\ completed' = completed \cup finished /\ finished # {}
    BY <1>6 DEF Collect
  <2>2. Outstanding' # {}
    BY <2>1 DEF Outstanding
  <2> QED
    BY <2>1, <2>2 DEF SpentInv, Watched
<1>7. CASE Worker \/ UNCHANGED vars
  <2>1. UNCHANGED << pc, run, pending, completed, chunk >>
    BY <1>7 DEF Worker, WorkerFinish, vars, memory
  <2>2. Outstanding' = Outstanding
    BY <2>1 DEF Outstanding, InHand
  <2> QED
    BY <2>1, <2>2 DEF SpentInv, Watched, HasChunk
<1>8. CASE BeginChunk
  <2>1. pc' = "candidate" /\ ~run.stop /\ run'.stop = run.stop
    BY <1>8, BeginChunkEffect DEF BeginChunk, SpentInv
  <2> QED
    BY <2>1 DEF Watched
<1>9. CASE DropDuplicate \/ WriteTrace
  <2>1. /\ pc = "candidate" /\ pc' \in {"candidate", "journal"} /\ SameSettings
        /\ run'.kept = run.kept /\ run'.stop = run.stop /\ run'.attempts = run.attempts
    BY <1>9, DropDuplicateEffect, WriteTraceEffect DEF DropDuplicate, WriteTrace, SameKept, SpentInv
  <2> QED
    BY <2>1 DEF SpentInv, Watched, SameSettings
<1>10. CASE AppendRow
  <2>1. pc' = "candidate"
    BY <1>10 DEF AppendRow
  <2>2. Stopping'
    BY CountedStep DEF SpentInv
  <2> QED
    BY <2>1, <2>2 DEF Stopping, Watched
<1>11. CASE CloseChunk
  <2>1. /\ pc = "candidate" /\ pc' = "refill" /\ run'.kept = run.kept /\ run'.want = run.want
        /\ run'.attempts = run.attempts /\ run'.stop = (run.stop \/ run.attempts >= MaxAttempts)
        /\ run \in Run
    BY <1>11, CloseChunkEffect DEF CloseChunk, SameKept, SameSettings, SpentInv
  <2>2. run.nextEmit + 1 \in Nat /\ run.attempts = Cum(run.nextEmit + 1)
    BY <2>1 DEF SpentInv, Budgeted, Begun, Run
  <2>3. run.attempts \in Nat /\ run.attempts <= MaxAttempts
    BY <2>2, CumStep
  <2>4. CASE run.stop
    BY <2>1, <2>4 DEF SpentInv, Watched
  <2>5. CASE ~run.stop
    <3>1. run'.stop => run.attempts >= MaxAttempts
      BY <2>1, <2>5, Zenon
    <3>2. run'.stop => run.attempts = MaxAttempts
      BY <2>3, <3>1, BudgetAssumption
    <3> QED
      BY <2>1, <3>2 DEF Watched
  <2> QED
    BY <2>4, <2>5
<1>12. CASE \E s \in Seeds, resume \in ResumeFlags :
              Refuse(s, resume) \/ \E n \in TraceCounts : Skip(s, n, resume)
  <2>1. pc' = pc /\ pc = "down"
    BY <1>12 DEF Refuse, Skip, memory
  <2> QED
    BY <1>1, <2>1
<1>13. CASE EndRun \/ Kill
  <2>1. pc' = "down"
    BY <1>13 DEF EndRun, Kill
  <2> QED
    BY <1>1, <2>1
<1> QED
  BY <1>2, <1>3, <1>4, <1>5, <1>6, <1>7, <1>8, <1>9, <1>10, <1>11, <1>12, <1>13
     DEF Next, Command, Parent

LEMMA SpentInvariant == Spec => []SpentInv
<1>1. Init => SpentInv
  <2> SUFFICES ASSUME Init PROVE SpentInv
    OBVIOUS
  <2>1. pc = "down" /\ pending = {} /\ completed = {}
    BY DEF Init, NoMemory
  <2>2. Counted /\ Stopping /\ Numbered /\ Tiled /\ Budgeted /\ Attended /\ Watched
    BY <2>1 DEF Counted, Stopping, Numbered, Tiled, Budgeted, Attended, Watched, InHand
  <2> QED
    BY <2>2, PoolInvInit DEF SpentInv
<1>2. SpentInv /\ [Next]_vars => SpentInv'
  BY PoolInvStep, CountedStep, TiledStep, BudgetedStep, AttendedStep, WatchedStep DEF SpentInv
<1> QED
  BY <1>1, <1>2, PTL DEF Spec

\* A run that ends has its traces or has spent its whole budget: when nothing
\* is pending any more, nothing that was handed out waits unconsumed, and
\* nothing is left to hand out but for workloads that have their share.
THEOREM ShortRunsSpendTheBudget == Spec => ShortOnlyWhenSpent
<1>1. SpentInv /\ EndRun => run.kept >= run.want \/ run.attempts = MaxAttempts
  <2> SUFFICES ASSUME SpentInv, EndRun
               PROVE  run.kept >= run.want \/ run.attempts = MaxAttempts
    OBVIOUS
  <2>1. pc = "wait" /\ (run.stop \/ pending = {}) /\ InHand = {} /\ run \in Run
    BY DEF EndRun, InHand, SpentInv, PoolInv, TypeOK
  <2>2. CASE run.stop
    BY <2>1, <2>2 DEF SpentInv, Watched
  <2>3. CASE ~run.stop
    <3>1. pending = {} /\ Outstanding = completed
      BY <2>1, <2>3 DEF Outstanding
    <3>2. run.nextEmit \in Nat /\ run.sched.issued \in Nat /\ run.sched.scheduled \in Nat
      BY <2>1 DEF Run, Scheduler
    <3>3. run.nextEmit = run.sched.issued
      <4> SUFFICES ASSUME run.nextEmit < run.sched.issued PROVE FALSE
        BY <2>1, <3>2 DEF SpentInv, Numbered
      <4>1. PICK c \in Outstanding : c.sub = run.nextEmit
        BY <2>1, <3>2 DEF SpentInv, Numbered
      <4> QED
        BY <2>1, <2>3, <3>1, <4>1 DEF SpentInv, Watched
    <3>4. Outstanding = {}
      <4> SUFFICES ASSUME NEW c \in Outstanding PROVE FALSE
        OBVIOUS
      <4>1. c.sub \in Nat /\ run.nextEmit <= c.sub /\ c.sub < run.sched.issued
        BY <2>1, OutstandingType DEF SpentInv, Numbered
      <4> QED
        BY <3>2, <3>3, <4>1
    <3>5. CASE run.sched.scheduled >= MaxAttempts
      <4>1. Begun = run.nextEmit
        BY <2>1 DEF Begun
      <4>2. run.attempts = run.sched.scheduled
        BY <2>1, <3>3, <4>1 DEF SpentInv, Budgeted
      <4>3. run.sched.scheduled <= MaxAttempts
        BY <2>1, <3>2, CumStep DEF SpentInv, Budgeted
      <4> QED
        BY <3>2, <3>5, <4>2, <4>3, BudgetAssumption
    <3>6. CASE run.sched.active = << >>
      <4>1. run.want \in Nat
        BY <2>1, TraceCountsAssumption DEF Run
      <4>2. ASSUME NEW w \in Workloads PROVE ResumeAccepted[w] >= Quota(run.want, w)
        <5>1. ~IsActive(run.sched, w)
          BY <3>6 DEF IsActive
        <5>2. run.accepted[w] >= Quota(run.want, w)
          BY <2>1, <5>1 DEF SpentInv, Attended
        <5>3. run.accepted[w] = ResumeAccepted[w] - 0 /\ ResumeAccepted[w] \in Nat
          BY <2>1, ResumeAcceptedType DEF SpentInv, Counted, PoolInv, TypeOK
        <5> QED
          BY <5>2, <5>3
      <4>3. Len(traces) >= run.want
        BY <4>1, <4>2, SharesAddUp DEF SpentInv, PoolInv
      <4>4. run.kept = Len(traces) - 0 /\ Len(traces) \in Nat
        BY <2>1 DEF SpentInv, Counted, PoolInv, TypeOK, StoreTypeOK
      <4> QED
        BY <4>3, <4>4
    <3>7. ~HasChunk(run.sched)
      BY <2>1, <2>3, <3>4 DEF SpentInv, Watched
    <3> QED
      BY <3>2, <3>5, <3>6, <3>7, BudgetAssumption DEF HasChunk
  <2> QED
    BY <2>2, <2>3
<1>2. SpentInv /\ [Next]_vars =>
        [EndRun => run.kept >= run.want \/ run.attempts = MaxAttempts]_vars
  BY <1>1
<1> QED
  BY <1>2, SpentInvariant, PTL DEF Spec, ShortOnlyWhenSpent
=============================================================================
