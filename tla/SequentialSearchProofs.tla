----------------------- MODULE SequentialSearchProofs -----------------------
(***************************************************************************)
(* The search in one process keeps the promises of the pool search, for    *)
(* any number of workloads and commands, any budget, batch size and table  *)
(* of draws: the directory is well formed at every kill, its resume points *)
(* never move back, and it fills as TraceSampling says.                    *)
(***************************************************************************)
EXTENDS SequentialSearch, SearchStoreProofs

\* A running command knows every mapping in the directory, and its resume
\* points are not below those of the state file.
RunAhead ==
  pc # "down" =>
    /\ Pointed(run.sched)
    /\ run.existing <= run.kept
    /\ ResumeSeen \subseteq run.seen
    /\ saved # None => \A w \in Workloads : saved.next[w] <= run.doneUpTo[w]

\* Between trace file and journal row, the last trace is the one in hand and
\* has no row yet.
TraceInHand ==
  pc = "journal" =>
    /\ traces # << >>
    /\ traces[Len(traces)] = [w |-> chunk.w, key |-> Drawn]
    /\ \A i \in DOMAIN journal : journal[i].trace < Len(traces)

\* The attempt considered is one of the chunk in hand, or the one after it.
AtInChunk ==
  /\ pc \in {"sample", "journal"} => at <= ChunkEnd
  /\ pc = "journal" => at < ChunkEnd

SearchInv == TypeOK /\ StoreInv /\ RunAhead /\ TraceInHand /\ AtInChunk

SameSettings == run'.seed = run.seed /\ run'.want = run.want /\ run'.existing = run.existing
SameKept     == run'.kept = run.kept /\ run'.accepted = run.accepted

-----------------------------------------------------------------------------
(* What each step does to the local variables.                             *)

LEMMA RunType ==
  ASSUME TypeOK, pc # "down"
  PROVE  /\ run \in Run /\ run.want \in Nat
         /\ run.sched.next \in [Workloads -> Nat]
         /\ pc \in {"sample", "journal"} =>
              /\ chunk \in Chunk /\ chunk.w \in Workloads /\ at \in Nat
              /\ chunk.start \in Nat /\ chunk.attempted \in Nat /\ ChunkEnd \in Nat
<1>1. run \in Run
  BY DEF TypeOK
<1>2. run.want \in Nat /\ run.sched.next \in [Workloads -> Nat]
  BY <1>1, TraceCountsAssumption DEF Run, Scheduler
<1>3. ASSUME pc \in {"sample", "journal"}
      PROVE  /\ chunk \in Chunk /\ chunk.w \in Workloads /\ at \in Nat
             /\ chunk.start \in Nat /\ chunk.attempted \in Nat /\ ChunkEnd \in Nat
  BY <1>3 DEF TypeOK, Chunk, ChunkEnd
<1> QED
  BY <1>1, <1>2, <1>3

LEMMA StartEffect ==
  ASSUME SearchInv, NEW s \in Seeds, NEW n \in TraceCounts, NEW resume \in ResumeFlags,
         Start(s, n, resume)
  PROVE  /\ pc = "down" /\ pc' = "pick" /\ Len(traces) < n
         /\ UNCHANGED << stream, disk, exit, chunk, at >>
         /\ run' \in Run /\ Pointed(run'.sched)
         /\ run'.seed = s /\ run'.want = n /\ run'.existing = Len(traces)
         /\ run'.kept = Len(traces) /\ run'.accepted = ResumeAccepted /\ run'.seen = ResumeSeen
         /\ run'.sched.next = ResumeNext /\ run'.doneUpTo = ResumeNext
<1>1. StoreTypeOK /\ JournalBounded /\ Len(traces) \in Nat
  BY DEF SearchInv, StoreInv, StoreTypeOK
<1>2. ResumeNext \in [Workloads -> Nat] /\ ResumeAccepted \in [Workloads -> Nat]
  BY <1>1, ResumeNextType, ResumeAcceptedType
<1>3. ResumeSeen \subseteq Workloads \X Keys
  <2>1. \A i \in DOMAIN traces : traces[i] \in Trace
    BY <1>1, ElementOfSeq DEF StoreTypeOK
  <2> QED
    BY <2>1 DEF ResumeSeen, Trace
<1> DEFINE sched == NewScheduler(Smaller(n, NumWorkloads), ResumeNext)
<1>4. Pointed(sched) /\ sched \in Scheduler /\ sched.next = ResumeNext
  <2>1. Smaller(n, NumWorkloads) \in Workloads
    BY TraceCountsAssumption, NumWorkloadsAssumption DEF Smaller, Workloads
  <2>2. Pointed(sched)
    BY <1>2, <2>1, NewSchedulerPointed
  <2> QED
    BY <2>2 DEF Pointed, NewScheduler
<1>5. run' = NewRun(s, n)
  BY DEF Start
<1> HIDE DEF sched
<1>6. /\ run' \in Run /\ run'.sched = sched
      /\ run'.seed = s /\ run'.want = n /\ run'.existing = Len(traces)
      /\ run'.kept = Len(traces) /\ run'.accepted = ResumeAccepted /\ run'.seen = ResumeSeen
      /\ run'.doneUpTo = ResumeNext
  BY <1>1, <1>2, <1>3, <1>4, <1>5 DEF NewRun, Run, sched
<1> QED
  BY <1>4, <1>6 DEF Start, SearchNeeded

\* Both ways of drawing a chunk.
LEMMA DrawEffect ==
  ASSUME SearchInv, DiscardChunk \/ TakeChunk
  PROVE  LET c == NextChunk(run.sched)
         IN  /\ UNCHANGED << stream, disk, exit, runs >>
             /\ pc = "pick" /\ c \in Chunk /\ c.start = run.sched.next[c.w]
             /\ run' \in Run /\ Pointed(run'.sched)
             /\ \A w \in Workloads :
                  run'.sched.next[w] =
                    run.sched.next[w] + (IF w = c.w THEN c.attempted ELSE 0)
             /\ SameSettings /\ SameKept
             /\ run'.seen = run.seen /\ run'.doneUpTo = run.doneUpTo
<1> DEFINE c == NextChunk(run.sched)
           sched == IF DiscardChunk THEN MarkComplete(AfterNextChunk(run.sched), c.w)
                    ELSE AfterNextChunk(run.sched)
<1>1. pc = "pick" /\ HasChunk(run.sched) /\ UNCHANGED << stream, disk, exit, runs >>
  BY DEF DiscardChunk, TakeChunk
<1>2. run \in Run /\ Pointed(run.sched)
  BY <1>1 DEF SearchInv, TypeOK, RunAhead
<1>3. c \in Chunk /\ c.start = run.sched.next[c.w]
  BY <1>1, <1>2, NextChunkType DEF NextChunk
<1>4. /\ Pointed(sched) /\ sched \in Scheduler
      /\ \A w \in Workloads :
           sched.next[w] = run.sched.next[w] + (IF w = c.w THEN c.attempted ELSE 0)
  <2>1. /\ Pointed(AfterNextChunk(run.sched))
        /\ \A w \in Workloads :
             AfterNextChunk(run.sched).next[w] =
               run.sched.next[w] + (IF w = c.w THEN c.attempted ELSE 0)
    BY <1>1, <1>2, AfterNextChunkPointed
  <2>2. Pointed(sched) /\ sched.next = AfterNextChunk(run.sched).next
    BY <2>1, MarkCompletePointed
  <2> QED
    BY <2>1, <2>2 DEF Pointed
<1>5. run' = [run EXCEPT !.sched = sched]
  <2>1. CASE DiscardChunk
    BY <2>1 DEF DiscardChunk
  <2>2. CASE ~DiscardChunk
    BY <2>2 DEF TakeChunk
  <2> QED
    BY <2>1, <2>2
<1> HIDE DEF sched
<1>6. /\ run' \in Run /\ run'.sched = sched /\ SameSettings /\ SameKept
      /\ run'.seen = run.seen /\ run'.doneUpTo = run.doneUpTo
  BY <1>2, <1>4, <1>5 DEF Run, SameSettings, SameKept
<1> QED
  BY <1>1, <1>3, <1>4, <1>6

LEMMA PassOverEffect ==
  ASSUME SearchInv, PassOver
  PROVE  /\ UNCHANGED << stream, disk, exit, runs, pc, chunk >>
         /\ pc = "sample" /\ at < ChunkEnd /\ at' = at + 1
         /\ run' \in Run /\ Pointed(run'.sched) /\ run'.sched.next = run.sched.next
         /\ SameSettings /\ SameKept /\ run'.doneUpTo = run.doneUpTo
         /\ run.seen \subseteq run'.seen
         /\ \/ Drawn = NoSample /\ run'.seen = run.seen
            \/ Drawn # NoSample /\ Found \in run.seen /\ run'.seen = run.seen
            \/ Drawn \notin LegalKeys /\ run'.seen = run.seen \cup {Found}
            \/ AtTarget(chunk.w) /\ run'.seen = run.seen \cup {Found}
<1>1. /\ UNCHANGED << stream, disk, exit, runs, pc, chunk >>
      /\ pc = "sample" /\ at < ChunkEnd /\ at' = at + 1
  BY DEF PassOver
<1>2. run \in Run /\ Pointed(run.sched) /\ chunk.w \in Workloads
  BY <1>1, RunType DEF SearchInv, RunAhead
<1> DEFINE attempts == run.attempts + 1
           duplicates == run.duplicates + 1
           seen == run.seen \cup {Found}
           sched == MarkComplete(run.sched, chunk.w)
<1>3. attempts \in Nat /\ duplicates \in Nat
  BY <1>2 DEF Run
<1>4. Drawn \in Keys => seen \subseteq Workloads \X Keys
  BY <1>2 DEF Run, Found
<1>5. Pointed(sched) /\ sched \in Scheduler /\ sched.next = run.sched.next
  <2>1. Pointed(sched) /\ sched.next = run.sched.next
    BY <1>2, MarkCompletePointed
  <2> QED
    BY <2>1 DEF Pointed
<1>6. \/ Drawn = NoSample /\ run' = [run EXCEPT !.attempts = attempts]
      \/ /\ Drawn # NoSample /\ Found \in run.seen
         /\ run' = [run EXCEPT !.attempts = attempts, !.duplicates = duplicates]
      \/ /\ Drawn \in Keys \ LegalKeys
         /\ run' = [run EXCEPT !.attempts = attempts, !.seen = seen]
      \/ /\ Drawn \in LegalKeys /\ AtTarget(chunk.w)
         /\ run' = [run EXCEPT !.attempts = attempts, !.seen = seen, !.sched = sched]
  BY DEF PassOver
<1> HIDE DEF attempts, duplicates, seen, sched
<1>7. CASE Drawn = NoSample /\ run' = [run EXCEPT !.attempts = attempts]
  BY <1>1, <1>2, <1>3, <1>7 DEF Run, SameSettings, SameKept
<1>8. CASE /\ Drawn # NoSample /\ Found \in run.seen
           /\ run' = [run EXCEPT !.attempts = attempts, !.duplicates = duplicates]
  BY <1>1, <1>2, <1>3, <1>8 DEF Run, SameSettings, SameKept
<1>9. CASE /\ Drawn \in Keys \ LegalKeys
           /\ run' = [run EXCEPT !.attempts = attempts, !.seen = seen]
  <2>1. /\ run' \in Run /\ run'.sched = run.sched /\ run'.seen = seen
        /\ SameSettings /\ SameKept /\ run'.doneUpTo = run.doneUpTo
    BY <1>2, <1>3, <1>4, <1>9 DEF Run, SameSettings, SameKept
  <2> QED
    BY <1>1, <1>2, <1>9, <2>1 DEF seen
<1>10. CASE /\ Drawn \in LegalKeys /\ AtTarget(chunk.w)
            /\ run' = [run EXCEPT !.attempts = attempts, !.seen = seen, !.sched = sched]
  <2>1. /\ run' \in Run /\ run'.sched = sched /\ run'.seen = seen
        /\ SameSettings /\ SameKept /\ run'.doneUpTo = run.doneUpTo
    BY <1>2, <1>3, <1>4, <1>5, <1>10, KeysAssumption DEF Run, SameSettings, SameKept
  <2> QED
    BY <1>1, <1>5, <1>10, <2>1 DEF seen
<1> QED
  BY <1>6, <1>7, <1>8, <1>9, <1>10

LEMMA WriteTraceEffect ==
  ASSUME SearchInv, WriteTrace
  PROVE  LET t == [w |-> chunk.w, key |-> Drawn]
         IN  /\ UNCHANGED << stream, journal, torn, saved, exit, runs, chunk, at >>
             /\ pc = "sample" /\ pc' = "journal" /\ at < ChunkEnd
             /\ Searching /\ ~AtTarget(chunk.w)
             /\ t \in Trace /\ traces' = Append(traces, t)
             /\ Drawn \in LegalKeys /\ Found = << t.w, t.key >> /\ Found \notin run.seen
             /\ run' \in Run /\ run'.sched = run.sched /\ SameSettings /\ SameKept
             /\ run'.doneUpTo = run.doneUpTo
             /\ run'.seen = run.seen \cup {Found}
<1>1. /\ UNCHANGED << stream, journal, torn, saved, exit, runs, chunk, at >>
      /\ pc = "sample" /\ pc' = "journal" /\ at < ChunkEnd
      /\ Searching /\ ~AtTarget(chunk.w)
      /\ Drawn \in LegalKeys /\ Found \notin run.seen
      /\ traces' = Append(traces, [w |-> chunk.w, key |-> Drawn])
  BY DEF WriteTrace
<1>2. run \in Run /\ chunk.w \in Workloads
  BY <1>1, RunType DEF SearchInv
<1>3. [w |-> chunk.w, key |-> Drawn] \in Trace /\ Found \in Workloads \X Keys
  BY <1>1, <1>2, KeysAssumption DEF Trace, Found
<1> DEFINE attempts == run.attempts + 1
           seen == run.seen \cup {Found}
<1>4. attempts \in Nat /\ seen \subseteq Workloads \X Keys
  BY <1>2, <1>3 DEF Run
<1>5. run' = [run EXCEPT !.attempts = attempts, !.seen = seen]
  BY DEF WriteTrace
<1> HIDE DEF attempts, seen
<1>6. /\ run' \in Run /\ run'.sched = run.sched /\ SameSettings /\ SameKept
      /\ run'.doneUpTo = run.doneUpTo /\ run'.seen = seen
  BY <1>2, <1>4, <1>5 DEF Run, SameSettings, SameKept
<1> QED
  BY <1>1, <1>3, <1>6 DEF seen, Found

LEMMA AppendRowEffect ==
  ASSUME SearchInv, AppendRow
  PROVE  LET count == run.accepted[chunk.w] + 1
         IN  /\ UNCHANGED << stream, traces, torn, saved, exit, runs, chunk >>
             /\ pc = "journal" /\ pc' = "sample" /\ at' = at + 1
             /\ journal' = Append(journal, [w |-> chunk.w, attempt |-> at, trace |-> Len(traces)])
             /\ run' \in Run /\ Pointed(run'.sched) /\ run'.sched.next = run.sched.next
             /\ run'.accepted = [run.accepted EXCEPT ![chunk.w] = count]
             /\ run'.kept = run.kept + 1
             /\ SameSettings /\ run'.seen = run.seen /\ run'.doneUpTo = run.doneUpTo
<1> DEFINE count == run.accepted[chunk.w] + 1
           accepted == [run.accepted EXCEPT ![chunk.w] = count]
           kept == run.kept + 1
           sched == IF count >= Quota(run.want, chunk.w)
                    THEN MarkComplete(run.sched, chunk.w) ELSE run.sched
<1>1. /\ UNCHANGED << stream, traces, torn, saved, exit, runs, chunk >>
      /\ pc = "journal" /\ pc' = "sample" /\ at' = at + 1
      /\ journal' = Append(journal, [w |-> chunk.w, attempt |-> at, trace |-> Len(traces)])
  BY DEF AppendRow
<1>2. run \in Run /\ Pointed(run.sched) /\ chunk.w \in Workloads
  BY <1>1, RunType DEF SearchInv, RunAhead
<1>3. accepted \in [Workloads -> Nat] /\ kept \in Nat
  BY <1>2 DEF Run
<1>4. Pointed(sched) /\ sched \in Scheduler /\ sched.next = run.sched.next
  <2>1. Pointed(sched) /\ sched.next = run.sched.next
    BY <1>2, MarkCompletePointed
  <2> QED
    BY <2>1 DEF Pointed
<1>5. run' = [run EXCEPT !.accepted = accepted, !.kept = kept, !.sched = sched]
  BY <1>2 DEF AppendRow, Run
<1> HIDE DEF accepted, kept, sched
<1>6. /\ run' \in Run /\ run'.sched = sched /\ run'.accepted = accepted /\ run'.kept = kept
      /\ SameSettings /\ run'.seen = run.seen /\ run'.doneUpTo = run.doneUpTo
  BY <1>2, <1>3, <1>4, <1>5 DEF Run, SameSettings
<1> QED
  BY <1>1, <1>4, <1>6 DEF accepted, kept

LEMMA CloseChunkEffect ==
  ASSUME SearchInv, CloseChunk
  PROVE  LET upTo == IF run.doneUpTo[chunk.w] >= ChunkEnd THEN run.doneUpTo[chunk.w]
                     ELSE ChunkEnd
         IN  /\ UNCHANGED << stream, traces, journal, torn, exit, runs >>
             /\ pc = "sample" /\ pc' = "pick" /\ chunk' = None /\ at' = 0
             /\ ~Searching \/ at = ChunkEnd
             /\ run' \in Run /\ run'.sched = run.sched /\ SameSettings /\ SameKept
             /\ run'.seen = run.seen
             /\ run'.doneUpTo = [run.doneUpTo EXCEPT ![chunk.w] = upTo]
             /\ \A w \in Workloads : run.doneUpTo[w] <= run'.doneUpTo[w]
             /\ saved' \in State /\ saved'.next = run'.doneUpTo
<1> DEFINE upTo == IF run.doneUpTo[chunk.w] >= ChunkEnd THEN run.doneUpTo[chunk.w] ELSE ChunkEnd
           doneUpTo == [run.doneUpTo EXCEPT ![chunk.w] = upTo]
           accepted == run.kept - run.existing
<1>1. /\ UNCHANGED << stream, traces, journal, torn, exit, runs >>
      /\ pc = "sample" /\ pc' = "pick" /\ chunk' = None /\ at' = 0
      /\ ~Searching \/ at = ChunkEnd
  BY DEF CloseChunk
<1>2. run \in Run /\ chunk.w \in Workloads /\ ChunkEnd \in Nat /\ run.existing <= run.kept
  BY <1>1, RunType DEF SearchInv, RunAhead
<1>3. upTo \in Nat /\ run.doneUpTo[chunk.w] <= upTo /\ accepted \in Nat
  BY <1>2 DEF Run
<1>4. run' = [run EXCEPT !.doneUpTo = doneUpTo]
  BY <1>2 DEF CloseChunk, Run
<1>5. saved' = [seed |-> run.seed, next |-> doneUpTo, attempts |-> run.attempts,
                accepted |-> accepted, duplicates |-> run.duplicates]
  BY <1>2 DEF CloseChunk, Run
<1> HIDE DEF upTo, accepted
<1>6. doneUpTo \in [Workloads -> Nat] /\ \A w \in Workloads : run.doneUpTo[w] <= doneUpTo[w]
  BY <1>2, <1>3 DEF Run
<1> HIDE DEF doneUpTo
<1>7. /\ run' \in Run /\ run'.sched = run.sched /\ SameSettings /\ SameKept
      /\ run'.seen = run.seen /\ run'.doneUpTo = doneUpTo
  BY <1>2, <1>4, <1>6 DEF Run, SameSettings, SameKept
<1>8. saved' \in State /\ saved'.next = doneUpTo
  BY <1>2, <1>3, <1>5, <1>6 DEF State, Run
<1> QED
  BY <1>1, <1>6, <1>7, <1>8 DEF doneUpTo, upTo

-----------------------------------------------------------------------------
(* Every step keeps the invariant and moves no resume point back.          *)

LEMMA SearchInvInit == Init => SearchInv
<1> SUFFICES ASSUME Init PROVE SearchInv
  OBVIOUS
<1>1. << >> \in Seq(Trace) /\ << >> \in Seq(Row)
  OBVIOUS
<1>2. StoreTypeOK
  BY <1>1 DEF Init, StoreInit, StoreTypeOK
<1>3. TypeOK
  BY <1>2 DEF Init, TypeOK
<1>4. StoreInv
  BY <1>2, EmptySeq DEF Init, StoreInit, StoreInv, JournalBounded, TracesDistinct,
                        JournalConsistent
<1> QED
  BY <1>3, <1>4 DEF Init, RunAhead, TraceInHand, AtInChunk, SearchInv

LEMMA IdleInv ==
  ASSUME SearchInv, NEW s \in Seeds, NEW resume \in ResumeFlags,
         Refuse(s, resume) \/ \E n \in TraceCounts : Skip(s, n, resume)
  PROVE  SearchInv' /\ Forward
<1>1. StoreInv /\ StoreTypeOK /\ JournalBounded
  BY DEF SearchInv, StoreInv
<1>2. CASE Refuse(s, resume)
  <2>1. TypeOK' /\ pc' = "down" /\ UNCHANGED << stream, traces, journal, saved >>
    BY <1>2 DEF SearchInv, TypeOK, StoreTypeOK, Refuse, RefuseDirectory, memory, disk
  <2>2. StoreInv' /\ Forward
    BY <1>1, <2>1, StoreKept DEF TypeOK
  <2> QED
    BY <2>1, <2>2 DEF SearchInv, RunAhead, TraceInHand, AtInChunk
<1>3. CASE \E n \in TraceCounts : Skip(s, n, resume)
  <2>1. /\ pc = "down" /\ UNCHANGED memory /\ UNCHANGED << stream, traces, journal, torn >>
        /\ saved' = [seed |-> s, next |-> ResumeNext,
                     attempts |-> 0, accepted |-> 0, duplicates |-> 0]
        /\ exit' = "skipped" /\ runs' = runs + 1
    BY <1>3 DEF Skip, SkipDirectory
  <2>2. saved' \in State /\ saved'.next = ResumeNext
    BY <1>1, <2>1, ResumeNextType DEF State
  <2>3. StoreTypeOK' /\ TypeOK'
    BY <2>1, <2>2 DEF SearchInv, TypeOK, StoreTypeOK, memory
  <2>4. saved # None => \A w \in Workloads : saved.next[w] <= saved'.next[w]
    BY <1>1, <2>2, ResumeNextLargest DEF KnownOf
  <2>5. StoreInv' /\ Forward
    BY <1>1, <2>1, <2>2, <2>3, <2>4, NoneAssumption, StateWritten
  <2> QED
    BY <2>1, <2>3, <2>5 DEF SearchInv, RunAhead, TraceInHand, AtInChunk, memory
<1> QED
  BY <1>2, <1>3

LEMMA StartInv ==
  ASSUME SearchInv, NEW s \in Seeds, NEW n \in TraceCounts, NEW resume \in ResumeFlags,
         Start(s, n, resume)
  PROVE  SearchInv' /\ Forward
<1>1. StoreInv /\ StoreTypeOK /\ JournalBounded /\ Len(traces) \in Nat
  BY DEF SearchInv, StoreInv, StoreTypeOK
<1>2. runs' = runs + 1 /\ UNCHANGED << stream, traces, journal, torn, saved, exit, chunk, at >>
      /\ pc = "down" /\ pc' = "pick" /\ run' \in Run
  BY StartEffect DEF Start, disk
<1>3. StoreTypeOK' /\ TypeOK'
  BY <1>2 DEF SearchInv, TypeOK, StoreTypeOK
<1>4. StoreInv' /\ Forward /\ ResumeSeen' = ResumeSeen
  BY <1>1, <1>2, <1>3, StoreKept
<1>5. saved # None => \A w \in Workloads : saved.next[w] <= ResumeNext[w]
  BY <1>1, ResumeNextLargest DEF KnownOf
<1>6. RunAhead'
  BY <1>1, <1>2, <1>4, <1>5, StartEffect DEF RunAhead
<1> QED
  BY <1>2, <1>3, <1>4, <1>6 DEF SearchInv, TraceInHand, AtInChunk

LEMMA DrawInv ==
  ASSUME SearchInv, DiscardChunk \/ TakeChunk PROVE SearchInv' /\ Forward
<1> DEFINE c == NextChunk(run.sched)
<1>1. /\ UNCHANGED << stream, traces, journal, torn, saved, exit, runs >>
      /\ pc = "pick" /\ c \in Chunk /\ run \in Run /\ run' \in Run
      /\ pc' \in {"pick", "sample"}
      /\ chunk' = IF pc' = "sample" THEN c ELSE chunk
      /\ at' = IF pc' = "sample" THEN c.start ELSE at
  BY DrawEffect, RunType DEF DiscardChunk, TakeChunk, disk, SearchInv
<1> HIDE DEF c
<1>2. StoreTypeOK' /\ TypeOK'
  BY <1>1 DEF SearchInv, TypeOK, StoreTypeOK, Chunk
<1>3. StoreInv' /\ Forward /\ ResumeSeen' = ResumeSeen
  BY <1>1, <1>2, StoreKept DEF SearchInv
<1>4. RunAhead'
  BY <1>1, <1>3, DrawEffect DEF SearchInv, RunAhead, SameSettings, SameKept
<1>5. AtInChunk'
  BY <1>1 DEF AtInChunk, ChunkEnd, Chunk
<1> QED
  BY <1>1, <1>2, <1>3, <1>4, <1>5 DEF SearchInv, TraceInHand

LEMMA PassOverInv ==
  ASSUME SearchInv, PassOver PROVE SearchInv' /\ Forward
<1>1. /\ UNCHANGED << stream, traces, journal, torn, saved, exit, runs, pc, chunk >>
      /\ pc = "sample" /\ at < ChunkEnd /\ at' = at + 1 /\ run' \in Run
      /\ at \in Nat /\ ChunkEnd \in Nat
  BY PassOverEffect, RunType DEF disk, SearchInv
<1>2. StoreTypeOK' /\ TypeOK'
  BY <1>1 DEF SearchInv, TypeOK, StoreTypeOK
<1>3. StoreInv' /\ Forward /\ ResumeSeen' = ResumeSeen
  BY <1>1, <1>2, StoreKept DEF SearchInv
<1>4. RunAhead'
  BY <1>1, <1>3, PassOverEffect DEF SearchInv, RunAhead, SameSettings, SameKept
<1>5. AtInChunk'
  BY <1>1 DEF AtInChunk, ChunkEnd
<1> QED
  BY <1>1, <1>2, <1>3, <1>4, <1>5 DEF SearchInv, TraceInHand

LEMMA WriteTraceInv ==
  ASSUME SearchInv, WriteTrace PROVE SearchInv' /\ Forward
<1> DEFINE t == [w |-> chunk.w, key |-> Drawn]
<1>1. /\ UNCHANGED << stream, journal, torn, saved, exit, runs, chunk, at >>
      /\ pc = "sample" /\ pc' = "journal" /\ at < ChunkEnd
      /\ t \in Trace /\ traces' = Append(traces, t)
      /\ Found = << t.w, t.key >> /\ Found \notin run.seen
      /\ run' \in Run /\ run'.seen = run.seen \cup {Found}
      /\ run'.seed = run.seed
  BY WriteTraceEffect DEF SameSettings
<1>2. ResumeSeen \subseteq run.seen /\ StoreInv
  BY <1>1 DEF SearchInv, RunAhead
<1>3. t.w = chunk.w /\ t.key = Drawn
  OBVIOUS
<1>4. t = [w |-> chunk.w, key |-> Drawn]
  OBVIOUS
<1> HIDE DEF t
<1>5. /\ StoreInv' /\ Forward
      /\ ResumeSeen' = ResumeSeen \cup {Found}
      /\ Len(traces') = Len(traces) + 1 /\ traces'[Len(traces')] = t
      /\ \A i \in DOMAIN journal' : journal'[i].trace < Len(traces')
  BY <1>1, <1>2, TraceWritten
<1>6. TypeOK'
  BY <1>1, <1>5 DEF SearchInv, TypeOK, StoreInv
<1>7. RunAhead'
  BY <1>1, <1>2, <1>5, WriteTraceEffect DEF SearchInv, RunAhead, SameSettings, SameKept
<1>8. TraceInHand'
  <2>1. traces' # << >>
    BY <1>2, <1>5, EmptySeq DEF StoreInv, StoreTypeOK
  <2>2. Drawn' = Drawn /\ chunk' = chunk
    BY <1>1 DEF Drawn, Draw
  <2> QED
    BY <1>4, <1>5, <2>1, <2>2 DEF TraceInHand
<1>9. AtInChunk'
  BY <1>1, RunType DEF AtInChunk, ChunkEnd, SearchInv
<1> QED
  BY <1>5, <1>6, <1>7, <1>8, <1>9 DEF SearchInv

LEMMA AppendRowInv ==
  ASSUME SearchInv, AppendRow PROVE SearchInv' /\ Forward
<1> DEFINE row == [w |-> chunk.w, attempt |-> at, trace |-> Len(traces)]
<1>1. /\ UNCHANGED << stream, traces, torn, saved, exit, runs, chunk >>
      /\ pc = "journal" /\ pc' = "sample" /\ at' = at + 1
      /\ journal' = Append(journal, row)
      /\ run' \in Run /\ run \in Run /\ run'.kept = run.kept + 1
      /\ chunk \in Chunk /\ chunk.w \in Workloads /\ at \in Nat /\ ChunkEnd \in Nat
      /\ Len(traces) \in Nat
  BY AppendRowEffect, RunType DEF SearchInv, TypeOK, StoreTypeOK
<1>2. /\ traces # << >> /\ traces \in Seq(Trace) /\ Len(traces) # 0
      /\ traces[Len(traces)] = [w |-> chunk.w, key |-> Draw(run.seed, chunk.w, at)]
      /\ \A i \in DOMAIN journal : journal[i].trace < Len(traces)
  BY <1>1, EmptySeq DEF SearchInv, TraceInHand, TypeOK, StoreTypeOK, Drawn
<1>3. row \in Row
  BY <1>1, <1>2 DEF Row
<1>4. \E s \in Seeds : traces[Len(traces)].key = Draw(s, row.w, row.attempt)
  BY <1>1, <1>2 DEF Run
<1>5. traces[Len(traces)].w = row.w /\ row.trace = Len(traces)
  BY <1>2
<1> HIDE DEF row
<1>6. StoreInv' /\ Forward /\ ResumeSeen' = ResumeSeen
  BY <1>1, <1>2, <1>3, <1>4, <1>5, RowWritten DEF SearchInv
<1>7. TypeOK'
  BY <1>1, <1>6 DEF SearchInv, TypeOK, StoreInv
<1>8. RunAhead'
  <2>1. run.existing <= run.kept /\ run.existing \in Nat /\ run.kept \in Nat
        /\ run'.existing = run.existing
    BY <1>1, AppendRowEffect DEF SearchInv, RunAhead, SameSettings, Run
  <2>2. run'.existing <= run'.kept
    BY <1>1, <2>1
  <2> QED
    BY <1>1, <1>6, <2>2, AppendRowEffect DEF SearchInv, RunAhead
<1>9. AtInChunk'
  BY <1>1 DEF SearchInv, AtInChunk, ChunkEnd
<1> QED
  BY <1>1, <1>6, <1>7, <1>8, <1>9 DEF SearchInv, TraceInHand

LEMMA CloseChunkInv ==
  ASSUME SearchInv, CloseChunk PROVE SearchInv' /\ Forward
<1>1. /\ UNCHANGED << stream, traces, journal, torn, exit, runs >>
      /\ pc = "sample" /\ pc' = "pick" /\ chunk' = None /\ at' = 0
      /\ run' \in Run /\ run \in Run
      /\ saved' \in State /\ saved'.next = run'.doneUpTo
      /\ \A w \in Workloads : run.doneUpTo[w] <= run'.doneUpTo[w]
  BY CloseChunkEffect, RunType DEF SearchInv
<1>2. StoreTypeOK' /\ TypeOK'
  BY <1>1 DEF SearchInv, TypeOK, StoreTypeOK
<1>3. saved # None => \A w \in Workloads : saved.next[w] <= saved'.next[w]
  <2> SUFFICES ASSUME saved # None, NEW w \in Workloads PROVE saved.next[w] <= run'.doneUpTo[w]
    BY <1>1
  <2>1. saved.next[w] <= run.doneUpTo[w] /\ saved.next[w] \in Nat
    BY <1>1 DEF SearchInv, TypeOK, StoreTypeOK, State, RunAhead
  <2> QED
    BY <1>1, <2>1 DEF Run
<1>4. StoreInv' /\ Forward /\ ResumeSeen' = ResumeSeen
  BY <1>1, <1>2, <1>3, NoneAssumption, StateWritten DEF SearchInv
<1>5. \A w \in Workloads : saved'.next[w] <= run'.doneUpTo[w]
  BY <1>1 DEF Run
<1>6. RunAhead'
  BY <1>1, <1>4, <1>5, CloseChunkEffect DEF SearchInv, RunAhead, SameSettings, SameKept
<1> QED
  BY <1>1, <1>2, <1>4, <1>6 DEF SearchInv, TraceInHand, AtInChunk

LEMMA EndInv ==
  ASSUME SearchInv, EndRun \/ Kill PROVE SearchInv' /\ Forward
<1>1. /\ UNCHANGED << stream, traces, journal, saved, runs >>
      /\ pc' = "down" /\ run' = None /\ chunk' = None /\ at' = 0
      /\ torn' \in BOOLEAN /\ exit' \in {"ok", "killed"}
  BY DEF EndRun, Kill, disk, SearchInv, TypeOK, StoreTypeOK
<1>2. StoreTypeOK' /\ TypeOK'
  BY <1>1 DEF SearchInv, TypeOK, StoreTypeOK
<1>3. StoreInv' /\ Forward
  BY <1>1, <1>2, StoreKept DEF SearchInv
<1> QED
  BY <1>1, <1>2, <1>3 DEF SearchInv, RunAhead, TraceInHand, AtInChunk

LEMMA SearchInvStep == SearchInv /\ [Next]_vars => SearchInv' /\ Forward
<1> SUFFICES ASSUME SearchInv, [Next]_vars PROVE SearchInv' /\ Forward
  OBVIOUS
<1>1. CASE Command
  BY <1>1, IdleInv, StartInv DEF Command
<1>2. CASE Process \/ Kill
  BY <1>2, DrawInv, PassOverInv, WriteTraceInv, AppendRowInv, CloseChunkInv, EndInv DEF Process
<1>3. CASE UNCHANGED vars
  <2>1. TypeOK' /\ StoreTypeOK'
    BY <1>3 DEF SearchInv, TypeOK, StoreTypeOK, vars, disk, memory
  <2>2. StoreInv' /\ Forward /\ ResumeSeen' = ResumeSeen
    BY <1>3, <2>1, StoreKept DEF SearchInv, vars, disk
  <2> QED
    BY <1>3, <2>1, <2>2
       DEF SearchInv, RunAhead, TraceInHand, AtInChunk, ChunkEnd, Drawn, Draw, vars, disk, memory
<1> QED
  BY <1>1, <1>2, <1>3 DEF Next

LEMMA SearchInvariant == Spec => []SearchInv
<1>1. SearchInv /\ [Next]_vars => SearchInv'
  BY SearchInvStep
<1> QED
  BY <1>1, SearchInvInit, PTL DEF Spec

\* Whatever is killed and restarted, files and process stay well formed, no
\* mapping is written twice for a workload, and every row of accepted.jsonl
\* names a trace file that was there before it and the attempt that drew it.
THEOREM SequentialDirectorySound ==
  Spec => [](TypeOK /\ TracesDistinct /\ JournalConsistent)
<1>1. SearchInv => TypeOK /\ TracesDistinct /\ JournalConsistent
  BY DEF SearchInv, StoreInv
<1> QED
  BY <1>1, SearchInvariant, PTL

\* The resume point of a workload never moves back in the one-process search
\* either, although it leaves a chunk with the last trace it needs.
THEOREM SequentialResumeForward == Spec => ResumeNeverMovesBack
<1>1. SearchInv /\ [Next]_vars => [\A w \in Workloads : ResumeNext'[w] >= ResumeNext[w]]_disk
  BY SearchInvStep DEF Forward
<1> QED
  BY <1>1, SearchInvariant, PTL DEF Spec, ResumeNeverMovesBack

-----------------------------------------------------------------------------
(* Under one seed and one num_traces.  The command counts what is in the   *)
(* directory; a legal mapping it knows and the directory has not was drawn *)
(* for a workload that has its share; and nothing legal is left behind at  *)
(* the point a workload has been considered up to.                         *)

Counted ==
  pc # "down" =>
    /\ run.kept = Len(traces) - (IF pc = "journal" THEN 1 ELSE 0)
    /\ \A w \in Workloads :
         /\ run.accepted[w] = ResumeAccepted[w] - (IF pc = "journal" /\ chunk.w = w THEN 1 ELSE 0)
         /\ \A k \in LegalKeys : << w, k >> \in run.seen => << w, k >> \in ResumeSeen \/ AtTarget(w)

Considered(w) ==
  IF pc \in {"sample", "journal"} /\ chunk.w = w
  THEN IF pc = "journal" THEN at + 1 ELSE at
  ELSE run.sched.next[w]

Consumed ==
  pc # "down" =>
    /\ \A w \in Workloads : Covered(w, run.doneUpTo[w]) /\ Covered(w, Considered(w))
    /\ pc \in {"sample", "journal"} => run.sched.next[chunk.w] = ChunkEnd
    /\ pc = "journal" => KeptBelow(chunk.w, at + 1)

SamplingInv == SearchInv /\ Counted /\ SampledInv /\ Consumed

LEMMA RunSetting ==
  ASSUME SearchInv, OneSetting, pc # "down"
  PROVE  run \in Run /\ run.seed = TheSeed /\ run.want = TheCount /\ TheCount \in Nat
BY TraceCountsAssumption DEF SearchInv, TypeOK, OneSetting, Run

\* Steps that write neither a trace file nor a row.
LEMMA CountedKept ==
  ASSUME SearchInv, Counted, UNCHANGED traces, pc \notin {"down", "journal"},
         pc' # "journal", SameSettings, SameKept,
         \A w \in Workloads, k \in LegalKeys :
           << w, k >> \in run'.seen => << w, k >> \in run.seen \/ AtTarget(w)
  PROVE  Counted'
<1>1. ResumeSeen' = ResumeSeen /\ ResumeAccepted' = ResumeAccepted
  BY DEF ResumeSeen, ResumeAccepted
<1>2. \A w \in Workloads : AtTarget(w)' = AtTarget(w)
  BY DEF AtTarget, Quota, SameKept, SameSettings
<1> QED
  BY <1>1, <1>2 DEF Counted, SameKept, SameSettings

LEMMA CountedStart ==
  ASSUME SearchInv, NEW s \in Seeds, NEW n \in TraceCounts, NEW resume \in ResumeFlags,
         Start(s, n, resume)
  PROVE  Counted'
<1>1. UNCHANGED traces /\ pc' = "pick"
  BY DEF Start, disk
<1>2. ResumeSeen' = ResumeSeen /\ ResumeAccepted' = ResumeAccepted
  BY <1>1 DEF ResumeSeen, ResumeAccepted
<1>3. ResumeAccepted \in [Workloads -> Nat] /\ Len(traces) \in Nat
  BY ResumeAcceptedType DEF SearchInv, TypeOK, StoreTypeOK
<1>4. run'.seen = ResumeSeen /\ run'.kept = Len(traces) /\ run'.accepted = ResumeAccepted
  BY StartEffect
<1>5. \A w \in Workloads : run'.accepted[w] = ResumeAccepted'[w] - 0
  BY <1>2, <1>3, <1>4
<1> QED
  BY <1>1, <1>2, <1>3, <1>4, <1>5 DEF Counted

LEMMA CountedPassOver ==
  ASSUME SearchInv, Counted, PassOver PROVE Counted'
<1>1. /\ UNCHANGED traces /\ pc = "sample" /\ pc' = "sample" /\ SameSettings /\ SameKept
      /\ \/ run'.seen = run.seen
         \/ run'.seen = run.seen \cup {Found} /\ (Drawn \notin LegalKeys \/ AtTarget(chunk.w))
  BY PassOverEffect DEF disk
<1>2. ASSUME NEW w \in Workloads, NEW k \in LegalKeys, << w, k >> \in run'.seen
      PROVE  << w, k >> \in run.seen \/ AtTarget(w)
  BY <1>1, <1>2 DEF Found
<1> QED
  BY <1>1, <1>2, CountedKept

\* A trace is written for a mapping the directory has not, of a workload that
\* has not its share.
LEMMA CountedWriteTrace ==
  ASSUME SearchInv, Counted, WriteTrace
  PROVE  /\ Counted'
         /\ Found \notin ResumeSeen /\ ResumeSeen' = ResumeSeen \cup {Found}
         /\ Len(traces') = Len(traces) + 1
         /\ \A w \in Workloads : ResumeAccepted'[w] >= ResumeAccepted[w]
<1> DEFINE t == [w |-> chunk.w, key |-> Drawn]
<1>1. /\ UNCHANGED << stream, journal, torn, saved, exit, runs, chunk >>
      /\ pc = "sample" /\ pc' = "journal"
      /\ t \in Trace /\ traces' = Append(traces, t) /\ Found = << t.w, t.key >>
      /\ Found \notin run.seen /\ run'.seen = run.seen \cup {Found} /\ SameSettings /\ SameKept
  BY WriteTraceEffect
<1>2. t.w = chunk.w
  OBVIOUS
<1> HIDE DEF t
<1>3. StoreInv /\ SearchInv' /\ StoreTypeOK' /\ StoreInv' /\ Len(traces) \in Nat
      /\ ResumeSeen \subseteq run.seen
  BY <1>1, WriteTraceInv DEF SearchInv, StoreInv, StoreTypeOK, RunAhead
<1>4. Found \notin ResumeSeen
  BY <1>1, <1>3
<1>5. /\ ResumeSeen' = ResumeSeen \cup {Found} /\ Len(traces') = Len(traces) + 1
  BY <1>1, <1>3, <1>4, TraceWritten
<1>6. \A w \in Workloads : ResumeAccepted'[w] = ResumeAccepted[w] + (IF w = chunk.w THEN 1 ELSE 0)
  BY <1>1, <1>2, <1>3, CountWritten
<1>7. \A w \in Workloads : ResumeAccepted[w] \in Nat
  BY <1>3, ResumeAcceptedType DEF StoreInv
<1>8. \A w \in Workloads : AtTarget(w)' = AtTarget(w)
  BY <1>1 DEF AtTarget, Quota, SameKept, SameSettings
<1>9. ASSUME NEW w \in Workloads
      PROVE  /\ run'.accepted[w] = ResumeAccepted'[w] - (IF chunk'.w = w THEN 1 ELSE 0)
             /\ \A k \in LegalKeys :
                  << w, k >> \in run'.seen => << w, k >> \in ResumeSeen' \/ AtTarget(w)'
  <2>1. run'.accepted[w] = ResumeAccepted[w]
    BY <1>1, <1>7 DEF Counted, SameKept
  <2>2. run'.accepted[w] = ResumeAccepted'[w] - (IF chunk'.w = w THEN 1 ELSE 0)
    BY <1>1, <1>6, <1>7, <2>1
  <2> QED
    BY <1>1, <1>5, <1>8, <2>2 DEF Counted
<1>10. run'.kept = Len(traces') - 1
  BY <1>1, <1>3, <1>5 DEF Counted, SameKept
<1>11. Counted'
  BY <1>1, <1>9, <1>10 DEF Counted
<1> QED
  BY <1>4, <1>5, <1>6, <1>7, <1>11

LEMMA CountedAppendRow ==
  ASSUME SearchInv, OneSetting, Counted, AppendRow PROVE Counted'
<1>1. /\ pc = "journal" /\ pc' = "sample" /\ UNCHANGED << traces, chunk >>
      /\ run \in Run /\ chunk.w \in Workloads /\ Len(traces) \in Nat /\ run.want \in Nat
      /\ run'.kept = run.kept + 1 /\ run'.seen = run.seen /\ run'.want = run.want
      /\ run'.accepted = [run.accepted EXCEPT ![chunk.w] = @ + 1]
  BY AppendRowEffect, RunType DEF SearchInv, TypeOK, StoreTypeOK, SameSettings
<1>2. ResumeSeen' = ResumeSeen /\ ResumeAccepted' = ResumeAccepted
  BY <1>1 DEF ResumeSeen, ResumeAccepted
<1>3. \A w \in Workloads : ResumeAccepted[w] \in Nat
  BY ResumeAcceptedType DEF SearchInv, TypeOK
<1>4. ASSUME NEW w \in Workloads
      PROVE  run'.accepted[w] = ResumeAccepted[w] - 0 /\ (AtTarget(w) => AtTarget(w)')
  <2>1. run.accepted \in [Workloads -> Nat] /\ run.accepted[w] \in Nat
    BY <1>1 DEF Run
  <2>2. run.accepted[w] = ResumeAccepted[w] - (IF chunk.w = w THEN 1 ELSE 0)
    BY <1>1 DEF Counted
  <2>3. run'.accepted[w] = run.accepted[w] + (IF chunk.w = w THEN 1 ELSE 0)
    BY <1>1, <2>1
  <2>4. Quota(run.want, w) \in Nat /\ Quota(run'.want, w) = Quota(run.want, w)
    BY <1>1, QuotaType
  <2>5. AtTarget(w) => AtTarget(w)'
    BY <2>1, <2>3, <2>4 DEF AtTarget, Quota
  <2> QED
    BY <1>3, <2>1, <2>2, <2>3, <2>5
<1>5. run'.kept = Len(traces)
  BY <1>1 DEF Counted
<1>6. \A w \in Workloads, k \in LegalKeys :
        << w, k >> \in run'.seen => << w, k >> \in ResumeSeen' \/ AtTarget(w)'
  BY <1>1, <1>2, <1>4 DEF Counted
<1> QED
  BY <1>1, <1>2, <1>4, <1>5, <1>6 DEF Counted

LEMMA CountedStep ==
  ASSUME SearchInv, OneSetting, Counted, [Next]_vars PROVE Counted'
<1>1. CASE pc' = "down"
  BY <1>1 DEF Counted
<1>2. CASE \E s \in Seeds, n \in TraceCounts, resume \in ResumeFlags : Start(s, n, resume)
  BY <1>2, CountedStart
<1>3. CASE DiscardChunk \/ TakeChunk
  BY <1>3, DrawEffect, CountedKept DEF DiscardChunk, TakeChunk, disk
<1>4. CASE PassOver
  BY <1>4, CountedPassOver
<1>5. CASE WriteTrace \/ AppendRow
  BY <1>5, CountedWriteTrace, CountedAppendRow
<1>6. CASE CloseChunk
  BY <1>6, CloseChunkEffect, CountedKept
<1>7. CASE EndRun \/ Kill
  BY <1>1, <1>7 DEF EndRun, Kill
<1>8. CASE UNCHANGED vars
  <2>1. UNCHANGED << run, traces, pc, chunk >>
    BY <1>8 DEF vars, disk, memory
  <2>2. ResumeSeen' = ResumeSeen /\ ResumeAccepted' = ResumeAccepted
    BY <2>1 DEF ResumeSeen, ResumeAccepted
  <2>3. \A w \in Workloads : AtTarget(w)' = AtTarget(w)
    BY <2>1 DEF AtTarget, Quota
  <2> QED
    BY <2>1, <2>2, <2>3 DEF Counted
<1>9. CASE \E s \in Seeds, resume \in ResumeFlags :
             Refuse(s, resume) \/ \E n \in TraceCounts : Skip(s, n, resume)
  <2>1. pc' = "down"
    BY <1>9 DEF Refuse, Skip, memory
  <2> QED
    BY <1>1, <2>1
<1> QED
  BY <1>2, <1>3, <1>4, <1>5, <1>6, <1>7, <1>8, <1>9 DEF Next, Command, Process

-----------------------------------------------------------------------------
\* Steps that write neither a trace file nor a row: it is enough that the
\* points they move to were covered.
LEMMA ConsumedKept ==
  ASSUME SamplingInv, UNCHANGED << stream, traces >>, pc' # "journal",
         NEW done, run'.doneUpTo = done,
         NEW considered, \A w \in Workloads : Considered(w)' = considered[w],
         \A w \in Workloads : Covered(w, done[w]) /\ Covered(w, considered[w]),
         pc' = "sample" => run'.sched.next[chunk'.w] = ChunkEnd'
  PROVE  Consumed'
<1>1. \A w, p : Covered(w, p)' = Covered(w, p)
  BY SampledKeeps
<1>2. ASSUME NEW w \in Workloads
      PROVE  Covered(w, run.doneUpTo[w])' /\ Covered(w, Considered(w))'
  <2>1. PICK p, q : p = done[w] /\ q = considered[w]
    OBVIOUS
  <2>2. Covered(w, p)' /\ Covered(w, q)'
    BY <1>1, <2>1
  <2>3. p = run'.doneUpTo[w] /\ q = Considered(w)'
    BY <2>1
  <2> QED
    BY <2>2, <2>3 DEF Covered, KeptBelow
<1> QED
  BY <1>2 DEF Consumed

LEMMA ConsumedStart ==
  ASSUME SamplingInv, NEW s \in Seeds, NEW n \in TraceCounts, NEW resume \in ResumeFlags,
         Start(s, n, resume)
  PROVE  SampledInv' /\ Consumed'
<1>1. /\ UNCHANGED << stream, traces, journal, saved >> /\ pc' = "pick"
      /\ run'.doneUpTo = ResumeNext /\ run'.sched.next = ResumeNext
  BY StartEffect DEF SamplingInv, disk
<1>2. PICK next : next = ResumeNext
  OBVIOUS
<1>3. \A w \in Workloads : Covered(w, next[w])
  BY <1>2, ResumeIsCovered DEF SamplingInv, SearchInv
<1>4. \A w \in Workloads : Considered(w)' = next[w]
  BY <1>1, <1>2 DEF Considered
<1>5. SampledInv'
  BY <1>1, SampledKept DEF SamplingInv
<1> QED
  BY <1>1, <1>2, <1>3, <1>4, <1>5, ConsumedKept

\* A chunk is thrown away only for a workload that has its share; the one that
\* is sampled begins where its workload has been considered up to.
LEMMA ConsumedDraw ==
  ASSUME SamplingInv, OneSetting, DiscardChunk \/ TakeChunk PROVE SampledInv' /\ Consumed'
<1> DEFINE c == NextChunk(run.sched)
<1>1. /\ UNCHANGED << stream, traces, journal, saved >> /\ pc = "pick"
      /\ c \in Chunk /\ c.start = run.sched.next[c.w] /\ run'.doneUpTo = run.doneUpTo
      /\ \A w \in Workloads :
           run'.sched.next[w] = run.sched.next[w] + (IF w = c.w THEN c.attempted ELSE 0)
  BY DrawEffect DEF SamplingInv, disk
<1>2. run \in Run /\ run.want = TheCount /\ run.sched.next \in [Workloads -> Nat]
      /\ c.w \in Workloads /\ c.start \in Nat /\ c.attempted \in Nat
  BY <1>1, RunSetting, RunType DEF SamplingInv, SearchInv, Chunk
<1>3. SampledInv'
  BY <1>1, SampledKept DEF SamplingInv
<1>4. \A w \in Workloads : Covered(w, run.doneUpTo[w]) /\ Covered(w, run.sched.next[w])
  BY <1>1 DEF SamplingInv, Consumed, Considered
<1>5. CASE TakeChunk
  <2>1. pc' = "sample" /\ chunk' = c /\ at' = c.start
    BY <1>5 DEF TakeChunk
  <2> HIDE DEF c
  <2>2. \A w \in Workloads : Considered(w)' = run.sched.next[w]
    BY <1>1, <1>2, <2>1 DEF Considered
  <2>3. run'.sched.next[chunk'.w] = ChunkEnd'
    BY <1>1, <1>2, <2>1 DEF ChunkEnd
  <2>4. PICK done, next : done = run.doneUpTo /\ next = run.sched.next
    OBVIOUS
  <2> QED
    BY <1>1, <1>3, <1>4, <2>1, <2>2, <2>3, <2>4, ConsumedKept
<1>6. CASE DiscardChunk
  <2>1. pc' = "pick" /\ AtTarget(c.w)
    BY <1>1, <1>6 DEF DiscardChunk
  <2> HIDE DEF c
  <2>2. ResumeAccepted[c.w] >= Quota(TheCount, c.w)
    <3>1. run.accepted[c.w] = ResumeAccepted[c.w] - 0 /\ ResumeAccepted[c.w] \in Nat
      BY <1>1, <1>2, ResumeAcceptedType DEF SamplingInv, Counted, SearchInv, TypeOK
    <3> QED
      BY <1>2, <2>1, <3>1 DEF AtTarget
  <2>3. PICK done, next : done = run.doneUpTo /\ next = run'.sched.next
    OBVIOUS
  <2>4. \A w \in Workloads : Considered(w)' = next[w]
    BY <2>1, <2>3 DEF Considered
  <2>5. \A w \in Workloads : w # c.w => next[w] = run.sched.next[w]
    BY <1>1, <1>2, <2>3
  <2>6. \A w \in Workloads : Covered(w, next[w])
    BY <1>4, <2>2, <2>5 DEF Covered
  <2> QED
    BY <1>1, <1>3, <1>4, <2>1, <2>3, <2>4, <2>6, ConsumedKept
<1> QED
  BY <1>5, <1>6

\* An attempt passed over drew nothing legal, or a mapping that is kept, or is
\* of a workload that has its share.
LEMMA ConsumedPassOver ==
  ASSUME SamplingInv, OneSetting, PassOver PROVE SampledInv' /\ Consumed'
<1>1. /\ UNCHANGED << stream, traces, journal, saved, pc, chunk >>
      /\ pc = "sample" /\ at' = at + 1 /\ run'.sched.next = run.sched.next
      /\ run'.doneUpTo = run.doneUpTo
      /\ \/ Drawn = NoSample
         \/ Found \in run.seen
         \/ Drawn \notin LegalKeys
         \/ AtTarget(chunk.w)
  BY PassOverEffect DEF SamplingInv, disk
<1>2. /\ run \in Run /\ run.want = TheCount /\ run.seed = TheSeed /\ chunk.w \in Workloads
      /\ at \in Nat
  BY <1>1, RunSetting, RunType DEF SamplingInv, SearchInv
<1>3. SampledInv'
  BY <1>1, SampledKept DEF SamplingInv
<1>4. Covered(chunk.w, at + 1)
  <2>1. Covered(chunk.w, at)
    BY <1>1, <1>2 DEF SamplingInv, Consumed, Considered
  <2>2. CASE AtTarget(chunk.w)
    <3>1. run.accepted[chunk.w] = ResumeAccepted[chunk.w] - 0 /\ ResumeAccepted[chunk.w] \in Nat
      BY <1>1, <1>2, ResumeAcceptedType DEF SamplingInv, Counted, SearchInv, TypeOK
    <3> QED
      BY <1>2, <2>2, <3>1 DEF AtTarget, Covered
  <2>3. CASE ~AtTarget(chunk.w)
    <3>1. IsLegalDraw(TheSeed, chunk.w, at) => << chunk.w, Draw(TheSeed, chunk.w, at) >> \in ResumeSeen
      BY <1>1, <1>2, <2>3, KeysAssumption
         DEF SamplingInv, Counted, IsLegalDraw, Drawn, Found
    <3>2. \A b \in Nat : b < at + 1 => b < at \/ b = at
      BY <1>2
    <3>3. KeptBelow(chunk.w, at) => KeptBelow(chunk.w, at + 1)
      BY <3>1, <3>2 DEF KeptBelow
    <3> QED
      BY <2>1, <3>3 DEF Covered
  <2> QED
    BY <2>2, <2>3
<1>5. PICK done, next :
        done = run.doneUpTo /\ next = [run.sched.next EXCEPT ![chunk.w] = at + 1]
  OBVIOUS
<1>6. ASSUME NEW w \in Workloads
      PROVE  Considered(w)' = next[w] /\ Covered(w, next[w]) /\ Covered(w, done[w])
  <2>1. run.sched.next \in [Workloads -> Nat]
    BY <1>1, RunType DEF SamplingInv, SearchInv
  <2>2. next[w] = IF w = chunk.w THEN at + 1 ELSE run.sched.next[w]
    BY <1>5, <2>1
  <2>3. Covered(w, run.doneUpTo[w]) /\ (w # chunk.w => Covered(w, run.sched.next[w]))
    BY <1>1 DEF SamplingInv, Consumed, Considered
  <2> QED
    BY <1>1, <1>4, <1>5, <2>2, <2>3 DEF Considered
<1>7. run'.sched.next[chunk'.w] = ChunkEnd'
  BY <1>1 DEF SamplingInv, Consumed, ChunkEnd
<1> QED
  BY <1>1, <1>3, <1>5, <1>6, <1>7, ConsumedKept

\* What is known when a trace is written: nothing legal was left behind.
LEMMA WantsMore ==
  ASSUME SamplingInv, OneSetting, WriteTrace
  PROVE  /\ KeptBelow(chunk.w, at) /\ IsLegalDraw(TheSeed, chunk.w, at)
         /\ Drawn = Draw(TheSeed, chunk.w, at)
         /\ ResumeAccepted[chunk.w] < Quota(TheCount, chunk.w)
<1>1. /\ pc = "sample" /\ Searching /\ ~AtTarget(chunk.w) /\ Drawn \in LegalKeys
  BY WriteTraceEffect DEF SamplingInv
<1>2. /\ run \in Run /\ run.want = TheCount /\ run.seed = TheSeed /\ chunk.w \in Workloads
      /\ TheCount \in Nat
  BY <1>1, RunSetting, RunType DEF SamplingInv, SearchInv
<1>3. ResumeAccepted[chunk.w] \in Nat /\ Quota(TheCount, chunk.w) \in Nat /\ Len(traces) \in Nat
  BY <1>2, ResumeAcceptedType, QuotaType DEF SamplingInv, SearchInv, TypeOK, StoreTypeOK
<1>4. run.accepted[chunk.w] = ResumeAccepted[chunk.w] - 0 /\ run.kept = Len(traces) - 0
  BY <1>1, <1>2 DEF SamplingInv, Counted
<1>5. ResumeAccepted[chunk.w] < Quota(TheCount, chunk.w)
  BY <1>1, <1>2, <1>3, <1>4 DEF AtTarget
<1>6. Len(traces) < TheCount
  BY <1>1, <1>2, <1>3, <1>4 DEF Searching
<1>7. Covered(chunk.w, at)
  BY <1>1, <1>2 DEF SamplingInv, Consumed, Considered
<1> QED
  BY <1>1, <1>2, <1>3, <1>5, <1>6, <1>7 DEF Covered, Drawn, IsLegalDraw

LEMMA ConsumedWriteTrace ==
  ASSUME SamplingInv, OneSetting, WriteTrace PROVE SampledInv' /\ Consumed'
<1>1. PICK w, a : w = chunk.w /\ a = at
  OBVIOUS
<1>2. /\ UNCHANGED << stream, journal, saved, chunk, at >> /\ pc = "sample" /\ pc' = "journal"
      /\ run'.doneUpTo = run.doneUpTo /\ run'.sched = run.sched
      /\ traces' = Append(traces, [w |-> chunk.w, key |-> Drawn])
      /\ w \in Workloads /\ a \in Nat
  BY <1>1, WriteTraceEffect, RunType DEF SamplingInv, SearchInv
<1>3. /\ KeptBelow(w, a) /\ IsLegalDraw(TheSeed, w, a)
      /\ traces' = Append(traces, [w |-> w, key |-> Draw(TheSeed, w, a)])
      /\ Found = << w, Draw(TheSeed, w, a) >>
  BY <1>1, <1>2, WantsMore DEF Found
<1>4. /\ SearchInv' /\ StoreInv /\ StoreTypeOK /\ StoreTypeOK' /\ Len(traces) \in Nat
  BY WriteTraceInv DEF SamplingInv, SearchInv, StoreInv, StoreTypeOK
<1>5. /\ ResumeSeen' = ResumeSeen \cup {<< w, Draw(TheSeed, w, a) >>}
      /\ Len(traces') = Len(traces) + 1
      /\ \A v \in Workloads : ResumeAccepted'[v] >= ResumeAccepted[v]
  BY <1>3, CountedWriteTrace DEF SamplingInv
<1>6. SampledInv' /\ KeptBelow(w, a + 1)'
  BY <1>2, <1>3, <1>4, <1>5, SampledTrace DEF SamplingInv
<1>7. KeptBelow(chunk.w, at + 1)'
  BY <1>1, <1>2, <1>6 DEF KeptBelow
<1>8. ASSUME NEW v \in Workloads
      PROVE  Covered(v, run.doneUpTo[v])' /\ Covered(v, Considered(v))'
  <2>1. PICK p, q : p = run.doneUpTo[v] /\ q = Considered(v)'
    OBVIOUS
  <2>2. Covered(v, p) /\ (v # w => q = Considered(v) /\ Covered(v, q))
    BY <1>1, <1>2, <2>1 DEF SamplingInv, Consumed, Considered
  <2>3. Len(traces) <= Len(traces') /\ ResumeSeen \subseteq ResumeSeen'
    BY <1>4, <1>5
  <2>4. \A r : Covered(v, r) => Covered(v, r)'
    BY <1>2, <1>4, <1>5, <2>3, CoveredGrows
  <2>5. v = w => q = a + 1 /\ Covered(v, q)'
    BY <1>1, <1>2, <1>6, <2>1 DEF Considered, Covered
  <2>6. Covered(v, p)' /\ Covered(v, q)' /\ p = run'.doneUpTo[v] /\ q = Considered(v)'
    BY <1>2, <2>1, <2>2, <2>4, <2>5
  <2> QED
    BY <2>6 DEF Covered, KeptBelow
<1>9. run'.sched.next[chunk'.w] = ChunkEnd'
  BY <1>2 DEF SamplingInv, Consumed, ChunkEnd
<1> QED
  BY <1>2, <1>6, <1>7, <1>8, <1>9 DEF Consumed

LEMMA ConsumedAppendRow ==
  ASSUME SamplingInv, AppendRow PROVE SampledInv' /\ Consumed'
<1> DEFINE row == [w |-> chunk.w, attempt |-> at, trace |-> Len(traces)]
<1>1. /\ UNCHANGED << stream, traces, saved, chunk >>
      /\ pc = "journal" /\ pc' = "sample" /\ at' = at + 1
      /\ journal' = Append(journal, row)
      /\ run'.doneUpTo = run.doneUpTo /\ run'.sched.next = run.sched.next
      /\ chunk.w \in Workloads /\ at \in Nat
  BY AppendRowEffect, RunType DEF SamplingInv, SearchInv
<1>2. KeptBelow(chunk.w, at + 1)
  BY <1>1 DEF SamplingInv, Consumed
<1>3. row \in Row /\ row.w = chunk.w /\ row.attempt = at
  <2>1. Len(traces) \in Nat /\ Len(traces) # 0
    BY <1>1, EmptySeq DEF SamplingInv, SearchInv, TraceInHand, TypeOK, StoreTypeOK
  <2> QED
    BY <1>1, <2>1 DEF Row
<1> HIDE DEF row
<1>4. SampledInv'
  BY <1>1, <1>2, <1>3, SampledRow DEF SamplingInv, SearchInv
<1>5. PICK done, considered :
        done = run.doneUpTo /\ considered = [w \in Workloads |-> Considered(w)]
  OBVIOUS
<1>6. ASSUME NEW w \in Workloads
      PROVE  Considered(w)' = considered[w] /\ Covered(w, considered[w]) /\ Covered(w, done[w])
  BY <1>1, <1>5 DEF SamplingInv, Consumed, Considered
<1>7. run'.sched.next[chunk'.w] = ChunkEnd'
  BY <1>1 DEF SamplingInv, Consumed, ChunkEnd
<1> QED
  BY <1>1, <1>4, <1>5, <1>6, <1>7, ConsumedKept

\* A chunk is left at its end, or because the directory has all the traces.
LEMMA ConsumedCloseChunk ==
  ASSUME SamplingInv, OneSetting, CloseChunk PROVE SampledInv' /\ Consumed'
<1>1. /\ UNCHANGED << stream, traces, journal >> /\ pc = "sample" /\ pc' = "pick"
      /\ ~Searching \/ at = ChunkEnd
      /\ run'.sched = run.sched /\ saved'.next = run'.doneUpTo
      /\ \A w \in Workloads :
           run'.doneUpTo[w] = run.doneUpTo[w] \/ (w = chunk.w /\ run'.doneUpTo[w] = ChunkEnd)
  <2>1. pc = "sample"
    BY DEF CloseChunk
  <2>2. run.doneUpTo \in [Workloads -> Nat]
    BY <2>1, RunType DEF SamplingInv, SearchInv, Run
  <2> QED
    BY <2>2, CloseChunkEffect DEF SamplingInv
<1>2. /\ run \in Run /\ run.want = TheCount /\ chunk.w \in Workloads /\ TheCount \in Nat
  BY <1>1, RunSetting, RunType DEF SamplingInv, SearchInv
<1>3. Covered(chunk.w, ChunkEnd)
  <2>1. CASE ~Searching
    <3>1. run.kept = Len(traces) - 0 /\ Len(traces) \in Nat
      BY <1>1 DEF SamplingInv, Counted, SearchInv, TypeOK, StoreTypeOK
    <3>2. Len(traces) >= TheCount
      BY <1>2, <2>1, <3>1 DEF Searching
    <3> QED
      BY <3>2 DEF Covered
  <2>2. CASE at = ChunkEnd
    BY <1>1, <1>2, <2>2 DEF SamplingInv, Consumed, Considered
  <2> QED
    BY <1>1, <2>1, <2>2
<1>4. PICK done, next : done = run'.doneUpTo /\ next = run.sched.next
  OBVIOUS
<1>5. ASSUME NEW w \in Workloads
      PROVE  Considered(w)' = next[w] /\ Covered(w, next[w]) /\ Covered(w, done[w])
  <2>1. Covered(w, run.doneUpTo[w]) /\ Covered(w, Considered(w))
        /\ run.sched.next[chunk.w] = ChunkEnd
    BY <1>1 DEF SamplingInv, Consumed
  <2>2. Covered(w, next[w])
    BY <1>1, <1>3, <1>4, <2>1 DEF Considered
  <2> QED
    BY <1>1, <1>3, <1>4, <2>1, <2>2 DEF Considered
<1>6. SampledInv'
  BY <1>1, <1>4, <1>5, SampledState DEF SamplingInv
<1> QED
  BY <1>1, <1>4, <1>5, <1>6, ConsumedKept

LEMMA SampledStep ==
  ASSUME SamplingInv, OneSetting, [Next]_vars PROVE SampledInv' /\ Consumed'
<1>1. CASE \E s \in Seeds, n \in TraceCounts, resume \in ResumeFlags : Start(s, n, resume)
  BY <1>1, ConsumedStart
<1>2. CASE Process /\ ~EndRun
  BY <1>2, ConsumedDraw, ConsumedPassOver, ConsumedWriteTrace, ConsumedAppendRow,
     ConsumedCloseChunk DEF Process
<1>3. CASE \E s \in Seeds, resume \in ResumeFlags : Refuse(s, resume)
  <2>1. pc' = "down" /\ UNCHANGED << stream, traces, journal, saved >>
    BY <1>3 DEF Refuse, RefuseDirectory, memory, disk
  <2> QED
    BY <2>1, SampledKept DEF SamplingInv, Consumed
<1>4. CASE \E s \in Seeds, n \in TraceCounts, resume \in ResumeFlags : Skip(s, n, resume)
  <2>1. /\ pc' = "down" /\ UNCHANGED << stream, traces, journal >>
        /\ saved'.next = ResumeNext
    BY <1>4 DEF Skip, SkipDirectory, memory
  <2>2. \A w \in Workloads : Covered(w, ResumeNext[w])
    BY ResumeIsCovered DEF SamplingInv, SearchInv
  <2> QED
    BY <2>1, <2>2, SampledState DEF SamplingInv, Consumed
<1>5. CASE EndRun \/ Kill
  <2>1. pc' = "down" /\ UNCHANGED << stream, traces, journal, saved >>
    BY <1>5 DEF EndRun, Kill, disk
  <2> QED
    BY <2>1, SampledKept DEF SamplingInv, Consumed
<1>6. CASE UNCHANGED vars
  <2>1. UNCHANGED << stream, traces, journal, saved, run, pc, chunk, at >>
    BY <1>6 DEF vars, memory, disk
  <2>2. \A w : Considered(w)' = Considered(w)
    BY <2>1 DEF Considered
  <2>3. Consumed' = Consumed
    BY <2>1, <2>2 DEF Consumed, ChunkEnd, Covered, KeptBelow, ResumeSeen, ResumeAccepted,
                      IsLegalDraw, Draw
  <2> QED
    BY <2>1, <2>3, SampledKept DEF SamplingInv
<1> QED
  BY <1>1, <1>2, <1>3, <1>4, <1>5, <1>6 DEF Next, Command

LEMMA SamplingInvariant ==
  ASSUME OneSetting PROVE Spec => []SamplingInv
<1>1. Init => SamplingInv
  <2> SUFFICES ASSUME Init PROVE SamplingInv
    OBVIOUS
  <2>1. pc = "down" /\ traces = << >> /\ journal = << >> /\ saved = None
    BY DEF Init, StoreInit
  <2>2. \A w \in Workloads : KeptBelow(w, 0)
    BY DEF KeptBelow
  <2>3. SampledInv
    BY <2>1, <2>2 DEF SampledInv, Gapless
  <2> QED
    BY <2>1, <2>3, SearchInvInit DEF SamplingInv, Counted, Consumed
<1>2. SamplingInv /\ [Next]_vars => SamplingInv'
  BY SearchInvStep, CountedStep, SampledStep DEF SamplingInv
<1> QED
  BY <1>1, <1>2, PTL DEF Spec

\* Only a trace file changes the log, and it holds the first legal draw of its
\* workload that is not in it.
LEMMA WritesKeep ==
  ASSUME SamplingInv, OneSetting, WriteTrace PROVE Sampling!Keep(chunk.w)
<1> DEFINE w == chunk.w
           d == stream[TheSeed]
<1>1. /\ pc = "sample" /\ Found \notin ResumeSeen
      /\ traces' = Append(traces, [w |-> w, key |-> Drawn])
      /\ UNCHANGED stream
  BY WriteTraceEffect, CountedWriteTrace DEF SamplingInv
<1>2. TheSeed \in Seeds /\ w \in Workloads /\ at \in Nat
  BY <1>1, RunType DEF SamplingInv, SearchInv, OneSetting
<1>3. /\ KeptBelow(w, at) /\ IsLegalDraw(TheSeed, w, at) /\ Drawn = Draw(TheSeed, w, at)
      /\ << w, Draw(TheSeed, w, at) >> \notin ResumeSeen
      /\ ResumeAccepted[w] < Quota(TheCount, w)
  BY <1>1, WantsMore DEF Found
<1>4. d \in [Workloads -> [0 .. Horizon - 1 -> Keys \cup {NoSample}]]
  BY <1>2, StreamsAssumption DEF SamplingInv, SearchInv, TypeOK, StoreTypeOK
<1>5. DOMAIN d[w] = 0 .. Horizon - 1
  BY <1>2, <1>4
<1>6. \A b \in Nat : IsLegalDraw(TheSeed, w, b) =>
        b \in DOMAIN d[w] /\ d[w][b] = Draw(TheSeed, w, b)
  BY <1>5, KeysAssumption, HorizonAssumption DEF IsLegalDraw, Draw
<1>7. \A b \in DOMAIN d[w] : b \in Nat /\ d[w][b] = Draw(TheSeed, w, b)
  BY <1>5, HorizonAssumption DEF Draw
<1>8. \A i \in DOMAIN traces : traces[i] \in Trace
  BY ElementOfSeq DEF SamplingInv, SearchInv, TypeOK, StoreTypeOK
<1>9. \A b \in Nat : << w, Draw(TheSeed, w, b) >> \notin ResumeSeen <=>
        \A i \in DOMAIN traces : traces[i] # [w |-> w, key |-> Draw(TheSeed, w, b)]
  BY <1>8 DEF ResumeSeen, Trace
<1> DEFINE U == {b \in DOMAIN d[w] :
                   /\ d[w][b] \in LegalKeys
                   /\ \A i \in DOMAIN traces : traces[i] # [w |-> w, key |-> d[w][b]]}
<1> HIDE DEF w, d
<1>10. at \in U
  BY <1>2, <1>3, <1>6, <1>9 DEF IsLegalDraw
<1>11. ASSUME NEW b \in U PROVE at <= b
  <2>1. /\ b \in Nat /\ IsLegalDraw(TheSeed, w, b)
        /\ << w, Draw(TheSeed, w, b) >> \notin ResumeSeen
    BY <1>7, <1>9 DEF IsLegalDraw
  <2> QED
    BY <1>2, <1>3, <2>1 DEF KeptBelow
<1>12. traces' = Append(traces, [w |-> w, key |-> d[w][at]])
  BY <1>1, <1>2, <1>3, <1>6
<1>13. Cardinality({i \in DOMAIN traces : traces[i].w = w}) < Quota(TheCount, w)
  BY <1>2, <1>3 DEF ResumeAccepted
<1> HIDE DEF U
<1>14. \E b \in U : (\A e \in U : b <= e) /\ traces' = Append(traces, [w |-> w, key |-> d[w][b]])
  BY <1>10, <1>11, <1>12
<1>15. Sampling!Unkept(w) = U
  BY DEF Sampling!Unkept, U, d
<1>16. Sampling!KeptOf(w) = {i \in DOMAIN traces : traces[i].w = w}
  BY DEF Sampling!KeptOf
<1>17. [v \in Workloads |-> Quota(TheCount, v)][w] = Quota(TheCount, w)
  BY <1>2
<1>18. Sampling!Cardinality(Sampling!KeptOf(w)) < [v \in Workloads |-> Quota(TheCount, v)][w]
  <2>1. Sampling!Cardinality(Sampling!KeptOf(w)) = Cardinality(Sampling!KeptOf(w))
    BY DEF Sampling!Cardinality, Cardinality
  <2> QED
    BY <1>13, <1>16, <1>17, <2>1
<1>19. stream[TheSeed]' = stream[TheSeed]
  BY <1>1
<1>20. \E b \in Sampling!Unkept(w) :
         /\ \A e \in Sampling!Unkept(w) : b <= e
         /\ traces' = Append(traces, [w |-> w, key |-> stream[TheSeed][w][b]])
  BY <1>14, <1>15 DEF d
<1>21. Sampling!Keep(w)
  BY <1>18, <1>19, <1>20 DEF Sampling!Keep
<1> QED
  BY <1>21 DEF w

\* The search in one process fills a directory exactly as the pool does, for
\* any draws and budget: each workload gets the first distinct legal draws of
\* its stream in the order in which they are drawn, across kills and restarts.
THEOREM SequentialImplementsSampling ==
  ASSUME OneSetting PROVE Spec => ImplementsSampling
<1>1. Init => Sampling!Init
  BY DEF Init, StoreInit, Sampling!Init
<1>2. SamplingInv /\ [Next]_vars => [Sampling!Next]_<< stream[TheSeed], traces >>
  <2> SUFFICES ASSUME SamplingInv, [Next]_vars
               PROVE  [Sampling!Next]_<< stream[TheSeed], traces >>
    OBVIOUS
  <2>1. CASE WriteTrace
    <3>1. chunk.w \in Workloads
      BY <2>1, WriteTraceEffect, RunType DEF SamplingInv, SearchInv
    <3> QED
      BY <2>1, <3>1, WritesKeep DEF Sampling!Next
  <2>2. CASE ~WriteTrace
    <3>1. UNCHANGED << stream, traces >>
      BY <2>2 DEF Next, Command, Process, vars, disk, Refuse, RefuseDirectory, Skip,
           SkipDirectory, Start, DiscardChunk, TakeChunk, EndRun, PassOver, AppendRow,
           CloseChunk, Kill
    <3> QED
      BY <3>1
  <2> QED
    BY <2>1, <2>2
<1> QED
  BY <1>1, <1>2, SamplingInvariant, PTL DEF Spec, ImplementsSampling, Sampling!Spec
=============================================================================
