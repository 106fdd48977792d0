------------------------- MODULE SearchStoreProofs -------------------------
(***************************************************************************)
(* What the search loops stand on, for any number of workloads, any budget *)
(* and any batch size.  First the chunk scheduler: what its operations     *)
(* preserve.  Then the output directory: what a command reads back is well *)
(* defined, whatever was written there; the resume points are numbers, and *)
(* they move with the trace files, the journal and the state file they are *)
(* computed from.  Last, the scheduler on its own is fair and exact.       *)
(***************************************************************************)
EXTENDS SearchStore, SchedulerTurns, SequenceTheorems, FiniteSetTheorems, FunctionTheorems,
        WellFoundedInduction, TLAPS

\* A scheduler whose cursor points into its list of active workloads.
Pointed(s) ==
  /\ s \in Scheduler
  /\ s.active = << >> => s.cursor = 0
  /\ s.active # << >> => s.cursor < Len(s.active)

\* The next turn after position i of n is i + 1, or 0 at the end.
LEMMA NextPosition ==
  ASSUME NEW n \in Nat \ {0}, NEW i \in 0 .. n - 1
  PROVE  (i + 1) % n = IF i + 1 = n THEN 0 ELSE i + 1
BY Z3

\* A new scheduler is well formed.
LEMMA NewSchedulerPointed ==
  ASSUME NEW eligible \in Workloads, NEW next \in [Workloads -> Nat]
  PROVE  Pointed(NewScheduler(eligible, next))
<1> DEFINE active == [w \in 1 .. eligible |-> w]
<1>1. eligible \in Nat /\ eligible >= 1 /\ 1 .. eligible \subseteq Workloads
  BY NumWorkloadsAssumption DEF Workloads
<1>2. active \in [1 .. eligible -> Workloads]
  BY <1>1
<1>3. active \in Seq(Workloads) /\ Len(active) = eligible
  BY <1>1, <1>2
<1> QED
  BY <1>1, <1>3 DEF Pointed, NewScheduler, Scheduler

\* The chunk handed out is one of the workload whose turn it is, and within
\* the budget.
LEMMA NextChunkType ==
  ASSUME NEW s, Pointed(s), HasChunk(s)
  PROVE  /\ NextChunk(s) \in Chunk
         /\ NextChunk(s).w = s.active[s.cursor + 1]
         /\ NextChunk(s).attempted >= 1
         /\ s.scheduled + NextChunk(s).attempted <= MaxAttempts
<1>1. s.cursor \in Nat /\ s.cursor < Len(s.active) /\ Turn(s) = s.cursor
  BY DEF Pointed, HasChunk, Scheduler, Turn
<1>2. s.active \in Seq(Workloads) /\ s.active[s.cursor + 1] \in Workloads
  BY <1>1, ElementOfSeq DEF Pointed, Scheduler
<1>3. Smaller(BatchAttempts, MaxAttempts - s.scheduled) \in Nat \ {0}
  BY BudgetAssumption DEF Pointed, HasChunk, Scheduler, Smaller
<1>4. s.scheduled + Smaller(BatchAttempts, MaxAttempts - s.scheduled) <= MaxAttempts
  BY BudgetAssumption DEF Pointed, HasChunk, Scheduler, Smaller
<1>5. s.issued \in Nat /\ s.next[s.active[s.cursor + 1]] \in Nat
  BY <1>2 DEF Pointed, Scheduler
<1> QED
  BY <1>1, <1>2, <1>3, <1>4, <1>5 DEF NextChunk, Chunk

\* Handing it out keeps the scheduler well formed and moves the cursor on.
LEMMA AfterNextChunkPointed ==
  ASSUME NEW s, Pointed(s), HasChunk(s)
  PROVE  /\ Pointed(AfterNextChunk(s))
         /\ AfterNextChunk(s).active = s.active
         /\ AfterNextChunk(s).cursor = IF s.cursor + 1 = Len(s.active) THEN 0
                                       ELSE s.cursor + 1
         /\ AfterNextChunk(s).scheduled = s.scheduled + NextChunk(s).attempted
         /\ AfterNextChunk(s).issued = s.issued + 1
         /\ \A w \in Workloads :
              AfterNextChunk(s).next[w] =
                s.next[w] + (IF w = NextChunk(s).w THEN NextChunk(s).attempted ELSE 0)
<1> DEFINE c == NextChunk(s)
<1>1. /\ s.cursor \in Nat /\ s.cursor < Len(s.active) /\ Turn(s) = s.cursor
      /\ Len(s.active) \in Nat \ {0}
  BY EmptySeq DEF Pointed, HasChunk, Scheduler, Turn
<1>2. c \in Chunk
  BY NextChunkType
<1>3. (Turn(s) + 1) % Len(s.active) = IF s.cursor + 1 = Len(s.active) THEN 0
                                      ELSE s.cursor + 1
  BY <1>1, NextPosition
<1>4. s \in Scheduler
  BY DEF Pointed
<1> DEFINE next == [s.next EXCEPT ![c.w] = @ + c.attempted]
           scheduled == s.scheduled + c.attempted
           issued == s.issued + 1
           cursor == (Turn(s) + 1) % Len(s.active)
           after == [s EXCEPT !.next = next, !.scheduled = scheduled,
                              !.issued = issued, !.cursor = cursor]
<1>5. next \in [Workloads -> Nat] /\ scheduled \in Nat /\ issued \in Nat
  BY <1>2, <1>4 DEF Chunk, Scheduler
<1>5a. \A w \in Workloads : next[w] = s.next[w] + (IF w = c.w THEN c.attempted ELSE 0)
  BY <1>2, <1>4 DEF Chunk, Scheduler
<1>6. cursor \in 0 .. Len(s.active) - 1
  BY <1>1, <1>3
<1>7. AfterNextChunk(s) = after
  BY DEF AfterNextChunk
<1> HIDE DEF c, next, scheduled, issued, cursor
<1>8. /\ after \in Scheduler /\ after.active = s.active
      /\ after.cursor = cursor /\ after.scheduled = scheduled /\ after.next = next
      /\ after.issued = issued
  <2>1. cursor \in Nat
    BY <1>1, <1>6
  <2> QED
    BY <1>4, <1>5, <2>1 DEF Scheduler
<1>9. Pointed(after)
  BY <1>1, <1>6, <1>8 DEF Pointed
<1> QED
  BY <1>3, <1>5a, <1>7, <1>8, <1>9 DEF c, cursor, scheduled, issued

\* Marking an active workload complete takes it, and nothing else, out of the
\* list, and the cursor keeps its place among those that are left.
LEMMA MarkCompleteShape ==
  ASSUME NEW s, Pointed(s), NEW w, IsActive(s, w)
  PROVE  LET n  == Len(s.active)
             at == PositionOf(s, w)
             t  == MarkComplete(s, w)
         IN  /\ n \in Nat /\ at \in 1 .. n /\ s.active[at] = w
             /\ Pointed(t)
             /\ Len(t.active) = n - 1
             /\ \A i \in 1 .. n - 1 :
                  t.active[i] = IF i < at THEN s.active[i] ELSE s.active[i + 1]
             /\ t.cursor = IF at - 1 < s.cursor THEN s.cursor - 1
                           ELSE IF s.cursor >= n - 1 THEN 0 ELSE s.cursor
<1> DEFINE n  == Len(s.active)
           at == PositionOf(s, w)
           front == SubSeq(s.active, 1, at - 1)
           back  == SubSeq(s.active, at + 1, n)
           rest  == Without(s.active, at)
           shifted == IF at - 1 < s.cursor THEN s.cursor - 1 ELSE s.cursor
           cursor == IF shifted >= Len(rest) THEN 0 ELSE shifted
           t == [s EXCEPT !.active = rest, !.cursor = cursor]
<1>1. s \in Scheduler /\ s.active \in Seq(Workloads) /\ n \in Nat /\ s.cursor \in Nat
  BY DEF Pointed, Scheduler
<1>2. at \in 1 .. n /\ s.active[at] = w
  BY DEF IsActive, PositionOf
<1>3. \A i \in 1 .. n : s.active[i] \in Workloads
  BY <1>1, ElementOfSeq
<1>4. /\ front \in Seq(Workloads) /\ Len(front) = at - 1
      /\ \A i \in 1 .. at - 1 : front[i] = s.active[i]
  BY <1>1, <1>2, <1>3, SubSeqProperties
<1>5. /\ back \in Seq(Workloads) /\ Len(back) = n - at
      /\ \A i \in 1 .. n - at : back[i] = s.active[at + i]
  <2>1. at + 1 \in Int /\ n \in Int /\ \A i \in at + 1 .. n : s.active[i] \in Workloads
    BY <1>1, <1>2, <1>3
  <2> HIDE DEF at, n
  <2>2. /\ back \in Seq(Workloads)
        /\ Len(back) = IF at + 1 <= n THEN n - (at + 1) + 1 ELSE 0
        /\ \A i \in 1 .. n - (at + 1) + 1 : back[i] = s.active[(at + 1) + i - 1]
    BY <2>1, SubSeqProperties
  <2> HIDE DEF back
  <2>3. Len(back) = n - at
    BY <1>1, <1>2, <2>2
  <2>4. \A i \in 1 .. n - at : back[i] = s.active[at + i]
    <3> SUFFICES ASSUME NEW i \in 1 .. n - at PROVE back[i] = s.active[at + i]
      OBVIOUS
    <3>1. i \in 1 .. n - (at + 1) + 1 /\ (at + 1) + i - 1 = at + i
      BY <1>1, <1>2
    <3> QED
      BY <2>2, <3>1
  <2> QED
    BY <2>2, <2>3, <2>4
<1>6. rest = front \o back
  BY DEF Without
<1> HIDE DEF front, back, rest, at, n
<1>7. /\ rest \in Seq(Workloads) /\ Len(rest) = n - 1
      /\ \A i \in 1 .. n - 1 : rest[i] = IF i < at THEN s.active[i] ELSE s.active[i + 1]
  <2>1. /\ rest \in Seq(Workloads) /\ Len(rest) = Len(front) + Len(back)
        /\ \A i \in 1 .. Len(front) + Len(back) :
             rest[i] = IF i <= Len(front) THEN front[i] ELSE back[i - Len(front)]
    BY <1>4, <1>5, <1>6, ConcatProperties
  <2> QED
    BY <1>1, <1>2, <1>4, <1>5, <2>1
<1>8. cursor = IF at - 1 < s.cursor THEN s.cursor - 1
               ELSE IF s.cursor >= n - 1 THEN 0 ELSE s.cursor
  <2>1. s.cursor < n
    BY <1>1, <1>2, EmptySeq DEF Pointed, n
  <2> QED
    BY <1>1, <1>2, <1>7, <2>1
<1>9. cursor \in Nat /\ (rest # << >> => cursor < Len(rest)) /\ (rest = << >> => cursor = 0)
  BY <1>1, <1>2, <1>7, <1>8, EmptySeq
<1>10. MarkComplete(s, w) = t
  BY DEF MarkComplete, rest, at
<1> HIDE DEF cursor
<1>11. t \in Scheduler /\ t.active = rest /\ t.cursor = cursor
  BY <1>1, <1>7, <1>9 DEF Scheduler
<1>12. Pointed(t)
  BY <1>9, <1>11 DEF Pointed
<1> QED
  BY <1>1, <1>2, <1>7, <1>8, <1>10, <1>11, <1>12 DEF at, n

\* Marking any workload complete keeps the scheduler well formed, and the
\* attempts handed out so far what they are.
LEMMA MarkCompletePointed ==
  ASSUME NEW s, Pointed(s), NEW w
  PROVE  /\ Pointed(MarkComplete(s, w))
         /\ MarkComplete(s, w).next = s.next
         /\ MarkComplete(s, w).scheduled = s.scheduled
         /\ MarkComplete(s, w).issued = s.issued
<1> DEFINE t == MarkComplete(s, w)
<1>0. t.next = s.next /\ t.scheduled = s.scheduled /\ t.issued = s.issued
  BY DEF Pointed, Scheduler, MarkComplete
<1>1. CASE IsActive(s, w)
  BY <1>0, <1>1, MarkCompleteShape
<1>2. CASE ~IsActive(s, w)
  BY <1>2 DEF MarkComplete
<1> QED
  BY <1>1, <1>2

\* It takes no other workload out of the list.
LEMMA MarkCompleteOthers ==
  ASSUME NEW s, Pointed(s), NEW w, NEW v, v # w, IsActive(s, v)
  PROVE  IsActive(MarkComplete(s, w), v)
<1>1. CASE ~IsActive(s, w)
  BY <1>1 DEF MarkComplete
<1>2. CASE IsActive(s, w)
  <2> DEFINE n  == Len(s.active)
             at == PositionOf(s, w)
             t  == MarkComplete(s, w)
  <2>1. /\ n \in Nat /\ at \in 1 .. n /\ s.active[at] = w
        /\ Len(t.active) = n - 1
        /\ \A i \in 1 .. n - 1 :
             t.active[i] = IF i < at THEN s.active[i] ELSE s.active[i + 1]
    BY <1>2, MarkCompleteShape
  <2>2. PICK i \in 1 .. n : s.active[i] = v
    BY DEF IsActive
  <2> HIDE DEF n, at, t
  <2>3. CASE i < at
    <3>1. i \in 1 .. n - 1 /\ t.active[i] = v
      BY <2>1, <2>2, <2>3
    <3> QED
      BY <2>1, <3>1 DEF IsActive, t
  <2>4. CASE i > at
    <3>1. i - 1 \in 1 .. n - 1 /\ ~(i - 1 < at) /\ (i - 1) + 1 = i
      BY <2>1, <2>2, <2>4
    <3>2. t.active[i - 1] = v
      BY <2>1, <2>2, <3>1
    <3> QED
      BY <2>1, <3>1, <3>2 DEF IsActive, t
  <2> QED
    BY <2>1, <2>2, <2>3, <2>4
<1> QED
  BY <1>1, <1>2

-----------------------------------------------------------------------------
(* The directory.                                                          *)

\* A bounded set of numbers has a largest element.
LEMMA LargestExists ==
  ASSUME NEW S \in SUBSET Nat, S # {}, NEW bound \in Nat, \A k \in S : k <= bound
  PROVE  Largest(S) \in S /\ \A k \in S : k <= Largest(S)
<1> DEFINE U == {b \in Nat : \A k \in S : k <= b}
           R == OpToRel(<, Nat)
<1>1. U \subseteq Nat /\ U # {}
  OBVIOUS
<1>2. IsWellFoundedOn(R, Nat)
  BY NatLessThanWellFounded
<1> HIDE DEF R
<1>3. PICK m \in U : \A b \in U : ~(<< b, m >> \in R)
  BY <1>1, <1>2, WFMin
<1>4. \A b \in U : ~(b < m)
  <2> SUFFICES ASSUME NEW b \in U, b < m PROVE FALSE
    OBVIOUS
  <2>1. << b, m >> \in Nat \X Nat
    BY <1>1, <1>3
  <2>2. << b, m >> \in R
    BY <2>1 DEF R, OpToRel
  <2> QED
    BY <1>3, <2>2
<1>5. m \in S
  <2> SUFFICES ASSUME m \notin S PROVE FALSE
    OBVIOUS
  <2>1. m \in Nat /\ \A k \in S : k \in Nat /\ k < m
    BY <1>3
  <2>2. m >= 1
    <3>1. PICK k \in S : TRUE
      OBVIOUS
    <3> QED
      BY <2>1, <3>1
  <2>3. m - 1 \in U
    BY <2>1, <2>2
  <2> QED
    BY <1>4, <2>1, <2>3
<1>6. \A k \in S : k <= m
  BY <1>3
<1> HIDE DEF U
<1> QED
  BY <1>5, <1>6 DEF Largest

\* The resume attempts of a workload: what the three files know of it.
KnownOf(w) ==
  {IF saved = None THEN 0 ELSE saved.next[w]}
    \cup {journal[i].attempt + 1 : i \in {j \in DOMAIN journal : journal[j].w = w}}
    \cup {ResumeAccepted[w]}

\* Some number is beyond every attempt in the journal.
JournalBounded ==
  \E b \in Nat : \A i \in DOMAIN journal : journal[i].attempt + 1 <= b

LEMMA ResumeAcceptedType ==
  ASSUME StoreTypeOK PROVE ResumeAccepted \in [Workloads -> Nat]
<1> SUFFICES ASSUME NEW w \in Workloads
             PROVE  Cardinality({i \in DOMAIN traces : traces[i].w = w}) \in Nat
  BY DEF ResumeAccepted
<1>1. IsFiniteSet(1 .. Len(traces)) /\ DOMAIN traces = 1 .. Len(traces)
  BY FS_Interval DEF StoreTypeOK
<1>2. IsFiniteSet({i \in DOMAIN traces : traces[i].w = w})
  BY <1>1, FS_Subset
<1> QED
  BY <1>2, FS_CardinalityType

\* A resume point is one of the attempts the files know, and not below any.
LEMMA ResumeNextLargest ==
  ASSUME StoreTypeOK, JournalBounded, NEW w \in Workloads
  PROVE  /\ ResumeNext[w] \in Nat /\ ResumeNext[w] \in KnownOf(w)
         /\ \A k \in KnownOf(w) : k \in Nat /\ k <= ResumeNext[w]
<1>1. ResumeAccepted[w] \in Nat
  BY ResumeAcceptedType
<1>2. (IF saved = None THEN 0 ELSE saved.next[w]) \in Nat
  BY DEF StoreTypeOK, State
<1>3. \A i \in DOMAIN journal : journal[i].attempt \in Nat
  <2>1. journal \in Seq(Row) /\ DOMAIN journal = 1 .. Len(journal)
    BY DEF StoreTypeOK
  <2>2. \A i \in 1 .. Len(journal) : journal[i] \in Row
    BY <2>1, ElementOfSeq
  <2> QED
    BY <2>1, <2>2 DEF Row
<1>4. PICK b \in Nat : \A i \in DOMAIN journal : journal[i].attempt + 1 <= b
  BY DEF JournalBounded
<1>5. PICK top \in Nat : /\ b <= top /\ ResumeAccepted[w] <= top
                         /\ (IF saved = None THEN 0 ELSE saved.next[w]) <= top
  <2> DEFINE s == IF saved = None THEN 0 ELSE saved.next[w]
             top == b + ResumeAccepted[w] + s
  <2>1. s \in Nat
    BY <1>2
  <2> HIDE DEF s
  <2>2. top \in Nat /\ b <= top /\ ResumeAccepted[w] <= top /\ s <= top
    BY <1>1, <1>4, <2>1
  <2> QED
    BY <2>2 DEF s
<1>6. \A k \in KnownOf(w) : k \in Nat /\ k <= top
  BY <1>1, <1>2, <1>3, <1>4, <1>5 DEF KnownOf
<1>7. KnownOf(w) # {} /\ KnownOf(w) \in SUBSET Nat
  BY <1>6 DEF KnownOf
<1>8. ResumeNext[w] = Largest(KnownOf(w))
  BY DEF ResumeNext, KnownOf
<1> QED
  BY <1>5, <1>6, <1>7, <1>8, LargestExists

ResumeIsLargest ==
  \A w \in Workloads : /\ ResumeNext[w] \in Nat /\ ResumeNext[w] \in KnownOf(w)
                       /\ \A k \in KnownOf(w) : k \in Nat /\ k <= ResumeNext[w]

LEMMA ResumeIsLargestAlways ==
  /\ StoreTypeOK /\ JournalBounded => ResumeIsLargest
  /\ StoreTypeOK' /\ JournalBounded' => ResumeIsLargest'
<1>1. StoreTypeOK /\ JournalBounded => ResumeIsLargest
  BY ResumeNextLargest DEF ResumeIsLargest
<1> QED
  BY <1>1, PTL

LEMMA ResumeNextType ==
  ASSUME StoreTypeOK, JournalBounded PROVE ResumeNext \in [Workloads -> Nat]
<1>1. \A w \in Workloads : ResumeNext[w] \in Nat
  BY ResumeNextLargest
<1> QED
  BY <1>1 DEF ResumeNext

-----------------------------------------------------------------------------
(* The three ways in which a search writes to its directory.               *)

StoreInv == StoreTypeOK /\ JournalBounded /\ TracesDistinct /\ JournalConsistent

\* No resume point moves back.
Forward == \A w \in Workloads : ResumeNext'[w] >= ResumeNext[w]

\* Resume points go forward when everything they are computed from does.
LEMMA ForwardFromParts ==
  ASSUME StoreTypeOK, JournalBounded, StoreTypeOK', JournalBounded',
         \A w \in Workloads : ResumeAccepted'[w] >= ResumeAccepted[w],
         \A i \in DOMAIN journal : i \in DOMAIN journal' /\ journal'[i] = journal[i],
         saved # None => \A w \in Workloads : saved.next[w] <= ResumeNext'[w]
  PROVE  Forward
<1> SUFFICES ASSUME NEW w \in Workloads PROVE ResumeNext'[w] >= ResumeNext[w]
  BY DEF Forward
<1>1. ResumeNext[w] \in Nat /\ ResumeNext[w] \in KnownOf(w)
  BY ResumeNextLargest
<1>2. ResumeNext'[w] \in Nat /\ \A k \in KnownOf(w)' : k \in Nat /\ k <= ResumeNext'[w]
  BY ResumeIsLargestAlways DEF ResumeIsLargest
<1>3. CASE ResumeNext[w] = ResumeAccepted[w]
  <2>1. ResumeAccepted'[w] \in KnownOf(w)'
    BY DEF KnownOf
  <2> QED
    BY <1>1, <1>2, <1>3, <2>1
<1>4. CASE ResumeNext[w] = IF saved = None THEN 0 ELSE saved.next[w]
  BY <1>1, <1>2, <1>4
<1>5. CASE \E i \in DOMAIN journal : journal[i].w = w /\ ResumeNext[w] = journal[i].attempt + 1
  <2>1. PICK i \in DOMAIN journal : journal[i].w = w /\ ResumeNext[w] = journal[i].attempt + 1
    BY <1>5
  <2>2. i \in DOMAIN journal' /\ journal'[i].w = w /\ ResumeNext[w] = journal'[i].attempt + 1
    BY <2>1
  <2>3. ResumeNext[w] \in KnownOf(w)'
    BY <2>2 DEF KnownOf
  <2> QED
    BY <1>1, <1>2, <2>3
<1> QED
  BY <1>1, <1>3, <1>4, <1>5 DEF KnownOf

LEMMA ResumeAcceptedAlways ==
  /\ StoreTypeOK => ResumeAccepted \in [Workloads -> Nat]
  /\ StoreTypeOK' => (ResumeAccepted \in [Workloads -> Nat])'
<1>1. StoreTypeOK => ResumeAccepted \in [Workloads -> Nat]
  BY ResumeAcceptedType
<1> QED
  BY <1>1, PTL

\* A new trace file: of a mapping that is not in the directory.
LEMMA TraceWritten ==
  ASSUME StoreInv, NEW t \in Trace, << t.w, t.key >> \notin ResumeSeen,
         traces' = Append(traces, t),
         UNCHANGED << stream, journal, torn, saved, exit, runs >>
  PROVE  /\ StoreInv' /\ Forward
         /\ ResumeSeen' = ResumeSeen \cup {<< t.w, t.key >>}
         /\ Len(traces') = Len(traces) + 1 /\ traces'[Len(traces')] = t
         /\ \A i \in DOMAIN journal' : journal'[i].trace < Len(traces')
<1> DEFINE n == Len(traces)
<1>1. traces \in Seq(Trace) /\ n \in Nat /\ DOMAIN traces = 1 .. n
  BY DEF StoreInv, StoreTypeOK
<1>2. /\ traces' \in Seq(Trace) /\ DOMAIN traces' = 1 .. n + 1 /\ Len(traces') = n + 1
      /\ \A i \in 1 .. n : traces'[i] = traces[i]
      /\ traces'[n + 1] = t
  <2>1. /\ traces' \in Seq(Trace) /\ Len(traces') = n + 1
        /\ \A i \in 1 .. n : traces'[i] = traces[i]
        /\ traces'[n + 1] = t
    BY <1>1, AppendProperties
  <2> QED
    BY <2>1
<1> HIDE DEF n
<1>3. StoreTypeOK' /\ JournalBounded'
  BY <1>2 DEF StoreInv, StoreTypeOK, JournalBounded
<1>4. \A i \in 1 .. n : traces[i] # t
  BY <1>1 DEF ResumeSeen
<1>5. TracesDistinct'
  <2>1. \A i, j \in 1 .. n : traces[i] = traces[j] => i = j
    BY <1>1 DEF StoreInv, TracesDistinct
  <2>2. \A i \in 1 .. n + 1 : i \in 1 .. n \/ i = n + 1
    BY <1>1
  <2> QED
    BY <1>2, <1>4, <2>1, <2>2 DEF TracesDistinct
<1>6. \A i \in DOMAIN journal : journal[i].trace \in 1 .. n
  BY <1>1 DEF StoreInv, JournalConsistent
<1>7. JournalConsistent'
  <2>1. \A i \in DOMAIN journal :
          /\ journal[i].trace \in 1 .. n + 1
          /\ traces'[journal[i].trace] = traces[journal[i].trace]
    BY <1>1, <1>2, <1>6
  <2> QED
    BY <1>2, <2>1 DEF StoreInv, JournalConsistent, Draw
<1>8. ResumeSeen' = ResumeSeen \cup {<< t.w, t.key >>}
  <2>1. \A i \in 1 .. n + 1 : i \in 1 .. n \/ i = n + 1
    BY <1>1
  <2>2. 1 .. n \subseteq 1 .. n + 1 /\ n + 1 \in 1 .. n + 1
    BY <1>1
  <2> QED
    BY <1>1, <1>2, <2>1, <2>2 DEF ResumeSeen
<1>9. \A w \in Workloads : ResumeAccepted'[w] >= ResumeAccepted[w]
  <2> SUFFICES ASSUME NEW w \in Workloads PROVE ResumeAccepted'[w] >= ResumeAccepted[w]
    OBVIOUS
  <2> DEFINE before == {i \in DOMAIN traces : traces[i].w = w}
             after  == {i \in DOMAIN traces' : traces'[i].w = w}
  <2>1. before \subseteq after
    BY <1>1, <1>2
  <2>2. IsFiniteSet(after)
    <3>1. IsFiniteSet(1 .. n + 1)
      BY <1>1, FS_Interval
    <3> QED
      BY <1>2, <3>1, FS_Subset
  <2>3. Cardinality(before) <= Cardinality(after)
    BY <2>1, <2>2, FS_Subset
  <2>4. ResumeAccepted[w] = Cardinality(before) /\ ResumeAccepted'[w] = Cardinality(after)
    BY DEF ResumeAccepted
  <2>5. ResumeAccepted[w] \in Nat /\ ResumeAccepted'[w] \in Nat
    BY <1>3, ResumeAcceptedAlways DEF StoreInv
  <2> QED
    BY <2>3, <2>4, <2>5
<1>10. Forward
  <2>1. saved # None => \A w \in Workloads : saved.next[w] <= ResumeNext'[w]
    BY <1>3, ResumeIsLargestAlways DEF ResumeIsLargest, KnownOf
  <2> QED
    BY <1>3, <1>9, <2>1, ForwardFromParts DEF StoreInv
<1> QED
  BY <1>1, <1>2, <1>3, <1>5, <1>6, <1>7, <1>8, <1>10 DEF StoreInv, n

\* A new journal row: for the last trace file, by the attempt that drew it.
LEMMA RowWritten ==
  ASSUME StoreInv, NEW row \in Row,
         row.trace = Len(traces), traces[Len(traces)].w = row.w,
         \E s \in Seeds : traces[Len(traces)].key = Draw(s, row.w, row.attempt),
         \A i \in DOMAIN journal : journal[i].trace < Len(traces),
         journal' = Append(journal, row),
         UNCHANGED << stream, traces, torn, saved, exit, runs >>
  PROVE  StoreInv' /\ Forward /\ ResumeSeen' = ResumeSeen
<1> DEFINE n == Len(journal)
<1>1. /\ journal \in Seq(Row) /\ n \in Nat /\ DOMAIN journal = 1 .. n
      /\ traces \in Seq(Trace) /\ DOMAIN traces = 1 .. Len(traces) /\ Len(traces) \in Nat
  BY DEF StoreInv, StoreTypeOK
<1>2. /\ journal' \in Seq(Row) /\ DOMAIN journal' = 1 .. n + 1
      /\ \A i \in 1 .. n : journal'[i] = journal[i]
      /\ journal'[n + 1] = row
  <2>1. /\ journal' \in Seq(Row) /\ Len(journal') = n + 1
        /\ \A i \in 1 .. n : journal'[i] = journal[i]
        /\ journal'[n + 1] = row
    BY <1>1, AppendProperties
  <2> QED
    BY <2>1
<1> HIDE DEF n
<1>3. \A i \in 1 .. n + 1 : i \in 1 .. n \/ i = n + 1
  BY <1>1
<1>4. StoreTypeOK'
  BY <1>2 DEF StoreInv, StoreTypeOK
<1>5. JournalBounded'
  <2>1. PICK b \in Nat : \A i \in 1 .. n : journal[i].attempt + 1 <= b
    BY <1>1 DEF StoreInv, JournalBounded
  <2>2. \A i \in 1 .. n : journal[i] \in Row
    BY <1>1, ElementOfSeq DEF n
  <2>3. PICK c \in Nat : b <= c /\ row.attempt + 1 <= c
    <3>1. /\ b + row.attempt + 1 \in Nat /\ b <= b + row.attempt + 1
          /\ row.attempt + 1 <= b + row.attempt + 1
      BY DEF Row
    <3> QED
      BY <3>1
  <2>4. \A i \in 1 .. n : journal[i].attempt + 1 <= c
    BY <2>1, <2>2, <2>3 DEF Row
  <2> QED
    BY <1>2, <1>3, <2>3, <2>4 DEF JournalBounded
<1>6. TracesDistinct' /\ ResumeSeen' = ResumeSeen /\ ResumeAccepted' = ResumeAccepted
  BY DEF StoreInv, TracesDistinct, ResumeSeen, ResumeAccepted
<1>7. JournalConsistent'
  <2>1. \A i \in 1 .. n :
          /\ journal[i].trace \in DOMAIN traces /\ journal[i].trace < Len(traces)
          /\ traces[journal[i].trace].w = journal[i].w
          /\ \E s \in Seeds :
               traces[journal[i].trace].key = Draw(s, journal[i].w, journal[i].attempt)
    BY <1>1 DEF StoreInv, JournalConsistent
  <2>2. row.trace \in DOMAIN traces
    BY <1>1 DEF Row
  <2>3. \A i, j \in 1 .. n : i < j => journal[i].trace < journal[j].trace
    BY <1>1 DEF StoreInv, JournalConsistent
  <2>4. \A i, j \in 1 .. n + 1 : i < j => i \in 1 .. n /\ (j \in 1 .. n \/ j = n + 1)
    BY <1>1
  <2>5. \A i, j \in DOMAIN journal' : i < j => journal'[i].trace < journal'[j].trace
    <3> SUFFICES ASSUME NEW i \in 1 .. n + 1, NEW j \in 1 .. n + 1, i < j
                 PROVE  journal'[i].trace < journal'[j].trace
      BY <1>2
    <3>1. i \in 1 .. n /\ (j \in 1 .. n \/ j = n + 1)
      BY <2>4
    <3>2. CASE j \in 1 .. n
      BY <1>2, <2>3, <3>1, <3>2
    <3>3. CASE j = n + 1
      BY <1>2, <2>1, <3>1, <3>3
    <3> QED
      BY <3>1, <3>2, <3>3
  <2>6. \A i \in DOMAIN journal' :
          /\ journal'[i].trace \in DOMAIN traces
          /\ traces[journal'[i].trace].w = journal'[i].w
          /\ \E s \in Seeds :
               traces[journal'[i].trace].key = Draw(s, journal'[i].w, journal'[i].attempt)
    <3> SUFFICES ASSUME NEW i \in 1 .. n + 1
                 PROVE /\ journal'[i].trace \in DOMAIN traces
                       /\ traces[journal'[i].trace].w = journal'[i].w
                       /\ \E s \in Seeds : traces[journal'[i].trace].key
                                             = Draw(s, journal'[i].w, journal'[i].attempt)
      BY <1>2
    <3>1. CASE i \in 1 .. n
      BY <1>2, <2>1, <3>1
    <3>2. CASE i = n + 1
      BY <1>2, <2>2, <3>2
    <3> QED
      BY <1>3, <3>1, <3>2
  <2> QED
    BY <2>5, <2>6 DEF JournalConsistent, Draw
<1>8. Forward
  <2>1. \A w \in Workloads : ResumeAccepted'[w] >= ResumeAccepted[w]
    BY <1>6, ResumeAcceptedType DEF StoreInv
  <2>2. saved # None => \A w \in Workloads : saved.next[w] <= ResumeNext'[w]
    BY <1>4, <1>5, ResumeIsLargestAlways DEF ResumeIsLargest, KnownOf
  <2>3. \A i \in DOMAIN journal : i \in DOMAIN journal' /\ journal'[i] = journal[i]
    BY <1>1, <1>2
  <2> QED
    BY <1>4, <1>5, <2>1, <2>2, <2>3, ForwardFromParts DEF StoreInv
<1> QED
  BY <1>4, <1>5, <1>6, <1>7, <1>8 DEF StoreInv

\* A new state file, whose resume points are not below those of the last one.
LEMMA StateWritten ==
  ASSUME StoreInv, StoreTypeOK', saved' # None,
         saved # None => \A w \in Workloads : saved.next[w] <= saved'.next[w],
         UNCHANGED << stream, traces, journal >>
  PROVE  StoreInv' /\ Forward /\ ResumeSeen' = ResumeSeen
<1>1. /\ JournalBounded' /\ TracesDistinct' /\ JournalConsistent'
      /\ ResumeSeen' = ResumeSeen /\ ResumeAccepted' = ResumeAccepted
  BY DEF StoreInv, JournalBounded, TracesDistinct, JournalConsistent, Draw,
         ResumeSeen, ResumeAccepted
<1>2. \A w \in Workloads : ResumeAccepted'[w] >= ResumeAccepted[w]
  BY <1>1, ResumeAcceptedType DEF StoreInv
<1>3. saved # None => \A w \in Workloads : saved.next[w] <= ResumeNext'[w]
  <2> SUFFICES ASSUME saved # None, NEW w \in Workloads PROVE saved.next[w] <= ResumeNext'[w]
    OBVIOUS
  <2>1. saved'.next[w] \in KnownOf(w)'
    BY DEF KnownOf
  <2>2. /\ saved'.next[w] \in Nat /\ saved'.next[w] <= ResumeNext'[w]
        /\ ResumeNext'[w] \in Nat
    BY <1>1, <2>1, ResumeIsLargestAlways DEF ResumeIsLargest
  <2>3. saved.next[w] \in Nat
    BY DEF StoreInv, StoreTypeOK, State
  <2> QED
    BY <2>2, <2>3
<1>4. Forward
  BY <1>1, <1>2, <1>3, ForwardFromParts DEF StoreInv
<1> QED
  BY <1>1, <1>4 DEF StoreInv

\* Nothing written: whatever else happens.
LEMMA StoreKept ==
  ASSUME StoreInv, StoreTypeOK', UNCHANGED << stream, traces, journal, saved >>
  PROVE  StoreInv' /\ Forward /\ ResumeSeen' = ResumeSeen
<1>1. /\ JournalBounded' /\ TracesDistinct' /\ JournalConsistent'
      /\ ResumeSeen' = ResumeSeen /\ ResumeNext' = ResumeNext
  BY DEF StoreInv, JournalBounded, TracesDistinct, JournalConsistent, Draw,
         ResumeSeen, ResumeNext, ResumeAccepted
<1>2. Forward
  BY <1>1, ResumeNextType DEF StoreInv, Forward
<1> QED
  BY <1>1, <1>2 DEF StoreInv

-----------------------------------------------------------------------------
LEMMA Division ==
  ASSUME NEW a \in Nat, NEW b \in Nat \ {0}
  PROVE  /\ a \div b \in Nat /\ a % b \in 0 .. b - 1
         /\ a = b * (a \div b) + (a % b)
BY Z3

LEMMA QuotaType ==
  ASSUME NEW n \in Nat, NEW w \in Workloads PROVE Quota(n, w) \in Nat
BY Division, NumWorkloadsAssumption DEF Quota, Workloads

-----------------------------------------------------------------------------
(* What the directory has of the draws, for commands of one seed and one   *)
(* num_traces.  Everything a resume point rests on vouches for the legal   *)
(* draws before it: they are among the traces, unless the workload (or the *)
(* directory) has all it is to have.                                       *)

\* All commands are given one seed and one num_traces.
OneSetting == Seeds = {TheSeed} /\ TraceCounts = {TheCount}

\* Every legal draw of w before attempt p is among the traces.
KeptBelow(w, p) ==
  \A a \in Nat : a < p /\ IsLegalDraw(TheSeed, w, a)
                   => << w, Draw(TheSeed, w, a) >> \in ResumeSeen

Covered(w, p) ==
  \/ KeptBelow(w, p)
  \/ ResumeAccepted[w] >= Quota(TheCount, w)
  \/ Len(traces) >= TheCount

\* The traces of a workload are the legal draws up to some attempt.
Gapless ==
  \A w \in Workloads : \E p \in Nat :
    /\ KeptBelow(w, p)
    /\ \A i \in DOMAIN traces : traces[i].w = w =>
         \E a \in Nat : a < p /\ traces[i].key = Draw(TheSeed, w, a)

SampledInv ==
  /\ Gapless
  /\ \A i \in DOMAIN journal : KeptBelow(journal[i].w, journal[i].attempt + 1)
  /\ saved # None => \A w \in Workloads : Covered(w, saved.next[w])

\* As many attempts as a workload has traces have been used for them, at
\* least: the number of its files is a safe point to go on from.
LEMMA CountIsBelow ==
  ASSUME StoreInv, Gapless, NEW w \in Workloads
  PROVE  KeptBelow(w, ResumeAccepted[w])
<1> DEFINE D == {i \in DOMAIN traces : traces[i].w = w}
<1>1. PICK p \in Nat :
        /\ KeptBelow(w, p)
        /\ \A i \in D : \E a \in Nat : a < p /\ traces[i].key = Draw(TheSeed, w, a)
  BY DEF Gapless
<1> DEFINE T == 0 .. p - 1
           f == [i \in D |-> CHOOSE a \in T : traces[i].key = Draw(TheSeed, w, a)]
<1>2. \A i \in D : f[i] \in T /\ traces[i].key = Draw(TheSeed, w, f[i])
  <2> SUFFICES ASSUME NEW i \in D
               PROVE  f[i] \in T /\ traces[i].key = Draw(TheSeed, w, f[i])
    OBVIOUS
  <2>1. \E a \in T : traces[i].key = Draw(TheSeed, w, a)
    BY <1>1
  <2> HIDE DEF T, D
  <2>2. f[i] = CHOOSE a \in T : traces[i].key = Draw(TheSeed, w, a)
    OBVIOUS
  <2> HIDE DEF f
  <2> QED
    BY <2>1, <2>2
<1>3. f \in [D -> T]
  <2> HIDE DEF T, D
  <2> QED
    BY <1>2
<1>4. \A i, j \in D : f[i] = f[j] => i = j
  <2> HIDE DEF f
  <2> SUFFICES ASSUME NEW i \in D, NEW j \in D, f[i] = f[j] PROVE i = j
    OBVIOUS
  <2>1. traces[i].key = traces[j].key /\ traces[i].w = traces[j].w
    BY <1>2
  <2>2. traces[i] \in Trace /\ traces[j] \in Trace
    BY ElementOfSeq DEF StoreInv, StoreTypeOK
  <2>3. traces[i] = traces[j]
    BY <2>1, <2>2 DEF Trace
  <2> QED
    BY <2>3 DEF StoreInv, TracesDistinct
<1>5. f \in Injection(D, T)
  <2> HIDE DEF f, D, T
  <2> QED
    BY <1>3, <1>4, Fun_IsInj
<1>6. IsFiniteSet(T) /\ Cardinality(T) = p
  BY <1>1, FS_Interval
<1>7. Cardinality(D) <= p
  <2> HIDE DEF f, D, T
  <2> QED
    BY <1>5, <1>6, FS_Injection
<1>8. ResumeAccepted[w] = Cardinality(D) /\ ResumeAccepted[w] \in Nat
  BY ResumeAcceptedType DEF ResumeAccepted, StoreInv
<1> HIDE DEF D
<1>9. ResumeAccepted[w] <= p
  BY <1>7, <1>8
<1> QED
  BY <1>1, <1>8, <1>9 DEF KeptBelow

\* A workload is taken up where nothing legal has been left behind.
LEMMA ResumeIsCovered ==
  ASSUME StoreInv, SampledInv, NEW w \in Workloads
  PROVE  Covered(w, ResumeNext[w])
<1>1. ResumeNext[w] \in KnownOf(w)
  BY ResumeNextLargest DEF StoreInv
<1>2. CASE ResumeNext[w] = ResumeAccepted[w]
  BY <1>2, CountIsBelow DEF Covered, SampledInv
<1>3. CASE ResumeNext[w] = IF saved = None THEN 0 ELSE saved.next[w]
  <2>1. CASE saved = None
    BY <1>3, <2>1 DEF Covered, KeptBelow
  <2>2. CASE saved # None
    BY <1>3, <2>2 DEF SampledInv
  <2> QED
    BY <2>1, <2>2
<1>4. CASE \E i \in DOMAIN journal : journal[i].w = w /\ ResumeNext[w] = journal[i].attempt + 1
  BY <1>4 DEF Covered, SampledInv
<1> QED
  BY <1>1, <1>2, <1>3, <1>4 DEF KnownOf

\* What has been kept stays kept.
LEMMA KeptGrows ==
  ASSUME UNCHANGED stream, ResumeSeen \subseteq ResumeSeen'
  PROVE  \A w, p : KeptBelow(w, p) => KeptBelow(w, p)'
BY DEF KeptBelow, IsLegalDraw, Draw

LEMMA CoveredGrows ==
  ASSUME OneSetting, StoreTypeOK, StoreTypeOK',
         UNCHANGED stream, ResumeSeen \subseteq ResumeSeen',
         Len(traces) <= Len(traces'),
         \A w \in Workloads : ResumeAccepted'[w] >= ResumeAccepted[w],
         NEW w \in Workloads, NEW p, Covered(w, p)
  PROVE  Covered(w, p)'
<1>1. ResumeAccepted[w] \in Nat /\ ResumeAccepted'[w] \in Nat
  BY ResumeAcceptedAlways
<1>2. Len(traces) \in Nat /\ Len(traces') \in Nat
  BY DEF StoreTypeOK
<1>3. TheCount \in Nat /\ Quota(TheCount, w) \in Nat
  BY TraceCountsAssumption, QuotaType DEF OneSetting
<1> QED
  BY <1>1, <1>2, <1>3, KeptGrows DEF Covered

\* A trace file is written for the first legal draw that was left.
LEMMA SampledTrace ==
  ASSUME OneSetting, StoreInv, SampledInv, StoreTypeOK',
         NEW w \in Workloads, NEW a \in Nat,
         KeptBelow(w, a), IsLegalDraw(TheSeed, w, a),
         traces' = Append(traces, [w |-> w, key |-> Draw(TheSeed, w, a)]),
         ResumeSeen' = ResumeSeen \cup {<< w, Draw(TheSeed, w, a) >>},
         Len(traces') = Len(traces) + 1,
         \A v \in Workloads : ResumeAccepted'[v] >= ResumeAccepted[v],
         UNCHANGED << stream, journal, saved >>
  PROVE  SampledInv' /\ KeptBelow(w, a + 1)'
<1> DEFINE t == [w |-> w, key |-> Draw(TheSeed, w, a)]
           n == Len(traces)
<1>1. /\ traces \in Seq(Trace) /\ n \in Nat /\ DOMAIN traces = 1 .. n
      /\ t \in Trace
  BY KeysAssumption DEF StoreInv, StoreTypeOK, Trace, IsLegalDraw
<1>2. /\ DOMAIN traces' = 1 .. n + 1 /\ traces'[n + 1] = t
      /\ \A i \in 1 .. n : traces'[i] = traces[i]
  <2> HIDE DEF t
  <2>1. traces' = Append(traces, t)
    BY DEF t
  <2> QED
    BY <1>1, <2>1, AppendProperties
<1>3. UNCHANGED stream /\ ResumeSeen \subseteq ResumeSeen' /\ StoreTypeOK /\ Len(traces) <= Len(traces')
  BY <1>1 DEF StoreInv
<1>4. \A v, p : KeptBelow(v, p) => KeptBelow(v, p)'
  BY <1>3, KeptGrows
<1>5. KeptBelow(w, a + 1)'
  <2> SUFFICES ASSUME NEW b \in Nat, b < a + 1, IsLegalDraw(TheSeed, w, b)'
               PROVE  << w, Draw(TheSeed, w, b) >>' \in ResumeSeen'
    BY DEF KeptBelow
  <2>1. Draw(TheSeed, w, b)' = Draw(TheSeed, w, b) /\ IsLegalDraw(TheSeed, w, b)
    BY DEF Draw, IsLegalDraw
  <2>2. CASE b < a
    BY <2>1, <2>2 DEF KeptBelow
  <2>3. CASE b = a
    BY <2>1, <2>3
  <2> QED
    BY <2>2, <2>3
<1>6. Gapless'
  <2> SUFFICES ASSUME NEW v \in Workloads
               PROVE  \E p \in Nat :
                        /\ KeptBelow(v, p)'
                        /\ \A i \in DOMAIN traces' : traces'[i].w = v =>
                             \E b \in Nat : b < p /\ traces'[i].key = Draw(TheSeed, v, b)'
    BY DEF Gapless
  <2>1. PICK p \in Nat :
          /\ KeptBelow(v, p)
          /\ \A i \in DOMAIN traces : traces[i].w = v =>
               \E b \in Nat : b < p /\ traces[i].key = Draw(TheSeed, v, b)
    BY DEF SampledInv, Gapless
  <2>2. \A b \in Nat : Draw(TheSeed, v, b)' = Draw(TheSeed, v, b)
    BY DEF Draw
  <2>3. CASE v # w
    <3>1. \A i \in DOMAIN traces' : traces'[i].w = v => i \in DOMAIN traces /\ traces'[i] = traces[i]
      BY <1>1, <1>2, <2>3
    <3> QED
      BY <1>4, <2>1, <2>2, <3>1
  <2>4. CASE v = w
    <3>1. PICK q \in Nat : p <= q /\ a + 1 <= q /\ (q = p \/ q = a + 1)
      <4>1. CASE p <= a
        <5>1. a + 1 \in Nat /\ p <= a + 1
          BY <2>1, <4>1
        <5> QED
          BY <5>1
      <4>2. CASE ~(p <= a)
        <5>1. a + 1 <= p
          BY <2>1, <4>2
        <5> QED
          BY <2>1, <5>1
      <4> QED
        BY <4>1, <4>2
    <3>2. KeptBelow(v, q)'
      BY <1>4, <1>5, <2>1, <2>4, <3>1
    <3>3. ASSUME NEW i \in DOMAIN traces', traces'[i].w = v
          PROVE  \E b \in Nat : b < q /\ traces'[i].key = Draw(TheSeed, v, b)'
      <4>1. CASE i \in 1 .. n
        <5>1. PICK b \in Nat : b < p /\ traces[i].key = Draw(TheSeed, v, b)
          BY <1>1, <1>2, <2>1, <3>3, <4>1
        <5> QED
          BY <1>2, <2>2, <3>1, <4>1, <5>1
      <4>2. CASE i = n + 1
        <5>1. traces'[i].key = Draw(TheSeed, v, a) /\ a < q
          BY <1>2, <2>4, <3>1, <4>2
        <5> QED
          BY <2>2, <5>1
      <4> QED
        BY <1>1, <1>2, <4>1, <4>2
    <3> QED
      BY <3>1, <3>2, <3>3
  <2> QED
    BY <2>3, <2>4
<1>7. (\A i \in DOMAIN journal : KeptBelow(journal[i].w, journal[i].attempt + 1))'
  BY <1>4 DEF SampledInv, KeptBelow
<1>8. (saved # None => \A v \in Workloads : Covered(v, saved.next[v]))'
  <2> SUFFICES ASSUME saved # None, NEW v \in Workloads PROVE Covered(v, saved.next[v])'
    OBVIOUS
  <2>1. PICK p : p = saved.next[v]
    OBVIOUS
  <2>2. Covered(v, p)
    BY <2>1 DEF SampledInv
  <2>3. Covered(v, p)'
    BY <1>3, <2>2, CoveredGrows
  <2> QED
    BY <2>1, <2>3 DEF Covered, KeptBelow
<1> QED
  BY <1>5, <1>6, <1>7, <1>8 DEF SampledInv

\* Steps that write no trace file.
LEMMA SampledKeeps ==
  ASSUME UNCHANGED << stream, traces >>
  PROVE  /\ ResumeSeen' = ResumeSeen /\ ResumeAccepted' = ResumeAccepted
         /\ Gapless => Gapless'
         /\ \A w, p : KeptBelow(w, p)' = KeptBelow(w, p)
         /\ \A w, p : Covered(w, p)' = Covered(w, p)
<1>1. ResumeSeen' = ResumeSeen /\ ResumeAccepted' = ResumeAccepted
  BY DEF ResumeSeen, ResumeAccepted
<1>2. \A w, p : KeptBelow(w, p)' = KeptBelow(w, p)
  BY <1>1 DEF KeptBelow, IsLegalDraw, Draw
<1>3. \A w, p : Covered(w, p)' = Covered(w, p)
  BY <1>1, <1>2 DEF Covered
<1>4. Gapless => Gapless'
  BY <1>2 DEF Gapless, Draw
<1> QED
  BY <1>1, <1>2, <1>3, <1>4

\* A row is written for the attempt that drew the last trace.
LEMMA SampledRow ==
  ASSUME StoreInv, SampledInv, NEW row \in Row, KeptBelow(row.w, row.attempt + 1),
         journal' = Append(journal, row),
         UNCHANGED << stream, traces, saved >>
  PROVE  SampledInv'
<1>1. /\ journal \in Seq(Row) /\ Len(journal) \in Nat /\ DOMAIN journal = 1 .. Len(journal)
  BY DEF StoreInv, StoreTypeOK
<1>2. /\ DOMAIN journal' = 1 .. Len(journal) + 1 /\ journal'[Len(journal) + 1] = row
      /\ \A i \in 1 .. Len(journal) : journal'[i] = journal[i]
  BY <1>1, AppendProperties
<1>3. \A i \in DOMAIN journal' : KeptBelow(journal'[i].w, journal'[i].attempt + 1)
  BY <1>1, <1>2 DEF SampledInv
<1>4. (\A i \in DOMAIN journal : KeptBelow(journal[i].w, journal[i].attempt + 1))'
  <2> SUFFICES ASSUME NEW i \in DOMAIN journal'
               PROVE  KeptBelow(journal[i].w, journal[i].attempt + 1)'
    OBVIOUS
  <2>1. PICK w, p : w = journal'[i].w /\ p = journal'[i].attempt + 1
    OBVIOUS
  <2>2. KeptBelow(w, p)'
    BY <1>3, <2>1, SampledKeeps
  <2> QED
    BY <2>1, <2>2 DEF KeptBelow
<1>5. (saved # None => \A w \in Workloads : Covered(w, saved.next[w]))'
  <2> SUFFICES ASSUME saved # None, NEW w \in Workloads PROVE Covered(w, saved.next[w])'
    OBVIOUS
  <2>1. PICK p : p = saved.next[w]
    OBVIOUS
  <2>2. Covered(w, p)'
    BY <2>1, SampledKeeps DEF SampledInv
  <2> QED
    BY <2>1, <2>2 DEF Covered, KeptBelow
<1> QED
  BY <1>4, <1>5, SampledKeeps DEF SampledInv

\* The state file is written with resume points that are covered.
LEMMA SampledState ==
  ASSUME SampledInv, UNCHANGED << stream, traces, journal >>,
         NEW next, \A w \in Workloads : Covered(w, next[w]),
         saved' = saved \/ saved'.next = next
  PROVE  SampledInv'
<1>1. (\A i \in DOMAIN journal : KeptBelow(journal[i].w, journal[i].attempt + 1))'
  <2> SUFFICES ASSUME NEW i \in DOMAIN journal
               PROVE  KeptBelow(journal[i].w, journal[i].attempt + 1)'
    OBVIOUS
  <2>1. PICK w, p : w = journal[i].w /\ p = journal[i].attempt + 1
    OBVIOUS
  <2>2. KeptBelow(w, p)'
    BY <2>1, SampledKeeps DEF SampledInv
  <2> QED
    BY <2>1, <2>2 DEF KeptBelow
<1>2. (saved # None => \A w \in Workloads : Covered(w, saved.next[w]))'
  <2> SUFFICES ASSUME saved' # None, NEW w \in Workloads PROVE Covered(w, saved.next[w])'
    OBVIOUS
  <2>1. PICK p : p = saved'.next[w]
    OBVIOUS
  <2>2. Covered(w, p)'
    BY <2>1, SampledKeeps DEF SampledInv
  <2> QED
    BY <2>1, <2>2 DEF Covered, KeptBelow
<1> QED
  BY <1>1, <1>2, SampledKeeps DEF SampledInv

LEMMA SampledKept ==
  ASSUME SampledInv, UNCHANGED << stream, traces, journal, saved >> PROVE SampledInv'
<1>1. SampledInv' = SampledInv
  BY DEF SampledInv, Gapless, Covered, KeptBelow, ResumeSeen, ResumeAccepted, IsLegalDraw, Draw
<1> QED
  BY <1>1

-----------------------------------------------------------------------------
\* A new trace file counts for its workload.
LEMMA CountWritten ==
  ASSUME StoreInv, StoreTypeOK', NEW t \in Trace, traces' = Append(traces, t)
  PROVE  \A w \in Workloads :
           ResumeAccepted'[w] = ResumeAccepted[w] + (IF w = t.w THEN 1 ELSE 0)
<1> DEFINE n == Len(traces)
<1>1. traces \in Seq(Trace) /\ n \in Nat /\ DOMAIN traces = 1 .. n
  BY DEF StoreInv, StoreTypeOK
<1>2. /\ DOMAIN traces' = 1 .. n + 1 /\ traces'[n + 1] = t
      /\ \A i \in 1 .. n : traces'[i] = traces[i]
  BY <1>1, AppendProperties
<1> SUFFICES ASSUME NEW w \in Workloads
             PROVE  ResumeAccepted'[w] = ResumeAccepted[w] + (IF w = t.w THEN 1 ELSE 0)
  OBVIOUS
<1> DEFINE before == {i \in DOMAIN traces : traces[i].w = w}
           after  == {i \in DOMAIN traces' : traces'[i].w = w}
<1> HIDE DEF n
<1>3. IsFiniteSet(before) /\ n + 1 \notin before
  <2>1. IsFiniteSet(1 .. n)
    BY <1>1, FS_Interval
  <2>2. before \subseteq 1 .. n /\ n + 1 \notin 1 .. n
    BY <1>1
  <2> QED
    BY <2>1, <2>2, FS_Subset
<1>4. after = IF w = t.w THEN before \cup {n + 1} ELSE before
  <2>1. \A i : i \in 1 .. n + 1 <=> (i \in 1 .. n \/ i = n + 1)
    BY <1>1
  <2>2. n + 1 \notin 1 .. n
    BY <1>1
  <2> QED
    BY <1>1, <1>2, <2>1, <2>2
<1>5. ResumeAccepted[w] = Cardinality(before) /\ ResumeAccepted'[w] = Cardinality(after)
      /\ ResumeAccepted[w] \in Nat
  BY ResumeAcceptedType DEF ResumeAccepted, StoreInv
<1> HIDE DEF before, after
<1>6. CASE w = t.w
  <2>1. Cardinality(before \cup {n + 1}) = Cardinality(before) + 1
    BY <1>3, FS_AddElement
  <2> QED
    BY <1>4, <1>5, <1>6, <2>1
<1>7. CASE w # t.w
  BY <1>4, <1>5, <1>7
<1> QED
  BY <1>6, <1>7

-----------------------------------------------------------------------------
\* A set of numbers that has an element has a least one.
LEMMA LeastExists ==
  ASSUME NEW S \in SUBSET Nat, NEW b \in S
  PROVE  \E m \in S : \A k \in S : m <= k
<1> DEFINE R == OpToRel(<, Nat)
<1>1. IsWellFoundedOn(R, Nat)
  BY NatLessThanWellFounded
<1> HIDE DEF R
<1>2. PICK m \in S : \A k \in S : ~(<< k, m >> \in R)
  BY <1>1, WFMin
<1>3. ASSUME NEW k \in S PROVE m <= k
  <2> SUFFICES ASSUME k < m PROVE FALSE
    OBVIOUS
  <2>1. << k, m >> \in Nat \X Nat
    BY <1>2
  <2>2. << k, m >> \in R
    BY <2>1 DEF R, OpToRel
  <2> QED
    BY <1>2, <2>2
<1> QED
  BY <1>2, <1>3

\* When every workload has its share, the directory has all the traces: the
\* shares add up to the number asked for.
LEMMA SharesAddUp ==
  ASSUME StoreInv, NEW n \in Nat,
         \A w \in Workloads : ResumeAccepted[w] >= Quota(n, w)
  PROVE  Len(traces) >= n
<1> DEFINE D(w) == {i \in DOMAIN traces : traces[i].w = w}
           W(k) == ((k - 1) % NumWorkloads) + 1
           O(k) == ((k - 1) \div NumWorkloads) + 1
<1>1. NumWorkloads \in Nat \ {0} /\ traces \in Seq(Trace) /\ Len(traces) \in Nat
      /\ DOMAIN traces = 1 .. Len(traces)
  BY NumWorkloadsAssumption DEF StoreInv, StoreTypeOK
<1>2. ASSUME NEW k \in 1 .. n
      PROVE  /\ W(k) \in Workloads /\ O(k) \in Nat \ {0} /\ O(k) <= Quota(n, W(k))
             /\ k - 1 = (NumWorkloads * (O(k) - 1)) + (W(k) - 1)
  <2> DEFINE q == (k - 1) \div NumWorkloads
             r == (k - 1) % NumWorkloads
             p == n \div NumWorkloads
             s == n % NumWorkloads
  <2>1. k - 1 \in Nat
    OBVIOUS
  <2>2. q \in Nat /\ r \in 0 .. NumWorkloads - 1 /\ k - 1 = (NumWorkloads * q) + r
    BY <1>1, <2>1, Division
  <2>3. p \in Nat /\ s \in 0 .. NumWorkloads - 1 /\ n = (NumWorkloads * p) + s
    BY <1>1, Division
  <2> HIDE DEF q, r, p, s
  <2>4. q < p \/ (q = p /\ r < s)
    <3>1. CASE q > p
      <4>1. PICK e \in Nat : q = p + 1 + e
        <5>1. q - p - 1 \in Nat /\ q = p + 1 + (q - p - 1)
          BY <2>2, <2>3, <3>1
        <5> QED
          BY <5>1
      <4>2. NumWorkloads * q = (NumWorkloads * p) + NumWorkloads + (NumWorkloads * e)
        BY <1>1, <2>2, <2>3, <4>1
      <4>3. NumWorkloads * e \in Nat /\ NumWorkloads * p \in Nat
        BY <1>1, <2>3
      <4> QED
        BY <1>1, <2>1, <2>2, <2>3, <4>2, <4>3
    <3>2. CASE q = p
      <4>1. NumWorkloads * p \in Nat
        BY <1>1, <2>3
      <4> QED
        BY <1>1, <2>2, <2>3, <3>2, <4>1
    <3> QED
      BY <2>2, <2>3, <3>1, <3>2
  <2>5. W(k) = r + 1 /\ O(k) = q + 1
    BY DEF q, r
  <2>6. Quota(n, W(k)) = p + (IF W(k) <= s THEN 1 ELSE 0)
    BY DEF Quota, p, s
  <2> HIDE DEF W, O
  <2>7. O(k) <= Quota(n, W(k))
    BY <2>2, <2>3, <2>4, <2>5, <2>6
  <2> QED
    BY <1>1, <2>2, <2>5, <2>7 DEF Workloads
<1> HIDE DEF W, O
<1>3. ASSUME NEW w \in Workloads
      PROVE  \E h \in [1 .. ResumeAccepted[w] -> D(w)] :
               \A i, j \in 1 .. ResumeAccepted[w] : h[i] = h[j] => i = j
  <2>1. IsFiniteSet(D(w))
    <3>1. IsFiniteSet(1 .. Len(traces))
      BY <1>1, FS_Interval
    <3> QED
      BY <1>1, <3>1, FS_Subset
  <2>2. ResumeAccepted[w] = Cardinality(D(w))
    BY DEF ResumeAccepted
  <2> HIDE DEF D
  <2>3. ExistsBijection(1 .. Cardinality(D(w)), D(w))
    BY <2>1, FS_CardinalityType
  <2> QED
    BY <2>2, <2>3 DEF ExistsBijection, Bijection, Injection, Surjection, IsInjective
<1> DEFINE H == [w \in Workloads |->
                   CHOOSE h \in [1 .. ResumeAccepted[w] -> D(w)] :
                     \A i, j \in 1 .. ResumeAccepted[w] : h[i] = h[j] => i = j]
           g == [k \in 1 .. n |-> H[W(k)][O(k)]]
<1>4. ASSUME NEW w \in Workloads
      PROVE  /\ H[w] \in [1 .. ResumeAccepted[w] -> D(w)]
             /\ \A i, j \in 1 .. ResumeAccepted[w] : H[w][i] = H[w][j] => i = j
  <2> HIDE DEF D
  <2> QED
    BY <1>3
<1> HIDE DEF H
<1>5. \A w \in Workloads : ResumeAccepted[w] \in Nat
  BY ResumeAcceptedType DEF StoreInv
<1>6. \A k \in 1 .. n : O(k) \in 1 .. ResumeAccepted[W(k)]
  <2> SUFFICES ASSUME NEW k \in 1 .. n PROVE O(k) \in 1 .. ResumeAccepted[W(k)]
    OBVIOUS
  <2>1. Quota(n, W(k)) \in Nat
    BY <1>2, QuotaType
  <2> QED
    BY <1>2, <1>5, <2>1
<1>7. \A k \in 1 .. n : g[k] \in D(W(k))
  <2> HIDE DEF D
  <2> QED
    BY <1>2, <1>4, <1>6
<1>8. g \in [1 .. n -> DOMAIN traces]
  BY <1>7
<1>9. \A k, l \in 1 .. n : g[k] = g[l] => k = l
  <2> SUFFICES ASSUME NEW k \in 1 .. n, NEW l \in 1 .. n, g[k] = g[l] PROVE k = l
    OBVIOUS
  <2>1. W(k) = W(l)
    BY <1>7
  <2>2. g[k] = H[W(k)][O(k)] /\ g[l] = H[W(k)][O(l)]
    BY <2>1
  <2> HIDE DEF g
  <2>3. O(k) = O(l)
    BY <1>2, <1>4, <1>6, <2>1, <2>2
  <2>4. k - 1 = l - 1
    BY <1>2, <2>1, <2>3
  <2> QED
    BY <2>4
<1>10. g \in Injection(1 .. n, DOMAIN traces)
  <2> HIDE DEF g
  <2> QED
    BY <1>8, <1>9, Fun_IsInj
<1>11. /\ IsFiniteSet(1 .. n) /\ Cardinality(1 .. n) = n
       /\ IsFiniteSet(DOMAIN traces) /\ Cardinality(DOMAIN traces) = Len(traces)
  <2>1. \A m \in Nat : IsFiniteSet(1 .. m) /\ Cardinality(1 .. m) = m
    <3> SUFFICES ASSUME NEW m \in Nat PROVE IsFiniteSet(1 .. m) /\ Cardinality(1 .. m) = m
      OBVIOUS
    <3>1. /\ IsFiniteSet(1 .. m)
          /\ Cardinality(1 .. m) = IF 1 > m THEN 0 ELSE m - 1 + 1
      BY FS_Interval
    <3> QED
      BY <3>1
  <2> QED
    BY <1>1, <2>1
<1>12. Cardinality(1 .. n) <= Cardinality(DOMAIN traces)
  <2> HIDE DEF g
  <2> QED
    BY <1>10, <1>11, FS_Injection
<1> QED
  BY <1>1, <1>11, <1>12

-----------------------------------------------------------------------------
(* The scheduler on its own is fair and exact.                             *)

\* No workload is active twice.
ActiveDistinct ==
  \A i, j \in 1 .. Len(scheduler.active) : scheduler.active[i] = scheduler.active[j] => i = j

\* The active workloads in front of the cursor have had one turn more.
InRound(t) ==
  \A i \in 1 .. Len(scheduler.active) :
    turns[scheduler.active[i]] = IF i <= scheduler.cursor THEN t + 1 ELSE t

TurnsInv ==
  /\ TurnsTypeOK
  /\ Pointed(scheduler)
  /\ ActiveDistinct
  /\ \E t \in Nat : InRound(t)

-----------------------------------------------------------------------------
LEMMA TurnsInvInit == TurnsInit => TurnsInv
<1> SUFFICES ASSUME TurnsInit PROVE TurnsInv
  OBVIOUS
<1>1. PICK eligible \in Workloads : scheduler = NewScheduler(eligible, start)
  BY DEF TurnsInit
<1>2. start \in [Workloads -> Nat]
  BY SeedIndicesAssumption DEF TurnsInit
<1>3. Pointed(scheduler)
  BY <1>1, <1>2, NewSchedulerPointed
<1>4. TurnsTypeOK
  BY <1>2, <1>3 DEF TurnsInit, TurnsTypeOK, Pointed
<1>5. /\ eligible \in Nat /\ scheduler.cursor = 0
      /\ scheduler.active = [w \in 1 .. eligible |-> w]
  BY <1>1, NumWorkloadsAssumption DEF NewScheduler, Workloads
<1>6. /\ Len(scheduler.active) = eligible
      /\ \A i \in 1 .. Len(scheduler.active) : scheduler.active[i] = i /\ i \in Workloads
  BY <1>5, <1>1, NumWorkloadsAssumption DEF Workloads
<1>7. ActiveDistinct
  BY <1>6 DEF ActiveDistinct
<1>8. InRound(0)
  BY <1>5, <1>6 DEF InRound, TurnsInit
<1> QED
  BY <1>3, <1>4, <1>7, <1>8 DEF TurnsInv

LEMMA TurnsInvDraw == TurnsInv /\ DrawChunk => TurnsInv'
<1> SUFFICES ASSUME TurnsInv, DrawChunk PROVE TurnsInv'
  OBVIOUS
<1> DEFINE c == NextChunk(scheduler)
           n == Len(scheduler.active)
<1>1. Pointed(scheduler) /\ HasChunk(scheduler) /\ scheduler' = AfterNextChunk(scheduler)
  BY DEF TurnsInv, DrawChunk
<1>2. /\ c \in Chunk /\ c.w = scheduler.active[scheduler.cursor + 1]
  BY <1>1, NextChunkType
<1>3. /\ Pointed(scheduler') /\ scheduler'.active = scheduler.active
      /\ scheduler'.cursor = IF scheduler.cursor + 1 = n THEN 0 ELSE scheduler.cursor + 1
  BY <1>1, AfterNextChunkPointed
<1>4. n \in Nat /\ scheduler.cursor \in Nat /\ scheduler.cursor < n
  BY <1>1 DEF Pointed, HasChunk, Scheduler
<1>5. turns \in [Workloads -> Nat] /\ turns' = [turns EXCEPT ![c.w] = @ + 1]
  BY DEF TurnsInv, TurnsTypeOK, DrawChunk
<1>6. \A i \in 1 .. n : scheduler.active[i] \in Workloads
  BY <1>1, ElementOfSeq DEF Pointed, Scheduler
<1>7. TurnsTypeOK'
  BY <1>2, <1>3, <1>5 DEF TurnsInv, TurnsTypeOK, DrawChunk, Pointed, Chunk
<1>8. ActiveDistinct'
  BY <1>3 DEF TurnsInv, ActiveDistinct
<1>9. PICK t \in Nat : InRound(t)
  BY DEF TurnsInv
<1> HIDE DEF c, n
<1>10. \A i \in 1 .. n : turns'[scheduler.active[i]] = IF i <= scheduler.cursor + 1 THEN t + 1 ELSE t
  <2> SUFFICES ASSUME NEW i \in 1 .. n
               PROVE  turns'[scheduler.active[i]] = IF i <= scheduler.cursor + 1 THEN t + 1 ELSE t
    OBVIOUS
  <2>1. turns[scheduler.active[i]] = IF i <= scheduler.cursor THEN t + 1 ELSE t
    BY <1>9 DEF InRound, n
  <2>2. scheduler.active[i] = c.w <=> i = scheduler.cursor + 1
    BY <1>2, <1>4 DEF TurnsInv, ActiveDistinct, n
  <2> QED
    BY <1>4, <1>5, <1>6, <2>1, <2>2
<1>11. CASE scheduler.cursor + 1 = n
  <2>1. InRound(t + 1)'
    BY <1>3, <1>4, <1>10, <1>11 DEF InRound, n
  <2> QED
    BY <1>3, <1>7, <1>8, <2>1 DEF TurnsInv
<1>12. CASE scheduler.cursor + 1 # n
  <2>1. InRound(t)'
    BY <1>3, <1>4, <1>10, <1>12 DEF InRound, n
  <2> QED
    BY <1>3, <1>7, <1>8, <2>1 DEF TurnsInv
<1> QED
  BY <1>11, <1>12

LEMMA TurnsInvComplete == ASSUME NEW w \in Workloads, TurnsInv, Complete(w) PROVE TurnsInv'
<1> DEFINE n == Len(scheduler.active)
           at == PositionOf(scheduler, w)
<1>1. Pointed(scheduler) /\ scheduler' = MarkComplete(scheduler, w) /\ turns' = turns
  BY DEF TurnsInv, Complete
<1>2. Pointed(scheduler')
  BY <1>1, MarkCompletePointed
<1>3. TurnsTypeOK'
  BY <1>2 DEF TurnsInv, TurnsTypeOK, Complete, Pointed
<1>4. CASE ~IsActive(scheduler, w)
  <2>1. scheduler' = scheduler
    BY <1>1, <1>4 DEF MarkComplete
  <2> QED
    BY <1>1, <1>2, <1>3, <2>1 DEF TurnsInv, ActiveDistinct, InRound
<1>5. CASE IsActive(scheduler, w)
  <2>1. /\ n \in Nat /\ at \in 1 .. n
        /\ Len(scheduler'.active) = n - 1
        /\ \A i \in 1 .. n - 1 :
             scheduler'.active[i] = IF i < at THEN scheduler.active[i] ELSE scheduler.active[i + 1]
        /\ scheduler'.cursor = IF at - 1 < scheduler.cursor THEN scheduler.cursor - 1
                           ELSE IF scheduler.cursor >= n - 1 THEN 0 ELSE scheduler.cursor
    BY <1>1, <1>5, MarkCompleteShape
  <2>2. scheduler.cursor \in Nat /\ scheduler.cursor < n
    BY <1>1, <2>1, EmptySeq DEF Pointed, Scheduler
  <2> HIDE DEF n, at
  <2>3. ActiveDistinct'
    <3> SUFFICES ASSUME NEW i \in 1 .. n - 1, NEW j \in 1 .. n - 1,
                        scheduler'.active[i] = scheduler'.active[j]
                 PROVE  i = j
      BY <2>1 DEF ActiveDistinct
    <3>1. \A k, l \in 1 .. n : scheduler.active[k] = scheduler.active[l] => k = l
      BY DEF TurnsInv, ActiveDistinct, n
    <3> QED
      BY <2>1, <3>1
  <2>4. PICK t \in Nat : InRound(t)
    BY DEF TurnsInv
  <2>5. \A i \in 1 .. n : turns[scheduler.active[i]] = IF i <= scheduler.cursor THEN t + 1 ELSE t
    BY <2>4 DEF InRound, n
  <2>6. CASE at - 1 >= scheduler.cursor /\ scheduler.cursor >= n - 1
    <3>1. \A i \in 1 .. n - 1 : turns'[scheduler'.active[i]] = t + 1
      BY <1>1, <2>1, <2>2, <2>5, <2>6
    <3>2. InRound(t + 1)'
      BY <2>1, <2>2, <2>6, <3>1 DEF InRound
    <3> QED
      BY <1>2, <1>3, <2>3, <3>2 DEF TurnsInv
  <2>7. CASE ~(at - 1 >= scheduler.cursor /\ scheduler.cursor >= n - 1)
    <3>1. \A i \in 1 .. n - 1 :
            turns'[scheduler'.active[i]] = IF i <= scheduler'.cursor THEN t + 1 ELSE t
      <4> SUFFICES ASSUME NEW i \in 1 .. n - 1
                   PROVE  turns'[scheduler'.active[i]] = IF i <= scheduler'.cursor THEN t + 1 ELSE t
        OBVIOUS
      <4>1. scheduler'.cursor = IF at - 1 < scheduler.cursor THEN scheduler.cursor - 1 ELSE scheduler.cursor
        BY <2>1, <2>2, <2>7
      <4>2. CASE i < at
        <5>1. turns'[scheduler'.active[i]] = IF i <= scheduler.cursor THEN t + 1 ELSE t
          BY <1>1, <2>1, <2>5, <4>2
        <5> QED
          BY <2>1, <2>2, <4>1, <4>2, <5>1
      <4>3. CASE i >= at
        <5>1. turns'[scheduler'.active[i]] = IF i + 1 <= scheduler.cursor THEN t + 1 ELSE t
          BY <1>1, <2>1, <2>5, <4>3
        <5> QED
          BY <2>1, <2>2, <4>1, <4>3, <5>1
      <4> QED
        BY <2>1, <4>2, <4>3
    <3>2. InRound(t)'
      BY <2>1, <3>1 DEF InRound
    <3> QED
      BY <1>2, <1>3, <2>3, <3>2 DEF TurnsInv
  <2> QED
    BY <2>6, <2>7
<1> QED
  BY <1>4, <1>5

-----------------------------------------------------------------------------
\* The inductive invariant holds throughout.
LEMMA TurnsInvariant == TurnsSpec => []TurnsInv
<1>1. TurnsInv /\ [TurnsNext]_turnsVars => TurnsInv'
  <2> SUFFICES ASSUME TurnsInv, [TurnsNext]_turnsVars PROVE TurnsInv'
    OBVIOUS
  <2>1. CASE DrawChunk
    BY <2>1, TurnsInvDraw
  <2>2. CASE \E w \in Workloads : Complete(w)
    BY <2>2, TurnsInvComplete
  <2>3. CASE UNCHANGED turnsVars
    BY <2>3 DEF turnsVars, TurnsInv, TurnsTypeOK, Pointed, ActiveDistinct, InRound
  <2> QED
    BY <2>1, <2>2, <2>3 DEF TurnsNext
<1> QED
  BY <1>1, TurnsInvInit, PTL DEF TurnsSpec

\* The scheduler object stays well formed: its cursor never leaves Nat, its
\* seeds never go negative, every chunk handed out is one of a workload.
THEOREM TurnsTypeCorrect == TurnsSpec => []TurnsTypeOK
<1>1. TurnsInv => TurnsTypeOK
  BY DEF TurnsInv
<1> QED
  BY <1>1, TurnsInvariant, PTL

\* Two workloads that are both still active never differ by more than one
\* turn, however many were marked complete, and in whatever order.
THEOREM RoundRobinFair == TurnsSpec => []TurnsBalanced
<1>1. TurnsInv => TurnsBalanced
  <2> SUFFICES ASSUME TurnsInv, NEW v \in ActiveSet, NEW w \in ActiveSet
               PROVE  turns[v] <= turns[w] + 1
    BY DEF TurnsBalanced
  <2>1. PICK t \in Nat : InRound(t)
    BY DEF TurnsInv
  <2>2. \A u \in ActiveSet : turns[u] = t \/ turns[u] = t + 1
    BY <2>1 DEF ActiveSet, InRound
  <2> QED
    BY <2>1, <2>2
<1> QED
  BY <1>1, TurnsInvariant, PTL

-----------------------------------------------------------------------------
\* No chunk reaches beyond the next attempt of its workload.
Enclosed == \A c \in issuedRanges : c.start + c.attempted <= scheduler.next[c.w]

TileInv == TurnsInv /\ Enclosed /\ RangesTile

LEMMA TileInvInit == TurnsInit => Enclosed /\ RangesTile
<1> SUFFICES ASSUME TurnsInit PROVE Enclosed /\ RangesTile
  OBVIOUS
<1>1. scheduler.next = start /\ issuedRanges = {}
  BY DEF TurnsInit, NewScheduler
<1>2. start \in [Workloads -> Nat]
  BY SeedIndicesAssumption DEF TurnsInit
<1>3. \A w \in Workloads : start[w] .. scheduler.next[w] - 1 = {}
  BY <1>1, <1>2
<1> QED
  BY <1>1, <1>3 DEF RangesTile, Enclosed

LEMMA TileInvDraw == TileInv /\ DrawChunk => Enclosed' /\ RangesTile'
<1> SUFFICES ASSUME TileInv, DrawChunk PROVE Enclosed' /\ RangesTile'
  OBVIOUS
<1> DEFINE c == NextChunk(scheduler)
<1>1. Pointed(scheduler) /\ HasChunk(scheduler) /\ scheduler' = AfterNextChunk(scheduler)
  BY DEF TileInv, TurnsInv, DrawChunk
<1>2. c \in Chunk /\ c.attempted >= 1 /\ c.start = scheduler.next[c.w]
  BY <1>1, NextChunkType DEF NextChunk
<1>3. \A w \in Workloads :
        scheduler'.next[w] = scheduler.next[w] + (IF w = c.w THEN c.attempted ELSE 0)
  BY <1>1, AfterNextChunkPointed
<1>4. issuedRanges' = issuedRanges \cup {c} /\ start' = start
  BY DEF DrawChunk
<1> HIDE DEF c
<1>5. /\ scheduler.next \in [Workloads -> Nat] /\ start \in [Workloads -> Nat]
      /\ issuedRanges \subseteq Chunk
  BY DEF TileInv, TurnsInv, TurnsTypeOK, Scheduler
<1>6. \A d \in issuedRanges : d.start + d.attempted <= scheduler.next[d.w]
  BY DEF TileInv, Enclosed
<1>7. Enclosed'
  <2> SUFFICES ASSUME NEW d \in issuedRanges \cup {c}
               PROVE  d.start + d.attempted <= scheduler'.next[d.w]
    BY <1>4 DEF Enclosed
  <2>1. CASE d = c
    BY <1>2, <1>3, <1>5, <2>1 DEF Chunk
  <2>2. CASE d \in issuedRanges
    <3>1. d.w \in Workloads /\ d.start \in Nat /\ d.attempted \in Nat
      BY <1>5, <2>2 DEF Chunk
    <3> QED
      BY <1>2, <1>3, <1>5, <1>6, <2>2, <3>1 DEF Chunk
  <2> QED
    BY <2>1, <2>2
<1>8. RangesTile'
  <2> SUFFICES ASSUME NEW w \in Workloads, NEW a \in start[w] .. scheduler'.next[w] - 1
               PROVE  \E e \in issuedRanges \cup {c} :
                        /\ Covers(e, w, a)
                        /\ \A d \in issuedRanges \cup {c} : Covers(d, w, a) => d = e
    BY <1>4 DEF RangesTile
  <2>1. /\ a \in Int /\ start[w] <= a /\ a < scheduler'.next[w]
        /\ c.w \in Workloads /\ c.start \in Nat /\ c.attempted \in Nat
        /\ scheduler.next[w] \in Nat
    BY <1>2, <1>3, <1>5 DEF Chunk
  <2>2. CASE a < scheduler.next[w]
    <3>1. PICK e \in issuedRanges :
            Covers(e, w, a) /\ \A d \in issuedRanges : Covers(d, w, a) => d = e
      BY <1>5, <2>1, <2>2 DEF TileInv, RangesTile
    <3>2. ~Covers(c, w, a)
      BY <1>2, <2>1, <2>2 DEF Covers
    <3> QED
      BY <3>1, <3>2
  <2>3. CASE a >= scheduler.next[w]
    <3>1. Covers(c, w, a)
      BY <1>2, <1>3, <2>1, <2>3 DEF Covers
    <3>2. ASSUME NEW d \in issuedRanges PROVE ~Covers(d, w, a)
      <4>1. d.start + d.attempted <= scheduler.next[d.w] /\ d.start \in Nat /\ d.attempted \in Nat
        BY <1>5, <1>6 DEF Chunk
      <4> QED
        BY <2>1, <2>3, <4>1 DEF Covers
    <3> QED
      BY <3>1, <3>2
  <2> QED
    BY <2>1, <2>2, <2>3
<1> QED
  BY <1>7, <1>8

LEMMA TileInvComplete ==
  ASSUME NEW w \in Workloads, TileInv, Complete(w) PROVE Enclosed' /\ RangesTile'
<1>1. scheduler'.next = scheduler.next
  BY MarkCompletePointed DEF TileInv, TurnsInv, Complete
<1> QED
  BY <1>1 DEF TileInv, Complete, Enclosed, RangesTile

LEMMA TileInvariant == TurnsSpec => []TileInv
<1>1. TurnsInit => TileInv
  BY TurnsInvInit, TileInvInit DEF TileInv
<1>2. TileInv /\ TurnsInv' /\ [TurnsNext]_turnsVars => TileInv'
  <2> SUFFICES ASSUME TileInv, TurnsInv', [TurnsNext]_turnsVars PROVE Enclosed' /\ RangesTile'
    BY DEF TileInv
  <2>1. CASE DrawChunk
    BY <2>1, TileInvDraw
  <2>2. CASE \E w \in Workloads : Complete(w)
    BY <2>2, TileInvComplete
  <2>3. CASE UNCHANGED turnsVars
    BY <2>3 DEF turnsVars, TileInv, Enclosed, RangesTile
  <2> QED
    BY <2>1, <2>2, <2>3 DEF TurnsNext
<1> QED
  BY <1>1, <1>2, TurnsInvariant, PTL DEF TurnsSpec

\* Every attempt of a workload from its seed on is in exactly one chunk, so
\* what a workload samples does not depend on the chunks of the others.
THEOREM AttemptsTiled == TurnsSpec => []RangesTile
<1>1. TileInv => RangesTile
  BY DEF TileInv
<1> QED
  BY <1>1, TileInvariant, PTL
=============================================================================
