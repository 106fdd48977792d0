--------------------------- MODULE EvalPoolProofs ---------------------------
(***************************************************************************)
(* What holds of the recovering evaluation pool for any number of tasks,   *)
(* workers and restarts, however executors break or go silent.             *)
(***************************************************************************)
EXTENDS EvalPool, FiniteSetTheorems, FunctionTheorems, WellFoundedInduction, TLAPS

\* Outside its inner loop the parent has nothing submitted.
NothingSubmitted ==
  pc \in {"start", "returned", "raised"} => todo = {} /\ flight = {} /\ quiet = 0

\* The parent keeps at least one task in flight as long as one waits.
AlwaysOne == InLoop /\ flight = {} => todo = {}

\* A new executor is only made after a restart.
RowsOlder ==
  /\ \A i \in DOMAIN rows : rows[i] <= restarts
  /\ pc = "start" => DOMAIN rows = Tasks \/ \A i \in DOMAIN rows : rows[i] < restarts

Counting ==
  /\ pc # "raised" => restarts <= MaxRestarts
  /\ pc \in {"wait", "collect"} => quiet < StallPolls

EvalInv ==
  /\ TypeOK
  /\ EachTaskOnce
  /\ SubmissionOrder
  /\ NothingSubmitted
  /\ AlwaysOne
  /\ RowsOlder
  /\ Counting

-----------------------------------------------------------------------------
LEMMA TasksFinite == ASSUME NEW S \in SUBSET Tasks PROVE IsFiniteSet(S)
<1>1. IsFiniteSet(Tasks)
  BY TasksAssumption, FS_Interval DEF Tasks
<1> QED
  BY <1>1, FS_Subset

\* What is taken from the front of a set is below what is left.
LEMMA LowestBelow ==
  ASSUME NEW S \in SUBSET Tasks, NEW n \in Int, NEW i \in Lowest(n, S), NEW j \in S \ Lowest(n, S)
  PROVE  i < j
<1> DEFINE belowI == {u \in S : u < i}
           belowJ == {u \in S : u < j}
<1>0. i \in S /\ j \in S /\ i # j
  BY DEF Lowest
<1>1. i \in Int /\ j \in Int /\ \A u \in S : u \in Int
  BY <1>0 DEF Tasks
<1> SUFFICES ASSUME j < i PROVE FALSE
  BY <1>0, <1>1
<1>2. belowJ \subseteq belowI
  <2>1. ASSUME NEW u \in S, u < j PROVE u < i
    BY <1>1, <2>1
  <2> QED
    BY <2>1
<1>3. IsFiniteSet(belowI) /\ IsFiniteSet(belowJ)
  <2>1. belowI \in SUBSET Tasks /\ belowJ \in SUBSET Tasks
    OBVIOUS
  <2> QED
    BY <2>1, TasksFinite
<1>4. /\ Cardinality(belowJ) <= Cardinality(belowI)
      /\ Cardinality(belowI) \in Nat /\ Cardinality(belowJ) \in Nat
  BY <1>2, <1>3, FS_Subset, FS_CardinalityType
<1>5. Cardinality(belowI) < n /\ ~(Cardinality(belowJ) < n)
  BY DEF Lowest
<1> HIDE DEF belowI, belowJ
<1> QED
  BY <1>4, <1>5

\* The front of a set that is not empty is not empty.
LEMMA LowestSome ==
  ASSUME NEW S \in SUBSET Tasks, S # {}, NEW n \in Nat \ {0}
  PROVE  Lowest(n, S) # {}
<1> DEFINE R == OpToRel(<, Nat)
<1>1. S \subseteq Nat
  BY DEF Tasks
<1>2. IsWellFoundedOn(R, Nat)
  BY NatLessThanWellFounded
<1> HIDE DEF R
<1>3. PICK m \in S : \A u \in S : ~(<< u, m >> \in R)
  BY <1>1, <1>2, WFMin
<1>4. {u \in S : u < m} = {}
  <2> SUFFICES ASSUME NEW u \in S, u < m PROVE FALSE
    OBVIOUS
  <2>1. << u, m >> \in Nat \X Nat
    BY <1>1
  <2>2. << u, m >> \in R
    BY <2>1 DEF R, OpToRel
  <2> QED
    BY <1>3, <2>2
<1>5. Cardinality({u \in S : u < m}) = 0
  BY <1>4, FS_EmptySet
<1>6. 0 < n
  OBVIOUS
<1> QED
  BY <1>5, <1>6 DEF Lowest

\* How many members of S are below t.
RankIn(S) == [t \in S |-> Cardinality({u \in S : u < t})]

\* Ranks count the members of a finite set from 0.
LEMMA RanksAreOnto ==
  ASSUME NEW S \in SUBSET Tasks
  PROVE  /\ Cardinality(S) \in Nat
         /\ RankIn(S) \in Injection(S, 0 .. Cardinality(S) - 1)
         /\ RankIn(S) \in Surjection(S, 0 .. Cardinality(S) - 1)
<1> DEFINE m == Cardinality(S)
           under(t) == {u \in S : u < t}
<1>1. IsFiniteSet(S) /\ m \in Nat /\ \A u \in S : u \in Int
  BY TasksFinite, FS_CardinalityType DEF Tasks
<1>2. ASSUME NEW T \in SUBSET S
      PROVE  IsFiniteSet(T) /\ Cardinality(T) \in Nat /\ Cardinality(T) <= m
  BY <1>1, FS_Subset, FS_CardinalityType
<1>3. ASSUME NEW t \in S PROVE Cardinality(under(t)) \in 0 .. m - 1
  <2>1. under(t) \in SUBSET (S \ {t})
    BY <1>1
  <2>2. IsFiniteSet(S \ {t}) /\ Cardinality(S \ {t}) = m - 1
    BY <1>1, FS_RemoveElement
  <2>3. Cardinality(under(t)) <= m - 1
    BY <2>1, <2>2, FS_Subset
  <2>4. Cardinality(under(t)) \in Nat
    BY <1>2
  <2> HIDE DEF under, m
  <2> QED
    BY <1>1, <2>3, <2>4
<1>4. ASSUME NEW t \in S, NEW v \in S, t < v
      PROVE  Cardinality(under(t)) < Cardinality(under(v))
  <2>1. under(t) \cup {t} \in SUBSET under(v)
    BY <1>1, <1>4
  <2>2. t \notin under(t)
    BY <1>1
  <2>3. Cardinality(under(t) \cup {t}) = Cardinality(under(t)) + 1
    BY <1>2, <2>2, FS_AddElement
  <2>4. Cardinality(under(t) \cup {t}) <= Cardinality(under(v))
    BY <1>2, <2>1, FS_Subset
  <2>5. Cardinality(under(t)) \in Nat /\ Cardinality(under(v)) \in Nat
    BY <1>2
  <2> HIDE DEF under
  <2> QED
    BY <2>3, <2>4, <2>5
<1>5. RankIn(S) \in [S -> 0 .. m - 1] /\ \A t \in S : RankIn(S)[t] = Cardinality(under(t))
  BY <1>3 DEF RankIn
<1>6. RankIn(S) \in Injection(S, 0 .. m - 1)
  <2>1. ASSUME NEW t \in S, NEW v \in S, RankIn(S)[t] = RankIn(S)[v]
        PROVE  t = v
    <3>1. Cardinality(under(t)) = Cardinality(under(v)) /\ Cardinality(under(t)) \in Int
      BY <1>3, <1>5, <2>1
    <3>2. ~(t < v) /\ ~(v < t)
      BY <1>4, <3>1
    <3> QED
      BY <1>1, <3>2
  <2> QED
    BY <1>5, <2>1, Fun_IsInj
<1>7. IsFiniteSet(0 .. m - 1) /\ Cardinality(0 .. m - 1) = m
  BY <1>1, FS_Interval
<1>8. RankIn(S) \in Surjection(S, 0 .. m - 1)
  BY <1>6, <1>7, FS_Injection
<1> QED
  BY <1>1, <1>6, <1>8

\* The front of a set has the size asked for, or is all of the set.
LEMMA LowestCount ==
  ASSUME NEW S \in SUBSET Tasks, NEW n \in Nat
  PROVE  \/ Lowest(n, S) = S /\ Cardinality(S) <= n
         \/ Cardinality(Lowest(n, S)) = n
<1> DEFINE m == Cardinality(S)
           r == RankIn(S)
           L == Lowest(n, S)
<1>1. /\ m \in Nat /\ r \in [S -> 0 .. m - 1]
      /\ \A a, b \in S : r[a] = r[b] => a = b
      /\ \A k \in 0 .. m - 1 : \E t \in S : r[t] = k
  <2>1. /\ m \in Nat
        /\ r \in Injection(S, 0 .. m - 1) /\ r \in Surjection(S, 0 .. m - 1)
    BY RanksAreOnto
  <2> HIDE DEF m, r
  <2>2. r \in [S -> 0 .. m - 1] /\ \A a, b \in S : r[a] = r[b] => a = b
    BY <2>1, Fun_InjectionProperties
  <2>3. \A k \in 0 .. m - 1 : \E t \in S : r[t] = k
    <3> DEFINE T == 0 .. m - 1
    <3>1. r \in Surjection(S, T)
      BY <2>1
    <3> HIDE DEF T
    <3>2. \A k \in T : \E t \in S : r[t] = k
      BY <3>1, Fun_SurjectionProperties
    <3> QED
      BY <3>2 DEF T
  <2> QED
    BY <2>1, <2>2, <2>3
<1>2. L = {t \in S : r[t] < n}
  BY DEF Lowest, RankIn
<1> HIDE DEF m, r, L
<1>3. CASE m <= n
  BY <1>1, <1>2, <1>3 DEF L, m
<1>4. CASE n < m
  <2> DEFINE f == [t \in L |-> r[t]]
  <2>1. f \in [L -> 0 .. n - 1] /\ L \subseteq S
    BY <1>1, <1>2
  <2>2. \A a, b \in L : f[a] = f[b] => a = b
    BY <1>1, <2>1
  <2>3. \A k \in 0 .. n - 1 : \E t \in L : f[t] = k
    BY <1>1, <1>2, <1>4
  <2>4. f \in Bijection(L, 0 .. n - 1)
    <3> HIDE DEF f
    <3> QED
      BY <2>1, <2>2, <2>3, Fun_IsBij
  <2>5. IsFiniteSet(L) /\ ExistsBijection(L, 0 .. n - 1)
    <3>1. L \in SUBSET Tasks
      BY <2>1
    <3> QED
      BY <2>4, <3>1, TasksFinite DEF ExistsBijection
  <2>6. Cardinality(0 .. n - 1) = n
    BY FS_Interval
  <2> QED
    BY <2>5, <2>6, FS_Bijection DEF L
<1> QED
  BY <1>1, <1>3, <1>4

LEMMA LimitPositive == TypeOK => Limit \in Nat \ {0}
<1> SUFFICES ASSUME TypeOK PROVE workers * InFlightPerWorker \in Nat \ {0}
  BY DEF Limit
<1>1. workers \in Nat \ {0} /\ InFlightPerWorker \in Nat \ {0}
  BY WorkersAssumption DEF TypeOK
<1>2. \A a, b \in Nat \ {0} : a * b \in Nat \ {0}
  OBVIOUS
<1> QED
  BY <1>1, <1>2

\* What is submitted when `running` is in flight and `waiting` waits.
LEMMA SubmittedFacts ==
  ASSUME TypeOK, NEW waiting \in SUBSET Tasks, NEW running \in SUBSET Tasks
  PROVE  /\ Submitted(waiting, running) \subseteq waiting
         /\ running = {} /\ waiting # {} => Submitted(waiting, running) # {}
         /\ \A i \in Submitted(waiting, running), j \in waiting \ Submitted(waiting, running) : i < j
<1> DEFINE n == Limit - Cardinality(running)
<1>1. n \in Int
  BY LimitPositive, TasksFinite, FS_CardinalityType
<1>2. running = {} => n \in Nat \ {0}
  BY LimitPositive, FS_EmptySet
<1> HIDE DEF n
<1>3. Submitted(waiting, running) = Lowest(n, waiting)
  BY DEF Submitted, n
<1>4. Lowest(n, waiting) \subseteq waiting
  BY DEF Lowest
<1> QED
  BY <1>1, <1>2, <1>3, <1>4, LowestSome, LowestBelow

-----------------------------------------------------------------------------
LEMMA EvalInvInit == Init => EvalInv
<1> SUFFICES ASSUME Init PROVE EvalInv
  OBVIOUS
<1>1. rows \in [{} -> Nat] /\ DOMAIN rows = {}
  BY DEF Init
<1>2. TypeOK
  <2>1. \E S \in SUBSET Tasks : rows \in [S -> Nat]
    BY <1>1
  <2> QED
    BY <2>1, RecoveryAssumption DEF Init, TypeOK
<1> QED
  BY <1>1, <1>2, RecoveryAssumption
     DEF Init, EvalInv, EachTaskOnce, SubmissionOrder, NothingSubmitted, AlwaysOne,
         RowsOlder, Counting, InLoop

\* Steps that only move the parent, or only change what the executor has done.
LEMMA EvalInvStill ==
  ASSUME EvalInv, [WorkerDies \/ Worker \/ WaitSome \/ WaitTimesOut \/ CheckStall \/ Return]_vars
  PROVE  EvalInv' /\ rows' = rows
<1> USE DEF EvalInv, TypeOK
<1>1. /\ UNCHANGED << workers, rows, restarts, todo, flight >>
  BY DEF WorkerDies, Worker, WorkerFinish, WaitSome, WaitTimesOut, CheckStall, Return, vars
<1>2. CASE WorkerDies \/ Worker \/ UNCHANGED vars
  <2>1. UNCHANGED << pc, quiet, batch >>
    BY <1>2 DEF WorkerDies, Worker, WorkerFinish, vars
  <2>2. done' \subseteq flight /\ health' \in {"up", "wedged", "broken"}
    BY <1>2 DEF WorkerDies, Worker, WorkerFinish, Running, Lowest, vars
  <2> QED
    BY <1>1, <2>1, <2>2 DEF EachTaskOnce, SubmissionOrder, NothingSubmitted, AlwaysOne,
                            RowsOlder, Counting, InLoop, Limit
<1>3. CASE WaitSome
  BY <1>1, <1>3, RecoveryAssumption
     DEF WaitSome, Completed, EachTaskOnce, SubmissionOrder, NothingSubmitted, AlwaysOne,
         RowsOlder, Counting, InLoop
<1>4. CASE WaitTimesOut
  BY <1>1, <1>4, RecoveryAssumption
     DEF WaitTimesOut, EachTaskOnce, SubmissionOrder, NothingSubmitted, AlwaysOne,
         RowsOlder, Counting, InLoop
<1>5. CASE CheckStall
  BY <1>1, <1>5, RecoveryAssumption
     DEF CheckStall, EachTaskOnce, SubmissionOrder, NothingSubmitted, AlwaysOne,
         RowsOlder, Counting, InLoop
<1>6. CASE Return
  BY <1>1, <1>6, RecoveryAssumption
     DEF Return, EachTaskOnce, SubmissionOrder, NothingSubmitted, AlwaysOne,
         RowsOlder, Counting, InLoop
<1> QED
  BY <1>1, <1>2, <1>3, <1>4, <1>5, <1>6

LEMMA EvalInvStart == EvalInv /\ StartExecutor => EvalInv' /\ rows' = rows
<1> SUFFICES ASSUME EvalInv, StartExecutor PROVE EvalInv' /\ rows' = rows
  OBVIOUS
<1> DEFINE pending == Tasks \ DOMAIN rows
           first == Submitted(pending, {})
<1>1. /\ pc = "start" /\ DOMAIN rows # Tasks /\ pc' = "wait"
      /\ flight' = first /\ todo' = pending \ first
      /\ UNCHANGED << workers, rows, restarts, done, batch, quiet, health >>
  BY DEF StartExecutor
<1>2. TypeOK /\ DOMAIN rows \subseteq Tasks /\ flight = {} /\ quiet = 0
  BY <1>1 DEF EvalInv, TypeOK, NothingSubmitted
<1>3. /\ first \subseteq pending
      /\ pending # {} => first # {}
      /\ \A i \in first, j \in pending \ first : i < j
  BY <1>2, SubmittedFacts
<1>4. \A i \in DOMAIN rows : rows[i] < restarts
  BY <1>1 DEF EvalInv, RowsOlder
<1> HIDE DEF first
<1>5. TypeOK'
  BY <1>1, <1>2, <1>3 DEF TypeOK
<1>6. EachTaskOnce' /\ NothingSubmitted' /\ AlwaysOne'
  BY <1>1, <1>2, <1>3 DEF EachTaskOnce, NothingSubmitted, AlwaysOne, InLoop
<1>7. SubmissionOrder'
  <2>1. restarts \in Int /\ \A i \in DOMAIN rows : rows[i] # restarts
    BY <1>2, <1>4 DEF TypeOK
  <2> QED
    BY <1>1, <1>3, <2>1 DEF SubmissionOrder
<1>8. RowsOlder' /\ Counting'
  BY <1>1, <1>2, RecoveryAssumption DEF EvalInv, RowsOlder, Counting
<1> QED
  BY <1>1, <1>5, <1>6, <1>7, <1>8 DEF EvalInv

LEMMA EvalInvTakeResult ==
  ASSUME EvalInv, NEW i \in batch, TakeResult(i)
  PROVE  /\ EvalInv'
         /\ \A k \in DOMAIN rows : k \in DOMAIN rows' /\ rows'[k] = rows[k]
<1> DEFINE rest == flight \ {i}
           more == Submitted(todo, rest)
<1>1. /\ pc = "collect" /\ i \in flight /\ i \notin DOMAIN rows /\ TypeOK
      /\ restarts \in Nat /\ DOMAIN rows \subseteq Tasks /\ todo \subseteq Tasks
      /\ flight \cap todo = {}
  BY DEF EvalInv, TypeOK, EachTaskOnce, TakeResult
<1>2. /\ rows' = Filed(i) /\ done' = done \ {i} /\ batch' = batch \ {i}
      /\ UNCHANGED << workers, restarts, quiet, health >>
  BY DEF TakeResult
<1>3. /\ DOMAIN rows' = DOMAIN rows \cup {i}
      /\ rows'[i] = restarts
      /\ \A k \in DOMAIN rows : rows'[k] = rows[k]
      /\ rows' \in [DOMAIN rows \cup {i} -> Nat]
  BY <1>1, <1>2 DEF Filed, TypeOK
<1>4. /\ more \subseteq todo
      /\ rest = {} /\ todo # {} => more # {}
      /\ \A k \in more, j \in todo \ more : k < j
  BY <1>1, SubmittedFacts DEF TypeOK
<1>5. \/ /\ pc' = "replace" /\ flight' = rest /\ todo' = todo
      \/ /\ pc' \in {"wait", "collect"}
         /\ flight' = rest \cup more /\ todo' = todo \ more
  BY DEF TakeResult
<1> HIDE DEF more
<1>6. TypeOK'
  <2>1. \E S \in SUBSET Tasks : rows' \in [S -> Nat]
    BY <1>1, <1>3 DEF TypeOK
  <2> QED
    BY <1>1, <1>2, <1>4, <1>5, <2>1 DEF TypeOK
<1>7. EachTaskOnce'
  <2>1. DOMAIN rows \cup flight \cup todo = Tasks
    BY <1>1 DEF EvalInv, EachTaskOnce, InLoop
  <2> QED
    BY <1>1, <1>3, <1>4, <1>5, <2>1 DEF EvalInv, EachTaskOnce
<1>8. SubmissionOrder'
  <2> SUFFICES ASSUME NEW k \in flight' \cup {l \in DOMAIN rows' : rows'[l] = restarts'},
                      NEW j \in todo'
               PROVE  k < j
    BY DEF SubmissionOrder
  <2>1. j \in todo
    BY <1>5
  <2>2. CASE k \in more
    <3>1. k \in todo /\ k # i /\ k \notin flight /\ k \notin DOMAIN rows
      BY <1>1, <1>4, <2>2 DEF EvalInv, EachTaskOnce
    <3>2. k \in flight'
      BY <1>3, <3>1
    <3> QED
      BY <1>4, <1>5, <2>2, <3>1, <3>2
  <2>3. CASE k \notin more
    <3>1. k \in flight \/ k \in {l \in DOMAIN rows : rows[l] = restarts}
      BY <1>1, <1>2, <1>3, <1>5, <2>3
    <3> QED
      BY <2>1, <3>1 DEF EvalInv, SubmissionOrder
  <2> QED
    BY <2>2, <2>3
<1>9. NothingSubmitted' /\ AlwaysOne' /\ Counting'
  BY <1>1, <1>2, <1>4, <1>5 DEF EvalInv, NothingSubmitted, AlwaysOne, Counting, InLoop
<1>10. RowsOlder'
  BY <1>1, <1>2, <1>3, <1>5 DEF EvalInv, RowsOlder
<1> QED
  BY <1>3, <1>6, <1>7, <1>8, <1>9, <1>10 DEF EvalInv

LEMMA EvalInvTakeBroken ==
  ASSUME EvalInv, NEW i \in batch, TakeBroken(i)
  PROVE  EvalInv' /\ rows' = rows
<1>1. /\ i \notin done /\ pc' = "replace" /\ pc = "collect"
      /\ flight' = flight \ {i} /\ batch' = batch \ {i}
      /\ UNCHANGED << workers, rows, restarts, todo, done, quiet, health >>
  BY DEF TakeBroken
<1>2. TypeOK'
  BY <1>1 DEF EvalInv, TypeOK
<1> QED
  BY <1>1, <1>2 DEF EvalInv, EachTaskOnce, SubmissionOrder, NothingSubmitted, AlwaysOne,
                    RowsOlder, Counting, InLoop

LEMMA EvalInvEnd ==
  ASSUME EvalInv, CloseExecutor \/ Replace \/ Escape
  PROVE  EvalInv' /\ rows' = rows
<1>1. /\ todo' = {} /\ flight' = {} /\ done' = {} /\ batch' = {}
      /\ quiet' = 0 /\ health' = "up" /\ rows' = rows /\ workers' = workers
      /\ pc' \in {"start", "raised"}
  BY DEF CloseExecutor, Replace, Escape, NoExecutor
<1>2. restarts \in 0 .. MaxRestarts + 1 /\ MaxRestarts \in Nat
  BY RecoveryAssumption DEF EvalInv, TypeOK
<1>3. /\ restarts' \in 0 .. MaxRestarts + 1
      /\ restarts' >= restarts
      /\ pc' # "raised" => restarts' <= MaxRestarts
  BY <1>2 DEF CloseExecutor, Replace, Escape, EvalInv, Counting
<1>4. TypeOK'
  BY <1>1, <1>3, RecoveryAssumption DEF EvalInv, TypeOK
<1>5. EachTaskOnce' /\ SubmissionOrder' /\ NothingSubmitted' /\ AlwaysOne'
  BY <1>1 DEF EachTaskOnce, SubmissionOrder, NothingSubmitted, AlwaysOne, InLoop
<1>6. RowsOlder'
  <2>1. \A k \in DOMAIN rows : rows[k] \in Nat /\ rows[k] <= restarts
    BY DEF EvalInv, RowsOlder, TypeOK
  <2>2. CASE CloseExecutor
    <3>1. DOMAIN rows = Tasks
      BY <2>2 DEF CloseExecutor, EvalInv, AlwaysOne, EachTaskOnce, InLoop
    <3> QED
      BY <1>1, <2>1, <2>2, <3>1 DEF CloseExecutor, RowsOlder
  <2>3. CASE Replace
    BY <1>1, <1>2, <2>1, <2>3 DEF Replace, RowsOlder
  <2>4. CASE Escape
    BY <1>1, <2>1, <2>4 DEF Escape, RowsOlder
  <2> QED
    BY <2>2, <2>3, <2>4
<1>7. Counting'
  BY <1>1, <1>3 DEF Counting
<1> QED
  BY <1>1, <1>4, <1>5, <1>6, <1>7 DEF EvalInv

LEMMA EvalInvNext ==
  ASSUME EvalInv, [Next]_vars
  PROVE  /\ EvalInv'
         /\ \A k \in DOMAIN rows : k \in DOMAIN rows' /\ rows'[k] = rows[k]
<1>1. CASE [WorkerDies \/ Worker \/ WaitSome \/ WaitTimesOut \/ CheckStall \/ Return]_vars
  BY <1>1, EvalInvStill
<1>2. CASE StartExecutor
  BY <1>2, EvalInvStart
<1>3. CASE \E i \in batch : TakeResult(i)
  BY <1>3, EvalInvTakeResult
<1>4. CASE \E i \in batch : TakeBroken(i)
  BY <1>4, EvalInvTakeBroken
<1>5. CASE CloseExecutor \/ Replace \/ Escape
  BY <1>5, EvalInvEnd
<1> QED
  BY <1>1, <1>2, <1>3, <1>4, <1>5 DEF Next, Parent

LEMMA EvalInvariant == Spec => []EvalInv
<1>1. EvalInv /\ [Next]_vars => EvalInv'
  BY EvalInvNext
<1> QED
  BY <1>1, EvalInvInit, PTL DEF Spec

-----------------------------------------------------------------------------
\* Parent and executor stay well formed, over any number of tasks, workers
\* and replaced executors.
THEOREM EvalPoolTypeCorrect == Spec => []TypeOK
<1>1. EvalInv => TypeOK
  BY DEF EvalInv
<1> QED
  BY <1>1, EvalInvariant, PTL

\* The rows the caller indexes by every task are all there, and no task with
\* a row is submitted again, however many executors were killed on the way.
THEOREM EveryTaskOnce == Spec => []EachTaskOnce
<1>1. EvalInv => EachTaskOnce
  BY DEF EvalInv
<1> QED
  BY <1>1, EvalInvariant, PTL

\* Each executor is given its tasks by increasing index.
THEOREM SubmittedInOrder == Spec => []SubmissionOrder
<1>1. EvalInv => SubmissionOrder
  BY DEF EvalInv
<1> QED
  BY <1>1, EvalInvariant, PTL

\* A result that was filed is never computed again or replaced, by a late
\* answer or by the tasks of another executor.
THEOREM ResultsFinal == Spec => RowsKept
<1>1. EvalInv /\ [Next]_vars =>
        [\A i \in DOMAIN rows : i \in DOMAIN rows' /\ rows'[i] = rows[i]]_vars
  BY EvalInvNext
<1> QED
  BY <1>1, EvalInvariant, PTL DEF Spec, RowsKept

-----------------------------------------------------------------------------
\* What is submitted fills the limit, or is all that waits.
LEMMA SubmittedCount ==
  ASSUME TypeOK, NEW waiting \in SUBSET Tasks, NEW running \in SUBSET Tasks,
         waiting \cap running = {}, Cardinality(running) <= Limit
  PROVE  LET more == Submitted(waiting, running)
         IN  /\ Cardinality(running \cup more) <= Limit
             /\ waiting # more => Cardinality(running \cup more) = Limit
<1> DEFINE n == Limit - Cardinality(running)
           more == Submitted(waiting, running)
<1>1. /\ IsFiniteSet(running) /\ IsFiniteSet(waiting)
      /\ Cardinality(running) \in Nat /\ Limit \in Nat /\ n \in Nat
  BY LimitPositive, TasksFinite, FS_CardinalityType
<1>2. more = Lowest(n, waiting) /\ more \in SUBSET waiting
  BY DEF Submitted, Lowest
<1> HIDE DEF n, more
<1>3. (more = waiting /\ Cardinality(more) <= n) \/ Cardinality(more) = n
  BY <1>1, <1>2, LowestCount
<1>4. IsFiniteSet(more) /\ Cardinality(more) \in Nat
  BY <1>1, <1>2, FS_Subset, FS_CardinalityType
<1>6. Cardinality(running \cup more) = Cardinality(running) + Cardinality(more)
  <2>1. running \cap more = {}
    BY <1>2
  <2> QED
    BY <1>1, <1>4, <2>1, FS_Union, FS_EmptySet
<1>7. /\ Cardinality(running \cup more) <= Limit
      /\ waiting # more => Cardinality(running \cup more) = Limit
  BY <1>1, <1>3, <1>4, <1>6 DEF n
<1> QED
  BY <1>7 DEF more

\* Popping a future and refilling keeps the number in flight at the limit.
LEMMA PoolFedTake ==
  ASSUME EvalInv, PoolFed, NEW i \in batch, TakeResult(i)
  PROVE  PoolFed'
<1> DEFINE rest == flight \ {i}
           more == Submitted(todo, rest)
<1>1. /\ pc = "collect" /\ TypeOK /\ rest \in SUBSET Tasks /\ todo \in SUBSET Tasks
      /\ todo \cap rest = {} /\ Limit' = Limit /\ flight \in SUBSET Tasks
  BY DEF EvalInv, TypeOK, EachTaskOnce, TakeResult, Limit
<1>2. Cardinality(rest) <= Limit
  <2>1. IsFiniteSet(flight) /\ rest \in SUBSET flight
    BY <1>1, TasksFinite
  <2>2. /\ Cardinality(rest) <= Cardinality(flight)
        /\ Cardinality(flight) \in Nat /\ Cardinality(rest) \in Nat
    BY <1>1, <2>1, TasksFinite, FS_Subset, FS_CardinalityType
  <2> QED
    BY <1>1, <2>2, LimitPositive DEF PoolFed
<1>3. /\ Cardinality(rest \cup more) <= Limit
      /\ todo # more => Cardinality(rest \cup more) = Limit
  BY <1>1, <1>2, SubmittedCount
<1>4. more \subseteq todo
  BY <1>1, SubmittedFacts
<1>5. \/ pc' = "replace" /\ flight' = rest /\ todo' = todo
      \/ flight' = rest \cup more /\ todo' = todo \ more
  BY DEF TakeResult
<1> HIDE DEF rest, more
<1> QED
  BY <1>1, <1>2, <1>3, <1>4, <1>5 DEF PoolFed, InLoop

\* A new executor is filled at once.
LEMMA PoolFedStart == EvalInv /\ StartExecutor => PoolFed'
<1> SUFFICES ASSUME EvalInv, StartExecutor PROVE PoolFed'
  OBVIOUS
<1> DEFINE pending == Tasks \ DOMAIN rows
           first == Submitted(pending, {})
<1>1. /\ pc' = "wait" /\ flight' = first /\ todo' = pending \ first
      /\ Limit' = Limit /\ TypeOK
  BY DEF StartExecutor, Limit, EvalInv
<1>2. {} \in SUBSET Tasks /\ pending \cap {} = {} /\ Cardinality({}) <= Limit
  BY <1>1, FS_EmptySet, LimitPositive
<1>3. LET more == Submitted(pending, {})
      IN  /\ Cardinality({} \cup more) <= Limit
          /\ pending # more => Cardinality({} \cup more) = Limit
  BY <1>1, <1>2, SubmittedCount
<1>4. {} \cup first = first /\ first \subseteq pending
  BY <1>1, <1>2, SubmittedFacts
<1>5. /\ Cardinality(first) <= Limit
      /\ pending # first => Cardinality(first) = Limit
  BY <1>3, <1>4
<1> HIDE DEF first
<1> QED
  BY <1>1, <1>4, <1>5 DEF PoolFed, InLoop

LEMMA PoolFedNext == EvalInv /\ PoolFed /\ [Next]_vars => PoolFed'
<1> SUFFICES ASSUME EvalInv, PoolFed, [Next]_vars PROVE PoolFed'
  OBVIOUS
<1>1. TypeOK /\ Limit \in Nat /\ flight \in SUBSET Tasks
  BY LimitPositive DEF EvalInv, TypeOK
<1>2. CASE WorkerDies \/ Worker \/ UNCHANGED vars
  BY <1>2 DEF WorkerDies, Worker, WorkerFinish, vars, PoolFed, InLoop, Limit
<1>3. CASE WaitSome \/ WaitTimesOut \/ CheckStall \/ Return
  BY <1>3 DEF WaitSome, WaitTimesOut, CheckStall, Return, PoolFed, InLoop, Limit
<1>4. CASE StartExecutor
  BY <1>4, PoolFedStart
<1>5. CASE \E i \in batch : TakeResult(i)
  BY <1>5, PoolFedTake
<1>6. CASE \E i \in batch : TakeBroken(i)
  <2>1. PICK i \in batch : TakeBroken(i)
    BY <1>6
  <2>2. pc' = "replace" /\ flight' = flight \ {i} /\ Limit' = Limit
    BY <2>1 DEF TakeBroken, Limit
  <2>3. IsFiniteSet(flight) /\ flight \ {i} \in SUBSET flight
    BY <1>1, TasksFinite
  <2>4. /\ Cardinality(flight \ {i}) <= Cardinality(flight)
        /\ Cardinality(flight) \in Nat /\ Cardinality(flight \ {i}) \in Nat
    BY <2>3, FS_Subset, FS_CardinalityType
  <2> QED
    BY <1>1, <2>2, <2>4 DEF PoolFed, InLoop
<1>7. CASE CloseExecutor \/ Replace \/ Escape
  <2>1. flight' = {} /\ todo' = {} /\ Limit' = Limit
    BY <1>7 DEF CloseExecutor, Replace, Escape, NoExecutor, Limit
  <2> QED
    BY <1>1, <2>1, FS_EmptySet DEF PoolFed
<1> QED
  BY <1>2, <1>3, <1>4, <1>5, <1>6, <1>7 DEF Next, Parent

\* While tasks wait, the executor holds exactly workers times
\* InFlightPerWorker of them, also after results were taken in any order.
THEOREM AlwaysFed == Spec => []PoolFed
<1>1. Init => PoolFed
  <2> SUFFICES ASSUME Init PROVE PoolFed
    OBVIOUS
  <2>1. TypeOK /\ flight = {} /\ todo = {}
    BY EvalInvInit DEF EvalInv, Init
  <2> QED
    BY <2>1, FS_EmptySet, LimitPositive DEF PoolFed
<1> QED
  BY <1>1, PoolFedNext, EvalInvariant, PTL DEF Spec
=============================================================================
