-------------------------- MODULE ModelEvaluationProofs --------------------------
(***************************************************************************)
(* The analytical model for every mapping, architecture and division of a  *)
(* cache: what the caches hold fits, the simulated walk implements the     *)
(* reuse of the schedule, a cache never costs, and the streams of a row    *)
(* trace agree with its counters.                                          *)
(***************************************************************************)
EXTENDS ModelEvaluation, FiniteSetTheorems, SequenceTheorems, WellFoundedInduction, TLAPS

-----------------------------------------------------------------------------
(* Numbers, and folds over finite sets.                                    *)

\* A set of numbers that is not empty has a least element.
LEMMA LeastNumber ==
  ASSUME NEW S \in SUBSET Nat, S # {}
  PROVE  \E n \in S : \A m \in S : n <= m
<1> DEFINE R == OpToRel(<, Nat)
<1>1. IsWellFoundedOn(R, Nat)
  BY NatLessThanWellFounded
<1> HIDE DEF R
<1>2. PICK n \in S : \A m \in S : ~(<< m, n >> \in R)
  BY <1>1, WFMin
<1>3. \A m \in S : ~(m < n)
  <2> SUFFICES ASSUME NEW m \in S, m < n PROVE FALSE
    OBVIOUS
  <2>1. << m, n >> \in R
    BY DEF R, OpToRel
  <2> QED
    BY <1>2, <2>1
<1> QED
  BY <1>3

\* What holds of 0 and passes on holds of every number.
LEMMA Upwards ==
  ASSUME NEW A \in SUBSET Nat, 0 \in A, \A n \in A : n + 1 \in A
  PROVE  A = Nat
<1> DEFINE B == Nat \ A
<1> SUFFICES ASSUME B # {} PROVE FALSE
  OBVIOUS
<1>1. B \in SUBSET Nat
  OBVIOUS
<1>2. PICK n \in B : \A m \in B : n <= m
  BY <1>1, LeastNumber
<1>3. n # 0 /\ n - 1 \in Nat /\ n - 1 \notin B
  BY <1>2
<1> QED
  BY <1>2, <1>3

\* A family of subsets that contains the empty set, and with a set what has one
\* element more, contains every subset.
LEMMA EverySubset ==
  ASSUME NEW S, IsFiniteSet(S), NEW P \in SUBSET SUBSET S, {} \in P,
         \A T \in P : \A x \in S \ T : T \cup {x} \in P
  PROVE  P = SUBSET S
<1> DEFINE Bad == {n \in Nat : \E T \in SUBSET S : Cardinality(T) = n /\ T \notin P}
<1> SUFFICES ASSUME NEW T0 \in SUBSET S, T0 \notin P PROVE FALSE
  OBVIOUS
<1>1. \A T \in SUBSET S : IsFiniteSet(T) /\ Cardinality(T) \in Nat
  BY FS_Subset, FS_CardinalityType
<1>2. Bad # {} /\ Bad \in SUBSET Nat
  BY <1>1
<1> HIDE DEF Bad
<1>3. PICK n \in Bad : \A k \in Bad : n <= k
  BY <1>2, LeastNumber
<1>4. PICK T \in SUBSET S : Cardinality(T) = n /\ T \notin P
  BY <1>3 DEF Bad
<1>5. T # {}
  BY <1>4
<1>6. PICK x \in T : TRUE
  BY <1>5
<1>7. Cardinality(T \ {x}) = n - 1 /\ n \in Nat /\ n - 1 \in Nat
  <2>1. n \in Nat /\ IsFiniteSet(T) /\ Cardinality(T) = n
    BY <1>1, <1>2, <1>4
  <2>2. Cardinality(T \ {x}) = n - 1
    BY <2>1, FS_RemoveElement
  <2>3. n # 0
    BY <1>5, <2>1, FS_EmptySet
  <2> QED
    BY <2>1, <2>2, <2>3
<1>8. T \ {x} \in P
  <2> SUFFICES ASSUME T \ {x} \notin P PROVE FALSE
    OBVIOUS
  <2>1. n - 1 \in Bad
    BY <1>7 DEF Bad
  <2> QED
    BY <1>3, <1>7, <2>1
<1>9. T = (T \ {x}) \cup {x} /\ x \in S \ (T \ {x})
  OBVIOUS
<1> QED
  BY <1>4, <1>8, <1>9

\* The element the library's folds take out first.
Pick(s) == CHOOSE x \in s : TRUE

\* A fold as a function of the subsets of a set.
FoldsSets(S, base, step, iter) ==
  iter = [s \in SUBSET S |-> IF s = {} THEN base ELSE step[<< Pick(s), iter[s \ {Pick(s)}] >>]]

\* The steps of a fold, which may be taken in any order.
Steps(S, V, base, step) ==
  /\ base \in V /\ step \in [S \X V -> V]
  /\ \A x, y \in S, v \in V : step[<< x, step[<< y, v >>] >>] = step[<< y, step[<< x, v >>] >>]

LEMMA SetFoldExists ==
  ASSUME NEW S, IsFiniteSet(S), NEW V, NEW base, NEW step, Steps(S, V, base, step)
  PROVE  \E iter \in [SUBSET S -> V] : FoldsSets(S, base, step, iter)
<1> DEFINE Upto(T, iter) ==
             \A s \in SUBSET T : iter[s] = IF s = {} THEN base
                                           ELSE step[<< Pick(s), iter[s \ {Pick(s)}] >>]
           Size(n) == {s \in SUBSET S : Cardinality(s) <= n}
           A == {n \in Nat : \E iter \in [SUBSET S -> V] :
                   \A s \in Size(n) : iter[s] = IF s = {} THEN base
                                                ELSE step[<< Pick(s), iter[s \ {Pick(s)}] >>]}
<1>0. base \in V /\ step \in [S \X V -> V]
  BY DEF Steps
<1>1. \A s \in SUBSET S : IsFiniteSet(s) /\ Cardinality(s) \in Nat
  BY FS_Subset, FS_CardinalityType
<1>2. \A s \in SUBSET S : s # {} => /\ Pick(s) \in s /\ s \ {Pick(s)} \in SUBSET S
                                    /\ Cardinality(s \ {Pick(s)}) = Cardinality(s) - 1
                                    /\ Cardinality(s) # 0
  BY <1>1, FS_RemoveElement, FS_EmptySet DEF Pick
<1>A. Cardinality({}) = 0
  BY FS_EmptySet
<1>3. 0 \in A
  <2> DEFINE iter == [s \in SUBSET S |-> base]
  <2>1. iter \in [SUBSET S -> V]
    BY <1>0
  <2>2. ASSUME NEW s \in SUBSET S, Cardinality(s) <= 0 PROVE s = {}
    <3>1. Cardinality(s) \in Nat /\ (s # {} => Cardinality(s) # 0)
      BY <1>1, <1>2
    <3> QED
      BY <2>2, <3>1
  <2> QED
    BY <2>1, <2>2
<1>4. ASSUME NEW n \in A PROVE n + 1 \in A
  <2>0. n \in Nat
    OBVIOUS
  <2>1. PICK g \in [SUBSET S -> V] :
          \A s \in Size(n) : g[s] = IF s = {} THEN base ELSE step[<< Pick(s), g[s \ {Pick(s)}] >>]
    OBVIOUS
  <2> DEFINE Value(s) == IF Cardinality(s) = n + 1 THEN step[<< Pick(s), g[s \ {Pick(s)}] >>] ELSE g[s]
             next == [s \in SUBSET S |-> Value(s)]
  <2>2. ASSUME NEW s \in SUBSET S PROVE Value(s) \in V
    <3>1. CASE Cardinality(s) = n + 1
      <4>1. s # {}
        <5>1. n + 1 # 0
          BY <2>0
        <5> QED
          BY <1>A, <3>1, <5>1
      <4>2. Pick(s) \in S /\ g[s \ {Pick(s)}] \in V
        BY <1>2, <4>1
      <4> QED
        BY <1>0, <3>1, <4>2
    <3> QED
      BY <3>1
  <2>3. next \in [SUBSET S -> V]
    BY <2>2
  <2>4. \A s \in SUBSET S : next[s] = Value(s)
    OBVIOUS
  <2> HIDE DEF next
  <2>5. ASSUME NEW s \in Size(n + 1)
        PROVE  next[s] = IF s = {} THEN base ELSE step[<< Pick(s), next[s \ {Pick(s)}] >>]
    <3>1. CASE s = {}
      <4>1. Cardinality(s) = 0 /\ s \in SUBSET S /\ Cardinality(s) # n + 1 /\ Cardinality(s) <= n
        <5>1. 0 # n + 1 /\ 0 <= n
          BY <2>0
        <5> QED
          BY <1>A, <3>1, <5>1
      <4>2. next[s] = g[s] /\ s \in Size(n)
        BY <2>4, <4>1
      <4> QED
        BY <2>1, <3>1, <4>2
    <3>2. CASE s # {}
      <4> DEFINE r == s \ {Pick(s)}
      <4>1. r \in SUBSET S /\ Cardinality(r) = Cardinality(s) - 1 /\ Cardinality(s) \in Nat
        BY <1>1, <1>2, <3>2
      <4>2. Cardinality(s) <= n + 1 /\ n \in Nat
        OBVIOUS
      <4> HIDE DEF r
      <4>3. next[r] = g[r]
        <5>1. Cardinality(r) # n + 1
          BY <4>1, <4>2
        <5> QED
          BY <2>4, <4>1, <5>1
      <4>4. CASE Cardinality(s) = n + 1
        BY <2>4, <3>2, <4>3, <4>4 DEF r
      <4>5. CASE Cardinality(s) # n + 1
        <5>1. s \in Size(n)
          BY <4>1, <4>2, <4>5
        <5>2. next[s] = g[s]
          BY <2>4, <4>5
        <5> QED
          BY <2>1, <3>2, <4>3, <5>1, <5>2 DEF r
      <4> QED
        BY <4>4, <4>5
    <3> QED
      BY <3>1, <3>2
  <2>6. n + 1 \in Nat
    BY <2>0
  <2> QED
    BY <2>3, <2>5, <2>6
<1> HIDE DEF A
<1>5. Cardinality(S) \in A
  <2>1. A = Nat
    <3>1. A \in SUBSET Nat
      BY DEF A
    <3> QED
      BY <1>3, <1>4, <3>1, Upwards
  <2> QED
    BY <1>1, <2>1
<1>6. \A s \in SUBSET S : Cardinality(s) <= Cardinality(S)
  BY FS_Subset
<1>7. PICK iter \in [SUBSET S -> V] :
        \A s \in Size(Cardinality(S)) : iter[s] = IF s = {} THEN base ELSE step[<< Pick(s), iter[s \ {Pick(s)}] >>]
  BY <1>5 DEF A
<1>8. \A s \in SUBSET S : iter[s] = IF s = {} THEN base ELSE step[<< Pick(s), iter[s \ {Pick(s)}] >>]
  BY <1>6, <1>7
<1> QED
  BY <1>8 DEF FoldsSets

\* It does not matter which element is taken out first.
LEMMA FoldTakes ==
  ASSUME NEW S, IsFiniteSet(S), NEW V, NEW base, NEW step, Steps(S, V, base, step),
         NEW iter \in [SUBSET S -> V], FoldsSets(S, base, step, iter)
  PROVE  \A s \in SUBSET S : \A x \in s : iter[s] = step[<< x, iter[s \ {x}] >>]
<1> DEFINE A == {n \in Nat : \A s \in SUBSET S : Cardinality(s) = n =>
                               \A x \in s : iter[s] = step[<< x, iter[s \ {x}] >>]}
<1>0. /\ \A x, y \in S, v \in V : step[<< x, step[<< y, v >>] >>] = step[<< y, step[<< x, v >>] >>]
      /\ \A s \in SUBSET S : iter[s] = IF s = {} THEN base
                                       ELSE step[<< Pick(s), iter[s \ {Pick(s)}] >>]
  BY DEF Steps, FoldsSets
<1>1. \A s \in SUBSET S : IsFiniteSet(s) /\ Cardinality(s) \in Nat
  BY FS_Subset, FS_CardinalityType
<1>2. 0 \in A
  <2>1. ASSUME NEW s \in SUBSET S, Cardinality(s) = 0 PROVE s = {}
    BY <1>1, <2>1, FS_EmptySet
  <2> QED
    BY <2>1
<1>3. ASSUME NEW n \in A PROVE n + 1 \in A
  <2>1. ASSUME NEW s \in SUBSET S, Cardinality(s) = n + 1, NEW x \in s
        PROVE  iter[s] = step[<< x, iter[s \ {x}] >>]
    <3> DEFINE p == Pick(s)
               r == (s \ {p}) \ {x}
    <3>1. p \in s /\ iter[s] = step[<< p, iter[s \ {p}] >>]
      BY <1>0 DEF Pick
    <3>2. ASSUME NEW y \in s PROVE Cardinality(s \ {y}) = n
      <4>1. Cardinality(s \ {y}) = Cardinality(s) - 1
        BY <1>1, FS_RemoveElement
      <4> QED
        BY <2>1, <4>1
    <3> HIDE DEF p
    <3>3. CASE x = p
      BY <3>1, <3>3
    <3>4. CASE x # p
      <4>1. iter[s \ {p}] = step[<< x, iter[r] >>]
        BY <3>1, <3>2, <3>4
      <4>2. iter[s \ {x}] = step[<< p, iter[r] >>]
        <5>1. (s \ {x}) \ {p} = r /\ p \in s \ {x} /\ s \ {x} \in SUBSET S
          BY <3>1, <3>4
        <5> HIDE DEF r
        <5> QED
          BY <3>2, <5>1
      <4>3. iter[r] \in V /\ p \in S /\ x \in S
        BY <3>1
      <4> HIDE DEF r
      <4> QED
        BY <1>0, <3>1, <4>1, <4>2, <4>3
    <3> QED
      BY <3>3, <3>4
  <2> QED
    BY <2>1
<1>4. A \in SUBSET Nat
  OBVIOUS
<1> HIDE DEF A
<1>5. A = Nat
  BY <1>2, <1>3, <1>4, Upwards
<1> QED
  BY <1>1, <1>5 DEF A

\* What takes the same steps, as long as they are known.
Follows(T, V, base, step, part) ==
  /\ part[{}] = base
  /\ \A s \in SUBSET T : s # {} /\ part[s \ {Pick(s)}] \in V =>
       part[s] = step[<< Pick(s), part[s \ {Pick(s)}] >>]

\* Folds that take the same steps agree.
LEMMA FoldsAgree ==
  ASSUME NEW S, IsFiniteSet(S), NEW T \in SUBSET S, NEW V, NEW base, NEW step,
         NEW iter \in [SUBSET S -> V], FoldsSets(S, base, step, iter),
         NEW part, Follows(T, V, base, step, part)
  PROVE  part[T] = iter[T]
<1> DEFINE Bad == {n \in Nat : \E s \in SUBSET T : Cardinality(s) = n /\ part[s] # iter[s]}
<1>1. \A s \in SUBSET T : s \in SUBSET S /\ IsFiniteSet(s) /\ Cardinality(s) \in Nat
  BY FS_Subset, FS_CardinalityType
<1> SUFFICES ASSUME Bad # {} PROVE FALSE
  BY <1>1
<1>2. Bad \in SUBSET Nat
  OBVIOUS
<1> HIDE DEF Bad
<1>3. PICK n \in Bad : \A m \in Bad : n <= m
  BY <1>2, LeastNumber
<1>4. PICK s \in SUBSET T : Cardinality(s) = n /\ part[s] # iter[s]
  BY <1>3 DEF Bad
<1>5. s # {}
  BY <1>1, <1>4 DEF FoldsSets, Follows
<1> DEFINE p == Pick(s)
           r == s \ {p}
<1>6. p \in s /\ Cardinality(r) = n - 1 /\ n \in Nat /\ r \in SUBSET T /\ Cardinality(r) \in Nat
  <2>1. p \in s
    BY <1>5 DEF Pick
  <2>2. Cardinality(r) = n - 1
    BY <1>1, <1>4, <2>1, FS_RemoveElement
  <2> HIDE DEF p
  <2>3. r \in SUBSET T
    OBVIOUS
  <2> QED
    BY <1>1, <1>2, <2>1, <2>2, <2>3
<1>7. iter[s] = step[<< p, iter[r] >>] /\ (part[r] \in V => part[s] = step[<< p, part[r] >>])
  BY <1>1, <1>5 DEF FoldsSets, Follows
<1> HIDE DEF p, r
<1>8. part[r] = iter[r]
  <2> SUFFICES ASSUME part[r] # iter[r] PROVE FALSE
    OBVIOUS
  <2>1. Cardinality(r) \in Bad
    BY <1>6 DEF Bad
  <2> QED
    BY <1>3, <1>6, <2>1
<1>9. iter[r] \in V
  BY <1>1, <1>6
<1> QED
  BY <1>4, <1>7, <1>8, <1>9

-----------------------------------------------------------------------------
(* Sums and products over finite sets.                                     *)

Numbers(f, S) == \A x \in S : f[x] \in Nat

SumStep(f, S) == [x \in S \X Nat |-> f[x[1]] + x[2]]

ProductStep(f, S) == [x \in S \X Nat |-> f[x[1]] * x[2]]

LEMMA SumIsFold ==
  ASSUME NEW S, IsFiniteSet(S), NEW f, Numbers(f, S)
  PROVE  /\ Steps(S, Nat, 0, SumStep(f, S))
         /\ \E iter \in [SUBSET S -> Nat] :
              FoldsSets(S, 0, SumStep(f, S), iter) /\ SumFunctionOnSet(f, S) = iter[S]
<1> DEFINE step == SumStep(f, S)
           Rec(iter) == iter = [s \in SUBSET S |->
                                  IF s = {} THEN 0
                                  ELSE f[CHOOSE x \in s : TRUE] + iter[s \ {CHOOSE x \in s : TRUE}]]
<1>1. \A x \in S, v \in Nat : step[<< x, v >>] = f[x] + v /\ f[x] \in Nat /\ f[x] + v \in Nat
  BY DEF SumStep, Numbers
<1>2. step \in [S \X Nat -> Nat]
  <2>1. ASSUME NEW x \in S \X Nat PROVE f[x[1]] + x[2] \in Nat
    <3>1. f[x[1]] \in Nat /\ x[2] \in Nat
      BY DEF Numbers
    <3> QED
      BY <3>1
  <2> QED
    BY <2>1 DEF SumStep
<1>3. Steps(S, Nat, 0, step)
  <2> HIDE DEF step
  <2>1. ASSUME NEW x \in S, NEW y \in S, NEW v \in Nat
        PROVE  step[<< x, step[<< y, v >>] >>] = step[<< y, step[<< x, v >>] >>]
    <3>1. step[<< y, v >>] = f[y] + v /\ step[<< x, v >>] = f[x] + v /\ f[x] + v \in Nat /\ f[y] + v \in Nat
      BY <1>1
    <3>2. step[<< x, f[y] + v >>] = f[x] + (f[y] + v) /\ step[<< y, f[x] + v >>] = f[y] + (f[x] + v)
      BY <1>1, <3>1
    <3>3. f[x] \in Nat /\ f[y] \in Nat
      BY <1>1
    <3> QED
      BY <3>1, <3>2, <3>3
  <2> QED
    BY <1>2, <2>1 DEF Steps
<1>4. PICK iter \in [SUBSET S -> Nat] : FoldsSets(S, 0, step, iter)
  BY <1>3, SetFoldExists
<1> HIDE DEF step
<1>5. Rec(iter)
  <2>1. ASSUME NEW s \in SUBSET S, s # {}
        PROVE  step[<< Pick(s), iter[s \ {Pick(s)}] >>] = f[Pick(s)] + iter[s \ {Pick(s)}]
    <3>1. Pick(s) \in S
      BY <2>1 DEF Pick
    <3>2. iter[s \ {Pick(s)}] \in Nat
      OBVIOUS
    <3> QED
      BY <1>1, <3>1, <3>2
  <2> QED
    BY <1>4, <2>1 DEF FoldsSets, Pick
<1> DEFINE h == CHOOSE h : Rec(h)
<1>6. SumFunctionOnSet(f, S) = h[S]
  BY DEF SumFunctionOnSet, FoldFunctionOnSet, MapThenFoldSet
<1>7. Rec(h)
  BY <1>5
<1> HIDE DEF h
<1>8. Follows(S, Nat, 0, step, h)
  <2>1. h[{}] = 0
    BY <1>7
  <2>2. ASSUME NEW s \in SUBSET S, s # {}, h[s \ {Pick(s)}] \in Nat
        PROVE  h[s] = step[<< Pick(s), h[s \ {Pick(s)}] >>]
    <3>1. Pick(s) \in S
      BY <2>2 DEF Pick
    <3>2. h[s] = f[Pick(s)] + h[s \ {Pick(s)}]
      BY <1>7, <2>2 DEF Pick
    <3> QED
      BY <1>1, <2>2, <3>1, <3>2
  <2> QED
    BY <2>1, <2>2 DEF Follows
<1>9. h[S] = iter[S]
  BY <1>4, <1>8, FoldsAgree
<1> QED
  BY <1>3, <1>4, <1>6, <1>9 DEF step

\* The sums over the subsets of a set.
LEMMA SumFold ==
  ASSUME NEW S, IsFiniteSet(S), NEW f, Numbers(f, S)
  PROVE  /\ SumFunctionOnSet(f, {}) = 0
         /\ \A T \in SUBSET S :
              /\ SumFunctionOnSet(f, T) \in Nat
              /\ \A x \in T : SumFunctionOnSet(f, T) = f[x] + SumFunctionOnSet(f, T \ {x})
<1> DEFINE step == SumStep(f, S)
<1>1. \A x \in S, v \in Nat : step[<< x, v >>] = f[x] + v
  BY DEF SumStep
<1>2. PICK iter \in [SUBSET S -> Nat] : FoldsSets(S, 0, step, iter)
  BY SumIsFold
<1>3. Steps(S, Nat, 0, step)
  BY SumIsFold
<1>4. ASSUME NEW T \in SUBSET S PROVE SumFunctionOnSet(f, T) = iter[T]
  <2>1. IsFiniteSet(T) /\ Numbers(f, T)
    BY FS_Subset DEF Numbers
  <2>2. PICK part \in [SUBSET T -> Nat] :
          FoldsSets(T, 0, SumStep(f, T), part) /\ SumFunctionOnSet(f, T) = part[T]
    BY <2>1, SumIsFold
  <2>3. \A x \in T, v \in Nat : SumStep(f, T)[<< x, v >>] = f[x] + v
    BY DEF SumStep
  <2>4. ASSUME NEW s \in SUBSET T, s # {}
        PROVE  part[s] = step[<< Pick(s), part[s \ {Pick(s)}] >>]
    <3>1. Pick(s) \in T /\ Pick(s) \in S
      BY <2>4 DEF Pick
    <3>2. part[s] = SumStep(f, T)[<< Pick(s), part[s \ {Pick(s)}] >>]
      BY <2>2, <2>4 DEF FoldsSets
    <3>3. part[s \ {Pick(s)}] \in Nat
      OBVIOUS
    <3> HIDE DEF step
    <3> QED
      BY <1>1, <2>3, <3>1, <3>2, <3>3
  <2>5. Follows(T, Nat, 0, step, part)
    <3>1. part[{}] = 0
      BY <2>2 DEF FoldsSets
    <3> HIDE DEF step
    <3> QED
      BY <2>4, <3>1 DEF Follows
  <2> HIDE DEF step
  <2> QED
    BY <1>2, <2>2, <2>5, FoldsAgree
<1> HIDE DEF step
<1>A. \A s \in SUBSET S : \A x \in s : iter[s] = step[<< x, iter[s \ {x}] >>]
  BY <1>2, <1>3, FoldTakes
<1>5. ASSUME NEW T \in SUBSET S, NEW x \in T PROVE iter[T] = f[x] + iter[T \ {x}]
  <2>1. iter[T] = step[<< x, iter[T \ {x}] >>]
    BY <1>A
  <2>2. iter[T \ {x}] \in Nat /\ x \in S
    OBVIOUS
  <2> QED
    BY <1>1, <2>1, <2>2
<1>6. iter[{}] = 0
  BY <1>2 DEF FoldsSets
<1>7. ASSUME NEW T \in SUBSET S, NEW x \in T
      PROVE  SumFunctionOnSet(f, T) = f[x] + SumFunctionOnSet(f, T \ {x})
  <2>1. T \ {x} \in SUBSET S
    OBVIOUS
  <2> QED
    BY <1>4, <1>5, <2>1
<1>8. {} \in SUBSET S
  OBVIOUS
<1>9. ASSUME NEW T \in SUBSET S PROVE SumFunctionOnSet(f, T) \in Nat
  BY <1>4
<1> QED
  BY <1>4, <1>6, <1>7, <1>8, <1>9

LEMMA SumNone ==
  ASSUME NEW f
  PROVE  SumFunctionOnSet(f, {}) = 0
<1>1. IsFiniteSet({}) /\ Numbers(f, {})
  BY FS_EmptySet DEF Numbers
<1> QED
  BY <1>1, SumFold

LEMMA SumTake ==
  ASSUME NEW S, IsFiniteSet(S), NEW f, Numbers(f, S), NEW x \in S
  PROVE  /\ SumFunctionOnSet(f, S) = f[x] + SumFunctionOnSet(f, S \ {x})
         /\ SumFunctionOnSet(f, S \ {x}) \in Nat
<1>1. S \in SUBSET S /\ S \ {x} \in SUBSET S
  OBVIOUS
<1> QED
  BY <1>1, SumFold

LEMMA SumType ==
  ASSUME NEW S, IsFiniteSet(S), NEW f, Numbers(f, S)
  PROVE  SumFunctionOnSet(f, S) \in Nat
<1>1. S \in SUBSET S
  OBVIOUS
<1> QED
  BY <1>1, SumFold

\* An element is added.
LEMMA SumMore ==
  ASSUME NEW S, IsFiniteSet(S), NEW f, NEW T \in SUBSET S, Numbers(f, S), NEW x \in S \ T
  PROVE  /\ SumFunctionOnSet(f, T \cup {x}) = f[x] + SumFunctionOnSet(f, T)
         /\ SumFunctionOnSet(f, T) \in Nat /\ f[x] \in Nat
<1>1. IsFiniteSet(T \cup {x}) /\ Numbers(f, T \cup {x}) /\ (T \cup {x}) \ {x} = T
  BY FS_Subset DEF Numbers
<1> QED
  BY <1>1, SumTake DEF Numbers

LEMMA SumSame ==
  ASSUME NEW S, IsFiniteSet(S), NEW f, NEW g, Numbers(f, S), \A x \in S : f[x] = g[x]
  PROVE  SumFunctionOnSet(f, S) = SumFunctionOnSet(g, S)
<1> DEFINE P == {T \in SUBSET S : SumFunctionOnSet(f, T) = SumFunctionOnSet(g, T)}
<1>1. {} \in P
  BY SumNone
<1>2. ASSUME NEW T \in P, NEW x \in S \ T PROVE T \cup {x} \in P
  <2>1. Numbers(g, S)
    BY DEF Numbers
  <2> QED
    BY <2>1, SumMore
<1> HIDE DEF P
<1>3. P \in SUBSET SUBSET S
  BY DEF P
<1>4. P = SUBSET S
  BY <1>1, <1>2, <1>3, EverySubset
<1> QED
  BY <1>4 DEF P

LEMMA SumOrder ==
  ASSUME NEW S, IsFiniteSet(S), NEW f, NEW g, Numbers(f, S), Numbers(g, S), \A x \in S : f[x] <= g[x]
  PROVE  SumFunctionOnSet(f, S) <= SumFunctionOnSet(g, S)
<1> DEFINE P == {T \in SUBSET S : SumFunctionOnSet(f, T) <= SumFunctionOnSet(g, T)}
<1>1. {} \in P
  BY SumNone
<1>2. ASSUME NEW T \in P, NEW x \in S \ T PROVE T \cup {x} \in P
  <2>1. /\ SumFunctionOnSet(f, T \cup {x}) = f[x] + SumFunctionOnSet(f, T)
        /\ SumFunctionOnSet(f, T) \in Nat /\ f[x] \in Nat
    BY SumMore
  <2>2. /\ SumFunctionOnSet(g, T \cup {x}) = g[x] + SumFunctionOnSet(g, T)
        /\ SumFunctionOnSet(g, T) \in Nat /\ g[x] \in Nat
    BY SumMore
  <2>3. f[x] <= g[x] /\ SumFunctionOnSet(f, T) <= SumFunctionOnSet(g, T)
    OBVIOUS
  <2>4. SumFunctionOnSet(f, T \cup {x}) <= SumFunctionOnSet(g, T \cup {x})
    BY <2>1, <2>2, <2>3
  <2> QED
    BY <2>4
<1> HIDE DEF P
<1>3. P \in SUBSET SUBSET S
  BY DEF P
<1>4. P = SUBSET S
  BY <1>1, <1>2, <1>3, EverySubset
<1> QED
  BY <1>4 DEF P

\* A sum over two disjoint parts.
LEMMA SumSplit ==
  ASSUME NEW S, IsFiniteSet(S), NEW f, Numbers(f, S), NEW T \in SUBSET S
  PROVE  SumFunctionOnSet(f, S) = SumFunctionOnSet(f, T) + SumFunctionOnSet(f, S \ T)
<1> DEFINE U == S \ T
           P == {R \in SUBSET U :
                   SumFunctionOnSet(f, T \cup R) = SumFunctionOnSet(f, T) + SumFunctionOnSet(f, R)}
<1>0. IsFiniteSet(U) /\ Numbers(f, U) /\ IsFiniteSet(T) /\ Numbers(f, T)
  BY FS_Subset DEF Numbers
<1>1. {} \in P
  <2>1. SumFunctionOnSet(f, T) \in Nat
    BY <1>0, SumType
  <2> QED
    BY <2>1, SumNone
<1>2. ASSUME NEW R \in P, NEW x \in U \ R PROVE R \cup {x} \in P
  <2>1. T \cup R \in SUBSET S /\ x \in S \ (T \cup R) /\ T \cup (R \cup {x}) = (T \cup R) \cup {x}
    OBVIOUS
  <2>2. /\ SumFunctionOnSet(f, R \cup {x}) = f[x] + SumFunctionOnSet(f, R)
        /\ SumFunctionOnSet(f, R) \in Nat /\ f[x] \in Nat
    BY <1>0, SumMore
  <2> DEFINE both == T \cup R
  <2>3. SumFunctionOnSet(f, both \cup {x}) = f[x] + SumFunctionOnSet(f, both)
    <3>1. both \in SUBSET S /\ x \in S \ both
      OBVIOUS
    <3> HIDE DEF both
    <3> QED
      BY <3>1, SumMore
  <2>4. SumFunctionOnSet(f, T) \in Nat
    BY <1>0, SumType
  <2>5. SumFunctionOnSet(f, T \cup R) = SumFunctionOnSet(f, T) + SumFunctionOnSet(f, R)
    OBVIOUS
  <2>6. SumFunctionOnSet(f, T \cup (R \cup {x})) =
          SumFunctionOnSet(f, T) + SumFunctionOnSet(f, R \cup {x})
    <3>1. SumFunctionOnSet(f, T \cup (R \cup {x})) = SumFunctionOnSet(f, both \cup {x})
      BY <2>1
    <3>2. SumFunctionOnSet(f, both) = SumFunctionOnSet(f, T) + SumFunctionOnSet(f, R)
      BY <2>5
    <3> HIDE DEF both
    <3> QED
      BY <2>2, <2>3, <2>4, <3>1, <3>2
  <2> QED
    BY <2>6
<1>3. T \cup U = S
  OBVIOUS
<1> HIDE DEF P, U
<1>4. P \in SUBSET SUBSET U
  BY DEF P
<1>5. P = SUBSET U
  BY <1>0, <1>1, <1>2, <1>4, EverySubset
<1>6. U \in P
  BY <1>5
<1> QED
  BY <1>3, <1>6 DEF P, U
LEMMA ProductIsFold ==
  ASSUME NEW S, IsFiniteSet(S), NEW f, Numbers(f, S)
  PROVE  /\ Steps(S, Nat, 1, ProductStep(f, S))
         /\ \E iter \in [SUBSET S -> Nat] :
              FoldsSets(S, 1, ProductStep(f, S), iter) /\ Product(f, S) = iter[S]
<1> DEFINE step == ProductStep(f, S)
           Rec(iter) == iter = [s \in SUBSET S |->
                                  IF s = {} THEN 1
                                  ELSE f[CHOOSE x \in s : TRUE] * iter[s \ {CHOOSE x \in s : TRUE}]]
<1>1. \A x \in S, v \in Nat : step[<< x, v >>] = f[x] * v /\ f[x] \in Nat /\ f[x] * v \in Nat
  BY DEF ProductStep, Numbers
<1>2. step \in [S \X Nat -> Nat]
  <2>1. ASSUME NEW x \in S \X Nat PROVE f[x[1]] * x[2] \in Nat
    <3>1. f[x[1]] \in Nat /\ x[2] \in Nat
      BY DEF Numbers
    <3> QED
      BY <3>1
  <2> QED
    BY <2>1 DEF ProductStep
<1>3. Steps(S, Nat, 1, step)
  <2> HIDE DEF step
  <2>1. ASSUME NEW x \in S, NEW y \in S, NEW v \in Nat
        PROVE  step[<< x, step[<< y, v >>] >>] = step[<< y, step[<< x, v >>] >>]
    <3>1. step[<< y, v >>] = f[y] * v /\ step[<< x, v >>] = f[x] * v /\ f[x] * v \in Nat /\ f[y] * v \in Nat
      BY <1>1
    <3>2. step[<< x, f[y] * v >>] = f[x] * (f[y] * v) /\ step[<< y, f[x] * v >>] = f[y] * (f[x] * v)
      BY <1>1, <3>1
    <3>3. f[x] \in Nat /\ f[y] \in Nat
      BY <1>1
    <3> QED
      BY <3>1, <3>2, <3>3
  <2> QED
    BY <1>2, <2>1 DEF Steps
<1>4. PICK iter \in [SUBSET S -> Nat] : FoldsSets(S, 1, step, iter)
  BY <1>3, SetFoldExists
<1> HIDE DEF step
<1>5. Rec(iter)
  <2>1. ASSUME NEW s \in SUBSET S, s # {}
        PROVE  step[<< Pick(s), iter[s \ {Pick(s)}] >>] = f[Pick(s)] * iter[s \ {Pick(s)}]
    <3>1. Pick(s) \in S
      BY <2>1 DEF Pick
    <3>2. iter[s \ {Pick(s)}] \in Nat
      OBVIOUS
    <3> QED
      BY <1>1, <3>1, <3>2
  <2> QED
    BY <1>4, <2>1 DEF FoldsSets, Pick
<1> DEFINE h == CHOOSE h : Rec(h)
<1>6. Product(f, S) = h[S]
  BY DEF Product, FoldFunctionOnSet, MapThenFoldSet
<1>7. Rec(h)
  BY <1>5
<1> HIDE DEF h
<1>8. Follows(S, Nat, 1, step, h)
  <2>1. h[{}] = 1
    BY <1>7
  <2>2. ASSUME NEW s \in SUBSET S, s # {}, h[s \ {Pick(s)}] \in Nat
        PROVE  h[s] = step[<< Pick(s), h[s \ {Pick(s)}] >>]
    <3>1. Pick(s) \in S
      BY <2>2 DEF Pick
    <3>2. h[s] = f[Pick(s)] * h[s \ {Pick(s)}]
      BY <1>7, <2>2 DEF Pick
    <3> QED
      BY <1>1, <2>2, <3>1, <3>2
  <2> QED
    BY <2>1, <2>2 DEF Follows
<1>9. h[S] = iter[S]
  BY <1>4, <1>8, FoldsAgree
<1> QED
  BY <1>3, <1>4, <1>6, <1>9 DEF step

\* The products over the subsets of a set.
LEMMA ProductFold ==
  ASSUME NEW S, IsFiniteSet(S), NEW f, Numbers(f, S)
  PROVE  /\ Product(f, {}) = 1
         /\ \A T \in SUBSET S :
              /\ Product(f, T) \in Nat
              /\ \A x \in T : Product(f, T) = f[x] * Product(f, T \ {x})
<1> DEFINE step == ProductStep(f, S)
<1>1. \A x \in S, v \in Nat : step[<< x, v >>] = f[x] * v
  BY DEF ProductStep
<1>2. PICK iter \in [SUBSET S -> Nat] : FoldsSets(S, 1, step, iter)
  BY ProductIsFold
<1>3. Steps(S, Nat, 1, step)
  BY ProductIsFold
<1>4. ASSUME NEW T \in SUBSET S PROVE Product(f, T) = iter[T]
  <2>1. IsFiniteSet(T) /\ Numbers(f, T)
    BY FS_Subset DEF Numbers
  <2>2. PICK part \in [SUBSET T -> Nat] :
          FoldsSets(T, 1, ProductStep(f, T), part) /\ Product(f, T) = part[T]
    BY <2>1, ProductIsFold
  <2>3. \A x \in T, v \in Nat : ProductStep(f, T)[<< x, v >>] = f[x] * v
    BY DEF ProductStep
  <2>4. ASSUME NEW s \in SUBSET T, s # {}
        PROVE  part[s] = step[<< Pick(s), part[s \ {Pick(s)}] >>]
    <3>1. Pick(s) \in T /\ Pick(s) \in S
      BY <2>4 DEF Pick
    <3>2. part[s] = ProductStep(f, T)[<< Pick(s), part[s \ {Pick(s)}] >>]
      BY <2>2, <2>4 DEF FoldsSets
    <3>3. part[s \ {Pick(s)}] \in Nat
      OBVIOUS
    <3> HIDE DEF step
    <3> QED
      BY <1>1, <2>3, <3>1, <3>2, <3>3
  <2>5. Follows(T, Nat, 1, step, part)
    <3>1. part[{}] = 1
      BY <2>2 DEF FoldsSets
    <3> HIDE DEF step
    <3> QED
      BY <2>4, <3>1 DEF Follows
  <2> HIDE DEF step
  <2> QED
    BY <1>2, <2>2, <2>5, FoldsAgree
<1> HIDE DEF step
<1>A. \A s \in SUBSET S : \A x \in s : iter[s] = step[<< x, iter[s \ {x}] >>]
  BY <1>2, <1>3, FoldTakes
<1>5. ASSUME NEW T \in SUBSET S, NEW x \in T PROVE iter[T] = f[x] * iter[T \ {x}]
  <2>1. iter[T] = step[<< x, iter[T \ {x}] >>]
    BY <1>A
  <2>2. iter[T \ {x}] \in Nat /\ x \in S
    OBVIOUS
  <2> QED
    BY <1>1, <2>1, <2>2
<1>6. iter[{}] = 1
  BY <1>2 DEF FoldsSets
<1>7. ASSUME NEW T \in SUBSET S, NEW x \in T
      PROVE  Product(f, T) = f[x] * Product(f, T \ {x})
  <2>1. T \ {x} \in SUBSET S
    OBVIOUS
  <2> QED
    BY <1>4, <1>5, <2>1
<1>8. {} \in SUBSET S
  OBVIOUS
<1>9. ASSUME NEW T \in SUBSET S PROVE Product(f, T) \in Nat
  BY <1>4
<1> QED
  BY <1>4, <1>6, <1>7, <1>8, <1>9

LEMMA ProductNone ==
  ASSUME NEW f
  PROVE  Product(f, {}) = 1
<1>1. IsFiniteSet({}) /\ Numbers(f, {})
  BY FS_EmptySet DEF Numbers
<1> QED
  BY <1>1, ProductFold

LEMMA ProductTake ==
  ASSUME NEW S, IsFiniteSet(S), NEW f, Numbers(f, S), NEW x \in S
  PROVE  /\ Product(f, S) = f[x] * Product(f, S \ {x})
         /\ Product(f, S \ {x}) \in Nat
<1>1. S \in SUBSET S /\ S \ {x} \in SUBSET S
  OBVIOUS
<1> QED
  BY <1>1, ProductFold

LEMMA ProductType ==
  ASSUME NEW S, IsFiniteSet(S), NEW f, Numbers(f, S)
  PROVE  Product(f, S) \in Nat
<1>1. S \in SUBSET S
  OBVIOUS
<1> QED
  BY <1>1, ProductFold

-----------------------------------------------------------------------------
(* Division.                                                               *)

LEMMA Divides ==
  ASSUME NEW n \in Nat, NEW d \in Nat \ {0}
  PROVE  /\ n \div d \in Nat /\ n % d \in 0 .. d - 1
         /\ n % d = n - d * (n \div d)
         /\ d * (n \div d) <= n /\ n < d * (n \div d) + d
<1>1. n \div d \in Nat
  BY SMTT(30)
<1>2. n % d \in 0 .. d - 1
  BY SMTT(30)
<1>3. n % d = n - d * (n \div d)
  BY SMTT(30)
<1>4. d * (n \div d) <= n
  BY SMTT(30)
<1>5. n < d * (n \div d) + d
  BY SMTT(30)
<1> QED
  BY <1>1, <1>2, <1>3, <1>4, <1>5

\* The quotient is the only one.
LEMMA QuotientIs ==
  ASSUME NEW n \in Nat, NEW d \in Nat \ {0}, NEW q \in Nat, q * d <= n, n < q * d + d
  PROVE  n \div d = q
<1> DEFINE x == n \div d
<1>1. x \in Nat /\ d * x <= n /\ n < d * x + d
  BY Divides
<1> HIDE DEF x
<1>2. CASE x < q
  <2>1. x + 1 <= q
    BY <1>1, <1>2
  <2>2. d * (x + 1) <= d * q
    BY <1>1, <2>1, SMTT(30)
  <2> QED
    BY <1>1, <2>2, SMTT(30)
<1>3. CASE q < x
  <2>1. q + 1 <= x
    BY <1>1, <1>3
  <2>2. d * (q + 1) <= d * x
    BY <1>1, <2>1, SMTT(30)
  <2> QED
    BY <1>1, <2>2, SMTT(30)
<1>4. x = q
  BY <1>1, <1>2, <1>3
<1> QED
  BY <1>4 DEF x

\* A quotient grows with its numerator.
LEMMA QuotientOrder ==
  ASSUME NEW n \in Nat, NEW k \in Nat, n <= k, NEW d \in Nat \ {0}
  PROVE  n \div d <= k \div d
<1> DEFINE x == n \div d
           y == k \div d
<1>1. x \in Nat /\ y \in Nat /\ d * x <= n /\ k < d * y + d
  BY Divides
<1> HIDE DEF x, y
<1>2. CASE y < x
  <2>1. d * (y + 1) <= d * x
    BY <1>1, <1>2, SMTT(30)
  <2> QED
    BY <1>1, <2>1, SMTT(30)
<1>3. x <= y
  BY <1>1, <1>2
<1> QED
  BY <1>3 DEF x, y

LEMMA CeilDivType ==
  ASSUME NEW n \in Nat, NEW d \in Nat \ {0}
  PROVE  /\ CeilDiv(n, d) \in Nat
         /\ n > 0 => CeilDiv(n, d) > 0
<1>1. n + d - 1 \in Nat
  OBVIOUS
<1>2. CeilDiv(n, d) \in Nat /\ n + d - 1 < d * CeilDiv(n, d) + d
  BY <1>1, Divides DEF CeilDiv
<1>3. ASSUME n > 0, CeilDiv(n, d) = 0 PROVE FALSE
  <2>1. d * CeilDiv(n, d) = 0
    BY <1>3
  <2> QED
    BY <1>2, <1>3, <2>1
<1> QED
  BY <1>2, <1>3

\* What is not more than d times q takes no more than q.
LEMMA CeilDivLeast ==
  ASSUME NEW n \in Nat, NEW d \in Nat \ {0}, NEW q \in Nat, n <= d * q
  PROVE  CeilDiv(n, d) <= q
<1> DEFINE x == CeilDiv(n, d)
<1>1. n + d - 1 \in Nat
  OBVIOUS
<1>2. x \in Nat /\ d * x <= n + d - 1
  BY <1>1, Divides DEF CeilDiv
<1> HIDE DEF x
<1>3. CASE q < x
  <2>1. d * (q + 1) <= d * x
    BY <1>2, <1>3, SMTT(30)
  <2>2. d * (q + 1) = d * q + d
    BY SMTT(30)
  <2> QED
    BY <1>2, <2>1, <2>2, SMTT(30)
<1> QED
  BY <1>2, <1>3 DEF x

-----------------------------------------------------------------------------
(* More about products.                                                    *)

LEMMA ProductMore ==
  ASSUME NEW S, IsFiniteSet(S), NEW f, NEW T \in SUBSET S, Numbers(f, S), NEW x \in S \ T
  PROVE  /\ Product(f, T \cup {x}) = f[x] * Product(f, T)
         /\ Product(f, T) \in Nat /\ f[x] \in Nat
<1>1. IsFiniteSet(T \cup {x}) /\ Numbers(f, T \cup {x}) /\ (T \cup {x}) \ {x} = T
  BY FS_Subset DEF Numbers
<1> QED
  BY <1>1, ProductTake DEF Numbers

LEMMA ProductSame ==
  ASSUME NEW S, IsFiniteSet(S), NEW f, NEW g, Numbers(f, S), \A x \in S : f[x] = g[x]
  PROVE  Product(f, S) = Product(g, S)
<1> DEFINE P == {T \in SUBSET S : Product(f, T) = Product(g, T)}
<1>1. {} \in P
  BY ProductNone
<1>2. ASSUME NEW T \in P, NEW x \in S \ T PROVE T \cup {x} \in P
  <2>1. Numbers(g, S)
    BY DEF Numbers
  <2> QED
    BY <2>1, ProductMore
<1> HIDE DEF P
<1>3. P \in SUBSET SUBSET S
  BY DEF P
<1>4. P = SUBSET S
  BY <1>1, <1>2, <1>3, EverySubset
<1> QED
  BY <1>4 DEF P

\* Factors of which none is 0.
Factors(f, S) == \A x \in S : f[x] \in Nat \ {0}

LEMMA TimesOrder ==
  ASSUME NEW x \in Nat, NEW y \in Nat, NEW u \in Nat, NEW v \in Nat, x <= y, u <= v
  PROVE  x * u <= y * v
<1>1. x * u <= x * v
  BY SMTT(30)
<1>2. x * v <= y * v
  BY SMTT(30)
<1>3. x * u \in Nat /\ x * v \in Nat /\ y * v \in Nat
  OBVIOUS
<1> QED
  BY <1>1, <1>2, <1>3

LEMMA TimesPositive ==
  ASSUME NEW x \in Nat \ {0}, NEW y \in Nat \ {0}
  PROVE  x * y \in Nat \ {0}
  BY SMTT(30)

LEMMA ProductPositive ==
  ASSUME NEW S, IsFiniteSet(S), NEW f, Factors(f, S)
  PROVE  Product(f, S) \in Nat \ {0}
<1> DEFINE P == {T \in SUBSET S : Product(f, T) \in Nat \ {0}}
<1>0. Numbers(f, S)
  BY DEF Numbers, Factors
<1>1. {} \in P
  BY ProductNone
<1>2. ASSUME NEW T \in P, NEW x \in S \ T PROVE T \cup {x} \in P
  <2>1. Product(f, T \cup {x}) = f[x] * Product(f, T)
    BY <1>0, ProductMore
  <2>2. f[x] \in Nat \ {0} /\ Product(f, T) \in Nat \ {0}
    BY DEF Factors
  <2>3. f[x] * Product(f, T) \in Nat \ {0}
    BY <2>2, TimesPositive
  <2> QED
    BY <2>1, <2>3
<1> HIDE DEF P
<1>3. P \in SUBSET SUBSET S
  BY DEF P
<1>4. P = SUBSET S
  BY <1>1, <1>2, <1>3, EverySubset
<1> QED
  BY <1>4 DEF P

LEMMA ProductOrder ==
  ASSUME NEW S, IsFiniteSet(S), NEW f, NEW g, Numbers(f, S), Numbers(g, S), \A x \in S : f[x] <= g[x]
  PROVE  Product(f, S) <= Product(g, S)
<1> DEFINE P == {T \in SUBSET S : Product(f, T) <= Product(g, T)}
<1>1. {} \in P
  BY ProductNone
<1>2. ASSUME NEW T \in P, NEW x \in S \ T PROVE T \cup {x} \in P
  <2>1. /\ Product(f, T \cup {x}) = f[x] * Product(f, T)
        /\ Product(f, T) \in Nat /\ f[x] \in Nat
    BY ProductMore
  <2>2. /\ Product(g, T \cup {x}) = g[x] * Product(g, T)
        /\ Product(g, T) \in Nat /\ g[x] \in Nat
    BY ProductMore
  <2>3. f[x] <= g[x] /\ Product(f, T) <= Product(g, T)
    OBVIOUS
  <2>4. f[x] * Product(f, T) <= g[x] * Product(g, T)
    BY <2>1, <2>2, <2>3, TimesOrder
  <2> QED
    BY <2>1, <2>2, <2>4
<1> HIDE DEF P
<1>3. P \in SUBSET SUBSET S
  BY DEF P
<1>4. P = SUBSET S
  BY <1>1, <1>2, <1>3, EverySubset
<1> QED
  BY <1>4 DEF P

\* A product of some of the factors is not larger than that of all of them.
LEMMA ProductPart ==
  ASSUME NEW S, IsFiniteSet(S), NEW f, Factors(f, S), NEW T \in SUBSET S
  PROVE  Product(f, T) <= Product(f, S)
<1> DEFINE U == S \ T
           P == {R \in SUBSET U : Product(f, T) <= Product(f, T \cup R)}
<1>0. IsFiniteSet(U) /\ Numbers(f, S)
  BY FS_Subset DEF Numbers, Factors
<1>A. \A R \in SUBSET S : Product(f, R) \in Nat
  BY <1>0, ProductFold
<1>1. {} \in P
  BY <1>A
<1>2. ASSUME NEW R \in P, NEW x \in U \ R PROVE R \cup {x} \in P
  <2> DEFINE both == T \cup R
  <2>1. both \in SUBSET S /\ x \in S \ both /\ T \cup (R \cup {x}) = both \cup {x}
    OBVIOUS
  <2>2. Product(f, T) <= Product(f, both)
    OBVIOUS
  <2> HIDE DEF both
  <2>3. Product(f, both \cup {x}) = f[x] * Product(f, both) /\ Product(f, both) \in Nat
    <3>1. both \in SUBSET S /\ x \in S \ both
      BY <2>1
    <3> QED
      BY <1>0, <3>1, ProductMore
  <2>4. f[x] \in Nat \ {0}
    BY <2>1 DEF Factors
  <2>5. 1 * Product(f, both) <= f[x] * Product(f, both)
    BY <2>3, <2>4, TimesOrder
  <2>6. Product(f, T) \in Nat
    BY <1>A
  <2>7. Product(f, T) <= Product(f, both \cup {x})
    <3>1. f[x] * Product(f, both) \in Nat
      BY <2>3, <2>4
    <3> QED
      BY <2>2, <2>3, <2>5, <2>6, <3>1
  <2> QED
    BY <2>1, <2>7
<1> HIDE DEF P
<1>3. P \in SUBSET SUBSET U
  BY DEF P
<1>4. P = SUBSET U
  BY <1>0, <1>1, <1>2, <1>3, EverySubset
<1>5. U \in P /\ T \cup U = S
  BY <1>4
<1> QED
  BY <1>5 DEF P

-----------------------------------------------------------------------------
(* Extents and their products.                                             *)

\* A mapping and an architecture as the assumption on Jobs has them.
MappingTyped(m) == Top(m) \in Nat \ {0, 1} /\ m \in Mappings(Top(m)) /\ Disjoint(m.groups)
ArchTyped(a) == a \in Architectures(DOMAIN a.organization)

LEMMA MappingFields ==
  ASSUME NEW m, MappingTyped(m)
  PROVE  /\ Top(m) \in Nat \ {0, 1}
         /\ m.bound \in [0 .. Top(m) -> [DimSet -> Nat \ {0}]]
         /\ m.index \in [Tensors -> Seq(SUBSET DimSet)]
         /\ m.bits \in [Tensors -> Nat \ {0}]
         /\ m.streams \in SUBSET Tensors /\ m.streams # Tensors
         /\ m.system \in 0 .. Top(m)
         /\ m.block \in BOOLEAN /\ m.pu \in BOOLEAN /\ m.bitParallel \in BOOLEAN
         /\ m.interleaved \in BOOLEAN /\ m.cached \in BOOLEAN
         /\ m.groups \in Seq(CacheGroup)
  BY DEF MappingTyped, Mappings

LEMMA ArchFields ==
  ASSUME NEW a, ArchTyped(a)
  PROVE  /\ a.mode \in {"regfile", "wram"}
         /\ a.cacheBytes \in Nat /\ a.vectorBytes \in Nat \ {0}
         /\ a.rowBits \in Nat /\ a.rows \in Nat /\ a.banks \in Nat \ {0} /\ a.lanes \in Nat \ {0}
         /\ a.channelLevel \in Nat /\ a.treeWidth \in Nat \ {0} /\ a.colBits \in Nat \ {0}
         /\ a.cost \in [Kinds -> Cost]
  BY DEF ArchTyped, Architectures

\* An element has at least one whole byte.
LEMMA ElementTyped ==
  ASSUME NEW m, MappingTyped(m), NEW t \in Tensors
  PROVE  ElementBits(m, t) \in Nat \ {0}
<1>1. m.bits \in [Tensors -> Nat \ 0 .. 7]
  BY DEF MappingTyped, Mappings
<1>2. m.bits[t] \in Nat /\ m.bits[t] > 7
  BY <1>1
<1> DEFINE b == m.bits[t]
<1>3. b \in Nat /\ b > 7
  BY <1>2
<1> HIDE DEF b
<1>4. b \div 8 \in Nat \ {0}
  BY <1>3
<1>5. 8 * (b \div 8) \in Nat \ {0}
  BY <1>4
<1> QED
  BY <1>5 DEF ElementBits, b

LEMMA DimsShape ==
  /\ Len(Dims) = 7 /\ DOMAIN Dims = 1 .. 7
  /\ \A i \in 1 .. 7 : Dims[i] \in DimSet
  /\ \A i, j \in 1 .. 7 : Dims[i] = Dims[j] => i = j
  /\ \A d \in DimSet : \E i \in 1 .. 7 : Dims[i] = d
<1>1. Len(Dims) = 7 /\ DOMAIN Dims = 1 .. 7
  BY DEF Dims
<1>2. \A i, j \in 1 .. 7 : Dims[i] = Dims[j] => i = j
  BY DEF Dims
<1> QED
  BY <1>1, <1>2 DEF DimSet, ToSet

LEMMA ImageFinite ==
  ASSUME NEW f, NEW n \in Nat
  PROVE  IsFiniteSet({f[i] : i \in 1 .. n}) /\ Cardinality({f[i] : i \in 1 .. n}) <= n
<1> DEFINE T == {f[i] : i \in 1 .. n}
           g == [i \in 1 .. n |-> f[i]]
<1>1. IsFiniteSet(1 .. n) /\ Cardinality(1 .. n) = n
  BY FS_Interval
<1>2. g \in Surjection(1 .. n, T)
  BY DEF Surjection
<1> HIDE DEF T, g
<1>3. IsFiniteSet(T) /\ Cardinality(T) <= n
  BY <1>1, <1>2, FS_Surjection
<1> QED
  BY <1>3 DEF T

LEMMA DimSetFinite ==
  /\ IsFiniteSet(DimSet)
  /\ {"N", "K", "P", "Q", "C", "R", "S"} \subseteq DimSet
<1>1. DimSet = {Dims[i] : i \in 1 .. 7}
  BY DimsShape DEF DimSet, ToSet
<1>2. {"N", "K", "P", "Q", "C", "R", "S"} \subseteq DimSet
  <2>1. /\ Dims[1] = "N" /\ Dims[2] = "K" /\ Dims[3] = "P" /\ Dims[4] = "Q"
        /\ Dims[5] = "C" /\ Dims[6] = "R" /\ Dims[7] = "S"
    BY DEF Dims
  <2> QED
    BY <1>1, <2>1
<1> QED
  BY <1>1, <1>2, ImageFinite

LEMMA LevelTyped ==
  ASSUME NEW m, MappingTyped(m), NEW l \in 0 .. Top(m), NEW D \in SUBSET DimSet
  PROVE  /\ Product(m.bound[l], D) \in Nat \ {0}
         /\ Product(m.bound[l], D) <= ProductLevel(m, l)
         /\ ProductLevel(m, l) \in Nat \ {0}
<1>1. m.bound[l] \in [DimSet -> Nat \ {0}]
  BY MappingFields
<1>2. Factors(m.bound[l], DimSet) /\ Factors(m.bound[l], D) /\ IsFiniteSet(D) /\ IsFiniteSet(DimSet)
  BY <1>1, DimSetFinite, FS_Subset DEF Factors
<1> QED
  BY <1>2, ProductPositive, ProductPart DEF ProductLevel

LEMMA RelatedDims ==
  ASSUME NEW m, MappingTyped(m), NEW t \in Tensors
  PROVE  Related(m, t) \in SUBSET DimSet
<1>1. m.index[t] \in Seq(SUBSET DimSet)
  BY MappingFields
<1>2. \A i \in DOMAIN m.index[t] : m.index[t][i] \in SUBSET DimSet
  BY <1>1, ElementOfSeq
<1> QED
  BY <1>2 DEF Related, Range

LEMMA TensorLevelTyped ==
  ASSUME NEW m, MappingTyped(m), NEW l \in 0 .. Top(m), NEW t \in Tensors
  PROVE  /\ TensorLevel(m, t, l) \in Nat \ {0}
         /\ TensorLevel(m, t, l) <= ProductLevel(m, l)
  BY LevelTyped, RelatedDims DEF TensorLevel

LEMMA ProductLevelsTyped ==
  ASSUME NEW m, MappingTyped(m), NEW x \in Nat, NEW y \in 0 .. Top(m)
  PROVE  ProductLevels(m, x, y) \in Nat \ {0}
<1> DEFINE f == [l \in x .. y |-> ProductLevel(m, l)]
<1>0. Top(m) \in Nat
  BY MappingFields
<1>1. \A l \in x .. y : l \in 0 .. Top(m)
  BY <1>0
<1>2. Factors(f, x .. y)
  BY <1>1, LevelTyped DEF Factors
<1>3. IsFiniteSet(x .. y)
  BY <1>0, FS_Interval
<1> HIDE DEF f
<1>4. Product(f, x .. y) \in Nat \ {0}
  BY <1>2, <1>3, ProductPositive
<1> QED
  BY <1>4 DEF ProductLevels, f

-----------------------------------------------------------------------------
(* Sums along sequences and over families.                                 *)

\* A sum over 1 .. n is what its partial sums add up to.
LEMMA SumUpTo ==
  ASSUME NEW n \in Nat, NEW g, Numbers(g, 1 .. n),
         NEW h, h[0] = 0, \A k \in 1 .. n : h[k] = h[k - 1] + g[k]
  PROVE  \A k \in 0 .. n : SumFunctionOnSet(g, 1 .. k) = h[k]
<1> DEFINE A == {k \in Nat : k <= n => SumFunctionOnSet(g, 1 .. k) = h[k]}
<1>1. 0 \in A
  <2>1. 1 .. 0 = {}
    OBVIOUS
  <2> QED
    BY <2>1, SumNone
<1>2. ASSUME NEW k \in A PROVE k + 1 \in A
  <2> SUFFICES ASSUME k + 1 <= n PROVE SumFunctionOnSet(g, 1 .. (k + 1)) = h[k + 1]
    OBVIOUS
  <2>1. SumFunctionOnSet(g, 1 .. k) = h[k] /\ k \in Nat /\ k <= n
    OBVIOUS
  <2>2. 1 .. k \in SUBSET (1 .. n) /\ k + 1 \in (1 .. n) \ (1 .. k) /\ 1 .. (k + 1) = (1 .. k) \cup {k + 1}
    BY <2>1
  <2>3. IsFiniteSet(1 .. n)
    BY FS_Interval
  <2> DEFINE x == k + 1
             T == 1 .. k
             S == 1 .. n
  <2>4. T \in SUBSET S /\ x \in S \ T /\ IsFiniteSet(S) /\ Numbers(g, S) /\ 1 .. (k + 1) = T \cup {x}
    BY <2>2, <2>3
  <2> HIDE DEF x, T, S
  <2>5. SumFunctionOnSet(g, T \cup {x}) = g[x] + SumFunctionOnSet(g, T)
    BY <2>4, SumMore
  <2>6. h[k + 1] = h[k] + g[k + 1]
    <3>1. k + 1 \in 1 .. n /\ (k + 1) - 1 = k
      BY <2>1
    <3> QED
      BY <3>1
  <2>7. g[k + 1] \in Nat /\ h[k] \in Nat
    <3>1. SumFunctionOnSet(g, T) \in Nat /\ g[x] \in Nat
      BY <2>4, SumMore
    <3> QED
      BY <2>1, <3>1 DEF x, T
  <2>8. SumFunctionOnSet(g, 1 .. (k + 1)) = g[k + 1] + SumFunctionOnSet(g, 1 .. k)
    <3>1. SumFunctionOnSet(g, 1 .. (k + 1)) = g[x] + SumFunctionOnSet(g, T)
      BY <2>4, <2>5
    <3> QED
      BY <3>1 DEF x, T
  <2> QED
    BY <2>1, <2>6, <2>7, <2>8
<1>3. A \in SUBSET Nat
  OBVIOUS
<1> HIDE DEF A
<1>4. A = Nat
  BY <1>1, <1>2, <1>3, Upwards
<1> QED
  BY <1>4 DEF A

\* A sum over the elements of a sequence without repetition is one over its
\* positions.
LEMMA SumReindex ==
  ASSUME NEW n \in Nat, NEW s, \A i, j \in 1 .. n : s[i] = s[j] => i = j,
         NEW f, Numbers(f, {s[i] : i \in 1 .. n})
  PROVE  SumFunctionOnSet(f, {s[i] : i \in 1 .. n}) = SumFunctionOnSet([i \in 1 .. n |-> f[s[i]]], 1 .. n)
<1> DEFINE U(k) == {s[i] : i \in 1 .. k}
           g == [i \in 1 .. n |-> f[s[i]]]
           h == [k \in 0 .. n |-> SumFunctionOnSet(f, U(k))]
<1>1. Numbers(g, 1 .. n)
  BY DEF Numbers
<1>2. h[0] = 0
  <2>1. U(0) = {}
    OBVIOUS
  <2> QED
    BY <2>1, SumNone
<1>3. ASSUME NEW k \in 1 .. n PROVE h[k] = h[k - 1] + g[k]
  <2> DEFINE T == U(k - 1)
             S == U(n)
             x == s[k]
  <2>1. IsFiniteSet(S) /\ Numbers(f, S)
    BY ImageFinite
  <2>2. T \in SUBSET S /\ x \in S \ T /\ U(k) = T \cup {x}
    <3>1. T \subseteq S
      OBVIOUS
    <3>2. x \in S
      OBVIOUS
    <3>3. x \notin T
      OBVIOUS
    <3>4. U(k) = T \cup {x}
      <4>1. 1 .. k = (1 .. (k - 1)) \cup {k}
        OBVIOUS
      <4> QED
        BY <4>1
    <3> QED
      BY <3>1, <3>2, <3>3, <3>4
  <2>3. h[k] = SumFunctionOnSet(f, U(k)) /\ h[k - 1] = SumFunctionOnSet(f, T) /\ g[k] = f[x]
    OBVIOUS
  <2> HIDE DEF T, S, x, h, g, U
  <2>4. SumFunctionOnSet(f, T \cup {x}) = f[x] + SumFunctionOnSet(f, T)
    BY <2>1, <2>2, SumMore
  <2>5. SumFunctionOnSet(f, T) \in Nat /\ f[x] \in Nat
    BY <2>1, <2>2, SumMore
  <2> QED
    BY <2>2, <2>3, <2>4, <2>5
<1>4. h[n] = SumFunctionOnSet(f, U(n))
  OBVIOUS
<1> HIDE DEF h, g
<1>5. \A k \in 0 .. n : SumFunctionOnSet(g, 1 .. k) = h[k]
  BY <1>1, <1>2, <1>3, SumUpTo
<1> QED
  BY <1>4, <1>5 DEF g

\* A sum over disjoint parts is the sum of their sums.
LEMMA SumUnion ==
  ASSUME NEW n \in Nat, NEW S, IsFiniteSet(S), NEW f, Numbers(f, S), NEW part \in [1 .. n -> SUBSET S],
         \A i, j \in 1 .. n : i # j => part[i] \cap part[j] = {}
  PROVE  SumFunctionOnSet(f, UNION {part[i] : i \in 1 .. n}) =
           SumFunctionOnSet([i \in 1 .. n |-> SumFunctionOnSet(f, part[i])], 1 .. n)
<1> DEFINE U(k) == UNION {part[i] : i \in 1 .. k}
           g == [i \in 1 .. n |-> SumFunctionOnSet(f, part[i])]
           h == [k \in 0 .. n |-> SumFunctionOnSet(f, U(k))]
<1>0. ASSUME NEW T \in SUBSET S PROVE IsFiniteSet(T) /\ Numbers(f, T) /\ SumFunctionOnSet(f, T) \in Nat
  <2>1. IsFiniteSet(T) /\ Numbers(f, T)
    BY FS_Subset DEF Numbers
  <2> QED
    BY <2>1, SumType
<1>1. Numbers(g, 1 .. n)
  <2>1. \A i \in 1 .. n : SumFunctionOnSet(f, part[i]) \in Nat
    BY <1>0
  <2> QED
    BY <2>1 DEF Numbers
<1>2. h[0] = 0
  <2>1. U(0) = {}
    OBVIOUS
  <2>2. h[0] = SumFunctionOnSet(f, U(0))
    OBVIOUS
  <2> HIDE DEF U, h
  <2> QED
    BY <2>1, <2>2, SumNone
<1>3. ASSUME NEW k \in 1 .. n PROVE h[k] = h[k - 1] + g[k]
  <2> DEFINE T == U(k - 1)
             P == part[k]
  <2>1. P \in SUBSET S
    OBVIOUS
  <2>2. U(k) \in SUBSET S
    OBVIOUS
  <2>3. T \in SUBSET U(k) /\ U(k) \ T = P
    <3>1. 1 .. k = (1 .. (k - 1)) \cup {k} /\ k \notin 1 .. (k - 1)
      OBVIOUS
    <3>2. U(k) = T \cup P
      BY <3>1
    <3>3. \A i \in 1 .. (k - 1) : part[i] \cap P = {}
      OBVIOUS
    <3>4. T \cap P = {}
      BY <3>3
    <3> HIDE DEF T, P, U
    <3> QED
      BY <3>2, <3>4
  <2>4. h[k] = SumFunctionOnSet(f, U(k)) /\ h[k - 1] = SumFunctionOnSet(f, T)
    OBVIOUS
  <2>5. g[k] = SumFunctionOnSet(f, P)
    OBVIOUS
  <2> HIDE DEF T, P, h, g, U
  <2>6. IsFiniteSet(U(k)) /\ Numbers(f, U(k))
    BY <1>0, <2>2
  <2>7. SumFunctionOnSet(f, U(k)) = SumFunctionOnSet(f, T) + SumFunctionOnSet(f, U(k) \ T)
    BY <2>3, <2>6, SumSplit
  <2> QED
    BY <2>3, <2>4, <2>5, <2>7
<1>4. h[n] = SumFunctionOnSet(f, U(n))
  OBVIOUS
<1> HIDE DEF h, g
<1>5. \A k \in 0 .. n : SumFunctionOnSet(g, 1 .. k) = h[k]
  BY <1>1, <1>2, <1>3, SumUpTo
<1> QED
  BY <1>4, <1>5 DEF g

-----------------------------------------------------------------------------
(* How a cache is divided.                                                 *)

LEMMA GroupFields ==
  ASSUME NEW m, MappingTyped(m), NEW i \in DOMAIN m.groups
  PROVE  /\ DOMAIN m.groups = 1 .. Len(m.groups) /\ Len(m.groups) \in Nat
         /\ m.groups[i].weight \in Nat \ {0}
         /\ m.groups[i].tensors \in Seq(Tensors)
         /\ DOMAIN m.groups[i].tensors = 1 .. Len(m.groups[i].tensors)
         /\ Len(m.groups[i].tensors) \in Nat
         /\ \A k \in DOMAIN m.groups[i].tensors : m.groups[i].tensors[k] \in Tensors
<1>1. m.groups \in Seq(CacheGroup)
  BY MappingFields
<1>2. m.groups[i] \in CacheGroup
  BY <1>1, ElementOfSeq
<1>3. m.groups[i].weight \in Nat \ {0} /\ m.groups[i].tensors \in Seq(Tensors)
  BY <1>2 DEF CacheGroup
<1>4. \A k \in DOMAIN m.groups[i].tensors : m.groups[i].tensors[k] \in Tensors
  BY <1>3, ElementOfSeq
<1>5. /\ DOMAIN m.groups = 1 .. Len(m.groups) /\ Len(m.groups) \in Nat
      /\ DOMAIN m.groups[i].tensors = 1 .. Len(m.groups[i].tensors)
      /\ Len(m.groups[i].tensors) \in Nat
  BY <1>1, <1>3
<1> QED
  BY <1>3, <1>4, <1>5

LEMMA TensorsFinite == IsFiniteSet(Tensors)
<1>1. IsFiniteSet({"In"}) /\ IsFiniteSet({"F"}) /\ IsFiniteSet({"Out"})
  BY FS_Singleton
<1>2. IsFiniteSet({"In"} \cup {"F"})
  BY <1>1, FS_Union
<1>3. IsFiniteSet(({"In"} \cup {"F"}) \cup {"Out"})
  BY <1>1, <1>2, FS_Union
<1>4. Tensors = ({"In"} \cup {"F"}) \cup {"Out"}
  BY DEF Tensors
<1> QED
  BY <1>3, <1>4

\* The whole parts are numbers and do not add up to more than the whole.
LEMMA BaseFits ==
  ASSUME NEW m, MappingTyped(m), NEW a, ArchTyped(a), DOMAIN m.groups # {}
  PROVE  /\ Numbers(BaseBytes(m, a), DOMAIN m.groups)
         /\ SumFunctionOnSet(BaseBytes(m, a), DOMAIN m.groups) <= a.cacheBytes
<1> DEFINE D == DOMAIN m.groups
           w == Weights(m)
           W == TotalWeight(m)
           b == BaseBytes(m, a)
           c == a.cacheBytes
<1>1. m.groups \in Seq(CacheGroup) /\ c \in Nat
  BY MappingFields, ArchFields
<1>2. D = 1 .. Len(m.groups) /\ Len(m.groups) \in Nat
  BY <1>1
<1>3. IsFiniteSet(D)
  BY <1>2, FS_Interval
<1>4. \A i \in D : w[i] \in Nat \ {0}
  BY GroupFields DEF Weights
<1>5. Numbers(w, D)
  BY <1>4 DEF Numbers
<1>6. W \in Nat \ {0}
  <2>1. PICK i \in D : TRUE
    OBVIOUS
  <2>2. W = w[i] + SumFunctionOnSet(w, D \ {i}) /\ SumFunctionOnSet(w, D \ {i}) \in Nat
    <3> HIDE DEF w, D
    <3>1. /\ SumFunctionOnSet(w, D) = w[i] + SumFunctionOnSet(w, D \ {i})
          /\ SumFunctionOnSet(w, D \ {i}) \in Nat
      BY <1>3, <1>5, <2>1, SumTake
    <3> QED
      BY <3>1 DEF TotalWeight, w, D
  <2> QED
    BY <1>4, <2>1, <2>2
<1>7. \A i \in D : b[i] = (c * w[i]) \div W
  BY DEF BaseBytes, Weights
<1> HIDE DEF D, w, W, b, c
<1>8. ASSUME NEW i \in D PROVE b[i] \in Nat /\ W * b[i] <= c * w[i] /\ c * w[i] \in Nat
  <2>1. c * w[i] \in Nat
    BY <1>1, <1>4
  <2> QED
    BY <1>6, <1>7, <2>1, Divides
<1>9. Numbers(b, D)
  BY <1>8 DEF Numbers
<1> DEFINE P == {T \in SUBSET D : W * SumFunctionOnSet(b, T) <= c * SumFunctionOnSet(w, T)}
<1>10. {} \in P
  BY <1>1, <1>6, SumNone
<1>11. ASSUME NEW T \in P, NEW i \in D \ T PROVE T \cup {i} \in P
  <2>1. /\ SumFunctionOnSet(b, T \cup {i}) = b[i] + SumFunctionOnSet(b, T)
        /\ SumFunctionOnSet(b, T) \in Nat /\ b[i] \in Nat
    BY <1>3, <1>9, SumMore
  <2>2. /\ SumFunctionOnSet(w, T \cup {i}) = w[i] + SumFunctionOnSet(w, T)
        /\ SumFunctionOnSet(w, T) \in Nat /\ w[i] \in Nat
    BY <1>3, <1>5, SumMore
  <2> DEFINE x == SumFunctionOnSet(b, T)
             y == SumFunctionOnSet(w, T)
  <2>3. W * x <= c * y /\ W * b[i] <= c * w[i]
    BY <1>8
  <2>4. x \in Nat /\ y \in Nat /\ b[i] \in Nat /\ w[i] \in Nat /\ W \in Nat /\ c \in Nat
    BY <1>1, <1>6, <2>1, <2>2
  <2> HIDE DEF x, y
  <2>5. W * (b[i] + x) = W * b[i] + W * x /\ c * (w[i] + y) = c * w[i] + c * y
    BY <2>4, SMTT(30)
  <2>6. W * b[i] \in Nat /\ W * x \in Nat /\ c * w[i] \in Nat /\ c * y \in Nat
    BY <2>4
  <2>7. W * (b[i] + x) <= c * (w[i] + y)
    BY <2>3, <2>5, <2>6
  <2> QED
    BY <2>1, <2>2, <2>7 DEF x, y
<1> HIDE DEF P
<1>12. P \in SUBSET SUBSET D
  BY DEF P
<1>13. P = SUBSET D
  BY <1>3, <1>10, <1>11, <1>12, EverySubset
<1> DEFINE x == SumFunctionOnSet(b, D)
<1>14. W * x <= c * W /\ x \in Nat
  <2>1. W * x <= c * SumFunctionOnSet(w, D)
    BY <1>13 DEF P
  <2>2. SumFunctionOnSet(w, D) = W
    BY DEF W, TotalWeight, w, D
  <2> QED
    BY <1>3, <1>9, <2>1, <2>2, SumType
<1> HIDE DEF x
<1>15. ~(c < x)
  <2> SUFFICES ASSUME c < x PROVE FALSE
    OBVIOUS
  <2>1. W * (c + 1) <= W * x
    BY <1>1, <1>6, <1>14, SMTT(30)
  <2>2. W * (c + 1) = c * W + W
    BY <1>1, <1>6, SMTT(30)
  <2>3. W * x \in Nat /\ c * W \in Nat
    BY <1>1, <1>6, <1>14
  <2> QED
    BY <1>6, <1>14, <2>1, <2>2, <2>3
<1>16. x <= c
  BY <1>1, <1>14, <1>15
<1> QED
  BY <1>9, <1>16 DEF b, D, x, c

\* The remainder goes to the first groups, a byte each.
LEMMA GroupsFit ==
  ASSUME NEW m, MappingTyped(m), NEW a, ArchTyped(a), DOMAIN m.groups # {}
  PROVE  /\ \A i \in DOMAIN m.groups : GroupBytes(m, a, i) \in Nat
         /\ SumFunctionOnSet([i \in DOMAIN m.groups |-> GroupBytes(m, a, i)], DOMAIN m.groups)
              <= a.cacheBytes
<1> DEFINE n == Len(m.groups)
           b == BaseBytes(m, a)
           c == a.cacheBytes
           s == SumFunctionOnSet(b, DOMAIN m.groups)
           R == c - s
           g == [i \in DOMAIN m.groups |-> GroupBytes(m, a, i)]
           Less(x, y) == IF x <= y THEN x ELSE y
           h == [k \in 0 .. n |-> SumFunctionOnSet(b, 1 .. k) + Less(k, R)]
<1>1. m.groups \in Seq(CacheGroup) /\ c \in Nat
  BY MappingFields, ArchFields
<1>2. DOMAIN m.groups = 1 .. n /\ n \in Nat /\ IsFiniteSet(1 .. n)
  <2>1. DOMAIN m.groups = 1 .. n /\ n \in Nat
    BY <1>1
  <2> HIDE DEF n
  <2> QED
    BY <2>1, FS_Interval
<1>3. Numbers(b, 1 .. n) /\ s <= c
  BY <1>2, BaseFits
<1>4. s \in Nat /\ R \in Nat
  <2>1. s \in Nat
    BY <1>2, <1>3, SumType
  <2> QED
    BY <1>1, <1>3, <2>1
<1>5. \A i \in 1 .. n : g[i] = b[i] + (IF i <= R THEN 1 ELSE 0)
  BY <1>2 DEF GroupBytes
<1>6. \A i \in 1 .. n : b[i] \in Nat
  BY <1>3 DEF Numbers
<1>7. s = SumFunctionOnSet(b, 1 .. n)
  BY <1>2
<1>8. \A k \in 0 .. n : h[k] = SumFunctionOnSet(b, 1 .. k) + Less(k, R)
  OBVIOUS
<1>9. \A i \in DOMAIN m.groups : GroupBytes(m, a, i) = g[i]
  OBVIOUS
<1> HIDE DEF n, b, s, R, g, h
<1>10. Numbers(g, 1 .. n)
  BY <1>4, <1>5, <1>6 DEF Numbers
<1>11. h[0] = 0
  <2>1. 1 .. 0 = {} /\ 0 \in 0 .. n
    BY <1>2
  <2>2. SumFunctionOnSet(b, 1 .. 0) = 0
    BY <2>1, SumNone
  <2>3. Less(0, R) = 0
    BY <1>4
  <2> QED
    BY <1>8, <2>1, <2>2, <2>3
<1>12. ASSUME NEW k \in 1 .. n PROVE h[k] = h[k - 1] + g[k]
  <2> DEFINE T == 1 .. (k - 1)
             S == 1 .. n
             x == k
  <2>1. T \in SUBSET S /\ x \in S \ T /\ 1 .. k = T \cup {x}
    BY <1>2
  <2>2. IsFiniteSet(S) /\ Numbers(b, S)
    BY <1>2, <1>3
  <2> HIDE DEF T, S, x
  <2>3. SumFunctionOnSet(b, T \cup {x}) = b[x] + SumFunctionOnSet(b, T)
    BY <2>1, <2>2, SumMore
  <2>4. SumFunctionOnSet(b, T) \in Nat /\ b[x] \in Nat
    BY <2>1, <2>2, SumMore
  <2>5. k \in 0 .. n /\ k - 1 \in 0 .. n
    BY <1>2
  <2>6. h[k] = SumFunctionOnSet(b, T \cup {x}) + Less(k, R)
    BY <1>8, <2>1, <2>5
  <2>7. h[k - 1] = SumFunctionOnSet(b, T) + Less(k - 1, R)
    BY <1>8, <2>5 DEF T
  <2>8. g[k] = b[x] + (IF k <= R THEN 1 ELSE 0)
    BY <1>5 DEF x
  <2>9. Less(k, R) = Less(k - 1, R) + (IF k <= R THEN 1 ELSE 0) /\ Less(k - 1, R) \in Nat
    BY <1>2, <1>4
  <2> DEFINE u == Less(k - 1, R)
             v == IF k <= R THEN 1 ELSE 0
  <2>10. v \in Nat
    OBVIOUS
  <2> HIDE DEF u, v
  <2> QED
    BY <2>3, <2>4, <2>6, <2>7, <2>8, <2>9, <2>10 DEF u, v
<1>13. \A k \in 0 .. n : SumFunctionOnSet(g, 1 .. k) = h[k]
  BY <1>2, <1>10, <1>11, <1>12, SumUpTo
<1>14. SumFunctionOnSet(g, 1 .. n) = s + Less(n, R)
  <2>1. n \in 0 .. n
    BY <1>2
  <2> QED
    BY <1>7, <1>8, <1>13, <2>1
<1>15. SumFunctionOnSet(g, 1 .. n) <= c
  <2>1. Less(n, R) <= R /\ Less(n, R) \in Nat
    BY <1>2, <1>4
  <2>2. s + R = c
    BY <1>1, <1>4 DEF R
  <2> HIDE DEF c
  <2> QED
    BY <1>4, <1>14, <2>1, <2>2
<1>16. \A i \in DOMAIN m.groups : GroupBytes(m, a, i) \in Nat
  BY <1>2, <1>9, <1>10 DEF Numbers
<1> QED
  BY <1>2, <1>15, <1>16 DEF g

\* The units of a group go to its tensors evenly, the first ones get one more.
LEMMA SharesAddUp ==
  ASSUME NEW U \in Nat, NEW n \in Nat \ {0}, NEW V \in Nat
  PROVE  /\ \A k \in 1 .. n : EvenShare(U, n, k) \in Nat
         /\ SumFunctionOnSet([k \in 1 .. n |-> EvenShare(U, n, k) * V], 1 .. n) = U * V
<1> DEFINE q == U \div n
           r == U % n
           g == [k \in 1 .. n |-> EvenShare(U, n, k) * V]
           Less(x, y) == IF x <= y THEN x ELSE y
           h == [k \in 0 .. n |-> (k * q + Less(k, r)) * V]
<1>1. q \in Nat /\ r \in 0 .. n - 1 /\ r = U - n * q
  BY Divides
<1>2. \A k \in 1 .. n : EvenShare(U, n, k) = q + (IF k <= r THEN 1 ELSE 0)
  BY DEF EvenShare
<1>3. \A k \in 1 .. n : g[k] = EvenShare(U, n, k) * V
  OBVIOUS
<1>4. \A k \in 0 .. n : h[k] = (k * q + Less(k, r)) * V
  OBVIOUS
<1> HIDE DEF q, r, g, h
<1>5. \A k \in 1 .. n : EvenShare(U, n, k) \in Nat
  BY <1>1, <1>2
<1>6. Numbers(g, 1 .. n)
  <2> SUFFICES ASSUME NEW k \in 1 .. n PROVE g[k] \in Nat
    BY DEF Numbers
  <2> QED
    BY <1>3, <1>5
<1>7. h[0] = 0
  <2>1. 0 \in 0 .. n /\ Less(0, r) = 0
    BY <1>1
  <2>2. (0 * q + 0) * V = 0
    BY <1>1
  <2> QED
    BY <1>4, <2>1, <2>2
<1>8. ASSUME NEW k \in 1 .. n PROVE h[k] = h[k - 1] + g[k]
  <2> DEFINE u == Less(k - 1, r)
             v == IF k <= r THEN 1 ELSE 0
             j == k - 1
  <2>1. h[k] = (k * q + Less(k, r)) * V /\ h[k - 1] = (j * q + u) * V /\ g[k] = (q + v) * V
    <3>1. k \in 0 .. n /\ k - 1 \in 0 .. n
      OBVIOUS
    <3> QED
      BY <1>2, <1>3, <1>4, <3>1
  <2>2. Less(k, r) = u + v /\ u \in Nat /\ v \in Nat /\ j \in Nat /\ k = j + 1
    BY <1>1
  <2> HIDE DEF u, v, j
  <2>3. k * q = j * q + q /\ j * q \in Nat /\ q \in Nat
    BY <1>1, <2>2, SMTT(30)
  <2> DEFINE w == j * q
  <2>4. h[k] = ((w + q) + (u + v)) * V /\ h[k - 1] = (w + u) * V
    BY <2>1, <2>2, <2>3
  <2>5. w \in Nat
    BY <2>3
  <2> HIDE DEF w
  <2>6. ((w + q) + (u + v)) * V = (w + u) * V + (q + v) * V
    BY <2>2, <2>3, <2>5, SMTT(30)
  <2> QED
    BY <2>1, <2>4, <2>6
<1>9. \A k \in 0 .. n : SumFunctionOnSet(g, 1 .. k) = h[k]
  BY <1>6, <1>7, <1>8, SumUpTo
<1>10. h[n] = U * V
  <2>1. n \in 0 .. n /\ Less(n, r) = r
    BY <1>1
  <2>2. n * q + r = U
    <3>1. n * q \in Nat
      BY <1>1
    <3> QED
      BY <1>1, <3>1
  <2> QED
    BY <1>4, <2>1, <2>2
<1>11. SumFunctionOnSet(g, 1 .. n) = U * V
  <2>1. n \in 0 .. n
    OBVIOUS
  <2> QED
    BY <1>9, <1>10, <2>1
<1> QED
  BY <1>5, <1>11 DEF g

\* The bytes of a unit.
UnitBytes(a) == IF a.mode = "regfile" THEN a.vectorBytes ELSE 1

LEMMA UnitsFit ==
  ASSUME NEW m, MappingTyped(m), NEW a, ArchTyped(a), NEW i \in DOMAIN m.groups
  PROVE  /\ GroupUnits(m, a, i) \in Nat
         /\ UnitBytes(a) \in Nat \ {0}
         /\ GroupUnits(m, a, i) * UnitBytes(a) <= GroupBytes(m, a, i)
<1>1. GroupBytes(m, a, i) \in Nat
  BY GroupsFit
<1>2. a.vectorBytes \in Nat \ {0}
  BY ArchFields
<1>3. CASE a.mode = "regfile"
  <2> DEFINE x == GroupBytes(m, a, i)
             d == a.vectorBytes
  <2>1. x \div d \in Nat /\ d * (x \div d) <= x
    BY <1>1, <1>2, Divides
  <2>2. GroupUnits(m, a, i) = x \div d /\ UnitBytes(a) = d
    BY <1>3 DEF GroupUnits, UnitBytes
  <2> HIDE DEF x, d
  <2>3. d \in Nat \ {0}
    BY <1>2 DEF d
  <2> DEFINE q == x \div d
  <2>4. q \in Nat /\ d * q <= x
    BY <2>1
  <2> HIDE DEF q
  <2>5. q * d = d * q
    BY <2>3, <2>4
  <2> QED
    BY <2>2, <2>3, <2>4, <2>5 DEF q, x
<1>4. CASE a.mode # "regfile"
  BY <1>1, <1>4 DEF GroupUnits, UnitBytes
<1> QED
  BY <1>3, <1>4

\* A tensor is in one place of one group.
LEMMA TensorPlace ==
  ASSUME NEW m, MappingTyped(m), NEW a, ArchTyped(a), NEW i \in DOMAIN m.groups,
         NEW k \in DOMAIN m.groups[i].tensors
  PROVE  TensorBytes(m, a, m.groups[i].tensors[k]) =
           EvenShare(GroupUnits(m, a, i), Len(m.groups[i].tensors), k) * UnitBytes(a)
<1> DEFINE t == m.groups[i].tensors[k]
<1>1. \A j \in DOMAIN m.groups : t \in ToSet(m.groups[j].tensors) => j = i
  BY DEF MappingTyped, Disjoint, ToSet
<1>2. t \in ToSet(m.groups[i].tensors)
  BY DEF ToSet
<1>3. GroupOf(m, t) = i
  BY <1>1, <1>2 DEF GroupOf
<1>4. \A l \in DOMAIN m.groups[i].tensors : m.groups[i].tensors[l] = t => l = k
  BY DEF MappingTyped, Disjoint
<1> DEFINE u == EvenShare(GroupUnits(m, a, i), Len(m.groups[i].tensors), k)
<1>6. TensorBytes(m, a, t) = IF a.mode = "regfile" THEN u * a.vectorBytes ELSE u
  <2> DEFINE g == GroupOf(m, t)
             s == m.groups[g].tensors
             p == CHOOSE j \in DOMAIN s : s[j] = t
  <2>1. s = m.groups[i].tensors /\ g = i
    BY <1>3
  <2>2. k \in DOMAIN s /\ s[k] = t
    BY <2>1
  <2>3. TensorBytes(m, a, t) =
          IF a.mode = "regfile" THEN EvenShare(GroupUnits(m, a, g), Len(s), p) * a.vectorBytes
                                ELSE EvenShare(GroupUnits(m, a, g), Len(s), p)
    BY DEF TensorBytes
  <2> HIDE DEF g, s, t
  <2>4. p \in DOMAIN s /\ s[p] = t
    BY <2>2
  <2>5. p = k
    BY <1>4, <2>1, <2>4
  <2> HIDE DEF p
  <2> QED
    BY <2>1, <2>3, <2>5
<1>7. u \in Nat
  <2>1. GroupUnits(m, a, i) \in Nat
    BY UnitsFit
  <2>2. Len(m.groups[i].tensors) \in Nat \ {0} /\ k \in 1 .. Len(m.groups[i].tensors)
    BY GroupFields
  <2> QED
    BY <2>1, <2>2, SharesAddUp
<1> HIDE DEF u
<1> QED
  BY <1>6, <1>7 DEF u, UnitBytes

LEMMA TensorBytesType ==
  ASSUME NEW m, MappingTyped(m), NEW a, ArchTyped(a), NEW t \in CachedTensors(m)
  PROVE  TensorBytes(m, a, t) \in Nat /\ t \in Tensors
<1>1. PICK i \in DOMAIN m.groups : t \in ToSet(m.groups[i].tensors)
  BY DEF CachedTensors
<1>2. PICK k \in DOMAIN m.groups[i].tensors : t = m.groups[i].tensors[k]
  BY <1>1 DEF ToSet
<1>3. GroupUnits(m, a, i) \in Nat /\ UnitBytes(a) \in Nat
  BY UnitsFit
<1>4. Len(m.groups[i].tensors) \in Nat \ {0} /\ k \in 1 .. Len(m.groups[i].tensors) /\ t \in Tensors
  BY <1>2, GroupFields
<1>5. EvenShare(GroupUnits(m, a, i), Len(m.groups[i].tensors), k) \in Nat
  BY <1>3, <1>4, SharesAddUp
<1> QED
  BY <1>2, <1>3, <1>4, <1>5, TensorPlace

LEMMA CachedFinite ==
  ASSUME NEW m, MappingTyped(m)
  PROVE  CachedTensors(m) \in SUBSET Tensors /\ IsFiniteSet(CachedTensors(m))
<1>1. CachedTensors(m) \in SUBSET Tensors
  BY GroupFields DEF CachedTensors, ToSet
<1> QED
  BY <1>1, TensorsFinite, FS_Subset

\* What the tensors get is what the cache has.
LEMMA CapacityFits ==
  ASSUME NEW m, MappingTyped(m), NEW a, ArchTyped(a), NEW f,
         \A t \in CachedTensors(m) : f[t] = TensorBytes(m, a, t)
  PROVE  SumFunctionOnSet(f, CachedTensors(m)) <= a.cacheBytes
<1> DEFINE n == Len(m.groups)
           C == CachedTensors(m)
           part == [i \in 1 .. n |-> ToSet(m.groups[i].tensors)]
           g == [i \in 1 .. n |-> SumFunctionOnSet(f, part[i])]
           bytes == [i \in 1 .. n |-> GroupBytes(m, a, i)]
<1>1. m.groups \in Seq(CacheGroup) /\ a.cacheBytes \in Nat
  BY MappingFields, ArchFields
<1>2. DOMAIN m.groups = 1 .. n /\ n \in Nat
  BY <1>1
<1>3. IsFiniteSet(C) /\ Numbers(f, C)
  BY CachedFinite, TensorBytesType DEF Numbers
<1>4. C = UNION {part[i] : i \in 1 .. n} /\ part \in [1 .. n -> SUBSET C]
  <2>1. \A i \in 1 .. n : part[i] = ToSet(m.groups[i].tensors)
    OBVIOUS
  <2>2. C = UNION {ToSet(m.groups[i].tensors) : i \in 1 .. n}
    BY <1>2 DEF CachedTensors
  <2>3. C = UNION {part[i] : i \in 1 .. n}
    BY <2>1, <2>2
  <2> QED
    BY <2>3
<1>5. \A i, j \in 1 .. n : i # j => part[i] \cap part[j] = {}
  BY <1>2 DEF MappingTyped, Disjoint, ToSet
<1>6. CASE n = 0
  <2>1. C = {}
    BY <1>4, <1>6
  <2> HIDE DEF C
  <2> QED
    BY <1>1, <2>1, SumNone DEF C
<1>7. CASE n # 0
  <2>1. DOMAIN m.groups # {}
    BY <1>2, <1>7
  <2>2. ASSUME NEW i \in 1 .. n PROVE g[i] <= bytes[i] /\ g[i] \in Nat /\ bytes[i] \in Nat
    <3> DEFINE s == m.groups[i].tensors
               k == Len(s)
               U == GroupUnits(m, a, i)
               V == UnitBytes(a)
    <3>1. k \in Nat /\ DOMAIN s = 1 .. k /\ part[i] = {s[j] : j \in 1 .. k}
      BY <1>2, GroupFields DEF ToSet
    <3>2. U \in Nat /\ V \in Nat \ {0} /\ U * V <= GroupBytes(m, a, i) /\ GroupBytes(m, a, i) \in Nat
      BY <1>2, <2>1, UnitsFit, GroupsFit
    <3>3. \A j, l \in 1 .. k : s[j] = s[l] => j = l
      BY <1>2, <3>1 DEF MappingTyped, Disjoint
    <3>4. \A j \in 1 .. k : f[s[j]] = EvenShare(U, k, j) * V
      <4>1. \A j \in 1 .. k : s[j] \in C
        BY <1>2, <3>1 DEF CachedTensors, ToSet
      <4> QED
        BY <1>2, <3>1, <4>1, TensorPlace
    <3>5. Numbers(f, part[i])
      BY <1>3, <1>4 DEF Numbers
    <3>6. g[i] = SumFunctionOnSet(f, part[i]) /\ bytes[i] = GroupBytes(m, a, i)
      OBVIOUS
    <3> HIDE DEF g, bytes, part, U, V, s, k
    <3>7. SumFunctionOnSet(f, part[i]) = SumFunctionOnSet([j \in 1 .. k |-> f[s[j]]], 1 .. k)
      BY <3>1, <3>3, <3>5, SumReindex
    <3>8. CASE k = 0
      <4>1. part[i] = {}
        BY <3>1, <3>8
      <4>2. g[i] = 0
        BY <3>6, <4>1, SumNone
      <4> QED
        BY <3>2, <3>6, <4>2
    <3>9. CASE k # 0
      <4>1. [j \in 1 .. k |-> f[s[j]]] = [j \in 1 .. k |-> EvenShare(U, k, j) * V]
        BY <3>4
      <4>2. SumFunctionOnSet([j \in 1 .. k |-> EvenShare(U, k, j) * V], 1 .. k) = U * V
        BY <3>1, <3>2, <3>9, SharesAddUp
      <4>3. g[i] = U * V
        BY <3>6, <3>7, <4>1, <4>2
      <4>4. U * V \in Nat
        BY <3>2
      <4> QED
        BY <3>2, <3>6, <4>3, <4>4
    <3> QED
      BY <3>8, <3>9
  <2>3. Numbers(g, 1 .. n) /\ Numbers(bytes, 1 .. n) /\ \A i \in 1 .. n : g[i] <= bytes[i]
    BY <2>2 DEF Numbers
  <2>4. IsFiniteSet(1 .. n)
    BY <1>2, FS_Interval
  <2>5. SumFunctionOnSet(bytes, 1 .. n) <= a.cacheBytes
    BY <1>2, <2>1, GroupsFit
  <2>6. SumFunctionOnSet(f, C) = SumFunctionOnSet(g, 1 .. n)
    <3> HIDE DEF C, part, n
    <3> QED
      BY <1>2, <1>3, <1>4, <1>5, SumUnion
  <2> HIDE DEF C, g, bytes, n
  <2>7. SumFunctionOnSet(g, 1 .. n) <= SumFunctionOnSet(bytes, 1 .. n)
    BY <2>3, <2>4, SumOrder
  <2>8. SumFunctionOnSet(g, 1 .. n) \in Nat /\ SumFunctionOnSet(bytes, 1 .. n) \in Nat
    BY <2>3, <2>4, SumType
  <2> QED
    BY <1>1, <2>5, <2>6, <2>7, <2>8 DEF C
<1> QED
  BY <1>6, <1>7

-----------------------------------------------------------------------------
(* A least recently used cache.                                            *)

\* last[i]: the access that last touched entry i; everything else was touched
\* before the oldest entry, and only where there was no room.
Ages(s, key, n, room, last) ==
  /\ last \in [DOMAIN s -> 0 .. n - 1]
  /\ \A i \in DOMAIN s :
       /\ key[last[i]] = s[i]
       /\ \A j \in last[i] + 1 .. n - 1 : key[j] # s[i]
  /\ \A i, j \in DOMAIN s : i < j => last[i] < last[j]
  /\ \A j \in 0 .. n - 1 :
       \/ \E i \in DOMAIN s : s[i] = key[j]
       \/ Len(s) = room /\ \A i \in DOMAIN s : j < last[i]

Recent(K, s, key, n, room) ==
  /\ s \in Seq(K) /\ Len(s) <= room
  /\ \E last : Ages(s, key, n, room, last)

LEMMA RecentInit ==
  ASSUME NEW K, NEW key, NEW room \in Nat
  PROVE  Recent(K, << >>, key, 0, room)
<1> DEFINE s == << >>
           last == [i \in DOMAIN s |-> 0]
<1>1. s \in Seq(K) /\ Len(s) = 0 /\ DOMAIN s = {}
  OBVIOUS
<1>2. 0 .. 0 - 1 = {}
  OBVIOUS
<1>3. last \in [DOMAIN s -> 0 .. 0 - 1]
  BY <1>1
<1> HIDE DEF s, last
<1>4. Ages(s, key, 0, room, last)
  BY <1>1, <1>2, <1>3 DEF Ages
<1> QED
  BY <1>1, <1>4 DEF Recent, s

\* The entries of such a cache differ.
LEMMA AgesDistinct ==
  ASSUME NEW s, NEW key, NEW n \in Nat, NEW room, NEW last, Ages(s, key, n, room, last),
         NEW k \in Nat, DOMAIN s = 1 .. k
  PROVE  \A i, j \in DOMAIN s : s[i] = s[j] => i = j
<1>1. ASSUME NEW i \in 1 .. k, NEW j \in 1 .. k, i < j PROVE s[i] # s[j]
  <2>0. i \in DOMAIN s /\ j \in DOMAIN s
    OBVIOUS
  <2>a. last[i] \in 0 .. n - 1 /\ last[j] \in 0 .. n - 1
    BY <2>0 DEF Ages
  <2>b. last[i] < last[j]
    BY <1>1, <2>0 DEF Ages
  <2>1. last[i] \in Nat /\ last[j] \in 0 .. n - 1 /\ last[i] < last[j]
    BY <2>a, <2>b
  <2>2. last[j] \in last[i] + 1 .. n - 1
    BY <2>1
  <2>3. key[last[j]] = s[j]
    BY DEF Ages
  <2> QED
    BY <2>0, <2>2, <2>3 DEF Ages
<1> QED
  BY <1>1

Since(key, j, n) == {key[k] : k \in j + 1 .. n - 1}
Reused(key, n, room) ==
  \E j \in 0 .. n - 1 : key[j] = key[n] /\ Cardinality(Since(key, j, n)) < room

\* An access is a hit exactly if fewer other things were touched since the
\* last access to the same one than there is room for.
LEMMA HitIffReused ==
  ASSUME NEW K, NEW s, NEW key, NEW n \in Nat, NEW room \in Nat, Recent(K, s, key, n, room)
  PROVE  Contains(s, key[n]) <=> Reused(key, n, room)
<1> DEFINE len == Len(s)
<1>1. s \in Seq(K) /\ len <= room
  BY DEF Recent
<1>2. DOMAIN s = 1 .. len /\ len \in Nat
  BY <1>1
<1>3. PICK last : Ages(s, key, n, room, last)
  BY DEF Recent
<1>4. \A i, j \in 1 .. len : s[i] = s[j] => i = j
  BY <1>2, <1>3, AgesDistinct
<1> HIDE DEF len
<1>5. \A j \in 0 .. n - 1 : IsFiniteSet(Since(key, j, n))
  <2> SUFFICES ASSUME NEW j \in 0 .. n - 1 PROVE IsFiniteSet(Since(key, j, n))
    OBVIOUS
  <2> DEFINE shifted == [i \in 1 .. n - 1 - j |-> key[j + i]]
  <2>1. Since(key, j, n) = {shifted[i] : i \in 1 .. n - 1 - j}
    <3>1. \A k \in j + 1 .. n - 1 : k - j \in 1 .. n - 1 - j /\ j + (k - j) = k
      OBVIOUS
    <3>2. \A i \in 1 .. n - 1 - j : j + i \in j + 1 .. n - 1
      OBVIOUS
    <3> QED
      BY <3>1, <3>2 DEF Since
  <2>2. n - 1 - j \in Nat
    OBVIOUS
  <2> HIDE DEF shifted
  <2> QED
    BY <2>1, <2>2, ImageFinite
<1>6. ASSUME NEW i \in 1 .. len, s[i] = key[n]
      PROVE  \E j \in 0 .. n - 1 : key[j] = key[n] /\ Cardinality(Since(key, j, n)) < room
  <2> DEFINE j == last[i]
             newer == [x \in 1 .. len - i |-> s[i + x]]
             T == {newer[x] : x \in 1 .. len - i}
  <2>1. j \in 0 .. n - 1 /\ key[j] = key[n]
    BY <1>2, <1>3, <1>6 DEF Ages
  <2>2. Since(key, j, n) \subseteq T
    <3> SUFFICES ASSUME NEW k \in j + 1 .. n - 1 PROVE key[k] \in T
      BY DEF Since
    <3>0. k \in 0 .. n - 1 /\ j < k
      BY <2>1
    <3>1. \E y \in DOMAIN s : s[y] = key[k]
      <4>1. \/ \E y \in DOMAIN s : s[y] = key[k]
            \/ Len(s) = room /\ \A y \in DOMAIN s : k < last[y]
        BY <1>3, <3>0 DEF Ages
      <4>2. i \in DOMAIN s
        BY <1>2
      <4>3. ~(k < last[i])
        BY <2>1, <3>0
      <4> QED
        BY <4>1, <4>2, <4>3
    <3>2. PICK y \in 1 .. len : s[y] = key[k]
      BY <1>2, <3>1
    <3>3. ~(y <= i)
      <4> SUFFICES ASSUME y <= i PROVE FALSE
        OBVIOUS
      <4>1. last[y] <= j
        <5>1. y = i \/ y < i
          OBVIOUS
        <5>2. last[y] \in Int /\ last[i] \in Int
          BY <1>2, <1>3 DEF Ages
        <5>3. y < i => last[y] < last[i]
          BY <1>2, <1>3 DEF Ages
        <5> QED
          BY <5>1, <5>2, <5>3
      <4>2. last[y] \in 0 .. n - 1
        BY <1>2, <1>3 DEF Ages
      <4>3. k \in last[y] + 1 .. n - 1
        BY <2>1, <3>0, <4>1, <4>2
      <4> QED
        BY <1>2, <1>3, <3>2, <4>3 DEF Ages
    <3>4. y - i \in 1 .. len - i /\ i + (y - i) = y
      BY <1>2, <3>3
    <3>5. newer[y - i] = s[y]
      BY <3>4
    <3> QED
      BY <3>2, <3>4, <3>5
  <2>3. len - i \in Nat
    BY <1>2
  <2> HIDE DEF newer
  <2>4. IsFiniteSet(T) /\ Cardinality(T) <= len - i
    BY <2>3, ImageFinite
  <2> DEFINE S == Since(key, j, n)
  <2>5. IsFiniteSet(S) /\ S \subseteq T
    BY <1>5, <2>1, <2>2
  <2> HIDE DEF S, T, j
  <2>6. Cardinality(S) <= Cardinality(T) /\ Cardinality(S) \in Nat /\ Cardinality(T) \in Nat
    BY <2>4, <2>5, FS_Subset, FS_CardinalityType
  <2>7. Cardinality(S) < room
    BY <1>1, <1>2, <2>3, <2>4, <2>6 DEF len
  <2> QED
    BY <2>1, <2>7 DEF S
<1>7. ASSUME NEW j \in 0 .. n - 1, key[j] = key[n], Cardinality(Since(key, j, n)) < room,
             ~ \E i \in 1 .. len : s[i] = key[n]
      PROVE  FALSE
  <2>1. len = room /\ \A i \in 1 .. len : j < last[i]
    BY <1>2, <1>3, <1>7 DEF Ages, len
  <2> DEFINE T == {s[i] : i \in 1 .. len}
             S == Since(key, j, n)
  <2>2. T \subseteq S
    <3> SUFFICES ASSUME NEW i \in 1 .. len PROVE s[i] \in S
      OBVIOUS
    <3>1. last[i] \in 0 .. n - 1 /\ key[last[i]] = s[i] /\ j < last[i]
      BY <1>2, <1>3, <2>1 DEF Ages
    <3>2. last[i] \in j + 1 .. n - 1
      BY <3>1
    <3> QED
      BY <3>1, <3>2 DEF Since
  <2>3. Cardinality(T) = len
    <3> DEFINE g == [i \in 1 .. len |-> s[i]]
    <3>1. g \in Bijection(1 .. len, T)
      BY <1>4 DEF Bijection, Injection, Surjection, IsInjective
    <3>2. IsFiniteSet(1 .. len) /\ Cardinality(1 .. len) = len
      BY <1>2, FS_Interval
    <3> HIDE DEF g, T
    <3> QED
      BY <3>1, <3>2, FS_Bijection DEF ExistsBijection
  <2>4. IsFiniteSet(S)
    BY <1>5
  <2>5. Cardinality(S) < room
    BY <1>7
  <2> HIDE DEF S, T
  <2>6. Cardinality(T) <= Cardinality(S) /\ Cardinality(S) \in Nat
    BY <2>2, <2>4, FS_Subset, FS_CardinalityType
  <2> QED
    BY <1>2, <2>1, <2>3, <2>5, <2>6
<1>8. Contains(s, key[n]) <=> \E i \in 1 .. len : s[i] = key[n]
  BY DEF Contains, len
<1> QED
  BY <1>6, <1>7, <1>8 DEF Reused

\* Where the entries before and after position p move when it is taken out.
Skip(p, i) == IF i < p THEN i ELSE i + 1

LEMMA SkipCovers ==
  ASSUME NEW len \in Nat, NEW p \in 1 .. len
  PROVE  /\ \A i \in 1 .. len - 1 : Skip(p, i) \in 1 .. len /\ Skip(p, i) # p
         /\ \A i, j \in 1 .. len - 1 : i < j => Skip(p, i) < Skip(p, j)
         /\ \A x \in 1 .. len : x # p => \E i \in 1 .. len - 1 : Skip(p, i) = x
         /\ p = 1 => \A i \in 1 .. len - 1 : 1 < Skip(p, i)
<1>1. ASSUME NEW x \in 1 .. len, x # p PROVE \E i \in 1 .. len - 1 : Skip(p, i) = x
  <2>1. CASE x < p
    <3>1. x \in 1 .. len - 1 /\ Skip(p, x) = x
      BY <2>1 DEF Skip
    <3> QED
      BY <3>1
  <2>2. CASE x > p
    <3>1. x - 1 \in 1 .. len - 1 /\ Skip(p, x - 1) = x
      BY <2>2 DEF Skip
    <3> QED
      BY <3>1
  <2> QED
    BY <1>1, <2>1, <2>2
<1>2. \A i \in 1 .. len - 1 : Skip(p, i) \in 1 .. len /\ Skip(p, i) # p
  BY DEF Skip
<1>3. \A i, j \in 1 .. len - 1 : i < j => Skip(p, i) < Skip(p, j)
  BY DEF Skip
<1>4. p = 1 => \A i \in 1 .. len - 1 : 1 < Skip(p, i)
  BY DEF Skip
<1> QED
  BY <1>1, <1>2, <1>3, <1>4

\* An entry is taken out, by a hit or for want of room, and the new one is put
\* at the end.
LEMMA AgesMove ==
  ASSUME NEW s, NEW r, NEW key, NEW n \in Nat, NEW room, NEW last, Ages(s, key, n, room, last),
         NEW len \in Nat, DOMAIN s = 1 .. len, DOMAIN r = 1 .. len, Len(s) = Len(r),
         NEW p \in 1 .. len, r[len] = key[n], \A i \in 1 .. len - 1 : r[i] = s[Skip(p, i)],
         \/ s[p] = key[n]
         \/ p = 1 /\ Len(s) = room /\ \A i \in 1 .. len : s[i] # key[n]
  PROVE  \E moved : Ages(r, key, n + 1, room, moved)
<1> DEFINE moved == [i \in 1 .. len |-> IF i = len THEN n ELSE last[Skip(p, i)]]
<1>0. /\ last \in [1 .. len -> 0 .. n - 1]
      /\ \A i \in 1 .. len : key[last[i]] = s[i] /\ \A j \in last[i] + 1 .. n - 1 : key[j] # s[i]
      /\ \A i, j \in 1 .. len : i < j => last[i] < last[j]
  BY DEF Ages
<1>d. \A i, j \in 1 .. len : s[i] = s[j] => i = j
  BY AgesDistinct
<1>1. moved[len] = n
  OBVIOUS
<1>2. ASSUME NEW i \in 1 .. len, i # len
      PROVE  /\ i \in 1 .. len - 1 /\ Skip(p, i) \in 1 .. len /\ Skip(p, i) # p
             /\ moved[i] = last[Skip(p, i)] /\ moved[i] \in 0 .. n - 1
             /\ r[i] = s[Skip(p, i)] /\ r[i] # key[n]
  <2>1. i \in 1 .. len - 1
    BY <1>2
  <2>2. Skip(p, i) \in 1 .. len /\ Skip(p, i) # p
    BY <2>1, SkipCovers
  <2>3. moved[i] = last[Skip(p, i)]
    BY <1>2
  <2>4. r[i] = s[Skip(p, i)]
    BY <2>1
  <2> DEFINE x == Skip(p, i)
  <2> HIDE DEF moved, x
  <2>5. last[x] \in 0 .. n - 1
    BY <1>0, <2>2 DEF x
  <2>6. s[x] # key[n]
    BY <1>d, <2>2 DEF x
  <2> QED
    BY <2>1, <2>2, <2>3, <2>4, <2>5, <2>6 DEF x
<1>3. moved \in [1 .. len -> 0 .. n]
  <2>1. \A i \in 1 .. len : moved[i] \in 0 .. n
    <3> SUFFICES ASSUME NEW i \in 1 .. len PROVE moved[i] \in 0 .. n
      OBVIOUS
    <3>1. CASE i = len
      BY <1>1, <3>1
    <3>2. CASE i # len
      BY <1>2, <3>2
    <3> QED
      BY <3>1, <3>2
  <2>2. moved = [i \in 1 .. len |-> moved[i]]
    OBVIOUS
  <2> HIDE DEF moved
  <2> QED
    BY <2>1, <2>2
<1> HIDE DEF moved
<1>4. ASSUME NEW i \in 1 .. len
      PROVE  key[moved[i]] = r[i] /\ \A j \in moved[i] + 1 .. n : key[j] # r[i]
  <2>1. CASE i = len
    BY <1>1, <2>1
  <2>2. CASE i # len
    <3> DEFINE x == Skip(p, i)
    <3>1. x \in 1 .. len /\ moved[i] = last[x] /\ r[i] = s[x] /\ r[i] # key[n]
      BY <1>2, <2>2
    <3> HIDE DEF x
    <3>2. key[last[x]] = s[x] /\ \A j \in last[x] + 1 .. n - 1 : key[j] # s[x]
      BY <1>0, <3>1
    <3>3. last[x] \in Nat
      BY <1>0, <3>1
    <3>4. \A j \in last[x] + 1 .. n : j = n \/ j \in last[x] + 1 .. n - 1
      BY <3>3
    <3> QED
      BY <3>1, <3>2, <3>4
  <2> QED
    BY <2>1, <2>2
<1>5. ASSUME NEW i \in 1 .. len, NEW j \in 1 .. len, i < j PROVE moved[i] < moved[j]
  <2>0. i # len
    BY <1>5
  <2>1. CASE j = len
    BY <1>1, <1>2, <2>0, <2>1
  <2>2. CASE j # len
    <3>1. i \in 1 .. len - 1 /\ j \in 1 .. len - 1
      BY <2>0, <2>2
    <3>2. Skip(p, i) < Skip(p, j)
      BY <1>5, <3>1, SkipCovers
    <3> QED
      BY <1>0, <1>2, <2>0, <2>2, <3>2
  <2> QED
    BY <2>1, <2>2
<1>6. ASSUME NEW j \in 0 .. n - 1, Len(s) = room, \A i \in 1 .. len : i # p => j < last[i]
      PROVE  Len(r) = room /\ \A i \in 1 .. len : j < moved[i]
  <2> SUFFICES ASSUME NEW i \in 1 .. len PROVE j < moved[i]
    BY <1>6
  <2>1. CASE i = len
    BY <1>1, <2>1
  <2>2. CASE i # len
    BY <1>2, <1>6, <2>2
  <2> QED
    BY <2>1, <2>2
<1>7. ASSUME NEW j \in 0 .. n
      PROVE  \/ \E i \in 1 .. len : r[i] = key[j]
             \/ Len(r) = room /\ \A i \in 1 .. len : j < moved[i]
  <2>1. CASE j = n
    <3>1. len \in 1 .. len
      OBVIOUS
    <3> QED
      BY <2>1, <3>1
  <2>2. CASE j # n
    <3>0. j \in 0 .. n - 1
      BY <2>2
    <3>1. \/ \E i \in 1 .. len : s[i] = key[j]
          \/ Len(s) = room /\ \A i \in 1 .. len : j < last[i]
      BY <3>0 DEF Ages
    <3>2. CASE \E i \in 1 .. len : s[i] = key[j]
      <4>1. PICK i \in 1 .. len : s[i] = key[j]
        BY <3>2
      <4>2. CASE i # p
        <5>1. PICK x \in 1 .. len - 1 : Skip(p, x) = i
          BY <4>2, SkipCovers
        <5>2. r[x] = key[j] /\ x \in 1 .. len
          BY <4>1, <5>1
        <5> QED
          BY <5>2
      <4>3. CASE i = p /\ s[p] = key[n]
        <5>1. len \in 1 .. len /\ r[len] = key[j]
          BY <4>1, <4>3
        <5> QED
          BY <5>1
      <4>4. CASE i = p /\ p = 1 /\ Len(s) = room
        <5>1. last[p] \in 0 .. n - 1 /\ ~(j \in last[p] + 1 .. n - 1)
          BY <1>0, <4>1, <4>4
        <5>2. j <= last[p]
          BY <3>0, <5>1
        <5>3. \A y \in 1 .. len : y # p => last[y] \in 0 .. n - 1 /\ last[p] < last[y]
          <6> SUFFICES ASSUME NEW y \in 1 .. len, y # p PROVE last[y] \in 0 .. n - 1 /\ last[p] < last[y]
            OBVIOUS
          <6>1. p < y
            BY <4>4
          <6> QED
            BY <1>0, <6>1
        <5>4. \A y \in 1 .. len : y # p => j < last[y]
          BY <3>0, <5>1, <5>2, <5>3
        <5> QED
          BY <1>6, <3>0, <4>4, <5>4
      <4> QED
        BY <4>2, <4>3, <4>4
    <3>3. CASE Len(s) = room /\ \A i \in 1 .. len : j < last[i]
      BY <1>6, <3>0, <3>3
    <3> QED
      BY <3>1, <3>2, <3>3
  <2> QED
    BY <2>1, <2>2
<1>8. (n + 1) - 1 = n
  OBVIOUS
<1>9. Ages(r, key, n + 1, room, moved)
  BY <1>3, <1>4, <1>5, <1>7, <1>8 DEF Ages
<1> QED
  BY <1>9

LEMMA RemoveFirstShape ==
  ASSUME NEW K, NEW s \in Seq(K), NEW p \in 1 .. Len(s), \A i \in 1 .. Len(s) : s[i] = s[p] => i = p
  PROVE  LET r == RemoveFirst(s, s[p])
         IN  /\ r \in Seq(K) /\ Len(r) = Len(s) - 1
             /\ \A i \in 1 .. Len(s) - 1 : r[i] = s[Skip(p, i)]
<1> DEFINE I == {i \in 1 .. Len(s) : s[i] = s[p]}
<1>1. I = {p}
  OBVIOUS
<1>2. Min(I) = p
  BY <1>1 DEF Min
<1>3. SelectInSeq(s, LAMBDA v : v = s[p]) = p
  BY <1>1, <1>2 DEF SelectInSeq
<1>4. RemoveFirst(s, s[p]) = SubSeq(s, 1, p - 1) \o SubSeq(s, p + 1, Len(s))
  BY <1>3 DEF RemoveFirst, RemoveAt
<1>5. /\ SubSeq(s, 1, p - 1) \in Seq(K) /\ Len(SubSeq(s, 1, p - 1)) = p - 1
      /\ \A i \in 1 .. p - 1 : SubSeq(s, 1, p - 1)[i] = s[i]
  OBVIOUS
<1>6. /\ SubSeq(s, p + 1, Len(s)) \in Seq(K) /\ Len(SubSeq(s, p + 1, Len(s))) = Len(s) - p
      /\ \A i \in 1 .. Len(s) - p : SubSeq(s, p + 1, Len(s))[i] = s[p + i]
  OBVIOUS
<1> DEFINE u == SubSeq(s, 1, p - 1)
           v == SubSeq(s, p + 1, Len(s))
<1> DEFINE len == Len(s)
<1>a. u \in Seq(K) /\ Len(u) = p - 1 /\ \A i \in 1 .. p - 1 : u[i] = s[i]
  BY <1>5
<1>b. v \in Seq(K) /\ Len(v) = len - p /\ \A i \in 1 .. len - p : v[i] = s[p + i]
  BY <1>6
<1>c. len \in Nat /\ p \in 1 .. len
  OBVIOUS
<1> HIDE DEF u, v, len
<1>d. Len(u \o v) = Len(u) + Len(v) /\ u \o v \in Seq(K)
  BY <1>a, <1>b, ConcatProperties
<1>7. u \o v \in Seq(K) /\ Len(u \o v) = len - 1
  BY <1>a, <1>b, <1>c, <1>d
<1>8. ASSUME NEW i \in 1 .. len - 1 PROVE (u \o v)[i] = s[Skip(p, i)]
  <2>1. CASE i < p
    <3>0. i \in 1 .. Len(u)
      BY <1>a, <1>c, <2>1
    <3>1. (u \o v)[i] = u[i]
      BY <1>a, <1>b, <3>0
    <3> QED
      BY <1>a, <2>1, <3>0, <3>1 DEF Skip
  <2>2. CASE ~(i < p)
    <3>0. i \in Len(u) + 1 .. Len(u) + Len(v) /\ i - Len(u) = i - (p - 1)
      BY <1>a, <1>b, <1>c, <2>2
    <3>1. (u \o v)[i] = v[i - (p - 1)]
      BY <1>a, <1>b, <3>0
    <3>2. i - (p - 1) \in 1 .. len - p /\ p + (i - (p - 1)) = i + 1
      BY <1>c, <2>2
    <3> QED
      BY <1>b, <2>2, <3>1, <3>2 DEF Skip
  <2> QED
    BY <2>1, <2>2
<1> QED
  BY <1>4, <1>7, <1>8 DEF u, v, len

\* An access leaves a least recently used cache.
LEMMA RecentStep ==
  ASSUME NEW K, NEW s, NEW key, NEW n \in Nat, NEW room \in Nat \ {0}, key[n] \in K,
         Recent(K, s, key, n, room)
  PROVE  Recent(K, Touched(s, key[n], room), key, n + 1, room)
<1> DEFINE len == Len(s)
           r == Touched(s, key[n], room)
<1>1. s \in Seq(K) /\ len <= room /\ len \in Nat /\ DOMAIN s = 1 .. len
  BY DEF Recent
<1>2. PICK last : Ages(s, key, n, room, last)
  BY DEF Recent
<1>3. \A i, j \in 1 .. len : s[i] = s[j] => i = j
  BY <1>1, <1>2, AgesDistinct
<1>4. CASE \E p \in 1 .. len : s[p] = key[n]
  <2>1. PICK p \in 1 .. len : s[p] = key[n]
    BY <1>4
  <2> DEFINE u == RemoveFirst(s, key[n])
  <2>a. p \in 1 .. len /\ s[p] = key[n] /\ \A i \in 1 .. len : s[i] = s[p] => i = p
    BY <1>3, <2>1
  <2>b. LET w == RemoveFirst(s, s[p])
        IN  /\ w \in Seq(K) /\ Len(w) = Len(s) - 1
            /\ \A i \in 1 .. Len(s) - 1 : w[i] = s[Skip(p, i)]
    BY <1>1, <2>a, RemoveFirstShape
  <2>2. /\ u \in Seq(K) /\ Len(u) = len - 1
        /\ \A i \in 1 .. len - 1 : u[i] = s[Skip(p, i)]
    BY <2>a, <2>b
  <2>c. len - 1 \in Nat
    BY <1>1, <2>a
  <2>3. r = Append(u, key[n])
    BY <1>4 DEF Touched, Contains
  <2> HIDE DEF u, r, len
  <2>d. r \in Seq(K) /\ Len(r) = Len(u) + 1 /\ r[Len(u) + 1] = key[n]
        /\ \A i \in 1 .. Len(u) : r[i] = u[i]
    BY <2>2, <2>3
  <2>e. len - 1 + 1 = len
    BY <1>1
  <2>4. r \in Seq(K) /\ Len(r) = len /\ DOMAIN r = 1 .. len /\ r[len] = key[n]
        /\ \A i \in 1 .. len - 1 : r[i] = u[i]
    BY <2>2, <2>d, <2>e
  <2>5. \A i \in 1 .. len - 1 : r[i] = s[Skip(p, i)]
    BY <2>2, <2>4
  <2>6. Len(s) = Len(r)
    BY <2>4 DEF len
  <2>7. \E moved : Ages(r, key, n + 1, room, moved)
    <3>1. Ages(s, key, n, room, last) /\ len \in Nat /\ DOMAIN s = 1 .. len
      BY <1>1, <1>2
    <3>2. p \in 1 .. len
      BY <2>a
    <3>3. s[p] = key[n]
      BY <2>a
    <3>4. DOMAIN r = 1 .. len /\ r[len] = key[n] /\ \A i \in 1 .. len - 1 : r[i] = s[Skip(p, i)]
      BY <2>4, <2>5
    <3> QED
      BY <3>1, <3>2, <3>3, <3>4, <2>6, AgesMove
  <2>8. Len(r) <= room
    BY <1>1, <2>4
  <2> QED
    BY <2>4, <2>7, <2>8 DEF Recent, r
<1>5. CASE ~(\E p \in 1 .. len : s[p] = key[n]) /\ len >= room
  <2> DEFINE u == Tail(s)
  <2>a. len = room
    <3>1. room \in Nat
      OBVIOUS
    <3>2. len >= room
      BY <1>5
    <3> HIDE DEF len
    <3> QED
      BY <1>1, <3>1, <3>2
  <2>1. len = room /\ 1 \in 1 .. len
    BY <2>a
  <2>2. u \in Seq(K) /\ Len(u) = len - 1 /\ \A i \in 1 .. len - 1 : u[i] = s[i + 1]
    BY <1>1, <2>1
  <2>3. r = Append(u, key[n])
    BY <1>5, <2>1 DEF Touched, Contains
  <2> HIDE DEF u, r, len
  <2>d. r \in Seq(K) /\ Len(r) = Len(u) + 1 /\ r[Len(u) + 1] = key[n]
        /\ \A i \in 1 .. Len(u) : r[i] = u[i]
    BY <2>2, <2>3
  <2>e. len - 1 + 1 = len
    BY <1>1
  <2>4. r \in Seq(K) /\ Len(r) = len /\ DOMAIN r = 1 .. len /\ r[len] = key[n]
        /\ \A i \in 1 .. len - 1 : r[i] = u[i]
    BY <2>2, <2>d, <2>e
  <2>5. \A i \in 1 .. len - 1 : r[i] = s[Skip(1, i)]
    BY <2>2, <2>4 DEF Skip
  <2>6. Len(s) = Len(r) /\ Len(s) = room
    BY <2>1, <2>4 DEF len
  <2>7. \E moved : Ages(r, key, n + 1, room, moved)
    BY <1>1, <1>2, <1>5, <2>1, <2>4, <2>5, <2>6, AgesMove
  <2>8. Len(r) <= room
    BY <1>1, <2>4
  <2> QED
    BY <2>4, <2>7, <2>8 DEF Recent, r
<1>6. CASE ~(\E p \in 1 .. len : s[p] = key[n]) /\ len < room
  <2>1. r = Append(s, key[n])
    BY <1>6 DEF Touched, Contains
  <2> HIDE DEF r
  <2>2. r \in Seq(K) /\ Len(r) = len + 1 /\ DOMAIN r = 1 .. len + 1 /\ r[len + 1] = key[n]
        /\ \A i \in 1 .. len : r[i] = s[i]
    BY <1>1, <2>1
  <2> DEFINE moved == [i \in 1 .. len + 1 |-> IF i = len + 1 THEN n ELSE last[i]]
  <2> HIDE DEF len
  <2>3. /\ last \in [1 .. len -> 0 .. n - 1]
        /\ \A i \in 1 .. len : key[last[i]] = s[i] /\ \A j \in last[i] + 1 .. n - 1 : key[j] # s[i]
        /\ \A i, j \in 1 .. len : i < j => last[i] < last[j]
        /\ \A j \in 0 .. n - 1 : \E i \in 1 .. len : s[i] = key[j]
    <3>1. /\ last \in [1 .. len -> 0 .. n - 1]
          /\ \A i \in 1 .. len : key[last[i]] = s[i] /\ \A j \in last[i] + 1 .. n - 1 : key[j] # s[i]
          /\ \A i, j \in 1 .. len : i < j => last[i] < last[j]
          /\ \A j \in 0 .. n - 1 : \/ \E i \in 1 .. len : s[i] = key[j]
                                   \/ Len(s) = room
      BY <1>1, <1>2 DEF Ages
    <3>2. Len(s) # room
      <4>1. room \in Nat
        OBVIOUS
      <4>2. len < room
        BY <1>6
      <4> HIDE DEF len
      <4>3. len # room
        BY <1>1, <4>1, <4>2
      <4> QED
        BY <4>3 DEF len
    <3> QED
      BY <3>1, <3>2
  <2>4. moved \in [1 .. len + 1 -> 0 .. n]
    BY <1>1, <2>3
  <2>5. /\ moved[len + 1] = n /\ \A i \in 1 .. len : moved[i] = last[i]
    BY <1>1
  <2> HIDE DEF moved
  <2>6. \A i \in 1 .. len + 1 : i = len + 1 \/ i \in 1 .. len
    BY <1>1
  <2>7. ASSUME NEW i \in 1 .. len + 1
        PROVE  key[moved[i]] = r[i] /\ \A j \in moved[i] + 1 .. n : key[j] # r[i]
    <3>1. CASE i = len + 1
      BY <2>2, <2>5, <3>1
    <3>2. CASE i \in 1 .. len
      <4>1. last[i] \in Nat
        BY <2>3, <3>2
      <4>2. \A j \in last[i] + 1 .. n : j = n \/ j \in last[i] + 1 .. n - 1
        BY <4>1
      <4>3. s[i] # key[n]
        BY <1>6, <3>2
      <4> QED
        BY <2>2, <2>3, <2>5, <3>2, <4>2, <4>3
    <3> QED
      BY <2>6, <3>1, <3>2
  <2>8. \A i, j \in 1 .. len + 1 : i < j => moved[i] < moved[j]
    <3> SUFFICES ASSUME NEW i \in 1 .. len + 1, NEW j \in 1 .. len + 1, i < j PROVE moved[i] < moved[j]
      OBVIOUS
    <3>1. i \in 1 .. len
      BY <1>1
    <3>2. moved[i] = last[i] /\ last[i] \in 0 .. n - 1
      BY <2>3, <2>5, <3>1
    <3>3. CASE j = len + 1
      BY <2>5, <3>2, <3>3
    <3>4. CASE j \in 1 .. len
      BY <2>3, <2>5, <3>1, <3>4
    <3> QED
      BY <2>6, <3>3, <3>4
  <2>9. \A j \in 0 .. n : \E i \in 1 .. len + 1 : r[i] = key[j]
    <3> SUFFICES ASSUME NEW j \in 0 .. n PROVE \E i \in 1 .. len + 1 : r[i] = key[j]
      OBVIOUS
    <3>1. CASE j = n
      <4>1. len + 1 \in 1 .. len + 1
        BY <1>1
      <4> QED
        BY <2>2, <3>1, <4>1
    <3>2. CASE j \in 0 .. n - 1
      <4>1. PICK i \in 1 .. len : s[i] = key[j]
        BY <2>3, <3>2
      <4>2. i \in 1 .. len + 1
        BY <1>1
      <4> QED
        BY <2>2, <4>1, <4>2
    <3> QED
      BY <3>1, <3>2
  <2>10. (n + 1) - 1 = n
    OBVIOUS
  <2>11. Ages(r, key, n + 1, room, moved)
    BY <2>2, <2>4, <2>7, <2>8, <2>9, <2>10 DEF Ages
  <2>12. Len(r) <= room
    BY <1>1, <1>6, <2>2
  <2> QED
    BY <2>2, <2>11, <2>12 DEF Recent, r
<1> QED
  BY <1>1, <1>4, <1>5, <1>6

-----------------------------------------------------------------------------
(* Mixed radix numbers: the iterations of a nest, by the values of its     *)
(* loops.                                                                  *)

LEMMA Climb ==
  ASSUME NEW n \in Nat, NEW A \in SUBSET (0 .. n), 0 \in A, \A k \in A : k < n => k + 1 \in A
  PROVE  A = 0 .. n
<1> DEFINE B == {k \in Nat : k <= n => k \in A}
<1>1. B \in SUBSET Nat /\ 0 \in B
  OBVIOUS
<1>2. \A k \in B : k + 1 \in B
  <2> SUFFICES ASSUME NEW k \in B, k + 1 <= n PROVE k + 1 \in A
    OBVIOUS
  <2>1. k \in A /\ k < n
    OBVIOUS
  <2> QED
    BY <2>1
<1> HIDE DEF B
<1>3. B = Nat
  BY <1>1, <1>2, Upwards
<1>4. \A k \in 0 .. n : k \in A
  BY <1>3 DEF B
<1> QED
  BY <1>4

LEMMA Descend ==
  ASSUME NEW n \in Nat, NEW A \in SUBSET (0 .. n), n \in A, \A k \in A : k > 0 => k - 1 \in A
  PROVE  A = 0 .. n
<1> DEFINE B == {k \in 0 .. n : n - k \in A}
<1>1. B \in SUBSET (0 .. n) /\ 0 \in B
  OBVIOUS
<1>2. \A k \in B : k < n => k + 1 \in B
  <2> SUFFICES ASSUME NEW k \in 0 .. n, n - k \in A, k < n PROVE n - (k + 1) \in A
    OBVIOUS
  <2>1. n - k > 0 /\ (n - k) - 1 = n - (k + 1)
    OBVIOUS
  <2> QED
    BY <2>1
<1> HIDE DEF B
<1>3. B = 0 .. n
  BY <1>1, <1>2, Climb
<1>4. \A k \in 0 .. n : k \in A
  <2> SUFFICES ASSUME NEW k \in 0 .. n PROVE k \in A
    OBVIOUS
  <2>1. n - k \in B /\ n - (n - k) = k
    BY <1>3
  <2> QED
    BY <2>1 DEF B
<1> QED
  BY <1>4

\* E: the radices; P[k]: how many numbers the digits after k tell apart.
Radix(n, E, P) ==
  /\ E \in [1 .. n -> Nat \ {0}] /\ P \in [0 .. n -> Nat \ {0}]
  /\ P[n] = 1 /\ \A k \in 1 .. n : P[k - 1] = E[k] * P[k]

\* h[k]: what the first k of the digits x stand for.
Stands(n, P, x, h) ==
  /\ x \in [1 .. n -> Nat] /\ h \in [0 .. n -> Nat]
  /\ h[0] = 0 /\ \A k \in 1 .. n : h[k] = h[k - 1] + x[k] * P[k]

LEMMA HeadDivides ==
  ASSUME NEW n \in Nat, NEW E, NEW P, Radix(n, E, P), NEW x, NEW h, Stands(n, P, x, h)
  PROVE  \A k \in 0 .. n : \E q \in Nat : h[k] = q * P[k]
<1> DEFINE A == {k \in 0 .. n : \E q \in Nat : h[k] = q * P[k]}
<1>1. 0 \in A
  <2>1. h[0] = 0 * P[0] /\ 0 \in Nat
    BY DEF Stands, Radix
  <2> QED
    BY <2>1
<1>2. \A k \in A : k < n => k + 1 \in A
  <2> SUFFICES ASSUME NEW k \in 0 .. n, NEW q \in Nat, h[k] = q * P[k], k < n
               PROVE  \E r \in Nat : h[k + 1] = r * P[k + 1]
    OBVIOUS
  <2>1. k + 1 \in 1 .. n /\ (k + 1) - 1 = k
    OBVIOUS
  <2>2. h[k + 1] = h[k] + x[k + 1] * P[k + 1]
    BY <2>1 DEF Stands
  <2>3. P[k] = E[k + 1] * P[k + 1]
    BY <2>1 DEF Radix
  <2>4. E[k + 1] \in Nat /\ P[k + 1] \in Nat /\ x[k + 1] \in Nat
    <3>1. E[k + 1] \in Nat
      BY <2>1 DEF Radix
    <3>2. k + 1 \in 0 .. n
      BY <2>1
    <3>3. P[k + 1] \in Nat
      BY <3>2 DEF Radix
    <3>4. x[k + 1] \in Nat
      BY <2>1 DEF Stands
    <3> QED
      BY <3>1, <3>3, <3>4
  <2> DEFINE e == E[k + 1]
             p == P[k + 1]
             y == x[k + 1]
  <2> HIDE DEF e, p, y
  <2>5. e \in Nat /\ p \in Nat /\ y \in Nat /\ h[k + 1] = q * (e * p) + y * p
    BY <2>2, <2>3, <2>4 DEF e, p, y
  <2>6. q * (e * p) + y * p = (q * e + y) * p /\ q * e + y \in Nat
    BY <2>5
  <2> QED
    BY <2>5, <2>6 DEF p
<1> HIDE DEF A
<1>3. A = 0 .. n
  BY <1>1, <1>2, Climb DEF A
<1> QED
  BY <1>3 DEF A

LEMMA TailBound ==
  ASSUME NEW n \in Nat, NEW E, NEW P, Radix(n, E, P), NEW x, NEW h, Stands(n, P, x, h),
         \A k \in 1 .. n : x[k] < E[k]
  PROVE  \A k \in 0 .. n : h[k] <= h[n] /\ h[n] < h[k] + P[k]
<1> DEFINE A == {k \in 0 .. n : h[k] <= h[n] /\ h[n] < h[k] + P[k]}
<1>1. n \in A
  BY DEF Radix, Stands
<1>2. \A k \in A : k > 0 => k - 1 \in A
  <2> SUFFICES ASSUME NEW k \in 1 .. n, h[k] <= h[n], h[n] < h[k] + P[k]
               PROVE  h[k - 1] <= h[n] /\ h[n] < h[k - 1] + P[k - 1]
    OBVIOUS
  <2>1. h[k] = h[k - 1] + x[k] * P[k]
    BY DEF Stands
  <2>2. P[k - 1] = E[k] * P[k]
    BY DEF Radix
  <2>3. /\ E[k] \in Nat /\ P[k] \in Nat /\ x[k] \in Nat /\ x[k] < E[k]
        /\ h[k - 1] \in Nat /\ h[k] \in Nat /\ h[n] \in Nat
    <3>1. k - 1 \in 0 .. n
      OBVIOUS
    <3> QED
      BY <3>1 DEF Radix, Stands
  <2> DEFINE e == E[k]
             p == P[k]
             y == x[k]
             u == h[k - 1]
             v == h[k]
             w == h[n]
  <2>4. /\ v = u + y * p /\ v <= w /\ w < v + p
        /\ e \in Nat /\ p \in Nat /\ y \in Nat /\ y < e /\ u \in Nat /\ v \in Nat /\ w \in Nat
    BY <2>1, <2>3
  <2> HIDE DEF e, p, y, u, v, w
  <2>5. y * p \in Nat
    BY <2>4
  <2>6. (y + 1) * p <= e * p
    <3>1. y + 1 <= e /\ y + 1 \in Nat /\ p <= p
      BY <2>4
    <3> QED
      BY <2>4, <3>1, TimesOrder
  <2>7. (y + 1) * p = y * p + p /\ e * p \in Nat
    BY <2>4
  <2>8. u <= w /\ w < u + e * p
    BY <2>4, <2>5, <2>6, <2>7
  <2> QED
    BY <2>2, <2>8 DEF e, p, u, w
<1> HIDE DEF A
<1>3. A = 0 .. n
  BY <1>1, <1>2, Descend DEF A
<1> QED
  BY <1>3 DEF A

\* A digit is found again.
LEMMA DigitAt ==
  ASSUME NEW n \in Nat, NEW E, NEW P, Radix(n, E, P), NEW x, NEW h, Stands(n, P, x, h),
         \A k \in 1 .. n : x[k] < E[k], NEW k \in 1 .. n
  PROVE  (h[n] \div P[k]) % E[k] = x[k]
<1>1. k - 1 \in 0 .. n /\ k \in 0 .. n
  OBVIOUS
<1>2. PICK q \in Nat : h[k - 1] = q * P[k - 1]
  BY <1>1, HeadDivides
<1>3. P[k - 1] = E[k] * P[k] /\ h[k] = h[k - 1] + x[k] * P[k]
  BY DEF Radix, Stands
<1>4. h[k] <= h[n] /\ h[n] < h[k] + P[k]
  BY <1>1, TailBound
<1>5. /\ E[k] \in Nat \ {0} /\ P[k] \in Nat \ {0} /\ x[k] \in Nat /\ x[k] < E[k]
      /\ h[n] \in Nat /\ h[k] \in Nat
  BY DEF Radix, Stands
<1> DEFINE e == E[k]
           p == P[k]
           y == x[k]
           w == h[n]
           v == h[k]
<1> HIDE DEF e, p, y, w, v
<1>6. /\ e \in Nat \ {0} /\ p \in Nat \ {0} /\ y \in Nat /\ y < e /\ w \in Nat /\ v \in Nat
      /\ v = q * (e * p) + y * p /\ v <= w /\ w < v + p
  BY <1>2, <1>3, <1>4, <1>5 DEF e, p, y, w, v
<1>7. q * (e * p) + y * p = (q * e + y) * p /\ q * e + y \in Nat
  BY <1>6
<1>8. w \div p = q * e + y
  <2> DEFINE r == q * e + y
  <2>1. r \in Nat /\ r * p <= w /\ w < r * p + p
    BY <1>6, <1>7
  <2> HIDE DEF r
  <2>2. w \div p = r
    BY <1>6, <2>1, QuotientIs
  <2> QED
    BY <2>2 DEF r
<1>9. (q * e + y) % e = y
  <2> DEFINE r == q * e + y
  <2>1. q * e <= r /\ r < q * e + e /\ r \in Nat
    BY <1>6, <1>7
  <2>2. r = q * e + y
    OBVIOUS
  <2> HIDE DEF r
  <2>3. r \div e = q
    BY <1>6, <2>1, QuotientIs
  <2>4. r % e = r - e * (r \div e)
    BY <1>6, <2>1, Divides
  <2>5. e * q = q * e /\ q * e \in Nat
    BY <1>6
  <2>6. r % e = y
    BY <1>6, <2>2, <2>3, <2>4, <2>5
  <2> QED
    BY <2>6 DEF r
<1> QED
  BY <1>8, <1>9 DEF e, p, y, w

\* All digits after k at their largest.
LEMMA TailFull ==
  ASSUME NEW n \in Nat, NEW E, NEW P, Radix(n, E, P), NEW x, NEW h, Stands(n, P, x, h),
         NEW k \in 0 .. n, \A j \in k + 1 .. n : x[j] = E[j] - 1
  PROVE  h[n] + 1 = h[k] + P[k]
<1> DEFINE A == {j \in 0 .. n : j >= k => h[n] + 1 = h[j] + P[j]}
<1>1. n \in A
  BY DEF Radix, Stands
<1>2. \A j \in A : j > 0 => j - 1 \in A
  <2> SUFFICES ASSUME NEW j \in 1 .. n, j - 1 >= k, h[n] + 1 = h[j] + P[j]
               PROVE  h[n] + 1 = h[j - 1] + P[j - 1]
    OBVIOUS
  <2>0. j \in k + 1 .. n /\ j - 1 \in 0 .. n
    OBVIOUS
  <2>1. h[j] = h[j - 1] + x[j] * P[j] /\ P[j - 1] = E[j] * P[j] /\ x[j] = E[j] - 1
    BY <2>0 DEF Stands, Radix
  <2>2. E[j] \in Nat /\ P[j] \in Nat /\ x[j] \in Nat /\ h[j - 1] \in Nat /\ h[n] \in Nat
    BY <2>0 DEF Radix, Stands
  <2> DEFINE e == E[j]
             p == P[j]
             y == x[j]
  <2>3. e = y + 1 /\ p \in Nat /\ y \in Nat
    BY <2>1, <2>2
  <2> HIDE DEF e, p, y
  <2>4. e * p = y * p + p /\ y * p \in Nat
    BY <2>3
  <2>5. h[j] = h[j - 1] + y * p /\ P[j - 1] = e * p /\ P[j] = p
    BY <2>1 DEF e, p, y
  <2> QED
    BY <2>2, <2>3, <2>4, <2>5
<1> HIDE DEF A
<1>3. A = 0 .. n
  BY <1>1, <1>2, Descend DEF A
<1> QED
  BY <1>3 DEF A

\* The next number: a digit is raised and those after it, which were at their
\* largest, start over.
LEMMA Raised ==
  ASSUME NEW n \in Nat, NEW E, NEW P, Radix(n, E, P),
         NEW x, NEW h, Stands(n, P, x, h), NEW y, NEW g, Stands(n, P, y, g),
         NEW k \in 1 .. n, \A j \in k + 1 .. n : x[j] = E[j] - 1,
         \A j \in 1 .. n : y[j] = IF j < k THEN x[j] ELSE IF j = k THEN x[j] + 1 ELSE 0
  PROVE  g[n] = h[n] + 1
<1>1. \A j \in 0 .. n : j < k => g[j] = h[j]
  <2> DEFINE A == {j \in 0 .. n : j < k => g[j] = h[j]}
  <2>1. 0 \in A
    BY DEF Stands
  <2>2. \A j \in A : j < n => j + 1 \in A
    <3> SUFFICES ASSUME NEW j \in 0 .. n, j + 1 < k, g[j] = h[j] PROVE g[j + 1] = h[j + 1]
      OBVIOUS
    <3>1. j + 1 \in 1 .. n /\ (j + 1) - 1 = j
      OBVIOUS
    <3>2. y[j + 1] = x[j + 1]
      BY <3>1
    <3> QED
      BY <3>1, <3>2 DEF Stands
  <2> HIDE DEF A
  <2>3. A = 0 .. n
    BY <2>1, <2>2, Climb DEF A
  <2> QED
    BY <2>3 DEF A
<1>2. \A j \in 0 .. n : j >= k => g[j] = g[k]
  <2> DEFINE A == {j \in 0 .. n : j >= k => g[j] = g[k]}
  <2>1. 0 \in A
    OBVIOUS
  <2>2. \A j \in A : j < n => j + 1 \in A
    <3> SUFFICES ASSUME NEW j \in 0 .. n, j < n, j + 1 >= k, j >= k => g[j] = g[k]
                 PROVE  g[j + 1] = g[k]
      OBVIOUS
    <3>1. CASE j + 1 = k
      BY <3>1
    <3>2. CASE j >= k
      <4>1. j + 1 \in 1 .. n /\ (j + 1) - 1 = j
        OBVIOUS
      <4>2. y[j + 1] = 0
        BY <3>2, <4>1
      <4>3. g[j + 1] = g[j] + 0 * P[j + 1] /\ g[j] \in Nat /\ P[j + 1] \in Nat
        BY <4>1, <4>2 DEF Stands, Radix
      <4>4. 0 * P[j + 1] = 0
        BY <4>3
      <4> QED
        BY <3>2, <4>3, <4>4
    <3> QED
      BY <3>1, <3>2
  <2> HIDE DEF A
  <2>3. A = 0 .. n
    BY <2>1, <2>2, Climb DEF A
  <2> QED
    BY <2>3 DEF A
<1>3. h[n] + 1 = h[k] + P[k]
  <2>1. k \in 0 .. n
    OBVIOUS
  <2> QED
    BY <2>1, TailFull
<1>4. k - 1 \in 0 .. n /\ k - 1 < k /\ n \in 0 .. n /\ n >= k
  OBVIOUS
<1>5. g[k - 1] = h[k - 1] /\ g[n] = g[k]
  BY <1>1, <1>2, <1>4
<1>6. h[k] = h[k - 1] + x[k] * P[k] /\ g[k] = g[k - 1] + y[k] * P[k] /\ y[k] = x[k] + 1
  BY DEF Stands
<1>7. x[k] \in Nat /\ P[k] \in Nat /\ h[k - 1] \in Nat /\ h[n] \in Nat
  <2>0. k \in 0 .. n
    OBVIOUS
  <2>1. x[k] \in Nat
    BY DEF Stands
  <2>2. P[k] \in Nat
    BY <2>0 DEF Radix
  <2>3. h[k - 1] \in Nat /\ h[n] \in Nat
    BY <1>4 DEF Stands
  <2> QED
    BY <2>1, <2>2, <2>3
<1> DEFINE p == P[k]
           u == x[k]
<1> HIDE DEF p, u
<1>8. p \in Nat /\ u \in Nat /\ h[k] = h[k - 1] + u * p /\ g[k] = h[k - 1] + (u + 1) * p
      /\ h[n] + 1 = h[k] + p
  BY <1>3, <1>5, <1>6, <1>7 DEF p, u
<1>9. (u + 1) * p = u * p + p /\ u * p \in Nat
  BY <1>8
<1> QED
  BY <1>5, <1>7, <1>8, <1>9

-----------------------------------------------------------------------------
(* The nest of the simulated walk.                                         *)

Size(a) == IF a.mode = "regfile" THEN 7 ELSE 14

LEMMA NestShape ==
  ASSUME NEW a, ArchTyped(a)
  PROVE  LET nest == AccessNest(a)
         IN  /\ Size(a) \in Nat /\ DOMAIN nest = 1 .. Size(a) /\ Len(nest) = Size(a)
             /\ \A k \in 1 .. Size(a) : \E l \in 0 .. 1, d \in DimSet : nest[k] = << l, d >>
             /\ \A j, k \in 1 .. Size(a) : nest[j] = nest[k] => j = k
             /\ \A d \in DimSet : \E k \in 1 .. Size(a) : nest[k] = << 1, d >>
             /\ a.mode # "regfile" => \A d \in DimSet : \E k \in 1 .. Size(a) : nest[k] = << 0, d >>
<1> DEFINE nest == AccessNest(a)
<1>1. /\ Len(Dims) = 7 /\ DOMAIN Dims = 1 .. 7
      /\ \A i \in 1 .. 7 : Dims[i] \in DimSet
      /\ \A i, j \in 1 .. 7 : Dims[i] = Dims[j] => i = j
      /\ \A d \in DimSet : \E i \in 1 .. 7 : Dims[i] = d
  BY DimsShape
<1>2. \A l \in 0 .. 1 :
        /\ LevelNest(l) \in Seq((0 .. 1) \X DimSet) /\ Len(LevelNest(l)) = 7
        /\ \A k \in 1 .. 7 : LevelNest(l)[k] = << l, Dims[k] >>
  <2> SUFFICES ASSUME NEW l \in 0 .. 1
               PROVE  /\ LevelNest(l) \in Seq((0 .. 1) \X DimSet) /\ Len(LevelNest(l)) = 7
                      /\ \A k \in 1 .. 7 : LevelNest(l)[k] = << l, Dims[k] >>
    OBVIOUS
  <2> DEFINE f == [i \in 1 .. 7 |-> << l, Dims[i] >>]
  <2>1. LevelNest(l) = f
    BY <1>1 DEF LevelNest
  <2>2. f \in [1 .. 7 -> (0 .. 1) \X DimSet]
    BY <1>1
  <2>3. f \in Seq((0 .. 1) \X DimSet) /\ Len(f) = 7
    BY <2>2
  <2> QED
    BY <2>1, <2>3
<1> HIDE DEF nest
<1>3. CASE a.mode = "regfile"
  <2>1. nest = LevelNest(1) /\ Size(a) = 7
    BY <1>3 DEF nest, AccessNest, Size
  <2>2. nest \in Seq((0 .. 1) \X DimSet) /\ Len(nest) = 7 /\ \A k \in 1 .. 7 : nest[k] = << 1, Dims[k] >>
    BY <1>2, <2>1
  <2>3. DOMAIN nest = 1 .. 7
    BY <2>2
  <2>4. \A j, k \in 1 .. 7 : nest[j] = nest[k] => j = k
    BY <1>1, <2>2
  <2>5. \A d \in DimSet : \E k \in 1 .. 7 : nest[k] = << 1, d >>
    BY <1>1, <2>2
  <2>6. \A k \in 1 .. 7 : \E l \in 0 .. 1, d \in DimSet : nest[k] = << l, d >>
    BY <1>1, <2>2
  <2> QED
    BY <1>3, <2>1, <2>2, <2>3, <2>4, <2>5, <2>6 DEF nest
<1>4. CASE a.mode # "regfile"
  <2>1. nest = LevelNest(1) \o LevelNest(0) /\ Size(a) = 14
    BY <1>4 DEF nest, AccessNest, Size
  <2>2. /\ nest \in Seq((0 .. 1) \X DimSet) /\ Len(nest) = 14
        /\ \A k \in 1 .. 14 : nest[k] = IF k <= 7 THEN LevelNest(1)[k] ELSE LevelNest(0)[k - 7]
    <3> DEFINE u == LevelNest(1)
               v == LevelNest(0)
    <3>1. u \in Seq((0 .. 1) \X DimSet) /\ v \in Seq((0 .. 1) \X DimSet) /\ Len(u) = 7 /\ Len(v) = 7
      BY <1>2
    <3> HIDE DEF u, v
    <3>2. /\ u \o v \in Seq((0 .. 1) \X DimSet) /\ Len(u \o v) = 14
          /\ \A k \in 1 .. 14 : (u \o v)[k] = IF k <= 7 THEN u[k] ELSE v[k - 7]
      <4>1. /\ u \o v \in Seq((0 .. 1) \X DimSet) /\ Len(u \o v) = Len(u) + Len(v)
            /\ \A k \in 1 .. Len(u) + Len(v) : (u \o v)[k] = IF k <= Len(u) THEN u[k] ELSE v[k - Len(u)]
        BY <3>1, ConcatProperties
      <4>2. Len(u) + Len(v) = 14
        BY <3>1
      <4> QED
        BY <3>1, <4>1, <4>2
    <3> QED
      BY <2>1, <3>2 DEF u, v
  <2>3. DOMAIN nest = 1 .. 14
    BY <2>2
  <2>a. \A k \in 1 .. 7 : nest[k] = << 1, Dims[k] >>
    <3> SUFFICES ASSUME NEW k \in 1 .. 7 PROVE nest[k] = << 1, Dims[k] >>
      OBVIOUS
    <3>1. k \in 1 .. 14 /\ k <= 7
      OBVIOUS
    <3> QED
      BY <1>2, <2>2, <3>1
  <2>b. \A k \in 8 .. 14 : nest[k] = << 0, Dims[k - 7] >>
    <3> SUFFICES ASSUME NEW k \in 8 .. 14 PROVE nest[k] = << 0, Dims[k - 7] >>
      OBVIOUS
    <3>1. k \in 1 .. 14 /\ ~(k <= 7) /\ k - 7 \in 1 .. 7
      OBVIOUS
    <3> QED
      BY <1>2, <2>2, <3>1, SMTT(30)
  <2>c. \A k \in 1 .. 14 : k \in 1 .. 7 \/ (k \in 8 .. 14 /\ k - 7 \in 1 .. 7)
    <3> SUFFICES ASSUME NEW k \in 1 .. 14, ~(k \in 1 .. 7) PROVE k \in 8 .. 14 /\ k - 7 \in 1 .. 7
      OBVIOUS
    <3>1. k \in Int /\ 1 <= k /\ k <= 14 /\ ~(k <= 7)
      OBVIOUS
    <3> QED
      BY <3>1
  <2>4. \A j, k \in 1 .. 14 : nest[j] = nest[k] => j = k
    <3> SUFFICES ASSUME NEW j \in 1 .. 14, NEW k \in 1 .. 14, nest[j] = nest[k] PROVE j = k
      OBVIOUS
    <3>1. CASE j \in 1 .. 7 /\ k \in 1 .. 7
      BY <1>1, <2>a, <3>1
    <3>2. CASE j \in 8 .. 14 /\ k \in 8 .. 14
      <4>1. j - 7 \in 1 .. 7 /\ k - 7 \in 1 .. 7
        BY <3>2
      <4>2. Dims[j - 7] = Dims[k - 7]
        BY <2>b, <3>2
      <4>3. j - 7 = k - 7
        BY <1>1, <4>1, <4>2
      <4> QED
        BY <4>3
    <3>3. CASE j \in 1 .. 7 /\ k \in 8 .. 14
      BY <2>a, <2>b, <3>3
    <3>4. CASE j \in 8 .. 14 /\ k \in 1 .. 7
      BY <2>a, <2>b, <3>4
    <3> QED
      BY <2>c, <3>1, <3>2, <3>3, <3>4
  <2>5. \A d \in DimSet : \E k \in 1 .. 14 : nest[k] = << 1, d >>
    <3> SUFFICES ASSUME NEW d \in DimSet PROVE \E k \in 1 .. 14 : nest[k] = << 1, d >>
      OBVIOUS
    <3>1. PICK i \in 1 .. 7 : Dims[i] = d
      BY <1>1
    <3>2. i \in 1 .. 14
      OBVIOUS
    <3> QED
      BY <2>a, <3>1, <3>2
  <2>6. \A d \in DimSet : \E k \in 1 .. 14 : nest[k] = << 0, d >>
    <3> SUFFICES ASSUME NEW d \in DimSet PROVE \E k \in 1 .. 14 : nest[k] = << 0, d >>
      OBVIOUS
    <3>1. PICK i \in 1 .. 7 : Dims[i] = d
      BY <1>1
    <3>2. i + 7 \in 8 .. 14 /\ i + 7 \in 1 .. 14 /\ (i + 7) - 7 = i
      OBVIOUS
    <3> QED
      BY <2>b, <3>1, <3>2
  <2>7. \A k \in 1 .. 14 : \E l \in 0 .. 1, d \in DimSet : nest[k] = << l, d >>
    <3> SUFFICES ASSUME NEW k \in 1 .. 14 PROVE \E l \in 0 .. 1, d \in DimSet : nest[k] = << l, d >>
      OBVIOUS
    <3>1. CASE k \in 1 .. 7
      BY <1>1, <2>a, <3>1
    <3>2. CASE k \in 8 .. 14 /\ k - 7 \in 1 .. 7
      BY <1>1, <2>b, <3>2
    <3> QED
      BY <2>c, <3>1, <3>2
  <2>8. /\ Size(a) \in Nat /\ DOMAIN nest = 1 .. Size(a) /\ Len(nest) = Size(a)
        /\ \A k \in 1 .. Size(a) : \E l \in 0 .. 1, d \in DimSet : nest[k] = << l, d >>
        /\ \A j, k \in 1 .. Size(a) : nest[j] = nest[k] => j = k
    <3>1. Size(a) \in Nat /\ DOMAIN nest = 1 .. Size(a)
      BY <2>1, <2>3
    <3>2. Len(nest) = Size(a)
      BY <2>1, <2>2
    <3>3. \A k \in 1 .. Size(a) : \E l \in 0 .. 1, d \in DimSet : nest[k] = << l, d >>
      BY <2>1, <2>7
    <3>4. \A j, k \in 1 .. Size(a) : nest[j] = nest[k] => j = k
      BY <2>1, <2>4
    <3> QED
      BY <3>1, <3>2, <3>3, <3>4
  <2>9. /\ \A d \in DimSet : \E k \in 1 .. Size(a) : nest[k] = << 1, d >>
        /\ \A d \in DimSet : \E k \in 1 .. Size(a) : nest[k] = << 0, d >>
    BY <2>1, <2>5, <2>6
  <2> QED
    BY <2>8, <2>9 DEF nest
<1> QED
  BY <1>3, <1>4 DEF nest

\* The radices and places of the nest.
Radices(m, a) == [k \in 1 .. Size(a) |-> Extent(m, AccessNest(a)[k])]
Places(m, a) == [k \in 0 .. Size(a) |-> Period(m, AccessNest(a), k)]

LEMMA NestRadix ==
  ASSUME NEW m, MappingTyped(m), NEW a, ArchTyped(a)
  PROVE  Radix(Size(a), Radices(m, a), Places(m, a))
<1> DEFINE n == Size(a)
           nest == AccessNest(a)
           E == Radices(m, a)
           P == Places(m, a)
<1>1. n \in Nat /\ DOMAIN nest = 1 .. n /\ Len(nest) = n
  BY NestShape
<1>2. \A k \in 1 .. n : Extent(m, nest[k]) \in Nat \ {0}
  <2> SUFFICES ASSUME NEW k \in 1 .. n PROVE Extent(m, nest[k]) \in Nat \ {0}
    OBVIOUS
  <2>1. PICK l \in 0 .. 1, d \in DimSet : nest[k] = << l, d >>
    BY NestShape
  <2>2. m.bound \in [0 .. Top(m) -> [DimSet -> Nat \ {0}]] /\ Top(m) \in Nat \ {0, 1}
    BY MappingFields
  <2>3. l \in 0 .. Top(m)
    BY <2>2
  <2>4. Extent(m, nest[k]) = m.bound[l][d]
    BY <2>1 DEF Extent
  <2> QED
    BY <2>2, <2>3, <2>4
<1>3. E = [i \in DOMAIN nest |-> Extent(m, nest[i])]
  BY <1>1 DEF Radices
<1>4. E \in [1 .. n -> Nat \ {0}]
  BY <1>2 DEF Radices
<1>5. \A k \in 0 .. n : P[k] = Product(E, k + 1 .. n)
  BY <1>1, <1>3 DEF Places, Period
<1>6. DOMAIN P = 0 .. n /\ P = [k \in 0 .. n |-> P[k]]
  BY DEF Places
<1> HIDE DEF n, nest, E, P
<1>7. \A k \in 0 .. n : IsFiniteSet(k + 1 .. n) /\ Factors(E, k + 1 .. n)
  <2> SUFFICES ASSUME NEW k \in 0 .. n PROVE IsFiniteSet(k + 1 .. n) /\ Factors(E, k + 1 .. n)
    OBVIOUS
  <2>1. k + 1 .. n \subseteq 1 .. n /\ k + 1 \in Int /\ n \in Int
    BY <1>1
  <2> QED
    BY <1>4, <2>1, FS_Interval DEF Factors
<1>8. \A k \in 0 .. n : P[k] \in Nat \ {0}
  BY <1>5, <1>7, ProductPositive
<1>9. P \in [0 .. n -> Nat \ {0}]
  BY <1>6, <1>8
<1>10. P[n] = 1
  <2>1. n \in 0 .. n /\ n + 1 .. n = {}
    BY <1>1
  <2>2. Product(E, {}) = 1
    BY ProductNone
  <2> QED
    BY <1>5, <2>1, <2>2
<1>11. \A k \in 1 .. n : P[k - 1] = E[k] * P[k]
  <2> SUFFICES ASSUME NEW k \in 1 .. n PROVE P[k - 1] = E[k] * P[k]
    OBVIOUS
  <2>1. k - 1 \in 0 .. n /\ k \in 0 .. n /\ (k - 1) + 1 = k
    BY <1>1
  <2>2. (k .. n) = (k + 1 .. n) \cup {k}
    BY <1>1
  <2> DEFINE S == k .. n
             T == k + 1 .. n
  <2>3. T \in SUBSET S /\ k \in S \ T /\ T \cup {k} = S
    BY <2>2
  <2>4. IsFiniteSet(S) /\ Numbers(E, S)
    <3>1. IsFiniteSet(S) /\ Factors(E, S)
      BY <1>7, <2>1
    <3> QED
      BY <3>1 DEF Factors, Numbers
  <2> HIDE DEF S, T
  <2>5. Product(E, S) = E[k] * Product(E, T)
    BY <2>3, <2>4, ProductMore
  <2> QED
    BY <1>5, <2>1, <2>5 DEF S, T
<1> QED
  BY <1>4, <1>9, <1>10, <1>11 DEF Radix, n, E, P

\* The iteration that the loops stand for at a point.
Digits(a, p) == [k \in 1 .. Size(a) |-> p[AccessNest(a)[k][1]][AccessNest(a)[k][2]]]

OnNest(m, a, p) ==
  /\ p \in [0 .. 1 -> [DimSet -> Nat]]
  /\ \A k \in 1 .. Size(a) : Digits(a, p)[k] < Radices(m, a)[k]

Number(m, a, p) ==
  LET nest == AccessNest(a)
  IN  SumFunctionOnSet([k \in DOMAIN nest |-> p[nest[k][1]][nest[k][2]] * Period(m, nest, k)], DOMAIN nest)

LEMMA NumberStands ==
  ASSUME NEW m, MappingTyped(m), NEW a, ArchTyped(a), NEW p \in [0 .. 1 -> [DimSet -> Nat]]
  PROVE  \E h : Stands(Size(a), Places(m, a), Digits(a, p), h) /\ h[Size(a)] = Number(m, a, p)
<1> DEFINE n == Size(a)
           nest == AccessNest(a)
           P == Places(m, a)
           x == Digits(a, p)
           g == [k \in 1 .. n |-> x[k] * P[k]]
           h == [k \in 0 .. n |-> SumFunctionOnSet(g, 1 .. k)]
<1>1. n \in Nat /\ DOMAIN nest = 1 .. n
  BY NestShape
<1>2. x \in [1 .. n -> Nat]
  <2> SUFFICES ASSUME NEW k \in 1 .. n PROVE p[nest[k][1]][nest[k][2]] \in Nat
    BY DEF Digits
  <2>1. PICK l \in 0 .. 1, d \in DimSet : nest[k] = << l, d >>
    BY NestShape
  <2> QED
    BY <2>1
<1>3. Radix(n, Radices(m, a), P)
  BY NestRadix
<1>4. P \in [0 .. n -> Nat \ {0}]
  BY <1>3 DEF Radix
<1>5. Number(m, a, p) = SumFunctionOnSet(g, 1 .. n)
  <2>1. [k \in DOMAIN nest |-> p[nest[k][1]][nest[k][2]] * Period(m, nest, k)] = g
    BY <1>1 DEF Digits, Places
  <2> QED
    BY <1>1, <2>1 DEF Number
<1> HIDE DEF n, nest, P, x
<1>6. \A k \in 1 .. n : g[k] \in Nat /\ g[k] = x[k] * P[k]
  <2> SUFFICES ASSUME NEW k \in 1 .. n PROVE x[k] * P[k] \in Nat
    OBVIOUS
  <2> DEFINE u == x[k]
             v == P[k]
  <2>1. u \in Nat
    BY <1>2
  <2>2. k \in 0 .. n
    BY <1>1
  <2>3. v \in Nat
    BY <1>4, <2>2
  <2> HIDE DEF u, v
  <2>4. u * v \in Nat
    BY <2>1, <2>3
  <2> QED
    BY <2>4 DEF u, v
<1> HIDE DEF g
<1>7. \A k \in 0 .. n : IsFiniteSet(1 .. k) /\ Numbers(g, 1 .. k)
  BY <1>1, <1>6, FS_Interval DEF Numbers
<1>8. h \in [0 .. n -> Nat]
  BY <1>7, SumType
<1>9. h[0] = 0
  <2>1. 0 \in 0 .. n /\ 1 .. 0 = {}
    BY <1>1
  <2> QED
    BY <2>1, SumNone
<1>10. \A k \in 1 .. n : h[k] = h[k - 1] + x[k] * P[k]
  <2> SUFFICES ASSUME NEW k \in 1 .. n PROVE h[k] = h[k - 1] + x[k] * P[k]
    OBVIOUS
  <2>0. k - 1 \in 0 .. n /\ k \in 0 .. n
    BY <1>1
  <2> DEFINE S == 1 .. k
             T == 1 .. k - 1
  <2>1. T \in SUBSET S /\ k \in S \ T /\ T \cup {k} = S
    BY <1>1
  <2>2. IsFiniteSet(S) /\ Numbers(g, S)
    BY <1>7, <2>0
  <2> HIDE DEF S, T
  <2>3. SumFunctionOnSet(g, S) = g[k] + SumFunctionOnSet(g, T) /\ SumFunctionOnSet(g, T) \in Nat
    BY <2>1, <2>2, SumMore
  <2>4. g[k] \in Nat /\ g[k] = x[k] * P[k]
    BY <1>6
  <2> QED
    BY <2>0, <2>3, <2>4 DEF S, T
<1>11. h[n] = SumFunctionOnSet(g, 1 .. n)
  BY <1>1
<1> HIDE DEF h
<1> QED
  BY <1>2, <1>5, <1>8, <1>9, <1>10, <1>11 DEF Stands, n, P, x

\* The values of the loops in the iteration they stand for.
LEMMA ValuesThere ==
  ASSUME NEW m, MappingTyped(m), NEW a, ArchTyped(a), NEW p, OnNest(m, a, p),
         NEW l \in 0 .. 1, l = 1 \/ a.mode # "regfile", NEW d \in DimSet
  PROVE  ValuesAt(m, AccessNest(a), Number(m, a, p), l)[d] = p[l][d]
<1> DEFINE n == Size(a)
           nest == AccessNest(a)
           i == Number(m, a, p)
<1>1. n \in Nat /\ DOMAIN nest = 1 .. n
  BY NestShape
<1>2. \A j, k \in 1 .. n : nest[j] = nest[k] => j = k
  BY NestShape
<1>3. \E k \in 1 .. n : nest[k] = << l, d >>
  <2>1. l = 0 \/ l = 1
    OBVIOUS
  <2>2. CASE l = 1
    BY <2>2, NestShape
  <2>3. CASE l = 0
    BY <2>3, NestShape
  <2> QED
    BY <2>1, <2>2, <2>3
<1> HIDE DEF n, nest, i
<1>4. PICK k \in 1 .. n : nest[k] = << l, d >>
  BY <1>3
<1>5. (CHOOSE j \in DOMAIN nest : nest[j] = << l, d >>) = k
  <2> DEFINE c == CHOOSE j \in DOMAIN nest : nest[j] = << l, d >>
  <2>1. c \in DOMAIN nest /\ nest[c] = << l, d >>
    BY <1>1, <1>3
  <2> HIDE DEF c
  <2>2. c = k
    BY <1>1, <1>2, <1>4, <2>1
  <2> QED
    BY <2>2 DEF c
<1>6. ValuesAt(m, nest, i, l)[d] = (i \div Period(m, nest, k)) % Extent(m, nest[k])
  BY <1>1, <1>3, <1>5 DEF ValuesAt
<1>7. /\ Period(m, nest, k) = Places(m, a)[k] /\ Extent(m, nest[k]) = Radices(m, a)[k]
      /\ Digits(a, p)[k] = p[l][d]
  <2>1. k \in 0 .. n
    BY <1>1
  <2>2. nest[k][1] = l /\ nest[k][2] = d
    BY <1>4
  <2> QED
    BY <2>1, <2>2 DEF Places, Radices, Digits, n, nest
<1>8. (i \div Places(m, a)[k]) % Radices(m, a)[k] = Digits(a, p)[k]
  <2>1. PICK h : Stands(n, Places(m, a), Digits(a, p), h) /\ h[n] = i
    BY NumberStands DEF OnNest, n, i
  <2>2. Radix(n, Radices(m, a), Places(m, a))
    BY NestRadix DEF n
  <2>3. \A j \in 1 .. n : Digits(a, p)[j] < Radices(m, a)[j]
    BY DEF OnNest, n
  <2> QED
    BY <1>1, <2>1, <2>2, <2>3, DigitAt
<1> QED
  BY <1>6, <1>7, <1>8 DEF nest, i

\* The indices computed from the shared context are those of the schedule.
LEMMA KeyThere ==
  ASSUME NEW m, MappingTyped(m), NEW a, ArchTyped(a), NEW p, OnNest(m, a, p),
         NEW c, c = [d \in DimSet |-> Synced(m, a, p, d)], NEW t
  PROVE  Indices(m, t, c) = AccessAt(m, a, t, Number(m, a, p))
<1> DEFINE i == Number(m, a, p)
           tile == ValuesAt(m, AccessNest(a), i, 1)
           element == ValuesAt(m, AccessNest(a), i, 0)
<1>1. \A d \in DimSet : tile[d] = p[1][d]
  BY ValuesThere
<1>2. a.mode # "regfile" => \A d \in DimSet : element[d] = p[0][d]
  BY ValuesThere
<1>3. tile = [d \in DimSet |-> tile[d]]
  BY DEF ValuesAt
<1>4. AccessAt(m, a, t, i) = Indices(m, t, IF a.mode = "regfile" THEN tile
                                           ELSE [d \in DimSet |-> tile[d] * m.bound[0][d] + element[d]])
  BY DEF AccessAt
<1> HIDE DEF tile, element, i
<1>5. CASE a.mode = "regfile"
  <2>1. c = tile
    BY <1>1, <1>3, <1>5 DEF Synced
  <2> QED
    BY <1>4, <1>5, <2>1 DEF i
<1>6. CASE a.mode # "regfile"
  <2>1. c = [d \in DimSet |-> tile[d] * m.bound[0][d] + element[d]]
    BY <1>1, <1>2, <1>6 DEF Synced
  <2> QED
    BY <1>4, <1>6, <2>1 DEF i
<1> QED
  BY <1>5, <1>6

\* The keys are sequences of numbers.
LEMMA SyncedTyped ==
  ASSUME NEW m, MappingTyped(m), NEW a, ArchTyped(a), NEW p \in [0 .. 1 -> [DimSet -> Nat]],
         NEW d \in DimSet
  PROVE  Synced(m, a, p, d) \in Nat
<1>1. m.bound \in [0 .. Top(m) -> [DimSet -> Nat \ {0}]] /\ Top(m) \in Nat
  BY MappingFields
<1>2. 0 \in 0 .. Top(m)
  BY <1>1
<1>3. p[1][d] \in Nat /\ p[0][d] \in Nat /\ m.bound[0][d] \in Nat
  BY <1>1, <1>2
<1> QED
  BY <1>3 DEF Synced

LEMMA IndicesTyped ==
  ASSUME NEW m, MappingTyped(m), NEW t \in Tensors, NEW c \in [DimSet -> Nat]
  PROVE  Indices(m, t, c) \in Seq(Nat)
<1>1. m.index[t] \in Seq(SUBSET DimSet)
  BY MappingFields
<1>2. \A i \in DOMAIN m.index[t] : SumFunctionOnSet(c, m.index[t][i]) \in Nat
  <2> SUFFICES ASSUME NEW i \in DOMAIN m.index[t] PROVE SumFunctionOnSet(c, m.index[t][i]) \in Nat
    OBVIOUS
  <2> DEFINE S == m.index[t][i]
  <2>1. S \in SUBSET DimSet
    BY <1>1
  <2>2. IsFiniteSet(S)
    BY <2>1, DimSetFinite, FS_Subset
  <2>3. Numbers(c, S)
    BY <2>1 DEF Numbers
  <2> HIDE DEF S
  <2>4. SumFunctionOnSet(c, S) \in Nat
    BY <2>2, <2>3, SumType
  <2> QED
    BY <2>4 DEF S
<1> DEFINE k == Len(m.index[t])
<1>3. k \in Nat /\ DOMAIN m.index[t] = 1 .. k
  BY <1>1
<1> HIDE DEF k
<1>4. Indices(m, t, c) \in [1 .. k -> Nat]
  BY <1>2, <1>3 DEF Indices
<1> QED
  BY <1>3, <1>4

\* The largest of the positions that can go on.
LEMMA GreatestNumber ==
  ASSUME NEW n \in Nat, NEW S \in SUBSET (1 .. n), S # {}
  PROVE  Max(S) \in S /\ \A k \in S : k <= Max(S)
<1> DEFINE T == {n - k : k \in S}
<1>1. T \in SUBSET Nat /\ T # {}
  OBVIOUS
<1>2. PICK x \in T : \A y \in T : x <= y
  <2> HIDE DEF T
  <2> QED
    BY <1>1, LeastNumber
<1>3. PICK g \in S : x = n - g
  BY <1>2
<1>4. \A k \in S : k <= g
  <2> SUFFICES ASSUME NEW k \in S PROVE k <= g
    OBVIOUS
  <2>1. n - k \in T
    OBVIOUS
  <2>2. n - g <= n - k
    BY <1>2, <1>3, <2>1
  <2> QED
    BY <2>2
<1>5. \E h \in S : \A k \in S : h >= k
  BY <1>4
<1>6. Max(S) \in S /\ \A k \in S : Max(S) >= k
  BY <1>5 DEF Max
<1> QED
  BY <1>6

LEMMA Forward ==
  ASSUME NEW m, MappingTyped(m), NEW a, ArchTyped(a), OnNest(m, a, point), NEW k \in 1 .. Size(a),
         Digits(a, point)[k] + 1 < Radices(m, a)[k],
         \A j \in k + 1 .. Size(a) : ~(Digits(a, point)[j] + 1 < Radices(m, a)[j])
  PROVE  LET q == Advanced(m, a, k)
         IN  /\ OnNest(m, a, q) /\ Number(m, a, q) = Number(m, a, point) + 1
             /\ \A d \in DimSet :
                  (\A j \in k .. Size(a) : AccessNest(a)[j][2] # d) => Synced(m, a, q, d) = Synced(m, a, point, d)
<1> DEFINE n == Size(a)
           nest == AccessNest(a)
           q == Advanced(m, a, k)
           E == Radices(m, a)
           P == Places(m, a)
           x == Digits(a, point)
           y == Digits(a, q)
<1>1. /\ n \in Nat /\ DOMAIN nest = 1 .. n
      /\ \A j \in 1 .. n : \E l \in 0 .. 1, d \in DimSet : nest[j] = << l, d >>
      /\ \A i, j \in 1 .. n : nest[i] = nest[j] => i = j
  BY NestShape
<1>2. Radix(n, E, P)
  BY NestRadix
<1>3. point \in [0 .. 1 -> [DimSet -> Nat]] /\ \A j \in 1 .. n : x[j] < E[j]
  BY DEF OnNest
<1>a. x[k] + 1 < E[k] /\ \A j \in k + 1 .. n : ~(x[j] + 1 < E[j])
  OBVIOUS
<1>4. ASSUME NEW j \in 1 .. n, NEW l \in 0 .. 1, NEW d \in DimSet, nest[j] = << l, d >>
      PROVE  /\ (CHOOSE i \in DOMAIN nest : nest[i] = << l, d >>) = j
             /\ q[l][d] = IF j < k THEN point[l][d] ELSE IF j = k THEN point[l][d] + 1 ELSE 0
  <2> DEFINE c == CHOOSE i \in DOMAIN nest : nest[i] = << l, d >>
  <2> HIDE DEF nest, n
  <2>1. c \in DOMAIN nest /\ nest[c] = << l, d >>
    BY <1>1, <1>4
  <2>2. c = j
    <3> HIDE DEF c
    <3> QED
      BY <1>1, <1>4, <2>1
  <2>3. << l, d >> \in Range(nest)
    BY <1>1, <1>4 DEF Range
  <2>4. q[l][d] = IF c < k THEN point[l][d] ELSE IF c = k THEN point[l][d] + 1 ELSE 0
    BY <2>3 DEF Advanced, nest
  <2> QED
    BY <2>2, <2>4
<1>5. ASSUME NEW l \in 0 .. 1, NEW d \in DimSet, << l, d >> \notin Range(nest)
      PROVE  q[l][d] = point[l][d]
  BY <1>5 DEF Advanced
<1>6. q \in [0 .. 1 -> [DimSet -> Nat]]
  <2>1. ASSUME NEW l \in 0 .. 1, NEW d \in DimSet PROVE q[l][d] \in Nat
    <3>0. point[l][d] \in Nat
      BY <1>3
    <3>1. CASE << l, d >> \notin Range(nest)
      BY <1>5, <3>0, <3>1
    <3>2. CASE << l, d >> \in Range(nest)
      <4>1. PICK j \in 1 .. n : nest[j] = << l, d >>
        BY <1>1, <3>2 DEF Range
      <4> HIDE DEF q
      <4> QED
        BY <1>4, <3>0, <4>1
    <3> QED
      BY <3>1, <3>2
  <2>2. q = [l \in 0 .. 1 |-> [d \in DimSet |-> q[l][d]]]
    BY DEF Advanced
  <2> HIDE DEF q
  <2> QED
    BY <2>1, <2>2
<1> HIDE DEF q
<1>7. \A j \in 1 .. n : y[j] = IF j < k THEN x[j] ELSE IF j = k THEN x[j] + 1 ELSE 0
  <2> SUFFICES ASSUME NEW j \in 1 .. n
               PROVE  y[j] = IF j < k THEN x[j] ELSE IF j = k THEN x[j] + 1 ELSE 0
    OBVIOUS
  <2>1. PICK l \in 0 .. 1, d \in DimSet : nest[j] = << l, d >>
    BY <1>1
  <2>2. nest[j][1] = l /\ nest[j][2] = d
    BY <2>1
  <2>3. y[j] = q[l][d] /\ x[j] = point[l][d]
    BY <2>2 DEF Digits
  <2>4. q[l][d] = IF j < k THEN point[l][d] ELSE IF j = k THEN point[l][d] + 1 ELSE 0
    BY <1>4, <2>1
  <2> QED
    BY <2>3, <2>4
<1>8. PICK h : Stands(n, P, x, h) /\ h[n] = Number(m, a, point)
  BY <1>3, NumberStands
<1>9. PICK g : Stands(n, P, y, g) /\ g[n] = Number(m, a, q)
  BY <1>6, NumberStands
<1> HIDE DEF n, E, P, x, y, nest
<1>10. k \in 1 .. n
  BY DEF n
<1>11. \A j \in k + 1 .. n : x[j] = E[j] - 1
  <2> SUFFICES ASSUME NEW j \in k + 1 .. n PROVE x[j] = E[j] - 1
    OBVIOUS
  <2>1. j \in 1 .. n
    BY <1>1, <1>10
  <2>2. x[j] \in Nat /\ E[j] \in Nat
    BY <1>2, <1>8, <2>1 DEF Radix, Stands
  <2>3. x[j] < E[j] /\ ~(x[j] + 1 < E[j])
    BY <1>3, <1>a, <2>1
  <2> QED
    BY <2>2, <2>3
<1>12. g[n] = h[n] + 1
  <2>1. n \in Nat /\ k \in 1 .. n
    BY <1>1, <1>10
  <2>2. Stands(n, P, x, h) /\ Stands(n, P, y, g)
    BY <1>8, <1>9
  <2> QED
    BY <2>1, <2>2, <1>2, <1>7, <1>11, Raised
<1>13. \A j \in 1 .. n : y[j] < E[j]
  <2> SUFFICES ASSUME NEW j \in 1 .. n PROVE y[j] < E[j]
    OBVIOUS
  <2>1. x[j] \in Nat /\ E[j] \in Nat \ {0} /\ x[j] < E[j] /\ x[k] \in Nat
    BY <1>2, <1>3, <1>8, <1>10 DEF Radix, Stands
  <2>2. x[k] + 1 < E[k]
    BY <1>a
  <2>3. j = k => E[j] = E[k] /\ x[j] = x[k]
    OBVIOUS
  <2> QED
    BY <1>7, <1>10, <2>1, <2>2, <2>3
<1>14. OnNest(m, a, q)
  BY <1>6, <1>13 DEF OnNest, n, E, y
<1>15. ASSUME NEW d \in DimSet, \A j \in k .. n : nest[j][2] # d
       PROVE  Synced(m, a, q, d) = Synced(m, a, point, d)
  <2>1. ASSUME NEW l \in 0 .. 1 PROVE q[l][d] = point[l][d]
    <3>1. CASE << l, d >> \notin Range(nest)
      BY <1>5, <3>1
    <3>2. CASE << l, d >> \in Range(nest)
      <4>1. PICK j \in 1 .. n : nest[j] = << l, d >>
        BY <1>1, <3>2 DEF Range
      <4>2. nest[j][2] = d
        BY <4>1
      <4>3. j < k
        BY <1>1, <1>10, <1>15, <4>2
      <4> QED
        BY <1>4, <4>1, <4>3
    <3> QED
      BY <3>1, <3>2
  <2>2. q[0][d] = point[0][d] /\ q[1][d] = point[1][d]
    BY <2>1
  <2> QED
    BY <2>2 DEF Synced
<1> QED
  BY <1>8, <1>9, <1>12, <1>14, <1>15 DEF n, nest, q

LEMMA LastOfAll ==
  ASSUME NEW m, MappingTyped(m), NEW a, ArchTyped(a), NEW p, OnNest(m, a, p)
  PROVE  /\ Number(m, a, p) \in Nat /\ Iterations(m, AccessNest(a)) \in Nat
         /\ Number(m, a, p) < Iterations(m, AccessNest(a))
         /\ (\A j \in 1 .. Size(a) : ~(Digits(a, p)[j] + 1 < Radices(m, a)[j]))
              => Number(m, a, p) + 1 = Iterations(m, AccessNest(a))
<1> DEFINE n == Size(a)
           E == Radices(m, a)
           P == Places(m, a)
           x == Digits(a, p)
<1>1. n \in Nat
  BY NestShape
<1>2. Radix(n, E, P)
  BY NestRadix
<1>3. p \in [0 .. 1 -> [DimSet -> Nat]] /\ \A j \in 1 .. n : x[j] < E[j]
  BY DEF OnNest
<1>4. PICK h : Stands(n, P, x, h) /\ h[n] = Number(m, a, p)
  BY <1>3, NumberStands
<1>5. P[0] = Iterations(m, AccessNest(a))
  <2>1. 0 \in 0 .. n
    BY <1>1
  <2> QED
    BY <2>1 DEF Places, Iterations
<1> HIDE DEF n, E, P, x
<1>6. 0 \in 0 .. n /\ n \in 0 .. n
  BY <1>1
<1>7. h[n] < h[0] + P[0]
  BY <1>1, <1>2, <1>3, <1>4, <1>6, TailBound
<1>8. h[0] = 0 /\ h[n] \in Nat /\ P[0] \in Nat
  BY <1>2, <1>4, <1>6 DEF Stands, Radix
<1>9. ASSUME \A j \in 1 .. n : ~(x[j] + 1 < E[j]) PROVE h[n] + 1 = P[0]
  <2>1. \A j \in 0 + 1 .. n : x[j] = E[j] - 1
    <3> SUFFICES ASSUME NEW j \in 1 .. n PROVE x[j] = E[j] - 1
      OBVIOUS
    <3>1. x[j] \in Nat /\ E[j] \in Nat /\ x[j] < E[j] /\ ~(x[j] + 1 < E[j])
      BY <1>2, <1>3, <1>4, <1>9 DEF Stands, Radix
    <3> QED
      BY <3>1
  <2>2. h[n] + 1 = h[0] + P[0]
    BY <1>1, <1>2, <1>4, <1>6, <2>1, TailFull
  <2> QED
    BY <1>8, <2>2
<1>10. /\ h[n] \in Nat /\ P[0] \in Nat /\ h[n] < P[0]
  BY <1>7, <1>8
<1> QED
  BY <1>4, <1>5, <1>9, <1>10 DEF n, E, x

-----------------------------------------------------------------------------
(* The invariant of the simulated walk.                                    *)

\* The accesses of a tensor, and how many of them are over.
KeysOf(m, a, t) == [j \in Nat |-> AccessAt(m, a, t, j)]
Passed(m, a, w, p) == IF w = "done" THEN Iterations(m, AccessNest(a)) ELSE Number(m, a, p)

LEMMA WalkedIs ==
  /\ Walked = Passed(mapping, arch, walk, point)
  /\ Walked' = Passed(mapping', arch', walk', point')
BY DEF Walked, Passed, Number

\* The context is what the loops last wrote, a cache holds what was used most
\* recently in the accesses so far, and every access was a hit or a miss.
Rooms(m, a) == \A t \in CachedTensors(m) : EntryBytes(m, a, t) <= TensorBytes(m, a, t)

CachesFollow(m, a, n, o, h, s) ==
  \A t \in CachedTensors(m) :
    /\ Recent(Seq(Nat), o[t], KeysOf(m, a, t), n, RoomOf(m, a, t))
    /\ h[t] \in Nat /\ s[t] \in Nat /\ h[t] + s[t] = n

WalkFollows(m, a, w, p, c, o, h, s) ==
  /\ w \in {"idle", "on", "done", "failed"}
  /\ OnNest(m, a, p)
  /\ c = [d \in DimSet |-> Synced(m, a, p, d)]
  /\ w \in {"on", "done"} => Rooms(m, a)
  /\ CachesFollow(m, a, Passed(m, a, w, p), o, h, s)

LEMMA EntryTyped ==
  ASSUME NEW m, MappingTyped(m), NEW a, ArchTyped(a), NEW t \in CachedTensors(m)
  PROVE  /\ EntryBytes(m, a, t) \in Nat \ {0} /\ TensorBytes(m, a, t) \in Nat
         /\ RoomOf(m, a, t) \in Nat
         /\ EntryBytes(m, a, t) * RoomOf(m, a, t) <= TensorBytes(m, a, t)
         /\ EntryBytes(m, a, t) <= TensorBytes(m, a, t) => RoomOf(m, a, t) # 0
<1>1. TensorBytes(m, a, t) \in Nat /\ t \in Tensors
  BY TensorBytesType
<1>2. m.bits[t] \in Nat \ {0} /\ a.vectorBytes \in Nat \ {0}
  BY <1>1, MappingFields, ArchFields
<1>3. CeilDiv(m.bits[t], 8) \in Nat \ {0}
  <2> DEFINE b == m.bits[t]
  <2>1. b \in Nat /\ b > 0 /\ 8 \in Nat \ {0}
    BY <1>2
  <2> HIDE DEF b
  <2>2. CeilDiv(b, 8) \in Nat /\ CeilDiv(b, 8) > 0
    BY <2>1, CeilDivType
  <2> QED
    BY <2>2 DEF b
<1>4. EntryBytes(m, a, t) \in Nat \ {0}
  BY <1>2, <1>3 DEF EntryBytes
<1> DEFINE e == EntryBytes(m, a, t)
           b == TensorBytes(m, a, t)
<1>5. RoomOf(m, a, t) = b \div e
  BY DEF RoomOf
<1>6. e \in Nat \ {0} /\ b \in Nat
  BY <1>1, <1>4
<1> HIDE DEF e, b
<1>7. b \div e \in Nat /\ e * (b \div e) <= b /\ b < e * (b \div e) + e
  BY <1>6, Divides
<1>8. e <= b => b \div e # 0
  <2> SUFFICES ASSUME e <= b, b \div e = 0 PROVE FALSE
    OBVIOUS
  <2>1. e * (b \div e) = 0
    BY <1>6
  <2> QED
    BY <1>6, <1>7, <2>1
<1> QED
  BY <1>5, <1>6, <1>7, <1>8 DEF e, b

\* One access of one tensor.
LEMMA AccessKeeps ==
  ASSUME NEW m, MappingTyped(m), NEW a, ArchTyped(a), NEW p, OnNest(m, a, p),
         NEW c, c = [d \in DimSet |-> Synced(m, a, p, d)],
         Rooms(m, a), NEW t \in CachedTensors(m), NEW s,
         Recent(Seq(Nat), s, KeysOf(m, a, t), Number(m, a, p), RoomOf(m, a, t))
  PROVE  Recent(Seq(Nat), Touched(s, Indices(m, t, c), RoomOf(m, a, t)),
                KeysOf(m, a, t), Number(m, a, p) + 1, RoomOf(m, a, t))
<1> DEFINE n == Number(m, a, p)
           K == Seq(Nat)
           key == KeysOf(m, a, t)
           room == RoomOf(m, a, t)
<1>1. n \in Nat
  BY LastOfAll
<1>2. key[n] = Indices(m, t, c)
  BY <1>1, KeyThere DEF KeysOf
<1>3. key[n] \in K
  <2>1. p \in [0 .. 1 -> [DimSet -> Nat]]
    BY DEF OnNest
  <2>2. c \in [DimSet -> Nat]
    BY <2>1, SyncedTyped
  <2>3. t \in Tensors
    BY TensorBytesType
  <2>4. Indices(m, t, c) \in Seq(Nat)
    BY <2>2, <2>3, IndicesTyped
  <2> QED
    BY <1>2, <2>4
<1>4. room \in Nat \ {0}
  BY EntryTyped DEF Rooms
<1>5. Recent(K, s, key, n, room)
  OBVIOUS
<1> HIDE DEF n, K, key, room
<1>6. Recent(K, Touched(s, key[n], room), key, n + 1, room)
  BY <1>1, <1>3, <1>4, <1>5, RecentStep
<1> QED
  BY <1>2, <1>6 DEF n, K, key, room

\* One pass through the loop body.
LEMMA WalkStepKeeps ==
  ASSUME NEW m, MappingTyped(m), NEW a, ArchTyped(a),
         WalkFollows(m, a, walk, point, context, order, hits, misses), WalkStep(m, a)
  PROVE  /\ WalkFollows(m, a, walk', point', context', order', hits', misses')
         /\ Passed(m, a, walk, point) \in Nat
         /\ Passed(m, a, walk, point) < Iterations(m, AccessNest(a))
         /\ Passed(m, a, walk', point') = Passed(m, a, walk, point) + 1
<1> DEFINE n == Size(a)
           nest == AccessNest(a)
           x == Digits(a, point)
           E == Radices(m, a)
           open == {k \in DOMAIN nest : point[nest[k][1]][nest[k][2]] + 1 < Extent(m, nest[k])}
           run == {nest[k][2] : k \in Max(open) .. Len(nest)}
<1>1. walk = "on" /\ Advance(m, a)
  BY DEF WalkStep
<1>2. /\ OnNest(m, a, point) /\ context = [d \in DimSet |-> Synced(m, a, point, d)]
      /\ Rooms(m, a) /\ CachesFollow(m, a, Number(m, a, point), order, hits, misses)
  BY <1>1 DEF WalkFollows, Passed
<1>3. Passed(m, a, walk, point) = Number(m, a, point)
  BY <1>1 DEF Passed
<1>4. Number(m, a, point) \in Nat /\ Number(m, a, point) < Iterations(m, AccessNest(a))
  BY <1>2, LastOfAll
<1>5. n \in Nat /\ DOMAIN nest = 1 .. n /\ Len(nest) = n
  BY NestShape
<1>6. open = {k \in 1 .. n : x[k] + 1 < E[k]}
  BY <1>5 DEF Digits, Radices
<1> HIDE DEF open
<1>7. /\ walk' \in {"on", "done"}
      /\ OnNest(m, a, point')
      /\ context' = [d \in DimSet |-> Synced(m, a, point', d)]
      /\ Passed(m, a, walk', point') = Number(m, a, point) + 1
  <2>1. CASE open = {}
    <3>1. walk' = "done" /\ point' = point /\ context' = context
      BY <1>1, <2>1 DEF Advance, open
    <3>2. \A j \in 1 .. n : ~(x[j] + 1 < E[j])
      BY <1>6, <2>1
    <3>3. Number(m, a, point) + 1 = Iterations(m, AccessNest(a))
      BY <1>2, <3>2, LastOfAll
    <3> QED
      BY <1>2, <3>1, <3>3 DEF Passed
  <2>2. CASE open # {}
    <3> DEFINE k == Max(open)
    <3>1. /\ point' = Advanced(m, a, k)
          /\ context' = [d \in DimSet |-> IF d \in run THEN Synced(m, a, point', d) ELSE context[d]]
          /\ walk' = walk
      BY <1>1, <2>2 DEF Advance, open
    <3>2. open \in SUBSET (1 .. n)
      BY <1>6
    <3>3. k \in open /\ \A j \in open : j <= k
      BY <1>5, <2>2, <3>2, GreatestNumber
    <3> HIDE DEF k
    <3>4. k \in 1 .. n /\ x[k] + 1 < E[k]
      BY <1>6, <3>3
    <3>5. \A j \in k + 1 .. n : ~(x[j] + 1 < E[j])
      <4> SUFFICES ASSUME NEW j \in k + 1 .. n, x[j] + 1 < E[j] PROVE FALSE
        OBVIOUS
      <4>1. j \in 1 .. n /\ ~(j <= k)
        BY <1>5, <3>4
      <4> QED
        BY <1>6, <3>3, <4>1
    <3> DEFINE q == Advanced(m, a, k)
    <3>6. /\ OnNest(m, a, q) /\ Number(m, a, q) = Number(m, a, point) + 1
          /\ \A d \in DimSet :
               (\A j \in k .. n : nest[j][2] # d) => Synced(m, a, q, d) = Synced(m, a, point, d)
      BY <1>2, <3>4, <3>5, Forward
    <3> HIDE DEF q
    <3>7. point' = q
      BY <3>1 DEF q
    <3>8. \A d \in DimSet : d \notin run => Synced(m, a, q, d) = context[d]
      <4> SUFFICES ASSUME NEW d \in DimSet, d \notin run PROVE Synced(m, a, q, d) = context[d]
        OBVIOUS
      <4>1. run = {nest[j][2] : j \in k .. n}
        BY <1>5 DEF k
      <4> HIDE DEF run
      <4>2. \A j \in k .. n : nest[j][2] # d
        BY <4>1
      <4>3. context[d] = Synced(m, a, point, d)
        BY <1>2
      <4> QED
        BY <3>6, <4>2, <4>3
    <3>9. context' = [d \in DimSet |-> Synced(m, a, q, d)]
      <4> HIDE DEF run
      <4> QED
        BY <3>1, <3>7, <3>8
    <3>10. Passed(m, a, walk', point') = Number(m, a, q)
      BY <1>1, <3>1, <3>7 DEF Passed
    <3> QED
      BY <1>1, <3>1, <3>6, <3>7, <3>9, <3>10
  <2> QED
    BY <2>1, <2>2
<1>8. CachesFollow(m, a, Number(m, a, point) + 1, order', hits', misses')
  <2> SUFFICES ASSUME NEW t \in CachedTensors(m)
               PROVE  /\ Recent(Seq(Nat), order'[t], KeysOf(m, a, t), Number(m, a, point) + 1, RoomOf(m, a, t))
                      /\ hits'[t] \in Nat /\ misses'[t] \in Nat
                      /\ hits'[t] + misses'[t] = Number(m, a, point) + 1
    BY DEF CachesFollow
  <2>1. /\ Recent(Seq(Nat), order[t], KeysOf(m, a, t), Number(m, a, point), RoomOf(m, a, t))
        /\ hits[t] \in Nat /\ misses[t] \in Nat /\ hits[t] + misses[t] = Number(m, a, point)
    BY <1>2 DEF CachesFollow
  <2>2. t \in Tensors
    BY TensorBytesType
  <2> DEFINE key == Indices(m, t, context)
             found == Contains(order[t], key)
  <2>3. order'[t] = Touched(order[t], key, RoomOf(m, a, t))
    BY <2>2 DEF WalkStep
  <2>4. /\ hits'[t] = hits[t] + IF found THEN 1 ELSE 0
        /\ misses'[t] = misses[t] + IF ~found THEN 1 ELSE 0
    BY <2>2 DEF WalkStep
  <2>5. Recent(Seq(Nat), order'[t], KeysOf(m, a, t), Number(m, a, point) + 1, RoomOf(m, a, t))
    BY <1>2, <2>1, <2>3, AccessKeeps
  <2> HIDE DEF found
  <2>6. hits'[t] \in Nat /\ misses'[t] \in Nat /\ hits'[t] + misses'[t] = Number(m, a, point) + 1
    <3>1. CASE found
      BY <1>4, <2>1, <2>4, <3>1
    <3>2. CASE ~found
      BY <1>4, <2>1, <2>4, <3>2
    <3> QED
      BY <3>1, <3>2
  <2> QED
    BY <2>5, <2>6
<1>9. WalkFollows(m, a, walk', point', context', order', hits', misses')
  BY <1>2, <1>7, <1>8 DEF WalkFollows
<1> QED
  BY <1>3, <1>4, <1>7, <1>9

LEMMA WalkInit ==
  ASSUME NEW m, MappingTyped(m), NEW a, ArchTyped(a), CacheInit
  PROVE  /\ WalkFollows(m, a, walk, point, context, order, hits, misses)
         /\ Passed(m, a, walk, point) = 0
<1>1. /\ walk = "idle" /\ point = [l \in 0 .. 1 |-> Zeros] /\ context = Zeros
      /\ \A t \in Tensors : order[t] = << >> /\ hits[t] = 0 /\ misses[t] = 0
  BY DEF CacheInit
<1>2. \A l \in 0 .. 1 : \A d \in DimSet : point[l][d] = 0
  BY <1>1 DEF Zeros
<1>3. point \in [0 .. 1 -> [DimSet -> Nat]]
  BY <1>1 DEF Zeros
<1>4. Radix(Size(a), Radices(m, a), Places(m, a)) /\ Size(a) \in Nat
  BY NestRadix, NestShape
<1>5. \A k \in 1 .. Size(a) : Digits(a, point)[k] = 0
  <2> SUFFICES ASSUME NEW k \in 1 .. Size(a) PROVE Digits(a, point)[k] = 0
    OBVIOUS
  <2>1. PICK l \in 0 .. 1, d \in DimSet : AccessNest(a)[k] = << l, d >>
    BY NestShape
  <2>2. AccessNest(a)[k][1] = l /\ AccessNest(a)[k][2] = d
    BY <2>1
  <2> QED
    BY <1>2, <2>2 DEF Digits
<1>6. OnNest(m, a, point)
  <2>1. \A k \in 1 .. Size(a) : 0 < Radices(m, a)[k]
    BY <1>4 DEF Radix
  <2> QED
    BY <1>3, <1>5, <2>1 DEF OnNest
<1>7. context = [d \in DimSet |-> Synced(m, a, point, d)]
  <2>1. \A d \in DimSet : Synced(m, a, point, d) = 0
    <3> SUFFICES ASSUME NEW d \in DimSet PROVE Synced(m, a, point, d) = 0
      OBVIOUS
    <3>1. point[1][d] = 0 /\ point[0][d] = 0
      BY <1>2
    <3>2. m.bound[0][d] \in Nat
      <4>1. m.bound \in [0 .. Top(m) -> [DimSet -> Nat \ {0}]] /\ Top(m) \in Nat
        BY MappingFields
      <4>2. 0 \in 0 .. Top(m)
        BY <4>1
      <4> QED
        BY <4>1, <4>2
    <3> QED
      BY <3>1, <3>2 DEF Synced
  <2> QED
    BY <1>1, <2>1 DEF Zeros
<1>8. Passed(m, a, walk, point) = 0
  <2> DEFINE n == Size(a)
             P == Places(m, a)
             x == Digits(a, point)
  <2>1. PICK h : Stands(n, P, x, h) /\ h[n] = Number(m, a, point)
    BY <1>3, NumberStands
  <2>2. Radix(n, Radices(m, a), P) /\ n \in Nat /\ \A k \in 1 .. n : x[k] = 0
    BY <1>4, <1>5
  <2> HIDE DEF n, P, x
  <2> DEFINE A == {k \in 0 .. n : h[k] = 0}
  <2>3. 0 \in A
    BY <2>1, <2>2 DEF Stands
  <2>4. \A k \in A : k < n => k + 1 \in A
    <3> SUFFICES ASSUME NEW k \in 0 .. n, h[k] = 0, k < n
                 PROVE  k + 1 \in 0 .. n /\ h[k + 1] = 0
      OBVIOUS
    <3>1. k + 1 \in 1 .. n /\ (k + 1) - 1 = k /\ k + 1 \in 0 .. n
      BY <2>2
    <3>2. P[k + 1] \in Nat
      BY <2>2, <3>1 DEF Radix
    <3>3. h[k + 1] = 0 + 0 * P[k + 1]
      BY <2>1, <2>2, <3>1 DEF Stands
    <3> QED
      BY <3>1, <3>2, <3>3
  <2> HIDE DEF A
  <2>5. A = 0 .. n
    BY <2>2, <2>3, <2>4, Climb DEF A
  <2>6. n \in 0 .. n
    BY <2>2
  <2>7. h[n] = 0
    BY <2>5, <2>6 DEF A
  <2> QED
    BY <1>1, <2>1, <2>7 DEF Passed
<1>9. CachesFollow(m, a, 0, order, hits, misses)
  <2> SUFFICES ASSUME NEW t \in CachedTensors(m)
               PROVE  /\ Recent(Seq(Nat), order[t], KeysOf(m, a, t), 0, RoomOf(m, a, t))
                      /\ hits[t] \in Nat /\ misses[t] \in Nat /\ hits[t] + misses[t] = 0
    BY DEF CachesFollow
  <2>1. t \in Tensors /\ RoomOf(m, a, t) \in Nat
    BY TensorBytesType, EntryTyped
  <2>2. Recent(Seq(Nat), << >>, KeysOf(m, a, t), 0, RoomOf(m, a, t))
    BY <2>1, RecentInit
  <2>3. order[t] = << >>
    BY <1>1, <2>1
  <2>4. hits[t] = 0 /\ misses[t] = 0
    BY <1>1, <2>1
  <2> QED
    BY <2>2, <2>3, <2>4
<1> QED
  BY <1>1, <1>6, <1>7, <1>8, <1>9 DEF WalkFollows

-----------------------------------------------------------------------------
(* The walk of a run, what its caches hold and which accesses hit.         *)

\* What a loaded mapping, architecture and division of the cache are, and it stays so.
InputTyped == MappingTyped(mapping) /\ ArchTyped(arch) /\ clamp \in BOOLEAN /\ target \in Targets

\* The walk stands where its point says, with what the loops wrote before it, and
\* the caches hold what it used last.
WalkInv ==
  /\ InputTyped
  /\ WalkFollows(mapping, arch, walk, point, context, order, hits, misses)

LEMMA InputInit ==
  ASSUME Init
  PROVE  InputTyped
BY JobsAssumption DEF Init, InputTyped, MappingTyped, ArchTyped

LEMMA InputStays ==
  ASSUME [Next]_vars
  PROVE  UNCHANGED input
BY DEF Next, vars, input, VerifyConstraints, SimulateCache, SimulateAccess, Latency, Energy,
       AskAgain, Analyse, AnalyseAccess, AnalyseNextTensor

LEMMA InputKept ==
  ASSUME InputTyped, UNCHANGED input
  PROVE  InputTyped'
BY DEF InputTyped, input

\* Only these two actions touch the walk.
LEMMA WalkActions ==
  ASSUME [Next]_vars
  PROVE  \/ pc = "latency" /\ StartWalk(mapping, arch)
         \/ pc = "latency" /\ WalkStep(mapping, arch)
         \/ UNCHANGED cacheVars
BY DEF Next, vars, VerifyConstraints, SimulateCache, SimulateAccess, Latency, Energy,
       AskAgain, Analyse, AnalyseAccess, AnalyseNextTensor

LEMMA WalkInvInit ==
  ASSUME Init
  PROVE  WalkInv /\ Walked = 0
<1>1. InputTyped
  BY InputInit
<1>2. CacheInit
  BY DEF Init
<1> QED
  BY <1>1, <1>2, WalkInit, WalkedIs DEF WalkInv, InputTyped

LEMMA WalkInvStep ==
  ASSUME WalkInv, [Next]_vars
  PROVE  WalkInv'
<1>1. UNCHANGED input
  BY InputStays
<1>2. InputTyped'
  BY <1>1, InputKept DEF WalkInv
<1>3. mapping' = mapping /\ arch' = arch
  BY <1>1 DEF input
<1>4. WalkFollows(mapping, arch, walk', point', context', order', hits', misses')
  <2>1. CASE StartWalk(mapping, arch)
    <3>1. /\ walk = "idle" /\ walk' \in {"on", "failed"}
          /\ walk' = "on" => Rooms(mapping, arch)
          /\ point' = point /\ context' = context /\ order' = order /\ hits' = hits /\ misses' = misses
      BY <2>1 DEF StartWalk, Rooms
    <3>2. Passed(mapping, arch, walk', point') = Passed(mapping, arch, walk, point)
      BY <3>1 DEF Passed
    <3> QED
      BY <3>1, <3>2 DEF WalkInv, WalkFollows
  <2>2. CASE WalkStep(mapping, arch)
    BY <2>2, WalkStepKeeps DEF WalkInv, InputTyped
  <2>3. CASE UNCHANGED cacheVars
    BY <2>3 DEF WalkInv, cacheVars
  <2> QED
    BY <2>1, <2>2, <2>3, WalkActions
<1> QED
  BY <1>2, <1>3, <1>4 DEF WalkInv

\* At every moment of simulate_cache: the context is what the loops of each access
\* wrote last, each cache holds the values its group used most recently, in that
\* order and no more than it has room for, and hits and misses are the numbers of
\* accesses that found their value there and that did not.
THEOREM WalkCorrect == Spec => []WalkInv
<1>1. Init => WalkInv
  BY WalkInvInit
<1>2. WalkInv /\ [Next]_vars => WalkInv'
  BY WalkInvStep
<1> QED
  BY <1>1, <1>2, PTL DEF Spec

\* What the caches hold fits: each holds what it has room for, the room is
\* within its bytes, and the bytes add up to no more than the cache.
LEMMA ResidentInv ==
  ASSUME WalkInv
  PROVE  ResidentFits
<1> SUFFICES ASSUME walk \in {"on", "done"}
             PROVE  SumFunctionOnSet([t \in Tensors |-> Len(order[t]) * EntryBytes(mapping, arch, t)],
                                     CachedTensors(mapping)) <= arch.cacheBytes
  BY DEF ResidentFits
<1> DEFINE S == CachedTensors(mapping)
           f == [t \in Tensors |-> Len(order[t]) * EntryBytes(mapping, arch, t)]
           g == [t \in S |-> TensorBytes(mapping, arch, t)]
<1>1. MappingTyped(mapping) /\ ArchTyped(arch)
  BY DEF WalkInv, InputTyped
<1>2. IsFiniteSet(S) /\ S \in SUBSET Tensors
  BY <1>1, CachedFinite
<1>3. ASSUME NEW t \in S
      PROVE  f[t] \in Nat /\ g[t] \in Nat /\ f[t] <= g[t]
  <2>1. Recent(Seq(Nat), order[t], KeysOf(mapping, arch, t), Passed(mapping, arch, walk, point),
               RoomOf(mapping, arch, t))
    BY DEF WalkInv, WalkFollows, CachesFollow
  <2>2. Len(order[t]) \in Nat /\ Len(order[t]) <= RoomOf(mapping, arch, t)
    BY <2>1 DEF Recent
  <2>3. /\ EntryBytes(mapping, arch, t) \in Nat /\ TensorBytes(mapping, arch, t) \in Nat
        /\ RoomOf(mapping, arch, t) \in Nat
        /\ EntryBytes(mapping, arch, t) * RoomOf(mapping, arch, t) <= TensorBytes(mapping, arch, t)
    BY <1>1, EntryTyped
  <2>4. t \in Tensors
    BY <1>2
  <2> DEFINE e == EntryBytes(mapping, arch, t)
             b == TensorBytes(mapping, arch, t)
             r == RoomOf(mapping, arch, t)
             l == Len(order[t])
  <2>5. f[t] = l * e /\ g[t] = b
    BY <2>4
  <2> HIDE DEF f, g
  <2>6. e \in Nat /\ b \in Nat /\ r \in Nat /\ l \in Nat /\ l <= r /\ e * r <= b
    BY <2>2, <2>3
  <2> HIDE DEF e, b, r, l
  <2>7. l * e \in Nat /\ r * e = e * r /\ r * e \in Nat
    BY <2>6
  <2>8. l * e <= r * e
    <3>1. e <= e
      BY <2>6
    <3> QED
      BY <2>6, <3>1, TimesOrder
  <2>9. l * e <= b
    BY <2>6, <2>7, <2>8
  <2> QED
    BY <2>5, <2>6, <2>7, <2>9
<1> HIDE DEF f
<1>4. SumFunctionOnSet(g, S) <= arch.cacheBytes
  BY <1>1, CapacityFits
<1>5. Numbers(f, S) /\ Numbers(g, S) /\ \A t \in S : f[t] <= g[t]
  BY <1>3 DEF Numbers
<1>6. arch.cacheBytes \in Nat
  BY <1>1, ArchFields
<1> HIDE DEF g, S
<1>7. SumFunctionOnSet(f, S) <= SumFunctionOnSet(g, S)
  BY <1>2, <1>5, SumOrder
<1>8. SumFunctionOnSet(f, S) \in Nat /\ SumFunctionOnSet(g, S) \in Nat
  BY <1>2, <1>5, SumType
<1>9. SumFunctionOnSet(f, S) <= arch.cacheBytes
  BY <1>4, <1>6, <1>7, <1>8
<1> QED
  BY <1>9 DEF f, S

\* Whatever the mapping, its groups and their shares, the caches of a simulation
\* never hold more entries than fit and never more bytes than the architecture's
\* cache has.
THEOREM ResidentCorrect == Spec => []ResidentFits
<1>1. WalkInv => ResidentFits
  BY ResidentInv
<1> QED
  BY <1>1, WalkCorrect, PTL

-----------------------------------------------------------------------------
(* The walk implements the reuse of the schedule.                          *)

\* The operators of ReuseCache are those of the model.
LEMMA SameProduct ==
  ASSUME NEW f, NEW S
  PROVE  Reuse!Product(f, S) = Product(f, S)
BY DEF Product, Reuse!Product, FoldFunctionOnSet, Reuse!FoldFunctionOnSet, MapThenFoldSet, Reuse!MapThenFoldSet

LEMMA SameSum ==
  ASSUME NEW f, NEW S
  PROVE  Reuse!SumFunctionOnSet(f, S) = SumFunctionOnSet(f, S)
BY DEF SumFunctionOnSet, Reuse!SumFunctionOnSet, FoldFunctionOnSet, Reuse!FoldFunctionOnSet,
       MapThenFoldSet, Reuse!MapThenFoldSet

LEMMA SameCardinality ==
  ASSUME NEW S
  PROVE  Reuse!Cardinality(S) = Cardinality(S)
BY DEF Cardinality, Reuse!Cardinality

LEMMA SameNest ==
  ASSUME NEW a
  PROVE  Reuse!AccessNest(a) = AccessNest(a)
BY DEF AccessNest, Reuse!AccessNest, LevelNest, Reuse!LevelNest, Dims, Reuse!Dims

LEMMA SameDims ==
  /\ Reuse!DimSet = DimSet /\ Reuse!Tensors = Tensors
BY DEF DimSet, Reuse!DimSet, Dims, Reuse!Dims, Tensors, Reuse!Tensors, ToSet, Reuse!ToSet

LEMMA SamePeriod ==
  ASSUME NEW m, NEW nest, NEW k
  PROVE  Reuse!Period(m, nest, k) = Period(m, nest, k)
<1>1. \A loop : Reuse!Extent(m, loop) = Extent(m, loop)
  BY DEF Extent, Reuse!Extent
<1>2. [i \in DOMAIN nest |-> Reuse!Extent(m, nest[i])] = [i \in DOMAIN nest |-> Extent(m, nest[i])]
  BY <1>1
<1> QED
  BY <1>2, SameProduct DEF Period, Reuse!Period

LEMMA SameIterations ==
  ASSUME NEW m, NEW nest
  PROVE  Reuse!Iterations(m, nest) = Iterations(m, nest)
BY SamePeriod DEF Iterations, Reuse!Iterations

LEMMA SameIndices ==
  ASSUME NEW m, NEW t, NEW value
  PROVE  Reuse!Indices(m, t, value) = Indices(m, t, value)
BY SameSum DEF Indices, Reuse!Indices

LEMMA SameValues ==
  ASSUME NEW m, NEW nest, NEW i, NEW l
  PROVE  Reuse!ValuesAt(m, nest, i, l) = ValuesAt(m, nest, i, l)
<1>1. \A loop : Reuse!Extent(m, loop) = Extent(m, loop)
  BY DEF Extent, Reuse!Extent
<1>2. \A k : Reuse!Period(m, nest, k) = Period(m, nest, k)
  BY SamePeriod
<1> QED
  BY <1>1, <1>2, SameDims DEF ValuesAt, Reuse!ValuesAt

LEMMA SameAccess ==
  ASSUME NEW m, NEW a, NEW t, NEW i
  PROVE  Reuse!AccessAt(m, a, t, i) = AccessAt(m, a, t, i)
<1> DEFINE tile == ValuesAt(m, AccessNest(a), i, 1)
           element == ValuesAt(m, AccessNest(a), i, 0)
           value == IF a.mode = "regfile" THEN tile
                    ELSE [d \in DimSet |-> tile[d] * m.bound[0][d] + element[d]]
<1>1. AccessAt(m, a, t, i) = Indices(m, t, value)
  BY DEF AccessAt
<1>2. Reuse!AccessAt(m, a, t, i) = Reuse!Indices(m, t, value)
  BY SameValues, SameNest, SameDims DEF Reuse!AccessAt
<1> QED
  BY <1>1, <1>2, SameIndices

LEMMA SameGroups ==
  ASSUME NEW m, NEW a
  PROVE  /\ Reuse!CachedTensors(m) = CachedTensors(m)
         /\ \A t : Reuse!GroupOf(m, t) = GroupOf(m, t)
         /\ \A i : Reuse!GroupUnits(m, a, i) = GroupUnits(m, a, i)
<1>1. \A s : Reuse!ToSet(s) = ToSet(s)
  BY DEF ToSet, Reuse!ToSet
<1>2. Reuse!CachedTensors(m) = CachedTensors(m)
  BY <1>1 DEF CachedTensors, Reuse!CachedTensors
<1>3. \A t : Reuse!GroupOf(m, t) = GroupOf(m, t)
  BY <1>1 DEF GroupOf, Reuse!GroupOf
<1>4. Reuse!TotalWeight(m) = TotalWeight(m)
  BY SameSum DEF TotalWeight, Reuse!TotalWeight, Weights, Reuse!Weights
<1>5. Reuse!BaseBytes(m, a) = BaseBytes(m, a)
  BY <1>4 DEF BaseBytes, Reuse!BaseBytes
<1>6. \A i : Reuse!GroupBytes(m, a, i) = GroupBytes(m, a, i)
  BY <1>5, SameSum DEF GroupBytes, Reuse!GroupBytes
<1>7. \A i : Reuse!GroupUnits(m, a, i) = GroupUnits(m, a, i)
  BY <1>6 DEF GroupUnits, Reuse!GroupUnits
<1> QED
  BY <1>2, <1>3, <1>7

LEMMA SameRoom ==
  ASSUME NEW t
  PROVE  Reuse!Room(t) = RoomOf(mapping, arch, t)
<1>1. \A U, n, k : Reuse!EvenShare(U, n, k) = EvenShare(U, n, k)
  BY DEF EvenShare, Reuse!EvenShare
<1>2. Reuse!TensorBytes(mapping, arch, t) = TensorBytes(mapping, arch, t)
  <2> DEFINE i == GroupOf(mapping, t)
             u == GroupUnits(mapping, arch, i)
             tensors == mapping.groups[i].tensors
             k == CHOOSE j \in DOMAIN tensors : tensors[j] = t
  <2>1. Reuse!GroupOf(mapping, t) = i /\ Reuse!GroupUnits(mapping, arch, i) = u
    BY SameGroups
  <2>2. Reuse!EvenShare(u, Len(tensors), k) = EvenShare(u, Len(tensors), k)
    BY <1>1
  <2>3. TensorBytes(mapping, arch, t) =
          IF arch.mode = "regfile" THEN EvenShare(u, Len(tensors), k) * arch.vectorBytes
          ELSE EvenShare(u, Len(tensors), k)
    BY DEF TensorBytes
  <2> HIDE DEF i, u
  <2>4. Reuse!TensorBytes(mapping, arch, t) =
          IF arch.mode = "regfile" THEN Reuse!EvenShare(u, Len(tensors), k) * arch.vectorBytes
          ELSE Reuse!EvenShare(u, Len(tensors), k)
    BY <2>1 DEF Reuse!TensorBytes
  <2> QED
    BY <2>2, <2>3, <2>4
<1>3. Reuse!EntryBytes(mapping, arch, t) = EntryBytes(mapping, arch, t)
  BY DEF EntryBytes, Reuse!EntryBytes, CeilDiv, Reuse!CeilDiv
<1> QED
  BY <1>2, <1>3 DEF RoomOf, Reuse!Room

\* Whether an access hits is what the schedule says.
LEMMA HitIsReuse ==
  ASSUME WalkInv, walk = "on", NEW t \in CachedTensors(mapping)
  PROVE  Contains(order[t], Indices(mapping, t, context)) <=> Reuse!Reuses(t, Walked)
<1> DEFINE n == Number(mapping, arch, point)
           key == KeysOf(mapping, arch, t)
           room == RoomOf(mapping, arch, t)
           other == [j \in 0 .. n |-> Reuse!AccessAt(mapping, arch, t, j)]
<1>1. MappingTyped(mapping) /\ ArchTyped(arch)
  BY DEF WalkInv, InputTyped
<1>2. OnNest(mapping, arch, point) /\ context = [d \in DimSet |-> Synced(mapping, arch, point, d)]
  BY DEF WalkInv, WalkFollows
<1>3. Walked = n /\ n \in Nat
  BY <1>1, <1>2, WalkedIs, LastOfAll DEF Passed
<1>4. Recent(Seq(Nat), order[t], key, n, room) /\ room \in Nat
  BY <1>1, EntryTyped DEF WalkInv, WalkFollows, CachesFollow, Passed
<1>5. key[n] = Indices(mapping, t, context)
  BY <1>1, <1>2, <1>3, KeyThere DEF KeysOf
<1>6. \A j \in 0 .. n : other[j] = key[j]
  BY SameAccess DEF KeysOf
<1>7. Reuse!Reuses(t, n) <=> Reused(other, n, room)
  <2> HIDE DEF n, room
  <2>1. Reuse!Room(t) = room
    BY SameRoom DEF room
  <2>2. Reuse!Reuses(t, n) <=> Reused(other, n, Reuse!Room(t))
    <3>1. \A j : Reuse!Cardinality(Since(other, j, n)) = Cardinality(Since(other, j, n))
      BY SameCardinality
    <3>2. Reuse!Reuses(t, n) <=> \E j \in 0 .. n - 1 :
                                   /\ other[j] = other[n]
                                   /\ Reuse!Cardinality(Since(other, j, n)) < Reuse!Room(t)
      BY DEF Reuse!Reuses, Since
    <3> HIDE DEF other
    <3> QED
      BY <3>1, <3>2 DEF Reused
  <2> QED
    BY <2>1, <2>2
<1> HIDE DEF n, key, room, other
<1>8. \A j \in 0 .. n - 1 : Since(other, j, n) = Since(key, j, n)
  <2> SUFFICES ASSUME NEW j \in 0 .. n - 1 PROVE Since(other, j, n) = Since(key, j, n)
    OBVIOUS
  <2>1. \A k \in j + 1 .. n - 1 : other[k] = key[k]
    BY <1>3, <1>6
  <2> QED
    BY <2>1 DEF Since
<1>9. \A j \in 0 .. n - 1 : other[j] = key[j] /\ other[n] = key[n]
  BY <1>3, <1>6
<1>10. Reused(other, n, room) <=> Reused(key, n, room)
  BY <1>8, <1>9 DEF Reused
<1>11. Contains(order[t], key[n]) <=> Reused(key, n, room)
  BY <1>3, <1>4, HitIffReused
<1> QED
  BY <1>3, <1>5, <1>7, <1>10, <1>11

LEMMA WalkStepReuses ==
  ASSUME WalkInv, UNCHANGED input, WalkStep(mapping, arch)
  PROVE  Reuse!Access
<1> DEFINE S == CachedTensors(mapping)
           reused == {t \in S : Reuse!Reuses(t, Walked)}
<1>1. MappingTyped(mapping) /\ ArchTyped(arch) /\ walk = "on"
  BY DEF WalkInv, InputTyped, WalkStep
<1>2. WalkFollows(mapping, arch, walk, point, context, order, hits, misses)
  BY DEF WalkInv
<1>3. /\ Passed(mapping, arch, walk, point) < Iterations(mapping, AccessNest(arch))
      /\ Passed(mapping, arch, walk', point') = Passed(mapping, arch, walk, point) + 1
  BY <1>1, <1>2, WalkStepKeeps
<1>4. mapping' = mapping /\ arch' = arch
  BY DEF input
<1>5. Walked < Iterations(mapping, AccessNest(arch)) /\ Walked' = Walked + 1
  BY <1>3, <1>4, WalkedIs
<1>6. \A t \in S : Contains(order[t], Indices(mapping, t, context)) <=> t \in reused
  BY <1>1, HitIsReuse
<1>7. hits' = [t \in Tensors |-> hits[t] + IF t \in reused THEN 1 ELSE 0]
  BY <1>6 DEF WalkStep
<1>8. misses' = [t \in Tensors |-> misses[t] + IF t \in S \ reused THEN 1 ELSE 0]
  BY <1>6 DEF WalkStep
<1>9. Reuse!CachedTensors(mapping) = S
  BY SameGroups
<1>10. Reuse!Iterations(mapping, Reuse!AccessNest(arch)) = Iterations(mapping, AccessNest(arch))
  BY SameIterations, SameNest
<1> HIDE DEF S
<1> QED
  BY <1>4, <1>5, <1>7, <1>8, <1>9, <1>10, SameDims DEF Reuse!Access

LEMMA StepReuses ==
  ASSUME WalkInv, [Next]_vars
  PROVE  [Reuse!Access]_(Reuse!vars)
<1>1. UNCHANGED input /\ mapping' = mapping /\ arch' = arch
  BY InputStays DEF input
<1>2. CASE StartWalk(mapping, arch)
  <2>1. walk = "idle" /\ walk' \in {"on", "failed"} /\ point' = point /\ hits' = hits /\ misses' = misses
    BY <1>2 DEF StartWalk
  <2>2. Walked' = Walked
    BY <1>1, <2>1, WalkedIs DEF Passed
  <2> QED
    BY <1>1, <2>1, <2>2 DEF Reuse!vars
<1>3. CASE WalkStep(mapping, arch)
  BY <1>1, <1>3, WalkStepReuses
<1>4. CASE UNCHANGED cacheVars
  <2>1. walk' = walk /\ point' = point /\ hits' = hits /\ misses' = misses
    BY <1>4 DEF cacheVars
  <2>2. Walked' = Walked
    BY <1>1, <2>1, WalkedIs
  <2> QED
    BY <1>1, <2>1, <2>2 DEF Reuse!vars
<1> QED
  BY <1>2, <1>3, <1>4, WalkActions

LEMMA InitReuses ==
  ASSUME Init
  PROVE  Reuse!Init
BY WalkInvInit, SameDims DEF Init, CacheInit, Reuse!Init

\* Every run of evaluate_mapping is a run of ReuseCache: an access hits exactly when
\* fewer other values of its cache's tensors were used since its own than the cache
\* has room for, a fact of the schedule that mentions no cache.
THEOREM ReuseRefined == Spec => ImplementsReuse
<1>1. Init => Reuse!Init
  BY InitReuses
<1>2. WalkInv /\ [Next]_vars => [Reuse!Access]_(Reuse!vars)
  BY StepReuses
<1> QED
  BY <1>1, <1>2, WalkCorrect, PTL DEF Spec, ImplementsReuse, Reuse!Spec

-----------------------------------------------------------------------------
(* The tiles of a loaded mapping are numbers.                              *)

\* The greatest common divisor of positive numbers is one.
LEMMA GcdTyped ==
  ASSUME NEW x \in Nat \ {0}, NEW y \in Nat \ {0}
  PROVE  Gcd(x, y) \in Nat \ {0}
<1> DEFINE S == {d \in 1 .. x : x % d = 0 /\ y % d = 0}
<1>1. x % 1 = 0 /\ y % 1 = 0
  OBVIOUS
<1>2. 1 \in S /\ S \in SUBSET (1 .. x)
  BY <1>1
<1> HIDE DEF S
<1>3. Max(S) \in S
  BY <1>2, GreatestNumber
<1>4. Max(S) \in 1 .. x
  BY <1>2, <1>3
<1> QED
  BY <1>4 DEF Gcd, S

LEMMA CoefficientTyped ==
  ASSUME NEW m, MappingTyped(m), NEW l \in 0 .. Top(m), NEW d \in DimSet
  PROVE  Coefficient(m, l, d) \in Nat \ {0}
<1> DEFINE f == [j \in 0 .. l - 1 |-> m.bound[j][d]]
<1>1. Top(m) \in Nat /\ m.bound \in [0 .. Top(m) -> [DimSet -> Nat \ {0}]]
  BY MappingFields
<1>2. \A j \in 0 .. l - 1 : j \in 0 .. Top(m)
  BY <1>1
<1>3. Factors(f, 0 .. l - 1)
  BY <1>1, <1>2 DEF Factors
<1>4. IsFiniteSet(0 .. l - 1)
  BY <1>1, FS_Interval
<1> HIDE DEF f
<1>5. Product(f, 0 .. l - 1) \in Nat \ {0}
  BY <1>3, <1>4, ProductPositive
<1> QED
  BY <1>5 DEF Coefficient, f

LEMMA SpreadTyped ==
  ASSUME NEW m, MappingTyped(m), NEW l \in 0 .. Top(m), NEW d \in DimSet, NEW e \in DimSet
  PROVE  Spread(m, l, d, e) \in Nat \ {0}
<1> DEFINE x == Coefficient(m, l, d)
           y == Coefficient(m, l, e)
           u == m.bound[l][d] - 1
           v == m.bound[l][e] - 1
           g == Gcd(x, y)
<1>1. m.bound \in [0 .. Top(m) -> [DimSet -> Nat \ {0}]]
  BY MappingFields
<1>2. u \in Nat /\ v \in Nat
  <2>1. m.bound[l] \in [DimSet -> Nat \ {0}]
    BY <1>1
  <2>2. m.bound[l][d] \in Nat \ {0} /\ m.bound[l][e] \in Nat \ {0}
    BY <2>1
  <2> QED
    BY <2>2
<1>3. x \in Nat \ {0} /\ y \in Nat \ {0}
  BY CoefficientTyped
<1>4. g \in Nat \ {0}
  BY <1>3, GcdTyped
<1> HIDE DEF x, y, u, v, g
<1>5. x * u \in Nat /\ y * v \in Nat
  BY <1>2, <1>3
<1>6. x * u + y * v \in Nat
  BY <1>5
<1>7. (x * u + y * v) \div g \in Nat
  BY <1>4, <1>6, Divides
<1>8. Spread(m, l, d, e) = (x * u + y * v) \div g + 1
  BY DEF Spread, x, y, u, v, g
<1> QED
  BY <1>7, <1>8

LEMMA InputLevelTyped ==
  ASSUME NEW m, MappingTyped(m), NEW l \in 0 .. Top(m)
  PROVE  InputLevel(m, l) \in Nat \ {0}
<1> DEFINE n == m.bound[l]["N"]
           k == m.bound[l]["K"]
           c == m.bound[l]["C"]
           s == Spread(m, l, "P", "R")
           t == Spread(m, l, "Q", "S")
<1>1. m.bound \in [0 .. Top(m) -> [DimSet -> Nat \ {0}]]
  BY MappingFields
<1>2. n \in Nat \ {0} /\ k \in Nat \ {0} /\ c \in Nat \ {0}
  BY <1>1, DimSetFinite
<1>3. s \in Nat \ {0} /\ t \in Nat \ {0}
  BY SpreadTyped, DimSetFinite
<1>4. InputLevel(m, l) = n * k * c * s * t
  BY DEF InputLevel
<1> HIDE DEF n, k, c, s, t
<1>5. n * k \in Nat \ {0}
  BY <1>2, TimesPositive
<1>6. n * k * c \in Nat \ {0}
  BY <1>2, <1>5, TimesPositive
<1>7. n * k * c * s \in Nat \ {0}
  BY <1>3, <1>6, TimesPositive
<1>8. n * k * c * s * t \in Nat \ {0}
  BY <1>3, <1>7, TimesPositive
<1> QED
  BY <1>4, <1>8

LEMMA InputEstimateTyped ==
  ASSUME NEW m, MappingTyped(m), NEW x \in Nat, NEW y \in 0 .. Top(m)
  PROVE  InputEstimate(m, x, y) \in Nat \ {0}
<1> DEFINE f == [l \in x .. y |-> InputLevel(m, l)]
           p == Product(f, x .. y)
           q == ProductLevels(m, x, y)
<1>0. Top(m) \in Nat
  BY MappingFields
<1>1. \A l \in x .. y : l \in 0 .. Top(m)
  BY <1>0
<1>2. Factors(f, x .. y)
  BY <1>1, InputLevelTyped DEF Factors
<1>3. IsFiniteSet(x .. y)
  BY <1>0, FS_Interval
<1>4. p \in Nat \ {0}
  <2> HIDE DEF f
  <2> QED
    BY <1>2, <1>3, ProductPositive
<1>5. q \in Nat \ {0}
  BY ProductLevelsTyped
<1>6. InputEstimate(m, x, y) = Min({p, q})
  BY DEF InputEstimate
<1> HIDE DEF p, q
<1>7. \E z \in {p, q} : \A w \in {p, q} : z <= w
  <2>1. CASE p <= q
    BY <1>4, <2>1
  <2>2. CASE q <= p
    BY <1>5, <2>2
  <2> QED
    BY <1>4, <1>5, <2>1, <2>2
<1>8. Min({p, q}) \in {p, q}
  BY <1>7 DEF Min
<1> QED
  BY <1>4, <1>5, <1>6, <1>8

LEMMA TensorLevelsTyped ==
  ASSUME NEW m, MappingTyped(m), NEW x \in Nat, NEW y \in 0 .. Top(m), NEW t \in Tensors
  PROVE  TensorLevels(m, t, x, y) \in Nat \ {0}
<1> DEFINE f == [l \in x .. y |-> TensorLevel(m, t, l)]
<1>0. Top(m) \in Nat
  BY MappingFields
<1>1. \A l \in x .. y : l \in 0 .. Top(m)
  BY <1>0
<1>2. Factors(f, x .. y)
  BY <1>1, TensorLevelTyped DEF Factors
<1>3. IsFiniteSet(x .. y)
  BY <1>0, FS_Interval
<1> HIDE DEF f
<1>4. Product(f, x .. y) \in Nat \ {0}
  BY <1>2, <1>3, ProductPositive
<1> QED
  BY <1>4 DEF TensorLevels, f

\* A tile has elements, and a PU has tiles of every tensor.
LEMMA TilesTyped ==
  ASSUME NEW m, MappingTyped(m), NEW t \in Tensors
  PROVE  /\ TileSize(m, t) \in Nat \ {0}
         /\ TilesPuSharing(m, t) \in Nat \ {0}
         /\ TilesPu(m, t) \in Nat \ {0}
         /\ m.system > 0 => TilesSystemSharing(m, t) \in Nat \ {0}
<1>1. Top(m) \in Nat \ {0, 1} /\ m.system \in 0 .. Top(m)
  BY MappingFields
<1>2. 0 \in 0 .. Top(m) /\ 1 \in 0 .. Top(m)
  BY <1>1
<1>3. /\ InputEstimate(m, 0, 0) \in Nat \ {0} /\ InputEstimate(m, 1, 1) \in Nat \ {0}
      /\ InputEstimate(m, 1, m.system) \in Nat \ {0}
  BY <1>1, <1>2, InputEstimateTyped
<1>4. /\ TensorLevel(m, t, 0) \in Nat \ {0} /\ TensorLevel(m, t, 1) \in Nat \ {0}
      /\ ProductLevel(m, 0) \in Nat \ {0} /\ ProductLevel(m, 1) \in Nat \ {0}
  BY <1>2, TensorLevelTyped, LevelTyped
<1>5. TileSize(m, t) \in Nat \ {0} /\ TilesPuSharing(m, t) \in Nat \ {0}
  BY <1>3, <1>4 DEF TileSize, TilesPuSharing
<1>6. TilesSystemSharing(m, t) \in Nat \ {0}
  <2> DEFINE n == IF t = "In" THEN InputEstimate(m, 1, m.system) ELSE TensorLevels(m, t, 1, m.system)
             d == ProductLevels(m, 2, m.system)
  <2>1. n \in Nat \ {0}
    BY <1>1, <1>3, TensorLevelsTyped
  <2>2. d \in Nat \ {0}
    BY <1>1, ProductLevelsTyped
  <2> HIDE DEF n, d
  <2>3. CeilDiv(n, d) \in Nat \ {0}
    BY <2>1, <2>2, CeilDivType
  <2> QED
    BY <2>3 DEF TilesSystemSharing, n, d
<1> QED
  BY <1>4, <1>5, <1>6 DEF TilesPu

-----------------------------------------------------------------------------
(* Rows.                                                                   *)

LEMMA MaxTilesTyped ==
  ASSUME NEW m, MappingTyped(m), NEW a, ArchTyped(a), NEW t \in Tensors
  PROVE  MaxTilesPerRow(m, a, t) \in Nat
<1>1. PayloadBits(m, t) \in Nat \ {0}
  BY ElementTyped DEF PayloadBits
<1>2. TileSize(m, t) * PayloadBits(m, t) \in Nat \ {0}
  BY <1>1, TilesTyped, TimesPositive
<1>3. a.rowBits \in Nat
  BY ArchFields
<1> QED
  BY <1>2, <1>3, Divides DEF MaxTilesPerRow

LEMMA HypertileTyped ==
  ASSUME NEW m, MappingTyped(m), NEW t \in Tensors
  PROVE  Hypertile(m, t) \in Nat \ {0}
<1> DEFINE cutoffs == {i \in DOMAIN Dims : Dims[i] \notin Related(m, t) /\ m.bound[1][Dims[i]] > 1}
           first == IF cutoffs = {} THEN 0 ELSE Min(cutoffs)
           D == {Dims[i] : i \in first + 1 .. Len(Dims)} \cap Related(m, t)
<1>1. Top(m) \in Nat \ {0, 1}
  BY MappingFields
<1>2. 1 \in 0 .. Top(m)
  BY <1>1
<1>3. Hypertile(m, t) = Product(m.bound[1], D)
  BY DEF Hypertile
<1> HIDE DEF first
<1>4. D \in SUBSET DimSet
  BY RelatedDims
<1> HIDE DEF D
<1> QED
  BY <1>2, <1>3, <1>4, LevelTyped

\* A row has room for a tile if a tile is no longer than a row; clamping leaves
\* room for whole hypertiles, if one fits.
LEMMA TilesPerRowTyped ==
  ASSUME NEW m, MappingTyped(m), NEW a, ArchTyped(a), NEW t \in Tensors, NEW clamping,
         MaxTilesPerRow(m, a, t) # 0
  PROVE  TilesPerRow(m, a, t, clamping) \in Nat \ {0}
<1> DEFINE fit == MaxTilesPerRow(m, a, t)
           tile == Hypertile(m, t)
           whole == (fit \div tile) * tile
<1>1. fit \in Nat \ {0}
  BY MaxTilesTyped
<1>2. tile \in Nat \ {0}
  BY HypertileTyped
<1>3. TilesPerRow(m, a, t, clamping) = IF clamping /\ whole > 0 THEN whole ELSE fit
  BY DEF TilesPerRow
<1> HIDE DEF fit, tile
<1>4. fit \div tile \in Nat
  BY <1>1, <1>2, Divides
<1>5. whole \in Nat
  BY <1>2, <1>4
<1> HIDE DEF whole
<1> QED
  BY <1>1, <1>3, <1>5

LEMMA RowChangesTyped ==
  ASSUME NEW m, MappingTyped(m), NEW a, ArchTyped(a), NEW t \in Tensors, NEW clamping,
         MaxTilesPerRow(m, a, t) # 0
  PROVE  RowChangesBank(m, a, t, clamping) \in Nat
<1>1. RowChangesPu(m, a, t, clamping) \in Nat
  BY TilesPerRowTyped, TilesTyped, CeilDivType DEF RowChangesPu, RowsFor
<1>2. CeilDiv(RowChangesPu(m, a, t, clamping), a.banks) \in Nat
  BY <1>1, ArchFields, CeilDivType
<1> QED
  BY <1>1, <1>2 DEF RowChangesBank

-----------------------------------------------------------------------------
(* The trace of a row walk: runs of accesses.                              *)

\* The sum over a set grows by one where an element counts one more, and where
\* one is added that counts one.
LEMMA OneCountsMore ==
  ASSUME NEW S, IsFiniteSet(S), NEW f, Numbers(f, S), NEW x \in S,
         NEW g, \A y \in S : y # x => g[y] = f[y], g[x] = f[x] + 1
  PROVE  SumFunctionOnSet(g, S) = SumFunctionOnSet(f, S) + 1
<1> DEFINE R == S \ {x}
<1>1. IsFiniteSet(R)
  BY FS_Subset
<1>2. Numbers(f, R) /\ \A y \in R : f[y] = g[y]
  BY DEF Numbers
<1>3. f[x] \in Nat
  BY DEF Numbers
<1>4. Numbers(g, S)
  BY <1>3 DEF Numbers
<1>5. SumFunctionOnSet(f, S) = f[x] + SumFunctionOnSet(f, R) /\ SumFunctionOnSet(f, R) \in Nat
  BY SumTake
<1>6. SumFunctionOnSet(g, S) = g[x] + SumFunctionOnSet(g, R)
  BY <1>4, SumTake
<1> HIDE DEF R
<1>7. SumFunctionOnSet(f, R) = SumFunctionOnSet(g, R)
  BY <1>1, <1>2, SumSame
<1> QED
  BY <1>3, <1>5, <1>6, <1>7

LEMMA OneIsAdded ==
  ASSUME NEW S, IsFiniteSet(S), NEW f, Numbers(f, S), NEW x, x \notin S,
         NEW g, \A y \in S : g[y] = f[y], g[x] = 1
  PROVE  SumFunctionOnSet(g, S \cup {x}) = SumFunctionOnSet(f, S) + 1
<1> DEFINE T == S \cup {x}
<1>1. IsFiniteSet(T) /\ S \in SUBSET T /\ x \in T \ S
  BY FS_AddElement
<1>2. Numbers(g, T)
  BY DEF Numbers
<1>3. SumFunctionOnSet(g, T) = g[x] + SumFunctionOnSet(g, S)
  <2> HIDE DEF T
  <2>1. SumFunctionOnSet(g, S \cup {x}) = g[x] + SumFunctionOnSet(g, S)
    BY <1>1, <1>2, SumMore
  <2> QED
    BY <2>1 DEF T
<1>4. SumFunctionOnSet(f, S) = SumFunctionOnSet(g, S)
  BY SumSame
<1>5. SumFunctionOnSet(f, S) \in Nat
  BY SumType
<1> QED
  BY <1>3, <1>4, <1>5

\* The runs of n accesses: each is as long as it says, and none goes on where
\* the one before it ends.
RunsShape(runs, n) ==
  /\ runs \in Seq(Run)
  /\ \A i \in 1 .. Len(runs) :
       runs[i].last <= n /\ runs[i].count = runs[i].last - runs[i].first + 1
  /\ \A i \in 2 .. Len(runs) :
       runs[i].first > runs[i - 1].last + 1 \/ runs[i].at # runs[i - 1].at

LEMMA RunsFinite ==
  ASSUME NEW runs \in Seq(Run), NEW x
  PROVE  /\ IsFiniteSet(RunsOf(runs, x)) /\ RunsOf(runs, x) \in SUBSET (1 .. Len(runs))
         /\ Numbers(Counts(runs), RunsOf(runs, x))
         /\ Covered(runs, x) \in Nat /\ Cardinality(RunsOf(runs, x)) \in Nat
<1>1. Len(runs) \in Nat /\ DOMAIN runs = 1 .. Len(runs) /\ \A i \in 1 .. Len(runs) : runs[i] \in Run
  OBVIOUS
<1>2. RunsOf(runs, x) \in SUBSET (1 .. Len(runs)) /\ IsFiniteSet(1 .. Len(runs))
  BY <1>1, FS_Interval DEF RunsOf
<1>3. IsFiniteSet(RunsOf(runs, x))
  BY <1>2, FS_Subset
<1>4. Numbers(Counts(runs), RunsOf(runs, x))
  BY <1>1, <1>2 DEF Numbers, Counts, Run
<1>5. Covered(runs, x) \in Nat
  BY <1>3, <1>4, SumType DEF Covered
<1> QED
  BY <1>2, <1>3, <1>4, <1>5, FS_CardinalityType

\* What an access does to the runs of a stream that is not cut by it.
Continued(runs, after, at, n) ==
  /\ after # << >> /\ Last(after).at = at /\ Last(after).last = n
  /\ \A x : Covered(after, x) = Covered(runs, x) + (IF x = at THEN 1 ELSE 0)
  /\ \A x : Cardinality(RunsOf(after, x)) =
              Cardinality(RunsOf(runs, x)) + (IF x = at /\ ~Extends(runs, at, n) THEN 1 ELSE 0)

Longer(run, n) == [run EXCEPT !.last = n, !.count = @ + 1]
Prolonged(runs, n) == [runs EXCEPT ![Len(runs)] = Longer(@, n)]

LEMMA RunLonger ==
  ASSUME NEW r \in Run, NEW n \in Nat
  PROVE  /\ Longer(r, n + 1).at = r.at /\ Longer(r, n + 1).last = n + 1
         /\ Longer(r, n + 1).first = r.first /\ Longer(r, n + 1).count = r.count + 1
         /\ Longer(r, n + 1) \in Run
<1>1. /\ DOMAIN r = {"at", "first", "last", "count"}
      /\ r.at \in Nat /\ r.first \in Nat /\ r.last \in Nat /\ r.count \in Nat
  BY DEF Run
<1>2. Longer(r, n + 1) = [at |-> r.at, first |-> r.first, last |-> n + 1, count |-> r.count + 1]
  <2>1. r = [at |-> r.at, first |-> r.first, last |-> r.last, count |-> r.count]
    BY DEF Run
  <2>2. Longer(r, n + 1) = [[r EXCEPT !.last = n + 1] EXCEPT !.count = r.count + 1]
    BY <2>1 DEF Longer, Run
  <2> QED
    BY <2>1, <2>2
<1> QED
  BY <1>1, <1>2 DEF Run

LEMMA RunGoesOn ==
  ASSUME NEW n \in Nat, NEW runs, RunsShape(runs, n), NEW at \in Nat, Extends(runs, at, n + 1),
         NEW after, after = Prolonged(runs, n + 1)
  PROVE  /\ RunsShape(after, n + 1)
         /\ DOMAIN after = DOMAIN runs /\ \A i \in DOMAIN after : after[i].at = runs[i].at
         /\ Continued(runs, after, at, n + 1)
<1> DEFINE len == Len(runs)
<1>1. runs \in Seq(Run) /\ runs # << >> /\ Last(runs).at = at /\ Last(runs).last = n
  <2>1. runs \in Seq(Run) /\ runs # << >> /\ Last(runs).at = at /\ Last(runs).last + 1 = n + 1
    BY DEF RunsShape, Extends
  <2>2. len \in Nat \ {0} /\ runs[len] \in Run
    BY <2>1
  <2> QED
    BY <2>1, <2>2 DEF Last, Run
<1>2. /\ len \in Nat \ {0} /\ DOMAIN runs = 1 .. len
      /\ \A i \in 1 .. len : runs[i] \in Run
  BY <1>1
<1>3. runs[len].at = at /\ runs[len].last = n /\ runs[len].count = n - runs[len].first + 1
  BY <1>1, <1>2 DEF Last, RunsShape
<1> DEFINE longer == Longer(runs[len], n + 1)
<1>14. after = [runs EXCEPT ![len] = longer]
  BY DEF Prolonged
<1>4. /\ DOMAIN after = 1 .. len
      /\ \A i \in 1 .. len : i # len => after[i] = runs[i]
      /\ after[len] = longer
  <2> HIDE DEF len, longer
  <2> QED
    BY <1>2, <1>14
<1>5. /\ after[len].at = at /\ after[len].last = n + 1 /\ after[len].first = runs[len].first
      /\ after[len].count = runs[len].count + 1 /\ after[len] \in Run
  <2>1. runs[len] \in Run
    BY <1>2
  <2>2. /\ longer.at = runs[len].at /\ longer.last = n + 1 /\ longer.first = runs[len].first
        /\ longer.count = runs[len].count + 1 /\ longer \in Run
    <3> HIDE DEF len
    <3> QED
      BY <2>1, RunLonger DEF longer
  <2> HIDE DEF len, longer
  <2> QED
    BY <1>3, <1>4, <2>2
<1>6. \A i \in 1 .. len : after[i] \in Run
  BY <1>2, <1>4, <1>5
<1>7. after \in Seq(Run) /\ Len(after) = len
  <2>1. after \in [1 .. len -> Run]
    <3> HIDE DEF len, longer
    <3> QED
      BY <1>4, <1>6, <1>14
  <2> QED
    BY <1>2, <2>1
<1> HIDE DEF len, longer
<1>8. RunsShape(after, n + 1)
  <2>1. ASSUME NEW i \in 1 .. len
        PROVE  after[i].last <= n + 1 /\ after[i].count = after[i].last - after[i].first + 1
    <3>1. CASE i = len
      <4>1. runs[len].first \in Nat /\ runs[len].count \in Nat
        BY <1>2 DEF Run
      <4> QED
        BY <1>3, <1>5, <3>1, <4>1
    <3>2. CASE i # len
      <4>1. runs[i].last <= n /\ runs[i].count = runs[i].last - runs[i].first + 1 /\ runs[i].last \in Nat
        BY <1>2 DEF RunsShape, Run, len
      <4>2. after[i] = runs[i]
        BY <1>4, <3>2
      <4> QED
        BY <4>1, <4>2
    <3> QED
      BY <3>1, <3>2
  <2>2. ASSUME NEW i \in 2 .. len
        PROVE  after[i].first > after[i - 1].last + 1 \/ after[i].at # after[i - 1].at
    <3>1. i - 1 \in 1 .. len /\ i - 1 # len /\ i \in 1 .. len
      BY <1>2
    <3>2. after[i - 1] = runs[i - 1]
      BY <1>4, <3>1
    <3>3. after[i].first = runs[i].first /\ after[i].at = runs[i].at
      BY <1>3, <1>4, <1>5, <3>1
    <3>4. runs[i].first > runs[i - 1].last + 1 \/ runs[i].at # runs[i - 1].at
      BY DEF RunsShape, len
    <3> QED
      BY <3>2, <3>3, <3>4
  <2> QED
    BY <1>7, <2>1, <2>2 DEF RunsShape
<1>9. \A i \in 1 .. len : after[i].at = runs[i].at
  BY <1>3, <1>4, <1>5
<1>10. \A x : RunsOf(after, x) = RunsOf(runs, x)
  BY <1>2, <1>4, <1>9 DEF RunsOf
<1>11. ASSUME NEW x
       PROVE  Covered(after, x) = Covered(runs, x) + (IF x = at THEN 1 ELSE 0)
  <2> DEFINE S == RunsOf(runs, x)
             f == Counts(runs)
             g == Counts(after)
  <2>1. IsFiniteSet(S) /\ Numbers(f, S) /\ S \in SUBSET (1 .. len)
    BY <1>1, RunsFinite DEF len
  <2>2. \A y \in S \ {len} : g[y] = f[y]
    BY <1>2, <1>4, <2>1 DEF Counts
  <2>3. g[len] = f[len] + 1
    BY <1>2, <1>4, <1>5 DEF Counts
  <2>4. Covered(after, x) = SumFunctionOnSet(g, S) /\ Covered(runs, x) = SumFunctionOnSet(f, S)
    BY <1>10 DEF Covered
  <2>5. len \in S <=> x = at
    BY <1>2, <1>3 DEF RunsOf
  <2> HIDE DEF S, f, g
  <2>6. CASE x = at
    <3>1. len \in S /\ \A y \in S : y # len => g[y] = f[y]
      BY <2>2, <2>5, <2>6
    <3>2. SumFunctionOnSet(g, S) = SumFunctionOnSet(f, S) + 1
      BY <2>1, <2>3, <3>1, OneCountsMore
    <3> QED
      BY <2>4, <2>6, <3>2
  <2>7. CASE x # at
    <3>1. \A y \in S : f[y] = g[y]
      BY <2>2, <2>5, <2>7
    <3>2. SumFunctionOnSet(f, S) = SumFunctionOnSet(g, S)
      BY <2>1, <3>1, SumSame
    <3>3. SumFunctionOnSet(f, S) \in Nat
      BY <2>1, SumType
    <3> QED
      BY <2>4, <2>7, <3>2, <3>3
  <2> QED
    BY <2>6, <2>7
<1>12. ASSUME NEW x
       PROVE  Cardinality(RunsOf(after, x)) =
                Cardinality(RunsOf(runs, x)) + (IF x = at /\ ~Extends(runs, at, n + 1) THEN 1 ELSE 0)
  <2>1. Cardinality(RunsOf(runs, x)) \in Nat
    BY <1>1, RunsFinite
  <2>2. Cardinality(RunsOf(after, x)) = Cardinality(RunsOf(runs, x))
    BY <1>10
  <2> QED
    BY <2>1, <2>2
<1>13. after # << >> /\ Last(after).at = at /\ Last(after).last = n + 1
  BY <1>2, <1>5, <1>7 DEF Last
<1> QED
  BY <1>2, <1>4, <1>8, <1>9, <1>11, <1>12, <1>13 DEF Continued

LEMMA RunStarts ==
  ASSUME NEW n \in Nat, NEW runs, RunsShape(runs, n), NEW at \in Nat, ~Extends(runs, at, n + 1),
         NEW after,
         after = Append(runs, [at |-> at, first |-> n + 1, last |-> n + 1, count |-> 1])
  PROVE  /\ RunsShape(after, n + 1)
         /\ \A i \in DOMAIN after : (i \in DOMAIN runs /\ after[i].at = runs[i].at) \/ after[i].at = at
         /\ Continued(runs, after, at, n + 1)
<1> DEFINE len == Len(runs)
           new == [at |-> at, first |-> n + 1, last |-> n + 1, count |-> 1]
<1>1. runs \in Seq(Run) /\ new \in Run
  BY DEF RunsShape, Run
<1>2. len \in Nat /\ DOMAIN runs = 1 .. len /\ \A i \in 1 .. len : runs[i] \in Run
  BY <1>1
<1>3. new.at = at /\ new.first = n + 1 /\ new.last = n + 1 /\ new.count = 1
  OBVIOUS
<1>4. /\ after \in Seq(Run) /\ Len(after) = len + 1 /\ DOMAIN after = 1 .. len + 1
      /\ after[len + 1] = new /\ \A i \in 1 .. len : after[i] = runs[i]
  <2> HIDE DEF new
  <2> QED
    BY <1>1 DEF new
<1> HIDE DEF len, new
<1>5. RunsShape(after, n + 1)
  <2>1. ASSUME NEW i \in 1 .. len + 1
        PROVE  after[i].last <= n + 1 /\ after[i].count = after[i].last - after[i].first + 1
    <3>1. CASE i = len + 1
      BY <1>3, <1>4, <3>1
    <3>2. CASE i # len + 1
      <4>1. i \in 1 .. len
        BY <1>2, <3>2
      <4>2. runs[i].last <= n /\ runs[i].count = runs[i].last - runs[i].first + 1 /\ runs[i].last \in Nat
        BY <1>2, <4>1 DEF RunsShape, Run, len
      <4> QED
        BY <1>4, <4>1, <4>2
    <3> QED
      BY <3>1, <3>2
  <2>2. ASSUME NEW i \in 2 .. len + 1
        PROVE  after[i].first > after[i - 1].last + 1 \/ after[i].at # after[i - 1].at
    <3>1. i - 1 \in 1 .. len
      BY <1>2
    <3>2. after[i - 1] = runs[i - 1]
      BY <1>4, <3>1
    <3>3. CASE i = len + 1
      <4>1. i - 1 = len /\ len # 0
        BY <1>2, <3>1, <3>3
      <4>2. runs # << >> /\ Last(runs) = runs[len]
        BY <1>2, <4>1 DEF Last, len
      <4>3. runs[len].last \in Nat /\ runs[len].last <= n
        BY <1>2, <3>1, <4>1 DEF RunsShape, Run, len
      <4>4. runs[len].at # at \/ runs[len].last + 1 # n + 1
        BY <4>2 DEF Extends
      <4> QED
        BY <1>3, <1>4, <3>2, <3>3, <4>1, <4>3, <4>4
    <3>4. CASE i # len + 1
      <4>1. i \in 2 .. len
        BY <1>2, <3>4
      <4>2. runs[i].first > runs[i - 1].last + 1 \/ runs[i].at # runs[i - 1].at
        BY <4>1 DEF RunsShape, len
      <4>3. after[i] = runs[i]
        BY <1>2, <1>4, <4>1
      <4> QED
        BY <3>2, <4>2, <4>3
    <3> QED
      BY <3>3, <3>4
  <2> QED
    BY <1>4, <2>1, <2>2 DEF RunsShape
<1>6. ASSUME NEW i \in DOMAIN after
      PROVE  (i \in DOMAIN runs /\ after[i].at = runs[i].at) \/ after[i].at = at
  BY <1>2, <1>3, <1>4
<1>7. ASSUME NEW x
      PROVE  /\ len + 1 \notin RunsOf(runs, x)
             /\ RunsOf(after, x) = IF x = at THEN RunsOf(runs, x) \cup {len + 1} ELSE RunsOf(runs, x)
  <2>1. RunsOf(runs, x) = {i \in 1 .. len : runs[i].at = x}
    BY <1>2 DEF RunsOf
  <2>2. RunsOf(after, x) = {i \in 1 .. len + 1 : after[i].at = x}
    BY <1>4 DEF RunsOf
  <2>3. \A i \in 1 .. len + 1 : i \in 1 .. len \/ i = len + 1
    BY <1>2
  <2>4. len + 1 \notin 1 .. len /\ len + 1 \in 1 .. len + 1 /\ \A i \in 1 .. len : i \in 1 .. len + 1
    BY <1>2
  <2>5. after[len + 1].at = at /\ \A i \in 1 .. len : after[i].at = runs[i].at
    BY <1>3, <1>4
  <2>6. CASE x = at
    <3>1. \A i : i \in RunsOf(after, x) <=> i \in RunsOf(runs, x) \cup {len + 1}
      BY <2>1, <2>2, <2>3, <2>4, <2>5, <2>6
    <3> QED
      BY <2>1, <2>4, <2>6, <3>1
  <2>7. CASE x # at
    <3>1. \A i : i \in RunsOf(after, x) <=> i \in RunsOf(runs, x)
      BY <2>1, <2>2, <2>3, <2>4, <2>5, <2>7
    <3> QED
      BY <2>1, <2>4, <2>7, <3>1
  <2> QED
    BY <2>6, <2>7
<1>8. ASSUME NEW x
      PROVE  Covered(after, x) = Covered(runs, x) + (IF x = at THEN 1 ELSE 0)
  <2> DEFINE S == RunsOf(runs, x)
             f == Counts(runs)
             g == Counts(after)
  <2>1. IsFiniteSet(S) /\ Numbers(f, S) /\ S \in SUBSET (1 .. len)
    BY <1>1, RunsFinite DEF len
  <2>2. \A y \in S : g[y] = f[y]
    BY <1>2, <1>4, <2>1 DEF Counts
  <2>3. g[len + 1] = 1
    BY <1>2, <1>3, <1>4 DEF Counts
  <2>4. Covered(after, x) = SumFunctionOnSet(g, RunsOf(after, x)) /\ Covered(runs, x) = SumFunctionOnSet(f, S)
    BY DEF Covered
  <2> HIDE DEF S, f, g
  <2>5. CASE x = at
    <3>1. len + 1 \notin S /\ RunsOf(after, x) = S \cup {len + 1}
      BY <1>7, <2>5 DEF S
    <3>2. SumFunctionOnSet(g, S \cup {len + 1}) = SumFunctionOnSet(f, S) + 1
      BY <2>1, <2>2, <2>3, <3>1, OneIsAdded
    <3> QED
      BY <2>4, <2>5, <3>1, <3>2
  <2>6. CASE x # at
    <3>1. RunsOf(after, x) = S
      BY <1>7, <2>6 DEF S
    <3>2. SumFunctionOnSet(f, S) = SumFunctionOnSet(g, S)
      BY <2>1, <2>2, SumSame
    <3>3. SumFunctionOnSet(f, S) \in Nat
      BY <2>1, SumType
    <3> QED
      BY <2>4, <2>6, <3>1, <3>2, <3>3
  <2> QED
    BY <2>5, <2>6
<1>9. ASSUME NEW x
      PROVE  Cardinality(RunsOf(after, x)) =
               Cardinality(RunsOf(runs, x)) + (IF x = at /\ ~Extends(runs, at, n + 1) THEN 1 ELSE 0)
  <2>1. IsFiniteSet(RunsOf(runs, x)) /\ Cardinality(RunsOf(runs, x)) \in Nat
    BY <1>1, RunsFinite
  <2>2. CASE x = at
    <3>1. RunsOf(after, x) = RunsOf(runs, x) \cup {len + 1} /\ len + 1 \notin RunsOf(runs, x)
      BY <1>7, <2>2
    <3>2. Cardinality(RunsOf(runs, x) \cup {len + 1}) = Cardinality(RunsOf(runs, x)) + 1
      BY <2>1, <3>1, FS_AddElement
    <3> QED
      BY <2>2, <3>1, <3>2
  <2>3. CASE x # at
    <3>1. RunsOf(after, x) = RunsOf(runs, x)
      BY <1>7, <2>3
    <3> QED
      BY <2>1, <2>3, <3>1
  <2> QED
    BY <2>2, <2>3
<1>10. after # << >> /\ Last(after).at = at /\ Last(after).last = n + 1
  BY <1>2, <1>3, <1>4 DEF Last
<1> QED
  BY <1>5, <1>6, <1>8, <1>9, <1>10 DEF Continued

\* What a run is of stays, and a new one is of what is accessed.
PlacesKept(runs, after, at) ==
  \A i \in DOMAIN after : (i \in DOMAIN runs /\ after[i].at = runs[i].at) \/ after[i].at = at

\* An access is in the run that it continues or starts, unless the stream ends.
LEMMA RunsGrow ==
  ASSUME NEW n \in Nat, NEW runs, RunsShape(runs, n), NEW at \in Nat, NEW cut \in BOOLEAN,
         NEW after, after = RunsAfter(runs, cut, at, n + 1)
  PROVE  /\ RunsShape(after, n + 1)
         /\ PlacesKept(runs, after, at)
         /\ ~CutAfter(runs, cut, at, n + 1) => ~cut /\ Continued(runs, after, at, n + 1)
<1>1. CASE after = runs /\ CutAfter(runs, cut, at, n + 1)
  <2>0. \A i \in 1 .. Len(runs) : runs[i].last \in Nat /\ runs[i].last <= n
    <3>1. runs \in Seq(Run) /\ \A i \in 1 .. Len(runs) : runs[i].last <= n
      BY DEF RunsShape
    <3>2. \A i \in 1 .. Len(runs) : runs[i] \in Run
      BY <3>1
    <3> QED
      BY <3>1, <3>2 DEF Run
  <2>1. RunsShape(runs, n + 1)
    BY <2>0 DEF RunsShape
  <2> QED
    BY <1>1, <2>1 DEF PlacesKept
<1>2. CASE ~cut /\ Extends(runs, at, n + 1)
  <2>1. after = Prolonged(runs, n + 1)
    BY <1>2 DEF RunsAfter, Prolonged, Longer
  <2>2. /\ RunsShape(after, n + 1)
        /\ DOMAIN after = DOMAIN runs /\ \A i \in DOMAIN after : after[i].at = runs[i].at
        /\ Continued(runs, after, at, n + 1)
    BY <1>2, <2>1, RunGoesOn
  <2> QED
    BY <1>2, <2>2 DEF PlacesKept
<1>3. CASE ~cut /\ ~Extends(runs, at, n + 1) /\ ~(Len(runs) >= SegmentLimit)
  <2>1. after = Append(runs, [at |-> at, first |-> n + 1, last |-> n + 1, count |-> 1])
    BY <1>3 DEF RunsAfter
  <2>2. /\ RunsShape(after, n + 1)
        /\ \A i \in DOMAIN after : (i \in DOMAIN runs /\ after[i].at = runs[i].at) \/ after[i].at = at
        /\ Continued(runs, after, at, n + 1)
    BY <1>3, <2>1, RunStarts
  <2> QED
    BY <1>3, <2>2 DEF PlacesKept
<1> QED
  BY <1>1, <1>2, <1>3 DEF RunsAfter, CutAfter

-----------------------------------------------------------------------------
(* The trace of a row walk: its tiles, rows and counters.                  *)

\* What a trace keeps of a tile, and how many accesses the tiles of a row count.
TrackedTile == [first : Nat, count : Nat]
InRow(tiles, per, r) == {i \in DOMAIN tiles : (i - 1) \div per = r}
TrackedIn(tiles, per, r) == SumFunctionOnSet(Counts(tiles), InRow(tiles, per, r))

\* Of len placed tiles, those in the first rows are tracked.
Tracks(tiles, len, per) ==
  /\ tiles \in Seq(TrackedTile)
  /\ Len(tiles) <= len /\ Len(tiles) <= TraceRows * per
  /\ Len(tiles) = len \/ Len(tiles) = TraceRows * per

\* The tracked tiles where placement p is accessed, again and first; the rows count
\* what their tiles do.
Again(tiles, p) == [tiles EXCEPT ![p + 1].count = @ + 1]
First(tiles, n) == Append(tiles, [first |-> n, count |-> 1])
TracksAfter(tiles, p, n) == IF p < Len(tiles) THEN Again(tiles, p) ELSE First(tiles, n)
RowCounts(tiles, after, per, p) ==
  \A r : TrackedIn(after, per, r) = TrackedIn(tiles, per, r) + (IF r = p \div per THEN 1 ELSE 0)

\* A tile that was tracked counts one access more if it was it, a new one the first.
TilesCount(tiles, after, p) ==
  \A i \in 1 .. Len(after) :
    IF i <= Len(tiles)
    THEN after[i].count = tiles[i].count + (IF i = p + 1 THEN 1 ELSE 0)
    ELSE after[i].count = 1 /\ i = p + 1

LEMMA RowBound ==
  ASSUME NEW p \in Nat, NEW per \in Nat \ {0}
  PROVE  /\ p \div per \in Nat /\ TraceRows * per \in Nat
         /\ p \div per < TraceRows <=> p < TraceRows * per
<1> DEFINE q == p \div per
<1>1. q \in Nat /\ per * q <= p /\ p < per * q + per
  BY Divides
<1>2. TraceRows \in Nat
  BY TraceAssumption
<1> HIDE DEF q
<1>3. TraceRows * per \in Nat /\ TraceRows * per = per * TraceRows /\ per * q \in Nat
  BY <1>1, <1>2
<1>4. ASSUME q < TraceRows
      PROVE  p < TraceRows * per
  <2>1. per * (q + 1) <= per * TraceRows
    BY <1>1, <1>2, <1>4, TimesOrder
  <2>2. per * (q + 1) = per * q + per
    BY <1>1
  <2> QED
    BY <1>1, <1>3, <2>1, <2>2
<1>5. ASSUME ~(q < TraceRows)
      PROVE  ~(p < TraceRows * per)
  <2>1. TraceRows <= q
    BY <1>1, <1>2, <1>5
  <2>2. per * TraceRows <= per * q
    BY <1>1, <1>2, <2>1, TimesOrder
  <2> QED
    BY <1>1, <1>3, <2>2
<1> QED
  BY <1>1, <1>3, <1>4, <1>5 DEF q

LEMMA TrackedFinite ==
  ASSUME NEW tiles \in Seq(TrackedTile), NEW per, NEW r
  PROVE  /\ IsFiniteSet(InRow(tiles, per, r)) /\ InRow(tiles, per, r) \in SUBSET (1 .. Len(tiles))
         /\ Numbers(Counts(tiles), InRow(tiles, per, r))
         /\ TrackedIn(tiles, per, r) \in Nat
<1>1. /\ Len(tiles) \in Nat /\ DOMAIN tiles = 1 .. Len(tiles)
      /\ \A i \in 1 .. Len(tiles) : tiles[i] \in TrackedTile
  OBVIOUS
<1>2. InRow(tiles, per, r) \in SUBSET (1 .. Len(tiles)) /\ IsFiniteSet(1 .. Len(tiles))
  BY <1>1, FS_Interval DEF InRow
<1>3. IsFiniteSet(InRow(tiles, per, r))
  BY <1>2, FS_Subset
<1>4. Numbers(Counts(tiles), InRow(tiles, per, r))
  BY <1>1, <1>2 DEF Numbers, Counts, TrackedTile
<1> QED
  BY <1>2, <1>3, <1>4, SumType DEF TrackedIn

LEMMA TileCounted ==
  ASSUME NEW x \in TrackedTile
  PROVE  LET y == [x EXCEPT !.count = @ + 1] IN y \in TrackedTile /\ y.count = x.count + 1
<1>1. x = [first |-> x.first, count |-> x.count] /\ x.count \in Nat /\ x.first \in Nat
  BY DEF TrackedTile
<1>2. [x EXCEPT !.count = @ + 1] = [first |-> x.first, count |-> x.count + 1]
  BY <1>1
<1> QED
  BY <1>1, <1>2 DEF TrackedTile

\* A tracked tile counts one more.
LEMMA TileAgain ==
  ASSUME NEW per \in Nat \ {0}, NEW tiles \in Seq(TrackedTile),
         NEW p \in 0 .. Len(tiles) - 1, NEW after, after = Again(tiles, p)
  PROVE  /\ after \in Seq(TrackedTile) /\ Len(after) = Len(tiles)
         /\ \A i \in 1 .. Len(tiles) : after[i].count = tiles[i].count + (IF i = p + 1 THEN 1 ELSE 0)
         /\ RowCounts(tiles, after, per, p)
<1> DEFINE len == Len(tiles)
<1>1. len \in Nat /\ DOMAIN tiles = 1 .. len /\ \A i \in 1 .. len : tiles[i] \in TrackedTile
  OBVIOUS
<1>2. p + 1 \in 1 .. len /\ p \in Nat
  BY <1>1
<1> DEFINE more == [tiles[p + 1] EXCEPT !.count = @ + 1]
<1>3. more \in TrackedTile /\ more.count = tiles[p + 1].count + 1
  <2>1. tiles[p + 1] \in TrackedTile
    BY <1>1, <1>2
  <2> QED
    BY <2>1, TileCounted
<1>4. after = [tiles EXCEPT ![p + 1] = more]
  BY DEF Again
<1> HIDE DEF len, more
<1>5. /\ DOMAIN after = 1 .. len /\ after[p + 1] = more
      /\ \A i \in 1 .. len : i # p + 1 => after[i] = tiles[i]
  BY <1>1, <1>2, <1>4
<1>6. after \in Seq(TrackedTile) /\ Len(after) = len
  <2>1. \A i \in 1 .. len : after[i] \in TrackedTile
    BY <1>1, <1>3, <1>5
  <2>2. after \in [1 .. len -> TrackedTile]
    BY <1>4, <1>5, <2>1
  <2> QED
    BY <1>1, <2>2
<1>7. \A i \in 1 .. len : tiles[i].count \in Nat
  BY <1>1 DEF TrackedTile
<1>8. ASSUME NEW i \in 1 .. len
      PROVE  after[i].count = tiles[i].count + (IF i = p + 1 THEN 1 ELSE 0)
  BY <1>3, <1>5, <1>7
<1>9. ASSUME NEW r
      PROVE  TrackedIn(after, per, r) = TrackedIn(tiles, per, r) + (IF r = p \div per THEN 1 ELSE 0)
  <2> DEFINE S == InRow(tiles, per, r)
             f == Counts(tiles)
             g == Counts(after)
  <2>1. IsFiniteSet(S) /\ S \in SUBSET (1 .. len) /\ Numbers(f, S)
    BY TrackedFinite DEF len
  <2>2. InRow(after, per, r) = S
    BY <1>1, <1>5 DEF InRow
  <2>3. \A y \in S : g[y] = f[y] + (IF y = p + 1 THEN 1 ELSE 0)
    BY <1>1, <1>5, <1>8, <2>1 DEF Counts
  <2>4. p + 1 \in S <=> r = p \div per
    <3>1. (p + 1) - 1 = p
      BY <1>2
    <3> QED
      BY <1>1, <1>2, <3>1 DEF InRow
  <2>5. TrackedIn(after, per, r) = SumFunctionOnSet(g, S) /\ TrackedIn(tiles, per, r) = SumFunctionOnSet(f, S)
    BY <2>2 DEF TrackedIn
  <2>6. \A y \in S : f[y] \in Nat
    BY <2>1 DEF Numbers
  <2> HIDE DEF S, f, g
  <2>7. CASE r = p \div per
    <3>1. p + 1 \in S
      BY <2>4, <2>7
    <3>2. \A y \in S : y # p + 1 => g[y] = f[y]
      BY <2>3, <2>6
    <3>3. g[p + 1] = f[p + 1] + 1
      BY <2>3, <3>1
    <3>4. SumFunctionOnSet(g, S) = SumFunctionOnSet(f, S) + 1
      BY <2>1, <3>1, <3>2, <3>3, OneCountsMore
    <3> QED
      BY <2>5, <2>7, <3>4
  <2>8. CASE r # p \div per
    <3>1. p + 1 \notin S
      BY <2>4, <2>8
    <3>2. \A y \in S : f[y] = g[y]
      <4> SUFFICES ASSUME NEW y \in S PROVE f[y] = g[y]
        OBVIOUS
      <4>1. y # p + 1 /\ f[y] \in Nat
        BY <2>6, <3>1
      <4> QED
        BY <2>3, <4>1
    <3>3. SumFunctionOnSet(f, S) = SumFunctionOnSet(g, S)
      BY <2>1, <3>2, SumSame
    <3>4. SumFunctionOnSet(f, S) \in Nat
      BY <2>1, SumType
    <3> QED
      BY <2>5, <2>8, <3>3, <3>4
  <2> QED
    BY <2>7, <2>8
<1> QED
  BY <1>6, <1>8, <1>9 DEF len, RowCounts

\* A tile is tracked from its first access on.
LEMMA TileFirst ==
  ASSUME NEW per \in Nat \ {0}, NEW tiles \in Seq(TrackedTile), NEW n \in Nat,
         NEW after, after = First(tiles, n)
  PROVE  /\ after \in Seq(TrackedTile) /\ Len(after) = Len(tiles) + 1
         /\ \A i \in 1 .. Len(tiles) : after[i] = tiles[i]
         /\ after[Len(tiles) + 1].count = 1
         /\ RowCounts(tiles, after, per, Len(tiles))
<1> DEFINE len == Len(tiles)
           new == [first |-> n, count |-> 1]
<1>1. len \in Nat /\ DOMAIN tiles = 1 .. len /\ new \in TrackedTile /\ new.count = 1
  BY DEF TrackedTile
<1>2. /\ after \in Seq(TrackedTile) /\ Len(after) = len + 1 /\ DOMAIN after = 1 .. len + 1
      /\ after[len + 1] = new /\ \A i \in 1 .. len : after[i] = tiles[i]
  <2> HIDE DEF new
  <2> QED
    BY <1>1 DEF new, First
<1> HIDE DEF len, new
<1>3. ASSUME NEW r
      PROVE  TrackedIn(after, per, r) = TrackedIn(tiles, per, r) + (IF r = len \div per THEN 1 ELSE 0)
  <2> DEFINE S == InRow(tiles, per, r)
             f == Counts(tiles)
             g == Counts(after)
  <2>1. IsFiniteSet(S) /\ S \in SUBSET (1 .. len) /\ Numbers(f, S)
    BY TrackedFinite DEF len
  <2>2. (len + 1) - 1 = len /\ len + 1 \notin 1 .. len
    BY <1>1
  <2>3. \A i : i \in 1 .. len + 1 <=> i \in 1 .. len \/ i = len + 1
    BY <1>1
  <2>4. \A y \in S : g[y] = f[y]
    BY <1>1, <1>2, <2>1, <2>3 DEF Counts
  <2>5. g[len + 1] = 1
    BY <1>1, <1>2, <2>3 DEF Counts
  <2>6. TrackedIn(after, per, r) = SumFunctionOnSet(g, InRow(after, per, r)) /\ TrackedIn(tiles, per, r) = SumFunctionOnSet(f, S)
    BY DEF TrackedIn
  <2>7. CASE r = len \div per
    <3>1. \A i : i \in InRow(after, per, r) <=> i \in InRow(tiles, per, r) \cup {len + 1}
      BY <1>1, <1>2, <2>2, <2>3, <2>7 DEF InRow
    <3>2. InRow(after, per, r) = S \cup {len + 1}
      BY <3>1
    <3>3. len + 1 \notin S
      BY <2>1, <2>2
    <3> HIDE DEF S, f, g
    <3>4. SumFunctionOnSet(g, S \cup {len + 1}) = SumFunctionOnSet(f, S) + 1
      BY <2>1, <2>4, <2>5, <3>3, OneIsAdded
    <3> QED
      BY <2>6, <2>7, <3>2, <3>4
  <2>8. CASE r # len \div per
    <3>1. \A i : i \in InRow(after, per, r) <=> i \in InRow(tiles, per, r)
      BY <1>1, <1>2, <2>2, <2>3, <2>8 DEF InRow
    <3>2. InRow(after, per, r) = S
      BY <3>1
    <3> HIDE DEF S, f, g
    <3>3. SumFunctionOnSet(f, S) = SumFunctionOnSet(g, S)
      BY <2>1, <2>4, SumSame
    <3>4. SumFunctionOnSet(f, S) \in Nat
      BY <2>1, SumType
    <3> QED
      BY <2>6, <2>8, <3>2, <3>3, <3>4
  <2> QED
    BY <2>7, <2>8
<1> QED
  BY <1>1, <1>2, <1>3 DEF len, RowCounts

\* An access to placement p of len, or to the next one.
LEMMA TrackGrows ==
  ASSUME NEW per \in Nat \ {0}, NEW len \in Nat, NEW tiles, Tracks(tiles, len, per),
         NEW p \in 0 .. len, p \div per < TraceRows, NEW n \in Nat, NEW after,
         after = TracksAfter(tiles, p, n),
         NEW longer, longer = IF p = len THEN len + 1 ELSE len
  PROVE  /\ Tracks(after, longer, per)
         /\ Len(tiles) <= Len(after) /\ p < Len(after)
         /\ TilesCount(tiles, after, p) /\ RowCounts(tiles, after, per, p)
<1> DEFINE k == Len(tiles)
           most == TraceRows * per
<1>1. /\ tiles \in Seq(TrackedTile) /\ k \in Nat /\ k <= len /\ k <= most /\ (k = len \/ k = most)
      /\ \A i \in 1 .. k : tiles[i] \in TrackedTile
  BY DEF Tracks
<1>2. p \in Nat /\ most \in Nat /\ p < most
  <2>1. p \in Nat
    OBVIOUS
  <2>2. TraceRows * per \in Nat /\ p < TraceRows * per
    BY <2>1, RowBound
  <2> QED
    BY <2>1, <2>2
<1>3. CASE p < k
  <2>1. after = Again(tiles, p) /\ p \in 0 .. k - 1 /\ longer = len
    BY <1>1, <1>2, <1>3 DEF TracksAfter
  <2>2. /\ after \in Seq(TrackedTile) /\ Len(after) = k
        /\ \A i \in 1 .. k : after[i].count = tiles[i].count + (IF i = p + 1 THEN 1 ELSE 0)
        /\ RowCounts(tiles, after, per, p)
    <3>1. tiles \in Seq(TrackedTile) /\ p \in 0 .. Len(tiles) - 1
      BY <1>1, <2>1
    <3>2. after = Again(tiles, p)
      BY <2>1
    <3> QED
      BY <3>1, <3>2, TileAgain
  <2> HIDE DEF most
  <2>3. Tracks(after, longer, per)
    BY <1>1, <2>1, <2>2 DEF Tracks, most
  <2>4. Len(tiles) <= Len(after) /\ p < Len(after)
    BY <1>1, <1>3, <2>2
  <2>5. \A i \in 1 .. Len(after) : i <= Len(tiles)
    BY <1>1, <2>2
  <2> HIDE DEF k
  <2>6. TilesCount(tiles, after, p)
    BY <2>2, <2>5 DEF TilesCount, k
  <2> QED
    BY <2>2, <2>3, <2>4, <2>6 DEF k
<1>4. CASE ~(p < k)
  <2>1. p = k /\ p = len /\ longer = k + 1 /\ k < most
    <3> HIDE DEF k, most
    <3> QED
      BY <1>1, <1>2, <1>4
  <2>2. after = First(tiles, n)
    BY <1>4 DEF TracksAfter
  <2>3. /\ after \in Seq(TrackedTile) /\ Len(after) = k + 1
        /\ \A i \in 1 .. k : after[i] = tiles[i]
        /\ after[k + 1].count = 1
        /\ RowCounts(tiles, after, per, k)
    <3>1. tiles \in Seq(TrackedTile)
      BY <1>1
    <3> QED
      BY <2>2, <3>1, TileFirst
  <2>4. Tracks(after, longer, per)
    <3> HIDE DEF most
    <3>1. Len(after) <= longer /\ Len(after) <= most /\ Len(after) = longer
      BY <1>1, <1>2, <2>1, <2>3
    <3> QED
      BY <2>3, <3>1 DEF Tracks, most
  <2>5. ASSUME NEW i \in 1 .. k + 1
        PROVE  IF i <= k
               THEN after[i].count = tiles[i].count + (IF i = p + 1 THEN 1 ELSE 0)
               ELSE after[i].count = 1 /\ i = p + 1
    <3>1. CASE i <= k
      <4>1. i \in 1 .. k /\ i # p + 1
        BY <1>1, <2>1, <3>1
      <4>2. after[i] = tiles[i] /\ tiles[i].count \in Nat
        BY <1>1, <2>3, <4>1 DEF TrackedTile
      <4> QED
        BY <3>1, <4>1, <4>2
    <3>2. CASE ~(i <= k)
      BY <1>1, <2>1, <2>3, <3>2
    <3> QED
      BY <3>1, <3>2
  <2> HIDE DEF k
  <2>6. TilesCount(tiles, after, p)
    BY <2>3, <2>5 DEF TilesCount, k
  <2> QED
    BY <1>1, <2>1, <2>3, <2>4, <2>6 DEF k
<1> QED
  BY <1>3, <1>4

-----------------------------------------------------------------------------
(* The invariant of the row walk.                                          *)

\* While no run was left out: the runs to a tracked row are its entries, their
\* accesses those of its tiles, and the last run ends with an access to an open
\* tracked row, or before it.
RowStory(runs, opened, open, n, tiles, per) ==
  /\ \A r \in 0 .. TraceRows - 1 :
       /\ opened[r] = Cardinality(RunsOf(runs, r))
       /\ Covered(runs, r) = TrackedIn(tiles, per, r)
  /\ IF open \in 0 .. TraceRows - 1
     THEN runs # << >> /\ Last(runs).at = open /\ Last(runs).last = n
     ELSE runs = << >> \/ Last(runs).last < n

TileStory(runs, tiles) == \A i \in 1 .. Len(tiles) : tiles[i].count = Covered(runs, i - 1)

\* A trace after n accesses to len tiles, of which per are in a row.
TraceFollows(per, len, n, open, opened, tiles, rows, rowsCut, each, eachCut) ==
  /\ opened \in [0 .. TraceRows - 1 -> Nat]
  /\ rowsCut \in BOOLEAN /\ eachCut \in BOOLEAN
  /\ Tracks(tiles, len, per)
  /\ RunsShape(rows, n) /\ RunsShape(each, n)
  /\ \A i \in DOMAIN each : each[i].at < Len(tiles)
  /\ ~rowsCut => RowStory(rows, opened, open, n, tiles, per)
  /\ ~eachCut => TileStory(each, tiles)

\* No access is covered by no run.
LEMMA NoRuns ==
  /\ << >> \in Seq(Run) /\ \A r : RunsOf(<< >>, r) = {} /\ Covered(<< >>, r) = 0
  /\ \A per, r : InRow(<< >>, per, r) = {} /\ TrackedIn(<< >>, per, r) = 0
<1>1. \A r : RunsOf(<< >>, r) = {}
  BY DEF RunsOf
<1>2. \A per, r : InRow(<< >>, per, r) = {}
  BY DEF InRow
<1>3. \A r : Covered(<< >>, r) = 0
  BY <1>1, SumNone DEF Covered
<1>4. \A per, r : TrackedIn(<< >>, per, r) = 0
  BY <1>2, SumNone DEF TrackedIn
<1> QED
  BY <1>1, <1>2, <1>3, <1>4

LEMMA FreshFollows ==
  ASSUME NEW per \in Nat \ {0}
  PROVE  TraceFollows(per, 0, 0, -1, [r \in 0 .. TraceRows - 1 |-> 0], << >>, << >>, FALSE, << >>, FALSE)
<1> DEFINE opened == [r \in 0 .. TraceRows - 1 |-> 0]
<1>1. TraceRows \in Nat /\ TraceRows * per \in Nat
  BY TraceAssumption
<1>2. Tracks(<< >>, 0, per)
  BY <1>1 DEF Tracks
<1>3. RunsShape(<< >>, 0)
  BY NoRuns DEF RunsShape
<1>4. RowStory(<< >>, opened, -1, 0, << >>, per)
  <2>1. \A r \in 0 .. TraceRows - 1 : opened[r] = 0
    OBVIOUS
  <2>2. \A r : Cardinality(RunsOf(<< >>, r)) = 0
    BY NoRuns, FS_EmptySet
  <2>3. ~(-1 \in 0 .. TraceRows - 1)
    OBVIOUS
  <2> HIDE DEF opened
  <2> QED
    BY <2>1, <2>2, <2>3, NoRuns DEF RowStory
<1>5. TileStory(<< >>, << >>)
  BY DEF TileStory
<1>6. opened \in [0 .. TraceRows - 1 -> Nat]
  OBVIOUS
<1> HIDE DEF opened
<1>7. TraceFollows(per, 0, 0, -1, opened, << >>, << >>, FALSE, << >>, FALSE)
  BY <1>2, <1>3, <1>4, <1>5, <1>6 DEF TraceFollows
<1> QED
  BY <1>7 DEF opened

\* The story goes on with an access to a tracked row.
LEMMA RowStoryGoesOn ==
  ASSUME NEW per \in Nat \ {0}, NEW n \in Nat, NEW p \in Nat, NEW open \in Nat \cup {-1},
         NEW row, row = p \div per, row \in 0 .. TraceRows - 1,
         NEW tiles \in Seq(TrackedTile), NEW runs \in Seq(Run), NEW opened \in [0 .. TraceRows - 1 -> Nat],
         RowStory(runs, opened, open, n, tiles, per),
         NEW runs1, Continued(runs, runs1, row, n + 1),
         NEW tiles1, RowCounts(tiles, tiles1, per, p),
         NEW opened1, opened1 = IF row = open THEN opened ELSE [opened EXCEPT ![row] = @ + 1]
  PROVE  RowStory(runs1, opened1, row, n + 1, tiles1, per)
<1>1. Extends(runs, row, n + 1) <=> row = open
  <2>1. CASE open \in 0 .. TraceRows - 1
    <3>1. runs # << >> /\ Last(runs).at = open /\ Last(runs).last = n
      BY <2>1 DEF RowStory
    <3> QED
      BY <3>1 DEF Extends
  <2>2. CASE open \notin 0 .. TraceRows - 1
    <3>1. row # open
      BY <2>2
    <3>2. runs = << >> \/ Last(runs).last < n
      BY <2>2 DEF RowStory
    <3>3. ~Extends(runs, row, n + 1)
      <4>1. CASE runs = << >>
        BY <4>1 DEF Extends
      <4>2. CASE runs # << >>
        <5>1. Len(runs) \in Nat \ {0} /\ runs[Len(runs)] \in Run
          BY <4>2
        <5>2. Last(runs).last \in Nat
          BY <5>1 DEF Last, Run
        <5> QED
          BY <3>2, <4>2, <5>2 DEF Extends
      <4> QED
        BY <4>1, <4>2
    <3> QED
      BY <3>1, <3>3
  <2> QED
    BY <2>1, <2>2
<1>2. ASSUME NEW r \in 0 .. TraceRows - 1
      PROVE  opened1[r] = Cardinality(RunsOf(runs1, r))
  <2>1. opened[r] = Cardinality(RunsOf(runs, r)) /\ opened[r] \in Nat
    BY DEF RowStory
  <2>2. Cardinality(RunsOf(runs1, r)) =
          Cardinality(RunsOf(runs, r)) + (IF r = row /\ ~Extends(runs, row, n + 1) THEN 1 ELSE 0)
    BY DEF Continued
  <2>3. opened1[r] = opened[r] + (IF r = row /\ row # open THEN 1 ELSE 0)
    <3>1. CASE row = open
      BY <2>1, <3>1
    <3>2. CASE row # open
      <4>1. opened1 = [opened EXCEPT ![row] = @ + 1]
        BY <3>2
      <4> QED
        BY <2>1, <3>2, <4>1, SMTT(30)
    <3> QED
      BY <3>1, <3>2
  <2>4. CASE r = row /\ row # open
    BY <1>1, <2>1, <2>2, <2>3, <2>4
  <2>5. CASE ~(r = row /\ row # open)
    BY <1>1, <2>1, <2>2, <2>3, <2>5
  <2> QED
    BY <2>4, <2>5
<1>3. ASSUME NEW r \in 0 .. TraceRows - 1
      PROVE  Covered(runs1, r) = TrackedIn(tiles1, per, r)
  <2>1. Covered(runs, r) = TrackedIn(tiles, per, r)
    BY DEF RowStory
  <2>2. Covered(runs1, r) = Covered(runs, r) + (IF r = row THEN 1 ELSE 0)
    BY DEF Continued
  <2>3. TrackedIn(tiles1, per, r) = TrackedIn(tiles, per, r) + (IF r = row THEN 1 ELSE 0)
    BY DEF RowCounts
  <2> QED
    BY <2>1, <2>2, <2>3
<1>4. runs1 # << >> /\ Last(runs1).at = row /\ Last(runs1).last = n + 1
  BY DEF Continued
<1> QED
  BY <1>2, <1>3, <1>4 DEF RowStory

LEMMA TileStoryGoesOn ==
  ASSUME NEW n \in Nat, NEW p \in Nat, NEW tiles \in Seq(TrackedTile), NEW runs \in Seq(Run),
         TileStory(runs, tiles), \A i \in DOMAIN runs : runs[i].at < Len(tiles),
         NEW runs1, Continued(runs, runs1, p, n + 1),
         NEW tiles1 \in Seq(TrackedTile),
         TilesCount(tiles, tiles1, p)
  PROVE  TileStory(runs1, tiles1)
<1> SUFFICES ASSUME NEW i \in 1 .. Len(tiles1)
             PROVE  tiles1[i].count = Covered(runs1, i - 1)
  BY DEF TileStory
<1>1. Covered(runs1, i - 1) = Covered(runs, i - 1) + (IF i - 1 = p THEN 1 ELSE 0)
  BY DEF Continued
<1>2. i - 1 = p <=> i = p + 1
  OBVIOUS
<1>3. CASE i <= Len(tiles)
  <2>1. i \in 1 .. Len(tiles)
    BY <1>3
  <2>2. tiles[i].count = Covered(runs, i - 1)
    BY <2>1 DEF TileStory
  <2>3. tiles1[i].count = tiles[i].count + (IF i = p + 1 THEN 1 ELSE 0)
    BY <1>3 DEF TilesCount
  <2> QED
    BY <1>1, <1>2, <2>2, <2>3
<1>4. CASE ~(i <= Len(tiles))
  <2>1. tiles1[i].count = 1 /\ i = p + 1
    BY <1>4 DEF TilesCount
  <2>2. ~(p < Len(tiles))
    BY <1>4, <2>1
  <2>3. RunsOf(runs, p) = {}
    BY <2>2 DEF RunsOf
  <2>4. Covered(runs, p) = 0
    BY <2>3, SumNone DEF Covered
  <2> QED
    BY <1>1, <1>2, <2>1, <2>4
<1> QED
  BY <1>3, <1>4

\* _record_trace_access: the trace of one access more, to placement p of len
\* tiles, or to the next one.
LEMMA RecordKeeps ==
  ASSUME NEW per \in Nat \ {0}, NEW len \in Nat, access \in Nat, openRow \in Nat \cup {-1},
         TraceFollows(per, len, access, openRow, entries, tracked, rowRuns, rowRunsCut, tileRuns, tileRunsCut),
         NEW p \in 0 .. len, NEW longer, longer = IF p = len THEN len + 1 ELSE len,
         NEW row, row = p \div per, RecordTrace(row, p, access + 1)
  PROVE  TraceFollows(per, longer, access + 1, row, entries', tracked', rowRuns', rowRunsCut', tileRuns', tileRunsCut')
<1> DEFINE n == access
<1>1. /\ entries \in [0 .. TraceRows - 1 -> Nat] /\ rowRunsCut \in BOOLEAN /\ tileRunsCut \in BOOLEAN
      /\ Tracks(tracked, len, per) /\ RunsShape(rowRuns, n) /\ RunsShape(tileRuns, n)
      /\ \A i \in DOMAIN tileRuns : tileRuns[i].at < Len(tracked)
  BY DEF TraceFollows
<1>2. tracked \in Seq(TrackedTile) /\ rowRuns \in Seq(Run) /\ tileRuns \in Seq(Run)
  BY <1>1 DEF Tracks, RunsShape
<1>3. p \in Nat /\ row \in Nat /\ TraceRows \in Nat /\ TraceRows * per \in Nat
      /\ (row < TraceRows <=> p < TraceRows * per)
  BY RowBound, TraceAssumption
<1>4. CASE row >= TraceRows
  <2>1. UNCHANGED traceVars
    BY <1>4 DEF RecordTrace
  <2>2. ~(p < TraceRows * per) /\ row \notin 0 .. TraceRows - 1
    BY <1>3, <1>4
  <2>3. Tracks(tracked, longer, per)
    <3> DEFINE most == TraceRows * per
    <3>1. Len(tracked) \in Nat /\ Len(tracked) <= len /\ Len(tracked) <= most
          /\ (Len(tracked) = len \/ Len(tracked) = most)
      BY <1>1 DEF Tracks
    <3> HIDE DEF most
    <3>2. most \in Nat /\ ~(p < most)
      BY <1>3, <2>2 DEF most
    <3>3. Len(tracked) <= longer /\ Len(tracked) = most
      BY <1>3, <3>1, <3>2
    <3> QED
      BY <1>2, <3>1, <3>3 DEF Tracks, most
  <2>4. ASSUME NEW runs, RunsShape(runs, n)
        PROVE  RunsShape(runs, n + 1) /\ (runs = << >> \/ Last(runs).last < n + 1)
    <3>1. runs \in Seq(Run) /\ \A i \in 1 .. Len(runs) : runs[i].last <= n
      BY <2>4 DEF RunsShape
    <3>2. \A i \in 1 .. Len(runs) : runs[i].last \in Nat
      <4>1. \A i \in 1 .. Len(runs) : runs[i] \in Run
        BY <3>1
      <4> QED
        BY <4>1 DEF Run
    <3>3. RunsShape(runs, n + 1)
      BY <2>4, <3>1, <3>2 DEF RunsShape
    <3>4. ASSUME runs # << >>
          PROVE  Last(runs).last < n + 1
      <4>1. Len(runs) \in 1 .. Len(runs)
        BY <3>1, <3>4
      <4> QED
        BY <3>1, <3>2, <4>1 DEF Last
    <3> QED
      BY <3>3, <3>4
  <2>5. ASSUME ~rowRunsCut
        PROVE  RowStory(rowRuns, entries, row, n + 1, tracked, per)
    <3>1. RowStory(rowRuns, entries, openRow, n, tracked, per)
      BY <2>5 DEF TraceFollows
    <3>2. rowRuns = << >> \/ Last(rowRuns).last < n + 1
      BY <1>1, <2>4
    <3> QED
      BY <2>2, <3>1, <3>2 DEF RowStory
  <2>6. RunsShape(rowRuns, n + 1) /\ RunsShape(tileRuns, n + 1)
    BY <1>1, <2>4
  <2>7. ~tileRunsCut => TileStory(tileRuns, tracked)
    BY DEF TraceFollows
  <2>8. TraceFollows(per, longer, n + 1, row, entries, tracked, rowRuns, rowRunsCut, tileRuns, tileRunsCut)
    BY <1>1, <2>3, <2>5, <2>6, <2>7 DEF TraceFollows
  <2>9. /\ entries' = entries /\ tracked' = tracked /\ rowRuns' = rowRuns /\ rowRunsCut' = rowRunsCut
        /\ tileRuns' = tileRuns /\ tileRunsCut' = tileRunsCut
    BY <2>1 DEF traceVars
  <2> QED
    BY <2>8, <2>9
<1>5. CASE ~(row >= TraceRows)
  <2>1. row \in 0 .. TraceRows - 1 /\ p \div per < TraceRows
    BY <1>3, <1>5
  <2>2. /\ entries' = IF row = openRow THEN entries ELSE [entries EXCEPT ![row] = @ + 1]
        /\ tracked' = TracksAfter(tracked, p, n + 1)
    BY <1>5 DEF RecordTrace, TracksAfter, Again, First
  <2>3. /\ rowRuns' = RunsAfter(rowRuns, rowRunsCut, row, n + 1)
        /\ rowRunsCut' = CutAfter(rowRuns, rowRunsCut, row, n + 1)
        /\ tileRuns' = RunsAfter(tileRuns, tileRunsCut, p, n + 1)
        /\ tileRunsCut' = CutAfter(tileRuns, tileRunsCut, p, n + 1)
    BY <1>5 DEF RecordTrace
  <2>4. /\ Tracks(tracked', longer, per)
        /\ Len(tracked) <= Len(tracked') /\ p < Len(tracked')
        /\ TilesCount(tracked, tracked', p) /\ RowCounts(tracked, tracked', per, p)
    <3> DEFINE later == n + 1
    <3>1. later \in Nat
      OBVIOUS
    <3>2. tracked' = TracksAfter(tracked, p, later)
      BY <2>2
    <3>3. Tracks(tracked, len, per)
      BY <1>1
    <3>4. p \div per < TraceRows
      BY <2>1
    <3> HIDE DEF n, later
    <3> QED
      BY <3>1, <3>2, <3>3, <3>4, TrackGrows
  <2>5. ASSUME NEW runs, RunsShape(runs, n), NEW cut \in BOOLEAN, NEW at \in Nat,
               NEW after, after = RunsAfter(runs, cut, at, n + 1)
        PROVE  /\ RunsShape(after, n + 1) /\ PlacesKept(runs, after, at)
               /\ ~CutAfter(runs, cut, at, n + 1) => ~cut /\ Continued(runs, after, at, n + 1)
    <3>1. n \in Nat
      OBVIOUS
    <3> HIDE DEF n
    <3> QED
      BY <2>5, <3>1, RunsGrow
  <2>6. /\ RunsShape(rowRuns', n + 1)
        /\ ~rowRunsCut' => ~rowRunsCut /\ Continued(rowRuns, rowRuns', row, n + 1)
        /\ RunsShape(tileRuns', n + 1) /\ PlacesKept(tileRuns, tileRuns', p)
        /\ ~tileRunsCut' => ~tileRunsCut /\ Continued(tileRuns, tileRuns', p, n + 1)
    <3>1. p \in Nat /\ row \in Nat
      BY <1>3
    <3>2. RunsShape(tileRuns, n) /\ RunsShape(rowRuns, n) /\ tileRunsCut \in BOOLEAN /\ rowRunsCut \in BOOLEAN
      BY <1>1
    <3> HIDE DEF n
    <3>3. /\ RunsShape(tileRuns', n + 1) /\ PlacesKept(tileRuns, tileRuns', p)
          /\ ~CutAfter(tileRuns, tileRunsCut, p, n + 1) => ~tileRunsCut /\ Continued(tileRuns, tileRuns', p, n + 1)
      BY <2>3, <2>5, <3>1, <3>2
    <3>4. /\ RunsShape(rowRuns', n + 1)
          /\ ~CutAfter(rowRuns, rowRunsCut, row, n + 1) => ~rowRunsCut /\ Continued(rowRuns, rowRuns', row, n + 1)
      BY <2>3, <2>5, <3>1, <3>2
    <3>5. /\ tileRunsCut' = CutAfter(tileRuns, tileRunsCut, p, n + 1)
          /\ rowRunsCut' = CutAfter(rowRuns, rowRunsCut, row, n + 1)
      BY <2>3
    <3>6. ~tileRunsCut' => ~tileRunsCut /\ Continued(tileRuns, tileRuns', p, n + 1)
      BY <3>3, <3>5
    <3>7. ~rowRunsCut' => ~rowRunsCut /\ Continued(rowRuns, rowRuns', row, n + 1)
      BY <3>4, <3>5
    <3> QED
      BY <3>3, <3>4, <3>6, <3>7
  <2>7. entries' \in [0 .. TraceRows - 1 -> Nat]
    <3>1. CASE row = openRow
      BY <1>1, <2>2, <3>1
    <3>2. CASE row # openRow
      <4>1. entries' = [entries EXCEPT ![row] = @ + 1] /\ entries[row] \in Nat
        BY <1>1, <2>1, <2>2, <3>2
      <4>2. entries \in [0 .. TraceRows - 1 -> Nat]
        BY <1>1
      <4> QED
        BY <2>1, <4>1, <4>2
    <3> QED
      BY <3>1, <3>2
  <2>8. rowRunsCut' \in BOOLEAN /\ tileRunsCut' \in BOOLEAN
    BY <1>1, <2>3 DEF CutAfter
  <2>9. \A i \in DOMAIN tileRuns' : tileRuns'[i].at < Len(tracked')
    <3> SUFFICES ASSUME NEW i \in DOMAIN tileRuns' PROVE tileRuns'[i].at < Len(tracked')
      OBVIOUS
    <3>1. tracked' \in Seq(TrackedTile)
      BY <2>4 DEF Tracks
    <3>2. Len(tracked) \in Nat /\ Len(tracked') \in Nat
      BY <1>2, <3>1
    <3>3. CASE tileRuns'[i].at = p
      BY <2>4, <3>3
    <3>4. CASE i \in DOMAIN tileRuns /\ tileRuns'[i].at = tileRuns[i].at
      <4>1. tileRuns[i] \in Run
        BY <1>2, <3>4
      <4>2. tileRuns[i].at \in Nat /\ tileRuns[i].at < Len(tracked)
        BY <1>1, <3>4, <4>1 DEF Run
      <4> QED
        BY <2>4, <3>2, <3>4, <4>2
    <3> QED
      BY <2>6, <3>3, <3>4 DEF PlacesKept
  <2>10. ~rowRunsCut' => RowStory(rowRuns', entries', row, n + 1, tracked', per)
    <3> SUFFICES ASSUME ~rowRunsCut'
                 PROVE  RowStory(rowRuns', entries', row, n + 1, tracked', per)
      OBVIOUS
    <3>1. ~rowRunsCut /\ Continued(rowRuns, rowRuns', row, n + 1)
      BY <2>6
    <3>2. RowStory(rowRuns, entries, openRow, n, tracked, per)
      BY <3>1 DEF TraceFollows
    <3>3. RowCounts(tracked, tracked', per, p)
      BY <2>4
    <3>4. entries' = IF row = openRow THEN entries ELSE [entries EXCEPT ![row] = @ + 1]
      BY <2>2
    <3>5. entries \in [0 .. TraceRows - 1 -> Nat]
      BY <1>1
    <3>6. Continued(rowRuns, rowRuns', row, n + 1)
      BY <3>1
    <3> QED
      BY <1>2, <1>3, <2>1, <3>2, <3>3, <3>4, <3>5, <3>6, RowStoryGoesOn
  <2>11. ~tileRunsCut' => TileStory(tileRuns', tracked')
    <3> SUFFICES ASSUME ~tileRunsCut' PROVE TileStory(tileRuns', tracked')
      OBVIOUS
    <3>1. ~tileRunsCut /\ Continued(tileRuns, tileRuns', p, n + 1)
      BY <2>6
    <3>2. TileStory(tileRuns, tracked)
      BY <3>1 DEF TraceFollows
    <3>3. tracked' \in Seq(TrackedTile)
      BY <2>4 DEF Tracks
    <3> QED
      BY <1>1, <1>2, <1>3, <2>4, <3>1, <3>2, <3>3, TileStoryGoesOn
  <2> QED
    BY <2>4, <2>6, <2>7, <2>8, <2>9, <2>10, <2>11 DEF TraceFollows
<1> QED
  BY <1>4, <1>5

\* The rows of a run: the tiles of the tensor that is walked, in the order of their
\* placement, and their trace.  Only tensors whose tiles fit a row are walked.
RowTensors(m, a) == {t \in Tensors : MaxTilesPerRow(m, a, t) # 0}
TileAt(m, t, i) == Indices(m, t, ValuesAt(m, LevelNest(1), i, 1))
TilesOf(m, t) == {TileAt(m, t, i) : i \in Nat}

Following(m, a, t, clamping, len, n, open, opened, tiles, rows, rowsCut, each, eachCut) ==
  TraceFollows(TilesPerRow(m, a, t, clamping), len, n, open, opened, tiles, rows, rowsCut, each, eachCut)

WalkedRows ==
  /\ tensor \in RowTensors(mapping, arch)
  /\ access \in Nat /\ openRow \in Nat \cup {-1}
  /\ placed \in Seq(TilesOf(mapping, tensor))
  /\ Following(mapping, arch, tensor, clamp, Len(placed), access, openRow,
               entries, tracked, rowRuns, rowRunsCut, tileRuns, tileRunsCut)

RowInv ==
  /\ InputTyped
  /\ queue \in Seq(RowTensors(mapping, arch))
  /\ tensor # "none" => WalkedRows

\* The first place of a value.
Place(s, x) == SelectInSeq(s, LAMBDA y : y = x)

LEMMA PlaceThere ==
  ASSUME NEW S, NEW s \in Seq(S), NEW x
  PROVE  Contains(s, x) => Place(s, x) \in 1 .. Len(s)
<1> DEFINE I == {i \in 1 .. Len(s) : s[i] = x}
<1>1. Place(s, x) = IF I # {} THEN Min(I) ELSE 0
  BY DEF Place, SelectInSeq
<1>2. Contains(s, x) => I # {}
  BY DEF Contains
<1>3. ASSUME I # {}
      PROVE  Min(I) \in I
  <2>1. I \in SUBSET Nat
    OBVIOUS
  <2> HIDE DEF I
  <2>2. \E n \in I : \A k \in I : n <= k
    BY <1>3, <2>1, LeastNumber
  <2> QED
    BY <2>2 DEF Min
<1> QED
  BY <1>1, <1>2, <1>3

LEMMA RowStays ==
  ASSUME RowInv, UNCHANGED input, UNCHANGED rowVars
  PROVE  RowInv'
<1>1. InputTyped'
  BY InputKept DEF RowInv
<1>2. mapping' = mapping /\ arch' = arch /\ clamp' = clamp
  BY DEF input
<1>3. /\ tensor' = tensor /\ queue' = queue /\ placed' = placed /\ access' = access /\ openRow' = openRow
      /\ entries' = entries /\ tracked' = tracked /\ rowRuns' = rowRuns /\ rowRunsCut' = rowRunsCut
      /\ tileRuns' = tileRuns /\ tileRunsCut' = tileRunsCut
  BY DEF rowVars, traceVars
<1> QED
  BY <1>1, <1>2, <1>3 DEF RowInv, WalkedRows

\* A tensor starts with no tile placed and an empty trace.
LEMMA TensorStarts ==
  ASSUME InputTyped', FreshTensor, tensor' \in RowTensors(mapping', arch')
  PROVE  WalkedRows'
<1>1. /\ placed' = << >> /\ access' = 0 /\ openRow' = -1
      /\ entries' = [r \in 0 .. TraceRows - 1 |-> 0]
      /\ tracked' = << >> /\ rowRuns' = << >> /\ rowRunsCut' = FALSE
      /\ tileRuns' = << >> /\ tileRunsCut' = FALSE
  BY DEF FreshTensor
<1>2. MappingTyped(mapping') /\ ArchTyped(arch')
  BY DEF InputTyped
<1>3. tensor' \in Tensors /\ MaxTilesPerRow(mapping', arch', tensor') # 0
  BY DEF RowTensors
<1>4. TilesPerRow(mapping', arch', tensor', clamp') \in Nat \ {0}
  BY <1>2, <1>3, TilesPerRowTyped
<1>5. Following(mapping', arch', tensor', clamp', 0, 0, -1, [r \in 0 .. TraceRows - 1 |-> 0],
                << >>, << >>, FALSE, << >>, FALSE)
  BY <1>4, FreshFollows DEF Following
<1>6. placed' \in Seq(TilesOf(mapping', tensor')) /\ Len(placed') = 0
  BY <1>1
<1> QED
  BY <1>1, <1>5, <1>6 DEF WalkedRows

LEMMA RowAccess ==
  ASSUME RowInv, UNCHANGED input, RecordAccess(mapping, arch, clamp)
  PROVE  RowInv'
<1> DEFINE tile == TileAt(mapping, tensor, access)
           there == Contains(placed, tile)
           p == IF there THEN Place(placed, tile) - 1 ELSE Len(placed)
           per == TilesPerRow(mapping, arch, tensor, clamp)
           row == p \div per
           longer == IF p = Len(placed) THEN Len(placed) + 1 ELSE Len(placed)
<1>1. InputTyped'
  BY InputKept DEF RowInv
<1>2. mapping' = mapping /\ arch' = arch /\ clamp' = clamp
  BY DEF input
<1>3. /\ tensor # "none" /\ access' = access + 1 /\ openRow' = row
      /\ placed' = IF there THEN placed ELSE Append(placed, tile)
      /\ RecordTrace(row, p, access + 1)
      /\ tensor' = tensor /\ queue' = queue
  BY DEF RecordAccess, TileAt, Place
<1>4. /\ tensor \in RowTensors(mapping, arch) /\ access \in Nat /\ openRow \in Nat \cup {-1}
      /\ placed \in Seq(TilesOf(mapping, tensor))
      /\ TraceFollows(per, Len(placed), access, openRow, entries, tracked, rowRuns, rowRunsCut, tileRuns, tileRunsCut)
  BY <1>3 DEF RowInv, WalkedRows, Following
<1>5. per \in Nat \ {0}
  BY <1>4, TilesPerRowTyped DEF RowInv, InputTyped, RowTensors
<1>6. tile \in TilesOf(mapping, tensor)
  BY <1>4 DEF TilesOf
<1> HIDE DEF tile, per
<1>7. Len(placed) \in Nat /\ p \in 0 .. Len(placed) /\ (p = Len(placed) <=> ~there)
  <2>1. Len(placed) \in Nat
    BY <1>4
  <2>2. CASE there
    <3>1. Place(placed, tile) \in 1 .. Len(placed)
      BY <1>4, <2>2, PlaceThere
    <3> QED
      BY <2>1, <2>2, <3>1
  <2> QED
    BY <2>1, <2>2
<1>8. Len(placed') = longer /\ placed' \in Seq(TilesOf(mapping, tensor))
  <2> HIDE DEF p, there
  <2>1. CASE there
    BY <1>3, <1>4, <1>7, <2>1
  <2>2. CASE ~there
    <3>1. placed' = Append(placed, tile)
      BY <1>3, <2>2
    <3> QED
      BY <1>4, <1>6, <1>7, <2>2, <3>1
  <2> QED
    BY <2>1, <2>2
<1> HIDE DEF p, there
<1>9. p \in Nat /\ row \in Nat
  <2>1. p \in Nat
    BY <1>7
  <2> QED
    BY <1>5, <2>1, Divides
<1>10. longer = IF p = Len(placed) THEN Len(placed) + 1 ELSE Len(placed)
  OBVIOUS
<1> DEFINE r == row
<1>11. r = p \div per /\ RecordTrace(r, p, access + 1) /\ openRow' = r
  BY <1>3
<1> DEFINE len == Len(placed)
<1>12. len \in Nat /\ p \in 0 .. len /\ longer = (IF p = len THEN len + 1 ELSE len)
       /\ TraceFollows(per, len, access, openRow, entries, tracked, rowRuns, rowRunsCut, tileRuns, tileRunsCut)
  BY <1>4, <1>7, <1>10
<1> HIDE DEF longer, row, r, len
<1>13. TraceFollows(per, longer, access + 1, r, entries', tracked', rowRuns', rowRunsCut', tileRuns', tileRunsCut')
  BY <1>4, <1>5, <1>11, <1>12, RecordKeeps
<1>14. Following(mapping', arch', tensor', clamp', Len(placed'), access', openRow',
                 entries', tracked', rowRuns', rowRunsCut', tileRuns', tileRunsCut')
  BY <1>2, <1>3, <1>8, <1>11, <1>13 DEF Following, per
<1>15. access' \in Nat /\ openRow' \in Nat \cup {-1}
  BY <1>3, <1>4, <1>9 DEF r
<1>16. WalkedRows'
  BY <1>2, <1>3, <1>4, <1>8, <1>14, <1>15 DEF WalkedRows
<1>17. queue' \in Seq(RowTensors(mapping', arch'))
  BY <1>2, <1>3 DEF RowInv
<1> QED
  BY <1>1, <1>16, <1>17 DEF RowInv

LEMMA RowNextTensor ==
  ASSUME RowInv, UNCHANGED input, FinishTensor(mapping, arch, clamp)
  PROVE  RowInv'
<1> DEFINE S == RowTensors(mapping, arch)
<1>1. InputTyped'
  BY InputKept DEF RowInv
<1>2. mapping' = mapping /\ arch' = arch
  BY DEF input
<1>3. /\ tensor' = IF queue = << >> THEN "none" ELSE Head(queue)
      /\ queue' = IF queue = << >> THEN << >> ELSE Tail(queue)
      /\ FreshTensor
  BY DEF FinishTensor
<1>4. queue \in Seq(S)
  BY DEF RowInv
<1>5. queue' \in Seq(S) /\ (tensor' # "none" => tensor' \in S)
  <2> HIDE DEF S
  <2>1. CASE queue = << >>
    BY <1>3, <2>1
  <2>2. CASE queue # << >>
    BY <1>3, <1>4, <2>2
  <2> QED
    BY <2>1, <2>2
<1>6. tensor' # "none" => WalkedRows'
  BY <1>1, <1>2, <1>3, <1>5, TensorStarts
<1> QED
  BY <1>1, <1>2, <1>5, <1>6 DEF RowInv

\* Some tensor is stored, so there is a first one to walk.
LEMMA SomeSelected ==
  ASSUME NEW m, MappingTyped(m)
  PROVE  /\ Selected(m) # << >> /\ Selected(m) \in Seq(ToSet(Selected(m)))
         /\ ToSet(Selected(m)) \in SUBSET Tensors
<1> DEFINE one(t) == IF Stored(m, t) THEN << t >> ELSE << >>
<1>1. Selected(m) = one("In") \o one("F") \o one("Out")
  BY DEF Selected
<1>2. \E t \in Tensors : Stored(m, t)
  BY MappingFields DEF Stored
<1>3. \A t \in Tensors : one(t) \in Seq(Tensors) /\ (Stored(m, t) => one(t) # << >>)
  OBVIOUS
<1>4. "In" \in Tensors /\ "F" \in Tensors /\ "Out" \in Tensors /\ Tensors = {"In", "F", "Out"}
  BY DEF Tensors
<1>5. one("In") # << >> \/ one("F") # << >> \/ one("Out") # << >>
  BY <1>2, <1>3, <1>4
<1> HIDE DEF one
<1>6. Selected(m) \in Seq(Tensors) /\ Selected(m) # << >>
  BY <1>1, <1>3, <1>4, <1>5
<1>7. /\ Selected(m) \in [1 .. Len(Selected(m)) -> ToSet(Selected(m))] /\ Len(Selected(m)) \in Nat
      /\ ToSet(Selected(m)) \in SUBSET Tensors
  BY <1>6 DEF ToSet
<1> QED
  BY <1>6, <1>7

LEMMA RowStarts ==
  ASSUME RowInv, UNCHANGED input, StartAnalysis(mapping),
         ~\E t \in ToSet(Selected(mapping)) : MaxTilesPerRow(mapping, arch, t) = 0
  PROVE  RowInv'
<1> DEFINE s == Selected(mapping)
           S == RowTensors(mapping, arch)
<1>1. InputTyped'
  BY InputKept DEF RowInv
<1>2. mapping' = mapping /\ arch' = arch
  BY DEF input
<1>3. tensor' = Head(s) /\ queue' = Tail(s) /\ FreshTensor
  BY DEF StartAnalysis
<1>4. s # << >> /\ s \in Seq(ToSet(s)) /\ ToSet(s) \in SUBSET Tensors
  BY SomeSelected DEF RowInv, InputTyped
<1>5. ToSet(s) \in SUBSET S
  BY <1>4 DEF RowTensors
<1>6. tensor' \in S /\ queue' \in Seq(S)
  <2> DEFINE T == ToSet(s)
  <2>1. s # << >> /\ s \in Seq(T) /\ T \in SUBSET S /\ tensor' = Head(s) /\ queue' = Tail(s)
    BY <1>3, <1>4, <1>5
  <2> HIDE DEF s, S, T
  <2>2. Head(s) \in T /\ Tail(s) \in Seq(T)
    BY <2>1
  <2>3. Tail(s) \in Seq(S)
    BY <2>1, <2>2
  <2> QED
    BY <2>1, <2>2, <2>3
<1>7. WalkedRows'
  BY <1>1, <1>2, <1>3, <1>6, TensorStarts
<1> QED
  BY <1>1, <1>2, <1>6, <1>7 DEF RowInv

LEMMA RowInvInit ==
  ASSUME Init
  PROVE  RowInv
<1>1. InputTyped
  BY InputInit
<1>2. tensor = "none" /\ queue = << >>
  BY DEF Init, RowInit
<1>3. << >> \in Seq(RowTensors(mapping, arch))
  OBVIOUS
<1> QED
  BY <1>1, <1>2, <1>3 DEF RowInv

LEMMA RowInvStep ==
  ASSUME RowInv, [Next]_vars
  PROVE  RowInv'
<1>1. UNCHANGED input
  BY InputStays
<1>2. \/ UNCHANGED rowVars
      \/ /\ ~\E t \in ToSet(Selected(mapping)) : MaxTilesPerRow(mapping, arch, t) = 0
         /\ StartAnalysis(mapping)
      \/ RecordAccess(mapping, arch, clamp)
      \/ FinishTensor(mapping, arch, clamp)
  BY DEF Next, vars, VerifyConstraints, SimulateCache, SimulateAccess, Latency, Energy,
         AskAgain, Analyse, AnalyseAccess, AnalyseNextTensor
<1> QED
  BY <1>1, <1>2, RowStays, RowStarts, RowAccess, RowNextTensor

\* What the streams and the counters of a trace say of each other.
LEMMA TraceTells ==
  ASSUME RowInv
  PROVE  TraceAgrees
<1> SUFFICES ASSUME tensor # "none" PROVE TraceAgrees
  BY DEF TraceAgrees
<1> DEFINE per == TilesPerRow(mapping, arch, tensor, clamp)
<1>1. /\ access \in Nat
      /\ TraceFollows(per, Len(placed), access, openRow, entries, tracked, rowRuns, rowRunsCut, tileRuns, tileRunsCut)
  BY DEF RowInv, WalkedRows, Following
<1> HIDE DEF per
<1>2. /\ RunsShape(rowRuns, access)
      /\ ~rowRunsCut => RowStory(rowRuns, entries, openRow, access, tracked, per)
      /\ ~tileRunsCut => TileStory(tileRuns, tracked)
      /\ Tracks(tracked, Len(placed), per)
  BY <1>1 DEF TraceFollows
<1>3. ASSUME NEW i \in DOMAIN rowRuns
      PROVE  /\ rowRuns[i].count = rowRuns[i].last - rowRuns[i].first + 1
             /\ i > 1 => \/ rowRuns[i].first > rowRuns[i - 1].last + 1
                         \/ rowRuns[i].at # rowRuns[i - 1].at
  <2>1. rowRuns \in Seq(Run)
    BY <1>2 DEF RunsShape
  <2>2. i \in 1 .. Len(rowRuns) /\ (i > 1 => i \in 2 .. Len(rowRuns))
    BY <2>1
  <2> QED
    BY <1>2, <2>2 DEF RunsShape
<1>4. ASSUME NEW r \in 0 .. TraceRows - 1, ~rowRunsCut
      PROVE  /\ entries[r] = Cardinality(RunsOf(rowRuns, r))
             /\ Covered(rowRuns, r) =
                  SumFunctionOnSet(Counts(tracked), {i \in DOMAIN tracked : RowOf(i - 1) = r})
  <2>1. entries[r] = Cardinality(RunsOf(rowRuns, r)) /\ Covered(rowRuns, r) = TrackedIn(tracked, per, r)
    BY <1>2, <1>4 DEF RowStory
  <2>2. {i \in DOMAIN tracked : RowOf(i - 1) = r} = InRow(tracked, per, r)
    BY DEF RowOf, InRow, per
  <2> QED
    BY <2>1, <2>2 DEF TrackedIn
<1>5. ASSUME ~tileRunsCut, NEW i \in DOMAIN tracked
      PROVE  tracked[i].count = Covered(tileRuns, i - 1)
  <2>1. tracked \in Seq(TrackedTile)
    BY <1>2 DEF Tracks
  <2>2. i \in 1 .. Len(tracked)
    BY <2>1
  <2> QED
    BY <1>2, <1>5, <2>2 DEF TileStory
<1> QED
  BY <1>3, <1>4, <1>5 DEF TraceAgrees

\* Every trace of analyze_row_changes: until a stream is cut, the runs to a row are
\* the times it was opened, they cover exactly the accesses to its tiles, those to a
\* tile the accesses it counts, and no run could have been continued.
THEOREM TraceCorrect == Spec => []TraceAgrees
<1>1. Init => RowInv
  BY RowInvInit
<1>2. RowInv /\ [Next]_vars => RowInv'
  BY RowInvStep
<1>3. RowInv => TraceAgrees
  BY TraceTells
<1> QED
  BY <1>1, <1>2, <1>3, PTL DEF Spec

-----------------------------------------------------------------------------
(* A mapping without its cache: everything but the misses stays.           *)

Uncached(m) == [m EXCEPT !.cached = FALSE]

LEMMA UncachedFields ==
  ASSUME NEW m, MappingTyped(m)
  PROVE  /\ Uncached(m).bound = m.bound /\ Uncached(m).index = m.index /\ Uncached(m).bits = m.bits
         /\ Uncached(m).streams = m.streams /\ Uncached(m).block = m.block /\ Uncached(m).pu = m.pu
         /\ Uncached(m).system = m.system /\ Uncached(m).bitParallel = m.bitParallel
         /\ Uncached(m).interleaved = m.interleaved /\ Uncached(m).features = m.features
         /\ Uncached(m).cached = FALSE
<1>1. m \in Mappings(Top(m))
  BY DEF MappingTyped
<1> DEFINE top == Top(m)
<1> HIDE DEF top
<1>2. m \in Mappings(top)
  BY <1>1 DEF top
<1>3. DOMAIN m = {"loops", "bound", "listed", "index", "bits", "streams", "block", "pu", "system",
                  "bitParallel", "interleaved", "cached", "groups", "features"}
  BY <1>2 DEF Mappings
<1>4. \A f \in DOMAIN m : f # "cached" => Uncached(m)[f] = m[f]
  BY DEF Uncached
<1>5. Uncached(m)["cached"] = FALSE
  BY <1>3 DEF Uncached
<1> QED
  BY <1>3, <1>4, <1>5

\* Loops, levels and products.
LEMMA UncachedLevels ==
  ASSUME NEW m, MappingTyped(m)
  PROVE  LET u == Uncached(m)
         IN  /\ Top(u) = Top(m) /\ \A t : Related(u, t) = Related(m, t)
             /\ \A l : ProductLevel(u, l) = ProductLevel(m, l)
             /\ \A a, b : ProductLevels(u, a, b) = ProductLevels(m, a, b)
             /\ \A t, l : TensorLevel(u, t, l) = TensorLevel(m, t, l)
             /\ \A t, a, b : TensorLevels(u, t, a, b) = TensorLevels(m, t, a, b)
             /\ \A a, b : InputEstimate(u, a, b) = InputEstimate(m, a, b)
             /\ UsedPus(u) = UsedPus(m)
<1> DEFINE u == Uncached(m)
<1>1. u.bound = m.bound /\ u.index = m.index
  BY UncachedFields
<1> HIDE DEF u
<1>2. Top(u) = Top(m) /\ \A t : Related(u, t) = Related(m, t)
  BY <1>1 DEF Top, Levels, Related
<1>3. \A l : ProductLevel(u, l) = ProductLevel(m, l)
  BY <1>1 DEF ProductLevel
<1>4. \A a, b : ProductLevels(u, a, b) = ProductLevels(m, a, b)
  BY <1>3 DEF ProductLevels
<1>5. \A t, l : TensorLevel(u, t, l) = TensorLevel(m, t, l)
  BY <1>1, <1>2 DEF TensorLevel
<1>6. \A t, a, b : TensorLevels(u, t, a, b) = TensorLevels(m, t, a, b)
  BY <1>5 DEF TensorLevels
<1>7. \A l, d : Coefficient(u, l, d) = Coefficient(m, l, d)
  BY <1>1 DEF Coefficient
<1>8. \A l, d, e : Spread(u, l, d, e) = Spread(m, l, d, e)
  BY <1>1, <1>7 DEF Spread
<1>9. \A l : InputLevel(u, l) = InputLevel(m, l)
  BY <1>1, <1>8 DEF InputLevel
<1>10. \A a, b : InputEstimate(u, a, b) = InputEstimate(m, a, b)
  BY <1>4, <1>9 DEF InputEstimate
<1>11. UsedPus(u) = UsedPus(m)
  BY <1>2, <1>4 DEF UsedPus
<1> QED
  BY <1>2, <1>3, <1>4, <1>5, <1>6, <1>10, <1>11 DEF u

\* Tiles and rows.
LEMMA UncachedTiles ==
  ASSUME NEW m, MappingTyped(m)
  PROVE  LET u == Uncached(m)
         IN  /\ \A t : TileSize(u, t) = TileSize(m, t) /\ TilesPuSharing(u, t) = TilesPuSharing(m, t)
             /\ \A t : TilesPu(u, t) = TilesPu(m, t) /\ RemoteTiles(u, t) = RemoteTiles(m, t)
             /\ \A a, t, c : RowChangesBank(u, a, t, c) = RowChangesBank(m, a, t, c)
             /\ StoresBoth(u) = StoresBoth(m)
             /\ \A a : BaseDiePasses(u, a) = BaseDiePasses(m, a) /\ Channels(u, a) = Channels(m, a)
             /\ \A a : ChannelPasses(u, a) = ChannelPasses(m, a)
<1> DEFINE u == Uncached(m)
<1>1. /\ u.bound = m.bound /\ u.index = m.index /\ u.block = m.block /\ u.pu = m.pu /\ u.system = m.system
      /\ u.bits = m.bits /\ u.streams = m.streams /\ u.bitParallel = m.bitParallel
      /\ u.interleaved = m.interleaved
  BY UncachedFields
<1>2. /\ Top(u) = Top(m) /\ \A t : Related(u, t) = Related(m, t)
      /\ \A l : ProductLevel(u, l) = ProductLevel(m, l)
      /\ \A a, b : ProductLevels(u, a, b) = ProductLevels(m, a, b)
      /\ \A t, l : TensorLevel(u, t, l) = TensorLevel(m, t, l)
      /\ \A t, a, b : TensorLevels(u, t, a, b) = TensorLevels(m, t, a, b)
      /\ \A a, b : InputEstimate(u, a, b) = InputEstimate(m, a, b)
      /\ UsedPus(u) = UsedPus(m)
  BY UncachedLevels
<1> HIDE DEF u
<1>3. \A t : TileSize(u, t) = TileSize(m, t) /\ TilesPuSharing(u, t) = TilesPuSharing(m, t)
  BY <1>1, <1>2 DEF TileSize, TilesPuSharing
<1>4. \A t : TilesSystemSharing(u, t) = TilesSystemSharing(m, t)
  BY <1>1, <1>2 DEF TilesSystemSharing
<1>5. \A t : TilesPu(u, t) = TilesPu(m, t) /\ RemoteTiles(u, t) = RemoteTiles(m, t)
  BY <1>1, <1>2, <1>3, <1>4 DEF TilesPu, RemoteTiles
<1>6. \A a, t : MaxTilesPerRow(u, a, t) = MaxTilesPerRow(m, a, t)
  BY <1>1, <1>3 DEF MaxTilesPerRow, PayloadBits, ElementBits
<1>7. \A t : Hypertile(u, t) = Hypertile(m, t)
  <2> SUFFICES ASSUME NEW t PROVE Hypertile(u, t) = Hypertile(m, t)
    OBVIOUS
  <2> DEFINE cutoffs(r, b) == {i \in DOMAIN Dims : Dims[i] \notin r /\ b[1][Dims[i]] > 1}
             first(S) == IF S = {} THEN 0 ELSE Min(S)
             tile(r, b) == Product(b[1], {Dims[i] : i \in first(cutoffs(r, b)) + 1 .. Len(Dims)} \cap r)
  <2>1. \A n : Hypertile(n, t) = tile(Related(n, t), n.bound)
    BY DEF Hypertile
  <2> HIDE DEF tile
  <2> QED
    BY <1>1, <1>2, <2>1
<1>8. \A a, t, c : TilesPerRow(u, a, t, c) = TilesPerRow(m, a, t, c)
  BY <1>6, <1>7 DEF TilesPerRow
<1>9. \A a, t, c : RowChangesPu(u, a, t, c) = RowChangesPu(m, a, t, c)
  BY <1>5, <1>8 DEF RowChangesPu
<1>10. StoresBoth(u) = StoresBoth(m) /\ \A t : Interleaved(u, t) = Interleaved(m, t)
  BY <1>1 DEF StoresBoth, Stored, Interleaved
<1>11. \A a, t, c : RowChangesBank(u, a, t, c) = RowChangesBank(m, a, t, c)
  BY <1>9, <1>10 DEF RowChangesBank
<1>12. ReductionAdds(u) = ReductionAdds(m)
  BY <1>2, <1>3 DEF ReductionAdds, PartialElements
<1>13. \A a : Channels(u, a) = Channels(m, a)
  BY <1>2 DEF Channels
<1>14. \A a : BaseDiePasses(u, a) = BaseDiePasses(m, a) /\ ChannelPasses(u, a) = ChannelPasses(m, a)
  BY <1>12, <1>13 DEF BaseDiePasses, ChannelPasses
<1> QED
  BY <1>3, <1>5, <1>10, <1>11, <1>13, <1>14 DEF u

\* The terms of a target.
LEMMA UncachedTerms ==
  ASSUME NEW m, MappingTyped(m)
  PROVE  LET u == Uncached(m)
         IN  /\ \A kind : Scale(u, kind) = Scale(m, kind)
             /\ TemporalSteps(u) = TemporalSteps(m)
             /\ \A a : Accesses(u, a) = Accesses(m, a) /\ Whole(u, a) = Whole(m, a)
             /\ \A a, t, missed : Misses(u, a, t, missed) = Accesses(m, a)
             /\ \A t : Remote(u, t) = Remote(m, t) /\ Local(u, t) = Local(m, t)
             /\ \A a, t, bus : StreamUnits(u, a, t, bus) = StreamUnits(m, a, t, bus)
             /\ \A a, c : RowChanges(u, a, c) = RowChanges(m, a, c)
             /\ \A a, kind : ActivationMetric(u, a, kind) = ActivationMetric(m, a, kind)
             /\ \A a, kind, c : SaveMetric(u, a, kind, c) = SaveMetric(m, a, kind, c)
<1> DEFINE u == Uncached(m)
<1>1. /\ u.bound = m.bound /\ u.system = m.system /\ u.bits = m.bits /\ u.streams = m.streams
      /\ u.interleaved = m.interleaved /\ u.features = m.features /\ u.cached = FALSE
  BY UncachedFields
<1>2. /\ \A l : ProductLevel(u, l) = ProductLevel(m, l)
      /\ \A t, l : TensorLevel(u, t, l) = TensorLevel(m, t, l)
      /\ UsedPus(u) = UsedPus(m)
  BY UncachedLevels
<1>3. /\ \A t : TileSize(u, t) = TileSize(m, t) /\ TilesPuSharing(u, t) = TilesPuSharing(m, t)
      /\ \A t : TilesPu(u, t) = TilesPu(m, t) /\ RemoteTiles(u, t) = RemoteTiles(m, t)
      /\ \A a, t, c : RowChangesBank(u, a, t, c) = RowChangesBank(m, a, t, c)
      /\ StoresBoth(u) = StoresBoth(m)
      /\ \A a : BaseDiePasses(u, a) = BaseDiePasses(m, a) /\ Channels(u, a) = Channels(m, a)
      /\ \A a : ChannelPasses(u, a) = ChannelPasses(m, a)
  BY UncachedTiles
<1> HIDE DEF u
<1>4. \A kind : Scale(u, kind) = Scale(m, kind)
  BY <1>2 DEF Scale
<1>5. TemporalSteps(u) = TemporalSteps(m)
  BY <1>2 DEF TemporalSteps
<1>6. \A a : Accesses(u, a) = Accesses(m, a)
  BY <1>1 DEF Accesses, Iterations, Period, Extent
<1>7. \A a : Whole(u, a) = Whole(m, a)
  BY <1>3, <1>6 DEF Whole
<1>8. \A a, t, missed : Misses(u, a, t, missed) = Accesses(m, a)
  BY <1>1, <1>6 DEF Misses, CacheEffective
<1>9. \A t : Remote(u, t) = Remote(m, t) /\ Local(u, t) = Local(m, t)
  BY <1>1, <1>3 DEF Remote, Local
<1>10. \A a, t, bus : StreamUnits(u, a, t, bus) = StreamUnits(m, a, t, bus)
  BY <1>1, <1>2, <1>3, <1>5 DEF StreamUnits
<1>11. \A a, c : RowChanges(u, a, c) = RowChanges(m, a, c)
  BY <1>1, <1>3, <1>5 DEF RowChanges
<1>12. \A a, kind : ActivationMetric(u, a, kind) = ActivationMetric(m, a, kind)
  BY <1>1, <1>3, <1>4 DEF ActivationMetric
<1>13. \A a, kind, c : SaveMetric(u, a, kind, c) = SaveMetric(m, a, kind, c)
  BY <1>1, <1>3, <1>4, <1>7 DEF SaveMetric, BaseDieMetric, ChannelLevelMetric, ElementBits
<1> QED
  BY <1>4, <1>5, <1>6, <1>7, <1>8, <1>9, <1>10, <1>11, <1>12, <1>13 DEF u

-----------------------------------------------------------------------------
(* The terms of a target are numbers.                                      *)

LEMMA CostTyped ==
  ASSUME NEW a, ArchTyped(a), NEW kind \in Kinds
  PROVE  LET cost == a.cost[kind]
         IN  /\ cost.hostPu \in Nat /\ cost.load \in Nat /\ cost.store \in Nat /\ cost.compute \in Nat
             /\ cost.row \in Nat /\ cost.bankToBank \in Nat /\ cost.hostRow \in Nat /\ cost.tree \in Nat
<1>1. a.cost[kind] \in Cost
  BY ArchFields
<1> QED
  BY <1>1 DEF Cost

\* The tiles of F that the PUs share are no more than all of their tiles.
LEMMA SharedTiles ==
  ASSUME NEW m, MappingTyped(m), m.system > 0
  PROVE  TilesSystemSharing(m, "F") <= TilesPuSharing(m, "F")
<1> DEFINE s == m.system
           f == [l \in 1 .. s |-> TensorLevel(m, "F", l)]
           g == [l \in 2 .. s |-> ProductLevel(m, l)]
           first == TensorLevel(m, "F", 1)
           rest == Product(f, 2 .. s)
           others == ProductLevels(m, 2, s)
<1>1. /\ Top(m) \in Nat \ {0, 1} /\ s \in 1 .. Top(m) /\ "F" \in Tensors
      /\ \A l \in 1 .. s : l \in 0 .. Top(m)
  BY MappingFields DEF Tensors
<1>2. /\ \A l \in 1 .. s : TensorLevel(m, "F", l) \in Nat \ {0} /\ ProductLevel(m, l) \in Nat \ {0}
                           /\ TensorLevel(m, "F", l) <= ProductLevel(m, l)
      /\ first \in Nat \ {0}
  BY <1>1, TensorLevelTyped, LevelTyped
<1>3. IsFiniteSet(1 .. s) /\ IsFiniteSet(2 .. s) /\ 1 \in 1 .. s /\ (1 .. s) \ {1} = 2 .. s
  <2>1. s \in Nat \ {0}
    BY <1>1
  <2> HIDE DEF s
  <2>2. IsFiniteSet(1 .. s) /\ IsFiniteSet(2 .. s)
    BY <2>1, FS_Interval
  <2> QED
    BY <2>1, <2>2
<1>4. Numbers(f, 1 .. s) /\ Numbers(f, 2 .. s) /\ Numbers(g, 2 .. s) /\ f[1] = first
      /\ \A l \in 2 .. s : f[l] <= g[l]
  BY <1>1, <1>2 DEF Numbers
<1>5. others = Product(g, 2 .. s) /\ others \in Nat \ {0}
  BY <1>1, ProductLevelsTyped DEF ProductLevels
<1>6. TensorLevels(m, "F", 1, s) = Product(f, 1 .. s)
  BY DEF TensorLevels
<1> HIDE DEF s, f, g, first
<1>7. Product(f, 1 .. s) = first * rest /\ rest \in Nat
  <2>1. Product(f, 1 .. s) = f[1] * Product(f, (1 .. s) \ {1}) /\ Product(f, (1 .. s) \ {1}) \in Nat
    BY <1>3, <1>4, ProductTake
  <2> QED
    BY <1>3, <1>4, <2>1
<1>8. rest <= others
  BY <1>3, <1>4, <1>5, ProductOrder
<1> HIDE DEF rest, others
<1>9. first * rest <= others * first
  <2>1. rest * first <= others * first
    BY <1>2, <1>5, <1>7, <1>8, TimesOrder
  <2> QED
    BY <1>2, <1>7, <2>1
<1> DEFINE all == first * rest
<1>10. all \in Nat /\ all <= others * first
  BY <1>2, <1>7, <1>9
<1> HIDE DEF all
<1>11. CeilDiv(all, others) <= first
  BY <1>2, <1>5, <1>10, CeilDivLeast
<1>12. TilesSystemSharing(m, "F") = CeilDiv(all, others)
  BY <1>6, <1>7 DEF TilesSystemSharing, all, others, s
<1>13. TilesPuSharing(m, "F") = first
  BY DEF TilesPuSharing, first
<1> QED
  BY <1>11, <1>12, <1>13

LEMMA RemoteTyped ==
  ASSUME NEW m, MappingTyped(m)
  PROVE  /\ \A t \in Tensors : Remote(m, t) \in Int
         /\ Remote(m, "F") \in Nat /\ Local(m, "F") \in Nat
<1>1. m.system \in Nat
  BY MappingFields
<1>2. \A t \in Tensors : /\ TilesPuSharing(m, t) \in Nat
                         /\ m.system > 0 => TilesSystemSharing(m, t) \in Nat
  BY TilesTyped
<1>3. \A t \in Tensors : Remote(m, t) \in Int
  BY <1>2 DEF Remote, RemoteTiles
<1>4. "F" \in Tensors
  BY DEF Tensors
<1> QED
  BY <1>1, <1>2, <1>3, <1>4, SharedTiles DEF Remote, Local, RemoteTiles

\* Where the tiles of what is stored fit their rows, the rows a step opens are a number.
LEMMA RowsTyped ==
  ASSUME NEW m, MappingTyped(m), NEW a, ArchTyped(a), NEW clamping, TilesFit(m, a)
  PROVE  /\ RowChanges(m, a, clamping) \in Nat
         /\ "Out" \notin m.streams => RowChangesBank(m, a, "Out", clamping) \in Nat
<1> DEFINE x(t) == RowChangesBank(m, a, t, clamping)
           T == {0} \cup {x(t) : t \in {"F", "In"} \ m.streams}
<1>1. \A t \in Tensors : t \notin m.streams => x(t) \in Nat
  <2> SUFFICES ASSUME NEW t \in Tensors, t \notin m.streams PROVE x(t) \in Nat
    OBVIOUS
  <2>1. MaxTilesPerRow(m, a, t) \in Nat /\ MaxTilesPerRow(m, a, t) > 0
    BY MaxTilesTyped DEF TilesFit, Stored
  <2>2. MaxTilesPerRow(m, a, t) # 0
    BY <2>1
  <2> QED
    BY <2>2, RowChangesTyped
<1>2. TemporalSteps(m) \in Nat
  <2>1. 1 \in 0 .. Top(m)
    BY MappingFields
  <2> QED
    BY <2>1, LevelTyped DEF TemporalSteps
<1>3. "F" \in Tensors /\ "In" \in Tensors /\ "Out" \in Tensors
  BY DEF Tensors
<1>4. Max(T) \in Nat
  <2> HIDE DEF x
  <2>1. T \in SUBSET Nat
    BY <1>1, <1>3
  <2>2. \E h \in T : \A k \in T : h >= k
    <3>1. CASE "F" \in m.streams /\ "In" \in m.streams
      <4>1. T = {0}
        BY <3>1
      <4> QED
        BY <4>1
    <3>2. CASE "F" \in m.streams /\ "In" \notin m.streams
      <4>1. T = {0, x("In")} /\ x("In") \in Nat
        BY <1>1, <1>3, <3>2
      <4> QED
        BY <4>1
    <3>3. CASE "F" \notin m.streams /\ "In" \in m.streams
      <4>1. T = {0, x("F")} /\ x("F") \in Nat
        BY <1>1, <1>3, <3>3
      <4> QED
        BY <4>1
    <3>4. CASE "F" \notin m.streams /\ "In" \notin m.streams
      <4>1. T = {0, x("F"), x("In")} /\ x("F") \in Nat /\ x("In") \in Nat
        BY <1>1, <1>3, <3>4
      <4> QED
        BY <4>1
    <3> QED
      BY <3>1, <3>2, <3>3, <3>4
  <2> HIDE DEF T
  <2>3. Max(T) \in T
    BY <2>2 DEF Max
  <2> QED
    BY <2>1, <2>3
<1>5. RowChanges(m, a, clamping) =
        IF StoresBoth(m) /\ (~m.interleaved \/ a.banks = 1) THEN 2 * TemporalSteps(m) ELSE Max(T)
  BY DEF RowChanges
<1> HIDE DEF T
<1> QED
  BY <1>1, <1>2, <1>3, <1>4, <1>5

LEMMA FactorsTyped ==
  ASSUME NEW m, MappingTyped(m), NEW a, ArchTyped(a), Accesses(m, a) \in Nat \ {0}
  PROVE  /\ \A kind : Scale(m, kind) \in Nat
         /\ TemporalSteps(m) \in Nat
         /\ Whole(m, a) \in Nat
         /\ \A t \in Tensors : \A bus : StreamUnits(m, a, t, bus) \in Nat
         /\ Whole(m, a) \div Accesses(m, a) \in Nat
         /\ Whole(m, a) \div (Accesses(m, a) * TilesPuSharing(m, "F")) \in Nat
         /\ Whole(m, a) \div TilesPuSharing(m, "Out") \in Nat
<1>0. Top(m) \in Nat \ {0, 1} /\ 1 \in 0 .. Top(m) /\ 2 \in 0 .. Top(m)
  <2>1. Top(m) \in Nat \ {0, 1}
    BY MappingFields
  <2> QED
    BY <2>1
<1>1. TemporalSteps(m) \in Nat /\ ProductLevel(m, 2) \in Nat /\ UsedPus(m) \in Nat
  <2>1. ProductLevel(m, 1) \in Nat /\ ProductLevel(m, 2) \in Nat
    BY <1>0, LevelTyped
  <2>2. Top(m) \in 0 .. Top(m)
    BY <1>0
  <2>3. ProductLevels(m, 2, Top(m)) \in Nat
    BY <2>2, ProductLevelsTyped
  <2> QED
    BY <2>1, <2>3 DEF TemporalSteps, UsedPus
<1>2. \A kind : Scale(m, kind) \in Nat
  BY <1>1 DEF Scale
<1> DEFINE acc == Accesses(m, a)
           p == TilesPuSharing(m, "F")
           q == TilesPuSharing(m, "Out")
           w == Whole(m, a)
<1>3. p \in Nat \ {0} /\ q \in Nat \ {0}
  BY TilesTyped DEF Tensors
<1>4. w = acc * p * q /\ acc \in Nat \ {0}
  BY DEF Whole
<1>5. \A t \in Tensors : \A bus : StreamUnits(m, a, t, bus) \in Nat
  <2> SUFFICES ASSUME NEW t \in Tensors, NEW bus PROVE StreamUnits(m, a, t, bus) \in Nat
    OBVIOUS
  <2> DEFINE n == TileSize(m, t) * m.bits[t]
             c == CeilDiv(n, a.colBits)
  <2>1. TileSize(m, t) \in Nat /\ m.bits[t] \in Nat /\ TensorLevel(m, t, 1) \in Nat /\ a.colBits \in Nat \ {0}
    BY <1>0, TilesTyped, TensorLevelTyped, MappingFields, ArchFields
  <2>2. n \in Nat
    BY <2>1
  <2> HIDE DEF n
  <2>3. c \in Nat
    BY <2>1, <2>2, CeilDivType
  <2>4. StreamUnits(m, a, t, bus) = IF bus THEN c * TemporalSteps(m) ELSE TensorLevel(m, t, 1) * ProductLevel(m, 2)
    BY DEF StreamUnits, n
  <2> HIDE DEF c
  <2> QED
    BY <1>1, <2>1, <2>3, <2>4
<1> HIDE DEF acc, p, q, w
<1> DEFINE ap == acc * p
<1>6. ap \in Nat \ {0}
  BY <1>3, <1>4, TimesPositive
<1>7. w = ap * q
  BY <1>4
<1> HIDE DEF ap
<1>8. w \in Nat
  BY <1>3, <1>6, <1>7
<1>9. w \div acc \in Nat /\ w \div ap \in Nat /\ w \div q \in Nat
  BY <1>3, <1>4, <1>6, <1>8, Divides
<1> QED
  BY <1>1, <1>2, <1>5, <1>8, <1>9 DEF acc, p, q, w, ap

-----------------------------------------------------------------------------
(* A cache never costs.                                                    *)

\* Misses are accesses.
MissesBounded(m, a, missed) ==
  /\ Accesses(m, a) \in Nat \ {0}
  /\ \A t \in Tensors : Misses(m, a, t, missed) \in Nat /\ Misses(m, a, t, missed) <= Accesses(m, a)

LEMMA SomeTensorsFinite ==
  ASSUME NEW S \in SUBSET Tensors
  PROVE  IsFiniteSet(S)
  BY TensorsFinite, FS_Subset

\* A sum of what is counted per miss is no more than one of what is counted per access.
LEMMA PerMiss ==
  ASSUME NEW m, NEW a, NEW missed, MissesBounded(m, a, missed), NEW S \in SUBSET Tensors,
         NEW c, \A t \in S : c[t] \in Nat,
         NEW f, \A t \in S : f[t] = c[t] * Misses(m, a, t, missed),
         NEW g, \A t \in S : g[t] = c[t] * Accesses(m, a)
  PROVE  /\ SumFunctionOnSet(f, S) \in Nat /\ SumFunctionOnSet(g, S) \in Nat
         /\ SumFunctionOnSet(f, S) <= SumFunctionOnSet(g, S)
<1>1. ASSUME NEW t \in S
      PROVE  f[t] \in Nat /\ g[t] \in Nat /\ f[t] <= g[t]
  <2> DEFINE x == Misses(m, a, t, missed)
             y == Accesses(m, a)
             n == c[t]
  <2>1. x \in Nat /\ y \in Nat /\ x <= y /\ n \in Nat /\ f[t] = n * x /\ g[t] = n * y
    BY DEF MissesBounded
  <2> HIDE DEF x, y, n
  <2>2. n * x <= n * y
    BY <2>1, TimesOrder
  <2> QED
    BY <2>1, <2>2
<1>2. Numbers(f, S) /\ Numbers(g, S) /\ \A t \in S : f[t] <= g[t]
  BY <1>1 DEF Numbers
<1>3. IsFiniteSet(S)
  BY SomeTensorsFinite
<1> QED
  BY <1>2, <1>3, SumOrder, SumType

LEMMA StreamNotMore ==
  ASSUME NEW m, MappingTyped(m), NEW a, ArchTyped(a), NEW kind \in Kinds, NEW missed,
         MissesBounded(m, a, missed), NEW bus
  PROVE  /\ StreamMetric(m, a, kind, missed, bus) \in Nat
         /\ StreamMetric(Uncached(m), a, kind, missed, bus) \in Nat
         /\ StreamMetric(m, a, kind, missed, bus) <= StreamMetric(Uncached(m), a, kind, missed, bus)
<1> DEFINE u == Uncached(m)
           S == {"F", "In"} \cap m.streams
           units == [t \in Tensors |-> StreamUnits(m, a, t, bus)]
           f == [t \in Tensors |-> StreamUnits(m, a, t, bus) * Misses(m, a, t, missed)]
           g == [t \in Tensors |-> StreamUnits(m, a, t, bus) * Accesses(m, a)]
           cost == a.cost[kind].hostPu
           scale == Scale(m, kind)
           part == Whole(m, a) \div Accesses(m, a)
           x == SumFunctionOnSet(f, S)
           y == SumFunctionOnSet(g, S)
<1>1. cost \in Nat /\ scale \in Nat /\ part \in Nat
  BY CostTyped, FactorsTyped DEF MissesBounded
<1>2. S \in SUBSET Tensors
  BY DEF Tensors
<1>3. \A t \in Tensors : units[t] \in Nat
  BY FactorsTyped DEF MissesBounded
<1>4. \A t \in Tensors : f[t] = units[t] * Misses(m, a, t, missed) /\ g[t] = units[t] * Accesses(m, a)
  OBVIOUS
<1>5. StreamMetric(m, a, kind, missed, bus) = x * cost * scale * part
  BY DEF StreamMetric
<1>6. StreamMetric(u, a, kind, missed, bus) = y * cost * scale * part
  <2>1. u.streams = m.streams
    BY UncachedFields
  <2>2. /\ Scale(u, kind) = scale /\ Accesses(u, a) = Accesses(m, a) /\ Whole(u, a) = Whole(m, a)
        /\ \A t : Misses(u, a, t, missed) = Accesses(m, a)
        /\ \A t : StreamUnits(u, a, t, bus) = StreamUnits(m, a, t, bus)
    BY UncachedTerms
  <2> HIDE DEF u, cost, scale
  <2> QED
    BY <2>1, <2>2 DEF StreamMetric, cost
<1> HIDE DEF u, S, units, f, g, cost, scale, part
<1>7. x \in Nat /\ y \in Nat /\ x <= y
  BY <1>2, <1>3, <1>4, PerMiss
<1> HIDE DEF x, y
<1>8. x * cost \in Nat /\ y * cost \in Nat /\ x * cost <= y * cost
  BY <1>1, <1>7, TimesOrder
<1>9. (x * cost) * scale \in Nat /\ (y * cost) * scale \in Nat /\ (x * cost) * scale <= (y * cost) * scale
  <2> DEFINE v == x * cost
             w == y * cost
  <2> HIDE DEF v, w
  <2>1. v * scale \in Nat /\ w * scale \in Nat /\ v * scale <= w * scale
    BY <1>1, <1>8, TimesOrder DEF v, w
  <2> QED
    BY <2>1 DEF v, w
<1>10. ((x * cost) * scale) * part \in Nat /\ ((y * cost) * scale) * part \in Nat
       /\ ((x * cost) * scale) * part <= ((y * cost) * scale) * part
  <2> DEFINE v == x * cost * scale
             w == y * cost * scale
  <2>0. v \in Nat /\ w \in Nat /\ v <= w
    BY <1>9
  <2> HIDE DEF v, w
  <2>1. v * part \in Nat /\ w * part \in Nat /\ v * part <= w * part
    BY <1>1, <2>0, TimesOrder
  <2> QED
    BY <2>1 DEF v, w
<1> QED
  BY <1>5, <1>6, <1>10 DEF u

\* The terms that a cache does not touch.
LEMMA RestTyped ==
  ASSUME NEW m, MappingTyped(m), NEW a, ArchTyped(a), NEW kind \in Kinds, NEW clamping,
         Accesses(m, a) \in Nat \ {0}, TilesFit(m, a)
  PROVE  /\ ActivationMetric(m, a, kind) \in Nat
         /\ SaveMetric(m, a, kind, clamping) \in Int
<1> DEFINE cost == a.cost[kind]
<1>1. /\ cost.hostPu \in Nat /\ cost.load \in Nat /\ cost.store \in Nat /\ cost.compute \in Nat
      /\ cost.hostRow \in Nat /\ cost.tree \in Nat
  BY CostTyped
<1>2. Scale(m, kind) \in Nat /\ Whole(m, a) \in Nat
  BY FactorsTyped
<1>3. "Out" \in Tensors /\ TilesPu(m, "Out") \in Nat /\ TileSize(m, "Out") \in Nat /\ ElementBits(m, "Out") \in Nat
  BY TilesTyped, ElementTyped DEF Tensors
<1>4. a.lanes \in Nat \ {0} /\ a.colBits \in Nat \ {0} /\ a.treeWidth \in Nat \ {0} /\ a.channelLevel \in Nat
  BY ArchFields
<1>5. ActivationMetric(m, a, kind) \in Nat
  <2> DEFINE tiles == TilesPu(m, "Out")
             parts == CeilDiv(TileSize(m, "Out"), a.lanes)
             each == cost.load + cost.compute + cost.store
             scale == Scale(m, kind)
  <2>0. parts \in Nat
    BY <1>3, <1>4, CeilDivType
  <2>1. tiles \in Nat /\ parts \in Nat /\ each \in Nat /\ scale \in Nat
    BY <1>1, <1>2, <1>3, <2>0
  <2>2. ActivationMetric(m, a, kind) = IF m.features # {"activation"} THEN 0 ELSE tiles * parts * each * scale
    BY DEF ActivationMetric
  <2> HIDE DEF tiles, parts, each, scale
  <2>3. tiles * parts \in Nat
    BY <2>1
  <2>4. tiles * parts * each \in Nat
    BY <2>1, <2>3
  <2> QED
    BY <2>1, <2>2, <2>4
<1>6. ReductionAdds(m) \in Int
  <2>0. Top(m) \in Nat /\ 1 \in 0 .. Top(m) /\ Top(m) \in 0 .. Top(m)
    BY MappingFields
  <2> DEFINE x == TensorLevel(m, "Out", 1)
             y == TileSize(m, "Out")
             z == UsedPus(m)
             w == TensorLevels(m, "Out", 0, Top(m))
  <2>1. x \in Nat
    BY <1>3, <2>0, TensorLevelTyped
  <2>2. z \in Nat
    BY <2>0, ProductLevelsTyped DEF UsedPus
  <2>3. w \in Nat
    BY <1>3, <2>0, TensorLevelsTyped
  <2>4. ReductionAdds(m) = x * y * z - w /\ y \in Nat
    BY <1>3 DEF ReductionAdds, PartialElements
  <2> HIDE DEF x, y, z, w
  <2> QED
    BY <2>1, <2>2, <2>3, <2>4
<1>7. Channels(m, a) \in Nat \ {0}
  <2>1. Top(m) \in 0 .. Top(m)
    BY MappingFields
  <2> QED
    BY <1>4, <2>1, ProductLevelsTyped DEF Channels
<1>8. ASSUME NEW n \in Int, NEW d \in Nat \ {0}
      PROVE  CeilDiv(n, d) \in Int
  BY DEF CeilDiv
<1>9. BaseDieMetric(m, a, kind) \in Int
  BY <1>1, <1>4, <1>6, <1>8 DEF BaseDieMetric, BaseDiePasses
<1>10. ChannelLevelMetric(m, a, kind) \in Int
  <2> DEFINE width == Channels(m, a) * a.treeWidth
             passes == CeilDiv(ReductionAdds(m), width)
             many == IF kind = "energy" THEN Channels(m, a) ELSE 1
             tree == cost.tree
  <2>1. width \in Nat \ {0}
    BY <1>4, <1>7, TimesPositive
  <2>2. passes \in Int
    <3> HIDE DEF width
    <3> QED
      BY <1>6, <1>8, <2>1
  <2>3. many \in Nat /\ tree \in Nat
    BY <1>1, <1>7
  <2>4. ChannelLevelMetric(m, a, kind) = passes * tree * many
    BY DEF ChannelLevelMetric, ChannelPasses
  <2> HIDE DEF passes, many, tree
  <2> QED
    BY <2>2, <2>3, <2>4
<1>11. SaveMetric(m, a, kind, clamping) \in Int
  <2> DEFINE rows == RowChangesBank(m, a, "Out", clamping)
             bits == TileSize(m, "Out") * ElementBits(m, "Out")
             columns == CeilDiv(bits, a.colBits)
             tiles == TilesPu(m, "Out")
             scale == Scale(m, kind)
             whole == Whole(m, a)
             base == IF "base_die" \in m.features THEN BaseDieMetric(m, a, kind) ELSE 0
             channel == IF "channel_level" \in m.features THEN ChannelLevelMetric(m, a, kind) ELSE 0
             ofRow == cost.hostRow
             ofColumn == cost.hostPu
  <2>1. CASE "Out" \in m.streams
    BY <2>1 DEF SaveMetric
  <2>2. CASE "Out" \notin m.streams
    <3>1. SaveMetric(m, a, kind, clamping) =
            whole * (scale * (rows * ofRow + tiles * columns * ofColumn) + base + channel)
      BY <2>2 DEF SaveMetric
    <3>2. rows \in Nat
      BY <2>2, RowsTyped
    <3>3. columns \in Nat
      <4>1. bits \in Nat
        BY <1>3
      <4> HIDE DEF bits
      <4> QED
        BY <1>4, <4>1, CeilDivType
    <3>4. base \in Int /\ channel \in Int /\ tiles \in Nat /\ scale \in Nat /\ whole \in Nat
          /\ ofRow \in Nat /\ ofColumn \in Nat
      BY <1>1, <1>2, <1>3, <1>9, <1>10
    <3> HIDE DEF rows, columns, tiles, scale, whole, base, channel, ofRow, ofColumn
    <3>5. rows * ofRow \in Nat /\ tiles * columns \in Nat
      BY <3>2, <3>3, <3>4
    <3>6. (tiles * columns) * ofColumn \in Nat
      BY <3>4, <3>5
    <3>7. scale * (rows * ofRow + (tiles * columns) * ofColumn) \in Int
      BY <3>4, <3>5, <3>6
    <3> QED
      BY <3>1, <3>4, <3>7
  <2> QED
    BY <2>1, <2>2
<1> QED
  BY <1>5, <1>11

LEMMA ComputeNotMore ==
  ASSUME NEW m, MappingTyped(m), NEW a, ArchTyped(a), NEW kind \in Kinds, NEW missed,
         MissesBounded(m, a, missed), NEW clamping, TilesFit(m, a)
  PROVE  /\ ComputeMetric(m, a, kind, missed, clamping) \in Int
         /\ ComputeMetric(Uncached(m), a, kind, missed, clamping) \in Int
         /\ ComputeMetric(m, a, kind, missed, clamping) <= ComputeMetric(Uncached(m), a, kind, missed, clamping)
<1> DEFINE u == Uncached(m)
           S == {"F", "In"} \ m.streams
           cost == a.cost[kind]
           steps == TemporalSteps(m)
           each == Local(m, "F") * (steps * cost.load + RowChanges(m, a, clamping) * cost.row)
                     + Remote(m, "F") * steps * cost.bankToBank
           f == [t \in Tensors |-> Misses(m, a, t, missed) * each]
           g == [t \in Tensors |-> Accesses(m, a) * each]
           c == [t \in Tensors |-> each]
           x == SumFunctionOnSet(f, S)
           y == SumFunctionOnSet(g, S)
           ofF == Whole(m, a) \div (Accesses(m, a) * TilesPuSharing(m, "F"))
           scale == Scale(m, kind)
           before == Whole(m, a) * steps * (cost.compute + cost.store)
           after == Remote(m, "Out") * steps * cost.bankToBank * (Whole(m, a) \div TilesPuSharing(m, "Out"))
           rest == Whole(m, a) * ActivationMetric(m, a, kind)
<1>1. /\ cost.load \in Nat /\ cost.store \in Nat /\ cost.compute \in Nat
      /\ cost.row \in Nat /\ cost.bankToBank \in Nat
  BY CostTyped
<1>2. /\ scale \in Nat /\ steps \in Nat /\ Whole(m, a) \in Nat /\ ofF \in Nat
      /\ Whole(m, a) \div TilesPuSharing(m, "Out") \in Nat
  BY FactorsTyped DEF MissesBounded
<1>3. Remote(m, "F") \in Nat /\ Local(m, "F") \in Nat /\ Remote(m, "Out") \in Int
  BY RemoteTyped DEF Tensors
<1>4. RowChanges(m, a, clamping) \in Nat /\ ActivationMetric(m, a, kind) \in Nat
  BY RowsTyped, RestTyped DEF MissesBounded
<1>5. each \in Nat
  <2> DEFINE near == Local(m, "F")
             far == Remote(m, "F")
             rows == RowChanges(m, a, clamping)
             load == cost.load
             row == cost.row
             bank == cost.bankToBank
  <2>1. near \in Nat /\ far \in Nat /\ rows \in Nat /\ load \in Nat /\ row \in Nat /\ bank \in Nat /\ steps \in Nat
    BY <1>1, <1>2, <1>3, <1>4
  <2>2. each = near * (steps * load + rows * row) + far * steps * bank
    OBVIOUS
  <2> HIDE DEF near, far, rows, load, row, bank, steps, each
  <2>3. steps * load + rows * row \in Nat /\ far * steps \in Nat
    BY <2>1
  <2>4. near * (steps * load + rows * row) \in Nat /\ (far * steps) * bank \in Nat
    BY <2>1, <2>3
  <2> QED
    BY <2>2, <2>4
<1>6. before \in Nat /\ after \in Int /\ rest \in Nat
  <2> DEFINE whole == Whole(m, a)
             fixed == cost.compute + cost.store
             bank == cost.bankToBank
             out == Remote(m, "Out")
             part == whole \div TilesPuSharing(m, "Out")
             act == ActivationMetric(m, a, kind)
  <2>1. /\ whole \in Nat /\ fixed \in Nat /\ bank \in Nat /\ out \in Int /\ part \in Nat /\ act \in Nat
        /\ steps \in Nat
    BY <1>1, <1>2, <1>3, <1>4
  <2>2. before = whole * steps * fixed /\ after = out * steps * bank * part /\ rest = whole * act
    OBVIOUS
  <2> HIDE DEF whole, fixed, bank, out, part, act, steps, before, after, rest
  <2>3. whole * steps \in Nat /\ out * steps \in Int
    BY <2>1
  <2>4. (whole * steps) * fixed \in Nat /\ (out * steps) * bank \in Int
    BY <2>1, <2>3
  <2>5. ((out * steps) * bank) * part \in Int /\ whole * act \in Nat
    BY <2>1, <2>4
  <2> QED
    BY <2>2, <2>4, <2>5
<1>7. S \in SUBSET Tensors
  BY DEF Tensors
<1>8. x \in Nat /\ y \in Nat /\ x <= y
  <2>1. \A t \in Tensors : c[t] = each /\ c[t] \in Nat
    BY <1>5
  <2>2. \A t \in Tensors : f[t] = Misses(m, a, t, missed) * each /\ g[t] = Accesses(m, a) * each
    OBVIOUS
  <2> HIDE DEF each, c, f, g
  <2>3. \A t \in Tensors : f[t] = c[t] * Misses(m, a, t, missed) /\ g[t] = c[t] * Accesses(m, a)
    <3> SUFFICES ASSUME NEW t \in Tensors
                 PROVE  f[t] = c[t] * Misses(m, a, t, missed) /\ g[t] = c[t] * Accesses(m, a)
      OBVIOUS
    <3> DEFINE p == Misses(m, a, t, missed)
               q == Accesses(m, a)
    <3>1. p \in Nat /\ q \in Nat
      BY DEF MissesBounded
    <3>2. f[t] = p * each /\ g[t] = q * each /\ c[t] = each
      BY <2>1, <2>2
    <3> HIDE DEF p, q
    <3>3. p * each = each * p /\ q * each = each * q
      BY <1>5, <3>1
    <3> QED
      BY <3>2, <3>3 DEF p, q
  <2> HIDE DEF S
  <2> QED
    BY <1>7, <2>1, <2>3, PerMiss
<1>9. ComputeMetric(m, a, kind, missed, clamping) = scale * (before + x * ofF + after) + rest
  BY DEF ComputeMetric
<1>10. ComputeMetric(u, a, kind, missed, clamping) = scale * (before + y * ofF + after) + rest
  <2>1. u.streams = m.streams
    BY UncachedFields
  <2>2. /\ Scale(u, kind) = Scale(m, kind) /\ TemporalSteps(u) = TemporalSteps(m)
        /\ Accesses(u, a) = Accesses(m, a) /\ Whole(u, a) = Whole(m, a)
        /\ \A t : Misses(u, a, t, missed) = Accesses(m, a)
        /\ \A t : Remote(u, t) = Remote(m, t) /\ Local(u, t) = Local(m, t)
        /\ RowChanges(u, a, clamping) = RowChanges(m, a, clamping)
        /\ ActivationMetric(u, a, kind) = ActivationMetric(m, a, kind)
    BY UncachedTerms
  <2>3. \A t : TilesPuSharing(u, t) = TilesPuSharing(m, t)
    BY UncachedTiles
  <2> HIDE DEF u
  <2> QED
    BY <2>1, <2>2, <2>3 DEF ComputeMetric
<1> HIDE DEF u, x, y, ofF, scale, before, after, rest
<1>11. x * ofF \in Nat /\ y * ofF \in Nat /\ x * ofF <= y * ofF
  BY <1>2, <1>8, TimesOrder
<1> DEFINE v == before + x * ofF + after
           w == before + y * ofF + after
<1>12. v \in Int /\ w \in Int /\ v <= w
  BY <1>6, <1>11
<1> HIDE DEF v, w
<1>13. scale * v \in Int /\ scale * w \in Int /\ scale * v <= scale * w
  BY <1>2, <1>12, SMTT(30)
<1> QED
  BY <1>6, <1>9, <1>10, <1>13 DEF u, v, w

\* Whatever the misses are, they cost no more than as many accesses.
LEMMA TotalNotMore ==
  ASSUME NEW m, MappingTyped(m), NEW a, ArchTyped(a), NEW kind \in Kinds, NEW missed,
         MissesBounded(m, a, missed), NEW clamping, TilesFit(m, a), NEW t
  PROVE  TargetMetric(m, a, kind, t, missed, clamping)
           <= TargetMetric(Uncached(m), a, kind, t, missed, clamping)
<1> DEFINE u == Uncached(m)
           bus == t # "attacc"
           s == StreamMetric(m, a, kind, missed, bus)
           s1 == StreamMetric(u, a, kind, missed, bus)
           c == ComputeMetric(m, a, kind, missed, clamping)
           c1 == ComputeMetric(u, a, kind, missed, clamping)
           save == IF Saves(t) THEN SaveMetric(m, a, kind, clamping) ELSE 0
<1>1. s \in Nat /\ s1 \in Nat /\ s <= s1
  BY StreamNotMore
<1>2. c \in Int /\ c1 \in Int /\ c <= c1
  BY ComputeNotMore
<1>3. save \in Int
  BY RestTyped DEF MissesBounded
<1>4. TargetMetric(m, a, kind, t, missed, clamping) = s + c + save
  BY DEF TargetMetric
<1>5. TargetMetric(u, a, kind, t, missed, clamping) = s1 + c1 + save
  <2>1. SaveMetric(u, a, kind, clamping) = SaveMetric(m, a, kind, clamping)
    BY UncachedTerms
  <2> HIDE DEF u
  <2> QED
    BY <2>1 DEF TargetMetric
<1> HIDE DEF s, s1, c, c1, save
<1> QED
  BY <1>1, <1>2, <1>3, <1>4, <1>5 DEF u

\* What has been computed stays what the misses of the finished simulation cost, and
\* only a mapping that passed the constraints gets that far.
Costed ==
  /\ pc \in {"latency", "energy", "returned"} => Legal(mapping, arch, clamp)
  /\ DOMAIN totals # {} => pc \in {"energy", "returned"}
  /\ \A t \in DOMAIN totals :
       totals[t] = [k \in Kinds |-> TargetMetric(mapping, arch, k, t, misses, clamp)]

CostInv == WalkInv /\ Costed

LEMMA CostInit ==
  ASSUME Init
  PROVE  CostInv
<1>1. WalkInv
  BY WalkInvInit
<1>2. pc \in {"verify", "analyse"}
  BY JobsAssumption DEF Init
<1>3. DOMAIN totals = {}
  BY DEF Init
<1> QED
  BY <1>1, <1>2, <1>3 DEF CostInv, Costed

\* A step that computes nothing.
LEMMA CostStays ==
  ASSUME Costed, UNCHANGED << input, totals >>,
         pc' \in {"latency", "energy", "returned"} => Legal(mapping, arch, clamp),
         DOMAIN totals # {} => pc' \in {"energy", "returned"} /\ misses' = misses
  PROVE  Costed'
<1>1. mapping' = mapping /\ arch' = arch /\ clamp' = clamp /\ totals' = totals
  BY DEF input
<1>2. CASE DOMAIN totals = {}
  BY <1>1, <1>2 DEF Costed
<1>3. CASE DOMAIN totals # {}
  BY <1>1, <1>3 DEF Costed
<1> QED
  BY <1>2, <1>3

\* A step that evaluates a target.
LEMMA CostAdds ==
  ASSUME Costed, UNCHANGED << input, misses >>, NEW t, EvaluateTarget(t),
         pc \in {"latency", "energy", "returned"}, pc' \in {"energy", "returned"}
  PROVE  Costed'
<1> DEFINE new == [k \in Kinds |-> TargetMetric(mapping, arch, k, t, misses, clamp)]
<1>1. mapping' = mapping /\ arch' = arch /\ clamp' = clamp /\ misses' = misses
  BY DEF input
<1>2. totals' = Overlay(totals, [s \in {t} |-> new])
  BY DEF EvaluateTarget
<1> HIDE DEF new
<1>3. /\ DOMAIN totals' = DOMAIN totals \cup {t}
      /\ totals'[t] = new /\ \A s \in DOMAIN totals : s # t => totals'[s] = totals[s]
  BY <1>2 DEF Overlay
<1>4. \A s \in DOMAIN totals' :
        totals'[s] = [k \in Kinds |-> TargetMetric(mapping, arch, k, s, misses, clamp)]
  BY <1>3 DEF new, Costed
<1>5. Legal(mapping, arch, clamp)
  BY DEF Costed
<1> QED
  BY <1>1, <1>4, <1>5 DEF Costed

LEMMA CostStep ==
  ASSUME CostInv, [Next]_vars
  PROVE  CostInv'
<1>1. WalkInv'
  BY WalkInvStep DEF CostInv
<1>2. Costed /\ UNCHANGED input
  BY InputStays DEF CostInv
<1>3. CASE VerifyConstraints
  <2>1. UNCHANGED << input, totals >> /\ DOMAIN totals = {}
    BY <1>2, <1>3 DEF VerifyConstraints, callVars, Costed
  <2>2. pc' = "latency" => Legal(mapping, arch, clamp)
    BY <1>3 DEF VerifyConstraints
  <2>3. pc' \in {"latency", "failed", "refused"}
    BY <1>3 DEF VerifyConstraints
  <2> QED
    BY <1>1, <1>2, <2>1, <2>2, <2>3, CostStays DEF CostInv
<1>4. CASE SimulateCache \/ SimulateAccess
  <2>1. UNCHANGED << input, totals >> /\ DOMAIN totals = {} /\ pc = "latency"
    BY <1>2, <1>4 DEF SimulateCache, SimulateAccess, callVars, Costed
  <2>2. Legal(mapping, arch, clamp)
    BY <1>2, <2>1 DEF Costed
  <2> QED
    BY <1>1, <1>2, <2>1, <2>2, CostStays DEF CostInv
<1>5. CASE Latency
  <2>1. EvaluateTarget(target) /\ pc = "latency" /\ pc' = "energy" /\ misses' = misses
    BY <1>5 DEF Latency, cacheVars
  <2> QED
    BY <1>1, <1>2, <2>1, CostAdds DEF CostInv
<1>6. ASSUME NEW t, ActivateTarget(t), pc \in {"energy", "returned"}, pc' = "returned", misses' = misses
      PROVE  Costed'
  <2>1. totals' = totals
    BY <1>6 DEF ActivateTarget, callVars
  <2>2. Legal(mapping, arch, clamp)
    BY <1>2, <1>6 DEF Costed
  <2> QED
    BY <1>2, <1>6, <2>1, <2>2, CostStays
<1>7. CASE Energy
  <2>1. ActivateTarget(target) /\ pc = "energy" /\ pc' = "returned" /\ misses' = misses
    BY <1>7 DEF Energy, cacheVars
  <2> QED
    BY <1>1, <1>6, <2>1 DEF CostInv
<1>8. CASE AskAgain
  <2>1. PICK t \in Targets : EvaluateTarget(t) \/ ActivateTarget(t)
    BY <1>8 DEF AskAgain
  <2>2. pc = "returned" /\ pc' = "returned" /\ misses' = misses
    BY <1>8 DEF AskAgain, cacheVars
  <2> QED
    BY <1>1, <1>2, <1>6, <2>1, <2>2, CostAdds DEF CostInv
<1>9. CASE Analyse
  <2>1. UNCHANGED << input, totals >> /\ DOMAIN totals = {} /\ pc' \in {"failed", "walking"}
    BY <1>2, <1>9 DEF Analyse, callVars, Costed
  <2> QED
    BY <1>1, <1>2, <2>1, CostStays DEF CostInv
<1>10. CASE AnalyseAccess \/ AnalyseNextTensor \/ UNCHANGED vars
  <2>1. UNCHANGED << input, totals, pc, misses >>
    BY <1>10 DEF AnalyseAccess, AnalyseNextTensor, vars, callVars, cacheVars
  <2> QED
    BY <1>1, <1>2, <2>1, CostStays DEF CostInv, Costed
<1> QED
  BY <1>3, <1>4, <1>5, <1>7, <1>8, <1>9, <1>10 DEF Next

LEMMA CostBound ==
  ASSUME CostInv
  PROVE  CacheNeverCosts
<1> SUFFICES ASSUME NEW t \in DOMAIN totals, NEW k \in Kinds
             PROVE  totals[t][k] <= TargetMetric(Uncached(mapping), arch, k, t, misses, clamp)
  BY DEF CacheNeverCosts, Uncached
<1>1. MappingTyped(mapping) /\ ArchTyped(arch)
  BY DEF CostInv, WalkInv, InputTyped
<1>2. WalkFollows(mapping, arch, walk, point, context, order, hits, misses)
  BY DEF CostInv, WalkInv
<1>3. TilesFit(mapping, arch)
  BY DEF CostInv, Costed, Legal, Schedulable
<1> DEFINE n == Passed(mapping, arch, walk, point)
           all == Accesses(mapping, arch)
<1>4. n \in Nat /\ all \in Nat \ {0} /\ n <= all
  <2>1. /\ Number(mapping, arch, point) \in Nat /\ all \in Nat
        /\ Number(mapping, arch, point) < all
    BY <1>1, <1>2, LastOfAll DEF WalkFollows, Accesses
  <2> QED
    BY <2>1 DEF Passed, Accesses
<1>5. MissesBounded(mapping, arch, misses)
  <2> SUFFICES ASSUME NEW x \in Tensors
               PROVE  Misses(mapping, arch, x, misses) \in Nat /\ Misses(mapping, arch, x, misses) <= all
    BY <1>4 DEF MissesBounded
  <2>1. ASSUME x \in CachedTensors(mapping)
        PROVE  misses[x] \in Nat /\ misses[x] <= all
    <3>1. hits[x] \in Nat /\ misses[x] \in Nat /\ hits[x] + misses[x] = n
      BY <1>2, <2>1 DEF WalkFollows, CachesFollow
    <3> HIDE DEF n, all
    <3> QED
      BY <1>4, <3>1
  <2> QED
    BY <1>4, <2>1 DEF Misses
<1>6. totals[t][k] = TargetMetric(mapping, arch, k, t, misses, clamp)
  BY DEF CostInv, Costed
<1> QED
  BY <1>1, <1>3, <1>5, <1>6, TotalNotMore

\* For every mapping that passes verify_constraints: no target is slower or more
\* costly with the misses of its simulated caches than without a cache.
THEOREM CachePays == Spec => []CacheNeverCosts
<1>1. Init => CostInv
  BY CostInit
<1>2. CostInv /\ [Next]_vars => CostInv'
  BY CostStep
<1>3. CostInv => CacheNeverCosts
  BY CostBound
<1> QED
  BY <1>1, <1>2, <1>3, PTL DEF Spec

-----------------------------------------------------------------------------
(* What the iterations of a nest stand for if only some of its loops count.*)

\* The digits of a number, and what the first of them stand for.
DigitsOf(i, E, P) == [k \in DOMAIN E |-> (i \div P[k]) % E[k]]
HeadsOf(n, i, P) == [k \in 0 .. n |-> (i \div P[k]) * P[k]]

LEMMA DigitsStand ==
  ASSUME NEW n \in Nat, NEW E, NEW P, Radix(n, E, P), NEW i \in Nat, i < P[0]
  PROVE  /\ Stands(n, P, DigitsOf(i, E, P), HeadsOf(n, i, P))
         /\ HeadsOf(n, i, P)[n] = i
         /\ \A k \in 1 .. n : DigitsOf(i, E, P)[k] < E[k]
<1> DEFINE x == DigitsOf(i, E, P)
           h == HeadsOf(n, i, P)
<1>1. E \in [1 .. n -> Nat \ {0}] /\ P \in [0 .. n -> Nat \ {0}] /\ DOMAIN E = 1 .. n
  BY DEF Radix
<1>2. \A k \in 1 .. n : x[k] = (i \div P[k]) % E[k]
  BY <1>1 DEF DigitsOf
<1>3. \A k \in 0 .. n : h[k] = (i \div P[k]) * P[k]
  BY DEF HeadsOf
<1> HIDE DEF x, h
<1>4. \A k \in 0 .. n : i \div P[k] \in Nat
  BY <1>1, Divides
<1>5. \A k \in 1 .. n : x[k] \in Nat /\ x[k] < E[k]
  <2> SUFFICES ASSUME NEW k \in 1 .. n PROVE x[k] \in Nat /\ x[k] < E[k]
    OBVIOUS
  <2> DEFINE q == i \div P[k]
             e == E[k]
  <2>1. q \in Nat /\ e \in Nat \ {0} /\ x[k] = q % e
    BY <1>1, <1>2, <1>4
  <2> HIDE DEF q, e
  <2>2. q % e \in 0 .. e - 1
    BY <2>1, Divides
  <2> QED
    BY <2>1, <2>2 DEF e
<1>6. \A k \in 0 .. n : h[k] \in Nat
  <2> SUFFICES ASSUME NEW k \in 0 .. n PROVE h[k] \in Nat
    OBVIOUS
  <2>1. i \div P[k] \in Nat /\ P[k] \in Nat
    BY <1>1, <1>4
  <2> QED
    BY <1>3, <2>1
<1>7. h[0] = 0
  <2>1. 0 \in 0 .. n
    OBVIOUS
  <2>2. P[0] \in Nat \ {0} /\ 0 * P[0] <= i /\ i < 0 * P[0] + P[0]
    BY <1>1, <2>1
  <2>3. i \div P[0] = 0 /\ 0 * P[0] = 0
    BY <2>2, QuotientIs
  <2> QED
    BY <1>3, <2>1, <2>2, <2>3
<1>8. ASSUME NEW k \in 1 .. n
      PROVE  h[k] = h[k - 1] + x[k] * P[k]
  <2> DEFINE p == P[k]
             e == E[k]
             s == i \div p
             q == s \div e
             r == s % e
  <2>1. p \in Nat \ {0} /\ e \in Nat \ {0} /\ P[k - 1] = e * p /\ k - 1 \in 0 .. n
    BY <1>1 DEF Radix
  <2>2. s \in Nat /\ p * s <= i /\ i < p * s + p
    BY <2>1, Divides
  <2> HIDE DEF p, e, s
  <2>3. q \in Nat /\ r \in 0 .. e - 1 /\ r = s - e * q
    BY <2>1, <2>2, Divides
  <2> HIDE DEF q, r
  <2>4. s = q * e + r /\ s + 1 <= q * e + e
    <3> DEFINE w == q * e
    <3>1. e * q = w /\ w \in Nat
      BY <2>1, <2>3
    <3> HIDE DEF w
    <3>2. s = w + r /\ s + 1 <= w + e
      BY <2>1, <2>2, <2>3, <3>1
    <3> QED
      BY <3>2 DEF w
  <2>5. s * p = q * (e * p) + r * p
    <3>1. (q * e + r) * p = q * (e * p) + r * p
      BY <2>1, <2>3
    <3> QED
      BY <2>4, <3>1
  <2>6. i \div (e * p) = q
    <3> DEFINE d == e * p
    <3>1. d \in Nat \ {0}
      BY <2>1, TimesPositive
    <3>2. q * d <= i
      <4>1. r * p \in Nat /\ s * p = p * s /\ s * p \in Nat
        BY <2>1, <2>2, <2>3
      <4>2. q * d \in Nat
        BY <2>3, <3>1
      <4> QED
        BY <2>2, <2>5, <4>1, <4>2
    <3>3. i < q * d + d
      <4>1. (s + 1) * p <= (q * e + e) * p
        <5>1. q * e + e \in Nat /\ s + 1 \in Nat /\ p <= p
          BY <2>1, <2>2, <2>3
        <5> QED
          BY <2>1, <2>4, <5>1, TimesOrder
      <4>2. (q * e + e) * p = q * d + d
        BY <2>1, <2>3
      <4>3. (s + 1) * p = p * s + p /\ p * s \in Nat
        BY <2>1, <2>2
      <4>4. q * d + d \in Nat
        BY <2>3, <3>1
      <4> QED
        BY <2>1, <2>2, <4>1, <4>2, <4>3, <4>4
    <3> HIDE DEF d
    <3>4. i \div d = q
      BY <2>3, <3>1, <3>2, <3>3, QuotientIs
    <3> QED
      BY <3>4 DEF d
  <2>7. h[k] = s * p /\ x[k] = r
    BY <1>2, <1>3 DEF s, p, r, e
  <2>8. h[k - 1] = q * (e * p)
    BY <1>3, <2>1, <2>6
  <2> QED
    BY <2>5, <2>7, <2>8 DEF p
<1>9. h[n] = i
  <2>1. n \in 0 .. n /\ P[n] = 1
    BY DEF Radix
  <2>2. 1 \in Nat \ {0} /\ i * 1 <= i /\ i < i * 1 + 1
    OBVIOUS
  <2>3. i \div 1 = i
    BY <2>2, QuotientIs
  <2> QED
    BY <1>3, <2>1, <2>3
<1>10. x \in [1 .. n -> Nat]
  BY <1>1, <1>5 DEF DigitsOf, x
<1>11. h \in [0 .. n -> Nat]
  BY <1>6 DEF HeadsOf, h
<1>12. Stands(n, P, x, h)
  BY <1>7, <1>8, <1>10, <1>11 DEF Stands
<1> QED
  BY <1>5, <1>9, <1>12 DEF x, h

\* Partial sums of a number's digits, by their weights.
Partial(n, x, P) == [k \in 0 .. n |-> SumFunctionOnSet([j \in 1 .. n |-> x[j] * P[j]], 1 .. k)]

LEMMA OneFurther ==
  ASSUME NEW n \in Nat, NEW g, Numbers(g, 1 .. n), NEW k \in 1 .. n
  PROVE  SumFunctionOnSet(g, 1 .. k) = SumFunctionOnSet(g, 1 .. k - 1) + g[k]
<1> DEFINE S == 1 .. k
           T == 1 .. k - 1
           s == SumFunctionOnSet(g, S)
           t == SumFunctionOnSet(g, T)
<1>1. k \in S /\ S \ {k} = T
  OBVIOUS
<1>2. IsFiniteSet(S) /\ Numbers(g, S)
  BY FS_Interval DEF Numbers
<1>3. g[k] \in Nat
  BY <1>1, <1>2 DEF Numbers
<1> HIDE DEF S, T
<1>4. SumFunctionOnSet(g, S) = g[k] + SumFunctionOnSet(g, S \ {k}) /\ SumFunctionOnSet(g, S \ {k}) \in Nat
  BY <1>1, <1>2, SumTake
<1>5. s = g[k] + t /\ t \in Nat
  BY <1>1, <1>4, Zenon
<1> HIDE DEF s, t
<1>6. s = t + g[k]
  BY <1>3, <1>5
<1> QED
  BY <1>6 DEF s, t, S, T

LEMMA PartialStands ==
  ASSUME NEW n \in Nat, NEW P \in [0 .. n -> Nat], NEW x \in [1 .. n -> Nat]
  PROVE  Stands(n, P, x, Partial(n, x, P))
<1> DEFINE g == [j \in 1 .. n |-> x[j] * P[j]]
           h == Partial(n, x, P)
<1>1. \A k \in 1 .. n : g[k] \in Nat /\ g[k] = x[k] * P[k]
  <2> SUFFICES ASSUME NEW k \in 1 .. n PROVE x[k] * P[k] \in Nat
    OBVIOUS
  <2>1. x[k] \in Nat /\ P[k] \in Nat
    OBVIOUS
  <2> QED
    BY <2>1
<1>2. DOMAIN h = 0 .. n /\ \A k \in 0 .. n : h[k] = SumFunctionOnSet(g, 1 .. k)
  BY DEF Partial
<1>a. h = [k \in 0 .. n |-> h[k]]
  BY DEF Partial
<1> HIDE DEF g, h
<1>3. \A k \in 0 .. n : IsFiniteSet(1 .. k) /\ Numbers(g, 1 .. k)
  <2> SUFFICES ASSUME NEW k \in 0 .. n PROVE IsFiniteSet(1 .. k) /\ Numbers(g, 1 .. k)
    OBVIOUS
  <2>1. Numbers(g, 1 .. k)
    BY <1>1 DEF Numbers
  <2> QED
    BY <2>1, FS_Interval
<1>4. \A k \in 0 .. n : h[k] \in Nat
  BY <1>2, <1>3, SumType
<1>5. h[0] = 0
  <2>1. 0 \in 0 .. n /\ 1 .. 0 = {}
    OBVIOUS
  <2> QED
    BY <1>2, <2>1, SumNone
<1>6. ASSUME NEW k \in 1 .. n
      PROVE  h[k] = h[k - 1] + x[k] * P[k]
  <2>1. k - 1 \in 0 .. n /\ k \in 0 .. n
    OBVIOUS
  <2>2. Numbers(g, 1 .. n)
    BY <1>1 DEF Numbers
  <2>3. SumFunctionOnSet(g, 1 .. k) = SumFunctionOnSet(g, 1 .. k - 1) + g[k]
    BY <2>2, OneFurther
  <2> QED
    BY <1>1, <1>2, <2>1, <2>3
<1>7. h \in [0 .. n -> Nat]
  BY <1>4, <1>a
<1> QED
  BY <1>5, <1>6, <1>7 DEF Stands, h

\* How many numbers the digits after each tell apart.
After(n, E) == [k \in 0 .. n |-> Product(E, k + 1 .. n)]

LEMMA AfterRadix ==
  ASSUME NEW n \in Nat, NEW E \in [1 .. n -> Nat \ {0}]
  PROVE  Radix(n, E, After(n, E))
<1> DEFINE P == After(n, E)
<1>1. \A k \in 0 .. n : P[k] = Product(E, k + 1 .. n)
  BY DEF After
<1>2. P = [k \in 0 .. n |-> P[k]]
  BY DEF After
<1> HIDE DEF P
<1>3. \A k \in 0 .. n : IsFiniteSet(k + 1 .. n) /\ Factors(E, k + 1 .. n)
  <2> SUFFICES ASSUME NEW k \in 0 .. n PROVE IsFiniteSet(k + 1 .. n) /\ Factors(E, k + 1 .. n)
    OBVIOUS
  <2>1. Factors(E, k + 1 .. n)
    BY DEF Factors
  <2> QED
    BY <2>1, FS_Interval
<1>4. \A k \in 0 .. n : P[k] \in Nat \ {0}
  BY <1>1, <1>3, ProductPositive
<1>5. P[n] = 1
  <2>1. n \in 0 .. n /\ n + 1 .. n = {}
    OBVIOUS
  <2> QED
    BY <1>1, <2>1, ProductNone
<1>6. ASSUME NEW k \in 1 .. n
      PROVE  P[k - 1] = E[k] * P[k]
  <2>0. k - 1 \in 0 .. n /\ k \in 0 .. n
    OBVIOUS
  <2> DEFINE S == k .. n
             T == k + 1 .. n
  <2>1. T \in SUBSET S /\ k \in S \ T /\ T \cup {k} = S /\ (k - 1) + 1 .. n = S
    OBVIOUS
  <2>2. IsFiniteSet(S) /\ Numbers(E, S)
    BY FS_Interval DEF Numbers
  <2>3. P[k - 1] = Product(E, S) /\ P[k] = Product(E, T)
    BY <1>1, <2>0, <2>1
  <2> HIDE DEF S, T
  <2>4. Product(E, T \cup {k}) = E[k] * Product(E, T)
    BY <2>1, <2>2, ProductMore
  <2> QED
    BY <2>1, <2>3, <2>4
<1> QED
  BY <1>2, <1>4, <1>5, <1>6 DEF Radix, P

\* The radices and digits of some of the places, S.
Only(E, S) == [k \in DOMAIN E |-> IF k \in S THEN E[k] ELSE 1]
Kept(x, S) == [k \in DOMAIN x |-> IF k \in S THEN x[k] ELSE 0]

\* What is left of a number when the other digits are left out.
Rank(n, E, P, S, i) == Partial(n, Kept(DigitsOf(i, E, P), S), After(n, Only(E, S)))[n]

\* An abbreviation for the heads of a rank.
Ranks(n, E, P, S, i) == Partial(n, Kept(DigitsOf(i, E, P), S), After(n, Only(E, S)))

LEMMA RankStands ==
  ASSUME NEW n \in Nat, NEW E, NEW P, Radix(n, E, P), NEW S, NEW i \in Nat, i < P[0]
  PROVE  /\ Radix(n, Only(E, S), After(n, Only(E, S)))
         /\ Stands(n, After(n, Only(E, S)), Kept(DigitsOf(i, E, P), S), Ranks(n, E, P, S, i))
         /\ \A k \in 1 .. n : Kept(DigitsOf(i, E, P), S)[k] < Only(E, S)[k]
         /\ Rank(n, E, P, S, i) = Ranks(n, E, P, S, i)[n]
         /\ Rank(n, E, P, S, i) \in Nat /\ Rank(n, E, P, S, i) < After(n, Only(E, S))[0]
<1> DEFINE e == Only(E, S)
           p == After(n, e)
           d == DigitsOf(i, E, P)
           x == Kept(d, S)
           h == Ranks(n, E, P, S, i)
<1>1. E \in [1 .. n -> Nat \ {0}] /\ DOMAIN E = 1 .. n
  BY DEF Radix
<1>2. e \in [1 .. n -> Nat \ {0}]
  BY <1>1 DEF Only
<1>3. d \in [1 .. n -> Nat] /\ \A k \in 1 .. n : d[k] < E[k]
  BY DigitsStand DEF Stands
<1>4. x \in [1 .. n -> Nat] /\ \A k \in 1 .. n : x[k] < e[k]
  <2> HIDE DEF d
  <2> QED
    BY <1>1, <1>3 DEF Kept, Only
<1>5. h = Partial(n, x, p)
  BY DEF Ranks
<1>6. Rank(n, E, P, S, i) = h[n]
  BY DEF Rank, Ranks
<1> HIDE DEF e, d, x, h
<1>7. Radix(n, e, p)
  BY <1>2, AfterRadix
<1> HIDE DEF p
<1>8. p \in [0 .. n -> Nat]
  BY <1>7 DEF Radix
<1>9. Stands(n, p, x, h)
  BY <1>4, <1>5, <1>8, PartialStands
<1>10. h[0] = 0 /\ h[n] \in Nat
  BY <1>9 DEF Stands
<1>11. h[n] < h[0] + p[0]
  <2>1. 0 \in 0 .. n
    OBVIOUS
  <2> QED
    BY <1>4, <1>7, <1>9, <2>1, TailBound
<1>12. h[n] < p[0]
  <2>1. p[0] \in Nat
    BY <1>8
  <2> QED
    BY <1>10, <1>11, <2>1
<1> QED
  BY <1>4, <1>6, <1>7, <1>9, <1>10, <1>12 DEF e, p, d, x, h

\* The digits that were kept are found again.
LEMMA RankTells ==
  ASSUME NEW n \in Nat, NEW E, NEW P, Radix(n, E, P), NEW S,
         NEW i \in Nat, i < P[0], NEW j \in Nat, j < P[0]
  PROVE  /\ Rank(n, E, P, S, i) = Rank(n, E, P, S, j)
              => \A k \in 1 .. n : k \in S => DigitsOf(i, E, P)[k] = DigitsOf(j, E, P)[k]
         /\ (\A k \in 1 .. n : k \in S => DigitsOf(i, E, P)[k] = DigitsOf(j, E, P)[k])
              => Rank(n, E, P, S, i) = Rank(n, E, P, S, j)
<1> DEFINE e == Only(E, S)
           p == After(n, e)
           dx == DigitsOf(i, E, P)
           dy == DigitsOf(j, E, P)
           x == Kept(dx, S)
           y == Kept(dy, S)
           h == Ranks(n, E, P, S, i)
           g == Ranks(n, E, P, S, j)
<1>1. /\ Radix(n, e, p) /\ Stands(n, p, x, h) /\ Stands(n, p, y, g)
      /\ \A k \in 1 .. n : x[k] < e[k] /\ y[k] < e[k]
      /\ Rank(n, E, P, S, i) = h[n] /\ Rank(n, E, P, S, j) = g[n]
  BY RankStands
<1>2. h = Partial(n, x, p) /\ g = Partial(n, y, p)
  BY DEF Ranks
<1>3. DOMAIN dx = 1 .. n /\ DOMAIN dy = 1 .. n
  BY DEF Radix, DigitsOf
<1>4. \A k \in 1 .. n : k \in S => x[k] = dx[k] /\ y[k] = dy[k]
  BY <1>3 DEF Kept
<1>5. (\A k \in 1 .. n : k \in S => dx[k] = dy[k]) => x = y
  BY <1>3 DEF Kept
<1> HIDE DEF e, p, dx, dy, x, y, h, g
<1>6. ASSUME h[n] = g[n], NEW k \in 1 .. n PROVE x[k] = y[k]
  <2>1. (h[n] \div p[k]) % e[k] = x[k]
    BY <1>1, DigitAt
  <2>2. (g[n] \div p[k]) % e[k] = y[k]
    BY <1>1, DigitAt
  <2> QED
    BY <1>6, <2>1, <2>2
<1>7. h[n] = g[n] => \A k \in 1 .. n : k \in S => dx[k] = dy[k]
  BY <1>4, <1>6
<1>8. (\A k \in 1 .. n : k \in S => dx[k] = dy[k]) => h[n] = g[n]
  BY <1>2, <1>5
<1> QED
  BY <1>1, <1>7, <1>8 DEF dx, dy

\* The digits from k on are cut off.
LEMMA CutOff ==
  ASSUME NEW n \in Nat, NEW E, NEW P, Radix(n, E, P), NEW x, NEW h, Stands(n, P, x, h),
         NEW y, NEW g, Stands(n, P, y, g), NEW k \in 1 .. n,
         \A j \in 1 .. n : y[j] = IF j < k THEN x[j] ELSE 0
  PROVE  g[n] = h[k - 1]
<1> DEFINE A == {j \in 0 .. n : g[j] = IF j < k THEN h[j] ELSE h[k - 1]}
<1>1. 0 \in A
  BY DEF Stands
<1>2. \A j \in A : j < n => j + 1 \in A
  <2> SUFFICES ASSUME NEW j \in 0 .. n, j < n, g[j] = IF j < k THEN h[j] ELSE h[k - 1]
               PROVE  g[j + 1] = IF j + 1 < k THEN h[j + 1] ELSE h[k - 1]
    OBVIOUS
  <2>1. j + 1 \in 1 .. n /\ (j + 1) - 1 = j /\ k - 1 \in 0 .. n
    OBVIOUS
  <2>2. g[j + 1] = g[j] + y[j + 1] * P[j + 1] /\ h[j + 1] = h[j] + x[j + 1] * P[j + 1]
    BY <2>1 DEF Stands
  <2>3. CASE j + 1 < k
    <3>1. y[j + 1] = x[j + 1] /\ g[j] = h[j]
      BY <2>1, <2>3
    <3> QED
      BY <2>2, <2>3, <3>1
  <2>4. CASE ~(j + 1 < k)
    <3>1. y[j + 1] = 0 /\ g[j] = h[k - 1]
      <4>1. CASE j < k
        <5>1. j = k - 1
          BY <2>4, <4>1
        <5> QED
          BY <2>1, <2>4, <4>1, <5>1
      <4>2. CASE ~(j < k)
        BY <2>1, <2>4, <4>2
      <4> QED
        BY <4>1, <4>2
    <3>2. P[j + 1] \in Nat /\ h[k - 1] \in Nat
      <4>1. P \in [0 .. n -> Nat \ {0}] /\ h \in [0 .. n -> Nat] /\ k - 1 \in 0 .. n
        BY <2>1 DEF Radix, Stands
      <4>2. j + 1 \in 0 .. n
        BY <2>1
      <4> QED
        BY <4>1, <4>2
    <3>3. 0 * P[j + 1] = 0
      BY <3>2
    <3> QED
      BY <2>2, <2>4, <3>1, <3>2, <3>3
  <2> QED
    BY <2>3, <2>4
<1> HIDE DEF A
<1>3. A = 0 .. n
  BY <1>1, <1>2, Climb DEF A
<1>4. n \in A /\ ~(n < k)
  BY <1>3
<1> QED
  BY <1>4 DEF A

\* The next number has a digit raised, and those after it start over.
NextAt(n, E, x, y, k) ==
  /\ x[k] + 1 < E[k]
  /\ \A j \in k + 1 .. n : x[j] = E[j] - 1
  /\ \A j \in 1 .. n : y[j] = IF j < k THEN x[j] ELSE IF j = k THEN x[j] + 1 ELSE 0

LEMMA NextDigits ==
  ASSUME NEW n \in Nat, NEW E, NEW P, Radix(n, E, P), NEW i \in Nat, i + 1 < P[0]
  PROVE  \E k \in 1 .. n : NextAt(n, E, DigitsOf(i, E, P), DigitsOf(i + 1, E, P), k)
<1> DEFINE x == DigitsOf(i, E, P)
           h == HeadsOf(n, i, P)
           K == {k \in 1 .. n : x[k] + 1 < E[k]}
<1>1. i < P[0]
  <2>1. P[0] \in Nat
    <3>1. 0 \in 0 .. n
      OBVIOUS
    <3> QED
      BY <3>1 DEF Radix
  <2> QED
    BY <2>1
<1>2. Stands(n, P, x, h) /\ h[n] = i /\ \A k \in 1 .. n : x[k] < E[k]
  BY <1>1, DigitsStand
<1>3. E \in [1 .. n -> Nat \ {0}] /\ P \in [0 .. n -> Nat \ {0}] /\ x \in [1 .. n -> Nat]
  BY <1>2 DEF Radix, Stands
<1> HIDE DEF x, h
<1>4. \A k \in 1 .. n : ~(x[k] + 1 < E[k]) => x[k] = E[k] - 1
  <2> SUFFICES ASSUME NEW k \in 1 .. n, ~(x[k] + 1 < E[k]) PROVE x[k] = E[k] - 1
    OBVIOUS
  <2>1. x[k] \in Nat /\ E[k] \in Nat /\ x[k] < E[k]
    BY <1>2, <1>3
  <2> QED
    BY <2>1
<1>5. K # {}
  <2> SUFFICES ASSUME K = {} PROVE FALSE
    OBVIOUS
  <2>1. \A j \in 0 + 1 .. n : x[j] = E[j] - 1
    BY <1>4
  <2>2. 0 \in 0 .. n
    OBVIOUS
  <2>3. h[n] + 1 = h[0] + P[0]
    BY <1>2, <2>1, <2>2, TailFull
  <2>4. h[0] = 0 /\ P[0] \in Nat
    BY <1>2, <1>3, <2>2 DEF Stands
  <2> QED
    BY <1>2, <2>3, <2>4
<1> DEFINE k == Max(K)
<1>6. k \in K /\ \A j \in K : j <= k
  <2>1. K \in SUBSET (1 .. n)
    OBVIOUS
  <2> HIDE DEF K
  <2> QED
    BY <1>5, <2>1, GreatestNumber
<1> HIDE DEF k
<1>7. k \in 1 .. n /\ x[k] + 1 < E[k]
  BY <1>6
<1>8. \A j \in k + 1 .. n : x[j] = E[j] - 1
  <2> SUFFICES ASSUME NEW j \in k + 1 .. n PROVE x[j] = E[j] - 1
    OBVIOUS
  <2>1. j \in 1 .. n /\ ~(j <= k)
    BY <1>7
  <2>2. j \notin K
    BY <1>6, <2>1
  <2> QED
    BY <1>4, <2>1, <2>2
<1> DEFINE y == [j \in 1 .. n |-> IF j < k THEN x[j] ELSE IF j = k THEN x[j] + 1 ELSE 0]
           g == Partial(n, y, P)
<1>9. y \in [1 .. n -> Nat] /\ \A j \in 1 .. n : y[j] = IF j < k THEN x[j] ELSE IF j = k THEN x[j] + 1 ELSE 0
  BY <1>3
<1>10. \A j \in 1 .. n : y[j] < E[j]
  <2> SUFFICES ASSUME NEW j \in 1 .. n PROVE y[j] < E[j]
    OBVIOUS
  <2>1. E[j] \in Nat \ {0} /\ x[j] < E[j]
    BY <1>2, <1>3
  <2> QED
    BY <1>7, <1>9, <2>1
<1> HIDE DEF y, g, K
<1>11. P \in [0 .. n -> Nat]
  BY <1>3
<1>12. Stands(n, P, y, g)
  BY <1>9, <1>11, PartialStands DEF g
<1>13. g[n] = i + 1
  <2>1. g[n] = h[n] + 1
    <3>1. \A j \in 1 .. n : y[j] = IF j < k THEN x[j] ELSE IF j = k THEN x[j] + 1 ELSE 0
      BY <1>9
    <3>2. k \in 1 .. n
      BY <1>7
    <3>3. Stands(n, P, x, h)
      BY <1>2
    <3> QED
      BY <1>8, <1>12, <3>1, <3>2, <3>3, Raised
  <2> QED
    BY <1>2, <2>1
<1>14. ASSUME NEW j \in 1 .. n PROVE DigitsOf(i + 1, E, P)[j] = y[j]
  <2>1. (g[n] \div P[j]) % E[j] = y[j]
    BY <1>10, <1>12, DigitAt
  <2>2. DigitsOf(i + 1, E, P)[j] = ((i + 1) \div P[j]) % E[j]
    BY <1>3 DEF DigitsOf
  <2> QED
    BY <1>13, <2>1, <2>2
<1>15. \A j \in 1 .. n : DigitsOf(i + 1, E, P)[j] = IF j < k THEN x[j] ELSE IF j = k THEN x[j] + 1 ELSE 0
  BY <1>9, <1>14
<1> QED
  <2> DEFINE z == DigitsOf(i + 1, E, P)
  <2>1. \A j \in 1 .. n : z[j] = IF j < k THEN x[j] ELSE IF j = k THEN x[j] + 1 ELSE 0
    BY <1>15
  <2> HIDE DEF z
  <2>2. NextAt(n, E, x, z, k)
    BY <1>7, <1>8, <2>1 DEF NextAt
  <2> QED
    BY <1>7, <2>2 DEF x, z

\* From one number to the next, the rank grows by one at most.
LEMMA RankNext ==
  ASSUME NEW n \in Nat, NEW E, NEW P, Radix(n, E, P), NEW S, NEW i \in Nat, i + 1 < P[0]
  PROVE  Rank(n, E, P, S, i + 1) <= Rank(n, E, P, S, i) + 1
<1> DEFINE e == Only(E, S)
           p == After(n, e)
           dx == DigitsOf(i, E, P)
           dy == DigitsOf(i + 1, E, P)
           x == Kept(dx, S)
           y == Kept(dy, S)
           h == Ranks(n, E, P, S, i)
           g == Ranks(n, E, P, S, i + 1)
<1>1. P[0] \in Nat /\ i + 1 \in Nat
  <2>1. 0 \in 0 .. n
    OBVIOUS
  <2> QED
    BY <2>1 DEF Radix
<1>2. i < P[0]
  BY <1>1
<1>3. /\ Radix(n, e, p) /\ Stands(n, p, x, h)
      /\ \A k \in 1 .. n : x[k] < e[k]
      /\ Rank(n, E, P, S, i) = h[n]
  BY <1>2, RankStands
<1>4. Stands(n, p, y, g) /\ Rank(n, E, P, S, i + 1) = g[n]
  BY <1>1, RankStands
<1>a. PICK k \in 1 .. n : NextAt(n, E, dx, dy, k)
  BY NextDigits
<1>5. /\ \A j \in k + 1 .. n : dx[j] = E[j] - 1
      /\ \A j \in 1 .. n : dy[j] = IF j < k THEN dx[j] ELSE IF j = k THEN dx[j] + 1 ELSE 0
  BY <1>a DEF NextAt
<1>6. DOMAIN dx = 1 .. n /\ DOMAIN dy = 1 .. n /\ DOMAIN E = 1 .. n
  BY DEF Radix, DigitsOf
<1> HIDE DEF dx, dy
<1>7. \A j \in 1 .. n : /\ x[j] = IF j \in S THEN dx[j] ELSE 0
                        /\ y[j] = IF j \in S THEN dy[j] ELSE 0
                        /\ e[j] = IF j \in S THEN E[j] ELSE 1
  BY <1>6 DEF Kept, Only
<1> HIDE DEF e, p, x, y, h, g
<1>8. CASE k \in S
  <2>1. \A j \in k + 1 .. n : x[j] = e[j] - 1
    <3> SUFFICES ASSUME NEW j \in k + 1 .. n PROVE x[j] = e[j] - 1
      OBVIOUS
    <3>1. j \in 1 .. n
      OBVIOUS
    <3> QED
      BY <1>5, <1>7, <3>1
  <2>2. \A j \in 1 .. n : y[j] = IF j < k THEN x[j] ELSE IF j = k THEN x[j] + 1 ELSE 0
    BY <1>5, <1>7, <1>8
  <2>3. g[n] = h[n] + 1
    BY <1>3, <1>4, <2>1, <2>2, Raised
  <2>4. h[n] \in Nat
    <3>1. n \in 0 .. n
      OBVIOUS
    <3> QED
      BY <1>3, <3>1 DEF Stands
  <2> QED
    BY <1>3, <1>4, <2>3, <2>4
<1>9. CASE k \notin S
  <2>1. \A j \in 1 .. n : y[j] = IF j < k THEN x[j] ELSE 0
    BY <1>5, <1>7, <1>9
  <2>2. g[n] = h[k - 1]
    BY <1>3, <1>4, <2>1, CutOff
  <2>3. k - 1 \in 0 .. n /\ n \in 0 .. n
    OBVIOUS
  <2>4. h[k - 1] <= h[n]
    BY <1>3, <2>3, TailBound
  <2>5. h[n] \in Nat /\ h[k - 1] \in Nat
    BY <1>3, <2>3 DEF Stands
  <2> QED
    BY <1>3, <1>4, <2>2, <2>4, <2>5
<1> QED
  BY <1>8, <1>9

\* The first number has rank 0, the last the largest.
LEMMA RankEnds ==
  ASSUME NEW n \in Nat, NEW E, NEW P, Radix(n, E, P), NEW S
  PROVE  /\ Rank(n, E, P, S, 0) = 0
         /\ Rank(n, E, P, S, P[0] - 1) + 1 = After(n, Only(E, S))[0]
<1> DEFINE e == Only(E, S)
           p == After(n, e)
<1>0. 0 \in 0 .. n /\ n \in 0 .. n
  OBVIOUS
<1>1. P[0] \in Nat \ {0} /\ E \in [1 .. n -> Nat \ {0}]
  BY <1>0 DEF Radix
<1>2. Rank(n, E, P, S, 0) = 0
  <2> DEFINE d == DigitsOf(0, E, P)
             x == Kept(d, S)
             h == Ranks(n, E, P, S, 0)
             hd == HeadsOf(n, 0, P)
  <2>0. 0 < P[0] /\ 0 \in Nat
    BY <1>1
  <2>1. /\ Radix(n, e, p) /\ Stands(n, p, x, h) /\ Rank(n, E, P, S, 0) = h[n]
    BY <2>0, RankStands
  <2>2. \A k \in 1 .. n : d[k] = 0
    <3> SUFFICES ASSUME NEW k \in 1 .. n PROVE (0 \div P[k]) % E[k] = 0
      BY <1>1 DEF DigitsOf
    <3>1. P[k] \in Nat \ {0} /\ E[k] \in Nat \ {0}
      BY DEF Radix
    <3> DEFINE u == P[k]
               v == E[k]
    <3>2. u \in Nat \ {0} /\ v \in Nat \ {0}
      BY <3>1
    <3> HIDE DEF u, v
    <3>3. 0 \div u = 0
      <4>1. 0 * u = 0
        BY <3>2
      <4>2. 0 * u <= 0 /\ 0 < 0 * u + u
        BY <3>2, <4>1
      <4> QED
        BY <3>2, <4>2, QuotientIs
    <3>4. 0 % v = 0
      <4>1. 0 % v = 0 - v * (0 \div v) /\ 0 \div v \in Nat /\ v * (0 \div v) <= 0 /\ 0 % v \in 0 .. v - 1
        BY <3>2, Divides
      <4> DEFINE z == v * (0 \div v)
      <4>2. z \in Nat
        BY <3>2, <4>1
      <4> HIDE DEF z
      <4>3. 0 % v = 0 - z /\ z <= 0 /\ 0 % v \in 0 .. v - 1
        BY <4>1 DEF z
      <4> QED
        BY <3>2, <4>2, <4>3
    <3> QED
      BY <3>3, <3>4 DEF u, v
  <2>3. DOMAIN d = 1 .. n
    BY <1>1 DEF DigitsOf
  <2> HIDE DEF d
  <2>4. \A k \in 1 .. n : x[k] = 0
    BY <2>2, <2>3 DEF Kept
  <2> HIDE DEF e, p, x, h
  <2> DEFINE A == {k \in 0 .. n : h[k] = 0}
  <2>5. 0 \in A
    BY <2>1 DEF Stands
  <2>6. \A k \in A : k < n => k + 1 \in A
    <3> SUFFICES ASSUME NEW k \in 0 .. n, h[k] = 0, k < n PROVE h[k + 1] = 0
      OBVIOUS
    <3>1. k + 1 \in 1 .. n /\ (k + 1) - 1 = k /\ k + 1 \in 0 .. n
      OBVIOUS
    <3>2. h[k + 1] = h[k] + x[k + 1] * p[k + 1]
      BY <2>1, <3>1 DEF Stands
    <3>3. x[k + 1] = 0
      BY <2>4, <3>1
    <3>4. p[k + 1] \in Nat
      BY <2>1, <3>1 DEF Radix
    <3>5. 0 * p[k + 1] = 0
      BY <3>4
    <3> QED
      BY <3>2, <3>3, <3>5
  <2> HIDE DEF A
  <2>7. A = 0 .. n
    BY <2>5, <2>6, Climb DEF A
  <2>8. h[n] = 0
    BY <1>0, <2>7 DEF A
  <2> QED
    BY <2>1, <2>8
<1>3. Rank(n, E, P, S, P[0] - 1) + 1 = p[0]
  <2> DEFINE i == P[0] - 1
             d == DigitsOf(i, E, P)
             x == Kept(d, S)
             h == Ranks(n, E, P, S, i)
  <2>0. i \in Nat /\ i < P[0] /\ i + 1 = P[0]
    BY <1>1
  <2> HIDE DEF i
  <2>1. /\ Radix(n, e, p) /\ Stands(n, p, x, h) /\ Rank(n, E, P, S, i) = h[n]
    BY <2>0, RankStands
  <2>2. Stands(n, P, d, HeadsOf(n, i, P)) /\ HeadsOf(n, i, P)[n] = i /\ \A k \in 1 .. n : d[k] < E[k]
    BY <2>0, DigitsStand
  <2> DEFINE hd == HeadsOf(n, i, P)
  <2> HIDE DEF d, hd
  <2>3. \A k \in 1 .. n : d[k] = E[k] - 1
    <3> DEFINE y == [k \in 1 .. n |-> E[k] - 1]
               g == Partial(n, y, P)
    <3>1. y \in [1 .. n -> Nat] /\ \A k \in 1 .. n : y[k] = E[k] - 1 /\ y[k] < E[k]
      BY <1>1
    <3>2. P \in [0 .. n -> Nat]
      BY DEF Radix
    <3> HIDE DEF y, g
    <3>3. Stands(n, P, y, g)
      BY <3>1, <3>2, PartialStands DEF g
    <3>4. \A j \in 0 + 1 .. n : y[j] = E[j] - 1
      BY <3>1
    <3>5. g[n] + 1 = g[0] + P[0]
      BY <1>0, <3>3, <3>4, TailFull
    <3>6. g[0] = 0 /\ g[n] \in Nat
      BY <1>0, <3>3 DEF Stands
    <3>7. g[n] = i
      BY <1>1, <2>0, <3>5, <3>6
    <3> SUFFICES ASSUME NEW k \in 1 .. n PROVE d[k] = E[k] - 1
      OBVIOUS
    <3>8. (g[n] \div P[k]) % E[k] = y[k]
      <4>1. \A j \in 1 .. n : y[j] < E[j]
        BY <3>1
      <4> QED
        BY <3>3, <4>1, DigitAt
    <3>9. d[k] = (i \div P[k]) % E[k]
      BY <1>1 DEF d, DigitsOf
    <3> QED
      BY <3>1, <3>7, <3>8, <3>9
  <2>4. DOMAIN d = 1 .. n /\ DOMAIN E = 1 .. n
    BY <1>1 DEF d, DigitsOf
  <2>5. \A k \in 1 .. n : x[k] = e[k] - 1
    BY <2>3, <2>4 DEF Kept, Only
  <2> HIDE DEF e, p, x, h
  <2>6. \A j \in 0 + 1 .. n : x[j] = e[j] - 1
    BY <2>5
  <2>7. h[n] + 1 = h[0] + p[0]
    BY <1>0, <2>1, <2>6, TailFull
  <2>8. h[0] = 0 /\ p[0] \in Nat
    BY <1>0, <2>1 DEF Stands, Radix
  <2> QED
    BY <2>1, <2>7, <2>8 DEF i
<1> QED
  BY <1>2, <1>3

\* Where the first c places are all kept, or tell nothing apart, the rank and the
\* number agree on them.
LEMMA RankHead ==
  ASSUME NEW n \in Nat, NEW E, NEW P, Radix(n, E, P), NEW S, NEW i \in Nat, i < P[0],
         NEW c \in 0 .. n, \A k \in 1 .. c : k \in S \/ E[k] = 1
  PROVE  Rank(n, E, P, S, i) \div After(n, Only(E, S))[c] = i \div P[c]
<1> DEFINE e == Only(E, S)
           p == After(n, e)
           d == DigitsOf(i, E, P)
           hd == HeadsOf(n, i, P)
           x == Kept(d, S)
           h == Ranks(n, E, P, S, i)
<1>1. /\ Radix(n, e, p) /\ Stands(n, p, x, h) /\ \A k \in 1 .. n : x[k] < e[k]
      /\ Rank(n, E, P, S, i) = h[n]
  BY RankStands
<1>2. Stands(n, P, d, hd) /\ hd[n] = i /\ \A k \in 1 .. n : d[k] < E[k]
  BY DigitsStand
<1>3. DOMAIN d = 1 .. n /\ DOMAIN E = 1 .. n /\ E \in [1 .. n -> Nat \ {0}]
  BY DEF DigitsOf, Radix
<1> HIDE DEF d, hd
<1>4. \A k \in 1 .. n : /\ x[k] = IF k \in S THEN d[k] ELSE 0
                        /\ e[k] = IF k \in S THEN E[k] ELSE 1
  BY <1>3 DEF Kept, Only
<1> HIDE DEF e, p, x, h
<1>5. \A k \in 1 .. c : x[k] = d[k] /\ e[k] = E[k]
  <2> SUFFICES ASSUME NEW k \in 1 .. c PROVE x[k] = d[k] /\ e[k] = E[k]
    OBVIOUS
  <2>1. k \in 1 .. n
    OBVIOUS
  <2>2. d[k] \in Nat /\ E[k] \in Nat /\ d[k] < E[k]
    BY <1>2, <1>3, <2>1 DEF Stands
  <2> QED
    BY <1>4, <2>1, <2>2
<1> DEFINE A == {k \in 0 .. c : \E q \in Nat : h[k] = q * p[k] /\ hd[k] = q * P[k]}
<1>6. 0 \in A
  <2>1. 0 \in 0 .. n /\ 0 \in 0 .. c
    OBVIOUS
  <2>2. h[0] = 0 /\ hd[0] = 0 /\ p[0] \in Nat /\ P[0] \in Nat
    BY <1>1, <1>2, <2>1 DEF Stands, Radix
  <2>3. 0 * p[0] = 0 /\ 0 * P[0] = 0
    BY <2>2
  <2> QED
    BY <2>1, <2>2, <2>3
<1>7. \A k \in A : k < c => k + 1 \in A
  <2> SUFFICES ASSUME NEW k \in 0 .. c, NEW q \in Nat, h[k] = q * p[k], hd[k] = q * P[k], k < c
               PROVE  \E r \in Nat : h[k + 1] = r * p[k + 1] /\ hd[k + 1] = r * P[k + 1]
    OBVIOUS
  <2>1. k + 1 \in 1 .. n /\ (k + 1) - 1 = k /\ k + 1 \in 1 .. c /\ k + 1 \in 0 .. n
    OBVIOUS
  <2> DEFINE f == E[k + 1]
             u == p[k + 1]
             v == P[k + 1]
             y == d[k + 1]
  <2>2. h[k + 1] = h[k] + y * u /\ p[k] = f * u
    BY <1>1, <1>5, <2>1 DEF Stands, Radix
  <2>3. hd[k + 1] = hd[k] + y * v /\ P[k] = f * v
    BY <1>2, <2>1 DEF Stands, Radix
  <2>4. f \in Nat /\ u \in Nat /\ v \in Nat /\ y \in Nat
    BY <1>1, <1>2, <1>3, <2>1 DEF Stands, Radix
  <2> HIDE DEF f, u, v, y
  <2>5. h[k + 1] = q * (f * u) + y * u /\ hd[k + 1] = q * (f * v) + y * v
    BY <2>2, <2>3
  <2> DEFINE r == q * f + y
  <2>6. r \in Nat /\ q * (f * u) + y * u = r * u /\ q * (f * v) + y * v = r * v
    BY <2>4
  <2> HIDE DEF r
  <2> QED
    BY <2>5, <2>6 DEF u, v
<1> HIDE DEF A
<1>8. A = 0 .. c
  <2>1. c \in Nat /\ A \in SUBSET (0 .. c)
    BY DEF A
  <2> QED
    BY <1>6, <1>7, <2>1, Climb
<1>9. PICK q \in Nat : h[c] = q * p[c] /\ hd[c] = q * P[c]
  BY <1>8 DEF A
<1>10. h[c] <= h[n] /\ h[n] < h[c] + p[c]
  BY <1>1, TailBound
<1>11. hd[c] <= hd[n] /\ hd[n] < hd[c] + P[c]
  BY <1>2, TailBound
<1>12. p[c] \in Nat \ {0} /\ P[c] \in Nat \ {0} /\ h[n] \in Nat
  <2>1. n \in 0 .. n
    OBVIOUS
  <2> QED
    BY <1>1, <2>1 DEF Stands, Radix
<1>13. h[n] \div p[c] = q
  BY <1>9, <1>10, <1>12, QuotientIs
<1>14. i \div P[c] = q
  BY <1>2, <1>9, <1>11, <1>12, QuotientIs
<1> QED
  BY <1>1, <1>13, <1>14 DEF p, e

-----------------------------------------------------------------------------
(* The tiles of a tensor in the order they are first touched.              *)

\* A number for every place; one place more than those in T.
Numbered(n, g) == Numbers(g, 1 .. n)
Further(n, T, x) == T \in SUBSET (1 .. n) /\ x \in (1 .. n) \ T

LEMMA PlaceMore ==
  ASSUME NEW n \in Nat, NEW g, Numbered(n, g), NEW T, NEW x, Further(n, T, x)
  PROVE  /\ Product(g, T \cup {x}) = g[x] * Product(g, T)
         /\ Product(g, T) \in Nat /\ g[x] \in Nat
<1> DEFINE S == 1 .. n
<1>1. IsFiniteSet(S) /\ Numbers(g, S) /\ T \in SUBSET S /\ x \in S \ T
  BY FS_Interval DEF Further, Numbered
<1> HIDE DEF S
<1> QED
  BY <1>1, ProductMore

\* What the places of the dimensions in R multiply.
Chosen(f, R) == [k \in 1 .. 7 |-> IF Dims[k] \in R THEN f[Dims[k]] ELSE 1]

\* The dimensions in R of some places.
DimsAt(A, R) == {Dims[k] : k \in A} \cap R

LEMMA DimsMore ==
  ASSUME NEW f, Numbers(f, DimSet), NEW R, NEW T, NEW x, Further(7, T, x),
         Product(Chosen(f, R), T) = Product(f, DimsAt(T, R))
  PROVE  Product(Chosen(f, R), T \cup {x}) = Product(f, DimsAt(T \cup {x}, R))
<1> DEFINE g == Chosen(f, R)
           U == DimsAt(T, R)
           V == DimsAt(T \cup {x}, R)
<1>0. T \in SUBSET (1 .. 7) /\ x \in (1 .. 7) \ T
  BY DEF Further
<1>1. /\ \A k \in 1 .. 7 : Dims[k] \in DimSet
      /\ \A j, k \in 1 .. 7 : Dims[j] = Dims[k] => j = k
  BY DimsShape
<1>2. \A k \in 1 .. 7 : g[k] = IF Dims[k] \in R THEN f[Dims[k]] ELSE 1
  BY DEF Chosen
<1> HIDE DEF g
<1>3. Numbered(7, g)
  BY <1>1, <1>2 DEF Numbers, Numbered
<1>4. Product(g, T \cup {x}) = g[x] * Product(g, T) /\ Product(g, T) \in Nat /\ g[x] \in Nat
  <2>1. 7 \in Nat
    OBVIOUS
  <2> QED
    BY <1>3, <2>1, PlaceMore
<1>5. CASE Dims[x] \in R
  <2> DEFINE y == Dims[x]
  <2>1. U \in SUBSET DimSet /\ y \in DimSet \ U /\ V = U \cup {y}
    BY <1>0, <1>1, <1>5 DEF DimsAt
  <2>2. g[x] = f[y]
    BY <1>0, <1>2, <1>5
  <2> HIDE DEF U, V, y
  <2>3. Product(f, U \cup {y}) = f[y] * Product(f, U)
    BY <2>1, DimSetFinite, ProductMore
  <2>4. Product(f, V) = g[x] * Product(g, T)
    BY <2>1, <2>2, <2>3 DEF U, g
  <2> QED
    BY <1>4, <2>4 DEF V, g
<1>6. CASE Dims[x] \notin R
  <2>1. V = U
    BY <1>6 DEF DimsAt
  <2>2. g[x] = 1
    BY <1>0, <1>2, <1>6
  <2> DEFINE w == Product(g, T)
  <2>3. w \in Nat /\ Product(g, T \cup {x}) = 1 * w /\ Product(f, V) = w
    BY <1>4, <2>1, <2>2 DEF g
  <2> HIDE DEF w, V
  <2>4. Product(g, T \cup {x}) = Product(f, V)
    BY <2>3
  <2> QED
    BY <2>4 DEF V, g
<1> QED
  BY <1>5, <1>6

\* Factors that are 1 can be left out, and the loops taken in any order.
LEMMA ProductDims ==
  ASSUME NEW f, Numbers(f, DimSet), NEW R, NEW A \in SUBSET (1 .. 7)
  PROVE  Product(Chosen(f, R), A) = Product(f, DimsAt(A, R))
<1> DEFINE P == {T \in SUBSET (1 .. 7) : Product(Chosen(f, R), T) = Product(f, DimsAt(T, R))}
<1>1. {} \in P
  <2>1. DimsAt({}, R) = {}
    BY DEF DimsAt
  <2> QED
    BY <2>1, ProductNone
<1>2. ASSUME NEW T \in P, NEW x \in (1 .. 7) \ T PROVE T \cup {x} \in P
  <2>1. T \in SUBSET (1 .. 7) /\ Product(Chosen(f, R), T) = Product(f, DimsAt(T, R))
    OBVIOUS
  <2>2. Further(7, T, x)
    BY <2>1 DEF Further
  <2>3. Product(Chosen(f, R), T \cup {x}) = Product(f, DimsAt(T \cup {x}, R))
    BY <2>1, <2>2, DimsMore
  <2> QED
    BY <2>1, <2>3
<1>3. P \in SUBSET SUBSET (1 .. 7)
  OBVIOUS
<1> HIDE DEF P
<1>4. IsFiniteSet(1 .. 7)
  <2>1. \A n \in Nat : IsFiniteSet(1 .. n)
    BY FS_Interval
  <2> QED
    BY <2>1
<1>5. P = SUBSET (1 .. 7)
  BY <1>1, <1>2, <1>3, <1>4, EverySubset
<1>6. A \in P
  BY <1>5
<1> QED
  BY <1>6 DEF P

\* The loops of a tile walk, and what the tiles of a tensor are told apart by.
TileRadices(m) == [k \in 1 .. 7 |-> m.bound[1][Dims[k]]]
TilePlaces(m) == [k \in 0 .. 7 |-> Period(m, LevelNest(1), k)]
KeptLoops(m, t) == {k \in 1 .. 7 : Dims[k] \in Related(m, t)}
TileRank(m, t, i) == Rank(7, TileRadices(m), TilePlaces(m), KeptLoops(m, t), i)
RankPlaces(m, t) == After(7, Only(TileRadices(m), KeptLoops(m, t)))

LEMMA TileNest ==
  ASSUME NEW m, MappingTyped(m)
  PROVE  /\ Radix(7, TileRadices(m), TilePlaces(m))
         /\ TilePlaces(m)[0] = ProductLevel(m, 1)
         /\ Iterations(m, LevelNest(1)) = ProductLevel(m, 1)
         /\ ProductLevel(m, 1) \in Nat \ {0}
<1> DEFINE E == TileRadices(m)
           nest == LevelNest(1)
<1>0. Top(m) \in Nat \ {0, 1} /\ 1 \in 0 .. Top(m)
  <2>1. Top(m) \in Nat \ {0, 1}
    BY MappingFields
  <2> QED
    BY <2>1
<1>1. m.bound[1] \in [DimSet -> Nat \ {0}]
  BY <1>0, MappingFields
<1>2. E \in [1 .. 7 -> Nat \ {0}]
  BY <1>1, DimsShape DEF TileRadices
<1>3. DOMAIN nest = 1 .. 7 /\ Len(nest) = 7
  BY DimsShape DEF LevelNest
<1>4. [i \in DOMAIN nest |-> Extent(m, nest[i])] = E
  BY <1>3, DimsShape DEF TileRadices, Extent, LevelNest
<1>5. \A k \in 0 .. 7 : Period(m, nest, k) = Product(E, k + 1 .. 7)
  BY <1>3, <1>4 DEF Period
<1>6. TilePlaces(m) = After(7, E)
  BY <1>5 DEF TilePlaces, After
<1>7. Radix(7, E, TilePlaces(m))
  BY <1>2, <1>6, AfterRadix
<1>8. ProductLevel(m, 1) \in Nat \ {0}
  BY <1>0, LevelTyped
<1>9. Product(E, 1 .. 7) = ProductLevel(m, 1)
  <2> DEFINE f == m.bound[1]
  <2>1. Numbers(f, DimSet)
    BY <1>1 DEF Numbers
  <2>2. Chosen(f, DimSet) = E
    BY DimsShape DEF TileRadices, Chosen
  <2>3. DimsAt(1 .. 7, DimSet) = DimSet
    BY DimsShape DEF DimsAt
  <2> HIDE DEF f, E
  <2>4. Product(E, 1 .. 7) = Product(f, DimSet)
    BY <2>1, <2>2, <2>3, ProductDims
  <2> QED
    BY <2>4 DEF f, ProductLevel
<1>10. TilePlaces(m)[0] = Product(E, 1 .. 7) /\ Iterations(m, nest) = Product(E, 1 .. 7)
  <2>1. 0 \in 0 .. 7 /\ 0 + 1 = 1
    OBVIOUS
  <2> QED
    BY <1>5, <2>1 DEF TilePlaces, Iterations
<1> QED
  BY <1>7, <1>8, <1>9, <1>10

\* The values of the loops are the digits of the access.
LEMMA TileValues ==
  ASSUME NEW m, MappingTyped(m), NEW i \in Nat, NEW k \in 1 .. 7
  PROVE  /\ ValuesAt(m, LevelNest(1), i, 1)[Dims[k]] = DigitsOf(i, TileRadices(m), TilePlaces(m))[k]
         /\ ValuesAt(m, LevelNest(1), i, 1)[Dims[k]] \in 0 .. m.bound[1][Dims[k]] - 1
<1> DEFINE nest == LevelNest(1)
           d == Dims[k]
<1>1. DOMAIN nest = 1 .. 7 /\ \A j \in 1 .. 7 : nest[j] = << 1, Dims[j] >>
  BY DimsShape DEF LevelNest
<1>2. \E j \in DOMAIN nest : nest[j] = << 1, d >>
  BY <1>1
<1>3. \A j \in DOMAIN nest : nest[j] = << 1, d >> => j = k
  BY <1>1, DimsShape
<1>4. (CHOOSE j \in DOMAIN nest : nest[j] = << 1, d >>) = k
  BY <1>2, <1>3
<1>5. d \in DimSet
  BY DimsShape
<1>6. ValuesAt(m, nest, i, 1)[d] = (i \div Period(m, nest, k)) % Extent(m, nest[k])
  BY <1>2, <1>4, <1>5 DEF ValuesAt
<1>7. Extent(m, nest[k]) = m.bound[1][d]
  BY <1>1 DEF Extent
<1>8. DigitsOf(i, TileRadices(m), TilePlaces(m))[k] = (i \div Period(m, nest, k)) % m.bound[1][d]
  BY DEF DigitsOf, TileRadices, TilePlaces
<1>9. Period(m, nest, k) \in Nat \ {0} /\ m.bound[1][d] \in Nat \ {0}
  <2>1. Radix(7, TileRadices(m), TilePlaces(m))
    BY TileNest
  <2>2. TilePlaces(m)[k] \in Nat \ {0} /\ TileRadices(m)[k] \in Nat \ {0}
    BY <2>1 DEF Radix
  <2> QED
    BY <2>2 DEF TilePlaces, TileRadices
<1> DEFINE u == Period(m, nest, k)
           v == m.bound[1][d]
           q == i \div u
<1>10. q \in Nat
  BY <1>9, Divides
<1> HIDE DEF q
<1>11. q % v \in 0 .. v - 1
  BY <1>9, <1>10, Divides
<1> QED
  BY <1>6, <1>7, <1>8, <1>11 DEF q

LEMMA RankPlacesAre ==
  ASSUME NEW m, MappingTyped(m), NEW t \in Tensors, NEW k \in 0 .. 7
  PROVE  /\ RankPlaces(m, t)[k] = Product(m.bound[1], DimsAt(k + 1 .. 7, Related(m, t)))
         /\ RankPlaces(m, t)[k] \in Nat \ {0}
<1> DEFINE E == TileRadices(m)
           S == KeptLoops(m, t)
           f == m.bound[1]
           R == Related(m, t)
<1>0. 1 \in 0 .. Top(m)
  <2>1. Top(m) \in Nat \ {0, 1}
    BY MappingFields
  <2> QED
    BY <2>1
<1>1. f \in [DimSet -> Nat \ {0}]
  BY <1>0, MappingFields
<1>2. Numbers(f, DimSet)
  BY <1>1 DEF Numbers
<1>3. Only(E, S) = Chosen(f, R)
  BY DEF Only, TileRadices, KeptLoops, Chosen
<1>4. RankPlaces(m, t)[k] = Product(Only(E, S), k + 1 .. 7)
  BY DEF RankPlaces, After
<1>5. k + 1 .. 7 \in SUBSET (1 .. 7)
  OBVIOUS
<1> HIDE DEF f, E, S, R
<1>6. Product(Only(E, S), k + 1 .. 7) = Product(f, DimsAt(k + 1 .. 7, R))
  BY <1>2, <1>3, <1>5, ProductDims
<1>7. DimsAt(k + 1 .. 7, R) \in SUBSET DimSet
  <2>1. R \in SUBSET DimSet
    BY RelatedDims DEF R
  <2> QED
    BY <2>1 DEF DimsAt
<1>8. Product(f, DimsAt(k + 1 .. 7, R)) \in Nat \ {0}
  BY <1>0, <1>7, LevelTyped DEF f
<1> QED
  BY <1>4, <1>6, <1>8 DEF f, R

LEMMA SumOne ==
  ASSUME NEW f, NEW d, f[d] \in Nat
  PROVE  SumFunctionOnSet(f, {d}) = f[d]
<1> DEFINE S == {d}
<1>1. d \in S /\ S \ {d} = {}
  OBVIOUS
<1>2. IsFiniteSet(S) /\ Numbers(f, S)
  BY FS_Singleton DEF Numbers
<1> HIDE DEF S
<1>3. SumFunctionOnSet(f, S) = f[d] + SumFunctionOnSet(f, S \ {d})
  BY <1>1, <1>2, SumTake
<1>4. SumFunctionOnSet(f, {}) = 0
  BY SumNone
<1> QED
  BY <1>1, <1>3, <1>4 DEF S

\* The values of the loops of level 1 in an iteration.
LoopsAt(m, i) == ValuesAt(m, LevelNest(1), i, 1)

LEMMA LoopsTyped ==
  ASSUME NEW m, MappingTyped(m), NEW i \in Nat
  PROVE  \A d \in DimSet : LoopsAt(m, i)[d] \in Nat /\ LoopsAt(m, i)[d] \in 0 .. m.bound[1][d] - 1
<1> SUFFICES ASSUME NEW d \in DimSet
             PROVE  LoopsAt(m, i)[d] \in Nat /\ LoopsAt(m, i)[d] \in 0 .. m.bound[1][d] - 1
  OBVIOUS
<1>1. PICK k \in 1 .. 7 : Dims[k] = d
  BY DimsShape
<1>2. LoopsAt(m, i)[Dims[k]] \in 0 .. m.bound[1][Dims[k]] - 1
  BY TileValues DEF LoopsAt
<1> QED
  BY <1>1, <1>2

LEMMA IndexTyped ==
  ASSUME NEW m, MappingTyped(m), NEW t \in Tensors
  PROVE  /\ m.index[t] \in Seq(SUBSET DimSet)
         /\ DOMAIN m.index[t] = 1 .. Len(m.index[t])
         /\ \A x \in DOMAIN m.index[t] :
              /\ m.index[t][x] \in Range(m.index[t]) /\ m.index[t][x] \in SUBSET DimSet
              /\ m.index[t][x] \in SUBSET Related(m, t)
         /\ \A e \in Range(m.index[t]) : \E x \in DOMAIN m.index[t] : m.index[t][x] = e
<1>1. m.index[t] \in Seq(SUBSET DimSet)
  BY MappingFields
<1> DEFINE s == m.index[t]
<1>2. DOMAIN s = 1 .. Len(s) /\ \A x \in DOMAIN s : s[x] \in SUBSET DimSet
  BY <1>1
<1>3. \A x \in DOMAIN s : s[x] \in Range(s)
  BY DEF Range
<1>4. \A e \in Range(s) : \E x \in DOMAIN s : s[x] = e
  BY DEF Range
<1>5. Related(m, t) = UNION Range(s)
  BY DEF Related
<1> HIDE DEF s
<1>6. \A x \in DOMAIN s : s[x] \in SUBSET Related(m, t)
  BY <1>3, <1>5
<1> QED
  BY <1>1, <1>2, <1>3, <1>4, <1>6 DEF s

\* A tile of F or Out is told by the loops it is indexed by.
LEMMA SameTile ==
  ASSUME NEW m, MappingTyped(m), Convolves(m), NEW t \in {"F", "Out"}, NEW i \in Nat, NEW j \in Nat
  PROVE  TileAt(m, t, i) = TileAt(m, t, j)
           <=> \A d \in Related(m, t) : LoopsAt(m, i)[d] = LoopsAt(m, j)[d]
<1> DEFINE s == m.index[t]
           u == LoopsAt(m, i)
           v == LoopsAt(m, j)
<1>0. t \in Tensors
  BY DEF Tensors
<1>1. TileAt(m, t, i) = [x \in DOMAIN s |-> SumFunctionOnSet(u, s[x])]
      /\ TileAt(m, t, j) = [x \in DOMAIN s |-> SumFunctionOnSet(v, s[x])]
  BY DEF TileAt, Indices, LoopsAt
<1>2. \A d \in DimSet : u[d] \in Nat /\ v[d] \in Nat
  BY LoopsTyped
<1>3. \A x \in DOMAIN s : \E d \in DimSet : s[x] = {d} /\ d \in Related(m, t)
  <2> SUFFICES ASSUME NEW x \in DOMAIN s PROVE \E d \in DimSet : s[x] = {d} /\ d \in Related(m, t)
    OBVIOUS
  <2>1. s[x] \in Range(m.index[t]) /\ s[x] \in SUBSET Related(m, t)
    BY <1>0, IndexTyped
  <2>2. \E d \in DimSet : s[x] = {d}
    BY <2>1 DEF Convolves
  <2> QED
    BY <2>1, <2>2
<1>4. \A d \in Related(m, t) : d \in DimSet /\ \E x \in DOMAIN s : s[x] = {d}
  <2> SUFFICES ASSUME NEW d \in Related(m, t) PROVE d \in DimSet /\ \E x \in DOMAIN s : s[x] = {d}
    OBVIOUS
  <2>1. PICK e \in Range(m.index[t]) : d \in e
    BY DEF Related
  <2>2. PICK x \in DOMAIN s : s[x] = e
    BY <1>0, <2>1, IndexTyped
  <2>3. \E c \in DimSet : s[x] = {c}
    BY <1>3
  <2> QED
    BY <2>1, <2>2, <2>3
<1> HIDE DEF s, u, v
<1>5. ASSUME NEW d \in DimSet
      PROVE  SumFunctionOnSet(u, {d}) = u[d] /\ SumFunctionOnSet(v, {d}) = v[d]
  BY <1>2, SumOne
<1>6. ASSUME TileAt(m, t, i) = TileAt(m, t, j), NEW d \in Related(m, t)
      PROVE  u[d] = v[d]
  <2>1. PICK x \in DOMAIN s : s[x] = {d}
    BY <1>4
  <2>2. SumFunctionOnSet(u, s[x]) = SumFunctionOnSet(v, s[x])
    BY <1>1, <1>6
  <2> QED
    BY <1>4, <1>5, <2>1, <2>2
<1>7. ASSUME \A d \in Related(m, t) : u[d] = v[d]
      PROVE  TileAt(m, t, i) = TileAt(m, t, j)
  <2>1. \A x \in DOMAIN s : SumFunctionOnSet(u, s[x]) = SumFunctionOnSet(v, s[x])
    <3> SUFFICES ASSUME NEW x \in DOMAIN s PROVE SumFunctionOnSet(u, s[x]) = SumFunctionOnSet(v, s[x])
      OBVIOUS
    <3>1. PICK d \in DimSet : s[x] = {d} /\ d \in Related(m, t)
      BY <1>3
    <3> QED
      BY <1>5, <1>7, <3>1
  <2> QED
    BY <1>1, <2>1
<1> QED
  BY <1>6, <1>7 DEF u, v

\* The tiles of F and Out are numbered by their rank.
LEMMA TileRankTells ==
  ASSUME NEW m, MappingTyped(m), Convolves(m), NEW t \in {"F", "Out"},
         NEW i \in Nat, i < ProductLevel(m, 1), NEW j \in Nat, j < ProductLevel(m, 1)
  PROVE  TileAt(m, t, i) = TileAt(m, t, j) <=> TileRank(m, t, i) = TileRank(m, t, j)
<1> DEFINE E == TileRadices(m)
           P == TilePlaces(m)
           S == KeptLoops(m, t)
           same == \A k \in 1 .. 7 : k \in S => DigitsOf(i, E, P)[k] = DigitsOf(j, E, P)[k]
<1>1. Radix(7, E, P) /\ P[0] = ProductLevel(m, 1)
  BY TileNest
<1>2. TileRank(m, t, i) = Rank(7, E, P, S, i) /\ TileRank(m, t, j) = Rank(7, E, P, S, j)
  BY DEF TileRank
<1>3. Rank(7, E, P, S, i) = Rank(7, E, P, S, j) <=> same
  <2> HIDE DEF E, P, S
  <2> DEFINE n == 7
  <2>1. n \in Nat /\ Radix(n, E, P) /\ i < P[0] /\ j < P[0]
    BY <1>1
  <2>2. n = 7
    OBVIOUS
  <2> HIDE DEF n
  <2>3. Rank(n, E, P, S, i) = Rank(n, E, P, S, j)
          <=> \A k \in 1 .. n : k \in S => DigitsOf(i, E, P)[k] = DigitsOf(j, E, P)[k]
    BY <2>1, RankTells
  <2> QED
    BY <2>2, <2>3
<1>4. same <=> \A d \in Related(m, t) : LoopsAt(m, i)[d] = LoopsAt(m, j)[d]
  <2>1. \A k \in 1 .. 7 : k \in S <=> Dims[k] \in Related(m, t)
    BY DEF KeptLoops
  <2>2. \A k \in 1 .. 7 : LoopsAt(m, i)[Dims[k]] = DigitsOf(i, E, P)[k]
    BY TileValues DEF LoopsAt
  <2>3. \A k \in 1 .. 7 : LoopsAt(m, j)[Dims[k]] = DigitsOf(j, E, P)[k]
    BY TileValues DEF LoopsAt
  <2>4. \A d \in Related(m, t) : \E k \in 1 .. 7 : Dims[k] = d
    <3>1. Related(m, t) \in SUBSET DimSet
      BY RelatedDims DEF Tensors
    <3> QED
      BY <3>1, DimsShape
  <2> HIDE DEF S, E, P
  <2> QED
    BY <2>1, <2>2, <2>3, <2>4
<1> QED
  BY <1>2, <1>3, <1>4, SameTile

\* The ranks start from 0, grow by one at most, and reach the last tile.
LEMMA TileRanks ==
  ASSUME NEW m, MappingTyped(m), NEW t \in Tensors
  PROVE  /\ \A i \in Nat : i < ProductLevel(m, 1) =>
              TileRank(m, t, i) \in Nat /\ TileRank(m, t, i) < TensorLevel(m, t, 1)
         /\ TileRank(m, t, 0) = 0
         /\ \A i \in Nat : i + 1 < ProductLevel(m, 1) => TileRank(m, t, i + 1) <= TileRank(m, t, i) + 1
         /\ TileRank(m, t, ProductLevel(m, 1) - 1) + 1 = TensorLevel(m, t, 1)
<1> DEFINE E == TileRadices(m)
           P == TilePlaces(m)
           S == KeptLoops(m, t)
           n == 7
<1>0. n \in Nat /\ 0 \in 0 .. n
  OBVIOUS
<1>1. Radix(n, E, P) /\ P[0] = ProductLevel(m, 1) /\ ProductLevel(m, 1) \in Nat \ {0}
  BY TileNest
<1>2. \A i : TileRank(m, t, i) = Rank(n, E, P, S, i)
  BY DEF TileRank
<1>3. After(n, Only(E, S))[0] = TensorLevel(m, t, 1)
  <2>1. RankPlaces(m, t)[0] = Product(m.bound[1], DimsAt(0 + 1 .. 7, Related(m, t)))
    <3>1. 0 \in 0 .. 7
      OBVIOUS
    <3> QED
      BY <3>1, RankPlacesAre
  <2>2. DimsAt(0 + 1 .. 7, Related(m, t)) = Related(m, t)
    <3>1. Related(m, t) \in SUBSET DimSet
      BY RelatedDims
    <3> QED
      BY <3>1, DimsShape DEF DimsAt
  <2> QED
    BY <2>1, <2>2 DEF RankPlaces, TensorLevel
<1> HIDE DEF E, P, S, n
<1>4. ASSUME NEW i \in Nat, i < P[0]
      PROVE  Rank(n, E, P, S, i) \in Nat /\ Rank(n, E, P, S, i) < After(n, Only(E, S))[0]
  BY <1>0, <1>1, <1>4, RankStands
<1>5. ASSUME NEW i \in Nat, i + 1 < P[0]
      PROVE  Rank(n, E, P, S, i + 1) <= Rank(n, E, P, S, i) + 1
  BY <1>0, <1>1, <1>5, RankNext
<1>6. Rank(n, E, P, S, 0) = 0 /\ Rank(n, E, P, S, P[0] - 1) + 1 = After(n, Only(E, S))[0]
  BY <1>0, <1>1, RankEnds
<1> QED
  BY <1>1, <1>2, <1>3, <1>4, <1>5, <1>6

\* The hypertiles follow each other in the order of the walk.
LEMMA HypertileOrder ==
  ASSUME NEW m, MappingTyped(m), NEW t \in Tensors
  PROVE  \E q \in Nat \ {0} : \A i \in Nat : i < ProductLevel(m, 1) =>
           TileRank(m, t, i) \div Hypertile(m, t) = i \div q
<1> DEFINE E == TileRadices(m)
           P == TilePlaces(m)
           S == KeptLoops(m, t)
           n == 7
           f == m.bound[1]
           R == Related(m, t)
           cutoffs == {k \in DOMAIN Dims : Dims[k] \notin R /\ f[Dims[k]] > 1}
           first == IF cutoffs = {} THEN 0 ELSE Min(cutoffs)
           c == IF cutoffs = {} THEN 0 ELSE first - 1
<1>0. n \in Nat
  OBVIOUS
<1>1. Radix(n, E, P) /\ P[0] = ProductLevel(m, 1) /\ ProductLevel(m, 1) \in Nat \ {0}
  BY TileNest
<1>2. \A i : TileRank(m, t, i) = Rank(n, E, P, S, i)
  BY DEF TileRank
<1>3. Hypertile(m, t) = Product(f, DimsAt(first + 1 .. 7, R))
  <2>1. Len(Dims) = 7
    BY DimsShape
  <2> QED
    BY <2>1 DEF Hypertile, DimsAt
<1>4. \A k \in 1 .. 7 : (k \in S <=> Dims[k] \in R) /\ E[k] = f[Dims[k]]
  BY DEF KeptLoops, TileRadices
<1>5. \A k \in 1 .. 7 : E[k] \in Nat \ {0}
  BY <1>1 DEF Radix
<1>6. /\ c \in 0 .. 7 /\ DimsAt(first + 1 .. 7, R) = DimsAt(c + 1 .. 7, R)
      /\ \A k \in 1 .. c : k \in S \/ E[k] = 1
  <2>1. DOMAIN Dims = 1 .. 7
    BY DimsShape
  <2>2. cutoffs = {k \in 1 .. 7 : Dims[k] \notin R /\ f[Dims[k]] > 1}
    BY <2>1
  <2> HIDE DEF E, P, S, n, R, f
  <2>3. CASE cutoffs = {}
    <3>1. first = 0 /\ c = 0
      BY <2>3
    <3> QED
      BY <3>1
  <2>4. CASE cutoffs # {}
    <3>1. cutoffs \in SUBSET Nat
      BY <2>2
    <3>2. first = Min(cutoffs) /\ c = first - 1
      BY <2>4
    <3> DEFINE K == cutoffs
    <3>3. K = {k \in 1 .. 7 : Dims[k] \notin R /\ f[Dims[k]] > 1}
      BY <2>2
    <3>4. K \in SUBSET Nat /\ K # {} /\ first = Min(K)
      BY <2>4, <3>1, <3>2
    <3> HIDE DEF K, first
    <3>5. first \in K /\ \A k \in K : first <= k
      <4>1. \E x \in K : \A y \in K : x <= y
        BY <3>4, LeastNumber
      <4> QED
        BY <3>4, <4>1 DEF Min
    <3>6. first \in 1 .. 7 /\ Dims[first] \notin R
      BY <3>3, <3>5
    <3>7. c = first - 1
      BY <2>4 DEF first
    <3>8. c \in 0 .. 7
      BY <3>6, <3>7
    <3>9. DimsAt(first + 1 .. 7, R) = DimsAt(c + 1 .. 7, R)
      <4>1. \A k : k \in c + 1 .. 7 <=> k = first \/ k \in first + 1 .. 7
        BY <3>6, <3>7
      <4> QED
        BY <3>6, <4>1 DEF DimsAt
    <3>10. ASSUME NEW k \in 1 .. c PROVE k \in S \/ E[k] = 1
      <4>1. k \in 1 .. 7 /\ ~(first <= k)
        BY <3>6, <3>7
      <4>2. k \notin K
        BY <3>5, <4>1
      <4>3. Dims[k] \in R \/ ~(f[Dims[k]] > 1)
        BY <3>3, <4>1, <4>2
      <4>4. E[k] \in Nat \ {0}
        BY <1>5, <4>1
      <4> QED
        BY <1>4, <4>1, <4>3, <4>4
    <3> QED
      BY <3>8, <3>9, <3>10
  <2> QED
    BY <2>3, <2>4
<1> HIDE DEF c
<1>7. After(n, Only(E, S))[c] = Hypertile(m, t)
  <2>1. RankPlaces(m, t)[c] = Product(m.bound[1], DimsAt(c + 1 .. 7, Related(m, t)))
    BY <1>6, RankPlacesAre
  <2> QED
    BY <1>3, <1>6, <2>1 DEF RankPlaces
<1>8. P[c] \in Nat \ {0}
  BY <1>1, <1>6 DEF Radix
<1>9. c \in 0 .. n
  BY <1>6
<1> HIDE DEF E, P, S, n
<1>10. ASSUME NEW i \in Nat, i < P[0]
       PROVE  Rank(n, E, P, S, i) \div After(n, Only(E, S))[c] = i \div P[c]
  BY <1>0, <1>1, <1>6, <1>9, <1>10, RankHead
<1> QED
  BY <1>1, <1>2, <1>7, <1>8, <1>10

\* Dividing by a product.
Multiplies(h, w, d) == d = h * w

LEMMA DivideTwice ==
  ASSUME NEW n \in Nat, NEW h \in Nat \ {0}, NEW w \in Nat \ {0}, NEW product, Multiplies(h, w, product)
  PROVE  n \div product = (n \div h) \div w
<1> DEFINE x == n \div h
           y == x \div w
<1>1. x \in Nat /\ h * x <= n /\ n < h * x + h
  BY Divides
<1> HIDE DEF x
<1>2. y \in Nat /\ w * y <= x /\ x < w * y + w
  BY <1>1, Divides
<1> HIDE DEF y
<1> DEFINE v == w * y
           d == h * w
<1>3. v \in Nat /\ v <= x /\ x + 1 <= v + w
  BY <1>1, <1>2
<1> HIDE DEF v
<1>4. h * v <= h * x /\ h * (x + 1) <= h * (v + w)
  <2>1. h <= h /\ h \in Nat /\ x + 1 \in Nat /\ v + w \in Nat
    BY <1>1, <1>3
  <2> QED
    BY <1>1, <1>3, <2>1, TimesOrder
<1>5. h * (x + 1) = h * x + h /\ h * (v + w) = h * v + d /\ d \in Nat \ {0}
  <2>1. d \in Nat \ {0}
    BY TimesPositive
  <2> QED
    BY <1>1, <1>3, <2>1
<1>6. h * v = y * d
  BY <1>2 DEF v
<1>7. h * v \in Nat /\ h * x \in Nat
  BY <1>1, <1>3
<1>8. y * d <= n /\ n < y * d + d
  <2> HIDE DEF d
  <2> DEFINE hv == h * v
             hx == h * x
  <2>1. hv \in Nat /\ hx \in Nat /\ hv <= hx /\ hx + h <= hv + d /\ hx <= n /\ n < hx + h /\ d \in Nat
    BY <1>1, <1>4, <1>5, <1>7
  <2>2. y * d = hv
    BY <1>6
  <2> HIDE DEF hv, hx
  <2> QED
    BY <2>1, <2>2
<1>9. n \div d = y
  <2> HIDE DEF d
  <2> QED
    BY <1>2, <1>5, <1>8, QuotientIs
<1> QED
  BY <1>9 DEF d, y, x, Multiplies

\* One more than fit before.
LEMMA OneRowMore ==
  ASSUME NEW n \in Nat, NEW d \in Nat \ {0}
  PROVE  /\ CeilDiv(n + 1, d) = (n \div d) + 1
         /\ CeilDiv(n, d) \in Nat
         /\ CeilDiv(n, d) = n \div d \/ CeilDiv(n, d) = (n \div d) + 1
         /\ n <= d * CeilDiv(n, d)
<1> DEFINE q == n \div d
           z == d * q
<1>1. q \in Nat /\ z <= n /\ n < z + d
  BY Divides
<1> HIDE DEF q
<1>2. z \in Nat /\ q * d = z /\ (q + 1) * d = z + d
  BY <1>1
<1> HIDE DEF z
<1>3. CeilDiv(n + 1, d) = q + 1
  <2>1. CeilDiv(n + 1, d) = (n + d) \div d
    <3>1. n + 1 + d - 1 = n + d
      OBVIOUS
    <3> QED
      BY <3>1 DEF CeilDiv
  <2>2. (q + 1) * d <= n + d /\ n + d < (q + 1) * d + d /\ n + d \in Nat /\ q + 1 \in Nat
    BY <1>1, <1>2
  <2> QED
    BY <2>1, <2>2, QuotientIs
<1>4. CASE n = z
  <2>1. q * d <= n + d - 1 /\ n + d - 1 < q * d + d /\ n + d - 1 \in Nat
    BY <1>2, <1>4
  <2>2. CeilDiv(n, d) = q
    BY <1>1, <2>1, QuotientIs DEF CeilDiv
  <2>3. n <= d * CeilDiv(n, d)
    BY <1>4, <2>2 DEF z
  <2> QED
    BY <1>1, <1>3, <2>2, <2>3 DEF q
<1>5. CASE n # z
  <2>1. (q + 1) * d <= n + d - 1 /\ n + d - 1 < (q + 1) * d + d /\ n + d - 1 \in Nat /\ q + 1 \in Nat
    BY <1>1, <1>2, <1>5
  <2>2. CeilDiv(n, d) = q + 1
    BY <2>1, QuotientIs DEF CeilDiv
  <2>3. n <= d * CeilDiv(n, d)
    <3>1. d * (q + 1) = z + d
      BY <1>1, <1>2
    <3> QED
      BY <1>1, <1>2, <2>2, <3>1
  <2> QED
    BY <1>1, <1>3, <2>2, <2>3 DEF q
<1> QED
  BY <1>4, <1>5

\* Unless a hypertile is split, the rows are taken one after the other.
LEMMA RowsInOrder ==
  ASSUME NEW m, MappingTyped(m), NEW a, ArchTyped(a), NEW t \in {"F", "Out"}, NEW clamping,
         MaxTilesPerRow(m, a, t) # 0, m.system = 0, m.pu, ~HypertileSplit(m, a, t, clamping),
         NEW i \in Nat, i + 1 < ProductLevel(m, 1)
  PROVE  TileRank(m, t, i) \div TilesPerRow(m, a, t, clamping)
           <= TileRank(m, t, i + 1) \div TilesPerRow(m, a, t, clamping)
<1> DEFINE per == TilesPerRow(m, a, t, clamping)
           H == Hypertile(m, t)
           T == TensorLevel(m, t, 1)
           r == TileRank(m, t, i)
           s == TileRank(m, t, i + 1)
<1>0. t \in Tensors
  BY DEF Tensors
<1>1. per \in Nat \ {0} /\ H \in Nat \ {0}
  BY <1>0, TilesPerRowTyped, HypertileTyped
<1>2. T \in Nat \ {0}
  <2>1. Top(m) \in Nat \ {0, 1}
    BY MappingFields
  <2>2. 1 \in 0 .. Top(m)
    BY <2>1
  <2> QED
    BY <1>0, <2>2, TensorLevelTyped
<1>3. ProductLevel(m, 1) \in Nat
  BY TileNest
<1>4. r \in Nat /\ s \in Nat /\ r < T /\ s < T
  <2>1. i < ProductLevel(m, 1) /\ i + 1 \in Nat
    BY <1>3
  <2> QED
    BY <1>0, <2>1, TileRanks
<1>5. PICK q \in Nat \ {0} : r \div H = i \div q /\ s \div H = (i + 1) \div q
  <2>1. i < ProductLevel(m, 1) /\ i + 1 \in Nat
    BY <1>3
  <2>2. PICK q \in Nat \ {0} : \A j \in Nat : j < ProductLevel(m, 1) => TileRank(m, t, j) \div H = j \div q
    BY <1>0, HypertileOrder
  <2> QED
    BY <2>1, <2>2
<1>6. i \div q <= (i + 1) \div q /\ i \div q \in Nat /\ (i + 1) \div q \in Nat
  <2>1. i + 1 \in Nat /\ i <= i + 1
    OBVIOUS
  <2> QED
    BY <2>1, QuotientOrder, Divides
<1>7. RowChangesPu(m, a, t, clamping) = CeilDiv(T, per)
  <2>1. ~(m.system > 0) /\ t # "In"
    OBVIOUS
  <2> QED
    BY <2>1 DEF RowChangesPu, RowsFor, TilesPu, TilesPuSharing
<1>8. ~(H > 1) \/ ~(CeilDiv(T, per) > 1) \/ per % H = 0
  BY <1>7 DEF HypertileSplit
<1> HIDE DEF per, H, T, r, s
<1>9. CASE ~(H > 1)
  <2>1. H = 1
    BY <1>1, <1>9
  <2>2. r \div H = r /\ s \div H = s
    <3>1. \A n \in Nat : n * 1 <= n /\ n < n * 1 + 1
      OBVIOUS
    <3>2. r \div 1 = r /\ s \div 1 = s
      BY <1>4, <3>1, QuotientIs
    <3> QED
      BY <2>1, <3>2
  <2>3. r <= s
    BY <1>5, <1>6, <2>2
  <2> QED
    BY <1>1, <1>4, <2>3, QuotientOrder DEF per, r, s
<1>10. CASE ~(CeilDiv(T, per) > 1)
  <2>1. CeilDiv(T, per) \in Nat /\ T <= per * CeilDiv(T, per)
    BY <1>1, <1>2, OneRowMore
  <2> DEFINE e == CeilDiv(T, per)
  <2>2. e \in Nat /\ ~(e > 1) /\ T <= per * e
    BY <1>10, <2>1
  <2> HIDE DEF e
  <2>3. e = 0 \/ e = 1
    BY <2>2
  <2>4. per * 0 = 0 /\ per * 1 = per
    BY <1>1
  <2>5. T <= per
    BY <1>1, <1>2, <2>2, <2>3, <2>4
  <2>6. 0 * per = 0
    BY <1>1
  <2>7. 0 * per <= r /\ r < 0 * per + per /\ 0 * per <= s /\ s < 0 * per + per
    BY <1>1, <1>2, <1>4, <2>5, <2>6
  <2>8. r \div per = 0 /\ s \div per = 0
    BY <1>1, <1>4, <2>7, QuotientIs
  <2> QED
    BY <2>8 DEF per, r, s
<1>11. CASE per % H = 0
  <2> DEFINE w == per \div H
             hw == H * w
  <2>1. w \in Nat /\ per % H = per - H * w
    BY <1>1, Divides
  <2> HIDE DEF w
  <2>2. hw \in Nat
    BY <1>1, <2>1
  <2> HIDE DEF hw
  <2>3. per = hw
    BY <1>1, <1>11, <2>1, <2>2 DEF hw
  <2>4. w \in Nat \ {0}
    <3>1. H * 0 = 0
      BY <1>1
    <3> QED
      BY <1>1, <2>1, <2>3, <3>1 DEF hw
  <2>5. r \div per = (r \div H) \div w /\ s \div per = (s \div H) \div w
    <3>1. Multiplies(H, w, per)
      BY <2>3 DEF hw, Multiplies
    <3> QED
      BY <1>1, <1>4, <2>4, <3>1, DivideTwice
  <2>6. (r \div H) \div w <= (s \div H) \div w
    BY <1>5, <1>6, <2>4, QuotientOrder
  <2> QED
    BY <2>5, <2>6 DEF per, r, s
<1> QED
  BY <1>8, <1>9, <1>10, <1>11

LEMMA PlaceHolds ==
  ASSUME NEW S, NEW s \in Seq(S), NEW x, Contains(s, x)
  PROVE  Place(s, x) \in 1 .. Len(s) /\ s[Place(s, x)] = x
<1> DEFINE I == {i \in 1 .. Len(s) : s[i] = x}
<1>1. Place(s, x) = IF I # {} THEN Min(I) ELSE 0
  BY DEF Place, SelectInSeq
<1>2. I # {}
  BY DEF Contains
<1>3. Min(I) \in I
  <2>1. I \in SUBSET Nat
    OBVIOUS
  <2> HIDE DEF I
  <2>2. \E n \in I : \A k \in I : n <= k
    BY <1>2, <2>1, LeastNumber
  <2> QED
    BY <2>2 DEF Min
<1> QED
  BY <1>1, <1>2, <1>3

\* The first n accesses have placed their tiles by rank.
InRankOrder(m, t, s, n) ==
  /\ \A i \in 0 .. n - 1 : TileRank(m, t, i) < Len(s) /\ s[TileRank(m, t, i) + 1] = TileAt(m, t, i)
  /\ \A r \in 0 .. Len(s) - 1 : \E i \in 0 .. n - 1 : TileRank(m, t, i) = r

\* A tile that is not there yet is put behind the others.
Placing(s, x) == IF Contains(s, x) THEN s ELSE Append(s, x)
Placement(s, x) == IF Contains(s, x) THEN Place(s, x) - 1 ELSE Len(s)

LEMMA PlacedByRank ==
  ASSUME NEW m, MappingTyped(m), Convolves(m), NEW t \in {"F", "Out"}, NEW S, NEW s \in Seq(S),
         NEW n \in Nat, n < ProductLevel(m, 1), InRankOrder(m, t, s, n), TileAt(m, t, n) \in S
  PROVE  /\ Placement(s, TileAt(m, t, n)) = TileRank(m, t, n)
         /\ InRankOrder(m, t, Placing(s, TileAt(m, t, n)), n + 1)
<1> DEFINE R(i) == TileRank(m, t, i)
           T(i) == TileAt(m, t, i)
           len == Len(s)
           x == T(n)
<1>0. t \in Tensors /\ ProductLevel(m, 1) \in Nat
  BY TileNest DEF Tensors
<1>1. len \in Nat /\ DOMAIN s = 1 .. len
  OBVIOUS
<1>2. \A i \in 0 .. n : i \in Nat /\ i < ProductLevel(m, 1)
  BY <1>0
<1>3. \A i \in 0 .. n : R(i) \in Nat
  BY <1>0, <1>2, TileRanks
<1>4. \A i, j \in 0 .. n : T(i) = T(j) <=> R(i) = R(j)
  BY <1>2, TileRankTells
<1>5. \A i \in 0 .. n - 1 : R(i) < len /\ s[R(i) + 1] = T(i)
  BY DEF InRankOrder
<1>6. \A r \in 0 .. len - 1 : \E i \in 0 .. n - 1 : R(i) = r
  BY DEF InRankOrder
<1>7. R(n) <= len
  <2>1. CASE n = 0
    <3>1. R(0) = 0
      BY <1>0, TileRanks
    <3> QED
      BY <1>1, <2>1, <3>1
  <2>2. CASE n # 0
    <3>1. n - 1 \in Nat /\ (n - 1) + 1 = n /\ n - 1 \in 0 .. n - 1 /\ n - 1 \in 0 .. n
      BY <2>2
    <3>2. R(n) <= R(n - 1) + 1
      <4> DEFINE k == n - 1
      <4>1. k \in Nat /\ k + 1 = n /\ k + 1 < ProductLevel(m, 1)
        BY <3>1
      <4> HIDE DEF k
      <4>2. R(k + 1) <= R(k) + 1
        BY <1>0, <4>1, TileRanks
      <4>3. R(n) <= R(k) + 1
        BY <4>1, <4>2
      <4> QED
        BY <4>3 DEF k
    <3>3. R(n - 1) < len /\ R(n - 1) \in Nat
      BY <1>3, <1>5, <3>1
    <3>4. R(n) \in Nat
      BY <1>3
    <3> QED
      BY <1>1, <3>2, <3>3, <3>4
  <2> QED
    BY <2>1, <2>2
<1>n. n \in 0 .. n /\ \A i \in 0 .. n - 1 : i \in 0 .. n
  OBVIOUS
<1> HIDE DEF R, T, len, x
<1>8. CASE Contains(s, x)
  <2> DEFINE k == Place(s, x)
  <2>1. k \in 1 .. len /\ s[k] = x
    BY <1>8, PlaceHolds DEF len
  <2> HIDE DEF k
  <2>2. PICK i \in 0 .. n - 1 : R(i) = k - 1
    BY <1>1, <1>6, <2>1
  <2>3. s[k] = T(i)
    <3>1. s[R(i) + 1] = T(i)
      BY <1>5
    <3>2. R(i) + 1 = k
      BY <2>1, <2>2
    <3> QED
      BY <3>1, <3>2
  <2>4. R(i) = R(n)
    BY <1>4, <1>n, <2>1, <2>3 DEF x
  <2>5. Placement(s, x) = R(n)
    BY <1>8, <2>2, <2>4 DEF Placement, k
  <2>6. Placing(s, x) = s
    BY <1>8 DEF Placing
  <2>7. \A j \in 0 .. n : R(j) < len /\ s[R(j) + 1] = T(j)
    <3> SUFFICES ASSUME NEW j \in 0 .. n PROVE R(j) < len /\ s[R(j) + 1] = T(j)
      OBVIOUS
    <3>1. CASE j = n
      <4>1. R(n) < len
        BY <1>5, <2>4
      <4>2. s[R(n) + 1] = T(n)
        BY <1>5, <2>1, <2>3, <2>4 DEF x
      <4> QED
        BY <3>1, <4>1, <4>2
    <3>2. CASE j # n
      <4>1. j \in 0 .. n - 1
        BY <3>2
      <4> QED
        BY <1>5, <4>1
    <3> QED
      BY <3>1, <3>2
  <2>8. \A r \in 0 .. len - 1 : \E j \in 0 .. n : R(j) = r
    BY <1>6, <1>n
  <2>9. InRankOrder(m, t, s, n + 1)
    <3>1. 0 .. (n + 1) - 1 = 0 .. n
      OBVIOUS
    <3> QED
      BY <2>7, <2>8, <3>1 DEF InRankOrder, R, T, len
  <2> QED
    BY <2>5, <2>6, <2>9 DEF x, R, T
<1>9. CASE ~Contains(s, x)
  <2>1. R(n) = len
    <3> SUFFICES ASSUME R(n) # len PROVE FALSE
      OBVIOUS
    <3>1. R(n) \in 0 .. len - 1
      BY <1>1, <1>3, <1>7, <1>n
    <3>2. PICK i \in 0 .. n - 1 : R(i) = R(n)
      BY <1>6, <3>1
    <3>3. T(i) = T(n)
      BY <1>4, <1>n, <3>2
    <3>4. s[R(i) + 1] = x
      BY <1>5, <3>3 DEF x
    <3>5. R(i) + 1 \in 1 .. len
      BY <1>1, <3>1, <3>2
    <3> QED
      BY <1>9, <3>4, <3>5 DEF Contains, len
  <2> DEFINE z == Append(s, x)
  <2>2. x \in S
    BY DEF x, T
  <2>3. Len(z) = len + 1 /\ z[len + 1] = x /\ \A i \in 1 .. len : z[i] = s[i]
    BY <2>2 DEF len
  <2> HIDE DEF z
  <2>4. Placing(s, x) = z
    BY <1>9 DEF Placing, z
  <2>5. Placement(s, x) = R(n)
    BY <1>9, <2>1 DEF Placement, len
  <2>6. \A j \in 0 .. n : R(j) < Len(z) /\ z[R(j) + 1] = T(j)
    <3> SUFFICES ASSUME NEW j \in 0 .. n PROVE R(j) < Len(z) /\ z[R(j) + 1] = T(j)
      OBVIOUS
    <3>1. CASE j = n
      BY <1>1, <2>1, <2>3, <3>1 DEF x
    <3>2. CASE j # n
      <4>1. j \in 0 .. n - 1 /\ R(j) \in Nat
        BY <1>3, <3>2
      <4>2. R(j) < len /\ s[R(j) + 1] = T(j)
        BY <1>5, <4>1
      <4>3. R(j) + 1 \in 1 .. len
        BY <1>1, <4>1, <4>2
      <4>4. z[R(j) + 1] = T(j)
        BY <2>3, <4>2, <4>3
      <4> QED
        BY <1>1, <2>3, <4>1, <4>2, <4>4
    <3> QED
      BY <3>1, <3>2
  <2>7. \A r \in 0 .. Len(z) - 1 : \E j \in 0 .. n : R(j) = r
    <3> SUFFICES ASSUME NEW r \in 0 .. Len(z) - 1 PROVE \E j \in 0 .. n : R(j) = r
      OBVIOUS
    <3>1. CASE r = len
      BY <1>n, <2>1, <3>1
    <3>2. CASE r # len
      <4>1. r \in 0 .. len - 1
        BY <1>1, <2>3, <3>2
      <4> QED
        BY <1>6, <1>n, <4>1
    <3> QED
      BY <3>1, <3>2
  <2>8. InRankOrder(m, t, z, n + 1)
    <3>1. 0 .. (n + 1) - 1 = 0 .. n
      OBVIOUS
    <3> QED
      BY <2>6, <2>7, <3>1 DEF InRankOrder, R, T
  <2> QED
    BY <2>4, <2>5, <2>8 DEF x, R, T
<1> QED
  BY <1>8, <1>9 DEF x, T

\* All tiles are placed when the walk is over.
LEMMA AllPlaced ==
  ASSUME NEW m, MappingTyped(m), NEW t \in {"F", "Out"}, NEW S, NEW s \in Seq(S),
         InRankOrder(m, t, s, ProductLevel(m, 1))
  PROVE  Len(s) = TensorLevel(m, t, 1)
<1> DEFINE n == ProductLevel(m, 1)
           T == TensorLevel(m, t, 1)
<1>0. t \in Tensors /\ n \in Nat \ {0}
  BY TileNest DEF Tensors
<1>1. T \in Nat \ {0}
  <2>1. Top(m) \in Nat \ {0, 1}
    BY MappingFields
  <2>2. 1 \in 0 .. Top(m)
    BY <2>1
  <2> QED
    BY <1>0, <2>2, TensorLevelTyped
<1>2. \A i \in Nat : i < n => TileRank(m, t, i) \in Nat /\ TileRank(m, t, i) < T
  BY <1>0, TileRanks
<1>3. TileRank(m, t, n - 1) + 1 = T
  BY <1>0, TileRanks
<1>4. \A i \in 0 .. n - 1 : TileRank(m, t, i) < Len(s)
  BY DEF InRankOrder
<1>5. \A r \in 0 .. Len(s) - 1 : \E i \in 0 .. n - 1 : TileRank(m, t, i) = r
  BY DEF InRankOrder
<1> HIDE DEF n, T
<1>6. Len(s) \in Nat
  OBVIOUS
<1>7. T <= Len(s)
  <2>1. n - 1 \in 0 .. n - 1 /\ n - 1 \in Nat /\ n - 1 < n
    BY <1>0
  <2>2. TileRank(m, t, n - 1) < Len(s) /\ TileRank(m, t, n - 1) \in Nat
    BY <1>2, <1>4, <2>1
  <2> QED
    BY <1>1, <1>3, <1>6, <2>2
<1>8. Len(s) <= T
  <2>1. CASE Len(s) = 0
    BY <1>1, <2>1
  <2>2. CASE Len(s) # 0
    <3>1. Len(s) - 1 \in 0 .. Len(s) - 1
      BY <1>6, <2>2
    <3>2. PICK i \in 0 .. n - 1 : TileRank(m, t, i) = Len(s) - 1
      BY <1>5, <3>1
    <3>3. i \in Nat /\ i < n
      BY <1>0
    <3>4. TileRank(m, t, i) < T
      BY <1>2, <3>3
    <3> QED
      BY <1>1, <1>6, <3>2, <3>4
  <2> QED
    BY <2>1, <2>2
<1> QED
  BY <1>1, <1>6, <1>7, <1>8 DEF T

-----------------------------------------------------------------------------
(* How many tiles of the input are told apart.                             *)

\* Two numbers in one, and found again.
Paired(x, y, b) == x * b + y

LEMMA PairedTells ==
  ASSUME NEW b \in Nat \ {0}, NEW x \in Nat, NEW y \in Nat, y < b
  PROVE  /\ Paired(x, y, b) \in Nat
         /\ Paired(x, y, b) \div b = x
         /\ \A n \in Nat : x < n => Paired(x, y, b) < n * b
<1> DEFINE w == x * b
           z == w + y
<1>1. w \in Nat
  OBVIOUS
<1>2. x * b <= z /\ z < x * b + b /\ z \in Nat
  <2> HIDE DEF w
  <2>1. w <= w + y /\ w + y < w + b /\ w + y \in Nat
    BY <1>1
  <2> QED
    BY <2>1 DEF w
<1>3. z \div b = x
  <2> HIDE DEF z
  <2> QED
    BY <1>2, QuotientIs
<1>4. ASSUME NEW n \in Nat, x < n
      PROVE  z < n * b
  <2>1. (x + 1) * b <= n * b
    <3>1. x + 1 \in Nat /\ x + 1 <= n /\ b <= b /\ b \in Nat
      BY <1>4
    <3> QED
      BY <3>1, TimesOrder
  <2>2. (x + 1) * b = w + b /\ n * b \in Nat
    OBVIOUS
  <2> DEFINE nb == n * b
  <2>3. nb \in Nat /\ w + b <= nb
    BY <2>1, <2>2
  <2> HIDE DEF w, nb
  <2>4. z < nb
    BY <1>1, <2>3
  <2> QED
    BY <2>4 DEF nb
<1>5. Paired(x, y, b) = z
  BY DEF Paired
<1> HIDE DEF z
<1> QED
  BY <1>2, <1>3, <1>4, <1>5

LEMMA PairedSame ==
  ASSUME NEW b \in Nat \ {0}, NEW x \in Nat, NEW y \in Nat, y < b, NEW u \in Nat, NEW v \in Nat, v < b,
         Paired(x, y, b) = Paired(u, v, b)
  PROVE  x = u /\ y = v
<1>1. x = u
  <2>1. Paired(x, y, b) \div b = x /\ Paired(u, v, b) \div b = u
    BY PairedTells
  <2> QED
    BY <2>1
<1> DEFINE w == x * b
<1>2. w \in Nat /\ w + y = w + v
  <2>1. x * b + y = u * b + v
    BY DEF Paired
  <2> QED
    BY <1>1, <2>1
<1> HIDE DEF w
<1>3. y = v
  BY <1>2
<1> QED
  BY <1>1, <1>3

\* Two loops that are added reach as far as the spread allows.
LEMMA SpreadHolds ==
  ASSUME NEW m, MappingTyped(m), NEW d \in DimSet, NEW e \in DimSet
  PROVE  (m.bound[1][d] - 1) + (m.bound[1][e] - 1) < Spread(m, 1, d, e)
<1> DEFINE x == Coefficient(m, 1, d)
           y == Coefficient(m, 1, e)
           u == m.bound[1][d] - 1
           v == m.bound[1][e] - 1
           g == Gcd(x, y)
           S == {c \in 1 .. x : x % c = 0 /\ y % c = 0}
<1>0. Top(m) \in Nat \ {0, 1} /\ m.bound \in [0 .. Top(m) -> [DimSet -> Nat \ {0}]]
  BY MappingFields
<1>1. 1 \in 0 .. Top(m)
  BY <1>0
<1>2. u \in Nat /\ v \in Nat
  <2>1. m.bound[1] \in [DimSet -> Nat \ {0}]
    BY <1>0, <1>1
  <2>2. m.bound[1][d] \in Nat \ {0} /\ m.bound[1][e] \in Nat \ {0}
    BY <2>1
  <2> QED
    BY <2>2
<1>3. x \in Nat \ {0} /\ y \in Nat \ {0}
  BY <1>1, CoefficientTyped
<1>4. g = Max(S)
  BY DEF Gcd
<1> HIDE DEF x, y, u, v, g
<1>5. g \in 1 .. x /\ g \in Nat \ {0} /\ y % g = 0
  <2>1. x % 1 = 0 /\ y % 1 = 0
    BY <1>3
  <2>2. 1 \in S /\ S \in SUBSET (1 .. x)
    BY <1>3, <2>1
  <2>3. \A c \in S : y % c = 0
    OBVIOUS
  <2> HIDE DEF S
  <2>4. Max(S) \in S
    BY <1>3, <2>2, GreatestNumber
  <2>5. g \in S /\ g \in 1 .. x /\ y % g = 0
    BY <1>4, <2>2, <2>3, <2>4
  <2> QED
    BY <1>3, <2>5
<1>6. g <= x /\ g <= y
  <2>1. g <= x
    BY <1>3, <1>5
  <2> DEFINE q == y \div g
             w == g * q
  <2>2. q \in Nat /\ y % g = y - w
    BY <1>3, <1>5, Divides
  <2>3. q # 0
    <3> SUFFICES ASSUME q = 0 PROVE FALSE
      OBVIOUS
    <3>1. w = 0
      BY <1>5
    <3> HIDE DEF w
    <3> QED
      BY <1>3, <1>5, <2>2, <3>1
  <2> HIDE DEF q
  <2>4. g * 1 <= g * q
    <3>1. g \in Nat /\ g <= g /\ 1 \in Nat /\ 1 <= q
      BY <1>5, <2>2, <2>3
    <3> QED
      BY <2>2, <3>1, TimesOrder
  <2>5. g * 1 = g /\ w \in Nat
    BY <1>5, <2>2
  <2>6. g <= w
    BY <2>4, <2>5
  <2> HIDE DEF w
  <2>7. y = w
    BY <1>3, <1>5, <2>2, <2>5
  <2> QED
    BY <2>1, <2>6, <2>7
<1>7. g * u <= x * u /\ g * v <= y * v
  <2>1. u <= u /\ v <= v /\ g \in Nat
    BY <1>2, <1>5
  <2> QED
    BY <1>2, <1>3, <1>6, <2>1, TimesOrder
<1>8. x * u \in Nat /\ y * v \in Nat /\ g * u \in Nat /\ g * v \in Nat
  BY <1>2, <1>3, <1>5
<1> DEFINE z == x * u + y * v
           k == z \div g
<1>9. z \in Nat /\ g * (u + v) <= z
  <2>1. g * (u + v) = g * u + g * v
    BY <1>2, <1>5
  <2> QED
    BY <1>7, <1>8, <2>1
<1> HIDE DEF z
<1>10. k \in Nat /\ z < g * k + g
  BY <1>5, <1>9, Divides
<1> HIDE DEF k
<1>11. u + v <= k
  <2> SUFFICES ASSUME ~(u + v <= k) PROVE FALSE
    OBVIOUS
  <2>1. k + 1 <= u + v /\ k + 1 \in Nat /\ u + v \in Nat /\ g <= g /\ g \in Nat
    BY <1>2, <1>5, <1>10
  <2>2. g * (k + 1) <= g * (u + v)
    BY <1>5, <2>1, TimesOrder
  <2>3. g * (k + 1) = g * k + g /\ g * k \in Nat
    BY <1>5, <1>10
  <2> DEFINE n == g * (u + v)
             l == g * k
  <2>4. n \in Nat /\ l \in Nat /\ l + g <= n /\ n <= z /\ z < l + g
    BY <1>2, <1>5, <1>9, <1>10, <2>2, <2>3
  <2> HIDE DEF n, l
  <2> QED
    BY <1>5, <1>9, <2>4
<1>12. Spread(m, 1, d, e) = k + 1
  BY DEF Spread, x, y, u, v, g, z, k
<1>13. u + v < k + 1
  BY <1>2, <1>10, <1>11
<1> QED
  BY <1>12, <1>13 DEF u, v

\* What the loops of a window add up to.
WindowSum(m, w, i) == SumFunctionOnSet(LoopsAt(m, i), w)

LEMMA WindowBound ==
  ASSUME NEW m, MappingTyped(m), NEW d \in DimSet, NEW e \in DimSet, d # e, NEW w \in SUBSET {d, e}, NEW i \in Nat
  PROVE  WindowSum(m, w, i) \in Nat /\ WindowSum(m, w, i) < Spread(m, 1, d, e)
<1> DEFINE v == LoopsAt(m, i)
           T == {d, e}
           x == m.bound[1][d] - 1
           y == m.bound[1][e] - 1
<1>1. v[d] \in Nat /\ v[d] \in 0 .. x /\ v[e] \in Nat /\ v[e] \in 0 .. y
  BY LoopsTyped
<1>2. x \in Nat /\ y \in Nat
  <2>1. Top(m) \in Nat \ {0, 1} /\ m.bound \in [0 .. Top(m) -> [DimSet -> Nat \ {0}]]
    BY MappingFields
  <2>2. 1 \in 0 .. Top(m)
    BY <2>1
  <2>3. m.bound[1] \in [DimSet -> Nat \ {0}]
    BY <2>1, <2>2
  <2>4. m.bound[1][d] \in Nat \ {0} /\ m.bound[1][e] \in Nat \ {0}
    BY <2>3
  <2> QED
    BY <2>4
<1>3. x + y < Spread(m, 1, d, e)
  BY SpreadHolds
<1>4. Spread(m, 1, d, e) \in Nat
  <2>1. Top(m) \in Nat \ {0, 1}
    BY MappingFields
  <2>2. 1 \in 0 .. Top(m)
    BY <2>1
  <2> QED
    BY <2>2, SpreadTyped
<1> HIDE DEF v, x, y
<1>5. IsFiniteSet(T) /\ d \in T /\ T \ {d} = {e} /\ Numbers(v, T)
  <2>1. T \in SUBSET DimSet
    OBVIOUS
  <2>2. IsFiniteSet(T)
    BY <2>1, DimSetFinite, FS_Subset
  <2> QED
    BY <1>1, <2>2 DEF Numbers
<1>6. SumFunctionOnSet(v, {e}) = v[e]
  BY <1>1, SumOne
<1> HIDE DEF T
<1>7. SumFunctionOnSet(v, T) = v[d] + SumFunctionOnSet(v, T \ {d})
  BY <1>5, SumTake
<1>8. SumFunctionOnSet(v, T) = v[d] + v[e]
  BY <1>5, <1>6, <1>7
<1>9. w \in SUBSET T
  BY DEF T
<1>10. SumFunctionOnSet(v, T) = SumFunctionOnSet(v, w) + SumFunctionOnSet(v, T \ w)
  BY <1>5, <1>9, SumSplit
<1>11. SumFunctionOnSet(v, w) \in Nat /\ SumFunctionOnSet(v, T \ w) \in Nat
  <2>1. IsFiniteSet(w) /\ IsFiniteSet(T \ w) /\ Numbers(v, w) /\ Numbers(v, T \ w)
    BY <1>5, <1>9, FS_Subset DEF Numbers
  <2> QED
    BY <2>1, SumType
<1>12. WindowSum(m, w, i) = SumFunctionOnSet(v, w)
  BY DEF WindowSum, v
<1> DEFINE s == SumFunctionOnSet(v, w)
           r == SumFunctionOnSet(v, T \ w)
<1>13. s \in Nat /\ r \in Nat /\ s + r = v[d] + v[e]
  BY <1>8, <1>10, <1>11
<1> HIDE DEF s, r
<1>14. s <= x + y
  BY <1>1, <1>2, <1>13
<1> QED
  BY <1>2, <1>3, <1>4, <1>12, <1>13, <1>14 DEF s

\* p and q are all that the input's indices take from the windows.
InputWindows(m, p, q) ==
  /\ p \in SUBSET {"P", "R"} /\ q \in SUBSET {"Q", "S"}
  /\ \A e \in Range(m.index["In"]) :
       (e \cap {"P", "R"} # {} => e = p) /\ (e \cap {"Q", "S"} # {} => e = q)

LEMMA WindowsThere ==
  ASSUME NEW m, Convolves(m)
  PROVE  \E p, q : InputWindows(m, p, q)
<1> DEFINE meets(window, w) == \A e \in Range(m.index["In"]) : e \cap window # {} => e = w
<1>1. \A window \in {{"P", "R"}, {"Q", "S"}} : \E w \in SUBSET window : meets(window, w)
  BY DEF Convolves
<1>2. PICK p \in SUBSET {"P", "R"} : meets({"P", "R"}, p)
  BY <1>1
<1>3. PICK q \in SUBSET {"Q", "S"} : meets({"Q", "S"}, q)
  BY <1>1
<1>4. InputWindows(m, p, q)
  BY <1>2, <1>3 DEF InputWindows
<1> QED
  BY <1>4

\* A number for what a tile of the input is told by.
InputKey(m, p, q, i) ==
  Paired(Paired(Paired(Paired(LoopsAt(m, i)["N"], LoopsAt(m, i)["K"], m.bound[1]["K"]),
                       LoopsAt(m, i)["C"], m.bound[1]["C"]),
                WindowSum(m, p, i), Spread(m, 1, "P", "R")),
         WindowSum(m, q, i), Spread(m, 1, "Q", "S"))

\* The parts of a key.
KeyParts(m, p, q, i, k1, k2, k3) ==
  /\ k1 = Paired(LoopsAt(m, i)["N"], LoopsAt(m, i)["K"], m.bound[1]["K"])
  /\ k2 = Paired(k1, LoopsAt(m, i)["C"], m.bound[1]["C"])
  /\ k3 = Paired(k2, WindowSum(m, p, i), Spread(m, 1, "P", "R"))
  /\ InputKey(m, p, q, i) = Paired(k3, WindowSum(m, q, i), Spread(m, 1, "Q", "S"))
  /\ k1 \in Nat /\ k2 \in Nat /\ k3 \in Nat

LEMMA KeyRanges ==
  ASSUME NEW m, MappingTyped(m), NEW p, NEW q, InputWindows(m, p, q), NEW i \in Nat
  PROVE  /\ \A d \in {"N", "K", "C"} :
              /\ LoopsAt(m, i)[d] \in Nat /\ m.bound[1][d] \in Nat \ {0}
              /\ LoopsAt(m, i)[d] < m.bound[1][d]
         /\ WindowSum(m, p, i) \in Nat /\ WindowSum(m, p, i) < Spread(m, 1, "P", "R")
         /\ WindowSum(m, q, i) \in Nat /\ WindowSum(m, q, i) < Spread(m, 1, "Q", "S")
         /\ Spread(m, 1, "P", "R") \in Nat \ {0} /\ Spread(m, 1, "Q", "S") \in Nat \ {0}
<1>1. Top(m) \in Nat \ {0, 1} /\ m.bound \in [0 .. Top(m) -> [DimSet -> Nat \ {0}]]
  BY MappingFields
<1>2. 1 \in 0 .. Top(m)
  BY <1>1
<1>3. m.bound[1] \in [DimSet -> Nat \ {0}]
  BY <1>1, <1>2
<1>4. \A d \in DimSet : LoopsAt(m, i)[d] \in Nat /\ LoopsAt(m, i)[d] \in 0 .. m.bound[1][d] - 1
  BY LoopsTyped
<1>5. ASSUME NEW d \in {"N", "K", "C"}
      PROVE  LoopsAt(m, i)[d] \in Nat /\ m.bound[1][d] \in Nat \ {0} /\ LoopsAt(m, i)[d] < m.bound[1][d]
  <2>1. d \in DimSet
    BY DimSetFinite
  <2>2. m.bound[1][d] \in Nat \ {0}
    BY <1>3, <2>1
  <2>3. LoopsAt(m, i)[d] \in 0 .. m.bound[1][d] - 1 /\ LoopsAt(m, i)[d] \in Nat
    BY <1>4, <2>1
  <2> QED
    BY <2>2, <2>3
<1>6. WindowSum(m, p, i) \in Nat /\ WindowSum(m, p, i) < Spread(m, 1, "P", "R")
  <2>1. "P" \in DimSet /\ "R" \in DimSet /\ "P" # "R" /\ p \in SUBSET {"P", "R"}
    BY DimSetFinite DEF InputWindows
  <2> QED
    BY <2>1, WindowBound
<1>7. WindowSum(m, q, i) \in Nat /\ WindowSum(m, q, i) < Spread(m, 1, "Q", "S")
  <2>1. "Q" \in DimSet /\ "S" \in DimSet /\ "Q" # "S" /\ q \in SUBSET {"Q", "S"}
    BY DimSetFinite DEF InputWindows
  <2> QED
    BY <2>1, WindowBound
<1>8. Spread(m, 1, "P", "R") \in Nat \ {0} /\ Spread(m, 1, "Q", "S") \in Nat \ {0}
  BY <1>2, DimSetFinite, SpreadTyped
<1> QED
  BY <1>5, <1>6, <1>7, <1>8

LEMMA KeyBound ==
  ASSUME NEW m, MappingTyped(m), NEW p, NEW q, InputWindows(m, p, q), NEW i \in Nat
  PROVE  /\ InputKey(m, p, q, i) \in Nat /\ InputKey(m, p, q, i) < InputLevel(m, 1)
         /\ \E k1, k2, k3 : KeyParts(m, p, q, i, k1, k2, k3)
<1> DEFINE n == LoopsAt(m, i)["N"]
           k == LoopsAt(m, i)["K"]
           c == LoopsAt(m, i)["C"]
           x == WindowSum(m, p, i)
           y == WindowSum(m, q, i)
           bn == m.bound[1]["N"]
           bk == m.bound[1]["K"]
           bc == m.bound[1]["C"]
           sx == Spread(m, 1, "P", "R")
           sy == Spread(m, 1, "Q", "S")
           k1 == Paired(n, k, bk)
           k2 == Paired(k1, c, bc)
           k3 == Paired(k2, x, sx)
<1>1. /\ n \in Nat /\ k \in Nat /\ c \in Nat /\ x \in Nat /\ y \in Nat
      /\ bn \in Nat \ {0} /\ bk \in Nat \ {0} /\ bc \in Nat \ {0} /\ sx \in Nat \ {0} /\ sy \in Nat \ {0}
      /\ n < bn /\ k < bk /\ c < bc /\ x < sx /\ y < sy
  BY KeyRanges
<1>2. InputKey(m, p, q, i) = Paired(k3, y, sy)
  BY DEF InputKey
<1>3. InputLevel(m, 1) = bn * bk * bc * sx * sy
  BY DEF InputLevel
<1>a. k1 \in Nat /\ k2 \in Nat /\ k3 \in Nat => KeyParts(m, p, q, i, k1, k2, k3)
  BY <1>2 DEF KeyParts
<1> HIDE DEF n, k, c, x, y, bn, bk, bc, sx, sy
<1>4. k1 \in Nat /\ k1 < bn * bk
  <2>1. k1 \in Nat /\ \A z \in Nat : n < z => k1 < z * bk
    BY <1>1, PairedTells
  <2>2. bn \in Nat /\ n < bn
    BY <1>1
  <2> HIDE DEF k1
  <2> QED
    BY <2>1, <2>2
<1>5. bn * bk \in Nat
  BY <1>1
<1> DEFINE b1 == bn * bk
           b2 == b1 * bc
           b3 == b2 * sx
<1> HIDE DEF k1, b1
<1>6. k2 \in Nat /\ k2 < b2 /\ b2 \in Nat
  <2>1. k2 \in Nat /\ \A z \in Nat : k1 < z => k2 < z * bc
    BY <1>1, <1>4, PairedTells
  <2>2. b1 \in Nat /\ k1 < b1
    BY <1>4, <1>5 DEF b1
  <2> HIDE DEF k2
  <2>3. k2 < b1 * bc /\ b1 * bc \in Nat
    BY <1>1, <2>1, <2>2
  <2> QED
    BY <2>1, <2>3
<1> HIDE DEF k2, b2
<1>7. k3 \in Nat /\ k3 < b3 /\ b3 \in Nat
  <2>1. k3 \in Nat /\ \A z \in Nat : k2 < z => k3 < z * sx
    BY <1>1, <1>6, PairedTells
  <2> HIDE DEF k3
  <2>2. k3 < b2 * sx /\ b2 * sx \in Nat
    BY <1>1, <1>6, <2>1
  <2> QED
    BY <2>1, <2>2
<1> HIDE DEF k3, b3
<1>8. Paired(k3, y, sy) \in Nat /\ Paired(k3, y, sy) < b3 * sy
  <2>1. Paired(k3, y, sy) \in Nat /\ \A z \in Nat : k3 < z => Paired(k3, y, sy) < z * sy
    BY <1>1, <1>7, PairedTells
  <2> QED
    BY <1>7, <2>1
<1>9. InputLevel(m, 1) = b3 * sy
  BY <1>3 DEF b3, b2, b1
<1>10. KeyParts(m, p, q, i, k1, k2, k3)
  BY <1>4, <1>6, <1>7, <1>a DEF k1, k2, k3
<1> QED
  BY <1>2, <1>8, <1>9, <1>10

LEMMA KeySame ==
  ASSUME NEW m, MappingTyped(m), NEW p, NEW q, InputWindows(m, p, q), NEW i \in Nat, NEW j \in Nat,
         InputKey(m, p, q, i) = InputKey(m, p, q, j)
  PROVE  /\ \A d \in {"N", "K", "C"} : LoopsAt(m, i)[d] = LoopsAt(m, j)[d]
         /\ WindowSum(m, p, i) = WindowSum(m, p, j) /\ WindowSum(m, q, i) = WindowSum(m, q, j)
<1> DEFINE n == LoopsAt(m, i)["N"]
           k == LoopsAt(m, i)["K"]
           c == LoopsAt(m, i)["C"]
           x == WindowSum(m, p, i)
           y == WindowSum(m, q, i)
           N == LoopsAt(m, j)["N"]
           K == LoopsAt(m, j)["K"]
           C == LoopsAt(m, j)["C"]
           X == WindowSum(m, p, j)
           Y == WindowSum(m, q, j)
           bk == m.bound[1]["K"]
           bc == m.bound[1]["C"]
           sx == Spread(m, 1, "P", "R")
           sy == Spread(m, 1, "Q", "S")
<1>1. /\ n \in Nat /\ k \in Nat /\ c \in Nat /\ x \in Nat /\ y \in Nat
      /\ bk \in Nat \ {0} /\ bc \in Nat \ {0} /\ sx \in Nat \ {0} /\ sy \in Nat \ {0}
      /\ k < bk /\ c < bc /\ x < sx /\ y < sy
  BY KeyRanges
<1>2. /\ N \in Nat /\ K \in Nat /\ C \in Nat /\ X \in Nat /\ Y \in Nat
      /\ K < bk /\ C < bc /\ X < sx /\ Y < sy
  BY KeyRanges
<1>3. PICK k1, k2, k3 : KeyParts(m, p, q, i, k1, k2, k3)
  BY KeyBound
<1>4. PICK l1, l2, l3 : KeyParts(m, p, q, j, l1, l2, l3)
  BY KeyBound
<1>5. /\ k1 = Paired(n, k, bk) /\ k2 = Paired(k1, c, bc) /\ k3 = Paired(k2, x, sx)
      /\ InputKey(m, p, q, i) = Paired(k3, y, sy)
      /\ k1 \in Nat /\ k2 \in Nat /\ k3 \in Nat
  BY <1>3 DEF KeyParts
<1>6. /\ l1 = Paired(N, K, bk) /\ l2 = Paired(l1, C, bc) /\ l3 = Paired(l2, X, sx)
      /\ InputKey(m, p, q, j) = Paired(l3, Y, sy)
      /\ l1 \in Nat /\ l2 \in Nat /\ l3 \in Nat
  BY <1>4 DEF KeyParts
<1> HIDE DEF n, k, c, x, y, N, K, C, X, Y, bk, bc, sx, sy
<1>7. k3 = l3 /\ y = Y
  <2>1. Paired(k3, y, sy) = Paired(l3, Y, sy)
    BY <1>5, <1>6
  <2> QED
    BY <1>1, <1>2, <1>5, <1>6, <2>1, PairedSame
<1>8. k2 = l2 /\ x = X
  <2>1. Paired(k2, x, sx) = Paired(l2, X, sx)
    BY <1>5, <1>6, <1>7
  <2> QED
    BY <1>1, <1>2, <1>5, <1>6, <2>1, PairedSame
<1>9. k1 = l1 /\ c = C
  <2>1. Paired(k1, c, bc) = Paired(l1, C, bc)
    BY <1>5, <1>6, <1>8
  <2> QED
    BY <1>1, <1>2, <1>5, <1>6, <2>1, PairedSame
<1>10. n = N /\ k = K
  <2>1. Paired(n, k, bk) = Paired(N, K, bk)
    BY <1>5, <1>6, <1>9
  <2> QED
    BY <1>1, <1>2, <2>1, PairedSame
<1>11. \A d \in {"N", "K", "C"} : LoopsAt(m, i)[d] = LoopsAt(m, j)[d]
  <2>1. LoopsAt(m, i)["N"] = LoopsAt(m, j)["N"]
    BY <1>10 DEF n, N
  <2>2. LoopsAt(m, i)["K"] = LoopsAt(m, j)["K"]
    BY <1>10 DEF k, K
  <2>3. LoopsAt(m, i)["C"] = LoopsAt(m, j)["C"]
    BY <1>9 DEF c, C
  <2> QED
    BY <2>1, <2>2, <2>3
<1> QED
  BY <1>7, <1>8, <1>11 DEF x, X, y, Y

\* A tile of the input is told by its key.
LEMMA InputTold ==
  ASSUME NEW m, MappingTyped(m), NEW p, NEW q, InputWindows(m, p, q), NEW i \in Nat, NEW j \in Nat,
         InputKey(m, p, q, i) = InputKey(m, p, q, j)
  PROVE  TileAt(m, "In", i) = TileAt(m, "In", j)
<1> DEFINE s == m.index["In"]
           u == LoopsAt(m, i)
           v == LoopsAt(m, j)
<1>1. /\ \A d \in {"N", "K", "C"} : u[d] = v[d]
      /\ SumFunctionOnSet(u, p) = SumFunctionOnSet(v, p) /\ SumFunctionOnSet(u, q) = SumFunctionOnSet(v, q)
  BY KeySame DEF WindowSum
<1>2. TileAt(m, "In", i) = [x \in DOMAIN s |-> SumFunctionOnSet(u, s[x])]
      /\ TileAt(m, "In", j) = [x \in DOMAIN s |-> SumFunctionOnSet(v, s[x])]
  BY DEF TileAt, Indices, LoopsAt
<1>3. \A d \in DimSet : u[d] \in Nat
  BY LoopsTyped
<1>4. \A x \in DOMAIN s : s[x] \in SUBSET DimSet /\ s[x] \in Range(m.index["In"])
  BY IndexTyped DEF Tensors
<1>5. \A d \in DimSet : d \in {"N", "K", "C"} \/ d \in {"P", "R"} \/ d \in {"Q", "S"}
  <2> SUFFICES ASSUME NEW d \in DimSet PROVE d \in {"N", "K", "P", "Q", "C", "R", "S"}
    OBVIOUS
  <2>1. PICK k \in 1 .. 7 : Dims[k] = d
    BY DimsShape
  <2> QED
    BY <2>1 DEF Dims
<1>6. \A e \in Range(m.index["In"]) :
        (e \cap {"P", "R"} # {} => e = p) /\ (e \cap {"Q", "S"} # {} => e = q)
  BY DEF InputWindows
<1> HIDE DEF s, u, v
<1>7. ASSUME NEW x \in DOMAIN s
      PROVE  SumFunctionOnSet(u, s[x]) = SumFunctionOnSet(v, s[x])
  <2> DEFINE e == s[x]
  <2>1. e \in SUBSET DimSet /\ e \in Range(m.index["In"])
    BY <1>4
  <2> HIDE DEF e
  <2>2. CASE e \cap {"P", "R"} # {}
    <3>1. e = p
      BY <1>6, <2>1, <2>2
    <3> QED
      BY <1>1, <3>1 DEF e
  <2>3. CASE e \cap {"Q", "S"} # {}
    <3>1. e = q
      BY <1>6, <2>1, <2>3
    <3> QED
      BY <1>1, <3>1 DEF e
  <2>4. CASE e \cap {"P", "R"} = {} /\ e \cap {"Q", "S"} = {}
    <3>1. \A d \in e : d \in {"N", "K", "C"}
      BY <1>5, <2>1, <2>4
    <3>2. \A d \in e : u[d] = v[d] /\ u[d] \in Nat
      BY <1>1, <1>3, <2>1, <3>1
    <3>3. IsFiniteSet(e)
      BY <2>1, DimSetFinite, FS_Subset
    <3>4. Numbers(u, e)
      BY <3>2 DEF Numbers
    <3>5. SumFunctionOnSet(u, e) = SumFunctionOnSet(v, e)
      BY <3>2, <3>3, <3>4, SumSame
    <3> QED
      BY <3>5 DEF e
  <2> QED
    BY <2>2, <2>3, <2>4
<1> QED
  BY <1>2, <1>7

\* The values of a sequence are all different.
Distinct(s) == \A k, l \in 1 .. Len(s) : s[k] = s[l] => k = l

LEMMA IntervalsFinite ==
  ASSUME NEW n \in Nat
  PROVE  /\ IsFiniteSet(1 .. n) /\ Cardinality(1 .. n) = n
         /\ IsFiniteSet(0 .. n - 1) /\ Cardinality(0 .. n - 1) = n
<1> DEFINE b == n - 1
<1>1. b \in Int /\ n \in Int /\ 0 \in Int /\ 1 \in Int
  OBVIOUS
<1>2. IsFiniteSet(1 .. n) /\ Cardinality(1 .. n) = IF 1 > n THEN 0 ELSE n - 1 + 1
  BY <1>1, FS_Interval
<1> HIDE DEF b
<1>3. IsFiniteSet(0 .. b) /\ Cardinality(0 .. b) = IF 0 > b THEN 0 ELSE b - 0 + 1
  BY <1>1, FS_Interval
<1> QED
  BY <1>2, <1>3 DEF b

LEMMA InputCount ==
  ASSUME NEW m, MappingTyped(m), Convolves(m), NEW S, NEW s \in Seq(S), Distinct(s),
         \A k \in 1 .. Len(s) : \E i \in Nat : s[k] = TileAt(m, "In", i)
  PROVE  Len(s) <= InputLevel(m, 1)
<1>1. PICK p, q : InputWindows(m, p, q)
  BY WindowsThere
<1> DEFINE n == Len(s)
           L == InputLevel(m, 1)
           at(k) == CHOOSE i \in Nat : s[k] = TileAt(m, "In", i)
           f == [k \in 1 .. n |-> InputKey(m, p, q, at(k))]
           D == 1 .. n
           T == 0 .. L - 1
<1>2. \A k \in D : at(k) \in Nat /\ s[k] = TileAt(m, "In", at(k))
  OBVIOUS
<1>3. n \in Nat /\ L \in Nat \ {0}
  <2>1. Top(m) \in Nat \ {0, 1}
    BY MappingFields
  <2>2. 1 \in 0 .. Top(m)
    BY <2>1
  <2> QED
    BY <2>2, InputLevelTyped
<1> HIDE DEF at
<1>4. \A k \in D : InputKey(m, p, q, at(k)) \in Nat /\ InputKey(m, p, q, at(k)) < L
  BY <1>1, <1>2, KeyBound
<1>5. f \in [D -> T]
  <2>1. \A k \in D : InputKey(m, p, q, at(k)) \in T
    BY <1>3, <1>4
  <2> HIDE DEF T, D
  <2>2. f = [k \in D |-> InputKey(m, p, q, at(k))]
    BY DEF D
  <2> HIDE DEF f
  <2> QED
    BY <2>1, <2>2
<1>6. \A k, l \in D : f[k] = f[l] => k = l
  <2> SUFFICES ASSUME NEW k \in D, NEW l \in D, f[k] = f[l] PROVE k = l
    OBVIOUS
  <2>1. InputKey(m, p, q, at(k)) = InputKey(m, p, q, at(l))
    OBVIOUS
  <2>2. TileAt(m, "In", at(k)) = TileAt(m, "In", at(l))
    BY <1>1, <1>2, <2>1, InputTold
  <2>3. s[k] = s[l]
    BY <1>2, <2>2
  <2> QED
    BY <2>3 DEF Distinct
<1>7. IsFiniteSet(D) /\ Cardinality(D) = n /\ IsFiniteSet(T) /\ Cardinality(T) = L
  <2>1. IsFiniteSet(D) /\ Cardinality(D) = n
    BY <1>3, IntervalsFinite
  <2>2. IsFiniteSet(T) /\ Cardinality(T) = L
    BY <1>3, IntervalsFinite
  <2> QED
    BY <2>1, <2>2
<1> HIDE DEF f, n, L, D, T
<1>8. ~(Cardinality(T) < Cardinality(D))
  BY <1>5, <1>6, <1>7, FS_PigeonHole
<1>9. n <= L
  BY <1>3, <1>7, <1>8
<1> QED
  BY <1>9 DEF n, L

LEMMA ProductOne ==
  ASSUME NEW f, f[1] \in Nat
  PROVE  Product(f, 1 .. 1) = f[1]
<1> DEFINE S == {1}
<1>1. 1 \in S /\ S \ {1} = {} /\ 1 .. 1 = S
  OBVIOUS
<1>2. IsFiniteSet(S) /\ Numbers(f, S)
  BY FS_Singleton DEF Numbers
<1> DEFINE x == 1
           y == f[x]
<1> HIDE DEF S
<1>3. Product(f, S) = f[1] * Product(f, S \ {1})
  BY <1>1, <1>2, ProductTake
<1>4. Product(f, {}) = 1
  BY ProductNone
<1>5. y * 1 = y
  OBVIOUS
<1> QED
  BY <1>1, <1>3, <1>4, <1>5

LEMMA InputFits ==
  ASSUME NEW m, MappingTyped(m), NEW n \in Nat, n <= InputLevel(m, 1), n <= ProductLevel(m, 1)
  PROVE  n <= InputEstimate(m, 1, 1)
<1> DEFINE p == Product([l \in 1 .. 1 |-> InputLevel(m, l)], 1 .. 1)
           q == ProductLevels(m, 1, 1)
<1>1. Top(m) \in Nat \ {0, 1}
  BY MappingFields
<1>2. 1 \in 0 .. Top(m)
  BY <1>1
<1>3. InputLevel(m, 1) \in Nat /\ ProductLevel(m, 1) \in Nat
  BY <1>2, InputLevelTyped, TileNest
<1>4. p = InputLevel(m, 1)
  <2> DEFINE f == [l \in 1 .. 1 |-> InputLevel(m, l)]
  <2>1. f[1] = InputLevel(m, 1)
    OBVIOUS
  <2> HIDE DEF f
  <2>2. Product(f, 1 .. 1) = f[1]
    BY <1>3, <2>1, ProductOne
  <2> QED
    BY <2>1, <2>2 DEF f
<1>5. q = ProductLevel(m, 1)
  <2> DEFINE f == [l \in 1 .. 1 |-> ProductLevel(m, l)]
  <2>1. f[1] = ProductLevel(m, 1)
    OBVIOUS
  <2>2. q = Product(f, 1 .. 1)
    BY DEF ProductLevels
  <2> HIDE DEF f
  <2>3. Product(f, 1 .. 1) = f[1]
    BY <1>3, <2>1, ProductOne
  <2> QED
    BY <2>1, <2>2, <2>3
<1>6. InputEstimate(m, 1, 1) = Min({p, q})
  BY DEF InputEstimate
<1> HIDE DEF p, q
<1>7. \E z \in {p, q} : \A w \in {p, q} : z <= w
  <2>0. p \in Nat /\ q \in Nat
    BY <1>3, <1>4, <1>5
  <2>1. CASE p <= q
    BY <2>0, <2>1
  <2>2. CASE q <= p
    BY <2>0, <2>2
  <2> QED
    BY <2>0, <2>1, <2>2
<1>8. Min({p, q}) \in {p, q}
  BY <1>7 DEF Min
<1> QED
  BY <1>4, <1>5, <1>6, <1>8

-----------------------------------------------------------------------------
(* The rows of a walk.                                                     *)

LEMMA CeilDivOrder ==
  ASSUME NEW n \in Nat, NEW k \in Nat, n <= k, NEW d \in Nat \ {0}
  PROVE  CeilDiv(n, d) <= CeilDiv(k, d)
<1>1. n + d - 1 \in Nat /\ k + d - 1 \in Nat /\ n + d - 1 <= k + d - 1
  OBVIOUS
<1> QED
  BY <1>1, QuotientOrder DEF CeilDiv

LEMMA NextRow ==
  ASSUME NEW x \in Nat, NEW y \in Nat, y <= x + 1, NEW d \in Nat \ {0}
  PROVE  y \div d <= (x \div d) + 1
<1>1. x + 1 \in Nat /\ y \div d \in Nat /\ (x + 1) \div d \in Nat /\ x \div d \in Nat
  BY Divides
<1>2. y \div d <= (x + 1) \div d
  BY <1>1, QuotientOrder
<1>3. (x + 1) \div d <= CeilDiv(x + 1, d)
  <2>1. CeilDiv(x + 1, d) = (x + 1) \div d \/ CeilDiv(x + 1, d) = ((x + 1) \div d) + 1
    BY <1>1, OneRowMore
  <2> QED
    BY <1>1, <2>1
<1>4. CeilDiv(x + 1, d) = (x \div d) + 1
  BY OneRowMore
<1> QED
  BY <1>1, <1>2, <1>3, <1>4

\* Whose changes the estimate counts exactly.
Straight(m, a, t, clamping) ==
  t # "In" /\ m.system = 0 /\ m.pu /\ ~HypertileSplit(m, a, t, clamping)

\* The rows after n accesses: s has the tiles, by placement.
RowsStand(m, a, t, clamping, s, n, open, count) ==
  LET per == TilesPerRow(m, a, t, clamping)
  IN  /\ n <= ProductLevel(m, 1) /\ Len(s) <= n
      /\ open < RowsFor(Len(s), per) /\ RowsFor(Len(s), per) <= count
      /\ t = "In" => Distinct(s) /\ \A k \in 1 .. Len(s) : \E i \in Nat : s[k] = TileAt(m, "In", i)
      /\ t # "In" => /\ InRankOrder(m, t, s, n)
                     /\ open = IF n = 0 THEN -1 ELSE TileRank(m, t, n - 1) \div per
      /\ Straight(m, a, t, clamping) => count = open + 1

LEMMA PlacingShape ==
  ASSUME NEW S, NEW s \in Seq(S), NEW x \in S
  PROVE  /\ Placement(s, x) \in 0 .. Len(s) /\ Placement(s, x) + 1 <= Len(Placing(s, x))
         /\ Placing(s, x) \in Seq(S)
         /\ Contains(s, x) => Placing(s, x) = s
         /\ ~Contains(s, x) => /\ Placing(s, x) = Append(s, x) /\ Len(Placing(s, x)) = Len(s) + 1
                               /\ Placement(s, x) = Len(s)
<1>1. Len(s) \in Nat
  OBVIOUS
<1>2. CASE Contains(s, x)
  <2>1. Place(s, x) \in 1 .. Len(s)
    BY <1>2, PlaceHolds
  <2>2. Placement(s, x) = Place(s, x) - 1 /\ Placing(s, x) = s
    BY <1>2 DEF Placement, Placing
  <2> QED
    BY <1>1, <1>2, <2>1, <2>2
<1>3. CASE ~Contains(s, x)
  <2>1. Placement(s, x) = Len(s) /\ Placing(s, x) = Append(s, x)
    BY <1>3 DEF Placement, Placing
  <2>2. Append(s, x) \in Seq(S) /\ Len(Append(s, x)) = Len(s) + 1
    OBVIOUS
  <2> QED
    BY <1>1, <1>3, <2>1, <2>2
<1> QED
  BY <1>2, <1>3

\* A tile that is placed once stays the only one of its kind.
LEMMA PlacingDistinct ==
  ASSUME NEW S, NEW s \in Seq(S), NEW x \in S, Distinct(s)
  PROVE  /\ Distinct(Placing(s, x))
         /\ \A k \in 1 .. Len(Placing(s, x)) : Placing(s, x)[k] = x \/ \E l \in 1 .. Len(s) : Placing(s, x)[k] = s[l]
<1>1. CASE Contains(s, x)
  BY <1>1 DEF Placing
<1>2. CASE ~Contains(s, x)
  <2> DEFINE z == Append(s, x)
             len == Len(s)
  <2>1. len \in Nat /\ Len(z) = len + 1 /\ z[len + 1] = x /\ \A k \in 1 .. len : z[k] = s[k]
    OBVIOUS
  <2>2. \A k \in 1 .. len : s[k] # x
    BY <1>2 DEF Contains
  <2>3. \A k, l \in 1 .. len : s[k] = s[l] => k = l
    BY DEF Distinct
  <2>4. Placing(s, x) = z
    BY <1>2 DEF Placing
  <2> HIDE DEF z, len
  <2>5. \A k \in 1 .. Len(z) : k \in 1 .. len \/ k = len + 1
    BY <2>1
  <2>6. \A k, l \in 1 .. Len(z) : z[k] = z[l] => k = l
    BY <2>1, <2>2, <2>3, <2>5
  <2>7. \A k \in 1 .. Len(z) : z[k] = x \/ \E l \in 1 .. len : z[k] = s[l]
    BY <2>1, <2>5
  <2> QED
    BY <2>4, <2>6, <2>7 DEF Distinct, len
<1> QED
  BY <1>1, <1>2

\* An access to tile n keeps the count.
LEMMA AccessCounts ==
  ASSUME NEW m, MappingTyped(m), Convolves(m), NEW a, ArchTyped(a), NEW t \in Tensors, NEW clamping,
         MaxTilesPerRow(m, a, t) # 0, NEW S, NEW s \in Seq(S), NEW n \in Nat, n < ProductLevel(m, 1),
         NEW open \in Nat \cup {-1}, NEW count \in Nat, RowsStand(m, a, t, clamping, s, n, open, count),
         TileAt(m, t, n) \in S,
         NEW row, row = Placement(s, TileAt(m, t, n)) \div TilesPerRow(m, a, t, clamping),
         NEW more, more = IF row = open THEN count ELSE count + 1
  PROVE  /\ row \in Nat /\ more \in Nat
         /\ RowsStand(m, a, t, clamping, Placing(s, TileAt(m, t, n)), n + 1, row, more)
<1> DEFINE per == TilesPerRow(m, a, t, clamping)
           x == TileAt(m, t, n)
           p == Placement(s, x)
           z == Placing(s, x)
           r == RowsFor(Len(s), per)
           w == RowsFor(Len(z), per)
<1>1. per \in Nat \ {0} /\ ProductLevel(m, 1) \in Nat
  BY TilesPerRowTyped, TileNest
<1>2. /\ Len(s) <= n /\ open < r /\ r <= count
      /\ t = "In" => Distinct(s) /\ \A k \in 1 .. Len(s) : \E i \in Nat : s[k] = TileAt(m, "In", i)
      /\ t # "In" => /\ InRankOrder(m, t, s, n)
                     /\ open = IF n = 0 THEN -1 ELSE TileRank(m, t, n - 1) \div per
      /\ Straight(m, a, t, clamping) => count = open + 1
  BY DEF RowsStand
<1>3. /\ p \in 0 .. Len(s) /\ p + 1 <= Len(z) /\ z \in Seq(S)
      /\ Contains(s, x) => z = s
      /\ ~Contains(s, x) => Len(z) = Len(s) + 1 /\ p = Len(s)
  BY PlacingShape
<1>4. row = p \div per
  OBVIOUS
<1>5. t # "In" => p = TileRank(m, t, n) /\ InRankOrder(m, t, z, n + 1)
  <2> SUFFICES ASSUME t # "In" PROVE p = TileRank(m, t, n) /\ InRankOrder(m, t, z, n + 1)
    OBVIOUS
  <2>1. t \in {"F", "Out"}
    BY DEF Tensors
  <2> QED
    BY <1>2, <2>1, PlacedByRank
<1>6. t = "In" => Distinct(z) /\ \A k \in 1 .. Len(z) : \E i \in Nat : z[k] = TileAt(m, "In", i)
  <2> SUFFICES ASSUME t = "In"
               PROVE  Distinct(z) /\ \A k \in 1 .. Len(z) : \E i \in Nat : z[k] = TileAt(m, "In", i)
    OBVIOUS
  <2>1. Distinct(z) /\ \A k \in 1 .. Len(z) : z[k] = x \/ \E l \in 1 .. Len(s) : z[k] = s[l]
    BY <1>2, PlacingDistinct
  <2>2. \A l \in 1 .. Len(s) : \E i \in Nat : s[l] = TileAt(m, "In", i)
    BY <1>2
  <2> HIDE DEF z
  <2>3. x = TileAt(m, "In", n)
    OBVIOUS
  <2> HIDE DEF x
  <2> QED
    BY <2>1, <2>2, <2>3
<1>7. Len(s) \in Nat /\ Len(z) \in Nat
  BY <1>3
<1> HIDE DEF per, x, p, z
<1>8. row \in Nat /\ more \in Nat
  <2>1. p \in Nat
    BY <1>3, <1>7
  <2>2. row \in Nat
    BY <1>1, <1>4, <2>1, Divides
  <2>3. count \in Nat /\ more = IF row = open THEN count ELSE count + 1
    OBVIOUS
  <2>4. more \in Nat
    BY <2>3
  <2> QED
    BY <2>2, <2>4
<1>9. n + 1 <= ProductLevel(m, 1) /\ Len(z) <= n + 1
  BY <1>1, <1>2, <1>3, <1>7
<1>10. r \in Nat /\ w \in Nat /\ row + 1 <= w
  <2>1. p \in Nat /\ p + 1 \in Nat
    BY <1>3, <1>7
  <2>2. CeilDiv(p + 1, per) = row + 1
    <3>1. CeilDiv(p + 1, per) = (p \div per) + 1
      BY <1>1, <2>1, OneRowMore
    <3> QED
      BY <1>4, <3>1
  <2>3. CeilDiv(p + 1, per) <= CeilDiv(Len(z), per)
    BY <1>1, <1>3, <1>7, <2>1, CeilDivOrder
  <2> QED
    BY <1>1, <1>7, <2>2, <2>3, CeilDivType DEF RowsFor
<1>11. w <= more
  <2>1. CASE Contains(s, x)
    <3>1. w = r
      BY <1>3, <2>1
    <3> HIDE DEF r, w
    <3> QED
      BY <1>2, <1>10, <3>1
  <2>2. CASE ~Contains(s, x)
    <3>1. p = Len(s) /\ Len(z) = Len(s) + 1
      BY <1>3, <2>2
    <3>2. w = row + 1 /\ (r = row \/ r = row + 1)
      <4>1. p \in Nat
        BY <1>7, <3>1
      <4>2. /\ CeilDiv(p + 1, per) = (p \div per) + 1
            /\ CeilDiv(p, per) = p \div per \/ CeilDiv(p, per) = (p \div per) + 1
        BY <1>1, <4>1, OneRowMore
      <4>3. w = CeilDiv(p + 1, per) /\ r = CeilDiv(p, per)
        BY <3>1 DEF RowsFor
      <4> QED
        BY <1>4, <4>2, <4>3
    <3> HIDE DEF r, w
    <3> QED
      BY <1>2, <1>8, <1>10, <3>2
  <2> QED
    BY <2>1, <2>2
<1>12. t # "In" => row = IF n + 1 = 0 THEN -1 ELSE TileRank(m, t, (n + 1) - 1) \div per
  <2>1. (n + 1) - 1 = n /\ n + 1 # 0
    OBVIOUS
  <2> QED
    BY <1>4, <1>5, <2>1
<1>13. Straight(m, a, t, clamping) => more = row + 1
  <2> SUFFICES ASSUME Straight(m, a, t, clamping) PROVE more = row + 1
    OBVIOUS
  <2>1. t # "In" /\ t \in {"F", "Out"} /\ m.system = 0 /\ m.pu /\ ~HypertileSplit(m, a, t, clamping)
    BY DEF Straight, Tensors
  <2>2. row = TileRank(m, t, n) \div per /\ count = open + 1
    BY <1>2, <1>4, <1>5, <2>1
  <2>3. CASE n = 0
    <3>1. TileRank(m, t, 0) = 0
      BY TileRanks
    <3>2. 0 * per = 0
      BY <1>1
    <3>3. 0 * per <= 0 /\ 0 < 0 * per + per
      BY <1>1, <3>2
    <3>4. 0 \div per = 0
      BY <1>1, <3>3, QuotientIs
    <3>5. row = 0 /\ open = -1
      BY <1>2, <2>1, <2>2, <2>3, <3>1, <3>4
    <3> QED
      BY <2>2, <3>5
  <2>4. CASE n # 0
    <3> DEFINE k == n - 1
    <3>1. k \in Nat /\ n = k + 1 /\ k + 1 < ProductLevel(m, 1) /\ k < ProductLevel(m, 1)
      BY <1>1, <2>4
    <3>2. open = TileRank(m, t, k) \div per
      BY <1>2, <2>1, <2>4
    <3> HIDE DEF k
    <3>3. row = TileRank(m, t, k + 1) \div per
      BY <2>2, <3>1
    <3> DEFINE x0 == TileRank(m, t, k)
               x1 == TileRank(m, t, k + 1)
    <3>4. x0 \in Nat /\ x1 \in Nat /\ x1 <= x0 + 1
      <4>1. k + 1 \in Nat
        BY <3>1
      <4> QED
        BY <3>1, <4>1, TileRanks
    <3>5. x0 \div per <= x1 \div per
      BY <2>1, <3>1, RowsInOrder DEF per
    <3>6. x1 \div per <= (x0 \div per) + 1
      <4> HIDE DEF x0, x1
      <4> QED
        BY <1>1, <3>4, NextRow
    <3>7. open <= row /\ row <= open + 1 /\ open \in Nat
      <4>1. x0 \div per \in Nat
        <5> HIDE DEF x0
        <5> QED
          BY <1>1, <3>4, Divides
      <4> QED
        BY <3>2, <3>3, <3>5, <3>6, <4>1
    <3> QED
      BY <1>8, <2>2, <3>7
  <2> QED
    BY <2>3, <2>4
<1>14. row < w
  <2> HIDE DEF w
  <2> QED
    BY <1>8, <1>10
<1>15. RowsStand(m, a, t, clamping, z, n + 1, row, more)
  <2>1. /\ row < RowsFor(Len(z), per) /\ RowsFor(Len(z), per) <= more
    BY <1>11, <1>14
  <2> HIDE DEF r, w
  <2> QED
    BY <1>5, <1>6, <1>9, <1>12, <1>13, <2>1 DEF RowsStand, per
<1> QED
  BY <1>8, <1>15 DEF z, x

\* What is reported of a tensor, against the estimate.
Reported(m, a, t, clamping, rows, count) ==
  LET estimate == RowChangesPu(m, a, t, clamping)
  IN  /\ t \in RowTensors(m, a) /\ Stored(m, t) /\ rows \in Nat
      /\ m.system = 0 =>
           /\ rows <= estimate
           /\ m.pu /\ t # "In" =>
                /\ rows = estimate
                /\ count >= estimate
                /\ ~HypertileSplit(m, a, t, clamping) => count = estimate

LEMMA WalkReports ==
  ASSUME NEW m, MappingTyped(m), Convolves(m), NEW a, ArchTyped(a), NEW t \in RowTensors(m, a), Stored(m, t),
         NEW clamping, NEW S, NEW s \in Seq(S), NEW open \in Nat \cup {-1}, NEW count \in Nat,
         RowsStand(m, a, t, clamping, s, Iterations(m, LevelNest(1)), open, count)
  PROVE  Reported(m, a, t, clamping, RowsFor(Len(s), TilesPerRow(m, a, t, clamping)), count)
<1> DEFINE per == TilesPerRow(m, a, t, clamping)
           n == ProductLevel(m, 1)
           r == RowsFor(Len(s), per)
           estimate == RowChangesPu(m, a, t, clamping)
<1>1. t \in Tensors /\ MaxTilesPerRow(m, a, t) # 0
  BY DEF RowTensors
<1>2. per \in Nat \ {0} /\ n \in Nat \ {0} /\ Iterations(m, LevelNest(1)) = n
  BY <1>1, TilesPerRowTyped, TileNest
<1>3. /\ Len(s) <= n /\ open < r /\ r <= count
      /\ t = "In" => Distinct(s) /\ \A k \in 1 .. Len(s) : \E i \in Nat : s[k] = TileAt(m, "In", i)
      /\ t # "In" => InRankOrder(m, t, s, n)
      /\ Straight(m, a, t, clamping) => count = open + 1
  BY <1>2 DEF RowsStand
<1>4. Len(s) \in Nat
  OBVIOUS
<1>5. TilesPu(m, t) \in Nat \ {0}
  BY <1>1, TilesTyped
<1>6. r \in Nat
  BY <1>2, <1>4, CeilDivType DEF RowsFor
<1>7. estimate = CeilDiv(TilesPu(m, t), per)
  BY DEF RowChangesPu, RowsFor
<1>8. m.system = 0 => Len(s) <= TilesPu(m, t)
  <2> SUFFICES ASSUME m.system = 0 PROVE Len(s) <= TilesPu(m, t)
    OBVIOUS
  <2>1. CASE ~m.pu
    <3>1. TilesPu(m, t) = n
      BY <2>1 DEF TilesPu
    <3> QED
      BY <1>3, <3>1
  <2>2. CASE m.pu /\ t = "In"
    <3>1. TilesPu(m, t) = InputEstimate(m, 1, 1)
      BY <2>2 DEF TilesPu, TilesPuSharing
    <3>2. Len(s) <= InputLevel(m, 1)
      BY <1>3, <2>2, InputCount
    <3>3. Len(s) <= InputEstimate(m, 1, 1)
      BY <1>3, <1>4, <3>2, InputFits
    <3> QED
      BY <3>1, <3>3
  <2>3. CASE m.pu /\ t # "In"
    <3>1. TilesPu(m, t) = TensorLevel(m, t, 1)
      BY <2>3 DEF TilesPu, TilesPuSharing
    <3>2. t \in {"F", "Out"}
      BY <1>1, <2>3 DEF Tensors
    <3>3. Len(s) = TensorLevel(m, t, 1)
      BY <1>3, <2>3, <3>2, AllPlaced
    <3> QED
      BY <1>4, <3>1, <3>3
  <2> QED
    BY <2>1, <2>2, <2>3
<1>9. m.system = 0 => r <= estimate
  BY <1>2, <1>4, <1>5, <1>7, <1>8, CeilDivOrder DEF RowsFor
<1>10. m.system = 0 /\ m.pu /\ t # "In" => r = estimate
  <2> SUFFICES ASSUME m.system = 0, m.pu, t # "In" PROVE r = estimate
    OBVIOUS
  <2>1. TilesPu(m, t) = TensorLevel(m, t, 1)
    BY DEF TilesPu, TilesPuSharing
  <2>2. t \in {"F", "Out"}
    BY <1>1 DEF Tensors
  <2>3. Len(s) = TensorLevel(m, t, 1)
    BY <1>3, <2>2, AllPlaced
  <2> QED
    BY <1>7, <2>1, <2>3 DEF RowsFor
<1>11. m.system = 0 /\ m.pu /\ t # "In" /\ ~HypertileSplit(m, a, t, clamping) => count = r
  <2> SUFFICES ASSUME m.system = 0, m.pu, t # "In", ~HypertileSplit(m, a, t, clamping) PROVE count = r
    OBVIOUS
  <2>1. count = open + 1
    BY <1>3 DEF Straight
  <2> HIDE DEF r
  <2> QED
    BY <1>3, <1>6, <2>1
<1>12. m.system = 0 /\ m.pu /\ t # "In" => count >= estimate
  <2> HIDE DEF r, estimate
  <2>1. m.system = 0 /\ m.pu /\ t # "In" => r <= count /\ r = estimate
    BY <1>3, <1>10
  <2> QED
    BY <1>6, <2>1
<1> QED
  BY <1>6, <1>9, <1>10, <1>11, <1>12 DEF Reported

\* The rows that are walked are those of stored tensors, what is reported of the
\* others stands.
StoredRows(m, a) == {t \in RowTensors(m, a) : Stored(m, t)}

Counted ==
  /\ Convolves(mapping)
  /\ queue \in Seq(StoredRows(mapping, arch)) /\ changes \in Nat
  /\ tensor # "none" =>
       /\ tensor \in StoredRows(mapping, arch)
       /\ RowsStand(mapping, arch, tensor, clamp, placed, access, openRow, changes)
  /\ \A t \in DOMAIN report : Reported(mapping, arch, t, clamp, report[t].rows, report[t].changes)

CountInv == RowInv /\ Counted

LEMMA CountInit ==
  ASSUME Init
  PROVE  CountInv
<1>1. RowInv
  BY RowInvInit
<1>2. Convolves(mapping)
  BY IndexAssumption DEF Init
<1>3. tensor = "none" /\ queue = << >> /\ report = << >> /\ changes = 0
  BY DEF Init, RowInit
<1>4. << >> \in Seq(StoredRows(mapping, arch)) /\ DOMAIN << >> = {}
  OBVIOUS
<1>5. DOMAIN report = {}
  BY <1>3, <1>4
<1> QED
  BY <1>1, <1>2, <1>3, <1>4, <1>5 DEF CountInv, Counted

\* No tile is placed yet.
LEMMA FreshCounts ==
  ASSUME NEW m, MappingTyped(m), NEW a, ArchTyped(a), NEW t \in RowTensors(m, a), NEW clamping
  PROVE  RowsStand(m, a, t, clamping, << >>, 0, -1, 0)
<1> DEFINE per == TilesPerRow(m, a, t, clamping)
<1>1. t \in Tensors /\ MaxTilesPerRow(m, a, t) # 0
  BY DEF RowTensors
<1>2. per \in Nat \ {0} /\ ProductLevel(m, 1) \in Nat \ {0}
  BY <1>1, TilesPerRowTyped, TileNest
<1> HIDE DEF per
<1>3. RowsFor(0, per) = 0
  <2>1. per - 1 \in Nat /\ 0 + per - 1 = per - 1 /\ 0 * per = 0
    BY <1>2
  <2>2. 0 * per <= per - 1 /\ per - 1 < 0 * per + per
    BY <1>2, <2>1
  <2>3. (per - 1) \div per = 0
    BY <1>2, <2>1, <2>2, QuotientIs
  <2> QED
    BY <2>1, <2>3 DEF RowsFor, CeilDiv
<1>4. Len(<< >>) = 0 /\ 1 .. 0 = {} /\ 0 .. 0 - 1 = {}
  OBVIOUS
<1>5. Distinct(<< >>) /\ InRankOrder(m, t, << >>, 0)
  BY <1>4 DEF Distinct, InRankOrder
<1>6. 0 <= ProductLevel(m, 1)
  BY <1>2
<1>7. 0 <= 0 /\ -1 < 0 /\ 0 = -1 + 1
  OBVIOUS
<1> QED
  BY <1>3, <1>4, <1>5, <1>6, <1>7 DEF RowsStand, per

LEMMA CountStays ==
  ASSUME CountInv, UNCHANGED input, UNCHANGED rowVars
  PROVE  Counted'
<1>1. mapping' = mapping /\ arch' = arch /\ clamp' = clamp
  BY DEF input
<1>2. /\ tensor' = tensor /\ queue' = queue /\ placed' = placed /\ access' = access
      /\ changes' = changes /\ openRow' = openRow /\ report' = report
  BY DEF rowVars
<1> QED
  BY <1>1, <1>2 DEF CountInv, Counted

LEMMA SelectedStored ==
  ASSUME NEW m, MappingTyped(m)
  PROVE  \A t \in ToSet(Selected(m)) : Stored(m, t)
<1> DEFINE T == {t \in Tensors : Stored(m, t)}
           one(t) == IF Stored(m, t) THEN << t >> ELSE << >>
<1>1. \A t \in Tensors : one(t) \in Seq(T)
  <2> SUFFICES ASSUME NEW t \in Tensors PROVE one(t) \in Seq(T)
    OBVIOUS
  <2>1. CASE Stored(m, t)
    <3>1. t \in T
      BY <2>1
    <3> HIDE DEF T
    <3>2. << t >> \in Seq(T)
      BY <3>1
    <3> QED
      BY <2>1, <3>2
  <2>2. CASE ~Stored(m, t)
    BY <2>2
  <2> QED
    BY <2>1, <2>2
<1>2. Selected(m) = one("In") \o one("F") \o one("Out")
  BY DEF Selected
<1>3. \A t \in T : Stored(m, t)
  OBVIOUS
<1> HIDE DEF T, one
<1>4. Selected(m) \in Seq(T)
  <2>1. one("In") \in Seq(T) /\ one("F") \in Seq(T) /\ one("Out") \in Seq(T)
    BY <1>1 DEF Tensors
  <2> QED
    BY <1>2, <2>1
<1>5. ToSet(Selected(m)) \in SUBSET T
  BY <1>4 DEF ToSet
<1> QED
  BY <1>3, <1>5

LEMMA CountStarts ==
  ASSUME CountInv, UNCHANGED input, StartAnalysis(mapping),
         ~\E t \in ToSet(Selected(mapping)) : MaxTilesPerRow(mapping, arch, t) = 0
  PROVE  Counted'
<1> DEFINE s == Selected(mapping)
           T == ToSet(s)
           S == StoredRows(mapping, arch)
<1>1. mapping' = mapping /\ arch' = arch /\ clamp' = clamp
  BY DEF input
<1>2. MappingTyped(mapping) /\ ArchTyped(arch) /\ Counted
  BY DEF CountInv, RowInv, InputTyped
<1>3. tensor' = Head(s) /\ queue' = Tail(s) /\ FreshTensor /\ report' = report
  BY DEF StartAnalysis
<1>4. s # << >> /\ s \in Seq(T) /\ T \in SUBSET Tensors
  BY <1>2, SomeSelected
<1>5. T \in SUBSET S
  <2>1. \A t \in T : Stored(mapping, t)
    BY <1>2, SelectedStored
  <2> QED
    BY <1>4, <2>1 DEF StoredRows, RowTensors
<1>6. placed' = << >> /\ access' = 0 /\ openRow' = -1 /\ changes' = 0
  BY <1>3 DEF FreshTensor
<1>7. tensor' \in S /\ queue' \in Seq(S)
  <2>1. tensor' = Head(s) /\ queue' = Tail(s)
    BY <1>3
  <2> HIDE DEF s, T, S
  <2>2. Head(s) \in T /\ Tail(s) \in Seq(T)
    BY <1>4
  <2>3. Tail(s) \in Seq(S)
    BY <1>5, <2>2
  <2> QED
    BY <1>5, <2>1, <2>2, <2>3
<1>8. RowsStand(mapping, arch, tensor', clamp, << >>, 0, -1, 0)
  <2>1. tensor' \in RowTensors(mapping, arch)
    BY <1>7 DEF StoredRows
  <2> QED
    BY <1>2, <2>1, FreshCounts
<1> QED
  BY <1>1, <1>2, <1>3, <1>6, <1>7, <1>8 DEF Counted

LEMMA CountNextTensor ==
  ASSUME CountInv, UNCHANGED input, FinishTensor(mapping, arch, clamp)
  PROVE  Counted'
<1> DEFINE S == StoredRows(mapping, arch)
           per == TilesPerRow(mapping, arch, tensor, clamp)
<1>1. mapping' = mapping /\ arch' = arch /\ clamp' = clamp
  BY DEF input
<1>2. MappingTyped(mapping) /\ ArchTyped(arch) /\ Counted
  BY DEF CountInv, RowInv, InputTyped
<1>3. /\ tensor # "none" /\ access = Iterations(mapping, LevelNest(1)) /\ FreshTensor
      /\ tensor' = IF queue = << >> THEN "none" ELSE Head(queue)
      /\ queue' = IF queue = << >> THEN << >> ELSE Tail(queue)
  BY DEF FinishTensor
<1>4. /\ DOMAIN report' = DOMAIN report \cup {tensor}
      /\ report'[tensor].rows = RowsFor(Len(placed), per) /\ report'[tensor].changes = changes
      /\ \A t \in DOMAIN report : t # tensor => report'[t] = report[t]
  BY DEF FinishTensor
<1>5. /\ Convolves(mapping) /\ queue \in Seq(S) /\ changes \in Nat /\ tensor \in S
      /\ RowsStand(mapping, arch, tensor, clamp, placed, access, openRow, changes)
      /\ \A t \in DOMAIN report : Reported(mapping, arch, t, clamp, report[t].rows, report[t].changes)
  BY <1>2, <1>3 DEF Counted
<1>6. placed \in Seq(TilesOf(mapping, tensor)) /\ openRow \in Nat \cup {-1}
  BY <1>3 DEF CountInv, RowInv, WalkedRows
<1>7. tensor \in RowTensors(mapping, arch) /\ Stored(mapping, tensor)
  BY <1>5 DEF StoredRows
<1>8. Reported(mapping, arch, tensor, clamp, RowsFor(Len(placed), per), changes)
  BY <1>2, <1>3, <1>5, <1>6, <1>7, WalkReports
<1>9. \A t \in DOMAIN report' : Reported(mapping, arch, t, clamp, report'[t].rows, report'[t].changes)
  <2> SUFFICES ASSUME NEW t \in DOMAIN report'
               PROVE  Reported(mapping, arch, t, clamp, report'[t].rows, report'[t].changes)
    OBVIOUS
  <2>1. CASE t = tensor
    <3>1. Reported(mapping, arch, tensor, clamp, report'[tensor].rows, report'[tensor].changes)
      BY <1>4, <1>8
    <3> QED
      BY <2>1, <3>1
  <2>2. CASE t # tensor
    <3>1. t \in DOMAIN report /\ report'[t] = report[t]
      BY <1>4, <2>2
    <3> QED
      BY <1>5, <3>1
  <2> QED
    BY <2>1, <2>2
<1>10. queue' \in Seq(S) /\ (tensor' # "none" => tensor' \in S)
  <2> HIDE DEF S
  <2>1. CASE queue = << >>
    BY <1>3, <2>1
  <2>2. CASE queue # << >>
    BY <1>3, <1>5, <2>2
  <2> QED
    BY <2>1, <2>2
<1>11. placed' = << >> /\ access' = 0 /\ openRow' = -1 /\ changes' = 0
  BY <1>3 DEF FreshTensor
<1>12. tensor' # "none" => RowsStand(mapping, arch, tensor', clamp, << >>, 0, -1, 0)
  <2> SUFFICES ASSUME tensor' # "none" PROVE RowsStand(mapping, arch, tensor', clamp, << >>, 0, -1, 0)
    OBVIOUS
  <2>1. tensor' \in RowTensors(mapping, arch)
    BY <1>10 DEF StoredRows
  <2> QED
    BY <1>2, <2>1, FreshCounts
<1> QED
  BY <1>1, <1>5, <1>9, <1>10, <1>11, <1>12 DEF Counted

LEMMA CountAccess ==
  ASSUME CountInv, UNCHANGED input, RecordAccess(mapping, arch, clamp)
  PROVE  Counted'
<1> DEFINE tile == TileAt(mapping, tensor, access)
           p == Placement(placed, tile)
           per == TilesPerRow(mapping, arch, tensor, clamp)
           row == p \div per
           more == IF row = openRow THEN changes ELSE changes + 1
<1>1. mapping' = mapping /\ arch' = arch /\ clamp' = clamp
  BY DEF input
<1>2. MappingTyped(mapping) /\ ArchTyped(arch) /\ Counted
  BY DEF CountInv, RowInv, InputTyped
<1>3. /\ tensor # "none" /\ access < Iterations(mapping, LevelNest(1)) /\ access' = access + 1
      /\ openRow' = row /\ changes' = more /\ placed' = Placing(placed, tile)
      /\ tensor' = tensor /\ queue' = queue /\ report' = report
  BY DEF RecordAccess, TileAt, Place, Placement, Placing
<1>4. /\ Convolves(mapping) /\ changes \in Nat /\ tensor \in StoredRows(mapping, arch)
      /\ RowsStand(mapping, arch, tensor, clamp, placed, access, openRow, changes)
  BY <1>2, <1>3 DEF Counted
<1>5. /\ placed \in Seq(TilesOf(mapping, tensor)) /\ openRow \in Nat \cup {-1} /\ access \in Nat
  BY <1>3 DEF CountInv, RowInv, WalkedRows
<1>6. tensor \in Tensors /\ MaxTilesPerRow(mapping, arch, tensor) # 0
  BY <1>4 DEF StoredRows, RowTensors
<1>7. tile \in TilesOf(mapping, tensor)
  BY <1>5 DEF TilesOf
<1>8. access < ProductLevel(mapping, 1)
  BY <1>2, <1>3, TileNest
<1>9. /\ row \in Nat /\ more \in Nat
      /\ RowsStand(mapping, arch, tensor, clamp, Placing(placed, tile), access + 1, row, more)
  <2> DEFINE x == row
             y == more
  <2>1. x = Placement(placed, TileAt(mapping, tensor, access)) \div TilesPerRow(mapping, arch, tensor, clamp)
    OBVIOUS
  <2>2. y = IF x = openRow THEN changes ELSE changes + 1
    OBVIOUS
  <2>3. TileAt(mapping, tensor, access) \in TilesOf(mapping, tensor)
    BY <1>7
  <2> HIDE DEF x, y, row, more, p, per, tile
  <2>4. /\ x \in Nat /\ y \in Nat
        /\ RowsStand(mapping, arch, tensor, clamp, Placing(placed, TileAt(mapping, tensor, access)), access + 1, x, y)
    BY <1>2, <1>4, <1>5, <1>6, <1>8, <2>1, <2>2, <2>3, AccessCounts
  <2> QED
    BY <2>4 DEF x, y, tile
<1> HIDE DEF row, more, p, per, tile
<1> QED
  BY <1>1, <1>2, <1>3, <1>9 DEF Counted

LEMMA CountStep ==
  ASSUME CountInv, [Next]_vars
  PROVE  CountInv'
<1>1. UNCHANGED input
  BY InputStays
<1>2. RowInv'
  BY RowInvStep DEF CountInv
<1>3. \/ UNCHANGED rowVars
      \/ /\ ~\E t \in ToSet(Selected(mapping)) : MaxTilesPerRow(mapping, arch, t) = 0
         /\ StartAnalysis(mapping)
      \/ RecordAccess(mapping, arch, clamp)
      \/ FinishTensor(mapping, arch, clamp)
  BY DEF Next, vars, VerifyConstraints, SimulateCache, SimulateAccess, Latency, Energy,
         AskAgain, Analyse, AnalyseAccess, AnalyseNextTensor
<1>4. Counted'
  BY <1>1, <1>3, CountStays, CountStarts, CountAccess, CountNextTensor
<1> QED
  BY <1>2, <1>4 DEF CountInv

\* estimate_tensor_row_changes counts what the walk of the row-change analysis finds.
THEOREM EstimateCorrect == Spec => []EstimateExact
<1>1. Init => CountInv
  BY CountInit
<1>2. CountInv /\ [Next]_vars => CountInv'
  BY CountStep
<1>3. CountInv => EstimateExact
  BY DEF CountInv, Counted, Reported, EstimateExact
<1> QED
  BY <1>1, <1>2, <1>3, PTL DEF Spec

-----------------------------------------------------------------------------
(* The room for what is placed.                                            *)

LEMMA ThreeTensors ==
  ASSUME NEW f, Numbers(f, Tensors)
  PROVE  SumFunctionOnSet(f, Tensors) = f["In"] + (f["F"] + f["Out"])
<1> DEFINE S == {"F", "Out"}
           R == {"Out"}
<1>1. "In" \in Tensors /\ Tensors \ {"In"} = S /\ "F" \in S /\ S \ {"F"} = R /\ S \in SUBSET Tensors
  BY DEF Tensors
<1>2. IsFiniteSet(S) /\ Numbers(f, S) /\ f["Out"] \in Nat
  BY <1>1, SomeTensorsFinite DEF Numbers
<1>3. SumFunctionOnSet(f, R) = f["Out"]
  BY <1>2, SumOne
<1> HIDE DEF S, R
<1>4. SumFunctionOnSet(f, Tensors) = f["In"] + SumFunctionOnSet(f, Tensors \ {"In"})
  BY <1>1, TensorsFinite, SumTake
<1>5. SumFunctionOnSet(f, S) = f["F"] + SumFunctionOnSet(f, S \ {"F"})
  BY <1>1, <1>2, SumTake
<1> QED
  BY <1>1, <1>3, <1>4, <1>5

\* The rows of a tensor in all the banks of a PU.
LEMMA BanksHold ==
  ASSUME NEW e \in Nat, NEW w \in Nat, NEW b \in Nat \ {0}
  PROVE  /\ e * w \in Nat /\ CeilDiv(e, b) * w \in Nat
         /\ e * w <= (CeilDiv(e, b) * w) * b
         /\ e * w <= (e * w) * b
<1> DEFINE q == CeilDiv(e, b)
<1>1. q \in Nat /\ e <= b * q
  BY OneRowMore
<1> HIDE DEF q
<1> DEFINE bq == b * q
<1>2. bq \in Nat
  BY <1>1
<1>3. e * w <= bq * w
  <2> HIDE DEF bq
  <2>1. e <= bq /\ w <= w
    BY <1>1 DEF bq
  <2> QED
    BY <1>2, <2>1, TimesOrder
<1>4. bq * w = (q * w) * b
  BY <1>1
<1>5. e * w \in Nat /\ q * w \in Nat
  BY <1>1
<1> DEFINE ew == e * w
<1>6. ew * 1 <= ew * b
  <2> HIDE DEF ew
  <2>1. ew \in Nat /\ ew <= ew /\ 1 \in Nat /\ 1 <= b /\ b \in Nat
    BY <1>5 DEF ew
  <2> QED
    BY <2>1, TimesOrder
<1>7. ew * 1 = ew
  BY <1>5
<1> QED
  BY <1>3, <1>4, <1>5, <1>6, <1>7 DEF q

\* The rows of a stored tensor in a PU, and what a bank has for it.
PuRows(m, a, t, clamping) == RowChangesPu(m, a, t, clamping) * RowsPerChange(m, t)
BankRows(m, a, t, clamping) == IF Stored(m, t) THEN UsedRowsBank(m, a, t, clamping) ELSE 0
AllRows(m, a, t, clamping) == IF Stored(m, t) THEN PuRows(m, a, t, clamping) ELSE 0

LEMMA BankRowsHold ==
  ASSUME NEW m, MappingTyped(m), NEW a, ArchTyped(a), NEW clamping, TilesFit(m, a), NEW t \in Tensors
  PROVE  /\ RowsPerChange(m, t) \in Nat
         /\ Stored(m, t) => RowChangesPu(m, a, t, clamping) \in Nat
         /\ BankRows(m, a, t, clamping) \in Nat /\ AllRows(m, a, t, clamping) \in Nat
         /\ AllRows(m, a, t, clamping) <= BankRows(m, a, t, clamping) * a.banks
         /\ ~Interleaved(m, t) => AllRows(m, a, t, clamping) = BankRows(m, a, t, clamping)
<1>1. RowsPerChange(m, t) \in Nat /\ a.banks \in Nat \ {0}
  <2>1. ElementBits(m, t) \in Nat \ {0} /\ a.banks \in Nat \ {0}
    BY ElementTyped, ArchFields
  <2> QED
    BY <2>1 DEF RowsPerChange
<1>2. CASE ~Stored(m, t)
  <2>1. BankRows(m, a, t, clamping) = 0 /\ AllRows(m, a, t, clamping) = 0 /\ 0 * a.banks = 0
    BY <1>1, <1>2 DEF BankRows, AllRows
  <2> QED
    BY <1>1, <1>2, <2>1
<1>3. CASE Stored(m, t)
  <2> DEFINE e == RowChangesPu(m, a, t, clamping)
             w == RowsPerChange(m, t)
             b == a.banks
             x == BankRows(m, a, t, clamping)
             y == AllRows(m, a, t, clamping)
  <2>1. e \in Nat
    <3>1. MaxTilesPerRow(m, a, t) # 0
      <4>1. MaxTilesPerRow(m, a, t) > 0
        BY <1>3 DEF TilesFit
      <4> QED
        BY <4>1
    <3>2. TilesPerRow(m, a, t, clamping) \in Nat \ {0} /\ TilesPu(m, t) \in Nat
      BY <3>1, TilesPerRowTyped, TilesTyped
    <3> QED
      BY <3>2, CeilDivType DEF RowChangesPu, RowsFor
  <2>2. x = (IF Interleaved(m, t) THEN CeilDiv(e, b) ELSE e) * w /\ y = e * w
    BY <1>3 DEF BankRows, AllRows, PuRows, UsedRowsBank, RowChangesBank
  <2>3. w \in Nat /\ b \in Nat \ {0}
    BY <1>1
  <2> HIDE DEF e, w, b, x, y
  <2>4. /\ e * w \in Nat /\ CeilDiv(e, b) * w \in Nat
        /\ e * w <= (CeilDiv(e, b) * w) * b /\ e * w <= (e * w) * b
    BY <2>1, <2>3, BanksHold
  <2>5. CASE Interleaved(m, t)
    <3>1. x = CeilDiv(e, b) * w /\ y = e * w
      BY <2>2, <2>5
    <3>2. x \in Nat /\ y \in Nat /\ y <= x * b
      BY <2>4, <3>1
    <3> QED
      BY <2>1, <2>3, <2>5, <3>2 DEF e, w, b, x, y
  <2>6. CASE ~Interleaved(m, t)
    <3>1. x = e * w /\ y = e * w
      BY <2>2, <2>6
    <3>2. x \in Nat /\ y \in Nat /\ y <= x * b /\ y = x
      BY <2>4, <3>1
    <3> QED
      BY <2>1, <2>3, <2>6, <3>2 DEF e, w, b, x, y
  <2> QED
    BY <2>5, <2>6
<1> QED
  BY <1>2, <1>3

LEMMA PairMax ==
  ASSUME NEW x \in Nat, NEW y \in Nat
  PROVE  Max({x, y}) \in Nat /\ x <= Max({x, y}) /\ y <= Max({x, y})
<1> DEFINE S == {x, y}
<1>1. \E k \in S : \A l \in S : l <= k
  <2>1. CASE x <= y
    BY <2>1
  <2>2. CASE y <= x
    BY <2>2
  <2> QED
    BY <2>1, <2>2
<1>2. x \in S /\ y \in S /\ S \in SUBSET Nat
  OBVIOUS
<1> HIDE DEF S
<1>3. Max(S) \in S /\ \A l \in S : l <= Max(S)
  BY <1>1 DEF Max
<1> QED
  BY <1>2, <1>3 DEF S

\* The banks of a PU have room for the rows of its tensors.
LEMMA RoomForRows ==
  ASSUME NEW m, MappingTyped(m), NEW a, ArchTyped(a), NEW clamping, Legal(m, a, clamping),
         StoresBoth(m) => a.banks > 1
  PROVE  AllRows(m, a, "In", clamping) + (AllRows(m, a, "F", clamping) + AllRows(m, a, "Out", clamping))
           <= a.rows * a.banks
<1> DEFINE xi == BankRows(m, a, "In", clamping)
           xf == BankRows(m, a, "F", clamping)
           xo == BankRows(m, a, "Out", clamping)
           yi == AllRows(m, a, "In", clamping)
           yf == AllRows(m, a, "F", clamping)
           yo == AllRows(m, a, "Out", clamping)
           b == a.banks
<1>1. TilesFit(m, a) /\ RowsOfBank(m, a, clamping) <= a.rows
  BY DEF Legal, Schedulable
<1>2. "In" \in Tensors /\ "F" \in Tensors /\ "Out" \in Tensors
  BY DEF Tensors
<1>3. /\ xi \in Nat /\ xf \in Nat /\ xo \in Nat /\ yi \in Nat /\ yf \in Nat /\ yo \in Nat
      /\ yi <= xi * b /\ yf <= xf * b /\ yo <= xo * b
  BY <1>1, <1>2, BankRowsHold
<1>4. b \in Nat \ {0} /\ a.rows \in Nat
  BY ArchFields
<1>5. RowsOfBank(m, a, clamping)
        = (IF m.interleaved /\ StoresBoth(m) THEN Max({xf, xi}) ELSE xf + xi) + xo
  BY DEF RowsOfBank, BankRows
<1>6. StoresBoth(m) => ~Interleaved(m, "In") /\ ~Interleaved(m, "F")
  BY DEF Interleaved
<1>7. StoresBoth(m) => yi = xi /\ yf = xf
  BY <1>1, <1>2, <1>6, BankRowsHold
<1> HIDE DEF xi, xf, xo, yi, yf, yo
<1> DEFINE rows == a.rows
           top == rows * b
<1>8. \A x \in Nat : x <= rows => x * b <= top
  BY <1>4, TimesOrder
<1>9. CASE m.interleaved /\ StoresBoth(m)
  <2> DEFINE z == Max({xf, xi})
  <2>1. z \in Nat /\ xf <= z /\ xi <= z
    BY <1>3, PairMax
  <2>2. z + xo <= rows
    BY <1>1, <1>5, <1>9
  <2> HIDE DEF z
  <2>3. b >= 2 /\ b \in Nat
    BY <1>4, <1>9
  <2>4. 2 * z <= b * z
    <3>1. 2 \in Nat /\ 2 <= b /\ z <= z
      BY <2>1, <2>3
    <3> QED
      BY <2>1, <2>3, <3>1, TimesOrder
  <2>5. (z + xo) * b = b * z + xo * b /\ z + xo \in Nat
    BY <1>3, <2>1, <2>3
  <2>6. (z + xo) * b <= top
    BY <1>8, <2>2, <2>5
  <2> DEFINE bz == b * z
             xb == xo * b
  <2>7. bz \in Nat /\ xb \in Nat /\ top \in Nat
    BY <1>3, <1>4, <2>1, <2>3
  <2>8. 2 * z <= bz /\ bz + xb <= top /\ yo <= xb
    BY <1>3, <2>4, <2>5, <2>6
  <2> HIDE DEF bz, xb, top
  <2>9. yi + (yf + yo) <= top
    BY <1>3, <1>7, <1>9, <2>1, <2>7, <2>8
  <2> QED
    BY <2>9 DEF top, yi, yf, yo
<1>10. CASE ~(m.interleaved /\ StoresBoth(m))
  <2>1. xf + xi + xo <= rows
    BY <1>1, <1>5, <1>10
  <2>2. xf + xi + xo \in Nat /\ (xf + xi + xo) * b = xf * b + xi * b + xo * b
    BY <1>3, <1>4
  <2>3. (xf + xi + xo) * b <= top
    BY <1>8, <2>1, <2>2
  <2> DEFINE bf == xf * b
             bi == xi * b
             bo == xo * b
  <2>4. bf \in Nat /\ bi \in Nat /\ bo \in Nat /\ top \in Nat
    BY <1>3, <1>4
  <2>5. bf + bi + bo <= top /\ yf <= bf /\ yi <= bi /\ yo <= bo
    BY <1>3, <2>2, <2>3
  <2> HIDE DEF bf, bi, bo, top
  <2>6. yi + (yf + yo) <= top
    BY <1>3, <2>4, <2>5
  <2> QED
    BY <2>6 DEF top, yi, yf, yo
<1> QED
  BY <1>9, <1>10

LEMMA CountedFits ==
  ASSUME CountInv
  PROVE  VerifiedFits
<1> SUFFICES ASSUME Legal(mapping, arch, clamp), mapping.system = 0, StoresBoth(mapping) => arch.banks > 1
             PROVE  RowsPlaced <= arch.rows * arch.banks
  BY DEF VerifiedFits, PlacementFits
<1> DEFINE D == DOMAIN report
           w(t) == RowsPerChange(mapping, t)
           f == [t \in D |-> report[t].rows * RowsPerChange(mapping, t)]
           g == [t \in Tensors |-> AllRows(mapping, arch, t, clamp)]
<1>1. MappingTyped(mapping) /\ ArchTyped(arch)
  BY DEF CountInv, RowInv, InputTyped
<1>2. TilesFit(mapping, arch)
  BY DEF Legal, Schedulable
<1>3. \A t \in D : t \in Tensors /\ f[t] \in Nat /\ f[t] <= g[t]
  <2> SUFFICES ASSUME NEW t \in D PROVE t \in Tensors /\ f[t] \in Nat /\ f[t] <= g[t]
    OBVIOUS
  <2>1. Reported(mapping, arch, t, clamp, report[t].rows, report[t].changes)
    BY DEF CountInv, Counted
  <2> DEFINE r == report[t].rows
             e == RowChangesPu(mapping, arch, t, clamp)
             v == RowsPerChange(mapping, t)
  <2>2. t \in Tensors /\ Stored(mapping, t) /\ r \in Nat /\ r <= e
    BY <2>1 DEF Reported, RowTensors
  <2>3. v \in Nat /\ e \in Nat
    BY <1>1, <1>2, <2>2, BankRowsHold
  <2>4. f[t] = r * v
    OBVIOUS
  <2>5. g[t] = e * v
    BY <2>2 DEF AllRows, PuRows
  <2> HIDE DEF r, e, v, f, g
  <2>6. r * v <= e * v /\ r * v \in Nat
    <3>1. v <= v
      BY <2>3
    <3> QED
      BY <2>2, <2>3, <3>1, TimesOrder
  <2> QED
    BY <2>2, <2>4, <2>5, <2>6
<1>4. \A t \in Tensors : g[t] \in Nat /\ g[t] = AllRows(mapping, arch, t, clamp)
  BY <1>1, <1>2, BankRowsHold
<1>5. RowsPlaced = SumFunctionOnSet(f, D)
  BY DEF RowsPlaced
<1> HIDE DEF f, g, D
<1>6. D \in SUBSET Tensors /\ IsFiniteSet(D) /\ IsFiniteSet(Tensors \ D)
  <2>1. D \in SUBSET Tensors /\ Tensors \ D \in SUBSET Tensors
    BY <1>3
  <2> QED
    BY <2>1, SomeTensorsFinite
<1>7. Numbers(f, D) /\ Numbers(g, D) /\ Numbers(g, Tensors) /\ Numbers(g, Tensors \ D)
  BY <1>3, <1>4 DEF Numbers
<1>8. SumFunctionOnSet(f, D) <= SumFunctionOnSet(g, D)
  BY <1>3, <1>6, <1>7, SumOrder
<1>9. SumFunctionOnSet(g, Tensors) = SumFunctionOnSet(g, D) + SumFunctionOnSet(g, Tensors \ D)
  BY <1>6, <1>7, TensorsFinite, SumSplit
<1>10. /\ SumFunctionOnSet(f, D) \in Nat /\ SumFunctionOnSet(g, D) \in Nat
       /\ SumFunctionOnSet(g, Tensors \ D) \in Nat
  BY <1>6, <1>7, SumType
<1>11. SumFunctionOnSet(g, Tensors) = g["In"] + (g["F"] + g["Out"])
  BY <1>7, ThreeTensors
<1>12. g["In"] + (g["F"] + g["Out"]) <= arch.rows * arch.banks
  <2>1. /\ g["In"] = AllRows(mapping, arch, "In", clamp) /\ g["F"] = AllRows(mapping, arch, "F", clamp)
        /\ g["Out"] = AllRows(mapping, arch, "Out", clamp)
    BY <1>4 DEF Tensors
  <2> QED
    BY <1>1, <2>1, RoomForRows
<1> DEFINE u == SumFunctionOnSet(f, D)
           x == SumFunctionOnSet(g, D)
           y == SumFunctionOnSet(g, Tensors \ D)
           top == arch.rows * arch.banks
<1>13. u \in Nat /\ x \in Nat /\ y \in Nat /\ u <= x /\ x + y <= top /\ RowsPlaced = u
  BY <1>5, <1>8, <1>9, <1>10, <1>11, <1>12
<1>14. top \in Nat
  BY <1>1, ArchFields
<1> HIDE DEF u, x, y, top
<1>15. RowsPlaced <= top
  BY <1>13, <1>14
<1> QED
  BY <1>15 DEF top

\* A mapping that verify_constraints accepts has room for the rows its tiles are placed in.
THEOREM PlacementCorrect == Spec => []VerifiedFits
<1>1. Init => CountInv
  BY CountInit
<1>2. CountInv /\ [Next]_vars => CountInv'
  BY CountStep
<1>3. CountInv => VerifiedFits
  BY CountedFits
<1> QED
  BY <1>1, <1>2, <1>3, PTL DEF Spec
=============================================================================
