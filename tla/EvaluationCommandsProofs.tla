---------------------- MODULE EvaluationCommandsProofs ----------------------
(***************************************************************************)
(* The evaluation commands, for every sequence of commands, every input    *)
(* and every table of outcomes, killed at any time: the order in which     *)
(* they write their files, what the table of a report holds when most of   *)
(* it was found there, and what its fronts and winners answer for.         *)
(***************************************************************************)
EXTENDS EvaluationCommands, SequenceTheorems, FiniteSetTheorems, WellFoundedInduction, TLAPS

-----------------------------------------------------------------------------
(* Numbers, folds, and lists: what the picked and the joined ones hold.    *)

\* A set of numbers that is not empty has a least element.
LEMMA LeastNumber ==
  ASSUME NEW S \in SUBSET Nat, S # {}
  PROVE  \E n \in S : \A m \in S : n <= m
<1> DEFINE R == OpToRel(<, Nat)
<1>1. IsWellFoundedOn(R, Nat)
  BY NatLessThanWellFounded
<1> HIDE DEF R
<1>2. PICK n \in S : \A m \in S : ~(<< m, n >> \in R)
  BY <1>1, WFMin
<1>3. \A m \in S : ~(m < n)
  <2> SUFFICES ASSUME NEW m \in S, m < n PROVE FALSE
    OBVIOUS
  <2>1. << m, n >> \in R
    BY DEF R, OpToRel
  <2> QED
    BY <1>2, <2>1
<1> QED
  BY <1>3

\* A list is one of its own elements.
LEMMA OfItsRange ==
  ASSUME NEW S, NEW t \in Seq(S)
  PROVE  t \in Seq(Range(t))
<1>1. PICK n \in Nat : t \in [1 .. n -> S]
  BY SeqDef
<1>2. t \in [1 .. n -> Range(t)]
  BY <1>1 DEF Range
<1> QED
  BY <1>2, SeqDef

\* What holds of 0 and passes on holds of every number.
LEMMA Upwards ==
  ASSUME NEW A \in SUBSET Nat, 0 \in A, \A n \in A : n + 1 \in A
  PROVE  A = Nat
<1> DEFINE B == Nat \ A
<1> SUFFICES ASSUME B # {} PROVE FALSE
  OBVIOUS
<1>1. B \in SUBSET Nat
  OBVIOUS
<1>2. PICK n \in B : \A m \in B : n <= m
  BY <1>1, LeastNumber
<1>3. n # 0 /\ n - 1 \in Nat /\ n - 1 \notin B
  BY <1>2
<1> QED
  BY <1>2, <1>3

\* A set of positions has a largest one.
LEMMA LargestPosition ==
  ASSUME NEW n \in Nat, NEW S \in SUBSET (1 .. n), S # {}
  PROVE  Max(S) \in S /\ \A m \in S : m <= Max(S)
<1> DEFINE U == {k \in Nat : \A m \in S : m <= k}
<1>1. U \in SUBSET Nat /\ n \in U
  OBVIOUS
<1>2. PICK k \in U : \A j \in U : k <= j
  BY <1>1, LeastNumber
<1>3. k \in S
  <2> SUFFICES ASSUME k \notin S PROVE FALSE
    OBVIOUS
  <2>0. k \in Nat /\ \A m \in S : m \in Nat /\ m <= k /\ m # k
    BY <1>2
  <2>1. \A m \in S : m <= k - 1
    BY <2>0
  <2>2. k - 1 \in Nat
    <3>1. PICK m \in S : TRUE
      OBVIOUS
    <3> QED
      BY <2>0, <3>1
  <2> QED
    BY <1>2, <2>1, <2>2
<1>4. \E x \in S : \A m \in S : m <= x
  BY <1>2, <1>3
<1> QED
  BY <1>4 DEF Max

\* A fold from the left, as a function of sets of positions, exists.
FoldsOver(n, V, base, step, iter) ==
  iter = [s \in SUBSET (1 .. n) |-> IF s = {} THEN base
                                    ELSE step[<< Max(s), iter[s \ {Max(s)}] >>]]

\* A fold over the positions of a list is a function of its sets of positions.
LEMMA FoldExists ==
  ASSUME NEW V, NEW base \in V, NEW step \in [Nat \X V -> V], NEW n \in Nat
  PROVE  \E iter \in [SUBSET (1 .. n) -> V] : FoldsOver(n, V, base, step, iter)
<1> DEFINE A == {k \in Nat : \E iter \in [SUBSET (1 .. k) -> V] : FoldsOver(k, V, base, step, iter)}
<1>1. 0 \in A
  <2> DEFINE iter == [s \in SUBSET (1 .. 0) |-> base]
  <2>1. \A s \in SUBSET (1 .. 0) : s = {}
    OBVIOUS
  <2>2. iter \in [SUBSET (1 .. 0) -> V] /\ FoldsOver(0, V, base, step, iter)
    BY <2>1 DEF FoldsOver
  <2> QED
    BY <2>2
<1>2. ASSUME NEW k \in A PROVE k + 1 \in A
  <2>1. PICK iter \in [SUBSET (1 .. k) -> V] : FoldsOver(k, V, base, step, iter)
    OBVIOUS
  <2> DEFINE next == [s \in SUBSET (1 .. k + 1) |->
                        IF k + 1 \in s THEN step[<< k + 1, iter[s \ {k + 1}] >>] ELSE iter[s]]
  <2>2. \A s \in SUBSET (1 .. k + 1) : s \ {k + 1} \in SUBSET (1 .. k)
    OBVIOUS
  <2>3. \A s \in SUBSET (1 .. k + 1) : k + 1 \notin s => s \in SUBSET (1 .. k)
    OBVIOUS
  <2>4. next \in [SUBSET (1 .. k + 1) -> V]
    BY <2>2, <2>3
  <2>5. ASSUME NEW s \in SUBSET (1 .. k + 1)
        PROVE  next[s] = IF s = {} THEN base ELSE step[<< Max(s), next[s \ {Max(s)}] >>]
    <3>1. CASE k + 1 \in s
      <4>0. k \in Nat /\ k + 1 \in Nat /\ s # {}
        BY <3>1
      <4>1. Max(s) \in s /\ \A m \in s : m <= Max(s)
        BY <4>0, LargestPosition
      <4>2. Max(s) = k + 1
        <5>1. Max(s) \in 1 .. k + 1
          BY <4>1
        <5> HIDE DEF next
        <5> QED
          BY <3>1, <4>0, <4>1, <5>1
      <4>3. k + 1 \notin s \ {k + 1} /\ s \ {k + 1} \in SUBSET (1 .. k + 1)
        <5> HIDE DEF next
        <5> QED
          OBVIOUS
      <4>4. next[s \ {k + 1}] = iter[s \ {k + 1}]
        BY <4>3
      <4>5. next[s] = step[<< k + 1, iter[s \ {k + 1}] >>]
        BY <3>1
      <4> QED
        BY <3>1, <4>2, <4>4, <4>5
    <3>2. CASE k + 1 \notin s /\ s # {}
      <4>1. s \in SUBSET (1 .. k)
        BY <2>3, <3>2
      <4>2. next[s] = iter[s]
        BY <3>2
      <4>3. iter[s] = step[<< Max(s), iter[s \ {Max(s)}] >>]
        BY <2>1, <3>2, <4>1 DEF FoldsOver
      <4>4. s \ {Max(s)} \in SUBSET (1 .. k + 1) /\ k + 1 \notin s \ {Max(s)}
        BY <3>2
      <4>5. next[s \ {Max(s)}] = iter[s \ {Max(s)}]
        BY <4>4
      <4> HIDE DEF next
      <4> QED
        BY <3>2, <4>2, <4>3, <4>5
    <3>3. CASE s = {}
      <4>1. {} \in SUBSET (1 .. k) /\ k + 1 \notin {}
        OBVIOUS
      <4>2. next[{}] = iter[{}]
        OBVIOUS
      <4>3. iter[{}] = base
        BY <2>1, <4>1 DEF FoldsOver
      <4> HIDE DEF next
      <4> QED
        BY <3>3, <4>2, <4>3
    <3> QED
      BY <3>1, <3>2, <3>3
  <2> HIDE DEF next
  <2>6. FoldsOver(k + 1, V, base, step, next)
    BY <2>4, <2>5 DEF FoldsOver
  <2> QED
    BY <2>4, <2>6
<1>3. A \in SUBSET Nat
  OBVIOUS
<1> HIDE DEF A
<1>4. A = Nat
  BY <1>1, <1>2, <1>3, Upwards
<1> QED
  BY <1>4 DEF A
\* What the fold of Picked satisfies.
PickedBy(list, P, iter) ==
  iter = [s \in SUBSET DOMAIN [i \in DOMAIN list |-> i] |->
            IF s = {} THEN << >>
            ELSE IF [i \in DOMAIN list |-> i][Max(s)] \in P
                 THEN Append(iter[s \ {Max(s)}], list[[i \in DOMAIN list |-> i][Max(s)]])
                 ELSE iter[s \ {Max(s)}]]

\* What is picked from a list is such a fold.
LEMMA PickedIsFold ==
  ASSUME NEW S, NEW list \in Seq(S), NEW P \in SUBSET DOMAIN list
  PROVE  \E iter : PickedBy(list, P, iter) /\ Picked(list, P) = iter[DOMAIN list]
<1>1. Picked(list, P) = (CHOOSE iter : PickedBy(list, P, iter))[DOMAIN [i \in DOMAIN list |-> i]]
  BY DEF Picked, FoldLeftDomain, FoldLeft, MapThenFoldSet, PickedBy
<1>2. DOMAIN [i \in DOMAIN list |-> i] = DOMAIN list
  OBVIOUS
<1> DEFINE n == Len(list)
           step == [x \in Nat \X Seq(S) |-> IF x[1] \in P THEN Append(x[2], list[x[1]]) ELSE x[2]]
<1>3. n \in Nat /\ DOMAIN list = 1 .. n /\ \A i \in 1 .. n : list[i] \in S
  OBVIOUS
<1>4. \A k \in Nat, u \in Seq(S) : /\ << k, u >> \in Nat \X Seq(S)
                                   /\ step[<< k, u >>] = IF k \in P THEN Append(u, list[k]) ELSE u
  OBVIOUS
<1>5. step \in [Nat \X Seq(S) -> Seq(S)]
  <2>1. ASSUME NEW x \in Nat \X Seq(S)
        PROVE  (IF x[1] \in P THEN Append(x[2], list[x[1]]) ELSE x[2]) \in Seq(S)
    <3>1. x[1] \in Nat /\ x[2] \in Seq(S) /\ (x[1] \in P => list[x[1]] \in S)
      BY <1>3
    <3> QED
      BY <3>1, AppendProperties
  <2> QED
    BY <2>1
<1>6. << >> \in Seq(S)
  OBVIOUS
<1> HIDE DEF step, n
<1>7. PICK iter \in [SUBSET (1 .. n) -> Seq(S)] : FoldsOver(n, Seq(S), << >>, step, iter)
  BY <1>3, <1>5, <1>6, FoldExists
<1>8. PickedBy(list, P, iter)
  <2>1. iter = [s \in SUBSET (1 .. n) |-> IF s = {} THEN << >> ELSE step[<< Max(s), iter[s \ {Max(s)}] >>]]
    BY <1>7 DEF FoldsOver
  <2>2. ASSUME NEW s \in SUBSET (1 .. n), s # {}
        PROVE  step[<< Max(s), iter[s \ {Max(s)}] >>] =
                 IF [i \in DOMAIN list |-> i][Max(s)] \in P
                 THEN Append(iter[s \ {Max(s)}], list[[i \in DOMAIN list |-> i][Max(s)]])
                 ELSE iter[s \ {Max(s)}]
    <3>1. Max(s) \in 1 .. n
      BY <1>3, <2>2, LargestPosition
    <3>2. [i \in DOMAIN list |-> i][Max(s)] = Max(s)
      BY <1>3, <3>1
    <3>3. Max(s) \in Nat /\ iter[s \ {Max(s)}] \in Seq(S)
      <4>1. s \ {Max(s)} \in SUBSET (1 .. n)
        OBVIOUS
      <4>2. \A r \in SUBSET (1 .. n) : iter[r] \in Seq(S)
        BY <1>7
      <4> QED
        BY <1>3, <3>1, <4>1, <4>2
    <3> QED
      BY <1>4, <3>2, <3>3
  <2>3. DOMAIN [i \in DOMAIN list |-> i] = 1 .. n
    BY <1>2, <1>3
  <2> QED
    BY <2>1, <2>2, <2>3 DEF PickedBy
<1> QED
  BY <1>1, <1>2, <1>8


\* The elements of a list at a set of places, each once and in their order.
PickedAt(list, P, u) ==
  /\ IsFiniteSet(P) /\ Cardinality(P) \in Nat
  /\ \E place \in [1 .. Cardinality(P) -> P] :
       /\ u = [k \in 1 .. Cardinality(P) |-> list[place[k]]]
       /\ \A k, l \in 1 .. Cardinality(P) : k < l => place[k] < place[l]
       /\ \A i \in P : \E k \in 1 .. Cardinality(P) : place[k] = i

\* Nothing is picked at no place.
LEMMA PickedNone ==
  ASSUME NEW list
  PROVE  PickedAt(list, {}, << >>)
<1>1. IsFiniteSet({}) /\ Cardinality({}) = 0
  BY FS_EmptySet
<1>2. 1 .. 0 = {}
  OBVIOUS
<1>3. << >> = [k \in 1 .. 0 |-> list[[i \in {} |-> i][k]]]
  <2>1. [k \in 1 .. 0 |-> list[[i \in {} |-> i][k]]] \in [1 .. 0 -> {}]
    BY <1>2
  <2>2. [k \in 1 .. 0 |-> list[[i \in {} |-> i][k]]] \in Seq({})
    BY <2>1, SeqDef
  <2> DEFINE e == [k \in 1 .. 0 |-> list[[i \in {} |-> i][k]]]
  <2>3. e \in Seq({}) /\ DOMAIN e = 1 .. 0
    BY <2>2
  <2> HIDE DEF e
  <2>4. Len(e) = 0
    BY <2>3
  <2>5. e = << >>
    BY <2>3, <2>4, EmptySeq
  <2> QED
    BY <2>5 DEF e
<1>4. [i \in {} |-> i] \in [1 .. 0 -> {}]
  BY <1>2
<1>5. \E place \in [1 .. 0 -> {}] :
        /\ << >> = [k \in 1 .. 0 |-> list[place[k]]]
        /\ \A k, l \in 1 .. 0 : k < l => place[k] < place[l]
        /\ \A i \in {} : \E k \in 1 .. 0 : place[k] = i
  <2> DEFINE place == [i \in {} |-> i]
  <2>1. place \in [1 .. 0 -> {}] /\ << >> = [k \in 1 .. 0 |-> list[place[k]]]
    BY <1>3, <1>4
  <2>2. /\ \A k, l \in 1 .. 0 : k < l => place[k] < place[l]
        /\ \A i \in {} : \E k \in 1 .. 0 : place[k] = i
    BY <1>2
  <2> HIDE DEF place
  <2> QED
    BY <2>1, <2>2
<1> DEFINE P == {}
<1>6. IsFiniteSet(P) /\ Cardinality(P) = 0 /\ 0 \in Nat
  BY <1>1
<1>7. \E place \in [1 .. 0 -> P] :
        /\ << >> = [k \in 1 .. 0 |-> list[place[k]]]
        /\ \A k, l \in 1 .. 0 : k < l => place[k] < place[l]
        /\ \A i \in P : \E k \in 1 .. 0 : place[k] = i
  BY <1>5
<1> HIDE DEF P
<1>8. PickedAt(list, P, << >>)
  BY <1>6, <1>7 DEF PickedAt
<1> QED
  BY <1>8 DEF P

\* A place beyond the others adds its element at the end.
LEMMA PickedMore ==
  ASSUME NEW S, NEW list \in Seq(S), NEW P \in SUBSET DOMAIN list, NEW u, PickedAt(list, P, u),
         NEW i \in DOMAIN list, \A p \in P : p < i
  PROVE  PickedAt(list, P \cup {i}, Append(u, list[i]))
<1> DEFINE c == Cardinality(P)
<1>0. DOMAIN list = 1 .. Len(list) /\ Len(list) \in Nat /\ i \in Nat /\ i \notin P
      /\ (\A j \in DOMAIN list : list[j] \in S) /\ \A p \in P : p \in Nat /\ p < i /\ list[p] \in S
  OBVIOUS
<1>1. IsFiniteSet(P) /\ c \in Nat
  BY DEF PickedAt
<1>2. IsFiniteSet(P \cup {i}) /\ Cardinality(P \cup {i}) = c + 1
  BY <1>0, <1>1, FS_AddElement
<1>3. PICK place \in [1 .. c -> P] :
        /\ u = [j \in 1 .. c |-> list[place[j]]]
        /\ \A j, l \in 1 .. c : j < l => place[j] < place[l]
        /\ \A p \in P : \E j \in 1 .. c : place[j] = p
  BY DEF PickedAt
<1> HIDE DEF c
<1> DEFINE next == [j \in 1 .. c + 1 |-> IF j = c + 1 THEN i ELSE place[j]]
<1>4. \A j \in 1 .. c + 1 : (j = c + 1 => next[j] = i) /\ (j # c + 1 => j \in 1 .. c /\ next[j] = place[j])
  BY <1>1
<1>5. next \in [1 .. c + 1 -> P \cup {i}]
  BY <1>1, <1>3
<1>6. u \in Seq(S) /\ Len(u) = c
  <2>1. \A j \in 1 .. c : list[place[j]] \in S
    BY <1>0, <1>3
  <2>2. u \in [1 .. c -> S]
    BY <1>3, <2>1
  <2> QED
    BY <1>1, <2>2, SeqDef, LenProperties
<1> DEFINE v == Append(u, list[i])
<1>7. /\ v \in Seq(S) /\ Len(v) = c + 1 /\ DOMAIN v = 1 .. c + 1
      /\ v[c + 1] = list[i] /\ \A j \in 1 .. c : v[j] = u[j]
  <2>1. list[i] \in S
    BY <1>0
  <2>2. v \in Seq(S) /\ Len(v) = c + 1 /\ v[c + 1] = list[i] /\ \A j \in 1 .. c : v[j] = u[j]
    BY <1>1, <1>6, <2>1, AppendProperties
  <2> HIDE DEF v
  <2> QED
    BY <2>2, LenProperties
<1> HIDE DEF v, next
<1>8. \A j \in 1 .. c : u[j] = list[place[j]]
  BY <1>3
<1>9. \A j \in 1 .. c + 1 : v[j] = list[next[j]]
  BY <1>4, <1>7, <1>8
<1>10. v = [j \in 1 .. c + 1 |-> v[j]]
  <2>1. v \in [1 .. Len(v) -> S]
    BY <1>7, LenProperties
  <2> QED
    BY <1>7, <2>1
<1>11. v = [j \in 1 .. c + 1 |-> list[next[j]]]
  BY <1>9, <1>10
<1>12. \A j, l \in 1 .. c + 1 : j < l => next[j] < next[l]
  <2> SUFFICES ASSUME NEW j \in 1 .. c + 1, NEW l \in 1 .. c + 1, j < l PROVE next[j] < next[l]
    OBVIOUS
  <2>1. j \in 1 .. c /\ next[j] = place[j] /\ place[j] \in P
    BY <1>1, <1>3, <1>4
  <2>2. CASE l = c + 1
    BY <1>0, <1>4, <2>1, <2>2
  <2>3. CASE l # c + 1
    BY <1>3, <1>4, <2>1, <2>3
  <2> QED
    BY <2>2, <2>3
<1>13. \A p \in P \cup {i} : \E j \in 1 .. c + 1 : next[j] = p
  <2> SUFFICES ASSUME NEW p \in P \cup {i} PROVE \E j \in 1 .. c + 1 : next[j] = p
    OBVIOUS
  <2>1. CASE p = i
    <3>1. c + 1 \in 1 .. c + 1
      BY <1>1
    <3> QED
      BY <1>4, <2>1, <3>1
  <2>2. CASE p \in P
    <3>1. PICK j \in 1 .. c : place[j] = p
      BY <1>3, <2>2
    <3>2. j \in 1 .. c + 1 /\ j # c + 1
      BY <1>1
    <3> QED
      BY <1>4, <3>1, <3>2
  <2> QED
    BY <2>1, <2>2
<1>14. c + 1 \in Nat
  BY <1>1
<1> QED
  BY <1>2, <1>5, <1>11, <1>12, <1>13, <1>14 DEF PickedAt, v

\* What is picked keeps the order of the list, and misses no place.
LEMMA PickedShape ==
  ASSUME NEW S, NEW list \in Seq(S), NEW P \in SUBSET DOMAIN list
  PROVE  PickedAt(list, P, Picked(list, P))
<1> DEFINE n == Len(list)
<1>1. n \in Nat /\ DOMAIN list = 1 .. n
  OBVIOUS
<1>2. PICK iter : PickedBy(list, P, iter) /\ Picked(list, P) = iter[DOMAIN list]
  BY PickedIsFold
<1> HIDE DEF n
<1> DEFINE A == {k \in Nat : k <= n => PickedAt(list, P \cap (1 .. k), iter[1 .. k])}
<1>3. iter = [s \in SUBSET (1 .. n) |->
               IF s = {} THEN << >>
               ELSE IF Max(s) \in P THEN Append(iter[s \ {Max(s)}], list[Max(s)])
                    ELSE iter[s \ {Max(s)}]]
  <2>1. DOMAIN [i \in DOMAIN list |-> i] = 1 .. n
    BY <1>1
  <2>2. \A s \in SUBSET (1 .. n) : s # {} => [i \in DOMAIN list |-> i][Max(s)] = Max(s)
    BY <1>1, LargestPosition
  <2> QED
    BY <1>2, <2>1, <2>2 DEF PickedBy
<1>4. 0 \in A
  <2>1. P \cap (1 .. 0) = {} /\ 1 .. 0 = {}
    OBVIOUS
  <2>2. iter[{}] = << >>
    BY <1>3
  <2> QED
    BY <2>1, <2>2, PickedNone
<1>5. ASSUME NEW k \in A PROVE k + 1 \in A
  <2>1. k \in Nat /\ k + 1 \in Nat
    OBVIOUS
  <2>2. SUFFICES ASSUME k + 1 <= n PROVE PickedAt(list, P \cap (1 .. k + 1), iter[1 .. k + 1])
    BY <2>1
  <2>3. PickedAt(list, P \cap (1 .. k), iter[1 .. k])
    BY <1>1, <2>1, <2>2
  <2>4. iter[1 .. k + 1] = IF k + 1 \in P THEN Append(iter[1 .. k], list[k + 1]) ELSE iter[1 .. k]
    <3>1. 1 .. k + 1 \in SUBSET (1 .. n) /\ 1 .. k + 1 # {} /\ (1 .. k + 1) \ {k + 1} = 1 .. k
      BY <1>1, <2>1, <2>2
    <3>2. Max(1 .. k + 1) = k + 1
      <4>1. Max(1 .. k + 1) \in 1 .. k + 1 /\ \A m \in 1 .. k + 1 : m <= Max(1 .. k + 1)
        BY <2>1, <3>1, LargestPosition
      <4> QED
        BY <2>1, <4>1
    <3>3. iter[1 .. k + 1] =
            IF 1 .. k + 1 = {} THEN << >>
            ELSE IF Max(1 .. k + 1) \in P
                 THEN Append(iter[(1 .. k + 1) \ {Max(1 .. k + 1)}], list[Max(1 .. k + 1)])
                 ELSE iter[(1 .. k + 1) \ {Max(1 .. k + 1)}]
      BY <1>3, <3>1
    <3> QED
      BY <3>1, <3>2, <3>3
  <2>5. CASE k + 1 \notin P
    <3>1. P \cap (1 .. k + 1) = P \cap (1 .. k)
      BY <2>1, <2>5
    <3> QED
      BY <2>3, <2>4, <2>5, <3>1
  <2>6. CASE k + 1 \in P
    <3>1. P \cap (1 .. k + 1) = (P \cap (1 .. k)) \cup {k + 1}
      BY <2>1, <2>6
    <3>2. P \cap (1 .. k) \in SUBSET DOMAIN list /\ k + 1 \in DOMAIN list
          /\ \A p \in P \cap (1 .. k) : p < k + 1
      BY <2>1, <2>6
    <3>3. PickedAt(list, (P \cap (1 .. k)) \cup {k + 1}, Append(iter[1 .. k], list[k + 1]))
      BY <2>3, <3>2, PickedMore
    <3> QED
      BY <2>4, <2>6, <3>1, <3>3
  <2> QED
    BY <2>5, <2>6
<1>6. A = Nat
  <2>1. A \in SUBSET Nat
    OBVIOUS
  <2> HIDE DEF A
  <2> QED
    BY <1>4, <1>5, <2>1, Upwards
<1>7. n \in A
  BY <1>1, <1>6
<1>8. PickedAt(list, P \cap (1 .. n), iter[1 .. n])
  BY <1>1, <1>7
<1>9. P \cap (1 .. n) = P
  BY <1>1
<1> QED
  BY <1>1, <1>2, <1>8, <1>9

\* A list put together from the first lists, one after the other.
FlatSteps(lists, flat) ==
  /\ flat[0] = << >>
  /\ \A k \in 1 .. Len(lists) : flat[k] = flat[k - 1] \o lists[k]

\* Lists one after the other, step by step.
LEMMA FlatShape ==
  ASSUME NEW S, NEW lists \in Seq(Seq(S))
  PROVE  \E flat \in [0 .. Len(lists) -> Seq(S)] :
           FlatSteps(lists, flat) /\ FlattenSeq(lists) = flat[Len(lists)]
<1> DEFINE n == Len(lists)
           Joins(k, f) == f = [i \in 1 .. k |-> IF i = 1 THEN lists[i] ELSE f[i - 1] \o lists[i]]
<1>1. n \in Nat /\ DOMAIN lists = 1 .. n /\ \A k \in 1 .. n : lists[k] \in Seq(S)
  OBVIOUS
<1>2. << >> \in Seq(S)
  OBVIOUS
<1>3. CASE n = 0
  <2>1. lists = << >> /\ FlattenSeq(lists) = << >>
    BY <1>3, EmptySeq DEF FlattenSeq
  <2>2. [k \in {0} |-> << >>] \in [0 .. n -> Seq(S)]
    BY <1>2, <1>3
  <2> DEFINE flat == [k \in {0} |-> << >>]
  <2>3. FlatSteps(lists, flat) /\ flat[n] = << >>
    BY <1>3 DEF FlatSteps
  <2> QED
    BY <2>1, <2>2, <2>3
<1>4. CASE n # 0
  <2>1. \E f \in [1 .. n -> Seq(S)] : Joins(n, f)
    <3> HIDE DEF n
    <3> DEFINE A == {k \in Nat : k <= n => \E f \in [1 .. k -> Seq(S)] : Joins(k, f)}
    <3>1. 0 \in A
      <4>1. 1 .. 0 = {}
        OBVIOUS
      <4>2. [i \in {} |-> 0] \in [1 .. 0 -> Seq(S)] /\ Joins(0, [i \in {} |-> 0])
        BY <4>1
      <4> QED
        BY <4>2
    <3>2. ASSUME NEW k \in A PROVE k + 1 \in A
      <4>1. k \in Nat /\ k + 1 \in Nat
        OBVIOUS
      <4>2. SUFFICES ASSUME k + 1 <= n PROVE \E f \in [1 .. k + 1 -> Seq(S)] : Joins(k + 1, f)
        BY <4>1
      <4>3. PICK f \in [1 .. k -> Seq(S)] : Joins(k, f)
        <5>1. k <= n
          BY <1>1, <4>1, <4>2
        <5> HIDE DEF Joins
        <5> QED
          BY <5>1
      <4> DEFINE g == [i \in 1 .. k + 1 |->
                         IF i = k + 1 THEN IF k = 0 THEN lists[1] ELSE f[k] \o lists[k + 1] ELSE f[i]]
      <4>4. \A i \in 1 .. k : g[i] = f[i]
        <5> SUFFICES ASSUME NEW i \in 1 .. k PROVE g[i] = f[i]
          OBVIOUS
        <5>1. i \in 1 .. k + 1 /\ i # k + 1
          BY <4>1
        <5> HIDE DEF Joins
        <5> QED
          BY <5>1
      <4>5. g[k + 1] = IF k = 0 THEN lists[1] ELSE f[k] \o lists[k + 1]
        <5>1. k + 1 \in 1 .. k + 1
          BY <4>1
        <5> HIDE DEF Joins
        <5> QED
          BY <5>1
      <4>6. g[k + 1] \in Seq(S)
        <5>1. k + 1 \in 1 .. n /\ 1 \in 1 .. n
          BY <1>1, <4>1, <4>2
        <5>3. lists[k + 1] \in Seq(S) /\ lists[1] \in Seq(S)
          BY <1>1, <5>1
        <5>2. k # 0 => f[k] \in Seq(S)
          <6>1. k # 0 => k \in 1 .. k
            BY <4>1
          <6> QED
            BY <4>3, <6>1
        <5> HIDE DEF g
        <5> QED
          BY <4>5, <5>3, <5>2, ConcatProperties
      <4>7. DOMAIN g = 1 .. k + 1 /\ g = [i \in 1 .. k + 1 |-> g[i]]
        OBVIOUS
      <4> HIDE DEF g
      <4>8. \A i \in 1 .. k + 1 : i = k + 1 \/ i \in 1 .. k
        BY <4>1
      <4>9. g \in [1 .. k + 1 -> Seq(S)]
        <5>1. \A i \in 1 .. k + 1 : g[i] \in Seq(S)
          BY <4>3, <4>4, <4>6, <4>8
        <5> QED
          BY <4>7, <5>1
      <4>10. ASSUME NEW i \in 1 .. k + 1
             PROVE  g[i] = IF i = 1 THEN lists[i] ELSE g[i - 1] \o lists[i]
        <5>1. CASE i = k + 1
          <6>1. i # 1 => k \in 1 .. k /\ i - 1 = k
            BY <4>1, <5>1
          <6> QED
            BY <4>1, <4>4, <4>5, <5>1, <6>1
        <5>2. CASE i \in 1 .. k
          <6>1. f[i] = IF i = 1 THEN lists[i] ELSE f[i - 1] \o lists[i]
            BY <4>3, <5>2
          <6>2. i # 1 => i - 1 \in 1 .. k
            BY <4>1, <5>2
          <6> QED
            BY <4>4, <5>2, <6>1, <6>2
        <5> QED
          BY <4>8, <5>1, <5>2
      <4>11. Joins(k + 1, g)
        BY <4>7, <4>10
      <4> QED
        BY <4>9, <4>11
    <3>3. A \in SUBSET Nat
      OBVIOUS
    <3> HIDE DEF A
    <3>4. n \in A
      BY <1>1, <3>1, <3>2, <3>3, Upwards
    <3> QED
      BY <1>1, <3>4 DEF A
  <2>2. FlattenSeq(lists) = (CHOOSE f : Joins(n, f))[n]
    BY <1>4 DEF FlattenSeq
  <2>3. PICK f : Joins(n, f) /\ FlattenSeq(lists) = f[n]
    BY <2>1, <2>2
  <2>4. \A i \in 1 .. n : f[i] = IF i = 1 THEN lists[i] ELSE f[i - 1] \o lists[i]
    BY <2>3
  <2>5. \A i \in 1 .. n : f[i] \in Seq(S)
    <3> DEFINE B == {k \in Nat : \A i \in 1 .. n : i <= k => f[i] \in Seq(S)}
    <3> HIDE DEF n
    <3>1. 0 \in B
      BY <1>1
    <3>2. ASSUME NEW k \in B PROVE k + 1 \in B
      <4>1. k \in Nat /\ k + 1 \in Nat /\ \A i \in 1 .. n : i <= k => f[i] \in Seq(S)
        OBVIOUS
      <4>2. ASSUME NEW i \in 1 .. n, i <= k + 1 PROVE f[i] \in Seq(S)
        <5>1. CASE i = 1
          BY <1>1, <2>4, <5>1
        <5>2. CASE i # 1
          <6>1. i - 1 \in 1 .. n /\ i - 1 <= k
            BY <1>1, <4>1, <4>2, <5>2
          <6>2. f[i - 1] \in Seq(S) /\ lists[i] \in Seq(S)
            BY <1>1, <4>1, <6>1
          <6>3. f[i] = f[i - 1] \o lists[i]
            BY <2>4, <5>2
          <6> QED
            BY <6>2, <6>3, ConcatProperties
        <5> QED
          BY <5>1, <5>2
      <4> QED
        BY <4>1, <4>2
    <3>3. B \in SUBSET Nat
      OBVIOUS
    <3> HIDE DEF B
    <3>4. n \in B
      BY <1>1, <3>1, <3>2, <3>3, Upwards
    <3> QED
      BY <1>1, <3>4 DEF B
  <2> DEFINE flat == [k \in 0 .. n |-> IF k = 0 THEN << >> ELSE f[k]]
  <2> HIDE DEF n
  <2>6. flat[0] = << >> /\ \A k \in 1 .. n : flat[k] = f[k]
    BY <1>1
  <2>7. flat \in [0 .. n -> Seq(S)]
    <3>1. \A k \in 0 .. n : k = 0 \/ k \in 1 .. n
      BY <1>1
    <3>2. \A k \in 0 .. n : (IF k = 0 THEN << >> ELSE f[k]) \in Seq(S)
      BY <1>2, <2>5, <3>1
    <3> QED
      BY <3>2
  <2> HIDE DEF flat
  <2>8. ASSUME NEW k \in 1 .. n PROVE flat[k] = flat[k - 1] \o lists[k]
    <3>1. CASE k = 1
      <4>1. flat[k] = lists[k] /\ flat[k - 1] = << >>
        BY <2>4, <2>6, <3>1
      <4>2. lists[k] \in Seq(S)
        BY <1>1
      <4> QED
        BY <4>1, <4>2, ConcatEmptySeq
    <3>2. CASE k # 1
      <4>1. k - 1 \in 1 .. n
        BY <1>1, <3>2
      <4> QED
        BY <2>4, <2>6, <3>2, <4>1
    <3> QED
      BY <3>1, <3>2
  <2>9. FlattenSeq(lists) = flat[n]
    <3>1. n \in 1 .. n
      BY <1>1, <1>4
    <3> QED
      BY <2>3, <2>6, <3>1
  <2> QED
    BY <2>6, <2>7, <2>8, <2>9 DEF FlatSteps, n
<1> QED
  BY <1>3, <1>4

\* The elements of two lists.
LEMMA ConcatSet ==
  ASSUME NEW S, NEW s \in Seq(S), NEW t \in Seq(S)
  PROVE  ToSet(s \o t) = ToSet(s) \cup ToSet(t)
<1> DEFINE m == Len(s)
           n == Len(t)
           u == s \o t
<1>1. /\ m \in Nat /\ n \in Nat /\ DOMAIN s = 1 .. m /\ DOMAIN t = 1 .. n
      /\ u \in Seq(S) /\ Len(u) = m + n
      /\ \A i \in 1 .. m + n : u[i] = IF i <= m THEN s[i] ELSE t[i - m]
  BY ConcatProperties, LenProperties
<1>2. DOMAIN u = 1 .. m + n
  BY <1>1, LenProperties
<1> HIDE DEF m, n, u
<1>3. ASSUME NEW i \in 1 .. m + n PROVE u[i] \in ToSet(s) \cup ToSet(t)
  <2>1. CASE i <= m
    <3>1. i \in 1 .. m /\ u[i] = s[i]
      BY <1>1, <2>1
    <3> QED
      BY <1>1, <3>1 DEF ToSet
  <2>2. CASE ~(i <= m)
    <3>1. i - m \in 1 .. n /\ u[i] = t[i - m]
      BY <1>1, <2>2
    <3> QED
      BY <1>1, <3>1 DEF ToSet
  <2> QED
    BY <2>1, <2>2
<1>4. ASSUME NEW i \in 1 .. m PROVE s[i] \in ToSet(u)
  <2>1. i \in 1 .. m + n /\ u[i] = s[i]
    BY <1>1
  <2> QED
    BY <1>2, <2>1 DEF ToSet
<1>5. ASSUME NEW i \in 1 .. n PROVE t[i] \in ToSet(u)
  <2>1. m + i \in 1 .. m + n /\ ~(m + i <= m) /\ (m + i) - m = i
    BY <1>1
  <2>2. u[m + i] = t[i]
    BY <1>1, <2>1
  <2> QED
    BY <1>2, <2>1, <2>2 DEF ToSet
<1>6. ToSet(u) \subseteq ToSet(s) \cup ToSet(t)
  BY <1>2, <1>3 DEF ToSet
<1>7. ToSet(s) \subseteq ToSet(u) /\ ToSet(t) \subseteq ToSet(u)
  BY <1>1, <1>4, <1>5 DEF ToSet
<1> QED
  BY <1>6, <1>7 DEF u

\* A list of lists, one after the other, holds what they hold.
LEMMA FlatSet ==
  ASSUME NEW S, NEW lists \in Seq(Seq(S))
  PROVE  /\ FlattenSeq(lists) \in Seq(S)
         /\ ToSet(FlattenSeq(lists)) = UNION {ToSet(lists[j]) : j \in DOMAIN lists}
<1> DEFINE n == Len(lists)
<1>1. n \in Nat /\ DOMAIN lists = 1 .. n /\ \A k \in 1 .. n : lists[k] \in Seq(S)
  OBVIOUS
<1>2. PICK flat \in [0 .. n -> Seq(S)] : FlatSteps(lists, flat) /\ FlattenSeq(lists) = flat[n]
  BY FlatShape
<1> HIDE DEF n
<1> DEFINE A == {k \in Nat : k <= n => ToSet(flat[k]) = UNION {ToSet(lists[j]) : j \in 1 .. k}}
<1>3. 0 \in A
  <2>1. flat[0] = << >> /\ 1 .. 0 = {} /\ DOMAIN << >> = {}
    BY <1>2 DEF FlatSteps
  <2>2. ToSet(<< >>) = {}
    BY <2>1 DEF ToSet
  <2> QED
    BY <2>1, <2>2
<1>4. ASSUME NEW k \in A PROVE k + 1 \in A
  <2>1. k \in Nat /\ k + 1 \in Nat
    OBVIOUS
  <2>2. SUFFICES ASSUME k + 1 <= n
                 PROVE  ToSet(flat[k + 1]) = UNION {ToSet(lists[j]) : j \in 1 .. k + 1}
    BY <2>1
  <2>3. k <= n /\ k \in 0 .. n /\ k + 1 \in 1 .. n /\ (k + 1) - 1 = k
    BY <1>1, <2>1, <2>2
  <2>4. ToSet(flat[k]) = UNION {ToSet(lists[j]) : j \in 1 .. k}
    BY <2>3
  <2>5. flat[k + 1] = flat[k] \o lists[k + 1]
    BY <1>2, <2>3 DEF FlatSteps, n
  <2>6. ToSet(flat[k + 1]) = ToSet(flat[k]) \cup ToSet(lists[k + 1])
    BY <1>1, <1>2, <2>3, <2>5, ConcatSet
  <2>7. 1 .. k + 1 = (1 .. k) \cup {k + 1}
    BY <2>1
  <2> QED
    BY <2>4, <2>6, <2>7
<1>5. A = Nat
  <2>1. A \in SUBSET Nat
    OBVIOUS
  <2> HIDE DEF A
  <2> QED
    BY <1>3, <1>4, <2>1, Upwards
<1>6. n \in A /\ n \in 0 .. n
  BY <1>1, <1>5
<1>7. ToSet(flat[n]) = UNION {ToSet(lists[j]) : j \in 1 .. n}
  BY <1>6
<1>8. flat[n] \in Seq(S)
  BY <1>2, <1>6
<1>9. FlattenSeq(lists) = flat[n]
  BY <1>2
<1>10. ToSet(FlattenSeq(lists)) = UNION {ToSet(lists[j]) : j \in DOMAIN lists}
  BY <1>1, <1>7, <1>9
<1> QED
  BY <1>8, <1>9, <1>10

\* If every part has an element for each place of a set of its own, the whole has
\* one for each place.
LEMMA FlatLength ==
  ASSUME NEW S, NEW lists \in Seq(Seq(S)), NEW N \in Nat,
         NEW P \in [DOMAIN lists -> SUBSET (1 .. N)],
         \A j, k \in DOMAIN lists : j # k => P[j] \cap P[k] = {},
         \A k \in DOMAIN lists : Len(lists[k]) = Cardinality(P[k]),
         \A x \in 1 .. N : \E k \in DOMAIN lists : x \in P[k]
  PROVE  Len(FlattenSeq(lists)) = N
<1> DEFINE n == Len(lists)
           Up(k) == UNION {P[j] : j \in 1 .. k}
<1>1. n \in Nat /\ DOMAIN lists = 1 .. n /\ \A k \in 1 .. n : lists[k] \in Seq(S)
  OBVIOUS
<1>2. PICK flat \in [0 .. n -> Seq(S)] : FlatSteps(lists, flat) /\ FlattenSeq(lists) = flat[n]
  BY FlatShape
<1> HIDE DEF n
<1> DEFINE A == {k \in Nat : k <= n => Len(flat[k]) = Cardinality(Up(k))}
<1>3. 0 \in A
  <2>1. flat[0] = << >> /\ Up(0) = {}
    BY <1>2 DEF FlatSteps
  <2>2. Len(<< >>) = 0 /\ Cardinality({}) = 0
    BY EmptySeq, FS_EmptySet
  <2> HIDE DEF Up
  <2> QED
    BY <2>1, <2>2
<1>4. ASSUME NEW k \in A PROVE k + 1 \in A
  <2>1. k \in Nat /\ k + 1 \in Nat
    OBVIOUS
  <2>2. SUFFICES ASSUME k + 1 <= n PROVE Len(flat[k + 1]) = Cardinality(Up(k + 1))
    BY <2>1
  <2>3. k <= n /\ k \in 0 .. n /\ k + 1 \in 1 .. n /\ (k + 1) - 1 = k
    BY <1>1, <2>1, <2>2
  <2>4. Len(flat[k]) = Cardinality(Up(k))
    BY <2>3
  <2>5. flat[k + 1] = flat[k] \o lists[k + 1]
    BY <1>2, <2>3 DEF FlatSteps, n
  <2>6. Len(flat[k + 1]) = Len(flat[k]) + Len(lists[k + 1])
    BY <1>1, <1>2, <2>3, <2>5, ConcatProperties
  <2>7. 1 .. k + 1 = (1 .. k) \cup {k + 1}
    BY <2>1
  <2>8. Up(k + 1) = Up(k) \cup P[k + 1]
    <3>1. \A j : j \in 1 .. k + 1 <=> j \in 1 .. k \/ j = k + 1
      BY <2>7
    <3>2. \A m, x : x \in Up(m) <=> \E j \in 1 .. m : x \in P[j]
      OBVIOUS
    <3> HIDE DEF Up
    <3>3. \A x : x \in Up(k + 1) <=> x \in Up(k) \/ x \in P[k + 1]
      BY <3>1, <3>2
    <3> QED
      BY <3>3
  <2>9. Up(k) \cap P[k + 1] = {}
    <3>1. \A j \in 1 .. k : j \in DOMAIN lists /\ j # k + 1
      BY <1>1, <2>1, <2>3
    <3>2. ASSUME NEW x \in Up(k), x \in P[k + 1] PROVE FALSE
      <4>1. PICK j \in 1 .. k : x \in P[j]
        OBVIOUS
      <4>2. P[j] \cap P[k + 1] = {}
        BY <1>1, <2>3, <3>1
      <4> QED
        BY <3>2, <4>1, <4>2
    <3> HIDE DEF Up
    <3> QED
      BY <3>2
  <2>10. IsFiniteSet(Up(k)) /\ IsFiniteSet(P[k + 1])
    <3>1. Up(k) \in SUBSET (1 .. N) /\ P[k + 1] \in SUBSET (1 .. N)
      BY <1>1, <2>1, <2>3
    <3>2. IsFiniteSet(1 .. N)
      BY FS_Interval
    <3> HIDE DEF Up
    <3> QED
      BY <3>1, <3>2, FS_Subset
  <2> HIDE DEF Up
  <2>11. Cardinality(Up(k + 1)) = Cardinality(Up(k)) + Cardinality(P[k + 1])
    <3>1. Cardinality(Up(k) \cup P[k + 1]) =
            Cardinality(Up(k)) + Cardinality(P[k + 1]) - Cardinality(Up(k) \cap P[k + 1])
      BY <2>10, FS_Union
    <3>2. Cardinality(Up(k)) \in Nat /\ Cardinality(P[k + 1]) \in Nat
      BY <2>10, FS_CardinalityType
    <3>3. Cardinality({}) = 0
      BY FS_EmptySet
    <3>4. Cardinality(Up(k) \cap P[k + 1]) = 0
      BY <2>9, <3>3
    <3>5. Cardinality(Up(k + 1)) = Cardinality(Up(k) \cup P[k + 1])
      BY <2>8
    <3> QED
      BY <3>1, <3>2, <3>4, <3>5
  <2> QED
    BY <1>1, <2>3, <2>4, <2>6, <2>11
<1>5. A = Nat
  <2>1. A \in SUBSET Nat
    OBVIOUS
  <2> HIDE DEF A
  <2> QED
    BY <1>3, <1>4, <2>1, Upwards
<1>6. n \in A
  BY <1>1, <1>5
<1>7. Up(n) = 1 .. N
  BY <1>1
<1>8. Cardinality(1 .. N) = N
  BY FS_Interval
<1> HIDE DEF Up
<1>9. Len(flat[n]) = Cardinality(Up(n))
  BY <1>1, <1>6
<1> QED
  BY <1>2, <1>7, <1>8, <1>9

\* What is picked from a list, seen as a list and as a set.
LEMMA PickedList ==
  ASSUME NEW S, NEW list \in Seq(S), NEW P \in SUBSET DOMAIN list
  PROVE  /\ Picked(list, P) \in Seq(S)
         /\ Len(Picked(list, P)) = Cardinality(P)
         /\ ToSet(Picked(list, P)) = {list[p] : p \in P}
         /\ IsFiniteSet(P)
<1> DEFINE c == Cardinality(P)
           u == Picked(list, P)
<1>1. PICK place \in [1 .. c -> P] :
        /\ u = [k \in 1 .. c |-> list[place[k]]]
        /\ \A p \in P : \E k \in 1 .. c : place[k] = p
  BY PickedShape DEF PickedAt
<1>2. c \in Nat /\ IsFiniteSet(P)
  BY PickedShape DEF PickedAt
<1>3. \A p \in P : list[p] \in S
  OBVIOUS
<1> HIDE DEF c, u
<1>4. u \in [1 .. c -> S]
  BY <1>1, <1>3
<1>5. u \in Seq(S) /\ Len(u) = c /\ DOMAIN u = 1 .. c
  BY <1>2, <1>4, SeqDef, LenProperties
<1>6. \A k \in 1 .. c : u[k] = list[place[k]] /\ place[k] \in P
  BY <1>1
<1>7. ToSet(u) = {list[p] : p \in P}
  BY <1>1, <1>5, <1>6 DEF ToSet
<1> QED
  BY <1>2, <1>5, <1>7 DEF c, u

\* Every file has exactly one task.
LEMMA TasksCover ==
  ASSUME NEW O, NEW occ \in Seq(O)
  PROVE  /\ TasksOf(occ) \in Seq(O)
         /\ ToSet(TasksOf(occ)) \subseteq ToSet(occ)
         /\ \A k \in DOMAIN occ : \E i \in DOMAIN TasksOf(occ) : SameTask(TasksOf(occ)[i], occ[k])
         /\ \A i, j \in DOMAIN TasksOf(occ) : SameTask(TasksOf(occ)[i], TasksOf(occ)[j]) => i = j
<1> DEFINE P == {i \in DOMAIN occ : \A j \in 1 .. i - 1 : ~SameTask(occ[j], occ[i])}
           c == Cardinality(P)
           u == Picked(occ, P)
<1>1. P \in SUBSET DOMAIN occ /\ TasksOf(occ) = u
  BY DEF TasksOf
<1>2. DOMAIN occ = 1 .. Len(occ) /\ Len(occ) \in Nat
  OBVIOUS
<1>3. \A i \in P : i \in DOMAIN occ /\ \A j \in 1 .. i - 1 : ~SameTask(occ[j], occ[i])
  OBVIOUS
<1>4. ASSUME NEW k \in DOMAIN occ PROVE \E p \in P : SameTask(occ[p], occ[k])
  <2> DEFINE K == {j \in DOMAIN occ : SameTask(occ[j], occ[k])}
  <2>1. k \in K /\ K \in SUBSET Nat
    BY <1>2 DEF SameTask
  <2>2. PICK p \in K : \A j \in K : p <= j
    BY <2>1, LeastNumber
  <2>3. p \in DOMAIN occ /\ SameTask(occ[p], occ[k])
    BY <2>2
  <2>4. ASSUME NEW j \in 1 .. p - 1, SameTask(occ[j], occ[p]) PROVE FALSE
    <3>1. j \in DOMAIN occ /\ j < p /\ ~(p <= j)
      BY <1>2, <2>3
    <3>2. SameTask(occ[j], occ[k])
      BY <2>3, <2>4 DEF SameTask
    <3> QED
      BY <2>2, <3>1, <3>2
  <2>5. p \in P
    BY <2>3, <2>4
  <2> QED
    BY <2>3, <2>5
<1> HIDE DEF P, u
<1>5. u \in Seq(O) /\ ToSet(u) = {occ[p] : p \in P}
  BY <1>1, PickedList DEF u
<1>6. PICK place \in [1 .. c -> P] :
        /\ u = [k \in 1 .. c |-> occ[place[k]]]
        /\ \A k, l \in 1 .. c : k < l => place[k] < place[l]
        /\ \A i \in P : \E k \in 1 .. c : place[k] = i
  BY <1>1, PickedShape DEF PickedAt, u
<1>7. c \in Nat
  BY <1>1, PickedShape DEF PickedAt
<1> HIDE DEF c
<1>8. DOMAIN u = 1 .. c /\ \A k \in 1 .. c : u[k] = occ[place[k]] /\ place[k] \in P
  BY <1>6
<1>9. ToSet(u) \subseteq ToSet(occ)
  BY <1>1, <1>5 DEF ToSet
<1>10. ASSUME NEW k \in DOMAIN occ PROVE \E i \in DOMAIN u : SameTask(u[i], occ[k])
  <2>1. PICK p \in P : SameTask(occ[p], occ[k])
    BY <1>4
  <2>2. PICK i \in 1 .. c : place[i] = p
    BY <1>6
  <2> QED
    BY <1>8, <2>1, <2>2
<1>11. ASSUME NEW i \in 1 .. c, NEW j \in 1 .. c, i < j PROVE ~SameTask(u[i], u[j])
  <2>1. place[i] < place[j] /\ place[i] \in P /\ place[j] \in P
    BY <1>6, <1>8, <1>11
  <2>2. place[i] \in 1 .. place[j] - 1
    BY <1>1, <1>2, <2>1
  <2>3. ~SameTask(occ[place[i]], occ[place[j]])
    BY <1>3, <2>1, <2>2
  <2> QED
    BY <1>8, <2>3
<1>12. ASSUME NEW i \in DOMAIN u, NEW j \in DOMAIN u, SameTask(u[i], u[j]) PROVE i = j
  <2>1. SameTask(u[j], u[i])
    BY <1>12 DEF SameTask
  <2>2. i \in 1 .. c /\ j \in 1 .. c
    BY <1>8
  <2>3. ~(i < j) /\ ~(j < i)
    BY <1>11, <1>12, <2>1, <2>2
  <2> QED
    BY <1>7, <2>2, <2>3
<1> QED
  BY <1>1, <1>5, <1>9, <1>10, <1>12

\* The files of a task, at their places.
PlacesOf(task, occ) == {k \in DOMAIN occ : SameTask(occ[k], task)}

\* The files of a task are those that share its key.
LEMMA HeldOf ==
  ASSUME NEW O, NEW occ \in Seq(O), NEW task
  PROVE  /\ Held(task, occ) \in Seq(O)
         /\ Len(Held(task, occ)) = Cardinality(PlacesOf(task, occ))
         /\ ToSet(Held(task, occ)) = {occ[k] : k \in PlacesOf(task, occ)}
<1>1. PlacesOf(task, occ) \in SUBSET DOMAIN occ
  BY DEF PlacesOf
<1>2. Held(task, occ) = Picked(occ, PlacesOf(task, occ))
  BY DEF Held, PlacesOf
<1> QED
  BY <1>1, <1>2, PickedList

\* Every file has one row, that of its task.
LEMMA ExpandedOnce ==
  ASSUME NEW O, NEW occ \in Seq(O), NEW rws
  PROVE  LET plan == TasksOf(occ)
             table == ExpandedRows(plan, rws, occ)
             made == {RowAt(rws[i], occ[k]) : i \in DOMAIN plan, k \in DOMAIN occ}
         IN  /\ table \in Seq(made)
             /\ Len(table) = Len(occ)
             /\ \A r \in ToSet(table) : \E i \in DOMAIN plan, k \in DOMAIN occ :
                  SameTask(plan[i], occ[k]) /\ r = RowAt(rws[i], occ[k])
             /\ \A i \in DOMAIN plan, k \in DOMAIN occ :
                  SameTask(plan[i], occ[k]) => RowAt(rws[i], occ[k]) \in ToSet(table)
<1> DEFINE plan == TasksOf(occ)
           made == {RowAt(rws[i], occ[k]) : i \in DOMAIN plan, k \in DOMAIN occ}
           held(i) == Held(plan[i], occ)
           lists == [i \in DOMAIN plan |-> RowsHeld(rws[i], held(i))]
           P == [i \in DOMAIN plan |-> PlacesOf(plan[i], occ)]
           n == Len(plan)
           N == Len(occ)
<1>1. /\ plan \in Seq(O) /\ n \in Nat /\ DOMAIN plan = 1 .. n
      /\ N \in Nat /\ DOMAIN occ = 1 .. N
  BY TasksCover, LenProperties
<1>2. /\ \A k \in DOMAIN occ : \E i \in DOMAIN plan : SameTask(plan[i], occ[k])
      /\ \A i, j \in DOMAIN plan : SameTask(plan[i], plan[j]) => i = j
  BY TasksCover
<1> HIDE DEF plan, n, N, made
<1>3. ASSUME NEW i \in DOMAIN plan
      PROVE  /\ lists[i] \in Seq(made)
             /\ Len(lists[i]) = Cardinality(P[i])
             /\ ToSet(lists[i]) = {RowAt(rws[i], occ[k]) : k \in P[i]}
  <2>1. /\ held(i) \in Seq(O) /\ Len(held(i)) = Cardinality(P[i])
        /\ ToSet(held(i)) = {occ[k] : k \in P[i]}
    BY HeldOf
  <2> DEFINE h == held(i)
             m == Len(h)
             l == lists[i]
  <2>2. m \in Nat /\ DOMAIN h = 1 .. m
    BY <2>1, LenProperties
  <2>3. l = [j \in 1 .. m |-> RowAt(rws[i], h[j])]
    BY <2>2 DEF RowsHeld
  <2>4. m = Cardinality(P[i]) /\ {h[j] : j \in 1 .. m} = {occ[k] : k \in P[i]} /\ P[i] \subseteq DOMAIN occ
    BY <2>1, <2>2 DEF ToSet, PlacesOf
  <2> HIDE DEF h, m, l, lists, P
  <2>5. \A j \in 1 .. m : l[j] = RowAt(rws[i], h[j]) /\ \E k \in P[i] : h[j] = occ[k]
    BY <2>3, <2>4
  <2>6. \A k \in P[i] : \E j \in 1 .. m : h[j] = occ[k]
    BY <2>4
  <2>7. \A j \in 1 .. m : l[j] \in made
    BY <2>4, <2>5 DEF made
  <2>8. l \in [1 .. m -> made]
    BY <2>3, <2>7
  <2>9. l \in Seq(made) /\ Len(l) = m /\ DOMAIN l = 1 .. m
    BY <2>2, <2>8, SeqDef, LenProperties
  <2>10. ToSet(l) = {RowAt(rws[i], occ[k]) : k \in P[i]}
    BY <2>5, <2>6, <2>9 DEF ToSet
  <2> QED
    BY <2>4, <2>9, <2>10 DEF l
<1>4. lists \in Seq(Seq(made))
  <2>1. lists \in [1 .. n -> Seq(made)]
    BY <1>1, <1>3
  <2> QED
    BY <1>1, <2>1, SeqDef
<1>5. DOMAIN lists = DOMAIN plan /\ P \in [DOMAIN lists -> SUBSET (1 .. N)]
  BY <1>1 DEF PlacesOf
<1>6. \A i, k : k \in P[i] /\ i \in DOMAIN plan <=>
                  i \in DOMAIN plan /\ k \in DOMAIN occ /\ SameTask(plan[i], occ[k])
  BY DEF PlacesOf, SameTask
<1>7. ASSUME NEW i \in DOMAIN plan, NEW j \in DOMAIN plan, i # j PROVE P[i] \cap P[j] = {}
  <2> SUFFICES ASSUME NEW k \in P[i] \cap P[j] PROVE FALSE
    OBVIOUS
  <2>1. SameTask(plan[i], occ[k]) /\ SameTask(plan[j], occ[k])
    BY <1>6
  <2>2. SameTask(plan[i], plan[j])
    BY <2>1 DEF SameTask
  <2> QED
    BY <1>2, <1>7, <2>2
<1>8. UNION {P[k] : k \in DOMAIN plan} = 1 .. N
  <2> HIDE DEF P, lists
  <2>1. ASSUME NEW k \in 1 .. N PROVE \E i \in DOMAIN plan : k \in P[i]
    BY <1>1, <1>2, <1>6
  <2>2. \A i \in DOMAIN plan : P[i] \subseteq 1 .. N
    BY <1>1, <1>6
  <2> QED
    BY <2>1, <2>2
<1> HIDE DEF lists, P
<1>9. Len(FlattenSeq(lists)) = N
  <2>1. Len(FlattenSeq(lists)) = N
    <3>1. \A j, k \in DOMAIN lists : j # k => P[j] \cap P[k] = {}
      BY <1>5, <1>7
    <3>2. \A k \in DOMAIN lists : Len(lists[k]) = Cardinality(P[k])
      BY <1>3, <1>5
    <3>3. \A x \in 1 .. N : \E k \in DOMAIN lists : x \in P[k]
      BY <1>5, <1>8
    <3> QED
      BY <1>1, <1>4, <1>5, <3>1, <3>2, <3>3, FlatLength
  <2> QED
    BY <2>1
<1>10. /\ FlattenSeq(lists) \in Seq(made)
       /\ ToSet(FlattenSeq(lists)) = UNION {ToSet(lists[j]) : j \in DOMAIN plan}
  BY <1>4, <1>5, FlatSet
<1>11. ExpandedRows(plan, rws, occ) = FlattenSeq(lists)
  BY DEF ExpandedRows, lists
<1>12. \A r \in ToSet(FlattenSeq(lists)) : \E i \in DOMAIN plan, k \in DOMAIN occ :
         SameTask(plan[i], occ[k]) /\ r = RowAt(rws[i], occ[k])
  <2> SUFFICES ASSUME NEW r \in ToSet(FlattenSeq(lists))
               PROVE  \E i \in DOMAIN plan, k \in DOMAIN occ :
                        SameTask(plan[i], occ[k]) /\ r = RowAt(rws[i], occ[k])
    OBVIOUS
  <2>1. PICK i \in DOMAIN plan : r \in ToSet(lists[i])
    BY <1>10
  <2>2. PICK k \in P[i] : r = RowAt(rws[i], occ[k])
    BY <1>3, <2>1
  <2> QED
    BY <1>6, <2>1, <2>2
<1>13. \A i \in DOMAIN plan, k \in DOMAIN occ :
         SameTask(plan[i], occ[k]) => RowAt(rws[i], occ[k]) \in ToSet(FlattenSeq(lists))
  BY <1>3, <1>6, <1>10
<1> DEFINE table == ExpandedRows(plan, rws, occ)
<1>14. table \in Seq(made) /\ Len(table) = Len(occ)
  BY <1>9, <1>10, <1>11 DEF N
<1>15. \A r \in ToSet(table) : \E i \in DOMAIN plan, k \in DOMAIN occ :
         SameTask(plan[i], occ[k]) /\ r = RowAt(rws[i], occ[k])
  BY <1>11, <1>12
<1>16. \A i \in DOMAIN plan, k \in DOMAIN occ :
         SameTask(plan[i], occ[k]) => RowAt(rws[i], occ[k]) \in ToSet(table)
  BY <1>11, <1>13
<1> QED
  BY <1>14, <1>15, <1>16 DEF plan, made

-----------------------------------------------------------------------------
(* The order of the files.                                                 *)

NamesIn(d) == DOMAIN outputs[d].files
Pending == {todo[i].name : i \in DOMAIN todo}

\* The directories are a list.
Listed == outputs \in Seq(Range(outputs)) /\ command \in Nat

\* A file was written by a command that has begun.
Dated ==
  \A d \in DOMAIN outputs : \A n \in NamesIn(d) : outputs[d].files[n].by \in 0 .. command

\* What a Pareto evaluation or its merge may find in a directory.
Known ==
  \A d \in DOMAIN outputs : outputs[d].kind = "pareto" =>
    NamesIn(d) \subseteq {"evaluations", "front", "baseline", "manifest", "summary"}

DirKind == IF request.kind = "merge" THEN "pareto" ELSE request.kind

\* A command that still evaluates has written nothing but a baseline; a merge
\* has begun with a directory whose baseline, if there is one, is whole.
Planning ==
  pc \in {"prepare", "evaluate"} =>
    /\ at \in DOMAIN outputs /\ outputs[at].kind = DirKind
    /\ \A n \in NamesIn(at) :
         IF n = "baseline" THEN outputs[at].files[n].whole
         ELSE request.kind = "merge" /\ outputs[at].files[n].by < command
    /\ pc = "prepare" => todo \in Seq(Range(todo)) /\ Len(todo) = 1 /\ todo[1].name = "baseline"

\* A command that writes has the summary before it, as its last file; what it
\* will not write again it has written, or kept.
Writing ==
  pc = "write" =>
    /\ at \in DOMAIN outputs /\ outputs[at].kind = DirKind
    /\ todo \in Seq(Range(todo)) /\ todo # << >>
    /\ \A i \in DOMAIN todo : todo[i].name = "summary" <=> i = Len(todo)
    /\ outputs[at].kind = "pareto" =>
         Pending \subseteq {"evaluations", "front", "baseline", "manifest", "summary"}
    /\ Required(outputs[at].kind) \subseteq NamesIn(at) \cup Pending
    /\ "summary" \in NamesIn(at) => outputs[at].files["summary"].by < command
    /\ \A n \in NamesIn(at) \ Pending :
         /\ outputs[at].files[n].whole
         /\ n # "baseline" => outputs[at].files[n].by = command

States == pc \in {"idle", "prepare", "evaluate", "write", "done"}

OrderInv == Listed /\ Dated /\ Known /\ Planning /\ Writing /\ States /\ SummaryVouches

-----------------------------------------------------------------------------
(* Steps, seen from the directories.                                       *)

\* A command that raises may leave an empty directory.
Refuses ==
  /\ pc' = "idle" /\ command' = command + 1
  /\ \/ outputs' = outputs
     \/ \E k : outputs' = Append(outputs, NewDir(k))

\* A report of its own begins.
BeginsFresh ==
  /\ pc' = "evaluate" /\ command' = command + 1
  /\ at' = Len(outputs) + 1 /\ request'.kind # "merge"
  /\ \E archs : outputs' = Append(outputs, [kind |-> request'.kind, place |-> Place(request'), files |-> << >>,
                                            archs |-> archs, cuts |-> 0])

\* Steps that touch no directory, and go on or end.
Same == UNCHANGED << outputs, command, request, at >>

\* An empty directory at the end of the list.
LEMMA Appended ==
  ASSUME Listed, NEW d
  PROVE  /\ Append(outputs, d) \in Seq(Range(Append(outputs, d)))
         /\ DOMAIN Append(outputs, d) = 1 .. Len(outputs) + 1
         /\ DOMAIN outputs = 1 .. Len(outputs) /\ Len(outputs) \in Nat
         /\ \A i \in DOMAIN outputs : Append(outputs, d)[i] = outputs[i]
         /\ Append(outputs, d)[Len(outputs) + 1] = d
<1> DEFINE S == Range(outputs) \cup {d}
           t == Append(outputs, d)
<1>1. outputs \in Seq(S)
  BY DEF Listed
<1>2. t \in Seq(S) /\ Len(t) = Len(outputs) + 1
  BY <1>1
<1>3. t \in Seq(Range(t))
  BY <1>2, OfItsRange
<1> QED
  BY <1>1, <1>2, <1>3

\* One directory of the list is replaced.
LEMMA Replaced ==
  ASSUME Listed, NEW i \in DOMAIN outputs, NEW d
  PROVE  /\ [outputs EXCEPT ![i] = d] \in Seq(Range([outputs EXCEPT ![i] = d]))
         /\ DOMAIN [outputs EXCEPT ![i] = d] = DOMAIN outputs
         /\ \A j \in DOMAIN outputs : [outputs EXCEPT ![i] = d][j] = IF j = i THEN d ELSE outputs[j]
<1> DEFINE S == Range(outputs) \cup {d}
           t == [outputs EXCEPT ![i] = d]
<1>1. outputs \in Seq(S)
  BY DEF Listed
<1>2. t \in Seq(S) /\ Len(t) = Len(outputs)
  BY <1>1
<1>3. t \in Seq(Range(t))
  BY <1>2, OfItsRange
<1> QED
  BY <1>1, <1>2, <1>3

\* A command that raises keeps the order of the files.
LEMMA RefusesKeeps == OrderInv /\ Refuses => OrderInv'
<1> SUFFICES ASSUME OrderInv, Refuses PROVE OrderInv'
  OBVIOUS
<1>1. CASE outputs' = outputs
  BY <1>1 DEF OrderInv, Refuses, Listed, Dated, NamesIn, Known, Planning, Writing, States, SummaryVouches,
              Whole, Has, Required
<1>2. ASSUME NEW k, outputs' = Append(outputs, NewDir(k)) PROVE OrderInv'
  <2> DEFINE m == Len(outputs) + 1
  <2>1. /\ outputs' \in Seq(Range(outputs')) /\ DOMAIN outputs' = DOMAIN outputs \cup {m}
        /\ m \notin DOMAIN outputs /\ outputs'[m] = NewDir(k)
        /\ \A i \in DOMAIN outputs : outputs'[i] = outputs[i]
    BY <1>2, Appended DEF OrderInv
  <2>2. DOMAIN outputs'[m].files = {}
    BY <2>1 DEF NewDir
  <2> HIDE DEF m
  <2>3. Listed' /\ Dated' /\ Known'
    BY <2>1, <2>2 DEF OrderInv, Refuses, Listed, Dated, Known, NamesIn
  <2>4. SummaryVouches'
    BY <2>1, <2>2 DEF OrderInv, SummaryVouches, Whole, Has, Required
  <2> QED
    BY <2>3, <2>4 DEF OrderInv, Refuses, Planning, Writing, States
<1> QED
  BY <1>1, <1>2 DEF Refuses

\* So does one that begins a report of its own.
LEMMA BeginsFreshKeeps == OrderInv /\ BeginsFresh => OrderInv'
<1> SUFFICES ASSUME OrderInv, BeginsFresh PROVE OrderInv'
  OBVIOUS
<1>1. PICK archs :
        outputs' = Append(outputs, [kind |-> request'.kind, place |-> Place(request'), files |-> << >>,
                                    archs |-> archs, cuts |-> 0])
  BY DEF BeginsFresh
<1> DEFINE m == Len(outputs) + 1
<1>2. /\ outputs' \in Seq(Range(outputs')) /\ DOMAIN outputs' = DOMAIN outputs \cup {m}
      /\ m \notin DOMAIN outputs /\ outputs'[m].kind = request'.kind /\ outputs'[m].files = << >>
      /\ \A i \in DOMAIN outputs : outputs'[i] = outputs[i]
  BY <1>1, Appended DEF OrderInv
<1>3. DOMAIN outputs'[m].files = {} /\ at' = m
  BY <1>2 DEF BeginsFresh
<1> HIDE DEF m
<1>4. Listed' /\ Dated' /\ Known'
  BY <1>2, <1>3 DEF OrderInv, BeginsFresh, Listed, Dated, Known, NamesIn
<1>5. SummaryVouches'
  BY <1>2, <1>3 DEF OrderInv, SummaryVouches, Whole, Has, Required
<1>6. Planning'
  BY <1>2, <1>3 DEF BeginsFresh, Planning, DirKind, NamesIn
<1> QED
  BY <1>4, <1>5, <1>6 DEF OrderInv, BeginsFresh, Writing, States

\* A command with a plan begins a report of its own.
LEMMA BeginIsFresh ==
  ASSUME NEW r, NEW plan, Listed,
         r.kind # "merge",
         Begin(r, Fresh(r), Len(outputs) + 1, plan)
  PROVE  BeginsFresh
<1> DEFINE m == Len(outputs) + 1
           t == Fresh(r)
           archs == {plan[i].arch : i \in DOMAIN plan}
<1>1. /\ request' = r /\ command' = command + 1 /\ at' = m /\ pc' = "evaluate"
      /\ outputs' = [t EXCEPT ![m].archs = @ \cup archs]
  BY DEF Begin, BeginWith
<1> HIDE DEF archs
<1>2. DOMAIN t = 1 .. m /\ t[m] = NewDir(r) /\ m \in DOMAIN t
  BY Appended DEF Fresh
<1>3. t = Append(outputs, NewDir(r))
  BY DEF Fresh
<1>4. outputs' = [t EXCEPT ![m] = [kind |-> r.kind, place |-> Place(r), files |-> << >>, archs |-> archs, cuts |-> 0]]
  <2> DEFINE d == [kind |-> r.kind, place |-> Place(r), files |-> << >>, archs |-> archs, cuts |-> 0]
  <2>1. [NewDir(r) EXCEPT !.archs = @ \cup archs] = d
    BY DEF NewDir
  <2>2. outputs' = [t EXCEPT ![m] = [t[m] EXCEPT !.archs = @ \cup archs]]
    BY <1>1
  <2> HIDE DEF d, t
  <2>3. outputs' = [t EXCEPT ![m] = d]
    BY <1>2, <2>1, <2>2
  <2> QED
    BY <2>3 DEF d
<1>5. outputs' = Append(outputs, [kind |-> r.kind, place |-> Place(r), files |-> << >>, archs |-> archs, cuts |-> 0])
  <2> DEFINE d == [kind |-> r.kind, place |-> Place(r), files |-> << >>, archs |-> archs, cuts |-> 0]
             S == Range(outputs) \cup {d, NewDir(r)}
  <2>1. outputs \in Seq(S) /\ d \in S /\ NewDir(r) \in S
    BY DEF Listed
  <2> HIDE DEF d, S
  <2>2. t \in Seq(S) /\ Len(t) = m /\ \A i \in 1 .. Len(outputs) : t[i] = outputs[i]
    BY <1>3, <2>1
  <2>3. outputs' \in Seq(S) /\ Len(outputs') = m
        /\ \A i \in 1 .. m : outputs'[i] = IF i = m THEN d ELSE t[i]
    BY <1>2, <1>4, <2>1, <2>2 DEF d
  <2>4. Append(outputs, d) \in Seq(S) /\ Len(Append(outputs, d)) = m
        /\ \A i \in 1 .. m : Append(outputs, d)[i] = IF i = m THEN d ELSE outputs[i]
    BY <2>1
  <2>5. outputs' = Append(outputs, d)
    BY <2>2, <2>3, <2>4, SeqEqual
  <2> QED
    BY <2>5 DEF d
<1> QED
  BY <1>1, <1>5 DEF BeginsFresh

\* A command that raises leaves the reports as they are, or an empty one.
LEMMA RaiseRefuses ==
  ASSUME NEW r, NEW k, Raise(r, outputs) \/ Raise(r, Fresh(k))
  PROVE  Refuses
BY DEF Raise, Refuses, Fresh

\* Beginnings, but that of a merge.
LEMMA StartsKeep ==
  ASSUME OrderInv, StartPareto \/ StartGeometry \/ StartBuffer \/ StartActivation \/ StartRandomSet
  PROVE  OrderInv'
<1> DEFINE r == Head(script)
<1>1. CASE StartPareto
  <2>1. r.kind = "pareto"
        /\ (Raise(r, outputs) \/ \E plan : Begin(r, Fresh(r), Len(outputs) + 1, plan))
    BY <1>1 DEF StartPareto, Ready
  <2> QED
    BY <2>1, BeginIsFresh, RaiseRefuses, RefusesKeeps, BeginsFreshKeeps DEF OrderInv
<1>2. CASE StartGeometry
  <2>1. r.kind = "geometry"
        /\ (Raise(r, outputs) \/ \E plan : Begin(r, Fresh(r), Len(outputs) + 1, plan))
    BY <1>2 DEF StartGeometry, Ready
  <2> QED
    BY <2>1, BeginIsFresh, RaiseRefuses, RefusesKeeps, BeginsFreshKeeps DEF OrderInv
<1>3. CASE StartBuffer
  <2>1. r.kind = "buffer"
        /\ (Raise(r, outputs) \/ \E plan : Begin(r, Fresh(r), Len(outputs) + 1, plan))
    BY <1>3 DEF StartBuffer, Ready
  <2> QED
    BY <2>1, BeginIsFresh, RaiseRefuses, RefusesKeeps, BeginsFreshKeeps DEF OrderInv
<1>4. CASE StartActivation
  <2>1. r.kind = "activation"
        /\ \/ Raise(r, outputs) \/ Raise(r, Fresh(r))
           \/ \E plan : Begin(r, Fresh(r), Len(outputs) + 1, plan)
    BY <1>4 DEF StartActivation, Ready
  <2> QED
    BY <2>1, BeginIsFresh, RaiseRefuses, RefusesKeeps, BeginsFreshKeeps DEF OrderInv
<1>5. CASE StartRandomSet
  <2>1. r.kind = "random_set"
        /\ \/ Raise(r, outputs) \/ Raise(r, Fresh(r))
           \/ \E plan : Begin(r, Fresh(r), Len(outputs) + 1, plan)
    BY <1>5 DEF StartRandomSet, Ready
  <2> QED
    BY <2>1, BeginIsFresh, RaiseRefuses, RefusesKeeps, BeginsFreshKeeps DEF OrderInv
<1> QED
  BY <1>1, <1>2, <1>3, <1>4, <1>5

\* The report that a merge finds.
LEMMA ReportFound ==
  ASSUME Listed, NEW i, i = SelectInSeq(outputs, LAMBDA d : d.kind = "pareto"), i # 0
  PROVE  i \in DOMAIN outputs /\ outputs[i].kind = "pareto"
<1> DEFINE I == {j \in 1 .. Len(outputs) : outputs[j].kind = "pareto"}
<1>1. Len(outputs) \in Nat /\ DOMAIN outputs = 1 .. Len(outputs)
  BY DEF Listed
<1>2. i = IF I # {} THEN Min(I) ELSE 0
  BY DEF SelectInSeq
<1>3. I # {} /\ i = Min(I)
  BY <1>2
<1>4. \E n \in I : \A m \in I : n <= m
  <2>1. I \in SUBSET Nat
    BY <1>1
  <2> HIDE DEF I
  <2> QED
    BY <1>3, <2>1, LeastNumber
<1>5. Min(I) \in I
  BY <1>4 DEF Min
<1> QED
  BY <1>1, <1>3, <1>5

\* A merge goes on in a directory whose manifest, summary and baseline are whole,
\* if they are there.
LEMMA MergeKeeps == OrderInv /\ StartMerge => OrderInv'
<1> SUFFICES ASSUME OrderInv, StartMerge PROVE OrderInv'
  OBVIOUS
<1> DEFINE r == Head(script)
           i == SelectInSeq(outputs, LAMBDA d : d.kind = "pareto")
<1>1. CASE Raise(r, outputs)
  BY <1>1, RaiseRefuses, RefusesKeeps
<1>2. CASE ~Raise(r, outputs)
  <2>1. /\ r.kind = "merge" /\ i # 0 /\ ~Damaged(outputs[i])
        /\ \E plan : BeginWith(r, outputs, i, plan,
                       IF Has(outputs[i], "baseline") THEN << >> ELSE BaselineFile(r))
    BY <1>2 DEF StartMerge, Ready
  <2>2. i \in DOMAIN outputs /\ outputs[i].kind = "pareto"
    BY <2>1, ReportFound DEF OrderInv
  <2> HIDE DEF i
  <2>3. PICK plan : BeginWith(r, outputs, i, plan,
                       IF Has(outputs[i], "baseline") THEN << >> ELSE BaselineFile(r))
    BY <2>1
  <2> DEFINE d == [outputs[i] EXCEPT !.archs = @ \cup {plan[j].arch : j \in DOMAIN plan}]
             first == IF Has(outputs[i], "baseline") THEN << >> ELSE BaselineFile(r)
  <2>4. /\ outputs' = [outputs EXCEPT ![i] = d]
        /\ request' = r /\ command' = command + 1 /\ at' = i /\ todo' = first
        /\ pc' = IF first = << >> THEN "evaluate" ELSE "prepare"
    BY <2>3 DEF BeginWith
  <2>5. d.kind = outputs[i].kind /\ d.files = outputs[i].files
    BY <2>2
  <2> HIDE DEF d
  <2>6. outputs' \in Seq(Range(outputs')) /\ DOMAIN outputs' = DOMAIN outputs
        /\ \A j \in DOMAIN outputs : /\ outputs'[j].files = outputs[j].files
                                     /\ outputs'[j].kind = outputs[j].kind
    BY <2>2, <2>4, <2>5, Replaced DEF OrderInv
  <2>7. Listed' /\ Dated' /\ Known'
    BY <2>4, <2>6 DEF OrderInv, Listed, Dated, Known, NamesIn
  <2>8. SummaryVouches'
    BY <2>6 DEF OrderInv, SummaryVouches, Whole, Has
  <2>9. Planning'
    <3>1. at' \in DOMAIN outputs' /\ outputs'[at'].kind = DirKind'
      BY <2>1, <2>2, <2>4, <2>6 DEF DirKind
    <3>2. ASSUME NEW n \in NamesIn(at)'
          PROVE  IF n = "baseline" THEN outputs'[at'].files[n].whole
                 ELSE request'.kind = "merge" /\ outputs'[at'].files[n].by < command'
      <4>1. n \in DOMAIN outputs[i].files /\ outputs'[at'].files[n] = outputs[i].files[n]
        BY <2>2, <2>4, <2>6, <3>2 DEF NamesIn
      <4>2. n = "baseline" => outputs[i].files[n].whole
        BY <2>1, <4>1 DEF Damaged, Whole, Has
      <4>3. outputs[i].files[n].by < command + 1
        BY <2>2, <4>1 DEF OrderInv, Dated, NamesIn, Listed
      <4> QED
        BY <2>1, <2>4, <4>1, <4>2, <4>3
    <3>3. ASSUME pc' = "prepare"
          PROVE  todo' \in Seq(Range(todo')) /\ Len(todo') = 1 /\ todo'[1].name = "baseline"
      <4>1. first # << >>
        BY <2>4, <3>3
      <4>2. PICK c : todo' = << Output("baseline", c) >>
        BY <2>4, <4>1 DEF BaselineFile
      <4>3. todo' \in Seq({Output("baseline", c)}) /\ Len(todo') = 1 /\ todo'[1] = Output("baseline", c)
        BY <4>2
      <4>4. todo' \in Seq(Range(todo'))
        BY <4>3, OfItsRange
      <4> QED
        BY <4>3, <4>4 DEF Output
    <3> QED
      BY <3>1, <3>2, <3>3 DEF Planning
  <2> QED
    BY <2>4, <2>7, <2>8, <2>9 DEF OrderInv, Writing, States
<1> QED
  BY <1>1, <1>2

\* Steps between files: an evaluation goes on, ends, or a further round begins.
LEMMA SameKeeps ==
  ASSUME OrderInv, Same, UNCHANGED todo, UNCHANGED pc \/ pc' = "idle"
  PROVE  OrderInv'
<1>1. Listed' /\ Dated' /\ Known' /\ States' /\ SummaryVouches'
  BY DEF OrderInv, Same, Listed, Dated, NamesIn, Known, States, SummaryVouches
<1>2. CASE pc' = "idle"
  BY <1>1, <1>2 DEF OrderInv, Planning, Writing
<1>3. CASE UNCHANGED pc
  <2>1. DirKind' = DirKind /\ NamesIn(at)' = NamesIn(at) /\ Pending' = Pending
    BY DEF Same, DirKind, NamesIn, Pending
  <2>2. Planning'
    BY <1>3, <2>1 DEF OrderInv, Planning, Same
  <2>3. Writing'
    BY <1>3, <2>1 DEF OrderInv, Writing, Same
  <2> QED
    BY <1>1, <2>2, <2>3 DEF OrderInv
<1> QED
  BY <1>2, <1>3

\* What is selected has the summary last, and writes anew what a merge found.
LEMMA ReportKeeps ==
  ASSUME OrderInv, NEW files, pc = "evaluate", Report(files),
         files \in Seq(Range(files)), files # << >>,
         \A i \in DOMAIN files : files[i].name = "summary" <=> i = Len(files),
         Required(DirKind) \subseteq {files[i].name : i \in DOMAIN files},
         DirKind = "pareto" =>
           /\ {files[i].name : i \in DOMAIN files}
                \subseteq {"evaluations", "front", "baseline", "manifest", "summary"}
           /\ {"evaluations", "front", "manifest", "summary"} \subseteq {files[i].name : i \in DOMAIN files}
  PROVE  OrderInv'
<1>1. /\ todo' = files /\ pc' = "write" /\ Same
  BY DEF Report, Same
<1>2. Listed' /\ Dated' /\ Known' /\ Planning' /\ States' /\ SummaryVouches'
  BY <1>1 DEF OrderInv, Same, Listed, Dated, NamesIn, Known, Planning, States, SummaryVouches
<1>3. at \in DOMAIN outputs /\ outputs[at].kind = DirKind
  BY DEF OrderInv, Planning
<1>4. \A n \in NamesIn(at) : IF n = "baseline" THEN outputs[at].files[n].whole
                             ELSE request.kind = "merge" /\ outputs[at].files[n].by < command
  BY DEF OrderInv, Planning
<1>5. \A n \in NamesIn(at) : n # "baseline" => n \in {files[i].name : i \in DOMAIN files}
  BY <1>3, <1>4 DEF OrderInv, Known, DirKind
<1>6. Writing'
  <2>1. /\ DirKind' = DirKind /\ NamesIn(at)' = NamesIn(at) /\ at' = at /\ outputs' = outputs
        /\ command' = command /\ Pending' = {files[i].name : i \in DOMAIN files}
    BY <1>1 DEF Same, DirKind, NamesIn, Pending
  <2>2. "summary" \in NamesIn(at) => outputs[at].files["summary"].by < command
    BY <1>4
  <2>3. \A n \in NamesIn(at) \ Pending' : outputs[at].files[n].whole /\ n = "baseline"
    BY <1>4, <1>5, <2>1
  <2> QED
    BY <1>1, <1>3, <2>1, <2>2, <2>3 DEF Writing
<1> QED
  BY <1>2, <1>6 DEF OrderInv

NamesOf(files) == {files[i].name : i \in DOMAIN files}

\* Records come last, and the summary last of them.
LEMMA RecordsLast ==
  ASSUME NEW S, NEW head \in Seq(S), "summary" \notin NamesOf(head)
  PROVE  LET files == head \o Records
         IN  /\ files \in Seq(Range(files)) /\ files # << >>
             /\ \A i \in DOMAIN files : files[i].name = "summary" <=> i = Len(files)
             /\ NamesOf(files) = NamesOf(head) \cup {"manifest", "summary"}
<1> DEFINE m == Output("manifest", [arch |-> request.arch, inputs |-> request.inputs])
           s == Output("summary", << >>)
           T == S \cup {m, s}
           files == head \o Records
           n == Len(head)
<1>1. m.name = "manifest" /\ s.name = "summary"
  BY DEF Output
<1>2. Records = << m, s >>
  BY DEF Records
<1> HIDE DEF m, s
<1>3. head \in Seq(T) /\ << m, s >> \in Seq(T) /\ n \in Nat /\ DOMAIN head = 1 .. n
  OBVIOUS
<1>4. /\ files \in Seq(T) /\ Len(files) = n + 2 /\ DOMAIN files = 1 .. n + 2
      /\ \A i \in 1 .. n : files[i] = head[i]
      /\ files[n + 1] = m /\ files[n + 2] = s
  BY <1>2, <1>3
<1>5. files \in Seq(Range(files)) /\ files # << >>
  <2> HIDE DEF files
  <2>1. Len(files) # 0
    BY <1>3, <1>4
  <2> QED
    BY <1>4, <2>1, OfItsRange
<1>6. \A i \in 1 .. n : files[i].name \in NamesOf(head)
  BY <1>3, <1>4 DEF NamesOf
<1>7. \A i \in DOMAIN files : files[i].name = "summary" <=> i = Len(files)
  BY <1>1, <1>3, <1>4, <1>6
<1>8. NamesOf(files) \subseteq NamesOf(head) \cup {"manifest", "summary"}
  BY <1>1, <1>3, <1>4, <1>6 DEF NamesOf
<1>9. NamesOf(head) \subseteq NamesOf(files)
  BY <1>3, <1>4 DEF NamesOf
<1>10. {"manifest", "summary"} \subseteq NamesOf(files)
  <2>1. n + 1 \in DOMAIN files /\ n + 2 \in DOMAIN files
    BY <1>3, <1>4
  <2> QED
    BY <1>1, <1>4, <2>1 DEF NamesOf
<1> QED
  BY <1>5, <1>7, <1>8, <1>9, <1>10

\* Two files, the first files of every report.
LEMMA Two ==
  ASSUME NEW n1, NEW c1, NEW n2, NEW c2
  PROVE  LET files == << Output(n1, c1), Output(n2, c2) >>
         IN  files \in Seq(Range(files)) /\ NamesOf(files) = {n1, n2}
<1> DEFINE o1 == Output(n1, c1)
           o2 == Output(n2, c2)
<1>1. o1.name = n1 /\ o2.name = n2
  BY DEF Output
<1> HIDE DEF o1, o2
<1>2. << o1, o2 >> \in Seq({o1, o2}) /\ DOMAIN << o1, o2 >> = 1 .. 2
  OBVIOUS
<1>3. NamesOf(<< o1, o2 >>) = {n1, n2}
  BY <1>1, <1>2 DEF NamesOf
<1> QED
  BY <1>2, <1>3, OfItsRange DEF o1, o2

\* One file.
LEMMA One ==
  ASSUME NEW n1, NEW c1
  PROVE  LET files == << Output(n1, c1) >>
         IN  files \in Seq(Range(files)) /\ NamesOf(files) = {n1}
<1> DEFINE o1 == Output(n1, c1)
<1>1. o1.name = n1
  BY DEF Output
<1> HIDE DEF o1
<1>2. << o1 >> \in Seq({o1}) /\ DOMAIN << o1 >> = 1 .. 1
  OBVIOUS
<1>3. NamesOf(<< o1 >>) = {n1}
  BY <1>1, <1>2 DEF NamesOf
<1> QED
  BY <1>2, <1>3, OfItsRange DEF o1

\* Files after files.
LEMMA Joined ==
  ASSUME NEW s, NEW t, s \in Seq(Range(s)), t \in Seq(Range(t))
  PROVE  s \o t \in Seq(Range(s \o t)) /\ NamesOf(s \o t) = NamesOf(s) \cup NamesOf(t)
<1> DEFINE T == Range(s) \cup Range(t)
           u == s \o t
<1>1. s \in Seq(T) /\ t \in Seq(T)
  OBVIOUS
<1>2. /\ u \in Seq(T) /\ Len(u) = Len(s) + Len(t) /\ Len(s) \in Nat /\ Len(t) \in Nat
      /\ DOMAIN s = 1 .. Len(s) /\ DOMAIN t = 1 .. Len(t) /\ DOMAIN u = 1 .. Len(s) + Len(t)
      /\ \A i \in 1 .. Len(s) : u[i] = s[i]
      /\ \A i \in 1 .. Len(t) : u[Len(s) + i] = t[i]
  BY <1>1
<1> HIDE DEF u, T
<1>3. \A i \in DOMAIN u : i \in DOMAIN s \/ i - Len(s) \in DOMAIN t
  BY <1>2
<1>4. NamesOf(u) \subseteq NamesOf(s) \cup NamesOf(t)
  <2> SUFFICES ASSUME NEW i \in DOMAIN u PROVE u[i].name \in NamesOf(s) \cup NamesOf(t)
    BY DEF NamesOf
  <2>1. CASE i \in DOMAIN s
    BY <1>2, <2>1 DEF NamesOf
  <2>2. CASE i - Len(s) \in DOMAIN t
    <3>1. u[i] = t[i - Len(s)]
      BY <1>2, <2>2
    <3> QED
      BY <2>2, <3>1 DEF NamesOf
  <2> QED
    BY <1>3, <2>1, <2>2
<1>5. NamesOf(s) \subseteq NamesOf(u)
  BY <1>2 DEF NamesOf
<1>6. NamesOf(t) \subseteq NamesOf(u)
  <2> SUFFICES ASSUME NEW i \in DOMAIN t PROVE t[i].name \in NamesOf(u)
    BY DEF NamesOf
  <2>1. Len(s) + i \in DOMAIN u /\ u[Len(s) + i] = t[i]
    BY <1>2
  <2> QED
    BY <2>1 DEF NamesOf
<1>7. u \in Seq(Range(u))
  BY <1>2, OfItsRange
<1> QED
  BY <1>4, <1>5, <1>6, <1>7 DEF u

\* A report with these files before its records.
LEMMA HeadKeeps ==
  ASSUME OrderInv, pc = "evaluate", NEW head, head \in Seq(Range(head)),
         Report(head \o Records),
         "summary" \notin NamesOf(head),
         Required(DirKind) \subseteq NamesOf(head) \cup {"manifest"},
         DirKind = "pareto" => /\ NamesOf(head) \subseteq {"evaluations", "front", "baseline"}
                               /\ {"evaluations", "front"} \subseteq NamesOf(head)
  PROVE  OrderInv'
<1> DEFINE files == head \o Records
<1>1. /\ files \in Seq(Range(files)) /\ files # << >>
      /\ \A i \in DOMAIN files : files[i].name = "summary" <=> i = Len(files)
      /\ NamesOf(files) = NamesOf(head) \cup {"manifest", "summary"}
  BY RecordsLast
<1> HIDE DEF files
<1>2. {files[i].name : i \in DOMAIN files} = NamesOf(head) \cup {"manifest", "summary"}
  BY <1>1 DEF NamesOf
<1>3. Report(files)
  BY DEF files
<1> QED
  BY <1>1, <1>2, <1>3, ReportKeeps

\* The Pareto evaluation and its merge: table, front, baseline and records.
LEMMA SelectParetoKeeps == OrderInv /\ SelectPareto => OrderInv'
<1> SUFFICES ASSUME OrderInv, SelectPareto PROVE OrderInv'
  OBVIOUS
<1> DEFINE two == << Output("evaluations", ParetoRows), Output("front", StepFronts(ParetoRows)) >>
           base == IF request.kind = "merge" THEN << >> ELSE BaselineFile(request)
<1>1. pc = "evaluate" /\ DirKind = "pareto"
  BY DEF SelectPareto, RoundDone, DirKind
<1>2. two \in Seq(Range(two)) /\ NamesOf(two) = {"evaluations", "front"}
  BY Two
<1>3. base \in Seq(Range(base)) /\ NamesOf(base) \subseteq {"baseline"}
  <2>1. CASE base = << >>
    <3>1. << >> \in Seq({}) /\ DOMAIN << >> = {}
      OBVIOUS
    <3> QED
      BY <2>1, <3>1, OfItsRange DEF NamesOf
  <2>2. CASE base # << >>
    <3>1. PICK c : base = << Output("baseline", c) >>
      BY <2>2 DEF BaselineFile
    <3> QED
      BY <3>1, One
  <2> QED
    BY <2>1, <2>2
<1>4. NothingToReport \/ Report(two \o base \o Records)
  BY DEF SelectPareto
<1> HIDE DEF two, base
<1>5. CASE NothingToReport
  BY <1>5, SameKeeps DEF NothingToReport, Same
<1>6. CASE Report(two \o base \o Records)
  <2>1. two \o base \in Seq(Range(two \o base)) /\ NamesOf(two \o base) = NamesOf(two) \cup NamesOf(base)
    BY <1>2, <1>3, Joined
  <2> DEFINE head == two \o base
  <2>2. /\ head \in Seq(Range(head)) /\ NamesOf(head) = {"evaluations", "front"} \cup NamesOf(base)
        /\ Report(head \o Records)
    BY <1>2, <1>6, <2>1
  <2> HIDE DEF head
  <2> QED
    BY <1>1, <1>3, <2>2, HeadKeeps DEF Required
<1> QED
  BY <1>4, <1>5, <1>6

\* The geometry sweep: table, front and records.
LEMMA SelectGeometryKeeps == OrderInv /\ SelectGeometry => OrderInv'
<1> SUFFICES ASSUME OrderInv, SelectGeometry PROVE OrderInv'
  OBVIOUS
<1> DEFINE all == GeometryRows(request, tasks, Results)
           two == << Output("evaluations", all), Output("front", GeometryFronts(all)) >>
<1>1. pc = "evaluate" /\ DirKind = "geometry"
  BY DEF SelectGeometry, RoundDone, DirKind
<1>2. two \in Seq(Range(two)) /\ NamesOf(two) = {"evaluations", "front"}
  BY Two
<1>3. NothingToReport \/ Report(two \o Records)
  BY DEF SelectGeometry
<1> HIDE DEF two
<1>4. CASE NothingToReport
  BY <1>4, SameKeeps DEF NothingToReport, Same
<1>5. CASE Report(two \o Records)
  BY <1>1, <1>2, <1>5, HeadKeeps DEF Required
<1> QED
  BY <1>3, <1>4, <1>5

\* The buffer sweep: table, winners and records.
LEMMA SelectBufferKeeps == OrderInv /\ SelectBuffer => OrderInv'
<1> SUFFICES ASSUME OrderInv, SelectBuffer PROVE OrderInv'
  OBVIOUS
<1>1. pc = "evaluate" /\ DirKind = "buffer"
  BY DEF SelectBuffer, RoundDone, DirKind
<1>2. \A groups : /\ WinnerFiles(groups) \in Seq(Range(WinnerFiles(groups)))
                  /\ NamesOf(WinnerFiles(groups)) = {"evaluations", "best"}
  BY Two DEF WinnerFiles
<1>3. NothingToReport \/ \E groups : Report(WinnerFiles(groups) \o Records)
  BY DEF SelectBuffer
<1>4. CASE NothingToReport
  BY <1>4, SameKeeps DEF NothingToReport, Same
<1>5. ASSUME NEW groups, Report(WinnerFiles(groups) \o Records) PROVE OrderInv'
  BY <1>1, <1>2, <1>5, HeadKeeps DEF Required
<1> QED
  BY <1>3, <1>4, <1>5

\* The activation sweep: table, winners, relative metrics and records.
LEMMA SelectActivationKeeps == OrderInv /\ SelectActivation => OrderInv'
<1> SUFFICES ASSUME OrderInv, SelectActivation PROVE OrderInv'
  OBVIOUS
<1>1. pc = "evaluate" /\ DirKind = "activation"
  BY DEF SelectActivation, RoundDone, DirKind
<1>2. \A groups : /\ WinnerFiles(groups) \in Seq(Range(WinnerFiles(groups)))
                  /\ NamesOf(WinnerFiles(groups)) = {"evaluations", "best"}
  BY Two DEF WinnerFiles
<1>3. NothingToReport \/ \E groups, c : Report(WinnerFiles(groups) \o << Output("relative", c) >> \o Records)
  BY DEF SelectActivation
<1>4. CASE NothingToReport
  BY <1>4, SameKeeps DEF NothingToReport, Same
<1>5. ASSUME NEW groups, NEW c, Report(WinnerFiles(groups) \o << Output("relative", c) >> \o Records)
      PROVE OrderInv'
  <2> DEFINE one == << Output("relative", c) >>
             head == WinnerFiles(groups) \o one
  <2>1. one \in Seq(Range(one)) /\ NamesOf(one) = {"relative"}
    BY One
  <2> HIDE DEF one
  <2>2. /\ head \in Seq(Range(head)) /\ NamesOf(head) = {"evaluations", "best", "relative"}
    BY <1>2, <2>1, Joined
  <2>3. Report(head \o Records)
    BY <1>5 DEF one
  <2> HIDE DEF head
  <2> QED
    BY <1>1, <2>2, <2>3, HeadKeeps DEF Required
<1> QED
  BY <1>3, <1>4, <1>5

\* The random-set sweep: sample, table, best line, plot and records.
LEMMA SelectLinesKeeps == OrderInv /\ SelectLines => OrderInv'
<1> SUFFICES ASSUME OrderInv, SelectLines PROVE OrderInv'
  OBVIOUS
<1> DEFINE o1 == Output("sampled", sample)
           o2 == Output("evaluations", FlattenSeq(Lines))
           o3 == Output("best", Lines[2])
           o4 == Output("plot", Lines)
           head == << o1, o2, o3, o4 >>
<1>1. pc = "evaluate" /\ DirKind = "random_set"
  BY DEF SelectLines, RoundDone, DirKind
<1>2. o1.name = "sampled" /\ o2.name = "evaluations" /\ o3.name = "best" /\ o4.name = "plot"
  BY DEF Output
<1>3. NothingToReport \/ Report(head \o Records)
  BY DEF SelectLines
<1> HIDE DEF o1, o2, o3, o4
<1>4. head \in Seq({o1, o2, o3, o4}) /\ DOMAIN head = 1 .. 4
  OBVIOUS
<1>5. head \in Seq(Range(head))
  BY <1>4, OfItsRange
<1>6. NamesOf(head) = {"sampled", "evaluations", "best", "plot"}
  BY <1>2, <1>4 DEF NamesOf
<1> HIDE DEF head
<1>7. CASE NothingToReport
  BY <1>7, SameKeeps DEF NothingToReport, Same
<1>8. CASE Report(head \o Records)
  BY <1>1, <1>5, <1>6, <1>8, HeadKeeps DEF Required
<1> QED
  BY <1>3, <1>7, <1>8

-----------------------------------------------------------------------------
(* Writing.                                                                *)

\* A file is written, which may count as a cut.
Written(n, f) ==
  /\ at \in DOMAIN outputs
  /\ \E dir : /\ dir = outputs[at] \/ \E k : dir = [outputs[at] EXCEPT !.cuts = k]
              /\ outputs' = [outputs EXCEPT ![at] = With(dir, n, f)]
  /\ f.by = command /\ UNCHANGED << command, at, request >>
  /\ outputs[at].kind = "pareto" => n \in {"evaluations", "front", "baseline", "manifest", "summary"}
  /\ "summary" \in NamesIn(at) => outputs[at].files["summary"].by < command

\* A file is added to the directory, or replaced there.
LEMMA FileWritten ==
  ASSUME OrderInv, NEW n, NEW f, Written(n, f)
  PROVE  /\ Listed' /\ Dated' /\ Known'
         /\ DOMAIN outputs' = DOMAIN outputs
         /\ \A d \in DOMAIN outputs : d # at => outputs'[d] = outputs[d]
         /\ outputs'[at].kind = outputs[at].kind
         /\ NamesIn(at)' = NamesIn(at) \cup {n}
         /\ \A m \in NamesIn(at)' : outputs'[at].files[m] = IF m = n THEN f ELSE outputs[at].files[m]
<1>0. PICK dir : /\ dir = outputs[at] \/ \E k : dir = [outputs[at] EXCEPT !.cuts = k]
                 /\ outputs' = [outputs EXCEPT ![at] = With(dir, n, f)]
  BY DEF Written
<1> DEFINE d == With(dir, n, f)
<1>1. outputs' = [outputs EXCEPT ![at] = d]
  BY <1>0
<1>2. /\ outputs' \in Seq(Range(outputs')) /\ DOMAIN outputs' = DOMAIN outputs
      /\ \A j \in DOMAIN outputs : outputs'[j] = IF j = at THEN d ELSE outputs[j]
  <2> HIDE DEF d
  <2>1. Listed /\ at \in DOMAIN outputs
    BY DEF OrderInv, Written
  <2> QED
    BY <1>1, <2>1, Replaced
<1>3. /\ d.kind = outputs[at].kind /\ DOMAIN d.files = NamesIn(at) \cup {n}
      /\ \A m \in DOMAIN d.files : d.files[m] = IF m = n THEN f ELSE outputs[at].files[m]
  <2>1. \A k : /\ [outputs[at] EXCEPT !.cuts = k].kind = outputs[at].kind
              /\ [outputs[at] EXCEPT !.cuts = k].files = outputs[at].files
    OBVIOUS
  <2>2. dir.kind = outputs[at].kind /\ dir.files = outputs[at].files
    BY <1>0, <2>1
  <2> QED
    BY <2>2 DEF With, NamesIn
<1> HIDE DEF d
<1>4. at \in DOMAIN outputs /\ at' = at /\ command' = command /\ f.by = command
  BY DEF Written
<1>5. Listed'
  BY <1>2, <1>4 DEF OrderInv, Listed
<1>6. Dated'
  BY <1>2, <1>3, <1>4 DEF OrderInv, Dated, NamesIn, Listed
<1>7. Known'
  BY <1>2, <1>3, <1>4 DEF OrderInv, Known, NamesIn, Written
<1> QED
  BY <1>2, <1>3, <1>4, <1>5, <1>6, <1>7 DEF NamesIn

\* With a file that is newer than the summary, or a summary that is not whole,
\* nothing is vouched for there.
LEMMA NothingVouched ==
  ASSUME OrderInv, NEW n, NEW f, Written(n, f), n = "summary" => ~f.whole
  PROVE  SummaryVouches'
<1>1. ASSUME NEW d \in DOMAIN outputs, d # at PROVE outputs'[d] = outputs[d]
  BY <1>1, FileWritten
<1>2. ~(/\ Whole(outputs'[at], "summary")
        /\ \A m \in DOMAIN outputs'[at].files :
             outputs'[at].files[m].by <= outputs'[at].files["summary"].by)
  <2> SUFFICES ASSUME Whole(outputs'[at], "summary")
               PROVE  \E m \in DOMAIN outputs'[at].files :
                        ~(outputs'[at].files[m].by <= outputs'[at].files["summary"].by)
    OBVIOUS
  <2> DEFINE was == outputs[at].files["summary"]
  <2>1. /\ at \in DOMAIN outputs /\ at' = at /\ f.by = command
        /\ "summary" \in NamesIn(at) => was.by < command
    BY DEF Written
  <2>2. n # "summary"
    BY <2>1, FileWritten DEF Whole, Has, NamesIn
  <2>3. "summary" \in NamesIn(at) /\ outputs'[at].files["summary"] = was
    BY <2>1, <2>2, FileWritten DEF Whole, Has, NamesIn
  <2>4. n \in DOMAIN outputs'[at].files /\ outputs'[at].files[n].by = command
    BY <2>1, FileWritten DEF NamesIn
  <2>5. was.by \in Nat /\ command \in Nat
    BY <2>1, <2>3 DEF OrderInv, Dated, NamesIn, Listed
  <2> QED
    BY <2>1, <2>3, <2>4, <2>5
<1> QED
  BY <1>1, <1>2, FileWritten DEF OrderInv, SummaryVouches

\* A file that is written is newer than the summary, or it is the summary and the last.
LEMMA WriteFileKeeps == OrderInv /\ WriteFile => OrderInv'
<1> SUFFICES ASSUME OrderInv, WriteFile PROVE OrderInv'
  OBVIOUS
<1> DEFINE n == Head(todo).name
           f == File(Head(todo).content)
<1>1. f.by = command /\ f.whole
  BY DEF File
<1>2. /\ outputs' = [outputs EXCEPT ![at] = With(@, n, f)] /\ todo' = Tail(todo)
      /\ pc \in {"prepare", "write"} /\ todo # << >>
      /\ pc' = IF Tail(todo) # << >> THEN pc ELSE IF pc = "write" THEN "done" ELSE "evaluate"
      /\ UNCHANGED << command, at, request >>
  BY DEF WriteFile
<1>3. DirKind' = DirKind
  BY <1>2 DEF DirKind
<1> HIDE DEF f
<1>4. CASE pc = "prepare"
  <2>1. /\ at \in DOMAIN outputs /\ outputs[at].kind = DirKind
        /\ \A m \in NamesIn(at) :
             IF m = "baseline" THEN outputs[at].files[m].whole
             ELSE request.kind = "merge" /\ outputs[at].files[m].by < command
        /\ todo \in Seq(Range(todo)) /\ Len(todo) = 1 /\ todo[1].name = "baseline"
    BY <1>4 DEF OrderInv, Planning
  <2>2. n = "baseline" /\ Tail(todo) = << >>
    <3>1. Len(Tail(todo)) = 0 /\ Tail(todo) \in Seq(Range(todo))
      BY <2>1
    <3>2. Tail(todo) = << >>
      BY <3>1, EmptySeq
    <3> QED
      BY <2>1, <3>2
  <2>3. Written(n, f)
    BY <1>1, <1>2, <2>1, <2>2 DEF Written
  <2>4. SummaryVouches'
    BY <2>2, <2>3, NothingVouched
  <2>5. pc' = "evaluate"
    BY <1>2, <1>4, <2>2
  <2>6. Planning'
    <3>1. NamesIn(at)' = NamesIn(at) \cup {n} /\ at' = at /\ at' \in DOMAIN outputs'
          /\ outputs'[at].kind = DirKind
          /\ \A m \in NamesIn(at)' : outputs'[at].files[m] = IF m = n THEN f ELSE outputs[at].files[m]
      BY <1>2, <2>1, <2>3, FileWritten
    <3> QED
      BY <1>1, <1>2, <1>3, <2>1, <2>2, <2>5, <3>1 DEF Planning
  <2> QED
    BY <2>3, <2>4, <2>5, <2>6, FileWritten DEF OrderInv, Writing, States
<1>5. CASE pc = "write"
  <2> DEFINE k == Len(todo)
  <2>1. /\ at \in DOMAIN outputs /\ outputs[at].kind = DirKind
        /\ todo \in Seq(Range(todo)) /\ todo # << >>
        /\ \A i \in DOMAIN todo : todo[i].name = "summary" <=> i = k
        /\ outputs[at].kind = "pareto" =>
             Pending \subseteq {"evaluations", "front", "baseline", "manifest", "summary"}
        /\ Required(outputs[at].kind) \subseteq NamesIn(at) \cup Pending
        /\ "summary" \in NamesIn(at) => outputs[at].files["summary"].by < command
        /\ \A m \in NamesIn(at) \ Pending :
             /\ outputs[at].files[m].whole
             /\ m # "baseline" => outputs[at].files[m].by = command
    BY <1>5 DEF OrderInv, Writing
  <2>2. /\ k \in Nat \ {0} /\ DOMAIN todo = 1 .. k /\ Head(todo) = todo[1]
        /\ Tail(todo) \in Seq(Range(todo)) /\ Len(Tail(todo)) = k - 1
        /\ DOMAIN Tail(todo) = 1 .. k - 1
        /\ \A i \in 1 .. k - 1 : Tail(todo)[i] = todo[i + 1]
    BY <2>1, EmptySeq
  <2>3. n \in Pending /\ Pending \subseteq Pending' \cup {n} /\ Pending' \subseteq Pending
    <3>1. n = todo[1].name /\ 1 \in DOMAIN todo
      BY <2>2
    <3>2. \A i \in DOMAIN todo : i = 1 \/ (i - 1 \in DOMAIN todo' /\ todo'[i - 1] = todo[i])
      BY <1>2, <2>2
    <3>3. \A i \in DOMAIN todo' : i + 1 \in DOMAIN todo /\ todo'[i] = todo[i + 1]
      BY <1>2, <2>2
    <3> QED
      BY <3>1, <3>2, <3>3 DEF Pending
  <2>4. Written(n, f)
    BY <1>1, <1>2, <2>1, <2>3 DEF Written
  <2>5. /\ NamesIn(at)' = NamesIn(at) \cup {n} /\ at' = at /\ at' \in DOMAIN outputs'
        /\ outputs'[at].kind = outputs[at].kind
        /\ \A m \in NamesIn(at)' : outputs'[at].files[m] = IF m = n THEN f ELSE outputs[at].files[m]
        /\ \A d \in DOMAIN outputs : d # at => outputs'[d] = outputs[d]
        /\ DOMAIN outputs' = DOMAIN outputs
    BY <1>2, <2>1, <2>4, FileWritten
  <2>6. Required(outputs'[at].kind) \subseteq NamesIn(at)' \cup Pending'
    BY <2>1, <2>3, <2>5
  <2>7. \A m \in NamesIn(at)' \ Pending' :
          /\ outputs'[at].files[m].whole
          /\ m # "baseline" => outputs'[at].files[m].by = command
    BY <1>1, <2>1, <2>3, <2>5
  <2>8. CASE k > 1
    <3>1. Tail(todo) # << >> /\ pc' = "write"
      <4>1. Len(Tail(todo)) # 0 /\ Len(<< >>) = 0
        BY <2>2, <2>8
      <4>2. Tail(todo) # << >>
        BY <4>1
      <4> QED
        BY <1>2, <1>5, <4>2
    <3>2. n # "summary"
      BY <2>1, <2>2, <2>8
    <3>3. SummaryVouches'
      BY <2>4, <3>2, NothingVouched
    <3>4. todo' \in Seq(Range(todo')) /\ \A i \in DOMAIN todo' : todo'[i].name = "summary" <=> i = Len(todo')
      <4>1. ASSUME NEW i \in 1 .. k - 1 PROVE todo'[i].name = "summary" <=> i + 1 = k
        <5>1. i + 1 \in DOMAIN todo /\ todo'[i] = todo[i + 1]
          BY <1>2, <2>2
        <5> QED
          BY <2>1, <5>1
      <4>2. todo' \in Seq(Range(todo'))
        BY <1>2, <2>2, OfItsRange
      <4>3. DOMAIN todo' = 1 .. k - 1 /\ Len(todo') = k - 1
        BY <1>2, <2>2
      <4>4. \A i \in 1 .. k - 1 : i + 1 = k <=> i = k - 1
        BY <2>2
      <4> QED
        BY <4>1, <4>2, <4>3, <4>4
    <3>5. "summary" \in NamesIn(at)' => outputs'[at].files["summary"].by < command'
      BY <1>2, <2>1, <2>5, <3>2
    <3>6. outputs'[at].kind = "pareto" =>
            Pending' \subseteq {"evaluations", "front", "baseline", "manifest", "summary"}
      BY <2>1, <2>3, <2>5
    <3>7. Writing'
      BY <1>2, <1>3, <2>1, <2>5, <2>6, <2>7, <3>1, <3>4, <3>5, <3>6 DEF Writing
    <3> QED
      BY <2>4, <3>1, <3>3, <3>7, FileWritten DEF OrderInv, Planning, States
  <2>9. CASE k = 1
    <3>1. Tail(todo) = << >>
      BY <2>2, <2>9, EmptySeq
    <3>2. n = "summary" /\ Pending' = {} /\ pc' = "done"
      BY <1>2, <1>5, <2>1, <2>2, <2>9, <3>1 DEF Pending
    <3>3. SummaryVouches'
      <4>1. /\ Required(outputs'[at].kind) \subseteq DOMAIN outputs'[at].files
            /\ \A m \in DOMAIN outputs'[at].files :
                 outputs'[at].files[m].whole
                 /\ (m # "baseline" => outputs'[at].files[m].by = outputs'[at].files["summary"].by)
        BY <1>1, <2>5, <2>6, <2>7, <3>2 DEF NamesIn
      <4>2. \A m \in DOMAIN outputs'[at].files : Whole(outputs'[at], m)
        BY <4>1 DEF Whole, Has
      <4> QED
        BY <2>5, <4>1, <4>2 DEF OrderInv, SummaryVouches
    <3> QED
      BY <2>4, <3>2, <3>3, FileWritten DEF OrderInv, Planning, Writing, States
  <2> QED
    BY <2>2, <2>8, <2>9
<1> QED
  BY <1>2, <1>4, <1>5

\* A file cut short vouches for nothing.
LEMMA KilledWritingKeeps == OrderInv /\ KilledWriting => OrderInv'
<1> SUFFICES ASSUME OrderInv, KilledWriting PROVE OrderInv'
  OBVIOUS
<1> DEFINE n == Head(todo).name
<1>1. PICK c : outputs' = [outputs EXCEPT ![at] = CutDir(@, Head(todo), c)]
  BY DEF KilledWriting
<1> DEFINE f == [whole |-> FALSE, by |-> command, content |-> c]
<1>2. /\ pc \in {"prepare", "write"} /\ todo # << >> /\ pc' = "idle"
      /\ UNCHANGED << command, at, request >>
  BY DEF KilledWriting
<1>3. f.by = command /\ ~f.whole
  OBVIOUS
<1>5. \E dir : /\ dir = outputs[at] \/ \E k : dir = [outputs[at] EXCEPT !.cuts = k]
              /\ outputs' = [outputs EXCEPT ![at] = With(dir, n, f)]
  <2> DEFINE k == IF n = "evaluations" THEN outputs[at].cuts + 1 ELSE outputs[at].cuts
             dir == [outputs[at] EXCEPT !.cuts = k]
  <2>1. outputs' = [outputs EXCEPT ![at] = With(dir, n, f)]
    BY <1>1 DEF CutDir
  <2> QED
    BY <2>1
<1> HIDE DEF f
<1>4. Written(n, f)
  <2>1. CASE pc = "prepare"
    <3>1. /\ at \in DOMAIN outputs
          /\ \A m \in NamesIn(at) : m # "baseline" => outputs[at].files[m].by < command
          /\ todo \in Seq(Range(todo)) /\ todo[1].name = "baseline"
      BY <2>1 DEF OrderInv, Planning
    <3>2. n = "baseline"
      BY <1>2, <3>1
    <3> QED
      BY <1>2, <1>3, <1>5, <3>1, <3>2 DEF Written
  <2>2. CASE pc = "write"
    <3>1. /\ at \in DOMAIN outputs /\ todo \in Seq(Range(todo))
          /\ outputs[at].kind = "pareto" =>
               Pending \subseteq {"evaluations", "front", "baseline", "manifest", "summary"}
          /\ "summary" \in NamesIn(at) => outputs[at].files["summary"].by < command
      BY <2>2 DEF OrderInv, Writing
    <3>2. n \in Pending
      <4>1. 1 \in DOMAIN todo /\ Head(todo) = todo[1]
        BY <1>2, <3>1, EmptySeq
      <4> QED
        BY <4>1 DEF Pending
    <3> QED
      BY <1>2, <1>3, <1>5, <3>1, <3>2 DEF Written
  <2> QED
    BY <1>2, <2>1, <2>2
<1>6. SummaryVouches'
  BY <1>3, <1>4, NothingVouched
<1> QED
  BY <1>2, <1>4, <1>6, FileWritten DEF OrderInv, Planning, Writing, States

-----------------------------------------------------------------------------

\* Nothing has been written.
LEMMA OrderInvInit == Init => OrderInv
<1> SUFFICES ASSUME Init PROVE OrderInv
  OBVIOUS
<1>1. outputs = << >> /\ command = 0 /\ pc = "idle" /\ DOMAIN outputs = {}
  BY DEF Init
<1>2. outputs \in Seq({})
  BY <1>1
<1>3. Listed
  BY <1>1, <1>2, OfItsRange DEF Listed
<1> QED
  BY <1>1, <1>3 DEF OrderInv, Dated, Known, Planning, Writing, States, SummaryVouches

\* Every step keeps the order of the files.
LEMMA OrderInvNext == OrderInv /\ [Next]_vars => OrderInv'
<1> SUFFICES ASSUME OrderInv, [Next]_vars PROVE OrderInv'
  OBVIOUS
<1>1. CASE StartPareto \/ StartGeometry \/ StartBuffer \/ StartActivation \/ StartRandomSet
  BY <1>1, StartsKeep
<1>2. CASE StartMerge
  BY <1>2, MergeKeeps
<1>3. CASE EvaluateParetoTask \/ EvaluateGeometryTask \/ EvaluateVariantTask \/ EvaluateConfigTask
  <2>1. UNCHANGED << pc, outputs, command, request, at, todo >>
    BY <1>3 DEF EvaluateParetoTask, EvaluateGeometryTask, EvaluateVariantTask, EvaluateConfigTask,
                EvaluateWith
  <2> QED
    BY <2>1, SameKeeps DEF Same
<1>4. CASE PoolFails \/ Killed \/ UNCHANGED vars
  <2>1. Same /\ UNCHANGED todo /\ (UNCHANGED pc \/ pc' = "idle")
    BY <1>4 DEF PoolFails, Killed, vars, Same
  <2> QED
    BY <2>1, SameKeeps
<1>5. CASE SelectPareto
  BY <1>5, SelectParetoKeeps
<1>6. CASE SelectGeometry
  BY <1>6, SelectGeometryKeeps
<1>7. CASE SelectBuffer
  BY <1>7, SelectBufferKeeps
<1>8. CASE SelectActivation
  BY <1>8, SelectActivationKeeps
<1>9. CASE SelectSample \/ SelectBestLine
  <2>1. NothingToReport \/ \E mapping : NextRound(mapping)
    BY <1>9 DEF SelectSample, SelectBestLine
  <2>2. Same /\ UNCHANGED todo /\ (UNCHANGED pc \/ pc' = "idle")
    BY <2>1 DEF NothingToReport, NextRound, Same
  <2> QED
    BY <2>2, SameKeeps
<1>10. CASE SelectLines
  BY <1>10, SelectLinesKeeps
<1>11. CASE WriteFile
  BY <1>11, WriteFileKeeps
<1>12. CASE KilledWriting
  BY <1>12, KilledWritingKeeps
<1> QED
  BY <1>1, <1>2, <1>3, <1>4, <1>5, <1>6, <1>7, <1>8, <1>9, <1>10, <1>11, <1>12 DEF Next

\* Whatever commands ran in a directory before, and wherever they were killed, a
\* whole summary that no later command has written after vouches for the files
\* beside it (the order of the writes of every run and of the merge).
THEOREM SummariesVouch == Spec => []SummaryVouches
<1>1. OrderInv => SummaryVouches
  BY DEF OrderInv
<1> QED
  BY <1>1, OrderInvInit, OrderInvNext, PTL DEF Spec

-----------------------------------------------------------------------------
(* Fronts.                                                                 *)

\* A row that can be compared.
Costed(row) == row.cost \in Costs /\ row.state.id \in Nat /\ row.state.cached \in BOOLEAN

\* Keys of as many numbers: one precedes the other, or they are the same.
LEMMA KeysCompare ==
  ASSUME NEW n \in Nat, NEW s \in [1 .. n -> Nat], NEW t \in [1 .. n -> Nat]
  PROVE  Precedes(s, t) \/ Precedes(t, s) \/ s = t
<1> DEFINE D == {i \in 1 .. n : s[i] # t[i]}
<1>1. CASE D = {}
  BY <1>1
<1>2. CASE D # {}
  <2>1. PICK i \in D : \A j \in D : i <= j
    <3>1. D \in SUBSET Nat
      OBVIOUS
    <3> QED
      BY <1>2, <3>1, LeastNumber
  <2>2. i \in 1 .. n /\ s[i] # t[i] /\ s[i] \in Nat /\ t[i] \in Nat
    OBVIOUS
  <2>3. \A j \in 1 .. i - 1 : s[j] = t[j]
    <3> SUFFICES ASSUME NEW j \in 1 .. i - 1, s[j] # t[j] PROVE FALSE
      OBVIOUS
    <3>1. j \in D
      BY <2>2
    <3> QED
      BY <2>1, <2>2, <3>1
  <2>4. DOMAIN s = 1 .. n /\ DOMAIN t = 1 .. n
    OBVIOUS
  <2>5. CASE s[i] < t[i]
    BY <2>2, <2>3, <2>4, <2>5 DEF Precedes
  <2>6. CASE t[i] < s[i]
    BY <2>2, <2>3, <2>4, <2>6 DEF Precedes
  <2> HIDE DEF D
  <2> QED
    BY <2>2, <2>5, <2>6
<1> QED
  BY <1>1, <1>2

\* To precede by one of the first m numbers.
Before(s, t, m) == \E i \in 1 .. m : s[i] < t[i] /\ \A j \in 1 .. i - 1 : s[j] = t[j]

\* Of elements with keys of as many numbers, some are preceded by none.
LEMMA LeastKey ==
  ASSUME NEW S, S # {}, NEW n \in Nat, NEW k \in [S -> [1 .. n -> Nat]]
  PROVE  \E x \in S : \A y \in S : ~Precedes(k[y], k[x])
<1> DEFINE T(m) == {x \in S : \A y \in S : ~Before(k[y], k[x], m)}
           A == {m \in Nat : m <= n => T(m) # {}}
<1>1. 0 \in A
  <2>1. \A s, t : ~Before(s, t, 0)
    BY DEF Before
  <2> QED
    BY <2>1
<1>2. ASSUME NEW m \in A PROVE m + 1 \in A
  <2> SUFFICES ASSUME m + 1 <= n PROVE T(m + 1) # {}
    OBVIOUS
  <2> DEFINE V == {k[x][m + 1] : x \in T(m)}
  <2>1. \A x \in S : \A i \in 1 .. m + 1 : k[x][i] \in Nat
    OBVIOUS
  <2>2. V \in SUBSET Nat /\ V # {}
    <3>1. T(m) # {}
      OBVIOUS
    <3>2. T(m) \subseteq S /\ m + 1 \in 1 .. m + 1
      OBVIOUS
    <3> HIDE DEF T
    <3>3. \A x \in T(m) : k[x][m + 1] \in Nat
      BY <2>1, <3>2
    <3> QED
      BY <3>1, <3>3
  <2>3. PICK v \in V : \A w \in V : v <= w
    BY <2>2, LeastNumber
  <2>4. PICK x \in T(m) : v = k[x][m + 1]
    OBVIOUS
  <2>5. ASSUME NEW y \in S, Before(k[y], k[x], m + 1) PROVE FALSE
    <3>1. PICK i \in 1 .. m + 1 : k[y][i] < k[x][i] /\ \A j \in 1 .. i - 1 : k[y][j] = k[x][j]
      BY <2>5 DEF Before
    <3>2. ~Before(k[y], k[x], m)
      OBVIOUS
    <3>3. i = m + 1
      BY <3>1, <3>2 DEF Before
    <3>4. \A j \in 1 .. m : k[y][j] = k[x][j]
      BY <3>1, <3>3
    <3>5. \A z \in S : Before(k[z], k[y], m) => Before(k[z], k[x], m)
      <4> SUFFICES ASSUME NEW z \in S, Before(k[z], k[y], m) PROVE Before(k[z], k[x], m)
        OBVIOUS
      <4>1. PICK h \in 1 .. m : k[z][h] < k[y][h] /\ \A j \in 1 .. h - 1 : k[z][j] = k[y][j]
        BY DEF Before
      <4>2. k[z][h] < k[x][h] /\ \A j \in 1 .. h - 1 : k[z][j] = k[x][j]
        <5>1. m \in Nat /\ k[z] \in [1 .. n -> Nat] /\ k[x] \in [1 .. n -> Nat]
          OBVIOUS
        <5>2. \A j \in 1 .. h - 1 : j \in 1 .. m
          BY <4>1, <5>1
        <5> HIDE DEF A, T, V
        <5>3. k[y][h] = k[x][h] /\ \A j \in 1 .. h - 1 : k[y][j] = k[x][j]
          BY <3>4, <4>1, <5>2
        <5> QED
          BY <4>1, <5>3
      <4> QED
        BY <4>2 DEF Before
    <3>6. y \in T(m)
      BY <3>5
    <3>7. v <= k[y][m + 1]
      BY <2>3, <3>6
    <3> QED
      BY <2>1, <2>4, <3>1, <3>3, <3>7
  <2>6. x \in T(m + 1)
    BY <2>5
  <2> QED
    BY <2>6
<1>3. A = Nat
  <2> HIDE DEF A
  <2>1. A \in SUBSET Nat
    BY DEF A
  <2> QED
    BY <1>1, <1>2, <2>1, Upwards
<1>4. PICK x \in T(n) : TRUE
  <2>1. n \in A
    BY <1>3
  <2> QED
    BY <2>1
<1>5. \A y \in S : Precedes(k[y], k[x]) => Before(k[y], k[x], n)
  BY DEF Precedes, Before
<1> QED
  BY <1>4, <1>5

\* The keys of a row: four numbers, and five.
LEMMA KeysOfCosts ==
  ASSUME NEW row, Costed(row)
  PROVE  /\ CostKey(row) \in [1 .. 4 -> Nat]
         /\ WeightedKey(row) \in [1 .. 5 -> Nat]
<1>1. row.cost.latency \in Nat /\ row.cost.footprint \in Nat /\ row.cost.energy \in Nat
  BY DEF Costed, Costs
<1>2. Hash(row) \in Nat
  BY DEF Costed, Hash
<1> DEFINE sum == row.cost.latency + row.cost.footprint + row.cost.energy
<1>3. sum \in Nat
  BY <1>1
<1> HIDE DEF sum
<1> DEFINE u == << sum >>
           v == CostKey(row)
<1>4. u \in Seq(Nat) /\ v \in Seq(Nat) /\ Len(u) = 1 /\ Len(v) = 4
  BY <1>1, <1>2, <1>3 DEF CostKey
<1> HIDE DEF u, v
<1>5. u \o v \in Seq(Nat) /\ Len(u \o v) = 5
  <2>1. u \o v \in Seq(Nat) /\ Len(u \o v) = Len(u) + Len(v)
    BY <1>4, ConcatProperties
  <2> QED
    BY <1>4, <2>1
<1> DEFINE w == u \o v
<1>6. w \in [1 .. 5 -> Nat] /\ v \in [1 .. 4 -> Nat]
  <2> HIDE DEF w
  <2>1. w \in Seq(Nat) /\ Len(w) = 5
    BY <1>5 DEF w
  <2> QED
    BY <1>4, <2>1, LenProperties
<1> QED
  BY <1>6 DEF WeightedKey, sum, u, v

\* What is kept of the rows at some places: of every state, the first of the least.
Kept(table, places, key) ==
  {table[i] : i \in {i \in places : \A j \in places :
     table[j].state = table[i].state =>
       \/ Precedes(key[i], key[j])
       \/ key[i] = key[j] /\ i <= j}}

\* A row of every state is kept.
LEMMA StateKept ==
  ASSUME NEW table, NEW places \in SUBSET Nat, NEW n \in Nat, NEW key \in [places -> [1 .. n -> Nat]],
         NEW i \in places
  PROVE  \E row \in Kept(table, places, key) : row.state = table[i].state
<1> DEFINE S == {j \in places : table[j].state = table[i].state}
           k == [j \in S |-> key[j]]
<1>1. S # {} /\ S \in SUBSET places
  OBVIOUS
<1>2. k \in [S -> [1 .. n -> Nat]] /\ \A j \in S : k[j] = key[j]
  OBVIOUS
<1> HIDE DEF k
<1>3. PICK x \in S : \A y \in S : ~Precedes(k[y], k[x])
  <2> HIDE DEF S
  <2> QED
    BY <1>1, <1>2, LeastKey
<1> DEFINE T == {j \in S : k[j] = k[x]}
<1>4. T \in SUBSET Nat /\ T # {}
  BY <1>1
<1>5. PICK m \in T : \A j \in T : m <= j
  BY <1>4, LeastNumber
<1>6. ASSUME NEW j \in places, table[j].state = table[m].state
      PROVE  \/ Precedes(key[m], key[j])
             \/ key[m] = key[j] /\ m <= j
  <2>1. j \in S /\ m \in S
    BY <1>6
  <2> HIDE DEF S
  <2>2. k[m] = k[x]
    OBVIOUS
  <2>3. Precedes(k[m], k[j]) \/ Precedes(k[j], k[m]) \/ k[m] = k[j]
    <3>1. k[m] \in [1 .. n -> Nat] /\ k[j] \in [1 .. n -> Nat]
      BY <1>2, <2>1
    <3> QED
      BY <3>1, KeysCompare
  <2>4. ~Precedes(k[j], k[m])
    BY <1>3, <2>1, <2>2
  <2>5. k[m] = k[j] => m <= j
    BY <1>5, <2>1, <2>2
  <2> QED
    BY <1>2, <2>1, <2>3, <2>4, <2>5
<1>7. m \in places /\ table[m].state = table[i].state
  OBVIOUS
<1> HIDE DEF T, S
<1>8. table[m] \in Kept(table, places, key)
  BY <1>6, <1>7 DEF Kept
<1> QED
  BY <1>7, <1>8

\* Of the rows that are no worse than one, some are on the front.
LEMMA FrontCovers ==
  ASSUME NEW D, \A row \in D : Costed(row), NEW p \in Pairs, NEW r \in D
  PROVE  \E s \in Front2(D, p) : NoWorse(s, r, p)
<1> DEFINE a == p[1]
           b == p[2]
           C == {s \in D : NoWorse(s, r, p)}
           Sum(s) == s.cost[a] + s.cost[b]
           V == {Sum(s) : s \in C}
<1>1. a \in {"latency", "footprint", "energy"} /\ b \in {"latency", "footprint", "energy"}
  BY DEF Pairs
<1>2. \A s \in D : s.cost[a] \in Nat /\ s.cost[b] \in Nat
  BY <1>1 DEF Costed, Costs
<1>3. \A s, t : NoWorse(s, t, p) <=> s.cost[a] <= t.cost[a] /\ s.cost[b] <= t.cost[b]
  BY DEF NoWorse
<1> HIDE DEF a, b
<1>4. r \in C
  BY <1>2, <1>3
<1>5. V # {} /\ V \in SUBSET Nat
  BY <1>2, <1>4
<1>6. PICK v \in V : \A w \in V : v <= w
  BY <1>5, LeastNumber
<1> DEFINE E == {s \in C : Sum(s) = v}
           k == [s \in E |-> WeightedKey(s)]
<1>7. E # {}
  BY <1>6
<1>8. k \in [E -> [1 .. 5 -> Nat]] /\ \A s \in E : k[s] = WeightedKey(s)
  BY KeysOfCosts
<1> HIDE DEF k
<1>9. PICK s \in E : \A t \in E : ~Precedes(k[t], k[s])
  <2> HIDE DEF E
  <2> QED
    BY <1>7, <1>8, LeastKey
<1>10. s \in D /\ NoWorse(s, r, p) /\ Sum(s) = v
  OBVIOUS
<1>11. ASSUME NEW t \in D
       PROVE  /\ ~Dominates2(t, s, p)
              /\ NoWorse(s, t, p) /\ NoWorse(t, s, p) => ~Precedes(WeightedKey(t), WeightedKey(s))
  <2>1. ASSUME NoWorse(t, s, p) PROVE t \in C /\ v <= Sum(t)
    <3>1. NoWorse(t, r, p)
      BY <1>2, <1>3, <1>10, <2>1
    <3> QED
      BY <1>6, <3>1
  <2>2. ASSUME Dominates2(t, s, p) PROVE FALSE
    <3>1. NoWorse(t, s, p) /\ ~NoWorse(s, t, p)
      BY <2>2 DEF Dominates2
    <3>2. v <= Sum(t)
      BY <2>1, <3>1
    <3> QED
      BY <1>2, <1>3, <1>10, <3>1, <3>2
  <2>3. ASSUME NoWorse(s, t, p), NoWorse(t, s, p) PROVE ~Precedes(WeightedKey(t), WeightedKey(s))
    <3>1. t \in C
      BY <2>1, <2>3
    <3>2. Sum(t) = v
      BY <1>2, <1>3, <1>10, <2>3
    <3>3. t \in E
      BY <3>1, <3>2
    <3> HIDE DEF E
    <3> QED
      BY <1>8, <1>9, <3>3
  <2> QED
    BY <2>2, <2>3
<1> HIDE DEF E, C, Sum
<1>12. s \in Front2(D, p)
  BY <1>10, <1>11 DEF Front2
<1> QED
  BY <1>10, <1>12

\* The keys of a front.
Weights(table, places) == [i \in places |-> WeightedKey(table[i])]

\* The front of rows at some places, where rows of a state cost the same.
LEMMA FrontAnswers ==
  ASSUME NEW table, NEW places \in SUBSET Nat, NEW p \in Pairs,
         \A i \in places : Costed(table[i]),
         \A i, j \in places : table[i].state = table[j].state => table[i].cost = table[j].cost
  PROVE  LET front == Front2(Kept(table, places, Weights(table, places)), p)
             legal == {table[i] : i \in places}
         IN  /\ front \subseteq legal
             /\ \A r \in legal : \E s \in front : NoWorse(s, r, p)
             /\ \A s \in front, r \in legal : ~Dominates2(r, s, p)
<1> DEFINE D == Kept(table, places, Weights(table, places))
           front == Front2(D, p)
           legal == {table[i] : i \in places}
<1>1. D \subseteq legal
  BY DEF Kept
<1>2. front \subseteq D
  BY DEF Front2
<1>3. \A row \in legal : Costed(row)
  OBVIOUS
<1>4. ASSUME NEW r \in legal PROVE \E q \in D : q.cost = r.cost
  <2>1. PICK i \in places : r = table[i]
    OBVIOUS
  <2> HIDE DEF D
  <2>2. PICK q \in D : q.state = table[i].state
    <3>1. Weights(table, places) \in [places -> [1 .. 5 -> Nat]]
      BY KeysOfCosts DEF Weights
    <3> QED
      BY <3>1, StateKept DEF D
  <2>3. PICK j \in places : q = table[j]
    BY <1>1, <2>2
  <2> QED
    BY <2>1, <2>2, <2>3
<1> HIDE DEF D
<1>5. ASSUME NEW r \in legal PROVE \E s \in front : NoWorse(s, r, p)
  <2>1. PICK q \in D : q.cost = r.cost
    BY <1>4
  <2>2. \A row \in D : Costed(row)
    BY <1>1, <1>3
  <2>3. PICK s \in front : NoWorse(s, q, p)
    BY <2>2, FrontCovers
  <2> QED
    BY <2>1, <2>3 DEF NoWorse
<1>6. ASSUME NEW s \in front, NEW r \in legal PROVE ~Dominates2(r, s, p)
  <2>1. PICK q \in D : q.cost = r.cost
    BY <1>4
  <2>2. ~Dominates2(q, s, p)
    BY <2>1 DEF Front2
  <2>3. Dominates2(q, s, p) <=> Dominates2(r, s, p)
    BY <2>1 DEF Dominates2, NoWorse
  <2> QED
    BY <2>2, <2>3
<1> HIDE DEF legal, front
<1>7. /\ front \subseteq legal
      /\ \A r \in legal : \E s \in front : NoWorse(s, r, p)
      /\ \A s \in front, r \in legal : ~Dominates2(r, s, p)
  BY <1>1, <1>2, <1>5, <1>6
<1> QED
  BY <1>7 DEF front, legal, D

-----------------------------------------------------------------------------
(* The table of a report.                                                  *)

\* The commands that evaluate reports row by row.
Kinds == {"pareto", "merge", "geometry"}

PlanOf(r) == IF r.kind = "geometry" THEN GeometryOccurrences(r) ELSE ParetoOccurrences(r)

\* The files of a command: those of a group are on one architecture.
SoundPlan(r) ==
  LET occurrences == PlanOf(r)
  IN  /\ Listing(occurrences)
      /\ \A o \in ToSet(occurrences) : Measured(o.file, o.arch) /\ "arch" \in DOMAIN o
      /\ \A o, p \in ToSet(occurrences) : o.group = p.group => o.arch = p.arch
      /\ r.kind # "geometry" =>
           \A o \in ToSet(occurrences) : o.group = 0 /\ o.arch = << r.file, r.target >>

\* A row of a report: of no file; without a hash, of a file that could not be
\* evaluated unless it is cut; or the outcome of a workload on an architecture the
\* report was evaluated for.
Columns(row) ==
  [group |-> row.group, step |-> row.step, attempt |-> row.attempt, path |-> row.path,
   status |-> row.status, cost |-> row.cost, state |-> row.state, detail |-> row.detail]

GoodRow(row, archs) ==
  /\ row = Columns(row) /\ row.group = 0 /\ row.detail \in {"whole", "cut"} /\ archs # {}
  /\ \/ row.state.id = -1
     \/ row.state = Unreadable /\ (row.detail = "whole" => row.status = "error" /\ row.cost = NoCost)
     \/ /\ row.state # Unreadable
        /\ \E a \in archs : /\ Outcome(row.state, a).status # "error"
                            /\ row.status = Outcome(row.state, a).status
                            /\ row.cost = Outcome(row.state, a).cost

GoodTable(table, archs) == Listing(table) /\ \A row \in ToSet(table) : GoodRow(row, archs)

\* What the rows of a file may have been evaluated for.
ArchsFor(r, archs, o) == IF r.kind = "geometry" THEN {o.arch} ELSE archs

FreshTable(r, archs, table) ==
  /\ Listing(table)
  /\ Len(table) = Len(PlanOf(r))
  /\ \A o \in ToSet(PlanOf(r)) : \E row \in ToSet(table) : FreshRow(row, o, ArchsFor(r, archs, o))
  /\ \A row \in ToSet(table) : \E o \in ToSet(PlanOf(r)) : FreshRow(row, o, ArchsFor(r, archs, o))

\* Every cut has cost one workload what follows its hash.
Few(table, cuts) == IsFiniteSet(Incomplete(table)) /\ Cardinality(Incomplete(table)) <= cuts

\* What a command owes a directory whose rows were evaluated for archs.
Owed(r, archs, cuts, table) ==
  /\ r.kind # "geometry" => GoodTable(table, archs)
  /\ FreshTable(r, archs, table)
  /\ Few(table, cuts)

Coming ==
  /\ Listing(script)
  /\ \A r \in ToSet(script) :
       /\ r.kind \in {"pareto", "merge"} /\ ~ParetoRefused(r) => SoundPlan(r)
       /\ r.kind = "geometry" /\ ~GeometryRefused(r) => SoundPlan(r)

\* The rows of every report are of files, or cut short.
ReportsGood ==
  \A d \in DOMAIN outputs :
    /\ "archs" \in DOMAIN outputs[d] /\ "cuts" \in DOMAIN outputs[d] /\ outputs[d].cuts \in Nat
    /\ outputs[d].kind = "pareto" /\ "evaluations" \in NamesIn(d) =>
         /\ GoodTable(outputs[d].files["evaluations"].content, outputs[d].archs)
         /\ Few(outputs[d].files["evaluations"].content, outputs[d].cuts)

\* What is evaluated is what the report does not hold, and every result is that
\* of its task.
Evaluating ==
  pc \in {"prepare", "evaluate"} /\ request.kind \in Kinds =>
    LET plan == TasksOf(PlanOf(request))
    IN  /\ SoundPlan(request)
        /\ Listing(tasks) /\ ToSet(tasks) \subseteq ToSet(PlanOf(request))
        /\ \A j \in DOMAIN rows : j \in DOMAIN tasks /\ rows[j] = Evaluated(tasks[j])
        /\ request.kind = "geometry" => tasks = plan
        /\ request.kind # "geometry" =>
             /\ GoodTable(existing, outputs[at].archs)
             /\ Few(existing, outputs[at].cuts)
             /\ \A t \in ToSet(tasks) : t.arch \in outputs[at].archs
             /\ \A t \in ToSet(plan) : RowFor(existing, t) = 0 => t \in ToSet(tasks)

\* The fronts of a report are those of such a table.
FrontsOf(r, table) == IF r.kind = "geometry" THEN GeometryFronts(table) ELSE StepFronts(table)

Due(r, archs, cuts, name, content) ==
  /\ name = "evaluations" => Owed(r, archs, cuts, content)
  /\ name = "front" => \E table : Owed(r, archs, cuts, table) /\ content = FrontsOf(r, table)

\* Table and fronts are to be written, or there, and as they should be.
Delivering ==
  pc \in {"write", "done"} /\ request.kind \in Kinds =>
    /\ SoundPlan(request)
    /\ \A i \in DOMAIN todo :
         Due(request, outputs[at].archs, outputs[at].cuts, todo[i].name, todo[i].content)
    /\ \A n \in {"evaluations", "front"} :
         \/ n \in Pending
         \/ /\ n \in NamesIn(at)
            /\ Due(request, outputs[at].archs, outputs[at].cuts, n, outputs[at].files[n].content)

Ending == pc = "done" => todo = << >>

FreshInv == Coming /\ ReportsGood /\ Evaluating /\ Delivering /\ Ending

-----------------------------------------------------------------------------
(* Files of a command.                                                     *)

\* A list of a set is a list, and of that set.
LEMMA ListsAre ==
  ASSUME NEW S, NEW t \in Seq(S)
  PROVE  Listing(t) /\ ToSet(t) \subseteq S
<1>1. Range(t) = ToSet(t)
  BY DEF Range, ToSet
<1>2. \A i \in DOMAIN t : t[i] \in S
  OBVIOUS
<1> QED
  BY <1>1, <1>2, OfItsRange DEF Listing, ToSet

\* A list of lists, one after the other.
LEMMA FlatListing ==
  ASSUME NEW n \in Nat, NEW lists, DOMAIN lists = 1 .. n, lists = [i \in 1 .. n |-> lists[i]],
         \A i \in 1 .. n : Listing(lists[i])
  PROVE  /\ Listing(FlattenSeq(lists))
         /\ ToSet(FlattenSeq(lists)) = UNION {ToSet(lists[i]) : i \in 1 .. n}
<1> DEFINE S == UNION {ToSet(lists[i]) : i \in 1 .. n}
<1>1. ASSUME NEW i \in 1 .. n PROVE lists[i] \in Seq(S)
  <2>1. lists[i] \in Seq(ToSet(lists[i])) /\ ToSet(lists[i]) \subseteq S
    BY DEF Listing
  <2> HIDE DEF S
  <2> QED
    BY <2>1
<1> HIDE DEF S
<1>2. lists \in [1 .. n -> Seq(S)]
  BY <1>1
<1>3. lists \in Seq(Seq(S))
  BY <1>2, SeqDef
<1>4. FlattenSeq(lists) \in Seq(S) /\ ToSet(FlattenSeq(lists)) = UNION {ToSet(lists[j]) : j \in DOMAIN lists}
  BY <1>3, FlatSet
<1> QED
  BY <1>4, ListsAre

\* The files of a list of steps, each at its place.
FiledIn(group, arch, steps) ==
  UNION {{Occurrence(group, arch, steps[s], i) : i \in DOMAIN steps[s].files} : s \in DOMAIN steps}

\* Every file of every step is there once for its place.
LEMMA OccurrencesAre ==
  ASSUME NEW g, NEW a, NEW steps, Listing(steps), \A s \in ToSet(steps) : Listing(s.files)
  PROVE  /\ Listing(OccurrencesOf(g, a, steps))
         /\ ToSet(OccurrencesOf(g, a, steps)) = FiledIn(g, a, steps)
<1> DEFINE n == Len(steps)
           at1(s) == {Occurrence(g, a, steps[s], i) : i \in DOMAIN steps[s].files}
           files(s) == [i \in DOMAIN steps[s].files |-> Occurrence(g, a, steps[s], i)]
           lists == [s \in DOMAIN steps |-> files(s)]
<1>1. n \in Nat /\ DOMAIN steps = 1 .. n /\ \A s \in 1 .. n : steps[s] \in ToSet(steps)
  BY DEF Listing, ToSet
<1>2. ASSUME NEW s \in 1 .. n PROVE Listing(files(s)) /\ ToSet(files(s)) = at1(s)
  <2> DEFINE l == steps[s].files
  <2>1. Len(l) \in Nat /\ DOMAIN l = 1 .. Len(l)
    BY <1>1 DEF Listing
  <2>2. files(s) \in [1 .. Len(l) -> at1(s)]
    BY <2>1
  <2>3. files(s) \in Seq(at1(s))
    BY <2>1, <2>2, SeqDef
  <2>4. ToSet(files(s)) = at1(s)
    BY DEF ToSet
  <2> HIDE DEF l, files, at1
  <2> QED
    BY <2>3, <2>4, ListsAre
<1> HIDE DEF n
<1>3. DOMAIN lists = 1 .. n /\ lists = [s \in 1 .. n |-> lists[s]] /\ \A s \in 1 .. n : lists[s] = files(s)
  BY <1>1
<1>4. OccurrencesOf(g, a, steps) = FlattenSeq(lists)
  BY DEF OccurrencesOf
<1>5. FiledIn(g, a, steps) = UNION {at1(s) : s \in 1 .. n}
  BY <1>1 DEF FiledIn
<1> HIDE DEF lists, files, at1
<1>6. /\ Listing(FlattenSeq(lists))
      /\ ToSet(FlattenSeq(lists)) = UNION {ToSet(lists[i]) : i \in 1 .. n}
  <2>1. \A i \in 1 .. n : Listing(lists[i])
    BY <1>2, <1>3
  <2> QED
    BY <1>1, <1>3, <2>1, FlatListing
<1>7. UNION {ToSet(lists[i]) : i \in 1 .. n} = UNION {at1(s) : s \in 1 .. n}
  BY <1>2, <1>3
<1> QED
  BY <1>4, <1>5, <1>6, <1>7

\* The files of a group, on its architecture.
LEMMA OccurrencesSound ==
  ASSUME NEW g, NEW a, NEW steps, Discovered(steps, a)
  PROVE  /\ Listing(OccurrencesOf(g, a, steps))
         /\ \A o \in ToSet(OccurrencesOf(g, a, steps)) :
              o.group = g /\ o.arch = a /\ Measured(o.file, o.arch) /\ "arch" \in DOMAIN o
<1> DEFINE occ == OccurrencesOf(g, a, steps)
<1>1. Listing(steps) /\ \A s \in ToSet(steps) :
        Listing(s.files) /\ \A f \in ToSet(s.files) : Measured(f, a)
  BY DEF Discovered
<1>2. Listing(occ) /\ ToSet(occ) = FiledIn(g, a, steps)
  BY <1>1, OccurrencesAre
<1> HIDE DEF occ
<1>3. ASSUME NEW o \in ToSet(occ)
      PROVE  o.group = g /\ o.arch = a /\ Measured(o.file, o.arch) /\ "arch" \in DOMAIN o
  <2>1. PICK s \in DOMAIN steps : \E i \in DOMAIN steps[s].files : o = Occurrence(g, a, steps[s], i)
    BY <1>2 DEF FiledIn
  <2>2. PICK i \in DOMAIN steps[s].files : o = Occurrence(g, a, steps[s], i)
    BY <2>1
  <2>3. steps[s] \in ToSet(steps) /\ steps[s].files[i] \in ToSet(steps[s].files)
    BY DEF ToSet
  <2>4. o.group = g /\ o.arch = a /\ o.file = steps[s].files[i] /\ "arch" \in DOMAIN o
    BY <2>2 DEF Occurrence
  <2> QED
    BY <1>1, <2>3, <2>4
<1> QED
  BY <1>2, <1>3 DEF occ

\* The plan of a Pareto evaluation.
LEMMA ParetoSound ==
  ASSUME NEW r, r.kind # "geometry", Discovered(StepInputs(r.inputs), << r.file, r.target >>)
  PROVE  SoundPlan(r)
<1>1. PlanOf(r) = OccurrencesOf(0, << r.file, r.target >>, StepInputs(r.inputs))
  BY DEF PlanOf, ParetoOccurrences
<1> QED
  BY <1>1, OccurrencesSound DEF SoundPlan

\* The plan of a geometry sweep: an architecture for every geometry.
LEMMA GeometrySound ==
  ASSUME NEW r, r.kind = "geometry", Listing(GeometryOrder(r)),
         \A g \in ToSet(GeometryOrder(r)) : Discovered(StepInputs(InputsOf(r, g)), GeometryArch(r, g))
  PROVE  SoundPlan(r)
<1> DEFINE order == GeometryOrder(r)
           n == Len(order)
           files(g) == OccurrencesOf(g, GeometryArch(r, g), StepInputs(InputsOf(r, g)))
           lists == [i \in DOMAIN order |-> files(order[i])]
<1>1. n \in Nat /\ DOMAIN order = 1 .. n /\ \A i \in 1 .. n : order[i] \in ToSet(order)
  BY DEF Listing, ToSet
<1>2. PlanOf(r) = FlattenSeq(lists)
  BY DEF PlanOf, GeometryOccurrences
<1>3. DOMAIN lists = 1 .. n /\ lists = [i \in 1 .. n |-> lists[i]]
      /\ \A i \in 1 .. n : lists[i] = files(order[i])
  BY <1>1
<1>4. ASSUME NEW i \in 1 .. n
      PROVE  /\ Listing(lists[i])
             /\ \A o \in ToSet(lists[i]) : /\ o.arch = GeometryArch(r, o.group) /\ "arch" \in DOMAIN o
                                          /\ Measured(o.file, o.arch)
  <2>1. Discovered(StepInputs(InputsOf(r, order[i])), GeometryArch(r, order[i])) /\ lists[i] = files(order[i])
    BY <1>1, <1>3
  <2> HIDE DEF order, lists
  <2> QED
    BY <2>1, OccurrencesSound
<1> HIDE DEF lists, n
<1>5. /\ Listing(FlattenSeq(lists))
      /\ ToSet(FlattenSeq(lists)) = UNION {ToSet(lists[i]) : i \in 1 .. n}
  BY <1>1, <1>3, <1>4, FlatListing
<1>6. \A o \in ToSet(PlanOf(r)) : /\ o.arch = GeometryArch(r, o.group) /\ "arch" \in DOMAIN o
                                  /\ Measured(o.file, o.arch)
  BY <1>2, <1>4, <1>5
<1> QED
  BY <1>2, <1>5, <1>6 DEF SoundPlan

-----------------------------------------------------------------------------
(* Rows.                                                                   *)

\* The result of a file on an architecture.
LEMMA EvaluatedOn ==
  ASSUME NEW o, "arch" \in DOMAIN o, NEW a
  PROVE  LET st == o.file.state
             result == Outcome(st, a)
         IN  Evaluated([o EXCEPT !.arch = a])
               = IF st = Unreadable \/ result.status = "error" THEN Row(o, "error", Unreadable, NoCost)
                 ELSE Row(o, result.status, st, result.cost)
<1> DEFINE p == [o EXCEPT !.arch = a]
<1>1. p.arch = a
  OBVIOUS
<1>2. /\ p.group = o.group /\ p.step = o.step /\ p.file = o.file /\ p.attempt = o.attempt
  OBVIOUS
<1> HIDE DEF p
<1>3. \A status, state, cost : Row(p, status, state, cost) = Row(o, status, state, cost)
  BY <1>2 DEF Row
<1>4. Evaluated(p) = IF o.file.state = Unreadable \/ Outcome(o.file.state, a).status = "error"
                     THEN Row(p, "error", Unreadable, NoCost)
                     ELSE Row(p, Outcome(o.file.state, a).status, o.file.state, Outcome(o.file.state, a).cost)
  BY <1>1, <1>2 DEF Evaluated, Judged
<1> QED
  BY <1>3, <1>4 DEF p

\* On its own architecture, a file is evaluated as it is.
LEMMA EvaluatedThere ==
  ASSUME NEW o, "arch" \in DOMAIN o
  PROVE  Evaluated([o EXCEPT !.arch = o.arch]) = Evaluated(o)
<1>1. Evaluated(o) = IF o.file.state = Unreadable \/ Outcome(o.file.state, o.arch).status = "error"
                     THEN Row(o, "error", Unreadable, NoCost)
                     ELSE Row(o, Outcome(o.file.state, o.arch).status, o.file.state,
                              Outcome(o.file.state, o.arch).cost)
  BY DEF Evaluated, Judged
<1> QED
  BY <1>1, EvaluatedOn

\* A row is made of its columns.
LEMMA RowColumns ==
  ASSUME NEW o, NEW status, NEW state, NEW cost
  PROVE  LET row == Row(o, status, state, cost)
         IN  /\ row = Columns(row)
             /\ row.group = o.group /\ row.step = o.step /\ row.attempt = o.attempt
             /\ row.path = o.file.path /\ row.status = status /\ row.state = state
             /\ row.cost = cost /\ row.detail = "whole"
BY DEF Row, Columns

\* A result is a row of the report.
LEMMA EvaluatedGood ==
  ASSUME NEW o, o.group = 0, NEW archs, o.arch \in archs
  PROVE  GoodRow(Evaluated(o), archs)
<1> DEFINE st == o.file.state
           result == Outcome(st, o.arch)
<1>1. CASE st = Unreadable \/ result.status = "error"
  <2> DEFINE row == Row(o, "error", Unreadable, NoCost)
  <2>1. Evaluated(o) = row
    BY <1>1 DEF Evaluated, Judged
  <2>2. /\ row = Columns(row) /\ row.group = o.group /\ row.detail = "whole"
        /\ row.state = Unreadable /\ row.status = "error" /\ row.cost = NoCost
    BY RowColumns
  <2> HIDE DEF row
  <2>3. GoodRow(row, archs)
    BY <2>2 DEF GoodRow
  <2> QED
    BY <2>1, <2>3
<1>2. CASE ~(st = Unreadable \/ result.status = "error")
  <2> DEFINE row == Row(o, result.status, st, result.cost)
  <2>1. Evaluated(o) = row
    BY <1>2 DEF Evaluated, Judged
  <2>2. /\ row = Columns(row) /\ row.group = o.group /\ row.detail = "whole"
        /\ row.state = st /\ row.status = result.status /\ row.cost = result.cost
    BY RowColumns
  <2> HIDE DEF row
  <2>3. row.state # Unreadable /\ Outcome(row.state, o.arch).status # "error"
        /\ row.status = Outcome(row.state, o.arch).status /\ row.cost = Outcome(row.state, o.arch).cost
    BY <1>2, <2>2
  <2>4. GoodRow(row, archs)
    BY <2>2, <2>3 DEF GoodRow
  <2> QED
    BY <2>1, <2>4
<1> QED
  BY <1>1, <1>2

\* It lacks nothing.
LEMMA EvaluatedWhole ==
  ASSUME NEW o
  PROVE  Evaluated(o).detail = "whole"
BY DEF Evaluated, Judged, Row

\* A row, field by field, at another place.
LEMMA RowElsewhere ==
  ASSUME NEW row, NEW o, row = Columns(row)
  PROVE  LET moved == RowAt(row, o)
         IN  /\ moved = Columns(moved)
             /\ moved.group = row.group /\ moved.step = o.step /\ moved.attempt = o.attempt
             /\ moved.path = o.file.path /\ moved.status = row.status /\ moved.state = row.state
             /\ moved.cost = row.cost /\ moved.detail = row.detail
<1> DEFINE R(s1, a1, p1) ==
      [group |-> row.group, step |-> s1, attempt |-> a1, path |-> p1,
       status |-> row.status, cost |-> row.cost, state |-> row.state, detail |-> row.detail]
           s == row.step
           a == row.attempt
           p == row.path
<1>1. [R(s, a, p) EXCEPT !.step = o.step] = R(o.step, a, p)
  OBVIOUS
<1>2. [R(o.step, a, p) EXCEPT !.attempt = o.attempt] = R(o.step, o.attempt, p)
  OBVIOUS
<1>3. [R(o.step, o.attempt, p) EXCEPT !.path = o.file.path] = R(o.step, o.attempt, o.file.path)
  OBVIOUS
<1>4. RowAt(R(s, a, p), o)
        = [[[R(s, a, p) EXCEPT !.step = o.step] EXCEPT !.attempt = o.attempt] EXCEPT !.path = o.file.path]
  <2> HIDE DEF R
  <2> QED
    BY DEF RowAt
<1>5. row = R(s, a, p)
  BY DEF Columns
<1> DEFINE new == R(o.step, o.attempt, o.file.path)
<1>6. /\ new = Columns(new)
      /\ new.group = row.group /\ new.step = o.step /\ new.attempt = o.attempt
      /\ new.path = o.file.path /\ new.status = row.status /\ new.state = row.state
      /\ new.cost = row.cost /\ new.detail = row.detail
  BY DEF Columns
<1>7. RowAt(row, o) = new
  <2> HIDE DEF R
  <2>1. RowAt(R(s, a, p), o) = R(o.step, o.attempt, o.file.path)
    BY <1>1, <1>2, <1>3, <1>4
  <2> QED
    BY <1>5, <2>1
<1> HIDE DEF new
<1> QED
  BY <1>6, <1>7

\* Rows of the same columns are the same.
LEMMA SameColumns ==
  ASSUME NEW q, NEW r, q = Columns(q), r = Columns(r),
         q.group = r.group, q.step = r.step, q.attempt = r.attempt, q.path = r.path,
         q.status = r.status, q.state = r.state, q.cost = r.cost, q.detail = r.detail
  PROVE  q = r
BY DEF Columns

\* A row of the report is one at any place.
LEMMA RowAtGood ==
  ASSUME NEW row, NEW o, NEW archs, GoodRow(row, archs)
  PROVE  GoodRow(RowAt(row, o), archs)
<1> DEFINE at1 == RowAt(row, o)
<1>1. row = Columns(row) /\ row.group = 0
  BY DEF GoodRow
<1>2. /\ at1 = Columns(at1) /\ at1.group = 0
      /\ at1.status = row.status /\ at1.state = row.state /\ at1.cost = row.cost /\ at1.detail = row.detail
  BY <1>1, RowElsewhere
<1> HIDE DEF at1
<1>3. GoodRow(at1, archs)
  BY <1>2 DEF GoodRow
<1> QED
  BY <1>3 DEF at1

\* A row with another entry for what follows its hash.
LEMMA DetailSet ==
  ASSUME NEW r, r = Columns(r), NEW x, NEW q, q = [r EXCEPT !.detail = x]
  PROVE  /\ q = Columns(q) /\ q.detail = x
         /\ q.group = r.group /\ q.step = r.step /\ q.attempt = r.attempt /\ q.path = r.path
         /\ q.status = r.status /\ q.cost = r.cost /\ q.state = r.state
<1> DEFINE R(status, cost, state, detail) ==
      [group |-> r.group, step |-> r.step, attempt |-> r.attempt, path |-> r.path,
       status |-> status, cost |-> cost, state |-> state, detail |-> detail]
           new == R(r.status, r.cost, r.state, x)
<1>1. r = R(r.status, r.cost, r.state, r.detail)
  BY DEF Columns
<1>2. [R(r.status, r.cost, r.state, r.detail) EXCEPT !.detail = x] = new
  OBVIOUS
<1>3. /\ new = Columns(new) /\ new.detail = x
      /\ new.group = r.group /\ new.step = r.step /\ new.attempt = r.attempt /\ new.path = r.path
      /\ new.status = r.status /\ new.cost = r.cost /\ new.state = r.state
  BY DEF Columns
<1> HIDE DEF R
<1>4. q = new
  BY <1>1, <1>2
<1> HIDE DEF new
<1> QED
  BY <1>3, <1>4

\* A row with another entry for its hash.
LEMMA StateSet ==
  ASSUME NEW r, r = Columns(r), NEW x, NEW q, q = [r EXCEPT !.state = x]
  PROVE  /\ q = Columns(q) /\ q.state = x
         /\ q.group = r.group /\ q.step = r.step /\ q.attempt = r.attempt /\ q.path = r.path
         /\ q.status = r.status /\ q.cost = r.cost /\ q.detail = r.detail
<1> DEFINE R(status, cost, state, detail) ==
      [group |-> r.group, step |-> r.step, attempt |-> r.attempt, path |-> r.path,
       status |-> status, cost |-> cost, state |-> state, detail |-> detail]
           new == R(r.status, r.cost, x, r.detail)
<1>1. r = R(r.status, r.cost, r.state, r.detail)
  BY DEF Columns
<1>2. [R(r.status, r.cost, r.state, r.detail) EXCEPT !.state = x] = new
  OBVIOUS
<1>3. /\ new = Columns(new) /\ new.state = x
      /\ new.group = r.group /\ new.step = r.step /\ new.attempt = r.attempt /\ new.path = r.path
      /\ new.status = r.status /\ new.cost = r.cost /\ new.detail = r.detail
  BY DEF Columns
<1> HIDE DEF R
<1>4. q = new
  BY <1>1, <1>2
<1> HIDE DEF new
<1> QED
  BY <1>3, <1>4

\* A row with another entry for its costs.
LEMMA CostSet ==
  ASSUME NEW r, r = Columns(r), NEW x, NEW q, q = [r EXCEPT !.cost = x]
  PROVE  /\ q = Columns(q) /\ q.cost = x
         /\ q.group = r.group /\ q.step = r.step /\ q.attempt = r.attempt /\ q.path = r.path
         /\ q.status = r.status /\ q.state = r.state /\ q.detail = r.detail
<1> DEFINE R(status, cost, state, detail) ==
      [group |-> r.group, step |-> r.step, attempt |-> r.attempt, path |-> r.path,
       status |-> status, cost |-> cost, state |-> state, detail |-> detail]
           new == R(r.status, x, r.state, r.detail)
<1>1. r = R(r.status, r.cost, r.state, r.detail)
  BY DEF Columns
<1>2. [R(r.status, r.cost, r.state, r.detail) EXCEPT !.cost = x] = new
  OBVIOUS
<1>3. /\ new = Columns(new) /\ new.cost = x
      /\ new.group = r.group /\ new.step = r.step /\ new.attempt = r.attempt /\ new.path = r.path
      /\ new.status = r.status /\ new.state = r.state /\ new.detail = r.detail
  BY DEF Columns
<1> HIDE DEF R
<1>4. q = new
  BY <1>1, <1>2
<1> HIDE DEF new
<1> QED
  BY <1>3, <1>4

\* A row with another entry for its status.
LEMMA StatusSet ==
  ASSUME NEW r, r = Columns(r), NEW x, NEW q, q = [r EXCEPT !.status = x]
  PROVE  /\ q = Columns(q) /\ q.status = x
         /\ q.group = r.group /\ q.step = r.step /\ q.attempt = r.attempt /\ q.path = r.path
         /\ q.cost = r.cost /\ q.state = r.state /\ q.detail = r.detail
<1> DEFINE R(status, cost, state, detail) ==
      [group |-> r.group, step |-> r.step, attempt |-> r.attempt, path |-> r.path,
       status |-> status, cost |-> cost, state |-> state, detail |-> detail]
           new == R(x, r.cost, r.state, r.detail)
<1>1. r = R(r.status, r.cost, r.state, r.detail)
  BY DEF Columns
<1>2. [R(r.status, r.cost, r.state, r.detail) EXCEPT !.status = x] = new
  OBVIOUS
<1>3. /\ new = Columns(new) /\ new.status = x
      /\ new.group = r.group /\ new.step = r.step /\ new.attempt = r.attempt /\ new.path = r.path
      /\ new.cost = r.cost /\ new.state = r.state /\ new.detail = r.detail
  BY DEF Columns
<1> HIDE DEF R
<1>4. q = new
  BY <1>1, <1>2
<1> HIDE DEF new
<1> QED
  BY <1>3, <1>4

\* What is left of a row is nobody's, or goes by the path or the hash of the row.
LEMMA TornColumns ==
  ASSUME NEW row, row = Columns(row), NEW torn \in TornRow(row)
  PROVE  /\ torn = Columns(torn) /\ torn.group = row.group /\ torn.detail = "cut"
         /\ torn.status = row.status /\ torn.cost = row.cost /\ torn.path = row.path
         /\ torn.state \in {[Unreadable EXCEPT !.id = -1], Unreadable, row.state}
<1> DEFINE gone == [Unreadable EXCEPT !.id = -1]
<1> HIDE DEF gone
<1>1. torn \in {[[row EXCEPT !.state = gone] EXCEPT !.detail = "cut"],
                [[row EXCEPT !.state = Unreadable] EXCEPT !.detail = "cut"],
                [row EXCEPT !.detail = "cut"]}
  BY DEF TornRow, gone
<1>2. ASSUME NEW q, q = Columns(q), q.group = row.group, q.status = row.status, q.cost = row.cost,
             q.path = row.path, q.state \in {gone, Unreadable, row.state},
             torn = [q EXCEPT !.detail = "cut"]
      PROVE  /\ torn = Columns(torn) /\ torn.group = row.group /\ torn.detail = "cut"
             /\ torn.status = row.status /\ torn.cost = row.cost /\ torn.path = row.path
             /\ torn.state \in {gone, Unreadable, row.state}
  <2>1. /\ torn = Columns(torn) /\ torn.detail = "cut"
        /\ torn.group = q.group /\ torn.path = q.path
        /\ torn.status = q.status /\ torn.cost = q.cost /\ torn.state = q.state
    BY <1>2, DetailSet
  <2> QED
    BY <1>2, <2>1
<1>3. ASSUME NEW x, x \in {gone, Unreadable}, torn = [[row EXCEPT !.state = x] EXCEPT !.detail = "cut"]
      PROVE  /\ torn = Columns(torn) /\ torn.group = row.group /\ torn.detail = "cut"
             /\ torn.status = row.status /\ torn.cost = row.cost /\ torn.path = row.path
             /\ torn.state \in {gone, Unreadable, row.state}
  <2> DEFINE q == [row EXCEPT !.state = x]
  <2>2. torn = [q EXCEPT !.detail = "cut"] /\ q = [row EXCEPT !.state = x]
    BY <1>3
  <2> HIDE DEF q
  <2>1. /\ q = Columns(q) /\ q.state = x
        /\ q.group = row.group /\ q.path = row.path
        /\ q.status = row.status /\ q.cost = row.cost
    BY <2>2, StateSet
  <2> QED
    BY <1>2, <1>3, <2>1, <2>2
<1>4. /\ torn = Columns(torn) /\ torn.group = row.group /\ torn.detail = "cut"
      /\ torn.status = row.status /\ torn.cost = row.cost /\ torn.path = row.path
      /\ torn.state \in {gone, Unreadable, row.state}
  <2>1. CASE torn = [[row EXCEPT !.state = gone] EXCEPT !.detail = "cut"]
    BY <1>3, <2>1
  <2>2. CASE torn = [[row EXCEPT !.state = Unreadable] EXCEPT !.detail = "cut"]
    BY <1>3, <2>2
  <2>3. CASE torn = [row EXCEPT !.detail = "cut"]
    BY <1>2, <2>3
  <2> QED
    BY <1>1, <2>1, <2>2, <2>3
<1> QED
  BY <1>4 DEF gone

\* It is a row of the report.
LEMMA TornGood ==
  ASSUME NEW row, NEW archs, GoodRow(row, archs), NEW torn \in TornRow(row)
  PROVE  GoodRow(torn, archs)
<1> DEFINE gone == [Unreadable EXCEPT !.id = -1]
<1>1. gone.id = -1
  BY DEF Unreadable
<1>2. row = Columns(row) /\ row.group = 0 /\ archs # {}
  BY DEF GoodRow
<1>3. /\ torn = Columns(torn) /\ torn.group = 0 /\ torn.detail = "cut"
      /\ torn.status = row.status /\ torn.cost = row.cost
      /\ torn.state \in {gone, Unreadable, row.state}
  BY <1>2, TornColumns
<1> HIDE DEF gone
<1>4. CASE torn.state = gone
  BY <1>1, <1>2, <1>3, <1>4 DEF GoodRow
<1>5. CASE torn.state = Unreadable
  BY <1>2, <1>3, <1>5 DEF GoodRow
<1>6. CASE torn.state = row.state
  BY <1>2, <1>3, <1>6 DEF GoodRow
<1> QED
  BY <1>3, <1>4, <1>5, <1>6

\* A row as it is without what follows its hash.
LEMMA RowWithout ==
  ASSUME NEW fresh, fresh = Columns(fresh), NEW row, row = Columns(row), row.detail = "cut",
         row.group = fresh.group, row.step = fresh.step, row.attempt = fresh.attempt,
         row.path = fresh.path, row.state = fresh.state
  PROVE  /\ row = [fresh EXCEPT !.status = row.status, !.cost = row.cost, !.detail = "cut"]
         /\ row.status = fresh.status /\ row.cost = fresh.cost => row = [fresh EXCEPT !.detail = "cut"]
<1> DEFINE q1 == [fresh EXCEPT !.status = row.status]
           q2 == [q1 EXCEPT !.cost = row.cost]
           q3 == [q2 EXCEPT !.detail = "cut"]
           p == [fresh EXCEPT !.detail = "cut"]
<1>1. [fresh EXCEPT !.status = row.status, !.cost = row.cost, !.detail = "cut"] = q3
  OBVIOUS
<1>2. q1 = [fresh EXCEPT !.status = row.status] /\ p = [fresh EXCEPT !.detail = "cut"]
  OBVIOUS
<1> HIDE DEF q1
<1>3. q2 = [q1 EXCEPT !.cost = row.cost]
  OBVIOUS
<1> HIDE DEF q2
<1>4. q3 = [q2 EXCEPT !.detail = "cut"]
  OBVIOUS
<1> HIDE DEF q3, p
<1>5. /\ q1 = Columns(q1) /\ q1.status = row.status
      /\ q1.group = fresh.group /\ q1.step = fresh.step /\ q1.attempt = fresh.attempt /\ q1.path = fresh.path
      /\ q1.state = fresh.state
  BY <1>2, StatusSet
<1>8. /\ q2 = Columns(q2) /\ q2.cost = row.cost
      /\ q2.group = q1.group /\ q2.step = q1.step /\ q2.attempt = q1.attempt /\ q2.path = q1.path
      /\ q2.status = q1.status /\ q2.state = q1.state
  BY <1>3, <1>5, CostSet
<1>9. /\ q3 = Columns(q3) /\ q3.detail = "cut"
      /\ q3.group = q2.group /\ q3.step = q2.step /\ q3.attempt = q2.attempt /\ q3.path = q2.path
      /\ q3.status = q2.status /\ q3.cost = q2.cost /\ q3.state = q2.state
  BY <1>4, <1>8, DetailSet
<1>10. /\ p = Columns(p) /\ p.detail = "cut"
       /\ p.group = fresh.group /\ p.step = fresh.step /\ p.attempt = fresh.attempt /\ p.path = fresh.path
       /\ p.status = fresh.status /\ p.cost = fresh.cost /\ p.state = fresh.state
  BY <1>2, DetailSet
<1>6. row = q3
  BY <1>5, <1>8, <1>9, SameColumns
<1>7. row.status = fresh.status /\ row.cost = fresh.cost => row = p
  BY <1>10, SameColumns
<1> QED
  BY <1>1, <1>6, <1>7 DEF p

\* A row found for a file is what the file would be evaluated to, on an
\* architecture of the report; or it has been cut.
LEMMA FoundIsFresh ==
  ASSUME NEW row, NEW o, NEW archs, GoodRow(row, archs), "arch" \in DOMAIN o,
         o.group = 0, o.file.state.id # -1, KeyOfRow(row) = Key(o.file)
  PROVE  FreshRow(RowAt(row, o), o, archs)
<1> DEFINE st == o.file.state
           moved == RowAt(row, o)
           F(a) == Evaluated([o EXCEPT !.arch = a])
<1>1. row.state = st
  BY DEF KeyOfRow, Key
<1>2. row = Columns(row) /\ row.group = 0 /\ row.detail \in {"whole", "cut"} /\ archs # {}
  BY DEF GoodRow
<1>3. /\ moved = Columns(moved)
      /\ moved.group = o.group /\ moved.step = o.step /\ moved.attempt = o.attempt
      /\ moved.path = o.file.path /\ moved.status = row.status /\ moved.state = row.state
      /\ moved.cost = row.cost /\ moved.detail = row.detail
  BY <1>2, RowElsewhere
<1>4. ASSUME NEW a \in archs, NEW status, NEW cost, F(a) = Row(o, status, st, cost),
             \/ st = Unreadable /\ moved.detail = "cut"
             \/ moved.status = status /\ moved.cost = cost
      PROVE  FreshRow(moved, o, archs)
  <2> DEFINE fresh == Row(o, status, st, cost)
  <2>1. /\ fresh = Columns(fresh)
        /\ fresh.group = o.group /\ fresh.step = o.step /\ fresh.attempt = o.attempt
        /\ fresh.path = o.file.path /\ fresh.status = status /\ fresh.state = st
        /\ fresh.cost = cost /\ fresh.detail = "whole"
    BY RowColumns
  <2> HIDE DEF fresh, moved, F
  <2>2. CASE moved.detail = "whole"
    <3>1. moved = fresh
      BY <1>1, <1>3, <1>4, <2>1, <2>2, SameColumns
    <3> QED
      BY <1>4, <3>1 DEF FreshRow, F, fresh
  <2>3. CASE moved.detail = "cut"
    <3>1. /\ moved = [fresh EXCEPT !.status = moved.status, !.cost = moved.cost, !.detail = "cut"]
          /\ moved.status = fresh.status /\ moved.cost = fresh.cost => moved = [fresh EXCEPT !.detail = "cut"]
      <4>1. /\ moved.group = fresh.group /\ moved.step = fresh.step /\ moved.attempt = fresh.attempt
            /\ moved.path = fresh.path /\ moved.state = fresh.state
        BY <1>1, <1>3, <2>1
      <4>2. fresh = Columns(fresh) /\ moved = Columns(moved)
        BY <1>3, <2>1
      <4> QED
        BY <2>3, <4>1, <4>2, RowWithout
    <3>2. fresh = Evaluated([o EXCEPT !.arch = a])
      BY <1>4 DEF fresh, F
    <3>3. CASE st = Unreadable
      BY <3>1, <3>2, <3>3 DEF FreshRow
    <3>4. CASE moved.status = status /\ moved.cost = cost
      <4>1. moved = [fresh EXCEPT !.detail = "cut"]
        BY <2>1, <3>1, <3>4
      <4> QED
        BY <3>2, <4>1 DEF FreshRow
    <3> QED
      BY <1>4, <3>3, <3>4
  <2> QED
    BY <1>2, <1>3, <2>2, <2>3
<1>5. CASE st = Unreadable
  <2>1. PICK a \in archs : TRUE
    BY <1>2
  <2>2. F(a) = Row(o, "error", st, NoCost)
    BY <1>5, EvaluatedOn
  <2>3. row.detail = "whole" => row.status = "error" /\ row.cost = NoCost
    BY <1>1, <1>5 DEF GoodRow
  <2>4. moved.detail = "cut" \/ (moved.status = "error" /\ moved.cost = NoCost)
    BY <1>2, <1>3, <2>3
  <2>5. FreshRow(moved, o, archs)
    BY <1>4, <1>5, <2>2, <2>4
  <2> QED
    BY <2>5
<1>6. CASE st # Unreadable
  <2>1. PICK a \in archs : /\ Outcome(st, a).status # "error"
                           /\ row.status = Outcome(st, a).status
                           /\ row.cost = Outcome(st, a).cost
    BY <1>1, <1>6 DEF GoodRow
  <2>2. F(a) = Row(o, row.status, st, row.cost)
    BY <1>6, <2>1, EvaluatedOn
  <2>3. moved.status = row.status /\ moved.cost = row.cost
    BY <1>3
  <2>4. FreshRow(moved, o, archs)
    BY <1>4, <2>2, <2>3
  <2> QED
    BY <2>4
<1> QED
  BY <1>5, <1>6

\* The row of another file.
LEMMA RowMoves ==
  ASSUME NEW t, NEW o, t.group = o.group, NEW status, NEW state, NEW cost
  PROVE  RowAt(Row(t, status, state, cost), o) = Row(o, status, state, cost)
<1> DEFINE row == Row(t, status, state, cost)
           new == Row(o, status, state, cost)
           moved == RowAt(row, o)
<1>1. /\ row = Columns(row)
      /\ row.group = t.group /\ row.status = status /\ row.state = state /\ row.cost = cost
      /\ row.detail = "whole"
  BY RowColumns
<1>2. /\ new = Columns(new)
      /\ new.group = o.group /\ new.step = o.step /\ new.attempt = o.attempt
      /\ new.path = o.file.path /\ new.status = status /\ new.state = state
      /\ new.cost = cost /\ new.detail = "whole"
  BY RowColumns
<1> HIDE DEF row, new
<1>3. /\ moved = Columns(moved)
      /\ moved.group = o.group /\ moved.step = o.step /\ moved.attempt = o.attempt
      /\ moved.path = o.file.path /\ moved.status = status /\ moved.state = state
      /\ moved.cost = cost /\ moved.detail = "whole"
  BY <1>1, RowElsewhere
<1> HIDE DEF moved
<1>4. moved = new
  BY <1>2, <1>3, SameColumns
<1> QED
  BY <1>4 DEF moved, new, row

\* The row of a task is that of every file that holds it.
LEMMA TaskIsEvaluated ==
  ASSUME NEW t, NEW o, SameTask(t, o), t.arch = o.arch
  PROVE  RowAt(Evaluated(t), o) = Evaluated(o)
<1> DEFINE st == o.file.state
           result == Outcome(st, o.arch)
<1>1. t.group = o.group /\ t.file.state = st
  BY DEF SameTask, Key
<1>2. CASE st = Unreadable \/ result.status = "error"
  <2>1. Evaluated(o) = Row(o, "error", Unreadable, NoCost) /\ Evaluated(t) = Row(t, "error", Unreadable, NoCost)
    BY <1>1, <1>2 DEF Evaluated, Judged
  <2> QED
    BY <1>1, <2>1, RowMoves
<1>3. CASE ~(st = Unreadable \/ result.status = "error")
  <2>1. Evaluated(o) = Row(o, result.status, st, result.cost) /\ Evaluated(t) = Row(t, result.status, st, result.cost)
    BY <1>1, <1>3 DEF Evaluated, Judged
  <2> QED
    BY <1>1, <2>1, RowMoves
<1> QED
  BY <1>2, <1>3

\* So it is that of a fresh evaluation.
LEMMA TaskIsFresh ==
  ASSUME NEW t, NEW o, SameTask(t, o), t.arch = o.arch, "arch" \in DOMAIN o, NEW archs, o.arch \in archs
  PROVE  FreshRow(RowAt(Evaluated(t), o), o, archs)
<1>1. RowAt(Evaluated(t), o) = Evaluated([o EXCEPT !.arch = o.arch])
  BY TaskIsEvaluated, EvaluatedThere
<1> QED
  BY <1>1 DEF FreshRow

-----------------------------------------------------------------------------
(* Tables.                                                                 *)

\* Every row of a table is that of a task at one of its files.
LEMMA ExpandedGood ==
  ASSUME NEW occ, Listing(occ), NEW rws, NEW archs,
         \A i \in DOMAIN TasksOf(occ) : GoodRow(rws[i], archs)
  PROVE  GoodTable(ExpandedRows(TasksOf(occ), rws, occ), archs)
<1> DEFINE plan == TasksOf(occ)
           table == ExpandedRows(plan, rws, occ)
           made == {RowAt(rws[i], occ[k]) : i \in DOMAIN plan, k \in DOMAIN occ}
<1>1. occ \in Seq(ToSet(occ))
  BY DEF Listing
<1>2. /\ table \in Seq(made)
      /\ \A r \in ToSet(table) : \E i \in DOMAIN plan, k \in DOMAIN occ :
           SameTask(plan[i], occ[k]) /\ r = RowAt(rws[i], occ[k])
  BY <1>1, ExpandedOnce
<1> HIDE DEF table, made
<1>3. Listing(table)
  BY <1>2, ListsAre
<1>4. \A r \in ToSet(table) : GoodRow(r, archs)
  BY <1>2, RowAtGood
<1> QED
  BY <1>3, <1>4 DEF GoodTable, table

\* With a row for every task that is right at each of its files, the table is as
\* if every file were evaluated.
LEMMA ExpandedFresh ==
  ASSUME NEW r, Listing(PlanOf(r)), NEW rws, NEW archs,
         \A i \in DOMAIN TasksOf(PlanOf(r)), o \in ToSet(PlanOf(r)) :
           SameTask(TasksOf(PlanOf(r))[i], o) => FreshRow(RowAt(rws[i], o), o, ArchsFor(r, archs, o))
  PROVE  FreshTable(r, archs, ExpandedRows(TasksOf(PlanOf(r)), rws, PlanOf(r)))
<1> DEFINE occ == PlanOf(r)
           plan == TasksOf(occ)
           table == ExpandedRows(plan, rws, occ)
           made == {RowAt(rws[i], occ[k]) : i \in DOMAIN plan, k \in DOMAIN occ}
           Fits(row, o) == FreshRow(row, o, ArchsFor(r, archs, o))
<1>1. occ \in Seq(ToSet(occ)) /\ \A k \in DOMAIN occ : occ[k] \in ToSet(occ)
  BY DEF Listing, ToSet
<1>2. /\ table \in Seq(made)
      /\ Len(table) = Len(occ)
      /\ \A row \in ToSet(table) : \E i \in DOMAIN plan, k \in DOMAIN occ :
           SameTask(plan[i], occ[k]) /\ row = RowAt(rws[i], occ[k])
      /\ \A i \in DOMAIN plan, k \in DOMAIN occ :
           SameTask(plan[i], occ[k]) => RowAt(rws[i], occ[k]) \in ToSet(table)
  BY <1>1, ExpandedOnce
<1>3. \A k \in DOMAIN occ : \E i \in DOMAIN plan : SameTask(plan[i], occ[k])
  BY <1>1, TasksCover
<1>4. \A o \in ToSet(occ) : \E k \in DOMAIN occ : o = occ[k]
  BY DEF ToSet
<1>5. \A i \in DOMAIN plan, o \in ToSet(occ) : SameTask(plan[i], o) => Fits(RowAt(rws[i], o), o)
  OBVIOUS
<1> HIDE DEF occ, plan, table, made, Fits
<1>6. \A row \in ToSet(table) : \E o \in ToSet(occ) : Fits(row, o)
  BY <1>1, <1>2, <1>5
<1>7. \A o \in ToSet(occ) : \E row \in ToSet(table) : Fits(row, o)
  BY <1>1, <1>2, <1>3, <1>4, <1>5
<1>8. Listing(table)
  BY <1>2, ListsAre
<1> QED
  BY <1>2, <1>6, <1>7, <1>8 DEF FreshTable, table, plan, occ, Fits

\* A table that lacks no more than another.
LEMMA FewerIncomplete ==
  ASSUME NEW t, NEW u, NEW cuts \in Nat, Few(u, cuts), Incomplete(t) \subseteq Incomplete(u)
  PROVE  Few(t, cuts)
<1>1. IsFiniteSet(Incomplete(u)) /\ Cardinality(Incomplete(u)) <= cuts
  BY DEF Few
<1>2. IsFiniteSet(Incomplete(t)) /\ Cardinality(Incomplete(t)) <= Cardinality(Incomplete(u))
  BY <1>1, FS_Subset
<1>3. Cardinality(Incomplete(t)) \in Nat /\ Cardinality(Incomplete(u)) \in Nat
  BY <1>1, <1>2, FS_CardinalityType
<1> QED
  BY <1>1, <1>2, <1>3 DEF Few

\* A table without cut rows.
LEMMA NoneCut ==
  ASSUME NEW t, NEW cuts \in Nat, \A row \in ToSet(t) : row.detail # "cut"
  PROVE  Few(t, cuts)
<1>1. Incomplete(t) = {}
  BY DEF Incomplete
<1>2. IsFiniteSet({}) /\ Cardinality({}) = 0
  BY FS_EmptySet
<1> QED
  BY <1>1, <1>2 DEF Few

\* A table lacks what the rows lack that were found for it.
LEMMA ExpandedFew ==
  ASSUME NEW occ, Listing(occ), NEW rws, NEW found, NEW cuts \in Nat, Few(found, cuts),
         \A i \in DOMAIN TasksOf(occ) :
           /\ rws[i] = Columns(rws[i])
           /\ rws[i].detail = "cut" =>
                rws[i] \in ToSet(found) /\ KeyOfRow(rws[i]) = Key(TasksOf(occ)[i].file)
  PROVE  Few(ExpandedRows(TasksOf(occ), rws, occ), cuts)
<1> DEFINE plan == TasksOf(occ)
           table == ExpandedRows(plan, rws, occ)
           made == {RowAt(rws[i], occ[k]) : i \in DOMAIN plan, k \in DOMAIN occ}
<1>1. occ \in Seq(ToSet(occ))
  BY DEF Listing
<1>2. /\ table \in Seq(made)
      /\ \A r \in ToSet(table) : \E i \in DOMAIN plan, k \in DOMAIN occ :
           SameTask(plan[i], occ[k]) /\ r = RowAt(rws[i], occ[k])
  BY <1>1, ExpandedOnce
<1>3. \A i \in DOMAIN plan :
        /\ rws[i] = Columns(rws[i])
        /\ rws[i].detail = "cut" => rws[i] \in ToSet(found) /\ KeyOfRow(rws[i]) = Key(plan[i].file)
  OBVIOUS
<1> HIDE DEF plan, table, made
<1>4. ASSUME NEW r \in ToSet(table), r.detail = "cut" PROVE KeyOfRow(r) \in Incomplete(found)
  <2>1. PICK i \in DOMAIN plan, k \in DOMAIN occ : SameTask(plan[i], occ[k]) /\ r = RowAt(rws[i], occ[k])
    BY <1>2
  <2> DEFINE row == rws[i]
             file == occ[k].file
  <2>2. row = Columns(row)
    BY <1>3
  <2>3. r.detail = row.detail /\ r.state = row.state /\ r.path = file.path
    BY <2>1, <2>2, RowElsewhere
  <2>4. row \in ToSet(found) /\ KeyOfRow(row) = Key(plan[i].file) /\ row.detail = "cut"
    BY <1>3, <1>4, <2>3
  <2>5. KeyOfRow(row) = Key(file)
    BY <2>1, <2>4 DEF SameTask
  <2> HIDE DEF row, file
  <2>6. row.state = file.state
    BY <2>5 DEF KeyOfRow, Key
  <2>7. KeyOfRow(r) = Key(file)
    BY <2>3, <2>6 DEF KeyOfRow, Key
  <2> QED
    BY <2>4, <2>5, <2>7 DEF Incomplete
<1>5. Incomplete(table) \subseteq Incomplete(found)
  BY <1>4 DEF Incomplete
<1> QED
  BY <1>5, FewerIncomplete DEF table, plan

\* A row that is found is one for the file.
LEMMA RowFound ==
  ASSUME NEW table, Listing(table), NEW task, RowFor(table, task) # 0
  PROVE  /\ RowFor(table, task) \in DOMAIN table
         /\ KeyOfRow(table[RowFor(table, task)]) = Key(task.file)
<1> DEFINE I == {i \in 1 .. Len(table) : KeyOfRow(table[i]) = Key(task.file)}
           n == RowFor(table, task)
<1>1. Len(table) \in Nat /\ DOMAIN table = 1 .. Len(table)
  BY DEF Listing
<1>2. n = IF I # {} THEN Min(I) ELSE 0
  BY DEF RowFor, SelectInSeq
<1>3. I # {} /\ n = Min(I)
  BY <1>2
<1>4. \E k \in I : \A m \in I : k <= m
  <2>1. I \in SUBSET Nat
    BY <1>1
  <2> HIDE DEF I
  <2> QED
    BY <1>3, <2>1, LeastNumber
<1>5. n \in I
  BY <1>3, <1>4 DEF Min
<1> QED
  BY <1>1, <1>5

\* The task of a file is found.
LEMMA TaskFound ==
  ASSUME NEW list, Listing(list), NEW task, NEW j \in DOMAIN list, SameTask(list[j], task)
  PROVE  LET n == SelectInSeq(list, LAMBDA t : SameTask(t, task))
         IN  n \in DOMAIN list /\ SameTask(list[n], task)
<1> DEFINE I == {i \in 1 .. Len(list) : SameTask(list[i], task)}
           n == SelectInSeq(list, LAMBDA t : SameTask(t, task))
<1>1. Len(list) \in Nat /\ DOMAIN list = 1 .. Len(list)
  BY DEF Listing
<1>2. n = IF I # {} THEN Min(I) ELSE 0
  BY DEF SelectInSeq
<1>3. j \in I
  BY <1>1
<1>4. \E k \in I : \A m \in I : k <= m
  <2>1. I \in SUBSET Nat
    BY <1>1
  <2> HIDE DEF I
  <2> QED
    BY <1>3, <2>1, LeastNumber
<1>5. n \in I
  BY <1>2, <1>3, <1>4 DEF Min
<1> QED
  BY <1>1, <1>5

\* What a report does not hold is evaluated, and nothing but what is planned.
LEMMA MissingHeld ==
  ASSUME NEW plan, Listing(plan), NEW table
  PROVE  /\ Listing(Missing(plan, table))
         /\ ToSet(Missing(plan, table)) \subseteq ToSet(plan)
         /\ \A t \in ToSet(plan) : RowFor(table, t) = 0 => t \in ToSet(Missing(plan, table))
<1> DEFINE P == {i \in DOMAIN plan : RowFor(table, plan[i]) = 0}
<1>1. plan \in Seq(ToSet(plan)) /\ P \in SUBSET DOMAIN plan /\ Missing(plan, table) = Picked(plan, P)
  BY DEF Listing, Missing
<1>2. \A t \in ToSet(plan) : RowFor(table, t) = 0 => \E i \in P : t = plan[i]
  BY DEF ToSet
<1> HIDE DEF P
<1>3. /\ Picked(plan, P) \in Seq(ToSet(plan))
      /\ ToSet(Picked(plan, P)) = {plan[p] : p \in P}
  BY <1>1, PickedList
<1> QED
  BY <1>1, <1>2, <1>3, ListsAre

\* Further architectures change nothing for the rows there are.
LEMMA GoodMore ==
  ASSUME NEW table, NEW archs, NEW more, GoodTable(table, archs)
  PROVE  GoodTable(table, archs \cup more)
BY DEF GoodTable, GoodRow

\* A report that holds nothing.
LEMMA EmptyGood ==
  ASSUME NEW archs, NEW cuts \in Nat
  PROVE  GoodTable(<< >>, archs) /\ Few(<< >>, cuts)
<1>1. << >> \in Seq({})
  OBVIOUS
<1>2. ToSet(<< >>) = {}
  BY DEF ToSet
<1>3. Listing(<< >>)
  BY <1>1, <1>2 DEF Listing
<1> QED
  BY <1>2, <1>3, NoneCut DEF GoodTable

\* A kill leaves rows of the table, and at most a part of one.
LEMMA CutShape ==
  ASSUME NEW table, Listing(table), NEW left \in Cuts(table)
  PROVE  /\ Listing(left)
         /\ \/ ToSet(left) \subseteq ToSet(table)
            \/ \E row \in ToSet(table) : \E torn \in TornRow(row) :
                 ToSet(left) \subseteq ToSet(table) \cup {torn}
<1>1. /\ table \in Seq(ToSet(table)) /\ Len(table) \in Nat /\ DOMAIN table = 1 .. Len(table)
      /\ \A i \in 1 .. Len(table) : table[i] \in ToSet(table)
  BY DEF Listing, ToSet
<1> DEFINE T == ToSet(table)
<1>2. CASE \E n \in 0 .. Len(table) : left = SubSeq(table, 1, n)
  <2>1. PICK n \in 0 .. Len(table) : left = SubSeq(table, 1, n)
    BY <1>2
  <2>2. left \in Seq(T)
    <3> HIDE DEF T
    <3> QED
      BY <1>1, <2>1 DEF T
  <2> QED
    BY <2>2, ListsAre
<1>3. CASE \E n \in DOMAIN table : \E torn \in TornRow(table[n]) :
             left = Append(SubSeq(table, 1, n - 1), torn)
  <2>1. PICK n \in DOMAIN table : \E torn \in TornRow(table[n]) :
             left = Append(SubSeq(table, 1, n - 1), torn)
    BY <1>3
  <2>2. PICK torn \in TornRow(table[n]) : left = Append(SubSeq(table, 1, n - 1), torn)
    BY <2>1
  <2> DEFINE S == T \cup {torn}
             u == SubSeq(table, 1, n - 1)
  <2>3. table \in Seq(S) /\ torn \in S /\ n - 1 \in 0 .. Len(table)
    BY <1>1
  <2> HIDE DEF S
  <2>4. u \in Seq(S)
    BY <1>1, <2>3
  <2> HIDE DEF u
  <2>5. Append(u, torn) \in Seq(S)
    BY <2>3, <2>4
  <2>6. Listing(left) /\ ToSet(left) \subseteq S
    BY <2>2, <2>5, ListsAre DEF u
  <2>7. table[n] \in T
    BY <1>1
  <2> QED
    BY <2>6, <2>7 DEF S
<1> QED
  BY <1>2, <1>3 DEF Cuts

\* What is left of a table is one, and lacks one workload more at most.
LEMMA CutGood ==
  ASSUME NEW table, NEW archs, GoodTable(table, archs), NEW cuts \in Nat, Few(table, cuts),
         NEW left \in Cuts(table)
  PROVE  GoodTable(left, archs) /\ Few(left, cuts + 1)
<1>1. Listing(table) /\ \A row \in ToSet(table) : GoodRow(row, archs)
  BY DEF GoodTable
<1>2. Listing(left)
  BY <1>1, CutShape
<1>3. /\ IsFiniteSet(Incomplete(table)) /\ Cardinality(Incomplete(table)) <= cuts
      /\ Cardinality(Incomplete(table)) \in Nat
  BY FS_CardinalityType DEF Few
<1>4. CASE ToSet(left) \subseteq ToSet(table)
  <2>1. Incomplete(left) \subseteq Incomplete(table)
    BY <1>4 DEF Incomplete
  <2>2. Few(left, cuts)
    BY <2>1, FewerIncomplete
  <2>3. Few(left, cuts + 1)
    <3>1. IsFiniteSet(Incomplete(left)) /\ Cardinality(Incomplete(left)) <= cuts
          /\ Cardinality(Incomplete(left)) \in Nat
      BY <2>2, FS_CardinalityType DEF Few
    <3> QED
      BY <3>1 DEF Few
  <2> QED
    BY <1>1, <1>2, <1>4, <2>3 DEF GoodTable
<1>5. ASSUME NEW row \in ToSet(table), NEW torn \in TornRow(row),
             ToSet(left) \subseteq ToSet(table) \cup {torn}
      PROVE  GoodTable(left, archs) /\ Few(left, cuts + 1)
  <2>1. GoodRow(torn, archs)
    BY <1>1, TornGood
  <2>2. GoodTable(left, archs)
    BY <1>1, <1>2, <1>5, <2>1 DEF GoodTable
  <2> DEFINE A == Incomplete(table)
             B == A \cup {KeyOfRow(torn)}
  <2>3. Incomplete(left) \subseteq B
    BY <1>5 DEF Incomplete
  <2>4. IsFiniteSet(B) /\ Cardinality(B) \in Nat /\ Cardinality(B) <= cuts + 1
    <3> HIDE DEF A
    <3>1. IsFiniteSet(A) /\ Cardinality(A) <= cuts /\ Cardinality(A) \in Nat
      BY <1>3 DEF A
    <3>2. /\ IsFiniteSet(B)
          /\ Cardinality(B) = Cardinality(A) \/ Cardinality(B) = Cardinality(A) + 1
      BY <3>1, FS_AddElement
    <3> QED
      BY <3>1, <3>2
  <2> HIDE DEF B
  <2>5. IsFiniteSet(Incomplete(left)) /\ Cardinality(Incomplete(left)) <= Cardinality(B)
    BY <2>3, <2>4, FS_Subset
  <2>6. Cardinality(Incomplete(left)) \in Nat
    BY <2>5, FS_CardinalityType
  <2> QED
    BY <2>2, <2>4, <2>5, <2>6 DEF Few
<1> QED
  BY <1>1, <1>4, <1>5, CutShape

-----------------------------------------------------------------------------
(* Beginnings.                                                             *)

\* Every script is given with lists of files.
LEMMA FreshInit == Init => FreshInv
<1> SUFFICES ASSUME Init PROVE FreshInv
  OBVIOUS
<1>1. /\ script \in Scripts /\ outputs = << >> /\ DOMAIN outputs = {} /\ pc = "idle"
  BY DEF Init
<1>2. Coming
  <2>1. Listing(script)
    BY <1>1, ScriptsAssumption
  <2>2. ASSUME NEW r \in ToSet(script), r.kind \in {"pareto", "merge"}, ~ParetoRefused(r)
        PROVE  SoundPlan(r)
    <3>1. Discovered(StepInputs(r.inputs), << r.file, r.target >>)
      BY <1>1, <2>2, ScriptsAssumption
    <3> QED
      BY <2>2, <3>1, ParetoSound
  <2>3. ASSUME NEW r \in ToSet(script), r.kind = "geometry", ~GeometryRefused(r)
        PROVE  SoundPlan(r)
    <3>1. /\ Listing(GeometryOrder(r))
          /\ \A g \in ToSet(GeometryOrder(r)) :
               Discovered(StepInputs(InputsOf(r, g)), GeometryArch(r, g))
      BY <1>1, <2>3, ScriptsAssumption
    <3> QED
      BY <2>3, <3>1, GeometrySound
  <2> QED
    BY <2>1, <2>2, <2>3 DEF Coming
<1> QED
  BY <1>1, <1>2 DEF FreshInv, ReportsGood, Evaluating, Delivering, Ending

\* A command is the next of its script.
LEMMA ComingNext ==
  ASSUME Coming, script # << >>
  PROVE  /\ Head(script) \in ToSet(script)
         /\ Listing(Tail(script)) /\ ToSet(Tail(script)) \subseteq ToSet(script)
<1> DEFINE S == ToSet(script)
<1>1. script \in Seq(S) /\ \A i \in DOMAIN script : script[i] \in S
  BY DEF Coming, Listing, ToSet
<1> HIDE DEF S
<1>2. Head(script) \in S /\ Tail(script) \in Seq(S)
  BY <1>1
<1> QED
  BY <1>2, ListsAre DEF S

\* The commands to come are known.
LEMMA ComingKept ==
  ASSUME Coming, script # << >>, script' = Tail(script)
  PROVE  Coming'
BY ComingNext DEF Coming

\* A step that leaves the reports as they are, and ends.
LEMMA EndsFresh ==
  ASSUME FreshInv, Coming', ReportsGood', pc' = "idle"
  PROVE  FreshInv'
BY DEF FreshInv, Evaluating, Delivering, Ending

\* A directory that holds nothing yet.
LEMMA ReportsWithNew ==
  ASSUME Listed, ReportsGood, NEW dir, DOMAIN dir.files = {}, "archs" \in DOMAIN dir,
         "cuts" \in DOMAIN dir, dir.cuts = 0,
         outputs' = Append(outputs, dir)
  PROVE  ReportsGood'
<1> DEFINE m == Len(outputs) + 1
<1>1. /\ DOMAIN outputs' = DOMAIN outputs \cup {m} /\ outputs'[m] = dir
      /\ \A i \in DOMAIN outputs : outputs'[i] = outputs[i]
  BY Appended
<1> HIDE DEF m
<1> QED
  BY <1>1 DEF ReportsGood, NamesIn

\* A command that raises leaves every table as it is.
LEMMA RefusesFresh ==
  ASSUME OrderInv, FreshInv, Refuses, script # << >>, script' = Tail(script)
  PROVE  FreshInv'
<1>1. Coming'
  BY ComingKept DEF FreshInv
<1>2. CASE outputs' = outputs
  BY <1>1, <1>2, EndsFresh DEF Refuses, FreshInv, ReportsGood, NamesIn
<1>3. ASSUME NEW k, outputs' = Append(outputs, NewDir(k)) PROVE FreshInv'
  <2>1. /\ DOMAIN NewDir(k).files = {} /\ "archs" \in DOMAIN NewDir(k)
        /\ "cuts" \in DOMAIN NewDir(k) /\ NewDir(k).cuts = 0
    BY DEF NewDir
  <2>2. ReportsGood'
    BY <1>3, <2>1, ReportsWithNew DEF OrderInv, FreshInv
  <2> QED
    BY <1>1, <2>2, EndsFresh DEF Refuses
<1> QED
  BY <1>2, <1>3 DEF Refuses

\* A command that begins a directory of its own.
LEMMA BeginsAt ==
  ASSUME NEW r, NEW plan, Listed, Begin(r, Fresh(r), Len(outputs) + 1, plan)
  PROVE  /\ outputs' = Append(outputs, [kind |-> r.kind, place |-> Place(r), files |-> << >>,
                                      archs |-> {plan[i].arch : i \in DOMAIN plan}, cuts |-> 0])
         /\ at' = Len(outputs) + 1 /\ request' = r /\ tasks' = plan /\ rows' = << >>
         /\ pc' = "evaluate" /\ script' = Tail(script)
<1> DEFINE m == Len(outputs) + 1
           t == Fresh(r)
           archs == {plan[i].arch : i \in DOMAIN plan}
           d == [kind |-> r.kind, place |-> Place(r), files |-> << >>, archs |-> archs, cuts |-> 0]
<1>1. /\ at' = m /\ request' = r /\ tasks' = plan /\ rows' = << >>
      /\ pc' = "evaluate" /\ script' = Tail(script)
      /\ outputs' = [t EXCEPT ![m].archs = @ \cup archs]
  BY DEF Begin, BeginWith
<1> HIDE DEF archs
<1>2. DOMAIN t = 1 .. m /\ t[m] = NewDir(r) /\ m \in DOMAIN t
  BY Appended DEF Fresh
<1>3. outputs' = [t EXCEPT ![m] = d]
  <2>1. [NewDir(r) EXCEPT !.archs = @ \cup archs] = d
    BY DEF NewDir
  <2>2. outputs' = [t EXCEPT ![m] = [t[m] EXCEPT !.archs = @ \cup archs]]
    BY <1>1
  <2> HIDE DEF d, t
  <2> QED
    BY <1>2, <2>1, <2>2
<1>4. outputs' = Append(outputs, d)
  <2> DEFINE S == Range(outputs) \cup {d, NewDir(r)}
  <2>1. outputs \in Seq(S) /\ d \in S /\ NewDir(r) \in S
    BY DEF Listed
  <2>2. t = Append(outputs, NewDir(r))
    BY DEF Fresh
  <2> HIDE DEF d, S
  <2>3. t \in Seq(S) /\ Len(t) = m /\ \A i \in 1 .. Len(outputs) : t[i] = outputs[i]
    BY <2>1, <2>2
  <2>4. outputs' \in Seq(S) /\ Len(outputs') = m
        /\ \A i \in 1 .. m : outputs'[i] = IF i = m THEN d ELSE t[i]
    BY <1>2, <1>3, <2>1, <2>3
  <2>5. Append(outputs, d) \in Seq(S) /\ Len(Append(outputs, d)) = m
        /\ \A i \in 1 .. m : Append(outputs, d)[i] = IF i = m THEN d ELSE outputs[i]
    BY <2>1
  <2> QED
    BY <2>3, <2>4, <2>5, SeqEqual
<1> QED
  BY <1>1, <1>4 DEF archs

\* A latency sweep begins a directory of its own.
LEMMA OtherBegins ==
  ASSUME OrderInv, FreshInv, script # << >>, NEW r, NEW plan, r.kind \notin Kinds,
         Begin(r, Fresh(r), Len(outputs) + 1, plan)
  PROVE  FreshInv'
<1> DEFINE dir == [kind |-> r.kind, place |-> Place(r), files |-> << >>,
                   archs |-> {plan[i].arch : i \in DOMAIN plan}, cuts |-> 0]
<1>1. outputs' = Append(outputs, dir) /\ request' = r /\ pc' = "evaluate" /\ script' = Tail(script)
  BY BeginsAt DEF OrderInv
<1>2. DOMAIN dir.files = {} /\ "archs" \in DOMAIN dir /\ "cuts" \in DOMAIN dir /\ dir.cuts = 0
  OBVIOUS
<1> HIDE DEF dir
<1>3. ReportsGood'
  BY <1>1, <1>2, ReportsWithNew DEF OrderInv, FreshInv
<1>4. Coming'
  BY <1>1, ComingKept DEF FreshInv
<1> QED
  BY <1>1, <1>3, <1>4 DEF FreshInv, Evaluating, Delivering, Ending

\* A plan of which nothing is done.
LEMMA ReportBegins ==
  ASSUME OrderInv, FreshInv, script # << >>, NEW r, NEW plan, SoundPlan(r), plan = TasksOf(PlanOf(r)),
         r.kind \in {"pareto", "geometry"},
         Begin(r, Fresh(r), Len(outputs) + 1, plan), existing' = << >>
  PROVE  FreshInv'
<1> DEFINE archs == {plan[i].arch : i \in DOMAIN plan}
           dir == [kind |-> r.kind, place |-> Place(r), files |-> << >>, archs |-> archs, cuts |-> 0]
<1>1. /\ outputs' = Append(outputs, dir) /\ request' = r /\ pc' = "evaluate" /\ script' = Tail(script)
      /\ tasks' = plan /\ rows' = << >> /\ at' = Len(outputs) + 1
  BY BeginsAt DEF OrderInv
<1>2. /\ DOMAIN dir.files = {} /\ dir.archs = archs /\ "archs" \in DOMAIN dir
      /\ "cuts" \in DOMAIN dir /\ dir.cuts = 0
  OBVIOUS
<1> HIDE DEF dir
<1>3. ReportsGood'
  BY <1>1, <1>2, ReportsWithNew DEF OrderInv, FreshInv
<1>4. Coming'
  BY <1>1, ComingKept DEF FreshInv
<1>5. outputs'[at'].archs = archs /\ outputs'[at'].cuts = 0
  BY <1>1, <1>2, Appended DEF OrderInv
<1>6. Listing(plan) /\ ToSet(plan) \subseteq ToSet(PlanOf(r))
  <2>1. PlanOf(r) \in Seq(ToSet(PlanOf(r)))
    BY DEF SoundPlan, Listing
  <2> QED
    BY <2>1, TasksCover, ListsAre
<1>7. \A t \in ToSet(plan) : t.arch \in archs
  BY DEF ToSet
<1> HIDE DEF archs
<1>8. GoodTable(<< >>, archs) /\ Few(<< >>, 0)
  BY EmptyGood
<1>9. Evaluating'
  BY <1>1, <1>5, <1>6, <1>7, <1>8 DEF Evaluating
<1> QED
  BY <1>1, <1>3, <1>4, <1>9 DEF FreshInv, Delivering, Ending

\* Beginnings, but that of a merge, plan every file.
LEMMA StartsFresh ==
  ASSUME OrderInv, FreshInv, StartPareto \/ StartGeometry \/ StartBuffer \/ StartActivation \/ StartRandomSet
  PROVE  FreshInv'
<1> DEFINE r == Head(script)
<1>1. script # << >>
  BY DEF StartPareto, StartGeometry, StartBuffer, StartActivation, StartRandomSet, Ready
<1>2. r \in ToSet(script)
  BY <1>1, ComingNext DEF FreshInv
<1>3. Raise(r, outputs) \/ Raise(r, Fresh(r)) => FreshInv'
  <2> SUFFICES ASSUME Raise(r, outputs) \/ Raise(r, Fresh(r)) PROVE FreshInv'
    OBVIOUS
  <2>1. Refuses
    BY RaiseRefuses
  <2>2. script' = Tail(script)
    BY DEF Raise
  <2> QED
    BY <1>1, <2>1, <2>2, RefusesFresh
<1>4. CASE StartPareto
  <2>1. r.kind = "pareto" /\
          \/ Raise(r, outputs)
          \/ /\ ~ParetoRefused(r) /\ existing' = << >>
             /\ Begin(r, Fresh(r), Len(outputs) + 1, TasksOf(ParetoOccurrences(r)))
    BY <1>4 DEF StartPareto, Ready
  <2>2. CASE Raise(r, outputs)
    BY <1>3, <2>2
  <2>3. CASE ~Raise(r, outputs)
    <3>1. SoundPlan(r)
      BY <1>2, <2>1, <2>3 DEF FreshInv, Coming
    <3>2. PlanOf(r) = ParetoOccurrences(r)
      BY <2>1 DEF PlanOf
    <3> QED
      BY <1>1, <2>1, <2>3, <3>1, <3>2, ReportBegins
  <2> QED
    BY <2>2, <2>3
<1>5. CASE StartGeometry
  <2>1. r.kind = "geometry" /\
          \/ Raise(r, outputs)
          \/ /\ ~GeometryRefused(r) /\ existing' = << >>
             /\ Begin(r, Fresh(r), Len(outputs) + 1, TasksOf(GeometryOccurrences(r)))
    BY <1>5 DEF StartGeometry, Ready
  <2>2. CASE Raise(r, outputs)
    BY <1>3, <2>2
  <2>3. CASE ~Raise(r, outputs)
    <3>1. SoundPlan(r)
      BY <1>2, <2>1, <2>3 DEF FreshInv, Coming
    <3>2. PlanOf(r) = GeometryOccurrences(r)
      BY <2>1 DEF PlanOf
    <3> QED
      BY <1>1, <2>1, <2>3, <3>1, <3>2, ReportBegins
  <2> QED
    BY <2>2, <2>3
<1>6. CASE StartBuffer \/ StartActivation \/ StartRandomSet
  <2>1. r.kind \notin Kinds
    BY <1>6 DEF StartBuffer, StartActivation, StartRandomSet, Ready, Kinds
  <2>2. \/ Raise(r, outputs) \/ Raise(r, Fresh(r))
        \/ \E plan : Begin(r, Fresh(r), Len(outputs) + 1, plan)
    <3>1. CASE StartBuffer
      BY <3>1 DEF StartBuffer, Ready
    <3>2. CASE StartActivation
      BY <3>2 DEF StartActivation, Ready
    <3>3. CASE StartRandomSet
      BY <3>3 DEF StartRandomSet, Ready
    <3> QED
      BY <1>6, <3>1, <3>2, <3>3
  <2> QED
    BY <1>1, <1>3, <2>1, <2>2, OtherBegins
<1> QED
  BY <1>4, <1>5, <1>6

\* A merge goes on with the rows that the report holds, and no kill has left
\* a row there that could be taken for another.
LEMMA MergeFresh == OrderInv /\ FreshInv /\ StartMerge => FreshInv'
<1> SUFFICES ASSUME OrderInv, FreshInv, StartMerge PROVE FreshInv'
  OBVIOUS
<1> DEFINE r == Head(script)
           i == SelectInSeq(outputs, LAMBDA d : d.kind = "pareto")
           plan == TasksOf(ParetoOccurrences(r))
           found == ExistingRows(outputs[i])
           missing == Missing(plan, found)
<1>1. script # << >> /\ r.kind = "merge"
  BY DEF StartMerge, Ready
<1>2. CASE Raise(r, outputs)
  <2>1. Refuses /\ script' = Tail(script)
    BY <1>2, RaiseRefuses DEF Raise
  <2> QED
    BY <1>1, <2>1, RefusesFresh
<1>3. CASE ~Raise(r, outputs)
  <2>1. /\ i # 0 /\ ~ParetoRefused(r) /\ existing' = found
        /\ \E first : BeginWith(r, outputs, i, missing, first)
    BY <1>3 DEF StartMerge
  <2>2. i \in DOMAIN outputs /\ outputs[i].kind = "pareto"
    BY <2>1, ReportFound DEF OrderInv
  <2>3. SoundPlan(r) /\ PlanOf(r) = ParetoOccurrences(r)
    BY <1>1, <2>1, ComingNext DEF FreshInv, Coming, PlanOf
  <2>4. /\ Listing(plan) /\ ToSet(plan) \subseteq ToSet(PlanOf(r))
    <3>1. PlanOf(r) \in Seq(ToSet(PlanOf(r)))
      BY <2>3 DEF SoundPlan, Listing
    <3> QED
      BY <2>3, <3>1, TasksCover, ListsAre
  <2> HIDE DEF i, plan
  <2> DEFINE more == {missing[j].arch : j \in DOMAIN missing}
             archs == outputs[i].archs \cup more
             d == [outputs[i] EXCEPT !.archs = @ \cup more]
  <2>5. /\ outputs' = [outputs EXCEPT ![i] = d]
        /\ request' = r /\ at' = i /\ script' = Tail(script) /\ tasks' = missing /\ rows' = << >>
        /\ pc' \in {"evaluate", "prepare"}
    <3>1. PICK first : BeginWith(r, outputs, i, missing, first)
      BY <2>1
    <3> HIDE DEF found, missing
    <3> QED
      BY <3>1 DEF BeginWith
  <2>6. \A t \in ToSet(missing) : t.arch \in more
    BY DEF ToSet
  <2>7. /\ Listing(missing) /\ ToSet(missing) \subseteq ToSet(plan)
        /\ \A t \in ToSet(plan) : RowFor(found, t) = 0 => t \in ToSet(missing)
    BY <2>4, MissingHeld
  <2> HIDE DEF missing, more
  <2>8. GoodTable(found, outputs[i].archs) /\ Few(found, outputs[i].cuts) /\ outputs[i].cuts \in Nat
    BY <2>2, EmptyGood DEF ExistingRows, Has, FreshInv, ReportsGood, NamesIn
  <2> HIDE DEF found
  <2>9. d.kind = outputs[i].kind /\ d.files = outputs[i].files /\ d.cuts = outputs[i].cuts
    BY <2>2
  <2>10. outputs' [i] = d /\ \A j \in DOMAIN outputs : j # i => outputs'[j] = outputs[j]
    <3> HIDE DEF d
    <3> QED
      BY <2>2, <2>5
  <2>11. DOMAIN outputs' = DOMAIN outputs
    <3> HIDE DEF d
    <3> QED
      BY <2>5
  <2>12. d.archs = archs
    BY <2>2 DEF FreshInv, ReportsGood
  <2>13. "archs" \in DOMAIN d /\ "cuts" \in DOMAIN d
    BY <2>2 DEF FreshInv, ReportsGood
  <2> HIDE DEF d, archs
  <2>14. GoodTable(found, archs) /\ Few(found, d.cuts) /\ d.cuts \in Nat
    BY <2>8, <2>9, GoodMore DEF archs
  <2>15. ReportsGood'
    <3> SUFFICES ASSUME NEW j \in DOMAIN outputs
                 PROVE  /\ "archs" \in DOMAIN outputs'[j]
                        /\ "cuts" \in DOMAIN outputs'[j] /\ outputs'[j].cuts \in Nat
                        /\ outputs'[j].kind = "pareto" /\ "evaluations" \in DOMAIN outputs'[j].files =>
                             /\ GoodTable(outputs'[j].files["evaluations"].content, outputs'[j].archs)
                             /\ Few(outputs'[j].files["evaluations"].content, outputs'[j].cuts)
      BY <2>11 DEF ReportsGood, NamesIn
    <3>1. CASE j # i
      BY <2>10, <3>1 DEF FreshInv, ReportsGood, NamesIn
    <3>2. ASSUME j = i, "evaluations" \in DOMAIN outputs'[j].files
          PROVE  /\ GoodTable(outputs'[j].files["evaluations"].content, outputs'[j].archs)
                 /\ Few(outputs'[j].files["evaluations"].content, outputs'[j].cuts)
      <4>1. found = outputs[i].files["evaluations"].content /\ outputs'[j].files = outputs[i].files
        BY <2>9, <2>10, <3>2 DEF found, ExistingRows, Has
      <4> QED
        BY <2>10, <2>12, <2>14, <3>2, <4>1
    <3> QED
      BY <2>10, <2>13, <2>14, <3>1, <3>2
  <2>16. Coming'
    BY <1>1, <2>5, ComingKept DEF FreshInv
  <2>17. /\ outputs'[at'].archs = archs /\ \A t \in ToSet(missing) : t.arch \in archs
         /\ outputs'[at'].cuts = d.cuts
    BY <2>5, <2>6, <2>10, <2>12 DEF archs
  <2>18. Evaluating'
    BY <1>1, <2>1, <2>3, <2>4, <2>5, <2>7, <2>14, <2>17 DEF Evaluating, plan
  <2> QED
    BY <2>5, <2>15, <2>16, <2>18 DEF FreshInv, Delivering, Ending
<1> QED
  BY <1>2, <1>3

-----------------------------------------------------------------------------
(* Evaluation and selection.                                               *)

\* A step of a command of another kind that touches no directory.
LEMMA OtherFresh ==
  ASSUME FreshInv, request.kind \notin Kinds, UNCHANGED << script, outputs, request >>, pc' # "done"
  PROVE  FreshInv'
<1>1. Coming' /\ ReportsGood'
  BY DEF FreshInv, Coming, ReportsGood, NamesIn
<1> QED
  BY <1>1 DEF FreshInv, Evaluating, Delivering, Ending

\* A command that ends.
LEMMA IdleFresh ==
  ASSUME FreshInv, UNCHANGED << script, outputs >>, pc' = "idle"
  PROVE  FreshInv'
<1>1. Coming' /\ ReportsGood'
  BY DEF FreshInv, Coming, ReportsGood, NamesIn
<1> QED
  BY <1>1, EndsFresh

\* A result is that of its task.
LEMMA EvaluateFresh ==
  ASSUME FreshInv, EvaluateParetoTask \/ EvaluateGeometryTask
  PROVE  FreshInv'
<1>1. /\ pc = "evaluate" /\ request.kind \in Kinds
      /\ UNCHANGED << script, request, pc, outputs, at, tasks, existing >>
      /\ \E i \in DOMAIN tasks : rows' = [j \in DOMAIN rows \cup {i} |-> IF j = i THEN Evaluated(tasks[i]) ELSE rows[j]]
  <2>1. CASE EvaluateParetoTask
    BY <2>1 DEF EvaluateParetoTask, EvaluateWith, Kinds
  <2>2. CASE EvaluateGeometryTask
    <3>1. \A t : EvaluatedInGeometry(t) = Evaluated(t)
      BY DEF EvaluatedInGeometry, Evaluated
    <3> QED
      BY <2>2, <3>1 DEF EvaluateGeometryTask, EvaluateWith, Kinds
  <2> QED
    BY <2>1, <2>2
<1>2. Coming' /\ ReportsGood'
  BY <1>1 DEF FreshInv, Coming, ReportsGood, NamesIn
<1>3. \A j \in DOMAIN rows' : j \in DOMAIN tasks' /\ rows'[j] = Evaluated(tasks'[j])
  <2>1. \A j \in DOMAIN rows : j \in DOMAIN tasks /\ rows[j] = Evaluated(tasks[j])
    BY <1>1 DEF FreshInv, Evaluating
  <2> QED
    BY <1>1, <2>1
<1>4. Evaluating'
  BY <1>1, <1>3 DEF FreshInv, Evaluating
<1> QED
  BY <1>1, <1>2, <1>4 DEF FreshInv, Delivering, Ending

\* What a plan has come to, when all of it is evaluated: rows that are found
\* and rows that are new.
LEMMA ParetoOwed ==
  ASSUME OrderInv, FreshInv, RoundDone, request.kind \in {"pareto", "merge"}
  PROVE  Owed(request, outputs[at].archs, outputs[at].cuts, ParetoRows)
<1> DEFINE occ == ParetoOccurrences(request)
           plan == TasksOf(occ)
           rws == RowsOfPlan(plan)
           archs == outputs[at].archs
           cuts == outputs[at].cuts
           arch == << request.file, request.target >>
           new(p) == SelectInSeq(tasks, LAMBDA t : SameTask(t, p))
<1>1. request.kind # "geometry" /\ PlanOf(request) = occ /\ ParetoRows = ExpandedRows(plan, rws, occ)
  BY DEF PlanOf, ParetoRows
<1>2. pc = "evaluate" /\ DOMAIN rows = DOMAIN tasks
  BY DEF RoundDone
<1>3. /\ SoundPlan(request)
      /\ Listing(tasks) /\ ToSet(tasks) \subseteq ToSet(occ)
      /\ \A j \in DOMAIN tasks : rows[j] = Evaluated(tasks[j])
      /\ GoodTable(existing, archs) /\ Few(existing, cuts)
      /\ \A t \in ToSet(tasks) : t.arch \in archs
      /\ \A t \in ToSet(plan) : RowFor(existing, t) = 0 => t \in ToSet(tasks)
  BY <1>1, <1>2 DEF FreshInv, Evaluating, Kinds
<1>4. /\ Listing(occ)
      /\ \A o \in ToSet(occ) : o.file.state.id # -1 /\ o.group = 0 /\ o.arch = arch /\ "arch" \in DOMAIN o
  BY <1>1, <1>3 DEF SoundPlan, Measured
<1>5. DOMAIN rws = DOMAIN plan
      /\ \A i \in DOMAIN plan : rws[i] = IF RowFor(existing, plan[i]) # 0 THEN existing[RowFor(existing, plan[i])]
                                         ELSE rows[new(plan[i])]
  BY DEF RowsOfPlan
<1>6. \A i \in DOMAIN plan : plan[i] \in ToSet(plan)
  BY DEF ToSet
<1>10. cuts \in Nat
  BY <1>2 DEF FreshInv, OrderInv, Planning, ReportsGood
<1> HIDE DEF occ, plan, rws, archs, cuts, arch
<1>7. ASSUME NEW i \in DOMAIN plan
      PROVE  /\ GoodRow(rws[i], archs)
             /\ \A o \in ToSet(occ) : SameTask(plan[i], o) => FreshRow(RowAt(rws[i], o), o, archs)
             /\ rws[i].detail = "cut" => rws[i] \in ToSet(existing) /\ KeyOfRow(rws[i]) = Key(plan[i].file)
  <2>1. CASE RowFor(existing, plan[i]) # 0
    <3> DEFINE n == RowFor(existing, plan[i])
    <3>1. n \in DOMAIN existing /\ KeyOfRow(existing[n]) = Key(plan[i].file)
      BY <1>3, <2>1, RowFound DEF GoodTable
    <3>2. rws[i] = existing[n] /\ existing[n] \in ToSet(existing)
      BY <1>5, <2>1, <3>1 DEF ToSet
    <3> HIDE DEF n
    <3>3. GoodRow(rws[i], archs)
      BY <1>3, <3>2 DEF GoodTable
    <3>4. ASSUME NEW o \in ToSet(occ), SameTask(plan[i], o)
          PROVE  FreshRow(RowAt(rws[i], o), o, archs)
      <4>1. KeyOfRow(rws[i]) = Key(o.file)
        BY <3>1, <3>2, <3>4 DEF SameTask
      <4> QED
        BY <1>4, <3>3, <4>1, FoundIsFresh
    <3> QED
      BY <3>1, <3>2, <3>3, <3>4
  <2>2. CASE RowFor(existing, plan[i]) = 0
    <3> DEFINE n == new(plan[i])
    <3>1. PICK j \in DOMAIN tasks : tasks[j] = plan[i]
      BY <1>3, <1>6, <2>2 DEF ToSet
    <3>2. SameTask(tasks[j], plan[i])
      BY <3>1 DEF SameTask
    <3>3. n \in DOMAIN tasks /\ SameTask(tasks[n], plan[i])
      BY <1>3, <3>2, TaskFound
    <3>4. rws[i] = rows[n]
      BY <1>5, <2>2
    <3> HIDE DEF n, new
    <3>5. rws[i] = Evaluated(tasks[n]) /\ tasks[n] \in ToSet(tasks) /\ tasks[n] \in ToSet(occ)
      BY <1>3, <3>3, <3>4 DEF ToSet
    <3>6. tasks[n].group = 0 /\ tasks[n].arch = arch /\ tasks[n].arch \in archs
      BY <1>3, <1>4, <3>5
    <3>7. GoodRow(rws[i], archs)
      BY <3>5, <3>6, EvaluatedGood
    <3>8. ASSUME NEW o \in ToSet(occ), SameTask(plan[i], o)
          PROVE  FreshRow(RowAt(rws[i], o), o, archs)
      <4>1. SameTask(tasks[n], o)
        BY <3>3, <3>8 DEF SameTask
      <4>2. o.arch = tasks[n].arch /\ o.arch \in archs /\ "arch" \in DOMAIN o
        BY <1>4, <3>6
      <4> QED
        BY <3>5, <4>1, <4>2, TaskIsFresh
    <3>9. rws[i].detail # "cut"
      BY <3>5, EvaluatedWhole
    <3> QED
      BY <3>7, <3>8, <3>9
  <2> QED
    BY <2>1, <2>2
<1>8. GoodTable(ParetoRows, archs)
  BY <1>1, <1>4, <1>7, ExpandedGood DEF plan
<1>9. FreshTable(request, archs, ParetoRows)
  <2>1. \A o : ArchsFor(request, archs, o) = archs
    BY <1>1 DEF ArchsFor
  <2>2. \A i \in DOMAIN plan, o \in ToSet(occ) :
          SameTask(plan[i], o) => FreshRow(RowAt(rws[i], o), o, ArchsFor(request, archs, o))
    BY <1>7, <2>1
  <2> QED
    BY <1>1, <1>4, <2>2, ExpandedFresh DEF plan
<1>11. Few(ParetoRows, cuts)
  <2>1. \A i \in DOMAIN plan :
          /\ rws[i] = Columns(rws[i])
          /\ rws[i].detail = "cut" => rws[i] \in ToSet(existing) /\ KeyOfRow(rws[i]) = Key(plan[i].file)
    BY <1>7 DEF GoodRow
  <2> QED
    BY <1>1, <1>3, <1>4, <1>10, <2>1, ExpandedFew DEF plan
<1> QED
  BY <1>1, <1>8, <1>9, <1>11 DEF Owed, archs, cuts

\* The rows of a geometry sweep, when all of it is evaluated.
LEMMA GeometryOwed ==
  ASSUME OrderInv, FreshInv, RoundDone, request.kind = "geometry"
  PROVE  Owed(request, outputs[at].archs, outputs[at].cuts, GeometryRows(request, tasks, Results))
<1> DEFINE occ == GeometryOccurrences(request)
           archs == outputs[at].archs
           cuts == outputs[at].cuts
           table == GeometryRows(request, tasks, Results)
<1>1. PlanOf(request) = occ
  BY DEF PlanOf
<1>2. pc = "evaluate" /\ DOMAIN rows = DOMAIN tasks
  BY DEF RoundDone
<1>3. /\ SoundPlan(request)
      /\ ToSet(tasks) \subseteq ToSet(occ)
      /\ \A j \in DOMAIN tasks : rows[j] = Evaluated(tasks[j])
      /\ tasks = TasksOf(occ)
  BY <1>1, <1>2 DEF FreshInv, Evaluating, Kinds
<1>4. /\ Listing(occ) /\ \A o, p \in ToSet(occ) : o.group = p.group => o.arch = p.arch
      /\ \A o \in ToSet(occ) : "arch" \in DOMAIN o
  BY <1>1, <1>3 DEF SoundPlan
<1>5. \A j \in DOMAIN tasks : Results[j] = Evaluated(tasks[j]) /\ tasks[j] \in ToSet(occ)
  BY <1>3 DEF Results, ToSet
<1>8. cuts \in Nat
  BY <1>2 DEF FreshInv, OrderInv, Planning, ReportsGood
<1>9. table = ExpandedRows(tasks, Results, occ)
  BY DEF GeometryRows
<1> HIDE DEF occ, archs, cuts, table
<1>6. ASSUME NEW i \in DOMAIN tasks, NEW o \in ToSet(occ), SameTask(tasks[i], o)
      PROVE  FreshRow(RowAt(Results[i], o), o, ArchsFor(request, archs, o))
  <2>1. tasks[i].arch = o.arch /\ "arch" \in DOMAIN o
    BY <1>4, <1>5, <1>6 DEF SameTask
  <2>2. o.arch \in ArchsFor(request, archs, o)
    BY DEF ArchsFor
  <2> QED
    BY <1>5, <1>6, <2>1, <2>2, TaskIsFresh
<1>7. FreshTable(request, archs, ExpandedRows(tasks, Results, occ))
  BY <1>1, <1>3, <1>4, <1>6, ExpandedFresh
<1>10. Few(table, cuts)
  <2> DEFINE made == {RowAt(Results[i], occ[k]) : i \in DOMAIN tasks, k \in DOMAIN occ}
  <2>1. /\ table \in Seq(made)
        /\ \A r \in ToSet(table) : \E i \in DOMAIN tasks, k \in DOMAIN occ :
             SameTask(tasks[i], occ[k]) /\ r = RowAt(Results[i], occ[k])
    <3>1. occ \in Seq(ToSet(occ))
      BY <1>4 DEF Listing
    <3> QED
      BY <1>3, <1>9, <3>1, ExpandedOnce
  <2> HIDE DEF made
  <2>2. ASSUME NEW r \in ToSet(table) PROVE r.detail # "cut"
    <3>1. PICK i \in DOMAIN tasks, k \in DOMAIN occ : r = RowAt(Results[i], occ[k])
      BY <2>1
    <3>2. \A t : Evaluated(t) = Columns(Evaluated(t)) /\ Evaluated(t).detail = "whole"
      BY RowColumns DEF Evaluated, Judged
    <3>3. Results[i] = Columns(Results[i]) /\ Results[i].detail = "whole"
      BY <1>5, <3>2
    <3>4. r.detail = "whole"
      BY <3>1, <3>3, RowElsewhere
    <3> QED
      BY <3>4
  <2> QED
    BY <1>8, <2>2, NoneCut
<1> QED
  BY <1>1, <1>7, <1>9, <1>10 DEF Owed, table, archs, cuts

\* The table and its fronts are among the files of a report, once.
LEMMA ReportFresh ==
  ASSUME OrderInv, FreshInv, NEW files, Report(files), request.kind \in Kinds, pc = "evaluate",
         {"evaluations", "front"} \subseteq NamesOf(files),
         NEW table, Owed(request, outputs[at].archs, outputs[at].cuts, table),
         \A i \in DOMAIN files :
           /\ files[i].name = "evaluations" => files[i].content = table
           /\ files[i].name = "front" => files[i].content = FrontsOf(request, table)
  PROVE  FreshInv'
<1>1. /\ todo' = files /\ pc' = "write" /\ UNCHANGED << script, outputs, request, at >>
  BY DEF Report
<1>2. Coming' /\ ReportsGood'
  BY <1>1 DEF FreshInv, Coming, ReportsGood, NamesIn
<1>3. Pending' = NamesOf(files)
  BY <1>1 DEF Pending, NamesOf
<1>4. \A i \in DOMAIN files :
        Due(request, outputs[at].archs, outputs[at].cuts, files[i].name, files[i].content)
  BY DEF Due
<1>5. SoundPlan(request)
  BY DEF FreshInv, Evaluating
<1>6. Delivering'
  BY <1>1, <1>3, <1>4, <1>5 DEF Delivering, NamesIn
<1> QED
  BY <1>1, <1>2, <1>6 DEF FreshInv, Evaluating, Ending

\* The files of a report: table and fronts come first, and no other bears their
\* names.
LEMMA TableFirst ==
  ASSUME NEW table, NEW front, NEW base, base = << >> \/ \E c : base = << Output("baseline", c) >>
  PROVE  LET files == << Output("evaluations", table), Output("front", front) >> \o base \o Records
         IN  /\ {"evaluations", "front"} \subseteq NamesOf(files)
             /\ \A i \in DOMAIN files :
                  /\ files[i].name = "evaluations" => files[i].content = table
                  /\ files[i].name = "front" => files[i].content = front
<1> DEFINE e == Output("evaluations", table)
           f == Output("front", front)
           m == Output("manifest", [arch |-> request.arch, inputs |-> request.inputs])
           s == Output("summary", << >>)
           files == << e, f >> \o base \o Records
<1>1. /\ e.name = "evaluations" /\ e.content = table /\ f.name = "front" /\ f.content = front
      /\ m.name = "manifest" /\ s.name = "summary" /\ Records = << m, s >>
  BY DEF Output, Records
<1>2. PICK T : base \in Seq(T) /\ \A o \in T : o.name = "baseline"
  <2>1. CASE base = << >>
    <3>1. base \in Seq({})
      BY <2>1
    <3> QED
      BY <3>1
  <2>2. ASSUME NEW c, base = << Output("baseline", c) >>
        PROVE  \E T : base \in Seq(T) /\ \A o \in T : o.name = "baseline"
    <3>1. base \in Seq({Output("baseline", c)})
      BY <2>2
    <3>2. Output("baseline", c).name = "baseline"
      BY DEF Output
    <3> QED
      BY <3>1, <3>2
  <2> QED
    BY <2>1, <2>2
<1> HIDE DEF e, f, m, s
<1> DEFINE S == {e, f, m, s} \cup T
<1>3. << e, f >> \in Seq(S) /\ base \in Seq(S) /\ << m, s >> \in Seq(S)
  BY <1>2
<1>4. \A o \in S : (o.name = "evaluations" => o = e) /\ (o.name = "front" => o = f)
  BY <1>1, <1>2
<1> HIDE DEF S
<1>5. << e, f >> \o base \in Seq(S) /\ Len(<< e, f >> \o base) = 2 + Len(base) /\ Len(base) \in Nat
      /\ (<< e, f >> \o base)[1] = e /\ (<< e, f >> \o base)[2] = f
  BY <1>3
<1>6. files \in Seq(S) /\ files[1] = e /\ files[2] = f /\ {1, 2} \subseteq DOMAIN files
  <2> DEFINE h == << e, f >> \o base
  <2>1. h \in Seq(S) /\ Len(h) \in Nat /\ Len(h) > 1 /\ h[1] = e /\ h[2] = f
    BY <1>5
  <2> HIDE DEF h
  <2>2. h \o << m, s >> \in Seq(S) /\ (h \o << m, s >>)[1] = e /\ (h \o << m, s >>)[2] = f
        /\ {1, 2} \subseteq DOMAIN (h \o << m, s >>)
    BY <1>3, <2>1
  <2> QED
    BY <1>1, <2>2 DEF h
<1> HIDE DEF files
<1>7. {"evaluations", "front"} \subseteq NamesOf(files)
  BY <1>1, <1>6 DEF NamesOf
<1>8. \A i \in DOMAIN files : /\ files[i].name = "evaluations" => files[i].content = table
                              /\ files[i].name = "front" => files[i].content = front
  BY <1>1, <1>4, <1>6
<1> QED
  BY <1>7, <1>8 DEF files, e, f

\* What is selected is owed.
LEMMA SelectsFresh ==
  ASSUME OrderInv, FreshInv,
         SelectPareto \/ SelectGeometry \/ SelectBuffer \/ SelectActivation \/ SelectSample
           \/ SelectBestLine \/ SelectLines
  PROVE  FreshInv'
<1>1. CASE SelectPareto
  <2> DEFINE base == IF request.kind = "merge" THEN << >> ELSE BaselineFile(request)
             table == ParetoRows
             front == StepFronts(table)
             files == << Output("evaluations", table), Output("front", front) >> \o base \o Records
  <2>1. RoundDone /\ request.kind \in {"pareto", "merge"} /\ (NothingToReport \/ Report(files))
    BY <1>1 DEF SelectPareto
  <2>2. base = << >> \/ \E c : base = << Output("baseline", c) >>
    BY DEF BaselineFile
  <2>3. /\ {"evaluations", "front"} \subseteq NamesOf(files)
        /\ \A i \in DOMAIN files : /\ files[i].name = "evaluations" => files[i].content = table
                                   /\ files[i].name = "front" => files[i].content = front
    <3> HIDE DEF base, table, front
    <3> QED
      BY <2>2, TableFirst
  <2>4. CASE NothingToReport
    BY <2>4, IdleFresh DEF NothingToReport
  <2>5. CASE Report(files)
    <3>1. Owed(request, outputs[at].archs, outputs[at].cuts, table)
      BY <2>1, ParetoOwed
    <3>2. pc = "evaluate" /\ request.kind \in Kinds
      BY <2>1 DEF RoundDone, Kinds
    <3>3. front = FrontsOf(request, table)
      BY <2>1 DEF FrontsOf
    <3> HIDE DEF files, table, front
    <3> QED
      BY <2>3, <2>5, <3>1, <3>2, <3>3, ReportFresh
  <2> QED
    BY <2>1, <2>4, <2>5
<1>2. CASE SelectGeometry
  <2> DEFINE all == GeometryRows(request, tasks, Results)
             front == GeometryFronts(all)
             two == << Output("evaluations", all), Output("front", front) >>
             none == << >>
             files == two \o none \o Records
  <2>1. RoundDone /\ request.kind = "geometry" /\ (NothingToReport \/ Report(two \o Records))
    BY <1>2 DEF SelectGeometry
  <2>2. two \o << >> = two
    <3>1. two \in Seq(Range(two))
      BY Two
    <3> HIDE DEF two
    <3> QED
      BY <3>1, ConcatEmptySeq
  <2>3. /\ {"evaluations", "front"} \subseteq NamesOf(files)
        /\ \A i \in DOMAIN files : /\ files[i].name = "evaluations" => files[i].content = all
                                   /\ files[i].name = "front" => files[i].content = front
    <3>1. none = << >> \/ \E c : none = << Output("baseline", c) >>
      OBVIOUS
    <3> HIDE DEF all, front, none
    <3> QED
      BY <3>1, TableFirst
  <2>4. CASE NothingToReport
    BY <2>4, IdleFresh DEF NothingToReport
  <2>5. CASE Report(two \o Records)
    <3>1. Owed(request, outputs[at].archs, outputs[at].cuts, all)
      BY <2>1, GeometryOwed
    <3>2. pc = "evaluate" /\ request.kind \in Kinds
      BY <2>1 DEF RoundDone, Kinds
    <3>3. front = FrontsOf(request, all)
      BY <2>1 DEF FrontsOf
    <3> HIDE DEF two, all, front
    <3>4. Report(files)
      BY <2>2, <2>5
    <3> HIDE DEF files
    <3> QED
      BY <2>3, <3>1, <3>2, <3>3, <3>4, ReportFresh
  <2> QED
    BY <2>1, <2>4, <2>5
<1>3. CASE SelectBuffer \/ SelectActivation \/ SelectSample \/ SelectBestLine \/ SelectLines
  <2>1. /\ request.kind \notin Kinds
        /\ \/ NothingToReport
           \/ UNCHANGED << script, outputs, request >> /\ pc' # "done"
    <3>1. CASE SelectBuffer
      BY <3>1 DEF SelectBuffer, Kinds, Report
    <3>2. CASE SelectActivation
      BY <3>2 DEF SelectActivation, Kinds, Report
    <3>3. CASE SelectSample
      BY <3>3 DEF SelectSample, Kinds, NextRound, RoundDone
    <3>4. CASE SelectBestLine
      BY <3>4 DEF SelectBestLine, Kinds, NextRound, RoundDone
    <3>5. CASE SelectLines
      BY <3>5 DEF SelectLines, Kinds, Report
    <3> QED
      BY <1>3, <3>1, <3>2, <3>3, <3>4, <3>5
  <2> QED
    BY <2>1, OtherFresh, IdleFresh DEF NothingToReport
<1> QED
  BY <1>1, <1>2, <1>3

-----------------------------------------------------------------------------
(* Writing.                                                                *)

\* A file is added to the directory, or replaced there: what is not a table
\* leaves the table as it is.
LEMMA WrittenFresh ==
  ASSUME OrderInv, FreshInv, NEW n, NEW f, Written(n, f), UNCHANGED script,
         NEW dir, NEW cuts \in Nat,
         (dir = outputs[at] /\ cuts = outputs[at].cuts) \/ dir = [outputs[at] EXCEPT !.cuts = cuts],
         outputs' = [outputs EXCEPT ![at] = With(dir, n, f)],
         outputs[at].kind = "pareto" =>
           IF n = "evaluations" THEN GoodTable(f.content, outputs[at].archs) /\ Few(f.content, cuts)
           ELSE cuts = outputs[at].cuts
  PROVE  /\ Coming' /\ ReportsGood'
         /\ outputs'[at].archs = outputs[at].archs /\ outputs'[at].cuts = cuts
<1>1. /\ at \in DOMAIN outputs
      /\ "archs" \in DOMAIN outputs[at] /\ "cuts" \in DOMAIN outputs[at]
  BY DEF Written, FreshInv, ReportsGood
<1> DEFINE d == With(dir, n, f)
<1>2. /\ d.archs = outputs[at].archs /\ "archs" \in DOMAIN d
      /\ d.cuts = cuts /\ "cuts" \in DOMAIN d
  <2> DEFINE other == [outputs[at] EXCEPT !.cuts = cuts]
  <2>1. /\ other.archs = outputs[at].archs /\ "archs" \in DOMAIN other
        /\ other.cuts = cuts /\ "cuts" \in DOMAIN other
    BY <1>1
  <2>2. (dir = outputs[at] /\ cuts = outputs[at].cuts) \/ dir = other
    OBVIOUS
  <2> HIDE DEF other
  <2>3. /\ dir.archs = outputs[at].archs /\ "archs" \in DOMAIN dir
        /\ dir.cuts = cuts /\ "cuts" \in DOMAIN dir
    BY <1>1, <2>1, <2>2
  <2> QED
    BY <2>3 DEF With
<1>3. outputs'[at] = d
  <2>1. outputs' = [outputs EXCEPT ![at] = d]
    OBVIOUS
  <2> HIDE DEF d
  <2> QED
    BY <1>1, <2>1
<1> HIDE DEF d
<1>4. /\ DOMAIN outputs' = DOMAIN outputs
      /\ \A j \in DOMAIN outputs : j # at => outputs'[j] = outputs[j]
      /\ outputs'[at].kind = outputs[at].kind
      /\ DOMAIN outputs'[at].files = DOMAIN outputs[at].files \cup {n}
      /\ \A m \in DOMAIN outputs'[at].files : outputs'[at].files[m] = IF m = n THEN f ELSE outputs[at].files[m]
  <2>1. at' = at
    BY DEF Written
  <2> QED
    BY <2>1, FileWritten DEF NamesIn
<1>5. ReportsGood'
  <2> SUFFICES ASSUME NEW j \in DOMAIN outputs
               PROVE  /\ "archs" \in DOMAIN outputs'[j] /\ "cuts" \in DOMAIN outputs'[j]
                      /\ outputs'[j].cuts \in Nat
                      /\ outputs'[j].kind = "pareto" /\ "evaluations" \in DOMAIN outputs'[j].files =>
                           /\ GoodTable(outputs'[j].files["evaluations"].content, outputs'[j].archs)
                           /\ Few(outputs'[j].files["evaluations"].content, outputs'[j].cuts)
    BY <1>4 DEF ReportsGood, NamesIn
  <2>1. CASE j # at
    BY <1>4, <2>1 DEF FreshInv, ReportsGood, NamesIn
  <2>2. CASE j = at
    <3>1. /\ "archs" \in DOMAIN outputs'[j] /\ outputs'[j].archs = outputs[at].archs
          /\ "cuts" \in DOMAIN outputs'[j] /\ outputs'[j].cuts = cuts
      BY <1>2, <1>3, <2>2
    <3>2. ASSUME outputs[at].kind = "pareto", "evaluations" \in DOMAIN outputs'[at].files
          PROVE  /\ GoodTable(outputs'[at].files["evaluations"].content, outputs[at].archs)
                 /\ Few(outputs'[at].files["evaluations"].content, cuts)
      <4>1. CASE n = "evaluations"
        BY <1>4, <3>2, <4>1
      <4>2. CASE n # "evaluations"
        BY <1>1, <1>4, <3>2, <4>2 DEF FreshInv, ReportsGood, NamesIn
      <4> QED
        BY <4>1, <4>2
    <3> QED
      BY <1>4, <2>2, <3>1, <3>2
  <2> QED
    BY <2>1, <2>2
<1>6. Coming'
  BY DEF FreshInv, Coming
<1> QED
  BY <1>2, <1>3, <1>5, <1>6

\* What is written is the first of the files to be written.
LEMMA HeadWritten ==
  ASSUME OrderInv, pc \in {"prepare", "write"}, todo # << >>, NEW f, f.by = command,
         \E dir : /\ dir = outputs[at] \/ \E k : dir = [outputs[at] EXCEPT !.cuts = k]
                  /\ outputs' = [outputs EXCEPT ![at] = With(dir, Head(todo).name, f)],
         UNCHANGED << command, at, request >>
  PROVE  /\ Written(Head(todo).name, f)
         /\ 1 \in DOMAIN todo /\ Head(todo) = todo[1]
         /\ pc = "prepare" => Head(todo).name = "baseline" /\ Tail(todo) = << >>
         /\ outputs[at].kind = DirKind
<1>1. CASE pc = "prepare"
  <2>1. /\ at \in DOMAIN outputs /\ outputs[at].kind = DirKind
        /\ \A m \in NamesIn(at) : m # "baseline" => outputs[at].files[m].by < command
        /\ todo \in Seq(Range(todo)) /\ Len(todo) = 1 /\ todo[1].name = "baseline"
    BY <1>1 DEF OrderInv, Planning
  <2>2. 1 \in DOMAIN todo /\ Head(todo) = todo[1]
    BY <2>1
  <2>3. Tail(todo) = << >>
    <3>1. Len(Tail(todo)) = 0 /\ Tail(todo) \in Seq(Range(todo))
      BY <2>1
    <3> QED
      BY <3>1, EmptySeq
  <2> QED
    BY <1>1, <2>1, <2>2, <2>3 DEF Written
<1>2. CASE pc = "write"
  <2>1. /\ at \in DOMAIN outputs /\ outputs[at].kind = DirKind
        /\ todo \in Seq(Range(todo))
        /\ outputs[at].kind = "pareto" =>
             Pending \subseteq {"evaluations", "front", "baseline", "manifest", "summary"}
        /\ "summary" \in NamesIn(at) => outputs[at].files["summary"].by < command
    BY <1>2 DEF OrderInv, Writing
  <2>2. 1 \in DOMAIN todo /\ Head(todo) = todo[1]
    BY <2>1, EmptySeq
  <2>3. Head(todo).name \in Pending
    BY <2>2 DEF Pending
  <2> QED
    BY <1>2, <2>1, <2>2, <2>3 DEF Written
<1> QED
  BY <1>1, <1>2

\* A table that is written is the one that is owed.
LEMMA WriteFresh == OrderInv /\ FreshInv /\ WriteFile => FreshInv'
<1> SUFFICES ASSUME OrderInv, FreshInv, WriteFile PROVE FreshInv'
  OBVIOUS
<1> DEFINE n == Head(todo).name
           f == File(Head(todo).content)
           archs == outputs[at].archs
           cuts == outputs[at].cuts
<1>1. f.by = command /\ f.content = Head(todo).content
  BY DEF File
<1>2. /\ outputs' = [outputs EXCEPT ![at] = With(outputs[at], n, f)] /\ todo' = Tail(todo)
      /\ pc \in {"prepare", "write"} /\ todo # << >>
      /\ pc' = IF Tail(todo) # << >> THEN pc ELSE IF pc = "write" THEN "done" ELSE "evaluate"
      /\ UNCHANGED << script, command, at, request, tasks, rows, existing >>
  BY DEF WriteFile
<1> HIDE DEF f
<1>3. /\ Written(n, f) /\ 1 \in DOMAIN todo /\ Head(todo) = todo[1]
      /\ pc = "prepare" => n = "baseline" /\ Tail(todo) = << >>
      /\ outputs[at].kind = DirKind
  BY <1>1, <1>2, HeadWritten
<1>4. pc = "write" /\ request.kind \in Kinds => Due(request, archs, cuts, n, f.content)
  BY <1>1, <1>3 DEF FreshInv, Delivering
<1>5. outputs[at].kind = "pareto" /\ n = "evaluations" =>
        GoodTable(f.content, archs) /\ Few(f.content, cuts)
  <2>1. outputs[at].kind = "pareto" => request.kind # "geometry" /\ request.kind \in Kinds
    BY <1>3 DEF DirKind, Kinds
  <2> QED
    BY <1>2, <1>3, <1>4, <2>1 DEF Due, Owed
<1>9. cuts \in Nat
  BY <1>3 DEF Written, FreshInv, ReportsGood
<1>6. Coming' /\ ReportsGood' /\ outputs'[at].archs = archs /\ outputs'[at].cuts = cuts
  <2> DEFINE dir == outputs[at]
  <2>1. /\ dir = outputs[at] /\ cuts = outputs[at].cuts
        /\ outputs' = [outputs EXCEPT ![at] = With(dir, n, f)]
    BY <1>2
  <2>2. outputs[at].kind = "pareto" =>
          IF n = "evaluations" THEN GoodTable(f.content, outputs[at].archs) /\ Few(f.content, cuts)
          ELSE cuts = outputs[at].cuts
    BY <1>5
  <2>3. Written(n, f) /\ UNCHANGED script
    BY <1>2, <1>3
  <2> HIDE DEF dir, n, cuts
  <2>4. Coming' /\ ReportsGood' /\ outputs'[at].archs = outputs[at].archs /\ outputs'[at].cuts = cuts
    BY <1>9, <2>1, <2>2, <2>3, WrittenFresh
  <2> QED
    BY <2>4
<1>7. CASE pc = "prepare"
  <2>1. Evaluating'
    BY <1>2, <1>6, <1>7 DEF FreshInv, Evaluating
  <2> QED
    BY <1>2, <1>3, <1>6, <1>7, <2>1 DEF FreshInv, Delivering, Ending
<1>8. CASE pc = "write"
  <2>1. pc' \in {"write", "done"} /\ (pc' = "done" => todo' = << >>)
    BY <1>2, <1>8
  <2>2. CASE request.kind \notin Kinds
    BY <1>2, <1>6, <2>1, <2>2 DEF FreshInv, Evaluating, Delivering, Ending
  <2>3. CASE request.kind \in Kinds
    <3>1. /\ DOMAIN outputs'[at].files = NamesIn(at) \cup {n}
          /\ \A m \in DOMAIN outputs'[at].files : outputs'[at].files[m] = IF m = n THEN f ELSE outputs[at].files[m]
      BY <1>2, <1>3, FileWritten DEF NamesIn
    <3>2. /\ \A i \in DOMAIN todo : i = 1 \/ (i - 1 \in DOMAIN todo' /\ todo'[i - 1] = todo[i])
          /\ \A i \in DOMAIN todo' : i + 1 \in DOMAIN todo /\ todo'[i] = todo[i + 1]
      <4>1. todo \in Seq(Range(todo)) /\ todo # << >>
        BY <1>8 DEF OrderInv, Writing
      <4>2. /\ Len(todo) \in Nat \ {0} /\ DOMAIN todo = 1 .. Len(todo)
            /\ DOMAIN Tail(todo) = 1 .. Len(todo) - 1
            /\ \A i \in 1 .. Len(todo) - 1 : Tail(todo)[i] = todo[i + 1]
        BY <4>1, EmptySeq
      <4> QED
        BY <1>2, <4>2
    <3>3. \A i \in DOMAIN todo' : Due(request, archs, cuts, todo'[i].name, todo'[i].content)
      BY <1>8, <2>3, <3>2 DEF FreshInv, Delivering
    <3>4. ASSUME NEW m \in {"evaluations", "front"}
          PROVE  m \in Pending' \/
                   (m \in DOMAIN outputs'[at].files /\ Due(request, archs, cuts, m, outputs'[at].files[m].content))
      <4>1. CASE n = m
        BY <1>4, <1>8, <2>3, <3>1, <4>1
      <4>2. CASE n # m
        <5>1. CASE m \in Pending
          <6>1. PICK i \in DOMAIN todo : todo[i].name = m
            BY <5>1 DEF Pending
          <6>2. i # 1
            BY <1>3, <4>2, <6>1
          <6> QED
            BY <3>2, <6>1, <6>2 DEF Pending
        <5>2. CASE m \notin Pending
          BY <1>8, <2>3, <3>1, <4>2, <5>2 DEF FreshInv, Delivering
        <5> QED
          BY <5>1, <5>2
      <4> QED
        BY <4>1, <4>2
    <3>5. Delivering'
      <4>1. SoundPlan(request)
        BY <1>8, <2>3 DEF FreshInv, Delivering
      <4> QED
        BY <1>2, <1>6, <3>3, <3>4, <4>1 DEF Delivering, NamesIn
    <3> QED
      BY <1>6, <2>1, <3>5 DEF FreshInv, Evaluating, Ending
  <2> QED
    BY <2>2, <2>3
<1> QED
  BY <1>2, <1>7, <1>8

\* What a kill leaves of a table are rows of the report, one of them cut.
LEMMA KilledFresh == OrderInv /\ FreshInv /\ KilledWriting => FreshInv'
<1> SUFFICES ASSUME OrderInv, FreshInv, KilledWriting PROVE FreshInv'
  OBVIOUS
<1> DEFINE n == Head(todo).name
           c == Head(todo).content
           archs == outputs[at].archs
<1>1. PICK left \in IF n = "evaluations" THEN Cuts(c) ELSE {<< >>} :
        outputs' = [outputs EXCEPT ![at] = CutDir(@, Head(todo), left)]
  BY DEF KilledWriting
<1> DEFINE f == [whole |-> FALSE, by |-> command, content |-> left]
           cuts == IF n = "evaluations" THEN outputs[at].cuts + 1 ELSE outputs[at].cuts
           dir == [outputs[at] EXCEPT !.cuts = cuts]
<1>2. /\ pc \in {"prepare", "write"} /\ todo # << >> /\ pc' = "idle"
      /\ UNCHANGED << script, command, at, request >>
  BY DEF KilledWriting
<1>3. f.by = command /\ f.content = left /\ outputs' = [outputs EXCEPT ![at] = With(dir, n, f)]
  BY <1>1 DEF CutDir
<1>7. dir = [outputs[at] EXCEPT !.cuts = cuts]
  OBVIOUS
<1> HIDE DEF f, dir
<1>4. /\ Written(n, f) /\ 1 \in DOMAIN todo /\ Head(todo) = todo[1]
      /\ pc = "prepare" => n = "baseline"
      /\ outputs[at].kind = DirKind
  <2>1. \E d : /\ d = outputs[at] \/ \E k : d = [outputs[at] EXCEPT !.cuts = k]
               /\ outputs' = [outputs EXCEPT ![at] = With(d, n, f)]
    BY <1>3, <1>7
  <2> QED
    BY <1>2, <1>3, <2>1, HeadWritten
<1>8. outputs[at].cuts \in Nat /\ cuts \in Nat
  BY <1>4 DEF Written, FreshInv, ReportsGood
<1>5. ASSUME outputs[at].kind = "pareto", n = "evaluations"
      PROVE  GoodTable(f.content, archs) /\ Few(f.content, cuts)
  <2>1. pc = "write" /\ request.kind # "geometry" /\ request.kind \in Kinds
    BY <1>2, <1>4, <1>5 DEF DirKind, Kinds
  <2>2. Owed(request, archs, outputs[at].cuts, c)
    BY <1>4, <1>5, <2>1 DEF FreshInv, Delivering, Due
  <2>3. GoodTable(c, archs) /\ Few(c, outputs[at].cuts)
    BY <2>1, <2>2 DEF Owed
  <2>4. left \in Cuts(c)
    BY <1>1, <1>5
  <2>5. cuts = outputs[at].cuts + 1
    BY <1>5
  <2> HIDE DEF n, c, archs, cuts
  <2>6. GoodTable(left, archs) /\ Few(left, outputs[at].cuts + 1)
    BY <1>8, <2>3, <2>4, CutGood
  <2> QED
    BY <1>3, <2>5, <2>6
<1>9. outputs[at].kind = "pareto" =>
        IF n = "evaluations" THEN GoodTable(f.content, archs) /\ Few(f.content, cuts)
        ELSE cuts = outputs[at].cuts
  BY <1>5
<1> HIDE DEF cuts
<1>6. Coming' /\ ReportsGood'
  BY <1>2, <1>3, <1>4, <1>7, <1>8, <1>9, WrittenFresh
<1> QED
  BY <1>2, <1>6, EndsFresh

-----------------------------------------------------------------------------

\* Every step keeps the tables as they should be.
LEMMA FreshNext == OrderInv /\ FreshInv /\ [Next]_vars => FreshInv'
<1> SUFFICES ASSUME OrderInv, FreshInv, [Next]_vars PROVE FreshInv'
  OBVIOUS
<1>1. CASE StartPareto \/ StartGeometry \/ StartBuffer \/ StartActivation \/ StartRandomSet
  BY <1>1, StartsFresh
<1>2. CASE StartMerge
  BY <1>2, MergeFresh
<1>3. CASE EvaluateParetoTask \/ EvaluateGeometryTask
  BY <1>3, EvaluateFresh
<1>4. CASE EvaluateVariantTask \/ EvaluateConfigTask
  <2>1. request.kind \notin Kinds /\ UNCHANGED << script, outputs, request >> /\ pc' # "done"
    BY <1>4 DEF EvaluateVariantTask, EvaluateConfigTask, EvaluateWith, Kinds
  <2> QED
    BY <2>1, OtherFresh
<1>5. CASE PoolFails \/ Killed
  <2>1. UNCHANGED << script, outputs >> /\ pc' = "idle"
    BY <1>5 DEF PoolFails, Killed
  <2> QED
    BY <2>1, IdleFresh
<1>6. CASE SelectPareto \/ SelectGeometry \/ SelectBuffer \/ SelectActivation \/ SelectSample
             \/ SelectBestLine \/ SelectLines
  BY <1>6, SelectsFresh
<1>7. CASE WriteFile
  BY <1>7, WriteFresh
<1>8. CASE KilledWriting
  BY <1>8, KilledFresh
<1>9. CASE UNCHANGED vars
  BY <1>9 DEF vars, FreshInv, Coming, ReportsGood, NamesIn, Evaluating, Delivering, Pending, Ending
<1> QED
  BY <1>1, <1>2, <1>3, <1>4, <1>5, <1>6, <1>7, <1>8, <1>9 DEF Next

\* However a report came about, by an evaluation or by merges after it, and whoever
\* was killed writing it before: its table has a row for every file of every step,
\* each the result of a fresh evaluation of the file, for an architecture and target
\* the report was made or merged for.  Every kill inside the table takes from one
\* workload at most what follows its hash, and that is not made good; a geometry
\* sweep has its own table (merge_into_existing_output, _expand_evaluation_rows).
THEOREM TablesAreFresh == Spec => []TableAsFresh
<1>1. FreshInv => TableAsFresh
  <2> DEFINE table == Content("evaluations")
  <2> SUFFICES ASSUME FreshInv, Done({"pareto", "merge", "geometry"})
               PROVE  /\ Len(table) = Len(Planned)
                      /\ \A o \in ToSet(Planned) : \E r \in ToSet(table) : FreshRow(r, o, EvaluatedFor(o))
                      /\ \A r \in ToSet(table) : \E o \in ToSet(Planned) : FreshRow(r, o, EvaluatedFor(o))
                      /\ Cardinality(Incomplete(table)) <= outputs[at].cuts
    BY DEF TableAsFresh
  <2>1. pc = "done" /\ request.kind \in Kinds /\ todo = << >>
    BY DEF Done, Kinds, FreshInv, Ending
  <2>2. Pending = {}
    BY <2>1 DEF Pending
  <2>3. Owed(request, outputs[at].archs, outputs[at].cuts, table)
    BY <2>1, <2>2 DEF FreshInv, Delivering, Due, Content
  <2>4. Planned = PlanOf(request)
    BY DEF Planned, PlanOf
  <2>5. \A o : EvaluatedFor(o) = ArchsFor(request, outputs[at].archs, o)
    BY DEF EvaluatedFor, ArchsFor
  <2> HIDE DEF table
  <2>6. FreshTable(request, outputs[at].archs, table) /\ Few(table, outputs[at].cuts)
    BY <2>3 DEF Owed
  <2> QED
    BY <2>4, <2>5, <2>6 DEF FreshTable, Few
<1>2. Init => OrderInv /\ FreshInv
  BY OrderInvInit, FreshInit
<1>3. OrderInv /\ FreshInv /\ [Next]_vars => (OrderInv /\ FreshInv)'
  BY OrderInvNext, FreshNext
<1> QED
  BY <1>1, <1>2, <1>3, PTL DEF Spec

-----------------------------------------------------------------------------
(* The fronts of a report.                                                 *)

\* The group of a file in a report, and of a row.
GroupFor(r, o) == IF r.kind = "geometry" THEN o.group ELSE o.step

\* The rows of a group that are reported: those with a hash.
Reported(r, rws, g) ==
  {i \in Successes(rws) : GroupFor(r, rws[i]) = g /\ rws[i].state # Unreadable}

\* Rows without a hash compete with none that has one.
LEMMA KeptHashed ==
  ASSUME NEW rws, NEW places,
         NEW all, places = {i \in all : rws[i].state # Unreadable}
  PROVE  {row \in Kept(rws, all, Weights(rws, all)) : row.state # Unreadable}
           = Kept(rws, places, Weights(rws, places))
<1> DEFINE key1 == Weights(rws, all)
           key2 == Weights(rws, places)
<1>1. \A i \in places : i \in all /\ key1[i] = key2[i]
  BY DEF Weights
<1>2. \A i \in all : rws[i].state # Unreadable => i \in places
  OBVIOUS
<1>3. \A i \in places : rws[i].state # Unreadable
  OBVIOUS
<1> HIDE DEF key1, key2
<1>4. ASSUME NEW i \in places, NEW j \in all, rws[j].state = rws[i].state
      PROVE  j \in places /\ key1[i] = key2[i] /\ key1[j] = key2[j]
  BY <1>1, <1>2, <1>3, <1>4
<1>5. \A i \in places :
        (\A j \in all : rws[j].state = rws[i].state =>
           \/ Precedes(key1[i], key1[j])
           \/ key1[i] = key1[j] /\ i <= j)
        <=>
        (\A j \in places : rws[j].state = rws[i].state =>
           \/ Precedes(key2[i], key2[j])
           \/ key2[i] = key2[j] /\ i <= j)
  BY <1>1, <1>4
<1>6. {row \in Kept(rws, all, key1) : row.state # Unreadable} = Kept(rws, places, key2)
  BY <1>1, <1>2, <1>3, <1>5 DEF Kept
<1> QED
  BY <1>6 DEF key1, key2

\* A group has its own fronts, of what is kept of its rows.
LEMMA FrontOfGroup ==
  ASSUME NEW r, NEW table, NEW g, Reported(r, FrontRows(table), g) # {}, NEW p \in Pairs
  PROVE  LET rws == FrontRows(table)
             places == Reported(r, rws, g)
         IN  FrontsOf(r, table)[g][p] = Front2(Kept(rws, places, Weights(rws, places)), p)
<1>1. CASE r.kind = "geometry"
  <2> DEFINE rws == FrontRows(table)
             places == Reported(r, rws, g)
             all == {i \in Successes(rws) : rws[i].group = g}
             D == Deduped(rws, GroupOf, WeightedKey)
  <2>1. places = {i \in all : rws[i].state # Unreadable}
    BY <1>1 DEF Reported, GroupFor
  <2>2. {row \in D : row.group = g} = Kept(rws, all, Weights(rws, all))
    BY DEF Deduped, Kept, Weights, GroupOf
  <2>3. g \in {rws[i].group : i \in Successes(rws)}
    BY <2>1
  <2> HIDE DEF D, places, all, rws
  <2>4. GeometryFronts(table)[g][p] = Front2({row \in D : row.group = g /\ row.state # Unreadable}, p)
    BY <2>3 DEF GeometryFronts, Fronts, GroupOf, D, rws
  <2>5. {row \in D : row.group = g /\ row.state # Unreadable} = Kept(rws, places, Weights(rws, places))
    <3>1. {row \in D : row.group = g /\ row.state # Unreadable}
            = {row \in Kept(rws, all, Weights(rws, all)) : row.state # Unreadable}
      BY <2>2
    <3> QED
      BY <2>1, <3>1, KeptHashed
  <2> QED
    BY <1>1, <2>4, <2>5 DEF FrontsOf, places, rws
<1>2. CASE r.kind # "geometry"
  <2> DEFINE rws == FrontRows(table)
             places == Reported(r, rws, g)
             all == {i \in Successes(rws) : rws[i].step = g}
             D == Deduped(rws, StepOf, WeightedKey)
  <2>1. places = {i \in all : rws[i].state # Unreadable}
    BY <1>2 DEF Reported, GroupFor
  <2>2. {row \in D : row.step = g} = Kept(rws, all, Weights(rws, all))
    BY DEF Deduped, Kept, Weights, StepOf
  <2>3. g \in {rws[i].step : i \in Successes(rws)}
    BY <2>1
  <2> HIDE DEF D, places, all, rws
  <2>4. StepFronts(table)[g][p] = Front2({row \in D : row.step = g /\ row.state # Unreadable}, p)
    BY <2>3 DEF StepFronts, Fronts, StepOf, D, rws
  <2>5. {row \in D : row.step = g /\ row.state # Unreadable} = Kept(rws, places, Weights(rws, places))
    <3>1. {row \in D : row.step = g /\ row.state # Unreadable}
            = {row \in Kept(rws, all, Weights(rws, all)) : row.state # Unreadable}
      BY <2>2
    <3> QED
      BY <2>1, <3>1, KeptHashed
  <2> QED
    BY <1>2, <2>4, <2>5 DEF FrontsOf, places, rws
<1> QED
  BY <1>1, <1>2

\* A row that is reported is the outcome of its file.
LEMMA ReportedOutcome ==
  ASSUME NEW o, Measured(o.file, o.arch), Evaluated(o).status = "ok"
  PROVE  /\ Costed(Evaluated(o))
         /\ Evaluated(o).state = o.file.state /\ Evaluated(o).state # Unreadable
         /\ Evaluated(o).cost = Outcome(Evaluated(o).state, o.arch).cost
<1> DEFINE st == o.file.state
           result == Outcome(st, o.arch)
<1>1. ~(st = Unreadable \/ result.status = "error")
  BY DEF Evaluated, Judged, Row
<1> DEFINE row == Row(o, result.status, st, result.cost)
<1>2. Evaluated(o) = row
  BY <1>1 DEF Evaluated, Judged
<1>3. row.state = st /\ row.status = result.status /\ row.cost = result.cost
  BY DEF Row
<1> HIDE DEF row
<1>4. result.status = "ok"
  BY <1>2, <1>3
<1>5. result.cost \in Costs /\ st.id \in Nat /\ st.cached \in BOOLEAN
  BY <1>1, <1>4 DEF Measured
<1>6. st # Unreadable
  BY <1>1
<1> HIDE DEF st
<1> QED
  BY <1>2, <1>3, <1>5, <1>6 DEF Costed, st

\* On a front, a row that has its hash is as a fresh evaluation would make it; so
\* is every row of a legal file.
LEMMA HashedRow ==
  ASSUME NEW o, "arch" \in DOMAIN o, NEW archs, archs \subseteq {o.arch}, NEW row, FreshRow(row, o, archs)
  PROVE  /\ row.state # Unreadable => FrontRow(row) = FrontRow(Evaluated(o))
         /\ Evaluated(o).status = "ok" => FrontRow(row) = FrontRow(Evaluated(o))
<1> DEFINE fresh == Evaluated(o)
<1>1. \/ row \in {fresh, [fresh EXCEPT !.detail = "cut"]}
      \/ /\ o.file.state = Unreadable
         /\ row = [fresh EXCEPT !.status = row.status, !.cost = row.cost, !.detail = "cut"]
  BY EvaluatedThere DEF FreshRow
<1>2. /\ fresh = Columns(fresh)
      /\ o.file.state = Unreadable => fresh.status = "error" /\ fresh.state = Unreadable
  <2>1. \E status, state, cost :
          /\ fresh = Row(o, status, state, cost)
          /\ o.file.state = Unreadable => status = "error" /\ state = Unreadable
    BY DEF Evaluated, Judged
  <2>2. PICK status, state, cost :
          /\ fresh = Row(o, status, state, cost)
          /\ o.file.state = Unreadable => status = "error" /\ state = Unreadable
    BY <2>1
  <2> DEFINE new == Row(o, status, state, cost)
  <2>3. new = Columns(new) /\ new.status = status /\ new.state = state
    BY RowColumns
  <2> HIDE DEF fresh, new
  <2> QED
    BY <2>2, <2>3 DEF new
<1> HIDE DEF fresh
<1>3. CASE row = fresh
  BY <1>3 DEF fresh
<1>4. CASE row = [fresh EXCEPT !.detail = "cut"]
  <2>1. /\ row.group = fresh.group /\ row.step = fresh.step /\ row.attempt = fresh.attempt
        /\ row.path = fresh.path /\ row.status = fresh.status /\ row.cost = fresh.cost
        /\ row.state = fresh.state
    BY <1>2, <1>4, DetailSet
  <2>2. FrontRow(row) = FrontRow(fresh)
    BY <2>1 DEF FrontRow
  <2> QED
    BY <2>2 DEF fresh
<1>5. CASE /\ o.file.state = Unreadable
           /\ row = [fresh EXCEPT !.status = row.status, !.cost = row.cost, !.detail = "cut"]
  <2> DEFINE q(x, y) == [fresh EXCEPT !.status = x, !.cost = y, !.detail = "cut"]
  <2>1. \A x, y : q(x, y).state = fresh.state
    OBVIOUS
  <2>3. row = q(row.status, row.cost)
    BY <1>5
  <2> HIDE DEF q
  <2>2. row.state = Unreadable /\ fresh.status # "ok"
    BY <1>2, <1>5, <2>1, <2>3
  <2> QED
    BY <2>2 DEF fresh
<1> QED
  BY <1>1, <1>3, <1>4, <1>5

\* A row is of the group of its file.
LEMMA GroupOfRow ==
  ASSUME NEW r, NEW o
  PROVE  GroupFor(r, FrontRow(Evaluated(o))) = GroupFor(r, o)
<1>1. Evaluated(o).group = o.group /\ Evaluated(o).step = o.step
  BY DEF Evaluated, Judged, Row
<1>2. FrontRow(Evaluated(o)).group = o.group /\ FrontRow(Evaluated(o)).step = o.step
  BY <1>1 DEF FrontRow
<1> QED
  BY <1>2 DEF GroupFor

\* What a front tells of a row.
LEMMA FrontColumns ==
  ASSUME NEW row
  PROVE  /\ FrontRow(row).status = row.status /\ FrontRow(row).state = row.state
         /\ FrontRow(row).cost = row.cost
         /\ Costed(row) => Costed(FrontRow(row))
BY DEF FrontRow, Costed

\* Fronts of a fresh table answer for their groups.
LEMMA FreshFronts ==
  ASSUME NEW r, SoundPlan(r), NEW archs, r.kind # "geometry" => archs \subseteq {<< r.file, r.target >>},
         NEW table, FreshTable(r, archs, table), NEW g, NEW p \in Pairs
  PROVE  LET legal == {row \in {FrontRow(Evaluated(o)) : o \in {o \in ToSet(PlanOf(r)) : GroupFor(r, o) = g}} :
                         row.status = "ok"}
         IN  legal # {} =>
               LET front == FrontsOf(r, table)[g][p]
               IN  /\ front \subseteq legal
                   /\ \A row \in legal : \E s \in front : NoWorse(s, row, p)
                   /\ \A s \in front, row \in legal : ~Dominates2(row, s, p)
<1> DEFINE plan == ToSet(PlanOf(r))
           rws == FrontRows(table)
           legal == {row \in {FrontRow(Evaluated(o)) : o \in {o \in plan : GroupFor(r, o) = g}} :
                       row.status = "ok"}
           places == Reported(r, rws, g)
<1>1. DOMAIN rws = 1 .. Len(table) /\ DOMAIN table = 1 .. Len(table) /\ Len(table) \in Nat
      /\ \A i \in DOMAIN table : rws[i] = FrontRow(table[i]) /\ table[i] \in ToSet(table)
  BY DEF FreshTable, Listing, FrontRows, ToSet
<1>2. places \in SUBSET Nat /\ places \subseteq DOMAIN table
  BY <1>1 DEF Reported, Successes
<1>5. \A o \in plan : Measured(o.file, o.arch) /\ "arch" \in DOMAIN o
  BY DEF SoundPlan
<1>9. \A o \in plan : ArchsFor(r, archs, o) \subseteq {o.arch}
  BY DEF SoundPlan, ArchsFor
<1>3. ASSUME NEW i \in places
      PROVE  \E o \in plan : /\ rws[i] = FrontRow(Evaluated(o)) /\ Evaluated(o).status = "ok"
                             /\ GroupFor(r, o) = g
  <2>1. i \in DOMAIN table /\ rws[i] = FrontRow(table[i]) /\ table[i] \in ToSet(table)
    BY <1>1, <1>2
  <2>3. rws[i].status = "ok" /\ GroupFor(r, rws[i]) = g /\ rws[i].state # Unreadable
    BY DEF Reported, Successes
  <2> HIDE DEF plan, rws, places
  <2>2. PICK o \in plan : FreshRow(table[i], o, ArchsFor(r, archs, o))
    BY <2>1 DEF FreshTable, plan
  <2>4. table[i].state # Unreadable
    BY <2>1, <2>3, FrontColumns
  <2>5. rws[i] = FrontRow(Evaluated(o))
    BY <1>5, <1>9, <2>1, <2>2, <2>4, HashedRow
  <2> QED
    BY <2>3, <2>5, GroupOfRow, FrontColumns
<1>4. legal = {rws[i] : i \in places}
  <2>1. ASSUME NEW row \in legal PROVE \E i \in places : row = rws[i]
    <3>1. PICK o \in plan : row = FrontRow(Evaluated(o)) /\ GroupFor(r, o) = g /\ row.status = "ok"
      OBVIOUS
    <3> HIDE DEF plan, rws
    <3>2. PICK i \in DOMAIN table : FreshRow(table[i], o, ArchsFor(r, archs, o))
      BY <1>1, <3>1 DEF ToSet, FreshTable, plan
    <3>3. Evaluated(o).status = "ok"
      BY <3>1, FrontColumns
    <3>4. rws[i] = row
      BY <1>1, <1>5, <1>9, <3>1, <3>2, <3>3, HashedRow
    <3>5. row.state # Unreadable
      <4>1. Evaluated(o).state # Unreadable
        BY <1>5, <3>1, <3>3, ReportedOutcome
      <4> QED
        BY <3>1, <4>1, FrontColumns
    <3>6. GroupFor(r, row) = g
      BY <3>1, GroupOfRow
    <3> QED
      BY <1>1, <3>1, <3>4, <3>5, <3>6 DEF Reported, Successes
  <2>2. ASSUME NEW i \in places PROVE rws[i] \in legal
    <3> HIDE DEF plan, rws, places
    <3>1. PICK o \in plan : /\ rws[i] = FrontRow(Evaluated(o)) /\ Evaluated(o).status = "ok"
                            /\ GroupFor(r, o) = g
      BY <1>3
    <3>2. rws[i].status = "ok"
      BY <3>1, FrontColumns
    <3> QED
      BY <3>1, <3>2
  <2> HIDE DEF legal, places, rws
  <2> QED
    BY <2>1, <2>2
<1>6. ASSUME NEW i \in places PROVE Costed(rws[i])
  <2> HIDE DEF places, plan, rws
  <2>1. PICK o \in plan : rws[i] = FrontRow(Evaluated(o)) /\ Evaluated(o).status = "ok"
    BY <1>3
  <2>2. Costed(Evaluated(o))
    BY <1>5, <2>1, ReportedOutcome
  <2> QED
    BY <2>1, <2>2, FrontColumns
<1>7. ASSUME NEW i \in places, NEW j \in places, rws[i].state = rws[j].state
      PROVE  rws[i].cost = rws[j].cost
  <2> HIDE DEF places, rws
  <2>1. PICK o \in plan : rws[i] = FrontRow(Evaluated(o)) /\ Evaluated(o).status = "ok" /\ GroupFor(r, o) = g
    BY <1>3
  <2>2. PICK q \in plan : rws[j] = FrontRow(Evaluated(q)) /\ Evaluated(q).status = "ok" /\ GroupFor(r, q) = g
    BY <1>3
  <2>3. o.arch = q.arch
    BY <2>1, <2>2 DEF SoundPlan, GroupFor
  <2> HIDE DEF plan
  <2>4. /\ rws[i].cost = Outcome(rws[i].state, o.arch).cost
        /\ rws[j].cost = Outcome(rws[j].state, q.arch).cost
    BY <1>5, <2>1, <2>2, ReportedOutcome, FrontColumns
  <2> QED
    BY <1>7, <2>3, <2>4
<1>8. ASSUME legal # {}
      PROVE  LET front == FrontsOf(r, table)[g][p]
             IN  /\ front \subseteq legal
                 /\ \A row \in legal : \E s \in front : NoWorse(s, row, p)
                 /\ \A s \in front, row \in legal : ~Dominates2(row, s, p)
  <2> HIDE DEF legal
  <2>1. places # {}
    BY <1>4, <1>8
  <2>2. FrontsOf(r, table)[g][p] = Front2(Kept(rws, places, Weights(rws, places)), p)
    BY <2>1, FrontOfGroup
  <2> HIDE DEF places, rws
  <2> DEFINE front == Front2(Kept(rws, places, Weights(rws, places)), p)
             some == {rws[i] : i \in places}
  <2>3. /\ front \subseteq some
        /\ \A row \in some : \E s \in front : NoWorse(s, row, p)
        /\ \A s \in front, row \in some : ~Dominates2(row, s, p)
    BY <1>2, <1>6, <1>7, FrontAnswers
  <2>4. FrontsOf(r, table)[g][p] = front
    BY <2>2
  <2> HIDE DEF front
  <2> QED
    BY <1>4, <2>3, <2>4
<1> QED
  BY <1>8

\* The fronts that a report holds are those of a fresh table, however the report
\* came about: their points are of files of their step or geometry, none is
\* dominated there, and every legal file is matched by one
\* (_build_step_artifacts, _build_geometry_artifacts).
THEOREM FrontsAreOwn == Spec => []FrontsOwn
<1>1. FreshInv => FrontsOwn
  <2> SUFFICES ASSUME FreshInv, Done({"pareto", "merge", "geometry"}), request.kind # "geometry" => OneArch
               PROVE  LET For(o) == IF request.kind = "geometry" THEN o.group ELSE o.step
                      IN  \A g \in {For(o) : o \in ToSet(Planned)}, p \in Pairs :
                            LET legal == {r \in {FrontRow(Evaluated(o)) : o \in {o \in ToSet(Planned) : For(o) = g}} :
                                            r.status = "ok"}
                            IN  legal # {} =>
                                  LET front == Content("front")[g][p]
                                  IN  /\ front \subseteq legal
                                      /\ \A r \in legal : \E s \in front : NoWorse(s, r, p)
                                      /\ \A s \in front, r \in legal : ~Dominates2(r, s, p)
    BY DEF FrontsOwn
  <2>1. pc = "done" /\ request.kind \in Kinds /\ todo = << >>
    BY DEF Done, Kinds, FreshInv, Ending
  <2>2. Pending = {}
    BY <2>1 DEF Pending
  <2>3. PICK table : /\ Owed(request, outputs[at].archs, outputs[at].cuts, table)
                     /\ Content("front") = FrontsOf(request, table)
    BY <2>1, <2>2 DEF FreshInv, Delivering, Due, Content
  <2>4. Planned = PlanOf(request) /\ SoundPlan(request)
    BY <2>1 DEF Planned, PlanOf, FreshInv, Delivering
  <2>5. /\ FreshTable(request, outputs[at].archs, table)
        /\ request.kind # "geometry" => outputs[at].archs \subseteq {<< request.file, request.target >>}
    BY <2>3 DEF Owed, OneArch
  <2>6. ASSUME NEW g, NEW p \in Pairs
        PROVE  LET legal == {r \in {FrontRow(Evaluated(o)) :
                                       o \in {o \in ToSet(PlanOf(request)) : GroupFor(request, o) = g}} :
                               r.status = "ok"}
               IN  legal # {} =>
                     LET front == FrontsOf(request, table)[g][p]
                     IN  /\ front \subseteq legal
                         /\ \A r \in legal : \E s \in front : NoWorse(s, r, p)
                         /\ \A s \in front, r \in legal : ~Dominates2(r, s, p)
    BY <2>4, <2>5, FreshFronts
  <2> QED
    BY <2>3, <2>4, <2>6 DEF GroupFor
<1>2. Init => OrderInv /\ FreshInv
  BY OrderInvInit, FreshInit
<1>3. OrderInv /\ FreshInv /\ [Next]_vars => (OrderInv /\ FreshInv)'
  BY OrderInvNext, FreshNext
<1> QED
  BY <1>1, <1>2, <1>3, PTL DEF Spec

-----------------------------------------------------------------------------
(* The mappings of a sweep.                                                *)

\* The files of some sources.
FilesOf(sources) == UNION {ToSet(sources[s].files) : s \in DOMAIN sources}

UnderCap(file, cap) == cap = << >> \/ file.state.sharing <= cap[1]

\* Of the files of some sources, mappings that stand for all of them.
Representing(mappings, files) ==
  /\ Listing(mappings)
  /\ \A o \in ToSet(mappings) : /\ o.file \in files
                                /\ \E s, i : o = Occurrence(0, << >>, s, i)
  /\ \A f \in files : \E o \in ToSet(mappings) : Key(o.file) = Key(f)

\* The mappings of some sources are a file of each content.
LEMMA MappingsRepresent ==
  ASSUME NEW sources, PoolListed(sources)
  PROVE  Representing(UniqueMappings(sources), FilesOf(sources))
<1> DEFINE occ == OccurrencesOf(0, << >>, sources)
           mappings == UniqueMappings(sources)
<1>1. Listing(sources) /\ \A s \in ToSet(sources) : Listing(s.files)
  BY DEF PoolListed
<1>2. Listing(occ) /\ ToSet(occ) = FiledIn(0, << >>, sources)
  <2> DEFINE none == << >>
  <2>1. \A g, a : Listing(OccurrencesOf(g, a, sources))
                  /\ ToSet(OccurrencesOf(g, a, sources)) = FiledIn(g, a, sources)
    BY <1>1, OccurrencesAre
  <2> QED
    BY <2>1
<1>3. Listing(mappings) /\ ToSet(mappings) = ToSet(TasksOf(occ))
  BY DEF PoolListed, Sorts
<1>4. occ \in Seq(ToSet(occ)) /\ DOMAIN occ = 1 .. Len(occ)
  BY <1>2 DEF Listing
<1> HIDE DEF occ, mappings
<1>5. /\ TasksOf(occ) \in Seq(ToSet(occ))
      /\ ToSet(TasksOf(occ)) \subseteq ToSet(occ)
      /\ \A k \in DOMAIN occ : \E i \in DOMAIN TasksOf(occ) : SameTask(TasksOf(occ)[i], occ[k])
  BY <1>4, TasksCover
<1>6. \A o \in ToSet(mappings) : \E s \in DOMAIN sources : \E i \in DOMAIN sources[s].files :
        o = Occurrence(0, << >>, sources[s], i)
  BY <1>2, <1>3, <1>5 DEF FiledIn
<1>7. ASSUME NEW o \in ToSet(mappings)
      PROVE  o.file \in FilesOf(sources) /\ \E s, i : o = Occurrence(0, << >>, s, i)
  <2>1. PICK s \in DOMAIN sources : \E i \in DOMAIN sources[s].files : o = Occurrence(0, << >>, sources[s], i)
    BY <1>6
  <2>2. PICK i \in DOMAIN sources[s].files : o = Occurrence(0, << >>, sources[s], i)
    BY <2>1
  <2>3. o.file = sources[s].files[i]
    BY <2>2 DEF Occurrence
  <2>4. o.file \in ToSet(sources[s].files)
    BY <2>3 DEF ToSet
  <2> QED
    BY <2>2, <2>4 DEF FilesOf
<1>8. ASSUME NEW f \in FilesOf(sources) PROVE \E o \in ToSet(mappings) : Key(o.file) = Key(f)
  <2>1. PICK s \in DOMAIN sources : f \in ToSet(sources[s].files)
    BY DEF FilesOf
  <2>2. PICK i \in DOMAIN sources[s].files : f = sources[s].files[i]
    BY <2>1 DEF ToSet
  <2>3. Occurrence(0, << >>, sources[s], i) \in ToSet(occ)
    BY <1>2 DEF FiledIn
  <2>4. PICK k \in DOMAIN occ : occ[k] = Occurrence(0, << >>, sources[s], i)
    BY <2>3 DEF ToSet
  <2>5. PICK j \in DOMAIN TasksOf(occ) : SameTask(TasksOf(occ)[j], occ[k])
    BY <1>5
  <2>6. TasksOf(occ)[j] \in ToSet(mappings)
    BY <1>3 DEF ToSet
  <2>7. occ[k].file = f
    BY <2>2, <2>4 DEF Occurrence
  <2> QED
    BY <2>5, <2>6, <2>7 DEF SameTask
<1>9. Representing(mappings, FilesOf(sources))
  BY <1>3, <1>7, <1>8 DEF Representing
<1> QED
  BY <1>9 DEF mappings

\* Of the mappings that a cap admits, too.
LEMMA PoolRepresents ==
  ASSUME NEW sources, PoolListed(sources), NEW cap
  PROVE  Representing(Pool(sources, cap), {f \in FilesOf(sources) : UnderCap(f, cap)})
<1> DEFINE mappings == UniqueMappings(sources)
           P == {i \in DOMAIN mappings : UnderCap(mappings[i].file, cap)}
           picked == Picked(mappings, P)
           files == {f \in FilesOf(sources) : UnderCap(f, cap)}
<1>1. Representing(mappings, FilesOf(sources))
  BY MappingsRepresent
<1>2. Pool(sources, cap) = picked
  BY DEF Pool, Capped, UnderCap
<1> HIDE DEF mappings
<1>3. mappings \in Seq(ToSet(mappings)) /\ P \in SUBSET DOMAIN mappings
  BY <1>1 DEF Representing, Listing
<1>4. \A i \in DOMAIN mappings : mappings[i] \in ToSet(mappings)
  BY DEF ToSet
<1>5. picked \in Seq(ToSet(mappings)) /\ ToSet(picked) = {mappings[i] : i \in P}
  <2> HIDE DEF P
  <2> QED
    BY <1>3, PickedList
<1>6. ASSUME NEW o \in ToSet(picked)
      PROVE  o.file \in files /\ \E s, i : o = Occurrence(0, << >>, s, i)
  <2>1. PICK i \in P : o = mappings[i]
    BY <1>5
  <2>2. o \in ToSet(mappings) /\ UnderCap(o.file, cap)
    BY <1>4, <2>1
  <2> QED
    BY <1>1, <2>2 DEF Representing
<1>7. ASSUME NEW f \in files PROVE \E o \in ToSet(picked) : Key(o.file) = Key(f)
  <2>1. PICK o \in ToSet(mappings) : Key(o.file) = Key(f)
    BY <1>1 DEF Representing
  <2>2. PICK i \in DOMAIN mappings : o = mappings[i]
    BY DEF ToSet
  <2>3. o.file.state = f.state
    BY <2>1 DEF Key
  <2>4. UnderCap(o.file, cap)
    BY <2>3 DEF UnderCap
  <2> QED
    BY <1>5, <2>1, <2>2, <2>4
<1>8. Listing(picked)
  BY <1>5, ListsAre
<1> HIDE DEF picked, files
<1> QED
  BY <1>2, <1>6, <1>7, <1>8 DEF Representing, files

\* The directory of a root that a sweep takes.
LEMMA SourceIs ==
  ASSUME NEW input, NEW base, ~SourceFails(input, base)
  PROVE  Source(input, base).files = StepFiles(input.root.spaces[base])
<1>1. PICK s \in Expanded(input) : s.id[2] = base
  BY DEF SourceFails
<1>2. Source(input, base) \in Expanded(input) /\ Source(input, base).id[2] = base
  BY <1>1 DEF Source
<1>3. PICK b : Source(input, base) = Step(input.root, b)
  BY <1>2 DEF Expanded
<1>4. b = base
  BY <1>2, <1>3 DEF Step
<1> QED
  BY <1>3, <1>4 DEF Step

\* The files of the roots that a sweep is given are those of its sources.
LEMMA SourcesHold ==
  ASSUME NEW inputs, NEW base, SourcesListed(inputs, base),
         \A i \in DOMAIN inputs : ~SourceFails(inputs[i], base)
  PROVE  Listing(Sources(inputs, base)) /\ FilesOf(Sources(inputs, base)) = FilesIn(inputs, base)
<1> DEFINE sources == Sources(inputs, base)
           Of(i) == Source(inputs[i], base)
<1>1. Listing(sources) /\ ToSet(sources) = {Of(i) : i \in DOMAIN inputs}
  BY DEF SourcesListed, Sorts
<1>2. \A i \in DOMAIN inputs : Of(i).files = StepFiles(inputs[i].root.spaces[base])
  BY SourceIs
<1> HIDE DEF sources, Of
<1>3. FilesOf(sources) = UNION {ToSet(s.files) : s \in ToSet(sources)}
  BY DEF FilesOf, ToSet
<1>4. UNION {ToSet(s.files) : s \in ToSet(sources)} = UNION {ToSet(Of(i).files) : i \in DOMAIN inputs}
  BY <1>1
<1> QED
  BY <1>1, <1>2, <1>3, <1>4 DEF sources, FilesIn

\* Files of sources, one list after the other.
LEMMA FilesJoined ==
  ASSUME NEW s, Listing(s), NEW t, Listing(t)
  PROVE  Listing(s \o t) /\ FilesOf(s \o t) = FilesOf(s) \cup FilesOf(t)
<1> DEFINE S == ToSet(s) \cup ToSet(t)
<1>1. s \in Seq(S) /\ t \in Seq(S)
  <2>1. s \in Seq(ToSet(s)) /\ t \in Seq(ToSet(t)) /\ ToSet(s) \subseteq S /\ ToSet(t) \subseteq S
    BY DEF Listing
  <2> HIDE DEF S
  <2> QED
    BY <2>1
<1> HIDE DEF S
<1>2. s \o t \in Seq(S) /\ ToSet(s \o t) = ToSet(s) \cup ToSet(t)
  BY <1>1, ConcatSet
<1>3. \A u : FilesOf(u) = UNION {ToSet(x.files) : x \in ToSet(u)}
  BY DEF FilesOf, ToSet
<1>4. Listing(s \o t)
  BY <1>2, ListsAre
<1>5. FilesOf(s \o t) = UNION {ToSet(x.files) : x \in ToSet(s) \cup ToSet(t)}
  BY <1>2, <1>3
<1> QED
  BY <1>3, <1>4, <1>5

\* Tasks of a group on its architecture that stand for some files.
Answers(list, group, arch, files) ==
  /\ Listing(list)
  /\ \A t \in ToSet(list) : t.group = group /\ t.arch = arch /\ t.file \in files
  /\ \A f \in files : \E t \in ToSet(list) : Key(t.file) = Key(f)

\* Mappings are evaluated for a variant or config, all of them.
LEMMA CrossAnswers ==
  ASSUME NEW mappings, NEW files, Representing(mappings, files), NEW g, NEW a
  PROVE  Answers(Cross(mappings, g, a), g, a, files)
<1> DEFINE n == Len(mappings)
           To(o) == [o EXCEPT !.group = g, !.arch = a]
           cross == Cross(mappings, g, a)
           S == {To(o) : o \in ToSet(mappings)}
<1>1. n \in Nat /\ DOMAIN mappings = 1 .. n /\ \A i \in 1 .. n : mappings[i] \in ToSet(mappings)
  BY DEF Representing, Listing, ToSet
<1>2. ASSUME NEW o \in ToSet(mappings)
      PROVE  To(o).group = g /\ To(o).arch = a /\ To(o).file = o.file
  <2>1. PICK s, i : o = Occurrence(0, << >>, s, i)
    BY DEF Representing
  <2> DEFINE R(g1, a1) == [group |-> g1, arch |-> a1, step |-> s.id, file |-> s.files[i], attempt |-> i - 1]
             none == << >>
  <2>2. o = R(0, none)
    BY <2>1 DEF Occurrence
  <2> HIDE DEF none
  <2>3. [R(0, none) EXCEPT !.group = g] = R(g, none)
    OBVIOUS
  <2>4. [R(g, none) EXCEPT !.arch = a] = R(g, a)
    OBVIOUS
  <2>5. To(o) = [[o EXCEPT !.group = g] EXCEPT !.arch = a]
    OBVIOUS
  <2>6. R(g, a).group = g /\ R(g, a).arch = a /\ R(g, a).file = R(0, none).file
    OBVIOUS
  <2> HIDE DEF To, R
  <2> QED
    BY <2>2, <2>3, <2>4, <2>5, <2>6
<1>3. cross = [i \in 1 .. n |-> To(mappings[i])]
  BY <1>1 DEF Cross
<1> HIDE DEF To, n, cross
<1>4. cross \in [1 .. n -> S] /\ \A i \in 1 .. n : cross[i] = To(mappings[i])
  BY <1>1, <1>3
<1>5. cross \in Seq(S) /\ DOMAIN cross = 1 .. n
  BY <1>1, <1>4, SeqDef
<1>6. ToSet(cross) = S
  BY <1>1, <1>4, <1>5 DEF ToSet
<1>7. Listing(cross)
  <2> HIDE DEF S
  <2> QED
    BY <1>5, ListsAre
<1>8. \A o \in ToSet(mappings) : o.file \in files
  BY DEF Representing
<1>9. \A f \in files : \E o \in ToSet(mappings) : Key(o.file) = Key(f)
  BY DEF Representing
<1>10. Answers(cross, g, a, files)
  BY <1>2, <1>6, <1>7, <1>8, <1>9 DEF Answers
<1> QED
  BY <1>10 DEF cross

SweepTasks(r) ==
  IF r.kind = "buffer" THEN VariantTasks(BufferMappings(r), Variants(r.variants), r.target)
  ELSE ActivationTasks(r)

\* The tasks of a sweep: of every variant or config those that it is to consider.
SoundSweep(r) ==
  LET plan == ToSet(SweepTasks(r))
  IN  /\ Listing(SweepTasks(r))
      /\ \A t \in plan : /\ t.group \in GroupsOf(r) /\ t.arch = ArchOf(r, t.group)
                         /\ t.file \in Eligible(r, t.group)
                         /\ Numbered(OutcomeOf(r, t))
      /\ \A g \in GroupsOf(r) : \A f \in Eligible(r, g) :
           \E t \in plan : t.group = g /\ Key(t.file) = Key(f)

\* Of tasks for every group.
LEMMA GroupsSound ==
  ASSUME NEW r, NEW n \in Nat, NEW lists, DOMAIN lists = 1 .. n, lists = [i \in 1 .. n |-> lists[i]],
         SweepTasks(r) = FlattenSeq(lists),
         NEW G, GroupsOf(r) = {G[i] : i \in 1 .. n},
         \A i \in 1 .. n : Answers(lists[i], G[i], ArchOf(r, G[i]), Eligible(r, G[i])),
         \A t \in ToSet(SweepTasks(r)) : Numbered(OutcomeOf(r, t))
  PROVE  SoundSweep(r)
<1>1. \A i \in 1 .. n : Listing(lists[i])
  BY DEF Answers
<1>2. /\ Listing(SweepTasks(r))
      /\ ToSet(SweepTasks(r)) = UNION {ToSet(lists[i]) : i \in 1 .. n}
  BY <1>1, FlatListing
<1>3. ASSUME NEW t \in ToSet(SweepTasks(r))
      PROVE  t.group \in GroupsOf(r) /\ t.arch = ArchOf(r, t.group) /\ t.file \in Eligible(r, t.group)
  BY <1>2 DEF Answers
<1>4. ASSUME NEW g \in GroupsOf(r), NEW f \in Eligible(r, g)
      PROVE  \E t \in ToSet(SweepTasks(r)) : t.group = g /\ Key(t.file) = Key(f)
  <2>1. PICK i \in 1 .. n : g = G[i]
    OBVIOUS
  <2>2. PICK t \in ToSet(lists[i]) : t.group = g /\ Key(t.file) = Key(f)
    BY <2>1 DEF Answers
  <2> QED
    BY <1>2, <2>2
<1> QED
  BY <1>2, <1>3, <1>4 DEF SoundSweep

\* A buffer sweep evaluates every mapping for every variant.
LEMMA BufferSound ==
  ASSUME NEW r, r.kind = "buffer", ~BufferRefused(r), VariantsListed(r)
  PROVE  SoundSweep(r)
<1> DEFINE sources == Sources(r.inputs, "d")
           mappings == UniqueMappings(sources)
           variants == Variants(r.variants)
           n == Len(variants)
           Of(v) == Cross(mappings, variants[v].id, << variants[v].file, r.target >>)
           lists == [v \in DOMAIN variants |-> Of(v)]
           G == [v \in 1 .. n |-> variants[v].id]
<1>1. /\ SourcesListed(r.inputs, "d") /\ PoolListed(sources)
      /\ Listing(variants) /\ ToSet(variants) = r.variants
      /\ \A v, u \in r.variants : v.id = u.id => v = u
      /\ \A t \in ToSet(VariantTasks(mappings, variants, r.target)) : Numbered(EvaluatedWithCache(t))
  BY DEF VariantsListed, Sorts
<1>2. n \in Nat /\ DOMAIN variants = 1 .. n /\ \A v \in 1 .. n : variants[v] \in r.variants
  BY <1>1 DEF Listing, ToSet
<1>3. \A i \in DOMAIN r.inputs : ~SourceFails(r.inputs[i], "d")
  BY DEF BufferRefused, SourcesRefused
<1>4. FilesOf(sources) = FilesIn(r.inputs, "d")
  BY <1>1, <1>3, SourcesHold
<1>5. \A g : Eligible(r, g) = FilesOf(sources)
  <2>1. \A g : Considered(r, g) = FilesIn(r.inputs, "d") /\ ~CappedAt(r, g)
    BY DEF Considered, CappedAt
  <2> QED
    BY <1>4, <2>1 DEF Eligible
<1>6. Representing(mappings, FilesOf(sources))
  BY <1>1, MappingsRepresent
<1>7. SweepTasks(r) = FlattenSeq(lists)
  BY DEF SweepTasks, VariantTasks, BufferMappings
<1>8. DOMAIN lists = 1 .. n /\ lists = [v \in 1 .. n |-> lists[v]] /\ \A v \in 1 .. n : lists[v] = Of(v)
  BY <1>2
<1>9. GroupsOf(r) = {G[v] : v \in 1 .. n}
  <2>1. GroupsOf(r) = {v.id : v \in r.variants}
    BY DEF GroupsOf
  <2>2. r.variants = {variants[v] : v \in 1 .. n}
    BY <1>1, <1>2 DEF ToSet
  <2> HIDE DEF variants, n
  <2> QED
    BY <2>1, <2>2
<1>10. ASSUME NEW v \in 1 .. n PROVE ArchOf(r, G[v]) = << variants[v].file, r.target >>
  <2>1. (CHOOSE u \in r.variants : u.id = G[v]) = variants[v]
    BY <1>1, <1>2
  <2> QED
    BY <2>1 DEF ArchOf
<1>11. \A t \in ToSet(SweepTasks(r)) : Numbered(OutcomeOf(r, t))
  BY <1>1 DEF OutcomeOf, SweepTasks, BufferMappings
<1>12. \A v \in 1 .. n : Answers(lists[v], G[v], ArchOf(r, G[v]), Eligible(r, G[v]))
  <2> SUFFICES ASSUME NEW v \in 1 .. n PROVE Answers(lists[v], G[v], ArchOf(r, G[v]), Eligible(r, G[v]))
    OBVIOUS
  <2>1. Answers(Of(v), G[v], ArchOf(r, G[v]), FilesOf(sources))
    <3> DEFINE a == << variants[v].file, r.target >>
    <3>1. Of(v) = Cross(mappings, G[v], a) /\ ArchOf(r, G[v]) = a
      BY <1>10
    <3> HIDE DEF a, Of, G, mappings
    <3> QED
      BY <1>6, <3>1, CrossAnswers
  <2> QED
    BY <1>5, <1>8, <2>1
<1> HIDE DEF sources, mappings, variants, n, lists, G
<1> QED
  BY <1>2, <1>7, <1>8, <1>9, <1>11, <1>12, GroupsSound

\* One source.
LEMMA FilesOfOne ==
  ASSUME NEW x
  PROVE  Listing(<< x >>) /\ FilesOf(<< x >>) = ToSet(x.files)
<1>1. << x >> \in Seq({x}) /\ DOMAIN << x >> = {1} /\ << x >>[1] = x
  OBVIOUS
<1>2. Listing(<< x >>)
  BY <1>1, ListsAre
<1>3. FilesOf(<< x >>) = ToSet(x.files)
  BY <1>1 DEF FilesOf
<1> QED
  BY <1>2, <1>3

\* A config considers what its pool is made of, and the pools are nested in a
\* command that includes them.
LEMMA PoolsConsidered ==
  ASSUME NEW r, r.kind = "activation", ~ActivationRefused(r, BaselineGeometry), ~PoolsFail(r),
         ConfigsListed(r), NEW c \in ConfigsOf(r)
  PROVE  FilesOf(PoolSources(r)[c]) = Considered(r, c)
<1> DEFINE x == FirstSource(r)
           one == << x >>
           two == ActivationSources(r.inputs)
           three == ThirdSources(r)
           first == ToSet(x.files)
           second == FilesIn(r.inputs, "c")
           third == IF r.third = << >> THEN second ELSE FilesIn(r.third, "c")
<1>1. Listing(one) /\ FilesOf(one) = first
  BY FilesOfOne
<1>2. /\ \A i \in DOMAIN r.inputs : ~SourceFails(r.inputs[i], "c")
      /\ \A i \in DOMAIN r.third : ~SourceFails(r.third[i], "c")
  BY DEF ActivationRefused, SourcesRefused, PoolsFail, ActivationSourceFails
<1>3. Listing(two) /\ FilesOf(two) = second
  BY <1>2, SourcesHold DEF ActivationSources, ConfigsListed
<1>4. ASSUME r.third # << >>
      PROVE  /\ three = ActivationSources(r.third) /\ three # << >>
             /\ Listing(three) /\ FilesOf(three) = third
  <2>1. SourcesListed(r.third, "c") /\ DOMAIN r.third # {}
    BY <1>4 DEF ConfigsListed
  <2>2. three = Sources(r.third, "c")
    BY <1>4 DEF ThirdSources, ActivationSources
  <2>3. Listing(three) /\ FilesOf(three) = FilesIn(r.third, "c")
    BY <1>2, <2>1, <2>2, SourcesHold
  <2>4. ToSet(three) # {}
    BY <2>1, <2>2 DEF SourcesListed, Sorts
  <2>5. three # << >>
    BY <2>4 DEF ToSet
  <2> QED
    BY <1>4, <2>2, <2>3, <2>5 DEF ActivationSources
<1>5. r.third = << >> => three = << >>
  BY DEF ThirdSources
<1>6. c \in 1 .. 3
  BY DEF ConfigsOf
<1>7. r.third # << >> => r.hasThird
  BY DEF ActivationRefused, OptionsConflict
<1>8. Considered(r, c) = IF r.inclusive
                         THEN << first, first \cup second \cup third, first \cup third >>[c]
                         ELSE << first, second, third >>[c]
  BY DEF Considered
<1>9. PoolSources(r)[c] = IF r.inclusive THEN << one, (one \o two) \o three, one \o three >>[c]
                          ELSE << one, two, IF three = << >> THEN two ELSE three >>[c]
  BY DEF PoolSources
<1> HIDE DEF one, two, three, first, second
<1>10. CASE r.inclusive
  <2>1. r.third # << >>
    BY <1>10 DEF ActivationRefused, OptionsConflict
  <2>2. Listing(three) /\ FilesOf(three) = third
    BY <1>4, <2>1
  <2> HIDE DEF third
  <2>3. Listing(one \o two) /\ FilesOf(one \o two) = first \cup second
    BY <1>1, <1>3, FilesJoined
  <2>4. FilesOf((one \o two) \o three) = first \cup second \cup third
    BY <2>2, <2>3, FilesJoined
  <2>5. FilesOf(one \o three) = first \cup third
    BY <1>1, <2>2, FilesJoined
  <2> DEFINE all == (one \o two) \o three
             wide == one \o three
  <2>6. /\ Considered(r, c) = << first, first \cup second \cup third, first \cup third >>[c]
        /\ PoolSources(r)[c] = << one, all, wide >>[c]
    BY <1>8, <1>9, <1>10
  <2>7. FilesOf(all) = first \cup second \cup third /\ FilesOf(wide) = first \cup third
    BY <2>4, <2>5
  <2> HIDE DEF all, wide
  <2>8. CASE c = 1
    BY <1>1, <2>6, <2>8
  <2>9. CASE c = 2
    BY <2>6, <2>7, <2>9
  <2>10. CASE c = 3
    BY <2>6, <2>7, <2>10
  <2> QED
    BY <1>6, <2>8, <2>9, <2>10
<1>11. CASE ~r.inclusive
  <2>1. FilesOf(IF three = << >> THEN two ELSE three) = third
    BY <1>3, <1>4, <1>5
  <2> HIDE DEF third
  <2> QED
    BY <1>1, <1>3, <1>6, <1>8, <1>9, <1>11, <2>1
<1> QED
  BY <1>10, <1>11

\* An activation sweep evaluates every mapping of a config's pool in it.
LEMMA ActivationSound ==
  ASSUME NEW r, r.kind = "activation", ~ActivationRefused(r, BaselineGeometry), ~PoolsFail(r),
         ConfigsListed(r)
  PROVE  SoundSweep(r)
<1> DEFINE n == IF r.hasThird THEN 3 ELSE 2
           Of(c) == Cross(Pools(r)[c], r.configs[c].id, << r.configs[c].file, r.target >>)
           lists == [c \in ConfigsOf(r) |-> Of(c)]
           G == [c \in 1 .. n |-> c]
<1>1. n \in Nat /\ ConfigsOf(r) = 1 .. n /\ ConfigsOf(r) \subseteq 1 .. 3
  <2>1. CASE r.hasThird
    BY <2>1 DEF ConfigsOf
  <2>2. CASE ~r.hasThird
    BY <2>2 DEF ConfigsOf
  <2> QED
    BY <2>1, <2>2
<1>2. ASSUME NEW c \in ConfigsOf(r)
      PROVE  /\ PoolListed(PoolSources(r)[c]) /\ r.configs[c].id = c
             /\ FilesOf(PoolSources(r)[c]) = Considered(r, c)
  BY PoolsConsidered DEF ConfigsListed
<1>3. ASSUME NEW c \in ConfigsOf(r) PROVE Answers(Of(c), c, ArchOf(r, c), Eligible(r, c))
  <2> DEFINE sources == PoolSources(r)[c]
             cap == CapOf(r, c)
             a == << r.configs[c].file, r.target >>
             files == {f \in FilesOf(sources) : UnderCap(f, cap)}
  <2>1. Pools(r)[c] = Pool(sources, cap)
    BY <1>1 DEF Pools
  <2>2. Representing(Pool(sources, cap), files)
    <3>1. PoolListed(sources)
      BY <1>2
    <3> HIDE DEF sources, cap
    <3> QED
      BY <3>1, PoolRepresents
  <2>3. files = Eligible(r, c)
    <3>1. \A f : UnderCap(f, cap) <=> (CappedAt(r, c) => f.state.sharing <= r.cap[1])
      BY DEF UnderCap, CapOf, CappedAt
    <3>2. FilesOf(sources) = Considered(r, c)
      BY <1>2
    <3> HIDE DEF sources, cap
    <3> QED
      BY <3>1, <3>2 DEF Eligible
  <2>4. ArchOf(r, c) = a
    BY DEF ArchOf
  <2>5. Of(c) = Cross(Pool(sources, cap), c, a)
    BY <1>2, <2>1
  <2> HIDE DEF sources, cap, a, files, Of
  <2> QED
    BY <2>2, <2>3, <2>4, <2>5, CrossAnswers
<1>4. SweepTasks(r) = FlattenSeq(lists)
  BY DEF SweepTasks, ActivationTasks
<1>5. DOMAIN lists = 1 .. n /\ lists = [c \in 1 .. n |-> lists[c]] /\ \A c \in 1 .. n : lists[c] = Of(c)
  BY <1>1
<1>6. GroupsOf(r) = {G[c] : c \in 1 .. n}
  BY <1>1 DEF GroupsOf
<1>7. \A c \in 1 .. n : Answers(lists[c], G[c], ArchOf(r, G[c]), Eligible(r, G[c]))
  BY <1>1, <1>3, <1>5
<1>8. \A t \in ToSet(SweepTasks(r)) : Numbered(OutcomeOf(r, t))
  BY DEF ConfigsListed, OutcomeOf, SweepTasks
<1> HIDE DEF n, lists, G, Of
<1> QED
  BY <1>1, <1>4, <1>5, <1>6, <1>7, <1>8, GroupsSound

-----------------------------------------------------------------------------
(* The winners of a sweep.                                                 *)

\* The latency comes first in the order of rows.
LEMMA LatencyFirst ==
  ASSUME NEW x, Costed(x), NEW y, Costed(y)
  PROVE  /\ Precedes(CostKey(x), CostKey(y)) => x.cost.latency <= y.cost.latency
         /\ CostKey(x) = CostKey(y) => x.cost.latency <= y.cost.latency
         /\ x.cost.latency < y.cost.latency => Precedes(CostKey(x), CostKey(y))
<1> DEFINE s == CostKey(x)
           t == CostKey(y)
<1>1. s \in [1 .. 4 -> Nat] /\ t \in [1 .. 4 -> Nat]
  BY KeysOfCosts
<1>2. s[1] = x.cost.latency /\ t[1] = y.cost.latency
  BY DEF CostKey
<1> HIDE DEF s, t
<1>3. s[1] \in Nat /\ t[1] \in Nat /\ DOMAIN s = 1 .. 4
  BY <1>1
<1>4. ASSUME Precedes(s, t) PROVE s[1] <= t[1]
  <2>1. PICK i \in 1 .. 4 : s[i] < t[i] /\ \A j \in 1 .. i - 1 : s[j] = t[j]
    BY <1>3, <1>4 DEF Precedes
  <2>2. CASE i = 1
    BY <1>3, <2>1, <2>2
  <2>3. CASE i # 1
    BY <1>3, <2>1, <2>3
  <2> QED
    BY <2>2, <2>3
<1>5. ASSUME s[1] < t[1] PROVE Precedes(s, t)
  BY <1>3, <1>5 DEF Precedes
<1> QED
  BY <1>2, <1>3, <1>4, <1>5 DEF s, t

\* The least of what is kept is one of the rows, and none is faster.
LEMMA LeastIsFastest ==
  ASSUME NEW table, NEW places \in SUBSET Nat, places # {}, \A i \in places : Costed(table[i])
  PROVE  LET best == Least(Kept(table, places, [i \in places |-> CostKey(table[i])]), CostKey)
         IN  /\ best \in {table[i] : i \in places}
             /\ \A i \in places : best.cost.latency <= table[i].cost.latency
<1> DEFINE key == [i \in places |-> CostKey(table[i])]
           kept == Kept(table, places, key)
           best == Least(kept, CostKey)
           legal == {table[i] : i \in places}
           k == [row \in kept |-> CostKey(row)]
<1>1. key \in [places -> [1 .. 4 -> Nat]] /\ \A i \in places : key[i] = CostKey(table[i])
  BY KeysOfCosts
<1> HIDE DEF key
<1>2. \A i \in places : \E row \in kept : row.state = table[i].state
  BY <1>1, StateKept
<1>3. kept # {}
  BY <1>2
<1>4. \A row \in kept : \E m \in places :
        /\ row = table[m]
        /\ \A j \in places : table[j].state = table[m].state =>
             Precedes(key[m], key[j]) \/ key[m] = key[j]
  BY DEF Kept
<1> HIDE DEF kept
<1>5. kept \subseteq legal /\ \A row \in kept : Costed(row)
  BY <1>4
<1>6. k \in [kept -> [1 .. 4 -> Nat]] /\ \A row \in kept : k[row] = CostKey(row)
  BY <1>5, KeysOfCosts
<1> HIDE DEF k
<1>7. \E x \in kept : \A y \in kept : ~Precedes(CostKey(y), CostKey(x))
  <2>1. \E x \in kept : \A y \in kept : ~Precedes(k[y], k[x])
    BY <1>3, <1>6, LeastKey
  <2> QED
    BY <1>6, <2>1
<1>8. best \in kept /\ \A y \in kept : ~Precedes(CostKey(y), CostKey(best))
  BY <1>7 DEF Least
<1> HIDE DEF best
<1>9. ASSUME NEW i \in places PROVE best.cost.latency <= table[i].cost.latency
  <2>1. PICK row \in kept : row.state = table[i].state
    BY <1>2
  <2>2. PICK m \in places : row = table[m] /\ (Precedes(key[m], key[i]) \/ key[m] = key[i])
    BY <1>4, <2>1
  <2>3. row.cost.latency <= table[i].cost.latency
    BY <1>1, <1>5, <2>2, LatencyFirst
  <2>4. ~(row.cost.latency < best.cost.latency)
    BY <1>5, <1>8, LatencyFirst
  <2>5. row.cost.latency \in Nat /\ best.cost.latency \in Nat /\ table[i].cost.latency \in Nat
    BY <1>5, <1>8 DEF Costed, Costs
  <2> QED
    BY <2>3, <2>4, <2>5
<1>10. best \in legal /\ \A i \in places : best.cost.latency <= table[i].cost.latency
  BY <1>5, <1>8, <1>9
<1> QED
  BY <1>10 DEF best, kept, key, legal

\* An outcome is that of a workload on an architecture, in a group.
LEMMA SameOutcome ==
  ASSUME NEW r, NEW t, NEW u, t.group = u.group, t.arch = u.arch, t.file.state = u.file.state
  PROVE  LET x == OutcomeOf(r, t)
             y == OutcomeOf(r, u)
         IN  /\ x.status = y.status /\ x.state = y.state /\ x.cost = y.cost
             /\ x.group = t.group
<1>1. ASSUME NEW state, NEW hashed
      PROVE  LET x == Judged(t, state, hashed)
                 y == Judged(u, state, hashed)
             IN  /\ x.status = y.status /\ x.state = y.state /\ x.cost = y.cost
                 /\ x.group = t.group
  <2> DEFINE result == Outcome(state, t.arch)
  <2>1. CASE state = Unreadable \/ result.status = "error"
    BY <2>1 DEF Judged, Row
  <2>2. CASE ~(state = Unreadable \/ result.status = "error")
    BY <2>2 DEF Judged, Row
  <2> QED
    BY <2>1, <2>2
<1>2. CASE r.kind = "buffer"
  <2> DEFINE w == WithCache(t.file.state)
  <2>1. OutcomeOf(r, t) = Judged(t, w, w) /\ OutcomeOf(r, u) = Judged(u, w, w)
    BY <1>2 DEF OutcomeOf, EvaluatedWithCache
  <2> HIDE DEF w
  <2> QED
    BY <1>1, <2>1
<1>3. CASE r.kind # "buffer"
  <2> DEFINE st == t.file.state
             w == IF t.group = 1 THEN st ELSE WithCache(st)
  <2>1. OutcomeOf(r, t) = Judged(t, w, st) /\ OutcomeOf(r, u) = Judged(u, w, st)
    BY <1>3 DEF OutcomeOf, EvaluatedInConfig
  <2> HIDE DEF w, st
  <2> QED
    BY <1>1, <2>1
<1> QED
  BY <1>2, <1>3

\* The results of a sweep, and the winners that are picked of them.
OutcomesOf(r) == [i \in DOMAIN SweepTasks(r) |-> OutcomeOf(r, SweepTasks(r)[i])]

Winning(r, best) ==
  /\ ~Failing(OutcomesOf(r), GroupsOf(r))
  /\ best = Winners(OutcomesOf(r), GroupsOf(r))

\* The winners of a sweep are the fastest that it was to consider.
LEMMA WinnersAreBest ==
  ASSUME NEW r, SoundSweep(r), NEW best, Winning(r, best), NEW g \in DOMAIN best
  PROVE  LET outcomes == {x \in {OutcomeOf(r, TaskFor(r, g, f)) : f \in Eligible(r, g)} : x.status = "ok"}
         IN  /\ \E x \in outcomes : x.cost = best[g].cost /\ x.state = best[g].state
             /\ \A x \in outcomes : x.cost.latency >= best[g].cost.latency
<1> DEFINE list == SweepTasks(r)
           plan == ToSet(list)
           table == OutcomesOf(r)
           places == {i \in Successes(table) : table[i].group = g}
           key == [i \in places |-> CostKey(table[i])]
           outcomes == {x \in {OutcomeOf(r, TaskFor(r, g, f)) : f \in Eligible(r, g)} : x.status = "ok"}
<1>1. g \in GroupsOf(r)
  BY DEF Winning, Winners
<1>2. DOMAIN list = 1 .. Len(list) /\ Len(list) \in Nat /\ DOMAIN table = DOMAIN list
      /\ \A i \in DOMAIN list : table[i] = OutcomeOf(r, list[i]) /\ list[i] \in plan
  BY DEF SoundSweep, Listing, OutcomesOf, ToSet
<1>3. /\ \A t \in plan : /\ t.arch = ArchOf(r, t.group) /\ t.file \in Eligible(r, t.group)
                         /\ Numbered(OutcomeOf(r, t))
      /\ \A f \in Eligible(r, g) : \E t \in plan : t.group = g /\ Key(t.file) = Key(f)
  BY <1>1 DEF SoundSweep
<1>4. \A t : OutcomeOf(r, t).group = t.group
  BY SameOutcome
<1>5. best[g] = Least(Kept(table, places, key), CostKey)
  <2>1. {row \in Deduped(table, GroupOf, CostKey) : row.group = g} = Kept(table, places, key)
    BY DEF Deduped, GroupOf, Kept
  <2> HIDE DEF table, places, key
  <2>2. best[g] = Least({row \in Deduped(table, GroupOf, CostKey) : row.group = g}, CostKey)
    BY <1>1 DEF Winning, Winners, table
  <2> QED
    BY <2>1, <2>2
<1>6. places # {} /\ places \in SUBSET Nat
  <2>1. Ok(table, g) # {}
    BY <1>1 DEF Winning, Failing
  <2>2. PICK row \in ToSet(table) : row.status = "ok" /\ row.group = g
    BY <2>1 DEF Ok
  <2>3. PICK i \in DOMAIN table : row = table[i]
    BY DEF ToSet
  <2>4. i \in places
    BY <2>2, <2>3 DEF Successes
  <2>5. places \subseteq DOMAIN table
    BY DEF Successes
  <2> HIDE DEF places, table
  <2> QED
    BY <1>2, <2>4, <2>5
<1> HIDE DEF table, list, plan
<1>7. ASSUME NEW i \in places
      PROVE  /\ i \in DOMAIN list /\ table[i] = OutcomeOf(r, list[i]) /\ list[i] \in plan
             /\ table[i].status = "ok" /\ list[i].group = g
  <2>1. i \in DOMAIN table /\ table[i].status = "ok" /\ table[i].group = g
    BY DEF Successes
  <2> QED
    BY <1>2, <1>4, <2>1
<1> HIDE DEF places
<1>8. \A i \in places : Costed(table[i])
  BY <1>3, <1>7 DEF Numbered, Costed
<1>9. /\ best[g] \in {table[i] : i \in places}
      /\ \A i \in places : best[g].cost.latency <= table[i].cost.latency
  BY <1>5, <1>6, <1>8, LeastIsFastest
<1>10. ASSUME NEW t \in plan, t.group = g, NEW f, Key(t.file) = Key(f)
       PROVE  LET x == OutcomeOf(r, TaskFor(r, g, f))
                  y == OutcomeOf(r, t)
              IN  x.status = y.status /\ x.state = y.state /\ x.cost = y.cost
  <2> DEFINE u == TaskFor(r, g, f)
  <2>1. u.group = t.group /\ u.arch = t.arch /\ u.file.state = t.file.state
    BY <1>3, <1>10 DEF TaskFor, Key
  <2> HIDE DEF u
  <2> QED
    BY <2>1, SameOutcome DEF u
<1>11. \E x \in outcomes : x.cost = best[g].cost /\ x.state = best[g].state
  <2>1. PICK i \in places : best[g] = table[i]
    BY <1>9
  <2> DEFINE t == list[i]
             x == OutcomeOf(r, TaskFor(r, g, t.file))
  <2>2. t \in plan /\ t.group = g /\ t.file \in Eligible(r, g) /\ table[i] = OutcomeOf(r, t)
        /\ table[i].status = "ok"
    BY <1>3, <1>7
  <2> HIDE DEF t
  <2>3. x.status = "ok" /\ x.state = table[i].state /\ x.cost = table[i].cost
    BY <1>10, <2>2
  <2>4. x \in outcomes
    BY <2>2, <2>3
  <2> HIDE DEF x, outcomes
  <2> QED
    BY <2>1, <2>3, <2>4
<1>12. ASSUME NEW x \in outcomes PROVE x.cost.latency >= best[g].cost.latency
  <2>1. PICK f \in Eligible(r, g) : x = OutcomeOf(r, TaskFor(r, g, f)) /\ x.status = "ok"
    OBVIOUS
  <2>2. PICK t \in plan : t.group = g /\ Key(t.file) = Key(f)
    BY <1>3
  <2> DEFINE y == OutcomeOf(r, t)
  <2>3. x.status = y.status /\ x.cost = y.cost
    BY <1>10, <2>1, <2>2
  <2>4. PICK i \in DOMAIN list : t = list[i]
    BY DEF plan, ToSet
  <2>5. i \in places
    BY <1>2, <1>4, <2>1, <2>2, <2>3, <2>4 DEF places, Successes
  <2>6. table[i] = y
    BY <1>2, <2>4
  <2>7. best[g].cost.latency <= x.cost.latency
    BY <1>9, <2>3, <2>5, <2>6
  <2>8. x.cost.latency \in Nat /\ best[g].cost.latency \in Nat
    BY <1>8, <1>9, <2>3, <2>5, <2>6 DEF Costed, Costs
  <2> QED
    BY <2>7, <2>8
<1> QED
  BY <1>11, <1>12

-----------------------------------------------------------------------------
(* A sweep, from its plan to its winners.                                  *)

\* The commands that evaluate mappings for variants or configs.
Sweeps == {"buffer", "activation"}

Granted(r) ==
  \/ r.kind = "buffer" /\ ~BufferRefused(r) /\ r.variants # {}
  \/ r.kind = "activation" /\ ~ActivationRefused(r, BaselineGeometry) /\ ~PoolsFail(r)

Promised == \A r \in ToSet(script) : Granted(r) => SoundSweep(r)

\* Every result is that of its task.
Sweeping ==
  pc \in {"prepare", "evaluate"} /\ request.kind \in Sweeps =>
    /\ SoundSweep(request) /\ tasks = SweepTasks(request)
    /\ \A j \in DOMAIN rows : j \in DOMAIN tasks /\ rows[j] = OutcomeOf(request, tasks[j])

\* The winners are to be written, or there, and as they should be.
Awarding ==
  pc \in {"write", "done"} /\ request.kind \in Sweeps =>
    /\ SoundSweep(request)
    /\ \A i \in DOMAIN todo : todo[i].name = "best" => Winning(request, todo[i].content)
    /\ \/ "best" \in Pending
       \/ "best" \in NamesIn(at) /\ Winning(request, outputs[at].files["best"].content)

SweepInv == Promised /\ Sweeping /\ Awarding

\* Every script is given with sound sweeps.
LEMMA SweepInit == Init => SweepInv
<1> SUFFICES ASSUME Init PROVE SweepInv
  OBVIOUS
<1>1. script \in Scripts /\ pc = "idle"
  BY DEF Init
<1>2. ASSUME NEW r \in ToSet(script), Granted(r) PROVE SoundSweep(r)
  <2>1. CASE r.kind = "buffer"
    <3>1. ~BufferRefused(r) /\ r.variants # {}
      BY <1>2, <2>1 DEF Granted
    <3>2. VariantsListed(r)
      BY <1>1, <2>1, <3>1, SweepsAssumption
    <3> QED
      BY <2>1, <3>1, <3>2, BufferSound
  <2>2. CASE r.kind = "activation"
    <3>1. ~ActivationRefused(r, BaselineGeometry) /\ ~PoolsFail(r)
      BY <1>2, <2>2 DEF Granted
    <3>2. ConfigsListed(r)
      BY <1>1, <2>2, <3>1, SweepsAssumption
    <3> QED
      BY <2>2, <3>1, <3>2, ActivationSound
  <2> QED
    BY <1>2, <2>1, <2>2 DEF Granted
<1> QED
  BY <1>1, <1>2 DEF SweepInv, Promised, Sweeping, Awarding

\* The sweeps to come are sound.
LEMMA PromisedKept ==
  ASSUME FreshInv, SweepInv, script' = script \/ (script # << >> /\ script' = Tail(script))
  PROVE  Promised'
<1>1. script # << >> => ToSet(Tail(script)) \subseteq ToSet(script)
  BY ComingNext DEF FreshInv
<1> QED
  BY <1>1 DEF SweepInv, Promised

\* A command that ends, or that is no sweep.
LEMMA OtherSweeps ==
  ASSUME FreshInv, SweepInv, script' = script \/ (script # << >> /\ script' = Tail(script)),
         pc' = "idle" \/ request'.kind \notin Sweeps
  PROVE  SweepInv'
<1>1. Promised'
  BY PromisedKept
<1> QED
  BY <1>1 DEF SweepInv, Sweeping, Awarding

\* A sweep begins with what it is to evaluate.
LEMMA SweepBegins ==
  ASSUME OrderInv, FreshInv, SweepInv, script # << >>, NEW r, r = Head(script), Granted(r),
         Begin(r, Fresh(r), Len(outputs) + 1, SweepTasks(r))
  PROVE  SweepInv'
<1> DEFINE plan == SweepTasks(r)
<1>1. request' = r /\ tasks' = plan /\ rows' = << >> /\ pc' = "evaluate" /\ script' = Tail(script)
  <2> HIDE DEF plan
  <2>1. Begin(r, Fresh(r), Len(outputs) + 1, plan)
    BY DEF plan
  <2> QED
    BY <2>1, BeginsAt DEF OrderInv
<1>2. Promised'
  BY <1>1, PromisedKept
<1>3. SoundSweep(r)
  BY ComingNext DEF FreshInv, SweepInv, Promised
<1>4. Sweeping'
  BY <1>1, <1>3 DEF Sweeping
<1> QED
  BY <1>1, <1>2, <1>4 DEF SweepInv, Awarding

\* The beginnings of commands.
LEMMA StartsSweep ==
  ASSUME OrderInv, FreshInv, SweepInv,
         StartPareto \/ StartMerge \/ StartGeometry \/ StartBuffer \/ StartActivation \/ StartRandomSet
  PROVE  SweepInv'
<1> DEFINE r == Head(script)
<1>1. script # << >>
  BY DEF StartPareto, StartMerge, StartGeometry, StartBuffer, StartActivation, StartRandomSet, Ready
<1>2. \A dirs : Raise(r, dirs) => SweepInv'
  BY <1>1, OtherSweeps DEF Raise
<1>3. ASSUME NEW dirs, NEW d, NEW plan, NEW first, BeginWith(r, dirs, d, plan, first), r.kind \notin Sweeps
      PROVE  SweepInv'
  BY <1>1, <1>3, OtherSweeps DEF BeginWith
<1>4. CASE StartPareto
  BY <1>2, <1>3, <1>4 DEF StartPareto, Ready, Begin, Sweeps
<1>5. CASE StartMerge
  BY <1>2, <1>3, <1>5 DEF StartMerge, Ready, Sweeps
<1>6. CASE StartGeometry
  BY <1>2, <1>3, <1>6 DEF StartGeometry, Ready, Begin, Sweeps
<1>7. CASE StartRandomSet
  BY <1>2, <1>3, <1>7 DEF StartRandomSet, Ready, Begin, Sweeps
<1>8. CASE StartBuffer
  <2>1. r.kind = "buffer" /\
          \/ Raise(r, outputs)
          \/ /\ ~BufferRefused(r) /\ r.variants # {}
             /\ Begin(r, Fresh(r), Len(outputs) + 1,
                      VariantTasks(BufferMappings(r), Variants(r.variants), r.target))
    BY <1>8 DEF StartBuffer, Ready
  <2>2. SweepTasks(r) = VariantTasks(BufferMappings(r), Variants(r.variants), r.target)
    BY <2>1 DEF SweepTasks
  <2> QED
    BY <1>1, <1>2, <2>1, <2>2, SweepBegins DEF Granted
<1>9. CASE StartActivation
  <2>1. r.kind = "activation" /\
          \/ Raise(r, outputs) \/ Raise(r, Fresh(r))
          \/ /\ ~ActivationRefused(r, BaselineGeometry) /\ ~PoolsFail(r)
             /\ Begin(r, Fresh(r), Len(outputs) + 1, ActivationTasks(r))
    BY <1>9 DEF StartActivation, Ready
  <2>2. SweepTasks(r) = ActivationTasks(r)
    BY <2>1 DEF SweepTasks
  <2> QED
    BY <1>1, <1>2, <2>1, <2>2, SweepBegins DEF Granted
<1> QED
  BY <1>4, <1>5, <1>6, <1>7, <1>8, <1>9

\* A result is filed under its task.
LEMMA EvaluateSweep ==
  ASSUME OrderInv, FreshInv, SweepInv,
         EvaluateParetoTask \/ EvaluateGeometryTask \/ EvaluateVariantTask \/ EvaluateConfigTask
  PROVE  SweepInv'
<1>1. CASE request.kind \notin Sweeps
  <2>1. UNCHANGED << script, request >>
    BY DEF EvaluateParetoTask, EvaluateGeometryTask, EvaluateVariantTask, EvaluateConfigTask, EvaluateWith
  <2> QED
    BY <1>1, <2>1, OtherSweeps
<1>2. CASE request.kind \in Sweeps
  <2>1. /\ pc = "evaluate" /\ UNCHANGED << script, request, pc, tasks >>
        /\ \E i \in DOMAIN tasks :
             rows' = [j \in DOMAIN rows \cup {i} |-> IF j = i THEN OutcomeOf(request, tasks[i]) ELSE rows[j]]
    <3>1. ~EvaluateParetoTask /\ ~EvaluateGeometryTask
      BY <1>2 DEF EvaluateParetoTask, EvaluateGeometryTask, EvaluateWith, Sweeps
    <3>2. CASE EvaluateVariantTask
      <4>1. request.kind = "buffer"
        BY <1>2, <3>2 DEF EvaluateVariantTask, EvaluateWith, Sweeps
      <4>2. \A t : OutcomeOf(request, t) = EvaluatedWithCache(t)
        BY <4>1 DEF OutcomeOf
      <4> QED
        BY <3>2, <4>2 DEF EvaluateVariantTask, EvaluateWith
    <3>3. CASE EvaluateConfigTask
      <4>1. request.kind = "activation"
        BY <1>2, <3>3 DEF EvaluateConfigTask, EvaluateWith, Sweeps
      <4>2. \A t : OutcomeOf(request, t) = EvaluatedInConfig(t)
        BY <4>1 DEF OutcomeOf
      <4> QED
        BY <3>3, <4>2 DEF EvaluateConfigTask, EvaluateWith
    <3> QED
      BY <3>1, <3>2, <3>3
  <2>2. \A j \in DOMAIN rows : j \in DOMAIN tasks /\ rows[j] = OutcomeOf(request, tasks[j])
    BY <1>2, <2>1 DEF SweepInv, Sweeping
  <2>3. \A j \in DOMAIN rows' : j \in DOMAIN tasks' /\ rows'[j] = OutcomeOf(request', tasks'[j])
    BY <2>1, <2>2
  <2>4. Promised'
    BY <2>1, PromisedKept
  <2>5. Sweeping'
    BY <1>2, <2>1, <2>3 DEF SweepInv, Sweeping
  <2> QED
    BY <2>1, <2>4, <2>5 DEF SweepInv, Awarding
<1> QED
  BY <1>1, <1>2

\* The results of a sweep, when all of it is evaluated.
LEMMA ResultsAre ==
  ASSUME SweepInv, RoundDone, request.kind \in Sweeps
  PROVE  SoundSweep(request) /\ Results = OutcomesOf(request)
<1>1. /\ SoundSweep(request) /\ tasks = SweepTasks(request) /\ DOMAIN rows = DOMAIN tasks
      /\ \A j \in DOMAIN rows : rows[j] = OutcomeOf(request, tasks[j])
  BY DEF SweepInv, Sweeping, RoundDone
<1>2. Results = [i \in DOMAIN tasks |-> OutcomeOf(request, tasks[i])]
  BY <1>1 DEF Results
<1> QED
  BY <1>1, <1>2 DEF OutcomesOf

\* The files of a sweep: the winners are among them, under their own name.
LEMMA BestAmong ==
  ASSUME NEW table, NEW best, NEW more, more = << >> \/ \E c : more = << Output("relative", c) >>
  PROVE  LET files == << Output("evaluations", table), Output("best", best) >> \o more \o Records
         IN  /\ "best" \in NamesOf(files)
             /\ \A i \in DOMAIN files : files[i].name = "best" => files[i].content = best
<1> DEFINE e == Output("evaluations", table)
           f == Output("best", best)
           m == Output("manifest", [arch |-> request.arch, inputs |-> request.inputs])
           s == Output("summary", << >>)
           files == << e, f >> \o more \o Records
<1>1. /\ e.name = "evaluations" /\ f.name = "best" /\ f.content = best
      /\ m.name = "manifest" /\ s.name = "summary" /\ Records = << m, s >>
  BY DEF Output, Records
<1>2. PICK T : more \in Seq(T) /\ \A o \in T : o.name = "relative"
  <2>1. CASE more = << >>
    <3>1. more \in Seq({})
      BY <2>1
    <3> QED
      BY <3>1
  <2>2. ASSUME NEW c, more = << Output("relative", c) >>
        PROVE  \E T : more \in Seq(T) /\ \A o \in T : o.name = "relative"
    <3>1. more \in Seq({Output("relative", c)})
      BY <2>2
    <3>2. Output("relative", c).name = "relative"
      BY DEF Output
    <3> QED
      BY <3>1, <3>2
  <2> QED
    BY <2>1, <2>2
<1> HIDE DEF e, f, m, s
<1> DEFINE S == {e, f, m, s} \cup T
           h == << e, f >> \o more
<1>3. << e, f >> \in Seq(S) /\ more \in Seq(S) /\ << m, s >> \in Seq(S)
  BY <1>2
<1>4. \A o \in S : o.name = "best" => o = f
  BY <1>1, <1>2
<1> HIDE DEF S
<1>5. h \in Seq(S) /\ Len(h) \in Nat /\ Len(h) > 1 /\ h[2] = f
  BY <1>3
<1> HIDE DEF h
<1>6. h \o << m, s >> \in Seq(S) /\ (h \o << m, s >>)[2] = f /\ 2 \in DOMAIN (h \o << m, s >>)
  BY <1>3, <1>5
<1>7. files \in Seq(S) /\ files[2] = f /\ 2 \in DOMAIN files
  BY <1>1, <1>6 DEF h
<1> HIDE DEF files
<1>8. "best" \in NamesOf(files)
  BY <1>1, <1>7 DEF NamesOf
<1>9. \A i \in DOMAIN files : files[i].name = "best" => files[i].content = best
  BY <1>1, <1>4, <1>7
<1> QED
  BY <1>8, <1>9 DEF files, e, f

\* What is selected are the winners.
LEMMA SweepReports ==
  ASSUME FreshInv, SweepInv, NEW files, Report(files), request.kind \in Sweeps, SoundSweep(request),
         NEW best, Winning(request, best), "best" \in NamesOf(files),
         \A i \in DOMAIN files : files[i].name = "best" => files[i].content = best
  PROVE  SweepInv'
<1>1. /\ todo' = files /\ pc' = "write" /\ UNCHANGED << script, outputs, request, at >>
  BY DEF Report
<1>2. Promised'
  BY <1>1, PromisedKept
<1>3. Pending' = NamesOf(files)
  BY <1>1 DEF Pending, NamesOf
<1>4. \A i \in DOMAIN files : files[i].name = "best" => Winning(request, files[i].content)
  OBVIOUS
<1>5. Awarding'
  BY <1>1, <1>3, <1>4 DEF Awarding
<1> QED
  BY <1>1, <1>2, <1>5 DEF SweepInv, Sweeping

\* A sweep selects its winners, or nothing.
LEMMA SelectsSweep ==
  ASSUME OrderInv, FreshInv, SweepInv,
         SelectPareto \/ SelectGeometry \/ SelectBuffer \/ SelectActivation \/ SelectSample
           \/ SelectBestLine \/ SelectLines
  PROVE  SweepInv'
<1> DEFINE groups == GroupsOf(request)
           best == Winners(Results, groups)
           table == Results
           relative == << Output("relative", Relative(best)) >>
           none == << >>
           two == << Output("evaluations", table), Output("best", best) >>
<1>1. CASE NothingToReport
  BY <1>1, OtherSweeps DEF NothingToReport
<1>2. CASE SelectBuffer \/ SelectActivation
  <2>1. /\ RoundDone /\ request.kind \in Sweeps
        /\ \/ NothingToReport
           \/ ~Failing(Results, groups) /\ Report(two \o Records)
           \/ ~Failing(Results, groups) /\ Report(two \o relative \o Records)
    <3>1. CASE SelectBuffer
      BY <3>1 DEF SelectBuffer, Sweeps, WinnerFiles
    <3>2. CASE SelectActivation
      BY <3>2 DEF SelectActivation, Sweeps, WinnerFiles
    <3> QED
      BY <1>2, <3>1, <3>2
  <2>2. SoundSweep(request) /\ Results = OutcomesOf(request)
    BY <2>1, ResultsAre
  <2>3. ~Failing(Results, groups) => Winning(request, best)
    BY <2>2 DEF Winning
  <2>4. two \o none = two
    <3>1. two \in Seq(Range(two))
      BY Two
    <3> HIDE DEF two
    <3> QED
      BY <3>1, ConcatEmptySeq
  <2> HIDE DEF best, table
  <2>5. ASSUME NEW more, more = none \/ more = relative, Winning(request, best),
               Report(two \o more \o Records)
        PROVE  SweepInv'
    <3> DEFINE files == two \o more \o Records
    <3>1. more = << >> \/ \E c : more = << Output("relative", c) >>
      BY <2>5
    <3>2. /\ "best" \in NamesOf(files)
          /\ \A i \in DOMAIN files : files[i].name = "best" => files[i].content = best
      BY <3>1, BestAmong
    <3>3. Report(files)
      BY <2>5
    <3> HIDE DEF files
    <3> QED
      BY <2>1, <2>2, <2>5, <3>2, <3>3, SweepReports
  <2> HIDE DEF two, relative
  <2>6. CASE ~Failing(Results, groups) /\ Report(two \o Records)
    <3>1. Report(two \o none \o Records)
      BY <2>4, <2>6
    <3> HIDE DEF none
    <3> QED
      BY <2>3, <2>5, <2>6, <3>1
  <2>7. CASE ~Failing(Results, groups) /\ Report(two \o relative \o Records)
    BY <2>3, <2>5, <2>7
  <2> QED
    BY <1>1, <2>1, <2>6, <2>7
<1>3. CASE SelectPareto \/ SelectGeometry \/ SelectSample \/ SelectBestLine \/ SelectLines
  <2>1. request.kind \notin Sweeps
    BY <1>3 DEF SelectPareto, SelectGeometry, SelectSample, SelectBestLine, SelectLines, Sweeps
  <2>2. NothingToReport \/ UNCHANGED << script, request >>
    <3>1. CASE SelectPareto
      BY <3>1 DEF SelectPareto, Report
    <3>2. CASE SelectGeometry
      BY <3>2 DEF SelectGeometry, Report
    <3>3. CASE SelectSample
      BY <3>3 DEF SelectSample, NextRound
    <3>4. CASE SelectBestLine
      BY <3>4 DEF SelectBestLine, NextRound
    <3>5. CASE SelectLines
      BY <3>5 DEF SelectLines, Report
    <3> QED
      BY <1>3, <3>1, <3>2, <3>3, <3>4, <3>5
  <2> QED
    BY <1>1, <2>1, <2>2, OtherSweeps
<1> QED
  BY <1>2, <1>3

\* The winners that are written are those that were selected.
LEMMA WriteSweep == OrderInv /\ FreshInv /\ SweepInv /\ WriteFile => SweepInv'
<1> SUFFICES ASSUME OrderInv, FreshInv, SweepInv, WriteFile PROVE SweepInv'
  OBVIOUS
<1> DEFINE n == Head(todo).name
           f == File(Head(todo).content)
<1>1. f.by = command /\ f.content = Head(todo).content
  BY DEF File
<1>2. /\ outputs' = [outputs EXCEPT ![at] = With(@, n, f)] /\ todo' = Tail(todo)
      /\ pc \in {"prepare", "write"} /\ todo # << >>
      /\ pc' = IF Tail(todo) # << >> THEN pc ELSE IF pc = "write" THEN "done" ELSE "evaluate"
      /\ UNCHANGED << script, command, at, request, tasks, rows >>
  BY DEF WriteFile
<1> HIDE DEF f
<1>3. /\ Written(n, f) /\ 1 \in DOMAIN todo /\ Head(todo) = todo[1]
      /\ pc = "prepare" => Tail(todo) = << >>
  BY <1>1, <1>2, HeadWritten
<1>4. Promised'
  BY <1>2, PromisedKept
<1>5. CASE pc = "prepare"
  BY <1>2, <1>3, <1>4, <1>5 DEF SweepInv, Sweeping, Awarding
<1>6. CASE pc = "write" /\ request.kind \notin Sweeps
  BY <1>2, <1>6, OtherSweeps
<1>7. CASE pc = "write" /\ request.kind \in Sweeps
  <2>1. pc' \in {"write", "done"}
    BY <1>2, <1>7
  <2>2. /\ SoundSweep(request)
        /\ \A i \in DOMAIN todo : todo[i].name = "best" => Winning(request, todo[i].content)
        /\ \/ "best" \in Pending
           \/ "best" \in NamesIn(at) /\ Winning(request, outputs[at].files["best"].content)
    BY <1>7 DEF SweepInv, Awarding
  <2>3. /\ DOMAIN outputs'[at].files = NamesIn(at) \cup {n}
        /\ \A m \in DOMAIN outputs'[at].files : outputs'[at].files[m] = IF m = n THEN f ELSE outputs[at].files[m]
    BY <1>2, <1>3, FileWritten DEF NamesIn
  <2>4. /\ \A i \in DOMAIN todo : i = 1 \/ (i - 1 \in DOMAIN todo' /\ todo'[i - 1] = todo[i])
        /\ \A i \in DOMAIN todo' : i + 1 \in DOMAIN todo /\ todo'[i] = todo[i + 1]
    <3>1. todo \in Seq(Range(todo)) /\ todo # << >>
      BY <1>7 DEF OrderInv, Writing
    <3>2. /\ Len(todo) \in Nat \ {0} /\ DOMAIN todo = 1 .. Len(todo)
          /\ DOMAIN Tail(todo) = 1 .. Len(todo) - 1
          /\ \A i \in 1 .. Len(todo) - 1 : Tail(todo)[i] = todo[i + 1]
      BY <3>1, EmptySeq
    <3> QED
      BY <1>2, <3>2
  <2>5. \A i \in DOMAIN todo' : todo'[i].name = "best" => Winning(request, todo'[i].content)
    BY <2>2, <2>4
  <2>6. \/ "best" \in Pending'
        \/ "best" \in DOMAIN outputs'[at].files /\ Winning(request, outputs'[at].files["best"].content)
    <3>1. CASE n = "best"
      <4>1. Winning(request, f.content)
        BY <1>1, <1>3, <2>2, <3>1
      <4> QED
        BY <2>3, <3>1, <4>1
    <3>2. CASE n # "best" /\ "best" \in Pending
      <4>1. PICK i \in DOMAIN todo : todo[i].name = "best"
        BY <3>2 DEF Pending
      <4>2. i # 1
        BY <1>3, <3>2, <4>1
      <4> QED
        BY <2>4, <4>1, <4>2 DEF Pending
    <3>3. CASE n # "best" /\ "best" \notin Pending
      BY <2>2, <2>3, <3>3
    <3> QED
      BY <3>1, <3>2, <3>3
  <2>7. Awarding'
    BY <1>2, <2>2, <2>5, <2>6 DEF Awarding, NamesIn
  <2> QED
    BY <1>4, <2>1, <2>7 DEF SweepInv, Sweeping
<1> QED
  BY <1>2, <1>5, <1>6, <1>7

\* Every step keeps sweeps and winners as they should be.
LEMMA SweepNext == OrderInv /\ FreshInv /\ SweepInv /\ [Next]_vars => SweepInv'
<1> SUFFICES ASSUME OrderInv, FreshInv, SweepInv, [Next]_vars PROVE SweepInv'
  OBVIOUS
<1>1. CASE StartPareto \/ StartMerge \/ StartGeometry \/ StartBuffer \/ StartActivation \/ StartRandomSet
  BY <1>1, StartsSweep
<1>2. CASE EvaluateParetoTask \/ EvaluateGeometryTask \/ EvaluateVariantTask \/ EvaluateConfigTask
  BY <1>2, EvaluateSweep
<1>3. CASE SelectPareto \/ SelectGeometry \/ SelectBuffer \/ SelectActivation \/ SelectSample
             \/ SelectBestLine \/ SelectLines
  BY <1>3, SelectsSweep
<1>4. CASE WriteFile
  BY <1>4, WriteSweep
<1>5. CASE PoolFails \/ KilledWriting \/ Killed
  <2>1. script' = script /\ pc' = "idle"
    BY <1>5 DEF PoolFails, KilledWriting, Killed
  <2> QED
    BY <2>1, OtherSweeps
<1>6. CASE UNCHANGED vars
  BY <1>6 DEF vars, SweepInv, Promised, Sweeping, Awarding, NamesIn, Pending
<1> QED
  BY <1>1, <1>2, <1>3, <1>4, <1>5, <1>6 DEF Next

\* Whenever a buffer or an activation sweep is done, the winner of a variant or
\* config is the outcome of one of the mappings that it is to consider, and none
\* of them is faster: a config that includes another's pool considers all of it,
\* and a cap leaves out what it excludes and nothing else
\* (_discover_unique_mappings, _select_best_latency_rows).
THEOREM WinnersAreFastest == Spec => []WinnersBest
<1>1. FreshInv /\ SweepInv => WinnersBest
  <2> SUFFICES ASSUME FreshInv, SweepInv, Done({"buffer", "activation"}), NEW g \in DOMAIN Content("best")
               PROVE  LET outcomes == {r \in {OutcomeOf(request, TaskFor(request, g, f)) : f \in Eligible(request, g)} :
                                         r.status = "ok"}
                          best == Content("best")[g]
                      IN  /\ \E r \in outcomes : r.cost = best.cost /\ r.state = best.state
                          /\ \A r \in outcomes : r.cost.latency >= best.cost.latency
    BY DEF WinnersBest
  <2>1. pc = "done" /\ request.kind \in Sweeps /\ todo = << >>
    BY DEF Done, Sweeps, FreshInv, Ending
  <2>2. Pending = {}
    BY <2>1 DEF Pending
  <2>3. SoundSweep(request) /\ Winning(request, Content("best"))
    BY <2>1, <2>2 DEF SweepInv, Awarding, Content
  <2> DEFINE best == Content("best")
  <2>4. g \in DOMAIN best /\ Winning(request, best)
    BY <2>3
  <2> HIDE DEF best
  <2>5. LET outcomes == {r \in {OutcomeOf(request, TaskFor(request, g, f)) : f \in Eligible(request, g)} :
                           r.status = "ok"}
        IN  /\ \E r \in outcomes : r.cost = best[g].cost /\ r.state = best[g].state
            /\ \A r \in outcomes : r.cost.latency >= best[g].cost.latency
    BY <2>3, <2>4, WinnersAreBest
  <2> QED
    BY <2>5 DEF best
<1>2. Init => OrderInv /\ FreshInv /\ SweepInv
  BY OrderInvInit, FreshInit, SweepInit
<1>3. OrderInv /\ FreshInv /\ SweepInv /\ [Next]_vars => (OrderInv /\ FreshInv /\ SweepInv)'
  BY OrderInvNext, FreshNext, SweepNext
<1> QED
  BY <1>1, <1>2, <1>3, PTL DEF Spec
=============================================================================
