--------------------------- MODULE FrontierProofs ---------------------------
(***************************************************************************)
(* What holds of the sweep of three metrics and of the composition of a    *)
(* network's frontier for every set of rows, every multiplicity, and every *)
(* size of batches, limits and buckets.                                    *)
(***************************************************************************)
EXTENDS FrontierCompose, FiniteSetTheorems, FunctionTheorems, WellFoundedInduction, TLAPS

-----------------------------------------------------------------------------
(* Numbers and recursion.                                                  *)

LEMMA Least ==
  ASSUME NEW S \in SUBSET Nat, S # {}
  PROVE  \E m \in S : \A u \in S : m <= u
<1> DEFINE R == OpToRel(<, Nat)
<1>1. IsWellFoundedOn(R, Nat)
  BY NatLessThanWellFounded
<1> HIDE DEF R
<1>2. PICK m \in S : \A u \in S : ~(<< u, m >> \in R)
  BY <1>1, WFMin
<1>3. ASSUME NEW u \in S PROVE m <= u
  <2> SUFFICES ASSUME u < m PROVE FALSE
    OBVIOUS
  <2>1. << u, m >> \in Nat \X Nat
    OBVIOUS
  <2>2. << u, m >> \in R
    BY <2>1 DEF R, OpToRel
  <2> QED
    BY <1>2, <2>2
<1> QED
  BY <1>3

LEMMA Halves ==
  ASSUME NEW i \in Nat \ {0}
  PROVE  /\ i % 2 = 1 => i = 2 * (i \div 2) + 1
         /\ i % 2 # 1 => i = 2 * (i \div 2) /\ i \div 2 \in Nat \ {0} /\ i \div 2 < i
OBVIOUS

\* A value of V for 0, and one for i from the value for prev[i].
Recurrence(V, base, prev, step) ==
  /\ base \in V
  /\ \A i \in Nat \ {0} : prev[i] \in Nat /\ prev[i] < i
  /\ \A i \in Nat \ {0}, v \in V : step[<< i, v >>] \in V

Solves(f, base, prev, step) ==
  f[0] = base /\ \A i \in Nat \ {0} : f[i] = step[<< i, f[prev[i]] >>]

\* A function of a number may be defined from its value at a lower number.
LEMMA Recursion ==
  ASSUME NEW V, NEW base, NEW prev, NEW step, Recurrence(V, base, prev, step)
  PROVE  \E f \in [Nat -> V] : Solves(f, base, prev, step)
<1> USE DEF Recurrence
<1> DEFINE Closed(R) ==
             /\ << 0, base >> \in R
             /\ \A i \in Nat \ {0}, v \in V :
                  << prev[i], v >> \in R => << i, step[<< i, v >>] >> \in R
           G == {x \in Nat \X V : \A R \in SUBSET (Nat \X V) : Closed(R) => x \in R}
           Single(i) == \E v \in V : << i, v >> \in G /\ \A u \in V : << i, u >> \in G => u = v
           Bad == {i \in Nat : ~Single(i)}
<1>1. Closed(G)
  <2>1. << 0, base >> \in G
    OBVIOUS
  <2>2. ASSUME NEW i \in Nat \ {0}, NEW v \in V, << prev[i], v >> \in G
        PROVE  << i, step[<< i, v >>] >> \in G
    BY <2>2
  <2> QED
    BY <2>1, <2>2
<1>2. G \in SUBSET (Nat \X V)
  OBVIOUS
<1>3. \A R \in SUBSET (Nat \X V) : Closed(R) => G \subseteq R
  OBVIOUS
<1> HIDE DEF G
<1>4. Single(0)
  <2> SUFFICES ASSUME NEW u \in V, << 0, u >> \in G, u # base PROVE FALSE
    BY <1>1
  <2>1. Closed(G \ {<< 0, u >>})
    BY <1>1
  <2> QED
    BY <1>2, <1>3, <2>1
<1>5. ASSUME NEW i \in Nat \ {0}, Single(prev[i]) PROVE Single(i)
  <2>1. PICK v \in V : << prev[i], v >> \in G /\ \A u \in V : << prev[i], u >> \in G => u = v
    BY <1>5
  <2>2. step[<< i, v >>] \in V /\ << i, step[<< i, v >>] >> \in G
    BY <1>1, <2>1
  <2> SUFFICES ASSUME NEW u \in V, << i, u >> \in G, u # step[<< i, v >>] PROVE FALSE
    BY <2>2
  <2>3. Closed(G \ {<< i, u >>})
    BY <1>1, <2>1, <2>2
  <2> QED
    BY <1>2, <1>3, <2>3
<1>6. \A i \in Nat : Single(i)
  <2> SUFFICES ASSUME Bad # {} PROVE FALSE
    OBVIOUS
  <2>1. PICK m \in Bad : \A u \in Bad : m <= u
    BY Least
  <2> HIDE DEF Single
  <2>2. m # 0
    BY <1>4
  <2>3. prev[m] \in Nat /\ prev[m] < m
    BY <2>2
  <2>4. Single(prev[m])
    BY <2>1, <2>3
  <2> QED
    BY <1>5, <2>2, <2>4
<1> DEFINE f == [i \in Nat |-> CHOOSE v \in V : << i, v >> \in G]
<1>7. \A i \in Nat : f[i] \in V /\ << i, f[i] >> \in G /\ \A u \in V : << i, u >> \in G => u = f[i]
  BY <1>6
<1>8. f \in [Nat -> V]
  BY <1>7
<1> HIDE DEF f
<1>9. f[0] = base
  BY <1>1, <1>7
<1>10. ASSUME NEW i \in Nat \ {0} PROVE f[i] = step[<< i, f[prev[i]] >>]
  BY <1>1, <1>7
<1> QED
  BY <1>8, <1>9, <1>10 DEF Solves

-----------------------------------------------------------------------------
(* The nodes of the tree.                                                  *)

LEMMA LowBits ==
  /\ LowBit \in [Nat \ {0} -> Nat \ {0}]
  /\ \A i \in Nat \ {0} : LowBit[i] = IF i % 2 = 1 THEN 1 ELSE 2 * LowBit[i \div 2]
<1> DEFINE V == Nat \ {0}
           prev == [i \in Nat \ {0} |-> IF i % 2 = 1 THEN 0 ELSE i \div 2]
           step == [x \in (Nat \ {0}) \X V |-> IF x[1] % 2 = 1 THEN 1 ELSE 2 * x[2]]
           Rec(f) == f = [i \in Nat \ {0} |-> IF i % 2 = 1 THEN 1 ELSE 2 * f[i \div 2]]
<1>1. \A i \in Nat \ {0} : prev[i] \in Nat /\ prev[i] < i
  BY Halves
<1>2. \A i \in Nat \ {0}, v \in V : step[<< i, v >>] = IF i % 2 = 1 THEN 1 ELSE 2 * v
  OBVIOUS
<1>3. ASSUME NEW i \in Nat \ {0}, NEW v \in V PROVE step[<< i, v >>] \in V
  <2>1. step[<< i, v >>] = IF i % 2 = 1 THEN 1 ELSE 2 * v
    BY <1>2
  <2> HIDE DEF step
  <2> QED
    BY <2>1
<1>4. \A i \in Nat \ {0} : prev[i] = IF i % 2 = 1 THEN 0 ELSE i \div 2
  OBVIOUS
<1>0. V = Nat \ {0} /\ 1 \in V
  OBVIOUS
<1> HIDE DEF prev, step, V
<1>5. PICK g \in [Nat -> V] : Solves(g, 1, prev, step)
  <2>1. Recurrence(V, 1, prev, step)
    BY <1>0, <1>1, <1>3 DEF Recurrence
  <2> QED
    BY <2>1, Recursion
<1> DEFINE f == [i \in Nat \ {0} |-> g[i]]
<1>6. ASSUME NEW i \in Nat \ {0}
      PROVE  f[i] = IF i % 2 = 1 THEN 1 ELSE 2 * f[i \div 2]
  BY <1>0, <1>1, <1>2, <1>4, <1>5, Halves DEF Solves
<1>7. Rec(f)
  BY <1>6
<1>8. LowBit = CHOOSE h : Rec(h)
  BY DEF LowBit
<1>9. Rec(LowBit)
  BY <1>7, <1>8
<1>10. ASSUME NEW i \in Nat \ {0}
       PROVE  LowBit[i] = IF i % 2 = 1 THEN 1 ELSE 2 * LowBit[i \div 2]
  BY <1>9
<1>11. \A i \in Nat \ {0} : LowBit[i] \in Nat \ {0}
  <2> DEFINE Bad == {i \in Nat \ {0} : LowBit[i] \notin Nat \ {0}}
  <2> SUFFICES ASSUME Bad # {} PROVE FALSE
    OBVIOUS
  <2>1. PICK m \in Bad : \A u \in Bad : m <= u
    <3>1. Bad \in SUBSET Nat
      OBVIOUS
    <3> QED
      BY <3>1, Least
  <2>2. CASE m % 2 = 1
    BY <1>10, <2>2
  <2>3. CASE m % 2 # 1
    <3>1. m \div 2 \in Nat \ {0} /\ m \div 2 < m
      BY <2>3, Halves
    <3>2. LowBit[m \div 2] \in Nat \ {0}
      BY <2>1, <3>1
    <3> QED
      BY <1>10, <2>3, <3>2
  <2> QED
    BY <2>2, <2>3
<1>12. LowBit = [i \in Nat \ {0} |-> LowBit[i]]
  BY <1>9
<1> QED
  BY <1>10, <1>11, <1>12

\* No node between those of a query and its index reaches beyond the index.
LEMMA NoNodeBetween ==
  \A j \in Nat \ {0}, i \in Nat \ {0} : j - LowBit[j] < i /\ i < j => i + LowBit[i] <= j
<1> DEFINE Sound(j) == \A i \in Nat \ {0} :
                         j - LowBit[j] < i /\ i < j => i + LowBit[i] <= j
           Bad == {j \in Nat \ {0} : ~Sound(j)}
<1> SUFFICES ASSUME Bad # {} PROVE FALSE
  OBVIOUS
<1>1. PICK j \in Bad : \A u \in Bad : j <= u
  <2>1. Bad \in SUBSET Nat
    OBVIOUS
  <2> QED
    BY <2>1, Least
<1>2. PICK i \in Nat \ {0} : j - LowBit[j] < i /\ i < j /\ ~(i + LowBit[i] <= j)
  OBVIOUS
<1>3. LowBit[i] \in Nat \ {0} /\ LowBit[j] \in Nat \ {0}
  BY LowBits
<1>4. j % 2 # 1
  <2> SUFFICES ASSUME j % 2 = 1 PROVE FALSE
    OBVIOUS
  <2>1. LowBit[j] = 1
    BY LowBits
  <2> QED
    BY <1>2, <2>1
<1>5. i % 2 # 1
  <2> SUFFICES ASSUME i % 2 = 1 PROVE FALSE
    OBVIOUS
  <2>1. LowBit[i] = 1
    BY LowBits
  <2> QED
    BY <1>2, <2>1
<1>6. PICK m \in Nat \ {0} : j = 2 * m /\ m < j /\ LowBit[j] = 2 * LowBit[m]
  BY <1>4, Halves, LowBits
<1>7. PICK k \in Nat \ {0} : i = 2 * k /\ LowBit[i] = 2 * LowBit[k]
  BY <1>5, Halves, LowBits
<1>8. LowBit[m] \in Nat \ {0} /\ LowBit[k] \in Nat \ {0}
  BY LowBits
<1>9. Sound(m)
  BY <1>1, <1>6
<1>10. m - LowBit[m] < k /\ k < m
  BY <1>2, <1>6, <1>7, <1>8
<1>11. k + LowBit[k] <= m
  BY <1>9, <1>10
<1> QED
  BY <1>2, <1>6, <1>7, <1>8, <1>11

\* A query goes down to 0, one lowest bit at a time.
LEMMA Downward == \A j \in Nat \ {0} : LowBit[j] <= j
<1> DEFINE Bad == {j \in Nat \ {0} : ~(LowBit[j] <= j)}
<1> SUFFICES ASSUME Bad # {} PROVE FALSE
  OBVIOUS
<1>1. PICK j \in Bad : \A u \in Bad : j <= u
  <2>1. Bad \in SUBSET Nat
    OBVIOUS
  <2> QED
    BY <2>1, Least
<1>2. CASE j % 2 = 1
  BY <1>2, LowBits
<1>3. CASE j % 2 # 1
  <2>1. j = 2 * (j \div 2) /\ j \div 2 \in Nat \ {0} /\ j \div 2 < j
    BY <1>3, Halves
  <2>2. LowBit[j] = 2 * LowBit[j \div 2] /\ LowBit[j \div 2] \in Nat
    BY <1>3, <2>1, LowBits
  <2>3. LowBit[j \div 2] <= j \div 2
    BY <1>1, <2>1
  <2> HIDE DEF Bad
  <2> QED
    BY <2>1, <2>2, <2>3, <1>1 DEF Bad
<1> QED
  BY <1>2, <1>3

LEMMA QueryPaths ==
  /\ QueryPath[0] = {}
  /\ \A j \in Nat \ {0} :
       /\ j - LowBit[j] \in Nat /\ j - LowBit[j] < j
       /\ QueryPath[j] = {j} \cup QueryPath[j - LowBit[j]]
<1> DEFINE V == SUBSET Nat
           prev == [j \in Nat \ {0} |-> j - LowBit[j]]
           step == [x \in (Nat \ {0}) \X V |-> {x[1]} \cup x[2]]
           Rec(f) == f = [j \in Nat |-> IF j = 0 THEN {} ELSE {j} \cup f[j - LowBit[j]]]
<1>0. V = SUBSET Nat /\ {} \in V
  OBVIOUS
<1>1. ASSUME NEW j \in Nat \ {0}
      PROVE  prev[j] = j - LowBit[j] /\ prev[j] \in Nat /\ prev[j] < j
  BY Downward, LowBits
<1>2. \A j \in Nat \ {0}, v \in V : step[<< j, v >>] = {j} \cup v
  OBVIOUS
<1>3. \A j \in Nat \ {0}, v \in V : step[<< j, v >>] \in V
  OBVIOUS
<1> HIDE DEF prev, step, V
<1>4. PICK g \in [Nat -> V] : Solves(g, {}, prev, step)
  <2>1. Recurrence(V, {}, prev, step)
    BY <1>0, <1>1, <1>3 DEF Recurrence
  <2> QED
    BY <2>1, Recursion
<1>5. ASSUME NEW j \in Nat
      PROVE  g[j] = IF j = 0 THEN {} ELSE {j} \cup g[j - LowBit[j]]
  BY <1>1, <1>2, <1>4 DEF Solves
<1>6. Rec(g)
  BY <1>4, <1>5
<1>7. QueryPath = CHOOSE h : Rec(h)
  BY DEF QueryPath
<1>8. Rec(QueryPath)
  BY <1>6, <1>7
<1> QED
  BY <1>1, <1>8

LEMMA UpdatePaths ==
  ASSUME NEW n \in Nat, NEW j \in Nat \ {0}
  PROVE  UpdatePath(j, n) = IF j > n THEN {} ELSE {j} \cup UpdatePath(j + LowBit[j], n)
<1> DEFINE V == SUBSET Nat
           prev == [k \in Nat \ {0} |->
                      IF k <= n /\ n + 1 - k + LowBit[n + 1 - k] <= n
                      THEN k - LowBit[n + 1 - k] ELSE 0]
           step == [x \in (Nat \ {0}) \X V |->
                      IF x[1] <= n THEN {n + 1 - x[1]} \cup x[2] ELSE {}]
           Rec(f) == f = [i \in Nat \ {0} |->
                            IF i > n THEN {} ELSE {i} \cup f[i + LowBit[i]]]
<1>0. V = SUBSET Nat /\ {} \in V
  OBVIOUS
<1>1. ASSUME NEW k \in Nat \ {0}
      PROVE  /\ prev[k] = IF k <= n /\ n + 1 - k + LowBit[n + 1 - k] <= n
                          THEN k - LowBit[n + 1 - k] ELSE 0
             /\ prev[k] \in Nat /\ prev[k] < k
  <2>1. k <= n => n + 1 - k \in Nat \ {0}
    OBVIOUS
  <2>2. k <= n => LowBit[n + 1 - k] \in Nat \ {0}
    BY <2>1, LowBits
  <2> QED
    BY <2>2
<1>2. \A k \in Nat \ {0}, v \in V : k <= n => step[<< k, v >>] = {n + 1 - k} \cup v
  OBVIOUS
<1>3. ASSUME NEW k \in Nat \ {0}, NEW v \in V PROVE step[<< k, v >>] \in V
  <2>1. step[<< k, v >>] = IF k <= n THEN {n + 1 - k} \cup v ELSE {}
    OBVIOUS
  <2>2. k <= n => {n + 1 - k} \cup v \in V
    OBVIOUS
  <2> HIDE DEF step, V
  <2> QED
    BY <1>0, <2>1, <2>2
<1> HIDE DEF prev, step, V
<1>4. PICK g \in [Nat -> V] : Solves(g, {}, prev, step)
  <2>1. Recurrence(V, {}, prev, step)
    BY <1>0, <1>1, <1>3 DEF Recurrence
  <2> QED
    BY <2>1, Recursion
<1> DEFINE f == [i \in Nat \ {0} |-> IF i > n THEN {} ELSE g[n + 1 - i]]
<1>5. ASSUME NEW i \in Nat \ {0}
      PROVE  f[i] = IF i > n THEN {} ELSE {i} \cup f[i + LowBit[i]]
  <2>1. CASE i > n
    BY <2>1
  <2>2. CASE ~(i > n)
    <3> DEFINE k == n + 1 - i
    <3>1. k \in Nat \ {0} /\ k <= n /\ n + 1 - k = i /\ LowBit[i] \in Nat \ {0}
      BY <2>2, LowBits
    <3>2. f[i] = g[k]
      BY <2>2
    <3>3. prev[k] = IF i + LowBit[i] <= n THEN n + 1 - (i + LowBit[i]) ELSE 0
      BY <1>1, <3>1
    <3>4. f[i + LowBit[i]] = g[prev[k]]
      <4>1. i + LowBit[i] \in Nat \ {0} /\ g[0] = {}
        BY <1>4, <3>1 DEF Solves
      <4>2. f[i + LowBit[i]] =
              IF i + LowBit[i] > n THEN {} ELSE g[n + 1 - (i + LowBit[i])]
        BY <4>1
      <4> HIDE DEF f
      <4>3. CASE i + LowBit[i] > n
        BY <3>1, <3>3, <4>1, <4>2, <4>3
      <4>4. CASE i + LowBit[i] <= n
        BY <3>1, <3>3, <4>1, <4>2, <4>4
      <4> QED
        BY <3>1, <4>3, <4>4
    <3>5. g[k] = {i} \cup g[prev[k]]
      BY <1>1, <1>2, <1>4, <3>1 DEF Solves
    <3> QED
      BY <2>2, <3>2, <3>4, <3>5
  <2> QED
    BY <2>1, <2>2
<1>6. Rec(f)
  BY <1>5
<1> DEFINE up == CHOOSE h : Rec(h)
<1>7. \A i : UpdatePath(i, n) = up[i]
  BY DEF UpdatePath
<1>8. Rec(up)
  BY <1>6
<1> HIDE DEF up
<1>9. up[j] = IF j > n THEN {} ELSE {j} \cup up[j + LowBit[j]]
  BY <1>8
<1> QED
  BY <1>7, <1>9

\* The nodes of a query are not above its index, those of an update not below.
LEMMA QueryBelow == \A j \in Nat : QueryPath[j] \subseteq 1 .. j
<1> DEFINE Bad == {j \in Nat : ~(QueryPath[j] \subseteq 1 .. j)}
<1> SUFFICES ASSUME Bad # {} PROVE FALSE
  OBVIOUS
<1>1. PICK j \in Bad : \A u \in Bad : j <= u
  BY Least
<1>2. j # 0
  BY QueryPaths
<1>3. /\ j - LowBit[j] \in Nat /\ j - LowBit[j] < j
      /\ QueryPath[j] = {j} \cup QueryPath[j - LowBit[j]]
  BY <1>2, QueryPaths
<1>4. QueryPath[j - LowBit[j]] \subseteq 1 .. (j - LowBit[j])
  BY <1>1, <1>3
<1> QED
  BY <1>1, <1>3, <1>4

LEMMA UpdateAbove ==
  ASSUME NEW n \in Nat, NEW i \in Nat \ {0}
  PROVE  UpdatePath(i, n) \subseteq i .. n
<1> DEFINE Sound(j) == UpdatePath(j, n) \subseteq j .. n
           Bad == {d \in Nat : \E j \in Nat \ {0} : d = n - j /\ ~Sound(j)}
<1>1. \A j \in Nat \ {0} : j > n => Sound(j)
  BY UpdatePaths
<1> SUFFICES ASSUME Bad # {} PROVE FALSE
  <2>1. CASE i > n
    BY <1>1, <2>1
  <2>2. CASE ~(i > n)
    <3>1. n - i \in Nat
      BY <2>2
    <3> QED
      BY <3>1
  <2> QED
    BY <2>1, <2>2
<1>2. PICK d \in Bad : \A u \in Bad : d <= u
  BY Least
<1>3. PICK j \in Nat \ {0} : d = n - j /\ ~Sound(j)
  OBVIOUS
<1>4. j <= n /\ LowBit[j] \in Nat \ {0}
  BY <1>3, LowBits
<1>5. j + LowBit[j] \in Nat \ {0}
  BY <1>4
<1>6. Sound(j + LowBit[j])
  <2>1. CASE j + LowBit[j] > n
    BY <1>1, <1>5, <2>1
  <2>2. CASE ~(j + LowBit[j] > n)
    <3>1. n - (j + LowBit[j]) \in Nat /\ ~(d <= n - (j + LowBit[j]))
      BY <1>3, <1>4, <2>2
    <3> QED
      BY <1>2, <1>5, <3>1
  <2> QED
    BY <2>1, <2>2
<1>7. UpdatePath(j, n) = {j} \cup UpdatePath(j + LowBit[j], n)
  BY <1>4, UpdatePaths
<1> QED
  BY <1>3, <1>4, <1>6, <1>7

\* A query meets exactly the updates of indices up to its own.
LEMMA PathsMeet ==
  ASSUME NEW n \in Nat, NEW i \in 1 .. n, NEW j \in 1 .. n
  PROVE  QueryPath[j] \cap UpdatePath(i, n) # {} <=> i <= j
<1>1. QueryPath[j] \cap UpdatePath(i, n) # {} => i <= j
  BY QueryBelow, UpdateAbove
<1> DEFINE Meet(k, l) == QueryPath[l] \cap UpdatePath(k, n) # {}
           Bad == {d \in Nat : \E k, l \in 1 .. n : k <= l /\ d = 2 * l - k /\ ~Meet(k, l)}
<1>2. \A k \in 1 .. n : k \in Nat \ {0} /\ ~(k > n) /\ LowBit[k] \in Nat \ {0}
  BY LowBits
<1>3. Bad = {}
  <2> SUFFICES ASSUME Bad # {} PROVE FALSE
    OBVIOUS
  <2>1. PICK d \in Bad : \A u \in Bad : d <= u
    BY Least
  <2>2. PICK k \in 1 .. n, l \in 1 .. n : k <= l /\ d = 2 * l - k /\ ~Meet(k, l)
    OBVIOUS
  <2>3. ASSUME NEW kk \in 1 .. n, NEW ll \in 1 .. n, kk <= ll, 2 * ll - kk < 2 * l - k
        PROVE  Meet(kk, ll)
    <3> SUFFICES ASSUME ~Meet(kk, ll) PROVE FALSE
      OBVIOUS
    <3>1. 2 * ll - kk \in Nat
      BY <2>3
    <3> HIDE DEF Meet
    <3>2. 2 * ll - kk \in Bad
      BY <2>3, <3>1
    <3>3. d <= 2 * ll - kk
      BY <2>1, <3>2
    <3> HIDE DEF Bad
    <3> QED
      BY <2>2, <2>3, <3>3
  <2>4. /\ QueryPath[l] = {l} \cup QueryPath[l - LowBit[l]]
        /\ l - LowBit[l] \in Nat /\ l - LowBit[l] < l
    BY <1>2, QueryPaths
  <2>5. UpdatePath(k, n) = {k} \cup UpdatePath(k + LowBit[k], n)
    BY <1>2, UpdatePaths
  <2>6. k < l
    BY <2>2, <2>4, <2>5
  <2>7. CASE k <= l - LowBit[l]
    <3>1. Meet(k, l - LowBit[l])
      BY <2>3, <2>4, <2>7
    <3> QED
      BY <2>2, <2>4, <3>1
  <2>8. CASE ~(k <= l - LowBit[l])
    <3>1. k + LowBit[k] <= l
      BY <1>2, <2>4, <2>6, <2>8, NoNodeBetween
    <3>2. k + LowBit[k] \in 1 .. n /\ 2 * l - (k + LowBit[k]) < 2 * l - k
      BY <1>2, <3>1
    <3>3. Meet(k + LowBit[k], l)
      BY <2>3, <3>1, <3>2
    <3> QED
      BY <2>2, <2>5, <3>3
  <2> QED
    BY <2>7, <2>8
<1>4. i <= j => Meet(i, j)
  <2>1. i <= j => 2 * j - i \in Nat
    OBVIOUS
  <2> HIDE DEF Meet
  <2> QED
    BY <1>3, <2>1
<1> QED
  BY <1>1, <1>4

-----------------------------------------------------------------------------
(* Rows.                                                                   *)

LEMMA Order ==
  ASSUME NEW p \in Point, NEW q \in Point
  PROVE  /\ p # q => Earlier(p, q) \/ Earlier(q, p)
         /\ ~(Earlier(p, q) /\ Earlier(q, p))
         /\ Earlier(p, q) => p # q /\ ~Dominates(q, p) /\ p.latency <= q.latency
         /\ Dominates(p, q) => Earlier(p, q)
<1>1. /\ p = [latency |-> p.latency, mem |-> p.mem, energy |-> p.energy]
      /\ q = [latency |-> q.latency, mem |-> q.mem, energy |-> q.energy]
      /\ p.latency \in Nat /\ p.mem \in Nat /\ p.energy \in Nat
      /\ q.latency \in Nat /\ q.mem \in Nat /\ q.energy \in Nat
  BY DEF Point
<1>2. p = q <=> p.latency = q.latency /\ p.mem = q.mem /\ p.energy = q.energy
  BY <1>1
<1> QED
  BY <1>1, <1>2 DEF Earlier, Dominates

LEMMA OrderTransitive ==
  ASSUME NEW p \in Point, NEW q \in Point, NEW r \in Point
  PROVE  /\ Earlier(p, q) /\ Earlier(q, r) => Earlier(p, r)
         /\ Dominates(p, q) /\ Dominates(q, r) => Dominates(p, r)
<1>1. /\ p.latency \in Nat /\ p.mem \in Nat /\ p.energy \in Nat
      /\ q.latency \in Nat /\ q.mem \in Nat /\ q.energy \in Nat
      /\ r.latency \in Nat /\ r.mem \in Nat /\ r.energy \in Nat
  BY DEF Point
<1> QED
  BY <1>1 DEF Earlier, Dominates

\* Of rows, one is the first.
LEMMA FirstRow ==
  ASSUME NEW S \in SUBSET Point, S # {}
  PROVE  First(S) \in S /\ \A q \in S \ {First(S)} : Earlier(First(S), q)
<1> DEFINE latencies == {p.latency : p \in S}
<1>1. PICK l \in latencies : \A u \in latencies : l <= u
  <2>1. latencies \in SUBSET Nat /\ latencies # {}
    BY DEF Point
  <2> QED
    BY <2>1, Least
<1> DEFINE S1 == {p \in S : p.latency = l}
           mems == {p.mem : p \in S1}
<1>2. PICK m \in mems : \A u \in mems : m <= u
  <2>1. mems \in SUBSET Nat /\ mems # {}
    BY DEF Point
  <2> QED
    BY <2>1, Least
<1> DEFINE S2 == {p \in S1 : p.mem = m}
           energies == {p.energy : p \in S2}
<1>3. PICK e \in energies : \A u \in energies : e <= u
  <2>1. energies \in SUBSET Nat /\ energies # {}
    BY DEF Point
  <2> QED
    BY <2>1, Least
<1>4. PICK p \in S : p.latency = l /\ p.mem = m /\ p.energy = e
  OBVIOUS
<1>5. ASSUME NEW q \in S \ {p} PROVE Earlier(p, q)
  <2>1. p.latency <= q.latency
    BY <1>1, <1>4
  <2>2. q.latency = p.latency => p.mem <= q.mem
    BY <1>2, <1>4
  <2>3. q.latency = p.latency /\ q.mem = p.mem => p.energy <= q.energy
    BY <1>3, <1>4
  <2>4. p \in Point /\ q \in Point /\ p # q
    OBVIOUS
  <2>5. Earlier(p, q) \/ Earlier(q, p)
    BY <2>4, Order
  <2>6. /\ p.latency \in Nat /\ p.mem \in Nat /\ p.energy \in Nat
        /\ q.latency \in Nat /\ q.mem \in Nat /\ q.energy \in Nat
    BY <2>4 DEF Point
  <2> QED
    BY <2>1, <2>2, <2>3, <2>5, <2>6 DEF Earlier
<1> QED
  BY <1>5 DEF First

\* Indices order rows as their footprints do.
LEMMA IndexOrder ==
  ASSUME rows \in SUBSET Point, IsFiniteSet(rows), NEW p \in rows, NEW q \in rows
  PROVE  /\ Size \in Nat
         /\ IndexOf(p) \in 1 .. Size /\ IndexOf(q) \in 1 .. Size
         /\ IndexOf(q) <= IndexOf(p) <=> q.mem <= p.mem
<1> DEFINE upTo(r) == {m \in Footprints : m <= r.mem}
<1>1. IsFiniteSet(Footprints)
  <2> DEFINE f == [r \in rows |-> r.mem]
  <2>1. f \in Surjection(rows, Footprints)
    BY DEF Surjection, Footprints
  <2> QED
    BY <2>1, FS_Surjection
<1>2. \A r \in rows : r.mem \in Nat /\ r.mem \in Footprints
  BY DEF Footprints, Point
<1>3. \A m \in Footprints : m \in Nat
  BY DEF Footprints, Point
<1>4. ASSUME NEW r \in rows
      PROVE  /\ IsFiniteSet(upTo(r)) /\ IndexOf(r) = Cardinality(upTo(r))
             /\ IndexOf(r) \in 1 .. Size /\ Size \in Nat
  <2>1. upTo(r) \subseteq Footprints /\ r.mem \in upTo(r)
    BY <1>2
  <2>2. /\ IsFiniteSet(upTo(r)) /\ Cardinality(upTo(r)) \in Nat
        /\ Cardinality(upTo(r)) <= Cardinality(Footprints)
        /\ Cardinality(Footprints) \in Nat
    BY <1>1, <2>1, FS_Subset, FS_CardinalityType
  <2>3. Cardinality(upTo(r)) # 0
    BY <2>1, <2>2, FS_EmptySet
  <2>4. IndexOf(r) = Cardinality(upTo(r))
    BY DEF IndexOf
  <2> HIDE DEF upTo
  <2> QED
    BY <2>2, <2>3, <2>4 DEF Size
<1>5. ASSUME NEW r \in rows, NEW t \in rows, r.mem <= t.mem PROVE IndexOf(r) <= IndexOf(t)
  <2>1. upTo(r) \subseteq upTo(t)
    <3>1. r.mem \in Nat /\ t.mem \in Nat
      BY <1>2
    <3> QED
      BY <1>3, <1>5, <3>1
  <2> HIDE DEF upTo
  <2> QED
    BY <1>4, <2>1, FS_Subset
<1>6. ASSUME NEW r \in rows, NEW t \in rows, t.mem < r.mem PROVE IndexOf(t) < IndexOf(r)
  <2>1. upTo(t) \subseteq upTo(r) /\ upTo(t) # upTo(r)
    <3>1. r.mem \in Nat /\ t.mem \in Nat
      BY <1>2
    <3>2. r.mem \in upTo(r) /\ r.mem \notin upTo(t)
      BY <1>2, <1>6, <3>1
    <3> QED
      BY <1>3, <1>6, <3>1, <3>2
  <2> HIDE DEF upTo
  <2>2. /\ Cardinality(upTo(t)) <= Cardinality(upTo(r))
        /\ Cardinality(upTo(t)) # Cardinality(upTo(r))
    BY <1>4, <2>1, FS_Subset
  <2>3. IndexOf(t) \in Nat /\ IndexOf(r) \in Nat
    BY <1>4
  <2> QED
    BY <1>4, <2>2, <2>3
<1>7. p.mem \in Nat /\ q.mem \in Nat /\ IndexOf(p) \in Nat /\ IndexOf(q) \in Nat
  <2>1. IndexOf(p) \in 1 .. Size /\ IndexOf(q) \in 1 .. Size /\ Size \in Nat
    BY <1>4
  <2> QED
    BY <1>2, <2>1
<1> HIDE DEF upTo
<1>8. IndexOf(q) <= IndexOf(p) <=> q.mem <= p.mem
  BY <1>5, <1>6, <1>7
<1> QED
  BY <1>4, <1>8

-----------------------------------------------------------------------------
(* The sweep.                                                              *)

TakenBefore == \A p \in rows \ rest, q \in rest : Earlier(p, q)

\* A node holds the least energy of the kept rows whose update visits it.
TreeOfKept ==
  /\ \A k \in DOMAIN tree :
       \E p \in kept : k \in UpdatePath(IndexOf(p), Size) /\ tree[k] = p.energy
  /\ \A p \in kept : \A k \in UpdatePath(IndexOf(p), Size) :
       k \in DOMAIN tree /\ tree[k] <= p.energy

\* What was dropped is dominated by what was kept.
DroppedDominated == \A p \in (rows \ rest) \ kept : \E q \in kept : Dominates(q, p)

SweepInv ==
  /\ SweepTypeOK
  /\ TakenBefore
  /\ TreeOfKept
  /\ DroppedDominated
  /\ SweepExact

LEMMA SweepFacts ==
  ASSUME SweepTypeOK
  PROVE  /\ rows \in SUBSET Point /\ rest \in SUBSET Point /\ kept \in SUBSET Point
         /\ kept \subseteq rows /\ Size \in Nat
         /\ DOMAIN tree \in SUBSET (1 .. Size)
         /\ \A k \in DOMAIN tree : tree[k] \in Nat
         /\ tree = [k \in DOMAIN tree |-> tree[k]]
<1>1. Size \in Nat
  <2>1. IsFiniteSet(Footprints)
    <3> DEFINE f == [r \in rows |-> r.mem]
    <3>1. f \in Surjection(rows, Footprints)
      BY DEF Surjection, Footprints
    <3> QED
      BY <3>1, FS_Surjection DEF SweepTypeOK
  <2> QED
    BY <2>1, FS_CardinalityType DEF Size
<1> QED
  BY <1>1 DEF SweepTypeOK

\* The tree finds what it is there to find.
LEMMA CoveredIff ==
  ASSUME SweepTypeOK, TreeOfKept, NEW p \in rows
  PROVE  Covered(p) <=> \E q \in kept : q.mem <= p.mem /\ q.energy <= p.energy
<1>1. /\ kept \subseteq rows /\ rows \in SUBSET Point /\ Size \in Nat /\ IsFiniteSet(rows)
      /\ \A k \in DOMAIN tree : tree[k] \in Nat
  BY SweepFacts DEF SweepTypeOK
<1>2. ASSUME NEW q \in kept
      PROVE  /\ QueryPath[IndexOf(p)] \cap UpdatePath(IndexOf(q), Size) # {}
                <=> q.mem <= p.mem
             /\ q.energy \in Nat /\ p.energy \in Nat
  <2>1. /\ IndexOf(p) \in 1 .. Size /\ IndexOf(q) \in 1 .. Size
        /\ IndexOf(q) <= IndexOf(p) <=> q.mem <= p.mem
    BY <1>1, IndexOrder
  <2>2. q.energy \in Nat /\ p.energy \in Nat
    BY <1>1 DEF Point
  <2> QED
    BY <1>1, <2>1, <2>2, PathsMeet
<1>3. ASSUME Covered(p)
      PROVE  \E q \in kept : q.mem <= p.mem /\ q.energy <= p.energy
  <2>1. PICK k \in QueryPath[IndexOf(p)] \cap DOMAIN tree : tree[k] <= p.energy
    BY <1>3 DEF Covered
  <2>2. PICK q \in kept : k \in UpdatePath(IndexOf(q), Size) /\ tree[k] = q.energy
    BY <2>1 DEF TreeOfKept
  <2> QED
    BY <1>2, <2>1, <2>2
<1>4. ASSUME NEW q \in kept, q.mem <= p.mem, q.energy <= p.energy
      PROVE  Covered(p)
  <2>1. PICK k \in QueryPath[IndexOf(p)] \cap UpdatePath(IndexOf(q), Size) : TRUE
    BY <1>2, <1>4
  <2>2. k \in DOMAIN tree /\ tree[k] <= q.energy
    BY <2>1 DEF TreeOfKept
  <2>3. tree[k] \in Nat
    BY <1>1, <2>2
  <2>4. tree[k] <= p.energy
    BY <1>2, <1>4, <2>2, <2>3
  <2> QED
    BY <2>1, <2>2, <2>4 DEF Covered
<1> QED
  BY <1>3, <1>4

\* An update keeps the meaning of the tree.
LEMMA InsertedMeans ==
  ASSUME SweepTypeOK, TreeOfKept, NEW p \in rows, NEW t, t = Inserted(p)
  PROVE  /\ DOMAIN t \in SUBSET (1 .. Size) /\ t \in [DOMAIN t -> Nat]
         /\ \A k \in DOMAIN t :
              \E q \in kept \cup {p} : k \in UpdatePath(IndexOf(q), Size) /\ t[k] = q.energy
         /\ \A q \in kept \cup {p} : \A k \in UpdatePath(IndexOf(q), Size) :
              k \in DOMAIN t /\ t[k] <= q.energy
<1> DEFINE path == UpdatePath(IndexOf(p), Size)
<1>1. /\ kept \subseteq rows /\ rows \in SUBSET Point /\ Size \in Nat /\ IsFiniteSet(rows)
      /\ DOMAIN tree \in SUBSET (1 .. Size)
      /\ \A k \in DOMAIN tree : tree[k] \in Nat
  BY SweepFacts DEF SweepTypeOK
<1>2. path \subseteq 1 .. Size
  <2>1. IndexOf(p) \in 1 .. Size
    BY <1>1, IndexOrder
  <2>2. path \subseteq IndexOf(p) .. Size
    BY <1>1, <2>1, UpdateAbove
  <2> QED
    BY <1>1, <2>1, <2>2
<1>3. \A q \in rows : q.energy \in Nat
  BY <1>1 DEF Point
<1>4. /\ DOMAIN t = DOMAIN tree \cup path
      /\ \A k \in DOMAIN t :
           t[k] = IF k \in path /\ (k \in DOMAIN tree => p.energy < tree[k])
                  THEN p.energy ELSE tree[k]
      /\ t = [k \in DOMAIN t |-> t[k]]
  BY DEF Inserted
<1> HIDE DEF path
<1>5. ASSUME NEW k \in DOMAIN t PROVE t[k] \in Nat
  BY <1>1, <1>3, <1>4
<1>6. ASSUME NEW k \in DOMAIN t
      PROVE  \E q \in kept \cup {p} : k \in UpdatePath(IndexOf(q), Size) /\ t[k] = q.energy
  <2>1. CASE k \in path /\ (k \in DOMAIN tree => p.energy < tree[k])
    BY <1>4, <2>1 DEF path
  <2>2. CASE ~(k \in path /\ (k \in DOMAIN tree => p.energy < tree[k]))
    BY <1>4, <2>2 DEF TreeOfKept
  <2> QED
    BY <2>1, <2>2
<1>7. ASSUME NEW q \in kept, NEW k \in UpdatePath(IndexOf(q), Size)
      PROVE  k \in DOMAIN t /\ t[k] <= q.energy
  <2>1. k \in DOMAIN tree /\ tree[k] <= q.energy
    BY DEF TreeOfKept
  <2> QED
    BY <1>1, <1>3, <1>4, <2>1
<1>8. ASSUME NEW k \in path
      PROVE  k \in DOMAIN t /\ t[k] <= p.energy
  BY <1>1, <1>3, <1>4
<1> QED
  BY <1>1, <1>2, <1>4, <1>5, <1>6, <1>7, <1>8 DEF path

\* A sweep that has only begun.
LEMMA SweepInvBegin ==
  ASSUME NEW S \in SUBSET Point, IsFiniteSet(S), BeginSweep(S)
  PROVE  SweepInv'
<1>1. rows' = S /\ rest' = S /\ kept' = {} /\ tree' = [i \in {} |-> 0]
  BY DEF BeginSweep
<1>2. DOMAIN tree' = {} /\ tree' \in [{} -> Nat]
  BY <1>1
<1>3. \E D \in SUBSET (1 .. Size') : tree' \in [D -> Nat]
  BY <1>2
<1> QED
  BY <1>1, <1>2, <1>3
     DEF SweepInv, SweepTypeOK, TakenBefore, TreeOfKept, DroppedDominated, SweepExact, NonDominated

LEMMA SweepInvInit == SweepInit => SweepInv
<1> SUFFICES ASSUME SweepInit PROVE SweepInv
  OBVIOUS
<1>1. rows = {} /\ rest = {} /\ kept = {} /\ tree = [i \in {} |-> 0]
  BY DEF SweepInit
<1>2. DOMAIN tree = {} /\ tree \in [{} -> Nat]
  BY <1>1
<1>3. \E D \in SUBSET (1 .. Size) : tree \in [D -> Nat]
  BY <1>2
<1>4. IsFiniteSet(rows)
  BY <1>1, FS_EmptySet
<1> QED
  BY <1>1, <1>2, <1>3, <1>4
     DEF SweepInv, SweepTypeOK, TakenBefore, TreeOfKept, DroppedDominated, SweepExact, NonDominated

LEMMA SweepInvRow ==
  ASSUME SweepInv, SweepRow
  PROVE  SweepInv'
<1> DEFINE p == First(rest)
           T == rows \ rest
<1>1. /\ rows \in SUBSET Point /\ rest \subseteq rows /\ kept \subseteq T
      /\ SweepTypeOK /\ TakenBefore /\ TreeOfKept /\ DroppedDominated /\ SweepExact
  BY DEF SweepInv, SweepTypeOK
<1>2. rest # {} /\ rest' = rest \ {p} /\ rows' = rows
  BY DEF SweepRow
<1>3. p \in rest /\ p \in rows /\ p \in Point /\ \A q \in rest \ {p} : Earlier(p, q)
  BY <1>1, <1>2, FirstRow
<1> HIDE DEF p
<1>4. rows' \ rest' = T \cup {p}
  BY <1>1, <1>2, <1>3
<1>5. TakenBefore'
  <2> SUFFICES ASSUME NEW a \in T \cup {p}, NEW q \in rest' PROVE Earlier(a, q)
    BY <1>4 DEF TakenBefore
  <2> QED
    BY <1>1, <1>2, <1>3 DEF TakenBefore
<1>6. \A a \in T : a \in Point /\ Earlier(a, p) /\ ~Dominates(p, a) /\ a # p
  BY <1>1, <1>3, Order DEF TakenBefore
<1>7. /\ Size' = Size
      /\ \A q : IndexOf(q)' = IndexOf(q)
  BY <1>2 DEF Size, Footprints, IndexOf
<1>8. CASE Covered(p)
  <2>1. kept' = kept /\ tree' = tree
    BY <1>8 DEF SweepRow, p
  <2>2. PICK q \in kept : q.mem <= p.mem /\ q.energy <= p.energy
    BY <1>1, <1>3, <1>8, CoveredIff
  <2>3. Dominates(q, p)
    <3>1. q \in Point /\ Earlier(q, p) /\ q.latency <= p.latency
      BY <1>1, <1>3, <1>6, Order
    <3>2. /\ q.latency \in Nat /\ q.mem \in Nat /\ q.energy \in Nat
          /\ p.latency \in Nat /\ p.mem \in Nat /\ p.energy \in Nat
      BY <1>3, <3>1 DEF Point
    <3> QED
      BY <2>2, <3>1, <3>2 DEF Dominates, Earlier
  <2>4. DroppedDominated'
    BY <1>1, <1>4, <2>1, <2>3 DEF DroppedDominated
  <2>5. SweepExact'
    BY <1>1, <1>4, <1>6, <2>1, <2>3 DEF SweepExact, NonDominated
  <2>6. TreeOfKept'
    BY <1>1, <1>7, <2>1 DEF TreeOfKept
  <2>7. SweepTypeOK'
    BY <1>1, <1>2, <1>7, <2>1 DEF SweepTypeOK
  <2> QED
    BY <1>5, <2>4, <2>5, <2>6, <2>7 DEF SweepInv
<1>9. CASE ~Covered(p)
  <2>1. kept' = kept \cup {p} /\ tree' = Inserted(p)
    BY <1>9 DEF SweepRow, p
  <2>2. \A q \in kept : ~Dominates(q, p)
    BY <1>1, <1>3, <1>9, CoveredIff DEF Dominates
  <2>3. \A a \in T : ~Dominates(a, p)
    BY <1>1, <1>3, <1>6, <2>2, OrderTransitive DEF DroppedDominated
  <2>4. DroppedDominated'
    BY <1>1, <1>4, <2>1 DEF DroppedDominated
  <2>5. ~Dominates(p, p)
    BY <1>3, Order DEF Dominates
  <2>6. SweepExact'
    BY <1>1, <1>4, <1>6, <2>1, <2>3, <2>5 DEF SweepExact, NonDominated
  <2>7. /\ DOMAIN tree' \in SUBSET (1 .. Size) /\ tree' \in [DOMAIN tree' -> Nat]
        /\ \A k \in DOMAIN tree' :
             \E q \in kept' : k \in UpdatePath(IndexOf(q), Size) /\ tree'[k] = q.energy
        /\ \A q \in kept' : \A k \in UpdatePath(IndexOf(q), Size) :
             k \in DOMAIN tree' /\ tree'[k] <= q.energy
    BY <1>1, <1>3, <2>1, InsertedMeans
  <2>8. TreeOfKept'
    BY <1>7, <2>7 DEF TreeOfKept
  <2>9. SweepTypeOK'
    BY <1>1, <1>2, <1>3, <1>7, <2>1, <2>7 DEF SweepTypeOK
  <2> QED
    BY <1>5, <2>4, <2>6, <2>8, <2>9 DEF SweepInv
<1> QED
  BY <1>8, <1>9

-----------------------------------------------------------------------------
(* The composition: types and control.                                     *)

FiniteParts ==
  /\ IsFiniteSet(pairs)
  /\ \A k \in DOMAIN repeated : IsFiniteSet(repeated[k])

\* Where the parent loops are at each point.
Repeating == w \in Workloads /\ DOMAIN repeated = 1 .. (w - 1)
Joining == w \in 1 .. NumWorkloads + 1 /\ DOMAIN repeated = Workloads

Phase ==
  /\ pc = "next" => w \in 0 .. NumWorkloads /\ DOMAIN repeated = 1 .. w
  /\ pc \in {"repeat", "halve"} => Repeating
  /\ pc = "join" => Joining
  /\ pc \in {"merge", "sweep"} =>
       \/ into \in {"result", "power"} /\ Repeating
       \/ into = "combined" /\ Joining /\ w \in Workloads

FrontierInv ==
  /\ TypeOK
  /\ SweepInv
  /\ FiniteParts
  /\ Phase

LEMMA PlusPoint ==
  ASSUME NEW p \in Point, NEW q \in Point
  PROVE  Plus(p, q) \in Point
BY DEF Point, Plus

LEMMA ZeroFront == Zero \in Point /\ {Zero} \subseteq Point /\ IsFiniteSet({Zero})
<1>1. Zero \in Point
  BY DEF Point, Zero
<1> QED
  BY <1>1, FS_Singleton

LEMMA SumsFinite ==
  ASSUME NEW P \in SUBSET (Point \X Point), IsFiniteSet(P)
  PROVE  /\ {Plus(x[1], x[2]) : x \in P} \in SUBSET Point
         /\ IsFiniteSet({Plus(x[1], x[2]) : x \in P})
<1> DEFINE sums == {Plus(x[1], x[2]) : x \in P}
           f == [x \in P |-> Plus(x[1], x[2])]
<1>1. f \in Surjection(P, sums)
  BY DEF Surjection
<1>2. IsFiniteSet(sums)
  BY <1>1, FS_Surjection
<1>3. \A x \in P : Plus(x[1], x[2]) \in Point
  BY PlusPoint
<1> QED
  BY <1>2, <1>3

\* Beginning a combination.
LEMMA CombineKeeps ==
  ASSUME NEW S \in SUBSET Point, NEW T \in SUBSET Point, IsFiniteSet(S), IsFiniteSet(T),
         NEW target \in {"result", "power", "combined"}, Combine(S, T, target)
  PROVE  /\ pairs' \in SUBSET (Point \X Point) /\ IsFiniteSet(pairs')
         /\ current' = {} /\ current' \subseteq Point /\ IsFiniteSet(current')
         /\ into' \in {"none", "result", "power", "combined"}
         /\ thinned' \in BOOLEAN
         /\ pc' = "merge"
<1>1. IsFiniteSet(S \X T)
  BY FS_Product
<1> QED
  BY <1>1, FS_EmptySet DEF Combine

LEMMA SweepUnchanged == SweepInv /\ UNCHANGED sweepVars => SweepInv'
BY DEF SweepInv, SweepTypeOK, TakenBefore, TreeOfKept, DroppedDominated, SweepExact,
       sweepVars, Size, Footprints, IndexOf

LEMMA FrontierInvInit == Init => FrontierInv
<1> SUFFICES ASSUME Init PROVE FrontierInv
  OBVIOUS
<1>1. SweepInv
  BY SweepInvInit DEF Init
<1>2. FiniteParts
  BY FS_EmptySet DEF Init, FiniteParts
<1>3. \E D \in SUBSET Workloads : repeated \in [D -> SUBSET Point]
  BY DEF Init
<1>4. TypeOK
  <2>1. \A S \in {result, power, combined, current} : S \subseteq Point /\ IsFiniteSet(S)
    BY FS_EmptySet, ZeroFront DEF Init
  <2>2. SweepTypeOK
    BY <1>1 DEF SweepInv
  <2>3. /\ front \in [Workloads -> Fronts] /\ layers \in [Workloads -> Layers]
        /\ pc = "next" /\ into = "none" /\ pairs = {}
        /\ thinning = FALSE /\ thinned = FALSE /\ approximate = FALSE
    BY DEF Init
  <2>4. w \in 0 .. NumWorkloads + 1 /\ remaining \in Nat
    BY NumberAssumption DEF Init
  <2> QED
    BY <1>3, <2>1, <2>2, <2>3, <2>4 DEF TypeOK
<1>5. Phase
  BY NumberAssumption DEF Init, Phase
<1> QED
  BY <1>1, <1>2, <1>4, <1>5 DEF FrontierInv

\* The types of the loops, said of plain sets.
LEMMA LoopFacts ==
  ASSUME TypeOK
  PROVE  /\ \A k \in Workloads : /\ front[k] \in SUBSET Point /\ IsFiniteSet(front[k])
                                 /\ front[k] # {} /\ front[k] = NonDominated(front[k])
                                 /\ layers[k] \in Nat \ {0}
         /\ \A k \in DOMAIN repeated : repeated[k] \in SUBSET Point
         /\ DOMAIN repeated \subseteq Workloads
         /\ result \in SUBSET Point /\ power \in SUBSET Point /\ combined \in SUBSET Point
         /\ current \in SUBSET Point
         /\ IsFiniteSet(result) /\ IsFiniteSet(power) /\ IsFiniteSet(combined)
         /\ IsFiniteSet(current)
<1>1. \A k \in Workloads : front[k] \in Fronts /\ layers[k] \in Layers
  BY DEF TypeOK
<1>2. \A S \in {result, power, combined, current} : S \subseteq Point /\ IsFiniteSet(S)
  BY DEF TypeOK
<1>3. \E D \in SUBSET Workloads : repeated \in [D -> SUBSET Point]
  BY DEF TypeOK
<1> QED
  BY <1>1, <1>2, <1>3, FrontsAssumption, LayersAssumption

LEMMA NextWorkloadKeeps == FrontierInv /\ NextWorkload => FrontierInv'
<1> SUFFICES ASSUME FrontierInv, NextWorkload PROVE FrontierInv'
  OBVIOUS
<1>1. TypeOK /\ SweepInv /\ FiniteParts /\ Phase
  BY DEF FrontierInv
<1>2. /\ w \in 0 .. NumWorkloads /\ DOMAIN repeated = 1 .. w
      /\ UNCHANGED << input, repeated, combined, combineVars, approximate, sweepVars >>
  BY <1>1 DEF NextWorkload, Phase
<1>3. SweepInv'
  BY <1>1, <1>2, SweepUnchanged
<1>4. /\ result' \in SUBSET Point /\ IsFiniteSet(result')
      /\ power' \in SUBSET Point /\ IsFiniteSet(power')
      /\ remaining' \in Nat
  <2>1. CASE w < NumWorkloads
    <3>1. w + 1 \in Workloads
      BY <1>2, <2>1, NumberAssumption DEF Workloads
    <3> QED
      BY <1>1, <2>1, <3>1, LoopFacts, ZeroFront DEF NextWorkload
  <2>2. CASE ~(w < NumWorkloads)
    BY <1>1, <2>2, LoopFacts DEF NextWorkload, TypeOK
  <2> QED
    BY <2>1, <2>2
<1>5. TypeOK'
  BY <1>1, <1>2, <1>3, <1>4, NumberAssumption
     DEF NextWorkload, TypeOK, SweepInv, input, combineVars
<1>6. FiniteParts'
  BY <1>1, <1>2 DEF FiniteParts, combineVars
<1>7. Phase'
  BY <1>1, <1>2, NumberAssumption
     DEF NextWorkload, Phase, Repeating, Joining, Workloads
<1> QED
  BY <1>3, <1>5, <1>6, <1>7 DEF FrontierInv

LEMMA MultiplyKeeps == FrontierInv /\ Multiply => FrontierInv'
<1> SUFFICES ASSUME FrontierInv, Multiply PROVE FrontierInv'
  OBVIOUS
<1>1. TypeOK /\ SweepInv /\ FiniteParts /\ Phase
  BY DEF FrontierInv
<1>2. Repeating /\ UNCHANGED << input, loops, thinning, approximate, sweepVars >>
  BY <1>1 DEF Multiply, Phase
<1>3. SweepInv'
  BY <1>1, <1>2, SweepUnchanged
<1>4. /\ pairs' \in SUBSET (Point \X Point) /\ IsFiniteSet(pairs')
      /\ current' \subseteq Point /\ IsFiniteSet(current')
      /\ into' \in {"none", "result", "power", "combined"}
      /\ thinned' \in BOOLEAN
      /\ pc' \in {"halve", "merge"}
      /\ pc' = "merge" => into' = "result"
  <2>1. CASE remaining % 2 = 1
    <3>1. Combine(result, power, "result")
      BY <2>1 DEF Multiply
    <3> QED
      BY <1>1, <3>1, LoopFacts, CombineKeeps DEF Combine
  <2>2. CASE remaining % 2 # 1
    BY <1>1, <2>2, LoopFacts DEF Multiply, TypeOK, FiniteParts
  <2> QED
    BY <2>1, <2>2
<1>5. TypeOK'
  BY <1>1, <1>2, <1>3, <1>4 DEF TypeOK, SweepInv, input, loops
<1>6. FiniteParts'
  BY <1>1, <1>2, <1>4 DEF FiniteParts, loops
<1>7. Phase'
  BY <1>2, <1>4 DEF Phase, Repeating, loops
<1> QED
  BY <1>3, <1>5, <1>6, <1>7 DEF FrontierInv

LEMMA HalveKeeps == FrontierInv /\ Halve => FrontierInv'
<1> SUFFICES ASSUME FrontierInv, Halve PROVE FrontierInv'
  OBVIOUS
<1>1. TypeOK /\ SweepInv /\ FiniteParts /\ Phase
  BY DEF FrontierInv
<1>2. /\ Repeating
      /\ UNCHANGED << input, w, result, power, combined, thinning, approximate, sweepVars >>
  BY <1>1 DEF Halve, Phase
<1>3. SweepInv'
  BY <1>1, <1>2, SweepUnchanged
<1>4. remaining' \in Nat
  <2>1. remaining \in Nat /\ remaining' = remaining \div 2
    BY <1>1 DEF Halve, TypeOK
  <2> QED
    BY <2>1
<1>5. CASE remaining' = 0
  <2>1. /\ repeated' = [k \in DOMAIN repeated \cup {w} |->
                          IF k = w THEN result ELSE repeated[k]]
        /\ pc' = "next"
        /\ UNCHANGED << into, pairs, current, thinned >>
    BY <1>5 DEF Halve
  <2>2. /\ DOMAIN repeated' = 1 .. w
        /\ \A k \in DOMAIN repeated' :
             repeated'[k] \in SUBSET Point /\ IsFiniteSet(repeated'[k])
    BY <1>1, <1>2, <2>1, NumberAssumption, LoopFacts DEF Repeating, FiniteParts, Workloads
  <2>3. \E D \in SUBSET Workloads : repeated' \in [D -> SUBSET Point]
    <3>1. 1 .. w \in SUBSET Workloads
      BY <1>2, NumberAssumption DEF Repeating, Workloads
    <3>2. repeated' \in [1 .. w -> SUBSET Point]
      BY <2>1, <2>2
    <3> QED
      BY <3>1, <3>2
  <2>4. TypeOK'
    BY <1>1, <1>2, <1>3, <1>4, <2>1, <2>3 DEF TypeOK, SweepInv, input
  <2>5. FiniteParts'
    BY <1>1, <2>1, <2>2 DEF FiniteParts
  <2>6. Phase'
    BY <1>2, <2>1, <2>2, NumberAssumption DEF Phase, Repeating, Workloads
  <2> QED
    BY <1>3, <2>4, <2>5, <2>6 DEF FrontierInv
<1>6. CASE remaining' # 0
  <2>1. Combine(power, power, "power") /\ UNCHANGED repeated
    BY <1>6 DEF Halve
  <2>2. /\ pairs' \in SUBSET (Point \X Point) /\ IsFiniteSet(pairs')
        /\ current' \subseteq Point /\ IsFiniteSet(current')
        /\ into' = "power" /\ thinned' \in BOOLEAN /\ pc' = "merge"
    BY <1>1, <2>1, LoopFacts, CombineKeeps DEF Combine
  <2>3. TypeOK'
    BY <1>1, <1>2, <1>3, <1>4, <2>1, <2>2 DEF TypeOK, SweepInv, input
  <2>4. FiniteParts'
    BY <1>1, <2>1, <2>2 DEF FiniteParts
  <2>5. Phase'
    BY <1>2, <2>1, <2>2 DEF Phase, Repeating
  <2> QED
    BY <1>3, <2>3, <2>4, <2>5 DEF FrontierInv
<1> QED
  BY <1>5, <1>6

LEMMA JoinKeeps == FrontierInv /\ Join => FrontierInv'
<1> SUFFICES ASSUME FrontierInv, Join PROVE FrontierInv'
  OBVIOUS
<1>1. TypeOK /\ SweepInv /\ FiniteParts /\ Phase
  BY DEF FrontierInv
<1>2. Joining /\ UNCHANGED << input, loops, thinning, approximate, sweepVars >>
  BY <1>1 DEF Join, Phase
<1>3. SweepInv'
  BY <1>1, <1>2, SweepUnchanged
<1>4. /\ pairs' \in SUBSET (Point \X Point) /\ IsFiniteSet(pairs')
      /\ current' \subseteq Point /\ IsFiniteSet(current')
      /\ into' \in {"none", "result", "power", "combined"}
      /\ thinned' \in BOOLEAN
      /\ pc' \in {"done", "merge"}
      /\ pc' = "merge" => into' = "combined" /\ w \in Workloads
  <2>1. CASE w <= NumWorkloads
    <3>1. Combine(combined, repeated[w], "combined")
      BY <2>1 DEF Join
    <3>2. w \in Workloads /\ w \in DOMAIN repeated
      BY <1>2, <2>1, NumberAssumption DEF Joining, Workloads
    <3>3. repeated[w] \in SUBSET Point /\ IsFiniteSet(repeated[w])
      BY <1>1, <3>2, LoopFacts DEF FiniteParts
    <3> QED
      BY <1>1, <3>1, <3>2, <3>3, LoopFacts, CombineKeeps DEF Combine
  <2>2. CASE ~(w <= NumWorkloads)
    BY <1>1, <2>2, LoopFacts DEF Join, TypeOK, FiniteParts
  <2> QED
    BY <2>1, <2>2
<1>5. TypeOK'
  BY <1>1, <1>2, <1>3, <1>4 DEF TypeOK, SweepInv, input, loops
<1>6. FiniteParts'
  BY <1>1, <1>2, <1>4 DEF FiniteParts, loops
<1>7. Phase'
  BY <1>2, <1>4 DEF Phase, Joining, loops
<1> QED
  BY <1>3, <1>5, <1>6, <1>7 DEF FrontierInv

LEMMA MergeBatchKeeps == FrontierInv /\ MergeBatch => FrontierInv'
<1> SUFFICES ASSUME FrontierInv, MergeBatch PROVE FrontierInv'
  OBVIOUS
<1> DEFINE S == current \cup {Plus(x[1], x[2]) : x \in Batch}
<1>1. TypeOK /\ SweepInv /\ FiniteParts /\ Phase
  BY DEF FrontierInv
<1>2. /\ BeginSweep(S) /\ pairs' = pairs \ Batch /\ pc' = "sweep" /\ pc = "merge"
      /\ UNCHANGED << input, loops, into, current, thinning, thinned, approximate >>
  BY DEF MergeBatch
<1>3. pairs' \in SUBSET (Point \X Point) /\ IsFiniteSet(pairs')
  BY <1>1, <1>2, FS_Subset DEF TypeOK, FiniteParts
<1>4. S \in SUBSET Point /\ IsFiniteSet(S)
  <2>1. Batch \in SUBSET (Point \X Point) /\ IsFiniteSet(Batch)
    <3>1. Batch \in SUBSET pairs
      BY DEF Batch
    <3> QED
      BY <1>1, <3>1, FS_Subset DEF TypeOK, FiniteParts
  <2>2. /\ {Plus(x[1], x[2]) : x \in Batch} \in SUBSET Point
        /\ IsFiniteSet({Plus(x[1], x[2]) : x \in Batch})
    BY <2>1, SumsFinite
  <2> QED
    BY <1>1, <2>2, LoopFacts, FS_Union
<1>5. SweepInv'
  BY <1>2, <1>4, SweepInvBegin
<1>6. TypeOK'
  BY <1>1, <1>2, <1>3, <1>5 DEF TypeOK, SweepInv, input, loops
<1>7. FiniteParts'
  BY <1>1, <1>2, <1>3 DEF FiniteParts, loops
<1>8. Phase'
  BY <1>1, <1>2 DEF Phase, Repeating, Joining, loops
<1> QED
  BY <1>5, <1>6, <1>7, <1>8 DEF FrontierInv

LEMMA SweepKeeps == FrontierInv /\ Sweep => FrontierInv'
<1> SUFFICES ASSUME FrontierInv, Sweep PROVE FrontierInv'
  OBVIOUS
<1>1. TypeOK /\ SweepInv /\ FiniteParts /\ Phase
  BY DEF FrontierInv
<1>2. SweepRow /\ UNCHANGED << input, pc, loops, combineVars, approximate >>
  BY DEF Sweep
<1>3. SweepInv'
  BY <1>1, <1>2, SweepInvRow
<1>4. TypeOK'
  BY <1>1, <1>2, <1>3 DEF TypeOK, SweepInv, input, loops, combineVars
<1>5. FiniteParts' /\ Phase'
  BY <1>1, <1>2 DEF FiniteParts, Phase, Repeating, Joining, loops, combineVars
<1> QED
  BY <1>3, <1>4, <1>5 DEF FrontierInv

LEMMA CompressKeeps == FrontierInv /\ Compress => FrontierInv'
<1> SUFFICES ASSUME FrontierInv, Compress PROVE FrontierInv'
  OBVIOUS
<1>1. TypeOK /\ SweepInv /\ FiniteParts /\ Phase
  BY DEF FrontierInv
<1>2. /\ BeginSweep(Compressed(kept)) /\ thinning' = TRUE /\ thinned' = TRUE
      /\ UNCHANGED << input, pc, loops, into, pairs, current, approximate >>
  BY DEF Compress
<1>3. Compressed(kept) \in SUBSET Point /\ IsFiniteSet(Compressed(kept))
  <2>1. Compressed(kept) \in SUBSET rows
    BY <1>1 DEF Compressed, SweepInv, SweepTypeOK
  <2> QED
    BY <1>1, <2>1, FS_Subset DEF SweepInv, SweepTypeOK
<1>4. SweepInv'
  BY <1>2, <1>3, SweepInvBegin
<1>5. TypeOK'
  BY <1>1, <1>2, <1>4 DEF TypeOK, SweepInv, input, loops
<1>6. FiniteParts' /\ Phase'
  BY <1>1, <1>2 DEF FiniteParts, Phase, Repeating, Joining, loops
<1> QED
  BY <1>4, <1>5, <1>6 DEF FrontierInv

LEMMA EndBatchKeeps == FrontierInv /\ EndBatch => FrontierInv'
<1> SUFFICES ASSUME FrontierInv, EndBatch PROVE FrontierInv'
  OBVIOUS
<1>1. TypeOK /\ SweepInv /\ FiniteParts /\ Phase
  BY DEF FrontierInv
<1>2. /\ current' = kept /\ thinning' = FALSE /\ pc = "sweep" /\ pc' = "merge"
      /\ UNCHANGED << input, loops, into, pairs, thinned, approximate, sweepVars >>
  BY DEF EndBatch
<1>3. current' \subseteq Point /\ IsFiniteSet(current')
  <2>1. kept \in SUBSET rows
    BY <1>1 DEF SweepInv, SweepTypeOK
  <2> QED
    BY <1>1, <1>2, <2>1, FS_Subset DEF SweepInv, SweepTypeOK
<1>4. SweepInv'
  BY <1>1, <1>2, SweepUnchanged
<1>5. TypeOK'
  BY <1>1, <1>2, <1>3, <1>4 DEF TypeOK, SweepInv, input, loops
<1>6. FiniteParts' /\ Phase'
  BY <1>1, <1>2 DEF FiniteParts, Phase, Repeating, Joining, loops
<1> QED
  BY <1>4, <1>5, <1>6 DEF FrontierInv

LEMMA AssignKeeps == FrontierInv /\ Assign => FrontierInv'
<1> SUFFICES ASSUME FrontierInv, Assign PROVE FrontierInv'
  OBVIOUS
<1>1. TypeOK /\ SweepInv /\ FiniteParts /\ Phase
  BY DEF FrontierInv
<1>2. /\ into' = "none" /\ current' = {} /\ approximate' = (approximate \/ thinned)
      /\ UNCHANGED << input, remaining, repeated, pairs, thinning, thinned, sweepVars >>
  BY DEF Assign
<1>3. SweepInv'
  BY <1>1, <1>2, SweepUnchanged
<1>4. \A S \in {result', power', combined', current'} : S \subseteq Point /\ IsFiniteSet(S)
  BY <1>1, <1>2, LoopFacts, FS_EmptySet DEF Assign
<1>5. /\ w' \in 0 .. NumWorkloads + 1 /\ pc' \in {"halve", "repeat", "join"}
      /\ Phase'
  <2>1. CASE into \in {"result", "power"} /\ Repeating
    <3>1. w' = w /\ pc' \in {"halve", "repeat"} /\ repeated' = repeated
      BY <1>2, <2>1 DEF Assign
    <3> QED
      BY <1>1, <2>1, <3>1 DEF Phase, Repeating, TypeOK
  <2>2. CASE into = "combined" /\ Joining /\ w \in Workloads
    <3>1. w' = w + 1 /\ pc' = "join" /\ repeated' = repeated
      BY <1>2, <2>2 DEF Assign
    <3> QED
      BY <2>2, <3>1, NumberAssumption DEF Phase, Joining, Workloads
  <2> QED
    BY <1>1, <2>1, <2>2 DEF Assign, Phase
<1>6. TypeOK'
  BY <1>1, <1>2, <1>3, <1>4, <1>5 DEF TypeOK, SweepInv, input
<1>7. FiniteParts'
  BY <1>1, <1>2 DEF FiniteParts
<1> QED
  BY <1>3, <1>5, <1>6, <1>7 DEF FrontierInv

LEMMA FrontierInvNext == FrontierInv /\ [Next]_vars => FrontierInv'
<1> SUFFICES ASSUME FrontierInv, [Next]_vars PROVE FrontierInv'
  OBVIOUS
<1>1. CASE UNCHANGED vars
  <2>1. /\ TypeOK /\ SweepInv /\ FiniteParts /\ Phase
        /\ UNCHANGED << input, pc, loops, combineVars, approximate, sweepVars >>
    BY <1>1 DEF FrontierInv, vars
  <2>2. SweepInv'
    BY <2>1, SweepUnchanged
  <2>3. TypeOK'
    BY <2>1, <2>2 DEF TypeOK, SweepInv, input, loops, combineVars
  <2>4. FiniteParts' /\ Phase'
    BY <2>1 DEF FiniteParts, Phase, Repeating, Joining, loops, combineVars
  <2> QED
    BY <2>2, <2>3, <2>4 DEF FrontierInv
<1> QED
  BY <1>1, NextWorkloadKeeps, MultiplyKeeps, HalveKeeps, JoinKeeps, MergeBatchKeeps,
     SweepKeeps, CompressKeeps, EndBatchKeeps, AssignKeeps DEF Next

\* Every sweep of every combination computes the front by pairwise comparison,
\* whatever the rows (the property of the run frontier_compose).
THEOREM SweepIsExact == Spec => []SweepExact
<1>1. FrontierInv => SweepExact
  BY DEF FrontierInv, SweepInv
<1> QED
  BY <1>1, FrontierInvInit, FrontierInvNext, PTL DEF Spec

\* The composition keeps its variables in their types: sets of rows that are
\* finite, a tree within its size, workloads in their range.
THEOREM FrontierTypeCorrect == Spec => []TypeOK
<1>1. FrontierInv => TypeOK
  BY DEF FrontierInv
<1> QED
  BY <1>1, FrontierInvInit, FrontierInvNext, PTL DEF Spec

-----------------------------------------------------------------------------
(* What thinning loses.                                                    *)

NoWorse(p, q) == p.latency <= q.latency /\ p.mem <= q.mem /\ p.energy <= q.energy

LEMMA BucketMonotone ==
  ASSUME NEW u \in Nat, NEW v \in Nat, u <= v
  PROVE  Bucket(u) \in Nat /\ Bucket(v) \in Nat /\ Bucket(u) <= Bucket(v)
<1> DEFINE upTo(n) == {b \in Bounds : b <= n}
<1>0. \A b \in Bounds : b \in Nat
  BY BoundsAssumption
<1>1. ASSUME NEW n \in Nat PROVE IsFiniteSet(upTo(n))
  <2>1. upTo(n) \subseteq 0 .. n
    BY <1>0
  <2>2. IsFiniteSet(0 .. n)
    BY FS_Interval
  <2> QED
    BY <2>1, <2>2, FS_Subset
<1>2. upTo(u) \subseteq upTo(v)
  BY <1>0
<1>3. /\ Cardinality(upTo(u)) \in Nat /\ Cardinality(upTo(v)) \in Nat
      /\ Cardinality(upTo(u)) <= Cardinality(upTo(v))
  BY <1>1, <1>2, FS_Subset, FS_CardinalityType
<1> QED
  BY <1>3 DEF Bucket

LEMMA BucketOrder ==
  ASSUME NEW p \in Point, NEW q \in Point, NEW r \in Point
  PROVE  /\ NoWorse(p, q) => NoHigherBucket(p, q)
         /\ NoHigherBucket(p, p)
         /\ NoHigherBucket(p, q) /\ NoHigherBucket(q, r) => NoHigherBucket(p, r)
         /\ SameBucket(p, q) => NoHigherBucket(p, q)
<1>1. /\ p.latency \in Nat /\ p.mem \in Nat /\ p.energy \in Nat
      /\ q.latency \in Nat /\ q.mem \in Nat /\ q.energy \in Nat
      /\ r.latency \in Nat /\ r.mem \in Nat /\ r.energy \in Nat
  BY DEF Point
<1>2. \A n \in Nat : n <= n
  OBVIOUS
<1>3. /\ Bucket(p.latency) \in Nat /\ Bucket(p.mem) \in Nat /\ Bucket(p.energy) \in Nat
      /\ Bucket(q.latency) \in Nat /\ Bucket(q.mem) \in Nat /\ Bucket(q.energy) \in Nat
      /\ Bucket(r.latency) \in Nat /\ Bucket(r.mem) \in Nat /\ Bucket(r.energy) \in Nat
  BY <1>1, <1>2, BucketMonotone
<1>4. NoWorse(p, q) => NoHigherBucket(p, q)
  BY <1>1, BucketMonotone DEF NoWorse, NoHigherBucket
<1> QED
  BY <1>3, <1>4 DEF NoHigherBucket, SameBucket

\* A finished sweep keeps something no worse for every row.
LEMMA KeptCovers ==
  ASSUME SweepInv, rest = {}, NEW p \in rows
  PROVE  \E q \in kept : NoWorse(q, p)
<1>1. p \in Point
  BY DEF SweepInv, SweepTypeOK
<1>2. CASE p \in kept
  BY <1>1, <1>2 DEF NoWorse, Point
<1>3. CASE p \notin kept
  BY <1>3 DEF SweepInv, DroppedDominated, Dominates, NoWorse
<1> QED
  BY <1>2, <1>3

\* Thinning leaves a row in every bucket.
LEMMA CompressedCovers ==
  ASSUME NEW S \in SUBSET Point, NEW p \in S
  PROVE  \E q \in Compressed(S) : SameBucket(q, p)
<1> DEFINE same == {q \in S : SameBucket(q, p)}
           q == First(same)
<1>1. same \in SUBSET Point /\ p \in same
  BY DEF SameBucket
<1>2. q \in same /\ \A r \in same \ {q} : Earlier(q, r)
  BY <1>1, FirstRow
<1> HIDE DEF q
<1>3. ASSUME NEW r \in S \ {q}, SameBucket(q, r) PROVE Earlier(q, r)
  <2>1. r \in same
    BY <1>2, <1>3 DEF SameBucket
  <2> QED
    BY <1>2, <2>1
<1>4. q \in Compressed(S)
  BY <1>2, <1>3 DEF Compressed
<1> QED
  BY <1>2, <1>4

-----------------------------------------------------------------------------
(* One combination, with whatever operands.                                *)

Combining == pc \in {"merge", "sweep"}
SoFar == IF pc = "merge" THEN current ELSE rows
Summed == (Left \X Right) \ pairs

LossSoFar ==
  Combining => /\ pairs \subseteq Left \X Right
               /\ \A x \in Summed : \E q \in SoFar : NoHigherBucket(q, Plus(x[1], x[2]))

LEMMA OperandFacts ==
  ASSUME FrontierInv, Combining
  PROVE  Left \in SUBSET Point /\ Right \in SUBSET Point
<1>1. TypeOK /\ Phase
  BY DEF FrontierInv
<1>2. into = "combined" => w \in DOMAIN repeated
  BY <1>1 DEF Combining, Phase, Joining
<1> QED
  BY <1>1, <1>2, LoopFacts DEF Left, Right

\* The steps that begin a combination.
LEMMA LossBegins ==
  ASSUME FrontierInv, NextWorkload \/ Multiply \/ Halve \/ Join \/ Assign
  PROVE  LossSoFar'
<1> SUFFICES ASSUME Combining'
             PROVE  (pairs = Left \X Right)'
  BY DEF LossSoFar, Summed
<1>1. CASE NextWorkload
  BY <1>1 DEF NextWorkload, Combining
<1>2. CASE Multiply
  BY <1>2 DEF Multiply, Combine, Combining, Left, Right, loops
<1>3. CASE Halve
  BY <1>3 DEF Halve, Combine, Combining, Left, Right
<1>4. CASE Join
  BY <1>4 DEF Join, Combine, Combining, Left, Right, loops
<1>5. CASE Assign
  BY <1>5 DEF Assign, Combining
<1> QED
  BY <1>1, <1>2, <1>3, <1>4, <1>5

LEMMA OperandsStill ==
  ASSUME Combining, MergeBatch \/ Sweep \/ Compress \/ EndBatch
  PROVE  Left' = Left /\ Right' = Right /\ Combining'
<1>1. UNCHANGED << loops, into >> /\ pc' \in {"merge", "sweep"}
  BY DEF MergeBatch, Sweep, Compress, EndBatch, Combining, combineVars
<1> QED
  BY <1>1 DEF Left, Right, Combining, loops

LEMMA LossContinues ==
  ASSUME FrontierInv, LossSoFar, MergeBatch \/ Sweep \/ Compress \/ EndBatch
  PROVE  LossSoFar'
<1>1. Combining
  BY DEF MergeBatch, Sweep, Compress, EndBatch, Combining
<1>2. Left' = Left /\ Right' = Right /\ Combining'
  BY <1>1, OperandsStill
<1>3. /\ Left \in SUBSET Point /\ Right \in SUBSET Point
      /\ \A x \in Left \X Right : Plus(x[1], x[2]) \in Point
  BY <1>1, OperandFacts, PlusPoint
<1>4. /\ pairs \subseteq Left \X Right
      /\ \A x \in Summed : \E q \in SoFar : NoHigherBucket(q, Plus(x[1], x[2]))
  BY <1>1 DEF LossSoFar
<1>5. SweepInv /\ rows \in SUBSET Point /\ kept \in SUBSET Point /\ current \in SUBSET Point
  BY LoopFacts DEF FrontierInv, SweepInv, SweepTypeOK
<1>6. CASE MergeBatch
  <2>1. /\ SoFar = current /\ SoFar' = current \cup {Plus(x[1], x[2]) : x \in Batch}
        /\ pairs' = pairs \ Batch
    BY <1>6 DEF MergeBatch, SoFar, BeginSweep
  <2>2. ASSUME NEW x \in Summed'
        PROVE  \E q \in SoFar' : NoHigherBucket(q, Plus(x[1], x[2]))
    <3>1. x \in Left \X Right /\ (x \in Batch \/ x \in Summed)
      BY <1>2, <2>1 DEF Summed
    <3>2. CASE x \in Batch
      BY <1>3, <2>1, <3>1, <3>2, BucketOrder
    <3>3. CASE x \in Summed
      BY <1>4, <2>1, <3>3
    <3> QED
      BY <3>1, <3>2, <3>3
  <2> QED
    BY <1>2, <1>4, <2>1, <2>2 DEF LossSoFar
<1>7. CASE Sweep
  BY <1>2, <1>4, <1>7 DEF Sweep, SweepRow, SoFar, Summed, combineVars, LossSoFar
<1>8. CASE Compress
  <2>1. /\ rest = {} /\ pairs' = pairs /\ SoFar = rows /\ SoFar' = Compressed(kept)
    BY <1>8 DEF Compress, SoFar, BeginSweep
  <2>2. ASSUME NEW x \in Summed
        PROVE  \E q \in SoFar' : NoHigherBucket(q, Plus(x[1], x[2]))
    <3> DEFINE s == Plus(x[1], x[2])
    <3>1. s \in Point
      BY <1>3 DEF Summed
    <3> HIDE DEF s
    <3>2. PICK a \in rows : NoHigherBucket(a, s)
      BY <1>4, <2>1 DEF s
    <3>3. PICK b \in kept : NoWorse(b, a)
      BY <1>5, <2>1, KeptCovers
    <3>4. PICK c \in Compressed(kept) : SameBucket(c, b)
      BY <1>5, CompressedCovers
    <3>5. a \in Point /\ b \in Point /\ c \in Point
      BY <1>5 DEF Compressed
    <3>6. NoHigherBucket(b, a) /\ NoHigherBucket(c, b)
      BY <3>3, <3>4, <3>5, BucketOrder
    <3>7. NoHigherBucket(c, a)
      BY <3>5, <3>6, BucketOrder
    <3>8. NoHigherBucket(c, s)
      BY <3>1, <3>2, <3>5, <3>7, BucketOrder
    <3> QED
      BY <2>1, <3>8 DEF s
  <2> QED
    BY <1>2, <1>4, <2>1, <2>2 DEF LossSoFar, Summed
<1>9. CASE EndBatch
  <2>1. rest = {} /\ pairs' = pairs /\ SoFar = rows /\ SoFar' = kept
    BY <1>9 DEF EndBatch, SoFar
  <2>2. ASSUME NEW x \in Summed
        PROVE  \E q \in SoFar' : NoHigherBucket(q, Plus(x[1], x[2]))
    <3> DEFINE s == Plus(x[1], x[2])
    <3>1. s \in Point
      BY <1>3 DEF Summed
    <3> HIDE DEF s
    <3>2. PICK a \in rows : NoHigherBucket(a, s)
      BY <1>4, <2>1 DEF s
    <3>3. PICK b \in kept : NoWorse(b, a)
      BY <1>5, <2>1, KeptCovers
    <3>4. a \in Point /\ b \in Point
      BY <1>5
    <3>5. NoHigherBucket(b, a)
      BY <3>3, <3>4, BucketOrder
    <3>6. NoHigherBucket(b, s)
      BY <3>1, <3>2, <3>4, <3>5, BucketOrder
    <3> QED
      BY <2>1, <3>6 DEF s
  <2> QED
    BY <1>2, <1>4, <2>1, <2>2 DEF LossSoFar, Summed
<1> QED
  BY <1>6, <1>7, <1>8, <1>9

LEMMA LossNext == FrontierInv /\ LossSoFar /\ [Next]_vars => LossSoFar'
<1> SUFFICES ASSUME FrontierInv, LossSoFar, [Next]_vars PROVE LossSoFar'
  OBVIOUS
<1>1. CASE UNCHANGED vars
  BY <1>1 DEF vars, loops, combineVars, sweepVars, LossSoFar, Combining, Summed, SoFar,
              Left, Right
<1> QED
  BY <1>1, LossBegins, LossContinues DEF Next

\* Whatever the limit and the width of buckets, a combination loses at most one
\* bucket per metric against all sums of its operands, however many batches
\* were thinned.
THEOREM ThinningBounded == Spec => []LossBounded
<1>1. Init => LossSoFar
  BY DEF Init, LossSoFar, Combining
<1>2. FrontierInv /\ LossSoFar => LossBounded
  <2> SUFFICES ASSUME FrontierInv, LossSoFar, pc = "merge", pairs = {},
                      NEW p \in Sums(Left, Right)
               PROVE  \E q \in current : NoHigherBucket(q, p)
    BY DEF LossBounded
  <2>1. PICK a \in Left, b \in Right : p = Plus(a, b)
    BY DEF Sums
  <2>2. << a, b >> \in Summed
    BY DEF Summed
  <2> QED
    BY <2>1, <2>2 DEF LossSoFar, Combining, SoFar
<1> QED
  BY <1>1, <1>2, FrontierInvInit, FrontierInvNext, LossNext, PTL DEF Spec

-----------------------------------------------------------------------------
(* Fronts of sums.                                                         *)

LEMMA NoWorseOrder ==
  ASSUME NEW p \in Point, NEW q \in Point, NEW r \in Point
  PROVE  /\ NoWorse(p, p)
         /\ NoWorse(p, q) /\ NoWorse(q, r) => NoWorse(p, r)
         /\ NoWorse(p, q) /\ Dominates(q, r) => Dominates(p, r)
         /\ Dominates(p, q) <=> NoWorse(p, q) /\ p # q
<1>1. /\ p = [latency |-> p.latency, mem |-> p.mem, energy |-> p.energy]
      /\ q = [latency |-> q.latency, mem |-> q.mem, energy |-> q.energy]
      /\ p.latency \in Nat /\ p.mem \in Nat /\ p.energy \in Nat
      /\ q.latency \in Nat /\ q.mem \in Nat /\ q.energy \in Nat
      /\ r.latency \in Nat /\ r.mem \in Nat /\ r.energy \in Nat
  BY DEF Point
<1>2. p = q <=> p.latency = q.latency /\ p.mem = q.mem /\ p.energy = q.energy
  BY <1>1
<1> QED
  BY <1>1, <1>2 DEF NoWorse, Dominates

LEMMA FrontCovers ==
  ASSUME NEW A \in SUBSET Point, NEW p \in A
  PROVE  \E q \in NonDominated(A) : NoWorse(q, p)
<1> DEFINE D == {r \in A : NoWorse(r, p)}
           weight(r) == r.latency + r.mem + r.energy
           W == {weight(r) : r \in D}
<1>1. \A r \in A : r.latency \in Nat /\ r.mem \in Nat /\ r.energy \in Nat
  BY DEF Point
<1>2. W \in SUBSET Nat /\ W # {}
  BY <1>1, NoWorseOrder
<1>3. PICK v \in W : \A u \in W : v <= u
  BY <1>2, Least
<1>4. PICK q \in D : v = weight(q)
  OBVIOUS
<1>5. ASSUME NEW s \in A, Dominates(s, q) PROVE FALSE
  <2>1. NoWorse(s, q) /\ s # q
    BY <1>4, <1>5, NoWorseOrder
  <2>2. s \in D
    BY <1>4, <2>1, NoWorseOrder
  <2>3. weight(s) < weight(q)
    BY <1>1, <1>4, <1>5 DEF Dominates
  <2>4. weight(s) \in W /\ weight(s) \in Nat /\ weight(q) \in Nat
    BY <1>1, <1>4, <2>2
  <2> QED
    BY <1>3, <1>4, <2>3, <2>4
<1> QED
  BY <1>4, <1>5 DEF NonDominated

\* A part with something no worse for every row has the front of the whole.
LEMMA CofinalFront ==
  ASSUME NEW X \in SUBSET Point, NEW C \in SUBSET X,
         \A p \in X : \E q \in C : NoWorse(q, p)
  PROVE  NonDominated(C) = NonDominated(X)
<1>1. ASSUME NEW p \in NonDominated(X) PROVE p \in NonDominated(C)
  <2>1. p \in X /\ p \in Point /\ \A q \in X : ~Dominates(q, p)
    BY DEF NonDominated
  <2>2. PICK q \in C : NoWorse(q, p)
    BY <2>1
  <2>3. q = p
    BY <2>1, <2>2, NoWorseOrder
  <2> QED
    BY <2>1, <2>2, <2>3 DEF NonDominated
<1>2. ASSUME NEW p \in NonDominated(C) PROVE p \in NonDominated(X)
  <2>1. p \in C /\ p \in X /\ p \in Point /\ \A q \in C : ~Dominates(q, p)
    BY DEF NonDominated
  <2>2. ASSUME NEW x \in X, Dominates(x, p) PROVE FALSE
    <3>1. PICK q \in C : NoWorse(q, x)
      OBVIOUS
    <3>2. Dominates(q, p)
      BY <2>1, <2>2, <3>1, NoWorseOrder
    <3> QED
      BY <2>1, <3>2
  <2> QED
    BY <2>1, <2>2 DEF NonDominated
<1> QED
  BY <1>1, <1>2

LEMMA FrontOfFront ==
  ASSUME NEW A \in SUBSET Point, NEW Y \in SUBSET Point
  PROVE  /\ NonDominated(NonDominated(A) \cup Y) = NonDominated(A \cup Y)
         /\ NonDominated(NonDominated(A)) = NonDominated(A)
<1>1. NonDominated(A) \subseteq A
  BY DEF NonDominated
<1>2. \A p \in A \cup Y : \E q \in NonDominated(A) \cup Y : NoWorse(q, p)
  BY FrontCovers, NoWorseOrder
<1>3. \A p \in A : \E q \in NonDominated(A) : NoWorse(q, p)
  BY FrontCovers
<1>4. NonDominated(NonDominated(A) \cup Y) = NonDominated(A \cup Y)
  <2>1. A \cup Y \in SUBSET Point /\ NonDominated(A) \cup Y \in SUBSET (A \cup Y)
    BY <1>1
  <2> QED
    BY <1>2, <2>1, CofinalFront
<1>5. NonDominated(NonDominated(A)) = NonDominated(A)
  BY <1>1, <1>3, CofinalFront
<1> QED
  BY <1>4, <1>5

LEMMA SumsPoints ==
  ASSUME NEW A \in SUBSET Point, NEW B \in SUBSET Point
  PROVE  /\ Sums(A, B) \in SUBSET Point
         /\ Sums(A, B) = Sums(B, A)
         /\ Sums({Zero}, A) = A /\ Sums(A, {Zero}) = A
<1>1. \A p, q \in Point : Plus(p, q) \in Point /\ Plus(p, q) = Plus(q, p)
  BY DEF Plus, Point
<1>2. \A p \in Point : Plus(Zero, p) = p /\ Plus(p, Zero) = p
  BY DEF Plus, Point, Zero
<1> QED
  BY <1>1, <1>2 DEF Sums

LEMMA SumsAssociate ==
  ASSUME NEW A \in SUBSET Point, NEW B \in SUBSET Point, NEW C \in SUBSET Point
  PROVE  Sums(Sums(A, B), C) = Sums(A, Sums(B, C))
<1>1. \A p, q, r \in Point : Plus(Plus(p, q), r) = Plus(p, Plus(q, r))
  BY DEF Plus, Point
<1>2. ASSUME NEW x \in Sums(Sums(A, B), C) PROVE x \in Sums(A, Sums(B, C))
  <2>1. PICK p \in A, q \in B, r \in C : x = Plus(Plus(p, q), r)
    BY DEF Sums
  <2> QED
    BY <1>1, <2>1 DEF Sums
<1>3. ASSUME NEW x \in Sums(A, Sums(B, C)) PROVE x \in Sums(Sums(A, B), C)
  <2>1. PICK p \in A, q \in B, r \in C : x = Plus(p, Plus(q, r))
    BY DEF Sums
  <2> QED
    BY <1>1, <2>1 DEF Sums
<1> QED
  BY <1>2, <1>3

\* The front of the sums may be taken of sums of fronts.
LEMMA FrontOfSums ==
  ASSUME NEW A \in SUBSET Point, NEW B \in SUBSET Point
  PROVE  NonDominated(Sums(NonDominated(A), NonDominated(B))) = NonDominated(Sums(A, B))
<1>1. NonDominated(A) \subseteq A /\ NonDominated(B) \subseteq B
  BY DEF NonDominated
<1>2. Sums(NonDominated(A), NonDominated(B)) \in SUBSET Sums(A, B)
  BY <1>1 DEF Sums
<1>3. ASSUME NEW x \in Sums(A, B)
      PROVE  \E y \in Sums(NonDominated(A), NonDominated(B)) : NoWorse(y, x)
  <2>1. PICK a \in A, b \in B : x = Plus(a, b)
    BY DEF Sums
  <2>2. PICK c \in NonDominated(A) : NoWorse(c, a)
    BY FrontCovers
  <2>3. PICK d \in NonDominated(B) : NoWorse(d, b)
    BY FrontCovers
  <2>4. a \in Point /\ b \in Point /\ c \in Point /\ d \in Point
    BY <1>1
  <2>5. NoWorse(Plus(c, d), Plus(a, b))
    BY <2>2, <2>3, <2>4 DEF NoWorse, Plus, Point
  <2> QED
    BY <2>1, <2>5 DEF Sums
<1> QED
  BY <1>2, <1>3, SumsPoints, CofinalFront

LEMMA MultiplesStep ==
  ASSUME NEW S \in SUBSET Point
  PROVE  /\ Multiples(S, 0) = {Zero}
         /\ \A n \in Nat : /\ Multiples(S, n) \in SUBSET Point
                           /\ Multiples(S, n + 1) = Sums(Multiples(S, n), S)
<1> DEFINE V == SUBSET Point
           prev == [n \in Nat \ {0} |-> n - 1]
           step == [x \in (Nat \ {0}) \X V |-> Sums(x[2], S)]
           Rec(f) == f = [n \in Nat |-> IF n = 0 THEN {Zero} ELSE Sums(f[n - 1], S)]
<1>0. V = SUBSET Point /\ {Zero} \in V
  BY ZeroFront
<1>1. \A n \in Nat \ {0} : prev[n] = n - 1 /\ prev[n] \in Nat /\ prev[n] < n
  OBVIOUS
<1>2. \A n \in Nat \ {0}, v \in V : step[<< n, v >>] = Sums(v, S)
  OBVIOUS
<1> HIDE DEF prev, step, V
<1>3. ASSUME NEW n \in Nat \ {0}, NEW v \in V PROVE step[<< n, v >>] \in V
  <2>1. v \in SUBSET Point
    BY <1>0
  <2>2. Sums(v, S) \in SUBSET Point
    BY <2>1, SumsPoints
  <2> QED
    BY <1>0, <1>2, <2>2
<1>4. PICK g \in [Nat -> V] : Solves(g, {Zero}, prev, step)
  <2>1. Recurrence(V, {Zero}, prev, step)
    BY <1>0, <1>1, <1>3 DEF Recurrence
  <2> QED
    BY <2>1, Recursion
<1>5. ASSUME NEW n \in Nat
      PROVE  g[n] = IF n = 0 THEN {Zero} ELSE Sums(g[n - 1], S)
  <2>1. n # 0 => n \in Nat \ {0} /\ prev[n] = n - 1 /\ g[n - 1] \in V
    BY <1>1, <1>4
  <2>2. n # 0 => g[n] = step[<< n, g[n - 1] >>]
    BY <1>4, <2>1 DEF Solves
  <2> QED
    BY <1>2, <1>4, <2>1, <2>2 DEF Solves
<1>6. Rec(g)
  BY <1>4, <1>5
<1> DEFINE total == CHOOSE h : Rec(h)
<1>7. \A n : Multiples(S, n) = total[n]
  BY DEF Multiples
<1>8. Rec(total)
  BY <1>6
<1> HIDE DEF total
<1>9. \A n \in Nat : total[n] = IF n = 0 THEN {Zero} ELSE Sums(total[n - 1], S)
  BY <1>8
<1>10. ASSUME NEW n \in Nat PROVE total[n + 1] = Sums(total[n], S)
  <2>1. n + 1 \in Nat /\ n + 1 # 0 /\ n + 1 - 1 = n
    OBVIOUS
  <2> QED
    BY <1>9, <2>1
<1> DEFINE Bad == {n \in Nat : total[n] \notin SUBSET Point}
<1>11. Bad = {}
  <2> SUFFICES ASSUME Bad # {} PROVE FALSE
    OBVIOUS
  <2>1. PICK n \in Bad : \A u \in Bad : n <= u
    BY Least
  <2>2. n # 0
    BY <1>9, ZeroFront
  <2>3. total[n - 1] \in SUBSET Point
    BY <2>1, <2>2
  <2> QED
    BY <1>9, <2>2, <2>3, SumsPoints
<1> QED
  BY <1>7, <1>9, <1>10, <1>11

LEMMA MultiplesAdd ==
  ASSUME NEW S \in SUBSET Point, NEW a \in Nat, NEW b \in Nat
  PROVE  /\ Multiples(S, a) \in SUBSET Point
         /\ Sums(Multiples(S, a), Multiples(S, b)) = Multiples(S, a + b)
<1> DEFINE Adds(n) == Sums(Multiples(S, a), Multiples(S, n)) = Multiples(S, a + n)
           Bad == {n \in Nat : ~Adds(n)}
<1>1. Multiples(S, a) \in SUBSET Point
  BY MultiplesStep
<1>2. Adds(0)
  <2>1. a + 0 = a /\ Multiples(S, 0) = {Zero}
    BY MultiplesStep
  <2> QED
    BY <1>1, <2>1, SumsPoints
<1>3. ASSUME NEW n \in Nat, Adds(n) PROVE Adds(n + 1)
  <2>1. Multiples(S, n) \in SUBSET Point /\ Multiples(S, n + 1) = Sums(Multiples(S, n), S)
    BY MultiplesStep
  <2>2. Multiples(S, (a + n) + 1) = Sums(Multiples(S, a + n), S)
    <3>1. a + n \in Nat
      OBVIOUS
    <3> HIDE DEF Adds
    <3> QED
      BY ONLY <3>1, S \in SUBSET Point, MultiplesStep
  <2>3. a + (n + 1) = (a + n) + 1
    OBVIOUS
  <2> QED
    BY <1>1, <1>3, <2>1, <2>2, <2>3, SumsAssociate
<1>4. Bad = {}
  <2> SUFFICES ASSUME Bad # {} PROVE FALSE
    OBVIOUS
  <2>1. PICK n \in Bad : \A u \in Bad : n <= u
    BY Least
  <2> HIDE DEF Adds
  <2>2. n # 0
    BY <1>2
  <2>3. n - 1 \in Nat /\ (n - 1) + 1 = n /\ ~(n <= n - 1)
    BY <2>2
  <2>4. Adds(n - 1)
    BY <2>1, <2>3
  <2> QED
    BY <1>3, <2>3, <2>4
<1> QED
  BY <1>1, <1>4

LEMMA TotalStep ==
  ASSUME TypeOK
  PROVE  /\ TotalTo[0] = {Zero}
         /\ \A k \in 0 .. NumWorkloads : TotalTo[k] \in SUBSET Point
         /\ \A k \in Workloads :
              TotalTo[k] = Sums(TotalTo[k - 1], Multiples(front[k], layers[k]))
<1> DEFINE V == SUBSET Point
           prev == [k \in Nat \ {0} |-> k - 1]
           step == [x \in (Nat \ {0}) \X V |->
                      IF x[1] \in Workloads
                      THEN Sums(x[2], Multiples(front[x[1]], layers[x[1]])) ELSE {}]
           Rec(f) == f = [k \in 0 .. NumWorkloads |->
                            IF k = 0 THEN {Zero}
                            ELSE Sums(f[k - 1], Multiples(front[k], layers[k]))]
<1>0. V = SUBSET Point /\ {Zero} \in V /\ {} \in V
  BY ZeroFront
<1>1. \A k \in Nat \ {0} : prev[k] = k - 1 /\ prev[k] \in Nat /\ prev[k] < k
  OBVIOUS
<1>2. \A k \in Nat \ {0}, v \in V :
         step[<< k, v >>] = IF k \in Workloads
                            THEN Sums(v, Multiples(front[k], layers[k])) ELSE {}
  OBVIOUS
<1>3. \A k \in Workloads : Multiples(front[k], layers[k]) \in SUBSET Point
  BY LoopFacts, MultiplesStep
<1> HIDE DEF prev, step, V
<1>4. ASSUME NEW k \in Nat \ {0}, NEW v \in V PROVE step[<< k, v >>] \in V
  <2>1. v \in SUBSET Point
    BY <1>0
  <2>2. k \in Workloads => Sums(v, Multiples(front[k], layers[k])) \in SUBSET Point
    BY <1>3, <2>1, SumsPoints
  <2> QED
    BY <1>0, <1>2, <2>2
<1>5. PICK g \in [Nat -> V] : Solves(g, {Zero}, prev, step)
  <2>1. Recurrence(V, {Zero}, prev, step)
    BY <1>0, <1>1, <1>4 DEF Recurrence
  <2> QED
    BY <2>1, Recursion
<1> DEFINE f == [k \in 0 .. NumWorkloads |-> g[k]]
<1>6. ASSUME NEW k \in 0 .. NumWorkloads
      PROVE  f[k] = IF k = 0 THEN {Zero}
                    ELSE Sums(f[k - 1], Multiples(front[k], layers[k]))
  <2>1. CASE k = 0
    BY <1>5, <2>1 DEF Solves
  <2>2. CASE k # 0
    <3>1. k \in Workloads /\ k \in Nat \ {0} /\ k - 1 \in 0 .. NumWorkloads /\ k - 1 \in Nat
      BY <2>2, NumberAssumption DEF Workloads
    <3>2. g[k] = step[<< k, g[k - 1] >>] /\ g[k - 1] \in V
      BY <1>1, <1>5, <3>1 DEF Solves
    <3> QED
      BY <1>2, <2>2, <3>1, <3>2
  <2> QED
    BY <2>1, <2>2
<1>7. Rec(f)
  BY <1>6
<1>8. TotalTo = CHOOSE h : Rec(h)
  BY DEF TotalTo
<1>9. Rec(TotalTo)
  BY <1>7, <1>8
<1>10. \A k \in 0 .. NumWorkloads :
          TotalTo[k] = IF k = 0 THEN {Zero}
                       ELSE Sums(TotalTo[k - 1], Multiples(front[k], layers[k]))
  BY <1>9
<1>11. \A k \in Workloads : k \in 0 .. NumWorkloads /\ k # 0 /\ k \in Nat
                            /\ k - 1 \in 0 .. NumWorkloads /\ ~(k <= k - 1)
  BY NumberAssumption DEF Workloads
<1>12. 0 \in 0 .. NumWorkloads
  BY NumberAssumption
<1> DEFINE Bad == {k \in 0 .. NumWorkloads : TotalTo[k] \notin SUBSET Point}
<1>13. Bad = {}
  <2> SUFFICES ASSUME Bad # {} PROVE FALSE
    OBVIOUS
  <2>1. PICK k \in Bad : \A u \in Bad : k <= u
    <3>1. Bad \in SUBSET Nat
      BY NumberAssumption
    <3> QED
      BY <3>1, Least
  <2>2. k # 0
    BY <1>10, <1>12, ZeroFront
  <2>3. k \in Workloads
    BY <2>2, NumberAssumption DEF Workloads
  <2>4. TotalTo[k - 1] \in SUBSET Point
    BY <1>11, <2>1, <2>3
  <2> QED
    BY <1>3, <1>10, <1>11, <2>3, <2>4, SumsPoints
<1> QED
  BY <1>10, <1>11, <1>12, <1>13

-----------------------------------------------------------------------------
(* One combination, exactly.                                               *)

SumsSoFar == {Plus(x[1], x[2]) : x \in Summed}

CombineInv ==
  Combining =>
    /\ pairs \subseteq Left \X Right
    /\ SoFar \subseteq SumsSoFar
    /\ ~thinned => NonDominated(SoFar) = NonDominated(SumsSoFar)
    /\ ~thinned /\ pc = "merge" => SoFar = NonDominated(SoFar)

LEMMA CombineBegins ==
  ASSUME FrontierInv, NextWorkload \/ Multiply \/ Halve \/ Join \/ Assign
  PROVE  CombineInv'
<1> SUFFICES ASSUME Combining'
             PROVE  (pairs = Left \X Right /\ pc = "merge" /\ current = {})'
  BY DEF CombineInv, Summed, SumsSoFar, SoFar, NonDominated
<1>1. CASE NextWorkload
  BY <1>1 DEF NextWorkload, Combining
<1>2. CASE Multiply
  BY <1>2 DEF Multiply, Combine, Combining, Left, Right, loops
<1>3. CASE Halve
  BY <1>3 DEF Halve, Combine, Combining, Left, Right
<1>4. CASE Join
  BY <1>4 DEF Join, Combine, Combining, Left, Right, loops
<1>5. CASE Assign
  BY <1>5 DEF Assign, Combining
<1> QED
  BY <1>1, <1>2, <1>3, <1>4, <1>5

LEMMA CombineContinues ==
  ASSUME FrontierInv, CombineInv, MergeBatch \/ Sweep \/ Compress \/ EndBatch
  PROVE  CombineInv'
<1>1. Combining
  BY DEF MergeBatch, Sweep, Compress, EndBatch, Combining
<1>2. Left' = Left /\ Right' = Right /\ Combining'
  BY <1>1, OperandsStill
<1>3. \A x \in Left \X Right : Plus(x[1], x[2]) \in Point
  BY <1>1, OperandFacts, PlusPoint
<1>4. /\ pairs \subseteq Left \X Right
      /\ SoFar \subseteq SumsSoFar
      /\ ~thinned => NonDominated(SoFar) = NonDominated(SumsSoFar)
      /\ ~thinned /\ pc = "merge" => SoFar = NonDominated(SoFar)
  BY <1>1 DEF CombineInv
<1>5. SumsSoFar \in SUBSET Point
  BY <1>3 DEF SumsSoFar, Summed
<1>6. SweepInv /\ rows \in SUBSET Point /\ current \in SUBSET Point
  BY LoopFacts DEF FrontierInv, SweepInv, SweepTypeOK
<1>7. CASE MergeBatch
  <2> DEFINE new == {Plus(x[1], x[2]) : x \in Batch}
  <2>1. /\ SoFar = current /\ SoFar' = current \cup new
        /\ pairs' = pairs \ Batch /\ pc = "merge" /\ pc' = "sweep" /\ thinned' = thinned
    BY <1>7 DEF MergeBatch, SoFar, BeginSweep
  <2>2. Batch \subseteq pairs
    BY DEF Batch
  <2>3. Summed' = Summed \cup Batch
    BY <1>2, <1>4, <2>1, <2>2 DEF Summed
  <2>4. SumsSoFar' = SumsSoFar \cup new
    BY <2>3 DEF SumsSoFar
  <2>5. new \in SUBSET Point
    BY <1>3, <1>4, <2>2
  <2> HIDE DEF new
  <2>6. ~thinned => NonDominated(current \cup new) = NonDominated(SumsSoFar \cup new)
    <3> SUFFICES ASSUME ~thinned
                 PROVE  NonDominated(current \cup new) = NonDominated(SumsSoFar \cup new)
      OBVIOUS
    <3>1. current = NonDominated(SumsSoFar)
      BY <1>4, <2>1
    <3> QED
      BY <1>5, <2>5, <3>1, FrontOfFront
  <2>7. SoFar' \subseteq SumsSoFar'
    BY <1>4, <2>1, <2>4
  <2>8. pairs' \subseteq Left' \X Right'
    BY <1>2, <1>4, <2>1
  <2> QED
    BY <2>1, <2>4, <2>6, <2>7, <2>8 DEF CombineInv
<1>8. CASE Sweep
  <2>1. /\ SoFar' = SoFar /\ Summed' = Summed /\ pairs' = pairs
        /\ thinned' = thinned /\ pc' = pc
    BY <1>2, <1>8 DEF Sweep, SweepRow, SoFar, Summed, combineVars
  <2> QED
    BY <1>2, <1>4, <2>1 DEF CombineInv, SumsSoFar
<1>9. CASE Compress
  <2>1. /\ pairs' = pairs /\ SoFar = rows /\ SoFar' = Compressed(kept) /\ thinned' = TRUE
    BY <1>9 DEF Compress, SoFar, BeginSweep
  <2>2. Compressed(kept) \subseteq rows
    BY <1>6 DEF Compressed, SweepInv, SweepTypeOK
  <2>3. SumsSoFar' = SumsSoFar
    BY <1>2, <2>1 DEF SumsSoFar, Summed
  <2> QED
    BY <1>2, <1>4, <2>1, <2>2, <2>3 DEF CombineInv
<1>10. CASE EndBatch
  <2>1. /\ rest = {} /\ pairs' = pairs /\ SoFar = rows /\ SoFar' = kept /\ thinned' = thinned
    BY <1>10 DEF EndBatch, SoFar
  <2>2. kept = NonDominated(rows) /\ kept \subseteq rows
    BY <1>6, <2>1 DEF SweepInv, SweepExact, SweepTypeOK
  <2>3. NonDominated(kept) = NonDominated(rows) /\ kept = NonDominated(kept)
    BY <1>6, <2>2, FrontOfFront
  <2>4. SumsSoFar' = SumsSoFar
    BY <1>2, <2>1 DEF SumsSoFar, Summed
  <2> QED
    BY <1>2, <1>4, <2>1, <2>2, <2>3, <2>4 DEF CombineInv
<1> QED
  BY <1>7, <1>8, <1>9, <1>10

LEMMA CombineNext == FrontierInv /\ CombineInv /\ [Next]_vars => CombineInv'
<1> SUFFICES ASSUME FrontierInv, CombineInv, [Next]_vars PROVE CombineInv'
  OBVIOUS
<1>1. CASE UNCHANGED vars
  BY <1>1 DEF vars, loops, combineVars, sweepVars, CombineInv, Combining, SumsSoFar, Summed,
              SoFar, Left, Right
<1> QED
  BY <1>1, CombineBegins, CombineContinues DEF Next

\* X stands for all of F: nothing else is in it, and unless something has been
\* thinned it is the front.
Stands(X, F) == X \subseteq F /\ (~approximate => X = NonDominated(F))

LEMMA CombinationStands ==
  ASSUME FrontierInv, CombineInv, pc = "merge", pairs = {},
         NEW F \in SUBSET Point, NEW G \in SUBSET Point, Stands(Left, F), Stands(Right, G)
  PROVE  /\ current \subseteq Sums(F, G)
         /\ ~approximate /\ ~thinned => current = NonDominated(Sums(F, G))
<1>1. Combining /\ SoFar = current
  BY DEF Combining, SoFar
<1>2. SumsSoFar = Sums(Left, Right)
  <2>1. Summed = Left \X Right
    BY DEF Summed
  <2>2. SumsSoFar = {Plus(x[1], x[2]) : x \in Left \X Right}
    BY <2>1 DEF SumsSoFar
  <2>3. ASSUME NEW a \in Left, NEW b \in Right PROVE Plus(a, b) \in SumsSoFar
    <3>1. << a, b >> \in Left \X Right /\ << a, b >>[1] = a /\ << a, b >>[2] = b
      OBVIOUS
    <3> QED
      BY <2>2, <3>1
  <2>4. \A s \in Sums(Left, Right) : s \in SumsSoFar
    BY <2>3 DEF Sums
  <2>5. \A s \in SumsSoFar : s \in Sums(Left, Right)
    BY <2>2 DEF Sums
  <2> QED
    BY <2>4, <2>5
<1>3. /\ current \subseteq Sums(Left, Right)
      /\ ~thinned => current = NonDominated(Sums(Left, Right))
  BY <1>1, <1>2 DEF CombineInv
<1>4. Sums(Left, Right) \subseteq Sums(F, G)
  BY DEF Stands, Sums
<1>5. ASSUME ~approximate, ~thinned PROVE current = NonDominated(Sums(F, G))
  <2>1. Left = NonDominated(F) /\ Right = NonDominated(G)
    BY <1>5 DEF Stands
  <2> QED
    BY <1>3, <1>5, <2>1, FrontOfSums
<1> QED
  BY <1>3, <1>4, <1>5

LEMMA Squaring ==
  ASSUME NEW a \in Nat, NEW b \in Nat, NEW n \in Nat
  PROVE  /\ n \div 2 \in Nat
         /\ n % 2 = 1 => a + n * b = (a + b) + (n \div 2) * (b + b)
         /\ n % 2 # 1 => a + n * b = a + (n \div 2) * (b + b)
         /\ a + 0 * (b + b) = a
         /\ a + 1 * b = a + b
<1>1. PICK m \in Nat : m = n \div 2 /\ (n = 2 * m \/ n = 2 * m + 1)
  OBVIOUS
<1>2. n % 2 = 1 <=> n = 2 * m + 1
  BY <1>1
<1>3. (2 * m) * b = m * (b + b)
  BY SMT
<1>4. (2 * m + 1) * b = m * (b + b) + b
  BY SMT
<1>5. m * (b + b) \in Nat /\ 0 * (b + b) = 0 /\ 1 * b = b
  BY SMT
<1> QED
  BY <1>1, <1>2, <1>3, <1>4, <1>5

-----------------------------------------------------------------------------
(* The loops, exactly.                                                     *)

Copies(n) == Multiples(front[w], n)

\* result stands for a layers of the workload and power for b.
Progress(a, b) == Stands(result, Copies(a)) /\ Stands(power, Copies(b))

RepeatInv ==
  /\ pc = "repeat" =>
       \E a, b \in Nat : Progress(a, b) /\ layers[w] = a + remaining * b
  /\ Combining /\ into = "result" =>
       \E a, b \in Nat :
         Progress(a, b) /\ layers[w] = (a + b) + (remaining \div 2) * (b + b)
  /\ pc = "halve" =>
       \E a, b \in Nat : Progress(a, b) /\ layers[w] = a + (remaining \div 2) * (b + b)
  /\ Combining /\ into = "power" =>
       \E a, b \in Nat : Progress(a, b) /\ layers[w] = a + remaining * (b + b)

RepeatedInv ==
  \A k \in DOMAIN repeated : Stands(repeated[k], Multiples(front[k], layers[k]))

JoinInv ==
  /\ pc \in {"next", "repeat", "halve"} \/ (Combining /\ into # "combined")
       => combined = {Zero}
  /\ pc = "join" \/ (Combining /\ into = "combined")
       => Stands(combined, TotalTo[w - 1])
  /\ pc = "done" => Stands(combined, TotalTo[NumWorkloads])

LoopInv == RepeatInv /\ RepeatedInv /\ JoinInv

LEMMA TotalStill ==
  ASSUME UNCHANGED input
  PROVE  TotalTo' = TotalTo
BY DEF input, TotalTo, Multiples

LEMMA LoopNextWorkload == FrontierInv /\ LoopInv /\ NextWorkload => LoopInv'
<1> SUFFICES ASSUME FrontierInv, LoopInv, NextWorkload PROVE LoopInv'
  OBVIOUS
<1>1. /\ TypeOK /\ w \in 0 .. NumWorkloads /\ DOMAIN repeated = 1 .. w
      /\ RepeatedInv /\ combined = {Zero}
  <2>1. TypeOK /\ Phase /\ RepeatedInv /\ JoinInv /\ pc = "next"
    BY DEF FrontierInv, NextWorkload, LoopInv
  <2> QED
    BY <2>1 DEF Phase, JoinInv
<1>2. /\ front' = front /\ layers' = layers /\ repeated' = repeated
      /\ combined' = combined /\ approximate' = approximate
      /\ pc' \in {"repeat", "join"} /\ TotalTo' = TotalTo
  BY TotalStill DEF NextWorkload, input
<1>3. RepeatedInv'
  BY <1>1, <1>2 DEF RepeatedInv, Stands
<1>4. JoinInv'
  <2>1. pc' = "join" => w' - 1 = 0
    BY <1>2 DEF NextWorkload
  <2>2. Stands({Zero}, TotalTo[0])
    <3>1. TotalTo[0] = {Zero}
      BY <1>1, TotalStep
    <3>2. {Zero} = NonDominated({Zero})
      BY ZeroFront, NoWorseOrder DEF NonDominated
    <3> QED
      BY <3>1, <3>2 DEF Stands
  <2> QED
    BY <1>1, <1>2, <2>1, <2>2 DEF JoinInv, Stands, Combining
<1>5. RepeatInv'
  <2> SUFFICES ASSUME pc' = "repeat"
               PROVE  \E a, b \in Nat : Progress(a, b)' /\ layers'[w'] = a + remaining' * b
    BY <1>2 DEF RepeatInv, Combining
  <2>1. /\ w' = w + 1 /\ w + 1 \in Workloads
        /\ result' = {Zero} /\ power' = front[w + 1] /\ remaining' = layers[w + 1]
    BY <1>1, NumberAssumption DEF NextWorkload, Workloads
  <2> DEFINE S == front[w + 1]
  <2>2. S \in SUBSET Point /\ S = NonDominated(S) /\ layers[w + 1] \in Nat
    BY <1>1, <2>1, LoopFacts
  <2>3. Multiples(S, 0) = {Zero} /\ Multiples(S, 1) = S
    <3>1. 0 \in Nat /\ 0 + 1 = 1
      OBVIOUS
    <3>2. Multiples(S, 0) = {Zero} /\ Multiples(S, 0 + 1) = Sums(Multiples(S, 0), S)
      BY <2>2, <3>1, MultiplesStep
    <3> QED
      BY <2>2, <3>1, <3>2, SumsPoints
  <2>4. {Zero} = NonDominated({Zero})
    BY ZeroFront, NoWorseOrder DEF NonDominated
  <2> HIDE DEF S
  <2>5. Progress(0, 1)'
    BY <1>2, <2>1, <2>2, <2>3, <2>4 DEF Progress, Stands, Copies, S
  <2>6. layers'[w'] = 0 + remaining' * 1
    BY <1>2, <2>1, <2>2
  <2> QED
    BY <2>5, <2>6
<1> QED
  BY <1>3, <1>4, <1>5 DEF LoopInv

LEMMA LoopMultiply == FrontierInv /\ LoopInv /\ Multiply => LoopInv'
<1> SUFFICES ASSUME FrontierInv, LoopInv, Multiply PROVE LoopInv'
  OBVIOUS
<1>1. /\ TypeOK /\ RepeatedInv /\ combined = {Zero} /\ pc = "repeat" /\ remaining \in Nat
  <2>1. TypeOK /\ RepeatedInv /\ JoinInv /\ pc = "repeat"
    BY DEF FrontierInv, Multiply, LoopInv
  <2>2. remaining \in Nat
    BY <2>1 DEF TypeOK
  <2> QED
    BY <2>1, <2>2 DEF JoinInv
<1>2. /\ front' = front /\ layers' = layers /\ approximate' = approximate
      /\ w' = w /\ result' = result /\ power' = power /\ remaining' = remaining
      /\ repeated' = repeated /\ combined' = combined
  BY DEF Multiply, input, loops
<1>3. RepeatedInv'
  BY <1>1, <1>2 DEF RepeatedInv, Stands
<1>4. PICK a \in Nat, b \in Nat : Progress(a, b) /\ layers[w] = a + remaining * b
  BY <1>1 DEF LoopInv, RepeatInv
<1>5. Progress(a, b)'
  BY <1>2, <1>4 DEF Progress, Stands, Copies
<1>6. CASE remaining % 2 = 1
  <2>1. pc' = "merge" /\ into' = "result"
    BY <1>6 DEF Multiply, Combine
  <2>2. layers[w] = (a + b) + (remaining \div 2) * (b + b)
    BY <1>1, <1>4, <1>6, Squaring
  <2>3. RepeatInv'
    BY <1>2, <1>5, <2>1, <2>2 DEF RepeatInv, Combining
  <2>4. JoinInv'
    BY <1>1, <1>2, <2>1 DEF JoinInv, Combining
  <2> QED
    BY <1>3, <2>3, <2>4 DEF LoopInv
<1>7. CASE remaining % 2 # 1
  <2>1. pc' = "halve"
    BY <1>7 DEF Multiply
  <2>2. layers[w] = a + (remaining \div 2) * (b + b)
    BY <1>1, <1>4, <1>7, Squaring
  <2>3. RepeatInv'
    BY <1>2, <1>5, <2>1, <2>2 DEF RepeatInv, Combining
  <2>4. JoinInv'
    BY <1>1, <1>2, <2>1 DEF JoinInv, Combining
  <2> QED
    BY <1>3, <2>3, <2>4 DEF LoopInv
<1> QED
  BY <1>6, <1>7

LEMMA LoopHalve == FrontierInv /\ LoopInv /\ Halve => LoopInv'
<1> SUFFICES ASSUME FrontierInv, LoopInv, Halve PROVE LoopInv'
  OBVIOUS
<1>1. /\ TypeOK /\ RepeatedInv /\ combined = {Zero} /\ pc = "halve" /\ remaining \in Nat
      /\ w \in Workloads /\ DOMAIN repeated = 1 .. (w - 1)
  <2>1. TypeOK /\ Phase /\ RepeatedInv /\ JoinInv /\ pc = "halve"
    BY DEF FrontierInv, Halve, LoopInv
  <2>2. remaining \in Nat
    BY <2>1 DEF TypeOK
  <2> QED
    BY <2>1, <2>2 DEF Phase, Repeating, JoinInv
<1>2. /\ front' = front /\ layers' = layers /\ approximate' = approximate
      /\ w' = w /\ result' = result /\ power' = power /\ combined' = combined
      /\ remaining' = remaining \div 2
  BY DEF Halve, input
<1>3. PICK a \in Nat, b \in Nat :
         Progress(a, b) /\ layers[w] = a + (remaining \div 2) * (b + b)
  BY <1>1 DEF LoopInv, RepeatInv
<1>4. CASE remaining' = 0
  <2>1. /\ repeated' = [k \in DOMAIN repeated \cup {w} |->
                          IF k = w THEN result ELSE repeated[k]]
        /\ pc' = "next"
    BY <1>4 DEF Halve
  <2>2. layers[w] = a
    BY <1>2, <1>3, <1>4, Squaring
  <2>3. Stands(result, Multiples(front[w], layers[w]))
    BY <1>3, <2>2 DEF Progress, Copies
  <2>4. RepeatedInv'
    BY <1>1, <1>2, <2>1, <2>3 DEF RepeatedInv, Stands
  <2>5. RepeatInv' /\ JoinInv'
    BY <1>1, <1>2, <2>1 DEF RepeatInv, JoinInv, Combining
  <2> QED
    BY <2>4, <2>5 DEF LoopInv
<1>5. CASE remaining' # 0
  <2>1. pc' = "merge" /\ into' = "power" /\ repeated' = repeated
    BY <1>5 DEF Halve, Combine
  <2>2. Progress(a, b)'
    BY <1>2, <1>3 DEF Progress, Stands, Copies
  <2>3. RepeatInv'
    BY <1>2, <1>3, <2>1, <2>2 DEF RepeatInv, Combining
  <2>4. RepeatedInv' /\ JoinInv'
    BY <1>1, <1>2, <2>1 DEF RepeatedInv, JoinInv, Combining, Stands
  <2> QED
    BY <2>3, <2>4 DEF LoopInv
<1> QED
  BY <1>4, <1>5

LEMMA LoopJoin == FrontierInv /\ LoopInv /\ Join => LoopInv'
<1> SUFFICES ASSUME FrontierInv, LoopInv, Join PROVE LoopInv'
  OBVIOUS
<1>1. /\ TypeOK /\ RepeatedInv /\ pc = "join" /\ w \in 1 .. NumWorkloads + 1
      /\ Stands(combined, TotalTo[w - 1])
  <2>1. TypeOK /\ Phase /\ RepeatedInv /\ JoinInv /\ pc = "join"
    BY DEF FrontierInv, Join, LoopInv
  <2> QED
    BY <2>1 DEF Phase, Joining, JoinInv
<1>2. /\ front' = front /\ layers' = layers /\ approximate' = approximate
      /\ w' = w /\ repeated' = repeated /\ combined' = combined /\ TotalTo' = TotalTo
  BY TotalStill DEF Join, input, loops
<1>3. RepeatedInv'
  BY <1>1, <1>2 DEF RepeatedInv, Stands
<1>4. \/ pc' = "merge" /\ into' = "combined"
      \/ pc' = "done" /\ w - 1 = NumWorkloads
  BY <1>1, NumberAssumption DEF Join, Combine
<1>5. RepeatInv'
  BY <1>4 DEF RepeatInv, Combining
<1>6. JoinInv'
  BY <1>1, <1>2, <1>4 DEF JoinInv, Combining, Stands
<1> QED
  BY <1>3, <1>5, <1>6 DEF LoopInv

\* The steps inside a combination leave the loops alone.
LEMMA LoopStill ==
  ASSUME FrontierInv, LoopInv, MergeBatch \/ Sweep \/ Compress \/ EndBatch \/ UNCHANGED vars
  PROVE  LoopInv'
<1>1. /\ UNCHANGED << input, loops, into, approximate >>
      /\ pc' = pc \/ (pc \in {"merge", "sweep"} /\ pc' \in {"merge", "sweep"})
  BY DEF MergeBatch, Sweep, Compress, EndBatch, vars, combineVars
<1>2. /\ front' = front /\ layers' = layers /\ approximate' = approximate /\ into' = into
      /\ w' = w /\ result' = result /\ power' = power /\ remaining' = remaining
      /\ repeated' = repeated /\ combined' = combined /\ TotalTo' = TotalTo
      /\ Combining' = Combining
  BY <1>1, TotalStill DEF input, loops, Combining
<1>3. \A a, b \in Nat : Progress(a, b)' <=> Progress(a, b)
  BY <1>2 DEF Progress, Stands, Copies
<1>4. RepeatInv'
  BY <1>1, <1>2, <1>3 DEF LoopInv, RepeatInv, Combining
<1>5. RepeatedInv'
  BY <1>2 DEF LoopInv, RepeatedInv, Stands
<1>6. JoinInv'
  BY <1>1, <1>2 DEF LoopInv, JoinInv, Stands, Combining
<1> QED
  BY <1>4, <1>5, <1>6 DEF LoopInv

LEMMA LoopAssign == FrontierInv /\ CombineInv /\ LoopInv /\ Assign => LoopInv'
<1> SUFFICES ASSUME FrontierInv, CombineInv, LoopInv, Assign PROVE LoopInv'
  OBVIOUS
<1>1. /\ TypeOK /\ Phase /\ RepeatInv /\ RepeatedInv /\ JoinInv
      /\ pc = "merge" /\ pairs = {} /\ Combining
  BY DEF FrontierInv, LoopInv, Assign, Combining
<1>2. /\ front' = front /\ layers' = layers /\ remaining' = remaining
      /\ repeated' = repeated /\ TotalTo' = TotalTo
      /\ approximate' = (approximate \/ thinned)
  BY TotalStill DEF Assign, input
<1>3. RepeatedInv'
  BY <1>1, <1>2 DEF RepeatedInv, Stands
<1>4. CASE into = "result" /\ Repeating
  <2>1. /\ w' = w /\ result' = current /\ power' = power /\ combined' = combined
        /\ pc' = "halve"
    BY <1>4 DEF Assign
  <2>2. PICK a \in Nat, b \in Nat :
           Progress(a, b) /\ layers[w] = (a + b) + (remaining \div 2) * (b + b)
    BY <1>1, <1>4 DEF RepeatInv
  <2>3. front[w] \in SUBSET Point
    BY <1>1, <1>4, LoopFacts DEF Repeating
  <2>4. /\ Copies(a) \in SUBSET Point /\ Copies(b) \in SUBSET Point
        /\ Sums(Copies(a), Copies(b)) = Copies(a + b)
    BY <2>3, MultiplesAdd DEF Copies
  <2>5. Stands(Left, Copies(a)) /\ Stands(Right, Copies(b))
    BY <1>4, <2>2 DEF Left, Right, Progress
  <2>6. /\ current \subseteq Copies(a + b)
        /\ ~approximate /\ ~thinned => current = NonDominated(Copies(a + b))
    BY <1>1, <2>4, <2>5, CombinationStands
  <2>7. a + b \in Nat /\ Progress(a + b, b)'
    <3>1. a + b \in Nat
      OBVIOUS
    <3>2. Stands(result, Copies(a + b))'
      BY <1>2, <2>1, <2>6 DEF Stands, Copies
    <3>3. Stands(power, Copies(b))'
      BY <1>2, <2>1, <2>2 DEF Progress, Stands, Copies
    <3> QED
      BY <3>1, <3>2, <3>3 DEF Progress
  <2>8. RepeatInv'
    BY <1>2, <2>1, <2>2, <2>7 DEF RepeatInv, Combining
  <2>9. JoinInv'
    BY <1>1, <1>4, <2>1 DEF JoinInv, Combining
  <2> QED
    BY <1>3, <2>8, <2>9 DEF LoopInv
<1>5. CASE into = "power" /\ Repeating
  <2>1. /\ w' = w /\ result' = result /\ power' = current /\ combined' = combined
        /\ pc' = "repeat"
    BY <1>5 DEF Assign
  <2>2. PICK a \in Nat, b \in Nat : Progress(a, b) /\ layers[w] = a + remaining * (b + b)
    BY <1>1, <1>5 DEF RepeatInv
  <2>3. front[w] \in SUBSET Point
    BY <1>1, <1>5, LoopFacts DEF Repeating
  <2>4. Copies(b) \in SUBSET Point /\ Sums(Copies(b), Copies(b)) = Copies(b + b)
    BY <2>3, MultiplesAdd DEF Copies
  <2>5. Stands(Left, Copies(b)) /\ Stands(Right, Copies(b))
    BY <1>5, <2>2 DEF Left, Right, Progress
  <2>6. /\ current \subseteq Copies(b + b)
        /\ ~approximate /\ ~thinned => current = NonDominated(Copies(b + b))
    BY <1>1, <2>4, <2>5, CombinationStands
  <2>7. b + b \in Nat /\ Progress(a, b + b)'
    <3>1. b + b \in Nat
      OBVIOUS
    <3>2. Stands(power, Copies(b + b))'
      BY <1>2, <2>1, <2>6 DEF Stands, Copies
    <3>3. Stands(result, Copies(a))'
      BY <1>2, <2>1, <2>2 DEF Progress, Stands, Copies
    <3> QED
      BY <3>1, <3>2, <3>3 DEF Progress
  <2>8. RepeatInv'
    BY <1>2, <2>1, <2>2, <2>7 DEF RepeatInv, Combining
  <2>9. JoinInv'
    BY <1>1, <1>5, <2>1 DEF JoinInv, Combining
  <2> QED
    BY <1>3, <2>8, <2>9 DEF LoopInv
<1>6. CASE into = "combined" /\ Joining /\ w \in Workloads
  <2>1. w' = w + 1 /\ combined' = current /\ pc' = "join"
    BY <1>6 DEF Assign
  <2>2. /\ w - 1 \in 0 .. NumWorkloads /\ w' - 1 = w
    BY <1>6, <2>1, NumberAssumption DEF Workloads
  <2> DEFINE M == Multiples(front[w], layers[w])
  <2>3. /\ TotalTo[w - 1] \in SUBSET Point /\ M \in SUBSET Point
        /\ TotalTo[w] = Sums(TotalTo[w - 1], M)
    BY <1>1, <1>6, <2>2, TotalStep, LoopFacts, MultiplesStep
  <2>4. Stands(Left, TotalTo[w - 1]) /\ Stands(Right, M)
    BY <1>1, <1>6 DEF Left, Right, JoinInv, RepeatedInv, Joining
  <2> HIDE DEF M
  <2>5. /\ current \subseteq TotalTo[w]
        /\ ~approximate /\ ~thinned => current = NonDominated(TotalTo[w])
    BY <1>1, <2>3, <2>4, CombinationStands
  <2>6. RepeatInv' /\ JoinInv'
    BY <1>2, <2>1, <2>2, <2>5 DEF RepeatInv, JoinInv, Combining, Stands
  <2> QED
    BY <1>3, <2>6 DEF LoopInv
<1> QED
  BY <1>1, <1>4, <1>5, <1>6 DEF Phase

LEMMA LoopInit == Init => LoopInv /\ CombineInv
BY DEF Init, LoopInv, RepeatInv, RepeatedInv, JoinInv, CombineInv, Combining

LEMMA LoopNext == FrontierInv /\ CombineInv /\ LoopInv /\ [Next]_vars => LoopInv'
BY LoopNextWorkload, LoopMultiply, LoopHalve, LoopJoin, LoopStill, LoopAssign DEF Next

\* Unless it is reported as approximate, the frontier composed for a network is
\* the front of all choices of one row per layer, for every number of workloads
\* and layers, every front, and every size of batches (_compose_full_frontier).
THEOREM ComposedExactly == Spec => []FrontierExact
<1>1. LoopInv => FrontierExact
  BY DEF LoopInv, JoinInv, Stands, FrontierExact, Totals
<1> QED
  BY <1>1, FrontierInvInit, FrontierInvNext, LoopInit, CombineNext, LoopNext, PTL DEF Spec

\* An approximate frontier, too, holds nothing that is not the total of a choice.
THEOREM ComposedSupported == Spec => []FrontierSupported
<1>1. LoopInv => FrontierSupported
  BY DEF LoopInv, JoinInv, Stands, FrontierSupported, Totals
<1> QED
  BY <1>1, FrontierInvInit, FrontierInvNext, LoopInit, CombineNext, LoopNext, PTL DEF Spec
=============================================================================
