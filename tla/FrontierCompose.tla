-------------------------- MODULE FrontierCompose --------------------------
(***************************************************************************)
(* The frontier of a whole network (_compose_full_frontier in              *)
(* cli/run_end_to_end_workload_space.py): every layer runs one mapping of  *)
(* its workload, the metrics of the layers add up, and the combinations    *)
(* nothing dominates are wanted.  A workload that several layers share is  *)
(* multiplied by repeated squaring (_repeat_frontier); two frontiers are   *)
(* combined batch by batch, each batch swept together with the front so    *)
(* far (_combine_frontiers), and a front that is too large is thinned to a *)
(* row per bucket of the logarithms (_compress_frontier_epsilon).          *)
(*                                                                         *)
(* A row stands for its metrics: rows of equal metrics are interchangeable *)
(* and the sweep keeps one of them.                                        *)
(***************************************************************************)
EXTENDS ParetoSweep

CONSTANTS
  NumWorkloads,  \* workloads 1 .. NumWorkloads
  Fronts,        \* the per-workload frontiers considered
  Layers,        \* the multiplicities considered
  BatchSize,     \* at least 1024 in the code
  MaxPoints,     \* approx_max_points
  Bounds         \* where the value of floor(log(n) / log(1 + epsilon)) goes up

ASSUME NumberAssumption == NumWorkloads \in Nat
ASSUME FrontsAssumption ==
  \A F \in Fronts : F \subseteq Point /\ F # {} /\ IsFiniteSet(F) /\ F = NonDominated(F)
ASSUME LayersAssumption == Layers \subseteq Nat \ {0}
ASSUME SizesAssumption == BatchSize \in Nat \ {0} /\ MaxPoints \in Nat \ {0}
ASSUME BoundsAssumption == Bounds \subseteq Nat

VARIABLES
  front,      \* per_workload_frontiers
  layers,     \* multiplicity
  pc,
  w,          \* the workload at hand
  result,     \* of _repeat_frontier
  power,
  remaining,
  repeated,   \* repeated_frontiers
  combined,   \* combined_frontier
  into,       \* what the running _combine_frontiers is assigned to
  pairs,      \* pairs of rows it has not summed
  current,    \* current_frontier
  thinning,   \* the sweep is the one after the compression
  thinned,    \* `approximate` in _combine_frontiers
  approximate \* in _repeat_frontier and _compose_full_frontier

input == << front, layers >>
loops == << w, result, power, remaining, repeated, combined >>
combineVars == << into, pairs, current, thinning, thinned >>
vars == << input, pc, loops, combineVars, approximate, sweepVars >>

Workloads == 1 .. NumWorkloads
Zero == [latency |-> 0, mem |-> 0, energy |-> 0]

TypeOK ==
  /\ SweepTypeOK
  /\ front \in [Workloads -> Fronts] /\ layers \in [Workloads -> Layers]
  /\ pc \in {"next", "repeat", "halve", "join", "merge", "sweep", "done"}
  /\ w \in 0 .. NumWorkloads + 1
  /\ remaining \in Nat
  /\ \A S \in {result, power, combined, current} : S \subseteq Point /\ IsFiniteSet(S)
  /\ \E D \in SUBSET Workloads : repeated \in [D -> SUBSET Point]
  /\ into \in {"none", "result", "power", "combined"}
  /\ pairs \subseteq Point \X Point
  /\ thinning \in BOOLEAN /\ thinned \in BOOLEAN /\ approximate \in BOOLEAN

-----------------------------------------------------------------------------
Plus(p, q) ==
  [latency |-> p.latency + q.latency, mem |-> p.mem + q.mem, energy |-> p.energy + q.energy]

Sums(S, T) == {Plus(p, q) : p \in S, q \in T}

\* Left rows in order, and for each the right rows in order.
EarlierPair(x, y) == Earlier(x[1], y[1]) \/ (x[1] = y[1] /\ Earlier(x[2], y[2]))

Batch == {x \in pairs : Cardinality({y \in pairs : EarlierPair(y, x)}) < BatchSize}

\* _epsilon_bucket, up to a numbering of the buckets that some value falls in.
Bucket(v) == Cardinality({b \in Bounds : b <= v})

SameBucket(p, q) ==
  /\ Bucket(p.latency) = Bucket(q.latency)
  /\ Bucket(p.mem) = Bucket(q.mem)
  /\ Bucket(p.energy) = Bucket(q.energy)

\* Variant: buckets of two metrics.
CompressedLoosely(S) ==
  {p \in S : \A q \in S \ {p} :
     Bucket(p.latency) = Bucket(q.latency) /\ Bucket(p.mem) = Bucket(q.mem) => Earlier(p, q)}

\* The first row of each bucket.
Compressed(S) == {p \in S : \A q \in S \ {p} : SameBucket(p, q) => Earlier(p, q)}

-----------------------------------------------------------------------------
Init ==
  /\ SweepInit
  /\ front \in [Workloads -> Fronts]
  /\ layers \in [Workloads -> Layers]
  /\ pc = "next" /\ w = 0
  /\ result = {} /\ power = {} /\ remaining = 0
  /\ repeated = [k \in {} |-> {}]
  /\ combined = {Zero}
  /\ into = "none" /\ pairs = {} /\ current = {}
  /\ thinning = FALSE /\ thinned = FALSE /\ approximate = FALSE

-----------------------------------------------------------------------------
(* _compose_full_frontier and _repeat_frontier.                            *)

NextWorkload ==
  /\ pc = "next"
  /\ IF w < NumWorkloads
     THEN /\ w' = w + 1
          /\ result' = {Zero} /\ power' = front[w + 1] /\ remaining' = layers[w + 1]
          /\ pc' = "repeat"
     ELSE /\ w' = 1
          /\ pc' = "join"
          /\ UNCHANGED << result, power, remaining >>
  /\ UNCHANGED << input, repeated, combined, combineVars, approximate, sweepVars >>

Combine(S, T, target) ==
  /\ pairs' = S \X T
  /\ current' = {}
  /\ into' = target
  /\ thinned' = FALSE
  /\ pc' = "merge"

\* The power is taken up where the multiplicity has a bit.
Multiply ==
  /\ pc = "repeat"
  /\ IF remaining % 2 = 1
     THEN Combine(result, power, "result")
     ELSE pc' = "halve" /\ UNCHANGED << into, pairs, current, thinned >>
  /\ UNCHANGED << input, loops, thinning, approximate, sweepVars >>

Halve ==
  /\ pc = "halve"
  /\ remaining' = remaining \div 2
  /\ IF remaining' = 0
     THEN /\ repeated' = [k \in DOMAIN repeated \cup {w} |->
                            IF k = w THEN result ELSE repeated[k]]
          /\ pc' = "next"
          /\ UNCHANGED << into, pairs, current, thinned >>
     ELSE /\ Combine(power, power, "power")
          /\ UNCHANGED repeated
  /\ UNCHANGED << input, w, result, power, combined, thinning, approximate, sweepVars >>

Join ==
  /\ pc = "join"
  /\ IF w <= NumWorkloads
     THEN Combine(combined, repeated[w], "combined")
     ELSE pc' = "done" /\ UNCHANGED << into, pairs, current, thinned >>
  /\ UNCHANGED << input, loops, thinning, approximate, sweepVars >>

-----------------------------------------------------------------------------
(* _combine_frontiers and _merge_frontier_batch.                           *)

MergeBatch ==
  /\ pc = "merge"
  /\ pairs # {}
  /\ BeginSweep(current \cup {Plus(x[1], x[2]) : x \in Batch})
  /\ pairs' = pairs \ Batch
  /\ pc' = "sweep"
  /\ UNCHANGED << input, loops, into, current, thinning, thinned, approximate >>

Sweep ==
  /\ pc = "sweep"
  /\ SweepRow
  /\ UNCHANGED << input, pc, loops, combineVars, approximate >>

\* Variant: only the last batch tells whether rows were dropped.
CompressForgetful ==
  /\ pc = "sweep" /\ rest = {}
  /\ ~thinning /\ Cardinality(kept) > MaxPoints
  /\ BeginSweep(Compressed(kept))
  /\ thinning' = TRUE
  /\ thinned' = (pairs = {})
  /\ UNCHANGED << input, pc, loops, into, pairs, current, approximate >>

\* The exact front is too large.
Compress ==
  /\ pc = "sweep" /\ rest = {}
  /\ ~thinning /\ Cardinality(kept) > MaxPoints
  /\ BeginSweep(Compressed(kept))
  /\ thinning' = TRUE
  /\ thinned' = TRUE
  /\ UNCHANGED << input, pc, loops, into, pairs, current, approximate >>

EndBatch ==
  /\ pc = "sweep" /\ rest = {}
  /\ thinning \/ Cardinality(kept) <= MaxPoints
  /\ current' = kept
  /\ thinning' = FALSE
  /\ pc' = "merge"
  /\ UNCHANGED << input, loops, into, pairs, thinned, approximate, sweepVars >>

Assign ==
  /\ pc = "merge"
  /\ pairs = {}
  /\ result' = IF into = "result" THEN current ELSE result
  /\ power' = IF into = "power" THEN current ELSE power
  /\ combined' = IF into = "combined" THEN current ELSE combined
  /\ w' = IF into = "combined" THEN w + 1 ELSE w
  /\ pc' = CASE into = "result" -> "halve" [] into = "power" -> "repeat" [] OTHER -> "join"
  /\ into' = "none" /\ current' = {}
  /\ approximate' = (approximate \/ thinned)
  /\ UNCHANGED << input, remaining, repeated, pairs, thinning, thinned, sweepVars >>

Next ==
  \/ NextWorkload \/ Multiply \/ Halve \/ Join
  \/ MergeBatch \/ Sweep \/ Compress \/ EndBatch \/ Assign

Spec == Init /\ [][Next]_vars

-----------------------------------------------------------------------------
\* The metrics of every choice of n rows of S, and of every choice of a row for
\* each layer of the first k workloads.
Multiples(S, n) ==
  LET total[k \in Nat] == IF k = 0 THEN {Zero} ELSE Sums(total[k - 1], S)
  IN  total[n]

TotalTo[k \in 0 .. NumWorkloads] ==
  IF k = 0 THEN {Zero} ELSE Sums(TotalTo[k - 1], Multiples(front[k], layers[k]))

Totals == TotalTo[NumWorkloads]

\* Unless it is reported as approximate, the frontier of the network is exactly
\* the front of all choices ("approximate" in the summary), in whatever batches
\* and powers it was put together.
FrontierExact == pc = "done" /\ ~approximate => combined = NonDominated(Totals)

\* An approximate frontier, too, holds only metrics that a choice of one row
\* per layer has.
FrontierSupported == pc = "done" => combined \subseteq Totals

Left == IF into = "combined" THEN combined ELSE IF into = "result" THEN result ELSE power
Right == IF into = "combined" THEN repeated[w] ELSE power

NoHigherBucket(p, q) ==
  /\ Bucket(p.latency) <= Bucket(q.latency)
  /\ Bucket(p.mem) <= Bucket(q.mem)
  /\ Bucket(p.energy) <= Bucket(q.energy)

\* One combination loses no more than one bucket per metric, a factor of
\* 1 + epsilon, however many of its batches were compressed and in whatever
\* order: no compression adds to the loss of an earlier one.
LossBounded ==
  pc = "merge" /\ pairs = {} =>
    \A p \in Sums(Left, Right) : \E q \in current : NoHigherBucket(q, p)
=============================================================================
