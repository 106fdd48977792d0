---------------------------- MODULE NetworkPlan ----------------------------
(***************************************************************************)
(* What the end-to-end commands compute for a network: the layers that are *)
(* read from its table, their groups of one workload each, the frontiers   *)
(* of the groups put together, the mapping every layer is given, and the   *)
(* points of least energy * delay * area.                                  *)
(*                                                                         *)
(* A place is an architecture or a geometry.  A mapping is a pair of the   *)
(* seed of the search that finds it and its number in that search.  The    *)
(* sums of two frontiers are one batch here, of at least 1024 in the code; *)
(* batches and how a front is swept are the subject of FrontierCompose.    *)
(***************************************************************************)
EXTENDS Integers, FiniteSets, Sequences, SequencesExt

CONSTANTS
  LayerTable,        \* by network, the rows of layer_params.csv
  Outcome(_, _, _),  \* legality and cost of a mapping of a token at a place
  Area,              \* of a geometry
  MaxPoints,         \* approx_max_points
  Bounds,            \* where the value of floor(log(n) / log(1 + epsilon)) goes up
  Rank               \* of the id of a geometry among the ids

OpTypes == {"FC", "BATCH_MATMUL"}

\* _load_layer_shapes reads no further than it is asked to.
LayersFail(model, n) ==
  Len(LayerTable[model]) < n \/ \E i \in 1 .. n : LayerTable[model][i].op \notin OpTypes

LayersRead(model, n) == SubSeq(LayerTable[model], 1, n)

\* LayerShape.token, and the key of a group: the size is that of n, c and k; p
\* is left out.
Token(layer) == << layer.op, layer.size >>

\* _write_generated_workloads: a group for every key, in the order of the table.
Groups(layers) ==
  FoldLeft(LAMBDA groups, l :
             LET at == SelectInSeq(groups, LAMBDA g : g.token = Token(l))
             IN  IF at = 0 THEN Append(groups, [token |-> Token(l), layers |-> << l.index >>])
                 ELSE [groups EXCEPT ![at].layers = Append(@, l.index)],
           << >>, layers)

Tokens(groups) == {groups[i].token : i \in DOMAIN groups}

-----------------------------------------------------------------------------
(* A row has a cost, and parts: a token and a mapping for each.            *)

Metrics == {"latency", "footprint", "energy"}

Dominates3(p, q) ==
  (\A m \in Metrics : p[m] <= q[m]) /\ \E m \in Metrics : p[m] < q[m]

\* pareto_front_nd: rows of equal costs are one.
Front3(rows) ==
  LET costs == {r.cost : r \in rows}
  IN  {CHOOSE r \in rows : r.cost = c : c \in {c \in costs : \A d \in costs : ~Dominates3(d, c)}}

\* The evaluated mappings of a step.
Evaluations(place, token, mappings) ==
  {[mapping |-> m, result |-> Outcome(place, token, m)] : m \in mappings}

\* _load_per_workload_frontier_rows and _decorate_frontier_component.
RowsOf(evaluations, token) ==
  {[cost |-> e.result.cost, parts |-> << [token |-> token, mapping |-> e.mapping] >>] :
     e \in {e \in evaluations : e.result.ok}}

Identity == [cost |-> [m \in Metrics |-> 0], parts |-> << >>]

\* _sum_frontier_rows.
SumRow(r, s) ==
  [cost |-> [m \in Metrics |-> r.cost[m] + s.cost[m]], parts |-> r.parts \o s.parts]

Before(s, t) ==
  \E i \in DOMAIN s : s[i] < t[i] /\ \A j \in 1 .. i - 1 : s[j] = t[j]

\* _row_sort_key.
SortKey(row) == << row.cost.latency, row.cost.footprint, row.cost.energy >>

\* _epsilon_bucket, up to a numbering of the buckets.
Bucket(v) == Cardinality({b \in Bounds : b <= v})

\* _compress_frontier_epsilon: the first row of each bucket.
Thinned(rows) ==
  {r \in rows : \A s \in rows \ {r} :
     (\A m \in Metrics : Bucket(r.cost[m]) = Bucket(s.cost[m])) => Before(SortKey(r), SortKey(s))}

\* A frontier is exact, or approximate.
Exact(rows) == [rows |-> rows, approximate |-> FALSE]

\* Variant: a frontier that was thinned is said to be exact.
CombineSilent(f, g) ==
  LET exact == Front3({SumRow(r, s) : r \in f.rows, s \in g.rows})
  IN  Exact(IF Cardinality(exact) <= MaxPoints THEN exact ELSE Front3(Thinned(exact)))

\* _combine_frontiers and _merge_frontier_batch: a front that is too large is
\* thinned.
Combine(f, g) ==
  LET exact == Front3({SumRow(r, s) : r \in f.rows, s \in g.rows})
      large == Cardinality(exact) > MaxPoints
  IN  [rows |-> IF large THEN Front3(Thinned(exact)) ELSE exact,
       approximate |-> f.approximate \/ g.approximate \/ large]

\* _repeat_frontier, by repeated squaring.
Repeat(front, times) ==
  LET power[k \in Nat] == IF k = 0 THEN front ELSE Combine(power[k - 1], power[k - 1])
      bits == SelectSeq([k \in 1 .. times |-> k - 1], LAMBDA k : (times \div 2^k) % 2 = 1)
  IN  FoldLeft(LAMBDA f, k : Combine(f, power[k]), Exact({Identity}), bits)

\* _compose_full_frontier.
Compose(groups, fronts) ==
  FoldLeft(LAMBDA f, g : Combine(f, Repeat(Exact(fronts[g.token]), Len(g.layers))),
           Exact({Identity}), groups)

\* Variant: the offset stays.
AlwaysFirst(parts, i) == 1

\* The part is the n-th of its token, and goes to the n-th layer of the group.
Ordinal(parts, i) == Cardinality({j \in 1 .. i : parts[j].token = parts[i].token})

\* _build_layer_assignments.
Assigned(parts, groups) ==
  {LET group == CHOOSE g \in ToSet(groups) : g.token = parts[i].token
   IN  [layer |-> group.layers[Ordinal(parts, i)], part |-> parts[i]] : i \in DOMAIN parts}

\* _serialize_combined_rows.
Serialized(rows, groups) ==
  {[cost |-> r.cost, layers |-> Assigned(r.parts, groups)] : r \in rows}

-----------------------------------------------------------------------------
(* The geometry sweep.                                                     *)

Edap(cost, place) == cost.energy * cost.latency * Area[place]

Least(S, Key(_)) == CHOOSE x \in S : \A y \in S : ~Before(Key(y), Key(x))

\* _select_best_edap_point.
BestPoint(rows, place) ==
  Least(rows, LAMBDA r : << Edap(r.cost, place), r.cost.latency, r.cost.energy,
                            r.cost.footprint >>)

\* _select_model_winner, of the best points by geometry.
ModelWinner(points) ==
  Least(DOMAIN points, LAMBDA g : << Edap(points[g].cost, g), points[g].cost.latency,
                                     points[g].cost.energy, Area[g], Rank[g] >>)

Product(s) == FoldLeft(LAMBDA n, m : n * m, 1, s)

\* _build_mean_geometry_results and _select_mean_winner.  Geometric means of as
\* many numbers are in the order of the products.
MeanWinner(points, models, geometries) ==
  LET Over(g, value(_)) == Product([i \in DOMAIN models |-> value(points[models[i]][g].cost)])
  IN  Least(geometries, LAMBDA g :
        << Over(g, LAMBDA c : Edap(c, g)), Over(g, LAMBDA c : c.latency),
           Over(g, LAMBDA c : c.energy), Area[g], Rank[g] >>)
=============================================================================
