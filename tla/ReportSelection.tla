-------------------------- MODULE ReportSelection --------------------------
(***************************************************************************)
(* What the evaluation commands report of their rows: pairwise fronts per  *)
(* step or geometry, the fastest mapping per variant or config, and the    *)
(* lines of the random-set sweep.                                          *)
(***************************************************************************)
EXTENDS ReportPlan, FiniteSetsExt

CONSTANTS
  Scale  \* of relative changes of a latency, to count in whole numbers

Precedes(s, t) ==
  \E i \in DOMAIN s : s[i] < t[i] /\ \A j \in 1 .. i - 1 : s[j] = t[j]

Hash(row) == 2 * row.state.id + IF row.state.cached THEN 1 ELSE 0

CostKey(row) == << row.cost.latency, row.cost.footprint, row.cost.energy, Hash(row) >>

\* _evaluation_sort_key: the weighted cost first, with coefficients of one.
WeightedKey(row) ==
  << row.cost.latency + row.cost.footprint + row.cost.energy >> \o CostKey(row)

Successes(rows) == {i \in DOMAIN rows : rows[i].status = "ok"}

\* _dedupe_success_rows: of every state, the first of the least rows.
Deduped(rows, group(_), RowKey(_)) ==
  {rows[i] : i \in {i \in Successes(rows) : \A j \in Successes(rows) :
     (group(rows[j]) = group(rows[i]) /\ rows[j].state = rows[i].state) =>
       \/ Precedes(RowKey(rows[i]), RowKey(rows[j]))
       \/ RowKey(rows[i]) = RowKey(rows[j]) /\ i <= j}}

-----------------------------------------------------------------------------
(* pareto_export.py: pairwise_frontiers.                                   *)

Pairs == {<< "latency", "footprint" >>, << "latency", "energy" >>, << "footprint", "energy" >>}

NoWorse(r, s, p) == \A i \in 1 .. 2 : r.cost[p[i]] <= s.cost[p[i]]

Dominates2(r, s, p) == NoWorse(r, s, p) /\ ~NoWorse(s, r, p)

\* Rows of equal metrics: the first in the order of costs is kept.
Front2(rows, p) ==
  {r \in rows : \A s \in rows :
     /\ ~Dominates2(s, r, p)
     /\ (NoWorse(r, s, p) /\ NoWorse(s, r, p)) => ~Precedes(WeightedKey(s), WeightedKey(r))}

\* A front has the columns of PARETO_FIELDNAMES: what follows the hash is not in
\* them.
FrontRow(row) ==
  [group |-> row.group, step |-> row.step, attempt |-> row.attempt, path |-> row.path,
   status |-> row.status, cost |-> row.cost, state |-> row.state]

FrontRows(rows) == [i \in DOMAIN rows |-> FrontRow(rows[i])]

\* The fronts of every group: rows without a hash are in none.
Fronts(rows, group(_)) ==
  LET deduped == Deduped(rows, group, WeightedKey)
  IN  [g \in {group(rows[i]) : i \in Successes(rows)} |->
         [p \in Pairs |-> Front2({r \in deduped : group(r) = g /\ r.state # Unreadable}, p)]]

StepOf(row) == row.step
GroupOf(row) == row.group

\* _build_step_artifacts and _build_geometry_artifacts.
StepFronts(rows) == Fronts(FrontRows(rows), StepOf)
GeometryFronts(rows) == Fronts(FrontRows(rows), GroupOf)

-----------------------------------------------------------------------------
(* The latency sweeps.                                                     *)

Least(rows, RowKey(_)) ==
  CHOOSE r \in rows : \A s \in rows : ~Precedes(RowKey(s), RowKey(r))

Ok(rows, g) == {r \in ToSet(rows) : r.status = "ok" /\ r.group = g}

Failing(rows, groups) == \E g \in groups : Ok(rows, g) = {}

\* _select_best_latency_rows.
Winners(rows, groups) ==
  [g \in groups |-> Least({r \in Deduped(rows, GroupOf, CostKey) : r.group = g}, CostKey)]

\* _build_relative_metrics_row: the first config's costs over the second's.
RelativeFails(best) == \E metric \in DOMAIN NoCost : best[2].cost[metric] = 0

Relative(best) ==
  [metric \in DOMAIN NoCost |-> (Scale * best[1].cost[metric]) \div best[2].cost[metric]]

-----------------------------------------------------------------------------
(* The random-set sweep.  A line is a row for every variant, in order.     *)

\* _index_success_rows_by_state.
RowOf(rows, state, v) ==
  {r \in Deduped(rows, GroupOf, CostKey) : r.state = state /\ r.group = v.id}

Complete(rows, state, variants) ==
  \A i \in DOMAIN variants : RowOf(rows, state, variants[i]) # {}

Line(rows, state, variants) ==
  [i \in DOMAIN variants |-> CHOOSE r \in RowOf(rows, state, variants[i]) : TRUE]

Distance(m, n) == IF m > n THEN m - n ELSE n - m

Change(line, i) ==
  (Scale * Distance(line[i + 1].cost.latency, line[i].cost.latency)) \div line[i].cost.latency

Changes(line) == [i \in 1 .. Len(line) - 1 |-> Change(line, i)]

\* _score_latency_curve: the changes from one variant to the next, and the
\* largest of them.
Total(line) == FoldFunction(+, 0, Changes(line))
Largest(line) == Max({0} \cup Range(Changes(line)))

\* Variant: the least changes first.
ScoreAscending(line) == << Total(line), Largest(line) >>

Score(line) == << -Total(line), -Largest(line) >>

ScoreKey(rows, state, variants) ==
  Score(Line(rows, state, variants)) \o << 2 * state.id + IF state.cached THEN 1 ELSE 0 >>

CompleteStates(sample, rows, variants) ==
  {o.file.state : o \in {o \in ToSet(sample) : Complete(rows, o.file.state, variants)}}

\* _select_top_change_mappings.
TopChange(sample, rows, variants, topk) ==
  LET states == CompleteStates(sample, rows, variants)
      ordered == SetToSortSeq(states, LAMBDA s, t :
                   Precedes(ScoreKey(rows, s, variants), ScoreKey(rows, t, variants)))
  IN  SubSeq(ordered, 1, topk)

AtMidpoint(sample, rows, midpoint) ==
  {o \in ToSet(sample) : RowOf(rows, o.file.state, midpoint) # {}}

\* _select_midpoint_best_latency_mapping.
MidpointBest(sample, rows, midpoint) ==
  CHOOSE o \in AtMidpoint(sample, rows, midpoint) :
    \A p \in AtMidpoint(sample, rows, midpoint) :
      LET KeyOf(q) == CostKey(CHOOSE r \in RowOf(rows, q.file.state, midpoint) : TRUE)
      IN  ~Precedes(KeyOf(p), KeyOf(o))

SampleFails(sample, rows, variants, midpoint, topk) ==
  \/ \E s \in CompleteStates(sample, rows, variants) :
       \E i \in DOMAIN variants : Line(rows, s, variants)[i].cost.latency <= 0
  \/ Cardinality(CompleteStates(sample, rows, variants)) < topk
  \/ AtMidpoint(sample, rows, midpoint) = {}

\* _require_complete_success_line, of the rows of one mapping.
LineRefused(rows, variants) ==
  \E i \in DOMAIN variants : Ok(rows, variants[i].id) = {}

LineOf(rows, variants) ==
  [i \in DOMAIN variants |-> CHOOSE r \in Ok(rows, variants[i].id) : TRUE]
=============================================================================
