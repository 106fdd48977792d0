---------------------------- MODULE ParetoSweep ----------------------------
(***************************************************************************)
(* The front of three metrics (_pareto_front_3d and _FenwickMinTree in     *)
(* dse/pareto_export.py).  Rows are taken by latency, then footprint, then *)
(* energy; a tree of prefix minima over the footprints tells whether a row *)
(* kept before has no larger footprint and no larger energy.               *)
(*                                                                         *)
(* Rows with equal metrics have been merged before the sweep, so a row is  *)
(* its metrics.                                                            *)
(***************************************************************************)
EXTENDS Integers, FiniteSets

VARIABLES
  rows,  \* what is swept
  rest,  \* rows not yet taken
  tree,  \* the nodes of the Fenwick tree that are not infinite
  kept   \* nondominated

sweepVars == << rows, rest, tree, kept >>

Point == [latency : Nat, mem : Nat, energy : Nat]

\* No metric is worse and one is better.
Dominates(p, q) ==
  /\ p.latency <= q.latency /\ p.mem <= q.mem /\ p.energy <= q.energy
  /\ p.latency < q.latency \/ p.mem < q.mem \/ p.energy < q.energy

NonDominated(S) == {p \in S : \A q \in S : ~Dominates(q, p)}

\* The order of the sweep.
Earlier(p, q) ==
  \/ p.latency < q.latency
  \/ p.latency = q.latency /\ p.mem < q.mem
  \/ p.latency = q.latency /\ p.mem = q.mem /\ p.energy < q.energy

First(S) == CHOOSE p \in S : \A q \in S \ {p} : Earlier(p, q)

-----------------------------------------------------------------------------
(* The tree.                                                               *)

\* position & -position
LowBit[i \in Nat \ {0}] == IF i % 2 = 1 THEN 1 ELSE 2 * LowBit[i \div 2]

\* The nodes a query visits, and those an update of a tree of n nodes visits.
QueryPath[i \in Nat] == IF i = 0 THEN {} ELSE {i} \cup QueryPath[i - LowBit[i]]

UpdatePath(i, n) ==
  LET up[j \in Nat \ {0}] == IF j > n THEN {} ELSE {j} \cup up[j + LowBit[j]]
  IN  up[i]

\* y_to_index, and its length.
Footprints == {p.mem : p \in rows}
IndexOf(p) == Cardinality({m \in Footprints : m <= p.mem})
Size == Cardinality(Footprints)

\* The query: fenwick.query(y_to_index[y_value]) <= z_value
Covered(p) == \E i \in QueryPath[IndexOf(p)] \cap DOMAIN tree : tree[i] <= p.energy

\* Variant: an update that stops below the last node.
InsertedShort(p) ==
  LET path == UpdatePath(IndexOf(p), Size - 1)
  IN  [i \in DOMAIN tree \cup path |->
         IF i \in path /\ (i \in DOMAIN tree => p.energy < tree[i])
         THEN p.energy ELSE tree[i]]

\* The update: fenwick.update(y_to_index[y_value], z_value)
Inserted(p) ==
  LET path == UpdatePath(IndexOf(p), Size)
  IN  [i \in DOMAIN tree \cup path |->
         IF i \in path /\ (i \in DOMAIN tree => p.energy < tree[i])
         THEN p.energy ELSE tree[i]]

-----------------------------------------------------------------------------
SweepTypeOK ==
  /\ rows \in SUBSET Point /\ IsFiniteSet(rows)
  /\ rest \subseteq rows /\ kept \subseteq rows \ rest
  /\ \E S \in SUBSET (1 .. Size) : tree \in [S -> Nat]

SweepInit ==
  /\ rows = {} /\ rest = {} /\ kept = {}
  /\ tree = [i \in {} |-> 0]

BeginSweep(S) ==
  /\ rows' = S /\ rest' = S /\ kept' = {}
  /\ tree' = [i \in {} |-> 0]

SweepRow ==
  /\ rest # {}
  /\ LET p == First(rest)
     IN  /\ rest' = rest \ {p}
         /\ IF Covered(p)
            THEN UNCHANGED << kept, tree >>
            ELSE kept' = kept \cup {p} /\ tree' = Inserted(p)
  /\ UNCHANGED rows

-----------------------------------------------------------------------------
\* At every row of the sweep what is kept is the front of what was taken, by
\* pairwise comparison (_pareto_front_generic, which serves other numbers of
\* metrics): ties in one or two metrics neither lose a row nor keep a dominated
\* one, and no later row dominates a kept one.
SweepExact == kept = NonDominated(rows \ rest)
=============================================================================
