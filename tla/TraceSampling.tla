---------------------------- MODULE TraceSampling ----------------------------
(***************************************************************************)
(* What a random search promises, whatever its workers, interruptions and  *)
(* restarts: every workload keeps the first Share[w] distinct legal draws  *)
(* of its own stream, in the order in which they are drawn (the contract   *)
(* stated in seeding.py: worker counts and scheduling order cannot change  *)
(* results).  What is kept goes to one log, in which the workloads may     *)
(* come in any order and from which nothing is ever removed.               *)
(***************************************************************************)
EXTENDS Naturals, Sequences, FiniteSets

CONSTANTS Workloads, LegalKeys, Share

VARIABLES draws,  \* draws[w][a]: what attempt a of workload w draws
          kept    \* the log: workload and key of each trace

\* Attempts whose draw is legal and not kept yet.
Unkept(w) ==
  {a \in DOMAIN draws[w] :
     /\ draws[w][a] \in LegalKeys
     /\ \A i \in DOMAIN kept : kept[i] # [w |-> w, key |-> draws[w][a]]}

KeptOf(w) == {i \in DOMAIN kept : kept[i].w = w}

Keep(w) ==
  /\ Cardinality(KeptOf(w)) < Share[w]
  /\ \E a \in Unkept(w) :
       /\ \A b \in Unkept(w) : a <= b
       /\ kept' = Append(kept, [w |-> w, key |-> draws[w][a]])
  /\ UNCHANGED draws

Init == kept = << >>

Next == \E w \in Workloads : Keep(w)

Spec == Init /\ [][Next]_<< draws, kept >>
=============================================================================
