---------------------------- MODULE CacheGroups ----------------------------
(***************************************************************************)
(* How the cache of an architecture is divided, and what a workload asks   *)
(* of it (_allocate_cache_group_capacities in analytical_model.py,         *)
(* analytical_model/cache_sim.py).                                         *)
(*                                                                         *)
(* A mapping has cached (the flag) and groups, a sequence of records of    *)
(* tensors (a sequence) and weight.  An architecture has mode, "regfile"   *)
(* or "wram", cacheBytes and vectorBytes.                                  *)
(***************************************************************************)
EXTENDS Mapping

\* Where no tile is shared the cache changes nothing and is not simulated.
CacheEffective(m) == m.cached /\ (m.pu \/ m.system > 0)

CachedTensors(m) == UNION {ToSet(m.groups[i].tensors) : i \in DOMAIN m.groups}

GroupOf(m, t) == CHOOSE i \in DOMAIN m.groups : t \in ToSet(m.groups[i].tensors)

-----------------------------------------------------------------------------
(* Capacities: to the groups by weight, in a group to its tensors evenly,  *)
(* and the remainders to the first ones.                                   *)

Weights(m) == [i \in DOMAIN m.groups |-> m.groups[i].weight]
TotalWeight(m) == SumFunctionOnSet(Weights(m), DOMAIN m.groups)

BaseBytes(m, a) ==
  [i \in DOMAIN m.groups |-> (a.cacheBytes * m.groups[i].weight) \div TotalWeight(m)]

GroupBytes(m, a, i) ==
  LET remainder == a.cacheBytes - SumFunctionOnSet(BaseBytes(m, a), DOMAIN m.groups)
  IN  BaseBytes(m, a)[i] + (IF i <= remainder THEN 1 ELSE 0)

\* Variant: everyone gets one of the remainder.
EvenShareOfAll(total, n, k) == total \div n + (IF total % n > 0 THEN 1 ELSE 0)

EvenShare(total, n, k) == total \div n + (IF k <= total % n THEN 1 ELSE 0)

\* What a group has to share out: registers or bytes.
GroupUnits(m, a, i) ==
  IF a.mode = "regfile" THEN GroupBytes(m, a, i) \div a.vectorBytes ELSE GroupBytes(m, a, i)

\* Every tensor must get something, or the evaluation fails.
Allocated(m, a) ==
  \A i \in DOMAIN m.groups : GroupUnits(m, a, i) >= Len(m.groups[i].tensors)

TensorBytes(m, a, t) ==
  LET i == GroupOf(m, t)
      tensors == m.groups[i].tensors
      k == CHOOSE j \in DOMAIN tensors : tensors[j] = t
      units == EvenShare(GroupUnits(m, a, i), Len(tensors), k)
  IN  IF a.mode = "regfile" THEN units * a.vectorBytes ELSE units

-----------------------------------------------------------------------------
(* Accesses.                                                               *)

\* A tile in a vector register, or an element.
EntryBytes(m, a, t) ==
  IF a.mode = "regfile" THEN a.vectorBytes ELSE CeilDiv(m.bits[t], 8)

\* A register is loaded once for a tile; elements are walked inside it.
AccessNest(a) ==
  IF a.mode = "regfile" THEN LevelNest(1) ELSE LevelNest(1) \o LevelNest(0)

\* _iter_schedule, the reference: what access i of a tensor touches.
AccessAt(m, a, t, i) ==
  LET tile == ValuesAt(m, AccessNest(a), i, 1)
      element == ValuesAt(m, AccessNest(a), i, 0)
  IN  Indices(m, t, IF a.mode = "regfile" THEN tile
                    ELSE [d \in DimSet |-> tile[d] * m.bound[0][d] + element[d]])
=============================================================================
