----------------------------- MODULE ReuseCache -----------------------------
(***************************************************************************)
(* What the cache simulation promises: an access is a hit exactly if fewer *)
(* other things were touched since the last access to the same one than    *)
(* the tensor has room for.  The accesses are those of the reference       *)
(* schedule, numbered, so that nothing but their count is state.           *)
(***************************************************************************)
EXTENDS CacheGroups

VARIABLES
  mapping, arch,
  accesses,  \* per tensor, so far
  hits,      \* by tensor
  misses

vars == << mapping, arch, accesses, hits, misses >>

Room(t) == TensorBytes(mapping, arch, t) \div EntryBytes(mapping, arch, t)

\* Whether access i of t finds what an access j left.
Reuses(t, i) ==
  LET key == [j \in 0 .. i |-> AccessAt(mapping, arch, t, j)]
  IN  \E j \in 0 .. i - 1 :
        /\ key[j] = key[i]
        /\ Cardinality({key[k] : k \in j + 1 .. i - 1}) < Room(t)

Init ==
  /\ accesses = 0
  /\ hits = [t \in Tensors |-> 0] /\ misses = [t \in Tensors |-> 0]

Access ==
  LET reused == {t \in CachedTensors(mapping) : Reuses(t, accesses)}
      missed == CachedTensors(mapping) \ reused
  IN  /\ accesses < Iterations(mapping, AccessNest(arch))
      /\ accesses' = accesses + 1
      /\ hits' = [t \in Tensors |-> hits[t] + IF t \in reused THEN 1 ELSE 0]
      /\ misses' = [t \in Tensors |-> misses[t] + IF t \in missed THEN 1 ELSE 0]
      /\ UNCHANGED << mapping, arch >>

Spec == Init /\ [][Access]_vars
=============================================================================
