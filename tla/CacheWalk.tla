----------------------------- MODULE CacheWalk -----------------------------
(***************************************************************************)
(* The cache simulation (_run_regfile_fast_path, _run_wram_fast_path and   *)
(* the caches they drive, in analytical_model/cache_sim.py): a nest of     *)
(* loops over one evaluation context that each loop updates for its own    *)
(* dimension, and a fully associative LRU cache per tensor.                *)
(*                                                                         *)
(* A step is one pass through the innermost loop body.  All entries of a   *)
(* tensor have one size, so that a cache is its keys, oldest first.        *)
(***************************************************************************)
EXTENDS CacheGroups

VARIABLES
  walk,     \* "idle", "on", "done" or "failed"
  point,    \* current_l1_vals and current_l0_vals, by level
  context,  \* tile_ctx, eval_ctx
  order,    \* by tensor, the resident keys, least recently used first
  hits,     \* per_tensor_stats, by tensor
  misses

cacheVars == << walk, point, context, order, hits, misses >>

Zeros == [d \in DimSet |-> 0]

CacheInit ==
  /\ walk = "idle"
  /\ point = [l \in 0 .. 1 |-> Zeros] /\ context = Zeros
  /\ order = [t \in Tensors |-> << >>]
  /\ hits = [t \in Tensors |-> 0] /\ misses = [t \in Tensors |-> 0]

CacheTypeOK ==
  /\ walk \in {"idle", "on", "done", "failed"}
  /\ point \in [0 .. 1 -> [DimSet -> Nat]] /\ context \in [DimSet -> Nat]
  /\ DOMAIN order = Tensors
  /\ \A t \in Tensors : \A i \in DOMAIN order[t] : order[t][i] \in Seq(Nat)
  /\ hits \in [Tensors -> Nat] /\ misses \in [Tensors -> Nat]

-----------------------------------------------------------------------------
\* A dimension that level 0 lists and level 1 does not raises, and so does an
\* entry larger than its cache, at the first access.
StartWalk(m, a) ==
  /\ walk = "idle"
  /\ walk' = IF /\ Allocated(m, a) /\ m.listed[0] \subseteq m.listed[1]
                /\ \A t \in CachedTensors(m) : EntryBytes(m, a, t) <= TensorBytes(m, a, t)
             THEN "on" ELSE "failed"
  /\ UNCHANGED << point, context, order, hits, misses >>

\* What the loop of dimension d writes to the context.
Synced(m, a, p, d) ==
  IF a.mode = "regfile" THEN p[1][d] ELSE p[1][d] * m.bound[0][d] + p[0][d]

\* The loops inside the one that goes on start over.
Advanced(m, a, k) ==
  LET nest == AccessNest(a)
      position(l, d) == CHOOSE j \in DOMAIN nest : nest[j] = << l, d >>
  IN  [l \in 0 .. 1 |-> [d \in DimSet |->
         IF << l, d >> \notin Range(nest) \/ position(l, d) < k THEN point[l][d]
         ELSE IF position(l, d) = k THEN point[l][d] + 1
         ELSE 0]]

Advance(m, a) ==
  LET nest == AccessNest(a)
      open == {k \in DOMAIN nest : point[nest[k][1]][nest[k][2]] + 1 < Extent(m, nest[k])}
      run == {nest[k][2] : k \in Max(open) .. Len(nest)}
  IN  IF open = {} THEN walk' = "done" /\ UNCHANGED << point, context >>
      ELSE /\ point' = Advanced(m, a, Max(open))
           /\ context' = [d \in DimSet |->
                            IF d \in run THEN Synced(m, a, point', d) ELSE context[d]]
           /\ UNCHANGED walk

-----------------------------------------------------------------------------
\* Variant: a hit does not renew an entry, as with first in, first out.
TouchedFifo(resident, key, room) ==
  IF Contains(resident, key) THEN resident
  ELSE Append(IF Len(resident) < room THEN resident ELSE Tail(resident), key)

\* _perform_single_access: a hit renews, a miss evicts from the old end.
Touched(resident, key, room) ==
  IF Contains(resident, key) THEN Append(RemoveFirst(resident, key), key)
  ELSE Append(IF Len(resident) < room THEN resident ELSE Tail(resident), key)

RoomOf(m, a, t) == TensorBytes(m, a, t) \div EntryBytes(m, a, t)

WalkStep(m, a) ==
  LET key(t) == Indices(m, t, context)
      hit(t) == t \in CachedTensors(m) /\ Contains(order[t], key(t))
      miss(t) == t \in CachedTensors(m) /\ ~Contains(order[t], key(t))
  IN  /\ walk = "on"
      /\ order' = [t \in Tensors |->
                     IF t \in CachedTensors(m) THEN Touched(order[t], key(t), RoomOf(m, a, t))
                     ELSE order[t]]
      /\ hits' = [t \in Tensors |-> hits[t] + IF hit(t) THEN 1 ELSE 0]
      /\ misses' = [t \in Tensors |-> misses[t] + IF miss(t) THEN 1 ELSE 0]
      /\ Advance(m, a)
=============================================================================
